-------------------------- MODULE MatterWorkProofs --------------------------
(***************************************************************************)
(* The safety properties of the work on one matter, for any number of      *)
(* requests: review notes, supervisor review and sign-off, the chronology, *)
(* the assistant, the context store, the readers of the timeline and the   *)
(* anonymisation.                                                          *)
(***************************************************************************)
EXTENDS ReviewNotes, ReviewRecords, Chronology, AssistantTurn, MatterContext,
        MatterExport, Anonymisation, FiniteSetTheorems, SequenceTheorems,
        WellFoundedInduction, TLAPS

-----------------------------------------------------------------------------
(* Numbers.                                                                *)

\* A set of natural numbers has a least one.
LEMMA LeastNatural ==
  ASSUME NEW S \in SUBSET Nat, S # {}
  PROVE  \E n \in S : \A m \in S : n <= m
<1> DEFINE R == OpToRel(<, Nat)
<1>1. IsWellFoundedOn(R, Nat)
  BY NatLessThanWellFounded
<1>2. \A x, y \in Nat : x < y => <<x, y>> \in R
  BY DEF OpToRel
<1> HIDE DEF R
<1>3. PICK x \in S : \A y \in S : ~ (<<y, x>> \in R)
  BY <1>1, WFMin, Zenon
<1>4. \A y \in S : ~ (y < x)
  BY <1>2, <1>3, Zenon
<1> HIDE <1>1, <1>2, <1>3
<1> QED BY <1>4

\* Max finds the element that no other exceeds.
LEMMA MaxIs ==
  ASSUME NEW S \in SUBSET Nat, NEW n \in S, \A m \in S : m <= n
  PROVE  Max(S) = n
<1>1. \A x \in S : (\A y \in S : x >= y) => x = n
  OBVIOUS
<1>2. \E x \in S : \A y \in S : x >= y
  OBVIOUS
<1> QED BY <1>1, <1>2 DEF Max

\* Min finds a lower bound of the set, in it.
LEMMA MinIs ==
  ASSUME NEW S \in SUBSET Nat, S # {}
  PROVE  Min(S) \in S /\ \A m \in S : Min(S) <= m
<1>1. \E x \in S : \A y \in S : x <= y
  BY LeastNatural
<1> QED BY <1>1 DEF Min

-----------------------------------------------------------------------------
(* Review notes.                                                           *)

NoteTypes ==
  /\ text \in Bodies2
  /\ notes \in [Posts -> [status : {"absent", "open", "resolved"},
                          resolver : Posts \cup {NoPost}, body : Posts \cup {NoPost},
                          sha : Bodies2 \cup {"none"}, end : Nat]]
  /\ post \in [Posts -> [pc : {"ready", "insert", "patch", "resolve", "reopen", "start",
                               "heartbeat", "end", "done"},
                         row : Posts \cup {NoPost}, sha : Bodies2 \cup {"none"}, end : Nat]]
  /\ \A p \in Posts : post[p].pc \in {"patch", "resolve", "reopen"} => post[p].row \in Posts

\* A hash was taken with an anchor in the very text it is the hash of, in a
\* request and in the note it writes.
Anchored(row) == row.sha # "none" => row.end \in 1..Length[row.sha]

NoteInv ==
  /\ NoteTypes
  /\ \A p \in Posts : Anchored(post[p]) /\ Anchored(notes[p])

\* No note, no request.
LEMMA NoteInvInit == NoteInit => NoteInv
  BY NotesAssumption
  DEF NoteInit, NoteInv, NoteTypes, Anchored, NoNote, FreshPost

\* A request that is received has read a text, or has no anchor.
LEMMA ReceiveKeeps ==
  ASSUME NoteInv, NEW p \in Posts, NEW read, Receive(p, read),
         read \in [pc : {"insert", "patch", "resolve", "reopen", "start", "heartbeat", "end"},
                   row : Posts \cup {NoPost}, sha : Bodies2 \cup {"none"}, end : Nat],
         read.pc \in {"patch", "resolve", "reopen"} => read.row \in Posts,
         Anchored(read)
  PROVE  NoteInv'
  BY DEF NoteInv, NoteTypes, Anchored, Receive

\* Every step of a request or of the document keeps the anchors in their text.
LEMMA NoteInvStep == NoteInv /\ [NoteNext]_noteVars => NoteInv'
<1> SUFFICES ASSUME NoteInv, [NoteNext]_noteVars PROVE NoteInv'
  OBVIOUS
<1> USE NotesAssumption
<1>1. ASSUME NEW p \in Posts, PostComment(p) PROVE NoteInv'
  <2>1. CASE Receive(p, [FreshPost EXCEPT !.pc = "insert"])
    <3> DEFINE read == [FreshPost EXCEPT !.pc = "insert"]
    <3>1. /\ read \in [pc : {"insert"}, row : {NoPost}, sha : {"none"}, end : Nat]
          /\ Anchored(read)
      BY DEF FreshPost, Anchored
    <3> QED BY <2>1, <3>1, ReceiveKeeps
  <2>2. ASSUME NEW end \in 1..Length[text],
               Receive(p, [FreshPost EXCEPT !.pc = "insert", !.sha = text, !.end = end])
        PROVE  NoteInv'
    <3> DEFINE read == [FreshPost EXCEPT !.pc = "insert", !.sha = text, !.end = end]
    <3>1. text \in Bodies2 /\ end \in Nat
      BY DEF NoteInv, NoteTypes
    <3>2. /\ read \in [pc : {"insert"}, row : {NoPost}, sha : Bodies2, end : Nat]
          /\ read.sha = text /\ read.end = end
      BY <3>1 DEF FreshPost
    <3>3. Anchored(read)
      BY <3>2 DEF Anchored
    <3> QED BY <2>2, <3>2, <3>3, ReceiveKeeps
  <2> QED BY <1>1, <2>1, <2>2 DEF PostComment
<1>2. ASSUME NEW p \in Posts, InsertComment(p) PROVE NoteInv'
  BY <1>2 DEF InsertComment, AnswerPost, NoteInv, NoteTypes, Anchored
<1>3. ASSUME NEW p \in Posts, LoadComment(p) PROVE NoteInv'
  <2>1. ASSUME NEW n \in Posts, NEW pc \in {"patch", "resolve", "reopen"},
               Receive(p, [FreshPost EXCEPT !.pc = pc, !.row = n])
        PROVE  NoteInv'
    <3> DEFINE read == [FreshPost EXCEPT !.pc = pc, !.row = n]
    <3>1. /\ read \in [pc : {"patch", "resolve", "reopen"}, row : Posts, sha : {"none"},
                        end : Nat]
          /\ Anchored(read)
      BY DEF FreshPost, Anchored
    <3> QED BY <2>1, <3>1, ReceiveKeeps
  <2> QED BY <1>3, <2>1 DEF LoadComment
<1>4. ASSUME NEW p \in Posts, PatchComment(p) PROVE NoteInv'
  BY <1>4 DEF PatchComment, AnswerPost, NoteInv, NoteTypes, Anchored
<1>5. ASSUME NEW p \in Posts, ResolveComment(p) PROVE NoteInv'
  BY <1>5 DEF ResolveComment, AnswerPost, NoteInv, NoteTypes, Anchored
<1>6. ASSUME NEW p \in Posts, ReopenComment(p) PROVE NoteInv'
  BY <1>6 DEF ReopenComment, AnswerPost, NoteInv, NoteTypes, Anchored
<1>7. ASSUME NEW p \in Posts, LoadSession(p) PROVE NoteInv'
  <2>1. CASE Receive(p, [FreshPost EXCEPT !.pc = "start"])
    <3> DEFINE read == [FreshPost EXCEPT !.pc = "start"]
    <3>1. /\ read \in [pc : {"start"}, row : {NoPost}, sha : {"none"}, end : Nat]
          /\ Anchored(read)
      BY DEF FreshPost, Anchored
    <3> QED BY <2>1, <3>1, ReceiveKeeps
  <2>2. ASSUME NEW s \in Posts, NEW pc \in {"heartbeat", "end"},
               Receive(p, [FreshPost EXCEPT !.pc = pc, !.row = s])
        PROVE  NoteInv'
    <3> DEFINE read == [FreshPost EXCEPT !.pc = pc, !.row = s]
    <3>1. /\ read \in [pc : {"heartbeat", "end"}, row : Posts, sha : {"none"}, end : Nat]
          /\ Anchored(read)
      BY DEF FreshPost, Anchored
    <3> QED BY <2>2, <3>1, ReceiveKeeps
  <2> QED BY <1>7, <2>1, <2>2 DEF LoadSession
<1>8. ASSUME NEW p \in Posts, StartSession(p) \/ Heartbeat(p) \/ EndSession(p)
      PROVE  NoteInv'
  BY <1>8 DEF StartSession, Heartbeat, EndSession, AnswerPost, NoteInv, NoteTypes, Anchored
<1>9. CASE ReplaceBody
  BY <1>9 DEF ReplaceBody, NoteInv, NoteTypes, Anchored
<1>10. CASE SessionAges \/ UNCHANGED noteVars
  BY <1>10 DEF SessionAges, noteVars, NoteInv, NoteTypes, Anchored
<1> QED
  BY <1>1, <1>2, <1>3, <1>4, <1>5, <1>6, <1>7, <1>8, <1>9, <1>10 DEF NoteNext

\* A note that carries the hash of the present text points into that text,
\* whatever was uploaded between the check of its anchor and the commit.
THEOREM NotesAnchored == NoteSpec => []AnchorInText
<1>1. NoteInv => AnchorInText
  BY NotesAssumption DEF NoteInv, NoteTypes, Anchored, AnchorInText
<1> QED BY <1>1, NoteInvInit, NoteInvStep, PTL DEF NoteSpec
-----------------------------------------------------------------------------
(* Supervisor review and sign-off.                                         *)

ReadRows == [pc : {"ready", "insert", "decide", "opening", "signing", "done"},
             by : Users \cup {NoUser}, review : Tasks \cup {NoUser},
             verdict : Terminal \cup SignoffDecisions \cup {""},
             at : Nat, latency : Nat]

ReviewTypes ==
  /\ reviews \in [Tasks -> [state : Terminal \cup {"absent", "pending"},
                            requester : Users \cup {NoUser}, decider : Users \cup {NoUser}]]
  /\ trail \in Seq([action : Terminal \cup {"requested"}, review : Tasks,
                    by : Users \cup {NoUser}])
  /\ opens \subseteq [by : Users \cup {NoUser}, at : Nat, id : Tasks]
  /\ clock \in Nat
  /\ task \in [Tasks -> ReadRows]
  /\ \A t \in Tasks : task[t].pc = "decide" =>
       task[t].review \in Tasks /\ task[t].verdict \in Terminal

\* The entry at i is the last about the review, and says what its row says.
LastWord(id, i) ==
  /\ trail[i].review = id
  /\ trail[i].action = reviews[id].state
  /\ trail[i].by = reviews[id].decider
  /\ \A j \in DOMAIN trail : trail[j].review = id => j <= i

Explained ==
  \A id \in Tasks : reviews[id].state \in Terminal =>
    \E i \in DOMAIN trail : LastWord(id, i)

ReviewInv == ReviewTypes /\ Explained

\* Nothing is decided yet.
LEMMA ReviewInvInit == ReviewInit => ReviewInv
<1> SUFFICES ASSUME ReviewInit PROVE ReviewInv
  OBVIOUS
<1>1. Ready \in ReadRows /\ Ready.pc = "ready"
  BY ReviewAssumption DEF Ready, ReadRows, NoTime
<1>2. \A t \in Tasks : reviews[t] = NoReview /\ NoReview.state \notin Terminal
  BY DEF ReviewInit, NoReview, Terminal
<1>3. ReviewTypes
  BY <1>1 DEF ReviewInit, ReviewTypes, NoReview
<1> QED BY <1>2, <1>3 DEF ReviewInv, Explained

\* The earliest of some opens is the time of one of them, and no later than any.
LEMMA EarliestOpen ==
  ASSUME NEW O, O # {}, \A o \in O : o.at \in Nat
  PROVE  /\ Min({o.at : o \in O}) \in Nat
         /\ \E o \in O : Min({o2.at : o2 \in O}) = o.at
         /\ \A o \in O : Min({o2.at : o2 \in O}) <= o.at
<1> DEFINE T == {o.at : o \in O}
<1>1. T \in SUBSET Nat /\ T # {}
  OBVIOUS
<1>2. Min(T) \in T /\ \A m \in T : Min(T) <= m
  BY <1>1, MinIs
<1> QED BY <1>1, <1>2

\* What a request has read ends with it.
LEMMA FinishKeeps ==
  ASSUME ReviewTypes, NEW t \in Tasks, Finish(t)
  PROVE  /\ task' \in [Tasks -> ReadRows]
         /\ \A k \in Tasks : task'[k].pc = "decide" =>
              task'[k].review \in Tasks /\ task'[k].verdict \in Terminal
<1>0. task[t] \in ReadRows
  BY DEF ReviewTypes
<1>1. [task[t] EXCEPT !.pc = "done"] \in ReadRows
  BY <1>0 DEF ReadRows
<1>2. task' = [task EXCEPT ![t] = [task[t] EXCEPT !.pc = "done"]]
  BY DEF Finish
<1>3. task' \in [Tasks -> ReadRows]
  BY <1>1, <1>2 DEF ReviewTypes
<1>4. \A k \in Tasks : task'[k].pc = "decide" => task'[k] = task[k]
  BY <1>2 DEF ReviewTypes, ReadRows
<1> QED BY <1>3, <1>4 DEF ReviewTypes

\* Reading rows decides nothing.
LEMMA TakeKeeps ==
  ASSUME ReviewInv, NEW t \in Tasks, NEW read \in ReadRows, Take(t, read),
         read.pc = "decide" => read.review \in Tasks /\ read.verdict \in Terminal
  PROVE  ReviewInv'
  BY DEF ReviewInv, ReviewTypes, Explained, LastWord, Take

\* An entry that is appended becomes the last word on its review, and leaves
\* the last words on the others.
LEMMA AppendKeeps ==
  ASSUME ReviewInv, NEW id \in Tasks, NEW row, trail' = Append(trail, row),
         row \in [action : Terminal \cup {"requested"}, review : Tasks,
                  by : Users \cup {NoUser}],
         row.review = id,
         ReviewTypes',
         \A other \in Tasks : other # id => reviews'[other] = reviews[other],
         reviews'[id].state \in Terminal =>
           row.action = reviews'[id].state /\ row.by = reviews'[id].decider
  PROVE  ReviewInv'
<1>1. /\ Len(trail) \in Nat /\ DOMAIN trail = 1..Len(trail)
      /\ DOMAIN trail' = 1..Len(trail) + 1
      /\ trail'[Len(trail) + 1] = row
      /\ \A i \in 1..Len(trail) : trail'[i] = trail[i]
  BY AppendProperties, LenProperties DEF ReviewInv, ReviewTypes
<1>2. ASSUME NEW other \in Tasks, other # id, reviews'[other].state \in Terminal
      PROVE  \E i \in DOMAIN trail' : LastWord(other, i)'
  <2>1. PICK i \in DOMAIN trail : LastWord(other, i)
    BY <1>2 DEF ReviewInv, Explained
  <2>2. LastWord(other, i)'
    BY <1>1, <1>2, <2>1 DEF LastWord
  <2> QED BY <1>1, <2>1, <2>2
<1>3. ASSUME reviews'[id].state \in Terminal
      PROVE  \E i \in DOMAIN trail' : LastWord(id, i)'
  <2>1. PICK n \in Nat : n = Len(trail) + 1
    BY <1>1
  <2>2. LastWord(id, n)'
    BY <1>1, <1>3, <2>1 DEF LastWord
  <2> QED BY <1>1, <2>1, <2>2
<1> QED BY <1>2, <1>3 DEF ReviewInv, Explained

\* Every step keeps the last word on a review and its row together.
LEMMA ReviewInvStep == ReviewInv /\ [ReviewNext]_reviewVars => ReviewInv'
<1> SUFFICES ASSUME ReviewInv, [ReviewNext]_reviewVars PROVE ReviewInv'
  OBVIOUS
<1> USE ReviewAssumption
<1>0. NoTime \in Nat /\ Superusers \cup {Author} \subseteq Users
  BY DEF NoTime
<1>1. ASSUME NEW t \in Tasks, RequestReview(t) PROVE ReviewInv'
  <2>1. PICK u \in Users : Take(t, [Ready EXCEPT !.pc = "insert", !.by = u])
    BY <1>0, <1>1 DEF RequestReview
  <2> DEFINE read == [Ready EXCEPT !.pc = "insert", !.by = u]
  <2>2. read \in ReadRows /\ read.pc # "decide"
    BY <1>0 DEF ReadRows, Ready
  <2> QED BY <2>1, <2>2, TakeKeeps
<1>2. ASSUME NEW t \in Tasks, InsertReview(t) PROVE ReviewInv'
  <2> DEFINE row == Row("requested", t, task[t].by)
  <2>1. task[t].by \in Users \cup {NoUser}
    BY DEF ReviewInv, ReviewTypes, ReadRows
  <2>2. /\ row \in [action : Terminal \cup {"requested"}, review : Tasks,
                    by : Users \cup {NoUser}]
        /\ row.review = t
    BY <2>1 DEF Row
  <2>3. trail' \in Seq([action : Terminal \cup {"requested"}, review : Tasks,
                        by : Users \cup {NoUser}])
    BY <1>2, <2>2, AppendProperties DEF InsertReview, ReviewInv, ReviewTypes
  <2> HIDE DEF row
  <2>4. ReviewTypes'
    BY <1>2, <2>1, <2>3, FinishKeeps DEF InsertReview, ReviewInv, ReviewTypes
  <2>5. /\ \A other \in Tasks : other # t => reviews'[other] = reviews[other]
        /\ reviews'[t].state = "pending"
    BY <1>2 DEF InsertReview, ReviewInv, ReviewTypes
  <2>6. trail' = Append(trail, row)
    BY <1>2 DEF InsertReview, row
  <2> QED BY <2>2, <2>4, <2>5, <2>6, AppendKeeps DEF Terminal
<1>3. ASSUME NEW t \in Tasks, LoadReview(t) PROVE ReviewInv'
  <2>1. PICK u \in Users, id \in Tasks, v \in Terminal :
          Take(t, [Ready EXCEPT !.pc = "decide", !.by = u, !.review = id, !.verdict = v])
    BY <1>0, <1>3 DEF LoadReview, PendingReviews
  <2> DEFINE read == [Ready EXCEPT !.pc = "decide", !.by = u, !.review = id, !.verdict = v]
  <2>2. read \in ReadRows /\ read.review = id /\ read.verdict = v
    BY <1>0 DEF ReadRows, Ready
  <2> QED BY <2>1, <2>2, TakeKeeps
<1>4. ASSUME NEW t \in Tasks, DecideReview(t) PROVE ReviewInv'
  <2> DEFINE id == task[t].review
             row == Row(task[t].verdict, id, task[t].by)
  <2>1. id \in Tasks /\ task[t].verdict \in Terminal /\ task[t].by \in Users \cup {NoUser}
    BY <1>4 DEF DecideReview, ReviewInv, ReviewTypes, ReadRows
  <2>2. /\ row \in [action : Terminal \cup {"requested"}, review : Tasks,
                    by : Users \cup {NoUser}]
        /\ row.review = id /\ row.action = task[t].verdict /\ row.by = task[t].by
    BY <2>1 DEF Row
  <2>3. trail' \in Seq([action : Terminal \cup {"requested"}, review : Tasks,
                        by : Users \cup {NoUser}])
    BY <1>4, <2>2, AppendProperties DEF DecideReview, ReviewInv, ReviewTypes
  <2>6. trail' = Append(trail, row)
    BY <1>4 DEF DecideReview
  <2> HIDE DEF row
  <2>4. reviews' \in [Tasks -> [state : Terminal \cup {"absent", "pending"},
                            requester : Users \cup {NoUser}, decider : Users \cup {NoUser}]]
    BY <1>4, <2>1 DEF DecideReview, ReviewInv, ReviewTypes
  <2>7. ReviewTypes'
    BY <1>4, <2>3, <2>4, FinishKeeps DEF DecideReview, ReviewInv, ReviewTypes
  <2>5. /\ \A other \in Tasks : other # id => reviews'[other] = reviews[other]
        /\ reviews'[id].state = task[t].verdict /\ reviews'[id].decider = task[t].by
    BY <1>4, <2>1 DEF DecideReview, ReviewInv, ReviewTypes
  <2> HIDE DEF id
  <2> QED BY <2>1, <2>2, <2>5, <2>6, <2>7, AppendKeeps
<1>5. ASSUME NEW t \in Tasks, OpenSurface(t) PROVE ReviewInv'
  <2>1. Take(t, [Ready EXCEPT !.pc = "opening", !.by = Author, !.at = clock])
    BY <1>5 DEF OpenSurface
  <2> DEFINE read == [Ready EXCEPT !.pc = "opening", !.by = Author, !.at = clock]
  <2>2. read \in ReadRows /\ read.pc # "decide"
    BY <1>0 DEF ReadRows, Ready, ReviewInv, ReviewTypes
  <2> QED BY <2>1, <2>2, TakeKeeps
<1>6. ASSUME NEW t \in Tasks, CommitOpen(t) PROVE ReviewInv'
  <2>1. [by |-> task[t].by, at |-> task[t].at, id |-> t]
          \in [by : Users \cup {NoUser}, at : Nat, id : Tasks]
    BY DEF ReviewInv, ReviewTypes, ReadRows
  <2>2. opens' \subseteq [by : Users \cup {NoUser}, at : Nat, id : Tasks]
    BY <1>6, <2>1 DEF CommitOpen, ReviewInv, ReviewTypes
  <2>3. ReviewTypes'
    BY <1>6, <2>2, FinishKeeps DEF CommitOpen, ReviewInv, ReviewTypes
  <2> QED BY <1>6, <2>3 DEF CommitOpen, ReviewInv, Explained, LastWord
<1>7. ASSUME NEW t \in Tasks, Sign(t) PROVE ReviewInv'
  <2>1. PICK d \in SignoffDecisions :
          Take(t, [Ready EXCEPT !.pc = "signing", !.by = Author, !.verdict = d, !.at = clock,
                !.latency = Latency(OpenedAt(Author), clock)])
    BY <1>7 DEF Sign
  <2>2. OpenedAt(Author) \in Nat /\ clock \in Nat
    <3>1. clock \in Nat /\ \A o \in OpensOf(Author) : o.at \in Nat
      BY DEF ReviewInv, ReviewTypes, OpensOf
    <3> QED BY <1>0, <3>1, EarliestOpen DEF OpenedAt
  <2>3. Latency(OpenedAt(Author), clock) \in Nat
    BY <1>0, <2>2 DEF Latency
  <2> DEFINE read == [Ready EXCEPT !.pc = "signing", !.by = Author, !.verdict = d, !.at = clock,
                !.latency = Latency(OpenedAt(Author), clock)]
  <2>4. read \in ReadRows /\ read.pc # "decide"
    BY <1>0, <2>2, <2>3 DEF ReadRows, Ready
  <2> QED BY <2>1, <2>4, TakeKeeps
<1>8. ASSUME NEW t \in Tasks, CommitSignoff(t) PROVE ReviewInv'
  <2>1. ReviewTypes'
    BY <1>8, FinishKeeps DEF CommitSignoff, ReviewInv, ReviewTypes
  <2> QED BY <1>8, <2>1 DEF CommitSignoff, ReviewInv, Explained, LastWord
<1>9. ASSUME NEW t \in Tasks, DropTask(t) PROVE ReviewInv'
  <2>1. ReviewTypes'
    BY <1>9, FinishKeeps DEF DropTask, ReviewInv, ReviewTypes
  <2> QED BY <1>9, <2>1 DEF DropTask, ReviewInv, Explained, LastWord
<1>10. CASE Tick \/ UNCHANGED reviewVars
  BY <1>10 DEF Tick, reviewVars, ReviewInv, ReviewTypes, Explained, LastWord
<1> QED
  BY <1>1, <1>2, <1>3, <1>4, <1>5, <1>6, <1>7, <1>8, <1>9, <1>10 DEF ReviewNext

\* The last audit entry about a review says the state of its row and who put
\* it there, however many reviewers decide at once: row and entry are written
\* by one commit, and the chain orders the commits.
THEOREM TrailExplains == ReviewSpec => []TrailExplainsReview
<1>1. ASSUME ReviewInv PROVE TrailExplainsReview
  <2> SUFFICES ASSUME NEW id \in Tasks, reviews[id].state \in Terminal
               PROVE  LET about == {i \in DOMAIN trail : trail[i].review = id}
                      IN  /\ about # {}
                          /\ LET last == trail[Max(about)]
                             IN  /\ last.action = reviews[id].state
                                 /\ last.by = reviews[id].decider
    BY DEF TrailExplainsReview
  <2> DEFINE about == {i \in DOMAIN trail : trail[i].review = id}
  <2>1. PICK i \in DOMAIN trail : LastWord(id, i)
    BY <1>1 DEF ReviewInv, Explained
  <2>2. about \in SUBSET Nat
    BY <1>1, LenProperties DEF ReviewInv, ReviewTypes
  <2>3. i \in about /\ \A j \in about : j <= i
    BY <2>1 DEF LastWord
  <2> HIDE DEF about
  <2>4. Max(about) = i
    BY <2>2, <2>3, MaxIs
  <2>5. about # {} /\ trail[Max(about)].action = reviews[id].state
                   /\ trail[Max(about)].by = reviews[id].decider
    BY <2>1, <2>3, <2>4 DEF LastWord
  <2> QED BY <2>5 DEF about
<1> QED BY <1>1, ReviewInvInit, ReviewInvStep, PTL DEF ReviewSpec

\* An open that is committed later, even one of a lost race, never moves the
\* start of the review window to a later time.
THEOREM WindowStays == ReviewSpec => WindowNeverShrinks
<1>1. ASSUME ReviewTypes, ReviewTypes', [ReviewNext]_reviewVars
      PROVE  \A u \in Users : OpensOf(u) # {} => OpenedAt(u)' <= OpenedAt(u)
  <2> SUFFICES ASSUME NEW u \in Users, OpensOf(u) # {}
               PROVE  OpenedAt(u)' <= OpenedAt(u)
    OBVIOUS
  <2>1. opens \subseteq opens'
    BY <1>1 DEF ReviewNext, reviewVars, RequestReview, InsertReview, LoadReview, DecideReview,
         OpenSurface, CommitOpen, Sign, CommitSignoff, DropTask, Tick, Take
  <2>2. /\ OpensOf(u) \subseteq OpensOf(u)'
        /\ \A o \in OpensOf(u) : o.at \in Nat
        /\ \A o \in OpensOf(u)' : o.at \in Nat
    BY <1>1, <2>1 DEF ReviewTypes, OpensOf
  <2>3. PICK o \in OpensOf(u) : OpenedAt(u) = o.at
    BY <2>2, EarliestOpen DEF OpenedAt
  <2>4. \A r \in OpensOf(u)' : OpenedAt(u)' <= r.at
    BY <2>2, EarliestOpen DEF OpenedAt
  <2> QED BY <2>2, <2>3, <2>4
<1> QED BY <1>1, ReviewInvInit, ReviewInvStep, PTL DEF ReviewSpec, ReviewInv, WindowNeverShrinks
-----------------------------------------------------------------------------
(* The chronology.                                                         *)

Proposals == [fact : Facts, source : Papers \cup {NoPaper}]
Events == [fact : Facts, source : Papers \cup {NoPaper}, status : Statuses]

ReaderRows ==
  [at : {"idle", "call", "dedup", "commit", "derive", "rule", "gate"},
   kind : {"none", "build", "get", "rule"},
   known : SUBSET Papers, proposals : SUBSET Proposals, created : SUBSET Proposals,
   events : SUBSET Nat, tainted : SUBSET Nat, there : SUBSET Nat,
   status : Statuses \cup {"none"}, saw : Statuses \cup {"none"}]

ChronologyTypes ==
  /\ papers \subseteq Papers
  /\ timeline \in Seq(Events)
  /\ chainLock \in Readers \cup {NoReader}
  /\ reader \in [Readers -> ReaderRows]
  /\ \A r \in Readers : reader[r].at = "rule" => reader[r].status \in Statuses

\* The events that a build is about to add name each fact once, and none that
\* the timeline has; until they are there, the build holds the chain lock.
News(r) ==
  /\ IsFiniteSet(reader[r].proposals) /\ IsFiniteSet(reader[r].created)
  /\ reader[r].created # {} => chainLock = r /\ reader[r].at = "commit"
  /\ \A p, q \in reader[r].created : p.fact = q.fact => p = q
  /\ \A p \in reader[r].created : \A i \in DOMAIN timeline : timeline[i].fact # p.fact

\* A request answers events of the timeline; behind the gate it knows, of all
\* those whose source was found, which are from disclosure.
Derived(r) ==
  /\ reader[r].events \subseteq DOMAIN timeline
  /\ reader[r].at = "gate" =>
       \A i \in reader[r].events \cap reader[r].there :
         timeline[i].source \in Disclosed => i \in reader[r].tainted

ChronologyInv ==
  /\ ChronologyTypes
  /\ \A r \in Readers : News(r) /\ Derived(r)
  /\ NoDuplicateEvents
  /\ TaintWithheld

\* No event is lost, and none changes its fact or its source.
Kept ==
  /\ DOMAIN timeline \subseteq DOMAIN timeline'
  /\ \A i \in DOMAIN timeline : /\ timeline'[i].fact = timeline[i].fact
                                /\ timeline'[i].source = timeline[i].source

\* An empty matter.
LEMMA ChronologyInvInit == ChronologyInit => ChronologyInv
<1> SUFFICES ASSUME ChronologyInit PROVE ChronologyInv
  OBVIOUS
<1>1. /\ Waiting \in ReaderRows /\ Waiting.at = "idle"
      /\ Waiting.proposals = {} /\ Waiting.created = {} /\ Waiting.events = {}
      /\ Waiting.there = {}
  BY DEF Waiting, ReaderRows
<1>2. ChronologyTypes
  BY <1>1 DEF ChronologyInit, ChronologyTypes
<1>3. ASSUME NEW r \in Readers PROVE News(r) /\ Derived(r)
  BY <1>1, FS_EmptySet DEF ChronologyInit, News, Derived
<1>4. NoDuplicateEvents /\ TaintWithheld
  BY DEF ChronologyInit, NoDuplicateEvents, TaintWithheld
<1> QED BY <1>2, <1>3, <1>4 DEF ChronologyInv

\* A step of the request r that adds no event: the other requests keep what
\* they know, and the lock if they need it.
LEMMA RequestStep ==
  ASSUME ChronologyInv, NEW r \in Readers, ChronologyTypes',
         Kept, DOMAIN timeline' = DOMAIN timeline,
         \A s \in Readers \ {r} : /\ reader'[s] = reader[s]
                                  /\ chainLock = s => chainLock' = s,
         News(r)', Derived(r)', TaintWithheld'
  PROVE  ChronologyInv'
<1>1. NoDuplicateEvents'
  BY DEF ChronologyInv, NoDuplicateEvents, Kept
<1>2. ASSUME NEW s \in Readers \ {r} PROVE News(s)' /\ Derived(s)'
  BY <1>2 DEF ChronologyInv, News, Derived, Kept
<1> QED BY <1>1, <1>2 DEF ChronologyInv

\* A step that leaves the timeline alone keeps it.
LEMMA KeptSame == ASSUME UNCHANGED timeline PROVE Kept /\ DOMAIN timeline' = DOMAIN timeline
  BY DEF Kept

\* Reading, calling the model, answering: one row of `reader` changes, to one
\* that creates nothing and waits for no ruling.
LEMMA ReadStep ==
  ASSUME ChronologyInv, NEW r \in Readers, NEW row \in ReaderRows,
         reader' = [reader EXCEPT ![r] = row],
         UNCHANGED <<papers, timeline, confirmed, chainLock>>,
         row.at = "rule" => row.status \in Statuses,
         IsFiniteSet(row.proposals), row.created = {},
         row.events \subseteq DOMAIN timeline,
         row.at = "gate" => \A i \in row.events \cap row.there :
           timeline[i].source \in Disclosed => i \in row.tainted,
         TaintWithheld'
  PROVE  ChronologyInv'
<1>1. reader'[r] = row /\ \A s \in Readers \ {r} : reader'[s] = reader[s]
  BY DEF ChronologyInv, ChronologyTypes
<1>2. ChronologyTypes'
  BY <1>1 DEF ChronologyInv, ChronologyTypes
<1>3. News(r)'
  BY <1>1, FS_EmptySet DEF News
<1>4. Derived(r)'
  BY <1>1 DEF Derived
<1> QED BY <1>1, <1>2, <1>3, <1>4, KeptSame, RequestStep

\* The lock makes CommitBuild add only facts that the timeline does not have.
LEMMA CommitBuildKeeps ==
  ASSUME ChronologyInv, NEW r \in Readers, CommitBuild(r)
  PROVE  ChronologyInv'
<1> USE ChronologyAssumption
<1> DEFINE new == reader[r].created
           n == Cardinality(new)
<1>1. /\ new \in SUBSET Proposals /\ IsFiniteSet(new) /\ reader[r] \in ReaderRows
      /\ timeline \in Seq(Events) /\ Len(timeline) \in Nat
      /\ DOMAIN timeline = 1..Len(timeline)
  BY LenProperties DEF ChronologyInv, ChronologyTypes, ReaderRows, News
<1>2. n \in Nat
  BY <1>1, FS_CardinalityType
<1>3. PICK order \in [1..n -> new] :
        /\ {order[i] : i \in DOMAIN order} = new
        /\ timeline' = timeline \o [i \in DOMAIN order |->
             [fact |-> order[i].fact, source |-> order[i].source, status |-> "proposed"]]
  BY DEF CommitBuild
<1> DEFINE added == [i \in 1..n |->
             [fact |-> order[i].fact, source |-> order[i].source, status |-> "proposed"]]
<1> HIDE DEF n
<1>4. added \in Seq(Events) /\ Len(added) = n
  <2>1. \A i \in 1..n : order[i] \in Proposals
    BY <1>1, <1>3
  <2>2. added \in [1..n -> Events]
    BY <2>1 DEF Proposals, Events, Statuses
  <2> QED BY <1>2, <2>2
<1>5. timeline' = timeline \o added
  BY <1>3
<1>6. /\ timeline' \in Seq(Events)
      /\ DOMAIN timeline' = 1..Len(timeline) + n
      /\ \A i \in 1..Len(timeline) : timeline'[i] = timeline[i]
      /\ \A i \in 1..n : timeline'[Len(timeline) + i] = added[i]
  <2> HIDE DEF added
  <2>1. timeline' \in Seq(Events) /\ Len(timeline') = Len(timeline) + n
    BY <1>1, <1>4, <1>5, ConcatProperties
  <2>2. \A i \in 1..Len(timeline) + n :
          timeline'[i] = IF i <= Len(timeline) THEN timeline[i] ELSE added[i - Len(timeline)]
    BY <1>1, <1>4, <1>5, ConcatProperties
  <2>3. DOMAIN timeline' = 1..Len(timeline) + n
    BY <2>1, LenProperties
  <2>4. ASSUME NEW i \in 1..n PROVE timeline'[Len(timeline) + i] = added[i]
    <3>1. /\ Len(timeline) + i \in 1..Len(timeline) + n
          /\ ~ (Len(timeline) + i <= Len(timeline))
          /\ (Len(timeline) + i) - Len(timeline) = i
      BY <1>1, <1>2
    <3> QED BY <2>2, <3>1
  <2>5. ASSUME NEW i \in 1..Len(timeline) PROVE timeline'[i] = timeline[i]
    <3>1. i \in 1..Len(timeline) + n /\ i <= Len(timeline)
      BY <1>1, <1>2
    <3> QED BY <2>2, <3>1
  <2> QED BY <2>1, <2>3, <2>4, <2>5
<1>7. \A i \in 1..n : timeline'[Len(timeline) + i].fact = order[i].fact /\ order[i] \in new
  <2>1. \A i \in 1..n : added[i].fact = order[i].fact /\ order[i] \in new
    BY <1>3
  <2> QED BY <1>6, <2>1
<1>8. Kept
  BY <1>1, <1>2, <1>6 DEF Kept
<1>9. \A i, j \in 1..n : order[i].fact = order[j].fact => i = j
  <2>1. IsFiniteSet(1..n) /\ Cardinality(1..n) = n
    <3>1. /\ IsFiniteSet(1..n)
          /\ Cardinality(1..n) = IF 1 > n THEN 0 ELSE n - 1 + 1
      BY <1>2, FS_Interval
    <3> QED BY <1>2, <3>1
  <2>2. order \in Surjection(1..n, new)
    BY <1>3 DEF Surjection
  <2>3. order \in Injection(1..n, new)
    BY <1>1, <2>1, <2>2, FS_SurjSameCardinalityImpliesInj DEF n
  <2>4. \A i, j \in 1..n : order[i] = order[j] => i = j
    BY <2>3 DEF Injection, IsInjective
  <2> QED BY <1>3, <2>4 DEF ChronologyInv, News
<1>10. NoDuplicateEvents'
  <2> SUFFICES ASSUME NEW i \in DOMAIN timeline', NEW j \in DOMAIN timeline',
                      timeline'[i].fact = timeline'[j].fact
               PROVE  i = j
    BY DEF NoDuplicateEvents
  <2>1. ASSUME NEW k \in 1..Len(timeline), NEW l \in 1..n
        PROVE  timeline'[k].fact # timeline'[Len(timeline) + l].fact
    <3>1. /\ timeline'[k].fact = timeline[k].fact /\ k \in DOMAIN timeline
          /\ timeline'[Len(timeline) + l].fact = order[l].fact /\ order[l] \in new
      BY <1>1, <1>6, <1>7
    <3> QED BY <3>1 DEF ChronologyInv, News
  <2>2. ASSUME NEW k \in DOMAIN timeline'
        PROVE  k \in 1..Len(timeline) \/ \E l \in 1..n : k = Len(timeline) + l
    <3>1. CASE k <= Len(timeline)
      BY <1>1, <1>2, <1>6, <3>1
    <3>2. CASE k > Len(timeline)
      <4>1. k - Len(timeline) \in 1..n /\ k = Len(timeline) + (k - Len(timeline))
        BY <1>1, <1>2, <1>6, <3>2
      <4> QED BY <4>1
    <3> QED BY <1>1, <1>2, <1>6, <3>1, <3>2
  <2>3. CASE i \in 1..Len(timeline) /\ j \in 1..Len(timeline)
    BY <1>1, <1>6, <2>3 DEF ChronologyInv, NoDuplicateEvents
  <2>4. CASE i \notin 1..Len(timeline) /\ j \notin 1..Len(timeline)
    <3>1. PICK k \in 1..n, l \in 1..n : i = Len(timeline) + k /\ j = Len(timeline) + l
      BY <2>2, <2>4
    <3>2. k = l
      BY <1>7, <1>9, <3>1
    <3> QED BY <3>1, <3>2
  <2> QED BY <2>1, <2>2, <2>3, <2>4
<1>11. \A s \in Readers \ {r} : reader'[s] = reader[s] /\ reader[s].created = {}
  <2>1. \A s \in Readers \ {r} : chainLock # s
    BY DEF CommitBuild, MayWrite
  <2> QED BY <2>1 DEF ChronologyInv, ChronologyTypes, News, CommitBuild
<1> DEFINE fresh == {Len(timeline) + i : i \in 1..n}
           row == [reader[r] EXCEPT !.at = "derive", !.created = {}, !.events = fresh]
<1>12. fresh \in SUBSET Nat /\ fresh \subseteq DOMAIN timeline'
  BY <1>1, <1>2, <1>6
<1>13. /\ row \in ReaderRows /\ row.at = "derive" /\ row.created = {} /\ row.events = fresh
       /\ row.proposals = reader[r].proposals
  BY <1>1, <1>12 DEF ReaderRows
<1>14. reader' = [reader EXCEPT ![r] = row]
  BY DEF CommitBuild, ChronologyInv, ChronologyTypes, n
<1>15. reader'[r] = row
  BY <1>14 DEF ChronologyInv, ChronologyTypes
<1> HIDE DEF fresh, row
<1>16. ChronologyTypes'
  <2>1. reader' \in [Readers -> ReaderRows]
    BY <1>13, <1>14 DEF ChronologyInv, ChronologyTypes
  <2>2. \A s \in Readers : reader'[s].at = "rule" => reader'[s].status \in Statuses
    BY <1>11, <1>13, <1>15 DEF ChronologyInv, ChronologyTypes
  <2>3. papers' = papers /\ chainLock' = NoReader
    BY DEF CommitBuild
  <2> QED BY <1>6, <2>1, <2>2, <2>3 DEF ChronologyInv, ChronologyTypes
<1>17. ASSUME NEW s \in Readers \ {r} PROVE News(s)' /\ Derived(s)'
  BY <1>8, <1>11 DEF ChronologyInv, News, Derived, Kept
<1>18. News(r)'
  BY <1>13, <1>15, FS_EmptySet DEF ChronologyInv, News
<1>19. Derived(r)'
  BY <1>12, <1>13, <1>15 DEF Derived
<1> QED
  BY <1>10, <1>16, <1>17, <1>18, <1>19
  DEF ChronologyInv, TaintWithheld, CommitBuild

\* No step proposes a fact twice or answers a disclosed event unacknowledged.
LEMMA ChronologyInvStep == ChronologyInv /\ [ChronologyNext]_chronologyVars => ChronologyInv'
<1> SUFFICES ASSUME ChronologyInv, [ChronologyNext]_chronologyVars PROVE ChronologyInv'
  OBVIOUS
<1> USE ChronologyAssumption
<1>0. ASSUME NEW r \in Readers
      PROVE  /\ reader[r] \in ReaderRows /\ IsFiniteSet(reader[r].proposals)
             /\ reader[r].at # "commit" => reader[r].created = {}
             /\ reader[r].events \subseteq DOMAIN timeline
             /\ DOMAIN timeline \in SUBSET Nat
  BY LenProperties DEF ChronologyInv, ChronologyTypes, News, Derived
<1>1. CASE \/ \E d \in Papers : UploadPaper(d) \/ DeletePaper(d)
           \/ ConfirmGate \/ UNCHANGED chronologyVars
  <2>1. UNCHANGED <<timeline, chainLock, reader, leaked>> /\ papers' \subseteq Papers
    BY <1>1 DEF UploadPaper, DeletePaper, ConfirmGate, chronologyVars, ChronologyInv, ChronologyTypes
  <2> QED BY <2>1
      DEF ChronologyInv, ChronologyTypes, News, Derived, NoDuplicateEvents, TaintWithheld
<1>2. ASSUME NEW r \in Readers, StartBuild(r) PROVE ChronologyInv'
  <2>1. PICK known \in SUBSET papers :
          reader' = [reader EXCEPT ![r].kind = "build", ![r].known = known,
                                   ![r].at = IF known = {} THEN "commit" ELSE "call"]
    BY <1>2 DEF StartBuild
  <2> DEFINE row == [reader[r] EXCEPT !.kind = "build", !.known = known,
                                      !.at = IF known = {} THEN "commit" ELSE "call"]
  <2>2. reader' = [reader EXCEPT ![r] = row]
    BY <2>1 DEF ChronologyInv, ChronologyTypes
  <2>3. known \in SUBSET Papers
    BY <2>1 DEF ChronologyInv, ChronologyTypes
  <2>4. /\ row \in ReaderRows /\ row.at \in {"commit", "call"}
        /\ row.proposals = reader[r].proposals /\ row.created = reader[r].created
        /\ row.events = reader[r].events
    BY <1>0, <2>3 DEF ReaderRows
  <2> HIDE DEF row
  <2>5. TaintWithheld' /\ UNCHANGED <<papers, timeline, confirmed, chainLock>>
    BY <1>2 DEF StartBuild, ChronologyInv, TaintWithheld
  <2>6. row.created = {}
    BY <1>0, <1>2, <2>4 DEF StartBuild
  <2> QED BY <1>0, <2>2, <2>4, <2>5, <2>6, ReadStep
<1>3. ASSUME NEW r \in Readers, CallModelForEvents(r) PROVE ChronologyInv'
  <2>1. PICK at \in {"dedup", "commit"}, proposals \in SUBSET Proposals :
          /\ reader' = [reader EXCEPT ![r] = [reader[r] EXCEPT
                          !.at = at, !.proposals = proposals, !.known = {}]]
          /\ IsFiniteSet(proposals)
    <3>1. ASSUME NEW proposals \in SUBSET Coerced(r), IsFiniteSet(proposals),
                 reader' = [reader EXCEPT ![r].at = "dedup", ![r].proposals = proposals,
                                          ![r].known = {}]
          PROVE  /\ proposals \in SUBSET Proposals
                 /\ reader' = [reader EXCEPT ![r] = [reader[r] EXCEPT
                                 !.at = "dedup", !.proposals = proposals, !.known = {}]]
      <4>1. reader[r].known \subseteq Papers
        BY <1>0 DEF ReaderRows
      <4>2. proposals \in SUBSET Proposals
        BY <3>1, <4>1 DEF Coerced, Proposals
      <4> QED BY <3>1, <4>2 DEF ChronologyInv, ChronologyTypes
    <3>2. ASSUME reader' = [reader EXCEPT ![r].at = "commit", ![r].known = {}]
          PROVE  /\ reader[r].proposals \in SUBSET Proposals
                 /\ reader' = [reader EXCEPT ![r] = [reader[r] EXCEPT
                      !.at = "commit", !.proposals = reader[r].proposals, !.known = {}]]
      <4>1. reader[r].proposals \in SUBSET Proposals
        BY <1>0 DEF ReaderRows
      <4>2. [reader[r] EXCEPT !.at = "commit", !.known = {}]
              = [reader[r] EXCEPT !.at = "commit", !.proposals = reader[r].proposals,
                                  !.known = {}]
        BY <1>0 DEF ReaderRows
      <4> QED BY <3>2, <4>1, <4>2 DEF ChronologyInv, ChronologyTypes
    <3> QED BY <1>0, <1>3, <3>1, <3>2 DEF CallModelForEvents
  <2> DEFINE row == [reader[r] EXCEPT !.at = at, !.proposals = proposals, !.known = {}]
  <2>4. /\ row \in ReaderRows /\ row.at = at
        /\ row.proposals = proposals /\ row.created = reader[r].created
        /\ row.events = reader[r].events
    BY <1>0 DEF ReaderRows
  <2>5. TaintWithheld' /\ UNCHANGED <<papers, timeline, confirmed, chainLock>>
    BY <1>3 DEF CallModelForEvents, ChronologyInv, TaintWithheld
  <2>6. row.created = {} /\ reader' = [reader EXCEPT ![r] = row]
    BY <1>0, <1>3, <2>1, <2>4 DEF CallModelForEvents
  <2> HIDE DEF row
  <2> QED BY <1>0, <2>1, <2>4, <2>5, <2>6, ReadStep
<1>4. ASSUME NEW r \in Readers, Deduplicate(r) PROVE ChronologyInv'
  <2>1. PICK new \in Deduplicated(reader[r].proposals, KnownFacts) :
          reader' = [reader EXCEPT ![r].at = "commit", ![r].proposals = {}, ![r].created = new]
    BY <1>4 DEF Deduplicate
  <2> DEFINE row == [reader[r] EXCEPT !.at = "commit", !.proposals = {}, !.created = new]
  <2>2. reader' = [reader EXCEPT ![r] = row]
    BY <2>1 DEF ChronologyInv, ChronologyTypes
  <2>3. /\ new \subseteq reader[r].proposals
        /\ \A p \in new : p.fact \notin KnownFacts
        /\ \A p, q \in new : p.fact = q.fact => p = q
    BY <2>1 DEF Deduplicated
  <2>4. IsFiniteSet(new) /\ IsFiniteSet({})
    BY <1>0, <2>3, FS_Subset, FS_EmptySet
  <2>5. /\ row \in ReaderRows /\ row.at = "commit"
        /\ row.proposals = {} /\ row.created = new /\ row.events = reader[r].events
    <3>1. new \in SUBSET Proposals
      BY <1>0, <2>3 DEF ReaderRows
    <3> QED BY <1>0, <3>1 DEF ReaderRows
  <2>6. reader'[r] = row /\ \A s \in Readers \ {r} : reader'[s] = reader[s]
    BY <2>2 DEF ChronologyInv, ChronologyTypes
  <2> HIDE DEF row
  <2>7. UNCHANGED <<papers, timeline, leaked>> /\ chainLock' = r /\ MayWrite(r)
    BY <1>4 DEF Deduplicate
  <2>8. ChronologyTypes'
    BY <2>2, <2>5, <2>6, <2>7 DEF ChronologyInv, ChronologyTypes
  <2>9. News(r)'
    <3>1. \A p \in new : \A i \in DOMAIN timeline : timeline[i].fact # p.fact
      BY <2>3 DEF KnownFacts
    <3> QED BY <2>3, <2>4, <2>5, <2>6, <2>7, <3>1 DEF News
  <2>10. Derived(r)'
    BY <1>0, <2>5, <2>6, <2>7 DEF Derived
  <2>11. TaintWithheld' /\ \A s \in Readers \ {r} : chainLock # s
    BY <2>7 DEF ChronologyInv, TaintWithheld, MayWrite
  <2> QED BY <2>6, <2>7, <2>8, <2>9, <2>10, <2>11, KeptSame, RequestStep
<1>5. ASSUME NEW r \in Readers, CommitBuild(r) PROVE ChronologyInv'
  BY <1>5, CommitBuildKeeps
<1>6. ASSUME NEW r \in Readers, AbandonBuild(r) PROVE ChronologyInv'
  <2>1. /\ Waiting \in ReaderRows /\ Waiting.at = "idle"
        /\ Waiting.proposals = {} /\ Waiting.created = {} /\ Waiting.events = {}
    BY DEF Waiting, ReaderRows
  <2>2. reader'[r] = Waiting /\ \A s \in Readers \ {r} : reader'[s] = reader[s]
    BY <1>6 DEF AbandonBuild, ChronologyInv, ChronologyTypes
  <2>3. /\ UNCHANGED <<papers, timeline, leaked>>
        /\ chainLock' = IF chainLock = r THEN NoReader ELSE chainLock
        /\ reader' = [reader EXCEPT ![r] = Waiting]
    BY <1>6 DEF AbandonBuild
  <2>4. ChronologyTypes'
    BY <2>1, <2>2, <2>3 DEF ChronologyInv, ChronologyTypes
  <2>5. News(r)' /\ Derived(r)'
    BY <2>1, <2>2, FS_EmptySet DEF News, Derived
  <2>6. TaintWithheld'
    BY <2>3 DEF ChronologyInv, TaintWithheld
  <2> QED BY <2>2, <2>3, <2>4, <2>5, <2>6, KeptSame, RequestStep
<1>7. ASSUME NEW r \in Readers, GetChronology(r) PROVE ChronologyInv'
  <2> DEFINE row == [reader[r] EXCEPT !.kind = "get", !.at = "derive", !.events = DOMAIN timeline]
  <2>1. reader' = [reader EXCEPT ![r] = row]
    BY <1>7 DEF GetChronology, ChronologyInv, ChronologyTypes
  <2>2. /\ row \in ReaderRows /\ row.at = "derive" /\ row.events = DOMAIN timeline
        /\ row.proposals = reader[r].proposals /\ row.created = reader[r].created
    BY <1>0 DEF ReaderRows
  <2>3. TaintWithheld' /\ UNCHANGED <<papers, timeline, confirmed, chainLock>>
    BY <1>7 DEF GetChronology, ChronologyInv, TaintWithheld
  <2>4. row.created = {}
    BY <1>0, <1>7, <2>2 DEF GetChronology
  <2> HIDE DEF row
  <2> QED BY <1>0, <2>1, <2>2, <2>3, <2>4, ReadStep
<1>8. ASSUME NEW r \in Readers, RuleOn(r) PROVE ChronologyInv'
  <2>1. PICK i \in DOMAIN timeline, status \in Statuses \ {"proposed"} :
          reader' = [reader EXCEPT ![r].kind = "rule", ![r].at = "rule", ![r].events = {i},
                                   ![r].status = status, ![r].saw = timeline[i].status]
    BY <1>8 DEF RuleOn
  <2> DEFINE row == [reader[r] EXCEPT !.kind = "rule", !.at = "rule", !.events = {i},
                                      !.status = status, !.saw = timeline[i].status]
  <2>2. reader' = [reader EXCEPT ![r] = row]
    BY <2>1 DEF ChronologyInv, ChronologyTypes
  <2>3. timeline[i].status \in Statuses /\ {i} \in SUBSET Nat
    <3>1. timeline[i] \in Events
      BY <2>1, ElementOfSeq, LenProperties DEF ChronologyInv, ChronologyTypes
    <3> QED BY <1>0, <2>1, <3>1 DEF Events
  <2>4. /\ row \in ReaderRows /\ row.at = "rule" /\ row.events = {i} /\ row.status = status
        /\ row.proposals = reader[r].proposals /\ row.created = reader[r].created
    BY <1>0, <2>3 DEF ReaderRows
  <2>5. TaintWithheld' /\ UNCHANGED <<papers, timeline, confirmed, chainLock>>
    BY <1>8 DEF RuleOn, ChronologyInv, TaintWithheld
  <2>6. row.created = {}
    BY <1>0, <1>8, <2>4 DEF RuleOn
  <2> HIDE DEF row
  <2>7. /\ row.events \subseteq DOMAIN timeline /\ row.at # "gate"
        /\ row.status \in Statuses /\ IsFiniteSet(row.proposals)
    BY <1>0, <2>1, <2>4
  <2> QED BY <2>2, <2>4, <2>5, <2>6, <2>7, ReadStep
<1>9. ASSUME NEW r \in Readers, SetEventStatus(r) PROVE ChronologyInv'
  <2>1. PICK i \in reader[r].events :
           timeline' = IF reader[r].saw = reader[r].status THEN timeline
                       ELSE [timeline EXCEPT ![i].status = reader[r].status]
    BY <1>9 DEF SetEventStatus
  <2> DEFINE row == [reader[r] EXCEPT !.at = "derive", !.status = "none", !.saw = "none"]
  <2>2. reader' = [reader EXCEPT ![r] = row]
    BY <1>9 DEF SetEventStatus, ChronologyInv, ChronologyTypes
  <2>3. /\ row \in ReaderRows /\ row.at = "derive" /\ row.events = reader[r].events
        /\ row.proposals = reader[r].proposals /\ row.created = reader[r].created
    BY <1>0 DEF ReaderRows
  <2>4. reader'[r] = row /\ \A s \in Readers \ {r} : reader'[s] = reader[s]
    BY <2>2 DEF ChronologyInv, ChronologyTypes
  <2> HIDE DEF row
  <2>5. /\ timeline' \in Seq(Events) /\ Kept /\ DOMAIN timeline' = DOMAIN timeline
    <3>1. i \in DOMAIN timeline /\ reader[r].status \in Statuses /\ timeline \in Seq(Events)
      BY <1>0, <1>9, <2>1 DEF SetEventStatus, ChronologyInv, ChronologyTypes
    <3>2. timeline[i] \in Events
      BY <3>1, ElementOfSeq, LenProperties
    <3>3. /\ [timeline[i] EXCEPT !.status = reader[r].status] \in Events
          /\ [timeline[i] EXCEPT !.status = reader[r].status].fact = timeline[i].fact
          /\ [timeline[i] EXCEPT !.status = reader[r].status].source = timeline[i].source
      BY <3>1, <3>2 DEF Events
    <3>4. [timeline EXCEPT ![i] = [timeline[i] EXCEPT !.status = reader[r].status]] \in Seq(Events)
      BY <3>1, <3>3, ExceptSeq
    <3> QED BY <2>1, <3>1, <3>3, <3>4, LenProperties DEF Kept
  <2>6. UNCHANGED <<papers, leaked, chainLock>> /\ reader[r].created = {}
    BY <1>0, <1>9 DEF SetEventStatus
  <2>7. ChronologyTypes'
    BY <2>2, <2>3, <2>4, <2>5, <2>6 DEF ChronologyInv, ChronologyTypes
  <2>8. News(r)'
    BY <1>0, <2>3, <2>4, <2>6, FS_EmptySet DEF News
  <2>9. Derived(r)'
    BY <1>0, <2>3, <2>4, <2>5 DEF Derived
  <2>10. TaintWithheld'
    BY <2>6 DEF ChronologyInv, TaintWithheld
  <2> QED BY <2>4, <2>5, <2>6, <2>7, <2>8, <2>9, <2>10, RequestStep
<1>10. ASSUME NEW r \in Readers, DeriveTaint(r) PROVE ChronologyInv'
  <2> DEFINE tainted == {i \in reader[r].events : Tainted(papers, i)}
             there == {i \in reader[r].events : timeline[i].source \in papers}
             row == [reader[r] EXCEPT !.at = "gate", !.tainted = tainted, !.there = there]
  <2>1. reader' = [reader EXCEPT ![r] = row]
    BY <1>10 DEF DeriveTaint, ChronologyInv, ChronologyTypes
  <2>2. tainted \in SUBSET Nat /\ there \in SUBSET Nat
    BY <1>0
  <2>3. \A i \in there : timeline[i].source \in Disclosed => i \in tainted
    BY DEF Tainted
  <2> HIDE DEF tainted, there
  <2>4. /\ row \in ReaderRows /\ row.at = "gate" /\ row.events = reader[r].events
        /\ row.proposals = reader[r].proposals /\ row.created = reader[r].created
        /\ row.tainted = tainted /\ row.there = there
    BY <1>0, <2>2 DEF ReaderRows
  <2> HIDE DEF row
  <2>5. TaintWithheld' /\ UNCHANGED <<papers, timeline, confirmed, chainLock>>
    BY <1>10 DEF DeriveTaint, ChronologyInv, TaintWithheld
  <2>6. row.created = {}
    BY <1>0, <1>10, <2>4 DEF DeriveTaint
  <2> QED BY <1>0, <2>1, <2>3, <2>4, <2>5, <2>6, ReadStep
<1>11. ASSUME NEW r \in Readers, AnswerEvents(r) PROVE ChronologyInv'
  <2>1. /\ Waiting \in ReaderRows /\ Waiting.at = "idle"
        /\ Waiting.proposals = {} /\ Waiting.created = {} /\ Waiting.events = {}
    BY DEF Waiting, ReaderRows
  <2>2. /\ reader' = [reader EXCEPT ![r] = Waiting]
        /\ UNCHANGED <<papers, timeline, confirmed, chainLock>>
    BY <1>11 DEF AnswerEvents
  <2>3. \A i \in reader[r].events :
          timeline[i].source \in Disclosed /\ i \in reader[r].there => i \in reader[r].tainted
    BY <1>11 DEF AnswerEvents, ChronologyInv, Derived
  <2>4. ASSUME NEW x \in leaked' PROVE ~ x.there
    <3>1. CASE x \in leaked
      BY <3>1 DEF ChronologyInv, TaintWithheld
    <3>2. CASE x \notin leaked
      <4>1. PICK i \in reader[r].events \ (IF Redact(r) THEN reader[r].tainted ELSE {}) :
              /\ timeline[i].source \in Disclosed /\ ~ confirmed
              /\ x = [event |-> i, there |-> i \in reader[r].there]
        BY <1>11, <2>4, <3>2, Zenon DEF AnswerEvents
      <4>2. i \notin reader[r].there
        BY <2>3, <4>1 DEF Redact
      <4> QED BY <4>1, <4>2
    <3> QED BY <3>1, <3>2
  <2>5. TaintWithheld'
    BY <2>4 DEF TaintWithheld
  <2> QED BY <2>1, <2>2, <2>5, FS_EmptySet, ReadStep
<1> QED
  BY <1>1, <1>2, <1>3, <1>4, <1>5, <1>6, <1>7, <1>8, <1>9, <1>10, <1>11 DEF ChronologyNext

\* Builds that run at the same time propose no fact twice: the lock is taken
\* before the timeline is read and held until its events are in it.
THEOREM BuildsPropose == ChronologySpec => []NoDuplicateEvents
<1>1. ChronologyInv => NoDuplicateEvents
  BY DEF ChronologyInv
<1> QED BY <1>1, ChronologyInvInit, ChronologyInvStep, PTL DEF ChronologySpec

\* An event of a disclosed document that the matter holds is answered in full
\* only once the acknowledgement is committed, by every route.
THEOREM DisclosureWithheld == ChronologySpec => []TaintWithheld
<1>1. ChronologyInv => TaintWithheld
  BY DEF ChronologyInv
<1> QED BY <1>1, ChronologyInvInit, ChronologyInvStep, PTL DEF ChronologySpec
-----------------------------------------------------------------------------
(* The assistant.                                                          *)

MessageIds == Turns \X {"user", "assistant"}
MessageRows == [turn : Turns, role : {"user", "assistant"}, saved : BOOLEAN]

Stages == {"idle", "budget", "load", "search", "call", "keyless", "blocked", "raising",
           "raised", "tool", "final", "reply", "commit", "refresh", "fold", "done", "failed"}

TurnRows == [at : Stages, thread : Turns \cup {Nobody},
             seen : SUBSET MessageIds, prior : SUBSET MessageIds, older : SUBSET MessageIds,
             tokens : Nat, tooled : BOOLEAN, spent : BOOLEAN,
             told : {"nothing", "result", "error"}]

TurnTypes ==
  /\ threads \subseteq Turns
  /\ rows \in Seq(MessageRows)
  /\ summary \in [Turns -> SUBSET MessageIds]
  /\ turn \in [Turns -> TurnRows]

\* The lock of the matter is held by a turn only after it has run a tool.
LockedByTool == \A t \in Turns : lock = t => turn[t].tooled

\* The messages are of turns that have begun, in the thread.
Said(messages, thread) ==
  \A m \in messages : turn[m[1]].at # "idle" /\ turn[m[1]].thread = thread

\* What a turn has read was said in its thread, and so was what the summary of
\* a thread folds.
Separate ==
  /\ \A i \in DOMAIN rows : turn[rows[i].turn].at # "idle"
  /\ \A t \in Turns :
       IF turn[t].at = "idle"
       THEN turn[t].seen = {} /\ turn[t].prior = {} /\ turn[t].older = {}
       ELSE /\ turn[t].thread \in Turns
            /\ Said(turn[t].seen, turn[t].thread)
            /\ Said(turn[t].prior, turn[t].thread)
            /\ Said(turn[t].older, turn[t].thread)
  /\ \A thread \in Turns : Said(summary[thread], thread)

\* The turn has written the message; it has committed it.
Wrote(t, role) == \E i \in DOMAIN rows : rows[i].turn = t /\ rows[i].role = role
Stored(t, role) ==
  \E i \in DOMAIN rows : rows[i].turn = t /\ rows[i].role = role /\ rows[i].saved

\* A turn that calls the model has written the user's message, one about to
\* commit the reply too, and one past the commit has stored both; a message
\* that is stored is stored with its other half.
AfterUser == {"call", "keyless", "blocked", "raising", "raised", "tool", "final", "reply",
              "commit"}
AfterCommit == {"refresh", "fold", "done"}

WholeTurn(t) ==
  /\ turn[t].at \in AfterUser => Wrote(t, "user")
  /\ turn[t].at = "commit" => Wrote(t, "assistant")
  /\ turn[t].at \in AfterCommit \/ turn[t].told = "result" => Stored(t, "user")
  /\ Stored(t, "user") <=> Stored(t, "assistant")

TurnInv == TurnTypes /\ LockedByTool /\ Separate /\ \A t \in Turns : WholeTurn(t)

\* Only the turn t has written, and nothing is committed.
GrowBy(t) ==
  /\ rows' \in Seq(MessageRows)
  /\ DOMAIN rows \subseteq DOMAIN rows'
  /\ \A i \in DOMAIN rows : rows'[i] = rows[i]
  /\ \A i \in DOMAIN rows' \ DOMAIN rows : rows'[i].turn = t /\ ~ rows'[i].saved

\* Nothing is said.
LEMMA TurnInvInit == AssistantInit => TurnInv
<1> SUFFICES ASSUME AssistantInit PROVE TurnInv
  OBVIOUS
<1>1. /\ Fresh \in TurnRows /\ Fresh.at = "idle" /\ Fresh.told = "nothing"
      /\ Fresh.seen = {} /\ Fresh.prior = {} /\ Fresh.older = {}
  BY DEF Fresh, TurnRows, Stages
<1>2. TurnTypes /\ \A t \in Turns : turn[t] = Fresh
  BY <1>1 DEF AssistantInit, TurnTypes
<1>3. LockedByTool
  BY AssistantAssumption DEF AssistantInit, LockedByTool
<1>4. Separate
  BY <1>1, <1>2 DEF AssistantInit, Separate, Said
<1>5. \A t \in Turns : WholeTurn(t)
  BY <1>1, <1>2 DEF AssistantInit, WholeTurn, Wrote, Stored, AfterUser, AfterCommit
<1> QED BY <1>2, <1>3, <1>4, <1>5 DEF TurnInv

\* Leaving the messages alone is growing by none.
LEMMA GrowNone == ASSUME TurnTypes, NEW t \in Turns, UNCHANGED rows PROVE GrowBy(t)
  BY DEF GrowBy, TurnTypes

\* Appending twice.
LEMMA AppendTwo ==
  ASSUME NEW S, NEW s \in Seq(S), NEW e \in S, NEW f \in S, NEW r,
         r = Append(Append(s, e), f)
  PROVE  /\ r \in Seq(S) /\ Len(s) \in Nat
         /\ DOMAIN s = 1..Len(s) /\ DOMAIN r = 1..Len(s) + 2
         /\ r[Len(s) + 1] = e /\ r[Len(s) + 2] = f
         /\ \A i \in 1..Len(s) : r[i] = s[i]
<1>1. PICK q : q = Append(s, e)
  OBVIOUS
<1>2. /\ q \in Seq(S) /\ Len(q) = Len(s) + 1
      /\ q[Len(s) + 1] = e /\ \A i \in 1..Len(s) : q[i] = s[i]
  BY <1>1, AppendProperties
<1>3. r = Append(q, f)
  BY <1>1
<1>4. /\ r \in Seq(S) /\ Len(r) = Len(q) + 1
      /\ r[Len(q) + 1] = f /\ \A i \in 1..Len(q) : r[i] = q[i]
  BY <1>2, <1>3, AppendProperties
<1>5. /\ Len(s) \in Nat /\ DOMAIN s = 1..Len(s) /\ DOMAIN r = 1..Len(s) + 2
  BY <1>2, <1>4, LenProperties
<1>6. /\ r[Len(s) + 1] = e /\ r[Len(s) + 2] = f
      /\ \A i \in 1..Len(s) : r[i] = s[i]
  BY <1>2, <1>4, <1>5
<1> QED BY <1>1, <1>3, <1>4, <1>5, <1>6

\* Staging a message.
LEMMA GrowOne ==
  ASSUME TurnTypes, NEW t \in Turns, NEW role \in {"user", "assistant"}, rows' = Stage(t, role)
  PROVE  GrowBy(t) /\ Wrote(t, role)'
<1> DEFINE row == [turn |-> t, role |-> role, saved |-> FALSE]
<1>1. row \in MessageRows /\ row.turn = t /\ row.role = role /\ ~ row.saved
  BY DEF MessageRows
<1>2. rows \in Seq(MessageRows) /\ rows' = Append(rows, row)
  BY DEF TurnTypes, Stage
<1> HIDE DEF row
<1>3. /\ rows' \in Seq(MessageRows) /\ Len(rows') = Len(rows) + 1
      /\ rows'[Len(rows) + 1] = row
      /\ \A i \in 1..Len(rows) : rows'[i] = rows[i]
  BY <1>1, <1>2, AppendProperties
<1>4. /\ Len(rows) \in Nat /\ DOMAIN rows = 1..Len(rows)
      /\ DOMAIN rows' = 1..Len(rows) + 1
  BY <1>2, <1>3, LenProperties
<1> QED BY <1>1, <1>3, <1>4 DEF GrowBy, Wrote

\* Staging both messages of a refused turn.
LEMMA GrowTwo ==
  ASSUME TurnTypes, NEW t \in Turns,
         rows' = Append(Stage(t, "user"), [turn |-> t, role |-> "assistant", saved |-> FALSE])
  PROVE  GrowBy(t) /\ Wrote(t, "user")' /\ Wrote(t, "assistant")'
<1> DEFINE u == [turn |-> t, role |-> "user", saved |-> FALSE]
           a == [turn |-> t, role |-> "assistant", saved |-> FALSE]
<1>1. /\ u \in MessageRows /\ u.turn = t /\ u.role = "user" /\ ~ u.saved
      /\ a \in MessageRows /\ a.turn = t /\ a.role = "assistant" /\ ~ a.saved
  BY DEF MessageRows
<1>2. PICK r : /\ rows \in Seq(MessageRows) /\ r = Append(Append(rows, u), a)
               /\ r = rows'
  BY DEF TurnTypes, Stage
<1> HIDE DEF u, a
<1>4. /\ r \in Seq(MessageRows) /\ Len(rows) \in Nat
      /\ DOMAIN rows = 1..Len(rows) /\ DOMAIN r = 1..Len(rows) + 2
      /\ r[Len(rows) + 1] = u /\ r[Len(rows) + 2] = a
      /\ \A i \in 1..Len(rows) : r[i] = rows[i]
  <2>1. /\ rows \in Seq(MessageRows) /\ u \in MessageRows /\ a \in MessageRows
        /\ r = Append(Append(rows, u), a)
    BY <1>1, <1>2
  <2> QED BY <2>1, AppendTwo
<1>3. /\ rows' \in Seq(MessageRows) /\ Len(rows) \in Nat
      /\ DOMAIN rows = 1..Len(rows) /\ DOMAIN rows' = 1..Len(rows) + 2
      /\ rows'[Len(rows) + 1] = u /\ rows'[Len(rows) + 2] = a
      /\ \A i \in 1..Len(rows) : rows'[i] = rows[i]
  BY <1>2, <1>4, Zenon
<1>6. PICK i \in DOMAIN rows', j \in DOMAIN rows' : rows'[i] = u /\ rows'[j] = a
  BY <1>3
<1>7. \A k \in DOMAIN rows' \ DOMAIN rows : k = Len(rows) + 1 \/ k = Len(rows) + 2
  BY <1>3
<1>8. GrowBy(t)
  BY <1>1, <1>3, <1>7 DEF GrowBy
<1> QED BY <1>1, <1>6, <1>8 DEF Wrote

\* What was said in a thread stays said there while begun turns stay in theirs.
LEMMA SaidStays ==
  ASSUME TurnTypes, NEW messages \in SUBSET MessageIds, NEW thread, Said(messages, thread),
         \A u \in Turns : turn[u].at # "idle" =>
           turn'[u].at # "idle" /\ turn'[u].thread = turn[u].thread
  PROVE  \A m \in messages : turn'[m[1]].at # "idle" /\ turn'[m[1]].thread = thread
  BY DEF Said, MessageIds

\* A step of the turn t that commits nothing.
LEMMA TurnStep ==
  ASSUME TurnInv, NEW t \in Turns, NEW row \in TurnRows,
         turn' = [turn EXCEPT ![t] = row],
         row.at # "idle", row.thread \in Turns,
         turn[t].at # "idle" => row.thread = turn[t].thread,
         Said(row.seen, row.thread), Said(row.prior, row.thread), Said(row.older, row.thread),
         GrowBy(t), threads' \subseteq Turns,
         summary' \in [Turns -> SUBSET MessageIds],
         \A thread \in Turns : Said(summary'[thread], thread),
         \A u \in Turns \ {t} : lock' = u => lock = u,
         lock' = t => row.tooled,
         row.at \in AfterUser => Wrote(t, "user")',
         row.at = "commit" => Wrote(t, "assistant")',
         row.at \in AfterCommit \/ row.told = "result" => Stored(t, "user")
  PROVE  TurnInv'
<1>1. /\ turn'[t] = row /\ \A u \in Turns \ {t} : turn'[u] = turn[u]
      /\ turn' \in [Turns -> TurnRows]
  BY DEF TurnInv, TurnTypes
<1>2. TurnTypes'
  BY <1>1 DEF TurnTypes, GrowBy
<1>3. LockedByTool'
  BY <1>1 DEF TurnInv, LockedByTool
<1>4. \A u \in Turns : turn[u].at # "idle" =>
        turn'[u].at # "idle" /\ turn'[u].thread = turn[u].thread
  BY <1>1
<1>5. Separate'
  <2>1. ASSUME NEW i \in DOMAIN rows' PROVE turn'[rows'[i].turn].at # "idle"
    <3>1. CASE i \in DOMAIN rows
      <4>1. rows[i] \in MessageRows
        BY <3>1, ElementOfSeq, LenProperties DEF TurnInv, TurnTypes
      <4>2. rows[i].turn \in Turns /\ turn[rows[i].turn].at # "idle"
        BY <3>1, <4>1 DEF TurnInv, Separate, MessageRows
      <4> QED BY <1>4, <3>1, <4>2 DEF GrowBy
    <3>2. CASE i \notin DOMAIN rows
      BY <1>1, <2>1, <3>2 DEF GrowBy
    <3> QED BY <3>1, <3>2
  <2>2. ASSUME NEW u \in Turns, turn'[u].at # "idle"
        PROVE  /\ turn'[u].thread \in Turns
               /\ Said(turn[u].seen, turn[u].thread)' /\ Said(turn[u].prior, turn[u].thread)'
               /\ Said(turn[u].older, turn[u].thread)'
    <3>1. /\ turn'[u].thread \in Turns
          /\ turn'[u].seen \in SUBSET MessageIds /\ turn'[u].prior \in SUBSET MessageIds
          /\ turn'[u].older \in SUBSET MessageIds
          /\ Said(turn'[u].seen, turn'[u].thread) /\ Said(turn'[u].prior, turn'[u].thread)
          /\ Said(turn'[u].older, turn'[u].thread)
      BY <1>1, <2>2 DEF TurnInv, TurnTypes, Separate, TurnRows
    <3>2. ASSUME NEW M \in SUBSET MessageIds, Said(M, turn'[u].thread)
          PROVE  \A m \in M : turn'[m[1]].at # "idle" /\ turn'[m[1]].thread = turn'[u].thread
      BY <1>4, <3>2, SaidStays DEF TurnInv
    <3> QED BY <3>1, <3>2 DEF Said
  <2>3. ASSUME NEW thread \in Turns PROVE Said(summary[thread], thread)'
    <3>1. summary'[thread] \in SUBSET MessageIds /\ Said(summary'[thread], thread)
      BY <2>3
    <3>2. \A m \in summary'[thread] :
            turn'[m[1]].at # "idle" /\ turn'[m[1]].thread = thread
      BY <1>4, <3>1, SaidStays DEF TurnInv
    <3> QED BY <3>2 DEF Said
  <2>4. ASSUME NEW u \in Turns, turn'[u].at = "idle"
        PROVE  turn'[u].seen = {} /\ turn'[u].prior = {} /\ turn'[u].older = {}
    BY <1>1, <2>4 DEF TurnInv, Separate
  <2> QED BY <2>1, <2>2, <2>3, <2>4 DEF Separate
<1>6. ASSUME NEW u \in Turns, NEW role
      PROVE  /\ Wrote(u, role) => Wrote(u, role)'
             /\ Stored(u, role)' <=> Stored(u, role)
  BY DEF GrowBy, Wrote, Stored
<1>7. ASSUME NEW u \in Turns PROVE WholeTurn(u)'
  <2>1. CASE u = t
    BY <1>1, <1>6, <2>1 DEF TurnInv, WholeTurn
  <2>2. CASE u # t
    BY <1>1, <1>6, <2>2 DEF TurnInv, WholeTurn
  <2> QED BY <2>1, <2>2
<1> QED BY <1>2, <1>3, <1>5, <1>7 DEF TurnInv

\* The commit stores both messages of the turn.
LEMMA CommitTurnKeeps == ASSUME TurnInv, NEW t \in Turns, CommitTurn(t) PROVE TurnInv'
<1>1. PICK row \in TurnRows :
        /\ turn' = [turn EXCEPT ![t] = row]
        /\ row.at \in AfterCommit
        /\ row.thread = turn[t].thread /\ row.seen = turn[t].seen
        /\ row.prior = turn[t].prior /\ row.older = turn[t].older
  <2>0. turn[t] \in TurnRows
    BY DEF TurnInv, TurnTypes
  <2>1. CASE turn[t].spent
    <3> DEFINE row == [turn[t] EXCEPT !.at = "refresh"]
    <3>1. turn' = [turn EXCEPT ![t] = row]
      BY <2>1 DEF CommitTurn, Move
    <3>2. /\ row \in TurnRows /\ row.at = "refresh"
          /\ row.thread = turn[t].thread /\ row.seen = turn[t].seen
          /\ row.prior = turn[t].prior /\ row.older = turn[t].older
      BY <2>0 DEF TurnRows, Stages
    <3> QED BY <3>1, <3>2 DEF AfterCommit
  <2>2. CASE ~ turn[t].spent
    <3> DEFINE row == [turn[t] EXCEPT !.at = "done", !.told = "result"]
    <3>1. turn' = [turn EXCEPT ![t] = row]
      BY <2>2 DEF CommitTurn, Answer, TurnInv, TurnTypes
    <3>2. /\ row \in TurnRows /\ row.at = "done"
          /\ row.thread = turn[t].thread /\ row.seen = turn[t].seen
          /\ row.prior = turn[t].prior /\ row.older = turn[t].older
      BY <2>0 DEF TurnRows, Stages
    <3> QED BY <3>1, <3>2 DEF AfterCommit
  <2> QED BY <2>1, <2>2
<1>2. /\ turn[t].at = "commit" /\ lock' = Nobody
      /\ rows' = Saved(t) /\ UNCHANGED <<threads, summary>>
  BY DEF CommitTurn
<1>3. /\ turn'[t] = row /\ \A u \in Turns \ {t} : turn'[u] = turn[u]
      /\ turn' \in [Turns -> TurnRows] /\ row.at # "idle"
  BY <1>1 DEF TurnInv, TurnTypes, AfterCommit
<1>4. /\ rows' \in Seq(MessageRows) /\ DOMAIN rows' = DOMAIN rows
      /\ \A i \in DOMAIN rows : /\ rows[i].turn \in Turns
                                /\ rows'[i].turn = rows[i].turn /\ rows'[i].role = rows[i].role
                                /\ rows'[i].saved <=> rows[i].saved \/ rows[i].turn = t
  <2>1. rows \in Seq(MessageRows) /\ DOMAIN rows = 1..Len(rows) /\ Len(rows) \in Nat
    BY LenProperties DEF TurnInv, TurnTypes
  <2>2. \A i \in DOMAIN rows : rows[i] \in MessageRows
    BY <2>1, ElementOfSeq
  <2>3. \A i \in DOMAIN rows : rows'[i] = IF rows[i].turn = t
                                          THEN [rows[i] EXCEPT !.saved = TRUE] ELSE rows[i]
    BY <1>2 DEF Saved
  <2>4. ASSUME NEW i \in DOMAIN rows
        PROVE  /\ rows'[i] \in MessageRows /\ rows[i].turn \in Turns
               /\ rows'[i].turn = rows[i].turn /\ rows'[i].role = rows[i].role
               /\ rows'[i].saved <=> rows[i].saved \/ rows[i].turn = t
    <3>1. CASE rows[i].turn = t
      <4>1. rows'[i] = [rows[i] EXCEPT !.saved = TRUE]
        BY <2>3, <3>1
      <4>2. rows[i] \in MessageRows
        BY <2>2
      <4> QED BY <3>1, <4>1, <4>2 DEF MessageRows
    <3>2. CASE rows[i].turn # t
      BY <2>2, <2>3, <3>2 DEF MessageRows
    <3> QED BY <3>1, <3>2
  <2>5. DOMAIN rows' = 1..Len(rows) /\ rows' = [i \in 1..Len(rows) |-> rows'[i]]
    BY <1>2, <2>1 DEF Saved
  <2>6. rows' \in Seq(MessageRows)
    BY <2>1, <2>4, <2>5
  <2> QED BY <2>1, <2>4, <2>5, <2>6
<1>5. TurnTypes'
  BY <1>2, <1>3, <1>4 DEF TurnInv, TurnTypes
<1>6. LockedByTool'
  BY <1>2, AssistantAssumption DEF LockedByTool
<1>7. Separate'
  <2>1. /\ \A u \in Turns : /\ turn'[u].at = "idle" <=> turn[u].at = "idle"
                            /\ turn'[u].thread = turn[u].thread /\ turn'[u].seen = turn[u].seen
                            /\ turn'[u].prior = turn[u].prior /\ turn'[u].older = turn[u].older
        /\ UNCHANGED summary
    BY <1>1, <1>2, <1>3
  <2>2. \A u \in Turns : /\ turn[u].seen \in SUBSET MessageIds
                         /\ turn[u].prior \in SUBSET MessageIds
                         /\ turn[u].older \in SUBSET MessageIds
                         /\ summary[u] \in SUBSET MessageIds
    BY DEF TurnInv, TurnTypes, TurnRows
  <2>3. ASSUME NEW M \in SUBSET MessageIds, NEW thread, Said(M, thread)
        PROVE  \A m \in M : turn'[m[1]].at # "idle" /\ turn'[m[1]].thread = thread
    BY <2>1, <2>3 DEF Said, MessageIds
  <2>4. \A i \in DOMAIN rows' : turn'[rows'[i].turn].at # "idle"
    BY <1>4, <2>1 DEF TurnInv, Separate
  <2>5. ASSUME NEW u \in Turns, turn'[u].at # "idle"
        PROVE  /\ turn'[u].thread \in Turns
               /\ Said(turn[u].seen, turn[u].thread)' /\ Said(turn[u].prior, turn[u].thread)'
               /\ Said(turn[u].older, turn[u].thread)'
    <3>1. /\ turn[u].thread \in Turns
          /\ Said(turn[u].seen, turn[u].thread) /\ Said(turn[u].prior, turn[u].thread)
          /\ Said(turn[u].older, turn[u].thread)
      BY <2>1, <2>5 DEF TurnInv, Separate
    <3>2. /\ \A m \in turn[u].seen : turn'[m[1]].at # "idle" /\ turn'[m[1]].thread = turn[u].thread
          /\ \A m \in turn[u].prior : turn'[m[1]].at # "idle" /\ turn'[m[1]].thread = turn[u].thread
          /\ \A m \in turn[u].older : turn'[m[1]].at # "idle" /\ turn'[m[1]].thread = turn[u].thread
      BY <2>2, <2>3, <3>1
    <3> QED BY <2>1, <3>1, <3>2 DEF Said
  <2>6. ASSUME NEW thread \in Turns PROVE Said(summary[thread], thread)'
    <3>1. Said(summary[thread], thread)
      BY DEF TurnInv, Separate
    <3>2. \A m \in summary[thread] : turn'[m[1]].at # "idle" /\ turn'[m[1]].thread = thread
      BY <2>2, <2>3, <3>1
    <3> QED BY <2>1, <3>2 DEF Said
  <2>7. ASSUME NEW u \in Turns, turn'[u].at = "idle"
        PROVE  turn'[u].seen = {} /\ turn'[u].prior = {} /\ turn'[u].older = {}
    BY <2>1, <2>7 DEF TurnInv, Separate
  <2> QED BY <2>4, <2>5, <2>6, <2>7 DEF Separate
<1>8. WholeTurn(t)'
  <2>1. Wrote(t, "user") /\ Wrote(t, "assistant")
    BY <1>2 DEF TurnInv, WholeTurn, AfterUser
  <2>2. Stored(t, "user")' /\ Stored(t, "assistant")'
    BY <1>4, <2>1 DEF Wrote, Stored
  <2> QED BY <1>1, <1>3, <2>2 DEF WholeTurn, AfterUser, AfterCommit
<1>9. ASSUME NEW u \in Turns \ {t} PROVE WholeTurn(u)'
  <2>1. ASSUME NEW role
        PROVE  (Wrote(u, role)' <=> Wrote(u, role)) /\ (Stored(u, role)' <=> Stored(u, role))
    BY <1>4 DEF Wrote, Stored
  <2> QED BY <1>3, <2>1 DEF TurnInv, WholeTurn
<1> QED BY <1>5, <1>6, <1>7, <1>8, <1>9 DEF TurnInv

\* A step that only moves the turn t on: it keeps what it has read, writes no
\* message and leaves the summaries alone.
LEMMA MoveStep ==
  ASSUME TurnInv, NEW t \in Turns, NEW row \in TurnRows,
         turn' = [turn EXCEPT ![t] = row], turn[t].at # "idle", row.at # "idle",
         row.thread = turn[t].thread, row.seen = turn[t].seen, row.prior = turn[t].prior,
         row.older = turn[t].older, UNCHANGED <<threads, rows, summary>>,
         \A u \in Turns \ {t} : lock' = u => lock = u,
         lock' = t => row.tooled,
         row.at \in AfterUser => turn[t].at \in AfterUser,
         row.at = "commit" => turn[t].at = "commit",
         row.at \in AfterCommit \/ row.told = "result" =>
           turn[t].at \in AfterCommit \/ turn[t].told = "result"
  PROVE  TurnInv'
<1>1. GrowBy(t)
  BY GrowNone DEF TurnInv
<1>2. /\ row.thread \in Turns
      /\ Said(row.seen, row.thread) /\ Said(row.prior, row.thread) /\ Said(row.older, row.thread)
      /\ threads' \subseteq Turns
      /\ summary' \in [Turns -> SUBSET MessageIds]
      /\ \A thread \in Turns : Said(summary'[thread], thread)
  BY DEF TurnInv, TurnTypes, Separate
<1>3. /\ row.at \in AfterUser => Wrote(t, "user")'
      /\ row.at = "commit" => Wrote(t, "assistant")'
      /\ row.at \in AfterCommit \/ row.told = "result" => Stored(t, "user")
  BY DEF TurnInv, WholeTurn, Wrote
<1> QED BY <1>1, <1>2, <1>3, TurnStep

\* The committed messages of a thread were said in it.
LEMMA MessagesSaid ==
  ASSUME TurnInv, NEW thread, NEW S \in SUBSET Messages(thread)
  PROVE  LET M == {Id(rows[i]) : i \in S} IN M \in SUBSET MessageIds /\ Said(M, thread)
<1> DEFINE M == {Id(rows[i]) : i \in S}
<1>1. ASSUME NEW i \in S
      PROVE  /\ Id(rows[i]) \in MessageIds /\ Id(rows[i])[1] = rows[i].turn
             /\ turn[rows[i].turn].at # "idle" /\ turn[rows[i].turn].thread = thread
  <2>1. i \in DOMAIN rows /\ turn[rows[i].turn].thread = thread
    BY DEF Messages
  <2>2. rows[i] \in MessageRows
    BY <2>1, ElementOfSeq, LenProperties DEF TurnInv, TurnTypes
  <2>3. turn[rows[i].turn].at # "idle"
    BY <2>1 DEF TurnInv, Separate
  <2> QED BY <2>1, <2>2, <2>3 DEF Id, MessageIds, MessageRows
<1>2. M \in SUBSET MessageIds /\ Said(M, thread)
  BY <1>1 DEF Said
<1> QED BY <1>2

\* Every step of every turn keeps the invariant.
LEMMA TurnInvStep == TurnInv /\ [AssistantNext]_turnVars => TurnInv'
<1> SUFFICES ASSUME TurnInv, [AssistantNext]_turnVars PROVE TurnInv'
  OBVIOUS
<1> USE AssistantAssumption
<1>0. ASSUME NEW t \in Turns
      PROVE  /\ turn[t] \in TurnRows /\ (lock = t => turn[t].tooled)
             /\ turn[t].at # "idle" => /\ turn[t].thread \in Turns
                                       /\ Said(turn[t].seen, turn[t].thread)
                                       /\ Said(turn[t].prior, turn[t].thread)
                                       /\ Said(turn[t].older, turn[t].thread)
             /\ TurnTypes /\ summary \in [Turns -> SUBSET MessageIds]
             /\ \A thread \in Turns : Said(summary[thread], thread)
             /\ threads \subseteq Turns
  BY DEF TurnInv, TurnTypes, LockedByTool, Separate
<1>a. ASSUME NEW t \in Turns PROVE turn[t] \in TurnRows
  BY <1>0
<1>1. ASSUME NEW t \in Turns, StartTurn(t) PROVE TurnInv'
  <2>1. PICK thread \in Turns :
          /\ threads' = threads \cup {thread}
          /\ turn' = [turn EXCEPT ![t].at = "budget", ![t].thread = thread]
    BY <1>0, <1>1 DEF StartTurn
  <2> DEFINE row == [turn[t] EXCEPT !.at = "budget", !.thread = thread]
  <2>2. turn' = [turn EXCEPT ![t] = row]
    BY <2>1 DEF TurnInv, TurnTypes
  <2>3. /\ row \in TurnRows /\ row.at = "budget" /\ row.thread = thread
        /\ row.seen = turn[t].seen /\ row.prior = turn[t].prior /\ row.older = turn[t].older
        /\ row.told = turn[t].told /\ row.tooled = turn[t].tooled
    BY <1>a DEF TurnRows, Stages
  <2> HIDE DEF row
  <2>4. turn[t].at = "idle" /\ UNCHANGED <<rows, summary, lock>>
    BY <1>1 DEF StartTurn
  <2>5. row.seen = {} /\ row.prior = {} /\ row.older = {}
    BY <2>3, <2>4 DEF TurnInv, Separate
  <2>6. Said(row.seen, row.thread) /\ Said(row.prior, row.thread) /\ Said(row.older, row.thread)
    BY <2>5 DEF Said
  <2>7. GrowBy(t)
    BY <1>0, <2>4, GrowNone
  <2>8. row.told = "result" => Stored(t, "user")
    BY <2>3 DEF TurnInv, WholeTurn
  <2>9. lock' = t => row.tooled
    BY <1>0, <2>3, <2>4
  <2>10. /\ threads' \subseteq Turns /\ summary' \in [Turns -> SUBSET MessageIds]
         /\ \A h \in Turns : Said(summary'[h], h)
         /\ row.at \notin AfterUser /\ row.at \notin AfterCommit /\ row.at # "commit"
         /\ row.at # "idle" /\ row.thread \in Turns
    BY <1>0, <2>1, <2>3, <2>4 DEF AfterUser, AfterCommit
  <2> QED BY <2>2, <2>3, <2>4, <2>6, <2>7, <2>8, <2>9, <2>10, TurnStep
<1>2. ASSUME NEW t \in Turns, CheckBudget(t) PROVE TurnInv'
  <2>1. CASE Exceeded(t)
    <3> DEFINE row == [turn[t] EXCEPT !.at = "commit"]
    <3>1. /\ turn' = [turn EXCEPT ![t] = row] /\ turn[t].at = "budget"
          /\ UNCHANGED <<threads, summary, lock>>
      BY <1>2, <2>1 DEF CheckBudget, Move
    <3>2. GrowBy(t) /\ Wrote(t, "user")' /\ Wrote(t, "assistant")'
      BY <1>0, <1>2, <2>1, GrowTwo DEF CheckBudget
    <3>3. /\ row \in TurnRows /\ row.at = "commit" /\ row.thread = turn[t].thread
          /\ row.seen = turn[t].seen /\ row.prior = turn[t].prior /\ row.older = turn[t].older
          /\ row.told = turn[t].told /\ row.tooled = turn[t].tooled
      BY <1>a DEF TurnRows, Stages
    <3> HIDE DEF row
    <3>4. /\ row.told = "result" => Stored(t, "user")
          /\ row.at \notin AfterCommit /\ row.at # "idle" /\ (lock' = t => row.tooled)
      BY <1>0, <3>1, <3>3 DEF TurnInv, WholeTurn, AfterCommit
    <3> QED BY <1>0, <3>1, <3>2, <3>3, <3>4, TurnStep
  <2>2. CASE ~ Exceeded(t)
    <3> DEFINE row == [turn[t] EXCEPT !.at = "load"]
    <3>1. /\ turn' = [turn EXCEPT ![t] = row] /\ turn[t].at = "budget"
          /\ UNCHANGED <<threads, rows, summary, lock>>
      BY <1>2, <2>2 DEF CheckBudget
    <3>2. /\ row \in TurnRows /\ row.at = "load" /\ row.thread = turn[t].thread
          /\ row.seen = turn[t].seen /\ row.prior = turn[t].prior /\ row.older = turn[t].older
          /\ row.told = turn[t].told /\ row.tooled = turn[t].tooled
      BY <1>a DEF TurnRows, Stages
    <3> HIDE DEF row
    <3> QED BY <1>0, <3>1, <3>2, MoveStep DEF AfterUser, AfterCommit
  <2> QED BY <2>1, <2>2
<1>3. ASSUME NEW t \in Turns, LoadContext(t) PROVE TurnInv'
  <2> DEFINE S == Messages(turn[t].thread)
             folded == summary[turn[t].thread]
             seen == Recent(S) \cup IF Cardinality(S) > Window THEN folded ELSE {}
             row == [turn[t] EXCEPT !.at = "search", !.prior = folded, !.seen = seen]
  <2>1. turn[t].at = "load" /\ UNCHANGED <<threads, rows, summary, lock>>
    BY <1>3 DEF LoadContext
  <2>2. folded \in SUBSET MessageIds /\ Said(folded, turn[t].thread)
    BY <1>0, <2>1
  <2>3. Recent(S) \in SUBSET MessageIds /\ Said(Recent(S), turn[t].thread)
    <3>1. {j \in S : Later(S, j) < Window} \in SUBSET S
      OBVIOUS
    <3> QED BY <3>1, MessagesSaid DEF Recent
  <2>4. seen \in SUBSET MessageIds /\ Said(seen, turn[t].thread)
    BY <2>2, <2>3 DEF Said
  <2>5. turn' = [turn EXCEPT ![t] = row]
    BY <1>3 DEF LoadContext, TurnInv, TurnTypes
  <2> HIDE DEF S, folded, seen
  <2>6. /\ row \in TurnRows /\ row.at = "search" /\ row.thread = turn[t].thread
        /\ row.seen = seen /\ row.prior = folded /\ row.older = turn[t].older
        /\ row.told = turn[t].told /\ row.tooled = turn[t].tooled
    BY <1>a, <2>2, <2>4 DEF TurnRows, Stages
  <2> HIDE DEF row
  <2>7. /\ GrowBy(t) /\ (row.told = "result" => Stored(t, "user"))
        /\ row.at \notin AfterUser /\ row.at \notin AfterCommit
        /\ row.at # "commit" /\ row.at # "idle"
    BY <1>0, <2>1, <2>6, GrowNone DEF TurnInv, WholeTurn, AfterUser, AfterCommit
  <2> QED BY <1>0, <2>1, <2>2, <2>4, <2>5, <2>6, <2>7, TurnStep
<1>4. ASSUME NEW t \in Turns, Search(t) PROVE TurnInv'
  <2> DEFINE row == [turn[t] EXCEPT !.at = "call"]
  <2>1. /\ turn' = [turn EXCEPT ![t] = row] /\ turn[t].at = "search"
        /\ UNCHANGED <<threads, summary, lock>> /\ rows' = Stage(t, "user")
    BY <1>4 DEF Search, Accept, Move
  <2>2. GrowBy(t) /\ Wrote(t, "user")'
    BY <1>0, <2>1, GrowOne
  <2>3. /\ row \in TurnRows /\ row.at = "call" /\ row.thread = turn[t].thread
        /\ row.seen = turn[t].seen /\ row.prior = turn[t].prior /\ row.older = turn[t].older
        /\ row.told = turn[t].told /\ row.tooled = turn[t].tooled
    BY <1>a DEF TurnRows, Stages
  <2> HIDE DEF row
  <2>4. /\ row.told = "result" => Stored(t, "user")
        /\ row.at \notin AfterCommit /\ row.at # "idle" /\ (lock' = t => row.tooled)
    BY <1>0, <2>1, <2>3 DEF TurnInv, WholeTurn, AfterCommit
  <2> QED BY <1>0, <2>1, <2>2, <2>3, <2>4, TurnStep
<1>5. ASSUME NEW t \in Turns, CallModel(t) \/ CallFinal(t) PROVE TurnInv'
  <2>1. /\ turn[t].at \in {"call", "final"} /\ UNCHANGED <<threads, rows, summary, lock>>
    BY <1>5 DEF CallModel, CallFinal
  <2>2. ASSUME NEW row \in TurnRows, turn' = [turn EXCEPT ![t] = row],
               row.at \in AfterUser \ {"commit"}, row.thread = turn[t].thread,
               row.seen = turn[t].seen, row.prior = turn[t].prior, row.older = turn[t].older,
               row.told = turn[t].told, row.tooled = turn[t].tooled
        PROVE  TurnInv'
    BY <1>0, <2>1, <2>2, MoveStep DEF AfterUser, AfterCommit
  <2>3. ASSUME NEW n \in ReplyTokens, NEW next \in {"reply", "tool"},
               turn' = [turn EXCEPT ![t].at = next, ![t].tokens = n, ![t].spent = TRUE]
        PROVE  TurnInv'
    <3> DEFINE row == [turn[t] EXCEPT !.at = next, !.tokens = n, !.spent = TRUE]
    <3>1. turn' = [turn EXCEPT ![t] = row]
      BY <2>3 DEF TurnInv, TurnTypes
    <3>2. /\ row \in TurnRows /\ row.at = next /\ row.thread = turn[t].thread
          /\ row.seen = turn[t].seen /\ row.prior = turn[t].prior /\ row.older = turn[t].older
          /\ row.told = turn[t].told /\ row.tooled = turn[t].tooled
      BY <1>a DEF TurnRows, Stages
    <3> HIDE DEF row
    <3> QED BY <2>2, <3>1, <3>2 DEF AfterUser
  <2>4. ASSUME NEW n \in ReplyTokens,
               turn' = [turn EXCEPT ![t].at = "reply", ![t].tokens = n]
        PROVE  TurnInv'
    <3> DEFINE row == [turn[t] EXCEPT !.at = "reply", !.tokens = n]
    <3>1. turn' = [turn EXCEPT ![t] = row]
      BY <2>4 DEF TurnInv, TurnTypes
    <3>2. /\ row \in TurnRows /\ row.at = "reply" /\ row.thread = turn[t].thread
          /\ row.seen = turn[t].seen /\ row.prior = turn[t].prior /\ row.older = turn[t].older
          /\ row.told = turn[t].told /\ row.tooled = turn[t].tooled
      BY <1>a DEF TurnRows, Stages
    <3> HIDE DEF row
    <3> QED BY <2>2, <3>1, <3>2 DEF AfterUser
  <2>5. ASSUME NEW next \in {"keyless", "raising", "raised"}, Move(t, next) PROVE TurnInv'
    <3> DEFINE row == [turn[t] EXCEPT !.at = next]
    <3>1. turn' = [turn EXCEPT ![t] = row]
      BY <2>5 DEF Move
    <3>2. /\ row \in TurnRows /\ row.at = next /\ row.thread = turn[t].thread
          /\ row.seen = turn[t].seen /\ row.prior = turn[t].prior /\ row.older = turn[t].older
          /\ row.told = turn[t].told /\ row.tooled = turn[t].tooled
      BY <1>a DEF TurnRows, Stages
    <3> HIDE DEF row
    <3> QED BY <2>2, <3>1, <3>2 DEF AfterUser
  <2> QED BY <1>5, <2>3, <2>4, <2>5 DEF CallModel, CallFinal
<1>6. ASSUME NEW t \in Turns, FailureRow(t) PROVE TurnInv'
  <2>1. PICK next \in {"raised", "reply"} : Move(t, next)
    BY <1>6 DEF FailureRow
  <2> DEFINE row == [turn[t] EXCEPT !.at = next]
  <2>2. /\ turn' = [turn EXCEPT ![t] = row] /\ turn[t].at \in {"keyless", "blocked", "raising"}
        /\ UNCHANGED <<threads, rows, summary, lock>>
    BY <1>6, <2>1 DEF FailureRow, Move
  <2>3. /\ row \in TurnRows /\ row.at = next /\ row.thread = turn[t].thread
        /\ row.seen = turn[t].seen /\ row.prior = turn[t].prior /\ row.older = turn[t].older
        /\ row.told = turn[t].told /\ row.tooled = turn[t].tooled
    BY <1>a DEF TurnRows, Stages
  <2> HIDE DEF row
  <2> QED BY <1>0, <2>2, <2>3, MoveStep DEF AfterUser, AfterCommit
<1>7. ASSUME NEW t \in Turns, RunTool(t) PROVE TurnInv'
  <2>1. turn[t].at = "tool" /\ UNCHANGED <<threads, rows, summary>>
    BY <1>7 DEF RunTool
  <2>2. CASE Move(t, "blocked") /\ UNCHANGED lock
    <3> DEFINE row == [turn[t] EXCEPT !.at = "blocked"]
    <3>1. turn' = [turn EXCEPT ![t] = row] /\ lock' = lock
      BY <2>2 DEF Move
    <3>2. /\ row \in TurnRows /\ row.at = "blocked" /\ row.thread = turn[t].thread
          /\ row.seen = turn[t].seen /\ row.prior = turn[t].prior /\ row.older = turn[t].older
          /\ row.told = turn[t].told /\ row.tooled = turn[t].tooled
      BY <1>a DEF TurnRows, Stages
    <3> HIDE DEF row
    <3> QED BY <1>0, <2>1, <3>1, <3>2, MoveStep DEF AfterUser, AfterCommit
  <2>3. ASSUME NEW next \in {"final", "reply", "raising"}, lock' = t,
               turn' = [turn EXCEPT ![t].at = next, ![t].tooled = TRUE]
        PROVE  TurnInv'
    <3> DEFINE row == [turn[t] EXCEPT !.at = next, !.tooled = TRUE]
    <3>1. turn' = [turn EXCEPT ![t] = row]
      BY <2>3 DEF TurnInv, TurnTypes
    <3>2. /\ row \in TurnRows /\ row.at = next /\ row.thread = turn[t].thread
          /\ row.seen = turn[t].seen /\ row.prior = turn[t].prior /\ row.older = turn[t].older
          /\ row.told = turn[t].told /\ row.tooled
      BY <1>a DEF TurnRows, Stages
    <3> HIDE DEF row
    <3> QED BY <1>0, <2>1, <2>3, <3>1, <3>2, MoveStep DEF AfterUser, AfterCommit
  <2> QED BY <1>7, <2>2, <2>3 DEF RunTool
<1>8. ASSUME NEW t \in Turns, StageReply(t) PROVE TurnInv'
  <2> DEFINE row == [turn[t] EXCEPT !.at = "commit"]
  <2>1. /\ turn' = [turn EXCEPT ![t] = row] /\ turn[t].at = "reply"
        /\ UNCHANGED <<threads, summary, lock>> /\ rows' = Stage(t, "assistant")
    BY <1>8 DEF StageReply, Move
  <2>2. GrowBy(t) /\ Wrote(t, "assistant")'
    BY <1>0, <2>1, GrowOne
  <2>3. Wrote(t, "user")'
    <3>1. Wrote(t, "user")
      BY <2>1 DEF TurnInv, WholeTurn, AfterUser
    <3> QED BY <2>2, <3>1 DEF GrowBy, Wrote
  <2>4. /\ row \in TurnRows /\ row.at = "commit" /\ row.thread = turn[t].thread
        /\ row.seen = turn[t].seen /\ row.prior = turn[t].prior /\ row.older = turn[t].older
        /\ row.told = turn[t].told /\ row.tooled = turn[t].tooled
    BY <1>a DEF TurnRows, Stages
  <2> HIDE DEF row
  <2>5. /\ row.told = "result" => Stored(t, "user")
        /\ row.at \notin AfterCommit /\ row.at # "idle" /\ (lock' = t => row.tooled)
    BY <1>0, <2>1, <2>4 DEF TurnInv, WholeTurn, AfterCommit
  <2> QED BY <1>0, <2>1, <2>2, <2>3, <2>4, <2>5, TurnStep
<1>9. ASSUME NEW t \in Turns, CommitTurn(t) PROVE TurnInv'
  BY <1>9, CommitTurnKeeps
<1>10. ASSUME NEW t \in Turns, ReadOlder(t) PROVE TurnInv'
  <2>1. turn[t].at = "refresh" /\ UNCHANGED <<threads, rows, summary, lock>>
    BY <1>10 DEF ReadOlder
  <2>2. CASE turn' = [turn EXCEPT ![t].at = "fold", ![t].older = AgedOut(turn[t].thread)]
    <3> DEFINE older == AgedOut(turn[t].thread)
               row == [turn[t] EXCEPT !.at = "fold", !.older = older]
    <3>1. turn' = [turn EXCEPT ![t] = row]
      BY <2>2 DEF TurnInv, TurnTypes
    <3>2. older \in SUBSET MessageIds /\ Said(older, turn[t].thread)
      BY MessagesSaid DEF AgedOut
    <3> HIDE DEF older
    <3>3. /\ row \in TurnRows /\ row.at = "fold" /\ row.thread = turn[t].thread
          /\ row.seen = turn[t].seen /\ row.prior = turn[t].prior /\ row.older = older
          /\ row.told = turn[t].told /\ row.tooled = turn[t].tooled
      BY <1>a, <3>2 DEF TurnRows, Stages
    <3> HIDE DEF row
    <3>4. /\ GrowBy(t) /\ Stored(t, "user")
          /\ row.at \notin AfterUser /\ row.at # "commit" /\ row.at # "idle"
      BY <1>0, <2>1, <3>3, GrowNone DEF TurnInv, WholeTurn, AfterUser, AfterCommit
    <3> QED BY <1>0, <2>1, <3>1, <3>2, <3>3, <3>4, TurnStep
  <2>3. CASE Answer(t, "done", "result")
    <3> DEFINE row == [turn[t] EXCEPT !.at = "done", !.told = "result"]
    <3>1. turn' = [turn EXCEPT ![t] = row]
      BY <2>3 DEF Answer, TurnInv, TurnTypes
    <3>2. /\ row \in TurnRows /\ row.at = "done" /\ row.thread = turn[t].thread
          /\ row.seen = turn[t].seen /\ row.prior = turn[t].prior /\ row.older = turn[t].older
          /\ row.told = "result" /\ row.tooled = turn[t].tooled
      BY <1>a DEF TurnRows, Stages
    <3> HIDE DEF row
    <3> QED BY <1>0, <2>1, <3>1, <3>2, MoveStep DEF AfterUser, AfterCommit
  <2> QED BY <1>10, <2>2, <2>3 DEF ReadOlder
<1>11. ASSUME NEW t \in Turns, WriteSummary(t) PROVE TurnInv'
  <2> DEFINE row == [turn[t] EXCEPT !.at = "done", !.told = "result"]
  <2>1. /\ turn' = [turn EXCEPT ![t] = row] /\ turn[t].at = "fold"
        /\ UNCHANGED <<threads, rows, lock>>
    BY <1>11 DEF WriteSummary, Answer, TurnInv, TurnTypes
  <2>2. /\ row \in TurnRows /\ row.at = "done" /\ row.thread = turn[t].thread
        /\ row.seen = turn[t].seen /\ row.prior = turn[t].prior /\ row.older = turn[t].older
        /\ row.told = "result" /\ row.tooled = turn[t].tooled
    BY <1>a DEF TurnRows, Stages
  <2>3. /\ summary' \in [Turns -> SUBSET MessageIds]
        /\ \A thread \in Turns : Said(summary'[thread], thread)
    <3>1. CASE UNCHANGED summary
      BY <1>0, <3>1
    <3>2. CASE summary' = [summary EXCEPT ![turn[t].thread] = turn[t].older \cup turn[t].prior]
      <4>1. turn[t].older \cup turn[t].prior \in SUBSET MessageIds
        BY <1>0 DEF TurnRows
      <4>2. Said(turn[t].older \cup turn[t].prior, turn[t].thread)
        BY <1>0, <2>1 DEF Said
      <4> QED BY <1>0, <2>1, <3>2, <4>1, <4>2
    <3> QED BY <1>11, <3>1, <3>2 DEF WriteSummary
  <2> HIDE DEF row
  <2>4. /\ GrowBy(t) /\ Stored(t, "user")
        /\ row.at \notin AfterUser /\ row.at # "commit" /\ row.at # "idle"
    BY <1>0, <2>1, <2>2, GrowNone DEF TurnInv, WholeTurn, AfterUser, AfterCommit
  <2> QED BY <1>0, <2>1, <2>2, <2>3, <2>4, TurnStep
<1>12. ASSUME NEW t \in Turns, Raise(t) PROVE TurnInv'
  <2> DEFINE row == [turn[t] EXCEPT !.at = "failed", !.told = "error"]
  <2>1. /\ turn' = [turn EXCEPT ![t] = row] /\ turn[t].at # "idle"
        /\ UNCHANGED <<threads, rows, summary>>
        /\ lock' = IF lock = t THEN Nobody ELSE lock
    BY <1>12 DEF Raise, Answer, Release, TurnInv, TurnTypes
  <2>2. /\ row \in TurnRows /\ row.at = "failed" /\ row.thread = turn[t].thread
        /\ row.seen = turn[t].seen /\ row.prior = turn[t].prior /\ row.older = turn[t].older
        /\ row.told = "error" /\ row.tooled = turn[t].tooled
    BY <1>a DEF TurnRows, Stages
  <2> HIDE DEF row
  <2> QED BY <1>0, <2>1, <2>2, MoveStep DEF AfterUser, AfterCommit
<1>13. CASE (\E s \in Savers : SelectDraft(s) \/ InsertDraft(s)) \/ UNCHANGED turnVars
  <2>1. UNCHANGED <<threads, rows, summary, lock, turn>>
    BY <1>13 DEF SelectDraft, InsertDraft, turnVars
  <2> QED BY <2>1 DEF TurnInv, TurnTypes, LockedByTool, Separate, Said, WholeTurn, Wrote, Stored
<1> QED
  BY <1>1, <1>2, <1>3, <1>4, <1>5, <1>6, <1>7, <1>8, <1>9, <1>10, <1>11, <1>12, <1>13
  DEF AssistantNext

\* A turn never waits, out of band, for the chain lock it holds itself, except
\* after a tool.
THEOREM TurnsDoNotWaitOnThemselves == AssistantSpec => []NoSelfWait
<1>1. TurnInv => NoSelfWait
  BY DEF TurnInv, LockedByTool, NoSelfWait
<1> QED BY <1>1, TurnInvInit, TurnInvStep, PTL DEF AssistantSpec

\* What the model is shown in a turn, and what the summary of a thread folds,
\* was said in that thread, however the turns of the threads interleave.
THEOREM ThreadsSeparate == AssistantSpec => []NoBleed
<1>1. ASSUME TurnInv PROVE NoBleed
  <2>1. ASSUME NEW t \in Turns, NEW message \in turn[t].seen
        PROVE  turn[message[1]].thread = turn[t].thread
    BY <1>1, <2>1 DEF TurnInv, Separate, Said
  <2>2. ASSUME NEW thread \in Turns, NEW message \in summary[thread]
        PROVE  turn[message[1]].thread = thread
    BY <1>1, <2>2 DEF TurnInv, Separate, Said
  <2> QED BY <2>1, <2>2 DEF NoBleed
<1> QED BY <1>1, TurnInvInit, TurnInvStep, PTL DEF AssistantSpec

\* A message of the user is stored with its reply or not at all, and a client
\* that was sent the result finds both.
THEOREM TurnsWhole == AssistantSpec => []WholeTurns
<1>1. ASSUME TurnInv PROVE WholeTurns
  <2> DEFINE stored == {Id(rows[i]) : i \in {j \in DOMAIN rows : rows[j].saved}}
  <2>1. ASSUME NEW t \in Turns, NEW role \in {"user", "assistant"}
        PROVE  <<t, role>> \in stored <=> Stored(t, role)
    BY DEF Id, Stored
  <2> HIDE DEF stored
  <2>2. \A t \in Turns : /\ <<t, "user">> \in stored <=> <<t, "assistant">> \in stored
                         /\ turn[t].told = "result" => <<t, "user">> \in stored
    BY <1>1, <2>1 DEF TurnInv, WholeTurn
  <2> QED BY <2>2 DEF WholeTurns, stored
<1> QED BY <1>1, TurnInvInit, TurnInvStep, PTL DEF AssistantSpec

-----------------------------------------------------------------------------
(* The matter context store.                                               *)
(*                                                                         *)
(* An item supersedes one that was there before it, so the trail has the   *)
(* row of its creation after the other's: following the pointers goes      *)
(* forward in the trail and comes to an end.                               *)

ContextEvent == [event : {"created", "superseded"}, by : Requests, item : Requests]
AskRow == [at : {"idle", "check", "read", "resolve", "write", "done"},
           kind : {"none", "read", "write", "supersede"}, namespace : Namespaces \cup {NoSchema},
           version : SchemaNames \cup {NoSchema}, payload : Payloads \cup {NoItem},
           old : Requests \cup {NoItem}]

ContextTypes ==
  /\ schemas \in [Namespaces -> Seq([version : SchemaNames, accepts : Accepted])]
  /\ items \in [Requests -> ContextItem \cup {NoItem}]
  /\ contextTrail \in Seq(ContextEvent)
  /\ ask \in [Requests -> AskRow]

\* What a request has found out about the store.
AskSound(r) ==
  /\ ask[r].at # "done" => items[r] = NoItem
  /\ ask[r].at \in {"check", "read", "resolve", "write"} => ask[r].namespace \in Namespaces
  /\ ask[r].at \in {"resolve", "write"} => ask[r].kind \in {"write", "supersede"}
  /\ ask[r].at = "check" => ask[r].kind # "none"
  /\ ask[r].at \in {"check", "resolve", "write"} /\ ask[r].kind \in {"write", "supersede"} =>
        ask[r].payload \in Payloads
  /\ ask[r].at = "write" => /\ ask[r].version \in SchemaNames
                            /\ RowsAt(ask[r].namespace, ask[r].version) # {}
  /\ ask[r].at \in {"check", "resolve", "write"} /\ ask[r].kind = "supersede" =>
        /\ ask[r].old \in InStore
        /\ items[ask[r].old].namespace = ask[r].namespace

\* The n-th row of the trail tells of the creation of item i.
CreatedAt(i, n) == contextTrail[n].event = "created" /\ contextTrail[n].item = i

\* Every item was created once, and nothing else was.
Creations ==
  /\ \A i \in InStore : \E n \in DOMAIN contextTrail : CreatedAt(i, n)
  /\ \A n \in DOMAIN contextTrail : contextTrail[n].item \in InStore
  /\ \A i \in Requests : \A m, n \in DOMAIN contextTrail :
        CreatedAt(i, m) /\ CreatedAt(i, n) => m = n

\* The pointer of an item is that of the last row of its supersession.
Pointed(i) ==
  IF Supersessions(i) = {} THEN items[i].supersededBy = NoItem
  ELSE \E n \in Supersessions(i) : /\ items[i].supersededBy = contextTrail[n].by
                                   /\ \A m \in Supersessions(i) : m <= n

\* It points to a later item of the namespace.
Forward(i) ==
  items[i].supersededBy # NoItem =>
    /\ items[i].supersededBy \in InStore
    /\ items[items[i].supersededBy].namespace = items[i].namespace
    /\ \E m, n \in DOMAIN contextTrail :
          CreatedAt(i, m) /\ CreatedAt(items[i].supersededBy, n) /\ m < n

\* The schema row that its version names accepts its payload.
Fits(i) ==
  \E k \in RowsAt(items[i].namespace, items[i].version) :
    items[i].payload \in schemas[items[i].namespace][k].accepts

ContextInv ==
  /\ ContextTypes
  /\ \A r \in Requests : AskSound(r)
  /\ Creations
  /\ \A i \in InStore : Fits(i) /\ Pointed(i) /\ Forward(i)

LEMMA ContextStarts == ContextInit => ContextInv
<1> SUFFICES ASSUME ContextInit PROVE ContextInv
  OBVIOUS
<1>1. Quiet \in AskRow /\ Quiet.at = "idle"
  BY DEF Quiet, AskRow
<1>2. ContextTypes
  BY <1>1 DEF ContextInit, ContextTypes
<1>3. DOMAIN contextTrail = {} /\ InStore = {}
  BY DEF ContextInit, InStore
<1> QED BY <1>1, <1>2, <1>3 DEF ContextInit, ContextInv, AskSound, Creations

\* A request moves on and the store stays.
LEMMA AskMoves ==
  ASSUME ContextInv, NEW r \in Requests, NEW q \in AskRow,
         ask' = [ask EXCEPT ![r] = q], UNCHANGED <<schemas, items, contextTrail>>,
         AskSound(r)'
  PROVE  ContextInv'
<1>1. /\ ContextTypes' /\ InStore' = InStore
      /\ \A s \in Requests \ {r} : ask'[s] = ask[s]
  BY DEF ContextInv, ContextTypes, InStore
<1>2. \A s \in Requests : AskSound(s)'
  BY <1>1 DEF ContextInv, AskSound, RowsAt
<1>3. Creations'
  BY <1>1 DEF ContextInv, Creations, CreatedAt
<1>4. \A i \in InStore : Fits(i)' /\ Pointed(i)' /\ Forward(i)'
  <2> SUFFICES ASSUME NEW i \in InStore PROVE Fits(i)' /\ Pointed(i)' /\ Forward(i)'
    OBVIOUS
  <2>1. Fits(i) /\ Pointed(i) /\ Forward(i)
    BY DEF ContextInv
  <2>2. Fits(i)'
    BY <2>1 DEF Fits, RowsAt
  <2>3. Pointed(i)'
    BY <2>1 DEF Pointed, Supersessions
  <2>4. Forward(i)'
    BY <1>1, <2>1 DEF Forward, CreatedAt
  <2> QED BY <2>2, <2>3, <2>4
<1> QED BY <1>1, <1>2, <1>3, <1>4 DEF ContextInv

LEMMA EndedRow == RequestEnded \in AskRow /\ RequestEnded.at = "done"
  BY DEF RequestEnded, Quiet, AskRow

\* A request is over.
LEMMA AskEnds ==
  ASSUME ContextInv, NEW r \in Requests, ask' = [ask EXCEPT ![r] = RequestEnded],
         UNCHANGED <<schemas, items, contextTrail>>
  PROVE  ContextInv'
<1>1. ask'[r] = RequestEnded
  BY DEF ContextInv, ContextTypes
<1>2. AskSound(r)'
  BY <1>1, EndedRow DEF AskSound
<1> QED BY <1>2, AskMoves, EndedRow

LEMMA ItemIs ==
  ASSUME ContextInv, NEW i \in InStore
  PROVE  /\ items[i] \in ContextItem /\ i \in Requests
         /\ items[i].namespace \in Namespaces /\ items[i].version \in SchemaNames
  BY DEF ContextInv, ContextTypes, InStore, ContextItem

LEMMA BeginKeeps ==
  ASSUME ContextInv, NEW r \in Requests, BeginRequest(r)
  PROVE  ContextInv'
<1>1. /\ ask[r].at = "idle" /\ UNCHANGED <<schemas, items, contextTrail>>
      /\ ask \in [Requests -> AskRow]
  BY DEF BeginRequest, ContextInv, ContextTypes
<1>2. items[r] = NoItem
  BY <1>1 DEF ContextInv, AskSound
<1>3. ASSUME NEW n \in Namespaces, NEW q,
             q = [Quiet EXCEPT !.at = "check", !.kind = "read", !.namespace = n],
             ask' = [ask EXCEPT ![r] = q]
      PROVE  ContextInv'
  <2>1. q = [at |-> "check", kind |-> "read", namespace |-> n, version |-> NoSchema,
             payload |-> NoItem, old |-> NoItem]
    BY <1>3 DEF Quiet
  <2>2. q \in AskRow /\ ask'[r] = q
    BY <1>1, <1>3, <2>1 DEF AskRow
  <2>3. AskSound(r)'
    BY <1>1, <1>2, <2>1, <2>2 DEF AskSound
  <2> QED BY <1>1, <1>3, <2>2, <2>3, AskMoves
<1>4. ASSUME NEW n \in Namespaces, NEW v \in SchemaNames \cup {NoSchema}, NEW p \in Payloads,
             NEW q, q = [at |-> "check", kind |-> "write", namespace |-> n, version |-> v,
                         payload |-> p, old |-> NoItem],
             ask' = [ask EXCEPT ![r] = q]
      PROVE  ContextInv'
  <2>1. q \in AskRow /\ ask'[r] = q
    BY <1>1, <1>4 DEF AskRow
  <2>2. AskSound(r)'
    BY <1>1, <1>2, <1>4, <2>1 DEF AskSound
  <2> QED BY <1>1, <1>4, <2>1, <2>2, AskMoves
<1>5. ASSUME NEW old \in Requests, NEW v \in SchemaNames \cup {NoSchema}, NEW p \in Payloads,
             items[old] # NoItem, NEW q,
             q = [at |-> "check", kind |-> "supersede", namespace |-> items[old].namespace,
                  version |-> IF v = NoSchema THEN items[old].version ELSE v,
                  payload |-> p, old |-> old],
             ask' = [ask EXCEPT ![r] = q]
      PROVE  ContextInv'
  <2>1. old \in InStore /\ items[old].namespace \in Namespaces /\ items[old].version \in SchemaNames
    BY <1>5, ItemIs DEF InStore
  <2>2. q \in AskRow /\ ask'[r] = q
    BY <1>1, <1>5, <2>1 DEF AskRow
  <2>3. InStore' = InStore
    BY <1>1 DEF InStore
  <2>4. AskSound(r)'
    BY <1>1, <1>2, <1>5, <2>1, <2>2, <2>3 DEF AskSound
  <2> QED BY <1>1, <1>5, <2>2, <2>4, AskMoves
<1> QED BY <1>3, <1>4, <1>5 DEF BeginRequest

LEMMA CheckGrantKeeps ==
  ASSUME ContextInv, NEW r \in Requests, CheckGrant(r)
  PROVE  ContextInv'
<1>1. /\ ask[r].at = "check" /\ UNCHANGED <<schemas, items, contextTrail>>
      /\ ask \in [Requests -> AskRow] /\ AskSound(r)
      /\ \/ ask' = [ask EXCEPT ![r].at = IF ask[r].kind = "read" THEN "read" ELSE "resolve"]
         \/ ask' = [ask EXCEPT ![r] = RequestEnded]
  BY DEF CheckGrant, ContextInv, ContextTypes
<1>2. CASE ask' = [ask EXCEPT ![r].at = IF ask[r].kind = "read" THEN "read" ELSE "resolve"]
  <2> DEFINE q == [ask[r] EXCEPT !.at = IF ask[r].kind = "read" THEN "read" ELSE "resolve"]
  <2>1. ask' = [ask EXCEPT ![r] = q] /\ q \in AskRow /\ ask'[r] = q
    BY <1>1, <1>2 DEF AskRow
  <2>2. InStore' = InStore
    BY <1>1 DEF InStore
  <2>3. AskSound(r)'
    BY <1>1, <2>1, <2>2 DEF AskSound, AskRow
  <2> HIDE DEF q
  <2> QED BY <1>1, <2>1, <2>3, AskMoves
<1> QED BY <1>1, <1>2, AskEnds

LEMMA SchemaRow ==
  ASSUME ContextInv, NEW n \in Namespaces, NEW k \in DOMAIN schemas[n]
  PROVE  /\ schemas[n] \in Seq([version : SchemaNames, accepts : Accepted])
         /\ schemas[n][k].version \in SchemaNames
<1> DEFINE SchemaRows == [version : SchemaNames, accepts : Accepted]
<1>1. schemas[n] \in Seq(SchemaRows)
  BY DEF ContextInv, ContextTypes
<1>2. \A s \in Seq(SchemaRows) : \A i \in DOMAIN s : s[i] \in SchemaRows
  <2> HIDE DEF SchemaRows
  <2> QED OBVIOUS
<1>3. schemas[n][k] \in SchemaRows
  <2> HIDE DEF SchemaRows
  <2> QED BY <1>1, <1>2
<1> QED BY <1>1, <1>3

LEMMA ResolveKeeps ==
  ASSUME ContextInv, NEW r \in Requests, ResolveSchema(r)
  PROVE  ContextInv'
<1>1. PICK v : /\ ask[r].at = "resolve" /\ UNCHANGED <<schemas, items, contextTrail>>
               /\ ask' = [ask EXCEPT ![r] = IF RowsAt(ask[r].namespace, v) = {} THEN RequestEnded
                                            ELSE [@ EXCEPT !.at = "write", !.version = v]]
  BY Zenon DEF ResolveSchema
<1>2. ask \in [Requests -> AskRow] /\ AskSound(r)
  BY DEF ContextInv, ContextTypes
<1>3. CASE RowsAt(ask[r].namespace, v) # {}
  <2>1. ask[r].namespace \in Namespaces
    BY <1>1, <1>2 DEF AskSound
  <2>2. PICK k \in DOMAIN schemas[ask[r].namespace] : schemas[ask[r].namespace][k].version = v
    BY <1>3 DEF RowsAt
  <2>3. v \in SchemaNames
    BY <2>1, <2>2, SchemaRow
  <2>4. PICK q : /\ q = [ask[r] EXCEPT !.at = "write", !.version = v]
                 /\ ask' = [ask EXCEPT ![r] = q]
    BY <1>1, <1>3
  <2>5. q \in AskRow /\ ask'[r] = q /\ q.at = "write" /\ q.version = v /\ q.namespace = ask[r].namespace
        /\ q.kind = ask[r].kind /\ q.payload = ask[r].payload /\ q.old = ask[r].old
    BY <1>2, <2>3, <2>4 DEF AskRow
  <2>6. InStore' = InStore /\ \A m, w : RowsAt(m, w)' = RowsAt(m, w)
    BY <1>1 DEF InStore, RowsAt
  <2>7. RowsAt(ask[r].namespace, ask[r].version)' # {}
    BY <1>1, <1>3, <2>5 DEF RowsAt
  <2>8. AskSound(r)'
    BY <1>1, <1>2, <2>3, <2>5, <2>6, <2>7 DEF AskSound
  <2> QED BY <1>1, <2>4, <2>5, <2>8, AskMoves
<1>4. CASE RowsAt(ask[r].namespace, v) = {}
  BY <1>1, <1>4, AskEnds
<1> QED BY <1>3, <1>4

\* A schema that is registered leaves the others where they are.
LEMMA RegisterKeeps == ContextInv /\ RegisterSchema => ContextInv'
<1> SUFFICES ASSUME ContextInv, RegisterSchema PROVE ContextInv'
  OBVIOUS
<1>1. UNCHANGED <<items, contextTrail, ask>> /\ InStore' = InStore
  BY DEF RegisterSchema, InStore
<1>2. PICK n \in Namespaces, v \in SchemaNames, accepts \in Accepted :
        schemas' = [schemas EXCEPT ![n] = Append(@, [version |-> v, accepts |-> accepts])]
  BY DEF RegisterSchema
<1> DEFINE SchemaRows == [version : SchemaNames, accepts : Accepted]
<1>3. schemas \in [Namespaces -> Seq(SchemaRows)]
  BY DEF ContextInv, ContextTypes
<1>4. PICK row \in SchemaRows : schemas' = [schemas EXCEPT ![n] = Append(@, row)]
  BY <1>2
<1> HIDE DEF SchemaRows
<1>5. /\ schemas' \in [Namespaces -> Seq(SchemaRows)]
      /\ \A m \in Namespaces : \A k \in DOMAIN schemas[m] :
            k \in DOMAIN schemas'[m] /\ schemas'[m][k] = schemas[m][k]
  BY <1>3, <1>4
<1>6. ContextTypes'
  BY <1>1, <1>5 DEF ContextInv, ContextTypes, SchemaRows
<1>7. \A m \in Namespaces : \A w : RowsAt(m, w) # {} => RowsAt(m, w)' # {}
  BY <1>5 DEF RowsAt
<1>8. \A r \in Requests : AskSound(r)'
  <2> SUFFICES ASSUME NEW r \in Requests PROVE AskSound(r)'
    OBVIOUS
  <2>1. AskSound(r)
    BY DEF ContextInv
  <2>2. ask[r].at = "write" => /\ ask[r].namespace \in Namespaces
                               /\ RowsAt(ask[r].namespace, ask[r].version) # {}
    BY <2>1 DEF AskSound
  <2>3. ask[r].at = "write" => (RowsAt(ask[r].namespace, ask[r].version) # {})'
    BY <1>1, <1>5, <2>2 DEF RowsAt
  <2> QED BY <1>1, <2>1, <2>3 DEF AskSound
<1>9. Creations'
  BY <1>1 DEF ContextInv, Creations, CreatedAt
<1>10. \A i \in InStore : Fits(i)' /\ Pointed(i)' /\ Forward(i)'
  <2> SUFFICES ASSUME NEW i \in InStore PROVE Fits(i)' /\ Pointed(i)' /\ Forward(i)'
    OBVIOUS
  <2>1. Fits(i) /\ Pointed(i) /\ Forward(i) /\ items[i].namespace \in Namespaces
    BY ItemIs DEF ContextInv
  <2>2. Fits(i)'
    <3>1. PICK k \in RowsAt(items[i].namespace, items[i].version) :
            items[i].payload \in schemas[items[i].namespace][k].accepts
      BY <2>1 DEF Fits
    <3> QED BY <1>1, <1>5, <2>1, <3>1 DEF Fits, RowsAt
  <2>3. Pointed(i)'
    BY <1>1, <2>1 DEF Pointed, Supersessions
  <2>4. Forward(i)'
    BY <1>1, <2>1 DEF Forward, CreatedAt
  <2> QED BY <2>2, <2>3, <2>4
<1> QED BY <1>1, <1>6, <1>8, <1>9, <1>10 DEF ContextInv

\* A new item, and the items of P, at most one, that it supersedes.
LEMMA WrittenKeeps ==
  ASSUME ContextInv, NEW r \in Requests, ask[r].at = "write", Accepts(r),
         ask' = [ask EXCEPT ![r] = RequestEnded], schemas' = schemas,
         NEW P \in SUBSET InStore, \A i \in P : items[i].namespace = ask[r].namespace,
         items' = [i \in Requests |->
                     IF i = r THEN StoredItem(r)
                     ELSE IF i \in P THEN [items[i] EXCEPT !.supersededBy = r] ELSE items[i]],
         contextTrail' \in Seq(ContextEvent),
         NEW L \in Nat, L = Len(contextTrail),
         Len(contextTrail') = IF P = {} THEN L + 1 ELSE L + 2,
         \A k \in 1 .. L : contextTrail'[k] = contextTrail[k],
         contextTrail'[L + 1] = ContextRow("created", r, r),
         \A i \in P : contextTrail'[L + 2] = ContextRow("superseded", r, i)
  PROVE  ContextInv'
<1>1. /\ ContextTypes /\ AskSound(r) /\ Creations
      /\ \A i \in InStore : i \in Requests /\ items[i] \in ContextItem /\ items[i] # NoItem
  BY ItemIs DEF ContextInv, InStore
<1>2. /\ ask[r].namespace \in Namespaces /\ ask[r].version \in SchemaNames
      /\ ask[r].payload \in Payloads /\ RowsAt(ask[r].namespace, ask[r].version) # {}
      /\ items[r] = NoItem /\ r \notin InStore /\ r \notin P
  BY <1>1 DEF AskSound, InStore
<1>3. /\ StoredItem(r) \in ContextItem /\ StoredItem(r).supersededBy = NoItem
      /\ StoredItem(r).namespace = ask[r].namespace
      /\ StoredItem(r).version = ask[r].version /\ StoredItem(r).payload = ask[r].payload
  BY <1>2 DEF StoredItem, ContextItem
<1>4. \A i \in P : /\ [items[i] EXCEPT !.supersededBy = r] \in ContextItem
                   /\ [items[i] EXCEPT !.supersededBy = r].supersededBy = r
                   /\ [items[i] EXCEPT !.supersededBy = r].namespace = items[i].namespace
                   /\ [items[i] EXCEPT !.supersededBy = r].version = items[i].version
                   /\ [items[i] EXCEPT !.supersededBy = r].payload = items[i].payload
  BY <1>1 DEF ContextItem
<1>5. /\ items'[r] = StoredItem(r)
      /\ \A i \in P : items'[i] = [items[i] EXCEPT !.supersededBy = r]
      /\ \A i \in Requests \ (P \cup {r}) : items'[i] = items[i]
  BY <1>1, <1>2
<1>20. \A i \in P : items'[i].supersededBy = r /\ items'[i].namespace = items[i].namespace
  <2> SUFFICES ASSUME NEW i \in P
               PROVE  items'[i].supersededBy = r /\ items'[i].namespace = items[i].namespace
    OBVIOUS
  <2>1. PICK o : o = [items[i] EXCEPT !.supersededBy = r]
    OBVIOUS
  <2>2. items'[i] = o
    BY <1>5, <2>1
  <2>3. o.supersededBy = r /\ o.namespace = items[i].namespace
    BY <1>4, <2>1
  <2> QED BY <2>2, <2>3
<1>6. ContextTypes'
  <2>1. items' \in [Requests -> ContextItem \cup {NoItem}]
    BY <1>1, <1>3, <1>4, <1>5 DEF ContextTypes
  <2> QED BY <1>1, <2>1, EndedRow DEF ContextTypes
<1>7. InStore' = InStore \cup {r}
  <2>1. StoredItem(r) # NoItem /\ \A i \in P : [items[i] EXCEPT !.supersededBy = r] # NoItem
    BY <1>3, <1>4, ContextAssumption
  <2> QED BY <1>1, <1>2, <1>5, <2>1 DEF InStore
<1>8. \A i \in InStore : /\ i # r /\ items'[i].namespace = items[i].namespace
                         /\ items'[i].version = items[i].version
                         /\ items'[i].payload = items[i].payload
                         /\ items'[i].supersededBy = IF i \in P THEN r ELSE items[i].supersededBy
  BY <1>1, <1>2, <1>4, <1>5
<1>9. \A m, w : RowsAt(m, w)' = RowsAt(m, w)
  BY DEF RowsAt
<1>10. \A s \in Requests : AskSound(s)'
  <2>1. CASE TRUE
    <3> SUFFICES ASSUME NEW s \in Requests PROVE AskSound(s)'
      OBVIOUS
    <3>1. CASE s = r
      <4>1. ask'[r] = RequestEnded
        BY <1>1 DEF ContextTypes
      <4> QED BY <3>1, <4>1, EndedRow DEF AskSound
    <3>2. CASE s # r
      <4>1. AskSound(s) /\ ask'[s] = ask[s]
        BY <1>1, <3>2 DEF ContextInv, ContextTypes
      <4>2. ask[s].at # "done" => items'[s] = NoItem
        BY <1>1, <1>5, <3>2, <4>1 DEF AskSound
      <4>3. ask[s].at = "write" => RowsAt(ask[s].namespace, ask[s].version)' # {}
        BY <1>9, <4>1 DEF AskSound, RowsAt
      <4>4. ask[s].at \in {"check", "resolve", "write"} /\ ask[s].kind = "supersede" =>
              ask[s].old \in InStore' /\ items'[ask[s].old].namespace = ask[s].namespace
        BY <1>7, <1>8, <4>1 DEF AskSound
      <4>5. ask[s].at = "write" => (RowsAt(ask[s].namespace, ask[s].version) # {})'
        BY <4>1, <4>3 DEF RowsAt
      <4> QED BY <4>1, <4>2, <4>4, <4>5 DEF AskSound
    <3> QED BY <3>1, <3>2
  <2> QED BY <2>1
<1>11. /\ DOMAIN contextTrail = 1 .. L /\ DOMAIN contextTrail' = 1 .. Len(contextTrail')
       /\ L + 1 \in DOMAIN contextTrail'
       /\ \A k \in DOMAIN contextTrail' : k \in 1 .. L \/ k = L + 1 \/ (k = L + 2 /\ P # {})
       /\ \A k \in 1 .. L : k \in DOMAIN contextTrail'
       /\ P # {} => L + 2 \in DOMAIN contextTrail'
  BY <1>1 DEF ContextTypes
<1>12. \A i \in P : P = {i}
  <2> SUFFICES ASSUME NEW i \in P, NEW j \in P PROVE i = j
    OBVIOUS
  <2>1. ContextRow("superseded", r, i).item = i /\ ContextRow("superseded", r, j).item = j
    BY DEF ContextRow
  <2> QED BY <2>1
<1>13. /\ contextTrail'[L + 1].event = "created" /\ contextTrail'[L + 1].item = r
       /\ \A i \in P : /\ contextTrail'[L + 2].event = "superseded"
                       /\ contextTrail'[L + 2].item = i /\ contextTrail'[L + 2].by = r
  <2>1. \A event, i : /\ ContextRow(event, r, i).event = event
                      /\ ContextRow(event, r, i).by = r /\ ContextRow(event, r, i).item = i
    BY DEF ContextRow
  <2> HIDE DEF ContextRow
  <2> QED BY <2>1
<1>14. /\ \A i, k : k \in 1 .. L => (CreatedAt(i, k)' <=> CreatedAt(i, k))
       /\ CreatedAt(r, L + 1)'
       /\ \A i \in Requests : \A k \in DOMAIN contextTrail' : CreatedAt(i, k)' =>
             \/ k \in 1 .. L /\ CreatedAt(i, k) /\ i # r
             \/ k = L + 1 /\ i = r
  <2>1. /\ \A i, k : k \in 1 .. L => (CreatedAt(i, k)' <=> CreatedAt(i, k))
        /\ CreatedAt(r, L + 1)'
    BY <1>13 DEF CreatedAt
  <2>2. \A k \in 1 .. L : contextTrail[k].item # r
    BY <1>1, <1>2, <1>11 DEF Creations
  <2>3. ASSUME NEW i \in Requests, NEW k \in DOMAIN contextTrail', CreatedAt(i, k)'
        PROVE  \/ k \in 1 .. L /\ CreatedAt(i, k) /\ i # r
               \/ k = L + 1 /\ i = r
    <3>1. CASE k \in 1 .. L
      BY <2>1, <2>2, <2>3, <3>1 DEF CreatedAt
    <3>2. CASE k = L + 1
      BY <1>13, <2>3, <3>2 DEF CreatedAt
    <3>3. CASE k = L + 2 /\ P # {}
      BY <1>13, <2>3, <3>3 DEF CreatedAt
    <3> QED BY <1>11, <3>1, <3>2, <3>3
  <2> QED BY <2>1, <2>3
<1>15. Creations'
  <2>1. \A i \in InStore' : \E k \in DOMAIN contextTrail' : CreatedAt(i, k)'
    BY <1>1, <1>7, <1>11, <1>14 DEF Creations
  <2>2. \A k \in DOMAIN contextTrail' : contextTrail'[k].item \in InStore'
    BY <1>1, <1>7, <1>11, <1>13 DEF Creations
  <2>3. \A i \in Requests : \A m, k \in DOMAIN contextTrail' :
          CreatedAt(i, m)' /\ CreatedAt(i, k)' => m = k
    BY <1>1, <1>11, <1>14 DEF Creations
  <2> QED BY <2>1, <2>2, <2>3 DEF Creations, CreatedAt
<1>16. \A i \in InStore' : Fits(i)'
  <2>1. Fits(r)'
    BY <1>2, <1>3, <1>5 DEF Fits, Accepts, RowsAt
  <2>2. ASSUME NEW i \in InStore PROVE Fits(i)'
    <3>1. Fits(i)
      BY DEF ContextInv
    <3> QED BY <1>8, <3>1 DEF Fits, RowsAt
  <2> QED BY <1>7, <2>1, <2>2
<1>17. \A i \in Requests : Supersessions(i)' = Supersessions(i) \cup (IF i \in P THEN {L + 2} ELSE {})
  <2> SUFFICES ASSUME NEW i \in Requests, NEW k
               PROVE  k \in Supersessions(i)' <=>
                        k \in Supersessions(i) \/ (i \in P /\ k = L + 2)
    BY DEF Supersessions
  <2>1. CASE k \in 1 .. L
    BY <1>11, <2>1 DEF Supersessions
  <2>2. CASE k = L + 1
    BY <1>11, <1>13, <2>2 DEF Supersessions
  <2>3. CASE k = L + 2 /\ P # {}
    BY <1>11, <1>12, <1>13, <2>3 DEF Supersessions
  <2>4. CASE k \notin DOMAIN contextTrail'
    BY <1>11, <2>4 DEF Supersessions
  <2> QED BY <1>11, <2>1, <2>2, <2>3, <2>4
<1>18. \A i \in InStore' : Pointed(i)'
  <2>1. Pointed(r)'
    <3>1. Supersessions(r) = {}
      BY <1>1, <1>2 DEF Creations, Supersessions
    <3>2. Supersessions(r)' = {}
      BY <1>2, <1>17, <3>1
    <3> QED BY <1>3, <1>5, <3>2 DEF Pointed
  <2>2. ASSUME NEW i \in P PROVE Pointed(i)'
    <3>1. Supersessions(i)' = Supersessions(i) \cup {L + 2} /\ Supersessions(i) \subseteq 1 .. L
      BY <1>1, <1>11, <1>17 DEF Supersessions
    <3>2. items'[i].supersededBy = r /\ contextTrail'[L + 2].by = r
      BY <1>13, <1>20, Zenon
    <3>3. L + 2 \in Supersessions(i)' /\ \A m \in Supersessions(i)' : m <= L + 2
      BY <3>1
    <3> QED BY <3>2, <3>3 DEF Pointed
  <2>3. ASSUME NEW i \in InStore \ P PROVE Pointed(i)'
    <3>1. Pointed(i) /\ Supersessions(i)' = Supersessions(i) /\ Supersessions(i) \subseteq 1 .. L
      BY <1>1, <1>11, <1>17 DEF ContextInv, Supersessions
    <3>2. items'[i].supersededBy = items[i].supersededBy
      BY <1>8
    <3>3. \A k \in Supersessions(i) : contextTrail'[k] = contextTrail[k]
      BY <3>1
    <3> QED BY <3>1, <3>2, <3>3 DEF Pointed
  <2> QED BY <1>7, <2>1, <2>2, <2>3
<1>19. \A i \in InStore' : Forward(i)'
  <2>1. Forward(r)'
    BY <1>3, <1>5 DEF Forward
  <2>2. ASSUME NEW i \in P PROVE Forward(i)'
    <3>1. PICK m \in DOMAIN contextTrail : CreatedAt(i, m)
      BY <1>1 DEF Creations
    <3>2. CreatedAt(i, m)' /\ CreatedAt(r, L + 1)' /\ m < L + 1
      BY <1>11, <1>14, <3>1
    <3>3. items'[i].supersededBy = r /\ items'[i].namespace = items[i].namespace
      BY <1>20
    <3>4. items'[r].namespace = ask[r].namespace /\ items[i].namespace = ask[r].namespace
      BY <1>3, <1>5
    <3>5. r \in InStore' /\ m \in DOMAIN contextTrail' /\ L + 1 \in DOMAIN contextTrail'
      BY <1>7, <1>11, <3>1
    <3> QED BY <3>2, <3>3, <3>4, <3>5, Zenon DEF Forward
  <2>3. ASSUME NEW i \in InStore \ P, items[i].supersededBy # NoItem PROVE Forward(i)'
    <3>1. PICK j : j = items[i].supersededBy
      OBVIOUS
    <3>2. /\ j \in InStore /\ items[j].namespace = items[i].namespace
          /\ \E m, n \in DOMAIN contextTrail : CreatedAt(i, m) /\ CreatedAt(j, n) /\ m < n
      BY <2>3, <3>1 DEF ContextInv, Forward
    <3>3. PICK m \in DOMAIN contextTrail, n \in DOMAIN contextTrail :
            CreatedAt(i, m) /\ CreatedAt(j, n) /\ m < n
      BY <3>2
    <3>4. CreatedAt(i, m)' /\ CreatedAt(j, n)' /\ m \in DOMAIN contextTrail' /\ n \in DOMAIN contextTrail'
      BY <1>11, <1>14, <3>3
    <3>5. items'[i].supersededBy = j /\ items'[j].namespace = items'[i].namespace /\ j \in InStore'
      BY <1>7, <1>8, <3>1, <3>2
    <3> QED BY <3>3, <3>4, <3>5 DEF Forward
  <2>4. ASSUME NEW i \in InStore \ P, items[i].supersededBy = NoItem PROVE Forward(i)'
    BY <1>8, <2>4 DEF Forward
  <2> QED BY <1>7, <2>1, <2>2, <2>3, <2>4
<1> QED BY <1>6, <1>10, <1>15, <1>16, <1>18, <1>19 DEF ContextInv

LEMMA WriteItemKeeps ==
  ASSUME ContextInv, NEW r \in Requests, WriteItem(r)
  PROVE  ContextInv'
<1>1. /\ ContextTypes /\ ask[r].at = "write" /\ AskSound(r) /\ schemas' = schemas
      /\ ask' = [ask EXCEPT ![r] = RequestEnded]
  BY DEF WriteItem, ContextInv
<1>2. CASE UNCHANGED <<items, contextTrail>>
  BY <1>1, <1>2, AskEnds
<1>3. ASSUME Accepts(r), items' = [items EXCEPT ![r] = StoredItem(r)],
             contextTrail' = Append(contextTrail, ContextRow("created", r, r))
      PROVE  ContextInv'
  <2>1. ContextRow("created", r, r) \in ContextEvent
    BY DEF ContextRow, ContextEvent
  <2>2. PICK row \in ContextEvent, L \in Nat :
          /\ row = ContextRow("created", r, r) /\ L = Len(contextTrail)
    BY <1>1, <2>1 DEF ContextTypes
  <2>3. /\ contextTrail' \in Seq(ContextEvent) /\ Len(contextTrail') = L + 1
        /\ contextTrail'[L + 1] = row /\ \A k \in 1 .. L : contextTrail'[k] = contextTrail[k]
    BY <1>1, <1>3, <2>2 DEF ContextTypes
  <2>4. items' = [i \in Requests |-> IF i = r THEN StoredItem(r) ELSE items[i]]
    BY <1>1, <1>3 DEF ContextTypes
  <2>5. PICK P \in SUBSET InStore : P = {}
    OBVIOUS
  <2>6. items' = [i \in Requests |->
                    IF i = r THEN StoredItem(r)
                    ELSE IF i \in P THEN [items[i] EXCEPT !.supersededBy = r] ELSE items[i]]
    BY <2>4, <2>5
  <2>7. /\ Len(contextTrail') = IF P = {} THEN L + 1 ELSE L + 2
        /\ \A i \in P : items[i].namespace = ask[r].namespace
        /\ \A i \in P : contextTrail'[L + 2] = ContextRow("superseded", r, i)
    BY <2>3, <2>5
  <2>8. contextTrail'[L + 1] = ContextRow("created", r, r)
    BY <2>2, <2>3
  <2> QED BY <1>1, <1>3, <2>2, <2>3, <2>6, <2>7, <2>8, WrittenKeeps, Zenon
<1>4. ASSUME Accepts(r), ask[r].kind = "supersede",
             items' = [[items EXCEPT ![r] = StoredItem(r)] EXCEPT ![ask[r].old].supersededBy = r],
             contextTrail' = contextTrail \o <<ContextRow("created", r, r),
                                               ContextRow("superseded", r, ask[r].old)>>
      PROVE  ContextInv'
  <2>1. PICK old \in InStore : old = ask[r].old /\ items[old].namespace = ask[r].namespace
    BY <1>1, <1>4 DEF AskSound
  <2>2. old \in Requests /\ old # r
    BY <1>1, <2>1 DEF AskSound, InStore
  <2>3. ContextRow("created", r, r) \in ContextEvent /\ ContextRow("superseded", r, old) \in ContextEvent
    BY <2>2 DEF ContextRow, ContextEvent
  <2>4. PICK a \in ContextEvent, b \in ContextEvent, L \in Nat :
          /\ a = ContextRow("created", r, r) /\ b = ContextRow("superseded", r, old)
          /\ L = Len(contextTrail)
    BY <1>1, <2>3 DEF ContextTypes
  <2>5. contextTrail' = contextTrail \o <<a, b>>
    BY <1>4, <2>1, <2>4
  <2>6. /\ contextTrail' \in Seq(ContextEvent) /\ Len(contextTrail') = L + 2
        /\ contextTrail'[L + 1] = a /\ contextTrail'[L + 2] = b
        /\ \A k \in 1 .. L : contextTrail'[k] = contextTrail[k]
    BY <1>1, <2>4, <2>5 DEF ContextTypes
  <2>7. PICK P \in SUBSET InStore : P = {old}
    BY <2>1
  <2>8. items' = [i \in Requests |->
                    IF i = r THEN StoredItem(r)
                    ELSE IF i \in P THEN [items[i] EXCEPT !.supersededBy = r] ELSE items[i]]
    <3>1. items \in [Requests -> ContextItem \cup {NoItem}]
      BY <1>1 DEF ContextTypes
    <3>2. items' = [[items EXCEPT ![r] = StoredItem(r)] EXCEPT ![old].supersededBy = r]
      BY <1>4, <2>1
    <3>3. PICK w : w = [items EXCEPT ![r] = StoredItem(r)]
      OBVIOUS
    <3>4. w = [i \in Requests |-> IF i = r THEN StoredItem(r) ELSE items[i]] /\ w[old] = items[old]
      BY <2>2, <3>1, <3>3
    <3>5. items' = [w EXCEPT ![old] = [w[old] EXCEPT !.supersededBy = r]]
      BY <3>2, <3>3
    <3>6. PICK o : o = [items[old] EXCEPT !.supersededBy = r]
      OBVIOUS
    <3>7. items' = [i \in Requests |-> IF i = r THEN StoredItem(r)
                                       ELSE IF i = old THEN o ELSE items[i]]
      BY <2>2, <3>4, <3>5, <3>6
    <3> QED BY <2>2, <2>7, <3>6, <3>7
  <2>9. /\ Len(contextTrail') = IF P = {} THEN L + 1 ELSE L + 2
        /\ \A i \in P : items[i].namespace = ask[r].namespace
        /\ \A i \in P : contextTrail'[L + 2] = ContextRow("superseded", r, i)
    BY <2>1, <2>4, <2>6, <2>7
  <2>10. contextTrail'[L + 1] = ContextRow("created", r, r)
    BY <2>4, <2>6
  <2> QED BY <1>1, <1>4, <2>4, <2>6, <2>8, <2>9, <2>10, WrittenKeeps, Zenon
<1> QED BY <1>2, <1>3, <1>4, Zenon DEF WriteItem

LEMMA ContextStep == ContextInv /\ [ContextNext]_contextVars => ContextInv'
<1> SUFFICES ASSUME ContextInv, [ContextNext]_contextVars PROVE ContextInv'
  OBVIOUS
<1>1. ASSUME NEW r \in Requests,
             BeginRequest(r) \/ CheckGrant(r) \/ ReadItems(r) \/ ResolveSchema(r) \/ WriteItem(r)
      PROVE  ContextInv'
  <2>1. ReadItems(r) => ContextInv'
    BY AskEnds DEF ReadItems
  <2> QED BY <1>1, <2>1, BeginKeeps, CheckGrantKeeps, ResolveKeeps, WriteItemKeeps
<1>2. ASSUME UNCHANGED <<schemas, items, contextTrail, ask>> PROVE ContextInv'
  <2>1. Creations'
    BY <1>2 DEF ContextInv, Creations, CreatedAt, InStore
  <2>2. \A i \in InStore' : Fits(i)' /\ Pointed(i)' /\ Forward(i)'
    BY <1>2 DEF ContextInv, Fits, Pointed, Forward, Supersessions, RowsAt, CreatedAt, InStore
  <2>3. \A r \in Requests : AskSound(r)'
    BY <1>2 DEF ContextInv, AskSound, RowsAt, InStore
  <2> QED BY <1>2, <2>1, <2>2, <2>3 DEF ContextInv, ContextTypes
<1> QED BY <1>1, <1>2, RegisterKeeps
        DEF ContextNext, contextVars, ChangeContextGrant, CloseContextMatter

\* From every item the pointers lead to one that none supersedes.
LEMMA LiveReached ==
  ASSUME ContextInv, NEW i \in InStore
  PROVE  Reached(i) \cap Live(items[i].namespace) # {}
<1> DEFINE Kin == {j \in InStore : items[j].namespace = items[i].namespace}
<1>1. Creations /\ ContextTypes /\ \A j \in InStore : j \in Requests /\ Forward(j)
  BY DEF ContextInv, InStore
<1>2. i \in Reached(i)
  BY <1>1 DEF Reached
<1>3. Reached(i) \subseteq Kin
  <2>1. Kin \subseteq Requests /\ i \in Kin
    BY <1>1
  <2>2. Closed(Kin)
    BY <1>1 DEF Closed, Forward
  <2> QED BY <2>1, <2>2 DEF Reached
<1>4. ASSUME NEW j \in Reached(i), items[j].supersededBy # NoItem
      PROVE  items[j].supersededBy \in Reached(i)
  <2>1. j \in InStore /\ items[j].supersededBy \in Requests
    BY <1>1, <1>3, <1>4 DEF Forward
  <2> QED BY <1>4, <2>1 DEF Reached, Closed
<1> HIDE DEF Kin
\* the places of the trail that create one of them, counted from its end
<1> DEFINE L == Len(contextTrail)
           Back == {L - n : n \in {m \in DOMAIN contextTrail : \E j \in Reached(i) : CreatedAt(j, m)}}
<1>5. L \in Nat /\ DOMAIN contextTrail = 1 .. L
  BY <1>1 DEF ContextTypes
<1>6. Back \in SUBSET Nat /\ Back # {}
  <2>1. PICK m \in DOMAIN contextTrail : CreatedAt(i, m)
    BY <1>1 DEF Creations
  <2>2. L - m \in Back
    BY <1>2, <2>1
  <2> HIDE DEF L
  <2>3. Back \in SUBSET Nat
    BY <1>5
  <2> QED BY <2>2, <2>3
<1>7. PICK least \in Back : \A b \in Back : least <= b
  <2> HIDE DEF Back
  <2> QED BY <1>6, LeastNatural
<1>8. PICK n \in DOMAIN contextTrail, j \in Reached(i) : least = L - n /\ CreatedAt(j, n)
  BY <1>7
<1>9. items[j].supersededBy = NoItem
  <2> SUFFICES ASSUME items[j].supersededBy # NoItem PROVE FALSE
    OBVIOUS
  <2>1. PICK next \in Reached(i) : next = items[j].supersededBy
    BY <1>4
  <2>2. j \in InStore /\ j \in Requests
    BY <1>1, <1>3 DEF Kin
  <2>3. PICK p \in DOMAIN contextTrail, q \in DOMAIN contextTrail :
          CreatedAt(j, p) /\ CreatedAt(next, q) /\ p < q
    BY <1>1, <2>1, <2>2 DEF Forward
  <2>4. p = n
    BY <1>1, <1>8, <2>2, <2>3 DEF Creations
  <2>5. L - q \in Back
    BY <2>1, <2>3
  <2>6. L - n <= L - q
    BY <1>7, <1>8, <2>5
  <2> HIDE DEF L
  <2> QED BY <1>5, <2>3, <2>4, <2>6
<1> QED BY <1>1, <1>3, <1>8, <1>9 DEF Live, Kin, InStore

LEMMA ContextShows == ContextInv => ContextExplained
<1> SUFFICES ASSUME ContextInv, NEW i \in InStore
             PROVE  /\ \E k \in RowsAt(items[i].namespace, items[i].version) :
                          items[i].payload \in schemas[items[i].namespace][k].accepts
                    /\ items[i].supersededBy = IF Supersessions(i) = {} THEN NoItem
                                               ELSE contextTrail[Max(Supersessions(i))].by
                    /\ Reached(i) \cap Live(items[i].namespace) # {}
  BY DEF ContextExplained
<1>1. Fits(i) /\ Pointed(i)
  BY DEF ContextInv
<1>2. Supersessions(i) # {} => items[i].supersededBy = contextTrail[Max(Supersessions(i))].by
  <2> SUFFICES ASSUME Supersessions(i) # {}
               PROVE  items[i].supersededBy = contextTrail[Max(Supersessions(i))].by
    OBVIOUS
  <2>1. Supersessions(i) \in SUBSET Nat
    BY DEF ContextInv, ContextTypes, Supersessions
  <2>2. PICK n \in Supersessions(i) : /\ items[i].supersededBy = contextTrail[n].by
                                      /\ \A m \in Supersessions(i) : m <= n
    BY <1>1 DEF Pointed
  <2> QED BY <2>1, <2>2, MaxIs
<1> QED BY <1>1, <1>2, LiveReached DEF Fits, Pointed

\* Every payload in the context store is one that the schema row its version
\* names accepts, every pointer the one that the last supersession recorded,
\* and following the pointers from any item ends at a live one of its namespace,
\* however the requests interleaved with each other and with the registration
\* of newer versions (write_item and supersede_item of core/context).
THEOREM ContextIsExplained == ContextSpec => []ContextExplained
<1>1. ContextSpec => []ContextInv
  BY ContextStarts, ContextStep, PTL DEF ContextSpec
<1> QED BY <1>1, ContextShows, PTL

-----------------------------------------------------------------------------
(* The order of the timeline.                                              *)

\* Where a row comes among those of S.
Earlier(r, S) == {q \in S : KeyBefore(q, r)}

LEMMA KeyOrder ==
  /\ \A q \in TimelineEntry : ~ KeyBefore(q, q)
  /\ \A q, r \in TimelineEntry : q = r \/ KeyBefore(q, r) \/ KeyBefore(r, q)
  /\ \A q, r, s \in TimelineEntry : KeyBefore(q, r) /\ KeyBefore(r, s) => KeyBefore(q, s)
<1>1. /\ SourceOrder["audit"] = 0 /\ SourceOrder["state_machine"] = 1
      /\ SourceOrder["advice_boundary"] = 2
      /\ TimelineSources = {"audit", "state_machine", "advice_boundary"}
  BY DEF SourceOrder, TimelineSources
<1>2. /\ \A a \in TimelineSources : SourceOrder[a] \in Int
      /\ \A a, b \in TimelineSources : SourceOrder[a] = SourceOrder[b] => a = b
  BY <1>1
<1>3. \A q \in TimelineEntry : /\ q.source \in TimelineSources /\ q.at \in Int /\ q.id \in Int
                               /\ q = [source |-> q.source, at |-> q.at, id |-> q.id]
  <2>1. \A q \in TimelineEntry : q.at \in 1 .. MaxTime /\ q.id \in EventIds
    BY DEF TimelineEntry
  <2>2. \A q \in TimelineEntry : /\ q.source \in TimelineSources
                                 /\ q = [source |-> q.source, at |-> q.at, id |-> q.id]
    BY DEF TimelineEntry
  <2>3. EventIds \subseteq Int /\ 1 .. MaxTime \subseteq Int
    BY TimelineAssumption
  <2> QED BY <2>1, <2>2, <2>3
<1> HIDE DEF SourceOrder
<1>4. \A q \in TimelineEntry : ~ KeyBefore(q, q)
  BY <1>2, <1>3 DEF KeyBefore
<1>5. ASSUME NEW q \in TimelineEntry, NEW r \in TimelineEntry, q # r
      PROVE  KeyBefore(q, r) \/ KeyBefore(r, q)
  <2>1. q.source # r.source \/ q.at # r.at \/ q.id # r.id
    BY <1>3, <1>5
  <2>2. q.source # r.source => SourceOrder[q.source] # SourceOrder[r.source]
    BY <1>2, <1>3
  <2> QED BY <1>2, <1>3, <2>1, <2>2 DEF KeyBefore
<1>6. ASSUME NEW q \in TimelineEntry, NEW r \in TimelineEntry, NEW s \in TimelineEntry,
             KeyBefore(q, r), KeyBefore(r, s)
      PROVE  KeyBefore(q, s)
  <2>1. PICK a \in Int, b \in Int, c \in Int :
          a = SourceOrder[q.source] /\ b = SourceOrder[r.source] /\ c = SourceOrder[s.source]
    BY <1>2, <1>3
  <2> QED BY <1>3, <1>6, <2>1 DEF KeyBefore
<1> QED BY <1>4, <1>5, <1>6

LEMMA RankType ==
  ASSUME NEW S \in SUBSET TimelineEntry, IsFiniteSet(S), NEW r
  PROVE  /\ IsFiniteSet(Earlier(r, S)) /\ Cardinality(Earlier(r, S)) \in Nat
         /\ Cardinality(S) \in Nat
  BY FS_Subset, FS_CardinalityType DEF Earlier

\* The rank of a row grows with its key, and every rank below the number of rows is taken.
LEMMA RankGrows ==
  ASSUME NEW S \in SUBSET TimelineEntry, IsFiniteSet(S),
         NEW q \in S, NEW r \in TimelineEntry, KeyBefore(q, r)
  PROVE  Cardinality(Earlier(q, S)) < Cardinality(Earlier(r, S))
<1>1. q \notin Earlier(q, S) /\ Earlier(q, S) \cup {q} \subseteq Earlier(r, S)
  BY KeyOrder DEF Earlier
<1>2. /\ IsFiniteSet(Earlier(q, S)) /\ IsFiniteSet(Earlier(r, S))
      /\ Cardinality(Earlier(q, S)) \in Nat /\ Cardinality(Earlier(r, S)) \in Nat
  BY RankType
<1>3. Cardinality(Earlier(q, S) \cup {q}) = Cardinality(Earlier(q, S)) + 1
  BY <1>1, <1>2, FS_AddElement
<1>4. Cardinality(Earlier(q, S) \cup {q}) <= Cardinality(Earlier(r, S))
  BY <1>1, <1>2, FS_Subset
<1> QED BY <1>2, <1>3, <1>4

LEMMA RankBelow ==
  ASSUME NEW S \in SUBSET TimelineEntry, IsFiniteSet(S), NEW r \in S
  PROVE  Cardinality(Earlier(r, S)) < Cardinality(S)
<1>1. Earlier(r, S) \subseteq S /\ Earlier(r, S) # S
  BY KeyOrder DEF Earlier
<1>2. Cardinality(Earlier(r, S)) <= Cardinality(S) /\ Cardinality(Earlier(r, S)) # Cardinality(S)
  BY <1>1, FS_Subset
<1> QED BY <1>2, RankType

LEMMA RankOnto ==
  ASSUME NEW S \in SUBSET TimelineEntry, IsFiniteSet(S), NEW i \in 1 .. Cardinality(S)
  PROVE  \E r \in S : Cardinality(Earlier(r, S)) = i - 1
<1> DEFINE n == Cardinality(S)
           rank == [r \in S |-> Cardinality(Earlier(r, S)) + 1]
<1>1. n \in Nat /\ IsFiniteSet(1 .. n) /\ Cardinality(1 .. n) = n
  BY FS_CardinalityType, FS_Interval
<1>2. ASSUME NEW r \in S PROVE Cardinality(Earlier(r, S)) + 1 \in 1 .. n
  BY <1>1, RankBelow, RankType
<1>3. rank \in [S -> 1 .. n]
  BY <1>2
<1>4. \A q, r \in S : rank[q] = rank[r] => q = r
  <2> SUFFICES ASSUME NEW q \in S, NEW r \in S, q # r PROVE rank[q] # rank[r]
    OBVIOUS
  <2>1. Cardinality(Earlier(q, S)) \in Nat /\ Cardinality(Earlier(r, S)) \in Nat
    BY RankType
  <2>2. \/ Cardinality(Earlier(q, S)) < Cardinality(Earlier(r, S))
        \/ Cardinality(Earlier(r, S)) < Cardinality(Earlier(q, S))
    BY KeyOrder, RankGrows
  <2> QED BY <2>1, <2>2
<1>5. rank \in Injection(S, 1 .. n)
  BY <1>3, <1>4 DEF Injection, IsInjective
<1>6. rank \in Surjection(S, 1 .. n)
  BY <1>1, <1>5, FS_Injection
<1>7. PICK r \in S : rank[r] = i
  BY <1>6 DEF Surjection
<1>8. Cardinality(Earlier(r, S)) + 1 = i /\ Cardinality(Earlier(r, S)) \in Nat
  BY <1>7, RankType
<1> QED BY <1>8

\* InOrder lists a page from its first row to its last.
LEMMA InOrderIs ==
  ASSUME NEW S \in SUBSET TimelineEntry, IsFiniteSet(S)
  PROVE  /\ InOrder(S) \in Seq(S) /\ Len(InOrder(S)) = Cardinality(S)
         /\ \A i \in 1 .. Cardinality(S) : Cardinality(Earlier(InOrder(S)[i], S)) = i - 1
         /\ \A i, j \in 1 .. Cardinality(S) :
               i < j => KeyBefore(InOrder(S)[i], InOrder(S)[j])
         /\ S = {InOrder(S)[i] : i \in 1 .. Cardinality(S)}
<1> DEFINE n == Cardinality(S)
           At(i) == CHOOSE r \in S : Cardinality(Earlier(r, S)) = i - 1
<1>1. n \in Nat
  BY FS_CardinalityType
<1>2. \A i \in 1 .. n : At(i) \in S /\ Cardinality(Earlier(At(i), S)) = i - 1
  BY RankOnto
<1>3. InOrder(S) = [i \in 1 .. n |-> At(i)]
  BY DEF InOrder, Earlier
<1> HIDE DEF At
<1>4. InOrder(S) \in Seq(S) /\ Len(InOrder(S)) = n
  BY <1>1, <1>2, <1>3
<1>5. \A i, j \in 1 .. n : i < j => KeyBefore(At(i), At(j))
  <2> SUFFICES ASSUME NEW i \in 1 .. n, NEW j \in 1 .. n, i < j PROVE KeyBefore(At(i), At(j))
    OBVIOUS
  <2>1. At(i) # At(j)
    BY <1>1, <1>2
  <2>2. ~ KeyBefore(At(j), At(i))
    BY <1>1, <1>2, RankGrows
  <2> QED BY <1>2, <2>1, <2>2, KeyOrder
<1>6. ASSUME NEW r \in S PROVE \E i \in 1 .. n : r = At(i)
  <2>1. Cardinality(Earlier(r, S)) \in Nat /\ Cardinality(Earlier(r, S)) < n
    BY RankBelow, RankType
  <2>2. PICK i \in 1 .. n : i = Cardinality(Earlier(r, S)) + 1
    BY <1>1, <2>1
  <2>3. Cardinality(Earlier(At(i), S)) = Cardinality(Earlier(r, S))
    BY <1>2, <2>1, <2>2
  <2>4. ~ KeyBefore(r, At(i)) /\ ~ KeyBefore(At(i), r)
    BY <1>2, <2>1, <2>3, RankGrows
  <2> QED BY <1>2, <2>4, KeyOrder
<1>7. S = {InOrder(S)[i] : i \in 1 .. n}
  BY <1>2, <1>3, <1>6
<1> QED BY <1>2, <1>3, <1>4, <1>5, <1>7

LEMMA EarliestAre ==
  ASSUME NEW S \in SUBSET TimelineEntry, IsFiniteSet(S), NEW n \in Nat \ {0}
  PROVE  /\ Earliest(S, n) \in SUBSET S
         /\ Cardinality(S) <= n => Earliest(S, n) = S
         /\ Cardinality(S) > n =>
               \E last \in Earliest(S, n) :
                  /\ Cardinality(Earlier(last, S)) = n - 1
                  /\ Earliest(S, n) = {r \in S : r = last \/ KeyBefore(r, last)}
                  /\ Cardinality(Earliest(S, n)) = n
<1>1. Earliest(S, n) = {r \in S : Cardinality(Earlier(r, S)) < n}
  BY DEF Earliest, Earlier
<1>2. \A r \in S : Cardinality(Earlier(r, S)) \in Nat /\ Cardinality(Earlier(r, S)) < Cardinality(S)
  BY RankType, RankBelow
<1>3. Cardinality(S) \in Nat
  BY FS_CardinalityType
<1>4. Cardinality(S) <= n => Earliest(S, n) = S
  BY <1>1, <1>2, <1>3
<1>5. ASSUME Cardinality(S) > n
      PROVE  \E last \in Earliest(S, n) :
                /\ Cardinality(Earlier(last, S)) = n - 1
                /\ Earliest(S, n) = {r \in S : r = last \/ KeyBefore(r, last)}
                /\ Cardinality(Earliest(S, n)) = n
  <2>1. n \in 1 .. Cardinality(S)
    BY <1>3, <1>5
  <2>2. PICK last \in S : Cardinality(Earlier(last, S)) = n - 1
    BY <2>1, RankOnto
  <2>3. last \in Earliest(S, n)
    BY <1>1, <2>2
  <2>4. ASSUME NEW r \in S
        PROVE  Cardinality(Earlier(r, S)) < n <=> r = last \/ KeyBefore(r, last)
    <3>1. KeyBefore(r, last) => Cardinality(Earlier(r, S)) < n - 1
      BY <2>2, RankGrows
    <3>2. KeyBefore(last, r) => n - 1 < Cardinality(Earlier(r, S))
      BY <2>2, RankGrows
    <3>3. r = last \/ KeyBefore(r, last) \/ KeyBefore(last, r)
      BY KeyOrder
    <3>4. ~ (KeyBefore(last, r) /\ KeyBefore(r, last)) /\ ~ KeyBefore(last, last)
      BY KeyOrder
    <3> QED BY <1>2, <2>2, <3>1, <3>2, <3>3, <3>4
  <2>5. Earliest(S, n) = {r \in S : r = last \/ KeyBefore(r, last)}
    BY <1>1, <2>4
  <2>6. Earliest(S, n) = Earlier(last, S) \cup {last} /\ last \notin Earlier(last, S)
    BY <2>5, KeyOrder DEF Earlier
  <2>7. Cardinality(Earliest(S, n)) = n
    BY <2>2, <2>6, RankType, FS_AddElement
  <2> QED BY <2>2, <2>3, <2>5, <2>7
<1> QED BY <1>1, <1>4, <1>5

\* A row that a LIMIT leaves out comes after as many rows as the limit allows.
LEMMA LeftOut ==
  ASSUME NEW S \in SUBSET TimelineEntry, IsFiniteSet(S), NEW n \in Nat \ {0},
         NEW e \in S, e \notin Earliest(S, n)
  PROVE  Earlier(e, Earliest(S, n)) = Earliest(S, n) /\ Cardinality(Earliest(S, n)) = n
<1>1. ~ (Cardinality(S) <= n)
  BY EarliestAre
<1>2. Cardinality(S) > n
  BY <1>1, FS_CardinalityType
<1>3. PICK last \in Earliest(S, n) :
        /\ Earliest(S, n) = {r \in S : r = last \/ KeyBefore(r, last)}
        /\ Cardinality(Earliest(S, n)) = n
  BY <1>2, EarliestAre
<1>4. last \in S /\ KeyBefore(last, e)
  BY <1>3, KeyOrder
<1> QED BY <1>3, <1>4, KeyOrder DEF Earlier

LEMMA NoEntryIs == NoEntry \notin TimelineEntry
<1>1. NoEntry.at = 0
  BY DEF NoEntry
<1>2. \A e \in TimelineEntry : e.at # 0
  BY TimelineAssumption DEF TimelineEntry
<1> QED BY <1>1, <1>2

\* A page is what was pulled up to its last row, or all of it.
LEMMA PageIs ==
  ASSUME NEW P \in SUBSET TimelineEntry, IsFiniteSet(P), NEW c, AfterCursor(P, c) = P
  PROVE  /\ PageOf(P, c) \in SUBSET P
         /\ NextCursor(P, c) = NoEntry =>
               PageOf(P, c) = P /\ Cardinality(P) <= PageLimit
         /\ NextCursor(P, c) # NoEntry =>
               /\ NextCursor(P, c) \in PageOf(P, c)
               /\ PageOf(P, c) = {r \in P : r = NextCursor(P, c) \/ KeyBefore(r, NextCursor(P, c))}
               /\ Cardinality(Earlier(NextCursor(P, c), P)) < PageLimit
<1> DEFINE page == PageOf(P, c)
           n == PageLimit
<1>1. n \in Nat \ {0} /\ page = Earliest(P, n) /\ page \in SUBSET P
  BY TimelineAssumption, EarliestAre DEF PageOf
<1>2. Cardinality(P) \in Nat
  BY FS_CardinalityType
<1>3. CASE Cardinality(P) <= n
  <2>1. NextCursor(P, c) = NoEntry
    BY <1>1, <1>2, <1>3 DEF NextCursor
  <2> QED BY <1>1, <1>3, <2>1, EarliestAre
<1>4. CASE Cardinality(P) > n
  <2>1. PICK last \in page :
          /\ Cardinality(Earlier(last, P)) = n - 1
          /\ page = {r \in P : r = last \/ KeyBefore(r, last)}
          /\ Cardinality(page) = n
    BY <1>1, <1>4, EarliestAre
  <2>2. page \in SUBSET TimelineEntry /\ IsFiniteSet(page)
    BY <1>1, FS_Subset
  <2>3. Earlier(last, page) = Earlier(last, P)
    BY <2>1 DEF Earlier
  <2>4. n \in 1 .. Cardinality(page)
    BY <1>1, <2>1
  <2>5. InOrder(page)[n] \in page /\ Cardinality(Earlier(InOrder(page)[n], page)) = n - 1
    BY <2>2, <2>4, InOrderIs
  <2>6. InOrder(page)[n] = last
    <3>1. /\ ~ KeyBefore(last, InOrder(page)[n]) /\ ~ KeyBefore(InOrder(page)[n], last)
      BY <1>1, <2>1, <2>2, <2>3, <2>5, RankGrows
    <3> QED BY <2>2, <2>5, <3>1, KeyOrder
  <2>7. NextCursor(P, c) = last
    BY <1>4, <2>6 DEF NextCursor
  <2>8. last # NoEntry
    BY <2>2, NoEntryIs
  <2> QED BY <1>1, <2>1, <2>7, <2>8
<1> QED BY <1>1, <1>2, <1>3, <1>4

\* What a statement asks of a row is that it follows the cursor.
LEMMA CursorIs ==
  ASSUME NEW c \in TimelineEntry \cup {NoEntry}, NEW r \in TimelineEntry
  PROVE  CursorPredicate(c, r) <=> c = NoEntry \/ KeyBefore(c, r)
<1>1. \A q \in TimelineEntry : /\ q.source \in TimelineSources /\ q.at \in Int /\ q.id \in Int
  <2>1. \A q \in TimelineEntry : q.source \in TimelineSources /\ q.at \in 1 .. MaxTime /\ q.id \in EventIds
    BY DEF TimelineEntry
  <2>2. EventIds \subseteq Int /\ 1 .. MaxTime \subseteq Int
    BY TimelineAssumption
  <2> QED BY <2>1, <2>2
<1>2. \A a \in TimelineSources : SourceOrder[a] \in Int
  BY DEF SourceOrder, TimelineSources
<1> HIDE DEF SourceOrder
<1>3. CASE c = NoEntry
  BY <1>3 DEF CursorPredicate
<1>4. CASE c \in TimelineEntry
  BY <1>1, <1>2, <1>4, NoEntryIs DEF CursorPredicate, KeyBefore
<1> QED BY <1>3, <1>4

-----------------------------------------------------------------------------
(* The readers of the timeline.                                            *)

ExportTypes ==
  /\ present \in SUBSET Works
  /\ events \in SUBSET TimelineEntry /\ IsFiniteSet(events)
  /\ pager \in [who : {"export", "inspector"}, at : Nat, cursor : TimelineEntry \cup {NoEntry},
                asked : SUBSET TimelineSources, pulled : SUBSET events,
                known : SUBSET events, over : BOOLEAN]
  /\ pack \in [shown : SUBSET Works, audit : SUBSET TimelineEntry, entries : Seq(TimelineEntry)]

\* The first statement of the timeline has been made.
Started == pager.asked # {} \/ pager.cursor # NoEntry \/ pager.over

\* The timeline comes last, and a page is asked for when the one before it is handed out.
ReaderOrder ==
  /\ Started /\ pager.who = "export" => pager.at > Len(PackFiles)
  /\ pager.asked = {} => pager.pulled = {}
  /\ pager.over => pager.asked = {}

Told(w, E) == TableOf[w] \in Unaudited \/ \E e \in E : Tells(e, w)

\* What the pack shows is told by the rows that the timeline has to bring.
ShownIsTold ==
  LET due == IF Started THEN pager.known ELSE events IN
  /\ \A w \in present : Told(w, events)
  /\ pack.audit \subseteq due
  /\ \A w \in pack.shown : Told(w, due)

\* The rows that the next page may have.
Ahead(e) == pager.cursor = NoEntry \/ KeyBefore(pager.cursor, e)

\* What is handed out is in order and ends with the cursor.
HandedOut ==
  /\ \A i, j \in 1 .. Len(pack.entries) :
        i < j => KeyBefore(pack.entries[i], pack.entries[j])
  /\ ~ pager.over => \A i \in 1 .. Len(pack.entries) : ~ Ahead(pack.entries[i])
  /\ \A e \in pager.known :
        pager.over \/ ~ Ahead(e) => \E i \in 1 .. Len(pack.entries) : e = pack.entries[i]

\* A row that a statement left out has a whole page of pulled rows before it.
Pulled ==
  /\ \A e \in pager.pulled : Ahead(e)
  /\ \A e \in pager.known :
        e.source \in pager.asked /\ Ahead(e) =>
           e \in pager.pulled \/ Cardinality(Earlier(e, pager.pulled)) > PageLimit

ExportInv == ExportTypes /\ ReaderOrder /\ ShownIsTold /\ HandedOut /\ Pulled

LEMMA ExportInitInv == ExportInit => ExportInv
<1> SUFFICES ASSUME ExportInit PROVE ExportInv
  OBVIOUS
<1>1. PICK who \in {"export", "inspector"} :
        pager = [who |-> who, at |-> 1, cursor |-> NoEntry, asked |-> {}, pulled |-> {},
                 known |-> {}, over |-> FALSE]
  BY DEF ExportInit
<1>2. /\ present = {} /\ events = {} /\ pack = [shown |-> {}, audit |-> {}, entries |-> <<>>]
  BY DEF ExportInit
<1>3. <<>> \in Seq(TimelineEntry) /\ Len(<<>>) = 0
  OBVIOUS
<1>4. ExportTypes
  BY <1>1, <1>2, <1>3, FS_EmptySet DEF ExportTypes
<1> QED
  BY <1>1, <1>2, <1>3, <1>4
  DEF ExportInv, ReaderOrder, ShownIsTold, HandedOut, Pulled, Started

\* Rows that come to be committed disturb nothing that has been read.
LEMMA MoreEvents ==
  ASSUME ExportInv, NEW E \in SUBSET TimelineEntry, IsFiniteSet(E), events \subseteq E,
         events' = E, UNCHANGED <<pager, pack>>,
         present' \in SUBSET Works, \A w \in present' : Told(w, E)
  PROVE  ExportInv'
<1>1. ExportTypes'
  BY DEF ExportInv, ExportTypes
<1>2. ReaderOrder' /\ HandedOut' /\ Pulled'
  BY DEF ExportInv, ReaderOrder, HandedOut, Pulled, Started, Ahead, Earlier
<1>3. \A w : Told(w, events) => Told(w, E)
  BY DEF Told
<1>4. ShownIsTold'
  BY <1>3 DEF ExportInv, ShownIsTold, Started
<1> QED BY <1>1, <1>2, <1>4 DEF ExportInv

LEMMA EventIs ==
  ASSUME NEW w \in Works, NEW t \in 1 .. MaxTime
  PROVE  EventAt(w, t) \in TimelineEntry /\ Tells(EventAt(w, t), w)
<1>1. SourceOf(w) \in TimelineSources
  BY DEF SourceOf, TimelineSources, SourceOrder
<1>2. EventOf[w] \in EventIds
  BY ExportAssumption
<1> QED BY <1>1, <1>2 DEF EventAt, TimelineEntry, Tells

LEMMA CommitInv ==
  ASSUME ExportInv, NEW w \in Works, NEW t \in 1 .. MaxTime, CommitWork(w, t)
  PROVE  ExportInv'
<1> DEFINE E == IF TableOf[w] \in Unaudited THEN events ELSE events \cup {EventAt(w, t)}
<1>1. events \in SUBSET TimelineEntry /\ IsFiniteSet(events) /\ present \in SUBSET Works
  BY DEF ExportInv, ExportTypes
<1>2. E \in SUBSET TimelineEntry /\ IsFiniteSet(E) /\ events \subseteq E
  BY <1>1, EventIs, FS_AddElement
<1>3. events' = E /\ UNCHANGED <<pager, pack>>
  BY DEF CommitWork
<1>4. present' \subseteq present \cup {w}
  BY DEF CommitWork
<1>5. \A v \in present : Told(v, E)
  BY <1>2 DEF ExportInv, ShownIsTold, Told
<1>6. Told(w, E)
  BY EventIs DEF Told
<1> QED BY <1>1, <1>2, <1>3, <1>4, <1>5, <1>6, MoreEvents

LEMMA ReadFileInv == ASSUME ExportInv, ReadFile PROVE ExportInv'
<1>1. PICK o : o = pager
  OBVIOUS
<1>2. pager' = [pager EXCEPT !.at = @ + 1] /\ UNCHANGED <<present, events>>
  BY DEF ReadFile
<1>3. /\ pager'.who = pager.who /\ pager'.at = pager.at + 1 /\ pager'.cursor = pager.cursor
      /\ pager'.asked = pager.asked /\ pager'.pulled = pager.pulled
      /\ pager'.known = pager.known /\ pager'.over = pager.over
      /\ pager' \in [who : {"export", "inspector"}, at : Nat,
                     cursor : TimelineEntry \cup {NoEntry},
                     asked : SUBSET TimelineSources, pulled : SUBSET events,
                     known : SUBSET events, over : BOOLEAN]
  BY <1>2 DEF ExportInv, ExportTypes
<1>4. pager.who = "export" /\ pager.at <= Len(PackFiles) /\ pager.at \in Nat
  BY DEF ReadFile, ExportInv, ExportTypes
<1>5. Len(PackFiles) = 9
  BY DEF PackFiles
<1>6. ~ Started
  BY <1>4, <1>5 DEF ExportInv, ReaderOrder
<1>7. /\ pack'.entries = pack.entries
      /\ pack'.audit \subseteq pack.audit \cup events
      /\ pack'.shown \subseteq pack.shown \cup present
      /\ pack' \in [shown : SUBSET Works, audit : SUBSET TimelineEntry,
                    entries : Seq(TimelineEntry)]
  <2>1. /\ pack \in [shown : SUBSET Works, audit : SUBSET TimelineEntry,
                     entries : Seq(TimelineEntry)]
        /\ events \subseteq TimelineEntry /\ present \subseteq Works
    BY DEF ExportInv, ExportTypes
  <2>2. CASE PackFiles[pager.at] = "audit"
    <3>1. PICK A \in SUBSET events : A = {e \in events : e.source = "audit"}
      OBVIOUS
    <3>2. pack' = [pack EXCEPT !.audit = A]
      BY <2>2, <3>1 DEF ReadFile
    <3> QED BY <2>1, <3>2
  <2>3. CASE PackFiles[pager.at] # "audit"
    <3>1. PICK R \in SUBSET present : R = RowsOf(PackFiles[pager.at])
      BY DEF RowsOf
    <3>2. pack' = [pack EXCEPT !.shown = @ \cup R]
      BY <2>3, <3>1 DEF ReadFile
    <3> QED BY <2>1, <3>2
  <2> QED BY <2>2, <2>3
<1>8. ExportTypes'
  BY <1>2, <1>3, <1>7 DEF ExportInv, ExportTypes
<1>9. ~ Started' /\ ReaderOrder' /\ HandedOut' /\ Pulled'
  BY <1>3, <1>6, <1>7 DEF ExportInv, ReaderOrder, HandedOut, Pulled, Started, Ahead, Earlier
<1>10. ShownIsTold'
  BY <1>2, <1>6, <1>7, <1>9 DEF ExportInv, ShownIsTold, Told, Tells
<1> QED BY <1>8, <1>9, <1>10 DEF ExportInv

LEMMA AskInv == ASSUME ExportInv, NEW src \in TimelineSources, AskSource(src) PROVE ExportInv'
<1> DEFINE S == {r \in events : r.source = src /\ CursorPredicate(pager.cursor, r)}
           Q == QuerySource(events, src, pager.cursor)
           K == IF Started THEN pager.known ELSE events
           P == pager.pulled \cup Q
<1>1. /\ events \in SUBSET TimelineEntry /\ IsFiniteSet(events)
      /\ pager \in [who : {"export", "inspector"}, at : Nat,
                    cursor : TimelineEntry \cup {NoEntry},
                    asked : SUBSET TimelineSources, pulled : SUBSET events,
                    known : SUBSET events, over : BOOLEAN]
      /\ pack \in [shown : SUBSET Works, audit : SUBSET TimelineEntry,
                   entries : Seq(TimelineEntry)]
  BY DEF ExportInv, ExportTypes
<1>2. ~ pager.over /\ (pager.who = "export" => pager.at > Len(PackFiles)) /\ src \notin pager.asked
  BY DEF AskSource, AtTimeline
<1>3. \A r \in events : CursorPredicate(pager.cursor, r) <=> Ahead(r)
  BY <1>1, CursorIs DEF Ahead
<1>4. S \in SUBSET events /\ S \in SUBSET TimelineEntry /\ IsFiniteSet(S)
  BY <1>1, FS_Subset
<1>5. PageLimit + 1 \in Nat \ {0} /\ PageLimit \in Nat
  BY TimelineAssumption
<1>6. Q = Earliest(S, PageLimit + 1)
  BY DEF QuerySource
<1>7. Q \in SUBSET S /\ P \in SUBSET events /\ P \in SUBSET TimelineEntry /\ IsFiniteSet(P)
  <2> HIDE DEF S, Q
  <2>1. Q \in SUBSET S
    BY <1>4, <1>5, <1>6, EarliestAre
  <2> QED BY <1>1, <1>4, <2>1, FS_Subset
<1>8. PICK known \in SUBSET events :
        /\ known = K
        /\ pager' = [pager EXCEPT !.asked = @ \cup {src}, !.pulled = P, !.known = known]
  <2>1. K \in SUBSET events
    BY <1>1
  <2>2. (pager.asked = {} /\ pager.cursor = NoEntry) <=> ~ Started
    BY <1>2 DEF Started
  <2>3. pager' = [pager EXCEPT !.asked = @ \cup {src}, !.pulled = P, !.known = K]
    BY <2>2 DEF AskSource
  <2> QED BY <2>1, <2>3
<1> HIDE DEF Q, S, P, K
<1>9. /\ pager'.who = pager.who /\ pager'.at = pager.at /\ pager'.cursor = pager.cursor
      /\ pager'.asked = pager.asked \cup {src} /\ pager'.pulled = P
      /\ pager'.known = K /\ pager'.over = pager.over
      /\ pager' \in [who : {"export", "inspector"}, at : Nat,
                     cursor : TimelineEntry \cup {NoEntry},
                     asked : SUBSET TimelineSources, pulled : SUBSET events,
                     known : SUBSET events, over : BOOLEAN]
  <2>1. PICK o : o = pager
    OBVIOUS
  <2>2. pager' = [who |-> o.who, at |-> o.at, cursor |-> o.cursor, asked |-> o.asked \cup {src},
                  pulled |-> P, known |-> K, over |-> o.over]
    BY <1>1, <1>8, <2>1
  <2> QED BY <1>1, <1>7, <1>8, <2>1, <2>2
<1>10. UNCHANGED <<present, events, pack>>
  BY DEF AskSource
<1>11. ExportTypes'
  BY <1>9, <1>10 DEF ExportInv, ExportTypes
<1>12. Started' /\ ReaderOrder'
  <2>1. pager'.asked # {}
    BY <1>9
  <2> QED BY <1>2, <1>9, <2>1 DEF ReaderOrder, Started
<1>13. ShownIsTold'
  BY <1>9, <1>10, <1>12 DEF ExportInv, ShownIsTold, Told, Tells, K
<1>14. HandedOut'
  <2>1. \A e : Ahead(e)' <=> Ahead(e)
    BY <1>9 DEF Ahead
  <2>2. CASE Started
    BY <1>9, <1>10, <2>1, <2>2 DEF ExportInv, HandedOut, K
  <2>3. CASE ~ Started
    <3>1. \A e : Ahead(e)
      BY <2>3 DEF Ahead, Started
    <3> QED BY <1>2, <1>9, <1>10, <2>1, <3>1 DEF ExportInv, HandedOut
  <2> QED BY <2>2, <2>3
<1>15. Pulled'
  <2>1. \A e : Ahead(e)' <=> Ahead(e)
    BY <1>9 DEF Ahead
  <2>2. \A e \in P : Ahead(e)
    BY <1>1, <1>3, <1>7 DEF ExportInv, Pulled, P, S
  <2>3. ASSUME NEW e \in TimelineEntry, NEW R \in SUBSET P, NEW n \in Nat,
               Cardinality(Earlier(e, R)) > n
        PROVE  Cardinality(Earlier(e, P)) > n
    <3>1. R \in SUBSET TimelineEntry /\ IsFiniteSet(R)
      BY <1>7, FS_Subset
    <3>2. IsFiniteSet(Earlier(e, P)) /\ Earlier(e, R) \subseteq Earlier(e, P)
      BY <1>7, RankType DEF Earlier
    <3>3. /\ Cardinality(Earlier(e, R)) <= Cardinality(Earlier(e, P))
          /\ Cardinality(Earlier(e, R)) \in Nat /\ Cardinality(Earlier(e, P)) \in Nat
      BY <3>2, FS_Subset, FS_CardinalityType
    <3> QED BY <2>3, <3>3
  <2>4. ASSUME NEW e \in K, e.source \in pager.asked \cup {src}, Ahead(e)
        PROVE  e \in P \/ Cardinality(Earlier(e, P)) > PageLimit
    <3>1. e \in events /\ e \in TimelineEntry
      BY <1>1, <1>8
    <3>2. CASE e.source = src
      <4>1. e \in S
        BY <1>3, <2>4, <3>1, <3>2 DEF S
      <4>2. CASE e \in Q
        BY <4>2 DEF P
      <4>3. CASE e \notin Q
        <5>1. Earlier(e, Q) = Q /\ Cardinality(Q) = PageLimit + 1
          BY <1>4, <1>5, <1>6, <4>1, <4>3, LeftOut
        <5>2. Cardinality(Earlier(e, Q)) > PageLimit /\ Q \in SUBSET P
          BY <1>5, <5>1 DEF P
        <5> QED BY <1>5, <2>3, <3>1, <5>2
      <4> QED BY <4>2, <4>3
    <3>3. CASE e.source # src
      <4>1. Started
        BY <2>4, <3>3 DEF Started
      <4>2. e \in pager.pulled \/ Cardinality(Earlier(e, pager.pulled)) > PageLimit
        BY <2>4, <3>3, <4>1 DEF ExportInv, Pulled, K
      <4>3. pager.pulled \in SUBSET P
        BY DEF P
      <4> QED BY <1>5, <2>3, <3>1, <4>2, <4>3
    <3> QED BY <3>2, <3>3
  <2> QED BY <1>9, <2>1, <2>2, <2>4 DEF Pulled, Earlier
<1> QED BY <1>11, <1>12, <1>13, <1>14, <1>15 DEF ExportInv

\* A page is handed out, whatever is committed with it.
LEMMA PageInv ==
  ASSUME ExportInv, AtTimeline, EndPage, present' = present,
         NEW E \in SUBSET TimelineEntry, IsFiniteSet(E), events \subseteq E, events' = E
  PROVE  ExportInv'
<1> DEFINE P == pager.pulled
           c == pager.cursor
           page == PageOf(P, c)
           next == NextCursor(P, c)
           old == pack.entries
<1>1. /\ events \in SUBSET TimelineEntry /\ IsFiniteSet(events)
      /\ pager \in [who : {"export", "inspector"}, at : Nat,
                    cursor : TimelineEntry \cup {NoEntry},
                    asked : SUBSET TimelineSources, pulled : SUBSET events,
                    known : SUBSET events, over : BOOLEAN]
      /\ pack \in [shown : SUBSET Works, audit : SUBSET TimelineEntry,
                   entries : Seq(TimelineEntry)]
  BY DEF ExportInv, ExportTypes
<1>2. ~ pager.over /\ (pager.who = "export" => pager.at > Len(PackFiles))
  BY DEF AtTimeline
<1>3. pager.asked = TimelineSources /\ pager.asked # {}
  BY DEF EndPage, TimelineSources, SourceOrder
<1>4. P \in SUBSET TimelineEntry /\ IsFiniteSet(P)
  BY <1>1, FS_Subset
<1>5. \A e \in P : Ahead(e)
  BY DEF ExportInv, Pulled
<1>6. AfterCursor(P, c) = P
  BY <1>5 DEF AfterCursor, Ahead
<1> HIDE DEF P
<1>7. /\ page \in SUBSET P
      /\ next = NoEntry => page = P /\ Cardinality(P) <= PageLimit
      /\ next # NoEntry =>
           /\ next \in page
           /\ page = {r \in P : r = next \/ KeyBefore(r, next)}
           /\ Cardinality(Earlier(next, P)) < PageLimit
  BY <1>4, <1>6, PageIs
<1> HIDE DEF page, next
<1>8. page \in SUBSET TimelineEntry /\ IsFiniteSet(page) /\ Cardinality(page) \in Nat
      /\ next \in TimelineEntry \cup {NoEntry}
  BY <1>4, <1>7, FS_Subset, FS_CardinalityType
<1>9. PICK more \in Seq(page) :
        /\ more = InOrder(page) /\ Len(more) = Cardinality(page)
        /\ \A i, j \in 1 .. Len(more) : i < j => KeyBefore(more[i], more[j])
        /\ page = {more[i] : i \in 1 .. Len(more)}
  BY <1>8, InOrderIs
<1>10. /\ pager'.who = pager.who /\ pager'.at = pager.at /\ pager'.cursor = next
       /\ pager'.asked = {} /\ pager'.pulled = {}
       /\ pager'.known = pager.known /\ pager'.over = (next = NoEntry)
       /\ pager' \in [who : {"export", "inspector"}, at : Nat,
                      cursor : TimelineEntry \cup {NoEntry},
                      asked : SUBSET TimelineSources, pulled : SUBSET E,
                      known : SUBSET E, over : BOOLEAN]
  <2>1. PICK o : o = pager
    OBVIOUS
  <2>2. pager' = [who |-> o.who, at |-> o.at, cursor |-> next, asked |-> {},
                  pulled |-> {}, known |-> o.known, over |-> next = NoEntry]
    BY <1>1, <2>1 DEF EndPage, next, P
  <2> QED BY <1>1, <1>8, <2>1, <2>2
<1>11. PICK new \in Seq(TimelineEntry) : new = old \o more
  <2>1. old \in Seq(TimelineEntry)
    BY <1>1
  <2>2. \A i \in 1 .. Len(more) : more[i] \in TimelineEntry
    BY <1>8, <1>9
  <2>3. more \in Seq(TimelineEntry)
    BY <1>9, <2>2
  <2>4. old \o more \in Seq(TimelineEntry)
    <3> HIDE DEF old
    <3> QED BY <2>1, <2>3
  <2> QED BY <2>4
<1>12. /\ pack'.entries = new /\ pack'.audit = pack.audit /\ pack'.shown = pack.shown
       /\ pack' \in [shown : SUBSET Works, audit : SUBSET TimelineEntry,
                     entries : Seq(TimelineEntry)]
  <2>1. pack' = [pack EXCEPT !.entries = new]
    BY <1>9, <1>11 DEF EndPage, page, P
  <2> QED BY <1>1, <2>1
<1>13. ExportTypes'
  BY <1>1, <1>10, <1>12 DEF ExportInv, ExportTypes
<1>14. Started /\ Started' /\ ReaderOrder'
  BY <1>2, <1>3, <1>10 DEF ReaderOrder, Started
<1>15. ShownIsTold'
  <2>1. \A w : Told(w, events) => Told(w, E)
    BY DEF Told
  <2> QED BY <1>10, <1>12, <1>14, <2>1 DEF ExportInv, ShownIsTold, Told, Tells
<1>16. /\ Len(new) = Len(old) + Len(more) /\ Len(old) \in Nat /\ Len(more) \in Nat
       /\ \A i \in 1 .. Len(old) : i \in 1 .. Len(new) /\ new[i] = old[i]
       /\ \A i \in 1 .. Len(more) :
             i + Len(old) \in 1 .. Len(new) /\ new[i + Len(old)] = more[i]
       /\ \A i \in 1 .. Len(new) :
             i \in 1 .. Len(old) \/ (i - Len(old) \in 1 .. Len(more) /\ new[i] = more[i - Len(old)])
  <2>1. old \in Seq(TimelineEntry) /\ more \in Seq(TimelineEntry)
    BY <1>1, <1>8, <1>9
  <2> QED BY <1>11, <2>1
<1>17. \A i \in 1 .. Len(old) : old[i] \in TimelineEntry /\ ~ Ahead(old[i])
  BY <1>1, <1>2 DEF ExportInv, HandedOut
<1>18. \A i \in 1 .. Len(more) : more[i] \in page /\ more[i] \in P /\ more[i] \in TimelineEntry
  BY <1>7, <1>8, <1>9
<1>19. \A q, r \in TimelineEntry : ~ Ahead(q) /\ Ahead(r) => KeyBefore(q, r)
  <2> SUFFICES ASSUME NEW q \in TimelineEntry, NEW r \in TimelineEntry, ~ Ahead(q), Ahead(r)
               PROVE  KeyBefore(q, r)
    OBVIOUS
  <2>1. c \in TimelineEntry /\ ~ KeyBefore(c, q) /\ KeyBefore(c, r)
    BY <1>1 DEF Ahead
  <2>2. q = c \/ KeyBefore(q, c)
    BY <2>1, KeyOrder
  <2> QED BY <2>1, <2>2, KeyOrder
<1>20. \A i, j \in 1 .. Len(new) : i < j => KeyBefore(new[i], new[j])
  <2> SUFFICES ASSUME NEW i \in 1 .. Len(new), NEW j \in 1 .. Len(new), i < j
               PROVE  KeyBefore(new[i], new[j])
    OBVIOUS
  <2>1. CASE j \in 1 .. Len(old)
    <3>1. i \in 1 .. Len(old)
      BY <1>16, <2>1
    <3>2. KeyBefore(old[i], old[j])
      BY <2>1, <3>1 DEF ExportInv, HandedOut
    <3> QED BY <1>16, <2>1, <3>1, <3>2
  <2>2. CASE i \in 1 .. Len(old) /\ j \notin 1 .. Len(old)
    BY <1>5, <1>16, <1>17, <1>18, <1>19, <2>2 DEF P
  <2>3. CASE i \notin 1 .. Len(old) /\ j \notin 1 .. Len(old)
    <3>1. /\ i - Len(old) \in 1 .. Len(more) /\ new[i] = more[i - Len(old)]
          /\ j - Len(old) \in 1 .. Len(more) /\ new[j] = more[j - Len(old)]
      BY <1>16, <2>3
    <3>2. i - Len(old) < j - Len(old)
      BY <1>16
    <3> QED BY <1>9, <3>1, <3>2
  <2> QED BY <2>1, <2>2, <2>3
<1>21. ASSUME next # NoEntry, NEW i \in 1 .. Len(new) PROVE ~ KeyBefore(next, new[i])
  <2>1. next \in P /\ next \in TimelineEntry /\ Ahead(next)
    BY <1>4, <1>5, <1>7, <1>21 DEF P
  <2>2. CASE i \in 1 .. Len(old)
    <3>1. KeyBefore(old[i], next)
      BY <1>17, <1>19, <2>1, <2>2
    <3> QED BY <1>16, <1>17, <2>1, <2>2, <3>1, KeyOrder
  <2>3. CASE i \notin 1 .. Len(old)
    <3>1. new[i] \in page /\ new[i] \in TimelineEntry
      BY <1>16, <1>18, <2>3
    <3>2. new[i] = next \/ KeyBefore(new[i], next)
      BY <1>7, <1>21, <3>1
    <3> QED BY <2>1, <3>1, <3>2, KeyOrder
  <2> QED BY <2>2, <2>3
<1>22. ASSUME NEW e \in pager.known, next = NoEntry \/ ~ KeyBefore(next, e)
       PROVE  \E i \in 1 .. Len(new) : e = new[i]
  <2>1. e \in TimelineEntry /\ e.source \in pager.asked
    <3>1. e \in TimelineEntry
      BY <1>1
    <3> QED BY <1>3, <3>1 DEF TimelineEntry
  <2>2. CASE ~ Ahead(e)
    <3>1. PICK i \in 1 .. Len(old) : e = old[i]
      BY <2>2 DEF ExportInv, HandedOut
    <3> QED BY <1>16, <3>1
  <2>3. CASE Ahead(e) /\ e \in page
    <3>1. PICK i \in 1 .. Len(more) : e = more[i]
      BY <1>9, <2>3
    <3> QED BY <1>16, <3>1
  <2>4. ASSUME Ahead(e), e \notin page PROVE FALSE
    <3>1. PageLimit \in Nat /\ Cardinality(Earlier(e, P)) \in Nat /\ Cardinality(P) \in Nat
      BY <1>4, RankType, TimelineAssumption
    <3>2. e \in P \/ Cardinality(Earlier(e, P)) > PageLimit
      BY <2>1, <2>4 DEF ExportInv, Pulled, P
    <3>3. CASE next = NoEntry
      <4>1. e \notin P /\ Cardinality(P) <= PageLimit
        BY <1>7, <2>4, <3>3
      <4>2. Earlier(e, P) \subseteq P
        BY DEF Earlier
      <4>3. Cardinality(Earlier(e, P)) <= Cardinality(P)
        BY <1>4, <4>2, FS_Subset
      <4> QED BY <3>1, <3>2, <4>1, <4>3
    <3>4. CASE next # NoEntry
      <4>1. next \in P /\ next \in TimelineEntry
        BY <1>4, <1>7, <3>4
      <4>2. e = next \/ KeyBefore(e, next)
        BY <1>22, <2>1, <3>4, <4>1, KeyOrder
      <4>3. e \notin P
        BY <1>7, <2>4, <3>4, <4>2
      <4>4. KeyBefore(e, next)
        BY <4>1, <4>2, <4>3
      <4>5. \A q \in P : KeyBefore(q, e) => KeyBefore(q, next)
        BY <1>4, <2>1, <4>1, <4>4, KeyOrder
      <4>6. Earlier(e, P) \subseteq Earlier(next, P) /\ IsFiniteSet(Earlier(next, P))
        BY <1>4, <4>5, RankType DEF Earlier
      <4>7. Cardinality(Earlier(e, P)) <= Cardinality(Earlier(next, P))
        BY <4>6, FS_Subset
      <4>8. Cardinality(Earlier(next, P)) < PageLimit /\ Cardinality(Earlier(next, P)) \in Nat
        BY <1>4, <1>7, <3>4, RankType
      <4> QED BY <3>1, <3>2, <4>3, <4>7, <4>8
    <3> QED BY <3>3, <3>4
  <2> QED BY <2>2, <2>3, <2>4
<1>23. HandedOut'
  BY <1>10, <1>12, <1>20, <1>21, <1>22 DEF HandedOut, Ahead
<1>24. Pulled'
  BY <1>10 DEF Pulled
<1> QED BY <1>13, <1>14, <1>15, <1>23, <1>24 DEF ExportInv

LEMMA ExportNextInv == ExportInv /\ [ExportNext]_exportVars => ExportInv'
<1> SUFFICES ASSUME ExportInv, [ExportNext]_exportVars PROVE ExportInv'
  OBVIOUS
<1>1. events \in SUBSET TimelineEntry /\ IsFiniteSet(events)
  BY DEF ExportInv, ExportTypes
<1>2. ASSUME NEW w \in Works, NEW t \in 1 .. MaxTime, CommitWork(w, t) PROVE ExportInv'
  BY <1>2, CommitInv
<1>3. ASSUME NEW w \in Works, NEW t \in 1 .. MaxTime, InspectPage(w, t) PROVE ExportInv'
  <2>1. events \cup {EventAt(w, t)} \in SUBSET TimelineEntry
    BY <1>1, EventIs
  <2>2. IsFiniteSet(events \cup {EventAt(w, t)})
    BY <1>1, FS_AddElement
  <2>3. AtTimeline /\ EndPage /\ present' = present /\ events' = events \cup {EventAt(w, t)}
    BY <1>3 DEF InspectPage
  <2> QED BY <2>1, <2>2, <2>3, PageInv
<1>4. ASSUME NEW src \in TimelineSources, AskSource(src) PROVE ExportInv'
  BY <1>4, AskInv
<1>5. CASE ReadFile
  BY <1>5, ReadFileInv
<1>6. CASE ExportPage
  BY <1>1, <1>6, PageInv DEF ExportPage
<1>7. CASE UNCHANGED exportVars
  BY <1>7 DEF exportVars, ExportInv, ExportTypes, ReaderOrder, ShownIsTold, HandedOut,
              Pulled, Started, Ahead, Told, Tells, Earlier
<1> QED BY <1>2, <1>3, <1>4, <1>5, <1>6, <1>7 DEF ExportNext

\* Whatever is committed while the timeline is paged through, what is handed out has every
\* row that was committed before its first statement up to its cursor, once and in order,
\* and in the end the pack shows nothing that its timeline does not tell of
\* (build_matter_export, reconstruct).
THEOREM PacksAreExplained == ExportSpec => []PackExplained
<1>1. ExportInv => PackExplained
  <2> SUFFICES ASSUME ExportInv PROVE PackExplained
    OBVIOUS
  <2>1. \A e : (\E i \in 1 .. Len(pack.entries) : e = pack.entries[i]) => e \in ToSet(pack.entries)
    BY DEF ToSet, ExportInv, ExportTypes
  <2>2. \A e \in pager.known :
           pager.over \/ (pager.cursor # NoEntry /\ ~ KeyBefore(pager.cursor, e)) =>
              e \in ToSet(pack.entries)
    BY <2>1 DEF ExportInv, HandedOut, Ahead
  <2>3. ASSUME pager.over
        PROVE  /\ pack.audit \subseteq ToSet(pack.entries)
               /\ \A w \in pack.shown :
                    TableOf[w] \in Unaudited \/ \E e \in ToSet(pack.entries) : Tells(e, w)
    <3>1. Started
      BY <2>3 DEF Started
    <3>2. pack.audit \subseteq pager.known /\ \A w \in pack.shown : Told(w, pager.known)
      BY <3>1 DEF ExportInv, ShownIsTold
    <3> QED BY <2>2, <2>3, <3>2 DEF Told
  <2> QED BY <2>2, <2>3 DEF PackExplained, ExportInv, HandedOut
<1> QED BY <1>1, ExportInitInv, ExportNextInv, PTL DEF ExportSpec

-----------------------------------------------------------------------------
(* The tokens of one mapping.                                              *)

\* Tokens are numbered, up to some number, and one-to-one.
TokensHold(T) ==
  /\ \A t \in T : t.n \in Nat
  /\ \E b \in Nat : \A t \in T : t.n <= b
  /\ OneToOne(T)

Apart(spans) == \A s, t \in spans : s # t => s.end <= t.start \/ t.end <= s.start

LEMMA NextIndexIs ==
  ASSUME NEW T, TokensHold(T), NEW p
  PROVE  /\ NextIndex(T, p) \in Nat
         /\ \A t \in T : t.prefix = p => t.n < NextIndex(T, p)
         /\ \A b \in Nat : (\A t \in T : t.n <= b) => NextIndex(T, p) <= b + 1
<1> DEFINE S == {1} \cup {t.n + 1 : t \in {u \in T : u.prefix = p}}
           B == {m \in Nat : \A n \in S : n <= m}
<1>1. S \in SUBSET Nat /\ 1 \in S
  BY DEF TokensHold
<1>2. \A b \in Nat : (\A t \in T : t.n <= b) => b + 1 \in B
  BY DEF TokensHold
<1>3. PICK m \in B : \A k \in B : m <= k
  <2>1. B # {}
    BY <1>2 DEF TokensHold
  <2>2. B \in SUBSET Nat
    OBVIOUS
  <2> HIDE DEF B
  <2> QED BY <2>1, <2>2, LeastNatural
<1>4. m \in S
  <2> SUFFICES ASSUME m \notin S PROVE FALSE
    OBVIOUS
  <2>1. m # 1 /\ m \in Nat /\ 1 <= m
    BY <1>1, <1>3
  <2>2. m - 1 \in Nat /\ \A n \in S : n <= m - 1
    BY <1>1, <1>3, <2>1
  <2>3. m - 1 \in B
    BY <2>2
  <2>4. m <= m - 1
    BY <1>3, <2>3
  <2> QED BY <2>1, <2>4
<1>5. \A n \in S : n <= m
  BY <1>3
<1>6. NextIndex(T, p) = m
  <2>1. NextIndex(T, p) = Max(S)
    BY DEF NextIndex
  <2> HIDE DEF S
  <2> QED BY <1>1, <1>4, <1>5, <2>1, MaxIs
<1>7. \A t \in T : t.prefix = p => t.n < m
  <2> SUFFICES ASSUME NEW t \in T, t.prefix = p PROVE t.n < m
    OBVIOUS
  <2>1. t.n + 1 \in S
    OBVIOUS
  <2>2. t.n + 1 <= m /\ t.n \in Nat /\ m \in Nat
    BY <1>3, <1>5, <2>1 DEF TokensHold
  <2> QED BY <2>2
<1> QED BY <1>2, <1>3, <1>6, <1>7

LEMMA SpansAre ==
  ASSUME NEW spans \in SUBSET Spans, Apart(spans)
  PROVE  /\ \A s \in spans : /\ s.start \in 1 .. Len(Text) /\ s.end \in 2 .. (Len(Text) + 1)
                             /\ s.start < s.end
         /\ \A s, t \in spans : s.start = t.start => s = t
         /\ IsFiniteSet(spans) /\ Cardinality(spans) <= Len(Text)
<1>1. Len(Text) \in Nat /\ DOMAIN Text = 1 .. Len(Text)
  BY AnonymisationAssumption
<1>2. \A s \in spans : /\ s.start \in 1 .. Len(Text) /\ s.end \in 2 .. (Len(Text) + 1)
                       /\ s.start < s.end
  BY <1>1 DEF Spans
<1>3. \A s, t \in spans : s.start = t.start => s = t
  BY <1>1, <1>2 DEF Apart
<1> DEFINE f == [s \in spans |-> s.start]
<1>4. f \in [spans -> 1 .. Len(Text)]
  BY <1>2
<1>5. f \in Injection(spans, 1 .. Len(Text))
  BY <1>3, <1>4 DEF Injection, IsInjective
<1>6. IsFiniteSet(1 .. Len(Text)) /\ Cardinality(1 .. Len(Text)) = Len(Text)
  <2>1. \A n \in Nat : IsFiniteSet(1 .. n) /\ Cardinality(1 .. n) = n
    BY FS_Interval
  <2> QED BY <1>1, <2>1
<1> QED BY <1>2, <1>3, <1>5, <1>6, FS_Injection

\* New originals get numbers that no token of their prefix has, and every span finds a token.
LEMMA AssignedIs ==
  ASSUME NEW spans \in SUBSET Spans, Apart(spans), NEW T, TokensHold(T)
  PROVE  /\ TokensHold(Assigned(spans, T))
         /\ \A s \in spans :
              Named(Assigned(spans, T), PrefixOf[s.type], OriginalOf(s)) # {}
<1> DEFINE Pre(s) == PrefixOf[s.type]
           First(s) == \A t \in spans :
                          Pre(t) = Pre(s) /\ OriginalOf(t) = OriginalOf(s) => s.start <= t.start
           new == {s \in spans : First(s) /\ Named(T, Pre(s), OriginalOf(s)) = {}}
           Before(s) == {t \in new : Pre(t) = Pre(s) /\ t.start < s.start}
           Tok(s) == [prefix |-> Pre(s), type |-> s.type, original |-> OriginalOf(s),
                      n |-> NextIndex(T, Pre(s)) + Cardinality(Before(s))]
           all == T \cup {Tok(s) : s \in new}
<1>1. Assigned(spans, T) = all
  BY DEF Assigned
<1>2. /\ \A s \in spans : s.start \in Nat
      /\ \A s, t \in spans : s.start = t.start => s = t
      /\ IsFiniteSet(spans) /\ Cardinality(spans) <= Len(Text) /\ Len(Text) \in Nat
      /\ Cardinality(spans) \in Nat
  BY SpansAre, FS_CardinalityType, AnonymisationAssumption
<1>3. \A s : IsFiniteSet(Before(s)) /\ Cardinality(Before(s)) \in Nat /\ Cardinality(Before(s)) <= Len(Text)
  <2> SUFFICES ASSUME NEW s
               PROVE  /\ IsFiniteSet(Before(s)) /\ Cardinality(Before(s)) \in Nat
                      /\ Cardinality(Before(s)) <= Len(Text)
    OBVIOUS
  <2>1. Before(s) \subseteq spans
    OBVIOUS
  <2>2. IsFiniteSet(Before(s)) /\ Cardinality(Before(s)) <= Cardinality(spans)
    BY <1>2, <2>1, FS_Subset
  <2>3. Cardinality(Before(s)) \in Nat
    BY <2>2, FS_CardinalityType
  <2> HIDE DEF Before
  <2> QED BY <1>2, <2>2, <2>3
<1>4. \A p : /\ NextIndex(T, p) \in Nat
             /\ \A t \in T : t.prefix = p => t.n < NextIndex(T, p)
             /\ \A b \in Nat : (\A t \in T : t.n <= b) => NextIndex(T, p) <= b + 1
  BY NextIndexIs
<1>5. \A s \in new : s \in spans /\ First(s) /\ Named(T, Pre(s), OriginalOf(s)) = {}
  OBVIOUS
<1>6. \A s, t \in new : Pre(s) = Pre(t) /\ s.start < t.start =>
         Cardinality(Before(s)) < Cardinality(Before(t))
  <2> SUFFICES ASSUME NEW s \in new, NEW t \in new, Pre(s) = Pre(t), s.start < t.start
               PROVE  Cardinality(Before(s)) < Cardinality(Before(t))
    OBVIOUS
  <2>1. s \notin Before(s) /\ Before(s) \cup {s} \subseteq Before(t)
    BY <1>2
  <2> HIDE DEF Before
  <2>2. Cardinality(Before(s) \cup {s}) = Cardinality(Before(s)) + 1
    BY <1>3, <2>1, FS_AddElement
  <2>3. Cardinality(Before(s) \cup {s}) <= Cardinality(Before(t))
    BY <1>3, <2>1, FS_Subset
  <2> QED BY <1>3, <2>2, <2>3
<1> HIDE DEF Before, new
<1>7. \A s : /\ Tok(s).prefix = Pre(s) /\ Tok(s).original = OriginalOf(s)
             /\ Tok(s).n = NextIndex(T, Pre(s)) + Cardinality(Before(s))
             /\ Tok(s).n \in Nat
  BY <1>3, <1>4
<1> HIDE DEF Tok
<1>8. \A t \in all : t \in T \/ \E s \in new : t = Tok(s)
  OBVIOUS
<1>9. \A t \in all : t.n \in Nat
  BY <1>7, <1>8 DEF TokensHold
<1>10. \E b \in Nat : \A t \in all : t.n <= b
  <2>1. PICK b \in Nat : \A t \in T : t.n <= b
    BY DEF TokensHold
  <2>2. \A s \in new : Tok(s).n <= b + 1 + Len(Text)
    <3> SUFFICES ASSUME NEW s \in new PROVE Tok(s).n <= b + 1 + Len(Text)
      OBVIOUS
    <3>1. NextIndex(T, Pre(s)) <= b + 1 /\ NextIndex(T, Pre(s)) \in Nat
      BY <1>4, <2>1
    <3>2. Cardinality(Before(s)) <= Len(Text) /\ Cardinality(Before(s)) \in Nat
      BY <1>3
    <3> QED BY <1>2, <1>7, <3>1, <3>2
  <2>3. \A t \in T : t.n <= b + 1 + Len(Text)
    BY <1>2, <2>1 DEF TokensHold
  <2>4. b + 1 + Len(Text) \in Nat
    BY <1>2
  <2> QED BY <1>8, <2>2, <2>3, <2>4
<1>11. ASSUME NEW t \in T, NEW s \in new, t.prefix = Tok(s).prefix
       PROVE  t.n # Tok(s).n /\ t.original # Tok(s).original
  <2>1. t.n < NextIndex(T, Pre(s)) /\ t.n \in Nat
    BY <1>4, <1>7, <1>11 DEF TokensHold
  <2>2. t.n # Tok(s).n
    BY <1>3, <1>4, <1>7, <2>1
  <2>3. t \notin Named(T, Pre(s), OriginalOf(s))
    BY <1>5
  <2>4. t.original # Tok(s).original
    BY <1>7, <1>11, <2>3 DEF Named
  <2> QED BY <2>2, <2>4
<1>12. ASSUME NEW s \in new, NEW t \in new, Tok(s).prefix = Tok(t).prefix, s # t
       PROVE  Tok(s).n # Tok(t).n /\ Tok(s).original # Tok(t).original
  <2>1. Pre(s) = Pre(t) /\ s.start # t.start /\ s.start \in Nat /\ t.start \in Nat
    BY <1>2, <1>5, <1>7, <1>12
  <2>2. Cardinality(Before(s)) # Cardinality(Before(t))
    BY <1>3, <1>6, <2>1
  <2>3. Tok(s).n # Tok(t).n
    <3>1. /\ NextIndex(T, Pre(s)) = NextIndex(T, Pre(t)) /\ NextIndex(T, Pre(t)) \in Nat
          /\ Cardinality(Before(s)) \in Nat /\ Cardinality(Before(t)) \in Nat
      BY <1>3, <1>4, <2>1
    <3> QED BY <1>7, <2>2, <3>1
  <2>4. OriginalOf(s) # OriginalOf(t)
    BY <1>5, <2>1
  <2> QED BY <1>7, <2>3, <2>4
<1>13. OneToOne(all)
  <2> SUFFICES ASSUME NEW t \in all, NEW u \in all, t.prefix = u.prefix
               PROVE  t.n = u.n <=> t.original = u.original
    BY DEF OneToOne
  <2>1. CASE t \in T /\ u \in T
    BY <2>1 DEF TokensHold, OneToOne
  <2>2. CASE t \in T /\ u \notin T
    BY <1>8, <1>11, <2>2
  <2>3. CASE t \notin T /\ u \in T
    BY <1>8, <1>11, <2>3
  <2>4. CASE t \notin T /\ u \notin T
    BY <1>8, <1>12, <2>4
  <2> QED BY <2>1, <2>2, <2>3, <2>4
<1>14. ASSUME NEW s \in spans PROVE Named(all, Pre(s), OriginalOf(s)) # {}
  <2>1. CASE Named(T, Pre(s), OriginalOf(s)) # {}
    BY <2>1 DEF Named
  <2>2. CASE Named(T, Pre(s), OriginalOf(s)) = {}
    <3> DEFINE same == {t \in spans : Pre(t) = Pre(s) /\ OriginalOf(t) = OriginalOf(s)}
               N == {t.start : t \in same}
    <3>1. N \in SUBSET Nat /\ N # {}
      BY <1>2
    <3>2. PICK n \in N : \A m \in N : n <= m
      BY <3>1, LeastNatural
    <3>3. PICK f \in same : f.start = n
      BY <3>2
    <3>4. First(f)
      BY <3>2, <3>3
    <3>5. f \in new
      BY <2>2, <3>3, <3>4 DEF new
    <3>6. Tok(f) \in all /\ Tok(f).prefix = Pre(s) /\ Tok(f).original = OriginalOf(s)
      BY <1>7, <3>3, <3>5
    <3> QED BY <3>6 DEF Named
  <2> QED BY <2>1, <2>2
<1> QED BY <1>1, <1>9, <1>10, <1>13, <1>14 DEF TokensHold

-----------------------------------------------------------------------------
(* The replacement.                                                        *)

Put(chars, s, T) == Splice(chars, s.start, s.end, TokenOf(s, T))

\* The text for word k, from the text for the word after it.
Step(spans, T, k, chars) ==
  IF k > Len(Text) THEN Text
  ELSE IF \E s \in spans : s.start = k
       THEN Put(chars[k + 1], CHOOSE s \in spans : s.start = k, T)
       ELSE chars[k + 1]

\* The loop is a function of the word: every text is what its step makes of the next one.
LEMMA LoopIs ==
  ASSUME NEW spans, NEW T
  PROVE  \E chars : /\ \A k \in 1 .. (Len(Text) + 1) : chars[k] = Step(spans, T, k, chars)
                    /\ Replaced(spans, T) = chars[1]
<1> DEFINE N == Len(Text)
           D == 1 .. (N + 1)
           F(f) == [k \in D |-> Step(spans, T, k, f)]
           Good(n) == \E f : \A k \in D : k + n > N => f[k] = Step(spans, T, k, f)
           Bad == {n \in Nat : n <= N /\ ~ Good(n)}
<1>1. N \in Nat
  BY AnonymisationAssumption
<1> HIDE DEF N
<1>2. Good(0)
  <2> DEFINE f == [k \in D |-> Text]
  <2>1. \A k \in D : k + 0 > N => f[k] = Step(spans, T, k, f)
    BY <1>1 DEF Step, N
  <2> QED BY <2>1
<1>3. ASSUME NEW n \in Nat, n < N, Good(n) PROVE Good(n + 1)
  <2>1. PICK f : \A k \in D : k + n > N => f[k] = Step(spans, T, k, f)
    BY <1>3
  <2> DEFINE j == N - n
             g == [k \in D |-> IF k = j THEN Step(spans, T, k, f) ELSE f[k]]
  <2>2. ASSUME NEW k \in D, k + (n + 1) > N PROVE g[k] = Step(spans, T, k, g)
    <3>1. k = j \/ (k # j /\ k + n > N)
      BY <1>1, <2>2
    <3>2. g[k] = Step(spans, T, k, f)
      BY <2>1, <3>1
    <3>3. k <= N => k + 1 \in D /\ k + 1 # j
      BY <1>1, <2>2
    <3>4. k <= N => g[k + 1] = f[k + 1]
      BY <3>3
    <3> HIDE DEF g
    <3>5. k > N <=> ~ (k <= N)
      BY <1>1
    <3> QED BY <3>2, <3>4, <3>5 DEF Step, N
  <2> HIDE DEF g
  <2> QED BY <2>2
<1>4. Good(N)
  <2> SUFFICES ASSUME ~ Good(N) PROVE FALSE
    OBVIOUS
  <2> HIDE DEF Good
  <2>1. Bad # {} /\ Bad \in SUBSET Nat
    BY <1>1
  <2>2. PICK n \in Bad : \A m \in Bad : n <= m
    <3> HIDE DEF Bad
    <3> QED BY <2>1, LeastNatural
  <2>3. n # 0
    BY <1>2, <2>2
  <2>4. n - 1 \in Nat /\ n - 1 < N /\ n - 1 \notin Bad
    BY <1>1, <2>2, <2>3
  <2>5. Good(n - 1)
    BY <1>1, <2>4
  <2>6. Good((n - 1) + 1)
    BY <1>3, <2>4, <2>5
  <2>7. (n - 1) + 1 = n
    BY <2>2
  <2> QED BY <2>2, <2>6, <2>7
<1>5. \E f : f = F(f)
  <2>1. PICK f : \A k \in D : k + N > N => f[k] = Step(spans, T, k, f)
    BY <1>4
  <2> DEFINE g == [k \in D |-> f[k]]
  <2>2. ASSUME NEW k \in D PROVE f[k] = Step(spans, T, k, g)
    <3>1. f[k] = Step(spans, T, k, f)
      BY <1>1, <2>1
    <3>2. k <= N => k + 1 \in D
      BY <1>1
    <3>3. k <= N => g[k + 1] = f[k + 1]
      BY <3>2
    <3>4. k > N <=> ~ (k <= N)
      BY <1>1
    <3> HIDE DEF g
    <3> QED BY <3>1, <3>3, <3>4 DEF Step, N
  <2>3. g = F(g)
    BY <2>2
  <2> QED BY <2>3
<1> DEFINE c == CHOOSE f : f = F(f)
<1>6. c = F(c)
  BY <1>5
<1>7. Replaced(spans, T) = c[1]
  BY DEF Replaced, Step, Put, N
<1> HIDE DEF c
<1>8. \A k \in D : c[k] = Step(spans, T, k, c)
  BY <1>6
<1> QED BY <1>7, <1>8 DEF N

\* Elements k to e - 1 of a sequence replaced by one.
LEMMA SpliceIs ==
  ASSUME NEW U, NEW q \in Seq(U), NEW k \in Nat, NEW e \in Nat, NEW x \in U,
         1 <= k, k < e, e <= Len(q) + 1
  PROVE  /\ Splice(q, k, e, x) \in Seq(U)
         /\ Len(Splice(q, k, e, x)) = Len(q) - (e - 1 - k)
         /\ \A i \in 1 .. (Len(q) - (e - 1 - k)) :
              Splice(q, k, e, x)[i] = IF i < k THEN q[i]
                                      ELSE IF i = k THEN x ELSE q[i + (e - 1 - k)]
<1> DEFINE a == SubSeq(q, 1, k - 1)
           b == <<x>>
           z == SubSeq(q, e, Len(q))
<1>1. PICK L \in Nat : L = Len(q)
  OBVIOUS
<1>2. a \in Seq(U) /\ Len(a) = k - 1 /\ \A i \in 1 .. (k - 1) : a[i] = q[i]
  <2>1. k - 1 \in 1 - 1 .. Len(q) /\ \A i \in 1 .. (k - 1) : q[i] \in U
    BY <1>1
  <2> QED BY <2>1, SubSeqProperties
<1>3. b \in Seq(U) /\ Len(b) = 1 /\ b[1] = x
  OBVIOUS
<1>4. z \in Seq(U) /\ Len(z) = L - e + 1 /\ \A i \in 1 .. (L - e + 1) : z[i] = q[e + i - 1]
  <2>1. Len(q) \in e - 1 .. Len(q) /\ \A i \in e .. Len(q) : q[i] \in U
    BY <1>1
  <2> QED BY <1>1, <2>1, SubSeqProperties
<1> HIDE DEF a, b, z
<1>5. PICK y \in Seq(U) : y = a \o b /\ Len(y) = k /\ \A i \in 1 .. k : y[i] = IF i < k THEN a[i] ELSE x
  <2>1. /\ a \o b \in Seq(U) /\ Len(a \o b) = Len(a) + Len(b)
        /\ \A i \in 1 .. Len(a) + Len(b) :
             (a \o b)[i] = IF i <= Len(a) THEN a[i] ELSE b[i - Len(a)]
    BY <1>2, <1>3, ConcatProperties
  <2>2. ASSUME NEW i \in 1 .. k PROVE (a \o b)[i] = IF i < k THEN a[i] ELSE x
    <3>1. i \in 1 .. Len(a) + Len(b) /\ (i <= Len(a) <=> i < k) /\ (~ (i < k) => i - Len(a) = 1)
      BY <1>2, <1>3
    <3> QED BY <1>3, <2>1, <3>1
  <2>3. Len(a) + Len(b) = k
    BY <1>2, <1>3
  <2> QED BY <2>1, <2>2, <2>3
<1>6. Splice(q, k, e, x) = y \o z
  BY <1>5 DEF Splice, a, b, z
<1>7. /\ y \o z \in Seq(U) /\ Len(y \o z) = k + (L - e + 1)
      /\ \A i \in 1 .. (k + (L - e + 1)) : (y \o z)[i] = IF i <= k THEN y[i] ELSE z[i - k]
  <2>1. /\ y \o z \in Seq(U) /\ Len(y \o z) = Len(y) + Len(z)
        /\ \A i \in 1 .. Len(y) + Len(z) :
             (y \o z)[i] = IF i <= Len(y) THEN y[i] ELSE z[i - Len(y)]
    BY <1>4, ConcatProperties
  <2>2. Len(y) = k /\ Len(z) = L - e + 1
    BY <1>4, <1>5
  <2> QED BY <2>1, <2>2
<1>8. \A i \in 1 .. (k + (L - e + 1)) : i > k => z[i - k] = q[i + (e - 1 - k)]
  <2> SUFFICES ASSUME NEW i \in 1 .. (k + (L - e + 1)), i > k PROVE z[i - k] = q[i + (e - 1 - k)]
    OBVIOUS
  <2>1. i - k \in 1 .. (L - e + 1) /\ e + (i - k) - 1 = i + (e - 1 - k)
    BY <1>1
  <2> QED BY <1>4, <2>1
<1>9. k + (L - e + 1) = Len(q) - (e - 1 - k)
  BY <1>1
<1>10. ASSUME NEW i \in 1 .. (k + (L - e + 1))
       PROVE  (y \o z)[i] = IF i < k THEN q[i] ELSE IF i = k THEN x ELSE q[i + (e - 1 - k)]
  <2>1. CASE i <= k
    <3>1. (y \o z)[i] = y[i] /\ i \in 1 .. k
      BY <1>7, <2>1
    <3>2. i < k => i \in 1 .. (k - 1)
      BY <2>1
    <3>3. i < k \/ i = k
      BY <2>1
    <3> QED BY <1>2, <1>5, <3>1, <3>2, <3>3
  <2>2. CASE i > k
    <3>1. ~ (i <= k) /\ ~ (i < k) /\ i # k
      BY <2>2
    <3> QED BY <1>7, <1>8, <2>2, <3>1
  <2>3. i <= k \/ i > k
    BY <1>1
  <2> QED BY <2>1, <2>2, <2>3
<1> QED BY <1>6, <1>7, <1>9, <1>10

\* The text for word k can be undone, and up to the first span from k on it is the source.
UndoneFrom(k, cut, chars, spans, T) ==
  /\ cut \in [0 .. Len(chars) -> 0 .. Len(Text)]
  /\ Undoes(cut, chars, {s \in spans : k <= s.start}, T)
  /\ \A i, j \in 0 .. Len(chars) : i <= j => cut[i] <= cut[j]
  /\ \A i \in 0 .. Len(Text) :
        (\A s \in spans : k <= s.start => i < s.start) => i <= Len(chars) /\ cut[i] = i

LEMMA UndoneAtEnd ==
  ASSUME NEW spans \in SUBSET Spans, Apart(spans), NEW T
  PROVE  UndoneFrom(Len(Text) + 1, [i \in 0 .. Len(Text) |-> i], Text, spans, T)
<1> DEFINE N == Len(Text)
           cut == [i \in 0 .. N |-> i]
<1>1. N \in Nat /\ Text \in Seq(Range(Text))
  BY AnonymisationAssumption
<1>2. {s \in spans : N + 1 <= s.start} = {}
  BY <1>1, SpansAre
<1>3. \A i \in 1 .. N : cut[i - 1] = i - 1 /\ cut[i] = i
  BY <1>1
<1>4. \A i \in 1 .. N : SubSeq(Text, i, i) = <<Text[i]>>
  <2> SUFFICES ASSUME NEW i \in 1 .. N PROVE SubSeq(Text, i, i) = <<Text[i]>>
    OBVIOUS
  <2>1. Len(SubSeq(Text, i, i)) = 1 /\ SubSeq(Text, i, i)[1] = Text[i]
    BY <1>1
  <2>2. \A U : Text \in Seq(U) => SubSeq(Text, i, i) \in Seq(U)
    BY <1>1
  <2>3. \A U, z : z \in Seq(U) /\ Len(z) = 1 => z = <<z[1]>>
    OBVIOUS
  <2> QED BY <1>1, <2>1, <2>2, <2>3
<1>5. \A i \in 1 .. N : SubSeq(Text, cut[i - 1] + 1, cut[i]) = <<Text[i]>>
  <2> SUFFICES ASSUME NEW i \in 1 .. N PROVE SubSeq(Text, cut[i - 1] + 1, cut[i]) = <<Text[i]>>
    OBVIOUS
  <2>1. cut[i - 1] + 1 = i /\ cut[i] = i
    BY <1>1, <1>3
  <2> HIDE DEF cut
  <2> QED BY <1>4, <2>1
<1>6. cut \in [0 .. N -> 0 .. N] /\ cut[0] = 0 /\ cut[N] = N
  BY <1>1
<1>7. \A i \in 0 .. N : cut[i] = i
  OBVIOUS
<1> HIDE DEF cut
<1>8. \A i, j \in 0 .. N : i <= j => cut[i] <= cut[j]
  BY <1>7
<1>9. Undoes(cut, Text, {s \in spans : N + 1 <= s.start}, T)
  BY <1>2, <1>5, <1>6 DEF Undoes
<1>10. UndoneFrom(N + 1, cut, Text, spans, T)
  BY <1>1, <1>6, <1>7, <1>8, <1>9 DEF UndoneFrom
<1> QED BY <1>10 DEF cut

\* Putting a token where the source has its original.
LEMMA UndoneStep ==
  ASSUME NEW spans \in SUBSET Spans, Apart(spans), NEW T, NEW U,
         \A x \in spans : Named(T, PrefixOf[x.type], OriginalOf(x)) # {},
         \A x \in spans : TokenOf(x, T) \in U,
         NEW s \in spans, NEW chars \in Seq(U), NEW cut,
         UndoneFrom(s.start + 1, cut, chars, spans, T)
  PROVE  /\ Put(chars, s, T) \in Seq(U)
         /\ \E c : UndoneFrom(s.start, c, Put(chars, s, T), spans, T)
<1>1. PICK N \in Nat, k \in Nat, e \in Nat, L \in Nat :
        N = Len(Text) /\ k = s.start /\ e = s.end /\ L = Len(chars)
  BY AnonymisationAssumption, SpansAre
<1>2. /\ N \in Nat /\ e \in Nat /\ L \in Nat /\ k \in Nat
      /\ k \in 1 .. N /\ e <= N + 1 /\ k < e
  BY <1>1, SpansAre
<1>3. \A t \in spans : /\ t.start \in Nat
                       /\ t # s /\ k <= t.start => e <= t.start
                       /\ t = s => t.start = k
  <2> SUFFICES ASSUME NEW t \in spans
               PROVE  /\ t.start \in Nat
                      /\ t # s /\ k <= t.start => e <= t.start
                      /\ t = s => t.start = k
    OBVIOUS
  <2>1. t.start \in Nat /\ t.end \in Nat /\ t.start < t.end
    BY SpansAre, AnonymisationAssumption
  <2>2. t # s => s.end <= t.start \/ t.end <= s.start
    BY DEF Apart
  <2> QED BY <1>1, <1>2, <2>1, <2>2
<1>4. /\ cut \in [0 .. L -> 0 .. N] /\ cut[0] = 0 /\ cut[L] = N
      /\ \A i, j \in 0 .. L : i <= j => cut[i] <= cut[j]
      /\ \A i \in 0 .. (e - 1) : i <= L /\ cut[i] = i
  <2>1. /\ cut \in [0 .. L -> 0 .. N] /\ cut[0] = 0 /\ cut[L] = N
        /\ \A i, j \in 0 .. L : i <= j => cut[i] <= cut[j]
    BY <1>1 DEF UndoneFrom, Undoes
  <2>2. ASSUME NEW i \in 0 .. (e - 1) PROVE i <= L /\ cut[i] = i
    <3>1. i \in 0 .. N
      BY <1>2
    <3>2. \A t \in spans : k + 1 <= t.start => i < t.start
      BY <1>2, <1>3
    <3> QED BY <1>1, <3>1, <3>2 DEF UndoneFrom
  <2> QED BY <2>1, <2>2
<1>5. PICK d \in Nat, M \in Nat : d = e - 1 - k /\ M = L - d /\ k <= M
  <2>1. e - 1 \in 0 .. (e - 1)
    BY <1>2
  <2>2. e - 1 <= L
    BY <1>4, <2>1
  <2>3. e - 1 - k \in Nat /\ L - (e - 1 - k) \in Nat /\ k <= L - (e - 1 - k)
    BY <1>2, <2>2
  <2> QED BY <2>3
<1> DEFINE new == Put(chars, s, T)
           c == [i \in 0 .. M |-> IF i < k THEN i ELSE cut[i + d]]
<1>6. /\ new \in Seq(U) /\ Len(new) = M
      /\ \A i \in 1 .. M : new[i] = IF i < k THEN chars[i]
                                          ELSE IF i = k THEN TokenOf(s, T) ELSE chars[i + d]
  <2>1. e - 1 \in 0 .. (e - 1)
    BY <1>2
  <2>2. e <= L + 1 /\ 1 <= k
    BY <1>2, <1>4, <2>1
  <2>3. PICK x \in U : x = TokenOf(s, T) /\ new = Splice(chars, k, e, x)
    BY <1>1 DEF Put
  <2> HIDE DEF new
  <2>4. /\ new \in Seq(U) /\ Len(new) = L - (e - 1 - k)
        /\ \A i \in 1 .. (L - (e - 1 - k)) :
             new[i] = IF i < k THEN chars[i]
                      ELSE IF i = k THEN TokenOf(s, T) ELSE chars[i + (e - 1 - k)]
    <3>1. 1 <= k /\ k < e /\ e <= Len(chars) + 1
      BY <1>1, <1>2, <2>2
    <3>2. /\ Splice(chars, k, e, x) \in Seq(U)
          /\ Len(Splice(chars, k, e, x)) = Len(chars) - (e - 1 - k)
          /\ \A i \in 1 .. (Len(chars) - (e - 1 - k)) :
               Splice(chars, k, e, x)[i] = IF i < k THEN chars[i]
                                           ELSE IF i = k THEN x ELSE chars[i + (e - 1 - k)]
      BY <3>1, SpliceIs
    <3> QED BY <1>1, <2>3, <3>2
  <2> QED BY <1>5, <2>4
<1> HIDE DEF new
<1>7. c \in [0 .. M -> 0 .. N] /\ c[0] = 0 /\ c[M] = N
  <2>1. \A i \in 0 .. M : i >= k => i + d \in 0 .. L
    BY <1>2, <1>5
  <2> QED BY <1>2, <1>4, <1>5, <2>1
<1>8. \A i \in 0 .. M : (i < k => c[i] = i) /\ (i >= k => i + d \in 0 .. L /\ c[i] = cut[i + d])
  BY <1>2, <1>5
<1> HIDE DEF c
<1>9. \A i \in 0 .. M : i >= k => c[i] \in Nat /\ e - 1 <= c[i]
  <2> SUFFICES ASSUME NEW i \in 0 .. M, i >= k PROVE c[i] \in Nat /\ e - 1 <= c[i]
    OBVIOUS
  <2>1. e - 1 \in 0 .. L /\ i + d \in 0 .. L /\ e - 1 <= i + d
    BY <1>2, <1>4, <1>5
  <2>2. cut[e - 1] <= cut[i + d] /\ cut[i + d] \in 0 .. N
    BY <1>4, <2>1
  <2> QED BY <1>2, <1>4, <1>8, <2>2
<1>10. \A i, j \in 0 .. M : i <= j => c[i] <= c[j]
  <2> SUFFICES ASSUME NEW i \in 0 .. M, NEW j \in 0 .. M, i <= j PROVE c[i] <= c[j]
    OBVIOUS
  <2>1. CASE j < k
    BY <1>2, <1>5, <1>8, <2>1
  <2>2. CASE i < k /\ j >= k
    BY <1>2, <1>5, <1>8, <1>9, <2>2
  <2>3. CASE i >= k
    <3>1. i + d \in 0 .. L /\ j + d \in 0 .. L /\ i + d <= j + d
      <4>1. i \in Nat /\ j \in Nat /\ d \in Nat /\ k \in Nat
        BY <1>2, <1>5
      <4>2. j >= k
        BY <2>3, <4>1
      <4>3. i + d \in 0 .. L /\ j + d \in 0 .. L
        BY <1>8, <2>3, <4>2
      <4> QED BY <4>1, <4>3
    <3>2. i \in Nat /\ j \in Nat /\ k \in Nat /\ j >= k
      BY <1>2, <2>3
    <3>3. c[i] = cut[i + d] /\ c[j] = cut[j + d]
      BY <1>8, <2>3, <3>2
    <3> QED BY <1>4, <3>1, <3>3
  <2> QED BY <1>2, <1>5, <2>1, <2>2, <2>3
<1>11. \A i \in 0 .. N : (\A t \in spans : k <= t.start => i < t.start) => i <= M /\ c[i] = i
  <2> SUFFICES ASSUME NEW i \in 0 .. N, \A t \in spans : k <= t.start => i < t.start
               PROVE  i <= M /\ c[i] = i
    OBVIOUS
  <2>1. i < k
    BY <1>2, <1>3
  <2> QED BY <1>2, <1>5, <1>8, <2>1
<1> DEFINE from == {t \in spans : k <= t.start}
           Piece(i) == LET piece == SubSeq(Text, c[i - 1] + 1, c[i])
                       IN  IF \E t \in from : t.start = c[i - 1] + 1
                           THEN \E t \in T : /\ new[i] = [prefix |-> t.prefix, n |-> t.n]
                                             /\ t.original = piece
                           ELSE piece = <<new[i]>>
<1>12. ASSUME NEW m \in 1 .. L
       PROVE  LET piece == SubSeq(Text, cut[m - 1] + 1, cut[m])
              IN  IF \E t \in spans : k + 1 <= t.start /\ t.start = cut[m - 1] + 1
                  THEN \E t \in T : /\ chars[m] = [prefix |-> t.prefix, n |-> t.n]
                                    /\ t.original = piece
                  ELSE piece = <<chars[m]>>
  BY <1>1 DEF UndoneFrom, Undoes
<1>13. ASSUME NEW i \in 1 .. M, i < k PROVE Piece(i)
  <2>1. i \in 1 .. L /\ i - 1 \in 0 .. (e - 1) /\ i \in 0 .. (e - 1)
    BY <1>2, <1>4, <1>5, <1>13
  <2>2. cut[i - 1] = i - 1 /\ cut[i] = i /\ c[i - 1] = i - 1 /\ c[i] = i
    BY <1>2, <1>4, <1>5, <1>8, <1>13, <2>1
  <2>3. ~ \E t \in spans : k <= t.start /\ t.start = (i - 1) + 1
    BY <1>2, <1>3, <1>13
  <2>4. ~ \E t \in spans : k + 1 <= t.start /\ t.start = (i - 1) + 1
    BY <1>2, <1>3, <1>13
  <2>5. SubSeq(Text, (i - 1) + 1, i) = <<chars[i]>>
    BY <1>12, <2>1, <2>2, <2>4
  <2>6. new[i] = chars[i]
    BY <1>6, <1>13
  <2> QED BY <2>2, <2>3, <2>5, <2>6
<1>14. Piece(k)
  <2>1. k \in 1 .. M /\ k - 1 \in 0 .. M /\ k \in 0 .. M
    BY <1>2, <1>5
  <2>2. c[k - 1] = k - 1 /\ c[k] = e - 1
    BY <1>2, <1>4, <1>5, <1>8, <2>1
  <2>3. \E t \in from : t.start = (k - 1) + 1
    <3>1. s \in from /\ s.start = (k - 1) + 1
      BY <1>2, <1>3
    <3> QED BY <3>1
  <2>4. PICK t \in Named(T, PrefixOf[s.type], OriginalOf(s)) :
          TokenOf(s, T) = [prefix |-> t.prefix, n |-> t.n]
    BY DEF TokenOf
  <2>5. t \in T /\ t.original = SubSeq(Text, k, e - 1)
    BY <1>1, <2>4 DEF Named, OriginalOf
  <2>6. (k - 1) + 1 = k
    BY <1>2
  <2>7. new[k] = TokenOf(s, T)
    BY <1>2, <1>6, <2>1
  <2>8. t.original = SubSeq(Text, c[k - 1] + 1, c[k])
    BY <2>2, <2>5, <2>6
  <2> QED BY <2>2, <2>3, <2>4, <2>5, <2>7, <2>8
<1>15. ASSUME NEW i \in 1 .. M, i > k PROVE Piece(i)
  <2>1. i - 1 \in 0 .. M /\ i \in 0 .. M /\ i - 1 >= k
        /\ i + d \in 1 .. L /\ (i - 1) + d = (i + d) - 1
    BY <1>2, <1>5, <1>15
  <2>2. c[i] = cut[i + d] /\ c[i - 1] = cut[(i + d) - 1] /\ e - 1 <= c[i - 1] /\ c[i - 1] \in Nat
    <3>1. i >= k
      BY <1>2, <1>15
    <3>2. c[i] = cut[i + d] /\ c[i - 1] = cut[(i - 1) + d]
      BY <1>8, <2>1, <3>1
    <3> QED BY <1>9, <2>1, <3>2
  <2>3. new[i] = chars[i + d]
    BY <1>2, <1>5, <1>6, <1>15
  <2>4. (\E t \in from : t.start = c[i - 1] + 1)
          <=> (\E t \in spans : k + 1 <= t.start /\ t.start = c[i - 1] + 1)
    BY <1>2, <1>3, <2>2
  <2> HIDE DEF from
  <2> QED BY <1>12, <2>1, <2>2, <2>3, <2>4
<1>16. \A i \in 1 .. M : Piece(i)
  <2> HIDE DEF Piece
  <2> SUFFICES ASSUME NEW i \in 1 .. M PROVE Piece(i)
    OBVIOUS
  <2>1. i < k \/ i = k \/ i > k
    BY <1>2
  <2> QED BY <1>13, <1>14, <1>15, <2>1
<1>17. Undoes(c, new, from, T)
  BY <1>1, <1>6, <1>7, <1>16 DEF Undoes
<1>18. UndoneFrom(k, c, new, spans, T)
  BY <1>1, <1>6, <1>7, <1>10, <1>11, <1>17 DEF UndoneFrom
<1> QED BY <1>1, <1>6, <1>18 DEF new

LEMMA ReplacedIs ==
  ASSUME NEW spans \in SUBSET Spans, Apart(spans), NEW T,
         \A x \in spans : Named(T, PrefixOf[x.type], OriginalOf(x)) # {}
  PROVE  \E cut : UndoneFrom(1, cut, Replaced(spans, T), spans, T)
<1> DEFINE N == Len(Text)
           U == Range(Text) \cup {TokenOf(x, T) : x \in spans}
<1>1. PICK chars : /\ \A k \in 1 .. (Len(Text) + 1) : chars[k] = Step(spans, T, k, chars)
                   /\ Replaced(spans, T) = chars[1]
  BY LoopIs
<1>2. N \in Nat /\ Text \in Seq(U)
  <2>1. N \in Nat /\ Text \in Seq(Range(Text))
    BY AnonymisationAssumption
  <2>2. \A i \in 1 .. Len(Text) : Text[i] \in U
    BY <2>1
  <2> QED BY <2>1, <2>2
<1>3. \A x \in spans : TokenOf(x, T) \in U
  OBVIOUS
<1> HIDE DEF U
<1> DEFINE Fine(k) == chars[k] \in Seq(U) /\ \E cut : UndoneFrom(k, cut, chars[k], spans, T)
           Bad == {n \in Nat : n <= N /\ ~ Fine(N + 1 - n)}
<1>4. Fine(N + 1)
  <2>1. N + 1 \in 1 .. (Len(Text) + 1) /\ N + 1 > Len(Text)
    BY <1>2
  <2>2. chars[N + 1] = Text
    BY <1>1, <2>1 DEF Step
  <2>3. UndoneFrom(N + 1, [i \in 0 .. N |-> i], Text, spans, T)
    BY UndoneAtEnd
  <2> QED BY <1>2, <2>2, <2>3
<1>5. ASSUME NEW k \in 1 .. N, Fine(k + 1) PROVE Fine(k)
  <2>1. k \in 1 .. (Len(Text) + 1) /\ ~ (k > Len(Text))
    BY <1>2
  <2>2. PICK cut : UndoneFrom(k + 1, cut, chars[k + 1], spans, T)
    BY <1>5
  <2>3. CASE \E s \in spans : s.start = k
    <3>1. PICK s \in spans : s.start = k /\ chars[k] = Put(chars[k + 1], s, T)
      BY <1>1, <2>1, <2>3 DEF Step
    <3>2. UndoneFrom(s.start + 1, cut, chars[k + 1], spans, T)
      BY <2>2, <3>1
    <3>3. PICK old \in Seq(U) : old = chars[k + 1]
      BY <1>5
    <3>4. /\ Put(old, s, T) \in Seq(U)
          /\ \E c : UndoneFrom(s.start, c, Put(old, s, T), spans, T)
      BY <1>3, <3>2, <3>3, UndoneStep
    <3> QED BY <3>1, <3>3, <3>4
  <2>4. CASE ~ \E s \in spans : s.start = k
    <3>1. chars[k] = chars[k + 1]
      BY <1>1, <2>1, <2>4 DEF Step
    <3>2. \A x \in spans : x.start \in Nat /\ (k <= x.start <=> k + 1 <= x.start)
      BY <2>4, SpansAre
    <3>3. {x \in spans : k <= x.start} = {x \in spans : k + 1 <= x.start}
      BY <3>2
    <3>4. UndoneFrom(k, cut, chars[k + 1], spans, T)
      <4> DEFINE old == chars[k + 1]
      <4> HIDE DEF old
      <4>1. UndoneFrom(k + 1, cut, old, spans, T)
        BY <2>2 DEF old
      <4>2. \A i : (\A x \in spans : k + 1 <= x.start => i < x.start)
                     <=> (\A x \in spans : k <= x.start => i < x.start)
        BY <3>2
      <4>3. UndoneFrom(k, cut, old, spans, T)
        BY <3>3, <4>1, <4>2 DEF UndoneFrom
      <4> QED BY <4>3 DEF old
    <3> QED BY <1>5, <3>1, <3>4
  <2> QED BY <2>3, <2>4
<1>6. Bad = {}
  <2> SUFFICES ASSUME Bad # {} PROVE FALSE
    OBVIOUS
  <2> HIDE DEF Fine
  <2>1. PICK n \in Bad : \A m \in Bad : n <= m
    <3>1. Bad \in SUBSET Nat
      OBVIOUS
    <3> HIDE DEF Bad
    <3> QED BY <3>1, LeastNatural
  <2>2. n \in Nat /\ n <= N /\ ~ Fine(N + 1 - n)
    BY <2>1
  <2>3. n # 0
    BY <1>2, <1>4, <2>2
  <2>4. n - 1 \in Nat /\ n - 1 <= N /\ n - 1 \notin Bad
    BY <1>2, <2>1, <2>2, <2>3
  <2>5. Fine(N + 1 - (n - 1))
    BY <2>4
  <2>6. N + 1 - (n - 1) = (N + 1 - n) + 1 /\ N + 1 - n \in 1 .. N
    BY <1>2, <2>2, <2>3
  <2>7. Fine((N + 1 - n) + 1)
    BY <2>5, <2>6
  <2> QED BY <1>5, <2>2, <2>6, <2>7
<1>7. Fine(1)
  <2> HIDE DEF Fine
  <2>1. N + 1 - N = 1 /\ N <= N
    BY <1>2
  <2>2. Fine(N + 1 - N)
    BY <1>2, <1>6, <2>1
  <2> QED BY <2>1, <2>2
<1> QED BY <1>1, <1>7

\* What a request works out from the tokens of the row it read.
LEMMA TokenisedIs ==
  ASSUME NEW spans \in SUBSET Spans, Apart(spans), NEW T, TokensHold(T)
  PROVE  TokensHold(Tokenised(spans, T).tokens) /\ Undone(Tokenised(spans, T))
<1> DEFINE out == Tokenised(spans, T)
<1>1. TokensHold({})
  BY DEF TokensHold, OneToOne
<1>2. CASE spans = {}
  <2>1. out = [text |-> Text, tokens |-> {}, spans |-> {}]
    BY <1>2 DEF Tokenised
  <2> DEFINE cut == [i \in 0 .. Len(Text) |-> i]
  <2>2. UndoneFrom(Len(Text) + 1, cut, Text, {}, {})
    BY <1>2, UndoneAtEnd
  <2> HIDE DEF cut
  <2>3. cut \in [0 .. Len(Text) -> 0 .. Len(Text)] /\ Undoes(cut, Text, {}, {})
    BY <2>2 DEF UndoneFrom
  <2> QED BY <1>1, <2>1, <2>3 DEF Undone
<1>3. CASE spans # {}
  <2> DEFINE all == Assigned(spans, T)
             red == Replaced(spans, all)
  <2>1. out = [text |-> red, tokens |-> all, spans |-> spans]
    BY <1>3 DEF Tokenised
  <2>2. /\ TokensHold(all)
        /\ \A s \in spans : Named(all, PrefixOf[s.type], OriginalOf(s)) # {}
    BY AssignedIs
  <2> HIDE DEF all
  <2>3. PICK cut : UndoneFrom(1, cut, red, spans, all)
    BY <2>2, ReplacedIs
  <2>4. {s \in spans : 1 <= s.start} = spans
    BY SpansAre
  <2> HIDE DEF red
  <2>5. cut \in [0 .. Len(red) -> 0 .. Len(Text)] /\ Undoes(cut, red, spans, all)
    BY <2>3, <2>4 DEF UndoneFrom
  <2> QED BY <2>1, <2>2, <2>5 DEF Undone
<1> QED BY <1>2, <1>3

-----------------------------------------------------------------------------
(* The requests.                                                           *)

AnonymisationInv ==
  /\ redaction = [r \in Redactions |-> redaction[r]]
  /\ \A r \in Redactions : redaction[r].at = "write" =>
       TokensHold(redaction[r].outcome.tokens) /\ Undone(redaction[r].outcome)
  /\ redactedBody # NoBody => TokensHold(redactedBody.tokens)

LEMMA AnonymiseInv ==
  ASSUME AnonymisationInv, NEW r \in Redactions, Anonymise(r) PROVE AnonymisationInv'
<1> DEFINE T == IF redactedBody = NoBody THEN {} ELSE redactedBody.tokens
<1>1. PICK n \in 0 .. MaxSpans : \E found \in kSubset(n, Spans) : \E spans \in DeOverlapped(found) :
        redaction' = [redaction EXCEPT ![r] =
          [at |-> "write", existing |-> redactedBody, outcome |-> Tokenised(spans, T)]]
  BY DEF Anonymise
<1>2. PICK found \in kSubset(n, Spans) : \E spans \in DeOverlapped(found) :
        redaction' = [redaction EXCEPT ![r] =
          [at |-> "write", existing |-> redactedBody, outcome |-> Tokenised(spans, T)]]
  BY <1>1
<1>3. PICK spans \in DeOverlapped(found) :
        redaction' = [redaction EXCEPT ![r] =
          [at |-> "write", existing |-> redactedBody, outcome |-> Tokenised(spans, T)]]
  BY <1>2
<1>4. spans \in SUBSET Spans /\ Apart(spans)
  BY DEF DeOverlapped, Apart, kSubset
<1>5. TokensHold(T)
  BY DEF AnonymisationInv, TokensHold, OneToOne
<1> HIDE DEF T
<1>6. TokensHold(Tokenised(spans, T).tokens) /\ Undone(Tokenised(spans, T))
  BY <1>4, <1>5, TokenisedIs
<1>7. PICK o : o = [at |-> "write", existing |-> redactedBody, outcome |-> Tokenised(spans, T)]
  OBVIOUS
<1>8. TokensHold(o.outcome.tokens) /\ Undone(o.outcome)
  BY <1>6, <1>7
<1>9. redaction' = [redaction EXCEPT ![r] = o] /\ redactedBody' = redactedBody
  BY <1>3, <1>7 DEF Anonymise
<1> QED BY <1>8, <1>9 DEF AnonymisationInv

LEMMA WriteBodyInv ==
  ASSUME AnonymisationInv, NEW r \in Redactions, WriteBody(r) PROVE AnonymisationInv'
<1>1. redaction' = [redaction EXCEPT ![r] = AtRest] /\ AtRest.at # "write"
  BY DEF WriteBody, AtRest
<1>2. \A q \in Redactions : redaction'[q] = IF q = r THEN AtRest ELSE redaction[q]
  BY <1>1 DEF AnonymisationInv
<1>3. redaction' = [q \in Redactions |-> redaction'[q]]
  BY <1>1 DEF AnonymisationInv
<1>4. redactedBody' # NoBody => TokensHold(redactedBody'.tokens)
  <2> DEFINE new == redaction[r].outcome
             old == redaction[r].existing
  <2>1. TokensHold(new.tokens)
    BY DEF WriteBody, AnonymisationInv
  <2>2. CASE redactedBody' = redactedBody
    BY <2>2 DEF AnonymisationInv
  <2>3. CASE old = NoBody /\ redactedBody' = new
    BY <2>1, <2>3
  <2>4. CASE /\ redactedBody # NoBody
             /\ redactedBody'.tokens \in {redactedBody.tokens, new.tokens}
    BY <2>1, <2>4 DEF AnonymisationInv
  <2> QED BY <2>2, <2>3, <2>4 DEF WriteBody
<1> QED BY <1>1, <1>2, <1>3, <1>4 DEF AnonymisationInv

LEMMA AnonymisationNextInv ==
  AnonymisationInv /\ [AnonymisationNext]_anonymisationVars => AnonymisationInv'
<1> SUFFICES ASSUME AnonymisationInv, [AnonymisationNext]_anonymisationVars
             PROVE  AnonymisationInv'
  OBVIOUS
<1>1. CASE DeleteRedacted
  BY <1>1 DEF DeleteRedacted, AnonymisationInv
<1>2. CASE UNCHANGED anonymisationVars
  BY <1>2 DEF anonymisationVars, AnonymisationInv
<1> QED BY <1>1, <1>2, AnonymiseInv, WriteBodyInv DEF AnonymisationNext

\* Over any number of overlapping re-runs, a token stands for one original, and the
\* redacted text with its mapping gives back the text that was read (tokenise,
\* _seed_counters, anonymise_document).
THEOREM AnswersAreUndone == AnonymisationSpec => []AnswersRestore
<1>1. AnonymisationInit => AnonymisationInv
  BY DEF AnonymisationInit, AnonymisationInv, AtRest
<1>2. AnonymisationInv => AnswersRestore
  BY DEF AnonymisationInv, AnswersRestore, TokensHold
<1> QED BY <1>1, <1>2, AnonymisationNextInv, PTL DEF AnonymisationSpec

=============================================================================
