----------------------- MODULE DocumentVersionsProofs -----------------------
(***************************************************************************)
(* The versions of a document, for every set of requests.                  *)
(*                                                                         *)
(* Version numbers are 1, 2, ... without a gap, because a number is read   *)
(* as the latest plus one and the unique index refuses it once another     *)
(* request has written it: a request that may still write its number saw   *)
(* every version there is.  What it read of the history (the text a        *)
(* closing version continues, the file a replica copies) is then still     *)
(* true when it writes, and a request whose reading has gone stale fails.  *)
(* The advisory lock gives the same for the statuses of the edits of one   *)
(* proposal.                                                               *)
(***************************************************************************)
EXTENDS DocumentVersions, Sequences, FiniteSetTheorems, WellFoundedInduction, TLAPS

AllTexts == Texts \cup {NoText, EmptyText}
Statuses == {"none", "pending", "accepted", "rejected"}
ClosingKinds == {"user_accept", "user_reject"}

Closings(p) == {w \in versions : w.kind \in ClosingKinds /\ w.of = p}
WithFile == {v \in versions : v.file # NoFile}

IsReq(q) == q = [pc |-> q.pc, op |-> q.op, of |-> q.of, staged |-> q.staged, num |-> q.num,
                 text |-> q.text, file |-> q.file, seen |-> q.seen, clear |-> q.clear]

\* A request in the transaction that resolves edits of a proposal, past the lock.
Locked(q) == q.op \in ResolveOps
             /\ q.pc \in {"latest", "base", "number", "write", "close", "commit"}

\* The version a request is about to write.
NewVersionSound(q) ==
  /\ q.op \in {"propose", "save", "commit_draft", "upload", "restore", "replicate",
               "accept_all", "reject_all"}
  /\ q.text \in AllTexts
  /\ q.op \in {"upload", "restore"} => q.file \in Files /\ q.text = Extract(q.file)
  /\ q.op = "replicate" => /\ q.pc = "write" /\ q.file \in Files /\ q.text = NoText
                           /\ q.num = Latest + 1 => q.file = document
  /\ q.op \notin {"upload", "restore", "replicate"} => q.file = NoFile
  /\ q.op \notin ResolveOps => q.staged = {}
  /\ q.op \in ResolveOps => q.text # NoText /\ Closings(q.of) = {}

ReqSound(q) ==
  /\ IsReq(q)
  /\ q.pc \in {"number", "write"} => NewVersionSound(q)
  /\ q.pc \in {"write", "base", "close"} => q.num \in 1..(Latest + 1)
  /\ q.pc \in {"lock", "latest", "base", "close", "commit"} => q.op \in ResolveOps
  /\ q.op \in ResolveOps /\ q.pc \notin {"idle", "done", "failed"} =>
        q.file = NoFile /\ \E v \in Proposals : v.by = q.of
  /\ Locked(q) => q.staged \subseteq PendingOf(q.of)
  /\ q.pc \in {"base", "close"} => Closings(q.of) = {}
  /\ q.pc = "close" => /\ q.text \in AllTexts \ {NoText}
                       /\ q.num = Latest + 1 => q.text = BaseText
  /\ q.pc = "commit" => \/ PendingOf(q.of) \ q.staged # {}
                        \/ \A v \in Proposals : v.by = q.of => v.number < Latest

\* A closing version continues the newest text before it.
Continues(v) ==
  LET before == {w \in TextVersions : w.number < v.number}
  IN  before # {} =>
        LET t == Newest(before).text
        IN  t # EmptyText => v.text.src = t.src /\ t.applied \subseteq v.text.applied

Numbered ==
  /\ \E n \in Nat \ {0} : {v.number : v \in versions} = 1..n
  /\ \A v, w \in versions : v.number = w.number => v = w

RowSound(v) ==
  /\ v.text \in AllTexts /\ v.file \in Files \cup {NoFile}
  /\ v.file # NoFile /\ ~ v.file.readable => v.text = NoText
  /\ v.kind \in ClosingKinds => /\ v.text # NoText
                                /\ \E u \in Proposals : u.by = v.of /\ u.number < v.number
  /\ v.notes = "resolved" => Continues(v)

\* A request creates at most one version, when it is done.
Authored ==
  /\ \A v, w \in versions : v.by = w.by => v = w
  /\ \A v \in versions : v.by = Original \/ (v.by \in Editors /\ req[v.by].pc = "done")
  /\ \A e \in Edits : edits[e] # "none" => req[e[1]].pc = "done"

\* The edits of a resolved proposal.
Closed ==
  /\ \A v, w \in versions : v.kind \in ClosingKinds /\ w.kind \in ClosingKinds /\ v.of = w.of
                            => v = w
  /\ \A v \in Proposals : EditsOf(v.by) # {} /\ PendingOf(v.by) = {} => v.number < Latest

Separate ==
  \A a, b \in Editors : a # b /\ Locked(req[a]) /\ Locked(req[b]) => req[a].of # req[b].of

DocInv ==
  /\ Numbered
  /\ \A v \in versions : RowSound(v)
  /\ edits \in [Edits -> Statuses]
  /\ document \in Files /\ ActiveMovesTogether
  /\ draft.text \in AllTexts
  /\ Authored
  /\ Closed
  /\ req = [r \in Editors |-> req[r]]
  /\ \A r \in Editors : ReqSound(req[r])
  /\ Separate

-----------------------------------------------------------------------------
(* Numbers and newest versions.                                            *)

\* There is a newest among some of the versions, and one only.
LEMMA NewestIs ==
  ASSUME Numbered, NEW V \in SUBSET versions, V # {}
  PROVE  Newest(V) \in V /\ \A w \in V : w.number <= Newest(V).number
<1>1. PICK n \in Nat : \A v \in versions : v.number \in 1..n
  BY DEF Numbered
<1> DEFINE D == {n - v.number : v \in V}
<1>2. D \in SUBSET Nat /\ D # {}
  <2>1. \A v \in V : n - v.number \in Nat /\ n - v.number \in D
    BY <1>1
  <2>2. \A y \in D : y \in Nat
    BY <2>1
  <2> HIDE DEF D
  <2> QED BY <2>1, <2>2
<1> DEFINE R == OpToRel(<, Nat)
<1>3. IsWellFoundedOn(R, Nat)
  BY NatLessThanWellFounded
<1>4. \A x, y \in Nat : x < y => <<x, y>> \in R
  BY DEF OpToRel
<1> HIDE DEF R, D
<1>5. PICK x \in D : \A y \in D : ~ (<<y, x>> \in R)
  BY <1>2, <1>3, WFMin, Zenon
<1>6. \A y \in D : ~ (y < x)
  BY <1>2, <1>4, <1>5, Zenon
<1>7. PICK v \in V : x = n - v.number
  BY <1>5 DEF D
<1>8. \A w \in V : w.number <= v.number
  <2> SUFFICES ASSUME NEW w \in V PROVE w.number <= v.number
    OBVIOUS
  <2>1. n - w.number \in D
    BY DEF D
  <2>2. ~ (n - w.number < n - v.number)
    BY <1>6, <1>7, <2>1
  <2>3. w.number \in 1..n /\ v.number \in 1..n
    BY <1>1
  <2> QED BY <2>2, <2>3
<1> QED BY <1>8 DEF Newest

LEMMA NewestUnique ==
  ASSUME Numbered, NEW V \in SUBSET versions, NEW v \in V, \A w \in V : w.number <= v.number
  PROVE  Newest(V) = v
<1>1. PICK u : u = Newest(V) /\ u \in V /\ v.number <= u.number
  BY NewestIs
<1>2. u.number <= v.number
  BY <1>1
<1>3. u.number \in Nat /\ v.number \in Nat
  BY <1>1 DEF Numbered
<1>4. u.number = v.number
  BY <1>1, <1>2, <1>3
<1> QED BY <1>1, <1>4 DEF Numbered

LEMMA LatestIs ==
  ASSUME Numbered
  PROVE  Latest \in Nat \ {0} /\ {v.number : v \in versions} = 1..Latest
         /\ \A v \in versions : v.number \in 1..Latest
<1>1. PICK n \in Nat \ {0} : {v.number : v \in versions} = 1..n
  BY DEF Numbered
<1>2. Latest = n
  <2>1. Latest = Max(1..n)
    BY <1>1 DEF Latest
  <2>2. Max(1..n) = n
    BY DEF Max
  <2> QED BY <2>1, <2>2
<1> QED BY <1>1, <1>2

\* A version that is written follows every other.
LEMMA Added ==
  ASSUME Numbered, NEW x, versions' = versions \cup {x}, x.number \in 1..(Latest + 1),
         \A v \in versions : v.number # x.number
  PROVE  /\ x.number = Latest + 1 /\ Latest' = Latest + 1 /\ Numbered'
         /\ x \notin versions
<1>1. PICK n \in Nat \ {0} : n = Latest /\ {v.number : v \in versions} = 1..n
  BY LatestIs
<1>2. x.number = n + 1
  <2>1. x.number \notin {v.number : v \in versions}
    OBVIOUS
  <2> QED BY <1>1, <2>1
<1>3. {v.number : v \in versions'} = 1..(n + 1)
  <2>1. {v.number : v \in versions'} = {v.number : v \in versions} \cup {x.number}
    OBVIOUS
  <2> QED BY <1>1, <1>2, <2>1
<1>4. Latest' = n + 1
  <2>1. Latest' = Max(1..(n + 1))
    BY <1>3 DEF Latest
  <2>2. Max(1..(n + 1)) = n + 1
    BY DEF Max
  <2> QED BY <2>1, <2>2
<1>5. Numbered'
  <2>1. \A v, w \in versions' : v.number = w.number => v = w
    BY DEF Numbered
  <2>2. n + 1 \in Nat \ {0}
    OBVIOUS
  <2> QED BY <1>3, <2>1, <2>2 DEF Numbered
<1>6. x \notin versions
  OBVIOUS
<1> QED BY <1>1, <1>2, <1>4, <1>5, <1>6

\* Texts and files.
LEMMA TextKinds ==
  /\ NoText \notin Texts /\ EmptyText \notin Texts /\ EmptyText # NoText
  /\ NoFile \notin Files
  /\ \A t \in Texts : t.src \in Editors \cup {Original}
  BY DocumentAssumption DEF Texts, NoText, EmptyText, NoFile, Files

LEMMA FileTexts ==
  ASSUME NEW r \in Editors \cup {Original}, NEW b \in BOOLEAN
  PROVE  TextOf(r) \in Texts /\ FileOf(r, b) \in Files
  BY DEF TextOf, FileOf, Texts, Files

LEMMA ExtractIs ==
  ASSUME NEW f \in Files
  PROVE  Extract(f) \in AllTexts /\ (f.readable => Extract(f) = f.says /\ f.says \in Texts)
         /\ (~ f.readable => Extract(f) = NoText)
  BY DEF Extract, Files, AllTexts

LEMMA AppliedIs ==
  ASSUME NEW t \in AllTexts \ {NoText}, NEW acc \in SUBSET Edits, NEW sk \in SUBSET acc
  PROVE  LET u == ApplyAccepted(t, acc, sk)
         IN  u \in AllTexts \ {NoText} /\ (t # EmptyText => u.src = t.src /\ t.applied \subseteq u.applied)
<1>1. CASE t = EmptyText
  BY <1>1, TextKinds DEF ApplyAccepted, AllTexts
<1>2. CASE t # EmptyText
  <2>1. t \in Texts
    BY <1>2 DEF AllTexts
  <2>2. ApplyAccepted(t, acc, sk) = [src |-> t.src, applied |-> t.applied \cup (acc \ sk)]
    BY <1>2, <2>1 DEF ApplyAccepted, Texts
  <2>3. [src |-> t.src, applied |-> t.applied \cup (acc \ sk)] \in Texts
    BY <2>1 DEF Texts
  <2> QED BY <2>2, <2>3, TextKinds DEF AllTexts
<1> QED BY <1>1, <1>2
-----------------------------------------------------------------------------
(* Steps that add no version and change no status.                         *)

LEMMA DocStarts == DocInit => DocInv
<1> SUFFICES ASSUME DocInit PROVE DocInv
  OBVIOUS
<1> DEFINE f == FileOf(Original, TRUE)
           v == Version(1, "upload", Original, Original, NoText, f, "")
<1>1. /\ versions = {v} /\ edits = [e \in Edits |-> "none"] /\ document = f
      /\ body = Extract(f) /\ draft = NoDraft /\ req = [r \in Editors |-> Idle]
  BY DEF DocInit
<1>2. /\ v.number = 1 /\ v.kind = "upload" /\ v.by = Original /\ v.text = NoText /\ v.file = f
      /\ v.notes = ""
  BY DEF Version
<1>3. f \in Files /\ f.readable /\ f # NoFile
  BY TextKinds, FileTexts DEF FileOf
<1> HIDE DEF f, v
<1>4. Numbered
  <2>1. {w.number : w \in versions} = {1}
    BY <1>1, <1>2
  <2>2. 1..1 = {1} /\ 1 \in Nat \ {0}
    OBVIOUS
  <2> QED BY <1>1, <2>1, <2>2 DEF Numbered
<1>5. \A w \in versions : RowSound(w)
  BY <1>1, <1>2, <1>3 DEF RowSound, AllTexts, ClosingKinds
<1>6. edits \in [Edits -> Statuses]
  BY <1>1 DEF Statuses
<1>7. ActiveMovesTogether /\ document \in Files
  <2>1. {w \in versions : w.file # NoFile} = {v}
    BY <1>1, <1>2, <1>3
  <2>2. Newest({v}) = v
    <3>1. v \in versions /\ \A w \in versions : w = v
      BY <1>1
    <3>2. \A w \in versions : w.number <= v.number
      <4>1. v.number <= v.number
        <5>1. v.number = 1
          BY <1>2
        <5>2. 1 <= 1
          OBVIOUS
        <5> QED BY <5>1, <5>2
      <4> QED BY <3>1, <4>1, Zenon
    <3>3. versions \in SUBSET versions
      OBVIOUS
    <3>4. Newest(versions) = v
      BY <1>4, <3>1, <3>2, <3>3, NewestUnique
    <3> QED BY <1>1, <3>4
  <2> QED BY <1>1, <1>2, <1>3, <2>1, <2>2 DEF ActiveMovesTogether
<1>8. Authored
  BY <1>1, <1>2 DEF Authored
<1>9. Closed
  BY <1>1, <1>2 DEF Closed, Proposals, ClosingKinds
<1>10. \A r \in Editors : req[r].pc = "idle" /\ req[r] = Idle /\ req[r].op = "none"
  BY <1>1 DEF Idle
<1>11. \A r \in Editors : ReqSound(req[r])
  BY <1>10 DEF ReqSound, IsReq, Idle, Locked
<1>12. Separate
  BY <1>10 DEF Separate, Locked
<1>13. draft.text \in AllTexts
  BY <1>1 DEF NoDraft, AllTexts
<1> QED BY <1>1, <1>4, <1>5, <1>6, <1>7, <1>8, <1>9, <1>11, <1>12, <1>13 DEF DocInv

\* A request is judged by the history, the statuses and the document row.
LEMMA SameSound ==
  ASSUME NEW q, ReqSound(q), UNCHANGED <<versions, edits, document, body>>
  PROVE  ReqSound(q)'
<1>1. Latest' = Latest /\ Proposals' = Proposals /\ TextVersions' = TextVersions
  BY DEF Latest, Proposals, TextVersions
<1>2. BaseText' = BaseText
  BY <1>1 DEF BaseText, Newest
<1>3. Closings(q.of)' = Closings(q.of) /\ PendingOf(q.of)' = PendingOf(q.of)
  BY DEF Closings, PendingOf, EditsOf
<1>4. NewVersionSound(q) => NewVersionSound(q)'
  BY <1>1, <1>3 DEF NewVersionSound
<1> QED BY <1>1, <1>2, <1>3, <1>4 DEF ReqSound, Locked, IsReq

LEMMA SameRows ==
  ASSUME DocInv, UNCHANGED <<versions, edits, document, body>>
  PROVE  /\ Numbered' /\ (\A v \in versions : RowSound(v))' /\ (edits \in [Edits -> Statuses])'
         /\ (document \in Files)' /\ ActiveMovesTogether' /\ Closed'
<1>1. Latest' = Latest /\ Proposals' = Proposals /\ TextVersions' = TextVersions
  BY DEF Latest, Proposals, TextVersions
<1>2. ASSUME NEW v \in versions PROVE RowSound(v)'
  <2>1. RowSound(v)
    BY DEF DocInv
  <2>2. Continues(v) => Continues(v)'
    BY <1>1 DEF Continues, Newest
  <2> QED BY <1>1, <2>1, <2>2 DEF RowSound
<1>3. Closed'
  <2>1. Closed
    BY DEF DocInv
  <2>2. \A v \in versions : EditsOf(v.by)' = EditsOf(v.by) /\ PendingOf(v.by)' = PendingOf(v.by)
    BY DEF EditsOf, PendingOf
  <2> QED BY <1>1, <2>1, <2>2 DEF Closed, Proposals
<1>4. ActiveMovesTogether'
  BY DEF DocInv, ActiveMovesTogether, Newest
<1>5. Numbered'
  BY DEF DocInv, Numbered
<1> QED BY <1>2, <1>3, <1>4, <1>5 DEF DocInv

LEMMA StepKeeps ==
  ASSUME DocInv, NEW r \in Editors, NEW q, req' = [req EXCEPT ![r] = q],
         UNCHANGED <<versions, edits, document, body>>, draft'.text \in AllTexts,
         req[r].pc = "done" => q.pc = "done", ReqSound(q),
         Locked(q) => \A b \in Editors \ {r} : Locked(req[b]) => req[b].of # q.of
  PROVE  DocInv'
<1>1. /\ req' = [b \in Editors |-> req'[b]] /\ req'[r] = q
      /\ \A b \in Editors \ {r} : req'[b] = req[b]
  BY DEF DocInv
<1>2. ASSUME NEW b \in Editors PROVE ReqSound(req[b])'
  <2>1. PICK t : t = req'[b] /\ ReqSound(t)
    BY <1>1 DEF DocInv
  <2>2. ReqSound(t)'
    BY <2>1, SameSound
  <2> QED BY <2>1, <2>2
<1>3. Separate'
  <2>1. Separate
    BY DEF DocInv
  <2> QED BY <1>1, <2>1 DEF Separate, Locked
<1>4. Authored'
  <2>1. Authored
    BY DEF DocInv
  <2>2. \A b \in Editors : req[b].pc = "done" => req'[b].pc = "done"
    BY <1>1
  <2>3. \A e \in Edits : e[1] \in Editors
    BY DEF Edits
  <2> QED BY <2>1, <2>2, <2>3 DEF Authored
<1>5. (\A b \in Editors : ReqSound(req[b]))'
  BY <1>2
<1> QED BY <1>1, <1>3, <1>4, <1>5, SameRows DEF DocInv

\* A request that starts.
LEMMA BeginKeeps ==
  ASSUME DocInv, NEW r \in Editors, NEW q, Begin(r, q), ReqSound(q), q.pc \in {"number", "write", "lock", "write_draft"},
         ~ Locked(q)
  PROVE  DocInv'
<1>1. /\ req[r].pc = "idle" /\ req' = [req EXCEPT ![r] = q]
      /\ UNCHANGED <<versions, edits, document, body, draft>>
  BY DEF Begin
<1>2. draft'.text \in AllTexts
  BY <1>1 DEF DocInv
<1> QED BY <1>1, <1>2, StepKeeps

\* A request that starts with a version to number.
LEMMA NumberSound ==
  ASSUME NEW q, IsReq(q), q.pc = "number", q.op \notin ResolveOps, NewVersionSound(q)
  PROVE  ReqSound(q) /\ ~ Locked(q)
  BY DEF ReqSound, Locked

LEMMA UserEditKeeps ==
  ASSUME DocInv, NEW r \in Editors, NEW op \in {"save", "commit_draft"}, NEW text \in AllTexts,
         NEW clear, CreateUserEdit(r, op, text, clear)
  PROVE  DocInv'
<1>1. PICK q : q = [Idle EXCEPT !.op = op, !.pc = "number", !.text = text, !.clear = clear]
  OBVIOUS
<1>2. /\ IsReq(q) /\ q.pc = "number" /\ q.op = op /\ q.text = text /\ q.staged = {}
      /\ q.file = NoFile
  BY <1>1 DEF Idle, IsReq
<1>3. q.op \notin ResolveOps /\ NewVersionSound(q)
  BY <1>2 DEF ResolveOps, NewVersionSound
<1> QED BY <1>1, <1>2, <1>3, NumberSound, BeginKeeps DEF CreateUserEdit

LEMMA SavesKeep ==
  ASSUME DocInv, NEW r \in Editors, SaveManual(r) \/ SaveWorkspace(r) \/ CommitDraft(r)
  PROVE  DocInv'
<1>1. CASE SaveManual(r) \/ SaveWorkspace(r)
  <2>1. TextOf(r) \in AllTexts
    BY FileTexts DEF AllTexts
  <2> QED BY <1>1, <2>1, UserEditKeeps DEF SaveManual, SaveWorkspace
<1>2. CASE CommitDraft(r)
  <2>1. PICK clear : CreateUserEdit(r, "commit_draft", draft.text, clear)
    BY <1>2 DEF CommitDraft
  <2>2. draft.text \in AllTexts
    BY DEF DocInv
  <2>3. PICK text : text = draft.text
    OBVIOUS
  <2> QED BY <2>1, <2>2, <2>3, UserEditKeeps
<1> QED BY <1>1, <1>2

LEMMA ProposeKeeps ==
  ASSUME DocInv, NEW r \in Editors, Propose(r)
  PROVE  DocInv'
<1>1. PICK q : q = [Idle EXCEPT !.op = "propose", !.pc = "number"]
  OBVIOUS
<1>2. /\ IsReq(q) /\ q.pc = "number" /\ q.op = "propose" /\ q.text = NoText /\ q.staged = {}
      /\ q.file = NoFile
  BY <1>1 DEF Idle, IsReq
<1>3. q.op \notin ResolveOps /\ NewVersionSound(q)
  BY <1>2 DEF ResolveOps, NewVersionSound, AllTexts
<1> QED BY <1>1, <1>2, <1>3, NumberSound, BeginKeeps DEF Propose

LEMMA FileKeeps ==
  ASSUME DocInv, NEW r \in Editors, NEW op \in {"upload", "restore"}, NEW f \in Files,
         Begin(r, [Idle EXCEPT !.op = op, !.pc = "number", !.text = Extract(f), !.file = f])
  PROVE  DocInv'
<1>1. PICK q : q = [Idle EXCEPT !.op = op, !.pc = "number", !.text = Extract(f), !.file = f]
  OBVIOUS
<1>2. /\ IsReq(q) /\ q.pc = "number" /\ q.op = op /\ q.text = Extract(f) /\ q.staged = {}
      /\ q.file = f
  BY <1>1 DEF Idle, IsReq
<1>3. q.op \notin ResolveOps /\ NewVersionSound(q)
  BY <1>2, ExtractIs DEF ResolveOps, NewVersionSound
<1> QED BY <1>1, <1>2, <1>3, NumberSound, BeginKeeps

LEMMA UploadKeeps ==
  ASSUME DocInv, NEW r \in Editors, Upload(r)
  PROVE  DocInv'
<1>1. PICK readable \in BOOLEAN : LET f == FileOf(r, readable) IN
         Begin(r, [Idle EXCEPT !.op = "upload", !.pc = "number", !.text = Extract(f), !.file = f])
  BY DEF Upload
<1>2. PICK f : f = FileOf(r, readable) /\ f \in Files
  BY FileTexts
<1> QED BY <1>1, <1>2, FileKeeps

LEMMA RestoreKeeps ==
  ASSUME DocInv, NEW r \in Editors, Restore(r)
  PROVE  DocInv'
<1>1. PICK v \in versions :
        /\ Restorable(v)
        /\ Begin(r, [Idle EXCEPT !.op = "restore", !.pc = "number", !.text = RestoredText(v),
                                 !.file = RestoredFile(v)])
  BY DEF Restore
<1>2. PICK f : f = RestoredFile(v) /\ RestoredText(v) = IF f.readable THEN Extract(f) ELSE v.text
  BY DEF RestoredText
<1>3. RowSound(v)
  BY DEF DocInv
<1>4. f \in Files /\ (~ f.readable => v.text = NoText)
  <2>1. CASE v.file # NoFile
    BY <1>2, <1>3, <2>1 DEF RowSound, RestoredFile
  <2>2. CASE v.file = NoFile
    <3>1. v.text \in Texts
      BY <1>1, <1>3, <2>2 DEF RowSound, AllTexts, Restorable
    <3> QED BY <1>2, <2>2, <3>1 DEF Files, RestoredFile
  <2> QED BY <2>1, <2>2
<1>5. Begin(r, [Idle EXCEPT !.op = "restore", !.pc = "number", !.text = Extract(f), !.file = f])
  <2>1. (IF f.readable THEN Extract(f) ELSE v.text) = Extract(f)
    BY <1>4, ExtractIs
  <2> QED BY <1>1, <1>2, <2>1
<1> QED BY <1>4, <1>5, FileKeeps

\* A replica copies the active file.
LEMMA ReplicateKeeps ==
  ASSUME DocInv, NEW r \in Editors, Replicate(r)
  PROVE  DocInv'
<1>1. PICK v : v = Newest(versions)
  OBVIOUS
<1>2. PICK f : f = IF v.file # NoFile THEN v.file ELSE document
  OBVIOUS
<1>3. PICK q : q = [Idle EXCEPT !.op = "replicate", !.pc = "write", !.num = v.number + 1, !.file = f]
  OBVIOUS
<1>4. Begin(r, q)
  BY <1>1, <1>2, <1>3 DEF Replicate
<1>5. Numbered
  BY DEF DocInv
<1>6. versions # {} /\ versions \in SUBSET versions
  <2>1. 1 \in {w.number : w \in versions}
    BY <1>5, LatestIs
  <2> QED BY <2>1
<1>7. v \in versions /\ \A w \in versions : w.number <= v.number
  BY <1>1, <1>5, <1>6, NewestIs
<1>8. v.number = Latest
  <2>1. PICK w \in versions : w.number = Latest
    BY <1>5, LatestIs
  <2> QED BY <1>5, <1>7, <2>1, LatestIs
<1>9. f = document /\ document \in Files
  <2>1. CASE v.file # NoFile
    <3>1. v \in WithFile /\ WithFile \in SUBSET versions /\ \A w \in WithFile : w.number <= v.number
      BY <1>7, <2>1 DEF WithFile
    <3>2. Newest(WithFile) = v
      BY <1>5, <3>1, NewestUnique
    <3> QED BY <1>2, <2>1, <3>2 DEF DocInv, ActiveMovesTogether, WithFile
  <2>2. CASE v.file = NoFile
    BY <1>2, <2>2 DEF DocInv
  <2> QED BY <2>1, <2>2
<1>10. /\ IsReq(q) /\ q.pc = "write" /\ q.op = "replicate" /\ q.text = NoText /\ q.staged = {}
       /\ q.file = f /\ q.num = Latest + 1
  BY <1>3, <1>8 DEF Idle, IsReq
<1>11. NewVersionSound(q)
  BY <1>9, <1>10 DEF NewVersionSound, AllTexts, ResolveOps
<1>12. q.num \in 1..(Latest + 1)
  BY <1>5, <1>10, LatestIs
<1>13. ReqSound(q) /\ ~ Locked(q)
  BY <1>10, <1>11, <1>12 DEF ReqSound, Locked, ResolveOps
<1> QED BY <1>4, <1>10, <1>13, BeginKeeps

LEMMA LoadDraftKeeps ==
  ASSUME DocInv, NEW r \in Editors, LoadDraft(r)
  PROVE  DocInv'
<1>1. PICK q : q = [Idle EXCEPT !.op = "put_draft", !.pc = "write_draft", !.seen = draft]
  OBVIOUS
<1>2. IsReq(q) /\ q.pc = "write_draft" /\ q.op = "put_draft"
  BY <1>1 DEF Idle, IsReq
<1>3. ReqSound(q) /\ ~ Locked(q)
  BY <1>2 DEF ReqSound, Locked, ResolveOps
<1> QED BY <1>1, <1>2, <1>3, BeginKeeps DEF LoadDraft

LEMMA ResolveKeeps ==
  ASSUME DocInv, NEW r \in Editors, ResolveOne(r) \/ ResolveAll(r)
  PROVE  DocInv'
<1>1. PICK q : /\ Begin(r, q) /\ IsReq(q) /\ q.pc = "lock" /\ q.op \in ResolveOps
               /\ q.file = NoFile /\ \E v \in Proposals : v.by = q.of
  <2>1. CASE ResolveOne(r)
    <3>1. PICK v \in Proposals, op \in {"accept", "reject"}, e \in Edits :
            Begin(r, [Idle EXCEPT !.op = op, !.pc = "lock", !.of = v.by, !.staged = {e}])
      BY <2>1 DEF ResolveOne, EditsOf
    <3>2. PICK q : q = [Idle EXCEPT !.op = op, !.pc = "lock", !.of = v.by, !.staged = {e}]
      OBVIOUS
    <3>3. IsReq(q) /\ q.pc = "lock" /\ q.op \in ResolveOps /\ q.of = v.by /\ q.file = NoFile
      BY <3>2 DEF Idle, IsReq, ResolveOps
    <3> QED BY <3>1, <3>2, <3>3
  <2>2. CASE ResolveAll(r)
    <3>1. PICK v \in Proposals, op \in {"accept_all", "reject_all"} :
            Begin(r, [Idle EXCEPT !.op = op, !.pc = "lock", !.of = v.by])
      BY <2>2 DEF ResolveAll
    <3>2. PICK q : q = [Idle EXCEPT !.op = op, !.pc = "lock", !.of = v.by]
      OBVIOUS
    <3>3. IsReq(q) /\ q.pc = "lock" /\ q.op \in ResolveOps /\ q.of = v.by /\ q.file = NoFile
      BY <3>2 DEF Idle, IsReq, ResolveOps
    <3> QED BY <3>1, <3>2, <3>3
  <2> QED BY <2>1, <2>2
<1>2. ReqSound(q) /\ ~ Locked(q)
  BY <1>1 DEF ReqSound, Locked
<1> QED BY <1>1, <1>2, BeginKeeps
-----------------------------------------------------------------------------
(* What a request reads.                                                   *)

LEMMA ReadNumberKeeps ==
  ASSUME DocInv, NEW r \in Editors, ReadNumber(r)
  PROVE  DocInv'
<1>1. PICK q0 : q0 = req[r] /\ ReqSound(q0) /\ q0.pc = "number"
  BY DEF DocInv, ReadNumber
<1>2. PICK n : n = Latest + 1 /\ n \in 1..(Latest + 1)
  BY LatestIs DEF DocInv
<1>3. PICK q : q = [q0 EXCEPT !.pc = "write", !.num = n]
  OBVIOUS
<1>4. req' = [req EXCEPT ![r] = q] /\ UNCHANGED <<versions, edits, document, body, draft>>
  <2>1. req' = [req EXCEPT ![r].pc = "write", ![r].num = n]
    BY <1>2 DEF ReadNumber
  <2>2. UNCHANGED <<versions, edits, document, body, draft>>
    BY DEF ReadNumber
  <2> QED BY <1>1, <1>3, <2>1, <2>2 DEF DocInv
<1>5. /\ IsReq(q) /\ q.pc = "write" /\ q.num = n /\ q.op = q0.op /\ q.of = q0.of /\ q.text = q0.text
      /\ q.file = q0.file /\ q.staged = q0.staged
  BY <1>1, <1>3 DEF ReqSound, IsReq
<1>6. NewVersionSound(q0) /\ q0.op # "replicate"
  BY <1>1 DEF ReqSound, NewVersionSound
<1>7. NewVersionSound(q)
  BY <1>5, <1>6 DEF NewVersionSound
<1>8. (Locked(q) <=> Locked(q0))
  BY <1>1, <1>5 DEF Locked
<1>9. ReqSound(q)
  BY <1>1, <1>2, <1>5, <1>7, <1>8 DEF ReqSound
<1>10. Locked(q) => \A b \in Editors \ {r} : Locked(req[b]) => req[b].of # q.of
  BY <1>1, <1>5, <1>8 DEF DocInv, Separate
<1>11. draft'.text \in AllTexts
  BY <1>4 DEF DocInv
<1> QED BY <1>1, <1>4, <1>9, <1>10, <1>11, StepKeeps

\* A request that fails holds nothing.
LEMMA EndKeeps ==
  ASSUME DocInv, NEW r \in Editors, NEW pc \in {"failed", "done"}, Step(r, pc), req[r].pc # "done",
         UNCHANGED <<versions, edits, document, body>>, draft'.text \in AllTexts
  PROVE  DocInv'
<1>1. PICK q0 : q0 = req[r] /\ IsReq(q0)
  BY DEF DocInv, ReqSound
<1>2. PICK q : q = [q0 EXCEPT !.pc = pc]
  OBVIOUS
<1>3. req' = [req EXCEPT ![r] = q]
  BY <1>1, <1>2 DEF Step, DocInv
<1>4. IsReq(q) /\ q.pc = pc
  BY <1>1, <1>2 DEF IsReq
<1>5. ReqSound(q) /\ ~ Locked(q)
  BY <1>4 DEF ReqSound, Locked
<1> QED BY <1>3, <1>4, <1>5, StepKeeps

LEMMA EndsKeep ==
  ASSUME DocInv, NEW r \in Editors,
         Conflict(r) \/ WriteDraft(r) \/ DraftConflict(r) \/ DocAbort(r)
  PROVE  DocInv'
<1>1. CASE WriteDraft(r)
  <2>1. draft'.text \in AllTexts
    <3>1. draft' = [counter |-> req[r].seen.counter + 1, text |-> TextOf(r)]
      BY <1>1 DEF WriteDraft
    <3>2. TextOf(r) \in AllTexts
      BY FileTexts DEF AllTexts
    <3> QED BY <3>1, <3>2
  <2> QED BY <1>1, <2>1, EndKeeps DEF WriteDraft
<1>2. CASE Conflict(r) \/ DraftConflict(r) \/ DocAbort(r)
  <2>1. draft'.text \in AllTexts
    BY <1>2 DEF Conflict, DraftConflict, DocAbort, DocInv
  <2> QED BY <1>2, <2>1, EndKeeps DEF Conflict, DraftConflict, DocAbort
<1> QED BY <1>1, <1>2

\* Past the lock a request is alone with its proposal.
LEMMA MarkKeeps ==
  ASSUME DocInv, NEW r \in Editors, MarkEdits(r)
  PROVE  DocInv'
<1>1. PICK q0 : q0 = req[r] /\ ReqSound(q0) /\ q0.pc = "lock"
  BY DEF DocInv, MarkEdits
<1>2. q0.op \in ResolveOps /\ q0.file = NoFile /\ \E v \in Proposals : v.by = q0.of
  BY <1>1 DEF ReqSound
<1>3. PICK hit : hit = IF q0.op \in {"accept", "reject"} THEN q0.staged \cap PendingOf(q0.of)
                       ELSE PendingOf(q0.of)
  OBVIOUS
<1>4. hit \subseteq PendingOf(q0.of)
  BY <1>3
<1>5. PICK pc : pc = IF q0.op \in {"accept", "reject"} /\ hit = {} THEN "failed"
                     ELSE IF PendingOf(q0.of) \ hit # {} THEN "commit"
                     ELSE "latest"
  OBVIOUS
<1>6. PICK q : q = [q0 EXCEPT !.staged = hit, !.pc = pc]
  OBVIOUS
<1>7. /\ req' = [req EXCEPT ![r] = q] /\ VersionLockFree(q0.of)
      /\ UNCHANGED <<versions, edits, document, body, draft>>
  <2>1. req' = [req EXCEPT ![r].staged = hit, ![r].pc = pc]
    BY <1>1, <1>3, <1>5 DEF MarkEdits
  <2>2. VersionLockFree(q0.of) /\ UNCHANGED <<versions, edits, document, body, draft>>
    BY <1>1 DEF MarkEdits
  <2> QED BY <1>1, <1>6, <2>1, <2>2 DEF DocInv
<1>8. /\ IsReq(q) /\ q.pc = pc /\ q.op = q0.op /\ q.of = q0.of /\ q.staged = hit
      /\ q.file = q0.file
  BY <1>1, <1>6 DEF ReqSound, IsReq
<1>9. pc \in {"failed", "latest", "commit"} /\ (pc = "commit" => PendingOf(q0.of) \ hit # {})
  BY <1>5
<1>10. ReqSound(q)
  BY <1>2, <1>4, <1>8, <1>9 DEF ReqSound
<1>11. \A b \in Editors : Locked(req[b]) => req[b].of # q0.of
  BY <1>7 DEF VersionLockFree, Locked
<1>12. draft'.text \in AllTexts
  BY <1>7 DEF DocInv
<1> QED BY <1>1, <1>7, <1>8, <1>10, <1>11, <1>12, StepKeeps

\* A proposal is the one version of its request.
LEMMA NumberOfIs ==
  ASSUME DocInv, NEW v \in Proposals
  PROVE  NumberOf(v.by) = v.number
<1>1. PICK u : u = CHOOSE w \in Proposals : w.by = v.by
  OBVIOUS
<1>2. u \in Proposals /\ u.by = v.by
  BY <1>1
<1>3. u \in versions /\ v \in versions
  BY <1>2 DEF Proposals
<1>4. u = v
  BY <1>2, <1>3 DEF DocInv, Authored
<1> QED BY <1>1, <1>4 DEF NumberOf

LEMMA BaseTextIs ==
  ASSUME DocInv
  PROVE  /\ BaseText \in AllTexts \ {NoText}
         /\ TextVersions # {} => BaseText = Newest(TextVersions).text
<1>1. CASE TextVersions # {}
  <2>1. Newest(TextVersions) \in TextVersions
    BY <1>1, NewestIs DEF DocInv, TextVersions
  <2>2. BaseText = Newest(TextVersions).text
    BY <1>1 DEF BaseText
  <2>3. \A v \in TextVersions : v.text \in AllTexts \ {NoText}
    BY DEF TextVersions, DocInv, RowSound
  <2> QED BY <2>1, <2>2, <2>3
<1>2. CASE TextVersions = {}
  <2>1. body \in AllTexts
    BY ExtractIs DEF DocInv, ActiveMovesTogether
  <2> QED BY <1>2, <2>1, TextKinds DEF BaseText, AllTexts
<1> QED BY <1>1, <1>2

\* The re-entrancy guard: a request goes on to close a proposal that is the
\* newest version, and so has not been closed.
LEMMA ReadLatestKeeps ==
  ASSUME DocInv, NEW r \in Editors, ReadLatest(r)
  PROVE  DocInv'
<1>1. PICK q0 : q0 = req[r] /\ ReqSound(q0) /\ q0.pc = "latest"
  BY DEF DocInv, ReadLatest
<1>2. q0.op \in ResolveOps /\ q0.staged \subseteq PendingOf(q0.of) /\ q0.file = NoFile
  BY <1>1 DEF ReqSound, Locked
<1>3. PICK v \in Proposals : v.by = q0.of /\ NumberOf(q0.of) = v.number
  <2>1. PICK v \in Proposals : v.by = q0.of
    BY <1>1, <1>2 DEF ReqSound
  <2> QED BY <2>1, NumberOfIs
<1>4. \A u \in Proposals : u.by = q0.of => u.number = v.number
  BY <1>3, NumberOfIs
<1>5. PICK bulk : bulk = (q0.op \in {"accept_all", "reject_all"})
  OBVIOUS
<1>6. PICK newer : newer = (Latest > NumberOf(q0.of))
  OBVIOUS
<1>7. PICK pc : pc = IF ~ newer THEN "base"
                     ELSE IF bulk /\ TextVersions = {} THEN "number"
                     ELSE "commit"
  OBVIOUS
<1>8. PICK text : text = IF newer /\ bulk THEN BaseText ELSE NoText
  OBVIOUS
<1>9. PICK n : n = Latest + 1
  OBVIOUS
<1>10. PICK q : q = [q0 EXCEPT !.num = n, !.pc = pc, !.text = text]
  OBVIOUS
<1>11. req' = [req EXCEPT ![r] = q] /\ UNCHANGED <<versions, edits, document, body, draft>>
  <2>1. req' = [req EXCEPT ![r].num = n, ![r].pc = pc, ![r].text = text]
    BY <1>1, <1>5, <1>6, <1>7, <1>8, <1>9 DEF ReadLatest
  <2>2. UNCHANGED <<versions, edits, document, body, draft>>
    BY DEF ReadLatest
  <2> QED BY <1>1, <1>10, <2>1, <2>2 DEF DocInv
<1>12. /\ IsReq(q) /\ q.pc = pc /\ q.op = q0.op /\ q.of = q0.of /\ q.staged = q0.staged
       /\ q.num = n /\ q.text = text /\ q.file = q0.file
  BY <1>1, <1>10 DEF ReqSound, IsReq
<1>13. Latest \in Nat \ {0} /\ \A w \in versions : w.number \in 1..Latest
  BY LatestIs DEF DocInv
<1>14. v \in versions /\ v.number \in 1..Latest
  BY <1>13 DEF Proposals
<1>15. ASSUME NEW w \in Closings(q0.of)
       PROVE  w.text # NoText /\ v.number < w.number /\ w \in versions
  <2>1. w \in versions /\ w.kind \in ClosingKinds /\ w.of = q0.of
    BY DEF Closings
  <2>2. w.text # NoText /\ \E u \in Proposals : u.by = w.of /\ u.number < w.number
    BY <2>1 DEF DocInv, RowSound
  <2> QED BY <1>4, <2>1, <2>2
<1>16. TextVersions = {} => Closings(q0.of) = {}
  BY <1>15 DEF TextVersions
<1>17. ~ newer => Closings(q0.of) = {}
  <2> SUFFICES ASSUME ~ newer, NEW w \in Closings(q0.of) PROVE FALSE
    OBVIOUS
  <2>1. w.number \in 1..Latest /\ v.number < w.number
    BY <1>13, <1>15
  <2>2. ~ (Latest > v.number)
    BY <1>3, <1>6
  <2> QED BY <1>13, <1>14, <2>1, <2>2
<1>18. ReqSound(q)
  <2>1. CASE pc = "base"
    <3>1. ~ newer
      BY <1>7, <2>1
    <3>2. n \in 1..(Latest + 1)
      BY <1>9, <1>13
    <3> QED BY <1>2, <1>3, <1>12, <1>17, <2>1, <3>1, <3>2 DEF ReqSound
  <2>2. CASE pc = "number"
    <3>1. newer /\ bulk /\ TextVersions = {}
      BY <1>7, <2>2
    <3>2. text = BaseText /\ text \in AllTexts /\ text # NoText
      BY <1>8, <3>1, BaseTextIs
    <3>3. q.op \in {"accept_all", "reject_all"}
      BY <1>5, <1>12, <3>1
    <3>4. q.file = NoFile
      BY <1>2, <1>12
    <3>5. NewVersionSound(q)
      BY <1>2, <1>12, <1>16, <2>2, <3>1, <3>2, <3>3, <3>4 DEF NewVersionSound
    <3> QED BY <1>2, <1>3, <1>12, <2>2, <3>5 DEF ReqSound
  <2>3. CASE pc = "commit"
    <3>1. newer
      BY <1>7, <2>3
    <3>2. \A u \in Proposals : u.by = q.of => u.number < Latest
      BY <1>3, <1>4, <1>6, <1>12, <1>13, <1>14, <3>1
    <3> QED BY <1>2, <1>3, <1>12, <2>3, <3>2 DEF ReqSound
  <2> QED BY <1>7, <2>1, <2>2, <2>3
<1>19. \A b \in Editors \ {r} : Locked(req[b]) => req[b].of # q.of
  BY <1>1, <1>2, <1>12 DEF DocInv, Separate, Locked
<1>20. draft'.text \in AllTexts
  BY <1>11 DEF DocInv
<1> QED BY <1>1, <1>11, <1>18, <1>19, <1>20, StepKeeps

LEMMA ReadBaseKeeps ==
  ASSUME DocInv, NEW r \in Editors, ReadBase(r)
  PROVE  DocInv'
<1>1. PICK q0 : q0 = req[r] /\ ReqSound(q0) /\ q0.pc = "base"
  BY DEF DocInv, ReadBase
<1>2. PICK text : text = BaseText /\ text \in AllTexts \ {NoText}
  BY BaseTextIs
<1>3. PICK q : q = [q0 EXCEPT !.pc = "close", !.text = text]
  OBVIOUS
<1>4. req' = [req EXCEPT ![r] = q] /\ UNCHANGED <<versions, edits, document, body, draft>>
  <2>1. req' = [req EXCEPT ![r].pc = "close", ![r].text = text]
    BY <1>2 DEF ReadBase
  <2>2. UNCHANGED <<versions, edits, document, body, draft>>
    BY DEF ReadBase
  <2> QED BY <1>1, <1>3, <2>1, <2>2 DEF DocInv
<1>5. /\ IsReq(q) /\ q.pc = "close" /\ q.op = q0.op /\ q.of = q0.of /\ q.staged = q0.staged
      /\ q.num = q0.num /\ q.text = text /\ q.file = q0.file
  BY <1>1, <1>3 DEF ReqSound, IsReq
<1>6. ReqSound(q)
  BY <1>1, <1>2, <1>5 DEF ReqSound, Locked
<1>7. \A b \in Editors \ {r} : Locked(req[b]) /\ Locked(q) => req[b].of # q.of
  BY <1>1, <1>5 DEF DocInv, Separate, Locked
<1>8. draft'.text \in AllTexts
  BY <1>4 DEF DocInv
<1> QED BY <1>1, <1>4, <1>6, <1>7, <1>8, StepKeeps
-----------------------------------------------------------------------------
(* Steps that write the history.                                           *)

LEMMA NewestOf ==
  ASSUME NEW V, NEW v \in V, \A w \in V : w.number \in Nat /\ w.number <= v.number,
         \A u, w \in V : u.number = w.number => u = w
  PROVE  Newest(V) = v
<1>1. PICK u : u = Newest(V) /\ u \in V /\ \A w \in V : w.number <= u.number
  BY DEF Newest
<1>2. u.number = v.number
  BY <1>1
<1> QED BY <1>1, <1>2

\* The other requests: what a step adds is not of the proposal they hold, and
\* a number they may still write is stale.
LEMMA OthersStay ==
  ASSUME DocInv, NEW r \in Editors, NEW b \in Editors \ {r}, req[r].pc # "done",
         versions \subseteq versions',
         \/ UNCHANGED <<versions, document, body>>
         \/ Latest' = Latest + 1,
         \A x \in versions' \ versions :
            x.by = r /\ (x.kind \in ClosingKinds => Locked(req[r]) /\ x.of = req[r].of),
         \A p : p # r /\ (Locked(req[r]) => p # req[r].of) => PendingOf(p)' = PendingOf(p),
         NEW t, t = req[b]
  PROVE  ReqSound(t)'
<1>1. ReqSound(t)
  BY DEF DocInv
<1>2. Latest \in Nat \ {0} /\ (Latest' = Latest \/ Latest' = Latest + 1)
  BY LatestIs DEF DocInv, Latest
<1>3. Proposals \subseteq Proposals' /\ \A v \in Proposals' \ Proposals : v.by = r
  BY DEF Proposals
<1>4. Locked(t) => t.of # r /\ (Locked(req[r]) => t.of # req[r].of)
  <2> SUFFICES ASSUME Locked(t) PROVE t.of # r /\ (Locked(req[r]) => t.of # req[r].of)
    OBVIOUS
  <2>1. PICK v \in Proposals : v.by = t.of
    BY <1>1 DEF ReqSound, Locked
  <2>2. v.by = Original \/ req[v.by].pc = "done"
    BY DEF DocInv, Authored, Proposals
  <2>3. v.by # r
    BY <2>2, DocumentAssumption
  <2> QED BY <2>1, <2>3 DEF DocInv, Separate
<1>5. Locked(t) => PendingOf(t.of)' = PendingOf(t.of) /\ Closings(t.of)' = Closings(t.of)
  <2> SUFFICES ASSUME Locked(t) PROVE PendingOf(t.of)' = PendingOf(t.of) /\ Closings(t.of)' = Closings(t.of)
    OBVIOUS
  <2>1. PendingOf(t.of)' = PendingOf(t.of)
    BY <1>4
  <2>2. \A x \in versions' \ versions : ~ (x.kind \in ClosingKinds /\ x.of = t.of)
    BY <1>4
  <2> QED BY <2>1, <2>2 DEF Closings
<1>6. t.pc \in {"write", "close"} /\ t.num = Latest' + 1 => UNCHANGED <<versions, document, body>>
  <2>1. t.pc \in {"write", "close"} => t.num \in 1..(Latest + 1)
    BY <1>1 DEF ReqSound
  <2> QED BY <1>2, <2>1
<1>7. UNCHANGED <<versions, document, body>> => BaseText' = BaseText /\ Latest' = Latest
  BY DEF BaseText, TextVersions, Newest, Latest
<1>8. t.pc \in {"number", "write"} => NewVersionSound(t)'
  <2> SUFFICES ASSUME t.pc \in {"number", "write"} PROVE NewVersionSound(t)'
    OBVIOUS
  <2>1. NewVersionSound(t)
    BY <1>1 DEF ReqSound
  <2>2. t.op = "replicate" /\ t.num = Latest' + 1 => t.file = document'
    BY <1>6, <1>7, <2>1 DEF NewVersionSound
  <2>3. t.op \in ResolveOps => Closings(t.of)' = {}
    BY <1>5, <2>1 DEF NewVersionSound, Locked
  <2> QED BY <2>1, <2>2, <2>3 DEF NewVersionSound
<1>9. t.pc \in {"write", "base", "close"} => t.num \in 1..(Latest' + 1)
  BY <1>1, <1>2 DEF ReqSound
<1>10. t.pc = "close" /\ t.num = Latest' + 1 => t.text = BaseText'
  BY <1>1, <1>6, <1>7 DEF ReqSound
<1>11. t.pc = "commit" => \/ PendingOf(t.of)' \ t.staged # {}
                          \/ \A v \in Proposals' : v.by = t.of => v.number < Latest'
  <2> SUFFICES ASSUME t.pc = "commit", ~ (PendingOf(t.of)' \ t.staged # {}),
                      NEW v \in Proposals', v.by = t.of
               PROVE  v.number < Latest'
    OBVIOUS
  <2>1. Locked(t)
    BY <1>1 DEF ReqSound, Locked
  <2>2. v \in Proposals
    BY <1>3, <1>4, <2>1
  <2>3. v.number < Latest
    BY <1>1, <1>5, <2>1, <2>2 DEF ReqSound
  <2>4. v.number \in Nat
    BY <2>2, LatestIs DEF DocInv, Proposals
  <2> QED BY <1>2, <2>3, <2>4
<1>12. t.pc \in {"base", "close"} => Closings(t.of)' = {}
  BY <1>1, <1>5 DEF ReqSound, Locked
<1>13. Locked(t) => t.staged \subseteq PendingOf(t.of)'
  BY <1>1, <1>5 DEF ReqSound
<1>14. t.op \in ResolveOps /\ t.pc \notin {"idle", "done", "failed"} =>
          t.file = NoFile /\ \E v \in Proposals' : v.by = t.of
  BY <1>1, <1>3 DEF ReqSound
<1> QED BY <1>1, <1>8, <1>9, <1>10, <1>11, <1>12, <1>13, <1>14 DEF ReqSound, Locked, IsReq

\* The step of one request that writes, as a whole.
LEMMA HistoryKeeps ==
  ASSUME DocInv, NEW r \in Editors, req[r].pc # "done", Step(r, "done"),
         versions \subseteq versions',
         \A x, y \in versions' \ versions : x = y,
         \/ UNCHANGED <<versions, document, body>>
         \/ Latest' = Latest + 1,
         \A x \in versions' \ versions :
            x.by = r /\ (x.kind \in ClosingKinds => Locked(req[r]) /\ x.of = req[r].of),
         \A p : p # r /\ (Locked(req[r]) => p # req[r].of) => PendingOf(p)' = PendingOf(p),
         \A e \in Edits : edits'[e] # "none" => edits[e] # "none" \/ e[1] = r,
         Numbered', \A v \in versions' : RowSound(v)', edits' \in [Edits -> Statuses],
         document' \in Files, ActiveMovesTogether', draft'.text \in AllTexts, Closed'
  PROVE  DocInv'
<1>1. PICK q0 : q0 = req[r] /\ IsReq(q0)
  BY DEF DocInv, ReqSound
<1>2. PICK q : q = [q0 EXCEPT !.pc = "done"]
  OBVIOUS
<1>3. /\ req' = [b \in Editors |-> req'[b]] /\ req'[r] = q
      /\ \A b \in Editors \ {r} : req'[b] = req[b]
  BY <1>1, <1>2 DEF Step, DocInv
<1>4. IsReq(q) /\ q.pc = "done"
  BY <1>1, <1>2 DEF IsReq
<1>5. ReqSound(q)'
  BY <1>4 DEF ReqSound, Locked, IsReq
<1>6. ASSUME NEW b \in Editors PROVE ReqSound(req[b])'
  <2>1. CASE b = r
    BY <1>3, <1>5, <2>1
  <2>2. CASE b # r
    <3>1. PICK t : t = req[b]
      OBVIOUS
    <3>2. ReqSound(t)'
      BY <2>2, <3>1, OthersStay
    <3> QED BY <1>3, <2>2, <3>1, <3>2
  <2> QED BY <2>1, <2>2
<1>7. Separate'
  BY <1>3, <1>4 DEF DocInv, Separate, Locked
<1>8. Authored'
  <2>1. Authored
    BY DEF DocInv
  <2>2. \A b \in Editors : req[b].pc = "done" => req'[b].pc = "done"
    BY <1>3
  <2>3. req'[r].pc = "done"
    BY <1>3, <1>4
  <2>4. \A e \in Edits : e[1] \in Editors
    BY DEF Edits
  <2>5. \A v \in versions : v.by # r
    BY <2>1, DocumentAssumption DEF Authored
  <2>6. \A v, w \in versions' : v.by = w.by => v = w
    <3> SUFFICES ASSUME NEW v \in versions', NEW w \in versions', v.by = w.by PROVE v = w
      OBVIOUS
    <3>1. CASE v \in versions /\ w \in versions
      BY <2>1, <3>1 DEF Authored
    <3>2. CASE ~ (v \in versions /\ w \in versions)
      BY <2>5, <3>2
    <3> QED BY <3>1, <3>2
  <2>7. \A v \in versions' : v.by = Original \/ (v.by \in Editors /\ req'[v.by].pc = "done")
    BY <2>1, <2>2, <2>3 DEF Authored
  <2>8. \A e \in Edits : edits'[e] # "none" => req'[e[1]].pc = "done"
    BY <2>1, <2>2, <2>3, <2>4 DEF Authored
  <2> QED BY <2>6, <2>7, <2>8 DEF Authored
<1>9. (\A b \in Editors : ReqSound(req[b]))'
  BY <1>6
<1> QED BY <1>3, <1>7, <1>8, <1>9 DEF DocInv

\* A version is added: what was sound stays so, what came before it does not change.
LEMMA RowsAdded ==
  ASSUME DocInv, NEW x, versions' = versions \cup {x}, x.number = Latest + 1,
         x.text \in AllTexts, x.file \in Files \cup {NoFile},
         x.file # NoFile /\ ~ x.file.readable => x.text = NoText,
         x.kind \in ClosingKinds => x.text # NoText /\ \E u \in Proposals : u.by = x.of,
         x.notes = "resolved" /\ TextVersions # {} =>
            LET t == Newest(TextVersions).text
            IN  t # EmptyText => x.text.src = t.src /\ t.applied \subseteq x.text.applied
  PROVE  \A v \in versions' : RowSound(v)'
<1>1. Latest \in Nat /\ \A v \in versions : v.number \in 1..Latest
  BY LatestIs DEF DocInv
<1>2. Proposals \subseteq Proposals'
  BY DEF Proposals
<1>3. ASSUME NEW v \in versions' PROVE {w \in TextVersions' : w.number < v.number}
                                         = {w \in TextVersions : w.number < v.number}
  <2>1. v.number \in Nat /\ v.number <= Latest + 1
    BY <1>1
  <2>2. ~ (x.number < v.number)
    BY <1>1, <2>1
  <2> QED BY <2>2 DEF TextVersions
<1>4. ASSUME NEW v \in versions PROVE RowSound(v)'
  <2>1. RowSound(v)
    BY DEF DocInv
  <2>2. Continues(v) => Continues(v)'
    BY <1>3 DEF Continues, Newest
  <2> QED BY <1>2, <2>1, <2>2 DEF RowSound
<1>5. RowSound(x)'
  <2>1. {w \in TextVersions' : w.number < x.number} = TextVersions
    <3>1. {w \in TextVersions : w.number < x.number} = TextVersions
      <4>1. \A w \in TextVersions : w.number < x.number
        BY <1>1 DEF TextVersions
      <4> QED BY <4>1
    <3> QED BY <1>3, <3>1
  <2>2. x.notes = "resolved" => Continues(x)'
    BY <2>1 DEF Continues, Newest
  <2>3. \A u \in Proposals : u.number < x.number
    BY <1>1 DEF Proposals
  <2> QED BY <1>2, <2>2, <2>3 DEF RowSound
<1> QED BY <1>4, <1>5

\* The active file moves with the history.
LEMMA ActiveAdded ==
  ASSUME DocInv, NEW x, versions' = versions \cup {x}, x.number = Latest + 1, Numbered',
         \/ x.file = NoFile /\ UNCHANGED <<document, body>>
         \/ x.file \in Files /\ document' = x.file /\ body' = Extract(x.file)
  PROVE  ActiveMovesTogether' /\ document' \in Files
<1>1. CASE x.file = NoFile /\ UNCHANGED <<document, body>>
  <2>1. {v \in versions' : v.file # NoFile} = {v \in versions : v.file # NoFile}
    BY <1>1
  <2> QED BY <1>1, <2>1 DEF DocInv, ActiveMovesTogether, Newest
<1>2. CASE x.file \in Files /\ document' = x.file /\ body' = Extract(x.file)
  <2>1. PICK V : V = {v \in versions' : v.file # NoFile}
    OBVIOUS
  <2>2. x \in V
    BY <1>2, <2>1, TextKinds
  <2>3. Latest \in Nat /\ \A v \in versions : v.number \in 1..Latest
    BY LatestIs DEF DocInv
  <2>4. \A w \in V : w.number \in Nat /\ w.number <= x.number
    BY <2>1, <2>3
  <2>5. \A u, w \in V : u.number = w.number => u = w
    BY <2>1 DEF Numbered
  <2>6. Newest(V) = x
    BY <2>2, <2>4, <2>5, NewestOf
  <2> QED BY <1>2, <2>1, <2>6 DEF ActiveMovesTogether, Newest
<1> QED BY <1>1, <1>2

\* The statuses a request commits: what it staged is no longer pending.
LEMMA ResolvedIs ==
  ASSUME DocInv, NEW r \in Editors, NEW q, q = req[r],
         q.staged = {} \/ q.staged \subseteq PendingOf(q.of), edits' = Resolved(r)
  PROVE  /\ edits' \in [Edits -> Statuses]
         /\ \A e \in Edits : edits'[e] # "none" <=> edits[e] # "none"
         /\ \A p : EditsOf(p)' = EditsOf(p) /\ PendingOf(p)' = PendingOf(p) \ q.staged
         /\ \A p : p # q.of => PendingOf(p)' = PendingOf(p)
<1>1. edits \in [Edits -> Statuses]
  BY DEF DocInv
<1>2. PICK verdict \in {"accepted", "rejected"} :
         edits' = [e \in Edits |-> IF e \in q.staged THEN verdict ELSE edits[e]]
  BY DEF Resolved, Verdict
<1>3. \A e \in q.staged : e \in Edits /\ edits[e] = "pending" /\ e[1] = q.of
  BY DEF PendingOf, EditsOf
<1>4. edits' \in [Edits -> Statuses]
  BY <1>1, <1>2 DEF Statuses
<1>5. \A e \in Edits : edits'[e] # "none" <=> edits[e] # "none"
  BY <1>2, <1>3
<1>6. \A e \in Edits : edits'[e] = "pending" <=> edits[e] = "pending" /\ e \notin q.staged
  BY <1>2, <1>3
<1>7. ASSUME NEW p PROVE EditsOf(p)' = EditsOf(p) /\ PendingOf(p)' = PendingOf(p) \ q.staged
  <2>1. EditsOf(p)' = EditsOf(p)
    BY <1>5 DEF EditsOf
  <2>2. PendingOf(p)' = PendingOf(p) \ q.staged
    <3>1. PendingOf(p)' = {e \in EditsOf(p) : edits'[e] = "pending"}
      BY <2>1 DEF PendingOf
    <3>2. \A e \in EditsOf(p) : e \in Edits
      BY DEF EditsOf
    <3> QED BY <1>6, <3>1, <3>2 DEF PendingOf
  <2> QED BY <2>1, <2>2
<1>8. ASSUME NEW p, p # q.of PROVE PendingOf(p)' = PendingOf(p)
  <2>1. \A e \in PendingOf(p) : e[1] = p
    BY DEF PendingOf, EditsOf
  <2> QED BY <1>3, <1>7, <1>8, <2>1
<1> QED BY <1>4, <1>5, <1>7, <1>8

\* At a commit without a new version some edit is still pending, or another
\* version has followed the proposal.
LEMMA CommitMarksKeeps ==
  ASSUME DocInv, NEW r \in Editors, CommitMarks(r)
  PROVE  DocInv'
<1>1. PICK q : q = req[r] /\ ReqSound(q) /\ q.pc = "commit"
  BY DEF DocInv, CommitMarks
<1>2. /\ edits' = Resolved(r) /\ Step(r, "done") /\ UNCHANGED <<versions, document, body, draft>>
  BY DEF CommitMarks
<1>3. Locked(q) /\ q.staged \subseteq PendingOf(q.of)
  BY <1>1 DEF ReqSound, Locked
<1>4. /\ edits' \in [Edits -> Statuses]
      /\ \A e \in Edits : edits'[e] # "none" <=> edits[e] # "none"
      /\ \A p : EditsOf(p)' = EditsOf(p) /\ PendingOf(p)' = PendingOf(p) \ q.staged
      /\ \A p : p # q.of => PendingOf(p)' = PendingOf(p)
  BY <1>1, <1>2, <1>3, ResolvedIs
<1>5. Latest' = Latest /\ Proposals' = Proposals /\ TextVersions' = TextVersions
  BY <1>2 DEF Latest, Proposals, TextVersions
<1>6. Closed'
  <2>1. Closed
    BY DEF DocInv
  <2>2. ASSUME NEW v \in Proposals, EditsOf(v.by)' # {}, PendingOf(v.by)' = {}
        PROVE  v.number < Latest
    <3>1. CASE v.by = q.of
      BY <1>1, <1>4, <2>2, <3>1 DEF ReqSound
    <3>2. CASE v.by # q.of
      BY <1>4, <2>1, <2>2, <3>2 DEF Closed
    <3> QED BY <3>1, <3>2
  <2> QED BY <1>2, <1>5, <2>1, <2>2 DEF Closed
<1>7. ASSUME NEW v \in versions' PROVE RowSound(v)'
  <2>1. RowSound(v)
    BY <1>2 DEF DocInv
  <2>2. Continues(v) => Continues(v)'
    BY <1>5 DEF Continues, Newest
  <2> QED BY <1>5, <2>1, <2>2 DEF RowSound
<1>8. ActiveMovesTogether' /\ document' \in Files /\ Numbered' /\ draft'.text \in AllTexts
  BY <1>2 DEF DocInv, ActiveMovesTogether, Newest, Numbered
<1> QED BY <1>1, <1>2, <1>3, <1>4, <1>6, <1>7, <1>8, HistoryKeeps

\* A request writes its version: the number was not taken, so nothing was
\* added since it was read.
LEMMA AddKeeps ==
  ASSUME DocInv, NEW r \in Editors, NEW q, q = req[r], q.pc \in {"write", "close"}, ~ NumberTaken(r),
         NEW x, versions' = versions \cup {x}, x.number = q.num, x.by = r,
         x.text \in AllTexts, x.file \in Files \cup {NoFile},
         x.file # NoFile /\ ~ x.file.readable => x.text = NoText,
         x.kind \in ClosingKinds => /\ Locked(q) /\ x.of = q.of /\ Closings(q.of) = {}
                                    /\ x.text # NoText,
         x.notes = "resolved" /\ q.num = Latest + 1 /\ TextVersions # {} =>
            LET t == Newest(TextVersions).text
            IN  t # EmptyText => x.text.src = t.src /\ t.applied \subseteq x.text.applied,
         q.num = Latest + 1 => \/ x.file = NoFile /\ UNCHANGED <<document, body>>
                               \/ x.file \in Files /\ document' = x.file /\ body' = Extract(x.file),
         edits' \in [Edits -> Statuses],
         \A e \in Edits : edits'[e] # "none" => edits[e] # "none" \/ e[1] = r,
         \A p : p # r /\ (Locked(q) => p # q.of) => PendingOf(p)' = PendingOf(p),
         x.kind = "assistant_edit" => EditsOf(r)' \subseteq PendingOf(r)',
         draft'.text \in AllTexts, Step(r, "done")
  PROVE  DocInv'
<1>1. ReqSound(q)
  BY DEF DocInv
<1>2. q.num \in 1..(Latest + 1) /\ \A v \in versions : v.number # x.number
  BY <1>1 DEF ReqSound, NumberTaken
<1>3. /\ x.number = Latest + 1 /\ Latest' = Latest + 1 /\ Numbered' /\ x \notin versions
  BY <1>2, Added DEF DocInv
<1>4. x.kind \in ClosingKinds => \E u \in Proposals : u.by = x.of
  BY <1>1 DEF ReqSound, Locked
<1>5. \A v \in versions' : RowSound(v)'
  BY <1>3, <1>4, RowsAdded
<1>6. ActiveMovesTogether' /\ document' \in Files
  BY <1>3, ActiveAdded
<1>7. Closed'
  <2>1. Closed
    BY DEF DocInv
  <2>2. \A v, w \in versions' : v.kind \in ClosingKinds /\ w.kind \in ClosingKinds /\ v.of = w.of
                                => v = w
    <3>1. x.kind \in ClosingKinds => \A v \in versions : ~ (v.kind \in ClosingKinds /\ v.of = x.of)
      BY DEF Closings
    <3> QED BY <2>1, <3>1 DEF Closed
  <2>3. ASSUME NEW v \in Proposals', EditsOf(v.by)' # {}, PendingOf(v.by)' = {}
        PROVE  v.number < Latest'
    <3>1. CASE v \in versions
      <4>1. v.number \in 1..Latest /\ Latest \in Nat
        BY <3>1, LatestIs DEF DocInv
      <4> QED BY <1>3, <4>1
    <3>2. CASE v \notin versions
      <4>1. v = x /\ x.kind = "assistant_edit"
        BY <3>2 DEF Proposals
      <4>2. EditsOf(r)' \subseteq PendingOf(r)' /\ v.by = r
        BY <4>1
      <4>3. EditsOf(r)' # {} /\ PendingOf(r)' = {}
        BY <2>3, <4>2
      <4> QED BY <4>2, <4>3
    <3> QED BY <3>1, <3>2
  <2> QED BY <2>2, <2>3 DEF Closed
<1>8. \A y \in versions' \ versions : y = x
  OBVIOUS
<1>9. req[r].pc # "done"
  OBVIOUS
<1>10. \A y \in versions' \ versions :
         y.by = r /\ (y.kind \in ClosingKinds => Locked(req[r]) /\ y.of = req[r].of)
  BY <1>8
<1>11. \A y, z \in versions' \ versions : y = z
  BY <1>8
<1>12. versions \subseteq versions' /\ Latest' = Latest + 1
  BY <1>3
<1>13. \A p : p # r /\ (Locked(req[r]) => p # req[r].of) => PendingOf(p)' = PendingOf(p)
  OBVIOUS
<1> QED BY <1>3, <1>5, <1>6, <1>7, <1>9, <1>10, <1>11, <1>12, <1>13, HistoryKeeps

\* The closing version continues the text it was read from, the newest one.
LEMMA CloseKeeps ==
  ASSUME DocInv, NEW r \in Editors, Close(r)
  PROVE  DocInv'
<1>1. PICK q : q = req[r] /\ ReqSound(q) /\ q.pc = "close"
  BY DEF DocInv, Close
<1>2. PICK acc : acc = {e \in EditsOf(q.of) : Resolved(r)[e] = "accepted"}
  OBVIOUS
<1>3. PICK skipped \in SUBSET acc :
         versions' = versions \cup
           {Version(q.num, IF acc # {} THEN "user_accept" ELSE "user_reject", r, q.of,
                    ApplyAccepted(q.text, acc, skipped), NoFile, "resolved")}
  BY <1>1, <1>2 DEF Close
<1>4. PICK text : text = ApplyAccepted(q.text, acc, skipped)
  OBVIOUS
<1>5. PICK x : x = Version(q.num, IF acc # {} THEN "user_accept" ELSE "user_reject", r, q.of,
                           text, NoFile, "resolved")
  OBVIOUS
<1>6. /\ x.number = q.num /\ x.by = r /\ x.of = q.of /\ x.text = text /\ x.file = NoFile
      /\ x.notes = "resolved" /\ x.kind \in ClosingKinds /\ x.kind # "assistant_edit"
  BY <1>5 DEF Version, ClosingKinds
<1>7. /\ ~ NumberTaken(r) /\ versions' = versions \cup {x} /\ edits' = Resolved(r)
      /\ Step(r, "done") /\ UNCHANGED <<document, body, draft>>
  BY <1>3, <1>4, <1>5 DEF Close
<1>8. Locked(q) /\ q.staged \subseteq PendingOf(q.of) /\ Closings(q.of) = {}
  BY <1>1 DEF ReqSound, Locked
<1>9. acc \in SUBSET Edits
  BY <1>2 DEF EditsOf
<1>10. q.text \in AllTexts \ {NoText} /\ (q.num = Latest + 1 => q.text = BaseText)
  BY <1>1 DEF ReqSound
<1>11. /\ text \in AllTexts \ {NoText}
       /\ q.text # EmptyText => text.src = q.text.src /\ q.text.applied \subseteq text.applied
  BY <1>4, <1>9, <1>10, AppliedIs
<1>12. q.num = Latest + 1 /\ TextVersions # {} => q.text = Newest(TextVersions).text
  BY <1>10, BaseTextIs
<1>13. /\ edits' \in [Edits -> Statuses]
       /\ \A e \in Edits : edits'[e] # "none" <=> edits[e] # "none"
       /\ \A p : p # q.of => PendingOf(p)' = PendingOf(p)
  BY <1>1, <1>7, <1>8, ResolvedIs
<1>14. draft'.text \in AllTexts
  BY <1>7 DEF DocInv
<1>15. q.num = Latest + 1 /\ TextVersions # {} =>
            LET t == Newest(TextVersions).text
            IN  t # EmptyText => x.text.src = t.src /\ t.applied \subseteq x.text.applied
  BY <1>6, <1>11, <1>12
<1>16. \A p : p # r /\ (Locked(q) => p # q.of) => PendingOf(p)' = PendingOf(p)
  BY <1>8, <1>13
<1> QED BY <1>1, <1>6, <1>7, <1>8, <1>11, <1>13, <1>14, <1>15, <1>16, AddKeeps

\* The edits a model proposes are pending, and the only ones of its request.
LEMMA ProposedIs ==
  ASSUME DocInv, NEW r \in Editors, req[r].pc # "done", edits' \in WithPending(r)
  PROVE  /\ edits' \in [Edits -> Statuses]
         /\ \A e \in Edits : edits'[e] # "none" => edits[e] # "none" \/ e[1] = r
         /\ \A p : p # r => PendingOf(p)' = PendingOf(p)
         /\ EditsOf(r)' \subseteq PendingOf(r)'
<1>1. PICK n \in 0..PerProposal :
         edits' = [e \in Edits |-> IF e \in {r} \X (1..n) THEN "pending" ELSE edits[e]]
  BY DEF WithPending
<1>2. edits \in [Edits -> Statuses] /\ \A e \in Edits : e[1] = r => edits[e] = "none"
  BY DEF DocInv, Authored
<1>3. \A e \in {r} \X (1..n) : e[1] = r
  OBVIOUS
<1>4. edits' \in [Edits -> Statuses]
  BY <1>1, <1>2 DEF Statuses
<1>5. \A e \in Edits : e[1] # r => edits'[e] = edits[e]
  BY <1>1, <1>3
<1>6. \A e \in Edits : e[1] = r => edits'[e] \in {"none", "pending"}
  BY <1>1, <1>2
<1>7. \A p : p # r => PendingOf(p)' = PendingOf(p)
  BY <1>5 DEF PendingOf, EditsOf
<1>8. EditsOf(r)' \subseteq PendingOf(r)'
  BY <1>6 DEF PendingOf, EditsOf
<1> QED BY <1>4, <1>5, <1>7, <1>8

LEMMA WriteKeeps ==
  ASSUME DocInv, NEW r \in Editors, Write(r)
  PROVE  DocInv'
<1>1. PICK q : q = req[r] /\ ReqSound(q) /\ q.pc = "write" /\ NewVersionSound(q)
  <2>1. req[r].pc = "write" /\ ReqSound(req[r])
    BY DEF DocInv, Write
  <2> QED BY <2>1 DEF ReqSound
<1>2. PICK x : x = Version(q.num, KindOf(q.op), r, IF q.op \in ResolveOps THEN q.of ELSE r, q.text,
                           q.file, IF q.op \in ResolveOps THEN "placeholder" ELSE "")
  OBVIOUS
<1>3. /\ ~ NumberTaken(r) /\ versions' = versions \cup {x} /\ MoveActive(q)
      /\ edits' \in IF q.op = "propose" THEN WithPending(r) ELSE {Resolved(r)}
      /\ draft' = IF q.clear THEN NoDraft ELSE draft
      /\ Step(r, "done")
  BY <1>1, <1>2 DEF Write
<1>4. /\ x.number = q.num /\ x.by = r /\ x.text = q.text /\ x.file = q.file /\ x.notes # "resolved"
      /\ x.kind = KindOf(q.op) /\ x.of = IF q.op \in ResolveOps THEN q.of ELSE r
  BY <1>2 DEF Version
<1>5. /\ q.op \in {"propose", "save", "commit_draft", "upload", "restore", "replicate",
                   "accept_all", "reject_all"}
      /\ q.text \in AllTexts
  BY <1>1 DEF NewVersionSound
<1>6. /\ KindOf(q.op) \in ClosingKinds => q.op \in {"accept_all", "reject_all"}
      /\ KindOf(q.op) = "assistant_edit" => q.op = "propose"
  BY <1>5 DEF KindOf, ClosingKinds
<1>7. x.kind \in ClosingKinds => /\ Locked(q) /\ x.of = q.of /\ Closings(q.of) = {} /\ x.text # NoText
  BY <1>1, <1>4, <1>6 DEF NewVersionSound, Locked, ResolveOps
<1>8. draft'.text \in AllTexts
  BY <1>3 DEF DocInv, NoDraft, AllTexts
<1>9. /\ edits' \in [Edits -> Statuses]
      /\ \A e \in Edits : edits'[e] # "none" => edits[e] # "none" \/ e[1] = r
      /\ \A p : p # r /\ (Locked(q) => p # q.of) => PendingOf(p)' = PendingOf(p)
      /\ q.op = "propose" => EditsOf(r)' \subseteq PendingOf(r)'
  <2>1. CASE q.op = "propose"
    BY <1>1, <1>3, <2>1, ProposedIs
  <2>2. CASE q.op # "propose"
    <3>1. edits' = Resolved(r)
      BY <1>3, <2>2
    <3>2. IF q.op \in ResolveOps THEN Locked(q) /\ q.staged \subseteq PendingOf(q.of)
          ELSE q.staged = {}
      BY <1>1 DEF ReqSound, NewVersionSound, Locked
    <3>3. /\ edits' \in [Edits -> Statuses]
          /\ \A e \in Edits : edits'[e] # "none" <=> edits[e] # "none"
          /\ \A p : PendingOf(p)' = PendingOf(p) \ q.staged
          /\ \A p : p # q.of => PendingOf(p)' = PendingOf(p)
      BY <1>1, <3>1, <3>2, ResolvedIs
    <3>4. \A p : p # r /\ (Locked(q) => p # q.of) => PendingOf(p)' = PendingOf(p)
      BY <3>2, <3>3
    <3> QED BY <2>2, <3>3, <3>4
  <2> QED BY <2>1, <2>2
<1>10. /\ q.file \in Files \cup {NoFile}
       /\ q.file # NoFile /\ ~ q.file.readable => q.text = NoText
       /\ q.num = Latest + 1 => \/ q.file = NoFile /\ UNCHANGED <<document, body>>
                                \/ q.file \in Files /\ document' = q.file /\ body' = Extract(q.file)
  <2>1. CASE q.op \in {"upload", "restore"}
    <3>1. q.file \in Files /\ q.text = Extract(q.file) /\ document' = q.file /\ body' = q.text
      BY <1>1, <1>3, <2>1 DEF NewVersionSound, MoveActive
    <3> QED BY <3>1, ExtractIs
  <2>2. CASE q.op = "replicate"
    <3>1. q.file \in Files /\ q.text = NoText /\ (q.num = Latest + 1 => q.file = document)
      BY <1>1, <2>2 DEF NewVersionSound
    <3>2. UNCHANGED <<document, body>> /\ body = Extract(document)
      BY <1>3, <2>2 DEF MoveActive, DocInv, ActiveMovesTogether
    <3> QED BY <3>1, <3>2
  <2>3. CASE q.op \notin {"upload", "restore", "replicate"}
    <3>1. q.file = NoFile
      BY <1>1, <2>3 DEF NewVersionSound
    <3>2. UNCHANGED <<document, body>>
      BY <1>3, <2>3 DEF MoveActive
    <3> QED BY <3>1, <3>2
  <2> QED BY <2>1, <2>2, <2>3
<1>11. x.kind = "assistant_edit" => EditsOf(r)' \subseteq PendingOf(r)'
  BY <1>4, <1>6, <1>9
<1> QED BY <1>1, <1>3, <1>4, <1>5, <1>7, <1>8, <1>9, <1>10, <1>11, AddKeeps

LEMMA DocStepKeeps == DocInv /\ [DocNext]_docVars => DocInv'
<1> SUFFICES ASSUME DocInv, [DocNext]_docVars PROVE DocInv'
  OBVIOUS
<1>1. CASE UNCHANGED docVars
  <2>1. UNCHANGED <<versions, edits, document, body, draft, req>>
    BY <1>1 DEF docVars
  <2>2. ASSUME NEW r \in Editors PROVE ReqSound(req[r])'
    <3>1. PICK t : t = req[r] /\ ReqSound(t)
      BY DEF DocInv
    <3>2. ReqSound(t)'
      BY <2>1, <3>1, SameSound
    <3> QED BY <2>1, <3>1, <3>2
  <2>3. Authored' /\ Separate'
    BY <2>1 DEF DocInv, Authored, Separate, Locked
  <2>4. (\A r \in Editors : ReqSound(req[r]))'
    BY <2>2
  <2> QED BY <2>1, <2>3, <2>4, SameRows DEF DocInv
<1>2. ASSUME NEW r \in Editors,
             \/ Propose(r) \/ SaveManual(r) \/ SaveWorkspace(r) \/ Upload(r) \/ Restore(r)
             \/ Replicate(r) \/ LoadDraft(r) \/ CommitDraft(r) \/ ResolveOne(r) \/ ResolveAll(r)
      PROVE  DocInv'
  BY <1>2, ProposeKeeps, SavesKeep, UploadKeeps, RestoreKeeps, ReplicateKeeps, LoadDraftKeeps,
     ResolveKeeps
<1>3. ASSUME NEW r \in Editors, DocStep(r) \/ DocAbort(r)
      PROVE  DocInv'
  BY <1>3, ReadNumberKeeps, EndsKeep, WriteKeeps, MarkKeeps, ReadLatestKeeps, ReadBaseKeeps,
     CloseKeeps, CommitMarksKeeps DEF DocStep
<1> QED BY <1>1, <1>2, <1>3 DEF DocNext
-----------------------------------------------------------------------------
(***************************************************************************)
(* Two requests that resolve the last edits of a proposal                  *)
(* (_maybe_close_version under the advisory lock): a proposal without      *)
(* pending edits has been followed by a version, and at most one version   *)
(* closes it.                                                              *)
(***************************************************************************)
THEOREM ResolvedProposalsClose == DocSpec => []ResolvedIsClosed
<1>1. DocInv => ResolvedIsClosed
  <2> SUFFICES ASSUME DocInv, NEW v \in Proposals
               PROVE  /\ EditsOf(v.by) # {} /\ PendingOf(v.by) = {} => Latest > v.number
                      /\ Cardinality({w \in versions : /\ w.kind \in {"user_accept", "user_reject"}
                                                       /\ w.of = v.by}) <= 1
    BY DEF ResolvedIsClosed
  <2>1. EditsOf(v.by) # {} /\ PendingOf(v.by) = {} => Latest > v.number
    <3>1. Latest \in Nat /\ v.number \in Nat
      BY LatestIs DEF DocInv, Proposals
    <3> QED BY <3>1 DEF DocInv, Closed
  <2> DEFINE C == {w \in versions : w.kind \in {"user_accept", "user_reject"} /\ w.of = v.by}
  <2>2. \A u, w \in C : u = w
    BY DEF DocInv, Closed, ClosingKinds
  <2> HIDE DEF C
  <2>3. Cardinality(C) <= 1
    <3>1. CASE C = {}
      BY <3>1, FS_EmptySet
    <3>2. CASE C # {}
      <4>1. PICK w : C = {w}
        BY <2>2, <3>2
      <4> QED BY <4>1, FS_Singleton
    <3> QED BY <3>1, <3>2
  <2> QED BY <2>1, <2>3 DEF C
<1> QED BY <1>1, DocStarts, DocStepKeeps, PTL DEF DocSpec

(***************************************************************************)
(* The text of a closing version (get_base_text, apply_all_accepted)       *)
(* continues the newest text before it: no text saved while the edits were *)
(* being resolved is lost in it.                                           *)
(***************************************************************************)
THEOREM ClosingsContinue == DocSpec => []ClosingContinues
<1>1. DocInv => ClosingContinues
  BY DEF DocInv, RowSound, ClosingContinues, Continues
<1> QED BY <1>1, DocStarts, DocStepKeeps, PTL DEF DocSpec

(***************************************************************************)
(* The active file, its extracted text and the history move together       *)
(* (upload and restore of a version): the document row has the newest file *)
(* of the history and the body its text.                                   *)
(***************************************************************************)
THEOREM ActiveIsNewest == DocSpec => []ActiveMovesTogether
<1>1. DocInv => ActiveMovesTogether
  BY DEF DocInv
<1> QED BY <1>1, DocStarts, DocStepKeeps, PTL DEF DocSpec
-----------------------------------------------------------------------------
(* The history of the versions: what a request holds of it.                *)

\* What a request writes is what the abstract step adds: a text somebody sent,
\* the file it uploaded, a version it restores, or the text of a file as the
\* answer for a proposal that others have followed.  Past the lock, a request
\* that is not only going to commit statuses decides all that is pending.
Exact(r, q) ==
  /\ q.pc \in {"number", "write"} =>
       /\ q.op \in {"save", "commit_draft"} => \E w \in Editors : q.text = TextOf(w)
       /\ q.op = "upload" => \E readable \in BOOLEAN : q.file = FileOf(r, readable)
       /\ q.op = "restore" => \E v \in versions : /\ Restorable(v) /\ q.text = RestoredText(v)
                                                  /\ q.file = RestoredFile(v)
       /\ q.op = "propose" => q.text = NoText
       /\ q.op \in ResolveOps => /\ \E v \in versions : q.text \in {EmptyText, Extract(v.file)}
                                 /\ \A v \in Proposals : v.by = q.of => v.number < Latest
  /\ q.pc \in {"base", "close"} => \A v \in Proposals : v.by = q.of => q.num = v.number + 1
  /\ q.op \in ResolveOps /\ q.pc \in {"latest", "base", "number", "write", "close"} =>
       PendingOf(q.of) \subseteq q.staged

HistInv ==
  /\ WithFile # {}
  /\ draft # NoDraft => \E w \in Editors : draft.text = TextOf(w)
  /\ \A r \in Editors : Exact(r, req[r])

LEMMA HistStarts == DocInit => HistInv
<1> SUFFICES ASSUME DocInit PROVE HistInv
  OBVIOUS
<1> DEFINE f == FileOf(Original, TRUE)
           v == Version(1, "upload", Original, Original, NoText, f, "")
<1>1. versions = {v} /\ draft = NoDraft /\ req = [r \in Editors |-> Idle]
  BY DEF DocInit
<1>2. v.file # NoFile
  BY FileTexts, TextKinds DEF Version
<1> HIDE DEF v
<1>3. WithFile # {}
  BY <1>1, <1>2 DEF WithFile
<1>4. \A r \in Editors : Exact(r, req[r])
  BY <1>1 DEF Exact, Idle, ResolveOps
<1> QED BY <1>1, <1>3, <1>4 DEF HistInv

\* What it holds is still of the history when another request has added a version.
LEMMA OthersExact ==
  ASSUME DocInv, NEW r \in Editors, NEW b \in Editors \ {r}, req[r].pc # "done",
         versions \subseteq versions',
         \A x \in versions' \ versions : x.by = r,
         UNCHANGED versions \/ Latest' = Latest + 1,
         \A p : p # r /\ (Locked(req[r]) => p # req[r].of) => PendingOf(p)' = PendingOf(p),
         NEW t, t = req[b], Exact(b, t)
  PROVE  Exact(b, t)'
<1>1. ReqSound(t) /\ Separate
  BY DEF DocInv
<1>2. Latest \in Nat /\ (Latest' = Latest \/ Latest' = Latest + 1)
  BY LatestIs DEF DocInv, Latest
<1>3. ASSUME t.op \in ResolveOps, t.pc \in {"latest", "base", "number", "write", "close"}
      PROVE  /\ PendingOf(t.of)' = PendingOf(t.of)
             /\ \A v \in Proposals' : v.by = t.of => v \in Proposals
  <2>1. Locked(t)
    BY <1>3 DEF Locked
  <2>2. PICK u \in Proposals : u.by = t.of
    BY <1>1, <1>3 DEF ReqSound
  <2>3. t.of # r
    BY <2>2, DocumentAssumption DEF DocInv, Authored, Proposals
  <2>4. Locked(req[r]) => t.of # req[r].of
    BY <1>1, <2>1 DEF Separate
  <2>5. \A v \in Proposals' : v.by # r => v \in Proposals
    BY DEF Proposals
  <2> QED BY <2>3, <2>4, <2>5
<1>4. t.pc \in {"base", "close"} => t.op \in ResolveOps
  BY <1>1 DEF ReqSound
<1>5. \A v \in Proposals : v.number < Latest => v.number < Latest'
  <2>1. \A v \in Proposals : v.number \in Nat
    BY LatestIs DEF DocInv, Proposals
  <2> QED BY <1>2, <2>1
<1>6. t.op \in ResolveOps /\ t.pc \in {"number", "write"} =>
        \A v \in Proposals' : v.by = t.of => v.number < Latest'
  <2> SUFFICES ASSUME t.op \in ResolveOps, t.pc \in {"number", "write"},
                      NEW v \in Proposals', v.by = t.of
               PROVE  v.number < Latest'
    OBVIOUS
  <2>1. v \in Proposals
    BY <1>3
  <2>2. v.number < Latest
    BY <2>1 DEF Exact
  <2> QED BY <1>5, <2>1, <2>2
<1>7. t.pc \in {"base", "close"} => \A v \in Proposals' : v.by = t.of => t.num = v.number + 1
  BY <1>3, <1>4 DEF Exact
<1>8. t.op \in ResolveOps /\ t.pc \in {"latest", "base", "number", "write", "close"} =>
        PendingOf(t.of)' \subseteq t.staged
  BY <1>3 DEF Exact
<1>9. t.op = "restore" /\ t.pc \in {"number", "write"} =>
        \E v \in versions' : Restorable(v) /\ t.text = RestoredText(v) /\ t.file = RestoredFile(v)
  BY DEF Exact
<1>10. t.op \in ResolveOps /\ t.pc \in {"number", "write"} =>
        \E v \in versions' : t.text \in {EmptyText, Extract(v.file)}
  BY DEF Exact
<1>11. t.pc \in {"number", "write"} =>
         /\ t.op \in {"save", "commit_draft"} => \E w \in Editors : t.text = TextOf(w)
         /\ t.op = "upload" => \E readable \in BOOLEAN : t.file = FileOf(b, readable)
         /\ t.op = "propose" => t.text = NoText
  BY DEF Exact
<1> QED BY <1>6, <1>7, <1>8, <1>9, <1>10, <1>11 DEF Exact

\* A step that adds no version and changes no status.
LEMMA SameExact ==
  ASSUME NEW r, NEW q, Exact(r, q), UNCHANGED <<versions, edits>>
  PROVE  Exact(r, q)'
<1>1. Latest' = Latest /\ Proposals' = Proposals
  BY DEF Latest, Proposals
<1>2. PendingOf(q.of)' = PendingOf(q.of)
  BY DEF PendingOf, EditsOf
<1> QED BY <1>1, <1>2 DEF Exact

LEMMA StepExact ==
  ASSUME DocInv, HistInv, NEW r \in Editors, NEW q, req' = [req EXCEPT ![r] = q], Exact(r, q),
         UNCHANGED <<versions, edits>>,
         draft' # NoDraft => \E w \in Editors : draft'.text = TextOf(w)
  PROVE  HistInv'
<1>1. req'[r] = q /\ \A b \in Editors \ {r} : req'[b] = req[b]
  BY DEF DocInv
<1>2. ASSUME NEW b \in Editors PROVE Exact(b, req[b])'
  <2>1. PICK t : t = req'[b] /\ Exact(b, t)
    BY <1>1 DEF HistInv
  <2>2. Exact(b, t)'
    BY <2>1, SameExact
  <2> QED BY <2>1, <2>2
<1>3. WithFile' # {}
  BY DEF HistInv, WithFile
<1>4. (\A b \in Editors : Exact(b, req[b]))'
  BY <1>2
<1> QED BY <1>3, <1>4 DEF HistInv

\* A request that starts.
LEMMA BeginExact ==
  ASSUME DocInv, HistInv, NEW r \in Editors, NEW q, Begin(r, q), Exact(r, q)
  PROVE  HistInv'
<1>1. req' = [req EXCEPT ![r] = q] /\ UNCHANGED <<versions, edits, draft>>
  BY DEF Begin
<1>2. draft' # NoDraft => \E w \in Editors : draft'.text = TextOf(w)
  BY <1>1 DEF HistInv
<1> QED BY <1>1, <1>2, StepExact

LEMMA StartsExact ==
  ASSUME DocInv, HistInv, NEW r \in Editors,
         \/ Propose(r) \/ SaveManual(r) \/ SaveWorkspace(r) \/ Upload(r) \/ Restore(r)
         \/ Replicate(r) \/ LoadDraft(r) \/ CommitDraft(r) \/ ResolveOne(r) \/ ResolveAll(r)
  PROVE  HistInv'
<1>1. CASE Propose(r)
  <2>1. PICK q : q = [Idle EXCEPT !.op = "propose", !.pc = "number"]
    OBVIOUS
  <2>2. q.pc = "number" /\ q.op = "propose" /\ q.text = NoText
    BY <2>1 DEF Idle
  <2>3. Exact(r, q)
    BY <2>2 DEF Exact, ResolveOps
  <2> QED BY <1>1, <2>1, <2>3, BeginExact DEF Propose
<1>2. ASSUME NEW op \in {"save", "commit_draft"}, NEW w \in Editors, NEW text, NEW clear,
             text = TextOf(w), CreateUserEdit(r, op, text, clear)
      PROVE  HistInv'
  <2>1. PICK q : q = [Idle EXCEPT !.op = op, !.pc = "number", !.text = text, !.clear = clear]
    OBVIOUS
  <2>2. q.pc = "number" /\ q.op = op /\ q.text = text
    BY <2>1 DEF Idle
  <2>3. Exact(r, q)
    BY <1>2, <2>2 DEF Exact, ResolveOps
  <2> QED BY <1>2, <2>1, <2>3, BeginExact DEF CreateUserEdit
<1>3. CASE SaveManual(r) \/ SaveWorkspace(r)
  BY <1>2, <1>3 DEF SaveManual, SaveWorkspace
<1>4. CASE CommitDraft(r)
  <2>1. PICK w \in Editors : draft.text = TextOf(w)
    BY <1>4 DEF CommitDraft, HistInv
  <2>2. PICK clear : CreateUserEdit(r, "commit_draft", draft.text, clear)
    BY <1>4 DEF CommitDraft
  <2> QED BY <1>2, <2>1, <2>2
<1>5. CASE Upload(r)
  <2>1. PICK readable \in BOOLEAN : LET f == FileOf(r, readable) IN
          Begin(r, [Idle EXCEPT !.op = "upload", !.pc = "number", !.text = Extract(f), !.file = f])
    BY <1>5 DEF Upload
  <2>2. PICK f : f = FileOf(r, readable)
    OBVIOUS
  <2>3. PICK q : q = [Idle EXCEPT !.op = "upload", !.pc = "number", !.text = Extract(f), !.file = f]
    OBVIOUS
  <2>4. q.pc = "number" /\ q.op = "upload" /\ q.file = f
    BY <2>3 DEF Idle
  <2>5. Exact(r, q)
    BY <2>1, <2>2, <2>4 DEF Exact, ResolveOps
  <2> QED BY <2>1, <2>2, <2>3, <2>5, BeginExact
<1>6. CASE Restore(r)
  <2>1. PICK v \in versions :
          /\ Restorable(v)
          /\ Begin(r, [Idle EXCEPT !.op = "restore", !.pc = "number", !.text = RestoredText(v),
                                   !.file = RestoredFile(v)])
    BY <1>6 DEF Restore
  <2>2. PICK q : q = [Idle EXCEPT !.op = "restore", !.pc = "number", !.text = RestoredText(v),
                                  !.file = RestoredFile(v)]
    OBVIOUS
  <2>3. q.pc = "number" /\ q.op = "restore" /\ q.text = RestoredText(v) /\ q.file = RestoredFile(v)
    BY <2>2 DEF Idle
  <2>4. Exact(r, q)
    BY <2>1, <2>3 DEF Exact, ResolveOps
  <2> QED BY <2>1, <2>2, <2>4, BeginExact
<1>7. CASE Replicate(r)
  <2>1. PICK n, f : Begin(r, [Idle EXCEPT !.op = "replicate", !.pc = "write", !.num = n, !.file = f])
    BY <1>7 DEF Replicate
  <2>2. PICK q : q = [Idle EXCEPT !.op = "replicate", !.pc = "write", !.num = n, !.file = f]
    OBVIOUS
  <2>3. q.pc = "write" /\ q.op = "replicate"
    BY <2>2 DEF Idle
  <2>4. Exact(r, q)
    BY <2>3 DEF Exact, ResolveOps
  <2> QED BY <2>1, <2>2, <2>4, BeginExact
<1>8. CASE LoadDraft(r)
  <2>1. PICK q : q = [Idle EXCEPT !.op = "put_draft", !.pc = "write_draft", !.seen = draft]
    OBVIOUS
  <2>2. q.pc = "write_draft"
    BY <2>1 DEF Idle
  <2>3. Exact(r, q)
    BY <2>2 DEF Exact
  <2> QED BY <1>8, <2>1, <2>3, BeginExact DEF LoadDraft
<1>9. CASE ResolveOne(r) \/ ResolveAll(r)
  <2>1. PICK q : Begin(r, q) /\ q.pc = "lock"
    <3>1. CASE ResolveOne(r)
      <4>1. PICK v, op, e : Begin(r, [Idle EXCEPT !.op = op, !.pc = "lock", !.of = v.by, !.staged = {e}])
        BY <3>1 DEF ResolveOne
      <4>2. PICK q : q = [Idle EXCEPT !.op = op, !.pc = "lock", !.of = v.by, !.staged = {e}]
        OBVIOUS
      <4>3. q.pc = "lock"
        BY <4>2 DEF Idle
      <4> QED BY <4>1, <4>2, <4>3
    <3>2. CASE ResolveAll(r)
      <4>1. PICK v, op : Begin(r, [Idle EXCEPT !.op = op, !.pc = "lock", !.of = v.by])
        BY <3>2 DEF ResolveAll
      <4>2. PICK q : q = [Idle EXCEPT !.op = op, !.pc = "lock", !.of = v.by]
        OBVIOUS
      <4>3. q.pc = "lock"
        BY <4>2 DEF Idle
      <4> QED BY <4>1, <4>2, <4>3
    <3> QED BY <1>9, <3>1, <3>2
  <2>2. Exact(r, q)
    BY <2>1 DEF Exact
  <2> QED BY <2>1, <2>2, BeginExact
<1> QED BY <1>1, <1>3, <1>4, <1>5, <1>6, <1>7, <1>8, <1>9

LEMMA ReadsExact ==
  ASSUME DocInv, HistInv, NEW r \in Editors,
         ReadNumber(r) \/ MarkEdits(r) \/ ReadLatest(r) \/ ReadBase(r)
  PROVE  HistInv'
<1>1. PICK q0 : q0 = req[r] /\ ReqSound(q0) /\ Exact(r, q0) /\ IsReq(q0)
  BY DEF DocInv, HistInv, ReqSound
<1>2. UNCHANGED <<versions, edits, draft>>
  BY DEF ReadNumber, MarkEdits, ReadLatest, ReadBase
<1>3. draft' # NoDraft => \E w \in Editors : draft'.text = TextOf(w)
  BY <1>2 DEF HistInv
<1>4. CASE ReadNumber(r)
  <2>1. PICK n : n = Latest + 1
    OBVIOUS
  <2>2. PICK q : q = [q0 EXCEPT !.pc = "write", !.num = n]
    OBVIOUS
  <2>3. req' = [req EXCEPT ![r] = q]
    <3>1. req' = [req EXCEPT ![r].pc = "write", ![r].num = n]
      BY <1>4, <2>1 DEF ReadNumber
    <3> QED BY <1>1, <2>2, <3>1 DEF DocInv
  <2>4. /\ q0.pc = "number" /\ q.pc = "write" /\ q.op = q0.op /\ q.of = q0.of /\ q.text = q0.text
        /\ q.file = q0.file /\ q.staged = q0.staged
    BY <1>1, <1>4, <2>2 DEF ReadNumber, IsReq
  <2>5. Exact(r, q)
    BY <1>1, <2>4 DEF Exact
  <2> QED BY <1>2, <1>3, <2>3, <2>5, StepExact
<1>5. CASE MarkEdits(r)
  <2>1. PICK hit : hit = IF q0.op \in {"accept", "reject"} THEN q0.staged \cap PendingOf(q0.of)
                         ELSE PendingOf(q0.of)
    OBVIOUS
  <2>2. PICK pc : pc = IF q0.op \in {"accept", "reject"} /\ hit = {} THEN "failed"
                       ELSE IF PendingOf(q0.of) \ hit # {} THEN "commit" ELSE "latest"
    OBVIOUS
  <2>3. PICK q : q = [q0 EXCEPT !.staged = hit, !.pc = pc]
    OBVIOUS
  <2>4. req' = [req EXCEPT ![r] = q]
    <3>1. req' = [req EXCEPT ![r].staged = hit, ![r].pc = pc]
      BY <1>1, <1>5, <2>1, <2>2 DEF MarkEdits
    <3> QED BY <1>1, <2>3, <3>1 DEF DocInv
  <2>5. q.pc = pc /\ q.op = q0.op /\ q.of = q0.of /\ q.staged = hit
    BY <1>1, <2>3 DEF IsReq
  <2>6. pc \in {"failed", "commit"} \/ (pc = "latest" /\ PendingOf(q.of) \subseteq q.staged)
    BY <2>2, <2>5
  <2>7. Exact(r, q)
    BY <2>5, <2>6 DEF Exact
  <2> QED BY <1>2, <1>3, <2>4, <2>7, StepExact
<1>6. CASE ReadBase(r)
  <2>1. PICK text : text = BaseText
    OBVIOUS
  <2>2. PICK q : q = [q0 EXCEPT !.pc = "close", !.text = text]
    OBVIOUS
  <2>3. req' = [req EXCEPT ![r] = q]
    <3>1. req' = [req EXCEPT ![r].pc = "close", ![r].text = text]
      BY <1>6, <2>1 DEF ReadBase
    <3> QED BY <1>1, <2>2, <3>1 DEF DocInv
  <2>4. /\ q0.pc = "base" /\ q.pc = "close" /\ q.op = q0.op /\ q.of = q0.of /\ q.num = q0.num
        /\ q.staged = q0.staged
    BY <1>1, <1>6, <2>2 DEF ReadBase, IsReq
  <2>5. Exact(r, q)
    BY <1>1, <2>4 DEF Exact
  <2> QED BY <1>2, <1>3, <2>3, <2>5, StepExact
<1>7. CASE ReadLatest(r)
  <2>1. q0.pc = "latest" /\ q0.op \in ResolveOps
    BY <1>1, <1>7 DEF ReadLatest, ReqSound
  <2>2. PICK v \in Proposals : v.by = q0.of /\ NumberOf(q0.of) = v.number
    <3>1. PICK v \in Proposals : v.by = q0.of
      BY <1>1, <2>1 DEF ReqSound
    <3> QED BY <3>1, NumberOfIs
  <2>3. \A u \in Proposals : u.by = q0.of => u.number = v.number
    BY <2>2, NumberOfIs
  <2>4. Latest \in Nat /\ v.number \in 1..Latest
    BY <2>2, LatestIs DEF DocInv, Proposals
  <2> DEFINE newer == Latest > NumberOf(q0.of)
             bulk == q0.op \in {"accept_all", "reject_all"}
  <2>5. PICK pc : pc = IF ~ newer THEN "base" ELSE IF bulk /\ TextVersions = {} THEN "number"
                       ELSE "commit"
    OBVIOUS
  <2>6. PICK text : text = IF newer /\ bulk THEN BaseText ELSE NoText
    OBVIOUS
  <2>7. PICK n : n = Latest + 1
    OBVIOUS
  <2>8. PICK q : q = [q0 EXCEPT !.num = n, !.pc = pc, !.text = text]
    OBVIOUS
  <2>9. req' = [req EXCEPT ![r] = q]
    <3>1. req' = [req EXCEPT ![r].num = n, ![r].pc = pc, ![r].text = text]
      BY <1>1, <1>7, <2>5, <2>6, <2>7 DEF ReadLatest
    <3> QED BY <1>1, <2>8, <3>1 DEF DocInv
  <2>10. /\ q.pc = pc /\ q.op = q0.op /\ q.of = q0.of /\ q.staged = q0.staged /\ q.num = n
         /\ q.text = text
    BY <1>1, <2>8 DEF IsReq
  <2>11. PendingOf(q0.of) \subseteq q0.staged
    BY <1>1, <2>1 DEF Exact
  <2>12. pc = "number" => \E w \in versions : text \in {EmptyText, Extract(w.file)}
    <3> SUFFICES ASSUME pc = "number" PROVE \E w \in versions : text \in {EmptyText, Extract(w.file)}
      OBVIOUS
    <3>1. text = BaseText /\ TextVersions = {}
      BY <2>5, <2>6
    <3>2. text \in {EmptyText, body}
      BY <3>1 DEF BaseText
    <3>3. PICK w : w = Newest(WithFile) /\ w \in WithFile
      <4>1. WithFile \in SUBSET versions /\ WithFile # {} /\ Numbered
        BY DEF HistInv, WithFile, DocInv
      <4> QED BY <4>1, NewestIs
    <3>4. document = w.file /\ body = Extract(document)
      BY <3>3 DEF DocInv, ActiveMovesTogether, WithFile
    <3> QED BY <3>2, <3>3, <3>4 DEF WithFile
  <2>13. pc = "number" => v.number < Latest
    BY <2>2, <2>4, <2>5
  <2>14. pc = "base" => n = v.number + 1
    BY <2>2, <2>4, <2>5, <2>7
  <2>15. pc \in {"base", "number", "commit"}
    BY <2>5
  <2>16. q.op \in ResolveOps /\ q.op \notin {"save", "commit_draft", "upload", "restore", "propose"}
    BY <2>1, <2>10 DEF ResolveOps
  <2>17. Exact(r, q)
    BY <2>3, <2>10, <2>11, <2>12, <2>13, <2>14, <2>15, <2>16 DEF Exact
  <2> QED BY <1>2, <1>3, <2>9, <2>17, StepExact
<1> QED BY <1>4, <1>5, <1>6, <1>7

LEMMA EndExact ==
  ASSUME DocInv, HistInv, NEW r \in Editors, NEW pc \in {"failed", "done"}, Step(r, pc),
         UNCHANGED <<versions, edits>>,
         draft' # NoDraft => \E w \in Editors : draft'.text = TextOf(w)
  PROVE  HistInv'
<1>1. PICK q0 : q0 = req[r] /\ IsReq(q0)
  BY DEF DocInv, ReqSound
<1>2. PICK q : q = [q0 EXCEPT !.pc = pc]
  OBVIOUS
<1>3. req' = [req EXCEPT ![r] = q]
  BY <1>1, <1>2 DEF Step, DocInv
<1>4. q.pc = pc
  BY <1>1, <1>2 DEF IsReq
<1>5. Exact(r, q)
  BY <1>4 DEF Exact
<1> QED BY <1>3, <1>5, StepExact

LEMMA EndsExact ==
  ASSUME DocInv, HistInv, NEW r \in Editors,
         Conflict(r) \/ WriteDraft(r) \/ DraftConflict(r) \/ DocAbort(r)
  PROVE  HistInv'
<1>1. CASE WriteDraft(r)
  <2>1. draft'.text = TextOf(r)
    BY <1>1 DEF WriteDraft
  <2> QED BY <1>1, <2>1, EndExact DEF WriteDraft
<1>2. CASE Conflict(r) \/ DraftConflict(r) \/ DocAbort(r)
  <2>1. Step(r, "failed") /\ UNCHANGED <<versions, edits, draft>>
    BY <1>2 DEF Conflict, DraftConflict, DocAbort
  <2>2. draft' # NoDraft => \E w \in Editors : draft'.text = TextOf(w)
    BY <2>1 DEF HistInv
  <2> QED BY <2>1, <2>2, EndExact
<1> QED BY <1>1, <1>2

\* A request that commits.
LEMMA CommitExact ==
  ASSUME DocInv, HistInv, NEW r \in Editors, req[r].pc # "done", Step(r, "done"),
         versions \subseteq versions',
         \A x \in versions' \ versions : x.by = r,
         UNCHANGED versions \/ Latest' = Latest + 1,
         \A p : p # r /\ (Locked(req[r]) => p # req[r].of) => PendingOf(p)' = PendingOf(p),
         draft' # NoDraft => draft' = draft
  PROVE  HistInv'
<1>1. req'[r].pc = "done" /\ \A b \in Editors \ {r} : req'[b] = req[b]
  BY DEF Step, DocInv, ReqSound, IsReq
<1>2. ASSUME NEW b \in Editors PROVE Exact(b, req[b])'
  <2>1. CASE b = r
    BY <1>1, <2>1 DEF Exact
  <2>2. CASE b # r
    <3>1. PICK t : t = req[b] /\ t = req'[b] /\ Exact(b, t)
      BY <1>1, <2>2 DEF HistInv
    <3>2. Exact(b, t)'
      BY <2>2, <3>1, OthersExact
    <3> QED BY <3>1, <3>2
  <2> QED BY <2>1, <2>2
<1>3. WithFile' # {}
  BY DEF HistInv, WithFile
<1>4. (\A b \in Editors : Exact(b, req[b]))'
  BY <1>2
<1> QED BY <1>3, <1>4 DEF HistInv

\* What a commit writes: the next version of the history, and the statuses of
\* the edits that are proposed or decided.
WriteAdds(r, q, x) ==
  /\ x = Version(q.num, KindOf(q.op), r, IF q.op \in ResolveOps THEN q.of ELSE r, q.text,
                 q.file, IF q.op \in ResolveOps THEN "placeholder" ELSE "")
  /\ ReqSound(q) /\ NewVersionSound(q) /\ q.pc = "write"
  /\ versions' = versions \cup {x} /\ q.num = Latest + 1 /\ Latest' = Latest + 1 /\ Numbered'
  /\ edits' \in IF q.op = "propose" THEN WithPending(r) ELSE {Resolved(r)}
  /\ \A p : p # r /\ (Locked(q) => p # q.of) => PendingOf(p)' = PendingOf(p)
  /\ x.by = r /\ Step(r, "done") /\ (draft' # NoDraft => draft' = draft)

LEMMA WritesAdd ==
  ASSUME DocInv, NEW r \in Editors, NEW q, q = req[r], Write(r)
  PROVE  \E x : WriteAdds(r, q, x)
<1>0. PICK x : x = Version(q.num, KindOf(q.op), r, IF q.op \in ResolveOps THEN q.of ELSE r, q.text,
                           q.file, IF q.op \in ResolveOps THEN "placeholder" ELSE "")
  OBVIOUS
<1>1. ReqSound(q) /\ q.pc = "write" /\ NewVersionSound(q)
  <2>1. req[r].pc = "write" /\ ReqSound(req[r])
    BY DEF DocInv, Write
  <2> QED BY <2>1 DEF ReqSound
<1>2. /\ ~ NumberTaken(r) /\ versions' = versions \cup {x}
      /\ edits' \in IF q.op = "propose" THEN WithPending(r) ELSE {Resolved(r)}
      /\ draft' = IF q.clear THEN NoDraft ELSE draft
      /\ Step(r, "done")
  BY <1>0 DEF Write
<1>3. x.number = q.num /\ x.by = r
  BY <1>0 DEF Version
<1>4. q.num = Latest + 1 /\ Latest' = Latest + 1 /\ Numbered'
  <2>1. q.num \in 1..(Latest + 1) /\ \A v \in versions : v.number # x.number
    BY <1>1, <1>2, <1>3 DEF ReqSound, NumberTaken
  <2> QED BY <1>2, <1>3, <2>1, Added DEF DocInv
<1>5. \A p : p # r /\ (Locked(q) => p # q.of) => PendingOf(p)' = PendingOf(p)
  <2>1. CASE q.op = "propose"
    BY <1>1, <1>2, <2>1, ProposedIs
  <2>2. CASE q.op # "propose"
    <3>1. edits' = Resolved(r)
      BY <1>2, <2>2
    <3>2. IF q.op \in ResolveOps THEN Locked(q) /\ q.staged \subseteq PendingOf(q.of)
          ELSE q.staged = {}
      BY <1>1 DEF ReqSound, NewVersionSound, Locked
    <3>3. /\ \A p : PendingOf(p)' = PendingOf(p) \ q.staged
          /\ \A p : p # q.of => PendingOf(p)' = PendingOf(p)
      BY <3>1, <3>2, ResolvedIs
    <3> QED BY <3>2, <3>3
  <2> QED BY <2>1, <2>2
<1>6. draft' # NoDraft => draft' = draft
  BY <1>2
<1>7. /\ ReqSound(q) /\ NewVersionSound(q) /\ q.pc = "write"
      /\ versions' = versions \cup {x} /\ q.num = Latest + 1 /\ Latest' = Latest + 1 /\ Numbered'
      /\ edits' \in IF q.op = "propose" THEN WithPending(r) ELSE {Resolved(r)}
      /\ \A p : p # r /\ (Locked(q) => p # q.of) => PendingOf(p)' = PendingOf(p)
      /\ x.by = r /\ Step(r, "done") /\ (draft' # NoDraft => draft' = draft)
  BY <1>1, <1>2, <1>3, <1>4, <1>5, <1>6
<1>8. WriteAdds(r, q, x)
  BY <1>0, <1>7, Zenon DEF WriteAdds
<1> QED BY <1>8

LEMMA CloseAdds ==
  ASSUME DocInv, NEW r \in Editors, NEW q, q = req[r], Close(r)
  PROVE  \E accepted \in SUBSET Edits : \E skipped \in SUBSET accepted : \E x :
           /\ accepted = {e \in EditsOf(q.of) : Resolved(r)[e] = "accepted"}
           /\ q.text = EmptyText => skipped = accepted
           /\ x = Version(q.num, IF accepted # {} THEN "user_accept" ELSE "user_reject", r, q.of,
                          ApplyAccepted(q.text, accepted, skipped), NoFile, "resolved")
           /\ ReqSound(q) /\ q.pc = "close" /\ Locked(q) /\ q.staged \subseteq PendingOf(q.of)
           /\ versions' = versions \cup {x} /\ q.num = Latest + 1 /\ Latest' = Latest + 1 /\ Numbered'
           /\ edits' = Resolved(r) /\ x.by = r /\ Step(r, "done") /\ draft' = draft
           /\ \A p : p # q.of => PendingOf(p)' = PendingOf(p)
<1>1. ReqSound(q) /\ q.pc = "close"
  BY DEF DocInv, Close
<1>2. PICK acc : acc = {e \in EditsOf(q.of) : Resolved(r)[e] = "accepted"} /\ acc \in SUBSET Edits
  BY DEF EditsOf
<1>3. PICK skipped \in SUBSET acc :
         /\ q.text = EmptyText => skipped = acc
         /\ versions' = versions \cup
              {Version(q.num, IF acc # {} THEN "user_accept" ELSE "user_reject", r, q.of,
                       ApplyAccepted(q.text, acc, skipped), NoFile, "resolved")}
  BY <1>2 DEF Close
<1>4. PICK x : x = Version(q.num, IF acc # {} THEN "user_accept" ELSE "user_reject", r, q.of,
                           ApplyAccepted(q.text, acc, skipped), NoFile, "resolved")
  OBVIOUS
<1>5. x.number = q.num /\ x.by = r
  BY <1>4 DEF Version
<1>6. /\ ~ NumberTaken(r) /\ versions' = versions \cup {x} /\ edits' = Resolved(r)
      /\ Step(r, "done") /\ draft' = draft
  BY <1>3, <1>4 DEF Close
<1>7. Locked(q) /\ q.staged \subseteq PendingOf(q.of)
  BY <1>1 DEF ReqSound, Locked
<1>8. q.num = Latest + 1 /\ Latest' = Latest + 1 /\ Numbered'
  <2>1. q.num \in 1..(Latest + 1) /\ \A v \in versions : v.number # x.number
    BY <1>1, <1>5, <1>6 DEF ReqSound, NumberTaken
  <2> QED BY <1>5, <1>6, <2>1, Added DEF DocInv
<1>9. \A p : p # q.of => PendingOf(p)' = PendingOf(p)
  BY <1>6, <1>7, ResolvedIs
<1>10. /\ acc = {e \in EditsOf(q.of) : Resolved(r)[e] = "accepted"}
       /\ q.text = EmptyText => skipped = acc
       /\ x = Version(q.num, IF acc # {} THEN "user_accept" ELSE "user_reject", r, q.of,
                      ApplyAccepted(q.text, acc, skipped), NoFile, "resolved")
       /\ ReqSound(q) /\ q.pc = "close" /\ Locked(q) /\ q.staged \subseteq PendingOf(q.of)
       /\ versions' = versions \cup {x} /\ q.num = Latest + 1 /\ Latest' = Latest + 1 /\ Numbered'
       /\ edits' = Resolved(r) /\ x.by = r /\ Step(r, "done") /\ draft' = draft
       /\ \A p : p # q.of => PendingOf(p)' = PendingOf(p)
  BY <1>1, <1>2, <1>3, <1>4, <1>5, <1>6, <1>7, <1>8, <1>9
<1>11. acc \in SUBSET Edits /\ skipped \in SUBSET acc
  BY <1>2, <1>3
<1> QED BY <1>10, <1>11, Zenon

LEMMA CommitsExact ==
  ASSUME DocInv, HistInv, NEW r \in Editors, Write(r) \/ Close(r) \/ CommitMarks(r)
  PROVE  HistInv'
<1>1. PICK q : q = req[r]
  OBVIOUS
<1>2. CASE Write(r)
  <2>1. PICK x : /\ q.pc = "write" /\ versions' = versions \cup {x} /\ Latest' = Latest + 1
                 /\ \A p : p # r /\ (Locked(q) => p # q.of) => PendingOf(p)' = PendingOf(p)
                 /\ x.by = r /\ Step(r, "done") /\ (draft' # NoDraft => draft' = draft)
    <3>1. PICK x : WriteAdds(r, q, x)
      BY <1>1, <1>2, WritesAdd
    <3> QED BY <3>1 DEF WriteAdds
  <2> QED BY <1>1, <2>1, CommitExact
<1>3. CASE Close(r)
  <2>1. PICK x : /\ q.pc = "close" /\ Locked(q) /\ versions' = versions \cup {x}
                 /\ Latest' = Latest + 1 /\ x.by = r /\ Step(r, "done") /\ draft' = draft
                 /\ \A p : p # q.of => PendingOf(p)' = PendingOf(p)
    BY <1>1, <1>3, CloseAdds
  <2> QED BY <1>1, <2>1, CommitExact
<1>4. CASE CommitMarks(r)
  <2>1. /\ q.pc = "commit" /\ edits' = Resolved(r) /\ Step(r, "done") /\ UNCHANGED <<versions, draft>>
    BY <1>1, <1>4 DEF CommitMarks
  <2>2. Locked(q) /\ q.staged \subseteq PendingOf(q.of)
    BY <1>1, <2>1 DEF DocInv, ReqSound, Locked
  <2>3. \A p : p # q.of => PendingOf(p)' = PendingOf(p)
    BY <1>1, <2>1, <2>2, ResolvedIs
  <2> QED BY <1>1, <2>1, <2>2, <2>3, CommitExact
<1> QED BY <1>2, <1>3, <1>4

LEMMA HistStepKeeps == DocInv /\ HistInv /\ [DocNext]_docVars => HistInv'
<1> SUFFICES ASSUME DocInv, HistInv, [DocNext]_docVars PROVE HistInv'
  OBVIOUS
<1>1. CASE UNCHANGED docVars
  <2>1. UNCHANGED <<versions, edits, draft, req>>
    BY <1>1 DEF docVars
  <2>2. ASSUME NEW r \in Editors PROVE Exact(r, req[r])'
    <3>1. PICK t : t = req[r] /\ Exact(r, t)
      BY DEF HistInv
    <3>2. Exact(r, t)'
      BY <2>1, <3>1, SameExact
    <3> QED BY <2>1, <3>1, <3>2
  <2>3. (\A r \in Editors : Exact(r, req[r]))'
    BY <2>2
  <2>4. WithFile' # {} /\ (draft' # NoDraft => \E w \in Editors : draft'.text = TextOf(w))
    BY <2>1 DEF HistInv, WithFile
  <2> QED BY <2>3, <2>4 DEF HistInv
<1>2. ASSUME NEW r \in Editors,
             \/ Propose(r) \/ SaveManual(r) \/ SaveWorkspace(r) \/ Upload(r) \/ Restore(r)
             \/ Replicate(r) \/ LoadDraft(r) \/ CommitDraft(r) \/ ResolveOne(r) \/ ResolveAll(r)
      PROVE  HistInv'
  BY <1>2, StartsExact
<1>3. ASSUME NEW r \in Editors, DocStep(r) \/ DocAbort(r)
      PROVE  HistInv'
  BY <1>3, ReadsExact, EndsExact, CommitsExact DEF DocStep
<1> QED BY <1>1, <1>2, <1>3 DEF DocNext

-----------------------------------------------------------------------------
(* The numbered versions are the rows of the history.                      *)

LEMMA HistoryIs ==
  ASSUME Numbered
  PROVE  /\ NumberedVersions \in Seq(versions) /\ Len(NumberedVersions) = Latest
         /\ \A v \in versions : NumberedVersions[v.number] = v
         /\ Abstract!Rows = versions
<1>1. /\ Latest \in Nat /\ {v.number : v \in versions} = 1..Latest
      /\ \A v \in versions : v.number \in 1..Latest
  BY LatestIs
<1>2. \A v, w \in versions : v.number = w.number => v = w
  BY DEF Numbered
<1>3. ASSUME NEW n \in 1..Latest
      PROVE  NumberedVersions[n] \in versions /\ NumberedVersions[n].number = n
  <2>1. PICK u : u = CHOOSE v \in versions : v.number = n
    OBVIOUS
  <2>2. \E v \in versions : v.number = n
    <3>1. n \in {v.number : v \in versions}
      BY <1>1
    <3> QED BY <3>1
  <2>3. u \in versions /\ u.number = n
    BY <2>1, <2>2
  <2> QED BY <2>1, <2>3 DEF NumberedVersions
<1>4. /\ NumberedVersions \in [1..Latest -> versions]
      /\ DOMAIN NumberedVersions = 1..Latest
  <2>1. NumberedVersions = [n \in 1..Latest |-> NumberedVersions[n]]
    BY DEF NumberedVersions
  <2> QED BY <1>3, <2>1
<1>5. NumberedVersions \in Seq(versions) /\ Len(NumberedVersions) = Latest
  BY <1>1, <1>4
<1>6. \A v \in versions : NumberedVersions[v.number] = v
  BY <1>1, <1>2, <1>3
<1>7. Abstract!Rows = versions
  <2>1. Abstract!Rows = {NumberedVersions[n] : n \in 1..Latest}
    BY <1>4 DEF Abstract!Rows
  <2> QED BY <1>1, <1>3, <1>6, <2>1
<1> QED BY <1>5, <1>6, <1>7

LEMMA HistoryGrows ==
  ASSUME Numbered, NEW x, versions' = versions \cup {x}, x.number = Latest + 1,
         Latest' = Latest + 1, Numbered'
  PROVE  NumberedVersions' = Append(NumberedVersions, x)
<1>1. /\ Latest \in Nat /\ {v.number : v \in versions} = 1..Latest
      /\ \A v \in versions : v.number \in 1..Latest
  BY LatestIs
<1>2. PICK H, V : H = NumberedVersions /\ V = versions'
  OBVIOUS
<1>3. H \in Seq(V) /\ Len(H) = Latest
  <2>1. H \in Seq(versions) /\ Len(H) = Latest
    BY <1>2, HistoryIs
  <2>2. versions \subseteq V
    BY <1>2
  <2> QED BY <2>1, <2>2
<1>4. \A v, w \in V : v.number = w.number => v = w
  BY <1>2 DEF Numbered
<1>5. ASSUME NEW n \in 1..(Latest + 1)
      PROVE  NumberedVersions'[n] = Append(H, x)[n]
  <2>1. NumberedVersions'[n] = CHOOSE v \in V : v.number = n
    BY <1>2 DEF NumberedVersions
  <2>2. PICK w : w = Append(H, x)[n] /\ w \in V /\ w.number = n
    <3>1. CASE n \in 1..Latest
      <4>1. PICK v \in versions : v.number = n
        <5>1. n \in {v.number : v \in versions}
          BY <1>1, <3>1
        <5> QED BY <5>1
      <4>2. H[n] = v
        BY <1>2, <4>1, HistoryIs
      <4>3. Append(H, x)[n] = H[n]
        BY <1>3, <3>1
      <4> QED BY <1>2, <4>1, <4>2, <4>3
    <3>2. CASE n = Latest + 1
      <4>1. Append(H, x)[n] = x
        BY <1>1, <1>3, <3>2
      <4> QED BY <1>2, <3>2, <4>1
    <3>3. n \in 1..Latest \/ n = Latest + 1
      BY <1>1
    <3> QED BY <3>1, <3>2, <3>3
  <2>3. PICK u : u = CHOOSE v \in V : v.number = n
    OBVIOUS
  <2>4. u \in V /\ u.number = n
    BY <2>2, <2>3
  <2> QED BY <1>4, <2>1, <2>2, <2>3, <2>4
<1>6. NumberedVersions' = [n \in 1..(Latest + 1) |-> NumberedVersions'[n]]
  BY DEF NumberedVersions
<1>7. Append(H, x) = [n \in 1..(Latest + 1) |-> Append(H, x)[n]]
  <2>1. x \in V
    BY <1>2
  <2>2. Append(H, x) \in Seq(V) /\ Len(Append(H, x)) = Latest + 1
    BY <1>1, <1>3, <2>1
  <2>3. PICK S \in Seq(V) : S = Append(H, x) /\ Len(S) = Latest + 1
    BY <2>2
  <2>4. S = [n \in 1..Len(S) |-> S[n]]
    OBVIOUS
  <2> QED BY <2>3, <2>4
<1> QED BY <1>2, <1>5, <1>6, <1>7

\* The history has its own names for the rows.
LEMMA SameNames ==
  /\ Abstract!Edits = Edits /\ Abstract!NoText = NoText /\ Abstract!EmptyText = EmptyText
  /\ Abstract!NoFile = NoFile
  /\ \A w : Abstract!TextOf(w) = TextOf(w)
  /\ \A w, b : Abstract!FileOf(w, b) = FileOf(w, b)
  /\ \A f : Abstract!Extract(f) = Extract(f)
  /\ \A V : Abstract!Newest(V) = Newest(V)
  /\ \A v : /\ Abstract!Restorable(v) = Restorable(v) /\ Abstract!RestoredFile(v) = RestoredFile(v)
            /\ Abstract!RestoredText(v) = RestoredText(v)
  /\ \A t, a, s : Abstract!ApplyAccepted(t, a, s) = ApplyAccepted(t, a, s)
  /\ \A n, k, r, p, t, f, m : Abstract!Version(n, k, r, p, t, f, m) = Version(n, k, r, p, t, f, m)
<1>1. /\ Abstract!Edits = Edits /\ Abstract!NoText = NoText /\ Abstract!EmptyText = EmptyText
      /\ Abstract!NoFile = NoFile
  BY DEF Abstract!Edits, Edits, Abstract!NoText, NoText, Abstract!EmptyText, EmptyText,
         Abstract!NoFile, NoFile
<1>2. /\ \A w : Abstract!TextOf(w) = TextOf(w)
      /\ \A w, b : Abstract!FileOf(w, b) = FileOf(w, b)
      /\ \A f : Abstract!Extract(f) = Extract(f)
  BY <1>1 DEF Abstract!TextOf, TextOf, Abstract!FileOf, FileOf, Abstract!Extract, Extract
<1>3. \A V : Abstract!Newest(V) = Newest(V)
  BY DEF Abstract!Newest, Newest
<1>4. \A v : /\ Abstract!Restorable(v) = Restorable(v) /\ Abstract!RestoredFile(v) = RestoredFile(v)
             /\ Abstract!RestoredText(v) = RestoredText(v)
  BY <1>1, <1>2 DEF Abstract!Restorable, Restorable, Abstract!RestoredFile, RestoredFile,
         Abstract!RestoredText, RestoredText
<1>5. \A t, a, s : Abstract!ApplyAccepted(t, a, s) = ApplyAccepted(t, a, s)
  BY <1>1 DEF Abstract!ApplyAccepted, ApplyAccepted
<1>6. \A n, k, r, p, t, f, m : Abstract!Version(n, k, r, p, t, f, m) = Version(n, k, r, p, t, f, m)
  BY DEF Abstract!Version, Version
<1> QED BY <1>1, <1>2, <1>3, <1>4, <1>5, <1>6

\* A commit of the next version adds it to the history.
LEMMA AddRefines ==
  ASSUME DocInv, NEW r \in Editors, req[r].pc # "done", NEW n, NEW kind, NEW p, NEW text, NEW file, NEW notes,
         NEW x, x = Version(n, kind, r, p, text, file, notes), versions' = versions \cup {x},
         n = Latest + 1, Latest' = Latest + 1, Numbered'
  PROVE  Abstract!Add(r, kind, p, text, file, notes) /\ NumberedVersions' # NumberedVersions
<1>1. \A v \in versions : v.by # r
  BY DocumentAssumption DEF DocInv, Authored
<1>2. Abstract!Rows = versions /\ Len(NumberedVersions) = Latest
  BY HistoryIs DEF DocInv
<1>3. NumberedVersions' = Append(NumberedVersions, x)
  <2>1. x.number = n
    BY DEF Version
  <2> QED BY <2>1, HistoryGrows DEF DocInv
<1>4. x = Abstract!Version(Len(NumberedVersions) + 1, kind, r, p, text, file, notes)
  BY <1>2, SameNames
<1>5. NumberedVersions' # NumberedVersions
  <2>1. NumberedVersions \in Seq(versions)
    BY HistoryIs DEF DocInv
  <2>2. NumberedVersions \in Seq(versions \cup {x}) /\ x \in versions \cup {x}
    BY <2>1
  <2>3. Len(Append(NumberedVersions, x)) = Len(NumberedVersions) + 1 /\ Len(NumberedVersions) \in Nat
    BY <2>2
  <2> QED BY <1>3, <2>3
<1> QED BY <1>1, <1>2, <1>3, <1>4, <1>5 DEF Abstract!Add

\* What the next version continues is what get_base_text and the document row give.
LEMMA CurrentIs ==
  ASSUME DocInv
  PROVE  Abstract!ActiveFile = document /\ Abstract!CurrentText = BaseText
<1>1. Abstract!Rows = versions
  BY HistoryIs DEF DocInv
<1>2. Abstract!ActiveFile = document
  BY <1>1, SameNames DEF DocInv, ActiveMovesTogether, Abstract!ActiveFile
<1>3. {v \in Abstract!Rows : v.text # Abstract!NoText} = TextVersions
  BY <1>1, SameNames DEF TextVersions
<1>4. document \in Files /\ body = Extract(document)
  BY DEF DocInv, ActiveMovesTogether
<1>5. (IF body # NoText THEN body ELSE EmptyText)
      = IF document.readable THEN document.says ELSE EmptyText
  BY <1>4, ExtractIs, TextKinds
<1>6. Abstract!CurrentText = IF TextVersions # {} THEN Abstract!Newest(TextVersions).text
                             ELSE IF document.readable THEN document.says ELSE EmptyText
  BY <1>2, <1>3, SameNames DEF Abstract!CurrentText
<1> QED BY <1>2, <1>5, <1>6, SameNames DEF BaseText

LEMMA ProposalNames ==
  ASSUME DocInv
  PROVE  /\ Abstract!OpenProposals = Proposals
         /\ \A p : Abstract!PendingEdits(p) = PendingOf(p)
         /\ \A p : Abstract!Resolutions(p) = Closings(p)
<1>1. Abstract!Rows = versions
  BY HistoryIs DEF DocInv
<1>2. \A p : Abstract!PendingEdits(p) = PendingOf(p)
  BY SameNames DEF Abstract!PendingEdits, PendingOf, EditsOf
<1> QED BY <1>1, <1>2 DEF Abstract!OpenProposals, Proposals, Abstract!Resolutions, Closings, ClosingKinds

LEMMA DecideIs ==
  ASSUME NEW r, NEW verdict, verdict = Verdict(req[r].op), edits' = Resolved(r)
  PROVE  Abstract!Decide(req[r].staged, verdict)
<1>1. Resolved(r) = [e \in Edits |-> IF e \in req[r].staged THEN verdict ELSE edits[e]]
  BY DEF Resolved
<1> QED BY <1>1, SameNames DEF Abstract!Decide

LEMMA WriteRefines ==
  ASSUME DocInv, HistInv, NEW r \in Editors, Write(r)
  PROVE  Abstract!HistoryNext
<1>1. PICK q : q = req[r] /\ Exact(r, q)
  BY DEF HistInv
<1>2. PICK x : WriteAdds(r, q, x)
  BY <1>1, WritesAdd
<1>3. /\ x = Version(q.num, KindOf(q.op), r, IF q.op \in ResolveOps THEN q.of ELSE r, q.text,
                     q.file, IF q.op \in ResolveOps THEN "placeholder" ELSE "")
      /\ ReqSound(q) /\ NewVersionSound(q) /\ q.pc = "write"
      /\ versions' = versions \cup {x} /\ q.num = Latest + 1 /\ Latest' = Latest + 1 /\ Numbered'
      /\ edits' \in IF q.op = "propose" THEN WithPending(r) ELSE {Resolved(r)}
  BY <1>2 DEF WriteAdds
<1>4. PICK kind, p, notes : /\ kind = KindOf(q.op) /\ p = IF q.op \in ResolveOps THEN q.of ELSE r
                            /\ notes = IF q.op \in ResolveOps THEN "placeholder" ELSE ""
  OBVIOUS
<1>5. Abstract!Add(r, kind, p, q.text, q.file, notes) /\ NumberedVersions' # NumberedVersions
  BY <1>1, <1>3, <1>4, AddRefines
<1>6. q.op \notin ResolveOps /\ q.op # "propose" => UNCHANGED edits
  <2> SUFFICES ASSUME q.op \notin ResolveOps, q.op # "propose" PROVE UNCHANGED edits
    OBVIOUS
  <2>1. edits' = Resolved(r) /\ q.staged = {}
    BY <1>3 DEF NewVersionSound
  <2>2. Resolved(r) = [e \in Edits |-> edits[e]]
    BY <1>1, <2>1 DEF Resolved
  <2>3. edits = [e \in Edits |-> edits[e]]
    BY DEF DocInv
  <2> QED BY <2>1, <2>2, <2>3
<1>7. CASE q.op \in {"save", "commit_draft"}
  <2>1. PICK w \in Editors : q.text = TextOf(w)
    BY <1>1, <1>3, <1>7 DEF Exact
  <2>2. kind = "user_edit" /\ p = r /\ notes = "" /\ q.file = NoFile /\ UNCHANGED edits
    BY <1>3, <1>4, <1>6, <1>7 DEF KindOf, ResolveOps, NewVersionSound
  <2>3. Abstract!AddText(r)
    BY <1>5, <2>1, <2>2, SameNames DEF Abstract!AddText
  <2> QED BY <1>5, <2>3 DEF Abstract!HistoryNext
<1>8. CASE q.op = "upload"
  <2>1. PICK readable \in BOOLEAN : q.file = FileOf(r, readable)
    BY <1>1, <1>3, <1>8 DEF Exact
  <2>2. kind = "upload" /\ p = r /\ notes = "" /\ q.text = Extract(q.file) /\ UNCHANGED edits
    BY <1>3, <1>4, <1>6, <1>8 DEF KindOf, ResolveOps, NewVersionSound
  <2>3. Abstract!AddFile(r)
    BY <1>5, <2>1, <2>2, SameNames DEF Abstract!AddFile
  <2> QED BY <1>5, <2>3 DEF Abstract!HistoryNext
<1>9. CASE q.op = "restore"
  <2>1. PICK v \in versions : Restorable(v) /\ q.text = RestoredText(v) /\ q.file = RestoredFile(v)
    BY <1>1, <1>3, <1>9 DEF Exact
  <2>2. kind = "restored" /\ p = r /\ notes = "" /\ UNCHANGED edits
    BY <1>3, <1>4, <1>6, <1>9 DEF KindOf, ResolveOps
  <2>3. Abstract!Rows = versions
    BY HistoryIs DEF DocInv
  <2>4. Abstract!AddRestored(r)
    BY <1>5, <2>1, <2>2, <2>3, SameNames DEF Abstract!AddRestored
  <2> QED BY <1>5, <2>4 DEF Abstract!HistoryNext
<1>10. CASE q.op = "replicate"
  <2>1. kind = "replicated" /\ p = r /\ notes = "" /\ UNCHANGED edits /\ q.text = NoText /\ q.file = document
    BY <1>3, <1>4, <1>6, <1>10 DEF KindOf, ResolveOps, NewVersionSound
  <2>2. Abstract!AddReplica(r)
    BY <1>5, <2>1, SameNames, CurrentIs DEF Abstract!AddReplica
  <2> QED BY <1>5, <2>2 DEF Abstract!HistoryNext
<1>11. CASE q.op = "propose"
  <2>1. kind = "assistant_edit" /\ p = r /\ notes = "" /\ q.text = NoText /\ q.file = NoFile
    BY <1>1, <1>3, <1>4, <1>11 DEF KindOf, ResolveOps, NewVersionSound, Exact
  <2>2. edits' \in WithPending(r)
    BY <1>3, <1>11
  <2>3. \A e \in Edits : e[1] = r => edits[e] = "none"
    BY <1>1, <1>3 DEF DocInv, Authored
  <2>4. Abstract!AddProposal(r)
    BY <1>5, <2>1, <2>2, <2>3, SameNames DEF Abstract!AddProposal, WithPending
  <2> QED BY <1>5, <2>4 DEF Abstract!HistoryNext
<1>12. CASE q.op \in {"accept_all", "reject_all"}
  <2>1. /\ kind = IF q.op = "accept_all" THEN "user_accept" ELSE "user_reject"
        /\ p = q.of /\ notes = "placeholder" /\ q.file = NoFile /\ edits' = Resolved(r)
        /\ Verdict(q.op) = IF q.op = "accept_all" THEN "accepted" ELSE "rejected"
        /\ q.op \in ResolveOps
    BY <1>3, <1>4, <1>12 DEF KindOf, ResolveOps, NewVersionSound, Verdict
  <2>2. q.text # NoText /\ Closings(q.of) = {}
    BY <1>3, <2>1 DEF NewVersionSound
  <2>3. PICK v \in versions : q.text \in {EmptyText, Extract(v.file)}
    BY <1>1, <1>3, <2>1 DEF Exact
  <2>4. PICK u \in Proposals : u.by = q.of /\ u.number < Latest
    BY <1>1, <1>3, <2>1 DEF Exact, ReqSound
  <2>5. q.staged = PendingOf(q.of)
    BY <1>1, <1>3, <2>1 DEF Exact, ReqSound, Locked
  <2>6. PICK f : f \in {w.file : w \in Abstract!Rows}
                 /\ q.text \in {Abstract!EmptyText, Abstract!Extract(f)} \ {Abstract!NoText}
    <3>1. Abstract!Rows = versions
      BY HistoryIs DEF DocInv
    <3> QED BY <2>2, <2>3, <3>1, SameNames
  <2>7. /\ u \in Abstract!OpenProposals /\ u.number < Len(NumberedVersions)
        /\ Abstract!Resolutions(u.by) = {}
        /\ Abstract!PendingEdits(u.by) = q.staged
    BY <2>2, <2>4, <2>5, ProposalNames, HistoryIs DEF DocInv
  <2>8. /\ q.op = "accept_all" => Abstract!Decide(q.staged, "accepted")
        /\ q.op = "reject_all" => Abstract!Decide(q.staged, "rejected")
    BY <1>1, <2>1, DecideIs
  <2>9. Abstract!Add(r, kind, u.by, q.text, Abstract!NoFile, "placeholder")
    BY <1>5, <2>1, <2>4, SameNames
  <2>10. Abstract!CloseLate(r)
    BY <1>12, <2>1, <2>6, <2>7, <2>8, <2>9 DEF Abstract!CloseLate
  <2> QED BY <1>5, <2>10 DEF Abstract!HistoryNext
<1> QED BY <1>3, <1>7, <1>8, <1>9, <1>10, <1>11, <1>12 DEF NewVersionSound

LEMMA CloseRefines ==
  ASSUME DocInv, HistInv, NEW r \in Editors, Close(r)
  PROVE  Abstract!HistoryNext
<1>1. PICK q : q = req[r] /\ Exact(r, q)
  BY DEF HistInv
<1>2. PICK acc, skipped, x :
           /\ acc \in SUBSET Edits /\ skipped \in SUBSET acc
           /\ acc = {e \in EditsOf(q.of) : Resolved(r)[e] = "accepted"}
           /\ q.text = EmptyText => skipped = acc
           /\ x = Version(q.num, IF acc # {} THEN "user_accept" ELSE "user_reject", r, q.of,
                          ApplyAccepted(q.text, acc, skipped), NoFile, "resolved")
           /\ ReqSound(q) /\ q.pc = "close" /\ Locked(q) /\ q.staged \subseteq PendingOf(q.of)
           /\ versions' = versions \cup {x} /\ q.num = Latest + 1 /\ Latest' = Latest + 1 /\ Numbered'
           /\ edits' = Resolved(r) /\ x.by = r /\ Step(r, "done") /\ draft' = draft
           /\ \A p : p # q.of => PendingOf(p)' = PendingOf(p)
  BY <1>1, CloseAdds
<1>3. q.text = BaseText
  BY <1>2 DEF ReqSound
<1>4. PICK u \in Proposals : u.by = q.of
  BY <1>2 DEF ReqSound, Locked
<1>5. u.number = Latest
  <2>1. q.num = u.number + 1
    BY <1>1, <1>2, <1>4 DEF Exact
  <2>2. Latest \in Nat /\ u.number \in Nat
    BY <1>4, LatestIs DEF DocInv, Proposals
  <2> QED BY <1>2, <2>1, <2>2
<1>6. q.staged = PendingOf(q.of)
  BY <1>1, <1>2 DEF Exact, Locked
<1>7. acc = {e \in Edits : e[1] = q.of /\ edits'[e] = "accepted"}
  <2>1. ASSUME NEW e \in Edits, e[1] = q.of, edits'[e] = "accepted" PROVE edits[e] # "none"
    <3>1. CASE e \in q.staged
      BY <1>6, <3>1 DEF PendingOf
    <3>2. CASE e \notin q.staged
      BY <1>1, <1>2, <2>1, <3>2 DEF Resolved
    <3> QED BY <3>1, <3>2
  <2> QED BY <1>2, <2>1 DEF EditsOf
<1>8. PICK text, kind : /\ text = ApplyAccepted(q.text, acc, skipped)
                        /\ kind = IF acc # {} THEN "user_accept" ELSE "user_reject"
  OBVIOUS
<1>9. Abstract!Add(r, kind, q.of, text, NoFile, "resolved") /\ NumberedVersions' # NumberedVersions
  BY <1>1, <1>2, <1>8, AddRefines
<1>10. PICK verdict \in {"accepted", "rejected"} : verdict = Verdict(q.op)
  BY DEF Verdict
<1>11. Abstract!Decide(Abstract!PendingEdits(u.by), verdict)
  <2>1. Abstract!PendingEdits(u.by) = q.staged
    BY <1>4, <1>6, ProposalNames
  <2> QED BY <1>1, <1>2, <1>10, <2>1, DecideIs
<1>12. u \in Abstract!OpenProposals /\ u.number = Len(NumberedVersions)
  BY <1>4, <1>5, ProposalNames, HistoryIs DEF DocInv
<1>13. /\ acc = {e \in Abstract!Edits : e[1] = u.by /\ edits'[e] = "accepted"}
       /\ Abstract!CurrentText = Abstract!EmptyText => skipped = acc
       /\ text = Abstract!ApplyAccepted(Abstract!CurrentText, acc, skipped)
       /\ Abstract!Add(r, IF acc # {} THEN "user_accept" ELSE "user_reject", u.by, text,
                       Abstract!NoFile, "resolved")
  BY <1>2, <1>3, <1>4, <1>7, <1>8, <1>9, SameNames, CurrentIs
<1>14. Abstract!CloseProposal(r)
  BY <1>2, <1>10, <1>11, <1>12, <1>13 DEF Abstract!CloseProposal
<1> QED BY <1>9, <1>14 DEF Abstract!HistoryNext

LEMMA CommitMarksRefines ==
  ASSUME DocInv, NEW r \in Editors, CommitMarks(r)
  PROVE  Abstract!HistoryNext
<1>1. PICK q : q = req[r] /\ ReqSound(q) /\ q.pc = "commit"
  BY DEF DocInv, CommitMarks
<1>2. edits' = Resolved(r) /\ versions' = versions
  BY DEF CommitMarks
<1>3. Locked(q) /\ q.staged \subseteq PendingOf(q.of)
  BY <1>1 DEF ReqSound, Locked
<1>4. PICK u \in Proposals : u.by = q.of
  BY <1>1 DEF ReqSound
<1>5. PICK verdict \in {"accepted", "rejected"} : verdict = Verdict(q.op)
  BY DEF Verdict
<1>6. Abstract!Decide(q.staged, verdict)
  BY <1>1, <1>2, <1>5, DecideIs
<1>7. /\ u \in Abstract!OpenProposals /\ Abstract!PendingEdits(u.by) = PendingOf(q.of)
      /\ Len(NumberedVersions) = Latest
  BY <1>4, ProposalNames, HistoryIs DEF DocInv
<1>8. PendingOf(q.of) \ q.staged # {} \/ u.number < Latest
  BY <1>1, <1>4 DEF ReqSound
<1>9. NumberedVersions' = NumberedVersions
  BY <1>2 DEF NumberedVersions, Latest
<1>10. Abstract!DecideSome
  BY <1>3, <1>5, <1>6, <1>7, <1>8, <1>9 DEF Abstract!DecideSome
<1> QED BY <1>10 DEF Abstract!HistoryNext

LEMMA HistoryStarts == DocInit => Abstract!HistoryInit
<1> SUFFICES ASSUME DocInit PROVE Abstract!HistoryInit
  OBVIOUS
<1>1. PICK v : /\ v = Version(1, "upload", Original, Original, NoText, FileOf(Original, TRUE), "")
               /\ versions = {v} /\ edits = [e \in Edits |-> "none"]
  BY DEF DocInit
<1>2. v.number = 1
  BY <1>1 DEF Version
<1>3. Numbered
  BY DocStarts DEF DocInv
<1>4. Latest = 1
  <2>1. {w.number : w \in versions} = {1}
    BY <1>1, <1>2
  <2>2. {1} = 1..Latest /\ Latest \in Nat \ {0}
    BY <1>3, <2>1, LatestIs
  <2>3. Latest \in 1..Latest
    BY <2>2
  <2> QED BY <2>2, <2>3
<1>5. NumberedVersions = <<v>>
  <2>1. NumberedVersions = [n \in 1..1 |-> NumberedVersions[n]]
    BY <1>4 DEF NumberedVersions
  <2>2. NumberedVersions[1] = v
    BY <1>1, <1>2, <1>3, HistoryIs
  <2> QED BY <2>1, <2>2
<1> QED BY <1>1, <1>5, SameNames DEF Abstract!HistoryInit

\* Every step of a request is a step of the history or leaves it unchanged.
LEMMA HistoryStepRefines ==
  ASSUME DocInv, HistInv, [DocNext]_docVars
  PROVE  [Abstract!HistoryNext]_(Abstract!hvars)
<1>1. ASSUME UNCHANGED <<versions, edits>> PROVE UNCHANGED Abstract!hvars
  BY <1>1 DEF Abstract!hvars, NumberedVersions, Latest
<1>2. CASE UNCHANGED docVars
  BY <1>1, <1>2 DEF docVars
<1>3. ASSUME NEW r \in Editors,
             \/ Propose(r) \/ SaveManual(r) \/ SaveWorkspace(r) \/ Upload(r) \/ Restore(r)
             \/ Replicate(r) \/ LoadDraft(r) \/ CommitDraft(r) \/ ResolveOne(r) \/ ResolveAll(r)
      PROVE  UNCHANGED <<versions, edits>>
  BY <1>3 DEF Propose, SaveManual, SaveWorkspace, Upload, Restore, Replicate, LoadDraft, CommitDraft,
              ResolveOne, ResolveAll, CreateUserEdit, Begin
<1>4. ASSUME NEW r \in Editors,
             \/ ReadNumber(r) \/ Conflict(r) \/ WriteDraft(r) \/ DraftConflict(r) \/ MarkEdits(r)
             \/ ReadLatest(r) \/ ReadBase(r) \/ DocAbort(r)
      PROVE  UNCHANGED <<versions, edits>>
  BY <1>4 DEF ReadNumber, Conflict, WriteDraft, DraftConflict, MarkEdits, ReadLatest, ReadBase, DocAbort
<1>5. ASSUME NEW r \in Editors, Write(r) \/ Close(r) \/ CommitMarks(r)
      PROVE  Abstract!HistoryNext
  BY <1>5, WriteRefines, CloseRefines, CommitMarksRefines
<1> QED BY <1>1, <1>2, <1>3, <1>4, <1>5 DEF DocNext, DocStep

(***************************************************************************)
(* Whatever the requests and their number, the versions of a document are  *)
(* the history of DocumentHistory: a request takes effect at its commit    *)
(* (the insert that the unique index lets through), as one step that reads *)
(* the newest text, the active file and the statuses there and then.       *)
(***************************************************************************)
THEOREM VersionsAreHistory == DocSpec => ImplementsHistory
<1>1. DocSpec => [](DocInv /\ HistInv)
  <2>1. DocInit => DocInv /\ HistInv
    BY DocStarts, HistStarts
  <2>2. DocInv /\ HistInv /\ [DocNext]_docVars => DocInv' /\ HistInv'
    BY DocStepKeeps, HistStepKeeps
  <2> QED BY <2>1, <2>2, PTL DEF DocSpec
<1>2. (DocInv /\ HistInv) /\ [DocNext]_docVars => [Abstract!HistoryNext]_(Abstract!hvars)
  BY HistoryStepRefines
<1> QED BY <1>1, <1>2, HistoryStarts, PTL DEF DocSpec, ImplementsHistory, Abstract!HistorySpec
=============================================================================
