--------------------------- MODULE DocumentHistory ---------------------------
(***************************************************************************)
(* What the versions of a document promise, without transactions, locks    *)
(* and numbers that are read before they are used: a history to which      *)
(* every request that succeeds adds at most one version, at once and from  *)
(* the history as it is at that moment, and edits that are decided once.   *)
(* A proposal is closed with its last edit, if nothing has followed it.    *)
(***************************************************************************)
EXTENDS DocumentRows, Sequences

VARIABLES
  history,   \* the versions in their order
  status     \* status by edit

hvars == <<history, status>>

HistoryInit ==
  /\ history = <<Version(1, "upload", Original, Original, NoText,
                         FileOf(Original, TRUE), "")>>
  /\ status = [e \in Edits |-> "none"]

Rows == {history[n] : n \in DOMAIN history}

\* The file that downloads and the reader show.
ActiveFile == Newest({v \in Rows : v.file # NoFile}).file

\* The text that the next one continues.
CurrentText ==
  LET texts == {v \in Rows : v.text # NoText}
  IN  IF texts # {} THEN Newest(texts).text
      ELSE IF ActiveFile.readable THEN ActiveFile.says ELSE EmptyText

\* A request adds one version.
Add(r, kind, of, text, file, notes) ==
  /\ \A v \in Rows : v.by # r
  /\ history' = Append(history, Version(Len(history) + 1, kind, r, of, text, file, notes))

AddText(r) ==
  /\ \E w \in Editors : Add(r, "user_edit", r, TextOf(w), NoFile, "")
  /\ UNCHANGED status

AddFile(r) ==
  /\ \E readable \in BOOLEAN :
       LET f == FileOf(r, readable) IN Add(r, "upload", r, Extract(f), f, "")
  /\ UNCHANGED status

AddRestored(r) ==
  /\ \E v \in Rows : Restorable(v) /\ Add(r, "restored", r, RestoredText(v), RestoredFile(v), "")
  /\ UNCHANGED status

AddReplica(r) == Add(r, "replicated", r, NoText, ActiveFile, "") /\ UNCHANGED status

AddProposal(r) ==
  /\ Add(r, "assistant_edit", r, NoText, NoFile, "")
  /\ \A e \in Edits : e[1] = r => status[e] = "none"
  /\ \E n \in 0..PerProposal :
       status' = [e \in Edits |-> IF e \in {r} \X (1..n) THEN "pending" ELSE status[e]]
-----------------------------------------------------------------------------
OpenProposals == {v \in Rows : v.kind = "assistant_edit"}
PendingEdits(p) == {e \in Edits : e[1] = p /\ status[e] = "pending"}
Resolutions(p) == {v \in Rows : v.kind \in {"user_accept", "user_reject"} /\ v.of = p}

Decide(E, verdict) == status' = [e \in Edits |-> IF e \in E THEN verdict ELSE status[e]]

\* Some pending edits are decided, and others stay pending or a version has
\* followed the proposal.
DecideSome ==
  /\ \E p \in OpenProposals, verdict \in {"accepted", "rejected"} :
       \E E \in SUBSET PendingEdits(p.by) :
         /\ PendingEdits(p.by) \ E # {} \/ p.number < Len(history)
         /\ Decide(E, verdict)
  /\ UNCHANGED history

\* The last edits of the newest version, which is a proposal, are decided: its
\* accepted edits are applied to the current text.
CloseProposal(r) ==
  \E p \in OpenProposals, verdict \in {"accepted", "rejected"} :
    /\ p.number = Len(history)
    /\ Decide(PendingEdits(p.by), verdict)
    /\ LET accepted == {e \in Edits : e[1] = p.by /\ status'[e] = "accepted"}
       IN  \E skipped \in SUBSET accepted :
             /\ CurrentText = EmptyText => skipped = accepted
             /\ Add(r, IF accepted # {} THEN "user_accept" ELSE "user_reject", p.by,
                    ApplyAccepted(CurrentText, accepted, skipped), NoFile, "resolved")

\* All edits of a proposal that was followed by a version without a text are
\* decided: the answer needs one, and shows that of a file.
CloseLate(r) ==
  \E p \in OpenProposals, f \in {v.file : v \in Rows} :
    /\ p.number < Len(history) /\ Resolutions(p.by) = {}
    /\ \/ /\ Decide(PendingEdits(p.by), "accepted")
          /\ \E text \in {EmptyText, Extract(f)} \ {NoText} :
               Add(r, "user_accept", p.by, text, NoFile, "placeholder")
       \/ /\ Decide(PendingEdits(p.by), "rejected")
          /\ \E text \in {EmptyText, Extract(f)} \ {NoText} :
               Add(r, "user_reject", p.by, text, NoFile, "placeholder")

\* A request adds a version, or edits are decided.
HistoryNext ==
  \/ /\ history' # history
     /\ \E r \in Editors :
          \/ AddText(r) \/ AddFile(r) \/ AddRestored(r) \/ AddReplica(r)
          \/ AddProposal(r) \/ CloseProposal(r) \/ CloseLate(r)
  \/ DecideSome

HistorySpec == HistoryInit /\ [][HistoryNext]_hvars
=============================================================================
