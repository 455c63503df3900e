---------------------------- MODULE DocumentRows ----------------------------
(***************************************************************************)
(* The rows of a document's version history: what a text, a file and a     *)
(* version are, and how one is made from another.                          *)
(*                                                                         *)
(* A text is the request it came from and the model edits applied to it; a *)
(* file is a text and whether its text can be extracted.                   *)
(***************************************************************************)
EXTENDS Naturals, FiniteSets

CONSTANTS
  Editors,        \* requests on the document; each runs once
  Original,       \* the file the document was uploaded with
  PerProposal     \* bound: edits of one proposal

ASSUME DocumentAssumption ==
  /\ IsFiniteSet(Editors) /\ Original \notin Editors
  /\ {"null", "empty"} \cap (Editors \cup {Original}) = {}
  /\ PerProposal \in Nat

Edits == Editors \X (1..PerProposal)
Texts == [src : Editors \cup {Original}, applied : SUBSET Edits]
NoText == [src |-> "null", applied |-> {}]       \* resolved_text IS NULL
EmptyText == [src |-> "empty", applied |-> {}]   \* of an unreadable file
Files == [says : Texts, readable : BOOLEAN]
NoFile == [says |-> NoText, readable |-> FALSE]

TextOf(r) == [src |-> r, applied |-> {}]
FileOf(r, readable) == [says |-> TextOf(r), readable |-> readable]

\* extract_text of the bytes of a file.
Extract(f) == IF f.readable THEN f.says ELSE NoText

\* A version row; of is the proposal it resolves, or its own creator.
Version(n, kind, r, of, text, file, notes) ==
  [number |-> n, kind |-> kind, by |-> r, of |-> of, text |-> text,
   file |-> file, notes |-> notes]

Newest(V) == CHOOSE v \in V : \A w \in V : w.number <= v.number

\* The file of a restored version is extracted again; a version without one is
\* stored as a text file.
Restorable(v) == v.file # NoFile \/ v.text \notin {NoText, EmptyText}
RestoredFile(v) ==
  IF v.file # NoFile THEN v.file ELSE [says |-> v.text, readable |-> TRUE]
RestoredText(v) ==
  IF RestoredFile(v).readable THEN Extract(RestoredFile(v)) ELSE v.text

\* apply_all_accepted: an edit whose anchor is not in the text is skipped.
ApplyAccepted(text, accepted, skipped) ==
  IF text = EmptyText THEN EmptyText
  ELSE [text EXCEPT !.applied = @ \cup (accepted \ skipped)]
=============================================================================
