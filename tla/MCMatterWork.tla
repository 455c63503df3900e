---------------------------- MODULE MCMatterWork ----------------------------
(* Model checking of the work on one matter: document versions, reviews and      *)
(* sign-offs, review notes, the assistant, the chronology, the anonymisation,    *)
(* the context store, and the readers of the timeline.  The parts share no       *)
(* variable (the readers have the commits they can observe in their own module), *)
(* so a behaviour of all of them interleaves independent behaviours, and every   *)
(* property below speaks of one part: `part` picks the part that moves, and the  *)
(* states add up instead of multiplying.                                         *)
EXTENDS DocumentVersions, ReviewRecords, ReviewNotes, AssistantTurn, Chronology,
        Anonymisation, MatterContext, MatterExport, TLC

CONSTANTS w1, w2, w3,  \* requests of the parts with three
          r1, r2,      \* requests of the parts with two
          wa, wb       \* words of a document

VARIABLE part

Parts == {"documents", "reviews", "notes", "assistant", "chronology", "anonymisation",
          "context", "export"}

LengthDef == "long" :> 2 @@ "short" :> 1

TextDef == <<wa, wb, wa>>
PrefixOfDef == [PERSON |-> "PARTY"]

TableOfDef == [document |-> "documents", version |-> "versions", artifact |-> "artifacts",
               signoff |-> "signoffs", deletion |-> "deletions",
               transition |-> "transitions", decision |-> "decisions", view |-> "views",
               again |-> "views"]
WorksDef == DOMAIN TableOfDef
PartOfDef == [w \in WorksDef |->
    CASE w \in {"version", "deletion"} -> "document"
      [] w = "signoff" -> "artifact"
      [] OTHER -> NoWork]
EventOfDef == [document |-> 1, version |-> 2, artifact |-> 3, signoff |-> 4,
               deletion |-> 5, transition |-> 6, decision |-> 7, view |-> 8, again |-> 9]

(* Requests of one kind are interchangeable.  The two of the smaller kind are    *)
(* swapped with the odd permutations of the three, which keeps the group at six. *)
Odd(s) == Cardinality({w \in DOMAIN s : s[w] = w}) = 1
Swap == r1 :> r2 @@ r2 :> r1
RequestSymmetry ==
    {s @@ IF Odd(s) THEN Swap ELSE [r \in {r1, r2} |-> r] : s \in Permutations({w1, w2, w3})}

WorkInit ==
    /\ part \in Parts
    /\ DocInit /\ ReviewInit /\ NoteInit /\ AssistantInit /\ ChronologyInit
    /\ AnonymisationInit /\ ContextInit /\ ExportInit
    /\ part # "notes" => text = "long"
    /\ part # "export" => pager.who = "export"

WorkNext ==
    /\ UNCHANGED part
    /\ \/ /\ part = "documents" /\ DocNext
          /\ UNCHANGED <<reviewVars, noteVars, turnVars, chronologyVars,
                         anonymisationVars, contextVars, exportVars>>
       \/ /\ part = "reviews" /\ ReviewNext
          /\ UNCHANGED <<docVars, noteVars, turnVars, chronologyVars,
                         anonymisationVars, contextVars, exportVars>>
       \/ /\ part = "notes" /\ NoteNext
          /\ UNCHANGED <<docVars, reviewVars, turnVars, chronologyVars,
                         anonymisationVars, contextVars, exportVars>>
       \/ /\ part = "assistant" /\ AssistantNext
          /\ UNCHANGED <<docVars, reviewVars, noteVars, chronologyVars,
                         anonymisationVars, contextVars, exportVars>>
       \/ /\ part = "chronology" /\ ChronologyNext
          /\ UNCHANGED <<docVars, reviewVars, noteVars, turnVars,
                         anonymisationVars, contextVars, exportVars>>
       \/ /\ part = "anonymisation" /\ AnonymisationNext
          /\ UNCHANGED <<docVars, reviewVars, noteVars, turnVars,
                         chronologyVars, contextVars, exportVars>>
       \/ /\ part = "context" /\ ContextNext
          /\ UNCHANGED <<docVars, reviewVars, noteVars, turnVars,
                         chronologyVars, anonymisationVars, exportVars>>
       \/ /\ part = "export" /\ ExportNext
          /\ UNCHANGED <<docVars, reviewVars, noteVars, turnVars,
                         chronologyVars, anonymisationVars, contextVars>>

workVars == <<part, docVars, reviewVars, noteVars, turnVars, chronologyVars,
              anonymisationVars, contextVars, exportVars>>

WorkSpec == WorkInit /\ [][WorkNext]_workVars

=============================================================================
