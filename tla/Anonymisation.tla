---------------------------- MODULE Anonymisation ----------------------------
(***************************************************************************)
(* Anonymising one document: an engine finds spans in the extracted text,  *)
(* overlapping ones are dropped, every original gets a numbered token that *)
(* re-runs are to reuse, and the redacted text is stored with the mapping  *)
(* that undoes it.  Requests overlap: each works from the row it read.     *)
(***************************************************************************)
EXTENDS Naturals, Sequences, FiniteSets, FiniteSetsExt, SequencesExt

CONSTANTS
    Redactions,  \* requests
    Text,        \* the extracted body, as a sequence of words
    PrefixOf,    \* entity type -> prefix (ENTITY_PREFIX_MAP)
    MaxSpans,    \* spans an engine returns
    MaxLength,   \* words of a span
    MaxRedactions,
    NoBody

ASSUME AnonymisationAssumption ==
    Text \in Seq(Range(Text)) /\ MaxSpans \in Nat /\ MaxLength \in Nat /\ MaxRedactions \in Nat

VARIABLES
    redactedBody,  \* the redacted DocumentBody: [text, tokens, spans], or NoBody
    redaction,     \* request -> where it is, the row it read, its outcome
    redactions     \* number of requests

anonymisationVars == <<redactedBody, redaction, redactions>>

NoOutcome == [text |-> <<>>, tokens |-> {}, spans |-> {}]
AtRest == [at |-> "idle", existing |-> NoBody, outcome |-> NoOutcome]

AnonymisationInit ==
    /\ redactedBody = NoBody
    /\ redaction = [r \in Redactions |-> AtRest]
    /\ redactions = 0

(* What an engine may return: words start .. end - 1, and a type. *)
Spans == {s \in [start : DOMAIN Text, end : 2..(Len(Text) + 1), type : DOMAIN PrefixOf] :
            s.start < s.end /\ s.end <= s.start + MaxLength}
OriginalOf(s) == SubSeq(Text, s.start, s.end - 1)

(* The loop over the spans by start that skips one beginning before the    *)
(* end of the last one kept; scores decide between equal starts.           *)
DeOverlapped(found) ==
    {kept \in SUBSET found :
        /\ \A s, t \in kept : s # t => s.end <= t.start \/ t.end <= s.start
        /\ \A s \in found \ kept : \E t \in kept : t.start <= s.start /\ s.start < t.end}

-----------------------------------------------------------------------------
(* mutant: the counter is seeded with the highest suffix, not one past it *)
MutNextIndex(tokens, prefix) ==
    Max({1} \cup {t.n : t \in {u \in tokens : u.prefix = prefix}})

(* _seed_counters *)
NextIndex(tokens, prefix) ==
    Max({1} \cup {t.n + 1 : t \in {u \in tokens : u.prefix = prefix}})

Named(tokens, prefix, original) ==
    {t \in tokens : t.prefix = prefix /\ t.original = original}

(* tokenise, first pass: an original that has no token of its prefix gets  *)
(* the next number, in the order of first occurrence; tokens of earlier    *)
(* runs are kept.                                                          *)
Assigned(spans, tokens) ==
    LET First(s) == \A t \in spans :
                       /\ PrefixOf[t.type] = PrefixOf[s.type] /\ OriginalOf(t) = OriginalOf(s)
                       => s.start <= t.start
        new == {s \in spans : First(s) /\ Named(tokens, PrefixOf[s.type], OriginalOf(s)) = {}}
        Before(s) == {t \in new : PrefixOf[t.type] = PrefixOf[s.type] /\ t.start < s.start}
    IN  tokens \cup
        {[prefix |-> PrefixOf[s.type], type |-> s.type, original |-> OriginalOf(s),
          n |-> NextIndex(tokens, PrefixOf[s.type]) + Cardinality(Before(s))] : s \in new}

TokenOf(s, tokens) ==
    LET t == CHOOSE u \in Named(tokens, PrefixOf[s.type], OriginalOf(s)) : TRUE
    IN  [prefix |-> t.prefix, n |-> t.n]

(* Assignment to the slice of chars from start up to end. *)
Splice(chars, start, end, new) ==
    SubSeq(chars, 1, start - 1) \o <<new>> \o SubSeq(chars, end, Len(chars))

(* Second pass: replacement in place, from right to left; chars[k] is the  *)
(* text when the spans from word k on are replaced.                        *)
Replaced(spans, tokens) ==
    LET Put(chars, s) == Splice(chars, s.start, s.end, TokenOf(s, tokens))
        chars[k \in 1..(Len(Text) + 1)] ==
            IF k > Len(Text) THEN Text
            ELSE IF \E s \in spans : s.start = k
                 THEN Put(chars[k + 1], CHOOSE s \in spans : s.start = k)
                 ELSE chars[k + 1]
    IN  chars[1]

(* tokenise; without spans it forgets the tokens of earlier runs. *)
Tokenised(spans, tokens) ==
    IF spans = {} THEN [text |-> Text, tokens |-> {}, spans |-> {}]
    ELSE LET all == Assigned(spans, tokens)
         IN  [text |-> Replaced(spans, all), tokens |-> all, spans |-> spans]

-----------------------------------------------------------------------------
(* anonymise_document up to its write: the row as it is now, and what one  *)
(* of the engines finds.                                                   *)
Anonymise(r) ==
    /\ redaction[r].at = "idle" /\ redactions < MaxRedactions
    /\ \E n \in 0..MaxSpans : \E found \in kSubset(n, Spans) : \E spans \in DeOverlapped(found) :
        redaction' = [redaction EXCEPT ![r] =
            [at |-> "write", existing |-> redactedBody,
             outcome |-> Tokenised(spans, IF redactedBody = NoBody THEN {} ELSE redactedBody.tokens)]]
    /\ redactions' = redactions + 1
    /\ UNCHANGED redactedBody

(* The row and the audit row.  An INSERT fails on a row that is there and  *)
(* an UPDATE on one that is not; an UPDATE sets what differs from the row  *)
(* that was read.                                                          *)
WriteBody(r) ==
    LET old == redaction[r].existing
        new == redaction[r].outcome
    IN
    /\ redaction[r].at = "write"
    /\ \/ /\ (old = NoBody) = (redactedBody = NoBody)
          /\ redactedBody' = IF old = NoBody THEN new
                             ELSE LET text == IF new.text = old.text THEN redactedBody ELSE new
                                      mapping == IF <<new.tokens, new.spans>> = <<old.tokens, old.spans>>
                                                 THEN redactedBody ELSE new
                                  IN  [text |-> text.text, tokens |-> mapping.tokens,
                                       spans |-> mapping.spans]
       \/ UNCHANGED redactedBody
    /\ redaction' = [redaction EXCEPT ![r] = AtRest]
    /\ UNCHANGED redactions

DeleteRedacted ==
    /\ redactedBody # NoBody
    /\ redactedBody' = NoBody
    /\ UNCHANGED <<redaction, redactions>>

AnonymisationNext ==
    \/ \E r \in Redactions : Anonymise(r) \/ WriteBody(r)
    \/ DeleteRedacted

AnonymisationSpec == AnonymisationInit /\ [][AnonymisationNext]_anonymisationVars

-----------------------------------------------------------------------------
OneToOne(tokens) ==
    \A t, u \in tokens :
        t.prefix = u.prefix => (t.n = u.n <=> t.original = u.original)

(* Reading the redacted text from its start, with cut[i] the words of the  *)
(* source that its first i words stand for: a word where a span starts is  *)
(* a token for the original that the source has there, every other word    *)
(* is the source's own.  The spans tell the two apart, so the text may     *)
(* itself have words that look like tokens.                                *)
Undoes(cut, redacted, spans, tokens) ==
    /\ cut[0] = 0 /\ cut[Len(redacted)] = Len(Text)
    /\ \A i \in 1..Len(redacted) :
         LET piece == SubSeq(Text, cut[i - 1] + 1, cut[i])
         IN  IF \E s \in spans : s.start = cut[i - 1] + 1
             THEN \E t \in tokens : /\ redacted[i] = [prefix |-> t.prefix, n |-> t.n]
                                    /\ t.original = piece
             ELSE piece = <<redacted[i]>>

Undone(outcome) ==
    \E cut \in [0..Len(outcome.text) -> 0..Len(Text)] :
        Undoes(cut, outcome.text, outcome.spans, outcome.tokens)

(* Every answer can be undone: a token stands for one original and an      *)
(* original of a kind has one token, over all re-runs since the row was    *)
(* deleted, and putting the originals back into the redacted text gives    *)
(* the text that was read, however spans overlapped.  The same holds of    *)
(* the tokens that are stored.                                             *)
AnswersRestore ==
    /\ \A r \in Redactions : redaction[r].at = "write" =>
         OneToOne(redaction[r].outcome.tokens) /\ Undone(redaction[r].outcome)
    /\ redactedBody # NoBody => OneToOne(redactedBody.tokens)
=============================================================================
