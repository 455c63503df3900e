---------------------------- MODULE ExternalPack ----------------------------
(***************************************************************************)
(* Ingesting an export of another workspace: the export is normalised,     *)
(* every document gets the grade of hash claim it deserves, and one        *)
(* transaction writes a paused matter, one artifact per document and the   *)
(* pack manifest.  Artifact bytes go to object storage before their row,   *)
(* outside the transaction.                                                *)
(*                                                                         *)
(* Bytes are tokens, and a token is its own SHA-256.  A file name is a     *)
(* stem with the version of its "[Edited Vn]" decoration, 0 for none.      *)
(***************************************************************************)
EXTENDS Naturals, Sequences, FiniteSets, FiniteSetsExt

CONSTANTS
    Exports,   \* exports somebody uploads: [documents, entries]
    Packs      \* bound: packs ingested in a behaviour

VARIABLES
    step,      \* pack -> the ingest in progress: [at, export, written]
    objects,   \* object storage: keys <<pack, document number>>, 0 is the manifest
    matters,   \* committed matters of packs
    rows       \* committed artifact rows

packVars == <<step, objects, matters, rows>>

None == "none"

ASSUME PackAssumption ==
    /\ IsFiniteSet(Packs) /\ Exports # {}
    /\ \A x \in Exports :
        /\ \A list \in {x.documents, x.entries} :
              Len(list) \in Nat /\ DOMAIN list = 1..Len(list)
        /\ \A i \in DOMAIN x.entries : x.entries[i].bytes # None

(* Export rows: the source's version enum, and the author it stands for. *)
AuthorOf(source) ==
    CASE source \in {"upload", "user_upload", "user_accept", "user_reject"} -> "human"
      [] source \in {"assistant_edit", "generated"} -> "assistant"
      [] OTHER -> "unknown"

(* _zip_entries: directories are dropped, and the last of two entries with *)
(* one base name wins.                                                     *)
Flatten(entries) ==
    [name \in {e.name : e \in {entries[i] : i \in DOMAIN entries}} |->
        LET last == Max({i \in DOMAIN entries : entries[i].name = name})
        IN  entries[last].bytes]

(* The version the export calls current, or else the one that sorts last. *)
Current(d) ==
    LET V == DOMAIN d.versions
        named == {i \in V : d.versions[i].id = d.current}
        top == {i \in V : \A j \in V : d.versions[j].number <= d.versions[i].number}
    IN  IF named # {} THEN d.versions[Min(named)]
        ELSE IF V # {} THEN d.versions[Max(top)]
        ELSE [id |-> None, number |-> 0, source |-> None, filename |-> None, claim |-> None]

Filename(d) == IF Current(d).filename # None THEN Current(d).filename ELSE d.name

(* The decorated name first, when the current version is an assistant edit. *)
Candidates(d) ==
    LET v == Current(d) plain == [stem |-> Filename(d), edited |-> 0]
    IN  IF v.source = "assistant_edit" /\ v.number # 0
        THEN <<[plain EXCEPT !.edited = v.number], plain>>
        ELSE <<plain>>

MatchBytes(d, files) ==
    LET c == Candidates(d) found == {i \in DOMAIN c : c[i] \in DOMAIN files}
    IN  IF found = {} THEN None ELSE files[c[Min(found)]]

(* mutant: the source's hash is believed without the bytes *)
MutGrade(claim, held) ==
    CASE claim # None -> [sha |-> claim, origin |-> "verified_at_source", mismatch |-> FALSE]
      [] held # None -> [sha |-> held, origin |-> "attested_at_ingest", mismatch |-> FALSE]
      [] OTHER -> [sha |-> None, origin |-> None, mismatch |-> FALSE]

(* The grade of a document: a claim of the source and the bytes held here. *)
Grade(claim, held) ==
    CASE claim # None /\ held # None /\ claim = held ->
            [sha |-> claim, origin |-> "verified_at_source", mismatch |-> FALSE]
      [] claim # None /\ held # None /\ claim # held ->
            [sha |-> held, origin |-> "attested_at_ingest", mismatch |-> TRUE]
      [] claim = None /\ held # None ->
            [sha |-> held, origin |-> "attested_at_ingest", mismatch |-> FALSE]
      [] claim # None /\ held = None ->
            [sha |-> claim, origin |-> "claimed_by_source", mismatch |-> FALSE]
      [] OTHER -> [sha |-> None, origin |-> None, mismatch |-> FALSE]

NormaliseDocument(d, files) ==
    [grade |-> Grade(Current(d).claim, MatchBytes(d, files)),
     claim |-> Current(d).claim, author |-> AuthorOf(Current(d).source)]

Normalise(export) ==
    [i \in DOMAIN export.documents |->
        NormaliseDocument(export.documents[i], Flatten(export.entries))]

(* NormalisedPack.counts *)
Counts(docs) ==
    [origin \in {"verified_at_source", "attested_at_ingest", "claimed_by_source"} |->
        Cardinality({i \in DOMAIN docs : docs[i].grade.origin = origin})]

-----------------------------------------------------------------------------
NotStarted == [at |-> "idle", written |-> 0]

PackInit ==
    /\ step = [p \in Packs |-> NotStarted]
    /\ objects = {} /\ matters = {} /\ rows = {}

(* The upload is parsed and normalised; the matter row is flushed. *)
BeginIngest(p) ==
    /\ step[p].at = "idle"
    /\ \E x \in Exports :
        step' = [step EXCEPT ![p] = [at |-> "documents", written |-> 0, docs |-> Normalise(x),
                                     export |-> x]]
    /\ UNCHANGED <<objects, matters, rows>>

(* write_artifact: the bytes, then the row of the open transaction. *)
WriteArtifact(p) ==
    LET s == step[p] IN
    /\ s.at = "documents"
    /\ s.written < Len(s.docs)
    /\ objects' = objects \cup {<<p, s.written + 1>>}
    /\ step' = [step EXCEPT ![p].written = @ + 1]
    /\ UNCHANGED <<matters, rows>>

WriteManifest(p) ==
    /\ step[p].at = "documents"
    /\ step[p].written = Len(step[p].docs)
    /\ objects' = objects \cup {<<p, 0>>}
    /\ step' = [step EXCEPT ![p].at = "commit"]
    /\ UNCHANGED <<matters, rows>>

DocumentRow(p, i) ==
    [pack |-> p, number |-> i, author |-> None, doc |-> step[p].docs[i],
     export |-> step[p].export]

(* mutant: the manifest's transaction ends before the last document's row *)
MutCommitIngest(p) ==
    /\ step[p].at = "commit"
    /\ matters' = matters \cup {[pack |-> p, posture |-> "C_paused",
                                 documents |-> Len(step[p].docs), counts |-> Counts(step[p].docs)]}
    /\ rows' = rows \cup {DocumentRow(p, i) : i \in 1..(Len(step[p].docs) - 1)}
    /\ step' = [step EXCEPT ![p] = [at |-> "done", written |-> 0]]
    /\ UNCHANGED objects

(* The matter, its manifest (written by the user, with the counts and the  *)
(* list of documents) and the document rows become visible together.       *)
CommitIngest(p) ==
    /\ step[p].at = "commit"
    /\ matters' = matters \cup {[pack |-> p, posture |-> "C_paused",
                                 documents |-> Len(step[p].docs), counts |-> Counts(step[p].docs)]}
    /\ rows' = rows \cup {DocumentRow(p, i) : i \in DOMAIN step[p].docs}
    /\ step' = [step EXCEPT ![p] = [at |-> "done", written |-> 0]]
    /\ UNCHANGED objects

(* A failure on the way rolls the transaction back; the bytes stay. *)
IngestFails(p) ==
    /\ step[p].at \in {"documents", "commit"}
    /\ step' = [step EXCEPT ![p] = [at |-> "failed", written |-> 0]]
    /\ UNCHANGED <<objects, matters, rows>>

PackNext ==
    \E p \in Packs : \/ BeginIngest(p) \/ WriteArtifact(p) \/ WriteManifest(p)
                     \/ CommitIngest(p) \/ IngestFails(p)

PackSpec == PackInit /\ [][PackNext]_packVars

-----------------------------------------------------------------------------
(* external_pack.py: "the only grade granted by an actual check".  Read    *)
(* back from what was uploaded: a document graded verified has its claimed *)
(* hash among the uploaded bytes, one graded attested carries the hash of  *)
(* uploaded bytes and says so when the source claimed another, and one     *)
(* that only claims had no upload under any name it goes by.               *)
GradesHonest ==
    \A r \in rows :
        LET g == r.doc.grade
            d == r.export.documents[r.number]
            E == r.export.entries
            names == {[stem |-> Filename(d), edited |-> n] : n \in {0, Current(d).number}}
            uploaded == {E[i].bytes : i \in {j \in DOMAIN E : E[j].name \in names}}
        IN  /\ g.origin = "verified_at_source" => g.sha = r.doc.claim /\ g.sha \in uploaded
            /\ g.origin = "attested_at_ingest" =>
                  g.sha \in uploaded /\ g.mismatch = (r.doc.claim \notin {None, g.sha})
            /\ g.origin = "claimed_by_source" =>
                  \A j \in DOMAIN E : E[j].name # [stem |-> Filename(d), edited |-> 0]

(* A pack is ingested whole or not at all: the manifest's count of each    *)
(* grade is the count of document rows with that grade, and every row's    *)
(* bytes, the manifest's too, are in storage.                              *)
PackWhole ==
    \A m \in matters :
        LET mine == {r \in rows : r.pack = m.pack} IN
        /\ Cardinality(mine) = m.documents
        /\ \A o \in DOMAIN m.counts :
              m.counts[o] = Cardinality({r \in mine : r.doc.grade.origin = o})
        /\ <<m.pack, 0>> \in objects
        /\ \A r \in mine : <<r.pack, r.number>> \in objects
=============================================================================
