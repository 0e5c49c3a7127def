--------------------------- MODULE KnowledgeStore ---------------------------
(***************************************************************************)
(* services/knowledge-mcp/src/store.ts: the docs, chunks, corpus_meta and  *)
(* meta tables of one corpus, and what its methods write.  Every operator  *)
(* that primes a variable is one SQLite transaction.                       *)
(*                                                                         *)
(* A document is a path, a content stands for its sha256, and the rows of  *)
(* the full-text index for the content and the chunker version they were   *)
(* cut from.  Operators named X_Bug are X with a plausible mistake.        *)
(***************************************************************************)
EXTENDS Integers

CONSTANTS
  Paths,     \* the documents the corpus may ever hold
  Contents,  \* what one of them may say
  Absent,    \* no content: not in the tree, never indexed, no rows
  Trusts,    \* trust classes of a registry
  Versions   \* values of CHUNKER_VERSION, numbered from 1

ASSUME StoreConstants == Absent \notin Contents /\ Versions \subseteq Nat \ {0}

VARIABLES
  docs,    \* [Paths -> Doc]; ~live is tombstoned_at NOT NULL
  chunks,  \* [Paths -> Rows]
  stamp,   \* meta.chunker_version, 0 before the first boot
  meta     \* corpus_meta.source_ref as a commit number, 0 for NULL

store == <<docs, chunks, stamp, meta>>

Tree == [Paths -> Contents \cup {Absent}]
Rows == [content : Contents \cup {Absent}, version : Versions \cup {0}]

Doc == [content : Contents \cup {Absent}, trust : Trusts \cup {Absent}, live : BOOLEAN]
NeverIndexed == [content |-> Absent, trust |-> Absent, live |-> FALSE]
NoRows == [content |-> Absent, version |-> 0]
Indexed(content, trust) == [content |-> content, trust |-> trust, live |-> TRUE]
Chunked(content, version) == [content |-> content, version |-> version]
LiveDocs == {p \in Paths : docs[p].live}

StoreInit ==
  /\ docs = [p \in Paths |-> NeverIndexed] /\ chunks = [p \in Paths |-> NoRows]
  /\ stamp = 0 /\ meta = 0

(***************************************************************************)
(* upsertDoc: an unchanged live document only takes the corpus's trust.    *)
(***************************************************************************)
Unchanged_Tombstoned(p, content) == docs[p].content = content
Unchanged(p, content) == docs[p].live /\ docs[p].content = content

UpsertDoc(p, content, trust, version) ==
  IF Unchanged(p, content)
  THEN docs' = [docs EXCEPT ![p].trust = trust] /\ UNCHANGED chunks
  ELSE /\ docs' = [docs EXCEPT ![p] = Indexed(content, trust)]
       /\ chunks' = [chunks EXCEPT ![p] = Chunked(content, version)]

(* One transaction per document, here several of them in a row.            *)
Tombstone_KeepsRows(ps) ==
  /\ docs' = [p \in Paths |-> IF p \in ps THEN [docs[p] EXCEPT !.live = FALSE] ELSE docs[p]]
  /\ UNCHANGED chunks
Tombstone(ps) ==
  /\ docs' = [p \in Paths |-> IF p \in ps THEN [docs[p] EXCEPT !.live = FALSE] ELSE docs[p]]
  /\ chunks' = [p \in Paths |-> IF p \in ps THEN NoRows ELSE chunks[p]]

(* rechunkIfStale, for one document; its last write is the stamp.          *)
RechunkDoc(p, version) ==
  chunks' = [chunks EXCEPT ![p] = Chunked(docs[p].content, version)]
=============================================================================
