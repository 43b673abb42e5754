----------------------------- MODULE Documents -----------------------------
(***************************************************************************)
(* Engineering documents, from the upload to the evidence of an answer.    *)
(*                                                                         *)
(*  - A process starts by making sure of the vector collection, which      *)
(*    another process may be creating at the same time; it serves only     *)
(*    when the collection has the dimension it is configured with.         *)
(*  - An upload cuts the pages of a PDF into chunks, embeds them, writes   *)
(*    them to Qdrant and then its record to PostgreSQL: two stores, no     *)
(*    common transaction, and a crash or a lost answer anywhere between.   *)
(*  - A retrieval embeds a question, takes the nearest chunks, reranks     *)
(*    them and returns the first of them as evidence.                      *)
(*                                                                         *)
(* Qdrant and PostgreSQL are external: one call is one step, points are    *)
(* replaced by id, a collection is created once.  A page is a sequence of  *)
(* characters, of which only "blank" matters; texts of points are the      *)
(* ranges of their pages.  A document is identified by its content.        *)
(***************************************************************************)
EXTENDS Lists, SequencesExt

CONSTANTS
  Processes,       \* processes of the application
  Dimensions,      \* dimensions an embedding provider is configured with
  MaxStarts,       \* bound on the starts of all processes
  Uploads,         \* upload requests
  Content,         \* per upload, the document in the file
  FileName,        \* per upload, the name of the file
  Pages,           \* per document, its pages, cleaned
  ChunkSize, ChunkOverlap,
  Queries,         \* retrievals
  Similarity,      \* of a query and a chunk <<document, index>>, in tenths
  Coverage,        \* share of the query's terms in the chunk, in tenths
  RetrievalLimit, EvidenceLimit,
  NoCollection, NoProcess

DocumentIds == DOMAIN Pages

ASSUME DocumentsAssumption ==
  /\ Dimensions \subseteq Nat \ {0} /\ NoCollection \notin Nat
  /\ MaxStarts \in Nat
  /\ Content \in [Uploads -> DocumentIds]
  /\ Pages \in [DocumentIds -> Seq(Seq({"ink", "blank"}))]
  /\ ChunkSize \in Nat \ {0} /\ ChunkOverlap \in Nat /\ ChunkOverlap < ChunkSize
  /\ RetrievalLimit \in Nat \ {0} /\ EvidenceLimit \in Nat \ {0}
  /\ NoProcess \notin Processes

VARIABLES
  collection,   \* the dimension of the collection
  points,       \* the points in it
  records,      \* the committed ingestion records
  process,      \* per process: its state and its configured dimension
  starts,       \* starts so far
  pc,           \* the next step of each upload
  at,           \* the process that serves it
  asked,        \* the next step of each query
  evidence      \* its answer

documentVars == <<collection, points, records, process, starts, pc, at, asked, evidence>>

Smaller(a, b) == IF a < b THEN a ELSE b

-----------------------------------------------------------------------------
(* Chunks.                                                                 *)

Inked(text) == {i \in DOMAIN text : text[i] = "ink"}

(* strip(): from the first character that is not blank to the last.        *)
Stripped(text) ==
  IF Inked(text) = {} THEN <<>>
  ELSE SubSeq(text, CHOOSE i \in Inked(text) : \A j \in Inked(text) : i <= j,
                    CHOOSE i \in Inked(text) : \A j \in Inked(text) : i >= j)

(* The window moves by size - overlap until it has reached the end.        *)
WindowStarts(length) ==
  LET step == ChunkSize - ChunkOverlap
  IN {k * step + 1 : k \in {n \in 0..length : n = 0 \/ (n - 1) * step + ChunkSize < length}}

(* The chunks of a page, in order; a window of blanks gives none.          *)
PageChunks(doc, page) ==
  LET text == Stripped(Pages[doc][page])
      windows == [start \in WindowStarts(Len(text)) |->
                    start..Smaller(start + ChunkSize - 1, Len(text))]
      kept == {start \in DOMAIN windows : windows[start] \cap Inked(text) # {}}
  IN IF text = <<>> THEN <<>>
     ELSE [i \in 1..Cardinality(kept) |->
             [page |-> page, range |-> windows[InOrder(kept, Ascending)[i]]]]

(* Faulty: the numbers of the chunks start again on every page.            *)
ChunksByPage(doc) ==
  Flattened([page \in DOMAIN Pages[doc] |->
    [i \in DOMAIN PageChunks(doc, page) |->
       [document |-> doc, index |-> i - 1, page |-> PageChunks(doc, page)[i].page,
        range |-> PageChunks(doc, page)[i].range]]])

(* Chunks are numbered through the document; the number names the point.   *)
Chunks(doc) ==
  LET all == Flattened([page \in DOMAIN Pages[doc] |-> PageChunks(doc, page)])
  IN [i \in DOMAIN all |->
        [document |-> doc, index |-> i - 1, page |-> all[i].page, range |-> all[i].range]]

(* Every chunk there is has a similarity to every query, and a coverage.   *)
ASSUME ScoresAssumption ==
  \A q \in Queries, doc \in DocumentIds : \A i \in DOMAIN Chunks(doc) :
    /\ Similarity[q][<<doc, i - 1>>] \in Int
    /\ Coverage[q][<<doc, i - 1>>] \in 0..10

-----------------------------------------------------------------------------
(* Processes.                                                              *)

DocumentsInit ==
  /\ collection = NoCollection
  /\ points = {} /\ records = {}
  /\ process = [p \in Processes |-> [state |-> "down", dimension |-> 0]]
  /\ starts = 0
  /\ pc = [u \in Uploads |-> "idle"]
  /\ at = [u \in Uploads |-> NoProcess]
  /\ asked = [q \in Queries |-> "idle"]
  /\ evidence = [q \in Queries |-> <<>>]

requestVars == <<pc, at, asked, evidence>>

(* A process starts with some configuration and asks for the collection.   *)
Start(p) ==
  /\ process[p].state = "down" /\ starts < MaxStarts
  /\ \E d \in Dimensions :
       process' = [process EXCEPT ![p] =
         [state |-> IF collection = NoCollection THEN "create" ELSE "compare", dimension |-> d]]
  /\ starts' = starts + 1
  /\ UNCHANGED <<collection, points, records, requestVars>>

(* The collection may have been created since: Qdrant then refuses, and    *)
(* the process does not start.                                             *)
Create(p) ==
  /\ process[p].state = "create"
  /\ IF collection = NoCollection
     THEN /\ collection' = process[p].dimension
          /\ process' = [process EXCEPT ![p].state = "serving"]
     ELSE /\ process' = [process EXCEPT ![p].state = "down"]
          /\ UNCHANGED collection
  /\ UNCHANGED <<points, records, starts, requestVars>>

(* Faulty: an existing collection is taken as it is.                       *)
CompareNothing(p) ==
  /\ process[p].state = "compare"
  /\ process' = [process EXCEPT ![p].state = "serving"]
  /\ UNCHANGED <<collection, points, records, starts, requestVars>>

(* A collection of another dimension keeps the process from starting.      *)
Compare(p) ==
  /\ process[p].state = "compare"
  /\ process' = [process EXCEPT ![p].state =
       IF collection = process[p].dimension THEN "serving" ELSE "down"]
  /\ UNCHANGED <<collection, points, records, starts, requestVars>>

(* The process is gone, and every request it was serving.                  *)
Crash(p) ==
  /\ process[p].state # "down"
  /\ process' = [process EXCEPT ![p].state = "down"]
  /\ pc' = [u \in Uploads |-> IF at[u] = p /\ pc[u] # "done" THEN "failed" ELSE pc[u]]
  /\ UNCHANGED <<collection, points, records, starts, at, asked, evidence>>

-----------------------------------------------------------------------------
(* Uploads.                                                                *)

ChunksFor(u) == Chunks(Content[u])

Goto(u, next) == pc' = [pc EXCEPT ![u] = next]

(* A process takes the request, loads the file and cuts it; a document     *)
(* without text is refused.                                                *)
Load(u) ==
  /\ pc[u] = "idle"
  /\ \E p \in Processes :
       /\ process[p].state = "serving"
       /\ at' = [at EXCEPT ![u] = p]
  /\ Goto(u, IF ChunksFor(u) = <<>> THEN "failed" ELSE "embed")
  /\ UNCHANGED <<collection, points, records, process, starts, asked, evidence>>

(* One vector per chunk, or an error.                                      *)
Embed(u) ==
  /\ pc[u] = "embed"
  /\ \E next \in {"upsert", "failed"} : Goto(u, next)
  /\ UNCHANGED <<collection, points, records, process, starts, at, asked, evidence>>

PointsOf(u) ==
  {[chunk |-> c, file |-> FileName[u], dimension |-> process[at[u]].dimension] :
     c \in Range(ChunksFor(u))}

(* uuid5 of the chunk's name: a point replaces the one of the same name;   *)
(* of two in one call, one stays.                                          *)
SamePoint(x, y) == x.chunk.document = y.chunk.document /\ x.chunk.index = y.chunk.index
Upserted(new) ==
  {x \in points : \A y \in new : ~SamePoint(x, y)}
    \cup {x \in new : x = CHOOSE y \in new : SamePoint(x, y)}

(* The points are written as a whole; the answer may be lost afterwards,   *)
(* or the call may fail before.                                            *)
Upsert(u) ==
  /\ pc[u] = "upsert"
  /\ \/ /\ points' = Upserted(PointsOf(u))
        /\ \E next \in {"record", "failed"} : Goto(u, next)
     \/ UNCHANGED points /\ Goto(u, "failed")
  /\ UNCHANGED <<collection, records, process, starts, at, asked, evidence>>

(* The record is inserted and committed; a failure of either leaves none,  *)
(* unless it is only the answer to the commit that is lost.                *)
Record(u) ==
  /\ pc[u] = "record"
  /\ \/ /\ records' = records \cup {[by |-> u, document |-> Content[u], file |-> FileName[u],
                                     created |-> Len(ChunksFor(u)), indexed |-> Len(ChunksFor(u))]}
        /\ \E next \in {"done", "failed"} : Goto(u, next)
     \/ UNCHANGED records /\ Goto(u, "failed")
  /\ UNCHANGED <<collection, points, process, starts, at, asked, evidence>>

-----------------------------------------------------------------------------
(* Retrieval.                                                              *)

Name(point) == <<point.chunk.document, point.chunk.index>>
SimilarityOf(q, point) == Similarity[q][Name(point)]
Clamped(tenths) == IF tenths < 0 THEN 0 ELSE IF tenths > 10 THEN 10 ELSE tenths

(* What Qdrant may answer: as many points as it is asked for, best first,  *)
(* none of the others closer; it decides between equal similarities.       *)
Nearest(q) ==
  {list \in [1..Smaller(RetrievalLimit, Cardinality(points)) -> points] :
     /\ \A i, j \in DOMAIN list : i < j =>
          list[i] # list[j] /\ SimilarityOf(q, list[i]) >= SimilarityOf(q, list[j])
     /\ \A i \in DOMAIN list, y \in points \ Range(list) :
          SimilarityOf(q, list[i]) >= SimilarityOf(q, y)}

(* Faulty: coverage counts against the chunk.                              *)
RerankScoreInverted(q, point) ==
  7 * Clamped(SimilarityOf(q, point)) + 3 * (10 - Coverage[q][Name(point)])

(* 70 % similarity and 30 % coverage, in hundredths.                       *)
RerankScore(q, point) == 7 * Clamped(SimilarityOf(q, point)) + 3 * Coverage[q][Name(point)]

(* Best first, and equal scores as they were retrieved.                    *)
Reranked(q, retrieved) ==
  ByKey(retrieved, [i \in DOMAIN retrieved |-> RerankScore(q, retrieved[i])])

(* The request makes a store of its own and does not check the collection; *)
(* a question that cannot be embedded is an error.                         *)
Retrieve(q) ==
  /\ asked[q] = "idle"
  /\ \E p \in Processes :
       /\ process[p].state = "serving"
       /\ \/ /\ process[p].dimension = collection
             /\ asked' = [asked EXCEPT ![q] = "answered"]
             /\ \E retrieved \in Nearest(q) :
                  evidence' = [evidence EXCEPT ![q] =
                    FirstOf(Reranked(q, retrieved), EvidenceLimit)]
          \/ /\ asked' = [asked EXCEPT ![q] = "failed"]
             /\ UNCHANGED evidence
  /\ UNCHANGED <<collection, points, records, process, starts, pc, at>>

-----------------------------------------------------------------------------
ProcessNext(p) == Start(p) \/ Create(p) \/ Compare(p) \/ Crash(p)
UploadNext(u) == Load(u) \/ Embed(u) \/ Upsert(u) \/ Record(u)

DocumentsNext ==
  \/ \E p \in Processes : ProcessNext(p)
  \/ \E u \in Uploads : UploadNext(u)
  \/ \E q \in Queries : Retrieve(q)

DocumentsSpec == DocumentsInit /\ [][DocumentsNext]_documentVars

-----------------------------------------------------------------------------
(* Properties.                                                             *)

(* What is recorded as ingested can be found: for every record, whatever   *)
(* crashed or was uploaded beside it, the collection holds as many points  *)
(* of the document as the record says, and between them every character    *)
(* of its pages that is not blank.                                         *)
RecordedIsSearchable ==
  \A r \in records :
    LET stored == {x.chunk : x \in {y \in points : y.chunk.document = r.document}}
    IN /\ Cardinality(stored) = r.indexed
       /\ \A page \in DOMAIN Pages[r.document] :
            LET text == Stripped(Pages[r.document][page])
            IN Inked(text) \subseteq UNION {c.range : c \in {d \in stored : d.page = page}}

(* Only the start-up compares dimensions, and two processes may start at   *)
(* once: all the same no process serves with another dimension than the    *)
(* collection has, and no point of another dimension is written.           *)
DimensionsAgree ==
  /\ \A p \in Processes : process[p].state = "serving" => process[p].dimension = collection
  /\ \A x \in points : x.dimension = collection

(* The nearest chunks are cut to the retrieval limit by similarity, ranked *)
(* by another score and cut again: no chunk that was stored is left out    *)
(* for one that is neither closer to the question nor covers more of it.   *)
EvidenceUndominated ==
  [][\A q \in Queries : asked[q] = "idle" /\ asked'[q] = "answered" =>
       LET chosen == Range(evidence'[q])
       IN /\ Cardinality(chosen) =
               Smaller(Smaller(EvidenceLimit, RetrievalLimit), Cardinality(points))
          /\ \A x \in chosen, y \in points \ chosen :
               ~ /\ SimilarityOf(q, y) > SimilarityOf(q, x)
                 /\ Coverage[q][Name(y)] > Coverage[q][Name(x)]]_documentVars

=============================================================================
