--------------------------- MODULE DocumentsProofs ---------------------------
(***************************************************************************)
(* Proofs about Documents, for any number of processes, uploads and        *)
(* documents, any pages and any chunk size above its overlap.              *)
(***************************************************************************)
EXTENDS Documents, ListProofs

-----------------------------------------------------------------------------
(* The chunks of a document.                                               *)

Text == Seq({"ink", "blank"})

(* What is left of a page is a text, and it has no other ink.              *)
LEMMA StrippedText ==
  ASSUME NEW text \in Text
  PROVE  /\ Stripped(text) \in Text
         /\ Len(Stripped(text)) \in Nat
         /\ Inked(Stripped(text)) \subseteq 1..Len(Stripped(text))
<1>1. Stripped(text) \in Text
  <2>1. CASE Inked(text) = {}
    BY <2>1 DEF Stripped, Text
  <2>2. CASE Inked(text) # {}
    <3> DEFINE a == CHOOSE i \in Inked(text) : \A j \in Inked(text) : i <= j
               b == CHOOSE i \in Inked(text) : \A j \in Inked(text) : i >= j
    <3>1. Inked(text) \subseteq 1..Len(text) /\ Len(text) \in Nat
      BY DEF Inked, Text
    <3>2. Inked(text) \in SUBSET Nat /\ \A x \in Inked(text) : x < Len(text) + 1
      BY <3>1
    <3>3. \E i \in Inked(text) : \A j \in Inked(text) : i <= j
      BY <2>2, <3>2, Lowest
    <3>4. \E i \in Inked(text) : \A j \in Inked(text) : j <= i
      <4>1. Len(text) + 1 \in Nat
        BY <3>1
      <4> QED BY <2>2, <3>2, <4>1, Highest
    <3>5. \E i \in Inked(text) : \A j \in Inked(text) : i >= j
      BY <3>2, <3>4
    <3>6. a \in Inked(text) /\ b \in Inked(text)
      BY <3>3, <3>5
    <3>7. a \in 1..Len(text) /\ b \in 1..Len(text)
      BY <3>1, <3>6
    <3>8. Stripped(text) = SubSeq(text, a, b)
      BY <2>2 DEF Stripped
    <3> HIDE DEF a, b
    <3> QED BY <3>1, <3>7, <3>8 DEF Text
  <2> QED BY <2>1, <2>2
<1>2. Len(Stripped(text)) \in Nat /\ DOMAIN Stripped(text) = 1..Len(Stripped(text))
  BY <1>1 DEF Text
<1> QED BY <1>1, <1>2 DEF Inked

Step == ChunkSize - ChunkOverlap

(* The windows start within the text's length times the step, and between  *)
(* them they cover the text: the window moves on by less than its size,    *)
(* until one has reached the end.                                          *)
LEMMA WindowsCover ==
  ASSUME NEW length \in Nat
  PROVE  /\ WindowStarts(length) \in SUBSET Nat
         /\ IsFiniteSet(WindowStarts(length))
         /\ \A i \in 1..length : \E start \in WindowStarts(length) :
              i \in start..Smaller(start + ChunkSize - 1, length)
<1> DEFINE step == Step
           Valid(n) == n = 0 \/ (n - 1) * step + ChunkSize < length
<1>1. step \in Nat /\ step >= 1 /\ ChunkSize \in Nat /\ step <= ChunkSize
  BY DocumentsAssumption DEF Step
<1>2. WindowStarts(length) = {k * step + 1 : k \in {n \in 0..length : Valid(n)}}
  BY DEF WindowStarts, Step
<1> HIDE DEF step
<1>3. \A k \in 0..length : k * step \in Nat /\ k * step <= length * step /\ k <= k * step
  BY <1>1
<1>4. length * step + 1 \in Nat
  BY <1>1
<1>5. /\ WindowStarts(length) \in SUBSET Nat
      /\ \A s \in WindowStarts(length) : s <= length * step + 1
  BY <1>2, <1>3, <1>4
<1>6. IsFiniteSet(WindowStarts(length))
  BY <1>4, <1>5, FS_BoundedSetOfNaturals
<1>7. ASSUME NEW i \in 1..length
      PROVE  \E start \in WindowStarts(length) : i \in start..Smaller(start + ChunkSize - 1, length)
  <2> DEFINE K == {n \in 0..length : Valid(n) /\ n * step + 1 <= i}
  <2>1. K \in SUBSET Nat /\ K # {} /\ \A n \in K : n < length + 1
    <3>1. 0 * step + 1 <= i /\ 0 \in 0..length
      BY <1>1
    <3>2. 0 \in K
      BY <3>1
    <3> QED BY <3>2
  <2>2. PICK k \in K : \A n \in K : n <= k
    <3>1. length + 1 \in Nat
      OBVIOUS
    <3> HIDE DEF K
    <3> QED BY <2>1, <3>1, Highest
  <2>3. k \in 0..length /\ Valid(k) /\ k * step + 1 <= i /\ k * step \in Nat
    BY <1>3
  <2>4. i <= k * step + ChunkSize
    <3> SUFFICES ASSUME ~(i <= k * step + ChunkSize) PROVE FALSE
      OBVIOUS
    <3>1. (k + 1) * step = k * step + step
      BY <1>1, <2>3
    <3>2. k * step + ChunkSize < i /\ i <= length
      BY <1>1, <2>3
    <3>3. (k + 1) * step + 1 <= i
      BY <1>1, <2>3, <3>1, <3>2
    <3>4. k + 1 <= (k + 1) * step
      BY <1>1, <2>3
    <3>5. k + 1 \in 0..length
      BY <1>1, <2>3, <3>1, <3>2, <3>3, <3>4
    <3>6. Valid(k + 1)
      <4>1. (k + 1) - 1 = k
        BY <2>3
      <4>2. k * step + ChunkSize < length
        BY <1>1, <2>3, <3>2
      <4> QED BY <4>1, <4>2
    <3>7. k + 1 \in K
      BY <3>3, <3>5, <3>6
    <3>8. k + 1 <= k
      BY <2>2, <3>7
    <3> QED BY <2>3, <3>8
  <2>5. k * step + 1 \in WindowStarts(length)
    BY <1>2, <2>3
  <2> DEFINE p == k * step
  <2>6. p \in Nat /\ p + 1 <= i /\ i <= p + ChunkSize /\ i <= length
    BY <2>3, <2>4
  <2> HIDE DEF p
  <2>7. i \in (p + 1)..Smaller(p + 1 + ChunkSize - 1, length)
    BY <1>1, <2>6 DEF Smaller
  <2> QED BY <2>5, <2>7 DEF p
<1> QED BY <1>5, <1>6, <1>7

Windows(doc) == [page : DOMAIN Pages[doc], range : SUBSET Int]

(* The chunks of a page are some of its windows, with every character that *)
(* is not blank in one of them.                                            *)
LEMMA PageChunksCover ==
  ASSUME NEW doc \in DocumentIds, NEW page \in DOMAIN Pages[doc]
  PROVE  /\ PageChunks(doc, page) \in Seq(Windows(doc))
         /\ \A i \in DOMAIN PageChunks(doc, page) : PageChunks(doc, page)[i].page = page
         /\ \A c \in Inked(Stripped(Pages[doc][page])) :
              \E i \in DOMAIN PageChunks(doc, page) : c \in PageChunks(doc, page)[i].range
<1> DEFINE text == Stripped(Pages[doc][page])
           begins == WindowStarts(Len(text))
           windows == [start \in begins |-> start..Smaller(start + ChunkSize - 1, Len(text))]
           kept == {start \in DOMAIN windows : windows[start] \cap Inked(text) # {}}
           order == InOrder(kept, Ascending)
           chunks == [i \in 1..Cardinality(kept) |-> [page |-> page, range |-> windows[order[i]]]]
<1>1. Pages[doc][page] \in Text
  <2>1. Pages[doc] \in Seq(Seq({"ink", "blank"}))
    BY DocumentsAssumption
  <2> QED BY <2>1 DEF Text
<1>2. Len(text) \in Nat /\ Inked(text) \subseteq 1..Len(text)
  BY <1>1, StrippedText
<1>3. PageChunks(doc, page) = IF text = <<>> THEN <<>> ELSE chunks
  BY DEF PageChunks
<1>4. /\ begins \in SUBSET Nat /\ IsFiniteSet(begins)
      /\ \A i \in 1..Len(text) : \E start \in begins :
           i \in start..Smaller(start + ChunkSize - 1, Len(text))
  BY <1>2, WindowsCover
<1> HIDE DEF text, begins
<1>5. DOMAIN windows = begins
  OBVIOUS
<1>6. \A start \in begins : /\ windows[start] = start..Smaller(start + ChunkSize - 1, Len(text))
                            /\ windows[start] \in SUBSET Int
  OBVIOUS
<1> HIDE DEF windows
<1>7. kept \in SUBSET begins /\ kept \in SUBSET Int
  BY <1>4, <1>5
<1>8. IsFiniteSet(kept) /\ StrictOrder(kept, Ascending)
  BY <1>4, <1>7, FS_Subset, AscendingStrict
<1>9. /\ Cardinality(kept) \in Nat
      /\ DOMAIN order = 1..Cardinality(kept)
      /\ order \in [1..Cardinality(kept) -> kept]
      /\ \A x \in kept : \E n \in DOMAIN order : order[n] = x
  <2> HIDE DEF kept
  <2> QED BY <1>8, InOrderLists
<1>10. \A c \in Inked(text) : \E start \in kept : c \in windows[start]
  BY <1>2, <1>4, <1>5, <1>6
<1> HIDE DEF kept, order
<1>11. chunks \in Seq(Windows(doc)) /\ DOMAIN chunks = 1..Cardinality(kept)
  <2>1. \A i \in 1..Cardinality(kept) : order[i] \in begins
    BY <1>7, <1>9
  <2>2. \A i \in 1..Cardinality(kept) : [page |-> page, range |-> windows[order[i]]] \in Windows(doc)
    BY <1>6, <2>1 DEF Windows
  <2> QED BY <1>9, <2>2
<1>12. \A i \in DOMAIN chunks : chunks[i].page = page /\ chunks[i].range = windows[order[i]]
  OBVIOUS
<1> HIDE DEF chunks
<1>13. \A c \in Inked(text) : \E i \in DOMAIN chunks : c \in chunks[i].range
  BY <1>9, <1>10, <1>11, <1>12
<1>14. CASE text = <<>>
  <2>1. PageChunks(doc, page) = <<>> /\ Inked(text) = {}
    BY <1>3, <1>14 DEF Inked
  <2>2. <<>> \in Seq(Windows(doc)) /\ DOMAIN <<>> = {}
    OBVIOUS
  <2> QED BY <2>1, <2>2 DEF text
<1>15. CASE text # <<>>
  <2>1. PageChunks(doc, page) = chunks
    BY <1>3, <1>15
  <2> QED BY <1>11, <1>12, <1>13, <2>1 DEF text
<1> QED BY <1>14, <1>15

(* The chunks of a document are numbered from zero, and every character of *)
(* its pages that is not blank is in one of them.                          *)
LEMMA ChunksCover ==
  ASSUME NEW doc \in DocumentIds
  PROVE  /\ Len(Chunks(doc)) \in Nat
         /\ DOMAIN Chunks(doc) = 1..Len(Chunks(doc))
         /\ \A i \in DOMAIN Chunks(doc) :
              Chunks(doc)[i].document = doc /\ Chunks(doc)[i].index = i - 1
         /\ \A page \in DOMAIN Pages[doc] : \A c \in Inked(Stripped(Pages[doc][page])) :
              \E i \in DOMAIN Chunks(doc) :
                Chunks(doc)[i].page = page /\ c \in Chunks(doc)[i].range
<1> DEFINE lists == [page \in DOMAIN Pages[doc] |-> PageChunks(doc, page)]
           n == Len(Pages[doc])
           all == Flattened(lists)
<1>1. n \in Nat /\ DOMAIN Pages[doc] = 1..n
  <2>1. Pages[doc] \in Seq(Seq({"ink", "blank"}))
    BY DocumentsAssumption
  <2> QED BY <2>1
<1>2. \A page \in 1..n : /\ lists[page] = PageChunks(doc, page)
                         /\ lists[page] \in Seq(Windows(doc))
                         /\ \A i \in DOMAIN lists[page] : lists[page][i].page = page
                         /\ \A c \in Inked(Stripped(Pages[doc][page])) :
                              \E i \in DOMAIN lists[page] : c \in lists[page][i].range
  BY <1>1, PageChunksCover
<1>3. lists \in [1..n -> Seq(Windows(doc))]
  BY <1>1, <1>2
<1> HIDE DEF n, lists
<1>4. /\ all \in Seq(Windows(doc))
      /\ \A i \in 1..n : \A j \in DOMAIN lists[i] :
           \E k \in DOMAIN all : all[k] = lists[i][j]
  <2> DEFINE A == Flattened(lists)
             order == InOrder(UNION {{i} \X (DOMAIN lists[i]) : i \in 1..n}, Lexicographic)
  <2>1. /\ A \in Seq(Windows(doc))
        /\ \A i \in 1..n : \A j \in DOMAIN lists[i] :
             \E k \in DOMAIN A : order[k] = <<i, j>> /\ A[k] = lists[i][j]
    BY ZenonT(40), <1>1, <1>3, FlattenedElements
  <2> HIDE DEF order
  <2> QED BY <2>1
<1>5. Chunks(doc) = [i \in DOMAIN all |->
        [document |-> doc, index |-> i - 1, page |-> all[i].page, range |-> all[i].range]]
  BY DEF Chunks, lists
<1> HIDE DEF all
<1>6. Len(all) \in Nat /\ DOMAIN all = 1..Len(all)
  BY <1>4
<1>7. /\ DOMAIN Chunks(doc) = 1..Len(all) /\ Len(Chunks(doc)) = Len(all)
      /\ \A i \in DOMAIN all : /\ Chunks(doc)[i].document = doc /\ Chunks(doc)[i].index = i - 1
                               /\ Chunks(doc)[i].page = all[i].page
                               /\ Chunks(doc)[i].range = all[i].range
  BY <1>5, <1>6
<1>8. ASSUME NEW page \in DOMAIN Pages[doc], NEW c \in Inked(Stripped(Pages[doc][page]))
      PROVE  \E i \in DOMAIN Chunks(doc) : Chunks(doc)[i].page = page /\ c \in Chunks(doc)[i].range
  <2>1. page \in 1..n
    BY <1>1
  <2>2. PICK j \in DOMAIN lists[page] : c \in lists[page][j].range
    BY <1>2, <2>1
  <2>3. lists[page][j].page = page
    BY <1>2, <2>1
  <2>4. PICK k \in DOMAIN all : all[k] = lists[page][j]
    BY <1>4, <2>1
  <2> QED BY <1>6, <1>7, <2>2, <2>3, <2>4
<1> QED BY <1>6, <1>7, <1>8

-----------------------------------------------------------------------------
(* Dimensions.                                                             *)

UploadStates == {"idle", "embed", "upsert", "record", "done", "failed"}
ProcessStates == {"down", "create", "compare", "serving"}

(* A process that compares finds a collection, which never changes again;  *)
(* one that serves has found its own dimension; and an upload that has yet *)
(* to write is served by a process that serves.                            *)
DimInv ==
  /\ process \in [Processes -> [state : ProcessStates, dimension : Dimensions \cup {0}]]
  /\ collection \in Dimensions \cup {NoCollection}
  /\ pc \in [Uploads -> UploadStates]
  /\ at \in [Uploads -> Processes \cup {NoProcess}]
  /\ \A p \in Processes :
       /\ process[p].state = "create" => process[p].dimension \in Dimensions
       /\ process[p].state = "compare" => collection # NoCollection
       /\ process[p].state = "serving" =>
            collection # NoCollection /\ process[p].dimension = collection
  /\ \A u \in Uploads : pc[u] \in {"embed", "upsert"} =>
       at[u] \in Processes /\ process[at[u]].state = "serving"
  /\ \A x \in points : collection # NoCollection /\ x.dimension = collection

(* What is stored, and what has been recorded of it.                       *)
ChunksStored(doc) == \A i \in DOMAIN Chunks(doc) : \E x \in points : x.chunk = Chunks(doc)[i]

IsChunk(c) == \E doc \in DocumentIds : \E i \in DOMAIN Chunks(doc) : c = Chunks(doc)[i]

(* Every point is a chunk of its document, and an upload that is about to  *)
(* be recorded, or has been, has all its chunks among the points.          *)
StoredInv ==
  /\ \A x \in points : IsChunk(x.chunk)
  /\ \A u \in Uploads : pc[u] = "record" => ChunksStored(Content[u])
  /\ \A r \in records : /\ r.document \in DocumentIds
                        /\ r.indexed = Len(Chunks(r.document))
                        /\ ChunksStored(r.document)

-----------------------------------------------------------------------------
(* The dimensions agree: the only comparison is made when a process        *)
(* starts, and the collection never changes after that.                    *)
LEMMA DimInit == DocumentsInit => DimInv
BY DocumentsAssumption DEF DocumentsInit, DimInv, UploadStates, ProcessStates

(* The comparison of a process that starts keeps its meaning: nothing      *)
(* changes a collection that exists.                                       *)
LEMMA DimNext ==
  ASSUME DimInv, [DocumentsNext]_documentVars
  PROVE  DimInv'
<1> USE DocumentsAssumption DEF UploadStates, ProcessStates
<1>1. ASSUME NEW p \in Processes, Start(p) PROVE DimInv'
  <2>1. PICK d \in Dimensions : process' = [process EXCEPT ![p] =
          [state |-> IF collection = NoCollection THEN "create" ELSE "compare", dimension |-> d]]
    BY <1>1 DEF Start
  <2>2. process[p].state = "down" /\ UNCHANGED <<collection, points, pc, at>>
    BY <1>1 DEF Start, requestVars
  <2> QED BY <2>1, <2>2 DEF DimInv
<1>2. ASSUME NEW p \in Processes, Create(p) PROVE DimInv'
  <2>1. process[p].state = "create" /\ UNCHANGED <<points, pc, at>>
    BY <1>2 DEF Create, requestVars
  <2>2. CASE collection = NoCollection
    <3>1. collection' = process[p].dimension
          /\ process' = [process EXCEPT ![p].state = "serving"]
      BY <1>2, <2>2 DEF Create
    <3>2. process[p].dimension \in Dimensions
      BY <2>1 DEF DimInv
    <3>3. process[p].dimension # NoCollection
      BY <3>2
    <3>4. points = {} /\ \A q \in Processes : process[q].state \notin {"compare", "serving"}
      BY <2>2 DEF DimInv
    <3>5. \A u \in Uploads : pc[u] \notin {"embed", "upsert"}
      BY <3>4 DEF DimInv
    <3> QED BY <2>1, <3>1, <3>2, <3>3, <3>4, <3>5 DEF DimInv
  <2>3. CASE collection # NoCollection
    <3>1. UNCHANGED collection /\ process' = [process EXCEPT ![p].state = "down"]
      BY <1>2, <2>3 DEF Create
    <3> QED BY <2>1, <3>1 DEF DimInv
  <2> QED BY <2>2, <2>3
<1>3. ASSUME NEW p \in Processes, Compare(p) PROVE DimInv'
  <2>1. process[p].state = "compare" /\ UNCHANGED <<collection, points, pc, at>>
    BY <1>3 DEF Compare, requestVars
  <2> QED BY <1>3, <2>1 DEF DimInv, Compare
<1>4. ASSUME NEW p \in Processes, Crash(p) PROVE DimInv'
  <2>1. /\ process' = [process EXCEPT ![p].state = "down"]
        /\ pc' = [u \in Uploads |-> IF at[u] = p /\ pc[u] # "done" THEN "failed" ELSE pc[u]]
        /\ UNCHANGED <<collection, points, at>>
    BY <1>4 DEF Crash
  <2> QED BY <2>1 DEF DimInv
<1>5. ASSUME NEW u \in Uploads, Load(u) PROVE DimInv'
  <2>1. PICK p \in Processes : process[p].state = "serving" /\ at' = [at EXCEPT ![u] = p]
    BY <1>5 DEF Load
  <2>2. pc' = [pc EXCEPT ![u] = "failed"] \/ pc' = [pc EXCEPT ![u] = "embed"]
    BY <1>5 DEF Load, Goto
  <2>3. UNCHANGED <<collection, points, process>>
    BY <1>5 DEF Load
  <2> QED BY <2>1, <2>2, <2>3 DEF DimInv
<1>6. ASSUME NEW u \in Uploads, Embed(u) PROVE DimInv'
  <2>1. pc[u] = "embed"
        /\ (pc' = [pc EXCEPT ![u] = "failed"] \/ pc' = [pc EXCEPT ![u] = "upsert"])
        /\ UNCHANGED <<collection, points, process, at>>
    BY <1>6 DEF Embed, Goto
  <2> QED BY <2>1 DEF DimInv
<1>7. ASSUME NEW u \in Uploads, Upsert(u) PROVE DimInv'
  <2>1. pc[u] = "upsert"
        /\ (pc' = [pc EXCEPT ![u] = "failed"] \/ pc' = [pc EXCEPT ![u] = "record"])
        /\ UNCHANGED <<collection, process, at>>
    BY <1>7 DEF Upsert, Goto
  <2>2. points' = points \/ points' = Upserted(PointsOf(u))
    BY <1>7 DEF Upsert
  <2>3. \A x \in PointsOf(u) : x.dimension = process[at[u]].dimension
    BY DEF PointsOf
  <2>4. at[u] \in Processes /\ collection # NoCollection /\ process[at[u]].dimension = collection
    BY <2>1 DEF DimInv
  <2>5. \A x \in points' : x \in points \/ x \in PointsOf(u)
    BY <2>2 DEF Upserted
  <2>6. \A x \in points' : x.dimension = collection'
    BY <2>1, <2>3, <2>4, <2>5 DEF DimInv
  <2> QED BY <2>1, <2>4, <2>6 DEF DimInv
<1>8. ASSUME NEW u \in Uploads, Record(u) PROVE DimInv'
  <2>1. (pc' = [pc EXCEPT ![u] = "failed"] \/ pc' = [pc EXCEPT ![u] = "done"])
        /\ UNCHANGED <<collection, points, process, at>>
    BY <1>8 DEF Record, Goto
  <2> QED BY <2>1 DEF DimInv
<1>9. ASSUME NEW q \in Queries, Retrieve(q) PROVE DimInv'
  BY <1>9 DEF Retrieve, DimInv
<1>10. CASE UNCHANGED documentVars
  BY <1>10 DEF documentVars, DimInv
<1> QED BY <1>1, <1>2, <1>3, <1>4, <1>5, <1>6, <1>7, <1>8, <1>9, <1>10
     DEF DocumentsNext, ProcessNext, UploadNext

(* No process serves with another dimension than the collection has, and   *)
(* no point of another dimension is ever written, however the start-ups of *)
(* the processes interleave.                                               *)
THEOREM DimensionsConsistent == DocumentsSpec => []DimensionsAgree
<1>1. DimInv => DimensionsAgree
  BY DEF DimInv, DimensionsAgree
<1> QED BY <1>1, DimInit, DimNext, PTL DEF DocumentsSpec

-----------------------------------------------------------------------------
(* What is recorded is stored.                                             *)

(* A chunk is named by its document and its number.                        *)
LEMMA NamedChunk ==
  ASSUME NEW c, NEW d, IsChunk(c), IsChunk(d), c.document = d.document, c.index = d.index
  PROVE  c = d
<1>1. PICK x \in DocumentIds : \E i \in DOMAIN Chunks(x) : c = Chunks(x)[i]
  BY DEF IsChunk
<1>2. PICK i \in DOMAIN Chunks(x) : c = Chunks(x)[i]
  BY <1>1
<1>3. PICK y \in DocumentIds : \E j \in DOMAIN Chunks(y) : d = Chunks(y)[j]
  BY DEF IsChunk
<1>4. PICK j \in DOMAIN Chunks(y) : d = Chunks(y)[j]
  BY <1>3
<1>5. c.document = x /\ c.index = i - 1 /\ i \in Int
  BY <1>2, ChunksCover
<1>6. d.document = y /\ d.index = j - 1 /\ j \in Int
  BY <1>4, ChunksCover
<1>7. x = y /\ i = j
  <2>1. i - 1 = j - 1
    BY <1>5, <1>6
  <2>2. \A a, b \in Int : a - 1 = b - 1 => a = b
    OBVIOUS
  <2>3. i = j
    BY <1>5, <1>6, <2>1, <2>2
  <2>4. x = y
    BY <1>5, <1>6
  <2> QED BY <2>3, <2>4
<1> QED BY <1>2, <1>4, <1>7

(* Writing the points of an upload adds its chunks and loses none.         *)
LEMMA UpsertStores ==
  ASSUME NEW u \in Uploads, \A x \in points : IsChunk(x.chunk),
         points' = Upserted(PointsOf(u))
  PROVE  /\ \A x \in points' : IsChunk(x.chunk)
         /\ ChunksStored(Content[u])'
         /\ \A doc \in DocumentIds : ChunksStored(doc) => ChunksStored(doc)'
<1> DEFINE new == PointsOf(u)
           doc == Content[u]
           point(i) == [chunk |-> Chunks(doc)[i], file |-> FileName[u],
                        dimension |-> process[at[u]].dimension]
<1>1. doc \in DocumentIds
  BY DocumentsAssumption
<1>2. new = {point(i) : i \in DOMAIN Chunks(doc)}
  BY DEF PointsOf, ChunksFor, Range
<1>3. \A i \in DOMAIN Chunks(doc) : IsChunk(Chunks(doc)[i])
  BY <1>1 DEF IsChunk
<1>4. \A x \in new : IsChunk(x.chunk)
  BY <1>2, <1>3
<1>5. \A x, y \in new : x.chunk = y.chunk => x = y
  BY <1>2
<1> HIDE DEF new, point
<1>6. \A x, y \in new : SamePoint(x, y) => x = y
  BY <1>4, <1>5, NamedChunk DEF SamePoint
<1>7. \A x \in new : x = CHOOSE y \in new : SamePoint(x, y)
  <2> SUFFICES ASSUME NEW x \in new PROVE x = CHOOSE y \in new : SamePoint(x, y)
    OBVIOUS
  <2>1. SamePoint(x, x)
    BY DEF SamePoint
  <2>2. \E y \in new : SamePoint(x, y)
    BY <2>1
  <2> DEFINE z == CHOOSE y \in new : SamePoint(x, y)
  <2>3. z \in new /\ SamePoint(x, z)
    BY <2>2
  <2> HIDE DEF z
  <2>4. x = z
    BY <1>6, <2>3
  <2> QED BY <2>4 DEF z
<1>8. points' = {x \in points : \A y \in new : ~SamePoint(x, y)} \cup new
  <2> DEFINE first(x) == CHOOSE y \in new : SamePoint(x, y)
  <2>1. points' = {x \in points : \A y \in new : ~SamePoint(x, y)} \cup {x \in new : x = first(x)}
    BY DEF Upserted, new
  <2>2. \A x \in new : x = first(x)
    BY <1>7
  <2> HIDE DEF first
  <2> QED BY <2>1, <2>2
<1>9. \A x \in points' : IsChunk(x.chunk)
  BY <1>4, <1>8
<1>10. \A x \in points : \E y \in points' : y.chunk = x.chunk
  <2> SUFFICES ASSUME NEW x \in points PROVE \E y \in points' : y.chunk = x.chunk
    OBVIOUS
  <2>1. CASE \A y \in new : ~SamePoint(x, y)
    BY <1>8, <2>1
  <2>2. CASE \E y \in new : SamePoint(x, y)
    <3>1. PICK y \in new : SamePoint(x, y)
      BY <2>2
    <3>2. IsChunk(x.chunk) /\ IsChunk(y.chunk)
      BY <1>4
    <3>3. x.chunk = y.chunk
      BY <3>1, <3>2, NamedChunk DEF SamePoint
    <3> QED BY <1>8, <3>3
  <2> QED BY <2>1, <2>2
<1>11. \A i \in DOMAIN Chunks(doc) : \E x \in points' : x.chunk = Chunks(doc)[i]
  <2>1. \A i \in DOMAIN Chunks(doc) : point(i) \in new /\ point(i).chunk = Chunks(doc)[i]
    BY <1>2 DEF point
  <2> QED BY <1>8, <2>1
<1> HIDE DEF doc
<1>12. ASSUME NEW d \in DocumentIds, ChunksStored(d) PROVE ChunksStored(d)'
  <2>1. \A i \in DOMAIN Chunks(d) : \E x \in points' : x.chunk = Chunks(d)[i]
    BY <1>10, <1>12 DEF ChunksStored
  <2> QED BY <2>1 DEF ChunksStored
<1>13. ChunksStored(doc)'
  BY <1>11 DEF ChunksStored, doc
<1> QED BY <1>9, <1>12, <1>13 DEF doc

(* Only Upsert writes points, and only an upload that has written all of   *)
(* its chunks goes on to be recorded.                                      *)
LEMMA StoredNext ==
  ASSUME DimInv, StoredInv, [DocumentsNext]_documentVars
  PROVE  StoredInv'
<1>1. CASE UNCHANGED points
  <2>1. \A doc : ChunksStored(doc)' <=> ChunksStored(doc)
    BY <1>1 DEF ChunksStored
  <2>2. CASE UNCHANGED <<pc, records>>
    BY <1>1, <2>1, <2>2 DEF StoredInv
  <2>3. ASSUME NEW p \in Processes, ProcessNext(p) PROVE StoredInv'
    <3>1. UNCHANGED records /\ \A u \in Uploads : pc'[u] = "record" => pc[u] = "record"
      BY <2>3 DEF ProcessNext, Start, Create, Compare, Crash, requestVars
    <3> QED BY <1>1, <2>1, <3>1 DEF StoredInv
  <2>4. ASSUME NEW u \in Uploads, Load(u) \/ Embed(u) \/ Upsert(u) PROVE StoredInv'
    <3>1. UNCHANGED records
      BY <2>4 DEF Load, Embed, Upsert
    <3>2. pc \in [Uploads -> UploadStates]
      BY DEF DimInv
    <3>3. \/ pc' = [pc EXCEPT ![u] = "failed"]
          \/ pc' = [pc EXCEPT ![u] = "embed"]
          \/ pc' = [pc EXCEPT ![u] = "upsert"]
          \/ ChunksStored(Content[u])' /\ pc' = [pc EXCEPT ![u] = "record"]
      <4>1. CASE Load(u) \/ Embed(u)
        <5>1. CASE Load(u)
          <6>1. pc' = [pc EXCEPT ![u] = "failed"] \/ pc' = [pc EXCEPT ![u] = "embed"]
            BY <5>1 DEF Load, Goto
          <6> QED BY <6>1
        <5>2. CASE Embed(u)
          <6>1. pc' = [pc EXCEPT ![u] = "failed"] \/ pc' = [pc EXCEPT ![u] = "upsert"]
            BY <5>2 DEF Embed, Goto
          <6> QED BY <6>1
        <5> QED BY <4>1, <5>1, <5>2
      <4>2. CASE Upsert(u)
        <5>1. CASE points' = Upserted(PointsOf(u))
          <6>1. ChunksStored(Content[u])'
            BY <5>1, UpsertStores DEF StoredInv
          <6>2. pc' = [pc EXCEPT ![u] = "failed"] \/ pc' = [pc EXCEPT ![u] = "record"]
            BY <4>2 DEF Upsert, Goto
          <6> QED BY <6>1, <6>2
        <5>2. CASE Goto(u, "failed")
          <6>1. pc' = [pc EXCEPT ![u] = "failed"]
            BY <5>2 DEF Goto
          <6> QED BY <6>1
        <5> QED BY <4>2, <5>1, <5>2 DEF Upsert
      <4> QED BY <2>4, <4>1, <4>2
    <3>4. \A v \in Uploads : pc'[v] = "record" => pc[v] = "record" \/ ChunksStored(Content[v])'
      BY <3>2, <3>3
    <3> QED BY <1>1, <2>1, <3>1, <3>4 DEF StoredInv
  <2>5. ASSUME NEW u \in Uploads, Record(u) PROVE StoredInv'
    <3>1. pc[u] = "record" /\ Content[u] \in DocumentIds
      BY <2>5, DocumentsAssumption DEF Record
    <3>2. \A r \in records' :
            r \in records \/ (r.document = Content[u] /\ r.indexed = Len(Chunks(Content[u])))
      BY <2>5 DEF Record, ChunksFor
    <3>3. pc \in [Uploads -> UploadStates]
      BY DEF DimInv
    <3>4. \A v \in Uploads : pc'[v] = "record" => pc[v] = "record"
      BY <2>5, <3>3 DEF Record, Goto
    <3> QED BY <1>1, <2>1, <3>1, <3>2, <3>4 DEF StoredInv
  <2>6. ASSUME NEW q \in Queries, Retrieve(q) PROVE StoredInv'
    <3>1. UNCHANGED <<pc, records>>
      BY <2>6 DEF Retrieve
    <3> QED BY <2>2, <3>1
  <2>7. CASE UNCHANGED documentVars
    BY <2>2, <2>7 DEF documentVars
  <2> QED BY <2>3, <2>4, <2>5, <2>6, <2>7 DEF DocumentsNext, UploadNext
<1>2. CASE ~UNCHANGED points
  <2>1. PICK u \in Uploads : Upsert(u)
    BY <1>2 DEF DocumentsNext, ProcessNext, UploadNext, Start, Create, Compare, Crash,
                Load, Embed, Record, Retrieve, documentVars
  <2>2. points' = Upserted(PointsOf(u)) /\ UNCHANGED records
    BY <1>2, <2>1 DEF Upsert
  <2>3. /\ \A x \in points' : IsChunk(x.chunk)
        /\ ChunksStored(Content[u])'
        /\ \A doc \in DocumentIds : ChunksStored(doc) => ChunksStored(doc)'
    BY <2>2, UpsertStores DEF StoredInv
  <2>4. pc \in [Uploads -> UploadStates]
    BY DEF DimInv
  <2>5. \A v \in Uploads : v # u => pc'[v] = pc[v]
    BY <2>1, <2>4 DEF Upsert, Goto
  <2>6. \A v \in Uploads : Content[v] \in DocumentIds
    BY DocumentsAssumption
  <2> QED BY <2>2, <2>3, <2>5, <2>6 DEF StoredInv
<1> QED BY <1>1, <1>2

(* For every record the collection holds as many points of the document as *)
(* it says, and every character of its pages that is not blank.            *)
LEMMA StoredSearchable == StoredInv => RecordedIsSearchable
<1> SUFFICES ASSUME StoredInv, NEW r \in records
             PROVE  LET stored == {x.chunk : x \in {y \in points : y.chunk.document = r.document}}
                    IN /\ Cardinality(stored) = r.indexed
                       /\ \A page \in DOMAIN Pages[r.document] :
                            LET text == Stripped(Pages[r.document][page])
                            IN Inked(text) \subseteq
                                 UNION {c.range : c \in {d \in stored : d.page = page}}
  BY DEF RecordedIsSearchable
<1> DEFINE doc == r.document
           stored == {x.chunk : x \in {y \in points : y.chunk.document = doc}}
           n == Len(Chunks(doc))
           f == [i \in 1..n |-> Chunks(doc)[i]]
<1>1. doc \in DocumentIds /\ r.indexed = n /\ ChunksStored(doc)
  BY DEF StoredInv
<1> HIDE DEF doc
<1>2. /\ n \in Nat /\ DOMAIN Chunks(doc) = 1..n
      /\ \A i \in 1..n : Chunks(doc)[i].document = doc /\ Chunks(doc)[i].index = i - 1
      /\ \A page \in DOMAIN Pages[doc] : \A c \in Inked(Stripped(Pages[doc][page])) :
           \E i \in 1..n : Chunks(doc)[i].page = page /\ c \in Chunks(doc)[i].range
  <2>1. Len(Chunks(doc)) \in Nat /\ DOMAIN Chunks(doc) = 1..Len(Chunks(doc))
    BY <1>1, ChunksCover
  <2>2. \A i \in DOMAIN Chunks(doc) : Chunks(doc)[i].document = doc /\ Chunks(doc)[i].index = i - 1
    BY <1>1, ChunksCover
  <2>3. \A page \in DOMAIN Pages[doc] : \A c \in Inked(Stripped(Pages[doc][page])) :
          \E i \in DOMAIN Chunks(doc) : Chunks(doc)[i].page = page /\ c \in Chunks(doc)[i].range
    BY <1>1, ChunksCover
  <2> QED BY <2>1, <2>2, <2>3
<1> HIDE DEF n
<1>3. \A i \in 1..n : Chunks(doc)[i] \in stored
  BY <1>1, <1>2 DEF ChunksStored
<1>4. \A c \in stored : \E i \in 1..n : c = Chunks(doc)[i]
  <2> SUFFICES ASSUME NEW x \in points, x.chunk.document = doc
               PROVE  \E i \in 1..n : x.chunk = Chunks(doc)[i]
    OBVIOUS
  <2>1. PICK d \in DocumentIds : \E i \in DOMAIN Chunks(d) : x.chunk = Chunks(d)[i]
    BY DEF StoredInv, IsChunk
  <2>2. PICK i \in DOMAIN Chunks(d) : x.chunk = Chunks(d)[i]
    BY <2>1
  <2>3. x.chunk.document = d
    BY <2>2, ChunksCover
  <2>4. d = doc
    BY <2>3
  <2> QED BY <1>2, <2>2, <2>4
<1> HIDE DEF stored
<1>5. Cardinality(stored) = n
  <2>1. \A i, j \in 1..n : f[i] = f[j] => i = j
    <3> SUFFICES ASSUME NEW i \in 1..n, NEW j \in 1..n, f[i] = f[j] PROVE i = j
      OBVIOUS
    <3>1. Chunks(doc)[i].index = Chunks(doc)[j].index
      OBVIOUS
    <3>2. i - 1 = j - 1
      BY <1>2, <3>1
    <3> QED BY <1>2, <3>2
  <2>2. f \in [1..n -> stored] /\ \A c \in stored : \E i \in 1..n : f[i] = c
    BY <1>3, <1>4
  <2> HIDE DEF f
  <2> QED BY <1>2, <2>1, <2>2, ListedOnce
<1>6. ASSUME NEW page \in DOMAIN Pages[doc], NEW c \in Inked(Stripped(Pages[doc][page]))
      PROVE  c \in UNION {d.range : d \in {e \in stored : e.page = page}}
  <2>1. PICK i \in 1..n : Chunks(doc)[i].page = page /\ c \in Chunks(doc)[i].range
    BY <1>2
  <2> QED BY <1>3, <2>1
<1> QED BY <1>1, <1>5, <1>6 DEF stored, doc

(* What is recorded as ingested can be found, whatever crashed, failed or  *)
(* was uploaded beside it: between Qdrant and PostgreSQL there is no       *)
(* transaction, only the order of the two writes and the names of points.  *)
THEOREM RecordsSearchable == DocumentsSpec => []RecordedIsSearchable
<1>1. DocumentsInit => StoredInv
  BY DEF DocumentsInit, StoredInv
<1> QED BY <1>1, DimInit, DimNext, StoredNext, StoredSearchable, PTL DEF DocumentsSpec

-----------------------------------------------------------------------------
(* The evidence.                                                           *)

(* There are finitely many points: an upload has finitely many chunks.     *)
LEMMA FiniteUpserted ==
  ASSUME NEW u \in Uploads, IsFiniteSet(points)
  PROVE  IsFiniteSet(Upserted(PointsOf(u)))
<1> DEFINE doc == Content[u]
           n == Len(Chunks(doc))
           point == [i \in 1..n |-> [chunk |-> Chunks(doc)[i], file |-> FileName[u],
                                     dimension |-> process[at[u]].dimension]]
           new == PointsOf(u)
<1>1. n \in Nat /\ DOMAIN Chunks(doc) = 1..n
  BY DocumentsAssumption, ChunksCover
<1>2. new = {point[i] : i \in 1..n}
  BY <1>1 DEF PointsOf, ChunksFor, Range
<1>3. point \in [1..n -> new] /\ \A x \in new : \E i \in 1..n : point[i] = x
  <2> HIDE DEF new
  <2>1. DOMAIN point = 1..n
    OBVIOUS
  <2>2. point = [i \in 1..n |-> point[i]]
    OBVIOUS
  <2> HIDE DEF point
  <2> QED BY <1>2, <2>1, <2>2
<1>4. IsFiniteSet(1..n)
  BY <1>1, FS_Interval
<1> HIDE DEF new, point, n
<1>5. IsFiniteSet(new)
  <2>1. point \in Surjection(1..n, new)
    BY <1>3 DEF Surjection
  <2> QED BY <1>4, <2>1, FS_Surjection
<1>6. IsFiniteSet(points \cup new)
  BY <1>5, FS_Union
<1>7. Upserted(new) \in SUBSET (points \cup new)
  BY DEF Upserted
<1>8. IsFiniteSet(Upserted(new))
  BY <1>6, <1>7, FS_Subset
<1> QED BY <1>8 DEF new

(* What an answer rests on: finitely many points, and an entry for each    *)
(* query.                                                                  *)
AnsweredInv ==
  /\ IsFiniteSet(points)
  /\ asked \in [Queries -> {"idle", "answered", "failed"}]
  /\ DOMAIN evidence = Queries

(* No step but Upsert writes points, and none but Retrieve answers.        *)
LEMMA AnsweredNext ==
  ASSUME AnsweredInv, [DocumentsNext]_documentVars
  PROVE  AnsweredInv'
<1> USE DEF AnsweredInv
<1>1. ASSUME UNCHANGED points PROVE IsFiniteSet(points)'
  BY <1>1
<1>2. ASSUME NEW p \in Processes, ProcessNext(p) PROVE UNCHANGED points
  BY <1>2 DEF ProcessNext, Start, Create, Compare, Crash
<1>3. ASSUME NEW u \in Uploads, UploadNext(u)
      PROVE  UNCHANGED points \/ points' = Upserted(PointsOf(u))
  BY <1>3 DEF UploadNext, Load, Embed, Upsert, Record
<1>4. ASSUME NEW q \in Queries, Retrieve(q) PROVE UNCHANGED points
  BY <1>4 DEF Retrieve
<1>5. UNCHANGED documentVars => UNCHANGED points
  BY DEF documentVars
<1>6. \/ UNCHANGED points
      \/ \E u \in Uploads : points' = Upserted(PointsOf(u))
  BY <1>2, <1>3, <1>4, <1>5 DEF DocumentsNext
<1>7. IsFiniteSet(points)'
  BY <1>1, <1>6, FiniteUpserted
<1>8. /\ asked' \in [Queries -> {"idle", "answered", "failed"}]
      /\ DOMAIN evidence' = Queries
  <2>1. ASSUME NEW p \in Processes, ProcessNext(p) PROVE UNCHANGED <<asked, evidence>>
    BY <2>1 DEF ProcessNext, Start, Create, Compare, Crash, requestVars
  <2>2. ASSUME NEW u \in Uploads, UploadNext(u) PROVE UNCHANGED <<asked, evidence>>
    BY <2>2 DEF UploadNext, Load, Embed, Upsert, Record
  <2>3. ASSUME NEW q \in Queries, Retrieve(q)
        PROVE  /\ \/ asked' = [asked EXCEPT ![q] = "answered"]
                  \/ asked' = [asked EXCEPT ![q] = "failed"]
               /\ \/ \E answer : evidence' = [evidence EXCEPT ![q] = answer]
                  \/ evidence' = evidence
    BY <2>3 DEF Retrieve
  <2>4. CASE UNCHANGED <<asked, evidence>>
    BY <2>4
  <2>5. CASE \E q \in Queries : Retrieve(q)
    BY <2>3, <2>5
  <2> QED BY <2>1, <2>2, <2>4, <2>5 DEF DocumentsNext, documentVars
<1> QED BY <1>7, <1>8

(* A point has a similarity to every query and a coverage of it.           *)
LEMMA PointScored ==
  ASSUME NEW q \in Queries, NEW x, IsChunk(x.chunk)
  PROVE  SimilarityOf(q, x) \in Int /\ Coverage[q][Name(x)] \in Int
<1>1. PICK doc \in DocumentIds : \E i \in DOMAIN Chunks(doc) : x.chunk = Chunks(doc)[i]
  BY DEF IsChunk
<1>2. PICK i \in DOMAIN Chunks(doc) : x.chunk = Chunks(doc)[i]
  BY <1>1
<1>3. x.chunk.document = doc /\ x.chunk.index = i - 1
  BY <1>2, ChunksCover
<1>4. Name(x) = <<doc, i - 1>>
  BY <1>3 DEF Name
<1>5. Similarity[q][<<doc, i - 1>>] \in Int /\ Coverage[q][<<doc, i - 1>>] \in 0..10
  BY ScoresAssumption
<1> QED BY <1>4, <1>5 DEF SimilarityOf

(* A point that is closer and covers more has the higher score, although   *)
(* similarity is clamped.                                                  *)
LEMMA CloserAndCoveringIsHigher ==
  ASSUME NEW q \in Queries, NEW x, NEW y,
         SimilarityOf(q, x) \in Int, Coverage[q][Name(x)] \in Int,
         SimilarityOf(q, y) \in Int, Coverage[q][Name(y)] \in Int,
         SimilarityOf(q, y) > SimilarityOf(q, x),
         Coverage[q][Name(y)] > Coverage[q][Name(x)]
  PROVE  RerankScore(q, y) > RerankScore(q, x)
<1> DEFINE sx == SimilarityOf(q, x)
           sy == SimilarityOf(q, y)
           cx == Coverage[q][Name(x)]
           cy == Coverage[q][Name(y)]
<1>1. sx \in Int /\ sy \in Int /\ cx \in Int /\ cy \in Int /\ sy > sx /\ cy > cx
  OBVIOUS
<1>2. RerankScore(q, x) = 7 * Clamped(sx) + 3 * cx /\ RerankScore(q, y) = 7 * Clamped(sy) + 3 * cy
  BY DEF RerankScore
<1> HIDE DEF sx, sy, cx, cy
<1>3. Clamped(sx) \in Int /\ Clamped(sy) \in Int /\ Clamped(sy) >= Clamped(sx)
  BY <1>1 DEF Clamped
<1> QED BY <1>1, <1>2, <1>3

(* What Qdrant answers, ranked and cut: as many points as there are within *)
(* the two limits, each once, and none better left out.                    *)
LEMMA ChosenUndominated ==
  ASSUME StoredInv, AnsweredInv, NEW q \in Queries, NEW retrieved \in Nearest(q),
         NEW chosen, chosen = FirstOf(Reranked(q, retrieved), EvidenceLimit)
  PROVE  /\ Cardinality(Range(chosen)) =
              Smaller(Smaller(EvidenceLimit, RetrievalLimit), Cardinality(points))
         /\ \A x \in Range(chosen), y \in points \ Range(chosen) :
              ~ /\ SimilarityOf(q, y) > SimilarityOf(q, x)
                /\ Coverage[q][Name(y)] > Coverage[q][Name(x)]
<1> DEFINE n == Smaller(RetrievalLimit, Cardinality(points))
           m == Len(chosen)
           key == [i \in 1..n |-> RerankScore(q, retrieved[i])]
           first == FirstOf(ByKey(retrieved, key), EvidenceLimit)
<1>1. /\ Cardinality(points) \in Nat /\ RetrievalLimit \in Nat /\ EvidenceLimit \in Nat
      /\ n \in Nat
  BY DocumentsAssumption, FS_CardinalityType DEF Smaller, AnsweredInv
<1>2. /\ retrieved \in [1..n -> points]
      /\ \A i, j \in 1..n : i < j => retrieved[i] # retrieved[j]
      /\ \A i \in 1..n : \A y \in points \ Range(retrieved) :
           SimilarityOf(q, retrieved[i]) >= SimilarityOf(q, y)
  BY DEF Nearest
<1>3. \A x \in points : /\ SimilarityOf(q, x) \in Int
                        /\ Coverage[q][Name(x)] \in Int
                        /\ RerankScore(q, x) \in Int
  <2>1. \A x \in points : SimilarityOf(q, x) \in Int /\ Coverage[q][Name(x)] \in Int
    BY PointScored DEF StoredInv
  <2> QED BY <2>1 DEF RerankScore, Clamped
<1>4. key \in [1..n -> Int] /\ \A i \in 1..n : key[i] = RerankScore(q, retrieved[i])
  BY <1>2, <1>3
<1>5. chosen = first
  <2>1. DOMAIN retrieved = 1..n
    BY <1>2
  <2> QED BY <2>1 DEF Reranked
<1> HIDE DEF n, key
<1>6. /\ first \in Seq(points) /\ DOMAIN first = 1..Len(first)
      /\ Len(first) = IF n < EvidenceLimit THEN n ELSE EvidenceLimit
      /\ \E order \in [1..n -> 1..n] :
           /\ \A i \in 1..n : \E k \in 1..n : order[k] = i
           /\ \A j, k \in 1..n : order[j] = order[k] => j = k
           /\ \A k \in 1..Len(first) : k \in 1..n /\ first[k] = retrieved[order[k]]
           /\ \A j, k \in 1..n : j < k => key[order[j]] >= key[order[k]]
  <2>1. BestOf(first, n, points, retrieved, key, EvidenceLimit)
    BY <1>1, <1>2, <1>4, FirstByKey
  <2> HIDE DEF first
  <2> QED BY <2>1 DEF BestOf
<1> HIDE DEF first
<1>7. /\ m = (IF n < EvidenceLimit THEN n ELSE EvidenceLimit)
      /\ m \in Nat /\ DOMAIN chosen = 1..m
      /\ chosen \in Seq(points)
  BY <1>1, <1>5, <1>6
<1>8. PICK order \in [1..n -> 1..n] :
        /\ \A i \in 1..n : \E k \in 1..n : order[k] = i
        /\ \A j, k \in 1..n : order[j] = order[k] => j = k
        /\ \A k \in 1..m : k \in 1..n /\ chosen[k] = retrieved[order[k]]
        /\ \A j, k \in 1..n : j < k => key[order[j]] >= key[order[k]]
  BY <1>5, <1>6
<1> HIDE DEF m
<1>9. Range(chosen) = {chosen[k] : k \in 1..m}
  BY <1>7 DEF Range
<1>10. \A i, j \in 1..n : retrieved[i] = retrieved[j] => i = j
  <2>1. \A i, j \in 1..n : i < j \/ j < i \/ i = j
    BY <1>1
  <2> QED BY <1>2, <2>1
<1>11. Cardinality(Range(chosen)) = m
  <2>1. ASSUME NEW j \in 1..m, NEW k \in 1..m, chosen[j] = chosen[k] PROVE j = k
    <3>1. j \in 1..n /\ k \in 1..n /\ order[j] \in 1..n /\ order[k] \in 1..n
      BY <1>8
    <3>2. retrieved[order[j]] = retrieved[order[k]]
      BY <1>8, <2>1
    <3> QED BY <1>8, <1>10, <3>1, <3>2
  <2>2. /\ \A k \in 1..m : chosen[k] \in Range(chosen)
        /\ \A x \in Range(chosen) : \E k \in 1..m : chosen[k] = x
    BY <1>9
  <2>3. chosen \in [1..m -> Range(chosen)]
    <3>1. chosen = [k \in 1..m |-> chosen[k]]
      BY <1>7
    <3> QED BY <2>2, <3>1
  <2> DEFINE T == Range(chosen)
  <2> HIDE DEF T
  <2>4. Cardinality(T) = m
    BY ZenonT(40), <1>7, <2>1, <2>2, <2>3, ListedOnce DEF T
  <2> QED BY <2>4 DEF T
<1>12. m = Smaller(Smaller(EvidenceLimit, RetrievalLimit), Cardinality(points))
  BY <1>1, <1>7 DEF n, Smaller
<1>13. ASSUME NEW x \in Range(chosen), NEW y \in points \ Range(chosen),
              SimilarityOf(q, y) > SimilarityOf(q, x),
              Coverage[q][Name(y)] > Coverage[q][Name(x)]
       PROVE  FALSE
  <2>1. PICK k \in 1..m : x = chosen[k]
    BY <1>9
  <2>2. k \in 1..n /\ order[k] \in 1..n /\ x = retrieved[order[k]] /\ x \in points
    BY <1>2, <1>8, <2>1
  <2>3. /\ SimilarityOf(q, x) \in Int /\ Coverage[q][Name(x)] \in Int
        /\ SimilarityOf(q, y) \in Int /\ Coverage[q][Name(y)] \in Int
        /\ RerankScore(q, x) \in Int /\ RerankScore(q, y) \in Int
    BY <1>3, <2>2
  <2>4. y \in Range(retrieved)
    <3> SUFFICES ASSUME y \notin Range(retrieved) PROVE FALSE
      OBVIOUS
    <3>1. SimilarityOf(q, x) >= SimilarityOf(q, y)
      BY <1>2, <2>2
    <3> QED BY <1>13, <2>3, <3>1
  <2>5. PICK i \in 1..n : y = retrieved[i]
    BY <1>2, <2>4 DEF Range
  <2>6. PICK j \in 1..n : order[j] = i
    BY <1>8
  <2>7. k < j
    <3>1. j \notin 1..m
      <4> SUFFICES ASSUME j \in 1..m PROVE FALSE
        OBVIOUS
      <4>1. y = chosen[j]
        BY <1>8, <2>5, <2>6
      <4> QED BY <1>9, <4>1
    <3> QED BY <1>1, <1>7, <3>1
  <2>8. key[order[k]] = RerankScore(q, x) /\ key[order[j]] = RerankScore(q, y)
    BY <1>4, <2>2, <2>5, <2>6
  <2>9. key[order[k]] >= key[order[j]]
    BY <1>8, <2>2, <2>7
  <2>10. RerankScore(q, y) > RerankScore(q, x)
    BY <1>13, <2>3, CloserAndCoveringIsHigher
  <2> QED BY <2>3, <2>8, <2>9, <2>10
<1> QED BY <1>11, <1>12, <1>13

(* One answer keeps its promise; the other queries are not answered.       *)
LEMMA RetrieveUndominated ==
  ASSUME StoredInv, AnsweredInv, [DocumentsNext]_documentVars,
         NEW q \in Queries, asked[q] = "idle", asked'[q] = "answered"
  PROVE  LET chosen == Range(evidence'[q])
         IN /\ Cardinality(chosen) =
                 Smaller(Smaller(EvidenceLimit, RetrievalLimit), Cardinality(points))
            /\ \A x \in chosen, y \in points \ chosen :
                 ~ /\ SimilarityOf(q, y) > SimilarityOf(q, x)
                   /\ Coverage[q][Name(y)] > Coverage[q][Name(x)]
<1>1. asked' # asked
  OBVIOUS
<1>2. ASSUME NEW p \in Processes, ProcessNext(p) PROVE asked' = asked
  BY <1>2 DEF ProcessNext, Start, Create, Compare, Crash, requestVars
<1>3. ASSUME NEW u \in Uploads, UploadNext(u) PROVE asked' = asked
  BY <1>3 DEF UploadNext, Load, Embed, Upsert, Record
<1>4. PICK r \in Queries : Retrieve(r)
  BY <1>1, <1>2, <1>3 DEF DocumentsNext, documentVars
<1>5. asked' = [asked EXCEPT ![r] = "answered"] \/ asked' = [asked EXCEPT ![r] = "failed"]
  BY <1>4 DEF Retrieve
<1>6. r = q /\ asked' # [asked EXCEPT ![q] = "failed"]
  BY <1>5 DEF AnsweredInv
<1>7. PICK retrieved \in Nearest(q) :
        evidence' = [evidence EXCEPT ![q] = FirstOf(Reranked(q, retrieved), EvidenceLimit)]
  BY <1>4, <1>6 DEF Retrieve
<1>8. evidence'[q] = FirstOf(Reranked(q, retrieved), EvidenceLimit)
  BY <1>7 DEF AnsweredInv
<1> QED BY <1>8, ChosenUndominated

(* No chunk that was stored is left out of an answer for one that is       *)
(* neither closer to the question nor covers more of it, although the      *)
(* answer is cut twice, by two scores: on every step, whatever the order   *)
(* in which Qdrant lists points of equal similarity.                       *)
THEOREM EvidenceIsUndominated == DocumentsSpec => EvidenceUndominated
<1>1. DocumentsInit => StoredInv /\ AnsweredInv
  BY FS_EmptySet DEF DocumentsInit, StoredInv, AnsweredInv
<1>2. StoredInv /\ AnsweredInv /\ [DocumentsNext]_documentVars =>
        [\A q \in Queries : asked[q] = "idle" /\ asked'[q] = "answered" =>
           LET chosen == Range(evidence'[q])
           IN /\ Cardinality(chosen) =
                   Smaller(Smaller(EvidenceLimit, RetrievalLimit), Cardinality(points))
              /\ \A x \in chosen, y \in points \ chosen :
                   ~ /\ SimilarityOf(q, y) > SimilarityOf(q, x)
                     /\ Coverage[q][Name(y)] > Coverage[q][Name(x)]]_documentVars
  BY RetrieveUndominated
<1> QED BY <1>1, <1>2, DimInit, DimNext, StoredNext, AnsweredNext, PTL
     DEF DocumentsSpec, EvidenceUndominated

=============================================================================
