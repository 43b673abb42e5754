--------------------------- MODULE PipelineProofs ---------------------------
(***************************************************************************)
(* Proofs about the upload of BOM files, for every set of files and every  *)
(* number of uploads.                                                      *)
(***************************************************************************)
EXTENDS Pipeline, ListProofs, SequenceTheorems

-----------------------------------------------------------------------------
(* One BOM for an upload that succeeds.                                    *)

(* The counts of a result, and the shape of the list of BOMs.              *)
Counted ==
  /\ uploads \in Nat
  /\ result.total \in Nat /\ result.invalid \in Nat
  /\ IsList(stored)
  /\ stage = "merge" => IsList(records) /\ IsList(read)

(* The files that may be in progress.                                      *)
InProgress == stage \in {"check", "structure", "merge", "store", "answer"} => file \in Files

(* What is parsed is a list.                                               *)
ParsedListed == stage = "structure" => IsList(records)

(* A BOM is of an upload that has begun, each of another, and the one in   *)
(* progress has its own from its store on, when its result is storable.    *)
StoredOnce ==
  /\ \A i \in DOMAIN stored : stored[i].upload \in Nat /\ stored[i].upload <= uploads
  /\ \A i, j \in DOMAIN stored : stored[i].upload = stored[j].upload => i = j
  /\ stage \in {"check", "structure", "merge", "store"} =>
       \A i \in DOMAIN stored : stored[i].upload # uploads
  /\ stage = "answer" =>
       (Storable(result) <=> \E i \in DOMAIN stored : stored[i].upload = uploads)

UploadInv ==
  /\ stage \in {"idle", "check", "structure", "merge", "store", "answer"}
  /\ Counted /\ InProgress /\ ParsedListed /\ StoredOnce

(* Rows of a file are a list, whatever the format.                         *)
LEMMA ParsedIsList == ASSUME NEW f \in Files PROVE IsList(Parsed(f))
<1> DEFINE Named(row) == {h \in DOMAIN row : row[h].text # ""}
           elements == [i \in DOMAIN f.rows |-> [h \in Named(f.rows[i]) |-> f.rows[i][h]]]
           kept == {i \in DOMAIN elements : DOMAIN elements[i] # {}}
<1>1. IsList(f.rows)
  BY PipelineAssumption
<1>2. DOMAIN f.rows = 1..Len(f.rows) /\ Len(f.rows) \in Nat
  BY <1>1 DEF IsList
<1>3. IsList(elements) /\ Len(elements) = Len(f.rows)
  <2>1. Len(elements) = Len(f.rows)
    BY <1>2
  <2>2. elements = [i \in 1..Len(elements) |-> elements[i]]
    BY <1>2, <2>1
  <2> QED BY <1>2, <2>1, <2>2 DEF IsList
<1>4. kept \in SUBSET (1..Len(elements))
  BY <1>2, <1>3
<1>5. IF f.format = ".xml" THEN Parsed(f) = AtIndices(elements, kept) ELSE Parsed(f) = f.rows
  BY Zenon DEF Parsed, Where
<1> HIDE DEF elements, kept
<1>6. IsList(AtIndices(elements, kept))
  BY <1>3, <1>4, KeptElements
<1> QED BY <1>1, <1>5, <1>6

(* A database without BOMs, and no upload yet.                             *)
LEMMA UploadInit == PipelineInit => UploadInv
<1> SUFFICES ASSUME PipelineInit PROVE UploadInv
  OBVIOUS
<1>1. stage = "idle" /\ uploads = 0 /\ stored = <<>> /\ result.total = 0 /\ result.invalid = 0
  BY DEF PipelineInit, NoResult
<1>2. IsList(stored) /\ DOMAIN stored = {}
  BY <1>1, EmptyList
<1> QED BY <1>1, <1>2 DEF UploadInv, Counted, InProgress, ParsedListed, StoredOnce

(* The answer of an upload leaves the database and the count as they are.  *)
LEMMA ReplyKeeps ==
  ASSUME UploadInv, NEW status, Fail(status)
  PROVE  UploadInv'
<1>1. /\ stage' = "idle" /\ uploads' = uploads /\ stored' = stored
      /\ result'.total = 0 /\ result'.invalid = 0
  BY DEF Fail, Reply, NoResult, databaseVars
<1> QED BY <1>1 DEF UploadInv, Counted, InProgress, ParsedListed, StoredOnce

(* So does leaving the directory.                                          *)
LEMMA LeaveKeeps ==
  ASSUME UploadInv, NEW status, Leave(status)
  PROVE  UploadInv'
  BY ReplyKeeps DEF Leave

(* Every step of an upload keeps UploadInv.                                *)
LEMMA UploadStep ==
  ASSUME UploadInv, [PipelineNext]_pipelineVars
  PROVE  UploadInv'
<1> USE DEF UploadInv
<1>1. CASE Receive
  <2>1. /\ stage' = "check" /\ uploads' = uploads + 1 /\ file' \in Files
        /\ stored' = stored /\ result' = result
    BY <1>1 DEF Receive, databaseVars
  <2>2. \A i \in DOMAIN stored : stored[i].upload \in Nat /\ stored[i].upload < uploads + 1
    BY DEF StoredOnce, Counted
  <2>3. StoredOnce'
    BY <2>1, <2>2 DEF StoredOnce, Counted
  <2> QED BY <2>1, <2>3 DEF Counted, InProgress, ParsedListed
<1>2. CASE Refuse
  <2>1. \E status : Fail(status)
    <3>1. Fail(400) \/ Leave(413) \/ Leave(422) \/ Fail(500)
      BY <1>2 DEF Refuse
    <3> QED BY <3>1, ZenonT(20) DEF Leave
  <2>2. PICK status : Fail(status)
    BY <2>1, ZenonT(20)
  <2> QED BY <2>2, ReplyKeeps
<1>3. CASE Parse
  <2>1. CASE file.damaged
    BY <1>3, <2>1, ReplyKeeps DEF Parse
  <2>2. CASE ~file.damaged
    <3>1. /\ stage = "check" /\ stage' = "structure" /\ records' = Parsed(file)
          /\ UNCHANGED <<file, result, uploads, stored>>
      BY <1>3, <2>2 DEF Parse, databaseVars
    <3>2. IsList(Parsed(file))
      BY <3>1, ParsedIsList DEF InProgress
    <3> QED BY <3>1, <3>2 DEF Counted, InProgress, ParsedListed, StoredOnce
  <2> QED BY <2>1, <2>2
<1>4. CASE CheckStructure
  <2>1. /\ stage = "structure" /\ stage' \in {"merge", "store"}
        /\ UNCHANGED <<file, records, uploads, stored>>
    BY <1>4 DEF CheckStructure, databaseVars
  <2>2. IsList(records) /\ Len(records) \in Nat
    BY <2>1 DEF ParsedListed, IsList
  <2>3. result'.total \in Nat /\ result'.invalid \in Nat
    BY <1>4, <2>2 DEF CheckStructure, Counted, NoResult
  <2>4. stage' = "merge" => IsList(read')
    <3> SUFFICES ASSUME stage' = "merge" PROVE IsList(read')
      OBVIOUS
    <3> DEFINE mapping == Mapping(ColumnsOf(file))
               rows == [i \in DOMAIN records |-> NormalComponent(records[i], mapping)]
    <3>1. read' = rows
      BY <1>4 DEF CheckStructure
    <3> HIDE DEF mapping
    <3>2. DOMAIN records = 1..Len(records)
      BY <2>2 DEF IsList
    <3>3. Len(rows) = Len(records) /\ rows = [i \in 1..Len(records) |-> rows[i]]
      BY <2>2, <3>2
    <3> HIDE DEF rows
    <3> QED BY <2>2, <3>1, <3>3 DEF IsList
  <2>5. StoredOnce'
    BY <2>1 DEF StoredOnce
  <2> QED BY <2>1, <2>2, <2>3, <2>4, <2>5 DEF Counted, InProgress, ParsedListed
<1>5. CASE MergeRows
  <2>1. /\ stage = "merge" /\ stage' = "store"
        /\ UNCHANGED <<file, records, read, uploads, stored>>
    BY <1>5 DEF MergeRows, databaseVars
  <2>2. Len(records) \in Nat /\ IsList(read) /\ Len(read) \in Nat /\ DOMAIN read = 1..Len(read)
    BY <2>1 DEF Counted, IsList
  <2> DEFINE wrong == {i \in DOMAIN read : ComponentErrors(read[i]) # {}}
  <2>3. Cardinality(wrong) \in Nat
    <3>1. wrong \in SUBSET (1..Len(read))
      BY <2>2
    <3> HIDE DEF wrong
    <3> QED BY <2>2, <3>1, IndicesFinite
  <2>4. result'.total = Len(records) /\ result'.invalid = Cardinality(wrong)
    BY <1>5 DEF MergeRows
  <2>5. StoredOnce'
    BY <2>1 DEF StoredOnce
  <2> HIDE DEF wrong
  <2> QED BY <2>1, <2>2, <2>3, <2>4, <2>5 DEF Counted, InProgress, ParsedListed
<1>6. CASE Store
  <2>1. CASE Fail(500)
    BY <2>1, ReplyKeeps
  <2>2. ASSUME ~Storable(result), stage' = "answer", stage = "store",
               UNCHANGED <<file, records, read, result, answered, uploads, databaseVars>>
        PROVE  UploadInv'
    BY <2>2 DEF Counted, InProgress, ParsedListed, StoredOnce, databaseVars
  <2>3. ASSUME Storable(result), stored' = Append(stored, Bom), stage = "store",
               \/ Reply(500)
               \/ stage' = "answer" /\ UNCHANGED <<file, records, read, result, answered, uploads>>
        PROVE  UploadInv'
    <3>0. /\ stage' \in {"idle", "answer"} /\ uploads' = uploads
          /\ result'.total \in Nat /\ result'.invalid \in Nat
          /\ stage' = "answer" => file' = file /\ result' = result
      BY <2>3 DEF Reply, NoResult, Counted
    <3> DEFINE n == Len(stored)
               bom == Bom
    <3>1. bom.upload = uploads
      BY DEF Bom
    <3>2. n \in Nat /\ DOMAIN stored = 1..n
      BY DEF Counted, IsList
    <3> HIDE DEF bom
    <3>3. /\ IsList(stored') /\ Len(stored') = n + 1 /\ stored'[n + 1] = bom
          /\ \A i \in 1..n : stored'[i] = stored[i]
      BY <2>3, AppendList DEF Counted, bom
    <3>4. DOMAIN stored' = 1..(n + 1)
      BY <3>3 DEF IsList
    <3> HIDE DEF n
    <3>5. \A i \in DOMAIN stored' : i = n + 1 \/ i \in 1..n
      BY <3>2, <3>4
    <3>6. \A i \in 1..n : /\ stored'[i].upload \in Nat /\ stored'[i].upload <= uploads
                          /\ stored'[i].upload # uploads
      BY <2>3, <3>2, <3>3 DEF StoredOnce
    <3>7. stored'[n + 1].upload = uploads /\ uploads \in Nat
      BY <3>1, <3>3 DEF Counted
    <3>8. n + 1 \in DOMAIN stored'
      BY <3>2, <3>4
    <3>9. \A i, j \in DOMAIN stored' : stored'[i].upload = stored'[j].upload => i = j
      <4> SUFFICES ASSUME NEW i \in DOMAIN stored', NEW j \in DOMAIN stored',
                          stored'[i].upload = stored'[j].upload
                   PROVE  i = j
        OBVIOUS
      <4>1. CASE i \in 1..n /\ j \in 1..n
        BY <3>2, <3>3, <4>1 DEF StoredOnce
      <4> QED BY <3>5, <3>6, <3>7, <4>1
    <3>10. \A i \in DOMAIN stored' : stored'[i].upload \in Nat /\ stored'[i].upload <= uploads
      BY <3>5, <3>6, <3>7
    <3>11. StoredOnce'
      BY <2>3, <3>0, <3>7, <3>8, <3>9, <3>10 DEF StoredOnce
    <3> QED BY <2>3, <3>0, <3>3, <3>11 DEF Counted, InProgress, ParsedListed
  <2> QED BY <1>6, <2>1, <2>2, <2>3 DEF Store
<1>7. CASE Answer
  <2>1. PICK status : Leave(status)
    BY <1>7, ZenonT(20) DEF Answer
  <2> QED BY <2>1, LeaveKeeps
<1>8. CASE GetLatest
  <2>1. UNCHANGED <<stage, file, records, read, result, stored, uploads>>
    BY <1>8 DEF GetLatest
  <2> QED BY <2>1 DEF Counted, InProgress, ParsedListed, StoredOnce
<1>9. CASE UNCHANGED pipelineVars
  <2>1. UNCHANGED <<stage, file, records, read, result, stored, uploads>>
    BY <1>9 DEF pipelineVars
  <2> QED BY <2>1 DEF Counted, InProgress, ParsedListed, StoredOnce
<1> QED BY <1>1, <1>2, <1>3, <1>4, <1>5, <1>6, <1>7, <1>8, <1>9 DEF PipelineNext

(* What the answer of an upload that ends tells of its BOM.                *)
EndsWell ==
  stage' = "idle" /\ stage # "idle" =>
    LET own == Cardinality({i \in DOMAIN stored' : stored'[i].upload = uploads})
    IN /\ answered' = 200 => own = 1
       /\ answered' \in {400, 413, 422} => own = 0
       /\ own <= 1
       /\ own = 1 => result.total > 0 /\ result.invalid = 0

(* Of BOMs of different uploads, one is of this upload, or none.           *)
LEMMA OwnCount ==
  ASSUME NEW boms, NEW n, \A i, j \in DOMAIN boms : boms[i].upload = boms[j].upload => i = j
  PROVE  Cardinality({i \in DOMAIN boms : boms[i].upload = n})
           = IF \E i \in DOMAIN boms : boms[i].upload = n THEN 1 ELSE 0
<1> DEFINE own == {i \in DOMAIN boms : boms[i].upload = n}
<1>1. CASE own = {}
  BY <1>1, FS_EmptySet
<1>2. ASSUME NEW i \in own PROVE Cardinality(own) = 1
  <2>1. own = {i}
    OBVIOUS
  <2>2. Cardinality({i}) = 1
    BY FS_Singleton
  <2> QED BY <2>1, <2>2
<1> QED BY <1>1, <1>2

(* A step that ends an upload ends it well.                                *)
LEMMA EndsWellStep ==
  ASSUME UploadInv, UploadInv', [PipelineNext]_pipelineVars
  PROVE  EndsWell
<1> DEFINE held == \E i \in DOMAIN stored' : stored'[i].upload = uploads
<1> SUFFICES ASSUME stage' = "idle", stage # "idle"
             PROVE  LET own == Cardinality({i \in DOMAIN stored' : stored'[i].upload = uploads})
                    IN /\ answered' = 200 => own = 1
                       /\ answered' \in {400, 413, 422} => own = 0
                       /\ own <= 1
                       /\ own = 1 => result.total > 0 /\ result.invalid = 0
  BY DEF EndsWell
<1>1. \/ stage \in {"check", "store"} /\ \E status \in {400, 413, 422, 500} : Fail(status)
      \/ Store /\ ~Fail(500)
      \/ Answer
  <2>1. PipelineNext
    BY DEF pipelineVars
  <2>2. ~Receive /\ ~CheckStructure /\ ~MergeRows /\ ~GetLatest
    BY DEF Receive, CheckStructure, MergeRows, GetLatest
  <2>3. Refuse => stage = "check" /\ \E status \in {400, 413, 422, 500} : Fail(status)
    BY ZenonT(40) DEF Refuse, Leave
  <2>4. Parse => stage = "check" /\ Fail(500)
    BY DEF Parse
  <2>5. Store => stage = "store"
    BY DEF Store
  <2> QED BY <2>1, <2>2, <2>3, <2>4, <2>5 DEF PipelineNext
<1>2. /\ answered' = 200 => held
      /\ answered' \in {400, 413, 422} => ~held
      /\ held => Storable(result)
  <2>1. CASE stage \in {"check", "store"} /\ \E status \in {400, 413, 422, 500} : Fail(status)
    <3>1. stored' = stored /\ answered' # 200
      BY <2>1 DEF Fail, Reply, databaseVars
    <3>2. \A i \in DOMAIN stored : stored[i].upload # uploads
      BY <2>1 DEF UploadInv, StoredOnce
    <3> QED BY <3>1, <3>2
  <2>2. CASE Store /\ ~Fail(500)
    <3>1. Storable(result) /\ answered' = 500
      BY <2>2 DEF Store, Reply
    <3> QED BY <3>1
  <2>3. CASE Answer
    <3>1. /\ stage = "answer" /\ stored' = stored
          /\ answered' \in {500, IF result.total = 0 \/ result.invalid > 0 THEN 422 ELSE 200}
      BY <2>3 DEF Answer, Leave, Fail, Reply, databaseVars
    <3>2. Storable(result) <=> ~(result.total = 0 \/ result.invalid > 0)
      BY DEF UploadInv, Counted, Storable
    <3>3. Storable(result) <=> \E i \in DOMAIN stored : stored[i].upload = uploads
      BY <3>1 DEF UploadInv, StoredOnce
    <3> QED BY <3>1, <3>2, <3>3
  <2> QED BY <1>1, <2>1, <2>2, <2>3
<1>3. Cardinality({i \in DOMAIN stored' : stored'[i].upload = uploads}) = IF held THEN 1 ELSE 0
  <2>1. \A i, j \in DOMAIN stored' : stored'[i].upload = stored'[j].upload => i = j
    BY DEF UploadInv, StoredOnce
  <2> QED BY <2>1, OwnCount
<1> HIDE DEF held
<1> QED BY <1>2, <1>3 DEF Storable

(* Whatever files are uploaded, whatever fails and whoever reads the       *)
(* latest BOM meanwhile: when upload_bom answers 200 the database holds    *)
(* the BOM of this upload, when it refuses the file there is none, and     *)
(* after a 500 there is at most one, and none of a file with an invalid    *)
(* row.                                                                    *)
THEOREM AnswersTellStored == PipelineSpec => AnswerTellsStored
<1>1. PipelineInit => UploadInv
  BY UploadInit
<1>2. UploadInv /\ [PipelineNext]_pipelineVars => UploadInv'
  BY UploadStep
<1>3. UploadInv /\ UploadInv' /\ [PipelineNext]_pipelineVars => EndsWell
  BY EndsWellStep
<1> QED BY <1>1, <1>2, <1>3, PTL DEF PipelineSpec, AnswerTellsStored, EndsWell

-----------------------------------------------------------------------------
(* The lines of one part merged.                                           *)

(* What two lines become: one line, with the references of both.           *)
LEMMA MergeOf ==
  ASSUME NEW c, NEW d, IsList(c.references), IsList(d.references)
  PROVE  LET m == Merge(c, d)
         IN /\ m.mpn = c.mpn /\ m.quantity = c.quantity + d.quantity
            /\ IsList(m.references)
            /\ Range(m.references) = Range(c.references) \cup Range(d.references)
<1> DEFINE new == {i \in DOMAIN d.references :
                     /\ d.references[i] \notin Range(c.references)
                     /\ \A j \in 1..(i - 1) : d.references[j] # d.references[i]}
           more == AtIndices(d.references, new)
           n == Len(d.references)
<1>1. n \in Nat /\ DOMAIN d.references = 1..n /\ Range(d.references) = {d.references[i] : i \in 1..n}
  BY ListRange DEF IsList
<1>2. new \in SUBSET (1..n)
  BY <1>1
<1>3. \A x \in Range(d.references) \ Range(c.references) : \E i \in new : d.references[i] = x
  <2> SUFFICES ASSUME NEW x \in Range(d.references), x \notin Range(c.references)
               PROVE  \E i \in new : d.references[i] = x
    OBVIOUS
  <2> DEFINE places == {i \in 1..n : d.references[i] = x}
  <2>1. places \in SUBSET Nat /\ places # {}
    BY <1>1
  <2>2. PICK i \in places : \A j \in places : i <= j
    <3> HIDE DEF places
    <3> QED BY <2>1, Lowest
  <2>3. i \in 1..n /\ d.references[i] = x
    OBVIOUS
  <2>4. \A j \in 1..(i - 1) : d.references[j] # d.references[i]
    <3> SUFFICES ASSUME NEW j \in 1..(i - 1), d.references[j] = x PROVE FALSE
      BY <2>3
    <3>1. j \in 1..n /\ j < i
      BY <1>1, <2>3
    <3>2. i <= j
      BY <2>2, <3>1
    <3> QED BY <2>3, <3>1, <3>2
  <2>5. i \in new
    BY <1>1, <2>3, <2>4
  <2> QED BY <2>3, <2>5
<1>4. \A i \in new : d.references[i] \in Range(d.references)
  BY <1>1, <1>2
<1> HIDE DEF new
<1>5. IsList(more) /\ Range(more) = {d.references[i] : i \in new}
  BY <1>2, KeptElements DEF n
<1>6. Range(c.references) \cup Range(more) = Range(c.references) \cup Range(d.references)
  BY <1>3, <1>4, <1>5
<1> DEFINE m == Merge(c, d)
<1>7. /\ m.mpn = c.mpn /\ m.quantity = c.quantity + d.quantity
      /\ m.references = c.references \o more
  BY DEF Merge, new
<1> HIDE DEF m, more
<1>8. /\ IsList(c.references \o more)
      /\ Range(c.references \o more) = Range(c.references) \cup Range(more)
  BY <1>5, ConcatList
<1> QED BY <1>6, <1>7, <1>8 DEF m

(* The number of pieces each line asks for of a part, or zero.             *)
Quantities(lines, p) ==
  [i \in DOMAIN lines |-> IF lines[i].mpn = p THEN lines[i].quantity ELSE 0]

(* The list kept after n lines: every part of theirs once, with the sum of *)
(* the quantities and all the references.                                  *)
Groups(kept, lines, n) ==
  /\ IsList(kept)
  /\ \A k \in 1..Len(kept) :
       /\ IsList(kept[k].references)
       /\ \E i \in 1..n : lines[i].mpn = kept[k].mpn
  /\ \A i \in 1..n : \E k \in 1..Len(kept) : kept[k].mpn = lines[i].mpn
  /\ \A k, l \in 1..Len(kept) : kept[k].mpn = kept[l].mpn => k = l
  /\ \A k \in 1..Len(kept) : \A x :
       x \in Range(kept[k].references) <=>
         \E i \in 1..n : lines[i].mpn = kept[k].mpn /\ x \in Range(lines[i].references)

(* The quantities of the list kept, given the sums of each part.           *)
Counts(kept, lines, n) ==
  \A p, f : SumsTo(f, Quantities(lines, p), Len(lines)) =>
    /\ \A k \in 1..Len(kept) : kept[k].mpn = p => kept[k].quantity = f[n]
    /\ (\A i \in 1..n : lines[i].mpn # p) => f[n] = 0

(* Lines with their fields as far as the merge needs them.                 *)
AreLines(lines) ==
  /\ IsList(lines)
  /\ \A i \in 1..Len(lines) : IsList(lines[i].references) /\ lines[i].quantity \in Int

(* A line of a part that is not kept yet is appended.                      *)
LEMMA AppendedGroup ==
  ASSUME NEW lines, AreLines(lines), NEW n \in 1..Len(lines), NEW kept, Groups(kept, lines, n - 1),
         Counts(kept, lines, n - 1), \A k \in 1..Len(kept) : kept[k].mpn # lines[n].mpn
  PROVE  Groups(Append(kept, lines[n]), lines, n) /\ Counts(Append(kept, lines[n]), lines, n)
<1> DEFINE more == Append(kept, lines[n])
           m == Len(kept)
           d == lines[n]
<1>1. /\ n \in Nat /\ n >= 1 /\ n \in 1..Len(lines) /\ Len(lines) \in Nat
      /\ \A i \in 1..n : i = n \/ i \in 1..(n - 1)
      /\ \A i \in 1..(n - 1) : i \in 1..n
      /\ n \in 1..n
  BY DEF AreLines, IsList
<1>2. m \in Nat /\ IsList(kept)
  BY DEF Groups, IsList
<1>3. /\ IsList(more) /\ Len(more) = m + 1 /\ more[m + 1] = d
      /\ \A k \in 1..m : more[k] = kept[k]
  BY <1>2, AppendList
<1> HIDE DEF more
<1>4. /\ \A k \in 1..Len(more) : k = m + 1 \/ k \in 1..m
      /\ m + 1 \in 1..Len(more) /\ \A k \in 1..m : k \in 1..Len(more)
  BY <1>2, <1>3
<1>5. \A i \in 1..(n - 1) : lines[i].mpn # d.mpn
  BY DEF Groups
<1>6. IsList(d.references)
  BY <1>1 DEF AreLines
<1>7. \A k \in 1..m : more[k].mpn # d.mpn
  BY <1>3
<1> HIDE DEF m, d
<1>8. Groups(more, lines, n)
  <2>1. \A k \in 1..Len(more) :
          IsList(more[k].references) /\ \E i \in 1..n : lines[i].mpn = more[k].mpn
    <3> SUFFICES ASSUME NEW k \in 1..Len(more)
                 PROVE  IsList(more[k].references) /\ \E i \in 1..n : lines[i].mpn = more[k].mpn
      OBVIOUS
    <3>1. CASE k = m + 1
      BY <1>1, <1>3, <1>6, <3>1 DEF d
    <3>2. CASE k \in 1..m
      <4>1. IsList(kept[k].references) /\ \E i \in 1..(n - 1) : lines[i].mpn = kept[k].mpn
        BY <3>2 DEF Groups, m
      <4> QED BY <1>1, <1>3, <3>2, <4>1
    <3> QED BY <1>4, <3>1, <3>2
  <2>2. \A i \in 1..n : \E k \in 1..Len(more) : more[k].mpn = lines[i].mpn
    <3> SUFFICES ASSUME NEW i \in 1..n PROVE \E k \in 1..Len(more) : more[k].mpn = lines[i].mpn
      OBVIOUS
    <3>1. CASE i = n
      BY <1>3, <1>4, <3>1 DEF d
    <3>2. CASE i \in 1..(n - 1)
      <4>1. PICK k \in 1..m : kept[k].mpn = lines[i].mpn
        BY <3>2 DEF Groups, m
      <4> QED BY <1>3, <1>4, <4>1
    <3> QED BY <1>1, <3>1, <3>2
  <2>3. \A k, l \in 1..Len(more) : more[k].mpn = more[l].mpn => k = l
    <3> SUFFICES ASSUME NEW k \in 1..Len(more), NEW l \in 1..Len(more), more[k].mpn = more[l].mpn
                 PROVE  k = l
      OBVIOUS
    <3>1. CASE k \in 1..m /\ l \in 1..m
      <4>1. kept[k].mpn = kept[l].mpn
        BY <1>3, <3>1
      <4> QED BY <3>1, <4>1 DEF Groups, m
    <3>2. CASE k = m + 1 \/ l = m + 1
      BY <1>3, <1>4, <1>7, <3>2
    <3> QED BY <1>4, <3>1, <3>2
  <2>4. \A k \in 1..Len(more) : \A x :
          x \in Range(more[k].references) <=>
            \E i \in 1..n : lines[i].mpn = more[k].mpn /\ x \in Range(lines[i].references)
    <3> SUFFICES ASSUME NEW k \in 1..Len(more), NEW x
                 PROVE  x \in Range(more[k].references) <=>
                          \E i \in 1..n : lines[i].mpn = more[k].mpn /\ x \in Range(lines[i].references)
      OBVIOUS
    <3>1. CASE k = m + 1
      BY <1>1, <1>3, <1>5, <3>1 DEF d
    <3>2. CASE k \in 1..m
      <4>1. x \in Range(kept[k].references) <=>
              \E i \in 1..(n - 1) : lines[i].mpn = kept[k].mpn /\ x \in Range(lines[i].references)
        BY <3>2 DEF Groups, m
      <4>2. more[k] = kept[k] /\ lines[n].mpn # kept[k].mpn
        BY <1>3, <1>7, <3>2 DEF d
      <4> QED BY <1>1, <4>1, <4>2
    <3> QED BY <1>4, <3>1, <3>2
  <2> QED BY <1>3, <2>1, <2>2, <2>3, <2>4 DEF Groups
<1>9. Counts(more, lines, n)
  <2> SUFFICES ASSUME NEW p, NEW f, SumsTo(f, Quantities(lines, p), Len(lines))
               PROVE  /\ \A k \in 1..Len(more) : more[k].mpn = p => more[k].quantity = f[n]
                      /\ (\A i \in 1..n : lines[i].mpn # p) => f[n] = 0
    BY DEF Counts
  <2>1. /\ \A k \in 1..m : kept[k].mpn = p => kept[k].quantity = f[n - 1]
        /\ (\A i \in 1..(n - 1) : lines[i].mpn # p) => f[n - 1] = 0
    BY DEF Counts, m
  <2>2. f[n] = f[n - 1] + (IF d.mpn = p THEN d.quantity ELSE 0)
    <3>1. f[n] = f[n - 1] + Quantities(lines, p)[n]
      BY DEF SumsTo
    <3>2. n \in DOMAIN lines
      BY DEF AreLines, IsList
    <3> QED BY <3>1, <3>2 DEF Quantities, d
  <2>3. f[n - 1] \in Int /\ d.quantity \in Int
    <3>1. n - 1 \in 0..Len(lines)
      BY <1>1
    <3> QED BY <1>1, <3>1 DEF SumsTo, AreLines, d
  <2>4. ASSUME NEW k \in 1..Len(more), more[k].mpn = p PROVE more[k].quantity = f[n]
    <3>1. CASE k = m + 1
      <4>1. d.mpn = p /\ f[n - 1] = 0
        BY <1>3, <1>5, <2>1, <2>4, <3>1
      <4> QED BY <1>3, <2>2, <2>3, <3>1, <4>1
    <3>2. CASE k \in 1..m
      <4>1. d.mpn # p /\ kept[k].quantity = f[n - 1] /\ more[k] = kept[k]
        BY <1>3, <1>7, <2>1, <2>4, <3>2
      <4> QED BY <2>2, <2>3, <4>1
    <3> QED BY <1>4, <3>1, <3>2
  <2>5. ASSUME \A i \in 1..n : lines[i].mpn # p PROVE f[n] = 0
    <3>1. d.mpn # p /\ f[n - 1] = 0
      BY <1>1, <2>1, <2>5 DEF d
    <3> QED BY <2>2, <3>1
  <2> QED BY <2>4, <2>5
<1> QED BY <1>8, <1>9 DEF more

(* A line of a part that is kept is merged into its line.                  *)
LEMMA MergedGroup ==
  ASSUME NEW lines, AreLines(lines), NEW n \in 1..Len(lines), NEW kept, Groups(kept, lines, n - 1),
         Counts(kept, lines, n - 1), NEW c \in 1..Len(kept), kept[c].mpn = lines[n].mpn,
         NEW more,
         more = [k \in DOMAIN kept |->
                   IF kept[k].mpn = lines[n].mpn THEN Merge(kept[k], lines[n]) ELSE kept[k]]
  PROVE  Groups(more, lines, n) /\ Counts(more, lines, n)
<1> DEFINE m == Len(kept)
           d == lines[n]
           merged == Merge(kept[c], d)
<1>1. /\ n \in Nat /\ n >= 1 /\ n \in 1..Len(lines) /\ Len(lines) \in Nat
      /\ \A i \in 1..n : i = n \/ i \in 1..(n - 1)
      /\ \A i \in 1..(n - 1) : i \in 1..n
      /\ n \in 1..n
  BY DEF AreLines, IsList
<1>2. m \in Nat /\ IsList(kept) /\ DOMAIN kept = 1..m
  BY DEF Groups, IsList
<1>3. \A k \in 1..m : kept[k].mpn = d.mpn <=> k = c
  BY DEF Groups
<1>4. /\ more[c] = merged
      /\ \A k \in 1..m : k # c => more[k] = kept[k]
      /\ DOMAIN more = 1..m
  BY <1>2, <1>3
<1>5. IsList(more) /\ Len(more) = m
  <2>1. Len(more) = m
    BY <1>2, <1>4
  <2>2. more = [k \in 1..m |-> more[k]]
    BY <1>2
  <2> QED BY <1>2, <2>1, <2>2 DEF IsList
<1>6. IsList(kept[c].references) /\ IsList(d.references)
  BY <1>1 DEF Groups, AreLines
<1>7. /\ merged.mpn = d.mpn /\ merged.quantity = kept[c].quantity + d.quantity
      /\ IsList(merged.references)
      /\ Range(merged.references) = Range(kept[c].references) \cup Range(d.references)
  BY <1>6, MergeOf
<1> HIDE DEF m, d, merged
<1>8. \A k \in 1..m : more[k].mpn = kept[k].mpn
  BY <1>3, <1>4, <1>7
<1>9. c \in 1..m /\ kept[c].mpn = d.mpn
  BY DEF m, d
<1>10. Groups(more, lines, n)
  <2>1. \A k \in 1..Len(more) :
          IsList(more[k].references) /\ \E i \in 1..n : lines[i].mpn = more[k].mpn
    <3> SUFFICES ASSUME NEW k \in 1..m
                 PROVE  IsList(more[k].references) /\ \E i \in 1..n : lines[i].mpn = more[k].mpn
      BY <1>5
    <3>1. IsList(kept[k].references) /\ \E i \in 1..(n - 1) : lines[i].mpn = kept[k].mpn
      BY DEF Groups, m
    <3>2. IsList(more[k].references)
      BY <1>4, <1>7, <3>1
    <3> QED BY <1>1, <1>8, <3>1, <3>2
  <2>2. \A i \in 1..n : \E k \in 1..Len(more) : more[k].mpn = lines[i].mpn
    <3> SUFFICES ASSUME NEW i \in 1..n PROVE \E k \in 1..m : more[k].mpn = lines[i].mpn
      BY <1>5
    <3>1. CASE i = n
      BY <1>8, <1>9, <3>1 DEF d
    <3>2. CASE i \in 1..(n - 1)
      <4>1. PICK k \in 1..m : kept[k].mpn = lines[i].mpn
        BY <3>2 DEF Groups, m
      <4> QED BY <1>8, <4>1
    <3> QED BY <1>1, <3>1, <3>2
  <2>3. \A k, l \in 1..Len(more) : more[k].mpn = more[l].mpn => k = l
    <3>1. \A k, l \in 1..m : kept[k].mpn = kept[l].mpn => k = l
      BY DEF Groups, m
    <3> QED BY <1>5, <1>8, <3>1
  <2>4. \A k \in 1..Len(more) : \A x :
          x \in Range(more[k].references) <=>
            \E i \in 1..n : lines[i].mpn = more[k].mpn /\ x \in Range(lines[i].references)
    <3> SUFFICES ASSUME NEW k \in 1..m, NEW x
                 PROVE  x \in Range(more[k].references) <=>
                          \E i \in 1..n : lines[i].mpn = more[k].mpn /\ x \in Range(lines[i].references)
      BY <1>5
    <3>1. x \in Range(kept[k].references) <=>
            \E i \in 1..(n - 1) : lines[i].mpn = kept[k].mpn /\ x \in Range(lines[i].references)
      BY DEF Groups, m
    <3>2. CASE k = c
      <4>1. more[k].mpn = kept[k].mpn /\ kept[k].mpn = lines[n].mpn
        BY <1>8, <1>9, <3>2 DEF d
      <4>2. x \in Range(more[k].references) <=>
              x \in Range(kept[k].references) \/ x \in Range(lines[n].references)
        BY <1>4, <1>7, <3>2 DEF d
      <4> QED BY <1>1, <3>1, <4>1, <4>2
    <3>3. CASE k # c
      <4>1. more[k] = kept[k] /\ lines[n].mpn # kept[k].mpn
        BY <1>3, <1>4, <3>3 DEF d
      <4> QED BY <1>1, <3>1, <4>1
    <3> QED BY <3>2, <3>3
  <2> QED BY <1>5, <2>1, <2>2, <2>3, <2>4 DEF Groups
<1>11. Counts(more, lines, n)
  <2> SUFFICES ASSUME NEW p, NEW f, SumsTo(f, Quantities(lines, p), Len(lines))
               PROVE  /\ \A k \in 1..Len(more) : more[k].mpn = p => more[k].quantity = f[n]
                      /\ (\A i \in 1..n : lines[i].mpn # p) => f[n] = 0
    BY DEF Counts
  <2>1. /\ \A k \in 1..m : kept[k].mpn = p => kept[k].quantity = f[n - 1]
        /\ (\A i \in 1..(n - 1) : lines[i].mpn # p) => f[n - 1] = 0
    BY DEF Counts, m
  <2>2. f[n] = f[n - 1] + (IF d.mpn = p THEN d.quantity ELSE 0)
    <3>1. f[n] = f[n - 1] + Quantities(lines, p)[n]
      BY DEF SumsTo
    <3>2. n \in DOMAIN lines
      BY DEF AreLines, IsList
    <3> QED BY <3>1, <3>2 DEF Quantities, d
  <2>3. f[n - 1] \in Int /\ d.quantity \in Int
    <3>1. n - 1 \in 0..Len(lines)
      BY <1>1
    <3> QED BY <1>1, <3>1 DEF SumsTo, AreLines, d
  <2>4. ASSUME NEW k \in 1..m, more[k].mpn = p PROVE more[k].quantity = f[n]
    <3>1. kept[k].quantity = f[n - 1]
      BY <1>8, <2>1, <2>4
    <3>2. CASE k = c
      <4>1. d.mpn = p /\ more[k].quantity = kept[k].quantity + d.quantity
        BY <1>4, <1>7, <2>4, <3>2
      <4> QED BY <2>2, <3>1, <4>1
    <3>3. CASE k # c
      <4>1. d.mpn # p /\ more[k] = kept[k]
        BY <1>3, <1>4, <1>8, <2>4, <3>3
      <4> QED BY <2>2, <2>3, <3>1, <4>1
    <3> QED BY <3>2, <3>3
  <2>5. ASSUME \A i \in 1..n : lines[i].mpn # p PROVE f[n] = 0
    <3>1. d.mpn # p /\ f[n - 1] = 0
      BY <1>1, <2>1, <2>5 DEF d
    <3> QED BY <2>2, <3>1
  <2> QED BY <1>5, <2>4, <2>5
<1> QED BY <1>10, <1>11

(* The lists kept after each line, which the recursion of Deduplicated is  *)
(* about.                                                                  *)
GroupedUpTo(f, lines, n) ==
  /\ f = [i \in 0..n |-> f[i]]
  /\ f[0] = <<>>
  /\ \A i \in 1..n : f[i] = Grouped(f[i - 1], lines[i])

(* They exist for every list of lines: a first line at which they fail     *)
(* could be added.                                                         *)
LEMMA GroupsExist ==
  ASSUME NEW lines, NEW n \in Nat
  PROVE  \E f : GroupedUpTo(f, lines, n)
<1> DEFINE Reached(k) == \E f : GroupedUpTo(f, lines, k)
           Open == {k \in 0..n : ~Reached(k)}
<1>1. SUFFICES ASSUME Open # {} PROVE FALSE
  <2>1. n \in 0..n
    OBVIOUS
  <2> QED BY <2>1
<1>2. PICK k \in Open : \A j \in Open : k <= j
  <2>1. Open \in SUBSET Nat
    OBVIOUS
  <2> HIDE DEF Open
  <2> QED BY <1>1, <2>1, Lowest
<1>3. k \in 0..n /\ ~Reached(k)
  OBVIOUS
<1>4. k # 0
  <2> DEFINE f == [i \in 0..0 |-> <<>>]
  <2>1. GroupedUpTo(f, lines, 0)
    BY DEF GroupedUpTo
  <2>2. Reached(0)
    BY <2>1
  <2> QED BY <1>3, <2>2
<1>5. k - 1 \in 0..n /\ k - 1 < k /\ k \in Nat
  BY <1>3, <1>4
<1>6. Reached(k - 1)
  <2>1. k - 1 \notin Open
    <3> HIDE DEF Open
    <3> QED BY <1>2, <1>5
  <2> QED BY <1>5, <2>1
<1>7. PICK f : GroupedUpTo(f, lines, k - 1)
  BY <1>6
<1> DEFINE last == Grouped(f[k - 1], lines[k])
           g == [i \in 0..k |-> IF i = k THEN last ELSE f[i]]
<1> HIDE DEF last
<1>8. g[0] = <<>> /\ g = [i \in 0..k |-> g[i]]
  BY <1>4, <1>5, <1>7 DEF GroupedUpTo
<1>9. \A i \in 1..k : g[i] = Grouped(g[i - 1], lines[i])
  <2> TAKE i \in 1..k
  <2>1. i - 1 \in 0..k /\ i - 1 # k /\ g[i - 1] = f[i - 1]
    BY <1>5
  <2>2. CASE i = k
    BY <1>5, <2>1, <2>2 DEF last
  <2>3. CASE i # k
    <3>1. i \in 1..(k - 1)
      BY <1>5, <2>3
    <3>2. f[i] = Grouped(f[i - 1], lines[i])
      BY <1>7, <3>1 DEF GroupedUpTo
    <3> QED BY <1>5, <2>1, <2>3, <3>2
  <2> QED BY <2>2, <2>3
<1> HIDE DEF g
<1>10. GroupedUpTo(g, lines, k)
  BY <1>8, <1>9 DEF GroupedUpTo
<1> QED BY <1>3, <1>10

(* Deduplicated keeps what all of the lines leave.                         *)
LEMMA DeduplicatedGroups ==
  ASSUME NEW lines, AreLines(lines)
  PROVE  /\ Groups(Deduplicated(lines), lines, Len(lines))
         /\ Counts(Deduplicated(lines), lines, Len(lines))
<1> DEFINE n == Len(lines)
           Solves(h) == h = [i \in 0..n |-> IF i = 0 THEN <<>> ELSE Grouped(h[i - 1], lines[i])]
           after == CHOOSE h : Solves(h)
<1>1. n \in Nat
  BY DEF AreLines, IsList
<1>2. Solves(after)
  <2>1. PICK f : GroupedUpTo(f, lines, n)
    BY <1>1, GroupsExist
  <2>2. \A i \in 0..n : f[i] = IF i = 0 THEN <<>> ELSE Grouped(f[i - 1], lines[i])
    BY <1>1, <2>1 DEF GroupedUpTo
  <2>3. f = [i \in 0..n |-> f[i]]
    BY <2>1 DEF GroupedUpTo
  <2>4. Solves(f)
    BY <2>2, <2>3
  <2> QED BY <2>4
<1>3. Deduplicated(lines) = after[n]
  BY DEF Deduplicated
<1> HIDE DEF after
<1>4. after[0] = <<>> /\ \A i \in 1..n : after[i] = Grouped(after[i - 1], lines[i])
  BY <1>1, <1>2
<1> HIDE DEF n
<1> DEFINE Good(k) == Groups(after[k], lines, k) /\ Counts(after[k], lines, k)
<1>5. Good(0)
  <2>1. IsList(<<>>) /\ Len(<<>>) = 0
    BY EmptyList
  <2> DEFINE none == <<>>
  <2>2. IsList(none) /\ Len(none) = 0 /\ after[0] = none
    BY <1>4, <2>1
  <2> HIDE DEF none
  <2>3. Groups(none, lines, 0)
    BY <2>2 DEF Groups
  <2>4. Counts(none, lines, 0)
    BY <2>2 DEF Counts, SumsTo
  <2> QED BY <2>2, <2>3, <2>4
<1>6. \A k \in 1..n : Good(k - 1) => Good(k)
  <2> SUFFICES ASSUME NEW k \in 1..n, Good(k - 1) PROVE Good(k)
    OBVIOUS
  <2> DEFINE kept == after[k - 1]
  <2>1. Groups(kept, lines, k - 1) /\ Counts(kept, lines, k - 1) /\ k \in 1..Len(lines)
    BY DEF n
  <2>2. after[k] = Grouped(kept, lines[k])
    BY <1>4
  <2> HIDE DEF kept
  <2>3. DOMAIN kept = 1..Len(kept)
    BY <2>1 DEF Groups, IsList
  <2>4. CASE \E c \in 1..Len(kept) : kept[c].mpn = lines[k].mpn
    <3> DEFINE more == [i \in DOMAIN kept |->
                          IF kept[i].mpn = lines[k].mpn THEN Merge(kept[i], lines[k]) ELSE kept[i]]
    <3>1. Grouped(kept, lines[k]) = more
      BY <2>3, <2>4 DEF Grouped
    <3>2. more = [i \in DOMAIN kept |->
                    IF kept[i].mpn = lines[k].mpn THEN Merge(kept[i], lines[k]) ELSE kept[i]]
      OBVIOUS
    <3> HIDE DEF more
    <3>3. PICK c \in 1..Len(kept) : kept[c].mpn = lines[k].mpn
      BY <2>4
    <3>4. Groups(more, lines, k) /\ Counts(more, lines, k)
      BY <2>1, <3>2, <3>3, MergedGroup
    <3> QED BY <2>2, <3>1, <3>4
  <2>5. CASE \A c \in 1..Len(kept) : kept[c].mpn # lines[k].mpn
    <3>1. Grouped(kept, lines[k]) = Append(kept, lines[k])
      BY <2>3, <2>5 DEF Grouped
    <3>2. Groups(Append(kept, lines[k]), lines, k) /\ Counts(Append(kept, lines[k]), lines, k)
      BY <2>1, <2>5, AppendedGroup
    <3> QED BY <2>2, <3>1, <3>2
  <2> QED BY <2>4, <2>5
<1>7. Good(n)
  <2> DEFINE Bad == {k \in 0..n : ~Good(k)}
  <2> HIDE DEF Good
  <2>1. SUFFICES ASSUME Bad # {} PROVE FALSE
    BY <1>1
  <2>2. PICK k \in Bad : \A j \in Bad : k <= j
    <3>1. Bad \in SUBSET Nat
      OBVIOUS
    <3> HIDE DEF Bad
    <3> QED BY <2>1, <3>1, Lowest
  <2>3. k \in 0..n /\ ~Good(k)
    OBVIOUS
  <2>4. k \in 1..n /\ k - 1 \in 0..n /\ k - 1 < k
    BY <1>1, <1>5, <2>3
  <2>5. Good(k - 1)
    <3>1. k - 1 \notin Bad
      <4> HIDE DEF Bad
      <4> QED BY <2>2, <2>4
    <3> QED BY <2>4, <3>1
  <2> QED BY <1>6, <2>3, <2>4, <2>5
<1> QED BY <1>3, <1>7 DEF n

-----------------------------------------------------------------------------
(* The columns of the required fields, found by two rules.                 *)

(* The words of the headers that name a quantity.                          *)
QuantityWords == {"quantity", "qty", "count", "required", "req", "number"}

(* An alias has one to three words.                                        *)
IsAlias(a) == IsList(a) /\ Len(a) \in 1..3

(* An alias that begins with another word than those of quantities, and    *)
(* has at most "number" in common with them.                               *)
Foreign(a) ==
  /\ IsAlias(a) /\ a[1] \notin QuantityWords
  /\ \A i \in 1..Len(a) : a[i] \in QuantityWords => a[i] = "number"

(* Tuples of one to three words are aliases.                               *)
LEMMA ShortTuples ==
  \A x, y, z : /\ IsAlias(<<x>>) /\ Len(<<x>>) = 1 /\ <<x>>[1] = x
               /\ IsAlias(<<x, y>>) /\ Len(<<x, y>>) = 2 /\ <<x, y>>[1] = x /\ <<x, y>>[2] = y
               /\ IsAlias(<<x, y, z>>) /\ Len(<<x, y, z>>) = 3
               /\ <<x, y, z>>[1] = x /\ <<x, y, z>>[2] = y /\ <<x, y, z>>[3] = z
BY DEF IsAlias, IsList

(* What makes one of them foreign.                                         *)
LEMMA ForeignTuples ==
  \A x, y, z :
    x \notin QuantityWords =>
      /\ Foreign(<<x>>)
      /\ (y \in QuantityWords => y = "number") =>
           /\ Foreign(<<x, y>>)
           /\ (z \in QuantityWords => z = "number") => Foreign(<<x, y, z>>)
<1> SUFFICES ASSUME NEW x, NEW y, NEW z, x \notin QuantityWords
             PROVE  /\ Foreign(<<x>>)
                    /\ (y \in QuantityWords => y = "number") =>
                         /\ Foreign(<<x, y>>)
                         /\ (z \in QuantityWords => z = "number") => Foreign(<<x, y, z>>)
  OBVIOUS
<1> HIDE DEF QuantityWords
<1>1. Foreign(<<x>>)
  <2> DEFINE a == <<x>>
  <2>1. IsAlias(a) /\ Len(a) = 1 /\ a[1] = x
    BY ShortTuples
  <2> HIDE DEF a
  <2>2. Foreign(a)
    BY <2>1 DEF Foreign
  <2> QED BY <2>2 DEF a
<1>2. ASSUME y \in QuantityWords => y = "number" PROVE Foreign(<<x, y>>)
  <2> DEFINE a == <<x, y>>
  <2>1. IsAlias(a) /\ Len(a) = 2 /\ a[1] = x /\ a[2] = y
    BY ShortTuples
  <2> HIDE DEF a
  <2>2. Foreign(a)
    BY <1>2, <2>1 DEF Foreign
  <2> QED BY <2>2 DEF a
<1>3. ASSUME y \in QuantityWords => y = "number", z \in QuantityWords => z = "number"
      PROVE  Foreign(<<x, y, z>>)
  <2> DEFINE a == <<x, y, z>>
  <2>1. IsAlias(a) /\ Len(a) = 3 /\ a[1] = x /\ a[2] = y /\ a[3] = z
    BY ShortTuples
  <2> HIDE DEF a
  <2>2. Foreign(a)
    BY <1>3, <2>1 DEF Foreign
  <2> QED BY <2>2 DEF a
<1> QED BY <1>1, <1>2, <1>3

(* A tuple before another, word by word.                                   *)
LEMMA JoinedTuples ==
  \A x, y, z : <<>> \o <<y, z>> = <<y, z>> /\ <<x>> \o <<y, z>> = <<x, y, z>>
<1> SUFFICES ASSUME NEW x, NEW y, NEW z
             PROVE  <<>> \o <<y, z>> = <<y, z>> /\ <<x>> \o <<y, z>> = <<x, y, z>>
  OBVIOUS
<1> DEFINE S == {x, y, z}
           s == <<x>>
           t == <<y, z>>
<1>1. s \in Seq(S) /\ t \in Seq(S) /\ Len(s) = 1 /\ Len(t) = 2
  OBVIOUS
<1>2. <<>> \o t = t
  BY <1>1
<1>3. s[1] = x /\ t[1] = y /\ t[2] = z
  OBVIOUS
<1> HIDE DEF S, s, t
<1> DEFINE u == s \o t
<1>4. /\ u \in Seq(S) /\ Len(u) = Len(s) + Len(t)
      /\ \A i \in 1..(Len(s) + Len(t)) : u[i] = IF i <= Len(s) THEN s[i] ELSE t[i - Len(s)]
  BY <1>1, ConcatProperties
<1>5. Len(u) = 3 /\ u[1] = x /\ u[2] = y /\ u[3] = z
  BY <1>1, <1>3, <1>4
<1> HIDE DEF u
<1>6. u = <<x, y, z>>
  <2>1. u = [i \in 1..3 |-> u[i]]
    BY <1>4, <1>5, SequenceIsList DEF IsList
  <2> QED BY <1>5, <2>1
<1> QED BY <1>2, <1>6 DEF s, t, u

(* No alias of the fields that are found before the quantity has more in   *)
(* common with it than the word "number".                                  *)
LEMMA EarlierForeign ==
  \A field \in {"mpn", "manufacturer", "description", "category", "package"} :
    \A a \in Aliases[field] : Foreign(a)
<1>1. \A w \in { "mpn", "part", "item", "manufacturer", "mfr", "mfg", "maker", "brand", "vendor",
                 "description", "desc", "component", "category", "type", "package", "name",
                 "case", "style", "footprint", "p", "n", "no", "code" } : w \notin QuantityWords
  BY DEF QuantityWords
<1>2. \A a \in Aliases["mpn"] : Foreign(a)
  <2> SUFFICES ASSUME NEW a \in Aliases["mpn"] PROVE Foreign(a)
    OBVIOUS
  <2>1. \/ a \in { <<"mpn">>, <<"part">>, <<"part", "number", "number">>,
                   <<"item", "code">>, <<"item", "number">>, <<"item", "no">> }
        \/ \E m \in {<<>>, <<"manufacturer">>, <<"mfr">>, <<"mfg">>}, w \in {"number", "no"} :
             a = m \o <<"part", w>>
        \/ \E m \in {<<"mfr">>, <<"mfg">>} : a = m \o <<"p", "n">>
    <3> DEFINE short == { <<"mpn">>, <<"part">>, <<"part", "number", "number">>,
                          <<"item", "code">>, <<"item", "number">>, <<"item", "no">> }
               first == Makers \cup {<<>>}
               others == Makers \ {<<"manufacturer">>}
               named == {m \o <<"part", w>> : m \in first, w \in {"number", "no"}}
               abbreviated == {m \o <<"p", "n">> : m \in others}
    <3>1. Aliases["mpn"] = short \cup named \cup abbreviated
      BY DEF Aliases
    <3>2. first = {<<>>, <<"manufacturer">>, <<"mfr">>, <<"mfg">>}
      BY DEF Makers
    <3>3. others \subseteq {<<"mfr">>, <<"mfg">>}
      BY DEF Makers
    <3> HIDE DEF first, others
    <3>4. a \in named => \E m \in first, w \in {"number", "no"} : a = m \o <<"part", w>>
      BY SMTT(20)
    <3>5. a \in abbreviated => \E m \in others : a = m \o <<"p", "n">>
      OBVIOUS
    <3> HIDE DEF short, named, abbreviated
    <3>6. a \in short \/ a \in named \/ a \in abbreviated
      BY <3>1
    <3> QED BY <3>2, <3>3, <3>4, <3>5, <3>6 DEF short
  <2>2. CASE a \in { <<"mpn">>, <<"part">>, <<"part", "number", "number">>,
                     <<"item", "code">>, <<"item", "number">>, <<"item", "no">> }
    BY <1>1, <2>2, ForeignTuples
  <2>3. ASSUME NEW m \in {<<>>, <<"manufacturer">>, <<"mfr">>, <<"mfg">>}, NEW w \in {"number", "no"},
               a = m \o <<"part", w>>
        PROVE  Foreign(a)
    <3>1. a \in {<<"part", w>>, <<"manufacturer", "part", w>>, <<"mfr", "part", w>>, <<"mfg", "part", w>>}
      BY ZenonT(40), <2>3, JoinedTuples
    <3>2. w \in QuantityWords => w = "number"
      BY <1>1
    <3> QED BY <1>1, <3>1, <3>2, ForeignTuples
  <2>4. ASSUME NEW m \in {<<"mfr">>, <<"mfg">>}, a = m \o <<"p", "n">> PROVE Foreign(a)
    <3>1. a \in {<<"mfr", "p", "n">>, <<"mfg", "p", "n">>}
      BY <2>4, JoinedTuples
    <3> QED BY <1>1, <3>1, ForeignTuples
  <2> QED BY <2>1, <2>2, <2>3, <2>4
<1>3. \A a \in Aliases["manufacturer"] : Foreign(a)
  <2>1. Aliases["manufacturer"] = { <<"manufacturer">>, <<"mfr">>, <<"mfg">>, <<"maker">>,
                                    <<"brand">>, <<"vendor">> }
    BY DEF Aliases, Makers
  <2> QED BY <1>1, <2>1, ForeignTuples
<1>4. \A a \in Aliases["description"] : Foreign(a)
  <2>1. Aliases["description"] =
          { <<"description">>, <<"desc">>, <<"part", "description">>,
            <<"component", "description">>, <<"item", "description">>, <<"component", "desc">> }
    BY DEF Aliases
  <2> QED BY <1>1, <2>1, ForeignTuples
<1>5. \A a \in Aliases["category"] : Foreign(a)
  <2>1. Aliases["category"] =
          { <<"category">>, <<"component", "category">>, <<"part", "category">>,
            <<"component", "type">>, <<"part", "type">>, <<"type">> }
    BY DEF Aliases
  <2> QED BY <1>1, <2>1, ForeignTuples
<1>6. \A a \in Aliases["package"] : Foreign(a)
  <2>1. Aliases["package"] =
          { <<"package">>, <<"package", "type">>, <<"package", "name">>, <<"case">>,
            <<"case", "style">>, <<"footprint">> }
    BY DEF Aliases
  <2> QED BY <1>1, <2>1, ForeignTuples
<1> QED BY <1>2, <1>3, <1>4, <1>5, <1>6

(* The aliases of the quantity have its words alone.                       *)
LEMMA QuantityAliases ==
  \A a \in Aliases["quantity"] : IsAlias(a) /\ \A i \in 1..Len(a) : a[i] \in QuantityWords
<1> SUFFICES ASSUME NEW a \in Aliases["quantity"]
             PROVE  IsAlias(a) /\ \A i \in 1..Len(a) : a[i] \in QuantityWords
  OBVIOUS
<1>1. a \in { <<"quantity">>, <<"qty">>, <<"count">>, <<"required", "quantity">>,
              <<"required", "qty">>, <<"req", "qty">>, <<"number", "required">> }
  BY DEF Aliases
<1>2. \/ \E x \in QuantityWords : a = <<x>>
      \/ \E x, y \in QuantityWords : a = <<x, y>>
  BY <1>1 DEF QuantityWords
<1>3. ASSUME NEW x \in QuantityWords, a = <<x>>
      PROVE  IsAlias(a) /\ \A i \in 1..Len(a) : a[i] \in QuantityWords
  <2>1. IsAlias(a) /\ Len(a) = 1 /\ a[1] = x
    BY <1>3, ShortTuples
  <2> QED BY <2>1
<1>4. ASSUME NEW x \in QuantityWords, NEW y \in QuantityWords, a = <<x, y>>
      PROVE  IsAlias(a) /\ \A i \in 1..Len(a) : a[i] \in QuantityWords
  <2>1. IsAlias(a) /\ Len(a) = 2 /\ a[1] = x /\ a[2] = y
    BY <1>4, ShortTuples
  <2> QED BY <2>1
<1> QED BY <1>2, <1>3, <1>4

-----------------------------------------------------------------------------
(* Scores.                                                                 *)

(* The share of the words of an alias that are in W, in sixths.            *)
Share(a, W) == (6 * Cardinality(Range(a) \cap W)) \div Cardinality(Range(a))

(* Sixths of at most three words: none of them is 0, all of them 6, and    *)
(* one of two or three at most 3.                                          *)
LEMMA Sixths ==
  \A y \in 1..3, x \in 0..3 :
    x <= y => /\ (6 * x) \div y \in 0..6
              /\ x = 0 \/ (x = 1 /\ y > 1) => (6 * x) \div y \in 0..3
<1> SUFFICES ASSUME NEW y \in 1..3, NEW x \in 0..3, x <= y
             PROVE  /\ (6 * x) \div y \in 0..6
                    /\ x = 0 \/ (x = 1 /\ y > 1) => (6 * x) \div y \in 0..3
  OBVIOUS
<1>1. CASE y = 1
  <2>1. (6 * x) \div 1 = 6 * x
    OBVIOUS
  <2>2. x \in 0..1
    BY <1>1
  <2> QED BY <1>1, <2>1, <2>2
<1>2. CASE y = 2
  <2>1. (6 * x) \div 2 = 3 * x
    OBVIOUS
  <2>2. x \in 0..2
    BY <1>2
  <2> QED BY <1>2, <2>1, <2>2
<1>3. CASE y = 3
  <2>1. (6 * x) \div 3 = 2 * x
    OBVIOUS
  <2>2. x \in 0..3
    BY <1>3
  <2> QED BY <1>3, <2>1, <2>2
<1> QED BY <1>1, <1>2, <1>3

(* The words of an alias are one to three.                                 *)
LEMMA AliasWords ==
  ASSUME NEW a, IsAlias(a), NEW W
  PROVE  /\ Cardinality(Range(a)) \in 1..3 /\ IsFiniteSet(Range(a))
         /\ Cardinality(Range(a) \cap W) \in 0..3
         /\ Cardinality(Range(a) \cap W) <= Cardinality(Range(a))
<1> DEFINE n == Len(a)
           S == 1..n
           T == Range(a)
           U == T \cap W
<1>1. IsList(a) /\ n \in 1..3
  BY DEF IsAlias
<1>2. DOMAIN a = S /\ T = {a[i] : i \in S}
  BY <1>1, ListRange
<1>3. IsFiniteSet(S) /\ Cardinality(S) = n
  <2>1. 1 \in Int /\ n \in Int
    BY <1>1
  <2>2. IsFiniteSet(1..n) /\ Cardinality(1..n) = IF 1 > n THEN 0 ELSE n - 1 + 1
    BY <2>1, FS_Interval
  <2> QED BY <1>1, <2>2
<1>4. a[1] \in T /\ T # {}
  BY <1>1, <1>2
<1>5. a = [i \in S |-> a[i]]
  BY <1>1 DEF IsList
<1> HIDE DEF n, S, T
<1>6. a \in Surjection(S, T)
  <2>1. a \in [S -> T]
    BY <1>2, <1>5
  <2>2. \A y \in T : \E x \in S : a[x] = y
    BY <1>2
  <2> QED BY <2>1, <2>2 DEF Surjection
<1>7. IsFiniteSet(T) /\ Cardinality(T) <= n
  BY <1>3, <1>6, FS_Surjection
<1>8. Cardinality(T) \in Nat /\ Cardinality(T) # 0
  BY <1>4, <1>7, FS_CardinalityType, FS_EmptySet
<1>9. Cardinality(U) \in Nat /\ Cardinality(U) <= Cardinality(T)
  BY <1>7, FS_Subset, FS_CardinalityType
<1>10. Cardinality(T) \in 1..3 /\ Cardinality(U) \in 0..3
  BY <1>1, <1>7, <1>8, <1>9
<1> QED BY <1>7, <1>9, <1>10 DEF T

(* So a share is a number of sixths, and of a foreign alias at most three  *)
(* of the words of an alias of the quantity.                               *)
LEMMA Shares ==
  ASSUME NEW a, IsAlias(a), NEW W
  PROVE  /\ Share(a, W) \in 0..6
         /\ Foreign(a) /\ W \subseteq QuantityWords => Share(a, W) \in 0..3
<1> DEFINE T == Range(a)
           U == T \cap W
           x == Cardinality(U)
           y == Cardinality(T)
<1>1. y \in 1..3 /\ x \in 0..3 /\ x <= y /\ IsFiniteSet(T)
  BY AliasWords
<1>2. Share(a, W) = (6 * x) \div y
  BY DEF Share
<1>3. ASSUME Foreign(a), W \subseteq QuantityWords PROVE x = 0 \/ (x = 1 /\ y > 1)
  <2>1. T = {a[i] : i \in 1..Len(a)} /\ Len(a) \in 1..3
    BY ListRange DEF IsAlias
  <2>2. a[1] \in T /\ a[1] \notin U
    <3>1. a[1] \notin QuantityWords
      BY <1>3 DEF Foreign
    <3> HIDE DEF QuantityWords
    <3> QED BY <1>3, <2>1, <3>1
  <2>3. U \subseteq {"number"}
    <3>1. \A i \in 1..Len(a) : a[i] \in QuantityWords => a[i] = "number"
      BY <1>3 DEF Foreign
    <3> HIDE DEF QuantityWords
    <3> QED BY <1>3, <2>1, <3>1
  <2>4. CASE U = {}
    BY <2>4, FS_EmptySet
  <2>5. CASE U # {}
    <3>1. U = {"number"}
      BY <2>3, <2>5
    <3>2. x = 1
      BY <3>1, FS_Singleton
    <3>3. y # 1
      <4> SUFFICES ASSUME y = 1 PROVE FALSE
        OBVIOUS
      <4> HIDE DEF T
      <4>1. PICK w : T = {w}
        BY <1>1, FS_Singleton
      <4>2. "number" \in T
        BY <3>1
      <4>3. a[1] # "number"
        BY <2>2, <3>1
      <4> QED BY <2>2, <4>1, <4>2, <4>3
    <3> HIDE DEF x, y
    <3> QED BY <1>1, <3>2, <3>3
  <2> QED BY <2>4, <2>5
<1> HIDE DEF T, U, x, y
<1>4. (6 * x) \div y \in 0..6 /\ (x = 0 \/ (x = 1 /\ y > 1) => (6 * x) \div y \in 0..3)
  BY <1>1, Sixths
<1> QED BY <1>2, <1>3, <1>4

(* The fields before the quantity, in the order of the structure check.    *)
EarlierFields == {"mpn", "manufacturer", "description", "category", "package"}

(* A field up to the quantity has aliases, of one to three words each.     *)
LEMMA FieldAliases ==
  \A field \in EarlierFields \cup {"quantity"} :
    Aliases[field] # {} /\ \A a \in Aliases[field] : IsAlias(a)
<1>1. \A field \in EarlierFields : \A a \in Aliases[field] : Foreign(a)
  BY EarlierForeign DEF EarlierFields
<1>2. \A a \in Aliases["quantity"] : IsAlias(a)
  BY QuantityAliases
<1>3. /\ <<"mpn">> \in Aliases["mpn"] /\ <<"maker">> \in Aliases["manufacturer"]
      /\ <<"desc">> \in Aliases["description"] /\ <<"type">> \in Aliases["category"]
      /\ <<"case">> \in Aliases["package"] /\ <<"qty">> \in Aliases["quantity"]
  BY DEF Aliases
<1>4. \A field \in EarlierFields \cup {"quantity"} : Aliases[field] # {}
  BY <1>3 DEF EarlierFields
<1> QED BY <1>1, <1>2, <1>4 DEF Foreign

(* The score of a header: all of its words for an alias, else the share of *)
(* the alias it has most in common with.                                   *)
LEMMA ScoreOf ==
  ASSUME NEW h, NEW field \in EarlierFields \cup {"quantity"}
  PROVE  /\ Score(h, field) \in 0..6
         /\ Words[h] \in Aliases[field] => Score(h, field) = 6
         /\ Words[h] \notin Aliases[field] =>
              \E a \in Aliases[field] : Score(h, field) = Share(a, Range(Words[h]))
<1> DEFINE W == Range(Words[h])
           A == Aliases[field]
           shares == {Share(a, W) : a \in A}
           best == CHOOSE s \in shares : \A other \in shares : s >= other
<1>1. Score(h, field) = IF Words[h] \in A THEN 6 ELSE best
  BY DEF Score, Share
<1>2. A # {} /\ \A a \in A : IsAlias(a)
  BY FieldAliases
<1> HIDE DEF A, W
<1>3. \A a \in A : Share(a, W) \in 0..6
  BY <1>2, Shares
<1>4. shares \in SUBSET Nat /\ shares # {} /\ \A s \in shares : s < 7
  BY <1>2, <1>3
<1>5. best \in shares
  <2> HIDE DEF shares
  <2>1. 7 \in Nat
    OBVIOUS
  <2>2. \E s \in shares : \A other \in shares : other <= s
    BY <1>4, <2>1, Highest
  <2>3. \E s \in shares : \A other \in shares : s >= other
    BY <1>4, <2>2
  <2> QED BY <2>3
<1> HIDE DEF best
<1>6. \E a \in A : best = Share(a, W)
  BY <1>5
<1>7. best \in 0..6
  BY <1>3, <1>6
<1> QED BY <1>1, <1>6, <1>7 DEF A, W

(* The columns that name a quantity are of no use to the fields before.    *)
LEMMA QuantityColumnsFree ==
  ASSUME NEW h, Words[h] \in Aliases["quantity"], NEW field \in EarlierFields
  PROVE  ~Confident(Score(h, field))
<1> DEFINE W == Range(Words[h])
<1>1. IsAlias(Words[h]) /\ \A i \in 1..Len(Words[h]) : Words[h][i] \in QuantityWords
  BY QuantityAliases
<1>2. W \subseteq QuantityWords
  <2>1. W = {Words[h][i] : i \in 1..Len(Words[h])}
    BY <1>1, ListRange DEF IsAlias
  <2> HIDE DEF W, QuantityWords
  <2> QED BY <1>1, <2>1
<1>3. \A a \in Aliases[field] : Foreign(a)
  BY EarlierForeign DEF EarlierFields
<1>4. Words[h] \notin Aliases[field]
  <2> SUFFICES ASSUME Foreign(Words[h]) PROVE FALSE
    BY <1>3
  <2> HIDE DEF QuantityWords
  <2>1. Words[h][1] \notin QuantityWords /\ 1 \in 1..Len(Words[h])
    BY DEF Foreign, IsAlias
  <2> QED BY <1>1, <2>1
<1>5. PICK a \in Aliases[field] : Score(h, field) = Share(a, W)
  BY <1>4, ScoreOf
<1>6. Share(a, W) \in 0..3
  <2> HIDE DEF W
  <2> QED BY <1>2, <1>3, Shares DEF Foreign
<1> QED BY <1>5, <1>6 DEF Confident

-----------------------------------------------------------------------------
(* The columns found one field after another.                              *)

(* The columns that are free for a field, and the best of them.            *)
FreeColumns(columns, found, field) ==
  AtIndices(columns, {i \in DOMAIN columns :
                        Score(columns[i], field) > 0 /\ columns[i] \notin found.used})

Scored(free, field) == [i \in DOMAIN free |-> Score(free[i], field)]

IsTop(i, free, scores) ==
  /\ \A j \in DOMAIN free : scores[j] <= scores[i]
  /\ \A j \in 1..(i - 1) : scores[j] < scores[i]

TopOf(free, scores) == CHOOSE i \in DOMAIN free : IsTop(i, free, scores)

(* What Detect makes of them.                                              *)
LEMMA DetectOf ==
  ASSUME NEW columns, NEW found, NEW field
  PROVE  LET free == FreeColumns(columns, found, field)
             scores == Scored(free, field)
             top == TopOf(free, scores)
         IN Detect(columns, found, field) =
              IF free = <<>> \/ ~Confident(scores[top]) THEN found
              ELSE [ used |-> found.used \cup {free[top]},
                     column |-> [found.column EXCEPT ![field] = free[top]],
                     ambiguous |->
                       IF Ambiguous(scores[top], {scores[j] : j \in DOMAIN free \ {top}})
                       THEN found.ambiguous \cup {field} ELSE found.ambiguous ]
BY Zenon DEF Detect, Where, FreeColumns, Scored, IsTop, TopOf

(* The best of the free columns exists where there are any.                *)
LEMMA TopExists ==
  ASSUME NEW columns, IsList(columns), NEW found,
         NEW field \in EarlierFields \cup {"quantity"},
         FreeColumns(columns, found, field) # <<>>
  PROVE  LET free == FreeColumns(columns, found, field)
             scores == Scored(free, field)
         IN /\ TopOf(free, scores) \in DOMAIN free
            /\ IsTop(TopOf(free, scores), free, scores)
<1> DEFINE free == FreeColumns(columns, found, field)
           scores == Scored(free, field)
           n == Len(free)
           kept == {i \in DOMAIN columns :
                      Score(columns[i], field) > 0 /\ columns[i] \notin found.used}
<1>1. kept \in SUBSET (1..Len(columns))
  BY DEF IsList
<1>2. free = AtIndices(columns, kept)
  BY DEF FreeColumns
<1> HIDE DEF kept
<1>3. IsList(free)
  BY <1>1, <1>2, KeptElements
<1> HIDE DEF free
<1>4. n \in Nat /\ n >= 1 /\ DOMAIN free = 1..n
  BY <1>3, ListRange DEF IsList, free
<1>5. DOMAIN scores = 1..n /\ \A i \in 1..n : scores[i] \in 0..6
  BY <1>4, ScoreOf DEF Scored
<1> HIDE DEF scores, n
<1> DEFINE values == {scores[i] : i \in 1..n}
<1>6. PICK s \in values : \A other \in values : other <= s
  <2>1. values \in SUBSET Nat /\ \A x \in values : x < 7
    BY <1>5
  <2>2. values # {}
    <3>1. 1 \in 1..n
      BY <1>4
    <3>2. scores[1] \in values
      BY <3>1
    <3> HIDE DEF values
    <3> QED BY <3>2
  <2> HIDE DEF values
  <2>3. 7 \in Nat
    OBVIOUS
  <2> QED BY <2>1, <2>2, <2>3, Highest
<1> DEFINE best == {i \in 1..n : scores[i] = s}
<1>7. PICK i \in best : \A j \in best : i <= j
  <2>1. best \in SUBSET Nat /\ best # {}
    BY <1>6
  <2> HIDE DEF best
  <2> QED BY <2>1, Lowest
<1>8. i \in 1..n /\ scores[i] = s
  OBVIOUS
<1>9. \A j \in 1..n : scores[j] <= s
  BY <1>6
<1>10. \A j \in 1..(i - 1) : scores[j] < s
  <2> SUFFICES ASSUME NEW j \in 1..(i - 1) PROVE scores[j] < s
    OBVIOUS
  <2>1. j \in 1..n /\ j < i
    BY <1>4, <1>8
  <2>2. scores[j] # s
    BY <1>7, <2>1
  <2> QED BY <1>5, <1>8, <1>9, <2>1, <2>2
<1>11. IsTop(i, free, scores)
  BY <1>4, <1>8, <1>9, <1>10 DEF IsTop
<1>12. \E k \in DOMAIN free : IsTop(k, free, scores)
  BY <1>4, <1>8, <1>11
<1> QED BY <1>12 DEF TopOf, free, scores

(* A field leaves what is found for the others, and one up to the quantity *)
(* uses no more than one column, in which it is confident.                 *)
LEMMA DetectKeeps ==
  ASSUME NEW columns, IsList(columns), NEW found, NEW field
  PROVE  LET next == Detect(columns, found, field)
         IN /\ field \in EarlierFields \cup {"quantity"} =>
                 \A c \in next.used : c \in found.used \/ Confident(Score(c, field))
            /\ DOMAIN next.column = DOMAIN found.column
            /\ \A g \in DOMAIN found.column : g # field => next.column[g] = found.column[g]
            /\ found.ambiguous \subseteq next.ambiguous
<1> DEFINE free == FreeColumns(columns, found, field)
           scores == Scored(free, field)
           top == TopOf(free, scores)
           next == Detect(columns, found, field)
           others == {scores[j] : j \in DOMAIN free \ {top}}
           amb == IF Ambiguous(scores[top], others)
                  THEN found.ambiguous \cup {field} ELSE found.ambiguous
<1>1. next = IF free = <<>> \/ ~Confident(scores[top]) THEN found
             ELSE [ used |-> found.used \cup {free[top]},
                    column |-> [found.column EXCEPT ![field] = free[top]],
                    ambiguous |-> amb ]
  BY DetectOf
<1>2. field \in EarlierFields \cup {"quantity"} /\ free # <<>> =>
        scores[top] = Score(free[top], field)
  <2> SUFFICES ASSUME field \in EarlierFields \cup {"quantity"}, free # <<>>
               PROVE  scores[top] = Score(free[top], field)
    OBVIOUS
  <2>1. top \in DOMAIN free
    BY TopExists
  <2> HIDE DEF free, top
  <2> QED BY <2>1 DEF Scored
<1>3. found.ambiguous \subseteq amb
  OBVIOUS
<1> HIDE DEF next, free, scores, top, amb
<1> QED BY <1>1, <1>2, <1>3 DEF next

(* A column whose name is an alias is what the field finds, unless another *)
(* column is as good.                                                      *)
LEMMA DetectExact ==
  ASSUME NEW columns, IsList(columns), NEW found,
         NEW field \in EarlierFields \cup {"quantity"}, field \in DOMAIN found.column,
         NEW c \in Range(columns), Words[c] \in Aliases[field], c \notin found.used,
         field \notin Detect(columns, found, field).ambiguous
  PROVE  Detect(columns, found, field).column[field] = c
<1> DEFINE free == FreeColumns(columns, found, field)
           scores == Scored(free, field)
           top == TopOf(free, scores)
           kept == {i \in DOMAIN columns :
                      Score(columns[i], field) > 0 /\ columns[i] \notin found.used}
           others == {scores[j] : j \in DOMAIN free \ {top}}
           next == Detect(columns, found, field)
<1>1. Score(c, field) = 6
  BY ScoreOf
<1>2. PICK p \in DOMAIN columns : columns[p] = c
  BY DEF Range
<1>3. kept \in SUBSET (1..Len(columns)) /\ p \in kept
  BY <1>1, <1>2 DEF IsList
<1>4. free = AtIndices(columns, kept)
  BY DEF FreeColumns
<1> HIDE DEF kept
<1>5. IsList(free) /\ Range(free) = {columns[i] : i \in kept}
  BY <1>3, <1>4, KeptElements
<1>6. DOMAIN free = 1..Len(free) /\ c \in Range(free) /\ free # <<>>
  <2>1. c \in Range(free)
    BY <1>2, <1>3, <1>5
  <2>2. free # <<>>
    BY <1>3, <1>4, KeptElements
  <2> QED BY <1>5, <2>1, <2>2, ListRange
<1>7. PICK k \in DOMAIN free : free[k] = c
  BY <1>6 DEF Range
<1>8. top \in DOMAIN free /\ IsTop(top, free, scores)
  BY <1>6, TopExists
<1>9. scores = [i \in DOMAIN free |-> Score(free[i], field)]
  BY DEF Scored
<1>10. next = IF free = <<>> \/ ~Confident(scores[top]) THEN found
              ELSE [ used |-> found.used \cup {free[top]},
                     column |-> [found.column EXCEPT ![field] = free[top]],
                     ambiguous |-> IF Ambiguous(scores[top], others)
                                   THEN found.ambiguous \cup {field} ELSE found.ambiguous ]
  BY DetectOf
<1> HIDE DEF free, scores, top, next
<1>11. \A i \in DOMAIN free : scores[i] \in 0..6
  BY <1>9, ScoreOf
<1>12. scores[k] = 6 /\ scores[top] = 6
  <2>1. scores[k] = 6
    BY <1>1, <1>7, <1>9
  <2>2. scores[k] <= scores[top] /\ scores[top] \in 0..6
    BY <1>7, <1>8, <1>11 DEF IsTop
  <2> QED BY <2>1, <2>2
<1>13. Confident(scores[top])
  BY <1>12 DEF Confident
<1>14. ~Ambiguous(scores[top], others)
  <2> SUFFICES ASSUME Ambiguous(scores[top], others) PROVE FALSE
    OBVIOUS
  <2> HIDE DEF others
  <2>1. next.ambiguous = found.ambiguous \cup {field}
    BY <1>6, <1>10, <1>13
  <2> QED BY <2>1 DEF next
<1>15. k = top
  <2> SUFFICES ASSUME k # top PROVE FALSE
    OBVIOUS
  <2>1. 6 \in others
    BY <1>7, <1>12
  <2> HIDE DEF others
  <2> QED BY <1>12, <1>13, <1>14, <2>1 DEF Ambiguous
<1> HIDE DEF others
<1>16. next.column = [found.column EXCEPT ![field] = c]
  BY <1>6, <1>7, <1>10, <1>13, <1>15
<1> QED BY <1>16 DEF next

(* What is found after each field, which the recursion of Detections is    *)
(* about.                                                                  *)
DetectedUpTo(f, columns, n) ==
  /\ f = [i \in 0..n |-> f[i]]
  /\ f[0] = NothingDetected
  /\ \A i \in 1..n : f[i] = Detect(columns, f[i - 1], Fields[i])

(* It exists for all columns: a first field at which it fails could be     *)
(* added.                                                                  *)
LEMMA DetectionsExist ==
  ASSUME NEW columns, NEW n \in Nat
  PROVE  \E f : DetectedUpTo(f, columns, n)
<1> DEFINE Reached(k) == \E f : DetectedUpTo(f, columns, k)
           Open == {k \in 0..n : ~Reached(k)}
<1>1. SUFFICES ASSUME Open # {} PROVE FALSE
  <2>1. n \in 0..n
    OBVIOUS
  <2> QED BY <2>1
<1>2. PICK k \in Open : \A j \in Open : k <= j
  <2>1. Open \in SUBSET Nat
    OBVIOUS
  <2> HIDE DEF Open
  <2> QED BY <1>1, <2>1, Lowest
<1>3. k \in 0..n /\ ~Reached(k)
  OBVIOUS
<1>4. k # 0
  <2> DEFINE f == [i \in 0..0 |-> NothingDetected]
  <2>1. DetectedUpTo(f, columns, 0)
    BY DEF DetectedUpTo
  <2>2. Reached(0)
    BY <2>1
  <2> QED BY <1>3, <2>2
<1>5. k - 1 \in 0..n /\ k - 1 < k /\ k \in Nat
  BY <1>3, <1>4
<1>6. Reached(k - 1)
  <2>1. k - 1 \notin Open
    <3> HIDE DEF Open
    <3> QED BY <1>2, <1>5
  <2> QED BY <1>5, <2>1
<1>7. PICK f : DetectedUpTo(f, columns, k - 1)
  BY <1>6
<1> DEFINE last == Detect(columns, f[k - 1], Fields[k])
           g == [i \in 0..k |-> IF i = k THEN last ELSE f[i]]
<1> HIDE DEF last
<1>8. g[0] = NothingDetected /\ g = [i \in 0..k |-> g[i]]
  BY <1>4, <1>5, <1>7 DEF DetectedUpTo
<1>9. \A i \in 1..k : g[i] = Detect(columns, g[i - 1], Fields[i])
  <2> TAKE i \in 1..k
  <2>1. i - 1 \in 0..k /\ i - 1 # k /\ g[i - 1] = f[i - 1]
    BY <1>5
  <2>2. CASE i = k
    BY <1>5, <2>1, <2>2 DEF last
  <2>3. CASE i # k
    <3>1. i \in 1..(k - 1)
      BY <1>5, <2>3
    <3>2. f[i] = Detect(columns, f[i - 1], Fields[i])
      BY <1>7, <3>1 DEF DetectedUpTo
    <3> QED BY <1>5, <2>1, <2>3, <3>2
  <2> QED BY <2>2, <2>3
<1> HIDE DEF g
<1>10. DetectedUpTo(g, columns, k)
  BY <1>8, <1>9 DEF DetectedUpTo
<1> QED BY <1>3, <1>10

(* Detections is what is found after the seven fields.                     *)
LEMMA SevenDetections ==
  ASSUME NEW columns
  PROVE  \E f : DetectedUpTo(f, columns, 7) /\ Detections(columns) = f[7]
<1> DEFINE n == Len(Fields)
           Solves(h) ==
             h = [i \in 0..n |-> IF i = 0 THEN NothingDetected ELSE Detect(columns, h[i - 1], Fields[i])]
           after == CHOOSE h : Solves(h)
<1>1. n = 7
  BY DEF Fields
<1> HIDE DEF n
<1>2. Solves(after)
  <2>0. 7 \in Nat
    OBVIOUS
  <2>1. PICK f : DetectedUpTo(f, columns, 7)
    BY <2>0, DetectionsExist
  <2>2. \A i \in 0..n : f[i] = IF i = 0 THEN NothingDetected ELSE Detect(columns, f[i - 1], Fields[i])
    BY <1>1, <2>1 DEF DetectedUpTo
  <2>3. f = [i \in 0..n |-> f[i]]
    BY <1>1, <2>1 DEF DetectedUpTo
  <2>4. Solves(f)
    BY <2>2, <2>3
  <2> QED BY <2>4
<1>3. Detections(columns) = after[7]
  BY <1>1 DEF Detections, n
<1> HIDE DEF after
<1>4. DetectedUpTo(after, columns, 7)
  <2>1. after[0] = NothingDetected /\ \A i \in 1..7 : after[i] = Detect(columns, after[i - 1], Fields[i])
    BY <1>1, <1>2
  <2>2. after = [i \in 0..7 |-> after[i]]
    BY <1>1, <1>2
  <2> QED BY <2>1, <2>2 DEF DetectedUpTo
<1> QED BY <1>3, <1>4

(* The order of the fields.                                                *)
LEMMA FieldOrder ==
  /\ \A i \in 1..5 : Fields[i] \in EarlierFields
  /\ Fields[1] = "mpn" /\ Fields[6] = "quantity" /\ Fields[7] = "reference_designators"
  /\ \A i \in 2..7 : Fields[i] # "mpn"
  /\ \A i \in 1..7 : Fields[i] = "quantity" => i = 6
  /\ DOMAIN Fields = 1..7 /\ "mpn" \in Range(Fields) /\ "quantity" \in Range(Fields)
<1>1. DOMAIN Fields = 1..7
  BY DEF Fields
<1>2. /\ Fields[1] = "mpn" /\ Fields[2] = "manufacturer" /\ Fields[3] = "description"
      /\ Fields[4] = "category" /\ Fields[5] = "package" /\ Fields[6] = "quantity"
      /\ Fields[7] = "reference_designators"
  BY DEF Fields
<1>3. "mpn" \in Range(Fields) /\ "quantity" \in Range(Fields)
  <2>1. Fields[1] \in Range(Fields) /\ Fields[6] \in Range(Fields)
    BY <1>1 DEF Range
  <2> QED BY <1>2, <2>1
<1>4. \A i \in 1..5 : Fields[i] \in EarlierFields
  BY <1>2 DEF EarlierFields
<1>5. (\A i \in 2..7 : Fields[i] # "mpn") /\ \A i \in 1..7 : Fields[i] = "quantity" => i = 6
  BY <1>2
<1> QED BY <1>1, <1>2, <1>3, <1>4, <1>5

(* A header that is an alias of a required field is the column the         *)
(* structure check finds for it, unless it finds two.                      *)
LEMMA ColumnFound ==
  ASSUME NEW columns, IsList(columns), NEW field \in Required,
         NEW c \in Range(columns), Words[c] \in Aliases[field],
         field \notin Detections(columns).ambiguous
  PROVE  Detections(columns).column[field] = c
<1>1. PICK f : DetectedUpTo(f, columns, 7) /\ Detections(columns) = f[7]
  BY SevenDetections
<1>2. f[0] = NothingDetected /\ \A i \in 1..7 : f[i] = Detect(columns, f[i - 1], Fields[i])
  BY <1>1 DEF DetectedUpTo
<1> DEFINE Up(i) ==
      /\ i <= 6 => \A x \in f[i].used : x \in f[i - 1].used \/ Confident(Score(x, Fields[i]))
      /\ DOMAIN f[i].column = DOMAIN f[i - 1].column
      /\ \A g \in DOMAIN f[i - 1].column : g # Fields[i] => f[i].column[g] = f[i - 1].column[g]
      /\ f[i - 1].ambiguous \subseteq f[i].ambiguous
<1>3. \A i \in 1..7 : Up(i)
  <2> SUFFICES ASSUME NEW i \in 1..7 PROVE Up(i)
    OBVIOUS
  <2>1. f[i] = Detect(columns, f[i - 1], Fields[i])
    BY <1>2
  <2>2. i <= 6 => Fields[i] \in EarlierFields \cup {"quantity"}
    <3>1. i \in 1..5 \/ i = 6 \/ i = 7
      OBVIOUS
    <3> QED BY <3>1, FieldOrder
  <2> DEFINE found == f[i - 1]
             name == Fields[i]
  <2> HIDE DEF found, name
  <2>3. LET next == Detect(columns, found, name)
        IN /\ name \in EarlierFields \cup {"quantity"} =>
                 \A x \in next.used : x \in found.used \/ Confident(Score(x, name))
           /\ DOMAIN next.column = DOMAIN found.column
           /\ \A g \in DOMAIN found.column : g # name => next.column[g] = found.column[g]
           /\ found.ambiguous \subseteq next.ambiguous
    BY DetectKeeps
  <2> QED BY <2>1, <2>2, <2>3 DEF found, name
<1>4. Up(1) /\ Up(2) /\ Up(3) /\ Up(4) /\ Up(5) /\ Up(6) /\ Up(7)
  BY <1>3
<1>5. f[0].used = {} /\ DOMAIN f[0].column = Range(Fields)
  BY <1>2 DEF NothingDetected
<1>6. /\ DOMAIN f[1].column = Range(Fields) /\ DOMAIN f[2].column = Range(Fields)
      /\ DOMAIN f[3].column = Range(Fields) /\ DOMAIN f[4].column = Range(Fields)
      /\ DOMAIN f[5].column = Range(Fields) /\ DOMAIN f[6].column = Range(Fields)
  BY <1>4, <1>5
<1>7. CASE field = "mpn"
  <2>1. f[1] = Detect(columns, f[0], "mpn")
    BY <1>2, FieldOrder
  <2>2. "mpn" \notin f[1].ambiguous
    BY <1>1, <1>4, <1>7
  <2>3. f[1].column["mpn"] = c
    <3>1. "mpn" \in EarlierFields \cup {"quantity"} /\ "mpn" \in DOMAIN f[0].column
      BY <1>5, FieldOrder DEF EarlierFields
    <3>2. c \notin f[0].used /\ "mpn" \notin Detect(columns, f[0], "mpn").ambiguous
      BY <1>5, <2>1, <2>2
    <3>3. Words[c] \in Aliases["mpn"]
      BY <1>7
    <3>4. Detect(columns, f[0], "mpn").column["mpn"] = c
      BY <3>1, <3>2, <3>3, DetectExact
    <3> QED BY <2>1, <3>4
  <2>4. \A i \in 2..7 : "mpn" # Fields[i] /\ "mpn" \in Range(Fields)
    BY FieldOrder
  <2>5. f[7].column["mpn"] = f[1].column["mpn"]
    <3>1. "mpn" \in Range(Fields) /\ "mpn" # Fields[2] /\ "mpn" # Fields[3] /\ "mpn" # Fields[4]
          /\ "mpn" # Fields[5] /\ "mpn" # Fields[6] /\ "mpn" # Fields[7]
      BY <2>4
    <3> QED BY <1>4, <1>6, <3>1
  <2> QED BY <1>1, <1>7, <2>3, <2>5
<1>8. CASE field = "quantity"
  <2>1. f[6] = Detect(columns, f[5], "quantity")
    BY <1>2, FieldOrder
  <2>2. "quantity" \notin f[6].ambiguous
    BY <1>1, <1>4, <1>8
  <2>3. c \notin f[5].used
    <3>1. \A i \in 1..5 : ~Confident(Score(c, Fields[i]))
      <4> TAKE i \in 1..5
      <4>1. Fields[i] \in EarlierFields /\ Words[c] \in Aliases["quantity"]
        BY <1>8, FieldOrder
      <4> QED BY <4>1, QuantityColumnsFree
    <3> QED BY <1>4, <1>5, <3>1
  <2>4. f[6].column["quantity"] = c
    <3>1. "quantity" \in EarlierFields \cup {"quantity"} /\ "quantity" \in DOMAIN f[5].column
      BY <1>6, FieldOrder
    <3>2. "quantity" \notin Detect(columns, f[5], "quantity").ambiguous
      BY <2>1, <2>2
    <3>3. Words[c] \in Aliases["quantity"]
      BY <1>8
    <3>4. Detect(columns, f[5], "quantity").column["quantity"] = c
      BY <2>3, <3>1, <3>2, <3>3, DetectExact
    <3> QED BY <2>1, <3>4
  <2>5. f[7].column["quantity"] = f[6].column["quantity"]
    <3>1. "quantity" \in Range(Fields) /\ "quantity" # Fields[7]
      BY FieldOrder
    <3> QED BY <1>4, <1>6, <3>1
  <2> QED BY <1>1, <1>8, <2>4, <2>5
<1> QED BY <1>7, <1>8 DEF Required

(* The column a required field is read with, if there is one, is a header  *)
(* of the file that is an alias of it.                                     *)
LEMMA MappingFits ==
  ASSUME NEW columns, IsList(columns), NEW field \in Range(Fields),
         Mapping(columns)[field] # Unreported
  PROVE  /\ Mapping(columns)[field] \in Range(columns)
         /\ Words[Mapping(columns)[field]] \in Aliases[field]
<1> DEFINE FieldsOf(c) == {i \in DOMAIN Fields : Words[c] \in Aliases[Fields[i]]}
           n == CHOOSE i \in DOMAIN Fields : Fields[i] = field
           kept == {k \in DOMAIN columns : n \in FieldsOf(columns[k])
                                           /\ \A j \in FieldsOf(columns[k]) : n <= j}
           fitting == AtIndices(columns, kept)
           chosen == IF fitting = <<>> THEN Unreported ELSE fitting[Len(fitting)]
<1>1. Mapping(columns)[field] = chosen
  BY Zenon DEF Mapping, Where
<1>2. n \in DOMAIN Fields /\ Fields[n] = field
  BY DEF Range
<1> HIDE DEF n
<1>3. kept \in SUBSET (1..Len(columns)) /\ \A k \in kept : Words[columns[k]] \in Aliases[field]
  BY <1>2 DEF IsList
<1>4. \A k \in kept : columns[k] \in Range(columns)
  BY DEF Range
<1> HIDE DEF kept
<1>5. IsList(fitting) /\ Range(fitting) = {columns[k] : k \in kept}
  BY <1>3, KeptElements
<1> HIDE DEF fitting
<1>6. fitting # <<>> /\ chosen = fitting[Len(fitting)]
  BY <1>1
<1>7. fitting[Len(fitting)] \in Range(fitting)
  <2>1. Len(fitting) >= 1 /\ Len(fitting) \in Nat /\ Range(fitting) = {fitting[i] : i \in 1..Len(fitting)}
    BY <1>5, <1>6, ListRange DEF IsList
  <2>2. Len(fitting) \in 1..Len(fitting)
    BY <2>1
  <2> QED BY <2>1, <2>2
<1>8. PICK k \in kept : chosen = columns[k]
  BY <1>5, <1>6, <1>7
<1> HIDE DEF chosen
<1> QED BY <1>1, <1>3, <1>4, <1>8

(* The two detectors agree: of columns that the structure check accepts,   *)
(* the rows are read in those it was confident about.                      *)
THEOREM ColumnsAgree ==
  ASSUME NEW columns, IsList(columns), StructureErrors(columns) = {}, NEW field \in Required,
         Mapping(columns)[field] # Unreported
  PROVE  Detections(columns).column[field] = Mapping(columns)[field]
<1>1. field \in Range(Fields)
  BY FieldOrder DEF Required
<1>2. field \notin Detections(columns).ambiguous
  BY DEF StructureErrors
<1> QED BY <1>1, <1>2, MappingFits, ColumnFound

-----------------------------------------------------------------------------
(* From the rows of a file to its BOM.                                     *)

(* A cell's number and its parts.                                          *)
IsCell(cell) == cell.number \in Int \cup {Unreported} /\ IsList(cell.parts)

(* The records of a file have cells of its rows, under headers.            *)
LEMMA ParsedRows ==
  ASSUME NEW f \in Files
  PROVE  \A i \in DOMAIN Parsed(f) : \A h \in DOMAIN Parsed(f)[i] :
           h \in Headers /\ IsCell(Parsed(f)[i][h])
<1> DEFINE Named(row) == {h \in DOMAIN row : row[h].text # ""}
           elements == [i \in DOMAIN f.rows |-> [h \in Named(f.rows[i]) |-> f.rows[i][h]]]
           kept == {i \in DOMAIN elements : DOMAIN elements[i] # {}}
           Proper(row) == \A h \in DOMAIN row : h \in Headers /\ IsCell(row[h])
<1>1. IsList(f.rows) /\ \A i \in DOMAIN f.rows : Proper(f.rows[i])
  BY PipelineAssumption DEF IsCell
<1>2. DOMAIN f.rows = 1..Len(f.rows) /\ Len(f.rows) \in Nat
  BY <1>1 DEF IsList
<1>3. IsList(elements) /\ Len(elements) = Len(f.rows)
  <2>1. Len(elements) = Len(f.rows)
    BY <1>2
  <2>2. elements = [i \in 1..Len(elements) |-> elements[i]]
    BY <1>2, <2>1
  <2> QED BY <1>2, <2>1, <2>2 DEF IsList
<1>4. kept \in SUBSET (1..Len(elements))
  BY <1>2, <1>3
<1>5. \A i \in kept : Proper(elements[i])
  <2> SUFFICES ASSUME NEW i \in kept, NEW h \in DOMAIN elements[i]
               PROVE  h \in Headers /\ IsCell(elements[i][h])
    OBVIOUS
  <2>1. i \in DOMAIN f.rows /\ elements[i] = [g \in Named(f.rows[i]) |-> f.rows[i][g]]
    OBVIOUS
  <2>2. h \in DOMAIN f.rows[i] /\ elements[i][h] = f.rows[i][h]
    BY <2>1
  <2> QED BY <1>1, <2>1, <2>2
<1>6. IF f.format = ".xml" THEN Parsed(f) = AtIndices(elements, kept) ELSE Parsed(f) = f.rows
  BY Zenon DEF Parsed, Where
<1> HIDE DEF elements, kept
<1>7. Range(AtIndices(elements, kept)) = {elements[i] : i \in kept}
  BY <1>3, <1>4, KeptElements
<1>8. \A row \in Range(Parsed(f)) : Proper(row)
  <2> HIDE DEF Proper
  <2>1. CASE f.format = ".xml"
    BY <1>5, <1>6, <1>7, <2>1
  <2>2. CASE f.format # ".xml"
    BY <1>1, <1>6, <2>2 DEF Range
  <2> QED BY <2>1, <2>2
<1> QED BY <1>8 DEF Range

(* The columns of a file are a list.                                       *)
LEMMA ColumnsListed == ASSUME NEW f \in Files PROVE IsList(ColumnsOf(f))
<1> DEFINE kept == {i \in DOMAIN f.headers : f.headers[i] \in DOMAIN Parsed(f)[1]}
<1>1. IsList(f.headers)
  BY PipelineAssumption
<1>2. kept \in SUBSET (1..Len(f.headers))
  BY <1>1 DEF IsList
<1>3. ColumnsOf(f) = AtIndices(f.headers, kept)
  BY Zenon DEF ColumnsOf, Where
<1> HIDE DEF kept
<1> QED BY <1>1, <1>2, <1>3, KeptElements

(* The components the rows of a file are read as.                          *)
Lines(f) == [i \in DOMAIN Parsed(f) |-> NormalComponent(Parsed(f)[i], Mapping(ColumnsOf(f)))]

(* The cell of a row for a field.                                          *)
Cell(f, i, field) ==
  LET column == Mapping(ColumnsOf(f))[field]
  IN IF column \in DOMAIN Parsed(f)[i] THEN Parsed(f)[i][column] ELSE Empty

(* What a line is, cell by cell.                                           *)
LEMMA LinesOf ==
  ASSUME NEW f \in Files
  PROVE  /\ IsList(Lines(f)) /\ DOMAIN Lines(f) = DOMAIN Parsed(f)
         /\ \A i \in DOMAIN Parsed(f) :
              /\ Lines(f)[i].mpn = TextOf(Cell(f, i, "mpn"))
              /\ Lines(f)[i].quantity = Cell(f, i, "quantity").number
              /\ Lines(f)[i].references = Cell(f, i, "reference_designators").parts
<1>1. IsList(Parsed(f)) /\ DOMAIN Parsed(f) = 1..Len(Parsed(f)) /\ Len(Parsed(f)) \in Nat
  BY ParsedIsList DEF IsList
<1>2. DOMAIN Lines(f) = DOMAIN Parsed(f)
  BY DEF Lines
<1>3. Len(Lines(f)) = Len(Parsed(f)) /\ Lines(f) = [i \in 1..Len(Parsed(f)) |-> Lines(f)[i]]
  <2> DEFINE lines == Lines(f)
             Line(i) == NormalComponent(Parsed(f)[i], Mapping(ColumnsOf(f)))
             n == Len(Parsed(f))
  <2>1. lines = [i \in 1..n |-> Line(i)]
    BY <1>1 DEF Lines
  <2> HIDE DEF lines, Line, n
  <2>2. DOMAIN lines = 1..n /\ lines = [i \in 1..n |-> lines[i]]
    BY <2>1
  <2>3. n \in Nat
    BY <1>1 DEF n
  <2>4. Len(lines) = n
    BY <2>2, <2>3
  <2> QED BY <2>2, <2>4 DEF lines, n
<1>4. IsList(Lines(f))
  BY <1>1, <1>3 DEF IsList
<1>5. \A i \in DOMAIN Parsed(f) :
        /\ Lines(f)[i].mpn = TextOf(Cell(f, i, "mpn"))
        /\ Lines(f)[i].quantity = Cell(f, i, "quantity").number
        /\ Lines(f)[i].references = Cell(f, i, "reference_designators").parts
  <2> SUFFICES ASSUME NEW i \in DOMAIN Parsed(f)
               PROVE  /\ Lines(f)[i].mpn = TextOf(Cell(f, i, "mpn"))
                      /\ Lines(f)[i].quantity = Cell(f, i, "quantity").number
                      /\ Lines(f)[i].references = Cell(f, i, "reference_designators").parts
    OBVIOUS
  <2>1. Lines(f)[i] = NormalComponent(Parsed(f)[i], Mapping(ColumnsOf(f)))
    BY DEF Lines
  <2> QED BY <2>1 DEF NormalComponent, Cell
<1> QED BY <1>2, <1>4, <1>5

(* The components of lines: each part once, with the sum of its quantities *)
(* and all of its references.                                              *)
Sums(components, lines) ==
  /\ \A p : (\E k \in DOMAIN components : components[k].mpn = p)
            <=> \E i \in DOMAIN lines : lines[i].mpn = p
  /\ \A k, l \in DOMAIN components : components[k].mpn = components[l].mpn => k = l
  /\ \A k \in DOMAIN components :
       /\ components[k].quantity = Total(Quantities(lines, components[k].mpn))
       /\ \A x : x \in Range(components[k].references) <=>
            \E i \in DOMAIN lines : lines[i].mpn = components[k].mpn
                                    /\ x \in Range(lines[i].references)

(* Deduplicated keeps them.                                                *)
LEMMA DeduplicatedSums ==
  ASSUME NEW lines, AreLines(lines)
  PROVE  Sums(Deduplicated(lines), lines)
<1> DEFINE n == Len(lines)
           kept == Deduplicated(lines)
<1>1. n \in Nat /\ DOMAIN lines = 1..n
  BY DEF AreLines, IsList
<1>2. Groups(kept, lines, n) /\ Counts(kept, lines, n)
  BY DeduplicatedGroups
<1> HIDE DEF n, kept
<1>3. DOMAIN kept = 1..Len(kept)
  BY <1>2 DEF Groups, IsList
<1>4. \A p : Quantities(lines, p) \in Seq(Int) /\ Len(Quantities(lines, p)) = n
  <2> SUFFICES ASSUME NEW p
               PROVE  Quantities(lines, p) \in Seq(Int) /\ Len(Quantities(lines, p)) = n
    OBVIOUS
  <2>1. Quantities(lines, p) = [i \in 1..n |-> IF lines[i].mpn = p THEN lines[i].quantity ELSE 0]
    BY <1>1 DEF Quantities
  <2>2. \A i \in 1..n : lines[i].quantity \in Int
    BY DEF AreLines, n
  <2>3. Quantities(lines, p) \in [1..n -> Int]
    BY <2>1, <2>2
  <2> QED BY <1>1, <2>3
<1>5. \A k \in DOMAIN kept : kept[k].quantity = Total(Quantities(lines, kept[k].mpn))
  <2> SUFFICES ASSUME NEW k \in DOMAIN kept
               PROVE  kept[k].quantity = Total(Quantities(lines, kept[k].mpn))
    OBVIOUS
  <2> DEFINE p == kept[k].mpn
             numbers == Quantities(lines, p)
  <2>1. numbers \in Seq(Int) /\ Len(numbers) = n
    BY <1>4
  <2>2. PICK f : SumsTo(f, numbers, Len(numbers)) /\ Total(numbers) = f[Len(numbers)]
    BY <2>1, TotalSums
  <2> HIDE DEF p
  <2>3. SumsTo(f, Quantities(lines, p), Len(lines)) /\ Total(numbers) = f[n]
    BY <2>1, <2>2 DEF n
  <2>4. kept[k].quantity = f[n]
    BY <1>2, <1>3, <2>3 DEF Counts, p
  <2> QED BY <2>3, <2>4 DEF p
<1>6. /\ \A k \in 1..Len(kept) : \E i \in 1..n : lines[i].mpn = kept[k].mpn
      /\ \A i \in 1..n : \E k \in 1..Len(kept) : kept[k].mpn = lines[i].mpn
      /\ \A k, l \in 1..Len(kept) : kept[k].mpn = kept[l].mpn => k = l
      /\ \A k \in 1..Len(kept) : \A x :
           x \in Range(kept[k].references) <=>
             \E i \in 1..n : lines[i].mpn = kept[k].mpn /\ x \in Range(lines[i].references)
  BY <1>2 DEF Groups
<1>7. \A p : (\E k \in DOMAIN kept : kept[k].mpn = p) <=> \E i \in DOMAIN lines : lines[i].mpn = p
  <2> TAKE p
  <2>1. ASSUME NEW k \in DOMAIN kept, kept[k].mpn = p PROVE \E i \in DOMAIN lines : lines[i].mpn = p
    <3>1. PICK i \in 1..n : lines[i].mpn = kept[k].mpn
      BY <1>3, <1>6
    <3> QED BY <1>1, <2>1, <3>1
  <2>2. ASSUME NEW i \in DOMAIN lines, lines[i].mpn = p PROVE \E k \in DOMAIN kept : kept[k].mpn = p
    <3>1. PICK k \in 1..Len(kept) : kept[k].mpn = lines[i].mpn
      BY <1>1, <1>6
    <3> QED BY <1>3, <2>2, <3>1
  <2> QED BY <2>1, <2>2
<1>8. Sums(kept, lines)
  BY ZenonT(40), <1>1, <1>3, <1>5, <1>6, <1>7 DEF Sums
<1> QED BY <1>8 DEF kept

(* A file whose columns and rows are accepted.                             *)
Accepted(f) ==
  /\ f \in Files /\ Parsed(f) # <<>>
  /\ StructureErrors(ColumnsOf(f)) = {}
  /\ \A i \in DOMAIN Lines(f) : ComponentErrors(Lines(f)[i]) = {}

(* Its rows are read in columns that exist, and as what their cells are.   *)
LEMMA AcceptedRows ==
  ASSUME NEW f, Accepted(f)
  PROVE  /\ \A field \in Required : Mapping(ColumnsOf(f))[field] # Unreported
         /\ \A i \in DOMAIN Parsed(f) : Lines(f)[i].mpn = Cell(f, i, "mpn").text
         /\ AreLines(Lines(f))
<1>1. IsList(Parsed(f)) /\ DOMAIN Parsed(f) = 1..Len(Parsed(f)) /\ Len(Parsed(f)) >= 1
  BY ParsedIsList, ListRange DEF Accepted
<1>2. /\ IsList(Lines(f)) /\ DOMAIN Lines(f) = DOMAIN Parsed(f)
      /\ \A i \in DOMAIN Parsed(f) :
           /\ Lines(f)[i].mpn = TextOf(Cell(f, i, "mpn"))
           /\ Lines(f)[i].quantity = Cell(f, i, "quantity").number
           /\ Lines(f)[i].references = Cell(f, i, "reference_designators").parts
  BY LinesOf DEF Accepted
<1>3. \A i \in DOMAIN Parsed(f) :
        /\ TextOf(Cell(f, i, "mpn")) # Unreported
        /\ Cell(f, i, "quantity").number # Unreported
  <2> SUFFICES ASSUME NEW i \in DOMAIN Parsed(f)
               PROVE  /\ TextOf(Cell(f, i, "mpn")) # Unreported
                      /\ Cell(f, i, "quantity").number # Unreported
    OBVIOUS
  <2>1. ComponentErrors(Lines(f)[i]) = {}
    BY <1>2 DEF Accepted
  <2>2. Lines(f)[i].mpn # Unreported /\ Lines(f)[i].quantity # Unreported
    BY <2>1 DEF ComponentErrors, Required
  <2> QED BY <1>2, <2>2
<1>4. \A i \in DOMAIN Parsed(f) : \A h \in DOMAIN Parsed(f)[i] :
        h \in Headers /\ IsCell(Parsed(f)[i][h])
  BY ParsedRows DEF Accepted
<1>5. \A i \in DOMAIN Parsed(f), field \in Required :
        /\ Mapping(ColumnsOf(f))[field] \in Headers
        /\ IsCell(Cell(f, i, field))
  <2> SUFFICES ASSUME NEW i \in DOMAIN Parsed(f), NEW field \in Required
               PROVE  /\ Mapping(ColumnsOf(f))[field] \in Headers
                      /\ IsCell(Cell(f, i, field))
    OBVIOUS
  <2> DEFINE column == Mapping(ColumnsOf(f))[field]
  <2>1. Cell(f, i, field) = IF column \in DOMAIN Parsed(f)[i] THEN Parsed(f)[i][column] ELSE Empty
    BY DEF Cell
  <2> HIDE DEF column
  <2>2. Cell(f, i, field) # Empty
    <3>1. Empty.text = "" /\ Empty.number = Unreported
      BY DEF Empty
    <3>2. CASE field = "mpn"
      BY <1>3, <3>1, <3>2 DEF TextOf
    <3>3. CASE field = "quantity"
      BY <1>3, <3>1, <3>3
    <3> QED BY <3>2, <3>3 DEF Required
  <2>3. column \in DOMAIN Parsed(f)[i] /\ Cell(f, i, field) = Parsed(f)[i][column]
    BY <2>1, <2>2
  <2> QED BY <1>4, <2>3 DEF column
<1>6. \A field \in Required : Mapping(ColumnsOf(f))[field] # Unreported
  BY <1>1, <1>5, PipelineAssumption
<1>7. \A i \in DOMAIN Parsed(f) : Lines(f)[i].mpn = Cell(f, i, "mpn").text
  BY <1>2, <1>3 DEF TextOf
<1>8. \A i \in 1..Len(Lines(f)) : IsList(Lines(f)[i].references) /\ Lines(f)[i].quantity \in Int
  <2> SUFFICES ASSUME NEW i \in 1..Len(Lines(f))
               PROVE  IsList(Lines(f)[i].references) /\ Lines(f)[i].quantity \in Int
    OBVIOUS
  <2>1. i \in DOMAIN Parsed(f)
    BY <1>2 DEF IsList
  <2>2. IsCell(Cell(f, i, "quantity"))
    BY <1>5, <2>1 DEF Required
  <2>3. Lines(f)[i].quantity \in Int
    BY <1>2, <1>3, <2>1, <2>2 DEF IsCell
  <2>4. IsList(Cell(f, i, "reference_designators").parts)
    <3> DEFINE column == Mapping(ColumnsOf(f))["reference_designators"]
    <3>1. Cell(f, i, "reference_designators") =
            IF column \in DOMAIN Parsed(f)[i] THEN Parsed(f)[i][column] ELSE Empty
      BY DEF Cell
    <3> HIDE DEF column
    <3>2. Empty.parts = <<>>
      BY DEF Empty
    <3> QED BY <1>4, <2>1, <3>1, <3>2, EmptyList DEF IsCell
  <2> QED BY <1>2, <2>1, <2>3, <2>4
<1> QED BY <1>2, <1>6, <1>7, <1>8 DEF AreLines

(* The sums of its lines are what it says.                                 *)
LEMMA SumsAsWritten ==
  ASSUME NEW f, Accepted(f), NEW components, Sums(components, Lines(f))
  PROVE  AsWritten(components, f)
<1> DEFINE rows == Parsed(f)
           mapping == Mapping(ColumnsOf(f))
           columns == ColumnsToRead(f)
           CellOf(i, field) == IF columns[field] \in DOMAIN rows[i] THEN rows[i][columns[field]]
                               ELSE Empty
           RowsOf(p) == {i \in DOMAIN rows : CellOf(i, "mpn").text = p}
           parts == {CellOf(i, "mpn").text : i \in DOMAIN rows}
           Of(p) == {k \in DOMAIN components : components[k].mpn = p}
           lines == Lines(f)
<1>1. columns = mapping
  <2>1. IsList(ColumnsOf(f)) /\ StructureErrors(ColumnsOf(f)) = {}
    BY ColumnsListed DEF Accepted
  <2>2. mapping["mpn"] # Unreported /\ mapping["quantity"] # Unreported
    BY AcceptedRows DEF Required
  <2>3. /\ Detections(ColumnsOf(f)).column["mpn"] = mapping["mpn"]
        /\ Detections(ColumnsOf(f)).column["quantity"] = mapping["quantity"]
    BY <2>1, <2>2, ColumnsAgree DEF Required
  <2>4. mapping = [g \in Range(Fields) |-> mapping[g]]
    BY DEF Mapping
  <2> DEFINE detected == Detections(ColumnsOf(f))
  <2>5. columns = [g \in Range(Fields) |-> IF g \in Required THEN detected.column[g] ELSE mapping[g]]
    BY DEF ColumnsToRead
  <2> HIDE DEF mapping, detected, columns
  <2>6. \A g \in Required : detected.column[g] = mapping[g]
    BY <2>3 DEF Required, detected, mapping
  <2> QED BY <2>4, <2>5, <2>6
<1>2. \A i, field : CellOf(i, field) = Cell(f, i, field)
  BY <1>1 DEF Cell
<1> HIDE DEF columns
<1>3. /\ DOMAIN lines = DOMAIN rows
      /\ \A i \in DOMAIN rows :
           /\ lines[i].mpn = CellOf(i, "mpn").text
           /\ lines[i].quantity = CellOf(i, "quantity").number
           /\ lines[i].references = CellOf(i, "reference_designators").parts
  BY <1>2, AcceptedRows, LinesOf DEF Accepted
<1>4. AsWritten(components, f) <=>
        /\ {components[k].mpn : k \in DOMAIN components} = parts
        /\ \A p \in parts : \E k \in Of(p) :
             /\ Of(p) = {k}
             /\ components[k].quantity =
                  Total([i \in DOMAIN rows |->
                           IF i \in RowsOf(p) THEN CellOf(i, "quantity").number ELSE 0])
             /\ Range(components[k].references) =
                  UNION {Range(CellOf(i, "reference_designators").parts) : i \in RowsOf(p)}
  BY Zenon DEF AsWritten, WrittenIn, columns
<1> HIDE DEF CellOf, rows, lines
<1>5. \A p : RowsOf(p) = {i \in DOMAIN lines : lines[i].mpn = p}
  BY <1>3
<1>6. parts = {lines[i].mpn : i \in DOMAIN lines}
  BY <1>3
<1>7. {components[k].mpn : k \in DOMAIN components} = parts
  <2>1. \A p : (\E k \in DOMAIN components : components[k].mpn = p)
               <=> \E i \in DOMAIN lines : lines[i].mpn = p
    BY DEF Sums, lines
  <2> HIDE DEF parts
  <2> QED BY <1>6, <2>1
<1>8. ASSUME NEW p \in parts
      PROVE  \E k \in Of(p) :
             /\ Of(p) = {k}
             /\ components[k].quantity =
                  Total([i \in DOMAIN rows |->
                           IF i \in RowsOf(p) THEN CellOf(i, "quantity").number ELSE 0])
             /\ Range(components[k].references) =
                  UNION {Range(CellOf(i, "reference_designators").parts) : i \in RowsOf(p)}
  <2>1. PICK k \in DOMAIN components : components[k].mpn = p
    BY <1>7
  <2>2. Of(p) = {k} /\ k \in Of(p)
    BY <2>1 DEF Sums
  <2>3. [i \in DOMAIN rows |-> IF i \in RowsOf(p) THEN CellOf(i, "quantity").number ELSE 0]
          = Quantities(lines, p)
    <3>1. \A i \in DOMAIN rows :
            (IF i \in RowsOf(p) THEN CellOf(i, "quantity").number ELSE 0)
              = IF lines[i].mpn = p THEN lines[i].quantity ELSE 0
      BY <1>3, <1>5
    <3> HIDE DEF RowsOf
    <3> QED BY <1>3, <3>1 DEF Quantities
  <2>4. components[k].quantity = Total(Quantities(lines, p))
    BY <2>1 DEF Sums, lines
  <2>5. Range(components[k].references) =
          UNION {Range(CellOf(i, "reference_designators").parts) : i \in RowsOf(p)}
    <3> DEFINE Refs(i) == Range(CellOf(i, "reference_designators").parts)
               all == UNION {Refs(i) : i \in RowsOf(p)}
               own == Range(components[k].references)
    <3>1. \A x : x \in own <=> \E i \in DOMAIN lines : lines[i].mpn = p /\ x \in Range(lines[i].references)
      BY <2>1 DEF Sums, lines
    <3>2. \A i \in RowsOf(p) : Refs(i) = Range(lines[i].references)
      BY <1>3
    <3>3. RowsOf(p) = {i \in DOMAIN lines : lines[i].mpn = p}
      BY <1>5
    <3> HIDE DEF RowsOf, Refs, own
    <3>4. \A x : x \in own <=> \E i \in RowsOf(p) : x \in Refs(i)
      BY <3>1, <3>2, <3>3
    <3>5. \A x : x \in all <=> \E i \in RowsOf(p) : x \in Refs(i)
      OBVIOUS
    <3>6. own = all
      <4> HIDE DEF all
      <4> QED BY <3>4, <3>5
    <3> QED BY <3>6 DEF own, Refs
  <2> HIDE DEF RowsOf, Of
  <2> QED BY <2>2, <2>3, <2>4, <2>5
<1> HIDE DEF parts, Of, RowsOf
<1> QED BY <1>4, <1>7, <1>8

-----------------------------------------------------------------------------
(* The latest BOM.                                                         *)

(* The components are those an accepted file says.                         *)
Faithful(components, f) == Accepted(f) /\ Sums(components, Lines(f))

(* Components with the same part numbers, quantities and references are as *)
(* faithful.                                                               *)
LEMMA FaithfulFields ==
  ASSUME NEW f, NEW c, Faithful(c, f), NEW d, DOMAIN d = DOMAIN c,
         \A k \in DOMAIN c : /\ d[k].mpn = c[k].mpn /\ d[k].quantity = c[k].quantity
                             /\ d[k].references = c[k].references
  PROVE  Faithful(d, f)
<1> DEFINE lines == Lines(f)
<1>1. Accepted(f) /\ Sums(c, lines)
  BY DEF Faithful
<1> HIDE DEF lines
<1>2. \A p : (\E k \in DOMAIN d : d[k].mpn = p) <=> \E i \in DOMAIN lines : lines[i].mpn = p
  <2>1. \A p : (\E k \in DOMAIN c : c[k].mpn = p) <=> \E i \in DOMAIN lines : lines[i].mpn = p
    BY <1>1 DEF Sums
  <2>2. \A p : (\E k \in DOMAIN d : d[k].mpn = p) <=> \E k \in DOMAIN c : c[k].mpn = p
    OBVIOUS
  <2> QED BY <2>1, <2>2
<1>3. \A k, l \in DOMAIN d : d[k].mpn = d[l].mpn => k = l
  BY <1>1 DEF Sums
<1>4. \A k \in DOMAIN d :
        /\ d[k].quantity = Total(Quantities(lines, d[k].mpn))
        /\ \A x : x \in Range(d[k].references) <=>
             \E i \in DOMAIN lines : lines[i].mpn = d[k].mpn /\ x \in Range(lines[i].references)
  BY <1>1 DEF Sums
<1>5. Sums(d, lines)
  BY <1>2, <1>3, <1>4 DEF Sums
<1> QED BY <1>1, <1>5 DEF Faithful, lines

(* What is stored and shown is what files say, and what an upload in       *)
(* progress holds is made of its file.                                     *)
RowsInv ==
  /\ stage \in {"structure", "merge"} => records = Parsed(file)
  /\ stage = "merge" => /\ records # <<>> /\ StructureErrors(ColumnsOf(file)) = {}
                        /\ read = Lines(file)
  /\ stage \in {"store", "answer"} /\ Storable(result) => Faithful(result.components, file)
  /\ \A i \in DOMAIN stored : Faithful(stored[i].components, stored[i].of)
  /\ shown.of # NoFile =>
       Faithful([k \in DOMAIN shown.components |-> shown.components[k].part], shown.of)

(* Nothing is stored or shown at first.                                    *)
LEMMA RowsInit == PipelineInit => RowsInv
<1> SUFFICES ASSUME PipelineInit PROVE RowsInv
  OBVIOUS
<1>1. stage = "idle" /\ stored = <<>> /\ shown.of = NoFile
  BY DEF PipelineInit, NotShown
<1> QED BY <1>1 DEF RowsInv

(* The rows of an accepted file are all merged, once none of them is       *)
(* invalid.                                                                *)
LEMMA MergedRows ==
  ASSUME UploadInv, RowsInv, MergeRows, Storable(result')
  PROVE  Faithful(result'.components, file)
<1> DEFINE wrong == {i \in DOMAIN read : ComponentErrors(read[i]) # {}}
           right == {i \in DOMAIN read : ComponentErrors(read[i]) = {}}
           n == Len(read)
<1>1. stage = "merge"
  BY DEF MergeRows
<1>2. /\ file \in Files /\ IsList(read) /\ records = Parsed(file) /\ records # <<>>
      /\ StructureErrors(ColumnsOf(file)) = {} /\ read = Lines(file)
  BY <1>1 DEF UploadInv, Counted, InProgress, RowsInv
<1>3. n \in Nat /\ DOMAIN read = 1..n /\ read = [i \in 1..n |-> read[i]]
  BY <1>2 DEF IsList
<1>4. wrong \in SUBSET (1..n)
  BY <1>3
<1>5. result'.invalid = Cardinality(wrong) /\ result'.components = Deduplicated(AtIndices(read, right))
  BY Zenon DEF MergeRows, Where
<1>6. Cardinality(wrong) = 0
  BY <1>5 DEF Storable
<1> HIDE DEF n
<1>7. wrong = {}
  <2> HIDE DEF wrong
  <2> QED BY <1>3, <1>4, <1>6, IndicesFinite, FS_EmptySet
<1>8. right = 1..n /\ \A i \in DOMAIN read : ComponentErrors(read[i]) = {}
  BY <1>3, <1>7
<1> HIDE DEF wrong, right
<1>9. AtIndices(read, right) = read
  BY <1>3, <1>8, AllPlaces
<1>10. Accepted(file)
  BY <1>2, <1>8 DEF Accepted
<1>11. Sums(Deduplicated(read), read)
  BY <1>2, <1>10, AcceptedRows, DeduplicatedSums
<1> QED BY <1>2, <1>5, <1>9, <1>10, <1>11 DEF Faithful

(* An answer changes nothing that is stored or shown.                      *)
LEMMA ReplyKeepsRows ==
  ASSUME RowsInv, NEW status, Fail(status)
  PROVE  RowsInv'
<1>1. stage' = "idle" /\ stored' = stored /\ shown' = shown
  BY DEF Fail, Reply, databaseVars
<1> QED BY <1>1 DEF RowsInv

(* So does leaving the directory.                                          *)
LEMMA LeaveKeepsRows ==
  ASSUME RowsInv, NEW status, Leave(status)
  PROVE  RowsInv'
  BY ReplyKeepsRows DEF Leave

(* Every step keeps RowsInv.                                               *)
LEMMA RowsStep ==
  ASSUME UploadInv, RowsInv, [PipelineNext]_pipelineVars
  PROVE  RowsInv'
<1>1. CASE Receive
  <2>1. stage' = "check" /\ stored' = stored /\ shown' = shown
    BY <1>1 DEF Receive, databaseVars
  <2> QED BY <2>1 DEF RowsInv
<1>2. CASE Refuse
  <2>1. \E status : Fail(status)
    <3>1. Fail(400) \/ Leave(413) \/ Leave(422) \/ Fail(500)
      BY <1>2 DEF Refuse
    <3> QED BY <3>1, ZenonT(20) DEF Leave
  <2>2. PICK status : Fail(status)
    BY <2>1, ZenonT(20)
  <2> QED BY <2>2, ReplyKeepsRows
<1>3. CASE Parse
  <2>1. CASE file.damaged
    BY <1>3, <2>1, ReplyKeepsRows DEF Parse
  <2>2. CASE ~file.damaged
    <3>1. /\ stage' = "structure" /\ records' = Parsed(file)
          /\ file' = file /\ stored' = stored /\ shown' = shown
      BY <1>3, <2>2 DEF Parse, databaseVars
    <3> QED BY <3>1 DEF RowsInv
  <2> QED BY <2>1, <2>2
<1>4. CASE CheckStructure
  <2>1. /\ stage = "structure" /\ file' = file /\ records' = records
        /\ stored' = stored /\ shown' = shown
    BY <1>4 DEF CheckStructure, databaseVars
  <2>2. records = Parsed(file)
    BY <2>1 DEF RowsInv
  <2>3. CASE StructureAccepted
    <3>1. /\ stage' = "merge"
          /\ read' = [i \in DOMAIN records |-> NormalComponent(records[i], Mapping(ColumnsOf(file)))]
      BY <1>4, <2>3 DEF CheckStructure
    <3>2. read' = Lines(file)
      BY <2>2, <3>1 DEF Lines
    <3>3. records # <<>> /\ StructureErrors(ColumnsOf(file)) = {}
      BY <2>3 DEF StructureAccepted
    <3> QED BY <2>1, <2>2, <3>1, <3>2, <3>3 DEF RowsInv
  <2>4. CASE ~StructureAccepted
    <3>1. stage' = "store" /\ result'.total = Len(records) /\ result'.invalid = Len(records)
      BY <1>4, <2>4 DEF CheckStructure, NoResult
    <3>2. ~Storable(result')
      BY <3>1 DEF Storable
    <3> QED BY <2>1, <3>1, <3>2 DEF RowsInv
  <2> QED BY <2>3, <2>4
<1>5. CASE MergeRows
  <2>1. stage' = "store" /\ file' = file /\ stored' = stored /\ shown' = shown
    BY <1>5 DEF MergeRows, databaseVars
  <2>2. Storable(result') => Faithful(result'.components, file)
    BY <1>5, MergedRows
  <2> QED BY <2>1, <2>2 DEF RowsInv
<1>6. CASE Store
  <2>1. CASE Fail(500)
    BY <2>1, ReplyKeepsRows
  <2>2. CASE ~Fail(500)
    <3>1. /\ stage = "store" /\ shown' = shown
          /\ \/ stage' = "idle"
             \/ stage' = "answer" /\ file' = file /\ result' = result
          /\ IF Storable(result) THEN stored' = Append(stored, Bom) ELSE stored' = stored
      BY <1>6, <2>2 DEF Store, Reply, databaseVars
    <3>2. IsList(stored)
      BY DEF UploadInv, Counted
    <3>3. Storable(result) => Faithful(result.components, file)
      BY <3>1 DEF RowsInv
    <3>4. CASE ~Storable(result)
      BY <3>1, <3>4 DEF RowsInv
    <3>5. CASE Storable(result)
      <4> DEFINE components == [i \in DOMAIN result.components |->
                                  [ mpn |-> result.components[i].mpn,
                                    quantity |-> result.components[i].quantity,
                                    references |-> result.components[i].references ]]
                 bom == Bom
      <4>1. bom.of = file /\ bom.components = components
        BY DEF Bom
      <4>2. Faithful(components, file)
        BY <3>3, <3>5, FaithfulFields
      <4> HIDE DEF components, bom
      <4>3. /\ IsList(Append(stored, bom)) /\ Len(Append(stored, bom)) = Len(stored) + 1
            /\ Append(stored, bom)[Len(stored) + 1] = bom
            /\ \A i \in 1..Len(stored) : Append(stored, bom)[i] = stored[i]
        BY <3>2, AppendList
      <4>4. stored' = Append(stored, bom)
        BY <3>1, <3>5 DEF bom
      <4>5. \A i \in DOMAIN stored' : Faithful(stored'[i].components, stored'[i].of)
        <5> SUFFICES ASSUME NEW i \in DOMAIN stored'
                     PROVE  Faithful(stored'[i].components, stored'[i].of)
          OBVIOUS
        <5>1. i \in 1..(Len(stored) + 1) /\ Len(stored) \in Nat /\ DOMAIN stored = 1..Len(stored)
          BY <3>2, <4>3, <4>4 DEF IsList
        <5>2. CASE i = Len(stored) + 1
          BY <4>1, <4>2, <4>3, <4>4, <5>2
        <5>3. CASE i # Len(stored) + 1
          <6>1. i \in 1..Len(stored)
            BY <5>1, <5>3
          <6>2. stored'[i] = stored[i]
            BY <4>3, <4>4, <6>1
          <6> QED BY <5>1, <6>1, <6>2 DEF RowsInv
        <5> QED BY <5>2, <5>3
      <4> QED BY <3>1, <3>3, <4>5 DEF RowsInv
    <3> QED BY <3>4, <3>5
  <2> QED BY <2>1, <2>2
<1>7. CASE Answer
  <2>1. PICK status : Leave(status)
    BY <1>7, ZenonT(20) DEF Answer
  <2> QED BY <2>1, LeaveKeepsRows
<1>8. CASE GetLatest
  <2> DEFINE bom == stored[Len(stored)]
             components == [i \in DOMAIN bom.components |->
                              [part |-> bom.components[i], texts |-> catalogue[bom.components[i].mpn]]]
             parts == [k \in DOMAIN shown'.components |-> shown'.components[k].part]
  <2>1. /\ UNCHANGED <<stage, file, records, read, result, stored>>
        /\ shown'.components = components /\ shown'.of = bom.of
    BY <1>8 DEF GetLatest
  <2>2. Len(stored) \in DOMAIN stored
    <3>1. IsList(stored) /\ stored # <<>>
      BY <1>8 DEF UploadInv, Counted, GetLatest
    <3> QED BY <3>1, ListRange DEF IsList
  <2>3. Faithful(bom.components, bom.of)
    BY <2>2 DEF RowsInv
  <2>4. DOMAIN parts = DOMAIN bom.components
        /\ \A k \in DOMAIN bom.components : parts[k] = bom.components[k]
    BY <2>1
  <2> HIDE DEF parts
  <2>5. Faithful(parts, bom.of)
    BY <2>3, <2>4, FaithfulFields
  <2> QED BY <2>1, <2>5 DEF RowsInv, parts
<1>9. CASE UNCHANGED pipelineVars
  BY <1>9 DEF pipelineVars, RowsInv
<1> QED BY <1>1, <1>2, <1>3, <1>4, <1>5, <1>6, <1>7, <1>8, <1>9 DEF PipelineNext

(* Whatever was uploaded, refused or lost before: the latest BOM has every *)
(* part its file names, once, with the sum of its quantities and all of    *)
(* its references, and nothing else.                                       *)
THEOREM LatestBomAsWritten == PipelineSpec => []LatestAsWritten
<1>1. PipelineInit => UploadInv /\ RowsInv
  BY UploadInit, RowsInit
<1>2. UploadInv /\ RowsInv /\ [PipelineNext]_pipelineVars => (UploadInv /\ RowsInv)'
  BY UploadStep, RowsStep
<1>3. RowsInv => LatestAsWritten
  <2> SUFFICES ASSUME RowsInv, shown.of # NoFile
               PROVE  AsWritten([k \in DOMAIN shown.components |-> shown.components[k].part], shown.of)
    BY DEF LatestAsWritten
  <2> DEFINE parts == [k \in DOMAIN shown.components |-> shown.components[k].part]
  <2>1. Faithful(parts, shown.of)
    BY DEF RowsInv
  <2> HIDE DEF parts
  <2>2. AsWritten(parts, shown.of)
    BY <2>1, SumsAsWritten DEF Faithful
  <2> QED BY <2>2 DEF parts
<1> QED BY <1>1, <1>2, <1>3, PTL DEF PipelineSpec

=============================================================================
