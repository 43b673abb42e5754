------------------------------ MODULE Pipeline ------------------------------
(***************************************************************************)
(* The upload of a BOM file (api/bom_routes.py) and the pipeline behind it *)
(* (ingestion/): parse, find the columns, read and check the rows, merge   *)
(* the lines of one part, store the BOM, answer; and the latest BOM read   *)
(* back.  Catalog has the same store statement by statement, beside        *)
(* others; here it is one step that succeeds or fails.                     *)
(*                                                                         *)
(* A header is known by the words it normalises to.  A cell is what        *)
(* stripping leaves of it (text, "" for a blank one), the whole number it  *)
(* reads as, if any, and its parts between separators.                     *)
(***************************************************************************)
EXTENDS Lists, SequencesExt

CONSTANTS
  Words,        \* the words of each header, in order
  ProductKeys, RevisionKeys,   \* the headers that name metadata
  Files,        \* the files that may be uploaded
  MaxUploads,   \* bound on the uploads of a behaviour
  Unreported

Headers == DOMAIN Words

(* A row has cells under headers of the file; what stands for a value that *)
(* is not reported is none of the values.                                  *)
ASSUME PipelineAssumption ==
  /\ \A h \in Headers : IsList(Words[h])
  /\ Unreported \notin Headers /\ Unreported \notin Int
  /\ ProductKeys \cup RevisionKeys \subseteq Headers
  /\ MaxUploads \in Nat
  /\ \A f \in Files :
       /\ IsList(f.headers) /\ IsList(f.rows)
       /\ \A i \in DOMAIN f.headers : f.headers[i] \in Headers
       /\ \A i \in DOMAIN f.rows : \A h \in DOMAIN f.rows[i] :
            /\ h \in Headers
            /\ f.rows[i][h].number \in Int \cup {Unreported}
            /\ IsList(f.rows[i][h].parts)

VARIABLES
  stage,      \* the next step of the upload in progress
  file,       \* its file
  records,    \* what the parser made of it
  read,       \* one entry per record: the component and its errors
  result,     \* the answer of the pipeline
  stored,     \* the BOMs in the database, with their ingestion records
  catalogue,  \* the components in it: the texts of each part number
  shown,      \* what GET /latest answered last
  answered,   \* the status of the last answer
  uploads     \* uploads so far

pipelineVars == <<stage, file, records, read, result, stored, catalogue, shown,
                  answered, uploads>>

-----------------------------------------------------------------------------
(* Columns.                                                                *)

Fields == << "mpn", "manufacturer", "description", "category", "package",
             "quantity", "reference_designators" >>
Texts == {"manufacturer", "description", "category", "package"}
Required == {"mpn", "quantity"}

Makers == {<<"manufacturer">>, <<"mfr">>, <<"mfg">>}

(* COLUMN_ALIASES, as normalize_column_name leaves them ("#" is "number"). *)
Aliases ==
  [ mpn |->
      { <<"mpn">>, <<"part">>, <<"part", "number", "number">>,
        <<"item", "code">>, <<"item", "number">>, <<"item", "no">> }
      \cup {m \o <<"part", w>> : m \in Makers \cup {<<>>}, w \in {"number", "no"}}
      \cup {m \o <<"p", "n">> : m \in Makers \ {<<"manufacturer">>}},
    manufacturer |-> Makers \cup {<<"maker">>, <<"brand">>, <<"vendor">>},
    description |->
      { <<"description">>, <<"desc">>, <<"part", "description">>,
        <<"component", "description">>, <<"item", "description">>, <<"component", "desc">> },
    category |->
      { <<"category">>, <<"component", "category">>, <<"part", "category">>,
        <<"component", "type">>, <<"part", "type">>, <<"type">> },
    package |->
      { <<"package">>, <<"package", "type">>, <<"package", "name">>, <<"case">>,
        <<"case", "style">>, <<"footprint">> },
    quantity |->
      { <<"quantity">>, <<"qty">>, <<"count">>, <<"required", "quantity">>,
        <<"required", "qty">>, <<"req", "qty">>, <<"number", "required">> },
    reference_designators |->
      { <<"reference">>, <<"references">>, <<"ref">>, <<"refdes">>, <<"ref", "des">>,
        <<"reference", "designator">>, <<"reference", "designators">>,
        <<"component", "reference">>, <<"component", "references">> } ]

(* The score of a header for a field, in sixths: 6 for an alias, else the  *)
(* largest share of the words of an alias that are in the header.          *)
Score(header, field) ==
  LET shares == { (6 * Cardinality(Range(a) \cap Range(Words[header]))) \div Cardinality(Range(a)) :
                  a \in Aliases[field] }
  IN IF Words[header] \in Aliases[field] THEN 6
     ELSE CHOOSE s \in shares : \A other \in shares : s >= other

Confident(score) == 2 * score >= 9        \* 0.75

(* Faulty: the first of two equal columns is good enough.                  *)
NeverAmbiguous(best, others) == FALSE

(* Two columns share the best score: the margin of 0.1 is less than one    *)
(* sixth.                                                                  *)
Ambiguous(best, others) == Confident(best) /\ \E s \in others : 10 * (best - s) < 6

(* What one field finds: the first best column that no earlier field uses, *)
(* if that is confident enough.                                            *)
Detect(columns, found, field) ==
  LET free == Where(columns, LAMBDA c : Score(c, field) > 0 /\ c \notin found.used)
      scores == [i \in DOMAIN free |-> Score(free[i], field)]
      top == CHOOSE i \in DOMAIN free :
               /\ \A j \in DOMAIN free : scores[j] <= scores[i]
               /\ \A j \in 1..(i - 1) : scores[j] < scores[i]
  IN IF free = <<>> \/ ~Confident(scores[top]) THEN found
     ELSE [ used |-> found.used \cup {free[top]},
            column |-> [found.column EXCEPT ![field] = free[top]],
            ambiguous |->
              IF Ambiguous(scores[top], {scores[j] : j \in DOMAIN free \ {top}})
              THEN found.ambiguous \cup {field} ELSE found.ambiguous ]

NothingDetected ==
  [used |-> {}, column |-> [f \in Range(Fields) |-> Unreported], ambiguous |-> {}]

(* detect_columns_with_confidence, one field after another.                *)
Detections(columns) ==
  LET after[n \in 0..Len(Fields)] ==
        IF n = 0 THEN NothingDetected ELSE Detect(columns, after[n - 1], Fields[n])
  IN after[Len(Fields)]

(* validate_bom_structure: the required fields without one such column.    *)
StructureErrors(columns) ==
  LET detected == Detections(columns)
  IN {f \in Required : detected.column[f] = Unreported \/ f \in detected.ambiguous}

(* detect_columns, which the rows are read with: exact aliases only, a     *)
(* header counts for the first field it is an alias of, and the last such  *)
(* header is taken.                                                        *)
Mapping(columns) ==
  LET FieldsOf(c) == {i \in DOMAIN Fields : Words[c] \in Aliases[Fields[i]]}
      Fits(c, i) == i \in FieldsOf(c) /\ \A j \in FieldsOf(c) : i <= j
      Chosen(i) == LET fitting == Where(columns, LAMBDA c : Fits(c, i))
                   IN IF fitting = <<>> THEN Unreported ELSE fitting[Len(fitting)]
  IN [f \in Range(Fields) |-> Chosen(CHOOSE i \in DOMAIN Fields : Fields[i] = f)]

-----------------------------------------------------------------------------
(* Records, rows and components.                                           *)

Empty == [text |-> "", number |-> Unreported, parts |-> <<>>]

(* The records of a file: XML keeps the elements that have a text, and the *)
(* components that have an element.  A record's keys are in the order of   *)
(* the file's headers.                                                     *)
Parsed(f) ==
  LET Stated(row) == {h \in DOMAIN row : row[h].text # ""}
      elements == [i \in DOMAIN f.rows |-> [h \in Stated(f.rows[i]) |-> f.rows[i][h]]]
  IN IF f.format = ".xml" THEN Where(elements, LAMBDA r : DOMAIN r # {}) ELSE f.rows

(* The columns of the file are those of its first record.                  *)
ColumnsOf(f) == Where(f.headers, LAMBDA h : h \in DOMAIN Parsed(f)[1])

(* The first value a record states under one of the keys.                  *)
Stated(keys) ==
  LET values == FlattenSeq([i \in DOMAIN records |->
        LET named == Where(file.headers, LAMBDA h :
              h \in keys \cap DOMAIN records[i] /\ records[i][h].text # "")
        IN [k \in DOMAIN named |-> records[i][named[k]].text]])
  IN IF values = <<>> THEN Unreported ELSE values[1]

FirstGiven(values) ==
  LET given == Where(values, LAMBDA v : v # Unreported)
  IN IF given = <<>> THEN Unreported ELSE given[1]

(* What the request says, else the records, else the name of the file.     *)
Metadata ==
  [ product |-> FirstGiven(<<file.product, Stated(ProductKeys), file.named.product>>),
    revision |-> FirstGiven(<<file.revision, Stated(RevisionKeys), file.named.revision>>) ]

TextOf(cell) == IF cell.text = "" THEN Unreported ELSE cell.text

NormalComponent(record, mapping) ==
  LET Value(f) == IF mapping[f] \in DOMAIN record THEN record[mapping[f]] ELSE Empty
  IN [ mpn |-> TextOf(Value("mpn")),
       quantity |-> Value("quantity").number,
       references |-> Value("reference_designators").parts,
       texts |-> [f \in Texts |-> TextOf(Value(f))] ]

(* The errors of a component; a missing manufacturer is only a warning.    *)
ComponentErrors(c) ==
  {f \in Required : \/ f = "mpn" /\ c.mpn = Unreported
                    \/ f = "quantity" /\ (c.quantity = Unreported \/ c.quantity < 1)}

(* Line d of the part of c: quantities add up, references are united, and  *)
(* what c leaves open is taken from d.                                     *)
Merge(c, d) ==
  LET new == {i \in DOMAIN d.references :
                /\ d.references[i] \notin Range(c.references)
                /\ \A j \in 1..(i - 1) : d.references[j] # d.references[i]}
  IN [ mpn |-> c.mpn, quantity |-> c.quantity + d.quantity,
       references |-> c.references \o AtIndices(d.references, new),
       texts |-> [f \in Texts |-> IF c.texts[f] = Unreported THEN d.texts[f] ELSE c.texts[f]] ]

Grouped(kept, d) ==
  IF \E i \in DOMAIN kept : kept[i].mpn = d.mpn
  THEN [i \in DOMAIN kept |-> IF kept[i].mpn = d.mpn THEN Merge(kept[i], d) ELSE kept[i]]
  ELSE Append(kept, d)

(* One component per part number, in the order they first appear.          *)
Deduplicated(components) ==
  LET after[n \in 0..Len(components)] ==
        IF n = 0 THEN <<>> ELSE Grouped(after[n - 1], components[n])
  IN after[Len(components)]

-----------------------------------------------------------------------------
(* The upload.                                                             *)

NoFile == [format |-> "none"]
NoResult == [total |-> 0, invalid |-> 0, components |-> <<>>]
NotShown == [components |-> <<>>, total |-> 0, of |-> NoFile]

PipelineInit ==
  /\ stage = "idle" /\ file = NoFile
  /\ records = <<>> /\ read = <<>> /\ result = NoResult
  /\ stored = <<>> /\ catalogue = <<>> /\ shown = NotShown
  /\ answered = 0 /\ uploads = 0

databaseVars == <<stored, catalogue, shown>>

Supported == {".csv", ".tsv", ".xlsx", ".xls", ".xml", ".json"}

Receive ==
  /\ stage = "idle" /\ uploads < MaxUploads
  /\ \E f \in Files : file' = f
  /\ stage' = "check" /\ uploads' = uploads + 1
  /\ UNCHANGED <<records, read, result, answered, databaseVars>>

(* The answer ends the upload; the temporary file and the result are gone. *)
Reply(status) ==
  /\ stage' = "idle" /\ answered' = status
  /\ file' = NoFile /\ records' = <<>> /\ read' = <<>> /\ result' = NoResult
  /\ UNCHANGED uploads

Fail(status) == Reply(status) /\ UNCHANGED databaseVars

(* The temporary directory is left, with an answer or an error; when its   *)
(* clean-up fails, the answer is another.                                  *)
Leave(status) == Fail(status) \/ Fail(500)

(* The checks of upload_bom, in their order; the copy may fail.            *)
Refuse ==
  /\ stage = "check"
  /\ \/ (~file.named.given \/ file.format \notin Supported) /\ Fail(400)
     \/ file.named.given /\ file.format \in Supported
        /\ \/ file.size = "too large" /\ Leave(413)
           \/ file.size = "empty" /\ Leave(422)
           \/ Fail(500)

Parse ==
  /\ stage = "check" /\ file.named.given /\ file.format \in Supported /\ file.size = "fits"
  /\ IF file.damaged THEN Fail(500)
     ELSE /\ records' = Parsed(file) /\ stage' = "structure"
          /\ UNCHANGED <<file, read, result, answered, uploads, databaseVars>>

StructureAccepted == records # <<>> /\ StructureErrors(ColumnsOf(file)) = {}

(* No record, or no column for a required field: every row is invalid.     *)
CheckStructure ==
  /\ stage = "structure"
  /\ IF StructureAccepted
     THEN /\ read' = [i \in DOMAIN records |->
                        NormalComponent(records[i], Mapping(ColumnsOf(file)))]
          /\ stage' = "merge" /\ result' = result
     ELSE /\ result' = [NoResult EXCEPT !.total = Len(records), !.invalid = Len(records)]
          /\ stage' = "store" /\ read' = read
  /\ UNCHANGED <<file, records, answered, uploads, databaseVars>>

MergeRows ==
  /\ stage = "merge"
  /\ result' = [ total |-> Len(records),
                 invalid |-> Cardinality({i \in DOMAIN read : ComponentErrors(read[i]) # {}}),
                 components |->
                   Deduplicated(Where(read, LAMBDA c : ComponentErrors(c) = {})) ]
  /\ stage' = "store"
  /\ UNCHANGED <<file, records, read, answered, uploads, databaseVars>>

(* Faulty: only a BOM without a valid row is kept out.                     *)
StorableUnlessFullyInvalid(r) == r.total > 0 /\ r.invalid < r.total

(* An empty BOM, and one with an invalid row, is not stored.               *)
Storable(r) == r.total > 0 /\ r.invalid = 0

(* The BOM and the record of its ingestion, which counts its components.   *)
Bom == [ components |-> [i \in DOMAIN result.components |->
                           [ mpn |-> result.components[i].mpn,
                             quantity |-> result.components[i].quantity,
                             references |-> result.components[i].references ]],
         metadata |-> Metadata, rowCount |-> Len(result.components), of |-> file,
         upload |-> uploads ]

(* A part number that is known keeps the component it has.                 *)
WithComponents ==
  LET new == {i \in DOMAIN result.components : result.components[i].mpn \notin DOMAIN catalogue}
      of(p) == CHOOSE i \in new : result.components[i].mpn = p
  IN [p \in DOMAIN catalogue \cup {result.components[i].mpn : i \in new} |->
        IF p \in DOMAIN catalogue THEN catalogue[p] ELSE result.components[of(p)].texts]

(* The transaction fails, or the BOM is stored and the result handed back, *)
(* unless the answer to the commit is lost.                                *)
Store ==
  /\ stage = "store"
  /\ \/ Storable(result) /\ Fail(500)
     \/ /\ Storable(result)
        /\ stored' = Append(stored, Bom) /\ catalogue' = WithComponents /\ UNCHANGED shown
        /\ \/ Reply(500)
           \/ /\ stage' = "answer"
              /\ UNCHANGED <<file, records, read, result, answered, uploads>>
     \/ /\ ~Storable(result)
        /\ stage' = "answer"
        /\ UNCHANGED <<file, records, read, result, answered, uploads, databaseVars>>

Answer ==
  /\ stage = "answer"
  /\ Leave(IF result.total = 0 \/ result.invalid > 0 THEN 422 ELSE 200)

(* get_latest_bom: the newest BOM with its components as the catalogue has *)
(* them.  References were joined by commas, which are in none of them, and *)
(* are split again.                                                        *)
GetLatest ==
  /\ stored # <<>>
  /\ LET bom == stored[Len(stored)]
     IN shown' = [ components |-> [i \in DOMAIN bom.components |->
                     [part |-> bom.components[i], texts |-> catalogue[bom.components[i].mpn]]],
                   total |-> bom.rowCount, of |-> bom.of ]
  /\ UNCHANGED <<stage, file, records, read, result, stored, catalogue, answered, uploads>>

PipelineNext ==
  \/ Receive \/ Refuse \/ Parse \/ CheckStructure \/ MergeRows \/ Store \/ Answer
  \/ GetLatest

PipelineSpec == PipelineInit /\ [][PipelineNext]_pipelineVars

-----------------------------------------------------------------------------
(* The columns a file is to be read in: for the required fields those the  *)
(* structure check was confident about, for the others the last that names *)
(* them.                                                                   *)
ColumnsToRead(f) ==
  LET detected == Detections(ColumnsOf(f))
      mapping == Mapping(ColumnsOf(f))
  IN [g \in Range(Fields) |-> IF g \in Required THEN detected.column[g] ELSE mapping[g]]

(* Components are what rows say in these columns: of every part the sum of *)
(* the quantities and all the references of its rows, and nothing else.    *)
WrittenIn(components, rows, columns) ==
  LET CellOf(i, field) == IF columns[field] \in DOMAIN rows[i] THEN rows[i][columns[field]] ELSE Empty
      RowsOf(p) == {i \in DOMAIN rows : CellOf(i, "mpn").text = p}
      parts == {CellOf(i, "mpn").text : i \in DOMAIN rows}
      Of(p) == {k \in DOMAIN components : components[k].mpn = p}
  IN /\ {components[k].mpn : k \in DOMAIN components} = parts
     /\ \A p \in parts : \E k \in Of(p) :
          /\ Of(p) = {k}
          /\ components[k].quantity =
               Total([i \in DOMAIN rows |->
                        IF i \in RowsOf(p) THEN CellOf(i, "quantity").number ELSE 0])
          /\ Range(components[k].references) =
               UNION {Range(CellOf(i, "reference_designators").parts) : i \in RowsOf(p)}

AsWritten(components, f) == WrittenIn(components, Parsed(f), ColumnsToRead(f))

(* The latest BOM, shown long after its upload, is what its file says. The *)
(* columns (those of the first record) are found twice, by different       *)
(* rules, and the rows are merged before the store.                        *)
LatestAsWritten ==
  shown.of # NoFile =>
    AsWritten([k \in DOMAIN shown.components |-> shown.components[k].part], shown.of)

(* The documented behaviour (deduplicator.py): references of the rows of a *)
(* part are combined.  Columns come from the first record alone, so what a *)
(* later row of the part states under another key is never read.           *)
ReferencesCombined ==
  LET rows == shown.of.rows
      Under(i, field) == {h \in DOMAIN rows[i] : Words[h] \in Aliases[field]}
      RowsOf(p) == {i \in DOMAIN rows : \E h \in Under(i, "mpn") : rows[i][h].text = p}
      StatedIn(i) == UNION {Range(rows[i][h].parts) : h \in Under(i, "reference_designators")}
  IN shown.of # NoFile =>
       \A k \in DOMAIN shown.components :
         LET part == shown.components[k].part
         IN \A i \in RowsOf(part.mpn) : StatedIn(i) \subseteq Range(part.references)

(* What the answer of an upload tells of the database: a success that it   *)
(* holds the BOM, once; a refusal that it does not.  A 500 tells neither,  *)
(* because a commit may have taken effect before its answer is lost or the *)
(* clean-up fails, but then the BOM, too, is there once, and of a file     *)
(* without an invalid row.                                                 *)
AnswerTellsStored ==
  [][ stage' = "idle" /\ stage # "idle" =>
        LET own == Cardinality({i \in DOMAIN stored' : stored'[i].upload = uploads})
        IN /\ answered' = 200 => own = 1
           /\ answered' \in {400, 413, 422} => own = 0
           /\ own <= 1
           /\ own = 1 => result.total > 0 /\ result.invalid = 0 ]_pipelineVars

=============================================================================
