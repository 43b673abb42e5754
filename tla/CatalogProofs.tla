---------------------------- MODULE CatalogProofs ----------------------------
(***************************************************************************)
(* Proofs about Catalog, for every set of uploads and enrichments, every   *)
(* BOM and every initial catalogue.                                        *)
(***************************************************************************)
EXTENDS Catalog, SequenceTheorems, TLAPS

-----------------------------------------------------------------------------
(* The inductive invariant.                                                *)

Typed ==
  /\ CatalogTypeOK
  /\ DOMAIN pc = Sessions /\ DOMAIN pending = Sessions
  /\ DOMAIN draft = Uploads /\ DOMAIN found = Uploads
  /\ DOMAIN loaded = Enrichments /\ DOMAIN answer = Enrichments
  /\ \A e \in Enrichments : pc[e] \in {"save", "rename"} => answer[e] \in Answers

Holding(e) == pc[e] \in {"ask", "save", "rename", "commit"}

(* A row is written by one open transaction at a time: a component that an *)
(* upload created is invisible to the others, and one that is enriched is  *)
(* committed and locked.                                                   *)
RowsHeld ==
  /\ DOMAIN Seeded \subseteq DOMAIN catalog
  /\ \A id \in DOMAIN catalog : id < nextId /\ <<id, catalog[id].mpn>> \in aliases
  /\ \A s \in Sessions : \A id \in DOMAIN pending[s] :
       id < nextId /\ \A t \in Sessions \ {s} : id \notin DOMAIN pending[t]
  /\ \A s \in Sessions : pc[s] \in {"idle", "done", "failed"} => DOMAIN pending[s] = {}
  /\ \A u \in Uploads : \A id \in DOMAIN pending[u] : id \notin DOMAIN catalog
  /\ \A e \in Enrichments :
       /\ pc[e] = "mark" => DOMAIN pending[e] = {} /\ TargetOf(e) \in DOMAIN catalog
       /\ Holding(e) => DOMAIN pending[e] = {TargetOf(e)} /\ TargetOf(e) \in DOMAIN catalog

(* A name that is committed or written and not committed belongs to one    *)
(* component.                                                              *)
NamesHeld ==
  /\ OneComponentPerName
  /\ \A s \in Sessions : \A i \in DOMAIN pending[s] :
       /\ \A k \in DOMAIN catalog : catalog[k].mpn = pending[s][i].mpn => k = i
       /\ \A t \in Sessions : \A j \in DOMAIN pending[t] :
            pending[t][j].mpn = pending[s][i].mpn => j = i

(* The component id stands for the line: it was created for it, or has     *)
(* carried its part number.                                                *)
Resolves(u, id, line) ==
  IF id \in DOMAIN pending[u] THEN pending[u][id].mpn = line
  ELSE id \in DOMAIN catalog /\ <<id, line>> \in aliases

(* What an open upload has attached so far.                                *)
DraftOf(u) ==
  /\ pc[u] \in {"lookup", "insert", "attach"} => Len(draft[u]) < Len(Lines[u])
  /\ pc[u] = "commit" => Len(draft[u]) = Len(Lines[u])
  /\ pc[u] = "idle" => Len(draft[u]) = 0
  /\ \A i \in DOMAIN draft[u] : i <= Len(Lines[u]) /\ Resolves(u, draft[u][i], Lines[u][i])
  /\ \A i, j \in DOMAIN draft[u] : draft[u][i] = draft[u][j] => i = j
  /\ pc[u] = "attach" => Resolves(u, found[u], LineOf(u)) /\ found[u] \in Ids
  /\ \A id \in DOMAIN pending[u] :
       \/ \E i \in DOMAIN draft[u] : draft[u][i] = id
       \/ pc[u] = "attach" /\ id = found[u]

DraftHeld == \A u \in Uploads : DraftOf(u)

(* Until it learns something, an enrichment holds the identity committed.  *)
IdentityKept ==
  \A e \in Enrichments :
    Holding(e) /\ (pc[e] = "commit" => pending[e][TargetOf(e)].status \in {"FAILED", "NOT_FOUND"}) =>
      /\ pending[e][TargetOf(e)].mpn = catalog[TargetOf(e)].mpn
      /\ pending[e][TargetOf(e)].normalized = catalog[TargetOf(e)].normalized

CatalogInv ==
  Typed /\ RowsHeld /\ NamesHeld /\ DraftHeld /\ IdentityKept /\ UploadAtomic /\ LinesResolved

-----------------------------------------------------------------------------

(* The seeded catalogue, before any session.                               *)
LEMMA InitInv == CatalogInit => CatalogInv
<1> SUFFICES ASSUME CatalogInit PROVE CatalogInv
  OBVIOUS
<1>1. /\ Seeded \in Seq(Names) /\ DOMAIN Seeded = 1..Len(Seeded) /\ Len(Seeded) \in Nat
      /\ \A i \in DOMAIN Seeded : Seeded[i] \in Names
      /\ MaxComponents \in Nat /\ Len(Seeded) <= MaxComponents
  <2>1. Seeded \in Seq(Names) /\ MaxComponents \in Nat /\ Len(Seeded) <= MaxComponents
    BY CatalogAssumption
  <2> QED
    BY <2>1, LenProperties, ElementOfSeq
<1>2. /\ DOMAIN catalog = DOMAIN Seeded
      /\ \A i \in DOMAIN catalog : catalog[i] = Fresh(Seeded[i]) /\ Seeded[i] \in Names
      /\ \A i \in DOMAIN catalog : i \in Ids /\ i < nextId
      /\ nextId \in 1..(MaxComponents + 1)
      /\ aliases \subseteq Ids \X Names
  BY <1>1 DEF CatalogInit, Ids
<1>3. DOMAIN NoRows = {} /\ NoRows \in Seq(Ids) /\ Len(NoRows) = 0
  BY EmptySeq, LenProperties DEF NoRows
<1>4. \A i \in DOMAIN catalog : catalog[i] \in Row
  BY <1>2 DEF Fresh, Row, Statuses
<1>5. Typed
  <2>1. CatalogTypeOK
    BY <1>2, <1>3, <1>4
    DEF CatalogInit, CatalogTypeOK, Sessions, UploadStages, EnrichmentStages, NoRows
  <2> QED
    BY <2>1 DEF CatalogInit, Typed, Sessions
<1>6. RowsHeld
  BY <1>2, <1>3 DEF CatalogInit, RowsHeld, Sessions, Fresh, Holding
<1>7. NamesHeld
  BY <1>2, <1>3, CatalogAssumption DEF CatalogInit, NamesHeld, OneComponentPerName, Fresh, Distinct
<1>8. DraftHeld
  BY <1>3 DEF CatalogInit, DraftHeld, DraftOf, Sessions, NoRows
<1>9. IdentityKept
  BY DEF CatalogInit, IdentityKept, Holding, Sessions
<1>10. UploadAtomic /\ LinesResolved
  BY <1>2 DEF CatalogInit, UploadAtomic, LinesResolved, Sessions
<1> QED
  BY <1>5, <1>6, <1>7, <1>8, <1>9, <1>10 DEF CatalogInv

(* A session rolled back takes with it what it wrote and attached.         *)
LEMMA RollBackInv ==
  ASSUME CatalogInv, NEW s \in Sessions, RollBack(s), pc[s] # "idle", ~Ended(s)
  PROVE  CatalogInv'
<1>1. /\ \A t \in Sessions : pc'[t] = IF t = s THEN "failed" ELSE pc[t]
      /\ \A t \in Sessions : pending'[t] = IF t = s THEN NoRows ELSE pending[t]
      /\ \A u \in Uploads : draft'[u] = IF u = s THEN <<>> ELSE draft[u]
      /\ \A u \in Uploads : found'[u] = IF u = s THEN 0 ELSE found[u]
      /\ DOMAIN pc' = Sessions /\ DOMAIN pending' = Sessions /\ DOMAIN draft' = Uploads
      /\ DOMAIN found' = Uploads
      /\ UNCHANGED <<catalog, boms, aliases, nextId, loaded, answer>>
  BY DEF RollBack, Release, CatalogInv, Typed
<1>2. DOMAIN NoRows = {} /\ NoRows = <<>> /\ NoRows \in Seq(Ids) /\ Len(NoRows) = 0
  BY EmptySeq, LenProperties DEF NoRows
<1>3. \A t \in Sessions : /\ t = s => DOMAIN pending'[t] = {}
                          /\ t # s => pending'[t] = pending[t] /\ pc'[t] = pc[t]
  BY <1>1, <1>2
<1>4. \A u \in Uploads : /\ u \in Sessions
                         /\ u # s => draft'[u] = draft[u] /\ found'[u] = found[u]
                         /\ u = s => DOMAIN draft'[u] = {} /\ Len(draft'[u]) = 0 /\ pc'[u] = "failed"
  BY <1>1, <1>2 DEF Sessions
<1>5. Typed'
  BY <1>1, <1>2 DEF Typed, CatalogTypeOK, Sessions, UploadStages, EnrichmentStages, CatalogInv
<1>6. RowsHeld'
  BY <1>1, <1>2 DEF RowsHeld, Sessions, Holding, TargetOf, CatalogInv
<1>7. NamesHeld'
  BY <1>1, <1>3 DEF NamesHeld, OneComponentPerName, CatalogInv
<1>8. DraftHeld'
  <2> SUFFICES ASSUME NEW u \in Uploads PROVE DraftOf(u)'
    BY DEF DraftHeld
  <2>1. DraftOf(u)
    BY DEF DraftHeld, CatalogInv
  <2>2. CASE u = s
    BY <1>3, <1>4, <2>2 DEF DraftOf
  <2>3. CASE u # s
    BY SMTT(30), <1>1, <1>3, <1>4, <2>1, <2>3 DEF DraftOf, Resolves, LineOf
  <2> QED
    BY <2>2, <2>3
<1>9. IdentityKept'
  BY <1>1 DEF IdentityKept, Holding, Sessions, TargetOf, CatalogInv
<1>10. UploadAtomic'
  BY <1>1, <1>4 DEF UploadAtomic, CatalogInv, Ended
<1>11. LinesResolved'
  BY <1>1 DEF LinesResolved, CatalogInv
<1> QED
  BY <1>5, <1>6, <1>7, <1>8, <1>9, <1>10, <1>11 DEF CatalogInv

(* The statements that write no row.                                       *)
Quiet(s, stage) ==
  /\ pc' = [pc EXCEPT ![s] = stage]
  /\ UNCHANGED <<catalog, boms, nextId, pending, draft, aliases>>

(* What a statement that writes no row leaves as it was.                   *)
LEMMA QuietFrame ==
  ASSUME CatalogInv, NEW s \in Sessions, NEW stage, Quiet(s, stage),
         ~Ended(s), stage \notin {"idle", "done", "failed"}
  PROVE  /\ \A t \in Sessions : pc'[t] = IF t = s THEN stage ELSE pc[t]
         /\ DOMAIN pc' = Sessions
         /\ NamesHeld' /\ UploadAtomic' /\ LinesResolved'
<1>1. /\ \A t \in Sessions : pc'[t] = IF t = s THEN stage ELSE pc[t]
      /\ DOMAIN pc' = Sessions
  BY DEF Quiet, CatalogInv, Typed
<1>2. NamesHeld'
  BY DEF Quiet, NamesHeld, OneComponentPerName, CatalogInv
<1>3. UploadAtomic'
  BY <1>1 DEF Quiet, UploadAtomic, CatalogInv, Ended, Sessions
<1>4. LinesResolved'
  BY DEF Quiet, LinesResolved, CatalogInv
<1> QED
  BY <1>1, <1>2, <1>3, <1>4

(* An upload begins with nothing written.                                  *)
LEMMA BeginInv ==
  ASSUME CatalogInv, NEW u \in Uploads, Begin(u)
  PROVE  CatalogInv'
<1> u \in Sessions /\ u \notin Enrichments
  BY CatalogAssumption DEF Sessions
<1>1. Quiet(u, "lookup") /\ pc[u] = "idle" /\ UNCHANGED <<found, loaded, answer>>
  BY DEF Begin, Quiet
<1>2. /\ \A t \in Sessions : pc'[t] = IF t = u THEN "lookup" ELSE pc[t]
      /\ DOMAIN pc' = Sessions
      /\ NamesHeld' /\ UploadAtomic' /\ LinesResolved'
  BY <1>1, QuietFrame DEF Ended
<1>3. Typed'
  BY <1>1, <1>2 DEF Typed, CatalogTypeOK, Quiet, Sessions, UploadStages, CatalogInv
<1>4. RowsHeld'
  BY <1>1, <1>2 DEF RowsHeld, Quiet, Sessions, Holding, TargetOf, CatalogInv
<1>5. DraftHeld'
  <2> SUFFICES ASSUME NEW v \in Uploads PROVE DraftOf(v)'
    BY DEF DraftHeld
  <2>1. DraftOf(v) /\ Lines[v] \in Seq(Names) /\ Lines[v] # <<>>
    BY CatalogAssumption DEF DraftHeld, CatalogInv
  <2>2. Len(Lines[v]) \in Nat \ {0}
    BY <2>1, EmptySeq, LenProperties
  <2> QED
    BY <1>1, <1>2, <2>1, <2>2 DEF DraftOf, Resolves, LineOf, Quiet, Sessions
<1>6. IdentityKept'
  BY <1>1, <1>2 DEF IdentityKept, Quiet, Holding, Sessions, TargetOf, CatalogInv
<1> QED
  BY <1>2, <1>3, <1>4, <1>5, <1>6 DEF CatalogInv

(* A component found by its name carries it, and so stands for the line.   *)
LEMMA LookUpInv ==
  ASSUME CatalogInv, NEW u \in Uploads, LookUp(u)
  PROVE  CatalogInv'
<1> u \in Sessions /\ u \notin Enrichments
  BY CatalogAssumption DEF Sessions
<1>1. PICK stage \in {"attach", "insert"} :
        /\ Quiet(u, stage) /\ pc[u] = "lookup" /\ UNCHANGED <<loaded, answer>>
        /\ stage = "insert" => UNCHANGED found
        /\ stage = "attach" => \E id \in DOMAIN catalog :
             catalog[id].mpn = LineOf(u) /\ found' = [found EXCEPT ![u] = id]
  BY DEF LookUp, Quiet
<1>2. /\ \A t \in Sessions : pc'[t] = IF t = u THEN stage ELSE pc[t]
      /\ DOMAIN pc' = Sessions
      /\ NamesHeld' /\ UploadAtomic' /\ LinesResolved'
  BY <1>1, QuietFrame DEF Ended
<1>3. /\ DOMAIN found' = Uploads
      /\ \A v \in Uploads \ {u} : found'[v] = found[v]
      /\ \/ found'[u] = found[u] /\ stage = "insert"
         \/ /\ found'[u] \in DOMAIN catalog /\ catalog[found'[u]].mpn = LineOf(u)
            /\ found'[u] \in Ids
  BY <1>1 DEF Typed, CatalogTypeOK, CatalogInv
<1>4. Typed'
  BY <1>1, <1>2, <1>3 DEF Typed, CatalogTypeOK, Quiet, Sessions, UploadStages, CatalogInv
<1>5. RowsHeld'
  BY <1>1, <1>2 DEF RowsHeld, Quiet, Sessions, Holding, TargetOf, CatalogInv
<1>6. DraftHeld'
  <2> SUFFICES ASSUME NEW v \in Uploads PROVE DraftOf(v)'
    BY DEF DraftHeld
  <2>1. DraftOf(v) /\ v \in Sessions
    BY DEF DraftHeld, CatalogInv, Sessions
  <2>2. CASE v # u
    BY <1>1, <1>2, <1>3, <2>1, <2>2 DEF DraftOf, Resolves, LineOf, Quiet
  <2>3. CASE v = u
    <3>1. stage = "attach" => Resolves(u, found[u], LineOf(u))' /\ found'[u] \in Ids
      BY <1>1, <1>3 DEF Resolves, RowsHeld, CatalogInv, LineOf, Quiet
    <3>2. /\ pc'[u] = stage /\ pc[u] = "lookup" /\ draft' = draft /\ pending' = pending
          /\ catalog' = catalog /\ aliases' = aliases
      BY <1>1, <1>2 DEF Quiet
    <3> QED
      BY <2>1, <2>3, <3>1, <3>2 DEF DraftOf, Resolves
  <2> QED
    BY <2>2, <2>3
<1>7. IdentityKept'
  BY <1>1, <1>2 DEF IdentityKept, Quiet, Holding, Sessions, TargetOf, CatalogInv
<1> QED
  BY <1>2, <1>4, <1>5, <1>6, <1>7 DEF CatalogInv

(* The quiet statements of an enrichment leave every upload alone.         *)
LEMMA QuietEnrichment ==
  ASSUME CatalogInv, NEW e \in Enrichments, NEW stage, Quiet(e, stage),
         UNCHANGED found
  PROVE  DraftHeld'
<1>1. e \in Sessions /\ e \notin Uploads
  BY CatalogAssumption DEF Sessions
<1>2. \A u \in Uploads : pc'[u] = pc[u]
  BY <1>1 DEF Quiet, CatalogInv, Typed, Sessions
<1> QED
  BY <1>2 DEF DraftHeld, DraftOf, Resolves, LineOf, Quiet, CatalogInv

(* An enrichment remembers the row it loads.                               *)
LEMMA LoadInv ==
  ASSUME CatalogInv, NEW e \in Enrichments, Load(e)
  PROVE  CatalogInv'
<1> e \in Sessions /\ e \notin Uploads
  BY CatalogAssumption DEF Sessions
<1>1. Quiet(e, "mark") /\ pc[e] = "idle" /\ UNCHANGED <<found, answer>>
  BY DEF Load, Quiet
<1>2. /\ \A t \in Sessions : pc'[t] = IF t = e THEN "mark" ELSE pc[t]
      /\ DOMAIN pc' = Sessions
      /\ NamesHeld' /\ UploadAtomic' /\ LinesResolved'
  BY <1>1, QuietFrame DEF Ended
<1>3. /\ DOMAIN loaded' = Enrichments
      /\ \A f \in Enrichments \ {e} : loaded'[f] = loaded[f]
      /\ TargetOf(e)' \in DOMAIN catalog
  BY DEF Load, Typed, CatalogInv, TargetOf
<1>4. Typed'
  BY <1>1, <1>2, <1>3 DEF Typed, CatalogTypeOK, Quiet, Sessions, EnrichmentStages, CatalogInv
<1>5. RowsHeld'
  BY <1>1, <1>2, <1>3 DEF RowsHeld, Quiet, Sessions, Holding, TargetOf, CatalogInv
<1>6. DraftHeld'
  BY <1>1, QuietEnrichment
<1>7. IdentityKept'
  BY <1>1, <1>2, <1>3 DEF IdentityKept, Quiet, Holding, Sessions, TargetOf, CatalogInv
<1> QED
  BY <1>2, <1>4, <1>5, <1>6, <1>7 DEF CatalogInv

(* While an enrichment asks the providers, and while it waits for a name,  *)
(* it keeps the row it has written.                                        *)
LEMMA AskOrLockInv ==
  ASSUME CatalogInv, NEW e \in Enrichments, Ask(e) \/ LockForRename(e)
  PROVE  CatalogInv'
<1> e \in Sessions /\ e \notin Uploads
  BY CatalogAssumption DEF Sessions
<1>1. PICK stage \in {"save", "rename"} :
        /\ Quiet(e, stage) /\ UNCHANGED <<found, loaded>>
        /\ pc[e] = IF stage = "save" THEN "ask" ELSE "save"
        /\ DOMAIN answer' = Enrichments
        /\ \A f \in Enrichments \ {e} : answer'[f] = answer[f]
        /\ answer'[e] \in Answers
  BY DEF Ask, LockForRename, Quiet, CatalogInv, Typed
<1>2. /\ \A t \in Sessions : pc'[t] = IF t = e THEN stage ELSE pc[t]
      /\ DOMAIN pc' = Sessions
      /\ NamesHeld' /\ UploadAtomic' /\ LinesResolved'
  BY <1>1, QuietFrame DEF Ended
<1>3. Typed'
  BY <1>1, <1>2 DEF Typed, CatalogTypeOK, Quiet, Sessions, EnrichmentStages, CatalogInv
<1>4. RowsHeld'
  BY <1>1, <1>2 DEF RowsHeld, Quiet, Sessions, Holding, TargetOf, CatalogInv
<1>5. DraftHeld'
  BY <1>1, QuietEnrichment
<1>6. IdentityKept'
  BY <1>1, <1>2 DEF IdentityKept, Quiet, Holding, Sessions, TargetOf, CatalogInv
<1> QED
  BY <1>2, <1>3, <1>4, <1>5, <1>6 DEF CatalogInv

(* The next line of an upload in progress is one of its part numbers, and  *)
(* is none of the earlier ones.                                            *)
LEMMA NextLine ==
  ASSUME Typed, NEW u \in Uploads, Len(draft[u]) < Len(Lines[u])
  PROVE  /\ LineOf(u) \in Names
         /\ Len(draft[u]) \in Nat /\ DOMAIN draft[u] = 1..Len(draft[u])
         /\ Len(draft[u]) + 1 \in DOMAIN Lines[u]
         /\ Len(draft[u]) + 1 \in Nat
         /\ \A i \in DOMAIN draft[u] : i # Len(draft[u]) + 1 /\ Lines[u][i] # LineOf(u)
<1>1. Lines[u] \in Seq(Names) /\ Distinct(Lines[u])
  BY CatalogAssumption
<1>2. draft[u] \in Seq(Ids)
  BY DEF Typed, CatalogTypeOK
<1>3. /\ Len(draft[u]) \in Nat /\ DOMAIN draft[u] = 1..Len(draft[u])
      /\ Len(Lines[u]) \in Nat /\ DOMAIN Lines[u] = 1..Len(Lines[u])
  BY <1>1, <1>2, LenProperties
<1>4. Len(draft[u]) + 1 \in 1..Len(Lines[u])
  BY <1>3
<1>5. LineOf(u) \in Names
  BY <1>1, <1>4, ElementOfSeq DEF LineOf
<1>6. \A i \in DOMAIN draft[u] : i \in DOMAIN Lines[u] /\ i # Len(draft[u]) + 1
  BY <1>3
<1> QED
  BY <1>1, <1>3, <1>4, <1>5, <1>6 DEF Distinct, LineOf

(* A component created for a line has a new id, and a name that nobody     *)
(* else has or is about to have.                                           *)
LEMMA InsertInv ==
  ASSUME CatalogInv, NEW u \in Uploads, Insert(u)
  PROVE  CatalogInv'
<1> u \in Sessions /\ u \notin Enrichments
  BY CatalogAssumption DEF Sessions
<1>1. /\ \A t \in Sessions : pc'[t] = IF t = u THEN "attach" ELSE pc[t]
      /\ DOMAIN pc' = Sessions /\ pc[u] = "insert"
      /\ UNCHANGED <<catalog, boms, draft, loaded, answer, aliases>>
  BY DEF Insert, CatalogInv, Typed
<1>2. /\ DOMAIN found' = Uploads /\ found'[u] = nextId
      /\ \A v \in Uploads \ {u} : found'[v] = found[v]
      /\ nextId \in Ids /\ nextId \in Nat /\ nextId' = nextId + 1
      /\ nextId' \in 1..(MaxComponents + 1)
  <2>1. MaxComponents \in Nat
    BY CatalogAssumption
  <2>2. nextId \in Ids /\ nextId' = nextId + 1 /\ found' = [found EXCEPT ![u] = nextId]
    BY DEF Insert
  <2> QED
    BY <2>1, <2>2 DEF CatalogInv, Typed, Ids
<1>3. /\ DOMAIN pending' = Sessions
      /\ DOMAIN pending'[u] = DOMAIN pending[u] \cup {nextId}
      /\ pending'[u][nextId] = Fresh(LineOf(u))
      /\ \A id \in DOMAIN pending[u] \ {nextId} : pending'[u][id] = pending[u][id]
      /\ \A t \in Sessions \ {u} : pending'[t] = pending[t]
  <2>1. pending' = [pending EXCEPT ![u] = WithRow(pending[u], nextId, Fresh(LineOf(u)))]
    BY DEF Insert
  <2>2. /\ DOMAIN pending' = Sessions
        /\ pending'[u] = WithRow(pending[u], nextId, Fresh(LineOf(u)))
        /\ \A t \in Sessions \ {u} : pending'[t] = pending[t]
    BY <2>1 DEF CatalogInv, Typed
  <2> QED
    BY <2>2 DEF WithRow
<1>4. /\ Len(draft[u]) < Len(Lines[u])
      /\ LineOf(u) \in Names
      /\ \A i \in DOMAIN draft[u] : Lines[u][i] # LineOf(u)
  BY <1>1, NextLine DEF CatalogInv, DraftHeld, DraftOf
<1>5. Fresh(LineOf(u)) \in Row /\ Fresh(LineOf(u)).mpn = LineOf(u)
  BY <1>4 DEF Fresh, Row, Statuses
<1>6. /\ \A id \in DOMAIN catalog : id \in Nat /\ id < nextId
      /\ \A t \in Sessions : \A id \in DOMAIN pending[t] : id \in Nat /\ id < nextId
  <2>1. /\ DOMAIN catalog \subseteq Ids
        /\ \A t \in Sessions : DOMAIN pending[t] \subseteq Ids
    BY DEF CatalogInv, Typed, CatalogTypeOK
  <2>2. \A id \in Ids : id \in Nat
    BY DEF Ids
  <2> QED
    BY <2>1, <2>2 DEF CatalogInv, RowsHeld
<1>7. /\ nextId \notin DOMAIN catalog
      /\ \A t \in Sessions : nextId \notin DOMAIN pending[t]
  BY <1>2, <1>6
<1>8. Typed'
  <2>1. \A t \in Sessions : /\ DOMAIN pending'[t] \subseteq Ids
                            /\ \A id \in DOMAIN pending'[t] : pending'[t][id] \in Row
    BY <1>2, <1>3, <1>5 DEF Typed, CatalogTypeOK, CatalogInv
  <2>2. CatalogTypeOK'
    BY <1>1, <1>2, <2>1 DEF Typed, CatalogTypeOK, Sessions, UploadStages, CatalogInv
  <2> QED
    BY <1>1, <1>2, <1>3, <2>2 DEF Typed, Sessions, CatalogInv
<1>9. RowsHeld'
  <2>1. \A id \in DOMAIN catalog : id < nextId' /\ <<id, catalog[id].mpn>> \in aliases
    BY <1>2, <1>6 DEF RowsHeld, CatalogInv
  <2>2. \A t \in Sessions : \A id \in DOMAIN pending'[t] :
          id < nextId' /\ \A r \in Sessions \ {t} : id \notin DOMAIN pending'[r]
    BY <1>2, <1>3, <1>6, <1>7 DEF RowsHeld, CatalogInv
  <2>3. \A v \in Uploads : \A id \in DOMAIN pending'[v] : id \notin DOMAIN catalog
    BY <1>3, <1>7 DEF RowsHeld, CatalogInv, Sessions
  <2>4. \A t \in Sessions : pc'[t] \in {"idle", "done", "failed"} => DOMAIN pending'[t] = {}
    BY <1>1, <1>3 DEF RowsHeld, CatalogInv
  <2>5. \A e \in Enrichments : e \in Sessions /\ e # u
    BY DEF Sessions
  <2> QED
    BY <1>1, <1>3, <2>1, <2>2, <2>3, <2>4, <2>5 DEF RowsHeld, CatalogInv, Holding, TargetOf
<1>10. NamesHeld'
  <2>1. \A t \in Sessions \ {u} : \A id \in DOMAIN pending[t] : pending[t][id].mpn # LineOf(u)
    BY <1>1 DEF Insert, Blockers, Claimants
  <2>2. \A id \in DOMAIN pending[u] : pending[u][id].mpn # LineOf(u)
    <3>1. DraftOf(u)
      BY DEF DraftHeld, CatalogInv
    <3>2. \A id \in DOMAIN pending[u] : \E i \in DOMAIN draft[u] : draft[u][i] = id
      BY <1>1, <3>1 DEF DraftOf
    <3>3. \A i \in DOMAIN draft[u] :
            draft[u][i] \in DOMAIN pending[u] => pending[u][draft[u][i]].mpn = Lines[u][i]
      BY <3>1 DEF DraftOf, Resolves
    <3> QED
      BY <1>4, <3>2, <3>3
  <2>3. \A id \in DOMAIN catalog : catalog[id].mpn # LineOf(u)
    BY <1>6 DEF Insert, Taken, CatalogInv, Typed, CatalogTypeOK, Ids
  <2> QED
    BY <1>1, <1>3, <1>5, <1>7, <2>1, <2>2, <2>3 DEF NamesHeld, OneComponentPerName, CatalogInv
<1>11. DraftHeld'
  <2> SUFFICES ASSUME NEW v \in Uploads PROVE DraftOf(v)'
    BY DEF DraftHeld
  <2>1. DraftOf(v) /\ v \in Sessions
    BY DEF DraftHeld, CatalogInv, Sessions
  <2>2. CASE v # u
    BY <1>1, <1>2, <1>3, <2>1, <2>2 DEF DraftOf, Resolves, LineOf
  <2>3. CASE v = u
    <3>1. Resolves(u, found[u], LineOf(u))'
      BY <1>1, <1>2, <1>3, <1>5 DEF Resolves, LineOf
    <3>2. \A id, line : Resolves(u, id, line) => Resolves(u, id, line)'
      BY <1>1, <1>3, <1>7 DEF Resolves
    <3> QED
      BY <1>1, <1>2, <1>3, <1>4, <2>1, <2>3, <3>1, <3>2 DEF DraftOf
  <2> QED
    BY <2>2, <2>3
<1>12. IdentityKept'
  BY <1>1, <1>3 DEF IdentityKept, Holding, Sessions, TargetOf, CatalogInv
<1>13. UploadAtomic'
  BY <1>1 DEF UploadAtomic, CatalogInv, Sessions
<1>14. LinesResolved'
  BY <1>1 DEF LinesResolved, CatalogInv
<1> QED
  BY <1>8, <1>9, <1>10, <1>11, <1>12, <1>13, <1>14 DEF CatalogInv

(* An association extends the draft by the component of its line.          *)
LEMMA AttachInv ==
  ASSUME CatalogInv, NEW u \in Uploads, Attach(u)
  PROVE  CatalogInv'
<1> u \in Sessions /\ u \notin Enrichments
  BY CatalogAssumption DEF Sessions
<1> DEFINE stage == IF Len(draft[u]) + 1 = Len(Lines[u]) THEN "commit" ELSE "lookup"
<1>1. pc' = [pc EXCEPT ![u] = stage] /\ pc[u] = "attach"
      /\ UNCHANGED <<catalog, boms, nextId, pending, found, loaded, answer, aliases>>
  BY DEF Attach
<1>2. /\ \A t \in Sessions : pc'[t] = IF t = u THEN stage ELSE pc[t]
      /\ DOMAIN pc' = Sessions
  BY <1>1 DEF CatalogInv, Typed
<1>3. /\ Len(draft[u]) < Len(Lines[u]) /\ Resolves(u, found[u], LineOf(u)) /\ found[u] \in Ids
      /\ DraftOf(u)
  BY <1>1 DEF CatalogInv, DraftHeld, DraftOf
<1>4. /\ Len(draft[u]) \in Nat /\ DOMAIN draft[u] = 1..Len(draft[u])
      /\ Len(draft[u]) + 1 \in DOMAIN Lines[u]
      /\ Len(draft[u]) + 1 \in Nat
      /\ Len(Lines[u]) \in Nat /\ DOMAIN Lines[u] = 1..Len(Lines[u])
      /\ draft[u] \in Seq(Ids)
  <2>1. Lines[u] \in Seq(Names)
    BY CatalogAssumption
  <2> QED
    BY <1>3, <2>1, NextLine, LenProperties DEF CatalogInv, Typed, CatalogTypeOK
<1>5. /\ DOMAIN draft' = Uploads
      /\ \A v \in Uploads \ {u} : draft'[v] = draft[v]
      /\ draft'[u] = Append(draft[u], found[u])
  BY DEF Attach, CatalogInv, Typed
<1>6. /\ draft'[u] \in Seq(Ids)
      /\ Len(draft'[u]) = Len(draft[u]) + 1
      /\ DOMAIN draft'[u] = 1..(Len(draft[u]) + 1)
      /\ \A i \in DOMAIN draft[u] : draft'[u][i] = draft[u][i]
      /\ draft'[u][Len(draft[u]) + 1] = found[u]
  BY <1>3, <1>4, <1>5, AppendProperties
<1>7. \A i \in DOMAIN draft[u] : draft[u][i] # found[u]
  BY <1>1 DEF Attach, Shares, Ended
<1>8. stage \in {"commit", "lookup"}
  OBVIOUS
<1>9. Typed'
  BY <1>1, <1>2, <1>5, <1>6, <1>8 DEF Typed, CatalogTypeOK, Sessions, UploadStages, CatalogInv
<1>10. RowsHeld'
  BY <1>1, <1>2, <1>8 DEF RowsHeld, Sessions, Holding, TargetOf, CatalogInv
<1>11. NamesHeld'
  BY <1>1 DEF NamesHeld, OneComponentPerName, CatalogInv
<1>12. DraftHeld'
  <2> SUFFICES ASSUME NEW v \in Uploads PROVE DraftOf(v)'
    BY DEF DraftHeld
  <2>1. DraftOf(v) /\ v \in Sessions
    BY DEF DraftHeld, CatalogInv, Sessions
  <2>2. CASE v # u
    <3>1. /\ pc'[v] = pc[v] /\ draft'[v] = draft[v] /\ found' = found /\ pending' = pending
          /\ catalog' = catalog /\ aliases' = aliases
      BY <1>1, <1>2, <1>5, <2>1, <2>2
    <3> QED
      BY <2>1, <3>1 DEF DraftOf, Resolves, LineOf
  <2>3. CASE v = u
    <3> DEFINE m == Len(draft[u]) + 1
    <3>1. \A id, line : Resolves(u, id, line) => Resolves(u, id, line)'
      BY <1>1 DEF Resolves
    <3>2. \A i \in DOMAIN draft'[u] : i = m \/ i \in DOMAIN draft[u]
      BY <1>4, <1>6
    <3>3. m \in DOMAIN draft'[u] /\ \A i \in DOMAIN draft[u] : i \in DOMAIN draft'[u] /\ i # m
      BY <1>4, <1>6
    <3>4. m <= Len(Lines[u]) /\ Resolves(u, found[u], Lines[u][m])
      BY <1>3, <1>4 DEF LineOf
    <3>5. \A i \in DOMAIN draft'[u] :
            i <= Len(Lines[u]) /\ Resolves(u, draft'[u][i], Lines[u][i])
      BY <1>3, <1>6, <3>2, <3>4 DEF DraftOf
    <3>6. \A i, j \in DOMAIN draft'[u] : draft'[u][i] = draft'[u][j] => i = j
      BY <1>3, <1>6, <1>7, <3>2 DEF DraftOf
    <3>7. \A id \in DOMAIN pending[u] : \E i \in DOMAIN draft'[u] : draft'[u][i] = id
      BY <1>3, <1>6, <3>3 DEF DraftOf
    <3>8. /\ stage = "lookup" => Len(draft'[u]) < Len(Lines[u])
          /\ stage = "commit" => Len(draft'[u]) = Len(Lines[u])
      BY <1>4, <1>6
    <3>9. Lines' = Lines /\ pc'[u] = stage /\ pending' = pending
      BY <1>1, <1>2
    <3> QED
      BY <1>8, <2>3, <3>1, <3>5, <3>6, <3>7, <3>8, <3>9 DEF DraftOf
  <2> QED
    BY <2>2, <2>3
<1>13. IdentityKept'
  BY <1>1, <1>2 DEF IdentityKept, Holding, Sessions, TargetOf, CatalogInv
<1>14. UploadAtomic'
  BY <1>1, <1>2, <1>8 DEF UploadAtomic, CatalogInv, Sessions
<1>15. LinesResolved'
  BY <1>1 DEF LinesResolved, CatalogInv
<1> QED
  BY <1>9, <1>10, <1>11, <1>12, <1>13, <1>14, <1>15 DEF CatalogInv

(* Steps that write the row of an enrichment's component and nothing else. *)
Writes(e, stage, row) ==
  /\ \A t \in Sessions : pc'[t] = IF t = e THEN stage ELSE pc[t]
  /\ DOMAIN pc' = Sessions /\ DOMAIN pending' = Sessions
  /\ DOMAIN pending'[e] = {TargetOf(e)} /\ pending'[e][TargetOf(e)] = row
  /\ \A t \in Sessions \ {e} : pending'[t] = pending[t]
  /\ UNCHANGED <<catalog, boms, nextId, draft, found, loaded, answer, aliases>>

(* A row that is written is taken by nobody else, and its name by no other *)
(* row, because the statement would otherwise have waited.                 *)
LEMMA WritesInv ==
  ASSUME CatalogInv, NEW e \in Enrichments, NEW stage, NEW row, Writes(e, stage, row),
         pc[e] \notin {"done", "failed"}, stage \in {"ask", "commit"}, row \in Row,
         TargetOf(e) \in DOMAIN catalog,
         \A t \in Sessions \ {e} : TargetOf(e) \notin DOMAIN pending[t],
         \A k \in DOMAIN catalog : catalog[k].mpn = row.mpn => k = TargetOf(e),
         \A t \in Sessions \ {e} : \A j \in DOMAIN pending[t] : pending[t][j].mpn # row.mpn,
         stage = "ask" \/ row.status \in {"FAILED", "NOT_FOUND"} =>
           row.mpn = catalog[TargetOf(e)].mpn
           /\ row.normalized = catalog[TargetOf(e)].normalized
  PROVE  CatalogInv'
<1> e \in Sessions /\ e \notin Uploads
  BY CatalogAssumption DEF Sessions
<1>1. \A u \in Uploads : u \in Sessions /\ pc'[u] = pc[u] /\ pending'[u] = pending[u]
  BY DEF Writes, Sessions
<1>2. \A f \in Enrichments : /\ f \in Sessions /\ TargetOf(f)' = TargetOf(f)
                             /\ f # e => pc'[f] = pc[f] /\ pending'[f] = pending[f]
  BY DEF Writes, Sessions, TargetOf
<1>3. pc'[e] = stage
  BY DEF Writes
<1>4. Typed'
  <2>1. TargetOf(e) \in Ids
    BY DEF CatalogInv, Typed, CatalogTypeOK
  <2>2. \A t \in Sessions : /\ DOMAIN pending'[t] \subseteq Ids
                            /\ \A id \in DOMAIN pending'[t] : pending'[t][id] \in Row
    BY <2>1 DEF Writes, Typed, CatalogTypeOK, CatalogInv
  <2>3. CatalogTypeOK'
    BY <1>1, <1>2, <1>3, <2>2 DEF Writes, Typed, CatalogTypeOK, EnrichmentStages, CatalogInv
  <2> QED
    BY <1>2, <1>3, <2>3 DEF Writes, Typed, CatalogInv
<1>5. RowsHeld'
  <2>1. \A t \in Sessions : \A id \in DOMAIN pending'[t] :
          id < nextId /\ \A r \in Sessions \ {t} : id \notin DOMAIN pending'[r]
    <3>1. TargetOf(e) < nextId
      BY DEF RowsHeld, CatalogInv
    <3>2. DOMAIN pending'[e] = {TargetOf(e)} /\ \A t \in Sessions \ {e} : pending'[t] = pending[t]
      BY DEF Writes
    <3>3. \A t \in Sessions : \A id \in DOMAIN pending[t] :
            id < nextId /\ \A r \in Sessions \ {t} : id \notin DOMAIN pending[r]
      BY DEF RowsHeld, CatalogInv
    <3> QED
      BY <3>1, <3>2, <3>3
  <2>2. \A t \in Sessions : pc'[t] \in {"idle", "done", "failed"} => DOMAIN pending'[t] = {}
    BY DEF Writes, RowsHeld, CatalogInv
  <2>3. \A f \in Enrichments :
          /\ pc'[f] = "mark" => DOMAIN pending'[f] = {} /\ TargetOf(f) \in DOMAIN catalog
          /\ pc'[f] \in {"ask", "save", "rename", "commit"} =>
               DOMAIN pending'[f] = {TargetOf(f)} /\ TargetOf(f) \in DOMAIN catalog
    BY <1>2, <1>3 DEF Writes, RowsHeld, Holding, CatalogInv
  <2> QED
    BY <1>1, <1>2, <2>1, <2>2, <2>3 DEF Writes, RowsHeld, Holding, CatalogInv
<1>6. NamesHeld'
  BY DEF Writes, NamesHeld, OneComponentPerName, CatalogInv
<1>7. DraftHeld'
  <2> SUFFICES ASSUME NEW u \in Uploads PROVE DraftOf(u)'
    BY DEF DraftHeld
  <2>1. DraftOf(u)
    BY DEF DraftHeld, CatalogInv
  <2>2. /\ pc'[u] = pc[u] /\ pending'[u] = pending[u] /\ draft' = draft /\ found' = found
        /\ catalog' = catalog /\ aliases' = aliases
    BY <1>1 DEF Writes
  <2> QED
    BY <2>1, <2>2 DEF DraftOf, Resolves, LineOf
<1>8. IdentityKept'
  BY <1>2, <1>3 DEF Writes, IdentityKept, Holding, CatalogInv
<1>9. UploadAtomic'
  BY <1>1 DEF Writes, UploadAtomic, CatalogInv
<1>10. LinesResolved'
  BY DEF Writes, LinesResolved, CatalogInv
<1> QED
  BY <1>4, <1>5, <1>6, <1>7, <1>8, <1>9, <1>10 DEF CatalogInv

(* The row that is marked is held from then on.                            *)
LEMMA MarkInv ==
  ASSUME CatalogInv, NEW e \in Enrichments, Mark(e)
  PROVE  CatalogInv'
<1> DEFINE row == [catalog[TargetOf(e)] EXCEPT !.status = "ENRICHING"]
<1> e \in Sessions /\ e \notin Uploads
  BY CatalogAssumption DEF Sessions
<1>1. /\ pc[e] = "mark" /\ TargetOf(e) \in DOMAIN catalog /\ catalog[TargetOf(e)] \in Row
  BY DEF Mark, CatalogInv, RowsHeld, Typed, CatalogTypeOK
<1>2. /\ row \in Row /\ row.mpn = catalog[TargetOf(e)].mpn
      /\ row.normalized = catalog[TargetOf(e)].normalized
  BY <1>1 DEF Row, Statuses
<1>3. Writes(e, "ask", row)
  <2>1. /\ pending' = [pending EXCEPT ![e] = WithRow(NoRows, TargetOf(e), row)]
        /\ pc' = [pc EXCEPT ![e] = "ask"]
        /\ UNCHANGED <<catalog, boms, nextId, draft, found, loaded, answer, aliases>>
    BY DEF Mark
  <2>2. DOMAIN NoRows = {}
    BY EmptySeq, LenProperties DEF NoRows
  <2> HIDE DEF row
  <2> QED
    BY <2>1, <2>2 DEF Writes, WithRow, CatalogInv, Typed
<1>4. \A t \in Sessions \ {e} : TargetOf(e) \notin DOMAIN pending[t]
  BY <1>1 DEF Mark, Blockers, RowsHeld, CatalogInv, Sessions
<1>5. \A k \in DOMAIN catalog : catalog[k].mpn = row.mpn => k = TargetOf(e)
  BY <1>1, <1>2 DEF CatalogInv, NamesHeld, OneComponentPerName
<1>6. \A t \in Sessions \ {e} : \A j \in DOMAIN pending[t] : pending[t][j].mpn # row.mpn
  BY <1>1, <1>2, <1>4 DEF CatalogInv, NamesHeld
<1> HIDE DEF row
<1> QED
  BY <1>1, <1>2, <1>3, <1>4, <1>5, <1>6, WritesInv

(* What a save writes: the name is the one the row has or the one that was *)
(* checked, and no identity comes from an enrichment that learnt nothing.  *)
LEMMA SavedRowFacts ==
  ASSUME CatalogInv, NEW e \in Enrichments, pc[e] \in {"save", "rename"},
         answer[e] \in Answers
  PROVE  /\ SavedRow(e) \in Row
         /\ SavedRow(e).mpn = NewName(e)
         /\ SavedRow(e).status \in {"FAILED", "NOT_FOUND"} =>
              /\ SavedRow(e).mpn = catalog[TargetOf(e)].mpn
              /\ SavedRow(e).normalized = catalog[TargetOf(e)].normalized
<1> DEFINE row == pending[e][TargetOf(e)]
<1>1. /\ row \in Row /\ row.mpn = catalog[TargetOf(e)].mpn
      /\ row.normalized = catalog[TargetOf(e)].normalized
  BY DEF CatalogInv, RowsHeld, Holding, Typed, CatalogTypeOK, IdentityKept, Sessions
<1>2. Names \cap {"unnamed", "not found", "all failed", "none"} = {}
  BY CatalogAssumption
<1>3. row.mpn \in Names /\ row.normalized \in Names \cup {NoName}
  BY <1>1 DEF Row
<1> HIDE DEF row
<1>4. CASE answer[e] \in Names
  <2>1. NewName(e) \in Names
    BY <1>3 DEF NewName, row
  <2>2. SavedRow(e) = [mpn |-> NewName(e), status |-> "ENRICHED",
                       normalized |-> IF answer[e] # loaded[e].row.normalized
                                      THEN answer[e] ELSE row.normalized]
    BY <1>2, <1>4 DEF SavedRow, row
  <2> QED
    BY <1>3, <1>4, <2>1, <2>2 DEF Row, Statuses
<1>5. CASE answer[e] \notin Names
  <2>1. NewName(e) = row.mpn
    BY <1>5 DEF NewName, row
  <2>2. PICK status \in Statuses : SavedRow(e) = [row EXCEPT !.status = status]
    BY <1>5 DEF SavedRow, Answers, Statuses, row
  <2> QED
    BY <1>1, <2>1, <2>2 DEF Row, row
<1> QED
  BY <1>4, <1>5

(* An enrichment writes the row it holds, under its old name or, once      *)
(* nobody claims it and no row has it, under its new one.                  *)
LEMMA SaveInv ==
  ASSUME CatalogInv, NEW e \in Enrichments, Save(e) \/ Rename(e)
  PROVE  CatalogInv'
<1> e \in Sessions /\ e \notin Uploads
  BY CatalogAssumption DEF Sessions
<1>1. /\ pc[e] \in {"save", "rename"} /\ WriteRow(e)
      /\ pc[e] = "save" => NewName(e) = pending[e][TargetOf(e)].mpn
      /\ pc[e] = "rename" => Claimants(e, NewName(e)) = {} /\ ~Taken(NewName(e), TargetOf(e))
  BY DEF Save, Rename, Blockers
<1>2. /\ TargetOf(e) \in DOMAIN catalog /\ DOMAIN pending[e] = {TargetOf(e)}
      /\ \A t \in Sessions \ {e} : TargetOf(e) \notin DOMAIN pending[t]
  BY <1>1 DEF CatalogInv, RowsHeld, Holding
<1>3. answer[e] \in Answers
  BY <1>1 DEF CatalogInv, Typed
<1>4. /\ SavedRow(e) \in Row
      /\ SavedRow(e).mpn = NewName(e)
      /\ SavedRow(e).status \in {"FAILED", "NOT_FOUND"} =>
           /\ SavedRow(e).mpn = catalog[TargetOf(e)].mpn
           /\ SavedRow(e).normalized = catalog[TargetOf(e)].normalized
  BY <1>1, <1>3, SavedRowFacts
<1>5. Writes(e, "commit", SavedRow(e))
  BY <1>1, <1>2 DEF WriteRow, Writes, WithRow, CatalogInv, Typed
<1>6. \A k \in DOMAIN catalog : catalog[k].mpn = NewName(e) => k = TargetOf(e)
  BY <1>1, <1>2 DEF Taken, CatalogInv, NamesHeld
<1>7. \A t \in Sessions \ {e} : \A j \in DOMAIN pending[t] : pending[t][j].mpn # NewName(e)
  BY <1>1, <1>2 DEF Claimants, CatalogInv, NamesHeld
<1> QED
  BY <1>1, <1>2, <1>4, <1>5, <1>6, <1>7, WritesInv

(* A commit makes a session's rows the catalogue's and ends the session.   *)
LEMMA CommitFrame ==
  ASSUME CatalogInv, NEW s \in Sessions, pc[s] = "commit", Publish(s), Release(s, "done")
  PROVE  /\ \A t \in Sessions : pc'[t] = IF t = s THEN "done" ELSE pc[t]
         /\ \A t \in Sessions \ {s} : pending'[t] = pending[t]
         /\ DOMAIN pending'[s] = {}
         /\ \A u \in Uploads \ {s} : draft'[u] = draft[u] /\ found'[u] = found[u]
         /\ \A u \in Uploads : u = s => DOMAIN draft'[u] = {}
         /\ UNCHANGED <<nextId, loaded, answer>>
         /\ DOMAIN catalog' = DOMAIN catalog \cup DOMAIN pending[s]
         /\ \A id \in DOMAIN pending[s] : catalog'[id] = pending[s][id]
         /\ \A id \in DOMAIN catalog \ DOMAIN pending[s] : catalog'[id] = catalog[id]
         /\ aliases \subseteq aliases'
         /\ \A id \in DOMAIN pending[s] : <<id, pending[s][id].mpn>> \in aliases'
         /\ RowsHeld' /\ NamesHeld' /\ IdentityKept'
         /\ DOMAIN boms' \subseteq Uploads => Typed'
<1>1. /\ \A t \in Sessions : pc'[t] = IF t = s THEN "done" ELSE pc[t]
      /\ DOMAIN pc' = Sessions /\ DOMAIN pending' = Sessions /\ DOMAIN draft' = Uploads
      /\ DOMAIN found' = Uploads
      /\ \A t \in Sessions : pending'[t] = IF t = s THEN NoRows ELSE pending[t]
      /\ \A u \in Uploads : draft'[u] = IF u = s THEN <<>> ELSE draft[u]
      /\ \A u \in Uploads : found'[u] = IF u = s THEN 0 ELSE found[u]
      /\ UNCHANGED <<nextId, loaded, answer>>
  BY DEF Release, CatalogInv, Typed
<1>2. DOMAIN NoRows = {} /\ NoRows = <<>> /\ NoRows \in Seq(Ids)
  BY EmptySeq, LenProperties DEF NoRows
<1>3. /\ DOMAIN catalog' = DOMAIN catalog \cup DOMAIN pending[s]
      /\ \A id \in DOMAIN pending[s] : catalog'[id] = pending[s][id]
      /\ \A id \in DOMAIN catalog \ DOMAIN pending[s] : catalog'[id] = catalog[id]
  BY DEF Publish
<1>4. /\ aliases \subseteq aliases'
      /\ \A id \in DOMAIN pending[s] : <<id, pending[s][id].mpn>> \in aliases'
  BY DEF Publish
<1>5. /\ DOMAIN pending'[s] = {}
      /\ \A t \in Sessions \ {s} : pending'[t] = pending[t] /\ pc'[t] = pc[t]
      /\ pc'[s] = "done"
  BY <1>1, <1>2
<1>6. DOMAIN boms' \subseteq Uploads => Typed'
  <2>1. /\ DOMAIN catalog \subseteq Ids /\ \A id \in DOMAIN catalog : catalog[id] \in Row
        /\ \A t \in Sessions : DOMAIN pending[t] \subseteq Ids
                              /\ \A id \in DOMAIN pending[t] : pending[t][id] \in Row
        /\ aliases \subseteq Ids \X Names
    BY DEF CatalogInv, Typed, CatalogTypeOK
  <2>2. DOMAIN catalog' \subseteq Ids /\ \A id \in DOMAIN catalog' : catalog'[id] \in Row
    BY <1>3, <2>1
  <2>3. aliases' \subseteq Ids \X Names
    BY <2>1 DEF Publish, Row
  <2>4. \A t \in Sessions : DOMAIN pending'[t] \subseteq Ids
                            /\ \A id \in DOMAIN pending'[t] : pending'[t][id] \in Row
    BY <1>5, <2>1
  <2>5. /\ \A u \in Uploads : /\ pc'[u] \in UploadStages /\ draft'[u] \in Seq(Ids)
                             /\ found'[u] \in Ids \cup {0}
        /\ \A e \in Enrichments : pc'[e] \in EnrichmentStages
    BY <1>1, <1>2 DEF CatalogInv, Typed, CatalogTypeOK, Sessions, UploadStages, EnrichmentStages
  <2> QED
    BY <1>1, <1>2, <2>2, <2>3, <2>4, <2>5 DEF CatalogInv, Typed, CatalogTypeOK, Sessions
<1>7. RowsHeld'
  <2>1. DOMAIN Seeded \subseteq DOMAIN catalog'
    BY <1>3 DEF CatalogInv, RowsHeld
  <2>2. \A id \in DOMAIN catalog' : id < nextId /\ <<id, catalog'[id].mpn>> \in aliases'
    BY <1>3, <1>4 DEF CatalogInv, RowsHeld
  <2>3. \A t \in Sessions : \A id \in DOMAIN pending'[t] :
          id < nextId /\ \A r \in Sessions \ {t} : id \notin DOMAIN pending'[r]
    BY <1>5 DEF CatalogInv, RowsHeld
  <2>4. \A t \in Sessions : pc'[t] \in {"idle", "done", "failed"} => DOMAIN pending'[t] = {}
    BY <1>5 DEF CatalogInv, RowsHeld
  <2>5. \A u \in Uploads : \A id \in DOMAIN pending'[u] : id \notin DOMAIN catalog'
    BY <1>3, <1>5 DEF CatalogInv, RowsHeld, Sessions
  <2>6. \A e \in Enrichments :
          /\ pc'[e] = "mark" => DOMAIN pending'[e] = {} /\ TargetOf(e) \in DOMAIN catalog'
          /\ pc'[e] \in {"ask", "save", "rename", "commit"} =>
               DOMAIN pending'[e] = {TargetOf(e)} /\ TargetOf(e) \in DOMAIN catalog'
    BY <1>3, <1>5 DEF CatalogInv, RowsHeld, Sessions, Holding
  <2> QED
    BY <1>1, <2>1, <2>2, <2>3, <2>4, <2>5, <2>6 DEF RowsHeld, Holding, TargetOf
<1>8. NamesHeld'
  <2>1. OneComponentPerName'
    BY <1>3 DEF CatalogInv, NamesHeld, OneComponentPerName
  <2>2. \A t \in Sessions : \A i \in DOMAIN pending'[t] :
          \A k \in DOMAIN catalog' : catalog'[k].mpn = pending'[t][i].mpn => k = i
    BY <1>3, <1>5 DEF CatalogInv, NamesHeld
  <2>3. \A t \in Sessions : \A i \in DOMAIN pending'[t] :
          \A r \in Sessions : \A j \in DOMAIN pending'[r] :
            pending'[r][j].mpn = pending'[t][i].mpn => j = i
    BY <1>5 DEF CatalogInv, NamesHeld
  <2> QED
    BY <2>1, <2>2, <2>3 DEF NamesHeld
<1>9. IdentityKept'
  <2>1. \A e \in Enrichments : e \in Sessions /\ TargetOf(e)' = TargetOf(e)
    BY <1>1 DEF Sessions, TargetOf
  <2>2. \A e \in Enrichments : Holding(e)' =>
          /\ e # s /\ Holding(e) /\ pending'[e] = pending[e] /\ pc'[e] = pc[e]
          /\ TargetOf(e) \in DOMAIN catalog \ DOMAIN pending[s]
    BY <1>5, <2>1 DEF Holding, CatalogInv, RowsHeld
  <2> QED
    BY <1>3, <2>1, <2>2 DEF IdentityKept, CatalogInv
<1> QED
  BY <1>1, <1>2, <1>3, <1>4, <1>5, <1>6, <1>7, <1>8, <1>9

(* A commit leaves what the other uploads have attached as it was.         *)
LEMMA CommitKeepsDrafts ==
  ASSUME CatalogInv, NEW s \in Sessions, pc[s] = "commit", Publish(s), Release(s, "done"),
         NEW u \in Uploads \ {s}
  PROVE  DraftOf(u)'
<1>1. /\ u \in Sessions /\ pc'[u] = pc[u] /\ pending'[u] = pending[u] /\ draft'[u] = draft[u]
      /\ found'[u] = found[u] /\ aliases \subseteq aliases' /\ DOMAIN catalog \subseteq DOMAIN catalog'
  BY ZenonT(40), CommitFrame DEF Sessions
<1>2. \A id, line : Resolves(u, id, line) => Resolves(u, id, line)'
  BY <1>1 DEF Resolves
<1>3. DraftOf(u)
  BY DEF CatalogInv, DraftHeld
<1>4. LineOf(u)' = LineOf(u)
  BY <1>1 DEF LineOf
<1> QED
  BY <1>1, <1>2, <1>3, <1>4 DEF DraftOf

(* What an upload commits is its BOM, with the components it created.      *)
LEMMA CommitUploadInv ==
  ASSUME CatalogInv, NEW u \in Uploads, CommitUpload(u)
  PROVE  CatalogInv'
<1> u \in Sessions /\ u \notin Enrichments
  BY CatalogAssumption DEF Sessions
<1>1. pc[u] = "commit" /\ Publish(u) /\ Release(u, "done")
  BY DEF CommitUpload
<1>2. /\ DOMAIN boms' = DOMAIN boms \cup {u}
      /\ boms'[u] = [attached |-> draft[u], rows |-> Len(Lines[u])]
      /\ \A v \in DOMAIN boms \ {u} : boms'[v] = boms[v]
  BY DEF CommitUpload, WithRow
<1>3. /\ \A t \in Sessions : pc'[t] = IF t = u THEN "done" ELSE pc[t]
      /\ DOMAIN catalog' = DOMAIN catalog \cup DOMAIN pending[u]
      /\ \A id \in DOMAIN pending[u] : catalog'[id] = pending[u][id]
      /\ aliases \subseteq aliases'
      /\ \A id \in DOMAIN pending[u] : <<id, pending[u][id].mpn>> \in aliases'
      /\ RowsHeld' /\ NamesHeld' /\ IdentityKept'
      /\ DOMAIN boms' \subseteq Uploads => Typed'
  BY <1>1, CommitFrame
<1>4. Typed'
  BY <1>2, <1>3 DEF CatalogInv, Typed, CatalogTypeOK
<1>5. DraftHeld'
  <2> SUFFICES ASSUME NEW v \in Uploads PROVE DraftOf(v)'
    BY DEF DraftHeld
  <2>1. CASE v # u
    BY <1>1, <2>1, CommitKeepsDrafts
  <2>2. CASE v = u
    <3>1. pc'[u] = "done" /\ DOMAIN pending'[u] = {} /\ DOMAIN draft'[u] = {}
      BY <1>1, CommitFrame
    <3> QED
      BY <2>2, <3>1 DEF DraftOf
  <2> QED
    BY <2>1, <2>2
<1>6. DraftOf(u) /\ Len(draft[u]) = Len(Lines[u])
  BY <1>1 DEF CatalogInv, DraftHeld, DraftOf
<1>7. /\ \A i \in DOMAIN draft[u] : /\ draft[u][i] \in DOMAIN catalog'
                                   /\ <<draft[u][i], Lines[u][i]>> \in aliases'
      /\ \A id \in DOMAIN pending[u] : \E i \in DOMAIN draft[u] : draft[u][i] = id
  BY <1>1, <1>3, <1>6 DEF DraftOf, Resolves
<1>8. UploadAtomic'
  <2>1. \A v \in Uploads : pc'[v] = "done" <=> v \in DOMAIN boms'
    BY <1>2, <1>3 DEF CatalogInv, UploadAtomic, Sessions
  <2>2. \A v \in DOMAIN boms' :
          /\ Len(boms'[v].attached) = Len(Lines[v]) /\ boms'[v].rows = Len(Lines[v])
          /\ \A i \in DOMAIN boms'[v].attached : boms'[v].attached[i] \in DOMAIN catalog'
    <3> SUFFICES ASSUME NEW v \in DOMAIN boms'
                 PROVE  /\ Len(boms'[v].attached) = Len(Lines[v]) /\ boms'[v].rows = Len(Lines[v])
                        /\ \A i \in DOMAIN boms'[v].attached :
                             boms'[v].attached[i] \in DOMAIN catalog'
      OBVIOUS
    <3>1. CASE v = u
      <4>1. boms'[v].attached = draft[u] /\ boms'[v].rows = Len(Lines[u])
        BY <1>2, <3>1
      <4> QED
        BY <1>6, <1>7, <3>1, <4>1
    <3>2. CASE v # u
      <4>1. v \in DOMAIN boms /\ boms'[v] = boms[v]
        BY <1>2, <3>2
      <4> QED
        BY <1>3, <4>1 DEF CatalogInv, UploadAtomic
    <3> QED
      BY <3>1, <3>2
  <2>3. u \notin DOMAIN boms
    BY <1>1 DEF CatalogInv, UploadAtomic
  <2>4. \A id \in DOMAIN catalog' \ DOMAIN Seeded :
          \E v \in DOMAIN boms' : \E i \in DOMAIN boms'[v].attached : boms'[v].attached[i] = id
    <3> SUFFICES ASSUME NEW id \in DOMAIN catalog', id \notin DOMAIN Seeded
                 PROVE  \E v \in DOMAIN boms' : \E i \in DOMAIN boms'[v].attached :
                          boms'[v].attached[i] = id
      OBVIOUS
    <3>1. CASE id \in DOMAIN pending[u]
      <4>1. boms'[u].attached = draft[u] /\ u \in DOMAIN boms'
        BY <1>2
      <4> QED
        BY <1>7, <3>1, <4>1
    <3>2. CASE id \in DOMAIN catalog
      <4>1. PICK v \in DOMAIN boms : \E i \in DOMAIN boms[v].attached : boms[v].attached[i] = id
        BY <3>2 DEF CatalogInv, UploadAtomic
      <4>2. v \in DOMAIN boms' /\ boms'[v] = boms[v]
        BY <1>2, <2>3
      <4> QED
        BY <4>1, <4>2
    <3> QED
      BY <1>3, <3>1, <3>2
  <2> QED
    BY <2>1, <2>2, <2>4 DEF UploadAtomic
<1>9. LinesResolved'
  BY SMTT(30), <1>2, <1>3, <1>6, <1>7 DEF CatalogInv, LinesResolved, DraftOf
<1> QED
  BY <1>3, <1>4, <1>5, <1>8, <1>9 DEF CatalogInv

(* What an enrichment commits is the row it holds.                         *)
LEMMA CommitEnrichmentInv ==
  ASSUME CatalogInv, NEW e \in Enrichments, CommitEnrichment(e)
  PROVE  CatalogInv'
<1> e \in Sessions /\ e \notin Uploads
  BY CatalogAssumption DEF Sessions
<1>1. pc[e] = "commit" /\ Publish(e) /\ Release(e, "done") /\ boms' = boms
  BY DEF CommitEnrichment
<1>2. /\ \A u \in Uploads : pc'[u] = pc[u]
      /\ DOMAIN catalog' = DOMAIN catalog \cup DOMAIN pending[e]
      /\ aliases \subseteq aliases'
      /\ RowsHeld' /\ NamesHeld' /\ IdentityKept'
      /\ DOMAIN boms' \subseteq Uploads => Typed'
  BY <1>1, CommitFrame DEF Sessions
<1>3. DOMAIN catalog' = DOMAIN catalog
  <2>1. DOMAIN pending[e] = {TargetOf(e)} /\ TargetOf(e) \in DOMAIN catalog
    BY <1>1 DEF CatalogInv, RowsHeld, Holding
  <2> QED
    BY <1>2, <2>1
<1>4. Typed'
  BY <1>1, <1>2 DEF CatalogInv, Typed, CatalogTypeOK
<1>5. DraftHeld'
  BY <1>1, CommitKeepsDrafts DEF DraftHeld
<1>6. UploadAtomic'
  BY <1>1, <1>2, <1>3 DEF CatalogInv, UploadAtomic
<1>7. LinesResolved'
  BY <1>1, <1>2 DEF CatalogInv, LinesResolved
<1> QED
  BY <1>2, <1>4, <1>5, <1>6, <1>7 DEF CatalogInv

-----------------------------------------------------------------------------

(* A session that never began, or has ended, waits for nobody.             *)
LEMMA OnlyOpenDeadlock ==
  ASSUME CatalogInv, NEW s \in Sessions, Deadlocked(s)
  PROVE  pc[s] # "idle" /\ ~Ended(s)
<1>1. SUFFICES ASSUME pc[s] = "idle" \/ Ended(s) PROVE FALSE
  OBVIOUS
<1>2. Blockers(s) = {}
  BY <1>1 DEF Blockers, Ended
<1> DEFINE S == {}
<1>3. S \in SUBSET Sessions /\ Blockers(s) \subseteq S /\ \A t \in S : Blockers(t) \subseteq S
  BY <1>2
<1> QED
  BY <1>3 DEF Deadlocked

(* Every statement of every session keeps the invariant.                   *)
LEMMA CatalogInvNext ==
  ASSUME CatalogInv, [CatalogNext]_catalogVars
  PROVE  CatalogInv'
<1>1. CASE UNCHANGED catalogVars
  <2>1. CatalogTypeOK' /\ Typed' /\ RowsHeld'
    BY <1>1 DEF catalogVars, CatalogInv, Typed, CatalogTypeOK, RowsHeld, Holding, TargetOf
  <2>2. NamesHeld' /\ UploadAtomic' /\ LinesResolved'
    BY SMTT(30), <1>1 DEF catalogVars, CatalogInv, NamesHeld, OneComponentPerName, UploadAtomic, LinesResolved
  <2>4. IdentityKept'
    BY <1>1 DEF catalogVars, CatalogInv, IdentityKept, Holding, TargetOf
  <2>3. DraftHeld'
    BY <1>1 DEF catalogVars, CatalogInv, DraftHeld, DraftOf, Resolves, LineOf
  <2> QED
    BY <2>1, <2>2, <2>3, <2>4 DEF CatalogInv
<1>2. ASSUME NEW u \in Uploads, Begin(u) PROVE CatalogInv'
  BY <1>2, BeginInv
<1>3. ASSUME NEW e \in Enrichments, Load(e) PROVE CatalogInv'
  BY <1>3, LoadInv
<1>4. ASSUME NEW u \in Uploads, UploadStep(u) PROVE CatalogInv'
  <2>1. u \in Sessions
    BY DEF Sessions
  <2>2. CASE InsertTaken(u) \/ AttachTwice(u)
    BY <2>1, <2>2, RollBackInv DEF InsertTaken, AttachTwice, Ended
  <2> QED
    BY <1>4, <2>2, LookUpInv, InsertInv, AttachInv, CommitUploadInv DEF UploadStep
<1>5. ASSUME NEW e \in Enrichments, EnrichmentStep(e) PROVE CatalogInv'
  <2>1. e \in Sessions
    BY DEF Sessions
  <2>2. CASE RenameTaken(e)
    BY <2>1, <2>2, RollBackInv DEF RenameTaken, Ended
  <2> QED
    BY <1>5, <2>2, MarkInv, AskOrLockInv, SaveInv, CommitEnrichmentInv DEF EnrichmentStep
<1>6. ASSUME NEW s \in Sessions, BreakDeadlock(s) \/ Crash(s) PROVE CatalogInv'
  BY <1>6, OnlyOpenDeadlock, RollBackInv DEF BreakDeadlock, Crash
<1> QED
  BY <1>1, <1>2, <1>3, <1>4, <1>5, <1>6 DEF CatalogNext, Work

-----------------------------------------------------------------------------
(* The theorems.                                                           *)

(* CatalogInv is an invariant, whatever the sessions and their order.      *)
THEOREM CatalogInductive == CatalogSpec => []CatalogInv
<1>1. CatalogInv /\ [CatalogNext]_catalogVars => CatalogInv'
  BY CatalogInvNext
<1> QED
  BY InitInv, <1>1, PTL DEF CatalogSpec

(* Every statement leaves well-formed tables: ids within the sequence, and *)
(* rows that are complete.                                                 *)
THEOREM CatalogTyped == CatalogSpec => []CatalogTypeOK
<1>1. CatalogInv => CatalogTypeOK
  BY DEF CatalogInv, Typed
<1> QED
  BY CatalogInductive, <1>1, PTL

(* persist_bom is all or nothing, for every number of uploads, BOMs of any *)
(* length and any interleaving with enrichments, aborts and crashes.       *)
THEOREM UploadsAtomic == CatalogSpec => []UploadAtomic
<1>1. CatalogInv => UploadAtomic
  BY DEF CatalogInv
<1> QED
  BY CatalogInductive, <1>1, PTL

(* A committed BOM resolves every line to a component that has carried its *)
(* part number, and two lines never to one component.                      *)
THEOREM EveryLineResolved == CatalogSpec => []LinesResolved
<1>1. CatalogInv => LinesResolved
  BY DEF CatalogInv
<1> QED
  BY CatalogInductive, <1>1, PTL

(* get_by_mpn never finds two rows, although uploads create components and *)
(* enrichments rename them at the same time.                               *)
THEOREM NamesUnique == CatalogSpec => []OneComponentPerName
<1>1. CatalogInv => OneComponentPerName
  BY DEF CatalogInv, NamesHeld
<1> QED
  BY CatalogInductive, <1>1, PTL

(* The committed rows change only when a session commits.                  *)
LEMMA CatalogChanges ==
  ASSUME [CatalogNext]_catalogVars, catalog' # catalog
  PROVE  \E s \in Sessions : pc[s] = "commit" /\ Publish(s)
  BY DEF catalogVars, CatalogNext, Begin, Load, Work, UploadStep, LookUp, Insert, InsertTaken,
         Attach, AttachTwice, CommitUpload, EnrichmentStep, Mark, Ask, Save, LockForRename,
         Rename, RenameTaken, WriteRow, CommitEnrichment, BreakDeadlock, Crash, RollBack, Sessions

(* An enrichment whose providers failed or found nothing commits no part   *)
(* number, even when another enrichment renamed the component between its  *)
(* load and its first statement (enrich_with_orchestrator).                *)
THEOREM IdentityPreserved == CatalogSpec => FailureKeepsIdentity
<1>1. ASSUME CatalogInv, [CatalogNext]_catalogVars, NEW id \in DOMAIN catalog,
             catalog'[id] # catalog[id], catalog'[id].status \in {"FAILED", "NOT_FOUND"}
      PROVE  catalog'[id].mpn = catalog[id].mpn /\ catalog'[id].normalized = catalog[id].normalized
  <2> catalog' # catalog
    BY <1>1
  <2>1. PICK s \in Sessions : pc[s] = "commit" /\ Publish(s)
    BY <1>1, CatalogChanges
  <2>2. id \in DOMAIN pending[s] /\ catalog'[id] = pending[s][id]
    BY <1>1, <2>1 DEF Publish
  <2>3. s \in Enrichments
    BY <1>1, <2>2 DEF CatalogInv, RowsHeld, Sessions
  <2>4. id = TargetOf(s)
    BY <1>1, <2>1, <2>2, <2>3 DEF CatalogInv, RowsHeld, Holding
  <2> QED
    BY <1>1, <2>1, <2>2, <2>3, <2>4 DEF CatalogInv, IdentityKept, Holding
<1>2. CatalogInv /\ [CatalogNext]_catalogVars =>
        [\A id \in DOMAIN catalog :
           catalog'[id] # catalog[id] /\ catalog'[id].status \in {"FAILED", "NOT_FOUND"} =>
             catalog'[id].mpn = catalog[id].mpn
             /\ catalog'[id].normalized = catalog[id].normalized]_catalogVars
  BY <1>1
<1> QED
  BY CatalogInductive, <1>2, PTL DEF CatalogSpec, FailureKeepsIdentity

=============================================================================
