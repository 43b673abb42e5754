------------------------------ MODULE Catalog ------------------------------
(***************************************************************************)
(* The component catalogue and the BOMs in it, written by two kinds of     *)
(* database session that run side by side, each one transaction:           *)
(*                                                                         *)
(*  - an upload (services/bom_persistence.py) finds or creates the         *)
(*    component of every line of its BOM, attaches it, and commits the     *)
(*    BOM with its ingestion record;                                       *)
(*  - an enrichment (services/component_enrichment.py) loads a component,  *)
(*    marks it ENRICHING, asks the providers while the transaction stays   *)
(*    open, and saves what they say, possibly another part number.         *)
(*                                                                         *)
(* One action is one SQL statement.  The database is external: PostgreSQL  *)
(* at READ COMMITTED, so a statement sees what was committed before it and *)
(* its own transaction's writes; it waits for the transactions that hold   *)
(* the row or the unique name it needs; a cycle of waits is broken by      *)
(* aborting a member; and a session that ends without commit leaves        *)
(* nothing.  Part numbers are compared as the names the normaliser leaves  *)
(* unchanged.                                                              *)
(***************************************************************************)
EXTENDS Naturals, Sequences

CONSTANTS
  Uploads,       \* upload requests
  Enrichments,   \* enrichment requests
  Names,         \* part numbers
  Lines,         \* per upload, the part numbers of its valid BOM, in order
  Seeded,        \* part numbers in the catalogue at the start
  MaxComponents, \* bound on the component ids ever drawn
  NoName         \* a normalized_mpn that is null

Sessions == Uploads \cup Enrichments
Ids == 1..MaxComponents

(* deduplicate_components leaves one line per part number, and a BOM       *)
(* without lines is rejected before it is persisted.                       *)
Distinct(lines) == \A i, j \in DOMAIN lines : lines[i] = lines[j] => i = j

ASSUME CatalogAssumption ==
  /\ Uploads \cap Enrichments = {}
  /\ Lines \in [Uploads -> Seq(Names) \ {<<>>}]
  /\ \A u \in Uploads : Distinct(Lines[u])
  /\ Seeded \in Seq(Names) /\ Distinct(Seeded)
  /\ MaxComponents \in Nat /\ Len(Seeded) <= MaxComponents
  /\ NoName \notin Names
  /\ Names \cap {"unnamed", "not found", "all failed", "none"} = {}

VARIABLES
  catalog,       \* the committed components, by id
  boms,          \* the committed BOMs, by upload: the attached ids and the record
  nextId,        \* the sequence that gives component ids, never rolled back
  pc,            \* the statement each session executes next: see Stages
  pending,       \* per session, the component rows written and not committed
  draft,         \* per upload, the component ids attached so far
  found,         \* per upload, the component id of the line in progress
  loaded,        \* per enrichment, the id and the row it loaded
  answer,        \* per enrichment, what the providers said
  aliases        \* history: every name a component has had, <<id, name>>

catalogVars == <<catalog, boms, nextId, pc, pending, draft, found, loaded, answer, aliases>>

Statuses == {"PENDING", "ENRICHING", "ENRICHED", "NOT_FOUND", "FAILED"}
Row == [mpn : Names, normalized : Names \cup {NoName}, status : Statuses]

UploadStages == {"idle", "lookup", "insert", "attach", "commit", "done", "failed"}
EnrichmentStages == {"idle", "mark", "ask", "save", "rename", "commit", "done", "failed"}

Fresh(name) == [mpn |-> name, normalized |-> NoName, status |-> "PENDING"]
NoRows == <<>>       \* the function with no rows

(* f with the row at id set to row.                                        *)
WithRow(f, id, row) == [i \in DOMAIN f \cup {id} |-> IF i = id THEN row ELSE f[i]]

CatalogInit ==
  /\ catalog = [i \in DOMAIN Seeded |-> Fresh(Seeded[i])]
  /\ boms = [u \in {} |-> <<>>]
  /\ nextId = Len(Seeded) + 1
  /\ pc = [s \in Sessions |-> "idle"]
  /\ pending = [s \in Sessions |-> NoRows]
  /\ draft = [u \in Uploads |-> <<>>]
  /\ found = [u \in Uploads |-> 0]
  /\ loaded = [e \in Enrichments |-> [id |-> 0, row |-> Fresh(NoName)]]
  /\ answer = [e \in Enrichments |-> "none"]
  /\ aliases = {<<i, Seeded[i]>> : i \in DOMAIN Seeded}

Ended(s) == pc[s] \in {"done", "failed"}

-----------------------------------------------------------------------------
(* Locks and waits.                                                        *)

LineOf(u) == Lines[u][Len(draft[u]) + 1]
TargetOf(e) == loaded[e].id

(* An association holds the referenced component row FOR KEY SHARE.        *)
Shares(u, id) == ~Ended(u) /\ \E i \in DOMAIN draft[u] : draft[u][i] = id

(* An update that changes the unique mpn holds the row FOR UPDATE, also    *)
(* while it waits for the name.                                            *)
Renaming(e) ==
  \/ pc[e] = "rename"
  \/ pc[e] = "commit" /\ pending[e][TargetOf(e)].mpn # catalog[TargetOf(e)].mpn

(* The open transactions that have written a row with that name, or one    *)
(* that had it: their outcome decides whether the name is free.            *)
Claimants(s, name) ==
  {t \in Sessions \ {s} : \E id \in DOMAIN pending[t] :
     pending[t][id].mpn = name \/ (id \in DOMAIN catalog /\ catalog[id].mpn = name)}

Taken(name, own) == \E id \in DOMAIN catalog \ {own} : catalog[id].mpn = name

(* The mpn a save leaves in the row: the ORM writes the column only when   *)
(* the answer differs from the mpn it loaded.                              *)
NewName(e) ==
  IF answer[e] \in Names \ {loaded[e].row.mpn}
  THEN answer[e] ELSE pending[e][TargetOf(e)].mpn

(* The sessions that session s waits for before its next statement.        *)
Blockers(s) ==
  CASE pc[s] = "insert" -> Claimants(s, LineOf(s))
    [] pc[s] = "attach" -> {e \in Enrichments : Renaming(e) /\ TargetOf(e) = found[s]}
    [] pc[s] = "mark"   -> {e \in Enrichments \ {s} : TargetOf(s) \in DOMAIN pending[e]}
    [] pc[s] = "save"   -> IF NewName(s) = pending[s][TargetOf(s)].mpn THEN {}
                           ELSE {u \in Uploads : Shares(u, TargetOf(s))}
    [] pc[s] = "rename" -> Claimants(s, NewName(s))
    [] OTHER            -> {}

(* s waits, directly or through others, for itself.                        *)
Deadlocked(s) ==
  \A S \in SUBSET Sessions :
     Blockers(s) \subseteq S /\ (\A t \in S : Blockers(t) \subseteq S) => s \in S

(* A session that ends, committed or not, holds nothing any more.          *)
Release(s, end) ==
  /\ pc' = [pc EXCEPT ![s] = end]
  /\ pending' = [pending EXCEPT ![s] = NoRows]
  /\ draft' = [u \in Uploads |-> IF u = s THEN <<>> ELSE draft[u]]
  /\ found' = [u \in Uploads |-> IF u = s THEN 0 ELSE found[u]]
  /\ UNCHANGED <<nextId, loaded, answer>>

(* The route closes the session, or its process is gone: rolled back.      *)
RollBack(s) ==
  /\ Release(s, "failed")
  /\ UNCHANGED <<catalog, boms, aliases>>

Publish(s) ==
  /\ catalog' = [id \in DOMAIN catalog \cup DOMAIN pending[s] |->
                   IF id \in DOMAIN pending[s] THEN pending[s][id] ELSE catalog[id]]
  /\ aliases' = aliases \cup {<<id, pending[s][id].mpn>> : id \in DOMAIN pending[s]}

-----------------------------------------------------------------------------
(* An upload: BOMPersistenceService.persist_bom.                           *)

Begin(u) ==
  /\ pc[u] = "idle"
  /\ pc' = [pc EXCEPT ![u] = "lookup"]
  /\ UNCHANGED <<catalog, boms, nextId, pending, draft, found, loaded, answer, aliases>>

(* get_by_mpn sees the committed components.                               *)
LookUp(u) ==
  /\ pc[u] = "lookup"
  /\ \/ \E id \in DOMAIN catalog :
           /\ catalog[id].mpn = LineOf(u)
           /\ found' = [found EXCEPT ![u] = id]
           /\ pc' = [pc EXCEPT ![u] = "attach"]
     \/ /\ \A id \in DOMAIN catalog : catalog[id].mpn # LineOf(u)
        /\ pc' = [pc EXCEPT ![u] = "insert"]
        /\ UNCHANGED found
  /\ UNCHANGED <<catalog, boms, nextId, pending, draft, loaded, answer, aliases>>

(* Faulty: the component is committed at once; the name is not unique.     *)
InsertCommitted(u) ==
  /\ pc[u] = "insert"
  /\ Blockers(u) = {}
  /\ ~Taken(LineOf(u), 0)
  /\ nextId \in Ids
  /\ nextId' = nextId + 1
  /\ catalog' = WithRow(catalog, nextId, Fresh(LineOf(u)))
  /\ aliases' = aliases \cup {<<nextId, LineOf(u)>>}
  /\ found' = [found EXCEPT ![u] = nextId]
  /\ pc' = [pc EXCEPT ![u] = "attach"]
  /\ UNCHANGED <<boms, pending, draft, loaded, answer>>

InsertUnchecked(u) ==
  /\ pc[u] = "insert"
  /\ nextId \in Ids
  /\ nextId' = nextId + 1
  /\ pending' = [pending EXCEPT ![u] = WithRow(pending[u], nextId, Fresh(LineOf(u)))]
  /\ found' = [found EXCEPT ![u] = nextId]
  /\ pc' = [pc EXCEPT ![u] = "attach"]
  /\ UNCHANGED <<catalog, boms, draft, loaded, answer, aliases>>

(* ComponentRepository.create, flushed at once.                            *)
Insert(u) ==
  /\ pc[u] = "insert"
  /\ Blockers(u) = {}
  /\ ~Taken(LineOf(u), 0)
  /\ nextId \in Ids
  /\ nextId' = nextId + 1
  /\ pending' = [pending EXCEPT ![u] = WithRow(pending[u], nextId, Fresh(LineOf(u)))]
  /\ found' = [found EXCEPT ![u] = nextId]
  /\ pc' = [pc EXCEPT ![u] = "attach"]
  /\ UNCHANGED <<catalog, boms, draft, loaded, answer, aliases>>

(* Faulty: the insert is tried again for as long as the name is taken.     *)
InsertAgain(u) ==
  /\ pc[u] = "insert"
  /\ Taken(LineOf(u), 0)
  /\ UNCHANGED catalogVars

(* Another transaction committed the name after the lookup.                *)
InsertTaken(u) ==
  /\ pc[u] = "insert"
  /\ Blockers(u) = {}
  /\ Taken(LineOf(u), 0)
  /\ RollBack(u)

(* Faulty: nothing keeps a component from being attached twice.            *)
AttachAny(u) ==
  /\ pc[u] = "attach"
  /\ Blockers(u) = {}
  /\ draft' = [draft EXCEPT ![u] = Append(draft[u], found[u])]
  /\ pc' = [pc EXCEPT ![u] = IF Len(draft[u]) + 1 = Len(Lines[u]) THEN "commit" ELSE "lookup"]
  /\ UNCHANGED <<catalog, boms, nextId, pending, found, loaded, answer, aliases>>

(* The association of a line is flushed before the next query.             *)
Attach(u) ==
  /\ pc[u] = "attach"
  /\ Blockers(u) = {}
  /\ ~Shares(u, found[u])
  /\ draft' = [draft EXCEPT ![u] = Append(draft[u], found[u])]
  /\ pc' = [pc EXCEPT ![u] = IF Len(draft[u]) + 1 = Len(Lines[u]) THEN "commit" ELSE "lookup"]
  /\ UNCHANGED <<catalog, boms, nextId, pending, found, loaded, answer, aliases>>

(* uq_bom_component: the component found is that of an earlier line, which *)
(* was renamed in between.                                                 *)
AttachTwice(u) ==
  /\ pc[u] = "attach"
  /\ Shares(u, found[u])
  /\ RollBack(u)

(* The ingestion record is flushed, the service commits.                   *)
CommitUpload(u) ==
  /\ pc[u] = "commit"
  /\ boms' = WithRow(boms, u, [attached |-> draft[u], rows |-> Len(Lines[u])])
  /\ Publish(u)
  /\ Release(u, "done")

UploadStep(u) ==
  \/ LookUp(u) \/ Insert(u) \/ InsertTaken(u)
  \/ Attach(u) \/ AttachTwice(u) \/ CommitUpload(u)

-----------------------------------------------------------------------------
(* An enrichment: the route's load, enrich_with_orchestrator, the commit.  *)

Load(e) ==
  /\ pc[e] = "idle"
  /\ \E id \in DOMAIN catalog :
        loaded' = [loaded EXCEPT ![e] = [id |-> id, row |-> catalog[id]]]
  /\ pc' = [pc EXCEPT ![e] = "mark"]
  /\ UNCHANGED <<catalog, boms, nextId, pending, draft, found, answer, aliases>>

(* The row is locked as it is now, which is not always as it was loaded.   *)
Mark(e) ==
  /\ pc[e] = "mark"
  /\ Blockers(e) = {}
  /\ pending' = [pending EXCEPT ![e] =
       WithRow(NoRows, TargetOf(e), [catalog[TargetOf(e)] EXCEPT !.status = "ENRICHING"])]
  /\ pc' = [pc EXCEPT ![e] = "ask"]
  /\ UNCHANGED <<catalog, boms, nextId, draft, found, loaded, answer, aliases>>

Answers == Names \cup {"unnamed", "not found", "all failed"}

Ask(e) ==
  /\ pc[e] = "ask"
  /\ \E a \in Answers : answer' = [answer EXCEPT ![e] = a]
  /\ pc' = [pc EXCEPT ![e] = "save"]
  /\ UNCHANGED <<catalog, boms, nextId, pending, draft, found, loaded, aliases>>

(* Faulty: a missing part number is written; every column is written as it *)
(* was loaded.                                                             *)
SavedRowUnnamed(e) ==
  [mpn |-> answer[e], status |-> "ENRICHED", normalized |-> answer[e]]

SavedRowLoaded(e) ==
  IF answer[e] \in Names
  THEN [mpn |-> NewName(e), status |-> "ENRICHED", normalized |-> answer[e]]
  ELSE [loaded[e].row EXCEPT !.status =
          IF answer[e] = "unnamed" THEN "ENRICHED"
          ELSE IF answer[e] = "not found" THEN "NOT_FOUND" ELSE "FAILED"]

(* What the save leaves in the row: only columns whose value differs from  *)
(* the loaded one are written.                                             *)
SavedRow(e) ==
  LET row == pending[e][TargetOf(e)]
  IN  CASE answer[e] = "all failed" -> [row EXCEPT !.status = "FAILED"]
        [] answer[e] = "not found"  -> [row EXCEPT !.status = "NOT_FOUND"]
        [] answer[e] = "unnamed"    -> [row EXCEPT !.status = "ENRICHED"]
        [] OTHER ->
             [mpn |-> NewName(e), status |-> "ENRICHED",
              normalized |-> IF answer[e] # loaded[e].row.normalized
                             THEN answer[e] ELSE row.normalized]

WriteRow(e) ==
  /\ pending' = [pending EXCEPT ![e] = WithRow(pending[e], TargetOf(e), SavedRow(e))]
  /\ pc' = [pc EXCEPT ![e] = "commit"]
  /\ UNCHANGED <<catalog, boms, nextId, draft, found, loaded, answer, aliases>>

Save(e) ==
  /\ pc[e] = "save"
  /\ NewName(e) = pending[e][TargetOf(e)].mpn
  /\ WriteRow(e)

(* The row is locked for a new name before the name is checked.            *)
LockForRename(e) ==
  /\ pc[e] = "save"
  /\ NewName(e) # pending[e][TargetOf(e)].mpn
  /\ Blockers(e) = {}
  /\ pc' = [pc EXCEPT ![e] = "rename"]
  /\ UNCHANGED <<catalog, boms, nextId, pending, draft, found, loaded, answer, aliases>>

Rename(e) ==
  /\ pc[e] = "rename"
  /\ Blockers(e) = {}
  /\ ~Taken(NewName(e), TargetOf(e))
  /\ WriteRow(e)

RenameTaken(e) ==
  /\ pc[e] = "rename"
  /\ Blockers(e) = {}
  /\ Taken(NewName(e), TargetOf(e))
  /\ RollBack(e)

CommitEnrichment(e) ==
  /\ pc[e] = "commit"
  /\ Publish(e)
  /\ Release(e, "done")
  /\ UNCHANGED boms

EnrichmentStep(e) ==
  \/ Mark(e) \/ Ask(e) \/ Save(e) \/ LockForRename(e)
  \/ Rename(e) \/ RenameTaken(e) \/ CommitEnrichment(e)

-----------------------------------------------------------------------------

(* PostgreSQL aborts a member of a cycle of waits.                         *)
BreakDeadlock(s) ==
  /\ Deadlocked(s)
  /\ RollBack(s)

(* A statement fails, the client goes away or the process ends.            *)
Crash(s) ==
  /\ pc[s] # "idle" /\ ~Ended(s)
  /\ RollBack(s)

Work(s) ==
  \/ s \in Uploads /\ UploadStep(s)
  \/ s \in Enrichments /\ EnrichmentStep(s)
  \/ BreakDeadlock(s)

CatalogNext ==
  \/ \E u \in Uploads : Begin(u)
  \/ \E e \in Enrichments : Load(e)
  \/ \E s \in Sessions : Work(s) \/ Crash(s)

CatalogSpec == CatalogInit /\ [][CatalogNext]_catalogVars

(* Each session is its own task: a statement that need not wait is         *)
(* executed, and the database looks for deadlocks.                         *)
FairCatalogSpec == CatalogSpec /\ \A s \in Sessions : WF_catalogVars(Work(s))

-----------------------------------------------------------------------------
(* Correctness.                                                            *)

CatalogTypeOK ==
  /\ DOMAIN catalog \subseteq Ids /\ \A id \in DOMAIN catalog : catalog[id] \in Row
  /\ DOMAIN boms \subseteq Uploads
  /\ nextId \in 1..(MaxComponents + 1)
  /\ \A u \in Uploads : pc[u] \in UploadStages /\ draft[u] \in Seq(Ids) /\ found[u] \in Ids \cup {0}
  /\ \A e \in Enrichments : pc[e] \in EnrichmentStages /\ answer[e] \in Answers \cup {"none"}
  /\ \A s \in Sessions : DOMAIN pending[s] \subseteq Ids
                         /\ \A id \in DOMAIN pending[s] : pending[s][id] \in Row
  /\ aliases \subseteq Ids \X Names

(* An upload leaves all of its BOM or nothing of it: a committed BOM has a *)
(* component of the catalogue for every line and its record, and every     *)
(* component of the catalogue was there before or belongs to a committed   *)
(* BOM, however many uploads failed, waited or crashed between two lines.  *)
UploadAtomic ==
  /\ \A u \in Uploads : pc[u] = "done" <=> u \in DOMAIN boms
  /\ \A u \in DOMAIN boms :
       /\ Len(boms[u].attached) = Len(Lines[u]) /\ boms[u].rows = Len(Lines[u])
       /\ \A i \in DOMAIN boms[u].attached : boms[u].attached[i] \in DOMAIN catalog
  /\ \A id \in DOMAIN catalog \ DOMAIN Seeded :
       \E u \in DOMAIN boms : \E i \in DOMAIN boms[u].attached : boms[u].attached[i] = id

(* Each line of a committed BOM is attached to a component that carried    *)
(* the listed part number at some time, and different lines to different   *)
(* components, although enrichments rename components meanwhile.           *)
LinesResolved ==
  \A u \in DOMAIN boms :
    /\ \A i \in DOMAIN boms[u].attached : <<boms[u].attached[i], Lines[u][i]>> \in aliases
    /\ \A i, j \in DOMAIN boms[u].attached :
         boms[u].attached[i] = boms[u].attached[j] => i = j

(* A part number names at most one component, so that get_by_mpn, which    *)
(* insists on at most one row, cannot fail.                                *)
OneComponentPerName ==
  \A i, j \in DOMAIN catalog : catalog[i].mpn = catalog[j].mpn => i = j

(* An enrichment that learnt nothing changes no identity, not even back to *)
(* what it loaded before another enrichment renamed the component.         *)
FailureKeepsIdentity ==
  [][\A id \in DOMAIN catalog :
       catalog'[id] # catalog[id] /\ catalog'[id].status \in {"FAILED", "NOT_FOUND"} =>
         catalog'[id].mpn = catalog[id].mpn
         /\ catalog'[id].normalized = catalog[id].normalized]_catalogVars

(* Every session that began ends: no wait lasts for ever.                  *)
SessionsEnd == \A s \in Sessions : pc[s] # "idle" ~> Ended(s)

(* A normalized part number, once there is one, is the normal form of the  *)
(* part number beside it.                                                  *)
NormalizedAgrees ==
  \A id \in DOMAIN catalog : catalog[id].normalized \in {NoName, catalog[id].mpn}

=============================================================================
