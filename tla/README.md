# BOM Intelligence Agent: TLA+ specifications and proofs

This directory specifies the backend of the BOM intelligence agent
(`src/backend/app`): what its concurrent, retrying and failing parts do, and
which properties they keep. The modules are translated from the source; every
definition that models code is tied to its lines by `map` in `PROJECT.json`.
Source paths below are relative to `src/backend/app`.

Contents: [1 Inventory](#1-inventory) · [2 Plan](#2-plan) ·
[3 Modules and code](#3-modules-and-code) · [4 Runs](#4-runs) ·
[5 Fairness](#5-fairness) · [6 Proofs](#6-proofs) ·
[7 Findings](#7-findings) · [8 Limits](#8-limits)

## 1 Inventory

The program is a FastAPI service over PostgreSQL (SQLAlchemy, one
`AsyncSession` and thus one transaction per request), Qdrant for documents,
and distributor APIs over HTTP. Requests run side by side as tasks of one or
several processes; they share nothing but the databases.

| Component | State | Operations | Talks to | Hard behaviour | What makes it correct |
|---|---|---|---|---|---|
| **Tool executor** `agents/executor.py`, `retry.py`, `state.py` | `AgentState`: plan, step statuses, executions, step outputs, tool results, errors, status | validate, execute: skip, call, retry, give up, finalise | tools through a registry | failing, raising and ill-behaved tools; retries; skips that propagate; four records of one call | tools are called only when their dependencies succeeded; a malformed plan runs nothing; records agree; the budget is kept; the final status is the summary of the steps |
| **Planner** `agents/planner.py` | none | `plan`, `create_execution_plan` | registry (dependencies of tools) | any tool may be missing from the registry | the executor never refuses its plans |
| **BOM agent** `agents/bom_agent.py` | the session around `AgentState`: evidence, response | `run`: plan, execute, retrieve, respond | planner, executor, RAG | status downgraded after execution | a success is complete; never upgraded; never plans what the executor refuses |
| **Agent graph** `agents/graph/*`, `api/agent_routes.py` | `GraphState`: node, `graph_status`, `graph_errors` beside `AgentState` | nine nodes, three routers | the same, as LangGraph nodes | two statuses; a list of errors that misses those of the tools | gives the answers of the BOM agent |
| **Catalogue: upload** `services/bom_ingestion_service.py`, `bom_persistence.py` | components, BOMs, associations, ingestion records | find-or-create per line, attach, commit | PostgreSQL | concurrent find-or-create, deadlock, crash between lines | a BOM is stored whole or not at all; one component per part number |
| **Catalogue: enrichment** `services/component_enrichment.py`, `intelligence/enrichment/orchestrator.py` | component row, `enrichment_status` | mark, ask providers, save, commit | PostgreSQL, providers | a transaction open across HTTP; stale loaded row; renames | a failed enrichment keeps the identity; names stay unique; nobody waits for ever |
| **Risk workflow and history** `services/*risk*`, `db/repositories/*risk*`, `intelligence/risk/bom_trend_analyzer.py` | risk, lifecycle and snapshot records | analyse the components of a BOM / a BOM, read latest, history, trend | providers, PostgreSQL | interleaved analyses of BOMs that share components; order of snapshots by start time | stored as a whole or not at all; a snapshot is built from records of its own analysis or later ones; report and trend agree on the latest |
| **Risk scoring** `intelligence/risk/*`, `intelligence/lifecycle/*`, `intelligence/availability/*`, `intelligence/bom/service.py` | none | score, classify, aggregate, explain | - | thresholds; a list cut to ten | what is elevated is what ought to be; elevated components are named |
| **Documents and index** `rag/documents/*`, `rag/indexer.py`, `rag/vector_store.py`, `rag/initialization.py` | Qdrant points, ingestion records | start, upload, chunk, embed, upsert, record | Qdrant, PostgreSQL | dual write without a common transaction; re-upload; two starts at once | what is recorded is searchable, all of its text; no vector of another dimension |
| **Retrieval** `rag/service.py`, `retriever.py`, `reranker.py`, `evidence.py` | none | search, rerank, cite | Qdrant | two cuts by two scores | no better chunk is left out |
| **BOM pipeline** `ingestion/*`, `api/bom_routes.py` (upload, latest) | none | detect, parse, validate, normalise, deduplicate, store, answer | upload | two column detectors; merging of lines; who decides what an error is; an answer lost after the commit | the BOM read back is what the file says; a success has stored it, a refusal has not |
| **Parsers** `ingestion/parsers/*` | none | CSV, Excel, JSON, XML | files | records with different keys | every record's keys are read |
| **Providers** `intelligence/enrichment/{mouser,arrow,digikey}.py`, `distributor_service.py` | DigiKey token cache | enrich, quote | HTTP APIs | token expiry, partial failure, zero and missing values | a token is not used beyond its life; a failure is left out |
| **Decision, supplier selection** `intelligence/decision/engine.py`, `intelligence/availability/supplier/*` | none | score, select, decide, cost | - | checks made twice in two places; order of rules | decision and cost agree; what is bought is alive |
| **Alternatives** `intelligence/alternatives/matcher.py`, `services/alternative_*` | recommendations | discover, analyse, match, rank, persist | PostgreSQL, providers | gates beside a threshold | no candidate that fits is lost |
| **Reports** `services/report_service.py` | none | read, assemble | PostgreSQL (reads) | several reads beside writers | headline and components fit |
| **Configuration, health** `core/*` | settings | - | environment | - | - |
| **Worker, frontend, migrations** `src/worker`, `src/frontend`, `src/migrations` | - | - | - | - | the worker registers no task |

How they interact: `agent_routes` builds a graph per request, whose planner and
executor share a tool registry; the tools of the registry call the intelligence
services on the BOM that the request carries, without the database. `bom_routes`
uploads through pipeline and persistence, and runs the risk workflow, which
enriches or asks availability component by component, writes risk records, and
then a snapshot of the BOM. `component_routes` enriches and finds alternatives.
All of these meet in the component rows.

The hazards, each at its line with the properties that cover it, are listed in
`PROJECT.json`.

## 2 Plan

What exists, in the order it was built, and what is left.

1. **The agent.** `PlanRun` (abstract: what a plan run promises),
   `ToolExecutor` (implements it), `AgentPlanner` (pure), `AgentSession`
   (what both agents share, composes executor and planner), `BOMAgent`
   (abstract order of a request), `AgentGraph` (the deployed graph,
   implements `BOMAgent`). Every safety property and both refinements are
   proved.
2. **The catalogue.** `Catalog`: uploads and enrichments as transactions. All
   safety properties are proved.
3. **Risk.** `RiskScoring` (pure) and `RiskHistory` (analyses and reports
   statement by statement), which extends it. All safety properties are
   proved.
4. **Documents.** `Documents`: start-up, uploads to two stores, retrieval.
   All safety properties are proved.
5. **Sourcing.** `Distributors`, `Suppliers`, `Alternatives` (pure; each
   extends the one before, the first `RiskScoring`) and `Sourcing`, the
   requests that use them call by call. All safety properties are
   proved.
6. **The pipeline.** `Pipeline`: from the file to the latest BOM. Both of its
   properties are proved.

Left: the reading of CSV, Excel and JSON files and the bodies of the agent's
tools, which are not modelled; liveness stays with TLC.

## 3 Modules and code

### Lists

Python's lists as the services use them: a set or a list in some order
(`InOrder`, `ByKey`), the elements that pass a test (`Where`, `AtIndices`), a
list of lists as one (`Flattened`), a sum (`Total`), the first few (`FirstOf`).
An element is found by its place, the number of elements before it, so what these
operators return can be proved (`ListProofs`), which what `SelectSeq`, `SortSeq`
or the folds of the libraries return cannot: those are recursive.

### PlanRun, ToolExecutor

`PlanRun` says what one execution promises, with no order but that of the
dependencies: an unsound plan is refused as a whole, a step settles once, after
the steps it needs, as skipped if one of them did not succeed, and the verdict
summarises the outcomes.

`ToolExecutor` is `AgentExecutor.execute` for a structured plan. Its variables
are the fields of `AgentState` (`plan` = `execution_plan`, `executions`,
`outputs` = the keys of `step_outputs`, `results` = the executions with an entry
in `tool_results`, `errors`, `status`) with the step statuses of the plan and a
`phase` for where the call is. `Valid` has the five checks of the code as they
are written, `HasDependencyCycle` stating what its depth-first search decides.
One action is one path through the loop body: `SkipBlocked`,
`FailUnregistered`, `Call`, then `Retry` any number of times within the budget,
and one of `GiveUp`, `BreakContract`, `Succeed`, `ReportSkip`, `ReportFailure`.
`Finalize` is `_finalize_plan_status`. Tools are external: every outcome of a
call is possible at every call. Data is abstracted to identity: an output is the
id of the step that produced it, an error its kind and its step. `given` records
which outputs a call was handed.

### AgentPlanner, AgentSession, BOMAgent, AgentGraph

`AgentPlanner` abstracts a task to the set of keyword groups found in it, which
is all `plan` reads; `PlanFor` and `Refused` are `create_execution_plan` with
and without `validate_registered_tools`. `AgentSession` adds to the executor's
variables the request, whether a retrieval service is configured, errors
recorded outside the executor, evidence, and the response, and defines what both
agents do: `RefuseTask`, `Retrieve`, `Answer`. `BOMAgent` runs them in the order
of `BOMAgent.run`. `AgentGraph` has an action per node of `agents/graph/graph.py`
(entering, running and leaving the executor node are three, because `execute` is
awaited) with `graph_status` and `graph_errors` beside the agent's, and the
routers as `RouteAfterPlanner`, `RouteNode` and `TerminalNode`. The three
routing nodes (`bom`, `component`, `alternative`) are one action, `RouteNode`.
The refinement mapping computes the stage of `BOMAgent` from node, phase and
response, and drops the `unsupported` entry, which only the graph adds.

### Catalog

One action is one SQL statement of a request's transaction. An upload: `Begin`
(the transaction), then per line `LookUp` (`get_by_mpn`), `Insert` if nothing
was found (`ComponentRepository.create` flushes), `Attach` (the association,
flushed by the next query), and `CommitUpload` with the ingestion record. An
enrichment: `Load` (the route), `Mark` (`ENRICHING` is flushed, so the row stays
locked), `Ask` (the providers, with the transaction open), `Save` or
`LockForRename` and `Rename` (the final flush), `CommitEnrichment`.

PostgreSQL is external, at its default isolation READ COMMITTED: a
statement sees what is committed when it runs and the transaction's own writes,
`pending`, which `CommitUpload` and `CommitEnrichment` publish at once.
`Blockers` says whom a statement waits for: an insert or rename for the open
transactions that have claimed or may free the unique `mpn`; an association for
a rename of the row it references (FOR KEY SHARE against FOR UPDATE); a rename
for the associations of its row; a mark for the other holder of its row.
`BreakDeadlock` aborts a member of a cycle of waits, `Crash` ends a session at
any point. The ORM detail that matters is kept: an update writes only the
columns whose new value differs from the loaded one (`NewName`, `SavedRow`), and
the row was loaded before it was locked. A part number is a value that the
normaliser leaves unchanged. `aliases` is a history variable for `LinesResolved`.

### RiskScoring, RiskHistory

`RiskScoring` has what the intelligence services compute without state:
`Lifecycle` and `Availability` of a component from the distributors' answers,
`ComponentRisk`, `Assessment` of a BOM with its top components, `Explanation`,
and the trend between two snapshots. An answer is the status and the quantity it
gives. Every reachable weighted score is an integer; the mean of a BOM is kept in
hundredths, as it is stored.

In `RiskHistory` one action is one SQL statement with the computation that leads
to it. An analysis: `Begin`, then per component `RecordLifecycle` and
`RecordRisk`, then `Assess` (the latest records of the components are read)
and `RecordSnapshot`, and `Commit`, or `RollBack` at any point. The two routes
that analyse a BOM execute the same statements. A report: `ReadSnapshot`, per
component `ReadRisk` and `ReadLifecycle`, `Build`. Reads that are one statement
(`CurrentRisk`, `RiskHistoryAnswer`) are operators of the state. PostgreSQL is
external: `written` is what a transaction has added, `nextId` its sequences,
`started` is `now()`, the start of the transaction. The history answers in
the order of ids, the trend and `LatestSnapshot` go by time and then id.

### Documents

Processes `Start`, `Create` or `Compare`, and serve; `Crash` takes the requests
of the process with it. An upload: `Load` (and chunk), `Embed`, `Upsert`,
`Record`; each call may fail, the two writes also after they took effect.
`Retrieve` is one step: search, rerank, cut. A page is a sequence of blank and
inked characters, a chunk the range of its page. Text of two chunks that is equal
is not told apart from text that differs.

### Distributors, Suppliers, Alternatives, Sourcing

`Distributors` has what each of the three providers makes of a listed part: which
part it takes (`FirstMatch`), which price break, which stock and lead time, and
what it does with a value that is missing, zero or unreadable (`Given`, `Number`,
`Positive`). `Suppliers` has `Eligible`, the score of a quote, the choice, the
`Decision` and the cost of a line and of a BOM. `Alternatives` has `Discovered`,
the gates (`Compatible`), `MatchScore` and the ranking. `Sourcing` makes the
requests: `Begin`, the calls (`UseToken`, `AskToken`, `SearchKeyword`,
`GetDetails`, `Answered`, `Nothing`) provider by provider, first to enrich
and then to quote, `DecideLine`, `FailLine` or `EndCandidate` per component, and
one of the `Finish` actions. `token` is how long the cached token is still valid,
in timeouts (15 seconds); a call takes none or one of them. The token cache
lives as long as the providers of a request. The answers of two
calls are independent. Both routes for alternatives build their service without an
intelligence service, the agent's tool with one: `service` says which.

### Pipeline

The upload of a file from `Receive` through `Refuse` (the checks of the route, in
their order), `Parse`, `CheckStructure`, `MergeRows`, `Store` and `Answer`, and
`GetLatest`. A header is a sequence of words, a cell what stripping leaves of it.
The two column detectors of the code are both there: `Detections` (shares of
words, margins) for the structure check and `Mapping` (exact aliases) for the
reading of rows. `Detect` is what one field finds among the columns no earlier
field uses, `Grouped` what one line adds to the lines merged so far; the loops over
fields and lines are recursive functions. `Store` is one step, which `Catalog` has
statement by statement: it fails and nothing is stored, or takes effect and the
answer of the commit arrives or is lost. `Leave` is the way out of the temporary
directory, whose clean-up may fail and turn any answer into a 500. Joining references by
commas for the table and splitting them again is left out: the parts come from a split at
commas and hold none.

### Faulty variants

An operator whose comment begins with "Faulty:" is not part of the
specification. It stands before the definition it is a wrong version of (a
dropped guard, an off-by-one, a forgotten record), and `mutants` in
`PROJECT.json` names for every property of every passing run the variant that
breaks it: put in place of the definition, TLC finds the property violated.
They show that no property holds by the shape of the model.

## 4 Runs

Each run is `tlc -config X.cfg M` in this directory.

| Run | Module, cfg | Shows |
|---|---|---|
| `mc_tool_executor` | `MCToolExecutor` | Every plan of at most two steps over three ids (duplicate ids, unknown, late, self and circular dependencies included) and every plan of three steps with distinct ids, every registry over two tools, every outcome of every call with two attempts: `CallsAreReady`, `AllOrNothing`, `RecordsAgree`, `FailuresExplained`, `RetriesExhausted`; `PlanPromise`: the executor implements `PlanRun`; `Termination`. |
| `bom_agent` | `MCBOMAgent` | Every task (by keyword groups), registry, planner mode and retrieval: `PlansAreRunnable`, `AlternativesNeedBom`, `SuccessIsComplete`, `NeverUpgraded`, `AgentAnswers`. |
| `agent_graph` | `MCAgentGraph` | The same inputs through the graph: `ImplementsBOMAgent`, `StatusesAgree`, `NodeErrorsAgree` (the graph's errors are those recorded outside the executor; with the verdict on the executions they decide the answer), `GraphAnswers`. |
| `catalog` | `MCCatalog` | Two uploads of the parts a, b in opposite orders and two enrichments, over a catalogue that knows a: `UploadAtomic`, `LinesResolved`, `OneComponentPerName`, `FailureKeepsIdentity`, `SessionsEnd`. |
| `normalized_mpn` | `MCCatalog`, `MCNormalized.cfg` | A counterexample, see [Findings](#7-findings). |
| `risk_history` | `MCRiskHistory` | Two analyses of one BOM of two components and a report, in every interleaving, with every mixture of three markets and a roll-back anywhere: `AnalysisAtomic` (stored whole or not at all), `SnapshotFresh` (computed from one record per component, its own or a later committed one), `ReportCovers` (what a report shows is never older than its headline), `RisksNamed` (an elevated component is named, or displaced by none that is less at risk), `ElevationJustified` (which mixtures of lifecycle and stock are elevated), `TrendMatchesReport`. |
| `documents` | `MCDocuments` | Two processes of two possible dimensions with three starts, three uploads of two documents, a retrieval, crashes and lost answers: `RecordedIsSearchable` (as many points as recorded, and all of the text in them), `DimensionsAgree`, `EvidenceUndominated`. |
| `sourcing` | `MCSourcing` | Six requests (a BOM, a component, a lifecycle, alternatives with and without an intelligence service and of a part nothing is known of), every call failing, timing out or answering: `TokenLive`, `FailureExplained`, `AlternativesComplete`, `EstimateIsTheCost` (selector, provider and calculator agree), `BuyIsSafe`. |
| `hierarchy` | `MCSourcing`, `MCHierarchy.cfg` | A counterexample, see [Findings](#7-findings). |
| `zero_stock` | `MCSourcing`, `MCZeroStock.cfg` | A counterexample, see [Findings](#7-findings). |
| `ingestion` | `MCPipeline` | Two uploads of files of up to two rows in nine layouts of columns (accepted, ambiguous, missing, found by one detector only, with two columns of references) and of files that are refused: `LatestAsWritten` (the BOM read back says what the file says: the required fields in the columns the check was confident about, the references in the last column that names them), `AnswerTellsStored` (a success has stored the BOM once, a refusal has not, a 500 at most once). |
| `first_record` | `MCPipeline`, `MCFirstRecord.cfg` | A counterexample, see [Findings](#7-findings). |

**Bounds.** Three steps are what a skip needs to propagate (failed, skipped
for it, skipped for that one) and what a cycle needs to avoid being a pair; the
theorems below remove the bound. Two attempts have a first, a middle (retried)
and a last one (given up); `MaxAttempts = 2` is also small enough to see the budget
used and exceeded. The agents' plans have at most two steps by construction
(`AgentPlans` is the set of all plans the planner makes), so their runs are
bounded by nothing but `MaxAttempts`. In `Catalog`, `MaxComponents` bounds the ids
ever drawn: two uploads of two lines draw at most four beyond the seeded one, so
five is never reached as a limit. Two uploads with crossed lines are the least
that deadlock, two enrichments the least that go stale, and one upload with one
enrichment the least that renames a component between lookup and attach.

`RiskHistory`: two analyses are the least of which one can overtake the other
between its records and its assessment; `TopLimit` is 1 (10 in the code), so that
two components already overflow the list; the three markets score on both sides
of the thresholds 20, 50 and of `HIGH`. `Documents`: `MaxStarts = 3` has two
processes starting at once and one of them again; windows of three characters that
overlap by one give a page of several windows, an empty page and a blank window;
three chunks are retrieved and two kept. `Sourcing`: `Lifetime = 5` and `Buffer = 2`
timeouts make a token expire within a BOM of two lines (a line has up to
eleven calls); the buffer is the code's 30 seconds. `Catalogue` has a component that
passes every gate, one that passes by its family, three that fail one, and one
without any text. `Pipeline`: two rows merge, differ or are refused, a second
upload finds the first one's components (`MaxUploads = 2`).

The two analyses of `MCRiskHistory` and the two processes of `MCDocuments` are
interchangeable (nothing in the specifications names one of them), and
these runs, which check no liveness, use that symmetry.

**Deadlock** is not checked: the models handle a bounded number of
requests, and rightly stop when all of them have ended. That nothing stops
earlier is what `Termination`, `AgentAnswers`, `GraphAnswers` and `SessionsEnd` say.

## 5 Fairness

- `FairSpec`, `FairAgentSpec`, `FairGraphSpec`: weak fairness of the
  executor's, agent's or graph's steps as a whole. They are one coroutine that
  awaits one call after another; the assumption is that an awaited tool,
  retrieval or planner returns or raises. Tools work on data in memory;
  the retrieval service's clients have timeouts of their own. Nothing is assumed
  about which outcome a call has; submitting a plan or a request is not fair.
- `FairCatalogSpec`: weak fairness of each session's `Work`. A session whose
  statement need not wait gets its turn (the event loop and PostgreSQL), the
  providers answer or time out (their HTTP clients do), and PostgreSQL looks
  for deadlocks. `Crash` is never assumed, `Begin` and `Load` neither.

`RiskHistory`, `Documents`, `Sourcing` and `Pipeline` state no fairness and no
liveness: their requests are straight sequences of steps that wait for nobody, so
that "each ends" would say no more than the assumption, and what is
asked of them is safety.

## 6 Proofs

Checked by tlapm. A theorem holds for all values of the constants that satisfy
the named assumptions of its module: any number of sessions, processes, lines and
records, and lists of any length, where a run has two or three.

| Module | Theorem | States | Says |
|---|---|---|---|
| `ToolExecutorProofs` | `Inductive` | `Inv` | the inductive invariant of the executor |
| | `TypeCorrect` | `TypeOK` | types, and which positions are executed in which phase (`Shape`) |
| | `ReadyCalls` | `CallsAreReady` | a call has the outputs of its dependencies, which succeeded |
| | `NoPartialPlan` | `AllOrNothing` | an unsound plan executes nothing, a sound one is executed to the end |
| | `ConsistentRecords` | `RecordsAgree` | the four records of one step agree |
| | `NoSilentFailure` | `FailuresExplained` | what did not succeed is explained |
| | `WholeBudget` | `RetriesExhausted` | no call is given up early, or repeated beyond the budget |
| | `ValidationIsSoundness` | - | the five checks accept exactly the sound plans |
| | `Implementation` | `PlanPromise` | the executor implements `PlanRun` |
| `AgentProofs` | `AgentInductive` | `AgentInv` | the inductive invariant of a request to the agent |
| | `PlansRunnable` | `PlansAreRunnable` | the executor refuses no plan of the planner |
| | `AlternativesOrdered` | `AlternativesNeedBom` | alternatives only after a BOM analysis that succeeded |
| | `CompleteSuccess` | `SuccessIsComplete` | what a success contains |
| | `StatusNeverRises` | `NeverUpgraded` | a status is only lowered after execution |
| | `GraphInductive` | `GraphInv` | the inductive invariant of a request to the graph |
| | `StatusAgreement` | `StatusesAgree` | the graph's status is the answer's |
| | `NodeErrorAgreement` | `NodeErrorsAgree` | the graph's errors are those recorded outside the executor, and decide the answer with the executions |
| | `GraphImplementsAgent` | `ImplementsBOMAgent` | the graph implements the BOM agent |
| `CatalogProofs` | `CatalogInductive` | `CatalogInv` | the inductive invariant of uploads and enrichments |
| | `CatalogTyped` | `CatalogTypeOK` | types |
| | `UploadsAtomic` | `UploadAtomic` | a BOM is stored whole or not at all |
| | `EveryLineResolved` | `LinesResolved` | a line refers to a component of its part number |
| | `NamesUnique` | `OneComponentPerName` | no two components have one part number |
| | `IdentityPreserved` | `FailureKeepsIdentity` | a failed enrichment renames nothing |
| `RiskHistoryProofs` | `HistoryInductive` | `HistoryInv` | the inductive invariant of analyses and reports |
| | `RecordsIdentified` | `RiskTypeOK` | types, and unique ids |
| | `AnalysisWhole` | `AnalysisAtomic` | an analysis is stored whole or not at all |
| | `SnapshotNewest` | `SnapshotFresh` | a snapshot is of one record per component, its own or a later one |
| | `ReportsComplete` | `ReportCovers` | a report shows nothing older than its headline |
| | `ElevationsExplained` | `ElevationJustified` | which mixtures of answers are elevated, for every list of answers |
| | `SnapshotsInductive` | `SnapshotsInv` | the inductive invariant of the snapshots |
| | `RisksAreNamed` | `RisksNamed` | who is elevated is named, or displaced by none less at risk |
| | `TrendsAgree` | `TrendMatchesReport` | trend and report agree, and the trend never contradicts the severities |
| `DocumentsProofs` | `DimensionsConsistent` | `DimensionsAgree` | no vector of another dimension is written or searched |
| | `RecordsSearchable` | `RecordedIsSearchable` | a recorded document has all its points and all its text |
| | `EvidenceIsUndominated` | `EvidenceUndominated` | no chunk is cited while a better one is left out |
| `SourcingProofs` | `TokenStaysLive` | `TokenLive` | no call has an expired token |
| | `DecisionsAreSafe` | `BuyIsSafe` | nothing at the end of its life is bought |
| | `AlternativesAreComplete` | `AlternativesComplete` | which alternatives are shown, recommended and recorded |
| | `SourcingInductive` | `SourcingInv` | the inductive invariant of a request |
| | `DecisionsCostWhatTheySay` | `EstimateIsTheCost` | selection and calculator agree about a quote and its price |
| | `FailuresHaveReasons` | `FailureExplained` | why a request fails, and that it records nothing then |
| `PipelineProofs` | `ColumnsAgree` | - | the two detectors of columns agree on the required fields of an accepted file |
| | `AnswersTellStored` | `AnswerTellsStored` | a success has stored one BOM, a refusal none, a 500 at most one |
| | `LatestBomAsWritten` | `LatestAsWritten` | the latest BOM is what its file says |

`ListProofs` holds no theorem of its own, but the lemmas about lists, sums and
joined lists that the others rest on.

**Assumptions.** Each is named, stands with the constants it is about, and is
evaluated by TLC in the runs. `PlansAssumption`: a plan is a sequence of steps.
`AttemptsAssumption`: `MaxAttempts` is positive (`RetryPolicy` raises for less).
`AgentAssumption`: the executor is given at least the tools and plans of the
planner. `CatalogAssumption`: an upload has at least one line and no part number
twice (the pipeline merges them). `HistoryAssumption`: a BOM has at least one line;
a component may be on several. `DocumentsAssumption`: a chunk is longer than its
overlap (the chunker checks it). `ScoresAssumption`: every chunk has a similarity to every query and a coverage.
`ScoringAssumption`: `TopLimit` is positive. `CatalogueAssumption`: the catalogue
is finite and no two components have one part number (the column is unique,
`models/component.py:26`). `RequestsAssumption`: alternatives are asked of a
component of the catalogue, and at least one of them (any other request is
refused before anything is asked); another request has at least one line, each of a
quantity above zero (`ingestion/validator.py:57`; the services refuse others).
`ListingsAssumption`: what the providers read of a part has been parsed, so that each
field is a number or is not reported.
`PipelineAssumption`: a file's headers and rows are lists, its rows have cells
under headers, a cell's number is an integer or not reported, and what stands for
"not reported" is neither of them.
`SourcingAssumption`: a token lives longer than the buffer and a timeout. `BufferAssumption`: the buffer of the token, in timeouts,
is at least the number of calls between its check and the last call that uses it.

**The executor.** None of its five properties is inductive alone. A call is
ready (`CallsAreReady`) because a dependency that has been reached and is not
failed or skipped has succeeded, and the outputs of the successful steps are
there: that needs `RecordsAgree`, and that every earlier step has been reached and
ended, which is `Shape` (in which phase which positions are executed, and that
only the last one can be running). `RecordsAgree` needs `Untouched` (a step not
reached is pending) for the step that `Call` reaches. `AllOrNothing` needs the
plan to be valid while stepping (`Shape`) and `ValidationIsSoundness`. So `Inv`
is `TypeOK`, `Shape`, `Untouched` and the five together, with one lemma for
each, by cases on the actions; actions that do not touch the executions are
treated together (`QuietStep`), and so are those that end a call (`CallEnds`).
`ValidationIsSoundness` is where the code is more than the specification: it
searches for cycles after it has compared positions. `SoundIsValid` shows that
the search refuses nothing more, because a cycle would have an earliest step
whose dependency in the cycle would be earlier still (`LeastElement`).
`Implementation` maps an action that ends an execution to `Settle` of its step,
`Reject` to `Refuse`, `Finalize` to `Conclude`, the rest to stuttering.

**The agents.** `AgentProofs` begins with what both agents share: the
executor's `Inv` carries over (`SessionInv`) because no action of a session
touches the executor's variables while it runs, and which plans the planner
makes for which words and registry. `StageInv` and `NodeInv` add what is known
at each stage or node: above all, that a status of success still means no
errors and the evidence that was asked for, after every node that may
downgrade it. `VerdictKept` says the rest of how a status comes about: after the
executor it is the verdict on the executions, or a success lowered by an error that a
node has recorded (`NodeErrorAgreement`). The refinement mapping of the graph is the one in `AgentGraph`.

**The catalogue.** `OneComponentPerName` is about committed rows, but a
violation would be committed by two transactions that both believe a name is free.
`CatalogInv` says what an open transaction holds: a row is written by one of
them at a time (`RowsHeld`), and a name, committed or written and not yet
committed, belongs to one component (`NamesHeld`), so that a commit may publish
what it has written. `UploadAtomic` needs that the lines written
so far are those before the current one (`DraftHeld`), and `FailureKeepsIdentity`
that an enrichment holds the committed identity until it is answered
(`IdentityKept`): the row is loaded before it is locked, and only what differs
is written, so that this is not obvious.

**Risk.** `HistoryInv` has five layers. `Shape`: what each session has done at
which statement. `RowsHeld`: the ids drawn by a transaction are its own and
below the next of the sequence, although a roll-back gives none back.
`LinesInv`: the records written so far are those of the components passed.
`FreshInv`: what is read for the assessment is not older than what was written
for it. `ReportsRead`: what a report has read is at least what its snapshot was
computed from, by ids that only grow. `ElevationJustified` is about every
list of answers: every case of lifecycle and stock gives a weighted score, which
is compared with the threshold.
`SnapshotsInv` is on top of these: the list assessed has one entry for each
component (`BomRisksMatch`: the first line of a component that has a record), so
that who is named follows from how the list is sorted and cut (`TopRisks`,
`NamedOf`), and times with ids order the snapshots of a BOM strictly
(`SnapshotsOrdered`), so that there is one last one. That the trend does not
contradict the severities is a matter of rounding: the severity is judged by the
mean before it is rounded, the trend by what was stored. `MeanBelow` and
`MeanAbove` show that no mean is rounded across a threshold, for any count.

**Documents.** `DimInv` rests on a fact about time: a process that compares
has found a collection, which never changes again, so what it compared stays
true until it serves, whoever creates or crashes beside it. `StoredInv` says that
points are chunks, named by their document and number, so that a second upload of
a document overwrites and never adds, and that an upload about to be recorded has
all its chunks stored. That chunks cover their page, for every
window and overlap, is `ChunksCover`. `EvidenceUndominated` is about two cuts by
two scores: the index answers the closest chunks, any of equally close ones
(`Nearest`), and the reranker sorts these by closeness and words together. If a
chunk survives both cuts, one that is closer and covers more does, because the
combined score grows with each (`CloserAndCoveringIsHigher`).

**Sourcing.** `TokenInv` is what is left of a token at each product call: one
timeout less per call since it was checked. For `BuyIsSafe` the invariant says
that what has been collected are lists of what the distributors may answer; the
rest is the order of the rules of the decision. For `AlternativesComplete` it
says that the candidates are analysed one by one, in their order (`Analysed`); from
that, `AnswerCovers` has which of them an answer shows and `RecordsNamed` that
looking the names up again finds the same components. That no candidate is lost to
the matcher's threshold is arithmetic on the gates (`PassedScores`): what passes
them has at least 36.25 points, and less than 80 without a lifecycle status
or a stock. `EstimateIsTheCost` and `FailureExplained` need what the quotes are:
that a provider makes of any part a quote with numbers and the price its breaks give
(`QuoteIsQuote`, `QuotedOnce`), and that a component has at most one quote of each
supplier, because the providers are asked in turn (`QuotesInv`). The selected
quote is a maximum of fractions; that there is one, unless a score is divided by
zero, is `ScoreTyped` and `BestCanDeliver`. Two gates on a quote that are written
differently agree (`EligibleFulfils`), so that a decided line can always be costed,
and a BOM fails for its currencies alone (`LinesInv`, `CurrenciesExplained`).

**The pipeline.** `AnswerTellsStored` compares what the service decides before
the store with what the route answers after it. `UploadInv` says that an upload
that has passed the store without an error has its own BOM exactly when its result is
storable, and that the BOMs of other uploads have other numbers (`StoredOnce`); the three
ways an upload ends with a 500 leave it with one BOM or none (`EndsWell`). `LatestAsWritten` is
carried by `RowsInv`: what an upload holds is made of its file, and what is
stored or shown is `Faithful` to a file that was accepted. The rest is data.
`Sums` is what a list of lines merges into: `Groups` and `Counts` say it of the
lines merged so far, where quantities are compared with the partial sums that
`Total` is made of, so that the proof goes line by line (`AppendedGroup`,
`MergedGroup`) to `DeduplicatedSums`. That the rows are read in the columns the
structure check found is `ColumnsAgree`. It depends on the words of the aliases.
The quantity is looked for sixth, and one of the five fields before it could have
taken its column: `QuantityColumnsFree` shows that none can, because every
alias of theirs has at most the word "number" in common with an alias of the
quantity, which is never more than half of it (`EarlierForeign`, `Shares`). Then
the column has the full score, and no other has it unless the check reports it as
ambiguous (`DetectExact`). None of this holds of the optional fields, whose columns may be
ambiguous or inexact: `LatestAsWritten` reads references in the column that
`Mapping` chooses.

**Lists.** `ListProofs` has what the operators of `Lists` return: the list of a
set has each element once (`InOrderLists`), in order; the kept elements of a list are
its elements at those indices; a sorted list has the keys in order.
Induction over data is out of the provers' reach as a rule of the library, so
where it is needed, for a particular recursion, the proof takes a least
counterexample (`Lowest`): that the recursive functions of `Total`, `Detections` and
`Deduplicated` have a value at every index (`SumsExist`, `DetectionsExist`,
`GroupsExist`), and what is true of it (`TotalSums`, `DeduplicatedGroups`).

**Only model-checked.** Liveness (`Termination`, `AgentAnswers`, `GraphAnswers`,
`SessionsEnd`) is outside what tlapm's provers reach and stays with TLC. Every
safety invariant and action property of a passing run is proved.

## 7 Findings

- **A normalized part number that is not** (`normalized_mpn`,
  `NormalizedAgrees`). `component_enrichment.py:264` sets `mpn` and
  `normalized_mpn` to one value. The component was loaded before its row was
  locked, and only columns that differ from the loaded ones are written: an
  enrichment that waited for one that renamed the component, and is answered
  with the old part number, writes `normalized_mpn` and not `mpn`.
- **A stock of zero that is unknown** (`zero_stock`, `SelectedHasStock`).
  `intelligence/enrichment/digikey.py:701` (and 602 for the enrichment) takes
  `QuantityAvailable or Quantity`: a stated zero is replaced by the second field,
  and becomes unknown when that is missing. An unknown stock counts as
  sufficient (`supplier/selection.py:114`): the decision is to buy from a supplier
  that states it has none.
- **The hierarchy of a decision** (`hierarchy`, `CriticalIsReviewed`). The docstring
  of `decide` (`intelligence/decision/engine.py:53-58`) lists "Critical risk ->
  REVIEW" first and "No eligible supplier -> SOURCE_ALTERNATIVE" third. The code
  (93-127) returns for a missing supplier first: a discontinued component whose only
  quote cannot deliver is critical, and is to be replaced, not reviewed.
- **The columns of the first record** (`first_record`, `ReferencesCombined`).
  `ingestion/pipeline.py:89` takes the keys of the first record for the columns of
  the file, and the XML parser leaves out empty elements: when the first row of a part
  is the first of the file and has no reference designators, those of the part's other
  rows are lost, although the deduplicator says that they are combined
  (`ingestion/deduplicator.py:8-11`), and the upload is a success. So are those of every
  other part.

Observed while modelling, without a run of its own:

- `_build_summary` (`agents/bom_agent.py:453`) words the summary of a partial answer by
  the status alone: "One or more tools failed during execution." A status is partial
  also when every tool succeeded and the evidence could not be retrieved, or when a tool
  reported a skip; `failed_tools` is then empty. `Answer` in `AgentSession` has both.
- An upload answered with 500 may have stored its BOM: when the answer of the commit
  (`services/bom_ingestion_service.py:65`) is lost, or the clean-up of the temporary
  directory (`api/bom_routes.py:134`) fails after it. A client that tries again stores a
  second one. `AnswerTellsStored` says what can be relied on.
- After a failed tool `AgentState.errors` and `graph_errors` differ: the executor's
  node (`agents/graph/graph.py:281-286`) copies nothing of what the executor adds to
  the first. No answer or route reads the second.
- A price or a lead time of zero beside a positive one raises `ZeroDivisionError`
  in the supplier scores, and two currencies in one BOM an exception in the cost: the
  whole request fails, where a distributor that fails is left out. The models have
  both, and `FailureExplained` says that nothing else does that.
- Two rules say which components have an availability risk: `services/bom_risk.py`
  goes by the severity of the component (an obsolete part in full stock counts),
  the report and the BOM intelligence by its availability score. The report shows a component without a record as available.
- An obsolete candidate with enough stock may be `RECOMMENDED` (75 points for the
  match and 10 for the stock, with a threshold of 80).
- Discovery compares texts exactly and the matcher without case: a component that
  the matcher would accept is only found when another of its texts agrees.
- `GET /latest` counts in `total_rows` the components after deduplication, and
  shows the texts of the catalogue, which are those of the first upload that had
  the part.
- A second column that names reference designators is dropped without a message:
  `detect_columns` (`ingestion/detector.py:323`) keeps the last alias of a field, and
  ambiguity is only reported of the required fields. The references the first one
  states are lost.
- `normalize_reference_designators` splits at commas and the like and not at
  blanks, although its docstring's example has blanks.

## 8 Limits

What is abstracted or left out:

- *Executor*: `_execute_legacy_plan`, for plans without steps that no agent
  submits; timings, messages and the contents of outputs.
- *Planner*: the one without a registry (both agents bind one); the text of
  keywords, abstracted to the groups found.
- *Agents*: findings and risks collected from outputs, citations, response
  formatting; `run_bom_agent`'s lookup of the BOM; a graph built without an
  executor, as only tests do; the outermost `except Exception` of both agents,
  which turns an exception of the agent's own code into a failure (exceptions of
  tools and of the retrieval are caught further in, and modelled there).
- *Catalog*: the file and the pipeline before an upload (in `Pipeline`; here one
  line per part number, at least one line), manufacturer and description columns,
  `backfill_normalized_identity`, `enrich_component` and `enrich_with_provider`,
  which no route calls; serialisation failures, which READ COMMITTED
  does not raise. A failing statement is `Crash`.
- *Risk*: the wording of reasons and recommendations (what they are about is
  kept); two transactions that begin at the same microsecond.
- *Documents*: the checks of the uploaded file, the PDF reader and its cleaning of
  pages, the embedding (a vector or an error, and a similarity per question and
  chunk), `document_dependencies`, citations.
- *Sourcing*: lead times and prices as texts (a value or a missing one);
  prices are small integers, because scores are fractions of 32-bit integers;
  `TokenLive` assumes that a call ends within its timeout, that the product calls
  after a token are at most three and that a token lives longer than buffer and
  timeout (600 seconds unless DigiKey says otherwise); names of components stay as
  they are while alternatives are recorded; `CostComparisonService`, which
  no route uses; the registry of providers.
- *Pipeline*: the reading of CSV, Excel and JSON, which is third-party code (also
  how pandas reads an empty cell); joining references by commas and splitting them
  again; a crash of the process during an upload (in `Catalog`); the wording of issues; normalisation of
  characters, which both detectors share.
- *Not modelled at all*: configuration and health (settings and a constant
  answer), the worker (it registers no task), frontend and migrations (no state
  that these properties are about).
