---------------------------- MODULE RiskHistory ----------------------------
(***************************************************************************)
(* The history of risk records, and its writers and readers side by side:  *)
(*                                                                         *)
(*  - an analysis (POST .../risk and .../components/risk) asks the         *)
(*    distributors about the components of a BOM one after another, adds a *)
(*    lifecycle and a risk record for each, computes the BOM's assessment  *)
(*    from the latest records and adds it as a snapshot, all in one        *)
(*    transaction that stays open while the distributors answer;           *)
(*  - a report (GET .../report) reads the latest snapshot and then, one    *)
(*    statement after another, the records of the components.              *)
(*                                                                         *)
(* One action is one SQL statement, with the computation that leads to it. *)
(* The database is external: PostgreSQL at READ COMMITTED, where a         *)
(* statement sees what was committed before it and its own transaction's   *)
(* rows; ids come from sequences that are never rolled back; now() is the  *)
(* start of the transaction.  Records are only ever added, so that no      *)
(* session waits for another.                                              *)
(***************************************************************************)
EXTENDS RiskScoring

CONSTANTS
  Analyses,    \* requests for an analysis
  Reports,     \* requests for a report
  BomOf,       \* per request, its BOM
  Lines,       \* per BOM, the ids of its components, in order
  Markets      \* what the distributors may answer for a component

Sessions == Analyses \cup Reports
Boms == DOMAIN Lines

ASSUME HistoryAssumption ==
  /\ Analyses \cap Reports = {}
  /\ BomOf \in [Sessions -> Boms]
  /\ Lines \in [Boms -> Seq(Nat \ {0}) \ {<<>>}]
  /\ \A m \in Markets : m \in Seq([status : STRING \cup {Unreported}, quantity : Int \cup {Unreported}])

VARIABLES
  lifecycles,   \* the committed lifecycle records: a set, each with its id
  risks,        \* the committed component risk records
  snapshots,    \* the committed BOM risk snapshots
  nextId,       \* per table, the sequence of its ids
  clock,        \* bounded by the number of sessions: it ticks when one begins
  pc,           \* the statement each session executes next
  line,         \* the line of the BOM it is at
  started,      \* when its transaction began
  written,      \* per analysis, the records of its open transaction
  answers,      \* per analysis, what the distributors said of the line
  result,       \* per analysis, the assessment it returns
  report,       \* per report, what it has read
  built         \* per report, what it answers

historyVars == <<lifecycles, risks, snapshots, nextId, clock, pc, line, started,
                 written, answers, result, report, built>>

Tables == {"lifecycle", "risk", "snapshot"}
Nothing == [lifecycles |-> {}, risks |-> {}, snapshots |-> {}]
NoResult == [risks |-> <<>>, from |-> {}]
NoReport == [snapshot |-> {}, risks |-> {}, lifecycles |-> {}]

HistoryInit ==
  /\ lifecycles = {} /\ risks = {} /\ snapshots = {}
  /\ nextId = [t \in Tables |-> 1]
  /\ clock = 1
  /\ pc = [s \in Sessions |-> "idle"]
  /\ line = [s \in Sessions |-> 1]
  /\ started = [s \in Sessions |-> 0]
  /\ written = [a \in Analyses |-> Nothing]
  /\ answers = [a \in Analyses |-> <<>>]
  /\ result = [a \in Analyses |-> NoResult]
  /\ report = [r \in Reports |-> NoReport]
  /\ built = [r \in Reports |-> {}]

LinesFor(s) == Lines[BomOf[s]]
Component(s) == LinesFor(s)[line[s]]
LastLine(s) == line[s] = Len(LinesFor(s))
Ended(s) == pc[s] \in {"done", "failed"}

(* The row with the highest id, if there is one.                           *)
Newest(rows) == {row \in rows : \A other \in rows : other.id <= row.id}

-----------------------------------------------------------------------------
(* The analysis.                                                           *)

(* The BOM is found, and its lines read; now() is fixed for the whole      *)
(* transaction.                                                            *)
Begin(a) ==
  /\ pc[a] = "idle"
  /\ pc' = [pc EXCEPT ![a] = "lifecycle"]
  /\ started' = [started EXCEPT ![a] = clock]
  /\ clock' = clock + 1
  /\ UNCHANGED <<lifecycles, risks, snapshots, nextId, line, written, answers, result, report, built>>

(* The distributors answer, those that fail are left out, and the          *)
(* lifecycle is recorded.                                                  *)
RecordLifecycle(a) ==
  /\ pc[a] = "lifecycle"
  /\ \E market \in Markets :
       /\ answers' = [answers EXCEPT ![a] = market]
       /\ written' = [written EXCEPT ![a].lifecycles = @ \cup
            {[id |-> nextId["lifecycle"], by |-> a, component |-> Component(a),
              status |-> Lifecycle(market)]}]
  /\ nextId' = [nextId EXCEPT !["lifecycle"] = @ + 1]
  /\ pc' = [pc EXCEPT ![a] = "risk"]
  /\ UNCHANGED <<lifecycles, risks, snapshots, clock, line, started, result, report, built>>

(* Faulty: the id follows from the number of records in sight.             *)
RiskRowNumbered(a) ==
  LET risk == ComponentRisk(answers[a])
  IN [ id |-> Cardinality(risks \cup written[a].risks) + 1, by |-> a,
       component |-> Component(a), life |-> risk.life, availability |-> risk.availability,
       score |-> risk.score, severity |-> risk.severity ]

RiskRow(a) ==
  LET risk == ComponentRisk(answers[a])
  IN [ id |-> nextId["risk"], by |-> a, component |-> Component(a),
       life |-> risk.life, availability |-> risk.availability,
       score |-> risk.score, severity |-> risk.severity ]

(* The line is complete: the next one, or the assessment of the BOM.       *)
EndLine(a) ==
  /\ nextId' = [nextId EXCEPT !["risk"] = @ + 1]
  /\ IF LastLine(a)
     THEN pc' = [pc EXCEPT ![a] = "assess"] /\ UNCHANGED line
     ELSE pc' = [pc EXCEPT ![a] = "lifecycle"] /\ line' = [line EXCEPT ![a] = @ + 1]
  /\ UNCHANGED <<snapshots, clock, started, answers, result, report, built>>

(* Faulty: each component's records are committed as they are written.     *)
RecordRiskCommitted(a) ==
  /\ pc[a] = "risk"
  /\ risks' = risks \cup {RiskRow(a)}
  /\ lifecycles' = lifecycles \cup written[a].lifecycles
  /\ written' = [written EXCEPT ![a] = Nothing]
  /\ EndLine(a)

RecordRisk(a) ==
  /\ pc[a] = "risk"
  /\ written' = [written EXCEPT ![a].risks = @ \cup {RiskRow(a)}]
  /\ EndLine(a)
  /\ UNCHANGED <<lifecycles, risks>>

(* Faulty: only the records committed by others are looked at.             *)
LatestRisksOfOthers(a) ==
  [i \in DOMAIN LinesFor(a) |->
    Newest({row \in risks : row.component = LinesFor(a)[i]})]

(* Per line, the latest risk record of its component that the transaction  *)
(* can see.                                                                *)
LatestRisks(a) ==
  [i \in DOMAIN LinesFor(a) |->
    Newest({row \in risks \cup written[a].risks : row.component = LinesFor(a)[i]})]

(* A component's risk as the BOM's assessment takes it: every record is of *)
(* type COMPONENT, and both flags follow from the severity.                *)
AsBomRisk(row) ==
  [ component |-> row.component, score |-> row.score, severity |-> row.severity,
    lifecycleRisk |-> row.severity \in Elevated,
    availabilityRisk |-> row.severity \in Elevated ]

(* The risks of a BOM: the first line of each component that has a record. *)
BomRisks(bom, latest) ==
  LET components == Lines[bom]
      assessed == Where([i \in DOMAIN components |-> i], LAMBDA i :
        latest[i] # {} /\ \A j \in 1..(i - 1) : components[j] # components[i])
      rows == [k \in DOMAIN assessed |-> CHOOSE row \in latest[assessed[k]] : TRUE]
  IN [risks |-> [k \in DOMAIN rows |-> AsBomRisk(rows[k])], from |-> UNION Range(latest)]

Assess(a) ==
  /\ pc[a] = "assess"
  /\ result' = [result EXCEPT ![a] = BomRisks(BomOf[a], LatestRisks(a))]
  /\ pc' = [pc EXCEPT ![a] = "snapshot"]
  /\ UNCHANGED <<lifecycles, risks, snapshots, nextId, clock, line, started, written,
                 answers, report, built>>

(* The snapshot carries the start of the transaction as its time.  The     *)
(* records it was computed from are history.                               *)
RecordSnapshot(a) ==
  /\ pc[a] = "snapshot"
  /\ LET assessment == Assessment(result[a].risks)
     IN written' = [written EXCEPT ![a].snapshots =
          {[ id |-> nextId["snapshot"], by |-> a, bom |-> BomOf[a], created |-> started[a],
             assessment |-> assessment, explanation |-> Explanation(assessment),
             from |-> result[a].from ]}]
  /\ nextId' = [nextId EXCEPT !["snapshot"] = @ + 1]
  /\ pc' = [pc EXCEPT ![a] = "commit"]
  /\ UNCHANGED <<lifecycles, risks, snapshots, clock, line, started, answers, result, report, built>>

(* A session that ends holds nothing any more.                             *)
Release(a, end) ==
  /\ pc' = [pc EXCEPT ![a] = end]
  /\ line' = [line EXCEPT ![a] = 1]
  /\ written' = [written EXCEPT ![a] = Nothing]
  /\ answers' = [answers EXCEPT ![a] = <<>>]
  /\ result' = [result EXCEPT ![a] = NoResult]
  /\ UNCHANGED <<nextId, clock, started, report, built>>

Commit(a) ==
  /\ pc[a] = "commit"
  /\ lifecycles' = lifecycles \cup written[a].lifecycles
  /\ risks' = risks \cup written[a].risks
  /\ snapshots' = snapshots \cup written[a].snapshots
  /\ Release(a, "done")

(* An exception rolls back, and so does the end of the process.            *)
RollBack(a) ==
  /\ pc[a] # "idle" /\ ~Ended(a)
  /\ Release(a, "failed")
  /\ UNCHANGED <<lifecycles, risks, snapshots>>

-----------------------------------------------------------------------------
(* The readers.                                                            *)

SnapshotsOf(bom) == {row \in snapshots : row.bom = bom}

(* Ordered by the time of creation, then by id, both descending.           *)
LatestSnapshot(bom) ==
  {row \in SnapshotsOf(bom) : \A other \in SnapshotsOf(bom) :
     other.created < row.created \/ (other.created = row.created /\ other.id <= row.id)}

(* Faulty: the records of the components are read before the snapshot.     *)
ReadSnapshotLast(r) ==
  /\ \/ /\ pc[r] = "idle"
        /\ pc' = [pc EXCEPT ![r] = "risks"]
        /\ UNCHANGED report
     \/ /\ pc[r] = "build"
        /\ report' = [report EXCEPT ![r].snapshot = LatestSnapshot(BomOf[r])]
        /\ pc' = [pc EXCEPT ![r] = "done"]
  /\ UNCHANGED <<lifecycles, risks, snapshots, nextId, clock, line, started, written,
                 answers, result, built>>

ReadSnapshot(r) ==
  /\ pc[r] = "idle"
  /\ report' = [report EXCEPT ![r].snapshot = LatestSnapshot(BomOf[r])]
  /\ pc' = [pc EXCEPT ![r] = "risks"]
  /\ UNCHANGED <<lifecycles, risks, snapshots, nextId, clock, line, started, written,
                 answers, result, built>>

(* After the last line of one loop comes the first line of the next.       *)
NextRead(r, next) ==
  /\ IF LastLine(r)
     THEN pc' = [pc EXCEPT ![r] = next] /\ line' = [line EXCEPT ![r] = 1]
     ELSE line' = [line EXCEPT ![r] = @ + 1] /\ UNCHANGED pc
  /\ UNCHANGED <<lifecycles, risks, snapshots, nextId, clock, started, written, answers, result, built>>

ReadRisk(r) ==
  /\ pc[r] = "risks"
  /\ report' = [report EXCEPT ![r].risks = @ \cup
                  Newest({row \in risks : row.component = Component(r)})]
  /\ NextRead(r, "lifecycles")

ReadLifecycle(r) ==
  /\ pc[r] = "lifecycles"
  /\ report' = [report EXCEPT ![r].lifecycles = @ \cup
                  Newest({row \in lifecycles : row.component = Component(r)})]
  /\ NextRead(r, "build")

(* What GET .../risk answers: computed from the committed records, afresh. *)
CurrentRisk(bom) ==
  LET now == BomRisks(bom, [i \in DOMAIN Lines[bom] |->
               Newest({row \in risks : row.component = Lines[bom][i]})])
      assessment == Assessment(now.risks)
  IN [from |-> now.from, assessment |-> assessment, explanation |-> Explanation(assessment)]

(* Faulty: the snapshots are taken in the order of their ids.              *)
ById(bom) == SetToSortSeq(SnapshotsOf(bom), LAMBDA x, y : x.id < y.id)

(* Ordered by the time of creation, then by id.                            *)
Older == {p \in snapshots \X snapshots :
            \/ p[1].created < p[2].created
            \/ p[1].created = p[2].created /\ p[1].id < p[2].id}

ByTime(bom) == InOrder(SnapshotsOf(bom), Older)

(* The trend between the last two snapshots.                               *)
Trend(bom) ==
  LET ordered == ByTime(bom)
      count == Len(ordered)
      last(n) == IF n > count THEN {} ELSE {ordered[count - n + 1]}
      overall(n) == ordered[count - n + 1].assessment.overall
  IN [ trend |-> IF count = 0 THEN "UNKNOWN" ELSE IF count = 1 THEN "STABLE"
                 ELSE TrendOf(overall(1) - overall(2)),
       current |-> last(1), previous |-> last(2) ]

(* What GET .../risk/history answers: the trend, and all snapshots in the  *)
(* order of their ids.                                                     *)
RiskHistoryAnswer(bom) ==
  [ trend |-> Trend(bom),
    history |-> InOrder(SnapshotsOf(bom), {p \in snapshots \X snapshots : p[1].id < p[2].id}) ]

-----------------------------------------------------------------------------
(* The report, from what has been read.                                    *)

(* What the report says of a line: a component without a record counts as  *)
(* available and without risk.                                             *)
ReportedLine(r, component) ==
  LET read == {row \in report[r].risks : row.component = component}
      row == CHOOSE x \in read : TRUE
  IN IF read = {}
     THEN [component |-> component, score |-> 0, severity |-> "UNKNOWN",
           lifecycleRisk |-> FALSE, availabilityRisk |-> FALSE, available |-> TRUE]
     ELSE [component |-> component, score |-> row.score, severity |-> row.severity,
           lifecycleRisk |-> row.life > 0, availabilityRisk |-> row.availability > 0,
           available |-> row.availability < 50]

ReportedStatus(r, component) ==
  LET read == {row \in report[r].lifecycles : row.component = component}
  IN IF read = {} THEN "UNKNOWN" ELSE (CHOOSE row \in read : TRUE).status

(* The explanation was stored as JSON with the snapshot and is read back   *)
(* entry by entry; the entries it writes are all readable.                 *)
StoredExplanation(snapshot) ==
  [ drivers |-> snapshot.explanation.drivers,
    recommendations |-> snapshot.explanation.recommendations ]

(* The headline is the snapshot's; without one it is counted from the      *)
(* lines, whose flags follow other rules than the snapshot's.              *)
Headline(r, reported) ==
  IF report[r].snapshot = {}
  THEN [ overall |-> 0, severity |-> "UNKNOWN", high |-> 0, critical |-> 0,
         lifecycleRisks |-> CountOf(reported, LAMBDA l : l.lifecycleRisk),
         availabilityRisks |-> CountOf(reported, LAMBDA l : l.availabilityRisk),
         drivers |-> <<>>, recommendations |-> <<>> ]
  ELSE LET row == CHOOSE x \in report[r].snapshot : TRUE
       IN [ overall |-> row.assessment.overall, severity |-> row.assessment.severity,
            high |-> row.assessment.high, critical |-> row.assessment.critical,
            lifecycleRisks |-> row.assessment.lifecycleRisks,
            availabilityRisks |-> row.assessment.availabilityRisks,
            drivers |-> StoredExplanation(row).drivers,
            recommendations |-> StoredExplanation(row).recommendations ]

BuiltReport(r) ==
  LET reported == [i \in DOMAIN LinesFor(r) |-> ReportedLine(r, LinesFor(r)[i])]
  IN [ headline |-> Headline(r, reported),
       statuses |-> [status \in LifecycleStatuses |->
                       CountOf(LinesFor(r), LAMBDA c : ReportedStatus(r, c) = status)],
       withAvailability |-> CountOf(reported, LAMBDA l : l.available),
       withoutAvailability |-> CountOf(reported, LAMBDA l : ~l.available),
       top |-> SubSeq(SortSeq(reported, LAMBDA x, y :
                 x.score > y.score \/ (x.score = y.score /\ x.component < y.component)),
                 1, IF Len(reported) < TopLimit THEN Len(reported) ELSE TopLimit) ]

Build(r) ==
  /\ pc[r] = "build"
  /\ pc' = [pc EXCEPT ![r] = "done"]
  /\ built' = [built EXCEPT ![r] = {BuiltReport(r)}]
  /\ UNCHANGED <<lifecycles, risks, snapshots, nextId, clock, line, started, written,
                 answers, result, report>>

-----------------------------------------------------------------------------
AnalysisNext(a) ==
  \/ Begin(a) \/ RecordLifecycle(a) \/ RecordRisk(a) \/ Assess(a)
  \/ RecordSnapshot(a) \/ Commit(a) \/ RollBack(a)

ReportNext(r) == ReadSnapshot(r) \/ ReadRisk(r) \/ ReadLifecycle(r) \/ Build(r)

HistoryNext == (\E a \in Analyses : AnalysisNext(a)) \/ (\E r \in Reports : ReportNext(r))
HistorySpec == HistoryInit /\ [][HistoryNext]_historyVars

-----------------------------------------------------------------------------
(* Properties.                                                             *)

RiskRows == [id : Nat, by : Analyses, component : Nat, life : Nat, availability : Nat,
             score : 0..100, severity : Severities]
LifecycleRows == [id : Nat, by : Analyses, component : Nat, status : LifecycleStatuses]

(* Types of the tables, and ids that identify: no two rows of a table,     *)
(* committed or not, have the same id, and none is beyond its sequence.    *)
RiskTypeOK ==
  LET allRisks == risks \cup UNION {written[a].risks : a \in Analyses}
      allLifecycles == lifecycles \cup UNION {written[a].lifecycles : a \in Analyses}
  IN /\ allRisks \subseteq RiskRows
     /\ allLifecycles \subseteq LifecycleRows
     /\ \A x, y \in allRisks : x.id = y.id => x = y
     /\ \A x, y \in allLifecycles : x.id = y.id => x = y
     /\ \A x \in allRisks : x.id < nextId["risk"]
     /\ \A x \in allLifecycles : x.id < nextId["lifecycle"]

(* An analysis is stored as a whole or not at all: its snapshot, and a     *)
(* lifecycle and a risk record for every line of its BOM, however far the  *)
(* distributors had been asked when it failed.                             *)
AnalysisAtomic ==
  \A a \in Analyses :
    LET own(rows) == {row \in rows : row.by = a}
        every(rows) == /\ {row.component : row \in own(rows)} = Range(LinesFor(a))
                       /\ Cardinality(own(rows)) = Len(LinesFor(a))
    IN IF pc[a] = "done"
       THEN every(risks) /\ every(lifecycles) /\ Cardinality(own(snapshots)) = 1
       ELSE own(risks) = {} /\ own(lifecycles) = {} /\ own(snapshots) = {}

(* A snapshot is computed from one record of each component of its BOM:    *)
(* the record its analysis wrote, or one of another analysis that came     *)
(* later and was committed; never an older one, and never one that is      *)
(* rolled back.  The risk computed afresh is never behind a snapshot.      *)
SnapshotFresh ==
  \A s \in snapshots :
    /\ s.from \subseteq risks
    /\ {row.component : row \in s.from} = Range(Lines[s.bom])
    /\ \A x, y \in s.from : x.component = y.component => x = y
    /\ \A own \in {row \in risks : row.by = s.by} :
         \E row \in s.from : row.component = own.component /\ row.id >= own.id
    /\ \A row \in s.from : \E now \in CurrentRisk(s.bom).from :
         now.component = row.component /\ now.id >= row.id

(* A report is read statement by statement while analyses commit.  What it *)
(* shows of the components is never older than the snapshot in its         *)
(* headline was computed from, and no component is shown as unknown beside *)
(* a headline.                                                             *)
ReportCovers ==
  \A r \in Reports : pc[r] = "done" =>
    \A s \in report[r].snapshot :
      /\ \A row \in s.from : \E shown \in report[r].risks :
           shown.component = row.component /\ shown.id >= row.id
      /\ \A row \in lifecycles : row.by = s.by =>
           \E shown \in report[r].lifecycles :
             shown.component = row.component /\ shown.id >= row.id

(* A snapshot counts each component once.  The list of top components is   *)
(* cut: an elevated component is named by the drivers and the              *)
(* recommendations of its snapshot, or the list is full of components that *)
(* are no less at risk.                                                    *)
RisksNamed ==
  \A s \in snapshots :
    LET drivers == {d.component : d \in Range(s.explanation.drivers)}
        advised == {e.component : e \in Range(s.explanation.recommendations)} \ {0}
    IN /\ s.assessment.count = Cardinality(s.from)
       /\ drivers = advised
       /\ \A row \in s.from : row.severity \in Elevated =>
            \/ row.component \in drivers
            \/ /\ Cardinality(drivers) = TopLimit
               /\ \A other \in s.from : other.component \in drivers => other.score >= row.score

(* Where the weights and the thresholds meet: a component is elevated      *)
(* exactly when it is obsolete, or EOL and not in stock at two             *)
(* distributors, or NRND and in stock at one at most; so that an elevated  *)
(* one always has a lifecycle to be reviewed.                              *)
ElevationJustified ==
  \A row \in risks :
    row.severity \in Elevated <=>
      \/ row.life = LifecycleScore("OBSOLETE")
      \/ row.life = LifecycleScore("EOL") /\ row.availability > 0
      \/ row.life = LifecycleScore("NRND") /\ row.availability >= 50

Rank(severity) ==
  CASE severity = "UNKNOWN" -> 0 [] severity = "LOW" -> 1 [] severity = "MEDIUM" -> 2
    [] severity = "HIGH" -> 3 [] severity = "CRITICAL" -> 4

(* The trend and the report choose the current snapshot in two places,     *)
(* and agree; a worsening BOM has not become less severe, nor an improving *)
(* one more.                                                               *)
TrendMatchesReport ==
  \A bom \in Boms :
    LET answer == RiskHistoryAnswer(bom)
        trend == answer.trend
    IN /\ trend.current = LatestSnapshot(bom)
       /\ trend.current \cup trend.previous \subseteq Range(answer.history)
       /\ Len(answer.history) >= 2 => Cardinality(trend.current \cup trend.previous) = 2
       /\ \A x \in trend.previous, y \in trend.current :
            LET before == Rank(x.assessment.severity)
                after == Rank(y.assessment.severity)
            IN /\ trend.trend = "WORSENING" => before <= after
               /\ trend.trend = "IMPROVING" => before >= after
               /\ before < after => trend.trend # "IMPROVING"

=============================================================================
