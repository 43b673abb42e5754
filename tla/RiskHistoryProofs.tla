------------------------- MODULE RiskHistoryProofs -------------------------
(***************************************************************************)
(* Proofs about the history of risk records, for any number of analyses,   *)
(* reports, BOMs and lines, a component on several lines included, and     *)
(* whatever the distributors answer.                                       *)
(*                                                                         *)
(* The inductive invariant has a layer for each question, and the proof    *)
(* that a step preserves a layer uses the layers before it:                *)
(*                                                                         *)
(*   Shape      the sessions, their statements and lines, and the form of  *)
(*              the records;                                               *)
(*   RowsHeld   the types and ids of the rows, and the scores in them;     *)
(*   LinesInv   what an open transaction has written so far, which is what *)
(*              makes it whole when it is committed;                       *)
(*   FreshInv   what an assessment and a snapshot are computed from;       *)
(*   ReportsRead  what a report has read so far;                           *)
(*   SnapshotsInv what a snapshot says of its records, and when it is of.  *)
(***************************************************************************)
EXTENDS RiskHistory, ListProofs, SequenceTheorems, WellFoundedInduction

AnalysisStates == {"idle", "lifecycle", "risk", "assess", "snapshot", "commit", "done", "failed"}
ReportStates == {"idle", "risks", "lifecycles", "build", "done"}

Shape ==
  /\ nextId \in [Tables -> Nat]
  /\ DOMAIN pc = Sessions
  /\ \A a \in Analyses : pc[a] \in AnalysisStates
  /\ \A r \in Reports : pc[r] \in ReportStates
  /\ DOMAIN line = Sessions
  /\ \A s \in Sessions : line[s] \in DOMAIN LinesFor(s)
  /\ \A s \in Sessions : pc[s] = "idle" => line[s] = 1
  /\ DOMAIN written = Analyses
  /\ \A a \in Analyses :
       written[a] = [ lifecycles |-> written[a].lifecycles, risks |-> written[a].risks,
                      snapshots |-> written[a].snapshots ]
  /\ DOMAIN result = Analyses
  /\ DOMAIN report = Reports
  /\ \A r \in Reports :
       report[r] = [ snapshot |-> report[r].snapshot, risks |-> report[r].risks,
                     lifecycles |-> report[r].lifecycles ]

(* The rows that are committed, and those of the open transactions.        *)
AllRisks == risks \cup UNION {written[a].risks : a \in Analyses}
AllLifecycles == lifecycles \cup UNION {written[a].lifecycles : a \in Analyses}

Justified(row) ==
  /\ row.severity \in Elevated <=> row.score >= 50
  /\ row.severity \in Elevated <=>
       \/ row.life = LifecycleScore("OBSOLETE")
       \/ row.life = LifecycleScore("EOL") /\ row.availability > 0
       \/ row.life = LifecycleScore("NRND") /\ row.availability >= 50

AllJustified == \A row \in AllRisks : Justified(row)

RowsHeld == RiskTypeOK /\ AllJustified

(* How many lines of its BOM an open analysis has recorded.                *)
RiskLines(a) ==
  IF pc[a] \in {"lifecycle", "risk"} THEN line[a] - 1
  ELSE IF pc[a] \in {"assess", "snapshot", "commit"} THEN Len(LinesFor(a)) ELSE 0

LifecycleLines(a) == IF pc[a] = "risk" THEN line[a] ELSE RiskLines(a)

(* One row of the analysis for each of its first lines.                    *)
Recorded(a, rows, count) ==
  /\ \A row \in rows : row.by = a
  /\ {row.component : row \in rows} = {LinesFor(a)[i] : i \in 1..count}
  /\ IsFiniteSet(rows)
  /\ Cardinality(rows) = count

LinesOf(a) ==
  /\ Recorded(a, written[a].risks, RiskLines(a))
  /\ Recorded(a, written[a].lifecycles, LifecycleLines(a))
  /\ IF pc[a] = "commit"
     THEN \E s \in written[a].snapshots :
            /\ written[a].snapshots = {s}
            /\ s.by = a /\ s.bom = BomOf[a] /\ s.from = result[a].from
     ELSE written[a].snapshots = {}

LinesRecorded == \A a \in Analyses : LinesOf(a)

LinesInv == LinesRecorded /\ AnalysisAtomic

(* What the transaction of an analysis can see.                            *)
Visible(a) == risks \cup written[a].risks

(* One row for each component of the BOM, none older than its own row.     *)
FromLatest(bom, from, own) ==
  /\ {row.component : row \in from} = Range(Lines[bom])
  /\ \A x, y \in from : x.component = y.component => x = y
  /\ \A o \in own : \E row \in from : row.component = o.component /\ row.id >= o.id

AssessedFresh ==
  \A a \in Analyses : pc[a] \in {"snapshot", "commit"} =>
    /\ result[a].from \subseteq Visible(a)
    /\ FromLatest(BomOf[a], result[a].from, written[a].risks)

SnapshotsFresh ==
  \A s \in snapshots :
    /\ s.by \in Analyses /\ pc[s.by] = "done" /\ s.bom = BomOf[s.by]
    /\ s.from \subseteq risks
    /\ FromLatest(s.bom, s.from, {row \in risks : row.by = s.by})

FreshInv == AssessedFresh /\ SnapshotsFresh

(* How many lines of its BOM a report has read.                            *)
RisksRead(r) ==
  IF pc[r] = "risks" THEN line[r] - 1
  ELSE IF pc[r] \in {"lifecycles", "build", "done"} THEN Len(LinesFor(r)) ELSE 0

LifecyclesRead(r) ==
  IF pc[r] = "lifecycles" THEN line[r] - 1
  ELSE IF pc[r] \in {"build", "done"} THEN Len(LinesFor(r)) ELSE 0

(* For the first lines, none of the rows is newer than what is shown.      *)
ShownUpTo(r, rows, shown, count) ==
  \A i \in 1..count : \A row \in rows : row.component = LinesFor(r)[i] =>
    \E x \in shown : x.component = row.component /\ x.id >= row.id

ReadOf(r) ==
  /\ pc[r] = "idle" => report[r].snapshot = {}
  /\ \A s \in report[r].snapshot :
       /\ s \in snapshots /\ s.bom = BomOf[r]
       /\ ShownUpTo(r, s.from, report[r].risks, RisksRead(r))
       /\ ShownUpTo(r, {row \in lifecycles : row.by = s.by}, report[r].lifecycles,
                    LifecyclesRead(r))

ReportsRead == \A r \in Reports : ReadOf(r)

HistoryInv == Shape /\ RowsHeld /\ LinesInv /\ FreshInv /\ ReportsRead

-----------------------------------------------------------------------------
(* A BOM has at least one line, and each names a component.                *)
LEMMA LineFacts ==
  ASSUME NEW s \in Sessions
  PROVE  /\ BomOf[s] \in Boms
         /\ LinesFor(s) \in Seq(Nat \ {0})
         /\ Len(LinesFor(s)) \in Nat /\ Len(LinesFor(s)) > 0
         /\ DOMAIN LinesFor(s) = 1..Len(LinesFor(s))
         /\ \A i \in 1..Len(LinesFor(s)) : LinesFor(s)[i] \in Nat
         /\ Range(LinesFor(s)) = {LinesFor(s)[i] : i \in 1..Len(LinesFor(s))}
<1>1. BomOf[s] \in Boms
  BY HistoryAssumption
<1>2. LinesFor(s) \in Seq(Nat \ {0}) /\ LinesFor(s) # <<>>
  BY <1>1, HistoryAssumption DEF LinesFor, Boms
<1>3. Len(LinesFor(s)) \in Nat /\ DOMAIN LinesFor(s) = 1..Len(LinesFor(s))
  BY <1>2
<1>4. Len(LinesFor(s)) > 0
  BY <1>2, <1>3
<1>5. \A i \in 1..Len(LinesFor(s)) : LinesFor(s)[i] \in Nat
  BY <1>2
<1> QED BY <1>1, <1>2, <1>3, <1>4, <1>5 DEF Range

(* The scores that the assessors give for a lifecycle and for a stock.     *)
LEMMA Scores ==
  ASSUME NEW answer
  PROVE  LET risk == ComponentRisk(answer)
         IN /\ risk.life \in {0, 25, 50, 80, 100}
            /\ risk.availability \in {0, 25, 50, 80}
            /\ risk.score = (6 * risk.life + 4 * risk.availability) \div 10
            /\ risk.severity = Severity(risk.score, 1)
<1> DEFINE life == LifecycleScore(Lifecycle(answer))
           availability == AvailabilityScore(Availability(answer))
           score == (6 * life + 4 * availability) \div 10
<1>1. life \in {0, 25, 50, 80, 100}
  BY DEF LifecycleScore
<1>2. availability \in {0, 25, 50, 80}
  BY DEF AvailabilityScore
<1>3. ComponentRisk(answer) = [life |-> life, availability |-> availability, score |-> score,
                               severity |-> Severity(score, 1)]
  BY DEF ComponentRisk
<1> HIDE DEF life, availability, score
<1>4. /\ ComponentRisk(answer).life = life
      /\ ComponentRisk(answer).availability = availability
      /\ ComponentRisk(answer).score = score
      /\ ComponentRisk(answer).severity = Severity(score, 1)
  BY <1>3
<1> QED BY <1>1, <1>2, <1>4 DEF score

(* A risk record is rated as ElevationJustified says.                      *)
LEMMA RiskRowRated ==
  ASSUME NEW a \in Analyses, Shape
  PROVE  /\ RiskRow(a) \in RiskRows
         /\ RiskRow(a).id = nextId["risk"] /\ RiskRow(a).by = a
         /\ RiskRow(a).component = Component(a)
         /\ Justified(RiskRow(a))
<1> DEFINE risk == ComponentRisk(answers[a])
<1>1. /\ risk.life \in {0, 25, 50, 80, 100}
      /\ risk.availability \in {0, 25, 50, 80}
      /\ risk.score = (6 * risk.life + 4 * risk.availability) \div 10
      /\ risk.severity = Severity(risk.score, 1)
  BY Scores
<1>2. RiskRow(a) = [ id |-> nextId["risk"], by |-> a, component |-> Component(a),
                     life |-> risk.life, availability |-> risk.availability,
                     score |-> risk.score, severity |-> risk.severity ]
  BY DEF RiskRow
<1>3. nextId["risk"] \in Nat /\ Component(a) \in Nat
  <2>1. line[a] \in DOMAIN LinesFor(a) /\ nextId["risk"] \in Nat
    BY DEF Shape, Sessions, Tables
  <2> QED BY <2>1, LineFacts DEF Component, Sessions
<1> HIDE DEF risk
<1>4. risk.score \in 0..100
  BY <1>1
<1>5. risk.severity \in Severities
  BY <1>1 DEF Severity, Severities
<1>6. risk.severity \in Elevated <=> risk.score >= 50
  BY <1>1, <1>4 DEF Severity, Elevated
<1>7. risk.score >= 50 <=> \/ risk.life = 100
                           \/ risk.life = 80 /\ risk.availability > 0
                           \/ risk.life = 50 /\ risk.availability >= 50
  BY <1>1
<1>8. /\ LifecycleScore("OBSOLETE") = 100 /\ LifecycleScore("EOL") = 80
      /\ LifecycleScore("NRND") = 50
  BY DEF LifecycleScore
<1>9. /\ RiskRow(a).id = nextId["risk"] /\ RiskRow(a).by = a
      /\ RiskRow(a).component = Component(a) /\ RiskRow(a).life = risk.life
      /\ RiskRow(a).availability = risk.availability /\ RiskRow(a).severity = risk.severity
      /\ RiskRow(a).score = risk.score
  BY <1>2
<1>10. RiskRow(a) \in RiskRows
  BY <1>1, <1>2, <1>3, <1>4, <1>5 DEF RiskRows
<1>11. Justified(RiskRow(a))
  BY <1>6, <1>7, <1>8, <1>9 DEF Justified
<1> QED BY <1>9, <1>10, <1>11

-----------------------------------------------------------------------------
(* What each action does, component by component.                          *)

(* Only session s moves.                                                   *)
Alone(s) == \A t \in Sessions : t # s => pc'[t] = pc[t] /\ line'[t] = line[t]

(* What Begin changes; the following lemmas say the same of each of the    *)
(* other statements.                                                       *)
LEMMA BeginEffect ==
  ASSUME NEW a \in Analyses, Shape, Begin(a)
  PROVE  /\ pc[a] = "idle" /\ pc'[a] = "lifecycle" /\ line'[a] = line[a]
         /\ Alone(a)
         /\ DOMAIN pc' = Sessions
         /\ UNCHANGED <<lifecycles, risks, snapshots, nextId, line, written, result, report>>
BY DEF Begin, Alone, Shape, Sessions

(* What RecordLifecycle changes.                                           *)
LEMMA RecordLifecycleEffect ==
  ASSUME NEW a \in Analyses, Shape, RecordLifecycle(a)
  PROVE  /\ pc[a] = "lifecycle" /\ pc'[a] = "risk" /\ line'[a] = line[a]
         /\ Alone(a)
         /\ DOMAIN pc' = Sessions /\ DOMAIN written' = Analyses
         /\ nextId \in [Tables -> Nat]
         /\ nextId' = [nextId EXCEPT !["lifecycle"] = @ + 1]
         /\ UNCHANGED <<lifecycles, risks, snapshots, line, result, report>>
         /\ \E row \in LifecycleRows :
              /\ row.id = nextId["lifecycle"] /\ row.by = a /\ row.component = Component(a)
              /\ written'[a] = [ lifecycles |-> written[a].lifecycles \cup {row},
                                 risks |-> written[a].risks,
                                 snapshots |-> written[a].snapshots ]
         /\ \A b \in Analyses : b # a => written'[b] = written[b]
<1>1. PICK market \in Markets :
        written' = [written EXCEPT ![a].lifecycles = @ \cup
          {[id |-> nextId["lifecycle"], by |-> a, component |-> Component(a),
            status |-> Lifecycle(market)]}]
  BY DEF RecordLifecycle
<1> DEFINE row == [id |-> nextId["lifecycle"], by |-> a, component |-> Component(a),
                   status |-> Lifecycle(market)]
<1>2. nextId["lifecycle"] \in Nat /\ Component(a) \in Nat
  <2>1. line[a] \in DOMAIN LinesFor(a) /\ nextId["lifecycle"] \in Nat
    BY SMTT(30) DEF Shape, Sessions, Tables
  <2> QED BY <2>1, LineFacts DEF Component, Sessions
<1>3. Lifecycle(market) \in LifecycleStatuses
  BY DEF Lifecycle, NormalStatus, LifecycleStatuses
<1>4. row \in LifecycleRows
  BY <1>2, <1>3 DEF LifecycleRows
<1>5. row.id = nextId["lifecycle"] /\ row.by = a /\ row.component = Component(a)
  OBVIOUS
<1>6. written' = [written EXCEPT ![a].lifecycles = @ \cup {row}]
  BY <1>1
<1> HIDE DEF row
<1>7. /\ DOMAIN written = Analyses
      /\ written[a] = [ lifecycles |-> written[a].lifecycles, risks |-> written[a].risks,
                        snapshots |-> written[a].snapshots ]
  BY DEF Shape
<1>8. /\ DOMAIN written' = Analyses
      /\ written'[a] = [written[a] EXCEPT !.lifecycles = @ \cup {row}]
      /\ \A b \in Analyses : b # a => written'[b] = written[b]
  BY <1>6, <1>7
<1>9. written'[a] = [ lifecycles |-> written[a].lifecycles \cup {row},
                      risks |-> written[a].risks, snapshots |-> written[a].snapshots ]
  BY <1>7, <1>8
<1>10. /\ pc[a] = "lifecycle" /\ pc'[a] = "risk" /\ line'[a] = line[a]
       /\ Alone(a)
       /\ DOMAIN pc' = Sessions
       /\ nextId \in [Tables -> Nat]
       /\ nextId' = [nextId EXCEPT !["lifecycle"] = @ + 1]
       /\ UNCHANGED <<lifecycles, risks, snapshots, line, result, report>>
  BY DEF RecordLifecycle, Alone, Shape, Sessions
<1> QED BY <1>4, <1>5, <1>8, <1>9, <1>10

(* What RecordRisk changes.                                                *)
LEMMA RecordRiskEffect ==
  ASSUME NEW a \in Analyses, Shape, RecordRisk(a)
  PROVE  /\ pc[a] = "risk"
         /\ \/ LastLine(a) /\ pc'[a] = "assess" /\ line'[a] = line[a]
            \/ ~LastLine(a) /\ pc'[a] = "lifecycle" /\ line'[a] = line[a] + 1
         /\ Alone(a)
         /\ DOMAIN pc' = Sessions /\ DOMAIN line' = Sessions /\ DOMAIN written' = Analyses
         /\ nextId \in [Tables -> Nat]
         /\ nextId' = [nextId EXCEPT !["risk"] = @ + 1]
         /\ UNCHANGED <<lifecycles, risks, snapshots, result, report>>
         /\ written'[a] = [ lifecycles |-> written[a].lifecycles,
                            risks |-> written[a].risks \cup {RiskRow(a)},
                            snapshots |-> written[a].snapshots ]
         /\ \A b \in Analyses : b # a => written'[b] = written[b]
<1>1. /\ DOMAIN written = Analyses
      /\ written[a] = [ lifecycles |-> written[a].lifecycles, risks |-> written[a].risks,
                        snapshots |-> written[a].snapshots ]
      /\ nextId \in [Tables -> Nat]
      /\ DOMAIN pc = Sessions /\ DOMAIN line = Sessions
  BY DEF Shape
<1>2. /\ pc[a] = "risk"
      /\ written' = [written EXCEPT ![a].risks = @ \cup {RiskRow(a)}]
      /\ EndLine(a)
      /\ UNCHANGED <<lifecycles, risks>>
  BY DEF RecordRisk
<1>3. /\ DOMAIN written' = Analyses
      /\ written'[a] = [written[a] EXCEPT !.risks = @ \cup {RiskRow(a)}]
      /\ \A b \in Analyses : b # a => written'[b] = written[b]
  BY <1>1, <1>2
<1>4. written'[a] = [ lifecycles |-> written[a].lifecycles,
                      risks |-> written[a].risks \cup {RiskRow(a)},
                      snapshots |-> written[a].snapshots ]
  BY <1>1, <1>3
<1>5. /\ nextId' = [nextId EXCEPT !["risk"] = @ + 1]
      /\ UNCHANGED <<snapshots, result, report>>
  BY <1>2 DEF EndLine
<1>6. a \in Sessions
  BY DEF Sessions
<1>7. /\ \/ LastLine(a) /\ pc'[a] = "assess" /\ line'[a] = line[a]
         \/ ~LastLine(a) /\ pc'[a] = "lifecycle" /\ line'[a] = line[a] + 1
      /\ Alone(a)
      /\ DOMAIN pc' = Sessions /\ DOMAIN line' = Sessions
  <2>1. CASE LastLine(a)
    BY <1>1, <1>2, <1>6, <2>1 DEF EndLine, Alone
  <2>2. CASE ~LastLine(a)
    BY <1>1, <1>2, <1>6, <2>2 DEF EndLine, Alone
  <2> QED BY <2>1, <2>2
<1> QED BY <1>1, <1>2, <1>3, <1>4, <1>5, <1>7

(* What Assess changes.                                                    *)
LEMMA AssessEffect ==
  ASSUME NEW a \in Analyses, Shape, Assess(a)
  PROVE  /\ pc[a] = "assess" /\ pc'[a] = "snapshot" /\ line'[a] = line[a]
         /\ Alone(a)
         /\ DOMAIN pc' = Sessions /\ DOMAIN result' = Analyses
         /\ result'[a] = BomRisks(BomOf[a], LatestRisks(a))
         /\ result'[a].from = UNION Range(LatestRisks(a))
         /\ \A b \in Analyses : b # a => result'[b] = result[b]
         /\ UNCHANGED <<lifecycles, risks, snapshots, nextId, line, written, report>>
<1>1. /\ DOMAIN pc = Sessions /\ DOMAIN result = Analyses /\ a \in Sessions
  BY DEF Shape, Sessions
<1>2. /\ DOMAIN result' = Analyses
      /\ result'[a] = BomRisks(BomOf[a], LatestRisks(a))
      /\ \A b \in Analyses : b # a => result'[b] = result[b]
  BY <1>1 DEF Assess
<1>3. BomRisks(BomOf[a], LatestRisks(a)).from = UNION Range(LatestRisks(a))
  BY DEF BomRisks
<1>4. /\ pc[a] = "assess" /\ pc'[a] = "snapshot" /\ line'[a] = line[a]
      /\ Alone(a)
      /\ DOMAIN pc' = Sessions
      /\ UNCHANGED <<lifecycles, risks, snapshots, nextId, line, written, report>>
  BY <1>1 DEF Assess, Alone
<1> QED BY <1>2, <1>3, <1>4

(* What RecordSnapshot changes.                                            *)
LEMMA RecordSnapshotEffect ==
  ASSUME NEW a \in Analyses, Shape, RecordSnapshot(a)
  PROVE  /\ pc[a] = "snapshot" /\ pc'[a] = "commit" /\ line'[a] = line[a]
         /\ Alone(a)
         /\ DOMAIN pc' = Sessions /\ DOMAIN written' = Analyses
         /\ nextId \in [Tables -> Nat]
         /\ nextId' = [nextId EXCEPT !["snapshot"] = @ + 1]
         /\ UNCHANGED <<lifecycles, risks, snapshots, line, result, report>>
         /\ \E s : /\ s.by = a /\ s.bom = BomOf[a] /\ s.from = result[a].from
                   /\ s.id = nextId["snapshot"] /\ s.created = started[a]
                   /\ s.assessment = Assessment(result[a].risks)
                   /\ s.explanation = Explanation(s.assessment)
                   /\ written'[a] = [ lifecycles |-> written[a].lifecycles,
                                      risks |-> written[a].risks, snapshots |-> {s} ]
         /\ \A b \in Analyses : b # a => written'[b] = written[b]
<1> DEFINE assessment == Assessment(result[a].risks)
           s == [ id |-> nextId["snapshot"], by |-> a, bom |-> BomOf[a], created |-> started[a],
                  assessment |-> assessment, explanation |-> Explanation(assessment),
                  from |-> result[a].from ]
<1>1. /\ DOMAIN written = Analyses
      /\ written[a] = [ lifecycles |-> written[a].lifecycles, risks |-> written[a].risks,
                        snapshots |-> written[a].snapshots ]
      /\ nextId \in [Tables -> Nat]
      /\ DOMAIN pc = Sessions /\ a \in Sessions
  BY DEF Shape, Sessions
<1>2. written' = [written EXCEPT ![a].snapshots = {s}]
  BY DEF RecordSnapshot
<1>3. /\ s.by = a /\ s.bom = BomOf[a] /\ s.from = result[a].from
      /\ s.id = nextId["snapshot"] /\ s.created = started[a]
      /\ s.assessment = Assessment(result[a].risks)
      /\ s.explanation = Explanation(s.assessment)
  OBVIOUS
<1> HIDE DEF s
<1>4. /\ DOMAIN written' = Analyses
      /\ written'[a] = [written[a] EXCEPT !.snapshots = {s}]
      /\ \A b \in Analyses : b # a => written'[b] = written[b]
  BY <1>1, <1>2
<1>5. written'[a] = [ lifecycles |-> written[a].lifecycles,
                      risks |-> written[a].risks, snapshots |-> {s} ]
  BY <1>1, <1>4
<1>6. /\ pc[a] = "snapshot" /\ pc'[a] = "commit" /\ line'[a] = line[a]
      /\ Alone(a)
      /\ DOMAIN pc' = Sessions
      /\ nextId' = [nextId EXCEPT !["snapshot"] = @ + 1]
      /\ UNCHANGED <<lifecycles, risks, snapshots, line, result, report>>
  BY <1>1 DEF RecordSnapshot, Alone
<1> QED BY <1>1, <1>3, <1>4, <1>5, <1>6

(* What the end of an analysis changes for itself.                         *)
LEMMA ReleaseEffect ==
  ASSUME NEW a \in Analyses, Shape, NEW end, Release(a, end)
  PROVE  /\ pc'[a] = end /\ line'[a] = 1
         /\ Alone(a)
         /\ DOMAIN pc' = Sessions /\ DOMAIN line' = Sessions
         /\ DOMAIN written' = Analyses /\ DOMAIN result' = Analyses
         /\ written'[a] = Nothing
         /\ \A b \in Analyses : b # a => written'[b] = written[b] /\ result'[b] = result[b]
         /\ UNCHANGED <<nextId, report>>
BY DEF Release, Shape, Sessions, Alone

(* What ReadSnapshot changes.                                              *)
LEMMA ReadSnapshotEffect ==
  ASSUME NEW r \in Reports, Shape, ReadSnapshot(r)
  PROVE  /\ pc[r] = "idle" /\ pc'[r] = "risks" /\ line'[r] = line[r]
         /\ Alone(r)
         /\ DOMAIN pc' = Sessions /\ DOMAIN report' = Reports
         /\ report'[r] = [ snapshot |-> LatestSnapshot(BomOf[r]), risks |-> report[r].risks,
                           lifecycles |-> report[r].lifecycles ]
         /\ \A q \in Reports : q # r => report'[q] = report[q]
         /\ UNCHANGED <<lifecycles, risks, snapshots, nextId, line, written, result>>
<1>1. /\ DOMAIN report = Reports
      /\ report[r] = [ snapshot |-> report[r].snapshot, risks |-> report[r].risks,
                       lifecycles |-> report[r].lifecycles ]
      /\ DOMAIN pc = Sessions /\ r \in Sessions
  BY DEF Shape, Sessions
<1>2. /\ DOMAIN report' = Reports
      /\ report'[r] = [report[r] EXCEPT !.snapshot = LatestSnapshot(BomOf[r])]
      /\ \A q \in Reports : q # r => report'[q] = report[q]
  BY <1>1 DEF ReadSnapshot
<1>3. report'[r] = [ snapshot |-> LatestSnapshot(BomOf[r]), risks |-> report[r].risks,
                     lifecycles |-> report[r].lifecycles ]
  BY <1>1, <1>2
<1>4. /\ pc[r] = "idle" /\ pc'[r] = "risks" /\ line'[r] = line[r]
      /\ Alone(r)
      /\ DOMAIN pc' = Sessions
      /\ UNCHANGED <<lifecycles, risks, snapshots, nextId, line, written, result>>
  BY <1>1 DEF ReadSnapshot, Alone
<1> QED BY <1>2, <1>3, <1>4

(* Where a report goes after a component.                                  *)
LEMMA NextReadEffect ==
  ASSUME NEW r \in Reports, Shape, NEW next, NextRead(r, next)
  PROVE  /\ \/ LastLine(r) /\ pc'[r] = next /\ line'[r] = 1
            \/ ~LastLine(r) /\ pc'[r] = pc[r] /\ line'[r] = line[r] + 1
         /\ Alone(r)
         /\ DOMAIN pc' = Sessions /\ DOMAIN line' = Sessions
         /\ UNCHANGED <<lifecycles, risks, snapshots, nextId, written, result>>
<1>1. DOMAIN pc = Sessions /\ DOMAIN line = Sessions /\ r \in Sessions
  BY DEF Shape, Sessions
<1>2. CASE LastLine(r)
  BY <1>1, <1>2 DEF NextRead, Alone
<1>3. CASE ~LastLine(r)
  BY <1>1, <1>3 DEF NextRead, Alone
<1> QED BY <1>2, <1>3

(* What ReadRisk changes.                                                  *)
LEMMA ReadRiskEffect ==
  ASSUME NEW r \in Reports, Shape, ReadRisk(r)
  PROVE  /\ pc[r] = "risks" /\ NextRead(r, "lifecycles")
         /\ DOMAIN report' = Reports
         /\ report'[r] = [ snapshot |-> report[r].snapshot,
                           risks |-> report[r].risks \cup
                             Newest({row \in risks : row.component = Component(r)}),
                           lifecycles |-> report[r].lifecycles ]
         /\ \A q \in Reports : q # r => report'[q] = report[q]
<1> DEFINE new == Newest({row \in risks : row.component = Component(r)})
<1>1. /\ DOMAIN report = Reports
      /\ report[r] = [ snapshot |-> report[r].snapshot, risks |-> report[r].risks,
                       lifecycles |-> report[r].lifecycles ]
  BY DEF Shape
<1>2. /\ pc[r] = "risks" /\ NextRead(r, "lifecycles")
      /\ report' = [report EXCEPT ![r].risks = @ \cup new]
  BY DEF ReadRisk
<1> HIDE DEF new
<1>3. /\ DOMAIN report' = Reports
      /\ report'[r] = [report[r] EXCEPT !.risks = @ \cup new]
      /\ \A q \in Reports : q # r => report'[q] = report[q]
  BY <1>1, <1>2
<1>4. report'[r] = [ snapshot |-> report[r].snapshot, risks |-> report[r].risks \cup new,
                     lifecycles |-> report[r].lifecycles ]
  BY <1>1, <1>3
<1> QED BY <1>2, <1>3, <1>4 DEF new

(* What ReadLifecycle changes.                                             *)
LEMMA ReadLifecycleEffect ==
  ASSUME NEW r \in Reports, Shape, ReadLifecycle(r)
  PROVE  /\ pc[r] = "lifecycles" /\ NextRead(r, "build")
         /\ DOMAIN report' = Reports
         /\ report'[r] = [ snapshot |-> report[r].snapshot, risks |-> report[r].risks,
                           lifecycles |-> report[r].lifecycles \cup
                             Newest({row \in lifecycles : row.component = Component(r)}) ]
         /\ \A q \in Reports : q # r => report'[q] = report[q]
<1> DEFINE new == Newest({row \in lifecycles : row.component = Component(r)})
<1>1. /\ DOMAIN report = Reports
      /\ report[r] = [ snapshot |-> report[r].snapshot, risks |-> report[r].risks,
                       lifecycles |-> report[r].lifecycles ]
  BY DEF Shape
<1>2. /\ pc[r] = "lifecycles" /\ NextRead(r, "build")
      /\ report' = [report EXCEPT ![r].lifecycles = @ \cup new]
  BY DEF ReadLifecycle
<1> HIDE DEF new
<1>3. /\ DOMAIN report' = Reports
      /\ report'[r] = [report[r] EXCEPT !.lifecycles = @ \cup new]
      /\ \A q \in Reports : q # r => report'[q] = report[q]
  BY <1>1, <1>2
<1>4. report'[r] = [ snapshot |-> report[r].snapshot, risks |-> report[r].risks,
                     lifecycles |-> report[r].lifecycles \cup new ]
  BY <1>1, <1>3
<1> QED BY <1>2, <1>3, <1>4 DEF new

(* What Build changes.                                                     *)
LEMMA BuildEffect ==
  ASSUME NEW r \in Reports, Shape, Build(r)
  PROVE  /\ pc[r] = "build" /\ pc'[r] = "done" /\ line'[r] = line[r]
         /\ Alone(r)
         /\ DOMAIN pc' = Sessions
         /\ UNCHANGED <<lifecycles, risks, snapshots, nextId, line, written, result, report>>
BY DEF Build, Alone, Shape, Sessions

-----------------------------------------------------------------------------
(* Every state is well formed.                                             *)

(* No session has begun.                                                   *)
LEMMA ShapeInit == HistoryInit => Shape
<1> SUFFICES ASSUME HistoryInit PROVE Shape
  OBVIOUS
<1>1. \A s \in Sessions : line[s] = 1 /\ 1 \in DOMAIN LinesFor(s)
  BY LineFacts DEF HistoryInit
<1>2. DOMAIN line = Sessions /\ \A s \in Sessions : line[s] \in DOMAIN LinesFor(s)
  BY <1>1 DEF HistoryInit
<1>3. nextId \in [Tables -> Nat]
  BY DEF HistoryInit
<1>4. /\ DOMAIN pc = Sessions
      /\ \A a \in Analyses : pc[a] \in AnalysisStates
      /\ \A r \in Reports : pc[r] \in ReportStates
  BY DEF HistoryInit, Sessions, AnalysisStates, ReportStates
<1>5. /\ DOMAIN written = Analyses /\ DOMAIN result = Analyses /\ DOMAIN report = Reports
      /\ \A a \in Analyses : written[a] = Nothing
      /\ \A r \in Reports : report[r] = NoReport
  BY DEF HistoryInit
<1>6. /\ Nothing = [ lifecycles |-> Nothing.lifecycles, risks |-> Nothing.risks,
                     snapshots |-> Nothing.snapshots ]
      /\ NoReport = [ snapshot |-> NoReport.snapshot, risks |-> NoReport.risks,
                      lifecycles |-> NoReport.lifecycles ]
  BY DEF Nothing, NoReport
<1> QED BY <1>1, <1>2, <1>3, <1>4, <1>5, <1>6 DEF Shape

(* A step that moves one session, within its states and its lines, and     *)
(* keeps the records in form, keeps the whole state in form.               *)
LEMMA ShapeKept ==
  ASSUME Shape, NEW s \in Sessions, Alone(s),
         DOMAIN pc' = Sessions, DOMAIN line' = Sessions,
         s \in Analyses => pc'[s] \in AnalysisStates,
         s \in Reports => pc'[s] \in ReportStates,
         line'[s] \in DOMAIN LinesFor(s), pc'[s] # "idle",
         nextId' \in [Tables -> Nat],
         DOMAIN written' = Analyses, DOMAIN result' = Analyses, DOMAIN report' = Reports,
         \A a \in Analyses :
           written'[a] = [ lifecycles |-> written'[a].lifecycles, risks |-> written'[a].risks,
                           snapshots |-> written'[a].snapshots ],
         \A r \in Reports :
           report'[r] = [ snapshot |-> report'[r].snapshot, risks |-> report'[r].risks,
                          lifecycles |-> report'[r].lifecycles ]
  PROVE  Shape'
<1>1. \A a \in Analyses : pc'[a] \in AnalysisStates
  BY DEF Shape, Alone, Sessions
<1>2. \A r \in Reports : pc'[r] \in ReportStates
  BY DEF Shape, Alone, Sessions
<1>3. \A t \in Sessions : line'[t] \in DOMAIN LinesFor(t)
  BY DEF Shape, Alone
<1>4. \A t \in Sessions : pc'[t] = "idle" => line'[t] = 1
  BY DEF Shape, Alone
<1> QED BY <1>1, <1>2, <1>3, <1>4 DEF Shape

(* Every statement keeps Shape.                                            *)
LEMMA ShapeStep ==
  ASSUME Shape, [HistoryNext]_historyVars
  PROVE  Shape'
<1> DEFINE WrittenInForm == \A a \in Analyses :
             written'[a] = [ lifecycles |-> written'[a].lifecycles, risks |-> written'[a].risks,
                             snapshots |-> written'[a].snapshots ]
           ReportInForm == \A r \in Reports :
             report'[r] = [ snapshot |-> report'[r].snapshot, risks |-> report'[r].risks,
                            lifecycles |-> report'[r].lifecycles ]
<1>0. /\ DOMAIN pc = Sessions /\ DOMAIN line = Sessions
      /\ DOMAIN written = Analyses /\ DOMAIN result = Analyses /\ DOMAIN report = Reports
      /\ \A s \in Sessions : line[s] \in DOMAIN LinesFor(s)
      /\ nextId \in [Tables -> Nat]
      /\ \A s \in Sessions : s \in Analyses => s \notin Reports
  BY HistoryAssumption DEF Shape
<1>1. ASSUME UNCHANGED written PROVE WrittenInForm
  BY <1>1 DEF Shape
<1>2. ASSUME UNCHANGED report PROVE ReportInForm
  BY <1>2 DEF Shape
<1>3. ASSUME NEW t \in Tables, nextId' = [nextId EXCEPT ![t] = @ + 1]
      PROVE  nextId' \in [Tables -> Nat]
  BY <1>0, <1>3
<1>4. ASSUME NEW a \in Analyses, \A b \in Analyses : b # a => written'[b] = written[b],
             written'[a] = [ lifecycles |-> written'[a].lifecycles, risks |-> written'[a].risks,
                             snapshots |-> written'[a].snapshots ]
      PROVE  WrittenInForm
  <2>1. \A b \in Analyses : b # a =>
          written'[b] = [ lifecycles |-> written'[b].lifecycles, risks |-> written'[b].risks,
                          snapshots |-> written'[b].snapshots ]
    BY <1>4 DEF Shape
  <2> QED BY <1>4, <2>1
<1>5. ASSUME NEW r \in Reports, \A q \in Reports : q # r => report'[q] = report[q],
             report'[r] = [ snapshot |-> report'[r].snapshot, risks |-> report'[r].risks,
                            lifecycles |-> report'[r].lifecycles ]
      PROVE  ReportInForm
  <2>1. \A q \in Reports : q # r =>
          report'[q] = [ snapshot |-> report'[q].snapshot, risks |-> report'[q].risks,
                         lifecycles |-> report'[q].lifecycles ]
    BY <1>5 DEF Shape
  <2> QED BY <1>5, <2>1
<1>6. \A s \in Sessions : /\ 1 \in DOMAIN LinesFor(s)
                          /\ ~LastLine(s) => line[s] + 1 \in DOMAIN LinesFor(s)
  BY <1>0, LineFacts DEF LastLine
<1> HIDE DEF WrittenInForm, ReportInForm
<1> USE DEF AnalysisStates, ReportStates
<1>7. CASE UNCHANGED historyVars
  BY <1>7 DEF historyVars, Shape
<1>8. ASSUME NEW a \in Analyses, AnalysisNext(a) PROVE Shape'
  <2>0. a \in Sessions
    BY DEF Sessions
  <2>1. CASE Begin(a)
    <3>1. WrittenInForm /\ ReportInForm
      BY <2>1, <1>1, <1>2, BeginEffect
    <3> QED BY <2>0, <2>1, <3>1, <1>0, BeginEffect, ShapeKept DEF WrittenInForm, ReportInForm
  <2>2. CASE RecordLifecycle(a)
    <3>1. WrittenInForm /\ ReportInForm
      <4>1. PICK row : written'[a] = [ lifecycles |-> written[a].lifecycles \cup {row},
                             risks |-> written[a].risks, snapshots |-> written[a].snapshots ]
        BY <2>2, RecordLifecycleEffect
      <4>2. written'[a] = [ lifecycles |-> written'[a].lifecycles, risks |-> written'[a].risks,
                            snapshots |-> written'[a].snapshots ]
        BY <4>1
      <4> QED BY <2>2, <4>2, <1>2, <1>4, RecordLifecycleEffect
    <3>2. nextId' \in [Tables -> Nat]
      BY <2>2, <1>3, RecordLifecycleEffect DEF Tables
    <3> QED BY <2>0, <2>2, <3>1, <3>2, <1>0, RecordLifecycleEffect, ShapeKept
            DEF WrittenInForm, ReportInForm
  <2>3. CASE RecordRisk(a)
    <3>1. WrittenInForm /\ ReportInForm
      <4>0. written'[a] = [ lifecycles |-> written[a].lifecycles,
                            risks |-> written[a].risks \cup {RiskRow(a)},
                            snapshots |-> written[a].snapshots ]
        BY <2>3, RecordRiskEffect
      <4>1. written'[a] = [ lifecycles |-> written'[a].lifecycles, risks |-> written'[a].risks,
                            snapshots |-> written'[a].snapshots ]
        BY <4>0
      <4> QED BY <2>3, <4>1, <1>2, <1>4, RecordRiskEffect
    <3>2. nextId' \in [Tables -> Nat]
      BY <2>3, <1>3, RecordRiskEffect DEF Tables
    <3>3. /\ pc'[a] \in AnalysisStates \ {"idle"} /\ line'[a] \in DOMAIN LinesFor(a)
      BY <2>0, <2>3, <1>0, <1>6, RecordRiskEffect
    <3> QED BY <2>0, <2>3, <3>1, <3>2, <3>3, <1>0, RecordRiskEffect, ShapeKept
            DEF WrittenInForm, ReportInForm
  <2>4. CASE Assess(a)
    <3>1. WrittenInForm /\ ReportInForm
      BY <2>4, <1>1, <1>2, AssessEffect
    <3> QED BY <2>0, <2>4, <3>1, <1>0, AssessEffect, ShapeKept DEF WrittenInForm, ReportInForm
  <2>5. CASE RecordSnapshot(a)
    <3>1. WrittenInForm /\ ReportInForm
      <4>1. PICK s : written'[a] = [ lifecycles |-> written[a].lifecycles,
                             risks |-> written[a].risks, snapshots |-> {s} ]
        BY ZenonT(40), <2>5, RecordSnapshotEffect
      <4>2. written'[a] = [ lifecycles |-> written'[a].lifecycles, risks |-> written'[a].risks,
                            snapshots |-> written'[a].snapshots ]
        BY <4>1
      <4> QED BY <2>5, <4>2, <1>2, <1>4, RecordSnapshotEffect
    <3>2. nextId' \in [Tables -> Nat]
      BY <2>5, <1>3, RecordSnapshotEffect DEF Tables
    <3> QED BY <2>0, <2>5, <3>1, <3>2, <1>0, RecordSnapshotEffect, ShapeKept
            DEF WrittenInForm, ReportInForm
  <2>6. ASSUME NEW end \in {"done", "failed"}, Release(a, end) PROVE Shape'
    <3>1. WrittenInForm /\ ReportInForm
      <4>1. written'[a] = [ lifecycles |-> written'[a].lifecycles, risks |-> written'[a].risks,
                            snapshots |-> written'[a].snapshots ]
        BY <2>6, ReleaseEffect DEF Nothing
      <4> QED BY <2>6, <4>1, <1>2, <1>4, ReleaseEffect
    <3> QED BY <2>0, <2>6, <3>1, <1>0, <1>6, ReleaseEffect, ShapeKept
            DEF WrittenInForm, ReportInForm
  <2>7. CASE Commit(a)
    BY <2>6, <2>7 DEF Commit
  <2>8. CASE RollBack(a)
    BY <2>6, <2>8 DEF RollBack
  <2> QED BY <1>8, <2>1, <2>2, <2>3, <2>4, <2>5, <2>7, <2>8 DEF AnalysisNext
<1>9. ASSUME NEW r \in Reports, ReportNext(r) PROVE Shape'
  <2>0. r \in Sessions
    BY DEF Sessions
  <2>1. CASE ReadSnapshot(r)
    <3>1. WrittenInForm /\ ReportInForm
      <4>0. report'[r] = [ snapshot |-> LatestSnapshot(BomOf[r]), risks |-> report[r].risks,
                           lifecycles |-> report[r].lifecycles ]
        BY <2>1, ReadSnapshotEffect
      <4>1. report'[r] = [ snapshot |-> report'[r].snapshot, risks |-> report'[r].risks,
                           lifecycles |-> report'[r].lifecycles ]
        BY <4>0
      <4> QED BY <2>1, <4>1, <1>1, <1>5, ReadSnapshotEffect
    <3> QED BY ZenonT(40), <2>0, <2>1, <3>1, <1>0, ReadSnapshotEffect, ShapeKept
            DEF WrittenInForm, ReportInForm
  <2>2. ASSUME NEW next \in ReportStates \ {"idle"}, NextRead(r, next),
               pc[r] \in ReportStates \ {"idle"}, DOMAIN report' = Reports, ReportInForm
        PROVE  Shape'
    <3>1. WrittenInForm
      BY <2>2, <1>1, NextReadEffect
    <3>2. pc'[r] \in ReportStates \ {"idle"} /\ line'[r] \in DOMAIN LinesFor(r)
      BY <2>0, <2>2, <1>6, NextReadEffect
    <3> QED BY <2>0, <2>2, <3>1, <3>2, <1>0, NextReadEffect, ShapeKept
            DEF WrittenInForm, ReportInForm
  <2>3. CASE ReadRisk(r)
    <3>0. report'[r] = [ snapshot |-> report[r].snapshot,
                         risks |-> report[r].risks \cup
                           Newest({row \in risks : row.component = Component(r)}),
                         lifecycles |-> report[r].lifecycles ]
      BY <2>3, ReadRiskEffect
    <3>1. report'[r] = [ snapshot |-> report'[r].snapshot, risks |-> report'[r].risks,
                         lifecycles |-> report'[r].lifecycles ]
      BY <3>0
    <3>2. ReportInForm
      BY <2>3, <3>1, <1>5, ReadRiskEffect
    <3> QED BY <2>2, <2>3, <3>2, ReadRiskEffect
  <2>4. CASE ReadLifecycle(r)
    <3>0. report'[r] = [ snapshot |-> report[r].snapshot, risks |-> report[r].risks,
                         lifecycles |-> report[r].lifecycles \cup
                           Newest({row \in lifecycles : row.component = Component(r)}) ]
      BY <2>4, ReadLifecycleEffect
    <3>1. report'[r] = [ snapshot |-> report'[r].snapshot, risks |-> report'[r].risks,
                         lifecycles |-> report'[r].lifecycles ]
      BY <3>0
    <3>2. ReportInForm
      BY <2>4, <3>1, <1>5, ReadLifecycleEffect
    <3> QED BY <2>2, <2>4, <3>2, ReadLifecycleEffect
  <2>5. CASE Build(r)
    <3>1. WrittenInForm /\ ReportInForm
      BY <2>5, <1>1, <1>2, BuildEffect
    <3> QED BY <2>0, <2>5, <3>1, <1>0, BuildEffect, ShapeKept DEF WrittenInForm, ReportInForm
  <2> QED BY <1>9, <2>1, <2>3, <2>4, <2>5 DEF ReportNext
<1> QED BY <1>7, <1>8, <1>9 DEF HistoryNext

-----------------------------------------------------------------------------
(* The rows have their types, and ids that identify them.                  *)

Identified(rows, type, next) ==
  /\ rows \subseteq type
  /\ \A x, y \in rows : x.id = y.id => x = y
  /\ \A x \in rows : x.id < next

(* RiskTypeOK says that the rows of both tables are identified.            *)
LEMMA TypeOKIdentified ==
  RiskTypeOK <=> /\ Identified(AllRisks, RiskRows, nextId["risk"])
                 /\ Identified(AllLifecycles, LifecycleRows, nextId["lifecycle"])
BY DEF RiskTypeOK, Identified, AllRisks, AllLifecycles

(* Fewer rows are identified too, and so are rows below a later id.        *)
LEMMA IdentifiedFewer ==
  ASSUME NEW rows, NEW type, NEW next, Identified(rows, type, next), NEW fewer \in SUBSET rows
  PROVE  Identified(fewer, type, next)
BY DEF Identified

(* So are they with a row that takes the next id of the sequence.          *)
LEMMA IdentifiedMore ==
  ASSUME NEW rows, NEW type, NEW next \in Nat, Identified(rows, type, next),
         \A x \in type : x.id \in Nat,
         NEW row \in type, row.id = next,
         NEW more, more \subseteq rows \cup {row}
  PROVE  Identified(more, type, next + 1)
<1>1. \A x \in rows : x.id \in Nat /\ x.id < next
  BY DEF Identified
<1>2. \A x \in more : x.id < next + 1
  BY <1>1
<1>3. \A x, y \in more : x.id = y.id => x = y
  <2>1. TAKE x \in more, y \in more
  <2>2. CASE x \in rows /\ y \in rows
    BY <2>2 DEF Identified
  <2>3. CASE x = row \/ y = row
    BY <2>3, <1>1
  <2> QED BY <2>2, <2>3
<1> QED BY <1>2, <1>3 DEF Identified

(* There is no row.                                                        *)
LEMMA RowsInit == HistoryInit => RowsHeld
<1> SUFFICES ASSUME HistoryInit PROVE RowsHeld
  OBVIOUS
<1>1. risks = {} /\ lifecycles = {}
  BY DEF HistoryInit
<1>2. \A a \in Analyses : written[a].risks = {} /\ written[a].lifecycles = {}
  BY DEF HistoryInit, Nothing
<1>3. AllRisks = {} /\ AllLifecycles = {}
  BY <1>1, <1>2 DEF AllRisks, AllLifecycles
<1>4. RiskTypeOK
  BY <1>3, TypeOKIdentified DEF Identified
<1>5. AllJustified
  BY <1>3 DEF AllJustified, AllRisks
<1> QED BY <1>4, <1>5 DEF RowsHeld

(* Where no row is added.                                                  *)
LEMMA RowsFewer ==
  ASSUME RowsHeld, AllRisks' \subseteq AllRisks, AllLifecycles' \subseteq AllLifecycles,
         nextId'["risk"] = nextId["risk"], nextId'["lifecycle"] = nextId["lifecycle"]
  PROVE  RowsHeld'
<1>1. /\ Identified(AllRisks, RiskRows, nextId["risk"])
      /\ Identified(AllLifecycles, LifecycleRows, nextId["lifecycle"])
  BY TypeOKIdentified DEF RowsHeld
<1>2. /\ Identified(AllRisks', RiskRows, nextId'["risk"])
      /\ Identified(AllLifecycles', LifecycleRows, nextId'["lifecycle"])
  BY <1>1, IdentifiedFewer
<1>3. RiskTypeOK'
  BY <1>2 DEF RiskTypeOK, Identified, AllRisks, AllLifecycles, RiskRows, LifecycleRows
<1>4. \A row \in AllRisks' : Justified(row)
  BY DEF RowsHeld, AllJustified, AllRisks
<1>5. AllJustified'
  BY <1>4 DEF AllJustified, AllRisks, Justified
<1> QED BY <1>3, <1>5 DEF RowsHeld

(* Every statement keeps RowsHeld.                                         *)
LEMMA RowsStep ==
  ASSUME Shape, RowsHeld, [HistoryNext]_historyVars
  PROVE  RowsHeld'
<1>0. /\ Identified(AllRisks, RiskRows, nextId["risk"])
      /\ Identified(AllLifecycles, LifecycleRows, nextId["lifecycle"])
      /\ nextId["risk"] \in Nat /\ nextId["lifecycle"] \in Nat
      /\ \A row \in AllRisks : Justified(row)
      /\ DOMAIN nextId = Tables
  BY TypeOKIdentified DEF RowsHeld, AllJustified, AllRisks, Shape, Tables
<1>1. ASSUME UNCHANGED <<risks, lifecycles, written, nextId>> PROVE RowsHeld'
  BY <1>1, RowsFewer DEF AllRisks, AllLifecycles
<1>2. ASSUME NEW a \in Analyses, Begin(a) PROVE RowsHeld'
  BY <1>1, <1>2, BeginEffect
<1>3. ASSUME NEW a \in Analyses, RecordLifecycle(a) PROVE RowsHeld'
  <2>1. PICK row \in LifecycleRows :
          /\ row.id = nextId["lifecycle"]
          /\ written'[a] = [ lifecycles |-> written[a].lifecycles \cup {row},
                             risks |-> written[a].risks, snapshots |-> written[a].snapshots ]
    BY ZenonT(40), <1>3, RecordLifecycleEffect
  <2>2. /\ written'[a].lifecycles = written[a].lifecycles \cup {row}
        /\ written'[a].risks = written[a].risks
    BY <2>1
  <2>3. /\ \A b \in Analyses : b # a => written'[b] = written[b]
        /\ UNCHANGED <<risks, lifecycles>>
        /\ nextId' = [nextId EXCEPT !["lifecycle"] = @ + 1]
    BY <1>3, RecordLifecycleEffect
  <2>4. AllRisks' = AllRisks
    BY <2>2, <2>3 DEF AllRisks
  <2>5. AllLifecycles' \subseteq AllLifecycles \cup {row}
    BY <2>2, <2>3 DEF AllLifecycles
  <2>6. /\ nextId'["risk"] = nextId["risk"]
        /\ nextId'["lifecycle"] = nextId["lifecycle"] + 1
    BY <2>3, <1>0 DEF Tables
  <2>7. \A x \in LifecycleRows : x.id \in Nat
    BY DEF LifecycleRows
  <2>8. Identified(AllLifecycles', LifecycleRows, nextId["lifecycle"] + 1)
    BY <1>0, <2>1, <2>5, <2>7, IdentifiedMore
  <2>9. RiskTypeOK'
    BY <1>0, <2>4, <2>6, <2>8
       DEF RiskTypeOK, Identified, AllRisks, AllLifecycles, RiskRows, LifecycleRows
  <2>10. AllJustified'
    BY <1>0, <2>4 DEF AllJustified, AllRisks, Justified
  <2> QED BY <2>9, <2>10 DEF RowsHeld
<1>4. ASSUME NEW a \in Analyses, RecordRisk(a) PROVE RowsHeld'
  <2>1. written'[a] = [ lifecycles |-> written[a].lifecycles,
                        risks |-> written[a].risks \cup {RiskRow(a)},
                        snapshots |-> written[a].snapshots ]
    BY <1>4, RecordRiskEffect
  <2> DEFINE row == RiskRow(a)
  <2>2. row \in RiskRows /\ row.id = nextId["risk"] /\ Justified(row)
    BY RiskRowRated
  <2> HIDE DEF row
  <2>3. /\ written'[a].risks = written[a].risks \cup {row}
        /\ written'[a].lifecycles = written[a].lifecycles
    BY <2>1 DEF row
  <2>4. /\ \A b \in Analyses : b # a => written'[b] = written[b]
        /\ UNCHANGED <<risks, lifecycles>>
        /\ nextId' = [nextId EXCEPT !["risk"] = @ + 1]
    BY <1>4, RecordRiskEffect
  <2>5. AllLifecycles' = AllLifecycles
    BY <2>3, <2>4 DEF AllLifecycles
  <2>6. AllRisks' \subseteq AllRisks \cup {row}
    BY <2>3, <2>4 DEF AllRisks
  <2>7. /\ nextId'["lifecycle"] = nextId["lifecycle"]
        /\ nextId'["risk"] = nextId["risk"] + 1
    BY <2>4, <1>0 DEF Tables
  <2>8. \A x \in RiskRows : x.id \in Nat
    BY DEF RiskRows
  <2>9. Identified(AllRisks', RiskRows, nextId["risk"] + 1)
    BY <1>0, <2>2, <2>6, <2>8, IdentifiedMore
  <2>10. RiskTypeOK'
    BY <1>0, <2>5, <2>7, <2>9
       DEF RiskTypeOK, Identified, AllRisks, AllLifecycles, RiskRows, LifecycleRows
  <2>11. \A x \in AllRisks' : Justified(x)
    BY <1>0, <2>2, <2>6
  <2>12. AllJustified'
    BY <2>11 DEF AllJustified, AllRisks, Justified
  <2> QED BY <2>10, <2>12 DEF RowsHeld
<1>5. ASSUME NEW a \in Analyses, Assess(a) PROVE RowsHeld'
  BY <1>1, <1>5, AssessEffect
<1>6. ASSUME NEW a \in Analyses, RecordSnapshot(a) PROVE RowsHeld'
  <2>1. PICK s : written'[a] = [ lifecycles |-> written[a].lifecycles,
                                 risks |-> written[a].risks, snapshots |-> {s} ]
    BY ZenonT(40), <1>6, RecordSnapshotEffect
  <2>2. /\ written'[a].lifecycles = written[a].lifecycles
        /\ written'[a].risks = written[a].risks
    BY <2>1
  <2>3. /\ \A b \in Analyses : b # a => written'[b] = written[b]
        /\ UNCHANGED <<risks, lifecycles>>
        /\ nextId' = [nextId EXCEPT !["snapshot"] = @ + 1]
    BY <1>6, RecordSnapshotEffect
  <2>4. AllRisks' = AllRisks /\ AllLifecycles' = AllLifecycles
    BY <2>2, <2>3 DEF AllRisks, AllLifecycles
  <2>5. nextId'["risk"] = nextId["risk"] /\ nextId'["lifecycle"] = nextId["lifecycle"]
    BY <2>3, <1>0 DEF Tables
  <2> QED BY <2>4, <2>5, RowsFewer
<1>7. ASSUME NEW a \in Analyses, NEW end, Release(a, end),
             risks' \subseteq risks \cup written[a].risks,
             lifecycles' \subseteq lifecycles \cup written[a].lifecycles
      PROVE  RowsHeld'
  <2>1. /\ written'[a].risks = {} /\ written'[a].lifecycles = {}
        /\ \A b \in Analyses : b # a => written'[b] = written[b]
        /\ nextId' = nextId
    BY <1>7, ReleaseEffect DEF Nothing
  <2>2. AllRisks' \subseteq AllRisks
    BY <1>7, <2>1 DEF AllRisks
  <2>3. AllLifecycles' \subseteq AllLifecycles
    BY <1>7, <2>1 DEF AllLifecycles
  <2> QED BY <2>1, <2>2, <2>3, RowsFewer
<1>8. ASSUME NEW a \in Analyses, Commit(a) PROVE RowsHeld'
  BY <1>7, <1>8 DEF Commit
<1>9. ASSUME NEW a \in Analyses, RollBack(a) PROVE RowsHeld'
  BY <1>7, <1>9 DEF RollBack
<1>10. ASSUME NEW r \in Reports, ReportNext(r) PROVE RowsHeld'
  <2>1. UNCHANGED <<risks, lifecycles, written, nextId>>
    BY <1>10 DEF ReportNext, ReadSnapshot, ReadRisk, ReadLifecycle, Build, NextRead
  <2> QED BY <1>1, <2>1
<1>11. CASE UNCHANGED historyVars
  BY <1>1, <1>11 DEF historyVars
<1> QED BY <1>2, <1>3, <1>4, <1>5, <1>6, <1>8, <1>9, <1>10, <1>11
        DEF HistoryNext, AnalysisNext

-----------------------------------------------------------------------------
(* An open analysis has recorded the lines it has passed, and it is stored *)
(* as a whole.                                                             *)

Own(a, rows) == {row \in rows : row.by = a}

Every(a, rows) ==
  /\ {row.component : row \in rows} = Range(LinesFor(a))
  /\ Cardinality(rows) = Len(LinesFor(a))

StoredWhole(a) ==
  IF pc[a] = "done"
  THEN /\ Every(a, Own(a, risks)) /\ Every(a, Own(a, lifecycles))
       /\ Cardinality(Own(a, snapshots)) = 1
  ELSE Own(a, risks) = {} /\ Own(a, lifecycles) = {} /\ Own(a, snapshots) = {}

(* AnalysisAtomic says that each analysis is stored whole or not at all.   *)
LEMMA AtomicOf == AnalysisAtomic <=> \A a \in Analyses : StoredWhole(a)
BY DEF AnalysisAtomic, StoredWhole, Every, Own

(* Before the first line, no record is expected.                           *)
LEMMA RecordedNone ==
  ASSUME NEW a \in Analyses
  PROVE  Recorded(a, {}, 0)
BY FS_EmptySet DEF Recorded

(* A line more is a record more.                                           *)
LEMMA RecordedMore ==
  ASSUME NEW a \in Analyses, NEW rows, NEW n \in Nat, Recorded(a, rows, n),
         NEW row, row \notin rows, row.by = a, row.component = LinesFor(a)[n + 1]
  PROVE  Recorded(a, rows \cup {row}, n + 1)
<1>1. IsFiniteSet(rows) /\ Cardinality(rows) = n
  BY DEF Recorded
<1>2. IsFiniteSet(rows \cup {row}) /\ Cardinality(rows \cup {row}) = n + 1
  BY <1>1, FS_AddElement
<1>3. {x.component : x \in rows \cup {row}} =
        {x.component : x \in rows} \cup {LinesFor(a)[n + 1]}
  OBVIOUS
<1>4. 1..(n + 1) = 1..n \cup {n + 1}
  OBVIOUS
<1>5. {LinesFor(a)[i] : i \in 1..(n + 1)} =
        {LinesFor(a)[i] : i \in 1..n} \cup {LinesFor(a)[n + 1]}
  BY <1>4
<1>6. {x.component : x \in rows} = {LinesFor(a)[i] : i \in 1..n}
  BY DEF Recorded
<1>7. \A x \in rows \cup {row} : x.by = a
  BY DEF Recorded
<1> QED BY <1>2, <1>3, <1>5, <1>6, <1>7 DEF Recorded

(* After the last line there is a record for each.                         *)
LEMMA RecordedAll ==
  ASSUME NEW a \in Analyses, NEW rows, Recorded(a, rows, Len(LinesFor(a)))
  PROVE  Every(a, rows)
BY LineFacts DEF Recorded, Every, Sessions

(* A step that leaves an analysis alone leaves what it has written.        *)
LEMMA LinesKept ==
  ASSUME NEW a \in Analyses, LinesOf(a), pc'[a] = pc[a], line'[a] = line[a],
         written'[a] = written[a], result'[a] = result[a]
  PROVE  LinesOf(a)'
<1>1. RiskLines(a)' = RiskLines(a) /\ LifecycleLines(a)' = LifecycleLines(a)
  BY DEF RiskLines, LifecycleLines, LinesFor
<1> QED BY <1>1 DEF LinesOf, Recorded, LinesFor

(* And what it has stored.                                                 *)
LEMMA AtomicKept ==
  ASSUME AnalysisAtomic, UNCHANGED <<risks, lifecycles, snapshots>>,
         \A a \in Analyses : pc'[a] = "done" <=> pc[a] = "done"
  PROVE  AnalysisAtomic'
<1>1. \A a \in Analyses : StoredWhole(a)'
  BY AtomicOf DEF StoredWhole, Every, Own, LinesFor
<1> QED BY <1>1, AtomicOf DEF AnalysisAtomic, StoredWhole, Every, Own, LinesFor

(* Nothing is written or stored.                                           *)
LEMMA LinesInit == HistoryInit => LinesInv
<1> SUFFICES ASSUME HistoryInit PROVE LinesInv
  OBVIOUS
<1>1. \A a \in Analyses : pc[a] = "idle" /\ written[a] = Nothing
  BY DEF HistoryInit, Sessions
<1>2. \A a \in Analyses : RiskLines(a) = 0 /\ LifecycleLines(a) = 0
  BY <1>1 DEF RiskLines, LifecycleLines
<1>3. \A a \in Analyses : LinesOf(a)
  BY <1>1, <1>2, RecordedNone DEF LinesOf, Nothing
<1>4. risks = {} /\ lifecycles = {} /\ snapshots = {}
  BY DEF HistoryInit
<1>5. \A a \in Analyses : StoredWhole(a)
  BY <1>1, <1>4 DEF StoredWhole, Own
<1> QED BY <1>3, <1>5, AtomicOf DEF LinesInv, LinesRecorded

(* Every statement keeps LinesInv.                                         *)
LEMMA LinesStep ==
  ASSUME Shape, RowsHeld, LinesInv, [HistoryNext]_historyVars
  PROVE  LinesInv'
<1>0. /\ \A a \in Analyses : LinesOf(a) /\ a \in Sessions
      /\ \A a \in Analyses : line[a] \in Nat /\ line[a] > 0 /\ Len(LinesFor(a)) \in Nat
      /\ AnalysisAtomic
  BY LineFacts DEF LinesInv, LinesRecorded, Sessions, Shape
<1>1. ASSUME NEW a \in Analyses, Alone(a), LinesOf(a)',
             \A b \in Analyses : b # a => written'[b] = written[b] /\ result'[b] = result[b]
      PROVE  LinesRecorded'
  <2>1. \A b \in Analyses : LinesOf(b)'
    BY <1>0, <1>1, LinesKept DEF Alone
  <2> QED BY <2>1 DEF LinesRecorded, LinesOf
<1>2. ASSUME NEW a \in Analyses, Alone(a), UNCHANGED <<risks, lifecycles, snapshots>>,
             pc[a] # "done", pc'[a] # "done"
      PROVE  AnalysisAtomic'
  BY <1>0, <1>2, AtomicKept DEF Alone
<1>3. ASSUME NEW a \in Analyses, Begin(a) PROVE LinesInv'
  <2>1. /\ pc[a] = "idle" /\ pc'[a] = "lifecycle" /\ line' = line
        /\ Alone(a) /\ written' = written /\ result' = result
        /\ UNCHANGED <<lifecycles, risks, snapshots>>
    BY <1>3, BeginEffect
  <2>2. line[a] = 1
    BY <1>0, <2>1 DEF Shape
  <2>3. /\ RiskLines(a) = 0 /\ LifecycleLines(a) = 0
        /\ RiskLines(a)' = 0 /\ LifecycleLines(a)' = 0
    BY <2>1, <2>2 DEF RiskLines, LifecycleLines
  <2>4. LinesOf(a)'
    BY <1>0, <2>1, <2>3 DEF LinesOf, Recorded, LinesFor
  <2> QED BY <1>1, <1>2, <2>1, <2>4 DEF LinesInv
<1>4. ASSUME NEW a \in Analyses, RecordLifecycle(a) PROVE LinesInv'
  <2>1. PICK row \in LifecycleRows :
          /\ row.id = nextId["lifecycle"] /\ row.by = a /\ row.component = Component(a)
          /\ written'[a] = [ lifecycles |-> written[a].lifecycles \cup {row},
                             risks |-> written[a].risks, snapshots |-> written[a].snapshots ]
    BY <1>4, RecordLifecycleEffect
  <2>2. /\ pc[a] = "lifecycle" /\ pc'[a] = "risk" /\ line' = line
        /\ Alone(a) /\ result' = result
        /\ \A b \in Analyses : b # a => written'[b] = written[b]
        /\ UNCHANGED <<lifecycles, risks, snapshots>>
    BY <1>4, RecordLifecycleEffect
  <2>3. /\ RiskLines(a) = line[a] - 1 /\ LifecycleLines(a) = line[a] - 1
        /\ RiskLines(a)' = line[a] - 1 /\ LifecycleLines(a)' = line[a]
    BY <2>2 DEF RiskLines, LifecycleLines
  <2>4. row \notin written[a].lifecycles
    <3>1. nextId["lifecycle"] \in Nat /\ \A x \in written[a].lifecycles : x.id < nextId["lifecycle"]
      BY DEF Shape, Tables, RowsHeld, RiskTypeOK
    <3> QED BY <2>1, <3>1
  <2>5. Recorded(a, written[a].lifecycles \cup {row}, line[a])
    <3>1. line[a] - 1 \in Nat /\ (line[a] - 1) + 1 = line[a]
      BY <1>0
    <3>2. Recorded(a, written[a].lifecycles, line[a] - 1)
      BY <1>0, <2>3 DEF LinesOf
    <3>3. row.component = LinesFor(a)[line[a]]
      BY <2>1 DEF Component
    <3> QED BY <2>1, <2>4, <3>1, <3>2, <3>3, RecordedMore
  <2>6. /\ written'[a].lifecycles = written[a].lifecycles \cup {row}
        /\ written'[a].risks = written[a].risks
        /\ written'[a].snapshots = written[a].snapshots
    BY <2>1
  <2>7. Recorded(a, written'[a].lifecycles, LifecycleLines(a)') /\ Recorded(a, written'[a].risks, RiskLines(a)')
    BY <1>0, <2>3, <2>5, <2>6 DEF LinesOf
  <2>8. written'[a].snapshots = {}
    BY <1>0, <2>2, <2>6 DEF LinesOf
  <2>9. LinesOf(a)'
    BY <2>2, <2>7, <2>8 DEF LinesOf, Recorded, LinesFor
  <2> QED BY <1>1, <1>2, <2>2, <2>9 DEF LinesInv
<1>5. ASSUME NEW a \in Analyses, RecordRisk(a) PROVE LinesInv'
  <2>1. /\ pc[a] = "risk"
        /\ \/ LastLine(a) /\ pc'[a] = "assess" /\ line'[a] = line[a]
           \/ ~LastLine(a) /\ pc'[a] = "lifecycle" /\ line'[a] = line[a] + 1
        /\ Alone(a) /\ result' = result
        /\ \A b \in Analyses : b # a => written'[b] = written[b]
        /\ UNCHANGED <<lifecycles, risks, snapshots>>
    BY <1>5, RecordRiskEffect
  <2>2. written'[a] = [ lifecycles |-> written[a].lifecycles,
                        risks |-> written[a].risks \cup {RiskRow(a)},
                        snapshots |-> written[a].snapshots ]
    BY <1>5, RecordRiskEffect
  <2> DEFINE row == RiskRow(a)
  <2>3. row.id = nextId["risk"] /\ row.by = a /\ row.component = Component(a)
    BY RiskRowRated
  <2> HIDE DEF row
  <2>4. /\ written'[a].lifecycles = written[a].lifecycles
        /\ written'[a].risks = written[a].risks \cup {row}
        /\ written'[a].snapshots = written[a].snapshots
    BY <2>2 DEF row
  <2>5. /\ RiskLines(a) = line[a] - 1 /\ LifecycleLines(a) = line[a]
        /\ RiskLines(a)' = line[a] /\ LifecycleLines(a)' = line[a]
    BY <1>0, <2>1 DEF RiskLines, LifecycleLines, LastLine, LinesFor
  <2>6. row \notin written[a].risks
    <3>1. nextId["risk"] \in Nat /\ \A x \in written[a].risks : x.id < nextId["risk"]
      BY DEF Shape, Tables, RowsHeld, RiskTypeOK
    <3> QED BY <2>3, <3>1
  <2>7. Recorded(a, written[a].risks \cup {row}, line[a])
    <3>1. line[a] - 1 \in Nat /\ (line[a] - 1) + 1 = line[a]
      BY <1>0
    <3>2. Recorded(a, written[a].risks, line[a] - 1)
      BY <1>0, <2>5 DEF LinesOf
    <3>3. row.component = LinesFor(a)[line[a]]
      BY <2>3 DEF Component
    <3> QED BY <2>3, <2>6, <3>1, <3>2, <3>3, RecordedMore
  <2>8. /\ Recorded(a, written'[a].lifecycles, LifecycleLines(a)')
        /\ Recorded(a, written'[a].risks, RiskLines(a)')
    BY <1>0, <2>4, <2>5, <2>7 DEF LinesOf
  <2>9. written'[a].snapshots = {}
    BY <1>0, <2>1, <2>4 DEF LinesOf
  <2>10. LinesOf(a)'
    BY <2>1, <2>8, <2>9 DEF LinesOf, Recorded, LinesFor
  <2> QED BY <1>1, <1>2, <2>1, <2>10 DEF LinesInv
<1>6. ASSUME NEW a \in Analyses, Assess(a) PROVE LinesInv'
  <2>1. /\ pc[a] = "assess" /\ pc'[a] = "snapshot" /\ line' = line
        /\ Alone(a) /\ written' = written
        /\ \A b \in Analyses : b # a => result'[b] = result[b]
        /\ UNCHANGED <<lifecycles, risks, snapshots>>
    BY <1>6, AssessEffect
  <2>2. /\ RiskLines(a) = Len(LinesFor(a)) /\ LifecycleLines(a) = Len(LinesFor(a))
        /\ RiskLines(a)' = Len(LinesFor(a)) /\ LifecycleLines(a)' = Len(LinesFor(a))
    BY <2>1 DEF RiskLines, LifecycleLines, LinesFor
  <2>3. LinesOf(a)'
    BY <1>0, <2>1, <2>2 DEF LinesOf, Recorded, LinesFor
  <2> QED BY <1>1, <1>2, <2>1, <2>3 DEF LinesInv
<1>7. ASSUME NEW a \in Analyses, RecordSnapshot(a) PROVE LinesInv'
  <2>1. PICK s : /\ s.by = a /\ s.bom = BomOf[a] /\ s.from = result[a].from
                 /\ written'[a] = [ lifecycles |-> written[a].lifecycles,
                                    risks |-> written[a].risks, snapshots |-> {s} ]
    BY ZenonT(40), <1>7, RecordSnapshotEffect
  <2>2. /\ pc[a] = "snapshot" /\ pc'[a] = "commit" /\ line' = line
        /\ Alone(a) /\ result' = result
        /\ \A b \in Analyses : b # a => written'[b] = written[b]
        /\ UNCHANGED <<lifecycles, risks, snapshots>>
    BY <1>7, RecordSnapshotEffect
  <2>3. /\ RiskLines(a) = Len(LinesFor(a)) /\ LifecycleLines(a) = Len(LinesFor(a))
        /\ RiskLines(a)' = Len(LinesFor(a)) /\ LifecycleLines(a)' = Len(LinesFor(a))
    BY <2>2 DEF RiskLines, LifecycleLines, LinesFor
  <2>4. /\ written'[a].lifecycles = written[a].lifecycles
        /\ written'[a].risks = written[a].risks
        /\ written'[a].snapshots = {s}
    BY <2>1
  <2>5. /\ Recorded(a, written'[a].lifecycles, LifecycleLines(a)')
        /\ Recorded(a, written'[a].risks, RiskLines(a)')
    BY <1>0, <2>3, <2>4 DEF LinesOf
  <2>6. s.from = result'[a].from
    BY <2>1, <2>2
  <2>7. LinesOf(a)'
    BY <2>1, <2>2, <2>4, <2>5, <2>6 DEF LinesOf, Recorded, LinesFor
  <2> QED BY <1>1, <1>2, <2>2, <2>7 DEF LinesInv
<1>8. ASSUME NEW a \in Analyses, NEW end \in {"done", "failed"}, Release(a, end)
      PROVE  LinesRecorded'
  <2>1. /\ pc'[a] = end /\ Alone(a) /\ written'[a] = Nothing
        /\ \A b \in Analyses : b # a => written'[b] = written[b] /\ result'[b] = result[b]
    BY <1>8, ReleaseEffect
  <2>2. RiskLines(a)' = 0 /\ LifecycleLines(a)' = 0
    BY <1>8, <2>1 DEF RiskLines, LifecycleLines
  <2>3. written'[a].risks = {} /\ written'[a].lifecycles = {} /\ written'[a].snapshots = {}
    BY <2>1 DEF Nothing
  <2>4. /\ Recorded(a, written'[a].lifecycles, LifecycleLines(a)')
        /\ Recorded(a, written'[a].risks, RiskLines(a)')
    BY <2>2, <2>3, RecordedNone
  <2>5. LinesOf(a)'
    BY <1>8, <2>1, <2>3, <2>4 DEF LinesOf, Recorded, LinesFor
  <2> QED BY <1>1, <2>1, <2>5
<1>9. ASSUME NEW a \in Analyses, RollBack(a) PROVE LinesInv'
  <2>1. Release(a, "failed") /\ pc[a] # "done" /\ UNCHANGED <<lifecycles, risks, snapshots>>
    BY <1>9 DEF RollBack, Ended
  <2>2. Alone(a) /\ pc'[a] = "failed"
    BY <2>1, ReleaseEffect
  <2> QED BY <1>2, <1>8, <2>1, <2>2 DEF LinesInv
<1>10. ASSUME NEW a \in Analyses, Commit(a) PROVE LinesInv'
  <2>1. /\ pc[a] = "commit" /\ Release(a, "done")
        /\ lifecycles' = lifecycles \cup written[a].lifecycles
        /\ risks' = risks \cup written[a].risks
        /\ snapshots' = snapshots \cup written[a].snapshots
    BY <1>10 DEF Commit
  <2>2. Alone(a) /\ pc'[a] = "done"
    BY <2>1, ReleaseEffect
  <2>3. /\ RiskLines(a) = Len(LinesFor(a)) /\ LifecycleLines(a) = Len(LinesFor(a))
    BY <2>1 DEF RiskLines, LifecycleLines
  <2>4. /\ Recorded(a, written[a].risks, Len(LinesFor(a)))
        /\ Recorded(a, written[a].lifecycles, Len(LinesFor(a)))
    BY <1>0, <2>3 DEF LinesOf
  <2>5. PICK s : written[a].snapshots = {s} /\ s.by = a
    BY <1>0, <2>1 DEF LinesOf
  <2>6. \A b \in Analyses : StoredWhole(b)
    BY <1>0, AtomicOf
  <2>7. StoredWhole(a)'
    <3>1. Own(a, risks') = written[a].risks /\ Own(a, lifecycles') = written[a].lifecycles
      BY <2>1, <2>4, <2>6 DEF StoredWhole, Own, Recorded
    <3>2. Own(a, snapshots') = {s}
      BY <2>1, <2>5, <2>6 DEF StoredWhole, Own
    <3>3. Every(a, Own(a, risks')) /\ Every(a, Own(a, lifecycles'))
      BY <2>4, <3>1, RecordedAll
    <3>4. Cardinality(Own(a, snapshots')) = 1
      BY <3>2, FS_Singleton
    <3> QED BY <2>2, <3>3, <3>4 DEF StoredWhole, Own, Every, LinesFor
  <2>8. \A b \in Analyses : b # a => StoredWhole(b)'
    <3>1. SUFFICES ASSUME NEW b \in Analyses, b # a PROVE StoredWhole(b)'
      OBVIOUS
    <3>2. /\ Own(b, risks') = Own(b, risks) /\ Own(b, lifecycles') = Own(b, lifecycles)
      BY <2>1, <2>4, <3>1 DEF Own, Recorded
    <3>3. Own(b, snapshots') = Own(b, snapshots)
      BY <2>1, <2>5, <3>1 DEF Own
    <3>4. pc'[b] = pc[b]
      BY <1>0, <2>2, <3>1 DEF Alone
    <3> QED BY <2>6, <3>2, <3>3, <3>4 DEF StoredWhole, Own, Every, LinesFor
  <2>9. AnalysisAtomic'
    BY <2>7, <2>8 DEF AnalysisAtomic, StoredWhole, Every, Own, LinesFor
  <2> QED BY <1>8, <2>1, <2>9 DEF LinesInv
<1>11. ASSUME UNCHANGED <<risks, lifecycles, snapshots, written, result>>,
              \A a \in Analyses : pc'[a] = pc[a] /\ line'[a] = line[a]
       PROVE  LinesInv'
  <2>1. \A a \in Analyses : LinesOf(a)'
    BY <1>0, <1>11, LinesKept
  <2>2. LinesRecorded'
    BY <2>1 DEF LinesRecorded, LinesOf
  <2> QED BY <1>0, <1>11, <2>2, AtomicKept DEF LinesInv
<1>12. ASSUME NEW r \in Reports, ReportNext(r) PROVE LinesInv'
  <2>1. /\ UNCHANGED <<risks, lifecycles, snapshots, written, result>>
        /\ Alone(r)
    BY <1>12, ReadSnapshotEffect, ReadRiskEffect, ReadLifecycleEffect, NextReadEffect, BuildEffect
       DEF ReportNext
  <2>2. \A a \in Analyses : pc'[a] = pc[a] /\ line'[a] = line[a]
    BY <2>1, HistoryAssumption DEF Alone, Sessions
  <2> QED BY <1>11, <2>1, <2>2
<1>13. CASE UNCHANGED historyVars
  BY <1>11, <1>13 DEF historyVars
<1> QED BY <1>3, <1>4, <1>5, <1>6, <1>7, <1>9, <1>10, <1>12, <1>13
        DEF HistoryNext, AnalysisNext

-----------------------------------------------------------------------------
(* A snapshot is computed from the newest records there are.               *)

(* Among finitely many rows, one at least is the newest.                   *)
LEMMA NewestThere ==
  ASSUME NEW rows, NEW n \in Nat, \A x \in rows : x.id \in Nat /\ x.id < n, NEW own \in rows
  PROVE  \E row \in Newest(rows) : row.id >= own.id
<1> DEFINE ids == {x.id : x \in rows}
<1>1. ids \in SUBSET Nat /\ ids # {} /\ \A i \in ids : i < n
  OBVIOUS
<1>2. PICK top \in ids : \A i \in ids : i <= top
  <2> HIDE DEF ids
  <2> QED BY <1>1, Highest
<1>3. PICK row \in rows : row.id = top
  OBVIOUS
<1>4. \A x \in rows : x.id <= row.id
  BY <1>2, <1>3
<1> QED BY <1>3, <1>4 DEF Newest

(* The latest records that an analysis sees are one for each of its        *)
(* components, its own or a later one.                                     *)
LEMMA LatestCovers ==
  ASSUME NEW bom \in Boms, NEW rows, NEW n \in Nat, Identified(rows, RiskRows, n),
         NEW latest,
         latest = [i \in DOMAIN Lines[bom] |->
                     Newest({row \in rows : row.component = Lines[bom][i]})],
         Range(Lines[bom]) \subseteq {row.component : row \in rows}
  PROVE  /\ UNION Range(latest) \subseteq rows
         /\ FromLatest(bom, UNION Range(latest),
                       {row \in rows : row.component \in Range(Lines[bom])})
<1> DEFINE from == UNION Range(latest)
           At(component) == {row \in rows : row.component = component}
<1>1. \A x : x \in from <=> \E c \in Range(Lines[bom]) : x \in Newest(At(c))
  <2>1. \A i \in DOMAIN Lines[bom] : latest[i] = Newest(At(Lines[bom][i]))
    OBVIOUS
  <2>2. DOMAIN latest = DOMAIN Lines[bom]
    OBVIOUS
  <2> HIDE DEF At
  <2>3. \A x : x \in from <=> \E i \in DOMAIN Lines[bom] : x \in latest[i]
    BY <2>2 DEF Range
  <2>4. \A c : c \in Range(Lines[bom]) <=> \E i \in DOMAIN Lines[bom] : c = Lines[bom][i]
    BY DEF Range
  <2> HIDE DEF from
  <2>5. ASSUME NEW x \in from PROVE \E c \in Range(Lines[bom]) : x \in Newest(At(c))
    <3>1. PICK i \in DOMAIN Lines[bom] : x \in latest[i]
      BY <2>3, <2>5
    <3>2. x \in Newest(At(Lines[bom][i])) /\ Lines[bom][i] \in Range(Lines[bom])
      BY <2>1, <2>4, <3>1
    <3> QED BY <3>2
  <2>6. ASSUME NEW c \in Range(Lines[bom]), NEW x \in Newest(At(c)) PROVE x \in from
    <3>1. PICK i \in DOMAIN Lines[bom] : c = Lines[bom][i]
      BY <2>4, <2>6
    <3> QED BY <2>1, <2>3, <2>6, <3>1
  <2> QED BY <2>5, <2>6
<1>2. \A c : Newest(At(c)) \subseteq At(c)
  BY DEF Newest
<1>3. \A o \in rows : o.id \in Nat /\ o.id < n
  BY DEF Identified, RiskRows
<1>4. \A c : \A o \in At(c) : \E row \in Newest(At(c)) : row.id >= o.id
  <2>1. TAKE c
  <2>2. TAKE o \in At(c)
  <2>3. \A x \in At(c) : x.id \in Nat /\ x.id < n
    BY <1>3
  <2> HIDE DEF At
  <2> QED BY <2>3, NewestThere
<1>5. \A c : \A x, y \in Newest(At(c)) : x = y
  <2>1. TAKE c
  <2>2. TAKE x, y \in Newest(At(c))
  <2>3. x \in At(c) /\ y \in At(c) /\ x.id <= y.id /\ y.id <= x.id
    BY DEF Newest
  <2>4. x.id = y.id
    BY <2>3, <1>3
  <2> QED BY <2>3, <2>4 DEF Identified
<1>6. \A c : \A x \in At(c) : x \in rows /\ x.component = c
  OBVIOUS
<1>7. \A o \in rows : o \in At(o.component)
  OBVIOUS
<1> HIDE DEF from, At
<1>8. from \subseteq rows
  BY <1>1, <1>2, <1>6
<1>9. \A x \in from : x.component \in Range(Lines[bom]) /\ x \in Newest(At(x.component))
  <2>1. TAKE x \in from
  <2>2. PICK c \in Range(Lines[bom]) : x \in Newest(At(c))
    BY <1>1
  <2>3. x.component = c
    BY <2>2, <1>2, <1>6
  <2> QED BY <2>2, <2>3
<1>10. \A x, y \in from : x.component = y.component => x = y
  BY <1>5, <1>9
<1>11. \A o \in rows : o.component \in Range(Lines[bom]) =>
         \E row \in from : row.component = o.component /\ row.id >= o.id
  <2>1. SUFFICES ASSUME NEW o \in rows, o.component \in Range(Lines[bom])
                 PROVE  \E row \in from : row.component = o.component /\ row.id >= o.id
    OBVIOUS
  <2>2. PICK row \in Newest(At(o.component)) : row.id >= o.id
    BY <1>4, <1>7
  <2>3. row \in from /\ row.component = o.component
    BY <2>1, <2>2, <1>1, <1>2, <1>6
  <2> QED BY <2>2, <2>3
<1>12. {row.component : row \in from} = Range(Lines[bom])
  <2>1. ASSUME NEW c \in Range(Lines[bom]) PROVE \E row \in from : row.component = c
    <3>1. PICK o \in rows : o.component = c
      OBVIOUS
    <3> QED BY <3>1, <1>11, <2>1
  <2> QED BY <2>1, <1>9
<1>13. FromLatest(bom, from, {row \in rows : row.component \in Range(Lines[bom])})
  BY <1>10, <1>11, <1>12 DEF FromLatest
<1> QED BY <1>8, <1>13 DEF from

(* Nothing has been assessed.                                              *)
LEMMA FreshInit == HistoryInit => FreshInv
BY DEF HistoryInit, FreshInv, AssessedFresh, SnapshotsFresh, Sessions

(* No analysis enters or leaves these states, and no snapshot is added.    *)
LEMMA FreshKept ==
  ASSUME FreshInv, UNCHANGED <<risks, snapshots>>,
         \A a \in Analyses :
           /\ pc[a] = "done" => pc'[a] = "done"
           /\ pc'[a] \in {"snapshot", "commit"} =>
                /\ pc[a] \in {"snapshot", "commit"}
                /\ result'[a] = result[a] /\ written'[a].risks = written[a].risks
  PROVE  FreshInv'
<1>1. AssessedFresh'
  BY DEF FreshInv, AssessedFresh, Visible, FromLatest
<1>2. SnapshotsFresh'
  BY DEF FreshInv, SnapshotsFresh, FromLatest
<1> QED BY <1>1, <1>2 DEF FreshInv

(* Every statement keeps FreshInv.                                         *)
LEMMA FreshStep ==
  ASSUME Shape, RowsHeld, LinesInv, FreshInv, [HistoryNext]_historyVars
  PROVE  FreshInv'
<1>0. /\ \A a \in Analyses : LinesOf(a) /\ StoredWhole(a) /\ a \in Sessions
      /\ AssessedFresh /\ SnapshotsFresh
  BY AtomicOf DEF LinesInv, LinesRecorded, FreshInv, Sessions
<1>1. ASSUME UNCHANGED <<risks, snapshots, pc, result, written>> PROVE FreshInv'
  BY <1>1, FreshKept
<1>2. ASSUME NEW a \in Analyses, Alone(a), UNCHANGED <<risks, snapshots>>,
             pc[a] # "done", pc'[a] \notin {"snapshot", "commit"},
             \A b \in Analyses : b # a => written'[b] = written[b] /\ result'[b] = result[b]
      PROVE  FreshInv'
  <2>1. \A b \in Analyses :
          /\ pc[b] = "done" => pc'[b] = "done"
          /\ pc'[b] \in {"snapshot", "commit"} =>
               /\ pc[b] \in {"snapshot", "commit"}
               /\ result'[b] = result[b] /\ written'[b].risks = written[b].risks
    BY <1>0, <1>2 DEF Alone
  <2> QED BY <1>2, <2>1, FreshKept
<1>3. ASSUME NEW a \in Analyses, Begin(a) PROVE FreshInv'
  BY <1>2, <1>3, BeginEffect
<1>4. ASSUME NEW a \in Analyses, RecordLifecycle(a) PROVE FreshInv'
  BY <1>2, <1>4, RecordLifecycleEffect
<1>5. ASSUME NEW a \in Analyses, RecordRisk(a) PROVE FreshInv'
  BY <1>2, <1>5, RecordRiskEffect
<1>6. ASSUME NEW a \in Analyses, RollBack(a) PROVE FreshInv'
  <2>1. Release(a, "failed") /\ pc[a] # "done" /\ UNCHANGED <<risks, snapshots>>
    BY <1>6 DEF RollBack, Ended
  <2> QED BY <1>2, <2>1, ReleaseEffect
<1>7. ASSUME NEW a \in Analyses, RecordSnapshot(a) PROVE FreshInv'
  <2>1. PICK s : written'[a] = [ lifecycles |-> written[a].lifecycles,
                                 risks |-> written[a].risks, snapshots |-> {s} ]
    BY ZenonT(40), <1>7, RecordSnapshotEffect
  <2>2. written'[a].risks = written[a].risks
    BY <2>1
  <2>3. /\ pc[a] = "snapshot" /\ Alone(a) /\ pc'[a] = "commit" /\ result' = result
        /\ \A b \in Analyses : b # a => written'[b] = written[b]
        /\ UNCHANGED <<risks, snapshots>>
    BY <1>7, RecordSnapshotEffect
  <2>4. \A b \in Analyses :
          /\ pc[b] = "done" => pc'[b] = "done"
          /\ pc'[b] \in {"snapshot", "commit"} =>
               /\ pc[b] \in {"snapshot", "commit"}
               /\ result'[b] = result[b] /\ written'[b].risks = written[b].risks
    BY <1>0, <2>2, <2>3 DEF Alone
  <2> QED BY <2>3, <2>4, FreshKept
<1>8. ASSUME NEW a \in Analyses, Assess(a) PROVE FreshInv'
  <2>1. /\ pc[a] = "assess" /\ pc'[a] = "snapshot" /\ Alone(a)
        /\ result'[a].from = UNION Range(LatestRisks(a))
        /\ \A b \in Analyses : b # a => result'[b] = result[b]
        /\ UNCHANGED <<risks, snapshots, written>>
    BY <1>8, AssessEffect
  <2>2. Identified(Visible(a), RiskRows, nextId["risk"]) /\ nextId["risk"] \in Nat
    <3>1. Identified(AllRisks, RiskRows, nextId["risk"]) /\ Visible(a) \subseteq AllRisks
      BY TypeOKIdentified DEF RowsHeld, AllRisks, Visible
    <3> QED BY <3>1, IdentifiedFewer DEF Shape, Tables
  <2>3. Recorded(a, written[a].risks, Len(LinesFor(a)))
    <3>1. RiskLines(a) = Len(LinesFor(a))
      BY <2>1 DEF RiskLines
    <3> QED BY <1>0, <3>1 DEF LinesOf
  <2>4. {row.component : row \in written[a].risks} = Range(LinesFor(a))
    BY <2>3, RecordedAll DEF Every
  <2> DEFINE latest == LatestRisks(a)
  <2>5. latest = [i \in DOMAIN Lines[BomOf[a]] |->
                    Newest({row \in Visible(a) : row.component = Lines[BomOf[a]][i]})]
    BY DEF LatestRisks, LinesFor, Visible
  <2>6. BomOf[a] \in Boms
    BY <1>0, LineFacts
  <2>7. Range(Lines[BomOf[a]]) \subseteq {row.component : row \in Visible(a)}
    BY <2>4 DEF Visible, LinesFor
  <2> HIDE DEF latest
  <2>8. /\ UNION Range(latest) \subseteq Visible(a)
        /\ FromLatest(BomOf[a], UNION Range(latest),
                      {row \in Visible(a) : row.component \in Range(Lines[BomOf[a]])})
    BY <2>2, <2>5, <2>6, <2>7, LatestCovers
  <2>9. written[a].risks \subseteq {row \in Visible(a) : row.component \in Range(Lines[BomOf[a]])}
    BY <2>4 DEF Visible, LinesFor
  <2>10. FromLatest(BomOf[a], result'[a].from, written[a].risks)
    BY <2>1, <2>8, <2>9 DEF FromLatest, latest
  <2>11. result'[a].from \subseteq risks \cup written[a].risks
    BY <2>1, <2>8 DEF latest, Visible
  <2>12. \A b \in Analyses : pc'[b] \in {"snapshot", "commit"} =>
           /\ result'[b].from \subseteq risks \cup written[b].risks
           /\ FromLatest(BomOf[b], result'[b].from, written[b].risks)
    <3>1. SUFFICES ASSUME NEW b \in Analyses, b # a, pc'[b] \in {"snapshot", "commit"}
                   PROVE  /\ result'[b].from \subseteq risks \cup written[b].risks
                          /\ FromLatest(BomOf[b], result'[b].from, written[b].risks)
      BY <2>10, <2>11
    <3>2. pc[b] = pc'[b] /\ result'[b] = result[b]
      BY <1>0, <2>1, <3>1 DEF Alone
    <3> QED BY <1>0, <3>1, <3>2 DEF AssessedFresh, Visible
  <2>13. AssessedFresh'
    BY <2>1, <2>12 DEF AssessedFresh, Visible, FromLatest
  <2>14. \A s \in snapshots : pc'[s.by] = pc[s.by]
    BY <1>0, <2>1 DEF SnapshotsFresh, Alone
  <2>15. SnapshotsFresh'
    BY <1>0, <2>1, <2>14 DEF SnapshotsFresh, FromLatest
  <2> QED BY <2>13, <2>15 DEF FreshInv
<1>9. ASSUME NEW a \in Analyses, Commit(a) PROVE FreshInv'
  <2>1. /\ pc[a] = "commit" /\ Release(a, "done")
        /\ risks' = risks \cup written[a].risks
        /\ snapshots' = snapshots \cup written[a].snapshots
    BY <1>9 DEF Commit
  <2>2. /\ Alone(a) /\ pc'[a] = "done"
        /\ \A b \in Analyses : b # a => written'[b] = written[b] /\ result'[b] = result[b]
    BY <2>1, ReleaseEffect
  <2>3. PICK s : /\ written[a].snapshots = {s}
                 /\ s.by = a /\ s.bom = BomOf[a] /\ s.from = result[a].from
    BY <1>0, <2>1 DEF LinesOf
  <2>4. \A row \in written[a].risks : row.by = a
    BY <1>0 DEF LinesOf, Recorded
  <2>5. {row \in risks' : row.by = a} = written[a].risks
    BY <1>0, <2>1, <2>4 DEF StoredWhole, Own
  <2>6. /\ result[a].from \subseteq risks \cup written[a].risks
        /\ FromLatest(BomOf[a], result[a].from, written[a].risks)
    BY <1>0, <2>1 DEF AssessedFresh, Visible
  <2>7. /\ s.by \in Analyses /\ pc'[s.by] = "done" /\ s.bom = BomOf[s.by]
        /\ s.from \subseteq risks'
        /\ FromLatest(s.bom, s.from, {row \in risks' : row.by = s.by})
    BY <2>1, <2>2, <2>3, <2>5, <2>6
  <2>8. ASSUME NEW t \in snapshots
        PROVE  /\ t.by \in Analyses /\ pc'[t.by] = "done" /\ t.bom = BomOf[t.by]
               /\ t.from \subseteq risks'
               /\ FromLatest(t.bom, t.from, {row \in risks' : row.by = t.by})
    <3>1. /\ t.by \in Analyses /\ pc[t.by] = "done" /\ t.bom = BomOf[t.by]
          /\ t.from \subseteq risks
          /\ FromLatest(t.bom, t.from, {row \in risks : row.by = t.by})
      BY <1>0 DEF SnapshotsFresh
    <3>2. t.by # a /\ pc'[t.by] = "done"
      BY <1>0, <2>1, <2>2, <3>1 DEF Alone
    <3>3. {row \in risks' : row.by = t.by} = {row \in risks : row.by = t.by}
      BY <2>1, <2>4, <3>2
    <3> QED BY <2>1, <3>1, <3>2, <3>3
  <2>9. SnapshotsFresh'
    BY SMTT(20), <2>1, <2>3, <2>7, <2>8 DEF SnapshotsFresh, FromLatest
  <2>10. ASSUME NEW b \in Analyses, pc'[b] \in {"snapshot", "commit"}
         PROVE  /\ result'[b].from \subseteq risks' \cup written'[b].risks
                /\ FromLatest(BomOf[b], result'[b].from, written'[b].risks)
    <3>1. b # a /\ pc[b] = pc'[b] /\ result'[b] = result[b] /\ written'[b] = written[b]
      BY <1>0, <2>2, <2>10 DEF Alone
    <3> QED BY <1>0, <2>1, <2>10, <3>1 DEF AssessedFresh, Visible
  <2>11. AssessedFresh'
    BY <2>10 DEF AssessedFresh, Visible, FromLatest
  <2> QED BY <2>9, <2>11 DEF FreshInv
<1>10. ASSUME NEW r \in Reports, ReportNext(r) PROVE FreshInv'
  <2>1. UNCHANGED <<risks, snapshots, written, result>> /\ Alone(r)
    BY <1>10, ReadSnapshotEffect, ReadRiskEffect, ReadLifecycleEffect, NextReadEffect, BuildEffect
       DEF ReportNext
  <2>2. \A a \in Analyses : pc'[a] = pc[a]
    BY <2>1, HistoryAssumption DEF Alone, Sessions
  <2> QED BY <2>1, <2>2, FreshKept
<1>11. CASE UNCHANGED historyVars
  BY <1>1, <1>11 DEF historyVars
<1> QED BY <1>3, <1>4, <1>5, <1>6, <1>7, <1>8, <1>9, <1>10, <1>11
        DEF HistoryNext, AnalysisNext

(* What is computed afresh is never behind a snapshot, because the records *)
(* of a snapshot are still there.                                          *)
LEMMA FreshSnapshots ==
  ASSUME Shape, RowsHeld, FreshInv
  PROVE  SnapshotFresh
<1>1. Identified(risks, RiskRows, nextId["risk"]) /\ nextId["risk"] \in Nat
  <2>1. Identified(AllRisks, RiskRows, nextId["risk"]) /\ risks \subseteq AllRisks
    BY TypeOKIdentified DEF RowsHeld, AllRisks
  <2> QED BY <2>1, IdentifiedFewer DEF Shape, Tables
<1>2. ASSUME NEW s \in snapshots
      PROVE  \A row \in s.from : \E now \in CurrentRisk(s.bom).from :
               now.component = row.component /\ now.id >= row.id
  <2>1. /\ s.bom = BomOf[s.by] /\ s.by \in Sessions
        /\ s.from \subseteq risks
        /\ {row.component : row \in s.from} = Range(Lines[s.bom])
    BY <1>2 DEF FreshInv, SnapshotsFresh, FromLatest, Sessions
  <2>2. s.bom \in Boms
    BY <2>1, LineFacts
  <2> DEFINE latest == [i \in DOMAIN Lines[s.bom] |->
                          Newest({row \in risks : row.component = Lines[s.bom][i]})]
  <2>3. CurrentRisk(s.bom).from = UNION Range(latest)
    BY DEF CurrentRisk, BomRisks
  <2>4. latest = [i \in DOMAIN Lines[s.bom] |->
                    Newest({row \in risks : row.component = Lines[s.bom][i]})]
    OBVIOUS
  <2> HIDE DEF latest
  <2>5. Range(Lines[s.bom]) \subseteq {row.component : row \in risks}
    BY <2>1
  <2>6. FromLatest(s.bom, UNION Range(latest),
                   {row \in risks : row.component \in Range(Lines[s.bom])})
    BY <1>1, <2>2, <2>4, <2>5, LatestCovers
  <2>7. \A row \in s.from : row \in {x \in risks : x.component \in Range(Lines[s.bom])}
    BY <2>1
  <2> QED BY <2>3, <2>6, <2>7 DEF FromLatest
<1>3. ASSUME NEW s \in snapshots
      PROVE  /\ s.from \subseteq risks
             /\ {row.component : row \in s.from} = Range(Lines[s.bom])
             /\ \A x, y \in s.from : x.component = y.component => x = y
             /\ \A own \in {row \in risks : row.by = s.by} :
                  \E row \in s.from : row.component = own.component /\ row.id >= own.id
  BY <1>3 DEF FreshInv, SnapshotsFresh, FromLatest
<1> QED BY <1>2, <1>3 DEF SnapshotFresh

-----------------------------------------------------------------------------
(* A report shows what its snapshot was computed from, or what came later. *)

(* No report has read anything.                                            *)
LEMMA ReportsInit == HistoryInit => ReportsRead
<1> SUFFICES ASSUME HistoryInit PROVE ReportsRead
  OBVIOUS
<1>1. \A r \in Reports : report[r].snapshot = {}
  BY DEF HistoryInit, NoReport
<1> QED BY <1>1 DEF ReportsRead, ReadOf

(* The rows shown so far, and the newest row of the next line.             *)
LEMMA ShownMore ==
  ASSUME NEW r \in Reports, NEW table, NEW n \in Nat,
         \A x \in table : x.id \in Nat /\ x.id < n,
         NEW rows, rows \subseteq table, NEW shown, NEW i \in Nat, i > 0,
         ShownUpTo(r, rows, shown, i - 1)
  PROVE  ShownUpTo(r, rows, shown \cup Newest({x \in table : x.component = LinesFor(r)[i]}), i)
<1> DEFINE at == {x \in table : x.component = LinesFor(r)[i]}
<1>1. SUFFICES ASSUME NEW j \in 1..i, NEW row \in rows, row.component = LinesFor(r)[j]
               PROVE  \E x \in shown \cup Newest(at) : x.component = row.component /\ x.id >= row.id
  BY DEF ShownUpTo
<1>2. CASE j # i
  <2>1. j \in 1..(i - 1)
    BY <1>2
  <2> QED BY <1>1, <2>1 DEF ShownUpTo
<1>3. CASE j = i
  <2>1. row \in at /\ \A x \in at : x.id \in Nat /\ x.id < n
    BY <1>1, <1>3
  <2>2. \A x \in Newest(at) : x.component = LinesFor(r)[i]
    BY DEF Newest
  <2> HIDE DEF at
  <2>3. PICK x \in Newest(at) : x.id >= row.id
    BY <2>1, NewestThere
  <2> QED BY <1>1, <1>3, <2>2, <2>3
<1> QED BY <1>2, <1>3

(* Before the first component a report has shown none.                     *)
LEMMA ShownNone ==
  ASSUME NEW r, NEW rows, NEW shown
  PROVE  ShownUpTo(r, rows, shown, 0)
BY DEF ShownUpTo

(* A report that does not move keeps what it has read.                     *)
LEMMA ReadKept ==
  ASSUME NEW r \in Reports, ReadOf(r), pc'[r] = pc[r], line'[r] = line[r],
         report'[r] = report[r], snapshots \subseteq snapshots',
         \A s \in snapshots :
           {row \in lifecycles' : row.by = s.by} = {row \in lifecycles : row.by = s.by}
  PROVE  ReadOf(r)'
<1>1. RisksRead(r)' = RisksRead(r) /\ LifecyclesRead(r)' = LifecyclesRead(r)
  BY DEF RisksRead, LifecyclesRead, LinesFor
<1>2. pc'[r] = "idle" => report'[r].snapshot = {}
  BY DEF ReadOf
<1>3. \A s \in report'[r].snapshot :
        /\ s \in snapshots' /\ s.bom = BomOf[r]
        /\ ShownUpTo(r, s.from, report'[r].risks, RisksRead(r)')
        /\ ShownUpTo(r, {row \in lifecycles' : row.by = s.by}, report'[r].lifecycles,
                     LifecyclesRead(r)')
  BY <1>1 DEF ReadOf
<1> QED BY <1>2, <1>3 DEF ReadOf, ShownUpTo, LinesFor

(* Every statement keeps ReportsRead.                                      *)
LEMMA ReportsStep ==
  ASSUME Shape, RowsHeld, LinesInv, FreshInv, ReportsRead, [HistoryNext]_historyVars
  PROVE  ReportsRead'
<1>0. /\ \A r \in Reports : ReadOf(r) /\ r \in Sessions
      /\ \A r \in Reports : line[r] \in Nat /\ line[r] > 0 /\ Len(LinesFor(r)) \in Nat
      /\ SnapshotsFresh
      /\ \A a \in Analyses : LinesOf(a)
  BY LineFacts DEF ReportsRead, LinesRecorded, FreshInv, LinesInv, Sessions, Shape
<1>1. ASSUME UNCHANGED <<lifecycles, report>>, snapshots \subseteq snapshots',
             \A r \in Reports : pc'[r] = pc[r] /\ line'[r] = line[r]
      PROVE  ReportsRead'
  <2>1. \A r \in Reports : ReadOf(r)'
    BY <1>0, <1>1, ReadKept
  <2> QED BY <2>1 DEF ReportsRead, ReadOf
<1>2. ASSUME NEW a \in Analyses, Alone(a)
      PROVE  \A r \in Reports : pc'[r] = pc[r] /\ line'[r] = line[r]
  BY <1>2, HistoryAssumption DEF Alone, Sessions
<1>3. ASSUME NEW a \in Analyses, AnalysisNext(a) PROVE ReportsRead'
  <2>1. CASE Begin(a)
    BY <1>1, <1>2, <2>1, BeginEffect
  <2>2. CASE RecordLifecycle(a)
    BY <1>1, <1>2, <2>2, RecordLifecycleEffect
  <2>3. CASE RecordRisk(a)
    BY <1>1, <1>2, <2>3, RecordRiskEffect
  <2>4. CASE Assess(a)
    BY <1>1, <1>2, <2>4, AssessEffect
  <2>5. CASE RecordSnapshot(a)
    BY <1>1, <1>2, <2>5, RecordSnapshotEffect
  <2>6. CASE RollBack(a)
    <3>1. Release(a, "failed") /\ UNCHANGED <<lifecycles, snapshots>>
      BY <2>6 DEF RollBack
    <3> QED BY <1>1, <1>2, <3>1, ReleaseEffect
  <2>7. CASE Commit(a)
    <3>1. /\ pc[a] = "commit" /\ Release(a, "done")
          /\ lifecycles' = lifecycles \cup written[a].lifecycles
          /\ snapshots' = snapshots \cup written[a].snapshots
      BY <2>7 DEF Commit
    <3>2. Alone(a) /\ report' = report
      BY <3>1, ReleaseEffect
    <3>3. \A row \in written[a].lifecycles : row.by = a
      BY <1>0 DEF LinesOf, Recorded
    <3>4. \A s \in snapshots : s.by # a
      BY <1>0, <3>1 DEF SnapshotsFresh
    <3>5. \A s \in snapshots :
            {row \in lifecycles' : row.by = s.by} = {row \in lifecycles : row.by = s.by}
      BY <3>1, <3>3, <3>4
    <3>6. \A r \in Reports : ReadOf(r)'
      BY <1>0, <1>2, <3>1, <3>2, <3>5, ReadKept
    <3> QED BY <3>6 DEF ReportsRead, ReadOf
  <2> QED BY <1>3, <2>1, <2>2, <2>3, <2>4, <2>5, <2>6, <2>7 DEF AnalysisNext
<1>4. ASSUME NEW r \in Reports, Alone(r), UNCHANGED <<lifecycles, snapshots>>,
             \A q \in Reports : q # r => report'[q] = report[q],
             pc'[r] # "idle",
             \A s \in report'[r].snapshot :
               /\ s \in snapshots /\ s.bom = BomOf[r]
               /\ ShownUpTo(r, s.from, report'[r].risks, RisksRead(r)')
               /\ ShownUpTo(r, {row \in lifecycles : row.by = s.by}, report'[r].lifecycles,
                            LifecyclesRead(r)')
      PROVE  ReportsRead'
  <2>1. ReadOf(r)'
    BY <1>4 DEF ReadOf, ShownUpTo, LinesFor
  <2>2. ASSUME NEW q \in Reports, q # r PROVE ReadOf(q)'
    <3>1. ReadOf(q) /\ q \in Sessions
      BY <1>0
    <3>2. pc'[q] = pc[q] /\ line'[q] = line[q] /\ report'[q] = report[q]
      BY <1>4, <2>2, <3>1 DEF Alone
    <3>3. /\ snapshots \subseteq snapshots'
          /\ \A s \in snapshots :
               {row \in lifecycles' : row.by = s.by} = {row \in lifecycles : row.by = s.by}
      BY <1>4
    <3> QED BY <3>1, <3>2, <3>3, ReadKept
  <2>3. \A q \in Reports : ReadOf(q)'
    BY <2>1, <2>2, Zenon
  <2> QED BY <2>3 DEF ReportsRead, ReadOf, ShownUpTo, LinesFor
<1>5. ASSUME NEW r \in Reports, ReadSnapshot(r) PROVE ReportsRead'
  <2>1. /\ pc[r] = "idle" /\ pc'[r] = "risks" /\ line'[r] = line[r] /\ Alone(r)
        /\ \A q \in Reports : q # r => report'[q] = report[q]
        /\ UNCHANGED <<lifecycles, snapshots>>
    BY <1>5, ReadSnapshotEffect
  <2>2. report'[r] = [ snapshot |-> LatestSnapshot(BomOf[r]), risks |-> report[r].risks,
                       lifecycles |-> report[r].lifecycles ]
    BY <1>5, ReadSnapshotEffect
  <2>3. report'[r].snapshot = LatestSnapshot(BomOf[r])
    BY <2>2
  <2>4. line[r] = 1
    BY <1>0, <2>1 DEF Shape
  <2>5. RisksRead(r)' = 0 /\ LifecyclesRead(r)' = 0
    BY <2>1, <2>4 DEF RisksRead, LifecyclesRead
  <2>6. \A s \in report'[r].snapshot : s \in snapshots /\ s.bom = BomOf[r]
    BY <2>3 DEF LatestSnapshot, SnapshotsOf
  <2> QED BY <1>4, <2>1, <2>5, <2>6, ShownNone
<1>6. ASSUME NEW r \in Reports, ReadRisk(r) PROVE ReportsRead'
  <2>1. /\ pc[r] = "risks" /\ NextRead(r, "lifecycles")
        /\ \A q \in Reports : q # r => report'[q] = report[q]
    BY <1>6, ReadRiskEffect
  <2>2. /\ \/ LastLine(r) /\ pc'[r] = "lifecycles" /\ line'[r] = 1
           \/ ~LastLine(r) /\ pc'[r] = pc[r] /\ line'[r] = line[r] + 1
        /\ Alone(r) /\ UNCHANGED <<lifecycles, snapshots>>
    BY <2>1, NextReadEffect
  <2> DEFINE new == Newest({row \in risks : row.component = Component(r)})
  <2>3. report'[r] = [ snapshot |-> report[r].snapshot, risks |-> report[r].risks \cup new,
                       lifecycles |-> report[r].lifecycles ]
    BY <1>6, ReadRiskEffect
  <2> HIDE DEF new
  <2>4. /\ report'[r].snapshot = report[r].snapshot
        /\ report'[r].risks = report[r].risks \cup new
        /\ report'[r].lifecycles = report[r].lifecycles
    BY <2>3
  <2>5. /\ RisksRead(r) = line[r] - 1 /\ RisksRead(r)' = line[r]
        /\ LifecyclesRead(r)' = 0
    BY <1>0, <2>1, <2>2 DEF RisksRead, LifecyclesRead, LastLine, LinesFor
  <2>6. \A x \in risks : x.id \in Nat /\ x.id < nextId["risk"]
    BY DEF RowsHeld, RiskTypeOK, RiskRows
  <2>7. ASSUME NEW s \in report[r].snapshot
        PROVE  /\ s \in snapshots /\ s.bom = BomOf[r]
               /\ ShownUpTo(r, s.from, report[r].risks \cup new, line[r])
    <3>1. s \in snapshots /\ s.bom = BomOf[r] /\ ShownUpTo(r, s.from, report[r].risks, line[r] - 1)
      BY <1>0, <2>5, <2>7 DEF ReadOf
    <3>2. s.from \subseteq risks
      BY <1>0, <3>1 DEF SnapshotsFresh
    <3>3. nextId["risk"] \in Nat
      BY DEF Shape, Tables
    <3> QED BY <1>0, <2>6, <3>1, <3>2, <3>3, ShownMore DEF new, Component
  <2> QED BY <1>4, <2>1, <2>2, <2>4, <2>5, <2>7, ShownNone
<1>7. ASSUME NEW r \in Reports, ReadLifecycle(r) PROVE ReportsRead'
  <2>1. /\ pc[r] = "lifecycles" /\ NextRead(r, "build")
        /\ \A q \in Reports : q # r => report'[q] = report[q]
    BY <1>7, ReadLifecycleEffect
  <2>2. /\ \/ LastLine(r) /\ pc'[r] = "build" /\ line'[r] = 1
           \/ ~LastLine(r) /\ pc'[r] = pc[r] /\ line'[r] = line[r] + 1
        /\ Alone(r) /\ UNCHANGED <<lifecycles, snapshots>>
    BY <2>1, NextReadEffect
  <2> DEFINE new == Newest({row \in lifecycles : row.component = Component(r)})
  <2>3. report'[r] = [ snapshot |-> report[r].snapshot, risks |-> report[r].risks,
                       lifecycles |-> report[r].lifecycles \cup new ]
    BY <1>7, ReadLifecycleEffect
  <2> HIDE DEF new
  <2>4. /\ report'[r].snapshot = report[r].snapshot
        /\ report'[r].risks = report[r].risks
        /\ report'[r].lifecycles = report[r].lifecycles \cup new
    BY <2>3
  <2>5. /\ LifecyclesRead(r) = line[r] - 1 /\ LifecyclesRead(r)' = line[r]
        /\ RisksRead(r) = Len(LinesFor(r)) /\ RisksRead(r)' = Len(LinesFor(r))
    BY <1>0, <2>1, <2>2 DEF RisksRead, LifecyclesRead, LastLine, LinesFor
  <2>6. \A x \in lifecycles : x.id \in Nat /\ x.id < nextId["lifecycle"]
    BY DEF RowsHeld, RiskTypeOK, LifecycleRows
  <2>7. ASSUME NEW s \in report[r].snapshot
        PROVE  /\ s \in snapshots /\ s.bom = BomOf[r]
               /\ ShownUpTo(r, s.from, report[r].risks, Len(LinesFor(r)))
               /\ ShownUpTo(r, {row \in lifecycles : row.by = s.by},
                            report[r].lifecycles \cup new, line[r])
    <3>1. /\ s \in snapshots /\ s.bom = BomOf[r]
          /\ ShownUpTo(r, s.from, report[r].risks, Len(LinesFor(r)))
          /\ ShownUpTo(r, {row \in lifecycles : row.by = s.by}, report[r].lifecycles, line[r] - 1)
      BY <1>0, <2>5, <2>7 DEF ReadOf
    <3>2. nextId["lifecycle"] \in Nat
      BY DEF Shape, Tables
    <3> DEFINE rows == {row \in lifecycles : row.by = s.by}
    <3>3. rows \subseteq lifecycles
      OBVIOUS
    <3>4. ShownUpTo(r, rows, report[r].lifecycles, line[r] - 1)
      BY <3>1
    <3> HIDE DEF rows
    <3>5. ShownUpTo(r, rows, report[r].lifecycles \cup new, line[r])
      BY <1>0, <2>6, <3>2, <3>3, <3>4, ShownMore DEF new, Component
    <3> QED BY <3>1, <3>5 DEF rows
  <2> QED BY <1>4, <2>1, <2>2, <2>4, <2>5, <2>7
<1>8. ASSUME NEW r \in Reports, Build(r) PROVE ReportsRead'
  <2>1. /\ pc[r] = "build" /\ pc'[r] = "done" /\ Alone(r)
        /\ UNCHANGED <<lifecycles, snapshots, report>>
    BY <1>8, BuildEffect
  <2>2. /\ LifecyclesRead(r) = Len(LinesFor(r)) /\ LifecyclesRead(r)' = Len(LinesFor(r))
        /\ RisksRead(r) = Len(LinesFor(r)) /\ RisksRead(r)' = Len(LinesFor(r))
    BY <2>1 DEF RisksRead, LifecyclesRead, LinesFor
  <2>3. \A s \in report[r].snapshot :
          /\ s \in snapshots /\ s.bom = BomOf[r]
          /\ ShownUpTo(r, s.from, report[r].risks, Len(LinesFor(r)))
          /\ ShownUpTo(r, {row \in lifecycles : row.by = s.by}, report[r].lifecycles,
                       Len(LinesFor(r)))
    BY <1>0, <2>2 DEF ReadOf
  <2> QED BY <1>4, <2>1, <2>2, <2>3
<1>9. CASE UNCHANGED historyVars
  BY <1>1, <1>9 DEF historyVars
<1> QED BY <1>3, <1>5, <1>6, <1>7, <1>8, <1>9 DEF HistoryNext, ReportNext

(* A report that is done has read every component.                         *)
LEMMA ReportsCover ==
  ASSUME Shape, LinesInv, FreshInv, ReportsRead
  PROVE  ReportCovers
<1>1. SUFFICES ASSUME NEW r \in Reports, pc[r] = "done", NEW s \in report[r].snapshot
               PROVE  /\ \A row \in s.from : \E shown \in report[r].risks :
                           shown.component = row.component /\ shown.id >= row.id
                      /\ \A row \in lifecycles : row.by = s.by =>
                           \E shown \in report[r].lifecycles :
                             shown.component = row.component /\ shown.id >= row.id
  BY DEF ReportCovers
<1>2. RisksRead(r) = Len(LinesFor(r)) /\ LifecyclesRead(r) = Len(LinesFor(r))
  BY <1>1 DEF RisksRead, LifecyclesRead
<1>3. /\ s \in snapshots /\ s.bom = BomOf[r]
      /\ ShownUpTo(r, s.from, report[r].risks, Len(LinesFor(r)))
      /\ ShownUpTo(r, {row \in lifecycles : row.by = s.by}, report[r].lifecycles,
                   Len(LinesFor(r)))
  BY <1>1, <1>2 DEF ReportsRead, ReadOf
<1>4. /\ s.by \in Analyses /\ pc[s.by] = "done" /\ s.bom = BomOf[s.by]
      /\ {row.component : row \in s.from} = Range(Lines[s.bom])
  BY <1>3 DEF FreshInv, SnapshotsFresh, FromLatest
<1>5. Range(LinesFor(r)) = {LinesFor(r)[i] : i \in 1..Len(LinesFor(r))}
  BY LineFacts DEF Sessions
<1>6. LinesFor(s.by) = LinesFor(r) /\ LinesFor(r) = Lines[s.bom]
  BY <1>3, <1>4 DEF LinesFor
<1>7. \A row \in s.from : \E i \in 1..Len(LinesFor(r)) : row.component = LinesFor(r)[i]
  BY <1>4, <1>5, <1>6
<1>8. {row.component : row \in Own(s.by, lifecycles)} = Range(LinesFor(s.by))
  BY <1>4, AtomicOf DEF LinesInv, StoredWhole, Every
<1>9. \A row \in lifecycles : row.by = s.by =>
        \E i \in 1..Len(LinesFor(r)) : row.component = LinesFor(r)[i]
  BY <1>5, <1>6, <1>8 DEF Own
<1> QED BY <1>3, <1>7, <1>9 DEF ShownUpTo

-----------------------------------------------------------------------------
(* What a snapshot says of the records it was computed from.               *)

(* The list that is assessed: one entry for each component.                *)
Matches(list, from) ==
  /\ list \in Seq({AsBomRisk(row) : row \in from})
  /\ \A row \in from : \E i \in DOMAIN list : list[i].component = row.component
  /\ \A i, j \in DOMAIN list : list[i].component = list[j].component => i = j

Named(s) ==
  LET drivers == {d.component : d \in Range(s.explanation.drivers)}
      advised == {e.component : e \in Range(s.explanation.recommendations)} \ {0}
  IN /\ s.assessment.count = Cardinality(s.from)
     /\ drivers = advised
     /\ \A row \in s.from : row.severity \in Elevated =>
          \/ row.component \in drivers
          \/ /\ Cardinality(drivers) = TopLimit
             /\ \A other \in s.from : other.component \in drivers => other.score >= row.score

(* Its severity and its mean are those of one total.                       *)
Rated(s) ==
  \E total \in Int, count \in Nat \ {0} :
    /\ s.assessment.overall = RoundedMean(total, count)
    /\ s.assessment.severity = Severity(total, count)

(* The first line of each component that has a record is assessed.         *)
LEMMA BomRisksMatch ==
  ASSUME NEW bom \in Boms, NEW rows, NEW latest,
         latest = [i \in DOMAIN Lines[bom] |->
                     Newest({row \in rows : row.component = Lines[bom][i]})]
  PROVE  Matches(BomRisks(bom, latest).risks, BomRisks(bom, latest).from)
<1> DEFINE lines == Lines[bom]
           n == Len(lines)
           index == [i \in DOMAIN lines |-> i]
           kept == {i \in 1..n : latest[i] # {} /\ \A j \in 1..(i - 1) : lines[j] # lines[i]}
           assessed == AtIndices(index, kept)
           order == InOrder(kept, Ascending)
           chosen == [k \in DOMAIN assessed |-> CHOOSE row \in latest[assessed[k]] : TRUE]
           list == [k \in DOMAIN chosen |-> AsBomRisk(chosen[k])]
           from == UNION Range(latest)
<1>1. n \in Nat /\ DOMAIN lines = 1..n
  BY HistoryAssumption
<1>2. BomRisks(bom, latest).risks = list /\ BomRisks(bom, latest).from = from
  <2> DEFINE those == {i \in DOMAIN index : latest[index[i]] # {}
                         /\ \A j \in 1..(index[i] - 1) : lines[j] # lines[index[i]]}
             picked == AtIndices(index, those)
             found == [k \in DOMAIN picked |-> CHOOSE row \in latest[picked[k]] : TRUE]
  <2>1. those = kept
    BY <1>1
  <2>2. BomRisks(bom, latest) = [risks |-> [k \in DOMAIN found |-> AsBomRisk(found[k])], from |-> from]
    BY Zenon DEF BomRisks, Where
  <2>3. picked = assessed
    <3> HIDE DEF those, kept, index
    <3> QED BY <2>1
  <2>4. found = chosen
    <3> HIDE DEF picked, assessed
    <3> QED BY <2>3
  <2> HIDE DEF picked, found, from, chosen
  <2> QED BY <2>2, <2>4
<1>3. \A i \in 1..n : /\ latest[i] = Newest({row \in rows : row.component = lines[i]})
                      /\ \A row \in latest[i] : row.component = lines[i] /\ row \in from
  <2>1. DOMAIN latest = 1..n
    BY <1>1
  <2> QED BY <1>1, <2>1 DEF Newest, Range
<1>4. \A row \in from : \E i \in 1..n : row \in latest[i] /\ row.component = lines[i]
  <2> SUFFICES ASSUME NEW row \in from
               PROVE  \E i \in 1..n : row \in latest[i] /\ row.component = lines[i]
    OBVIOUS
  <2>1. DOMAIN latest = 1..n
    BY <1>1
  <2>2. PICK i \in DOMAIN latest : row \in latest[i]
    BY DEF Range
  <2> QED BY <1>3, <2>1, <2>2
<1>5. kept \in SUBSET (1..n)
  OBVIOUS
<1>6. \A i \in 1..n : index[i] = i
  BY <1>1
<1>7. \A i \in kept : latest[i] # {} /\ \A j \in 1..(i - 1) : lines[j] # lines[i]
  OBVIOUS
<1>8. \A i \in 1..n : latest[i] # {} => \E k \in kept : lines[k] = lines[i]
  <2> SUFFICES ASSUME NEW i \in 1..n, latest[i] # {} PROVE \E k \in kept : lines[k] = lines[i]
    OBVIOUS
  <2> DEFINE same == {j \in 1..n : lines[j] = lines[i]}
  <2>1. same \in SUBSET Nat /\ same # {}
    BY <1>1
  <2>2. PICK k \in same : \A j \in same : k <= j
    <3> HIDE DEF same
    <3> QED BY <2>1, Lowest
  <2>3. k \in 1..n /\ lines[k] = lines[i]
    OBVIOUS
  <2>4. latest[k] # {}
    BY ZenonT(40), <1>3, <2>3
  <2>5. \A j \in 1..(k - 1) : lines[j] # lines[k]
    <3> SUFFICES ASSUME NEW j \in 1..(k - 1), lines[j] = lines[k] PROVE FALSE
      OBVIOUS
    <3>1. j \in same
      BY <1>1, <2>3
    <3>2. k <= j
      BY <2>2, <3>1
    <3> QED BY <1>1, <2>3, <3>2
  <2> QED BY <2>3, <2>4, <2>5
<1> HIDE DEF kept, index, from
<1> DEFINE N == Cardinality(kept)
<1>9. /\ DOMAIN assessed = 1..N
      /\ assessed = [k \in 1..N |-> index[order[k]]]
      /\ order \in [1..N -> kept]
      /\ \A i \in kept : \E k \in DOMAIN assessed : order[k] = i
      /\ \A j, k \in DOMAIN assessed : order[j] = order[k] => j = k
  <2>1. LET some == AtIndices(index, kept)
            places == InOrder(kept, Ascending)
        IN /\ DOMAIN some = 1..Cardinality(kept) /\ Len(some) = Cardinality(kept)
           /\ some = [i \in 1..Cardinality(kept) |-> index[places[i]]]
           /\ places \in [1..Cardinality(kept) -> kept]
           /\ \A i \in kept : \E k \in DOMAIN some : places[k] = i
           /\ \A j, k \in DOMAIN some : j < k <=> places[j] < places[k]
           /\ \A j, k \in DOMAIN some : places[j] = places[k] => j = k
    <3>1. n \in Nat /\ kept \in SUBSET (1..n)
      BY <1>1, <1>5
    <3> HIDE DEF n
    <3> QED BY ONLY <3>1, AtIndicesKeeps, Zenon
  <2> QED BY <2>1, Zenon
<1>10. N \in Nat
  BY <1>1, <1>5, IndicesFinite
<1> HIDE DEF order, N, assessed
<1>11. \A k \in 1..N : assessed[k] = order[k] /\ order[k] \in kept
  <2>1. order \in [1..N -> kept] /\ assessed = [k \in 1..N |-> index[order[k]]]
    BY <1>9
  <2> SUFFICES ASSUME NEW k \in 1..N PROVE assessed[k] = order[k] /\ order[k] \in kept
    OBVIOUS
  <2>2. order[k] \in kept
    BY <2>1
  <2>3. assessed[k] = index[order[k]]
    BY <2>1
  <2> QED BY <1>5, <1>6, <2>2, <2>3
<1>12. \A k \in 1..N : chosen[k] \in latest[order[k]]
  <2> SUFFICES ASSUME NEW k \in 1..N PROVE chosen[k] \in latest[order[k]]
    OBVIOUS
  <2>1. chosen[k] = CHOOSE row \in latest[order[k]] : TRUE
    BY <1>9, <1>11
  <2>2. latest[order[k]] # {}
    BY <1>7, <1>11
  <2> HIDE DEF chosen
  <2> QED BY <2>1, <2>2
<1>13. DOMAIN chosen = 1..N
  BY <1>9
<1> HIDE DEF chosen
<1>14. \A k \in 1..N : chosen[k].component = lines[order[k]] /\ chosen[k] \in from
  BY <1>3, <1>5, <1>11, <1>12
<1>15. /\ list \in Seq({AsBomRisk(row) : row \in from})
       /\ DOMAIN list = 1..N
       /\ \A k \in 1..N : list[k].component = lines[order[k]]
  <2>1. \A k \in 1..N : AsBomRisk(chosen[k]) \in {AsBomRisk(row) : row \in from}
    BY <1>14
  <2>2. \A k \in 1..N : AsBomRisk(chosen[k]).component = chosen[k].component
    BY DEF AsBomRisk
  <2> QED BY <1>10, <1>13, <1>14, <2>1, <2>2
<1> HIDE DEF list
<1>16. \A row \in from : \E k \in 1..N : list[k].component = row.component
  <2> SUFFICES ASSUME NEW row \in from PROVE \E k \in 1..N : list[k].component = row.component
    OBVIOUS
  <2>1. PICK i \in 1..n : row \in latest[i] /\ row.component = lines[i]
    BY <1>4
  <2>2. PICK j \in kept : lines[j] = lines[i]
    BY <1>8, <2>1
  <2>3. PICK k \in 1..N : order[k] = j
    BY <1>9
  <2> QED BY <1>15, <2>1, <2>2, <2>3
<1>17. \A j, k \in 1..N : list[j].component = list[k].component => j = k
  <2> SUFFICES ASSUME NEW j \in 1..N, NEW k \in 1..N, list[j].component = list[k].component
               PROVE  j = k
    OBVIOUS
  <2>1. lines[order[j]] = lines[order[k]]
    BY <1>15
  <2>2. order[j] \in 1..n /\ order[k] \in 1..n
    BY <1>5, <1>11
  <2>3. ~(order[j] < order[k]) /\ ~(order[k] < order[j])
    <3>1. \A x, y \in 1..n : x < y => x \in 1..(y - 1)
      BY <1>1
    <3> QED BY <1>7, <1>11, <2>1, <2>2, <3>1
  <2>4. order[j] = order[k]
    BY <1>1, <2>2, <2>3
  <2> QED BY <1>9, <2>4
<1> QED BY <1>2, <1>15, <1>16, <1>17 DEF Matches

(* The top of a list: its first places in the order of the scores, each    *)
(* element once.                                                           *)
LEMMA TopRisks ==
  ASSUME NEW n \in Nat, NEW S, NEW list \in [1..n -> S], \A x \in S : x.score \in Int
  PROVE  /\ Top(list) \in Seq(S) /\ DOMAIN Top(list) = 1..Len(Top(list))
         /\ Len(Top(list)) = IF n < TopLimit THEN n ELSE TopLimit
         /\ \E order \in [1..n -> 1..n] :
              /\ \A i \in 1..n : \E k \in 1..n : order[k] = i
              /\ \A j, k \in 1..n : order[j] = order[k] => j = k
              /\ \A k \in 1..Len(Top(list)) : k \in 1..n /\ Top(list)[k] = list[order[k]]
              /\ \A j, k \in 1..n : j < k => list[order[j]].score >= list[order[k]].score
<1> DEFINE key == [i \in 1..n |-> list[i].score]
           first == FirstOf(ByKey(list, key), TopLimit)
<1>1. key \in [1..n -> Int] /\ \A i \in 1..n : key[i] = list[i].score
  OBVIOUS
<1>2. Top(list) = first
  <2>1. DOMAIN list = 1..n
    OBVIOUS
  <2> QED BY <2>1 DEF Top, Ranked
<1> HIDE DEF key
<1>3. TopLimit \in Nat
  BY ScoringAssumption
<1>4. /\ first \in Seq(S) /\ DOMAIN first = 1..Len(first)
      /\ Len(first) = IF n < TopLimit THEN n ELSE TopLimit
      /\ \E order \in [1..n -> 1..n] :
           /\ \A i \in 1..n : \E k \in 1..n : order[k] = i
           /\ \A j, k \in 1..n : order[j] = order[k] => j = k
           /\ \A k \in 1..Len(first) : k \in 1..n /\ first[k] = list[order[k]]
           /\ \A j, k \in 1..n : j < k => key[order[j]] >= key[order[k]]
  <2>1. BestOf(first, n, S, list, key, TopLimit)
    BY <1>1, <1>3, FirstByKey
  <2> HIDE DEF first
  <2> QED BY <2>1 DEF BestOf
<1> HIDE DEF first
<1>5. PICK order \in [1..n -> 1..n] :
        /\ \A i \in 1..n : \E k \in 1..n : order[k] = i
        /\ \A j, k \in 1..n : order[j] = order[k] => j = k
        /\ \A k \in 1..Len(first) : k \in 1..n /\ first[k] = list[order[k]]
        /\ \A j, k \in 1..n : j < k => key[order[j]] >= key[order[k]]
  BY <1>4
<1>6. \A j, k \in 1..n : j < k => list[order[j]].score >= list[order[k]].score
  <2> SUFFICES ASSUME NEW j \in 1..n, NEW k \in 1..n, j < k
               PROVE  list[order[j]].score >= list[order[k]].score
    OBVIOUS
  <2>1. order[j] \in 1..n /\ order[k] \in 1..n
    BY <1>5
  <2>2. key[order[j]] = list[order[j]].score /\ key[order[k]] = list[order[k]].score
    BY <1>1, <2>1
  <2>3. key[order[j]] >= key[order[k]]
    BY <1>5
  <2> QED BY <2>2, <2>3
<1> QED BY <1>2, <1>4, <1>5, <1>6

Shorter(m, n) == IF m < n THEN m ELSE n

(* The top of a list: a list of its elements, cut to the limit.            *)
LEMMA TopType ==
  ASSUME NEW n \in Nat, NEW S, NEW list \in [1..n -> S], \A x \in S : x.score \in Int
  PROVE  /\ Top(list) \in Seq(S) /\ DOMAIN Top(list) = 1..Len(Top(list))
         /\ Len(Top(list)) = Shorter(n, TopLimit)
BY TopRisks DEF Shorter

ElevatedAt(top) == {k \in 1..Len(top) : top[k].severity \in Elevated}
NamedIn(top) == {top[k].component : k \in ElevatedAt(top)}
Drives(a) == {d.component : d \in Range(Drivers(a))}
Advises(a) == {e.component : e \in Range(Recommendations(a))} \ {0}

(* Whom drivers and recommendations name: the elevated of the top.         *)
LEMMA WhoIsNamed ==
  ASSUME NEW a, NEW S, NEW top \in Seq(S), a.top = top, \A x \in S : x.component # 0
  PROVE  Drives(a) = NamedIn(top) /\ Advises(a) = NamedIn(top)
<1> DEFINE m == Len(top)
           kept == {k \in 1..m : top[k].severity \in Elevated}
           elevated == AtIndices(top, kept)
           driverOf == [i \in DOMAIN elevated |->
                          [component |-> elevated[i].component, reason |-> Reason(elevated[i])]]
           adviceOf == [i \in DOMAIN elevated |-> Advice(elevated[i])]
           whole(reason) == GeneralAdvice("HIGH", reason)
           A == IF a.lifecycleRisks > 0 THEN whole("lifecycle") ELSE <<>>
           B == IF a.availabilityRisks > 0 THEN whole("availability") ELSE <<>>
           named == {top[k].component : k \in kept}
<1>0. m \in Nat /\ DOMAIN top = 1..m /\ top \in [1..m -> S]
  OBVIOUS
<1>1. /\ elevated \in Seq(S) /\ DOMAIN elevated = 1..Len(elevated)
      /\ Range(elevated) = {top[k] : k \in kept}
  <2>1. kept \in SUBSET (1..m)
    OBVIOUS
  <2> HIDE DEF kept
  <2>2. LET some == AtIndices(top, kept)
        IN /\ some \in Seq(S) /\ Len(some) = Cardinality(kept) /\ DOMAIN some = 1..Len(some)
           /\ Range(some) = {top[i] : i \in kept}
           /\ some = <<>> <=> kept = {}
           /\ \A i \in kept : (\A j \in kept : i <= j) => some[1] = top[i]
    <3> HIDE DEF m
    <3> QED BY <1>0, <2>1, AtIndicesElements
  <2> QED BY <2>2
<1>2. Drivers(a) = driverOf /\ Recommendations(a) = (adviceOf \o A) \o B
  <2> DEFINE those == {k \in DOMAIN top : top[k].severity \in Elevated}
             named2 == AtIndices(top, those)
  <2>1. those = kept
    BY <1>0
  <2>2. Drivers(a) = [i \in DOMAIN named2 |->
                        [component |-> named2[i].component, reason |-> Reason(named2[i])]]
    BY Zenon DEF Drivers, Where
  <2>3. Recommendations(a) = ([i \in DOMAIN named2 |-> Advice(named2[i])] \o A) \o B
    BY Zenon DEF Recommendations, Where
  <2>4. named2 = elevated
    <3> HIDE DEF those, kept
    <3> QED BY <2>1
  <2> HIDE DEF named2, elevated
  <2> QED BY <2>2, <2>3, <2>4
<1> HIDE DEF elevated
<1>3. {x.component : x \in Range(elevated)} = named
  BY <1>1
<1> HIDE DEF kept, named
<1>4. {d.component : d \in Range(driverOf)} = named
  <2>1. \A i \in DOMAIN elevated : driverOf[i].component = elevated[i].component
    OBVIOUS
  <2>2. DOMAIN driverOf = DOMAIN elevated
    OBVIOUS
  <2> HIDE DEF driverOf
  <2> QED BY <1>3, <2>1, <2>2 DEF Range
<1>5. {e.component : e \in Range(adviceOf)} = named
  <2>1. \A i \in DOMAIN elevated : adviceOf[i].component = elevated[i].component
    BY DEF Advice
  <2>2. DOMAIN adviceOf = DOMAIN elevated
    OBVIOUS
  <2> HIDE DEF adviceOf
  <2> QED BY <1>3, <2>1, <2>2 DEF Range
<1>6. 0 \notin named
  <2>1. \A x \in Range(elevated) : x \in S
    BY <1>1 DEF Range
  <2> QED BY <1>3, <2>1
<1>7. /\ \A x \in Range(A) : x.component = 0
      /\ \A x \in Range(B) : x.component = 0
  BY DEF GeneralAdvice, Range
<1>8. Range((adviceOf \o A) \o B) = Range(adviceOf) \cup Range(A) \cup Range(B)
  <2> DEFINE Entries == Range(adviceOf) \cup Range(whole("lifecycle")) \cup Range(whole("availability"))
  <2>1. adviceOf \in Seq(Entries)
    <3>1. Len(elevated) \in Nat /\ DOMAIN adviceOf = 1..Len(elevated)
      BY <1>1
    <3>2. \A i \in DOMAIN adviceOf : adviceOf[i] \in Entries
      BY DEF Range
    <3>3. adviceOf = [i \in 1..Len(elevated) |-> adviceOf[i]]
      BY <3>1
    <3> HIDE DEF adviceOf, Entries
    <3> QED BY <3>1, <3>2, <3>3
  <2>2. \A reason \in {"lifecycle", "availability"} : whole(reason) \in Seq(Entries)
    BY DEF GeneralAdvice, Range
  <2>3. A \in Seq(Entries) /\ B \in Seq(Entries)
    BY <2>2
  <2> HIDE DEF adviceOf, A, B, Entries
  <2>4. adviceOf \o A \in Seq(Entries)
    BY <2>1, <2>3, ConcatProperties
  <2>5. Range((adviceOf \o A) \o B) = Range(adviceOf \o A) \cup Range(B)
    BY ZenonT(40), <2>3, <2>4, RangeConcatenation
  <2>6. Range(adviceOf \o A) = Range(adviceOf) \cup Range(A)
    BY <2>1, <2>3, RangeConcatenation
  <2> QED BY <2>5, <2>6
<1> HIDE DEF driverOf, adviceOf, A, B
<1>9. {e.component : e \in Range((adviceOf \o A) \o B)} \ {0} = named
  BY <1>5, <1>6, <1>7, <1>8
<1>10. named = NamedIn(top)
  BY DEF named, kept, NamedIn, ElevatedAt
<1>11. Drives(a) = named /\ Advises(a) = named
  BY <1>2, <1>4, <1>9 DEF Drives, Advises
<1> QED BY <1>10, <1>11

(* General advice names no component.                                      *)
LEMMA GeneralNames ==
  ASSUME NEW priority, NEW reason
  PROVE  \A e \in Range(GeneralAdvice(priority, reason)) : e.component = 0
BY DEF GeneralAdvice, Range

(* What an explanation consists of.                                        *)
LEMMA ExplanationParts ==
  ASSUME NEW a
  PROVE  /\ Explanation(a).drivers = Drivers(a)
         /\ Explanation(a).recommendations =
              IF a.count = 0 THEN GeneralAdvice("UNKNOWN", "no data") ELSE Recommendations(a)
<1> DEFINE told == IF a.count = 0 THEN GeneralAdvice("UNKNOWN", "no data") ELSE Recommendations(a)
<1>1. Explanation(a) = [drivers |-> Drivers(a), recommendations |-> told]
  BY DEF Explanation
<1> HIDE DEF told
<1>2. Explanation(a).drivers = Drivers(a) /\ Explanation(a).recommendations = told
  BY <1>1
<1> QED BY <1>2 DEF told

(* What Named says follows from the list that was assessed.                *)
LEMMA NamedOf ==
  ASSUME NEW from, NEW list, Matches(list, from), from \subseteq RiskRows,
         \A row \in from : Justified(row) /\ row.component # 0,
         \A x, y \in from : x.component = y.component => x = y,
         NEW s, s.from = from, s.assessment = Assessment(list),
         s.explanation = Explanation(s.assessment)
  PROVE  Named(s)
<1> DEFINE S == {AsBomRisk(row) : row \in from}
           n == Len(list)
           top == Top(list)
           m == Len(top)
           a == s.assessment
           kept == ElevatedAt(top)
           named == NamedIn(top)
           drivers == {d.component : d \in Range(s.explanation.drivers)}
           advised == {e.component : e \in Range(s.explanation.recommendations)} \ {0}
<1>1. list \in Seq(S) /\ n \in Nat /\ DOMAIN list = 1..n /\ list \in [1..n -> S]
  BY DEF Matches
<1>2. \A row \in from : /\ AsBomRisk(row).component = row.component
                        /\ AsBomRisk(row).score = row.score /\ row.score \in Int
                        /\ AsBomRisk(row).severity = row.severity
                        /\ row.component # 0
                        /\ row.severity \in Elevated <=> row.score >= 50
  BY DEF AsBomRisk, Justified, RiskRows
<1>3. \A x \in S : x.score \in Int /\ x.component # 0
                   /\ (x.severity \in Elevated <=> x.score >= 50)
  BY <1>2
<1>4. \A row \in from : \E i \in 1..n : list[i] = AsBomRisk(row)
  <2> SUFFICES ASSUME NEW row \in from PROVE \E i \in 1..n : list[i] = AsBomRisk(row)
    OBVIOUS
  <2>1. PICK i \in 1..n : list[i].component = row.component
    BY <1>1 DEF Matches
  <2>2. PICK other \in from : list[i] = AsBomRisk(other)
    BY <1>1
  <2>3. other = row
    BY <1>2, <2>1, <2>2
  <2> QED BY <2>2, <2>3
<1>5. \A i, j \in 1..n : list[i].component = list[j].component => i = j
  BY <1>1 DEF Matches
<1>6. Cardinality(from) = n
  <2> DEFINE f == [i \in 1..n |-> CHOOSE row \in from : list[i] = AsBomRisk(row)]
  <2>1. \A i \in 1..n : \E row \in from : list[i] = AsBomRisk(row)
    BY <1>1
  <2>2. \A i \in 1..n : f[i] \in from /\ list[i] = AsBomRisk(f[i])
    BY <2>1
  <2>3. f \in [1..n -> from]
    BY <2>2
  <2> HIDE DEF f
  <2>4. \A i, j \in 1..n : f[i] = f[j] => i = j
    BY <1>5, <2>2
  <2>5. \A row \in from : \E i \in 1..n : f[i] = row
    <3> SUFFICES ASSUME NEW row \in from PROVE \E i \in 1..n : f[i] = row
      OBVIOUS
    <3>1. PICK i \in 1..n : list[i] = AsBomRisk(row)
      BY <1>4
    <3> QED BY <1>2, <2>2, <3>1
  <2> HIDE DEF n
  <2> QED BY <1>1, <2>3, <2>4, <2>5, ListedOnce
<1> HIDE DEF S
<1>7. PICK order \in [1..n -> 1..n] :
        /\ \A i \in 1..n : \E k \in 1..n : order[k] = i
        /\ \A j, k \in 1..n : order[j] = order[k] => j = k
        /\ \A k \in 1..m : k \in 1..n /\ top[k] = list[order[k]]
        /\ \A j, k \in 1..n : j < k => list[order[j]].score >= list[order[k]].score
  <2>1. \A x \in S : x.score \in Int
    BY <1>3
  <2>2. \E order \in [1..n -> 1..n] :
          /\ \A i \in 1..n : \E k \in 1..n : order[k] = i
          /\ \A j, k \in 1..n : order[j] = order[k] => j = k
          /\ \A k \in 1..Len(Top(list)) : k \in 1..n /\ Top(list)[k] = list[order[k]]
          /\ \A j, k \in 1..n : j < k => list[order[j]].score >= list[order[k]].score
    <3> HIDE DEF n, top, m
    <3> QED BY ONLY <1>1, <2>1, TopRisks, Zenon
  <2> QED BY <2>2
<1>8. /\ top \in Seq(S) /\ DOMAIN top = 1..m /\ m \in Nat
      /\ m = IF n < TopLimit THEN n ELSE TopLimit
  <2>1. top \in Seq(S) /\ DOMAIN top = 1..m /\ m = IF n < TopLimit THEN n ELSE TopLimit
    <3>1. \A x \in S : x.score \in Int
      BY <1>3
    <3>2. /\ Top(list) \in Seq(S) /\ DOMAIN Top(list) = 1..Len(Top(list))
          /\ Len(Top(list)) = Shorter(n, TopLimit)
      <4> HIDE DEF n
      <4> QED BY <1>1, <3>1, TopType
    <3> QED BY <3>2 DEF Shorter
  <2> QED BY <2>1
<1>9. TopLimit \in Nat \ {0}
  BY ScoringAssumption
<1>10. a.count = n /\ a.top = top
  BY DEF Assessment
<1> HIDE DEF n, top, m
<1>11. top \in [1..m -> S]
  BY <1>8
<1>12. /\ {d.component : d \in Range(Drivers(a))} = named
       /\ {e.component : e \in Range(Recommendations(a))} \ {0} = named
  <2>1. \A x \in S : x.component # 0
    BY <1>3
  <2> HIDE DEF a
  <2>2. Drives(a) = named /\ Advises(a) = named
    BY <1>8, <1>10, <2>1, WhoIsNamed
  <2> QED BY <2>2 DEF Drives, Advises
<1>13. /\ s.explanation.drivers = Drivers(a)
       /\ s.explanation.recommendations =
            IF n = 0 THEN GeneralAdvice("UNKNOWN", "no data") ELSE Recommendations(a)
  <2>1. s.explanation = Explanation(a)
    OBVIOUS
  <2> HIDE DEF a
  <2> QED BY <1>10, <2>1, ExplanationParts
<1>14. drivers = named
  BY <1>12, <1>13
<1>15. advised = named
  <2>1. CASE n = 0
    <3>1. kept = {} /\ named = {}
      BY <1>8, <1>9, <2>1 DEF ElevatedAt, NamedIn, m
    <3>2. \A e \in Range(GeneralAdvice("UNKNOWN", "no data")) : e.component = 0
      BY GeneralNames
    <3>3. \A e \in Range(s.explanation.recommendations) : e.component = 0
      BY <1>13, <2>1, <3>2
    <3> QED BY <3>1, <3>3
  <2>2. CASE n # 0
    BY <1>12, <1>13, <2>2
  <2> QED BY <2>1, <2>2
<1> HIDE DEF kept, named, drivers, advised, a
<1>16. ASSUME NEW row \in from, row.severity \in Elevated
       PROVE  \/ row.component \in drivers
              \/ /\ Cardinality(drivers) = TopLimit
                 /\ \A other \in from : other.component \in drivers => other.score >= row.score
  <2>1. PICK i \in 1..n : list[i] = AsBomRisk(row)
    BY <1>4
  <2>2. PICK k \in 1..n : order[k] = i
    BY <1>7
  <2>3. CASE k \in 1..m
    <3>1. top[k] = AsBomRisk(row)
      BY <1>7, <2>1, <2>2, <2>3
    <3>2. k \in kept
      BY <1>2, <1>16, <2>3, <3>1 DEF kept, ElevatedAt, m
    <3> QED BY <1>2, <1>14, <3>1, <3>2 DEF named, NamedIn, kept
  <2>4. CASE k \notin 1..m
    <3>1. m = TopLimit /\ \A j \in 1..m : j \in 1..n /\ j < k
      BY <1>1, <1>8, <1>9, <2>4
    <3>2. \A j \in 1..m : top[j].score >= row.score
      <4> SUFFICES ASSUME NEW j \in 1..m PROVE top[j].score >= row.score
        OBVIOUS
      <4>1. j \in 1..n /\ j < k /\ top[j] = list[order[j]]
        BY <1>7, <3>1
      <4>2. list[order[j]].score >= list[order[k]].score
        BY <1>7, <4>1
      <4>3. list[order[k]].score = row.score
        BY <1>2, <2>1, <2>2
      <4> QED BY <4>1, <4>2, <4>3
    <3>3. kept = 1..m
      <4> SUFFICES ASSUME NEW j \in 1..m PROVE top[j].severity \in Elevated
        BY DEF kept, ElevatedAt, m
      <4>1. top[j] \in S
        BY <1>11
      <4>2. top[j].score >= 50
        BY <1>2, <1>3, <1>16, <3>2, <4>1
      <4> QED BY <1>3, <4>1, <4>2
    <3>4. drivers = {top[j].component : j \in 1..m}
      BY <1>14, <3>3 DEF named, NamedIn, kept
    <3>5. Cardinality(drivers) = m
      <4> DEFINE f == [j \in 1..m |-> top[j].component]
      <4>1. f \in [1..m -> drivers] /\ \A x \in drivers : \E j \in 1..m : f[j] = x
        BY <3>4
      <4>2. \A j, h \in 1..m : f[j] = f[h] => j = h
        <5> SUFFICES ASSUME NEW j \in 1..m, NEW h \in 1..m, top[j].component = top[h].component
                     PROVE  j = h
          OBVIOUS
        <5>1. /\ j \in 1..n /\ top[j] = list[order[j]] /\ order[j] \in 1..n
              /\ h \in 1..n /\ top[h] = list[order[h]] /\ order[h] \in 1..n
          BY <1>7
        <5>2. order[j] = order[h]
          BY <1>5, <5>1
        <5> QED BY <1>7, <5>1, <5>2
      <4>3. f \in [1..m -> drivers] /\ m \in Nat
        BY <1>8, <4>1
      <4> HIDE DEF f
      <4>4. \A x \in drivers : \E j \in 1..m : f[j] = x
        BY <4>1
      <4> QED BY <4>2, <4>3, <4>4, ListedOnce
    <3>6. ASSUME NEW other \in from, other.component \in drivers
          PROVE  other.score >= row.score
      <4>1. PICK j \in 1..m : top[j].component = other.component
        BY <3>4, <3>6
      <4>2. j \in 1..n /\ top[j] = list[order[j]] /\ order[j] \in 1..n
        BY <1>7
      <4>3. PICK h \in 1..n : list[h] = AsBomRisk(other)
        BY <1>4
      <4>4. h = order[j]
        BY <1>2, <1>5, <4>1, <4>2, <4>3
      <4> QED BY <1>2, <3>2, <4>2, <4>3, <4>4
    <3> QED BY <3>1, <3>5, <3>6
  <2> QED BY <2>3, <2>4
<1>17. a.count = Cardinality(s.from)
  BY <1>6, <1>10
<1> QED BY <1>14, <1>15, <1>16, <1>17 DEF Named, drivers, advised, a

(* What Rated says of the assessment of a list that is not empty.          *)
LEMMA RatedOf ==
  ASSUME NEW from, NEW list, Matches(list, from), from \subseteq RiskRows, from # {},
         NEW s, s.assessment = Assessment(list)
  PROVE  Rated(s)
<1> DEFINE S == {AsBomRisk(row) : row \in from}
           scores == [i \in DOMAIN list |-> list[i].score]
<1>1. list \in Seq(S) /\ list # <<>>
  BY DEF Matches
<1>2. \A x \in S : x.score \in Int
  BY DEF AsBomRisk, RiskRows
<1> HIDE DEF S
<1>3. scores \in Seq(Int) /\ Len(list) \in Nat \ {0}
  BY <1>1, <1>2
<1>4. Total(scores) \in Int
  BY <1>3, TotalType
<1>5. /\ s.assessment.overall = RoundedMean(Total(scores), Len(list))
      /\ s.assessment.severity = Severity(Total(scores), Len(list))
  <2>1. /\ Assessment(list).overall =
             IF list = <<>> THEN 0 ELSE RoundedMean(Total(scores), Len(list))
        /\ Assessment(list).severity =
             IF list = <<>> THEN "UNKNOWN" ELSE Severity(Total(scores), Len(list))
    BY DEF Assessment, TotalOf
  <2> QED BY <1>1, <2>1
<1> QED BY <1>3, <1>4, <1>5 DEF Rated

-----------------------------------------------------------------------------
(* The snapshots: what each says of its records, and their order.          *)

AllSnapshots == snapshots \cup UNION {written[a].snapshots : a \in Analyses}

Timed(s) == s.id \in Nat /\ s.created \in Nat

Dated ==
  /\ clock \in Nat
  /\ DOMAIN started = Sessions
  /\ \A s \in Sessions : started[s] \in Nat

AssessedListed ==
  \A a \in Analyses : pc[a] = "snapshot" => Matches(result[a].risks, result[a].from)

SnapshotsHeld ==
  /\ \A s \in AllSnapshots : Named(s) /\ Rated(s) /\ Timed(s) /\ s.id < nextId["snapshot"]
  /\ \A x, y \in AllSnapshots : x.id = y.id => x = y
  /\ IsFiniteSet(snapshots)

SnapshotsInv == Dated /\ AssessedListed /\ SnapshotsHeld

(* Before any session there are none.                                      *)
LEMMA SnapshotsInit == HistoryInit => SnapshotsInv
<1> SUFFICES ASSUME HistoryInit PROVE SnapshotsInv
  OBVIOUS
<1>1. Dated
  BY DEF HistoryInit, Dated
<1>2. AssessedListed
  BY DEF HistoryInit, AssessedListed, Sessions
<1>3. \A a \in Analyses : written[a].snapshots = {}
  BY DEF HistoryInit, Nothing
<1>4. snapshots = {}
  BY DEF HistoryInit
<1>5. AllSnapshots = {}
  BY <1>3, <1>4 DEF AllSnapshots
<1>6. SnapshotsHeld
  BY <1>4, <1>5, FS_EmptySet DEF SnapshotsHeld
<1> QED BY <1>1, <1>2, <1>6 DEF SnapshotsInv

(* The clock only counts.                                                  *)
LEMMA DatedStep ==
  ASSUME Dated, [HistoryNext]_historyVars
  PROVE  Dated'
<1>1. ASSUME UNCHANGED <<clock, started>> PROVE Dated'
  BY <1>1 DEF Dated, Sessions
<1>2. ASSUME NEW a \in Analyses, Begin(a) PROVE Dated'
  <2>1. /\ clock' = clock + 1
        /\ started' = [started EXCEPT ![a] = clock]
    BY <1>2 DEF Begin
  <2>2. DOMAIN started' = Sessions /\ \A s \in Sessions : started'[s] = clock \/ started'[s] = started[s]
    BY <2>1 DEF Dated
  <2> QED BY <2>1, <2>2 DEF Dated, Sessions
<1>3. ASSUME NEW a \in Analyses, AnalysisNext(a) PROVE Dated'
  <2>1. Begin(a) \/ UNCHANGED <<clock, started>>
    BY <1>3 DEF AnalysisNext, RecordLifecycle, RecordRisk, EndLine, Assess, RecordSnapshot,
                Commit, RollBack, Release
  <2> QED BY <1>1, <1>2, <2>1
<1>4. ASSUME NEW r \in Reports, ReportNext(r) PROVE Dated'
  <2>1. UNCHANGED <<clock, started>>
    BY <1>4 DEF ReportNext, ReadSnapshot, ReadRisk, ReadLifecycle, Build, NextRead
  <2> QED BY <1>1, <2>1
<1>5. CASE UNCHANGED historyVars
  BY <1>1, <1>5 DEF historyVars
<1> QED BY <1>3, <1>4, <1>5 DEF HistoryNext

(* What is assessed lists the latest records, one per component.           *)
LEMMA ListedStep ==
  ASSUME Shape, AssessedListed, [HistoryNext]_historyVars
  PROVE  AssessedListed'
<1>1. ASSUME UNCHANGED <<pc, result>> PROVE AssessedListed'
  <2>1. ASSUME NEW a \in Analyses, pc'[a] = "snapshot"
        PROVE  Matches(result'[a].risks, result'[a].from)
    BY <1>1, <2>1 DEF AssessedListed
  <2> QED BY <2>1 DEF AssessedListed, Matches, AsBomRisk
<1>2. ASSUME NEW a \in Analyses,
             \A b \in Analyses : b # a => pc'[b] = pc[b] /\ result'[b] = result[b],
             pc'[a] = "snapshot" => Matches(result'[a].risks, result'[a].from)
      PROVE  AssessedListed'
  <2>1. ASSUME NEW b \in Analyses, pc'[b] = "snapshot"
        PROVE  Matches(result'[b].risks, result'[b].from)
    BY <1>2, <2>1 DEF AssessedListed
  <2> QED BY <2>1 DEF AssessedListed, Matches, AsBomRisk
<1>3. ASSUME NEW a \in Analyses, Assess(a) PROVE AssessedListed'
  <2> DEFINE latest == LatestRisks(a)
  <2>1. latest = [i \in DOMAIN Lines[BomOf[a]] |->
                    Newest({row \in Visible(a) : row.component = Lines[BomOf[a]][i]})]
    BY DEF LatestRisks, LinesFor, Visible
  <2>2. BomOf[a] \in Boms
    BY LineFacts DEF Sessions
  <2> HIDE DEF latest
  <2>3. Matches(BomRisks(BomOf[a], latest).risks, BomRisks(BomOf[a], latest).from)
    BY <2>1, <2>2, BomRisksMatch
  <2>4. result'[a] = BomRisks(BomOf[a], latest)
    BY <1>3, AssessEffect DEF latest
  <2>5. \A b \in Analyses : b # a => pc'[b] = pc[b] /\ result'[b] = result[b]
    BY <1>3, AssessEffect DEF Alone, Sessions
  <2> QED BY <1>2, <2>3, <2>4, <2>5
<1>4. ASSUME NEW a \in Analyses, AnalysisNext(a), ~Assess(a) PROVE AssessedListed'
  <2>1. /\ pc'[a] # "snapshot"
        /\ \A b \in Analyses : b # a => pc'[b] = pc[b] /\ result'[b] = result[b]
    <3>1. CASE Begin(a)
      BY <3>1, BeginEffect DEF Alone, Sessions
    <3>2. CASE RecordLifecycle(a)
      BY <3>2, RecordLifecycleEffect DEF Alone, Sessions
    <3>3. CASE RecordRisk(a)
      BY <3>3, RecordRiskEffect DEF Alone, Sessions
    <3>4. CASE RecordSnapshot(a)
      BY <3>4, RecordSnapshotEffect DEF Alone, Sessions
    <3>5. CASE Commit(a) \/ RollBack(a)
      <4>1. Release(a, "done") \/ Release(a, "failed")
        BY <3>5 DEF Commit, RollBack
      <4> QED BY <4>1, ReleaseEffect DEF Alone, Sessions
    <3> QED BY <1>4, <3>1, <3>2, <3>3, <3>4, <3>5 DEF AnalysisNext
  <2> QED BY <1>2, <2>1
<1>5. ASSUME NEW r \in Reports, ReportNext(r) PROVE AssessedListed'
  <2>1. Alone(r) /\ UNCHANGED result
    <3>1. CASE ReadSnapshot(r)
      BY <3>1, ReadSnapshotEffect
    <3>2. CASE ReadRisk(r) \/ ReadLifecycle(r)
      <4>1. NextRead(r, "lifecycles") \/ NextRead(r, "build")
        BY <3>2 DEF ReadRisk, ReadLifecycle
      <4> QED BY <4>1, NextReadEffect
    <3>3. CASE Build(r)
      BY <3>3, BuildEffect
    <3> QED BY <1>5, <3>1, <3>2, <3>3 DEF ReportNext
  <2>2. \A a \in Analyses : a \in Sessions /\ a # r
    BY HistoryAssumption DEF Sessions
  <2>3. \A a \in Analyses : pc'[a] = pc[a] /\ result'[a] = result[a]
    BY <2>1, <2>2 DEF Alone
  <2>4. ASSUME NEW a \in Analyses, pc'[a] = "snapshot"
        PROVE  Matches(result'[a].risks, result'[a].from)
    BY <2>3, <2>4 DEF AssessedListed
  <2> QED BY <2>4 DEF AssessedListed, Matches, AsBomRisk
<1>6. CASE UNCHANGED historyVars
  BY <1>1, <1>6 DEF historyVars
<1> QED BY <1>3, <1>4, <1>5, <1>6 DEF HistoryNext

(* Where no snapshot is added.                                             *)
LEMMA SnapshotsFewer ==
  ASSUME SnapshotsHeld, AllSnapshots' \subseteq AllSnapshots, IsFiniteSet(snapshots'),
         nextId'["snapshot"] = nextId["snapshot"]
  PROVE  SnapshotsHeld'
<1>1. \A s \in AllSnapshots' : Named(s) /\ Rated(s) /\ Timed(s) /\ s.id < nextId'["snapshot"]
  BY DEF SnapshotsHeld
<1>2. \A x, y \in AllSnapshots' : x.id = y.id => x = y
  BY DEF SnapshotsHeld
<1> QED BY <1>1, <1>2 DEF SnapshotsHeld, Named, Rated, Timed, RoundedMean, Severity

(* Every statement keeps SnapshotsHeld.                                    *)
LEMMA SnapshotsStep ==
  ASSUME HistoryInv, SnapshotsInv, [HistoryNext]_historyVars
  PROVE  SnapshotsHeld'
<1>0. /\ Shape /\ SnapshotsHeld /\ IsFiniteSet(snapshots)
      /\ nextId["snapshot"] \in Nat /\ DOMAIN nextId = Tables
  BY DEF HistoryInv, SnapshotsInv, SnapshotsHeld, Shape, Tables
<1>1. ASSUME UNCHANGED <<snapshots, written, nextId>> PROVE SnapshotsHeld'
  BY <1>0, <1>1, SnapshotsFewer DEF AllSnapshots
<1>2. ASSUME NEW a \in Analyses, UNCHANGED snapshots,
             written'[a].snapshots = written[a].snapshots,
             \A b \in Analyses : b # a => written'[b] = written[b],
             nextId'["snapshot"] = nextId["snapshot"]
      PROVE  SnapshotsHeld'
  <2>1. AllSnapshots' = AllSnapshots
    BY <1>2 DEF AllSnapshots
  <2> QED BY <1>0, <1>2, <2>1, SnapshotsFewer
<1>3. ASSUME NEW a \in Analyses, Begin(a) PROVE SnapshotsHeld'
  BY <1>0, <1>1, <1>3, BeginEffect
<1>4. ASSUME NEW a \in Analyses, RecordLifecycle(a) PROVE SnapshotsHeld'
  <2>1. /\ UNCHANGED snapshots
        /\ nextId' = [nextId EXCEPT !["lifecycle"] = @ + 1]
        /\ \A b \in Analyses : b # a => written'[b] = written[b]
    BY <1>0, <1>4, RecordLifecycleEffect
  <2>2. written'[a].snapshots = written[a].snapshots
    <3>1. PICK row \in LifecycleRows :
            written'[a] = [ lifecycles |-> written[a].lifecycles \cup {row},
                            risks |-> written[a].risks, snapshots |-> written[a].snapshots ]
      BY ZenonT(40), <1>0, <1>4, RecordLifecycleEffect
    <3> QED BY <3>1
  <2>3. nextId'["snapshot"] = nextId["snapshot"]
    BY <1>0, <2>1 DEF Tables
  <2> QED BY <1>2, <2>1, <2>2, <2>3
<1>5. ASSUME NEW a \in Analyses, RecordRisk(a) PROVE SnapshotsHeld'
  <2>1. /\ UNCHANGED snapshots
        /\ nextId' = [nextId EXCEPT !["risk"] = @ + 1]
        /\ \A b \in Analyses : b # a => written'[b] = written[b]
    BY <1>0, <1>5, RecordRiskEffect
  <2>2. written'[a].snapshots = written[a].snapshots
    <3>1. written'[a] = [ lifecycles |-> written[a].lifecycles,
                          risks |-> written[a].risks \cup {RiskRow(a)},
                          snapshots |-> written[a].snapshots ]
      BY <1>0, <1>5, RecordRiskEffect
    <3> QED BY <3>1
  <2>3. nextId'["snapshot"] = nextId["snapshot"]
    BY <1>0, <2>1 DEF Tables
  <2> QED BY <1>2, <2>1, <2>2, <2>3
<1>6. ASSUME NEW a \in Analyses, Assess(a) PROVE SnapshotsHeld'
  BY <1>0, <1>1, <1>6, AssessEffect
<1>7. ASSUME NEW a \in Analyses, RecordSnapshot(a) PROVE SnapshotsHeld'
  <2>1. PICK s : /\ s.from = result[a].from
                 /\ s.id = nextId["snapshot"] /\ s.created = started[a]
                 /\ s.assessment = Assessment(result[a].risks)
                 /\ s.explanation = Explanation(s.assessment)
                 /\ written'[a] = [ lifecycles |-> written[a].lifecycles,
                                    risks |-> written[a].risks, snapshots |-> {s} ]
    BY ZenonT(40), <1>0, <1>7, RecordSnapshotEffect
  <2>2. /\ pc[a] = "snapshot" /\ UNCHANGED snapshots
        /\ nextId' = [nextId EXCEPT !["snapshot"] = @ + 1]
        /\ \A b \in Analyses : b # a => written'[b] = written[b]
    BY <1>0, <1>7, RecordSnapshotEffect
  <2>3. Matches(result[a].risks, s.from)
    BY <2>1, <2>2 DEF SnapshotsInv, AssessedListed
  <2>4. s.from \subseteq Visible(a) /\ FromLatest(BomOf[a], s.from, written[a].risks)
    BY <2>1, <2>2 DEF HistoryInv, FreshInv, AssessedFresh
  <2>5. Visible(a) \subseteq AllRisks
    BY DEF Visible, AllRisks
  <2>6. s.from \subseteq RiskRows /\ \A row \in s.from : Justified(row)
    <3>1. AllRisks \subseteq RiskRows /\ \A row \in AllRisks : Justified(row)
      BY DEF HistoryInv, RowsHeld, RiskTypeOK, AllJustified, AllRisks
    <3> QED BY <2>4, <2>5, <3>1
  <2>7. /\ Range(Lines[BomOf[a]]) # {} /\ \A x \in Range(Lines[BomOf[a]]) : x # 0
    <3>1. BomOf[a] \in Boms
      BY LineFacts DEF Sessions
    <3>2. Lines[BomOf[a]] \in Seq(Nat \ {0}) /\ Lines[BomOf[a]] # <<>>
      BY <3>1, HistoryAssumption
    <3>3. 1 \in DOMAIN Lines[BomOf[a]]
      BY <3>2
    <3>4. \A i \in DOMAIN Lines[BomOf[a]] : Lines[BomOf[a]][i] # 0
      BY <3>2
    <3> QED BY <3>3, <3>4 DEF Range
  <2>8. /\ s.from # {} /\ \A row \in s.from : row.component # 0
        /\ \A x, y \in s.from : x.component = y.component => x = y
    <3>1. {row.component : row \in s.from} = Range(Lines[BomOf[a]])
      BY <2>4 DEF FromLatest
    <3>2. \A row \in s.from : row.component \in Range(Lines[BomOf[a]])
      BY <3>1
    <3> QED BY <2>4, <2>7, <3>1, <3>2 DEF FromLatest
  <2>9. Named(s)
    BY <2>1, <2>3, <2>6, <2>8, NamedOf
  <2>10. Rated(s)
    BY <2>1, <2>3, <2>6, <2>8, RatedOf
  <2>11. Timed(s)
    BY <1>0, <2>1 DEF Timed, SnapshotsInv, Dated, Sessions
  <2>12. nextId'["snapshot"] = nextId["snapshot"] + 1
    BY <1>0, <2>2 DEF Tables
  <2>13. AllSnapshots' \subseteq AllSnapshots \cup {s}
    <3>1. written'[a].snapshots = {s}
      BY <2>1
    <3> QED BY <2>2, <3>1 DEF AllSnapshots
  <2>14. \A x \in AllSnapshots : Named(x) /\ Rated(x) /\ Timed(x) /\ x.id < nextId["snapshot"]
    BY <1>0 DEF SnapshotsHeld
  <2>15. \A x \in AllSnapshots' : Named(x) /\ Rated(x) /\ Timed(x) /\ x.id < nextId'["snapshot"]
    <3>1. \A x : Timed(x) => x.id \in Nat
      BY DEF Timed
    <3> QED BY <1>0, <2>1, <2>9, <2>10, <2>11, <2>12, <2>13, <2>14, <3>1
  <2>16. \A x, y \in AllSnapshots' : x.id = y.id => x = y
    <3>1. \A x \in AllSnapshots : x.id # s.id
      BY <1>0, <2>1, <2>14
    <3>2. \A x, y \in AllSnapshots : x.id = y.id => x = y
      BY <1>0 DEF SnapshotsHeld
    <3> QED BY <2>13, <3>1, <3>2
  <2> QED BY <1>0, <2>2, <2>15, <2>16
          DEF SnapshotsHeld, Named, Rated, Timed, RoundedMean, Severity
<1>8. ASSUME NEW a \in Analyses, Commit(a) PROVE SnapshotsHeld'
  <2>1. /\ pc[a] = "commit" /\ snapshots' = snapshots \cup written[a].snapshots
        /\ Release(a, "done")
    BY <1>8 DEF Commit
  <2>2. IsFiniteSet(snapshots')
    <3>1. PICK s \in written[a].snapshots : written[a].snapshots = {s}
      BY <2>1 DEF HistoryInv, LinesInv, LinesRecorded, LinesOf
    <3> QED BY <1>0, <2>1, <3>1, FS_AddElement
  <2>3. /\ written'[a].snapshots = {} /\ UNCHANGED nextId
        /\ \A b \in Analyses : b # a => written'[b] = written[b]
    BY <1>0, <2>1, ReleaseEffect DEF Nothing
  <2>4. AllSnapshots' \subseteq AllSnapshots
    BY <2>1, <2>3 DEF AllSnapshots
  <2> QED BY <1>0, <2>2, <2>3, <2>4, SnapshotsFewer
<1>9. ASSUME NEW a \in Analyses, RollBack(a) PROVE SnapshotsHeld'
  <2>1. UNCHANGED snapshots /\ Release(a, "failed")
    BY <1>9 DEF RollBack
  <2>2. /\ written'[a].snapshots = {} /\ UNCHANGED nextId
        /\ \A b \in Analyses : b # a => written'[b] = written[b]
    BY <1>0, <2>1, ReleaseEffect DEF Nothing
  <2>3. AllSnapshots' \subseteq AllSnapshots
    BY <2>1, <2>2 DEF AllSnapshots
  <2> QED BY <1>0, <2>1, <2>2, <2>3, SnapshotsFewer
<1>10. ASSUME NEW r \in Reports, ReportNext(r) PROVE SnapshotsHeld'
  <2>1. UNCHANGED <<snapshots, written, nextId>>
    BY <1>10 DEF ReportNext, ReadSnapshot, ReadRisk, ReadLifecycle, Build, NextRead
  <2> QED BY <1>1, <2>1
<1>11. CASE UNCHANGED historyVars
  BY <1>1, <1>11 DEF historyVars
<1> QED BY <1>3, <1>4, <1>5, <1>6, <1>7, <1>8, <1>9, <1>10, <1>11
        DEF HistoryNext, AnalysisNext

-----------------------------------------------------------------------------
(* The trend.                                                              *)

(* A mean below a threshold is not rounded above it, nor one that reaches  *)
(* it below.                                                               *)
LEMMA MeanBelow ==
  ASSUME NEW t \in Int, NEW c \in Nat \ {0}
  PROVE  /\ t < 20 * c => RoundedMean(t, c) <= 2000
         /\ t < 50 * c => RoundedMean(t, c) <= 5000
         /\ t < 75 * c => RoundedMean(t, c) <= 7500
<1>1. t < 20 * c => (200 * t + c) \div (2 * c) <= 2000
  OBVIOUS
<1>2. t < 50 * c => (200 * t + c) \div (2 * c) <= 5000
  OBVIOUS
<1>3. t < 75 * c => (200 * t + c) \div (2 * c) <= 7500
  OBVIOUS
<1> QED BY <1>1, <1>2, <1>3 DEF RoundedMean

(* The other side of each threshold.                                       *)
LEMMA MeanAbove ==
  ASSUME NEW t \in Int, NEW c \in Nat \ {0}
  PROVE  /\ RoundedMean(t, c) \in Int
         /\ t >= 20 * c => RoundedMean(t, c) >= 2000
         /\ t >= 50 * c => RoundedMean(t, c) >= 5000
         /\ t >= 75 * c => RoundedMean(t, c) >= 7500
<1>0. (200 * t + c) \div (2 * c) \in Int
  OBVIOUS
<1>1. t >= 20 * c => (200 * t + c) \div (2 * c) >= 2000
  OBVIOUS
<1>2. t >= 50 * c => (200 * t + c) \div (2 * c) >= 5000
  OBVIOUS
<1>3. t >= 75 * c => (200 * t + c) \div (2 * c) >= 7500
  OBVIOUS
<1> QED BY <1>0, <1>1, <1>2, <1>3 DEF RoundedMean

(* Of two rated snapshots the more severe has no smaller mean.             *)
LEMMA SevereIsHigher ==
  ASSUME NEW x, NEW y, Rated(x), Rated(y),
         Rank(x.assessment.severity) > Rank(y.assessment.severity)
  PROVE  /\ x.assessment.overall \in Int /\ y.assessment.overall \in Int
         /\ x.assessment.overall >= y.assessment.overall
<1>1. PICK t \in Int, c \in Nat \ {0} : /\ x.assessment.overall = RoundedMean(t, c)
                                        /\ x.assessment.severity = Severity(t, c)
  BY DEF Rated
<1>2. PICK u \in Int, d \in Nat \ {0} : /\ y.assessment.overall = RoundedMean(u, d)
                                        /\ y.assessment.severity = Severity(u, d)
  BY DEF Rated
<1> DEFINE X == RoundedMean(t, c)
           Y == RoundedMean(u, d)
<1>3. /\ X \in Int
      /\ t >= 20 * c => X >= 2000
      /\ t >= 50 * c => X >= 5000
      /\ t >= 75 * c => X >= 7500
  BY MeanAbove
<1>4. /\ Y \in Int
      /\ u < 20 * d => Y <= 2000
      /\ u < 50 * d => Y <= 5000
      /\ u < 75 * d => Y <= 7500
  BY MeanAbove, MeanBelow
<1> DEFINE level(v, w) == IF v < 20 * w THEN 1 ELSE IF v < 50 * w THEN 2
                          ELSE IF v < 75 * w THEN 3 ELSE 4
<1>5. Rank(Severity(t, c)) = level(t, c) /\ Rank(Severity(u, d)) = level(u, d)
  BY DEF Rank, Severity
<1>6. level(t, c) > level(u, d)
  BY <1>1, <1>2, <1>5
<1> HIDE DEF X, Y
<1>7. \/ t >= 20 * c /\ u < 20 * d
      \/ t >= 50 * c /\ u < 50 * d
      \/ t >= 75 * c /\ u < 75 * d
  BY <1>6
<1>8. X >= Y
  BY <1>3, <1>4, <1>7
<1> QED BY <1>1, <1>2, <1>3, <1>4, <1>8 DEF X, Y

(* The severities of rated snapshots are ranked.                           *)
LEMMA RatedRank == ASSUME NEW x, Rated(x)
                   PROVE  Rank(x.assessment.severity) \in 1..4 /\ x.assessment.overall \in Int
<1>1. PICK t \in Int, c \in Nat \ {0} : /\ x.assessment.overall = RoundedMean(t, c)
                                        /\ x.assessment.severity = Severity(t, c)
  BY DEF Rated
<1>2. RoundedMean(t, c) \in Int
  BY MeanAbove
<1>3. Rank(Severity(t, c)) \in 1..4
  BY DEF Rank, Severity
<1> QED BY <1>1, <1>2, <1>3

(* The last of a finite set in a strict order is the only one that every   *)
(* other comes before.                                                     *)
LEMMA LastInOrder ==
  ASSUME NEW S, IsFiniteSet(S), NEW before, StrictOrder(S, before), S # {}
  PROVE  LET list == InOrder(S, before)
         IN /\ Len(list) \in Nat \ {0} /\ Len(list) = Cardinality(S)
            /\ \A k \in 1..Len(list) : list[k] \in S
            /\ \A j, k \in 1..Len(list) : list[j] = list[k] => j = k
            /\ {list[Len(list)]} = {x \in S : \A y \in S : y # x => <<y, x>> \in before}
<1> DEFINE list == InOrder(S, before)
           N == Cardinality(S)
<1>1. /\ N \in Nat
      /\ DOMAIN list = 1..N /\ Len(list) = N
      /\ list \in [1..N -> S]
      /\ \A x \in S : \E n \in DOMAIN list : list[n] = x
      /\ \A m, n \in DOMAIN list : list[m] = list[n] => m = n
      /\ \A m, n \in DOMAIN list : m < n <=> <<list[m], list[n]>> \in before
  BY InOrderLists
<1>2. N # 0
  BY FS_EmptySet
<1> HIDE DEF list, N
<1>3. list[N] \in S
  BY <1>1, <1>2
<1>4. ASSUME NEW y \in S, y # list[N] PROVE <<y, list[N]>> \in before
  <2>1. PICK k \in 1..N : list[k] = y
    BY <1>1
  <2>2. k < N
    BY <1>1, <1>4, <2>1
  <2> QED BY <1>1, <1>2, <2>1, <2>2
<1>5. ASSUME NEW x \in S, \A y \in S : y # x => <<y, x>> \in before
      PROVE  x = list[N]
  <2> SUFFICES ASSUME x # list[N] PROVE FALSE
    OBVIOUS
  <2>1. <<list[N], x>> \in before /\ <<x, list[N]>> \in before
    BY <1>3, <1>4, <1>5
  <2> QED BY <1>3, <2>1 DEF StrictOrder
<1>6. {list[N]} = {x \in S : \A y \in S : y # x => <<y, x>> \in before}
  BY <1>3, <1>4, <1>5
<1>7. /\ Len(list) \in Nat \ {0} /\ Len(list) = Cardinality(S)
      /\ \A k \in 1..Len(list) : list[k] \in S
      /\ \A j, k \in 1..Len(list) : list[j] = list[k] => j = k
      /\ {list[Len(list)]} = {x \in S : \A y \in S : y # x => <<y, x>> \in before}
  BY <1>1, <1>2, <1>6 DEF N
<1> QED BY <1>7 DEF list

(* The history's order.                                                    *)
ByIds == {p \in snapshots \X snapshots : p[1].id < p[2].id}

(* Time and id order the snapshots of a BOM, and so does the id alone.     *)
LEMMA SnapshotsOrdered ==
  ASSUME SnapshotsHeld, NEW S \in SUBSET snapshots
  PROVE  /\ IsFiniteSet(S) /\ StrictOrder(S, Older) /\ StrictOrder(S, ByIds)
         /\ \A x, y \in S : <<x, y>> \in Older <=>
              x.created < y.created \/ (x.created = y.created /\ x.id < y.id)
<1>1. IsFiniteSet(S)
  BY FS_Subset DEF SnapshotsHeld
<1>2. \A x \in S : x.id \in Nat /\ x.created \in Nat
  BY DEF SnapshotsHeld, AllSnapshots, Timed
<1>3. \A x, y \in S : x.id = y.id => x = y
  BY DEF SnapshotsHeld, AllSnapshots
<1>4. \A x, y \in S : <<x, y>> \in Older <=>
        x.created < y.created \/ (x.created = y.created /\ x.id < y.id)
  BY DEF Older
<1>5. \A x, y \in S : <<x, y>> \in ByIds <=> x.id < y.id
  BY DEF ByIds
<1>6. StrictOrder(S, Older)
  <2>1. \A x \in S : <<x, x>> \notin Older
    BY <1>2, <1>4
  <2>2. ASSUME NEW x \in S, NEW y \in S, NEW z \in S, <<x, y>> \in Older, <<y, z>> \in Older
        PROVE  <<x, z>> \in Older
    <3>1. /\ x.created < y.created \/ (x.created = y.created /\ x.id < y.id)
          /\ y.created < z.created \/ (y.created = z.created /\ y.id < z.id)
      BY <1>4, <2>2
    <3>2. /\ x.id \in Nat /\ y.id \in Nat /\ z.id \in Nat
          /\ x.created \in Nat /\ y.created \in Nat /\ z.created \in Nat
      BY <1>2
    <3>3. x.created < z.created \/ (x.created = z.created /\ x.id < z.id)
      BY <3>1, <3>2
    <3> QED BY <1>4, <3>3
  <2>3. ASSUME NEW x \in S, NEW y \in S, x # y PROVE <<x, y>> \in Older \/ <<y, x>> \in Older
    <3>1. x.id # y.id
      BY <1>3, <2>3
    <3> QED BY <1>2, <1>4, <3>1
  <2> QED BY <2>1, <2>2, <2>3 DEF StrictOrder
<1>7. StrictOrder(S, ByIds)
  <2>1. \A x \in S : <<x, x>> \notin ByIds
    BY <1>2, <1>5
  <2>2. ASSUME NEW x \in S, NEW y \in S, NEW z \in S, <<x, y>> \in ByIds, <<y, z>> \in ByIds
        PROVE  <<x, z>> \in ByIds
    <3>1. x.id \in Nat /\ y.id \in Nat /\ z.id \in Nat /\ x.id < y.id /\ y.id < z.id
      BY <1>2, <1>5, <2>2
    <3>2. x.id < z.id
      BY <3>1
    <3> QED BY <1>5, <3>2
  <2>3. ASSUME NEW x \in S, NEW y \in S, x # y PROVE <<x, y>> \in ByIds \/ <<y, x>> \in ByIds
    <3>1. x.id # y.id /\ x.id \in Nat /\ y.id \in Nat
      BY <1>2, <1>3, <2>3
    <3>2. x.id < y.id \/ y.id < x.id
      BY <3>1
    <3> QED BY <1>5, <3>2
  <2> QED BY <2>1, <2>2, <2>3 DEF StrictOrder
<1> QED BY <1>1, <1>4, <1>6, <1>7

(* What the trend of a BOM consists of.                                    *)
LEMMA TrendParts ==
  ASSUME SnapshotsHeld, NEW bom \in Boms, SnapshotsOf(bom) # {}
  PROVE  LET ordered == ByTime(bom)
             count == Len(ordered)
         IN /\ count \in Nat \ {0} /\ count = Cardinality(SnapshotsOf(bom))
            /\ \A k \in 1..count : ordered[k] \in SnapshotsOf(bom)
            /\ \A j, k \in 1..count : ordered[j] = ordered[k] => j = k
            /\ Trend(bom).current = {ordered[count]}
            /\ Trend(bom).current = LatestSnapshot(bom)
            /\ Trend(bom).previous = IF count = 1 THEN {} ELSE {ordered[count - 1]}
            /\ count # 1 => Trend(bom).trend =
                 TrendOf(ordered[count].assessment.overall - ordered[count - 1].assessment.overall)
<1> DEFINE S == SnapshotsOf(bom)
           ordered == ByTime(bom)
           count == Len(ordered)
<1>1. /\ IsFiniteSet(S) /\ StrictOrder(S, Older)
      /\ \A x, y \in S : <<x, y>> \in Older <=>
           x.created < y.created \/ (x.created = y.created /\ x.id < y.id)
  BY SnapshotsOrdered DEF SnapshotsOf
<1>2. /\ count \in Nat \ {0} /\ count = Cardinality(S)
      /\ \A k \in 1..count : ordered[k] \in S
      /\ \A j, k \in 1..count : ordered[j] = ordered[k] => j = k
      /\ {ordered[count]} = {x \in S : \A y \in S : y # x => <<y, x>> \in Older}
  <2> HIDE DEF S
  <2>1. S # {}
    BY DEF S
  <2> QED BY <1>1, <2>1, LastInOrder DEF ByTime, S
<1>3. \A x, y \in S : x.id = y.id => x = y
  BY DEF SnapshotsHeld, AllSnapshots, SnapshotsOf
<1>4. \A x \in S : x.id \in Nat /\ x.created \in Nat
  BY DEF SnapshotsHeld, AllSnapshots, SnapshotsOf, Timed
<1>5. \A x, y \in S : (y # x => <<y, x>> \in Older) <=>
        y.created < x.created \/ (y.created = x.created /\ y.id <= x.id)
  <2> SUFFICES ASSUME NEW x \in S, NEW y \in S
               PROVE  (y # x => <<y, x>> \in Older) <=>
                        y.created < x.created \/ (y.created = x.created /\ y.id <= x.id)
    OBVIOUS
  <2>1. <<y, x>> \in Older <=> y.created < x.created \/ (y.created = x.created /\ y.id < x.id)
    BY <1>1
  <2>2. x.id = y.id => x = y
    BY <1>3
  <2>3. x.id \in Nat /\ y.id \in Nat /\ x.created \in Nat /\ y.created \in Nat
    BY <1>4
  <2> QED BY <2>1, <2>2, <2>3
<1>6. LatestSnapshot(bom) = {x \in S : \A y \in S : y # x => <<y, x>> \in Older}
  <2>1. LatestSnapshot(bom) = {x \in S : \A y \in S :
          y.created < x.created \/ (y.created = x.created /\ y.id <= x.id)}
    BY DEF LatestSnapshot
  <2> HIDE DEF S
  <2> QED BY <1>5, <2>1
<1>7. /\ Trend(bom).current = IF 1 > count THEN {} ELSE {ordered[count - 1 + 1]}
      /\ Trend(bom).previous = IF 2 > count THEN {} ELSE {ordered[count - 2 + 1]}
      /\ Trend(bom).trend = IF count = 0 THEN "UNKNOWN" ELSE IF count = 1 THEN "STABLE"
           ELSE TrendOf(ordered[count - 1 + 1].assessment.overall
                          - ordered[count - 2 + 1].assessment.overall)
  BY DEF Trend
<1> HIDE DEF S, ordered
<1>8. count - 1 + 1 = count /\ count - 2 + 1 = count - 1 /\ ~(1 > count) /\ (2 > count <=> count = 1)
  BY <1>2
<1>9. /\ Trend(bom).current = {ordered[count]}
      /\ Trend(bom).previous = IF count = 1 THEN {} ELSE {ordered[count - 1]}
      /\ count # 1 => Trend(bom).trend =
           TrendOf(ordered[count].assessment.overall - ordered[count - 1].assessment.overall)
  BY <1>2, <1>7, <1>8
<1>10. Trend(bom).current = LatestSnapshot(bom)
  BY <1>2, <1>6, <1>9
<1> QED BY <1>2, <1>9, <1>10 DEF S, ordered

(* The history lists exactly the snapshots of the BOM.                     *)
LEMMA HistoryParts ==
  ASSUME SnapshotsHeld, NEW bom \in Boms
  PROVE  LET history == InOrder(SnapshotsOf(bom), ByIds)
         IN /\ Len(history) = Cardinality(SnapshotsOf(bom)) /\ Len(history) \in Nat
            /\ Range(history) = SnapshotsOf(bom)
<1> DEFINE S == SnapshotsOf(bom)
           history == InOrder(S, ByIds)
           N == Cardinality(S)
<1>1. IsFiniteSet(S) /\ StrictOrder(S, ByIds)
  BY SnapshotsOrdered DEF SnapshotsOf
<1> HIDE DEF S
<1>2. /\ N \in Nat /\ DOMAIN history = 1..N /\ Len(history) = N
      /\ history \in [1..N -> S]
      /\ \A x \in S : \E n \in DOMAIN history : history[n] = x
  BY <1>1, InOrderLists
<1> HIDE DEF N, history
<1>3. Range(history) = S
  BY <1>2 DEF Range
<1> QED BY <1>2, <1>3 DEF N, history, S

(* The trend and the report agree.                                         *)
LEMMA TrendMatches == SnapshotsHeld => TrendMatchesReport
<1> SUFFICES ASSUME SnapshotsHeld, NEW bom \in Boms
             PROVE
               LET answer == RiskHistoryAnswer(bom)
                   trend == answer.trend
               IN /\ trend.current = LatestSnapshot(bom)
                  /\ trend.current \cup trend.previous \subseteq Range(answer.history)
                  /\ Len(answer.history) >= 2 => Cardinality(trend.current \cup trend.previous) = 2
                  /\ \A x \in trend.previous, y \in trend.current :
                       LET before == Rank(x.assessment.severity)
                           after == Rank(y.assessment.severity)
                       IN /\ trend.trend = "WORSENING" => before <= after
                          /\ trend.trend = "IMPROVING" => before >= after
                          /\ before < after => trend.trend # "IMPROVING"
  BY DEF TrendMatchesReport
<1> DEFINE S == SnapshotsOf(bom)
           history == InOrder(S, ByIds)
           trend == Trend(bom)
           ordered == ByTime(bom)
           count == Len(ordered)
<1>1. RiskHistoryAnswer(bom).trend = trend /\ RiskHistoryAnswer(bom).history = history
  BY DEF RiskHistoryAnswer, ByIds
<1>2. Len(history) = Cardinality(S) /\ Len(history) \in Nat /\ Range(history) = S
  BY HistoryParts
<1>3. trend.current = LatestSnapshot(bom) /\ trend.current \cup trend.previous \subseteq S
      /\ (Len(history) >= 2 => Cardinality(trend.current \cup trend.previous) = 2)
      /\ \A x \in trend.previous, y \in trend.current :
           /\ trend.trend = TrendOf(y.assessment.overall - x.assessment.overall)
           /\ Rated(x) /\ Rated(y)
  <2>1. CASE S = {}
    <3>1. count = 0
      <4>1. IsFiniteSet(S) /\ StrictOrder(S, Older)
        BY <2>1, FS_EmptySet DEF StrictOrder
      <4>2. Len(InOrder(S, Older)) = Cardinality(S)
        BY <4>1, InOrderLists
      <4> QED BY <2>1, <4>2, FS_EmptySet DEF ByTime
    <3>2. trend.current = {} /\ trend.previous = {}
      <4>1. /\ trend.current = IF 1 > count THEN {} ELSE {ordered[count - 1 + 1]}
            /\ trend.previous = IF 2 > count THEN {} ELSE {ordered[count - 2 + 1]}
        BY DEF Trend
      <4> HIDE DEF trend, ordered, count
      <4> QED BY <3>1, <4>1
    <3>3. LatestSnapshot(bom) = {}
      BY <2>1 DEF LatestSnapshot
    <3>4. ~(Len(history) >= 2)
      BY <1>2, <2>1, FS_EmptySet
    <3> HIDE DEF trend, history
    <3> QED BY <3>2, <3>3, <3>4
  <2>2. CASE S # {}
    <3>1. /\ count \in Nat \ {0} /\ count = Cardinality(S)
          /\ \A k \in 1..count : ordered[k] \in S
          /\ \A j, k \in 1..count : ordered[j] = ordered[k] => j = k
          /\ trend.current = {ordered[count]}
          /\ trend.current = LatestSnapshot(bom)
          /\ trend.previous = IF count = 1 THEN {} ELSE {ordered[count - 1]}
          /\ count # 1 => trend.trend =
               TrendOf(ordered[count].assessment.overall - ordered[count - 1].assessment.overall)
      BY <2>2, TrendParts
    <3>2. \A x \in S : Rated(x)
      BY DEF SnapshotsHeld, AllSnapshots, SnapshotsOf
    <3> HIDE DEF trend, ordered, S, history, count
    <3>3. CASE count = 1
      BY <1>2, <3>1, <3>3
    <3>4. CASE count # 1
      <4>1. count \in 1..count /\ count - 1 \in 1..count /\ count # count - 1
        BY <3>1, <3>4
      <4>2. ordered[count] \in S /\ ordered[count - 1] \in S /\ ordered[count] # ordered[count - 1]
        BY <3>1, <4>1
      <4>3. trend.previous = {ordered[count - 1]}
        BY <3>1, <3>4
      <4>4. Cardinality(trend.current \cup trend.previous) = 2
        <5>1. IsFiniteSet({ordered[count]}) /\ Cardinality({ordered[count]}) = 1
          BY FS_Singleton
        <5>2. Cardinality({ordered[count]} \cup {ordered[count - 1]}) = 1 + 1
          BY <4>2, <5>1, FS_AddElement
        <5>3. trend.current \cup trend.previous = {ordered[count]} \cup {ordered[count - 1]}
          BY <3>1, <4>3
        <5>4. 1 + 1 = 2
          OBVIOUS
        <5> QED BY <5>2, <5>3, <5>4
      <4> QED BY <3>1, <3>2, <3>4, <4>2, <4>3, <4>4
    <3> QED BY <3>3, <3>4
  <2> QED BY <2>1, <2>2
<1> HIDE DEF trend, history, S
<1>4. ASSUME NEW x \in trend.previous, NEW y \in trend.current
      PROVE  /\ trend.trend = "WORSENING" => Rank(x.assessment.severity) <= Rank(y.assessment.severity)
             /\ trend.trend = "IMPROVING" => Rank(x.assessment.severity) >= Rank(y.assessment.severity)
             /\ Rank(x.assessment.severity) < Rank(y.assessment.severity) => trend.trend # "IMPROVING"
  <2> DEFINE before == Rank(x.assessment.severity)
             after == Rank(y.assessment.severity)
             from == x.assessment.overall
             to == y.assessment.overall
  <2>1. before \in 1..4 /\ after \in 1..4 /\ from \in Int /\ to \in Int
    BY <1>3, RatedRank
  <2>2. before > after => from >= to
    BY <1>3, SevereIsHigher
  <2>3. after > before => to >= from
    BY <1>3, SevereIsHigher
  <2>4. trend.trend = TrendOf(to - from)
    BY <1>3
  <2> HIDE DEF before, after, from, to
  <2>5. trend.trend = "WORSENING" => to > from
    BY <2>1, <2>4 DEF TrendOf
  <2>6. trend.trend = "IMPROVING" => to < from
    BY <2>1, <2>4 DEF TrendOf
  <2>7. /\ trend.trend = "WORSENING" => before <= after
        /\ trend.trend = "IMPROVING" => before >= after
        /\ before < after => trend.trend # "IMPROVING"
    BY <2>1, <2>2, <2>3, <2>5, <2>6
  <2> QED BY <2>7 DEF before, after
<1>5. /\ trend.current = LatestSnapshot(bom)
      /\ trend.current \cup trend.previous \subseteq Range(history)
      /\ Len(history) >= 2 => Cardinality(trend.current \cup trend.previous) = 2
  BY <1>2, <1>3
<1> QED BY <1>1, <1>4, <1>5

(* Every snapshot names what it should.                                    *)
LEMMA AllNamed == SnapshotsHeld => RisksNamed
BY DEF SnapshotsHeld, AllSnapshots, Named, RisksNamed

-----------------------------------------------------------------------------
(* The theorems.                                                           *)

(* The invariant above holds in every reachable state.                     *)
THEOREM HistoryInductive == HistorySpec => []HistoryInv
<1>1. HistoryInit => HistoryInv
  BY ShapeInit, RowsInit, LinesInit, FreshInit, ReportsInit DEF HistoryInv
<1>2. HistoryInv /\ [HistoryNext]_historyVars => HistoryInv'
  BY ShapeStep, RowsStep, LinesStep, FreshStep, ReportsStep DEF HistoryInv
<1> QED BY <1>1, <1>2, PTL DEF HistorySpec

(* The rows of the tables have their types, and the ids taken from the     *)
(* sequences tell apart the rows of analyses that run side by side.        *)
THEOREM RecordsIdentified == HistorySpec => []RiskTypeOK
<1>1. HistoryInv => RiskTypeOK
  BY DEF HistoryInv, RowsHeld
<1> QED BY <1>1, HistoryInductive, PTL

(* Wherever an analysis fails, it has left nothing behind; if it ends well *)
(* it has left a record of each kind for every line, and one snapshot.     *)
THEOREM AnalysisWhole == HistorySpec => []AnalysisAtomic
<1>1. HistoryInv => AnalysisAtomic
  BY DEF HistoryInv, LinesInv
<1> QED BY <1>1, HistoryInductive, PTL

(* A snapshot is computed from one committed record of each component, its *)
(* own analysis's or a later one, and what GET .../risk computes afresh is *)
(* never behind it.                                                        *)
THEOREM SnapshotNewest == HistorySpec => []SnapshotFresh
<1>1. HistoryInv => SnapshotFresh
  BY FreshSnapshots DEF HistoryInv
<1> QED BY <1>1, HistoryInductive, PTL

(* A report that was read beside any number of analyses shows nothing of a *)
(* component that is older than the snapshot in its headline.              *)
THEOREM ReportsComplete == HistorySpec => []ReportCovers
<1>1. HistoryInv => ReportCovers
  BY ReportsCover DEF HistoryInv
<1> QED BY <1>1, HistoryInductive, PTL

(* Whatever the distributors answer, a component is elevated for the       *)
(* reasons the weights and thresholds were chosen for, and for no other.   *)
THEOREM ElevationsExplained == HistorySpec => []ElevationJustified
<1>1. HistoryInv => ElevationJustified
  BY DEF HistoryInv, RowsHeld, AllJustified, AllRisks, Justified, ElevationJustified
<1> QED BY <1>1, HistoryInductive, PTL

(* What the snapshots say and how they are ordered, on top of it.          *)
THEOREM SnapshotsInductive == HistorySpec => []SnapshotsInv
<1>1. HistoryInit => SnapshotsInv
  BY SnapshotsInit
<1>2. HistoryInv /\ SnapshotsInv /\ [HistoryNext]_historyVars => SnapshotsInv'
  <2>1. SUFFICES ASSUME HistoryInv, SnapshotsInv, [HistoryNext]_historyVars PROVE SnapshotsInv'
    OBVIOUS
  <2>2. Dated'
    BY <2>1, DatedStep DEF SnapshotsInv
  <2>3. AssessedListed'
    BY <2>1, ListedStep DEF SnapshotsInv, HistoryInv
  <2>4. SnapshotsHeld'
    BY <2>1, SnapshotsStep
  <2> QED BY <2>2, <2>3, <2>4 DEF SnapshotsInv
<1> QED BY <1>1, <1>2, HistoryInductive, PTL DEF HistorySpec

(* A snapshot counts every component once, and names whoever is elevated,  *)
(* or as many as there is room for, none of them less at risk.             *)
THEOREM RisksAreNamed == HistorySpec => []RisksNamed
<1>1. SnapshotsInv => RisksNamed
  BY AllNamed DEF SnapshotsInv
<1> QED BY <1>1, SnapshotsInductive, PTL

(* The trend is that of the snapshot the report shows, and never says the  *)
(* opposite of what the two severities say, whatever was rounded.          *)
THEOREM TrendsAgree == HistorySpec => []TrendMatchesReport
<1>1. SnapshotsInv => TrendMatchesReport
  BY TrendMatches DEF SnapshotsInv
<1> QED BY <1>1, SnapshotsInductive, PTL

=============================================================================
