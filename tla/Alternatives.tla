---------------------------- MODULE Alternatives ----------------------------
(***************************************************************************)
(* Which components of the catalogue can replace a component: discovery in *)
(* the database, the gates of the matcher, the score of a candidate and    *)
(* the ranking.  A text of the catalogue is a record [word, form]: two     *)
(* texts are equal for the database when both agree, and for the matcher,  *)
(* which strips and lowers them, when the words do.  A text that is not    *)
(* given is Unreported.  Scores are in hundredths.                         *)
(***************************************************************************)
EXTENDS Suppliers

CONSTANTS
  Catalogue,   \* per component id: [name, category, package, maker]
  Families     \* sets of category words of one family

(* The column of the part number is unique.                                *)
ASSUME CatalogueAssumption ==
  /\ DOMAIN Catalogue \subseteq Nat /\ IsFiniteSet(DOMAIN Catalogue)
  /\ \A c, d \in DOMAIN Catalogue : Catalogue[c].name = Catalogue[d].name => c = d

(* OR over the texts the source has; a source without any finds everything. *)
Discovered(source) ==
  LET asked == {f \in {"category", "package", "maker"} : Given(Catalogue[source][f])}
  IN {c \in DOMAIN Catalogue \ {source} :
        asked = {} \/ \E f \in asked : Catalogue[c][f] = Catalogue[source][f]}

Matches(x, y) == Given(x) /\ Given(y) /\ x.word = y.word

FamilyMatch(x, y) ==
  /\ Given(x) /\ Given(y) /\ x.word # y.word
  /\ \E family \in Families : {x.word, y.word} \subseteq family

(* Whether a candidate passes the gates.                                   *)
Compatible(source, candidate) ==
  LET category == Matches(source.category, candidate.category)
      family == FamilyMatch(source.category, candidate.category)
      package == Matches(source.package, candidate.package)
      maker == Matches(source.maker, candidate.maker)
  IN /\ category \/ family
     /\ category => package
     /\ family => package \/ maker

StatusPoints(status) == CASE status = "ACTIVE" -> 1500 [] status = "NRND" -> 500 [] OTHER -> 0
StockPoints(stock) ==
  IF ~Given(stock) THEN 0 ELSE IF stock >= 1000 THEN 1000 ELSE IF stock > 0 THEN 500 ELSE 0

(* A candidate is its row and what is known of it: [status, stock].        *)
MatchScore(source, candidate, known) ==
  LET category == Matches(source.category, candidate.category)
      total == (IF category THEN 3500
                ELSE IF FamilyMatch(source.category, candidate.category) THEN 2625 ELSE 0)
               + (IF Matches(source.package, candidate.package) THEN 3000 ELSE 0)
               + (IF Matches(source.maker, candidate.maker) THEN 1000 ELSE 0)
               + StatusPoints(known.status) + StockPoints(known.stock)
  IN IF total > 10000 THEN 10000 ELSE total

(* Faulty: a candidate is discarded below 40 points.                       *)
RelevantFrom40(score) == score >= 4000

Relevant(score) == score >= 3000

RecommendedAt(score) == score >= 8000

(* The ranking of candidates [component, status, stock], in the order they *)
(* were discovered: another name, the gates, enough points; best first.    *)
RankedAlternatives(source, candidates) ==
  LET row(c) == Catalogue[c.component]
      scored == Where(
        [i \in DOMAIN candidates |->
           [ component |-> candidates[i].component, known |-> candidates[i],
             score |-> MatchScore(Catalogue[source], row(candidates[i]), candidates[i]) ]],
        LAMBDA c : /\ Catalogue[c.component].name # Catalogue[source].name
                   /\ Compatible(Catalogue[source], Catalogue[c.component])
                   /\ Relevant(c.score))
      ranked == Ranked(scored)
  IN [i \in DOMAIN ranked |->
        [ component |-> ranked[i].component, score |-> ranked[i].score, known |-> ranked[i].known,
          status |-> IF RecommendedAt(ranked[i].score) THEN "RECOMMENDED" ELSE "REVIEW" ]]

=============================================================================
