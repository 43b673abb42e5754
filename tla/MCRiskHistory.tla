--------------------------- MODULE MCRiskHistory ---------------------------
(***************************************************************************)
(* Two analyses of one BOM of two components, and a report on it.          *)
(***************************************************************************)
EXTENDS RiskHistory

CONSTANTS a1, a2

MCAnalyses == {a1, a2}
MCSymmetry == Permutations(MCAnalyses)
MCReports == {"r1"}
MCBomOf == [s \in MCAnalyses \cup MCReports |-> "bom"]
MCLines == [bom \in {"bom"} |-> <<1, 2>>]

(* NRND at a single distributor, and an obsolete part in full stock: the   *)
(* scores 50 and 60; and an active part nobody has: 32.                    *)
MCMarkets ==
  { <<[status |-> "NRND", quantity |-> 5]>>,
    <<[status |-> Unreported, quantity |-> 9], [status |-> "DISCONTINUED", quantity |-> 5]>>,
    <<[status |-> "ACTIVE", quantity |-> 0], [status |-> Unreported, quantity |-> Unreported]>> }

=============================================================================
