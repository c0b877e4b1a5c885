----------------------------- MODULE MCRiskGate -----------------------------
(* Portfolios and trades for TLC: none, one over the limit of a position,    *)
(* one whose stops are far away; a small loss, a ruinous one.                *)
EXTENDS RiskGate

Position(value, risk) == [s \in Symbols |-> [value |-> value, risk |-> risk]]

MCPortfolios == {Position(0, 0), Position(5, 1), Position(2, 30)}
MCSubjects == Orders \cup MCPortfolios
MCTrades == { [capital |-> 10, daily |-> -1, last |-> -1], [capital |-> 4, daily |-> -1, last |-> 1] }
MCEventTypes == Types

OrdersAlike == Permutations(Orders)
=============================================================================
