------------------------------ MODULE Account ------------------------------
(***************************************************************************)
(* The cash account of risk/account.py with the positions of               *)
(* risk/position.py, long only, as BIST spot trading uses them.            *)
(*                                                                         *)
(* A position is its quantity and its cost: cost[s] stands for             *)
(* quantity * avg_entry_price, which stays an integer.  The quantity sold  *)
(* is always the whole position, as every caller of close_position in the  *)
(* gold mining strategy has it.  Nothing in the strategy marks positions   *)
(* to market, so unrealized_pnl is 0 and equity is cash.  total_commission *)
(* is a statistic and is left out.  Percentages are integers.              *)
(***************************************************************************)
EXTENDS Integers, FiniteSets, FiniteSetsExt

CONSTANTS
  Symbols,          \* what can be traded
  InitialCash,      \* initial_cash
  MaxPositionPct,   \* max_position_value_pct
  MaxPositions      \* max_total_positions

ASSUME AccountAssumption ==
  /\ IsFiniteSet(Symbols)
  /\ InitialCash \in Nat \ {0}
  /\ MaxPositionPct \in Nat
  /\ MaxPositions \in Nat

VARIABLES
  cash,      \* Account.cash
  held,      \* quantity of each position
  cost,      \* what each open position was bought for
  realized   \* Account.realized_pnl

accountVars == <<cash, held, cost, realized>>

AccountTypeOK ==
  /\ cash \in Nat
  /\ held \in [Symbols -> Nat]
  /\ cost \in [Symbols -> Nat]
  /\ realized \in Int

AccountInit ==
  /\ cash = InitialCash
  /\ held = [s \in Symbols |-> 0]
  /\ cost = [s \in Symbols |-> 0]
  /\ realized = 0

IsOpen(s) == held[s] > 0

OpenPositions == {s \in Symbols : IsOpen(s)}

equity == cash

(* can_open_position: size against equity, number of open positions, cash.  *)
(* The size is that of the new fill alone, and the count is that of the     *)
(* positions there are, whether or not s is one of them.                    *)
CanOpenPosition(s, qty, price) ==
  /\ 100 * qty * price <= MaxPositionPct * equity
  /\ Cardinality(OpenPositions) < MaxPositions
  /\ qty * price <= cash

(* Mutant: the cash is taken before can_open_position, whatever it says. *)
OpenPositionUnchecked(s, qty, price) ==
  /\ cash' = cash - qty * price
  /\ IF CanOpenPosition(s, qty, price)
     THEN /\ held' = [held EXCEPT ![s] = @ + qty]
          /\ cost' = [cost EXCEPT ![s] = @ + qty * price]
     ELSE UNCHANGED <<held, cost>>
  /\ UNCHANGED realized

OpenPosition(s, qty, price) ==
  /\ CanOpenPosition(s, qty, price)
  /\ cash' = cash - qty * price
  /\ held' = [held EXCEPT ![s] = @ + qty]
  /\ cost' = [cost EXCEPT ![s] = @ + qty * price]
  /\ UNCHANGED realized

(* The whole position is sold.  The commission lowers the realized profit   *)
(* and leaves the cash alone.                                               *)
ClosePosition(s, price, commission) ==
  /\ IsOpen(s)
  /\ cash' = cash + held[s] * price
  /\ realized' = realized + held[s] * price - cost[s] - commission
  /\ held' = [held EXCEPT ![s] = 0]
  /\ cost' = [cost EXCEPT ![s] = 0]

Invested == MapThenSumSet(LAMBDA s : cost[s], Symbols)
=============================================================================
