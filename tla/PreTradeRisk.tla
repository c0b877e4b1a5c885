---------------------------- MODULE PreTradeRisk ----------------------------
(***************************************************************************)
(* The pre-trade risk gate: PreTradeRiskEngine                             *)
(* (risk/pre_trade_engine.py) with its kill switch, its exposure limiter   *)
(* (risk/exposure_limiter.py) and its portfolio heat                       *)
(* (risk/portfolio_heat.py).  It listens on the bus for orders and         *)
(* positions and answers every order with a risk verdict and an order      *)
(* verdict.                                                                *)
(*                                                                         *)
(* A portfolio gives the value and the risk (distance to the stop times    *)
(* size) of the position in every symbol; no position has value 0, and     *)
(* none lacks a key, at which a check would raise and publish() swallow    *)
(* the exception together with the verdict.                                *)
(* Percentages are integers.  The order itself is not looked at, neither   *)
(* its side nor its size.  No sector map is passed, so the sector limit is *)
(* a second limit on the total.                                            *)
(***************************************************************************)
EXTENDS MessageBus, KillSwitch, FiniteSets, FiniteSetsExt

CONSTANTS
  Symbols,         \* what can be traded
  Portfolios,      \* portfolios that may be reported
  Capitals,        \* capitals that may be set
  MaxPerMinute,    \* max_orders_per_minute
  Minute,          \* length of a minute in ticks of the clock
  SinglePct,       \* max_single_position_pct
  TotalPct,        \* max_total_exposure_pct
  SectorPct,       \* max_sector_pct
  HeatPct          \* max_heat

ASSUME RiskAssumption ==
  /\ Portfolios \subseteq [Symbols -> [value : Nat, risk : Nat]]
  /\ Portfolios \subseteq Subjects
  /\ Capitals \subseteq Int
  /\ MaxPerMinute \in Nat /\ Minute \in Nat \ {0}
  /\ {SinglePct, TotalPct, SectorPct, HeatPct} \subseteq Nat

VARIABLES
  now,          \* the clock
  orderTimes,   \* _order_times
  positions,    \* _positions
  capital       \* _capital

riskVars == <<orderTimes, positions, capital>>

RiskTypeOK ==
  /\ now \in Nat
  /\ orderTimes \in Seq(0 .. now)
  /\ \A i \in DOMAIN orderTimes : orderTimes[i] > Last(orderTimes) - Minute
  /\ positions \in Portfolios
  /\ capital \in Capitals

Open(portfolio) == {s \in Symbols : portfolio[s].value > 0}
TotalValue(portfolio) == MapThenSumSet(LAMBDA s : portfolio[s].value, Symbols)
TotalRisk(portfolio) == MapThenSumSet(LAMBDA s : portfolio[s].risk, Symbols)

(* Without capital every share of it counts as 0. *)
Exceeds(value, pct) == capital > 0 /\ 100 * value > pct * capital

(* ExposureLimiter.check on the positions there are. *)
ExposureAllowed ==
  /\ \A s \in Open(positions) : ~Exceeds(positions[s].value, SinglePct)
  /\ ~Exceeds(TotalValue(positions), TotalPct)
  /\ ~Exceeds(TotalValue(positions), SectorPct)

(* PortfolioHeat.calculate_heat: heat < max_heat. *)
HeatAllowed ==
  IF capital > 0 THEN 100 * TotalRisk(positions) < HeatPct * capital ELSE HeatPct > 0

(* Mutant: attempts are never forgotten. *)
RecentKeepsAll == orderTimes

(* The attempts of the last minute. *)
Recent ==
  FoldLeft(LAMBDA kept, t : IF t > now - Minute THEN Append(kept, t) ELSE kept, <<>>, orderTimes)

(* Mutant: the limit is compared before this attempt is counted. *)
RateLimitExceededTooLate == Len(Recent) > MaxPerMinute

(* _rate_limit_exceeded(), which counts this attempt whatever comes of it. *)
RateLimitExceeded == Len(Append(Recent, now)) > MaxPerMinute

(* Mutant: an armed switch is taken for one that has not tripped. *)
ApprovesWhenArmed == armed /\ ~RateLimitExceeded /\ ExposureAllowed /\ HeatAllowed

(* The checks of _on_order. *)
Approves == IsAlive /\ ~RateLimitExceeded /\ ExposureAllowed /\ HeatAllowed

(* Mutant: the order verdict goes out before the risk verdict. *)
VerdictReversed(order) ==
  IF Approves
  THEN <<[type |-> "ORDER_ACCEPTED", about |-> order], [type |-> "RISK_APPROVED", about |-> order]>>
  ELSE <<[type |-> "ORDER_REJECTED", about |-> order], [type |-> "RISK_DENIED", about |-> order]>>

(* _approve() and _deny(): what they publish, in turn. *)
Verdict(order) ==
  IF Approves
  THEN <<[type |-> "RISK_APPROVED", about |-> order], [type |-> "ORDER_ACCEPTED", about |-> order]>>
  ELSE <<[type |-> "RISK_DENIED", about |-> order], [type |-> "ORDER_REJECTED", about |-> order]>>

(* _on_order(): a tripped switch denies before the attempt is counted. *)
OnOrder(order) ==
  /\ Answers(Verdict(order))
  /\ orderTimes' = IF IsAlive THEN Append(Recent, now) ELSE orderTimes
  /\ UNCHANGED <<now, positions, capital, killSwitchVars, subscribers, queue, published>>

(* _on_position_update(): a list without positions is no update. *)
OnPositionUpdate(portfolio) ==
  /\ Answers(<<>>)
  /\ positions' = IF Open(portfolio) = {} THEN positions ELSE portfolio
  /\ UNCHANGED <<now, orderTimes, capital, killSwitchVars, subscribers, queue, published>>

GateTurn ==
  \E subject \in Subjects :
    \/ /\ Turn("gate", [type |-> "ORDER_SUBMITTED", about |-> subject])
       /\ OnOrder(subject)
    \/ /\ Turn("gate", [type |-> "POSITION_UPDATED", about |-> subject])
       /\ OnPositionUpdate(subject)

GateTypes == {"ORDER_SUBMITTED", "POSITION_UPDATED"}

(* start() and stop(); start() is called by who has not started it yet. *)
Start ==
  /\ \A t \in GateTypes : ~Subscribed(t, "gate")
  /\ Subscribe(GateTypes, "gate")

Stop == Unsubscribe(GateTypes, "gate")

(* set_positions() and set_capital(). *)
SetPositions(portfolio) ==
  /\ positions' = portfolio
  /\ UNCHANGED <<orderTimes, capital>>

SetCapital(amount) ==
  /\ capital' = amount
  /\ UNCHANGED <<orderTimes, positions>>
=============================================================================
