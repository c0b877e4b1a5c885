----------------------------- MODULE GoldMining -----------------------------
(***************************************************************************)
(* The progressive strategy of strategy/gold_mining/orchestrator.py: an    *)
(* account, a kill switch, and a ladder of tiers that is climbed by        *)
(* winning and descended by losing.                                        *)
(*                                                                         *)
(* An action is a call of a public method; there are no threads.  run_scan *)
(* is a sequence of process_symbol calls.  A call that returns early       *)
(* changes nothing and is a stuttering step.  The signal is data from the  *)
(* outside: an entry price.  Its side is not looked at: process_symbol     *)
(* buys on every signal.  The cooldown only makes calls return early, so   *)
(* time is left out.                                                       *)
(***************************************************************************)
EXTENDS Account, KillSwitch, Sequences, SequencesExt

CONSTANTS
  Tiers,            \* TIER_DEFINITIONS: records [capital, wins, rate]
  Recommended,      \* the tiers AdaptiveTierSelector.select returns
  RiskPct,          \* percent of equity per trade, min(kelly * 0.1, max_risk)
  FallbackPct,      \* rules["fallback_drawdown_pct"]
  FallbackLosses,   \* rules["fallback_consecutive_losses"]
  Prices,           \* entry and exit prices
  StandardFee,      \* commission of an exit when the caller names none
  Fees,             \* commissions of an exit a caller may name
  MaxTrades,        \* bound: closed trades, after which nothing is bought
  MaxHeld,          \* bound: size of a position
  MaxRestarts       \* bound: restarts from a saved state

ASSUME GoldAssumption ==
  /\ Tiers \in Seq([capital : Nat, wins : Nat, rate : 0 .. 100]) \ {<<>>}
  /\ Recommended \subseteq 1 .. Len(Tiers)
  /\ RiskPct \in Nat /\ FallbackPct \in Nat \ {0} /\ FallbackLosses \in Nat \ {0}
  /\ Prices \subseteq Nat \ {0}
  /\ StandardFee \in Nat /\ Fees \subseteq Nat
  /\ MaxTrades \in Nat /\ MaxHeld \in Nat /\ MaxRestarts \in Nat

VARIABLES
  state,      \* GoldMiningState: [tier, wins, losses, trades, won, peak]
  closed,     \* history: [pnl, equity, profit] of every closed trade
  tierSince,  \* history: trades closed when the tier last changed
  born,       \* history: trades closed when the process started
  charged,    \* history: commissions of exits
  forgotten,  \* history: cost of positions a restart forgot
  restarts    \* history: number of restarts

historyVars == <<closed, tierSince, born, charged, forgotten, restarts>>
vars == <<accountVars, killSwitchVars, state, historyVars>>

Tier == 1 .. Len(Tiers)

GoldMiningState ==
  [tier : Tier, wins : Nat, losses : Nat, trades : Nat, won : Nat, peak : Nat]

TypeOK ==
  /\ AccountTypeOK
  /\ KillSwitchTypeOK
  /\ state \in GoldMiningState
  /\ closed \in Seq([pnl : Int, equity : Int, profit : Int])
  /\ tierSince \in 0 .. Len(closed)
  /\ born \in 0 .. Len(closed)
  /\ charged \in Nat
  /\ forgotten \in Nat
  /\ restarts \in 0 .. MaxRestarts

Init ==
  /\ AccountInit
  /\ KillSwitchInit
  /\ \E t \in Tier :
       state = [tier |-> t, wins |-> 0, losses |-> 0, trades |-> 0, won |-> 0,
                peak |-> InitialCash]
  /\ closed = <<>>
  /\ tierSince = 0
  /\ born = 0
  /\ charged = 0
  /\ forgotten = 0
  /\ restarts = 0

-----------------------------------------------------------------------------
(* Tier logic.  The operators take the record the method has just updated.  *)

CanGraduate(st, profit) ==
  /\ st.tier < Len(Tiers)
  /\ LET next == Tiers[st.tier + 1]
     IN /\ profit >= next.capital
        /\ st.wins >= next.wins
        /\ 100 * st.won >= next.rate * st.trades
        /\ st.trades = 0 => next.rate = 0

(* Mutant: the first tier is not spared. *)
ShouldFallbackAnywhere(st, capital) ==
  \/ st.losses >= FallbackLosses
  \/ st.peak > 0 /\ 100 * (st.peak - capital) >= FallbackPct * st.peak

ShouldFallback(st, capital) ==
  /\ st.tier > 1
  /\ \/ st.losses >= FallbackLosses
     \/ st.peak > 0 /\ 100 * (st.peak - capital) >= FallbackPct * st.peak

(* Mutant: a change of tier leaves the streaks as they are. *)
MoveToKeepingStreaks(st, t) == [st EXCEPT !.tier = t]

(* A change of tier: _graduate, _fallback, auto_select_tier. *)
MoveTo(st, t) == [st EXCEPT !.tier = t, !.wins = 0, !.losses = 0]

(* Mutant: a trade that earned nothing is no loss and ends no streak. *)
ScoredIgnoringZero(st, pnl, capital) ==
  [st EXCEPT !.trades = @ + 1,
             !.won    = IF pnl > 0 THEN @ + 1 ELSE @,
             !.wins   = IF pnl > 0 THEN @ + 1 ELSE IF pnl = 0 THEN @ ELSE 0,
             !.losses = IF pnl > 0 THEN 0 ELSE IF pnl = 0 THEN @ ELSE @ + 1,
             !.peak   = Higher(@, capital)]

(* Counters, streaks and the best equity after a closed trade. *)
Scored(st, pnl, capital) ==
  [st EXCEPT !.trades = @ + 1,
             !.won    = IF pnl > 0 THEN @ + 1 ELSE @,
             !.wins   = IF pnl > 0 THEN @ + 1 ELSE 0,
             !.losses = IF pnl > 0 THEN 0 ELSE @ + 1,
             !.peak   = Higher(@, capital)]

Evaluated(st, profit, capital) ==
  IF CanGraduate(st, profit) THEN MoveTo(st, st.tier + 1)
  ELSE IF ShouldFallback(st, capital) THEN MoveTo(st, st.tier - 1)
  ELSE st

PositionSize(price) ==
  IF equity <= 0 THEN 0 ELSE Higher((RiskPct * equity) \div (100 * price), 1)

-----------------------------------------------------------------------------
(* process_symbol: kill switch, signal, size, limits, purchase. *)
ProcessSymbol(s, price) ==
  /\ Len(closed) < MaxTrades
  /\ held[s] + PositionSize(price) <= MaxHeld
  /\ IsAlive
  /\ PositionSize(price) > 0
  /\ OpenPosition(s, PositionSize(price), price)
  /\ UNCHANGED <<killSwitchVars, state, historyVars>>

(* What report_trade_result and manual_exit do alike. *)
SettleTrade(s, price, fee) ==
  /\ Len(closed) < MaxTrades
  /\ ClosePosition(s, price, fee)
  /\ LET pnl == realized' - realized
     IN /\ Update(cash', realized', pnl)
        /\ state' = Evaluated(Scored(state, pnl, cash'), realized', cash')
        /\ closed' = Append(closed, [pnl |-> pnl, equity |-> cash', profit |-> realized'])
  /\ tierSince' = IF state'.tier # state.tier THEN Len(closed') ELSE tierSince
  /\ charged' = charged + fee
  /\ UNCHANGED <<born, forgotten, restarts>>

ReportTradeResult(s, price) == \E fee \in Fees \cup {StandardFee} : SettleTrade(s, price, fee)

ManualExit(s, price) == SettleTrade(s, price, StandardFee)

AutoSelectTier(t) ==
  /\ t \in Recommended
  /\ t # state.tier
  /\ state' = MoveTo(state, t)
  /\ tierSince' = Len(closed)
  /\ UNCHANGED <<accountVars, killSwitchVars, closed, born, charged, forgotten, restarts>>

(* from_dict(to_dict()): cash, profit and progress come back.  Positions    *)
(* do not, and the kill switch starts anew, whatever "kill_switch_alive"    *)
(* said.                                                                    *)
Restart ==
  /\ restarts < MaxRestarts
  /\ restarts' = restarts + 1
  /\ held' = [s \in Symbols |-> 0]
  /\ cost' = [s \in Symbols |-> 0]
  /\ forgotten' = forgotten + Invested
  /\ armed' = TRUE /\ triggered' = FALSE /\ peak' = 0 /\ lossStreak' = 0
  /\ born' = Len(closed)
  /\ UNCHANGED <<cash, realized, state, closed, tierSince, charged>>

Next ==
  \/ \E s \in Symbols, p \in Prices : ProcessSymbol(s, p)
  \/ \E s \in Symbols, p \in Prices : ReportTradeResult(s, p)
  \/ \E s \in Symbols, p \in Prices : ManualExit(s, p)
  \/ \E t \in Tier : AutoSelectTier(t)
  \/ Restart

Spec == Init /\ [][Next]_vars

-----------------------------------------------------------------------------
(* The books balance but for the fees: cash, what the open positions cost   *)
(* and what a restart forgot, paid for and never sold, are no less than the *)
(* initial cash and the realized profit, and no more than these and the     *)
(* commissions of exits.  The rules would have the commissions taken from   *)
(* the cash, the lower end; the code takes none, the upper end (see         *)
(* FeesAreCollected).                                                       *)
MoneyIsConserved ==
  cash + Invested + forgotten - (InitialCash + realized) \in 0 .. charged

(* GOLD_MINING.md 6.4: half of the cost of a trade is collected at entry,   *)
(* half at exit.  A purchase takes more than the price from the cash; a     *)
(* sale brings in what the realized profit says, the fee taken off.  False  *)
(* of the code: a fee never touches the cash.                               *)
FeesAreCollected ==
  [][\A s \in Symbols :
       /\ held'[s] > held[s] => cash' < cash - (cost'[s] - cost[s])
       /\ closed' # closed /\ held'[s] < held[s] =>
            cash' - cash = realized' - realized + cost[s]]_vars

(* The kill switch by definition, over the trades closed since the process  *)
(* started: a drawdown between any two of them, a loss beyond the daily     *)
(* limit at any of them, or a full streak of losing ones.                   *)
Breached(trades) ==
  LET Trade == DOMAIN trades
  IN \/ \E i, j \in Trade :
          i <= j /\ DrawdownHit(trades[i].equity, trades[j].equity)
     \/ \E i \in Trade : DailyLossHit(trades[i].profit, trades[i].equity)
     \/ \E i \in Trade :
          /\ i >= MaxLossStreak
          /\ \A j \in i - MaxLossStreak + 1 .. i : trades[j].pnl < 0

(* The kill switch, which keeps a peak and a streak and stops looking once  *)
(* it has tripped, trips exactly when the trades of this process breach a   *)
(* limit.  A restart forgets that it had tripped.                           *)
KillSwitchIsExact == triggered <=> Breached(SubSeq(closed, born + 1, Len(closed)))

(* kill_switch.py: all orders are stopped once a limit is exceeded.  With   *)
(* the trades before the restart beyond a limit, nothing is bought after    *)
(* it.  False of the code: the switch of the new process is alive, although *)
(* the saved state says that the old one was not.                           *)
StopOutlivesRestart ==
  [][Breached(SubSeq(closed, 1, born)) => \A s \in Symbols : held'[s] <= held[s]]_vars

(* GOLD_MINING.md 6.3: the switch stands for a drawdown, a daily loss or a  *)
(* streak of losses; it does not trip on trades none of which lost.  False  *)
(* of the code: what is invested counts as a drawdown.                      *)
TripsAreLosses == triggered => \E i \in DOMAIN closed : closed[i].pnl < 0

(* The longest run of trades at the end of a history that satisfy a test.   *)
Trailing(trades, Test(_)) ==
  Max({n \in 0 .. Len(trades) :
         \A i \in Len(trades) - n + 1 .. Len(trades) : Test(trades[i].pnl)})

Won(pnl)  == pnl > 0
Lost(pnl) == pnl <= 0

(* The record the ladder is judged by agrees with the trades: totals over   *)
(* the whole history, restarts included, streaks since the tier last        *)
(* changed, the peak over every equity there was at a closing.              *)
ProgressMatchesHistory ==
  LET here == SubSeq(closed, tierSince + 1, Len(closed))
  IN /\ state.trades = Len(closed)
     /\ state.won = Cardinality({i \in DOMAIN closed : Won(closed[i].pnl)})
     /\ state.wins = Trailing(here, Won)
     /\ state.losses = Trailing(here, Lost)
     /\ state.peak = Max({InitialCash} \cup {closed[i].equity : i \in DOMAIN closed})

(* A drawdown of the last trade's equity against the best there was.        *)
DrawnDown(trades) ==
  LET last == trades[Len(trades)].equity
  IN  \/ \E i \in DOMAIN trades :
           100 * (trades[i].equity - last) >= FallbackPct * trades[i].equity
      \/ 100 * (InitialCash - last) >= FallbackPct * InitialCash

(* After a trade the ladder moves by a single rung and for a reason: up     *)
(* only if the trades since the last change of tier end in as many wins as  *)
(* the next tier asks for, the profit is enough for it and so is the share  *)
(* of trades won in the whole history; down only after as many losses or    *)
(* with a drawdown against the best equity.  (Of the way down from the      *)
(* second rung the rules ask for more: see S1FallsByDrawdown.)              *)
EarnedMove ==
  LET here == SubSeq(closed', tierSince + 1, Len(closed'))
  IN closed' # closed /\ state'.tier # state.tier =>
       \/ /\ state'.tier = state.tier + 1
          /\ Trailing(here, Won) >= Tiers[state'.tier].wins
          /\ closed'[Len(closed')].profit >= Tiers[state'.tier].capital
          /\ 100 * Cardinality({i \in DOMAIN closed' : Won(closed'[i].pnl)})
               >= Tiers[state'.tier].rate * Len(closed')
       \/ /\ state'.tier = state.tier - 1
          /\ Trailing(here, Lost) >= FallbackLosses \/ DrawnDown(closed')

(* No closed trade moves the ladder unearned: the graduation and fallback   *)
(* of report_trade_result and manual_exit.  Only auto_select_tier, which     *)
(* closes none, does otherwise.                                             *)
TierMovesAreEarned == [][EarnedMove]_vars

(* GOLD_MINING.md 2: a streak of losses moves down from M1, the third rung, *)
(* and above; the second rung is left by a drawdown only.  False of the     *)
(* code: every rung but the first falls back after a streak of losses.      *)
S1FallsByDrawdown ==
  [][closed' # closed /\ state.tier = 2 /\ state'.tier = 1 => DrawnDown(closed')]_vars
=============================================================================
