----------------------------- MODULE KillSwitch -----------------------------
(***************************************************************************)
(* The kill switch of risk/kill_switch.py: a latch that trips on drawdown, *)
(* on the loss of a day, or on a streak of losing trades.  Reasons, alerts *)
(* and the callback on_trigger, which no caller sets, are left out.        *)
(***************************************************************************)
EXTENDS Integers

CONSTANTS
  MaxDrawdownPct,   \* max_drawdown_pct
  DailyLossPct,     \* daily_loss_pct
  MaxLossStreak     \* consecutive_losses

ASSUME KillSwitchAssumption ==
  /\ MaxDrawdownPct \in Nat \ {0}
  /\ DailyLossPct \in Nat
  /\ MaxLossStreak \in Nat \ {0}

VARIABLES
  armed,       \* _armed
  triggered,   \* _triggered
  peak,        \* _peak: the highest capital update() was told
  lossStreak   \* _loss_streak

killSwitchVars == <<armed, triggered, peak, lossStreak>>

KillSwitchTypeOK ==
  /\ armed \in BOOLEAN
  /\ triggered \in BOOLEAN
  /\ peak \in Nat
  /\ lossStreak \in 0 .. MaxLossStreak

KillSwitchInit ==
  /\ armed = TRUE
  /\ triggered = FALSE
  /\ peak = 0
  /\ lossStreak = 0

IsAlive == ~triggered

Higher(a, b) == IF a > b THEN a ELSE b

DrawdownHit(top, capital) ==
  top > 0 /\ 100 * (top - capital) >= MaxDrawdownPct * top

DailyLossHit(dailyPnl, capital) == 100 * dailyPnl < -(DailyLossPct * capital)

Streak(lastTradePnl) == IF lastTradePnl < 0 THEN lossStreak + 1 ELSE 0

(* Mutant: the drawdown is measured before the peak is raised to capital,   *)
(* and the peak is only raised by a losing trade.                           *)
UpdateLatePeak(capital, dailyPnl, lastTradePnl) ==
  IF ~armed \/ triggered THEN UNCHANGED killSwitchVars
  ELSE /\ peak' = IF lastTradePnl < 0 THEN Higher(peak, capital) ELSE peak
       /\ lossStreak' = Streak(lastTradePnl)
       /\ triggered' = \/ DrawdownHit(peak', capital)
                       \/ DailyLossHit(dailyPnl, capital)
                       \/ lossStreak' >= MaxLossStreak
       /\ UNCHANGED armed

(* update: nothing once it has tripped.  Drawdown and daily loss return     *)
(* before the streak is counted.                                            *)
Update(capital, dailyPnl, lastTradePnl) ==
  IF ~armed \/ triggered THEN UNCHANGED killSwitchVars
  ELSE LET top    == Higher(peak, capital)
           limits == DrawdownHit(top, capital) \/ DailyLossHit(dailyPnl, capital)
       IN /\ peak' = top
          /\ lossStreak' = IF limits THEN lossStreak ELSE Streak(lastTradePnl)
          /\ triggered' = (limits \/ lossStreak' >= MaxLossStreak)
          /\ UNCHANGED armed

Disarm ==
  /\ armed' = FALSE
  /\ UNCHANGED <<triggered, peak, lossStreak>>

(* reset: the peak stays what it was. *)
Reset ==
  /\ armed' = TRUE
  /\ triggered' = FALSE
  /\ lossStreak' = 0
  /\ UNCHANGED peak
=============================================================================
