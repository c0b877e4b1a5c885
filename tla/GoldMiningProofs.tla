-------------------------- MODULE GoldMiningProofs --------------------------
(***************************************************************************)
(* Proofs about the gold mining strategy: its types; that the kill switch, *)
(* which remembers a peak and a streak, trips exactly when the whole       *)
(* history of the process breaches a limit; that the books balance; that   *)
(* the record the ladder is judged by is what the trades say; and that the *)
(* ladder moves only when the trades have earned it.                       *)
(***************************************************************************)
EXTENDS GoldMining, FoldLemmas, SequenceTheorems, TLAPS

(* The types of TypeOK but those of the sums the books keep (BooksInv); and  *)
(* the streak stays below its limit as long as the switch has not tripped.   *)
TypeInv ==
  /\ AccountTypeOK
  /\ KillSwitchTypeOK
  /\ state \in GoldMiningState
  /\ closed \in Seq([pnl : Int, equity : Int, profit : Int])
  /\ tierSince \in 0 .. Len(closed)
  /\ born \in 0 .. Len(closed)
  /\ ~triggered => lossStreak < MaxLossStreak

(* The higher of two numbers is one of them. *)
LEMMA HigherType ==
  ASSUME NEW a \in Int, NEW b \in Int
  PROVE  /\ Higher(a, b) \in {a, b}
         /\ Higher(a, b) >= a /\ Higher(a, b) >= b
BY DEF Higher

(* A change of tier and a scored trade keep the shape of the record. *)
LEMMA EvaluatedType ==
  ASSUME NEW st \in GoldMiningState, NEW profit, NEW capital \in Nat
  PROVE  Evaluated(st, profit, capital) \in GoldMiningState
<1>1. Len(Tiers) \in Nat
  BY GoldAssumption
<1>2. \A t \in Tier : MoveTo(st, t) \in GoldMiningState
  BY DEF MoveTo, GoldMiningState
<1>3. st.tier \in 1 .. Len(Tiers)
  BY DEF GoldMiningState, Tier
<1>4. CanGraduate(st, profit) => st.tier + 1 \in Tier
  BY <1>1, <1>3 DEF CanGraduate, Tier
<1>5. ShouldFallback(st, capital) => st.tier - 1 \in Tier
  BY <1>1, <1>3 DEF ShouldFallback, Tier
<1>6. QED
  BY <1>2, <1>4, <1>5 DEF Evaluated

(* update() keeps the types of the counters. *)
LEMMA ScoredType ==
  ASSUME NEW st \in GoldMiningState, NEW pnl \in Int, NEW capital \in Nat
  PROVE  Scored(st, pnl, capital) \in GoldMiningState
<1>1. st.peak \in Nat
  BY DEF GoldMiningState
<1>2. Higher(st.peak, capital) \in Nat
  BY <1>1, HigherType
<1> DEFINE top == Higher(st.peak, capital)
<1>3. Scored(st, pnl, capital) =
        [st EXCEPT !.trades = st.trades + 1,
                   !.won    = IF pnl > 0 THEN st.won + 1 ELSE st.won,
                   !.wins   = IF pnl > 0 THEN st.wins + 1 ELSE 0,
                   !.losses = IF pnl > 0 THEN 0 ELSE st.losses + 1,
                   !.peak   = top]
  BY DEF Scored, GoldMiningState
<1> HIDE DEF top
<1>4. /\ st.trades + 1 \in Nat
      /\ (IF pnl > 0 THEN st.won + 1 ELSE st.won) \in Nat
      /\ (IF pnl > 0 THEN st.wins + 1 ELSE 0) \in Nat
      /\ (IF pnl > 0 THEN 0 ELSE st.losses + 1) \in Nat
      /\ top \in Nat
  BY <1>2 DEF GoldMiningState, top
<1>5. QED
  BY <1>3, <1>4 DEF GoldMiningState

(* What update() makes of the kill switch. *)
LEMMA UpdateType ==
  ASSUME TypeInv, NEW capital \in Nat, NEW dailyPnl \in Int, NEW pnl \in Int,
         Update(capital, dailyPnl, pnl)
  PROVE  KillSwitchTypeOK' /\ (~triggered' => lossStreak' < MaxLossStreak)
<1>1. /\ MaxLossStreak \in Nat \ {0} /\ peak \in Nat
      /\ lossStreak \in 0 .. MaxLossStreak
      /\ ~triggered => lossStreak < MaxLossStreak
      /\ armed \in BOOLEAN /\ triggered \in BOOLEAN
  BY KillSwitchAssumption DEF TypeInv, KillSwitchTypeOK
<1>2. CASE ~armed \/ triggered
  BY <1>1, <1>2 DEF Update, KillSwitchTypeOK, killSwitchVars
<1>3. CASE armed /\ ~triggered
  <2> DEFINE top    == Higher(peak, capital)
             limits == DrawdownHit(top, capital) \/ DailyLossHit(dailyPnl, capital)
  <2>1. top \in Nat
    BY <1>1, HigherType
  <2>2. /\ peak' = top
        /\ lossStreak' = IF limits THEN lossStreak ELSE Streak(pnl)
        /\ triggered' = (limits \/ lossStreak' >= MaxLossStreak)
        /\ armed' = armed
    BY <1>3 DEF Update
  <2>0. limits \in BOOLEAN
    BY DEF DrawdownHit, DailyLossHit
  <2> HIDE DEF top, limits
  <2>3. Streak(pnl) \in 0 .. MaxLossStreak
    BY <1>1, <1>3 DEF Streak
  <2>4. lossStreak' \in 0 .. MaxLossStreak
    BY <1>1, <2>2, <2>3
  <2>5. triggered' \in BOOLEAN
    BY <2>2
  <2>6. ~triggered' => lossStreak' < MaxLossStreak
    <3>1. CASE limits
      BY <2>2, <3>1
    <3>2. CASE ~limits
      <4>1. ~triggered' => ~(lossStreak' >= MaxLossStreak)
        BY <2>2, Zenon
      <4>2. QED
        BY <1>1, <2>4, <4>1
    <3>3. QED
      BY <2>0, <3>1, <3>2
  <2>7. QED
    BY <1>1, <2>1, <2>2, <2>4, <2>5, <2>6 DEF KillSwitchTypeOK
<1>4. QED
  BY <1>1, <1>2, <1>3

(* A purchase and a sale keep the account in its types; above all the cash  *)
(* does not go below zero.                                                  *)
LEMMA OpenType ==
  ASSUME AccountTypeOK, NEW s \in Symbols, NEW qty \in Nat, NEW price \in Nat,
         OpenPosition(s, qty, price)
  PROVE  AccountTypeOK'
<1>1. qty * price \in Nat
  OBVIOUS
<1>2. /\ cash' = cash - qty * price /\ qty * price <= cash
      /\ held' = [held EXCEPT ![s] = @ + qty]
      /\ cost' = [cost EXCEPT ![s] = @ + qty * price]
      /\ realized' = realized
  BY DEF OpenPosition, CanOpenPosition
<1> DEFINE value == qty * price
<1>3. value \in Nat /\ cash' = cash - value /\ value <= cash
      /\ cost' = [cost EXCEPT ![s] = @ + value]
  BY <1>1, <1>2
<1> HIDE DEF value
<1>4. QED
  BY <1>2, <1>3 DEF AccountTypeOK

(* Closing a position keeps the types of the account. *)
LEMMA CloseType ==
  ASSUME AccountTypeOK, NEW s \in Symbols, NEW price \in Nat, NEW fee \in Nat,
         ClosePosition(s, price, fee)
  PROVE  AccountTypeOK'
<1>1. held[s] \in Nat /\ cost[s] \in Nat
  BY DEF AccountTypeOK
<1> DEFINE value == held[s] * price
<1>2. value \in Nat
  BY <1>1
<1>3. /\ cash' = cash + value
      /\ realized' = realized + value - cost[s] - fee
      /\ held' = [held EXCEPT ![s] = 0]
      /\ cost' = [cost EXCEPT ![s] = 0]
  BY DEF ClosePosition
<1> HIDE DEF value
<1>4. QED
  BY <1>1, <1>2, <1>3 DEF AccountTypeOK

(* A position has a size that is a number. *)
LEMMA SizeType ==
  ASSUME AccountTypeOK, NEW price \in Prices, PositionSize(price) > 0
  PROVE  PositionSize(price) \in Nat
<1>1. price \in Nat \ {0} /\ RiskPct \in Nat /\ cash \in Nat
  BY GoldAssumption DEF AccountTypeOK
<1> DEFINE risk == RiskPct * cash
<1>2. risk \in Nat
  BY <1>1
<1> HIDE DEF risk
<1>3. risk \div (100 * price) \in Int
  BY <1>1, <1>2
<1>4. Higher(risk \div (100 * price), 1) \in Int
  BY <1>3, HigherType
<1>5. PositionSize(price) \in Int
  BY <1>1, <1>4 DEF PositionSize, equity, risk
<1>6. QED
  BY <1>5

-----------------------------------------------------------------------------
(* What every closed trade does, whoever reports it. *)
LEMMA SettleStep ==
  ASSUME TypeInv, NEW s \in Symbols, NEW price \in Prices, NEW fee \in Nat,
         SettleTrade(s, price, fee)
  PROVE  /\ TypeInv'
         /\ cash' \in Nat /\ realized' \in Int /\ realized' - realized \in Int
         /\ Update(cash', realized', realized' - realized)
         /\ closed' = Append(closed, [pnl |-> realized' - realized, equity |-> cash',
                                      profit |-> realized'])
         /\ born' = born
<1>1. price \in Nat /\ AccountTypeOK
  BY GoldAssumption DEF TypeInv
<1>2. AccountTypeOK'
  BY <1>1, CloseType DEF SettleTrade
<1>3. cash' \in Nat /\ realized' \in Int /\ realized' - realized \in Int
  BY <1>1, <1>2 DEF AccountTypeOK
<1> DEFINE pnl   == realized' - realized
           trade == [pnl |-> pnl, equity |-> cash', profit |-> realized']
<1>4. /\ Update(cash', realized', pnl)
      /\ state' = Evaluated(Scored(state, pnl, cash'), realized', cash')
      /\ closed' = Append(closed, trade)
      /\ tierSince' = IF state'.tier # state.tier THEN Len(closed') ELSE tierSince
      /\ charged' = charged + fee
      /\ UNCHANGED <<born, forgotten, restarts>>
  BY DEF SettleTrade
<1>5. KillSwitchTypeOK' /\ (~triggered' => lossStreak' < MaxLossStreak)
  BY <1>3, <1>4, UpdateType
<1>6. state' \in GoldMiningState
  <2>1. state \in GoldMiningState
    BY DEF TypeInv
  <2>2. QED
    BY <1>3, <1>4, <2>1, ScoredType, EvaluatedType
<1>7. /\ closed' \in Seq([pnl : Int, equity : Int, profit : Int])
      /\ Len(closed') = Len(closed) + 1 /\ Len(closed) \in Nat
  <2>1. closed \in Seq([pnl : Int, equity : Int, profit : Int])
    BY DEF TypeInv
  <2>2. trade \in [pnl : Int, equity : Int, profit : Int]
    BY <1>3
  <2> HIDE DEF trade
  <2>3. QED
    BY <1>4, <2>1, <2>2
<1>8. tierSince' \in 0 .. Len(closed') /\ born' \in 0 .. Len(closed')
  BY <1>4, <1>7 DEF TypeInv
<1>9. TypeInv'
  BY <1>2, <1>5, <1>6, <1>7, <1>8 DEF TypeInv
<1>10. QED
  BY <1>3, <1>4, <1>9

(* The commissions a caller can name. *)
LEMMA ClosingStep ==
  ASSUME NEW s, NEW price, ReportTradeResult(s, price) \/ ManualExit(s, price)
  PROVE  \E fee \in Nat : SettleTrade(s, price, fee)
BY GoldAssumption DEF ReportTradeResult, ManualExit

(* The type invariant, with what the types rest on. *)
LEMMA GoldTypes == Spec => []TypeInv
<1>1. Init => TypeInv
  <2> SUFFICES ASSUME Init PROVE TypeInv
    OBVIOUS
  <2>1. AccountTypeOK
    BY AccountAssumption DEF Init, AccountInit, AccountTypeOK
  <2>2. KillSwitchTypeOK /\ lossStreak < MaxLossStreak
    <3>1. armed \in BOOLEAN /\ triggered \in BOOLEAN
      BY Zenon DEF Init, KillSwitchInit
    <3>2. peak \in Nat /\ lossStreak \in 0 .. MaxLossStreak /\ lossStreak < MaxLossStreak
      BY KillSwitchAssumption DEF Init, KillSwitchInit
    <3>3. QED
      BY <3>1, <3>2 DEF KillSwitchTypeOK
  <2>3. state \in GoldMiningState
    BY AccountAssumption DEF Init, GoldMiningState
  <2>4. closed = <<>> /\ Len(closed) = 0 /\ tierSince = 0 /\ born = 0
    BY DEF Init
  <2>5. QED
    BY <2>1, <2>2, <2>3, <2>4 DEF TypeInv
<1>2. TypeInv /\ [Next]_vars => TypeInv'
  <2> SUFFICES ASSUME TypeInv, [Next]_vars PROVE TypeInv'
    OBVIOUS
  <2>1. ASSUME NEW s \in Symbols, NEW price \in Prices, ProcessSymbol(s, price)
        PROVE  TypeInv'
    <3>1. PositionSize(price) > 0 /\ OpenPosition(s, PositionSize(price), price)
          /\ UNCHANGED <<killSwitchVars, state, historyVars>>
      BY <2>1 DEF ProcessSymbol
    <3>2. PositionSize(price) \in Nat /\ price \in Nat
      BY <3>1, SizeType, GoldAssumption DEF TypeInv
    <3>3. AccountTypeOK'
      BY <3>1, <3>2, OpenType DEF TypeInv
    <3>4. QED
      BY <3>1, <3>3 DEF TypeInv, KillSwitchTypeOK, killSwitchVars, historyVars
  <2>2. ASSUME NEW s \in Symbols, NEW price \in Prices,
               ReportTradeResult(s, price) \/ ManualExit(s, price)
        PROVE  TypeInv'
    BY <2>2, ClosingStep, SettleStep
  <2>3. ASSUME NEW t \in Tier, AutoSelectTier(t)
        PROVE  TypeInv'
    <3>1. /\ state' = [state EXCEPT !.tier = t, !.wins = 0, !.losses = 0]
          /\ tierSince' = Len(closed) /\ closed' = closed
          /\ UNCHANGED <<accountVars, killSwitchVars, born, charged, forgotten, restarts>>
      BY <2>3 DEF AutoSelectTier, MoveTo
    <3>2. state' \in GoldMiningState
      BY <3>1 DEF TypeInv, GoldMiningState
    <3>3. Len(closed) \in Nat
      BY DEF TypeInv
    <3>4. QED
      BY <3>1, <3>2, <3>3 DEF TypeInv, AccountTypeOK, KillSwitchTypeOK, accountVars,
                              killSwitchVars
  <2>4. CASE Restart
    <3>1. /\ held' = [s \in Symbols |-> 0] /\ cost' = [s \in Symbols |-> 0]
          /\ armed' = TRUE /\ triggered' = FALSE /\ peak' = 0 /\ lossStreak' = 0
          /\ born' = Len(closed)
          /\ UNCHANGED <<cash, realized, state, closed, tierSince>>
      BY <2>4 DEF Restart
    <3>2. Len(closed) \in Nat
      BY DEF TypeInv
    <3>3. AccountTypeOK'
      BY <3>1 DEF TypeInv, AccountTypeOK
    <3>4. KillSwitchTypeOK' /\ lossStreak' < MaxLossStreak
      <4>1. armed' \in BOOLEAN /\ triggered' \in BOOLEAN
        BY <3>1, Zenon
      <4>2. peak' \in Nat /\ lossStreak' \in 0 .. MaxLossStreak /\ lossStreak' < MaxLossStreak
        BY <3>1, KillSwitchAssumption
      <4>3. QED
        BY <4>1, <4>2 DEF KillSwitchTypeOK
    <3>5. QED
      BY <3>1, <3>2, <3>3, <3>4 DEF TypeInv
  <2>5. CASE UNCHANGED vars
    BY <2>5 DEF vars, TypeInv, AccountTypeOK, KillSwitchTypeOK, accountVars,
                killSwitchVars, historyVars
  <2>6. QED
    BY <2>1, <2>2, <2>3, <2>4, <2>5 DEF Next
<1>3. QED
  BY <1>1, <1>2, PTL DEF Spec

-----------------------------------------------------------------------------
(* The limits, over the places in closed of the trades of this process.     *)
Run == born + 1 .. Len(closed)

Fell(trades, i, j) == DrawdownHit(trades[i].equity, trades[j].equity)
TooMuch(trades, i) == DailyLossHit(trades[i].profit, trades[i].equity)
LostAt(trades, i)  == trades[i].pnl < 0

HasFallen    == \E i, j \in Run : i <= j /\ Fell(closed, i, j)
HasLost      == \E i \in Run : TooMuch(closed, i)
HasLostARow  == \E i \in Run : /\ i >= born + MaxLossStreak
                               /\ \A j \in i - MaxLossStreak + 1 .. i : LostAt(closed, j)

(* Whether a limit was breached since the session began, said of the places *)
(* of the closed trades.                                                    *)
LEMMA BreachedByPlaces ==
  ASSUME TypeInv
  PROVE  Breached(SubSeq(closed, born + 1, Len(closed)))
           <=> HasFallen \/ HasLost \/ HasLostARow
<1> DEFINE Trade == [pnl : Int, equity : Int, profit : Int]
           run   == SubSeq(closed, born + 1, Len(closed))
           last  == Len(closed)
           off   == born
<1>1. closed \in Seq(Trade) /\ last \in Nat /\ off \in 0 .. last /\ MaxLossStreak \in Nat \ {0}
  BY KillSwitchAssumption DEF TypeInv
<1>2. \A i \in off + 1 .. last : closed[i] \in Trade
  <2> HIDE DEF Trade
  <2>1. \A i \in 1 .. last : closed[i] \in Trade
    BY <1>1
  <2>2. QED
    BY <1>1, <2>1
<1>3. /\ run \in Seq(Trade) /\ Len(run) = last - off
      /\ \A k \in 1 .. last - off : run[k] = closed[off + k]
  <2>1. /\ run \in Seq(Trade) /\ Len(run) = IF off + 1 <= last THEN last - (off + 1) + 1 ELSE 0
        /\ \A k \in 1 .. last - (off + 1) + 1 : run[k] = closed[(off + 1) + k - 1]
    BY <1>1, <1>2, SubSeqProperties
  <2>2. QED
    BY <1>1, <2>1
<1>4. DOMAIN run = 1 .. last - off
  BY <1>3
<1>5. Run = off + 1 .. last
  BY DEF Run
<1> HIDE DEF run, Trade, last, off
<1>6. \A k \in DOMAIN run : off + k \in Run /\ run[k] = closed[off + k]
  BY <1>1, <1>3, <1>4, <1>5
<1>7. \A i \in Run : i - off \in DOMAIN run /\ run[i - off] = closed[i]
  BY <1>1, <1>3, <1>4, <1>5
<1>8. (\E i, j \in DOMAIN run : i <= j /\ DrawdownHit(run[i].equity, run[j].equity)) <=> HasFallen
  <2>1. ASSUME NEW i \in DOMAIN run, NEW j \in DOMAIN run,
               i <= j, DrawdownHit(run[i].equity, run[j].equity)
        PROVE  HasFallen
    <3>1. off + i <= off + j
      BY <1>1, <1>4, <2>1
    <3>2. Fell(closed, off + i, off + j)
      BY <1>6, <2>1 DEF Fell
    <3>3. QED
      BY <1>6, <3>1, <3>2 DEF HasFallen
  <2>2. ASSUME NEW i \in Run, NEW j \in Run, i <= j, Fell(closed, i, j)
        PROVE  \E a, b \in DOMAIN run : a <= b /\ DrawdownHit(run[a].equity, run[b].equity)
    <3>1. i - off <= j - off
      BY <1>1, <1>5, <2>2
    <3>2. DrawdownHit(run[i - off].equity, run[j - off].equity)
      BY <1>7, <2>2 DEF Fell
    <3>3. QED
      BY <1>7, <3>1, <3>2
  <2>3. QED
    BY <2>1, <2>2 DEF HasFallen
<1>9. (\E i \in DOMAIN run : DailyLossHit(run[i].profit, run[i].equity)) <=> HasLost
  <2>1. ASSUME NEW i \in DOMAIN run, DailyLossHit(run[i].profit, run[i].equity)
        PROVE  HasLost
    BY <1>6, <2>1 DEF HasLost, TooMuch
  <2>2. ASSUME NEW i \in Run, TooMuch(closed, i)
        PROVE  \E a \in DOMAIN run : DailyLossHit(run[a].profit, run[a].equity)
    BY <1>7, <2>2 DEF TooMuch
  <2>3. QED
    BY <2>1, <2>2 DEF HasLost
<1>10. (\E i \in DOMAIN run : /\ i >= MaxLossStreak
                              /\ \A j \in i - MaxLossStreak + 1 .. i : run[j].pnl < 0)
       <=> HasLostARow
  <2>1. ASSUME NEW i \in DOMAIN run, i >= MaxLossStreak,
               \A j \in i - MaxLossStreak + 1 .. i : run[j].pnl < 0
        PROVE  HasLostARow
    <3>1. off + i \in Run /\ off + i >= born + MaxLossStreak
      BY <1>1, <1>4, <1>6, <2>1 DEF off
    <3>2. ASSUME NEW j \in (off + i) - MaxLossStreak + 1 .. off + i
          PROVE  LostAt(closed, j)
      <4>1. j - off \in i - MaxLossStreak + 1 .. i /\ j \in Run
        BY <1>1, <1>4, <1>5, <2>1
      <4>2. QED
        BY <1>7, <2>1, <4>1 DEF LostAt
    <3>3. QED
      BY <3>1, <3>2 DEF HasLostARow
  <2>2. ASSUME NEW i \in Run, i >= born + MaxLossStreak,
               \A j \in i - MaxLossStreak + 1 .. i : LostAt(closed, j)
        PROVE  \E a \in DOMAIN run : /\ a >= MaxLossStreak
                                     /\ \A j \in a - MaxLossStreak + 1 .. a : run[j].pnl < 0
    <3>1. i - off \in DOMAIN run /\ i - off >= MaxLossStreak
      BY <1>1, <1>5, <1>7, <2>2 DEF off
    <3>2. ASSUME NEW j \in (i - off) - MaxLossStreak + 1 .. i - off
          PROVE  run[j].pnl < 0
      <4>1. off + j \in i - MaxLossStreak + 1 .. i /\ j \in DOMAIN run
        BY <1>1, <1>4, <1>5, <3>1
      <4>2. QED
        BY <1>6, <2>2, <4>1 DEF LostAt
    <3>3. QED
      BY <3>1, <3>2
  <2>3. QED
    BY <2>1, <2>2 DEF HasLostARow
<1>11. Breached(run) <=>
         \/ \E i, j \in DOMAIN run : i <= j /\ DrawdownHit(run[i].equity, run[j].equity)
         \/ \E i \in DOMAIN run : DailyLossHit(run[i].profit, run[i].equity)
         \/ \E i \in DOMAIN run : /\ i >= MaxLossStreak
                                  /\ \A j \in i - MaxLossStreak + 1 .. i : run[j].pnl < 0
  BY DEF Breached
<1>12. QED
  BY <1>8, <1>9, <1>10, <1>11 DEF run

(* Where a capital is a drawdown from some height, it is one from every     *)
(* greater height; and it is none from itself.                              *)
LEMMA DrawdownGrows ==
  ASSUME NEW low \in Nat, NEW top \in Nat, NEW capital \in Nat,
         low <= top, DrawdownHit(low, capital)
  PROVE  DrawdownHit(top, capital)
<1>1. MaxDrawdownPct \in Nat \ {0}
  BY KillSwitchAssumption
<1>2. low > 0 /\ 100 * (low - capital) >= MaxDrawdownPct * low
  BY DEF DrawdownHit
<1>3. CASE MaxDrawdownPct <= 100
  <2>1. PICK rest \in Nat : MaxDrawdownPct + rest = 100
    <3>1. 100 - MaxDrawdownPct \in Nat
      BY <1>1, <1>3
    <3>2. QED
      BY <1>1, <3>1
  <2>2. PICK more \in Nat : top = low + more
    <3>1. top - low \in Nat
      OBVIOUS
    <3>2. QED
      BY <3>1
  <2>3. MaxDrawdownPct * top = MaxDrawdownPct * low + MaxDrawdownPct * more
    BY <1>1, <2>2
  <2>4. MaxDrawdownPct * more + rest * more = 100 * more /\ rest * more \in Nat
        /\ MaxDrawdownPct * more \in Nat
    BY <1>1, <2>1
  <2>5. 100 * (top - capital) >= MaxDrawdownPct * top
    <3> DEFINE a == MaxDrawdownPct * low
               b == MaxDrawdownPct * more
               c == rest * more
               d == MaxDrawdownPct * top
    <3>1. a \in Int /\ b \in Int /\ c \in Nat /\ d = a + b /\ b + c = 100 * more
          /\ 100 * (low - capital) >= a
      BY <1>1, <1>2, <2>3, <2>4
    <3> HIDE DEF a, b, c, d
    <3>2. 100 * (top - capital) >= d
      BY <2>2, <3>1
    <3>3. QED
      BY <3>2 DEF d
  <2>6. QED
    BY <1>2, <2>5 DEF DrawdownHit
<1>4. CASE MaxDrawdownPct > 100
  <2>1. PICK more \in Nat \ {0} : MaxDrawdownPct = 100 + more
    <3>1. MaxDrawdownPct - 100 \in Nat \ {0}
      BY <1>1, <1>4
    <3>2. QED
      BY <1>1, <3>1
  <2>2. MaxDrawdownPct * low = 100 * low + more * low /\ more * low \in Nat \ {0}
    BY <1>2, <2>1
  <2>3. QED
    BY <1>2, <2>2
<1>5. QED
  BY <1>1, <1>3, <1>4

(* Capital that is its own peak has not fallen. *)
LEMMA NoDrawdownFromItself ==
  ASSUME NEW capital \in Nat
  PROVE  ~DrawdownHit(capital, capital)
<1>1. MaxDrawdownPct \in Nat \ {0}
  BY KillSwitchAssumption
<1>2. CASE capital > 0
  <2>1. MaxDrawdownPct * capital > 0 /\ 100 * (capital - capital) = 0
    BY <1>1, <1>2
  <2>2. QED
    BY <1>1, <2>1 DEF DrawdownHit
<1>3. QED
  BY <1>2 DEF DrawdownHit

-----------------------------------------------------------------------------
(* What the switch remembers of the trades: before it trips, no limit is    *)
(* breached, the peak is the highest equity of the process, and the streak  *)
(* is the longest run of losing trades the process ends in.                 *)
PeakIsHighest ==
  /\ \A i \in Run : closed[i].equity <= peak
  /\ peak > 0 => \E i \in Run : closed[i].equity = peak

StreakIsLongest ==
  /\ lossStreak <= Len(closed) - born
  /\ \A j \in Len(closed) - lossStreak + 1 .. Len(closed) : LostAt(closed, j)
  /\ lossStreak < Len(closed) - born => ~LostAt(closed, Len(closed) - lossStreak)

SwitchInv ==
  /\ TypeInv
  /\ armed
  /\ \A i \in Run : closed[i].equity \in Nat
  /\ triggered => HasFallen \/ HasLost \/ HasLostARow
  /\ ~triggered => /\ ~HasFallen /\ ~HasLost /\ ~HasLostARow
                   /\ PeakIsHighest
                   /\ StreakIsLongest

(* A switch that was just armed agrees with the empty history of its        *)
(* session.                                                                 *)
LEMMA SwitchInitially ==
  TypeInv /\ born = Len(closed) /\ armed /\ ~triggered /\ peak = 0 /\ lossStreak = 0
    => SwitchInv
<1> SUFFICES ASSUME TypeInv, born = Len(closed), armed, ~triggered, peak = 0, lossStreak = 0
             PROVE  SwitchInv
  OBVIOUS
<1>1. Len(closed) \in Nat
  BY DEF TypeInv
<1>2. Run = {}
  BY <1>1 DEF Run
<1>3. ~HasFallen /\ ~HasLost /\ ~HasLostARow /\ PeakIsHighest
  BY <1>2 DEF HasFallen, HasLost, HasLostARow, PeakIsHighest
<1>4. StreakIsLongest
  BY <1>1 DEF StreakIsLongest
<1>5. QED
  BY <1>2, <1>3, <1>4 DEF SwitchInv

(* A trade is closed: the run gets one place more. *)
LEMMA SwitchStep ==
  ASSUME SwitchInv, TypeInv',
         NEW capital \in Nat, NEW profit \in Int, NEW pnl \in Int,
         Update(capital, profit, pnl), born' = born,
         closed' = Append(closed, [pnl |-> pnl, equity |-> capital, profit |-> profit])
  PROVE  SwitchInv'
<1> DEFINE last == Len(closed)
           n    == last + 1
           M    == MaxLossStreak
<1>1. /\ last \in Nat /\ born \in 0 .. last /\ Len(closed') = n
      /\ \A i \in 1 .. last : closed'[i] = closed[i]
      /\ closed'[n] = [pnl |-> pnl, equity |-> capital, profit |-> profit]
  <2>1. closed \in Seq([pnl : Int, equity : Int, profit : Int])
    BY DEF SwitchInv, TypeInv
  <2>2. QED
    BY <2>1 DEF SwitchInv, TypeInv
<1>2. /\ M \in Nat \ {0} /\ peak \in Nat /\ lossStreak \in 0 .. M
      /\ armed /\ (~triggered => lossStreak < M)
  BY KillSwitchAssumption DEF SwitchInv, TypeInv, KillSwitchTypeOK
<1>3. /\ Run' = Run \cup {n} /\ n \notin Run /\ Run = born + 1 .. last
      /\ \A i \in Run : i \in 1 .. last /\ i < n /\ closed'[i] = closed[i]
      /\ n \in Run'
  <2>1. Run' = born + 1 .. n /\ Run = born + 1 .. last
    BY <1>1 DEF Run
  <2>2. QED
    BY <1>1, <2>1
<1>4. /\ \A i, j \in Run : Fell(closed', i, j) <=> Fell(closed, i, j)
      /\ \A i \in Run : (TooMuch(closed', i) <=> TooMuch(closed, i)) /\ (LostAt(closed', i) <=> LostAt(closed, i))
      /\ \A i \in Run : Fell(closed', i, n) <=> DrawdownHit(closed[i].equity, capital)
      /\ Fell(closed', n, n) <=> DrawdownHit(capital, capital)
      /\ TooMuch(closed', n) <=> DailyLossHit(profit, capital)
      /\ LostAt(closed', n) <=> pnl < 0
  BY <1>1, <1>3 DEF Fell, TooMuch, LostAt
<1>5. \A i \in Run : closed[i].equity \in Nat
  BY DEF SwitchInv
<1>6. \A i \in Run' : closed'[i].equity \in Nat
  BY <1>1, <1>3, <1>5
<1>0. /\ last \in Nat /\ born \in Nat /\ born <= last /\ n \in Nat /\ n = last + 1
      /\ M \in Nat /\ M > 0 /\ lossStreak \in Nat /\ peak \in Nat
  BY <1>1, <1>2
<1> HIDE DEF last, n, M
<1>7. /\ HasFallen => HasFallen'
      /\ HasLost => HasLost'
      /\ HasLostARow => HasLostARow'
  <2>1. HasFallen => HasFallen'
    BY <1>3, <1>4 DEF HasFallen
  <2>2. HasLost => HasLost'
    BY <1>3, <1>4 DEF HasLost
  <2>3. ASSUME NEW i \in Run, i >= born + M, \A j \in i - M + 1 .. i : LostAt(closed, j)
        PROVE  HasLostARow'
    <3>1. \A j \in i - M + 1 .. i : j \in Run
      BY <1>1, <1>2, <1>3, <2>3
    <3>2. \A j \in i - M + 1 .. i : LostAt(closed', j)
      BY <1>4, <2>3, <3>1
    <3>3. i \in Run' /\ i >= born' + M
      BY <1>3, <2>3
    <3>4. QED
      BY <3>2, <3>3 DEF HasLostARow, M
  <2>4. QED
    BY <2>1, <2>2, <2>3 DEF HasLostARow, M
<1>8. CASE triggered
  <2>1. armed' /\ triggered'
    BY <1>8, Zenon DEF Update, killSwitchVars, SwitchInv
  <2>2. HasFallen \/ HasLost \/ HasLostARow
    BY <1>8 DEF SwitchInv
  <2>3. QED
    BY <1>6, <1>7, <2>1, <2>2 DEF SwitchInv
<1>9. CASE ~triggered
  <2> DEFINE top    == Higher(peak, capital)
             limits == DrawdownHit(top, capital) \/ DailyLossHit(profit, capital)
  <2>1. /\ ~HasFallen /\ ~HasLost /\ ~HasLostARow
        /\ PeakIsHighest /\ StreakIsLongest
    BY <1>9 DEF SwitchInv
  <2>2. /\ peak' = top
        /\ lossStreak' = IF limits THEN lossStreak ELSE Streak(pnl)
        /\ triggered' = (limits \/ lossStreak' >= M)
        /\ armed' = armed
    BY <1>2, <1>9 DEF Update, M
  <2>3. limits \in BOOLEAN
    BY DEF DrawdownHit, DailyLossHit
  <2>4. armed'
    BY <1>2, <2>2
  <2>5. top \in {peak, capital} /\ top \in Nat /\ top >= peak /\ top >= capital
    BY <1>2, HigherType
  <2> HIDE DEF top
  <2>6. CASE DrawdownHit(top, capital)
    <3>1. triggered'
      BY <2>2, <2>6, Zenon
    <3>2. top = peak /\ peak > 0
      BY <2>5, <2>6, NoDrawdownFromItself DEF DrawdownHit
    <3>3. PICK i \in Run : closed[i].equity = peak
      BY <2>1, <3>2 DEF PeakIsHighest
    <3>4. Fell(closed', i, n) /\ i <= n
      BY <1>1, <1>3, <1>4, <2>6, <3>2, <3>3 DEF n
    <3>5. HasFallen'
      BY <1>3, <3>4 DEF HasFallen
    <3>6. QED
      BY <1>6, <2>4, <3>1, <3>5 DEF SwitchInv
  <2>7. CASE DailyLossHit(profit, capital)
    <3>1. triggered'
      BY <2>2, <2>7, Zenon
    <3>2. HasLost'
      BY <1>3, <1>4, <2>7 DEF HasLost
    <3>3. QED
      BY <1>6, <2>4, <3>1, <3>2 DEF SwitchInv
  <2>8. CASE ~limits
    <3>1. lossStreak' = Streak(pnl) /\ ~DrawdownHit(top, capital) /\ ~DailyLossHit(profit, capital)
      BY <2>2, <2>8
    <3>2. (triggered' => lossStreak' >= M) /\ (~triggered' => ~(lossStreak' >= M))
      BY <2>2, <2>8, Zenon
    <3>3. lossStreak' = IF pnl < 0 THEN lossStreak + 1 ELSE 0
      BY <3>1 DEF Streak
    <3>4. StreakIsLongest'
      <4>1. CASE pnl < 0
        <5>1. lossStreak' = lossStreak + 1
          BY <3>3, <4>1
        <5>2. lossStreak' <= n - born
          BY <1>1, <1>2, <2>1, <5>1 DEF StreakIsLongest, n, last
        <5>3. ASSUME NEW j \in n - lossStreak' + 1 .. n PROVE LostAt(closed', j)
          <6>0. j \in Int /\ j >= last - lossStreak + 1 /\ j <= n
            BY <1>0, <5>1
          <6>1. j = n \/ (j \in last - lossStreak + 1 .. last /\ j \in born + 1 .. last)
            BY <1>0, <5>1, <5>2, <6>0
          <6>2. QED
            BY <1>3, <1>4, <2>1, <4>1, <6>1 DEF StreakIsLongest, last
        <5>4. ASSUME lossStreak' < n - born PROVE ~LostAt(closed', n - lossStreak')
          <6>1. n - lossStreak' = last - lossStreak /\ last - lossStreak \in born + 1 .. last
                /\ lossStreak < last - born
            BY <1>0, <5>1, <5>4
          <6>2. QED
            BY <1>3, <1>4, <2>1, <6>1 DEF StreakIsLongest, last
        <5>5. QED
          BY <1>1, <5>2, <5>3, <5>4 DEF StreakIsLongest
      <4>2. CASE ~(pnl < 0)
        <5>1. lossStreak' = 0
          BY <3>3, <4>2
        <5>2. /\ lossStreak' <= n - born
              /\ n - lossStreak' + 1 .. n = {}
              /\ n - lossStreak' = n
          BY <1>1, <5>1 DEF n
        <5>3. ~LostAt(closed', n)
          BY <1>4, <4>2
        <5>4. QED
          BY <1>1, <5>2, <5>3 DEF StreakIsLongest
      <4>3. QED
        BY <4>1, <4>2
    <3>5. CASE triggered'
      <4>1. lossStreak' >= M /\ lossStreak' <= n - born
        BY <1>1, <3>2, <3>4, <3>5 DEF StreakIsLongest
      <4>2. lossStreak' \in Nat
        BY <1>2, <3>3
      <4>3. n >= born + M
        BY <1>1, <1>2, <4>1, <4>2 DEF n
      <4>4. \A j \in n - M + 1 .. n : j \in n - lossStreak' + 1 .. n
        <5>1. PICK streak \in Nat : streak = lossStreak'
          BY <4>2
        <5>2. streak >= M
          BY <4>1, <5>1
        <5>3. \A j \in n - M + 1 .. n : j \in n - streak + 1 .. n
          BY <1>0, <5>2
        <5>4. QED
          BY <5>1, <5>3
      <4>5. \A j \in n - M + 1 .. n : LostAt(closed', j)
        BY <1>1, <3>4, <4>4 DEF StreakIsLongest
      <4>6. HasLostARow'
        BY <1>3, <4>3, <4>5 DEF HasLostARow, M
      <4>7. QED
        BY <1>6, <2>4, <3>5, <4>6 DEF SwitchInv
    <3>6. CASE ~triggered'
      <4>1. ~HasFallen'
        <5>1. ASSUME NEW i \in Run', NEW j \in Run', i <= j, Fell(closed', i, j)
              PROVE  FALSE
          <6>1. CASE i \in Run /\ j \in Run
            BY <1>4, <2>1, <5>1, <6>1 DEF HasFallen
          <6>2. CASE i = n
            <7>1. j = n
              BY <1>1, <1>3, <5>1, <6>2 DEF n
            <7>2. QED
              BY <1>4, <5>1, <6>2, <7>1, NoDrawdownFromItself
          <6>3. CASE i \in Run /\ j = n
            <7>1. DrawdownHit(closed[i].equity, capital) /\ closed[i].equity \in Nat
              BY <1>4, <1>5, <5>1, <6>3
            <7>2. closed[i].equity <= top
              BY <1>2, <2>1, <2>5, <6>3, <7>1 DEF PeakIsHighest
            <7>3. DrawdownHit(top, capital)
              BY <2>5, <7>1, <7>2, DrawdownGrows
            <7>4. QED
              BY <3>1, <7>3
          <6>4. QED
            BY <1>3, <6>1, <6>2, <6>3
        <5>2. QED
          BY <5>1 DEF HasFallen
      <4>2. ~HasLost'
        BY <1>3, <1>4, <2>1, <3>1 DEF HasLost
      <4>3. ~HasLostARow'
        <5>1. ASSUME NEW i \in Run', i >= born + M, \A j \in i - M + 1 .. i : LostAt(closed', j)
              PROVE  FALSE
          <6>1. CASE i \in Run
            <7>1. \A j \in i - M + 1 .. i : j \in Run
              BY <1>1, <1>2, <1>3, <5>1, <6>1
            <7>2. \A j \in i - M + 1 .. i : LostAt(closed, j)
              BY <1>4, <5>1, <7>1
            <7>3. QED
              BY <2>1, <5>1, <6>1, <7>2 DEF HasLostARow, M
          <6>2. CASE i = n
            <7>1. lossStreak' \in 0 .. M - 1
              BY <1>2, <3>2, <3>3, <3>6
            <7>2. lossStreak' < n - born /\ n - lossStreak' \in n - M + 1 .. n
              <8>1. lossStreak' \in Int /\ 0 <= lossStreak' /\ lossStreak' < M
                BY <1>0, <7>1
              <8>2. n >= born + M
                BY <5>1, <6>2
              <8>3. PICK streak \in Nat : streak = lossStreak' /\ streak < M
                BY <8>1
              <8>4. streak < M
                BY <8>3
              <8>5. streak < n - born
                BY <1>0, <8>2, <8>4
              <8>6. n - streak \in n - M + 1 .. n
                BY <1>0, <8>4
              <8>7. QED
                BY <8>3, <8>5, <8>6
            <7>3. ~LostAt(closed', n - lossStreak')
              BY <1>1, <3>4, <7>2 DEF StreakIsLongest
            <7>4. QED
              BY <5>1, <6>2, <7>2, <7>3
          <6>3. QED
            BY <1>3, <6>1, <6>2
        <5>2. QED
          BY <5>1 DEF HasLostARow, M
      <4>4. PeakIsHighest'
        <5>1. ASSUME NEW i \in Run' PROVE closed'[i].equity <= top
          <6>1. CASE i \in Run
            <7>1. closed'[i].equity = closed[i].equity /\ closed[i].equity \in Nat
                  /\ closed[i].equity <= peak
              BY <1>3, <1>5, <2>1, <6>1 DEF PeakIsHighest
            <7>2. PICK e \in Nat : e = closed[i].equity /\ e <= peak
              BY <7>1
            <7>3. top \in Nat /\ top >= peak
              BY <2>5
            <7>4. e <= top
              BY <1>0, <7>2, <7>3
            <7>5. QED
              BY <7>1, <7>2, <7>4
          <6>2. CASE i = n
            <7>1. closed'[i].equity = capital
              BY <1>1, <6>2
            <7>2. QED
              BY <2>5, <7>1
          <6>3. QED
            BY <1>3, <6>1, <6>2
        <5>2. ASSUME top > 0 PROVE \E i \in Run' : closed'[i].equity = top
          <6>1. CASE top = capital
            BY <1>1, <1>3, <6>1
          <6>2. CASE top = peak
            <7>1. PICK i \in Run : closed[i].equity = peak
              BY <2>1, <5>2, <6>2 DEF PeakIsHighest
            <7>2. QED
              BY <1>3, <6>2, <7>1
          <6>3. QED
            BY <2>5, <6>1, <6>2
        <5>3. QED
          BY <2>2, <5>1, <5>2 DEF PeakIsHighest
      <4>5. QED
        BY <1>6, <2>4, <3>4, <3>6, <4>1, <4>2, <4>3, <4>4 DEF SwitchInv
    <3>7. QED
      BY <3>5, <3>6
  <2>9. QED
    BY <2>6, <2>7, <2>8
<1>10. QED
  BY <1>8, <1>9

(* The kill switch has tripped if and only if the trades the process has    *)
(* closed breach a limit: remembering a peak and a streak, and not looking  *)
(* any more after it has tripped, loses nothing, for any account, prices,   *)
(* commissions and limits.                                                  *)
THEOREM KillSwitchExact == Spec => []KillSwitchIsExact
<1>1. Init /\ TypeInv => SwitchInv
  <2> SUFFICES ASSUME Init, TypeInv PROVE SwitchInv
    OBVIOUS
  <2>1. closed = <<>> /\ born = 0 /\ peak = 0 /\ lossStreak = 0
    BY DEF Init, KillSwitchInit
  <2>2. armed /\ ~triggered
    BY Zenon DEF Init, KillSwitchInit
  <2>3. QED
    BY <2>1, <2>2, SwitchInitially
<1>2. SwitchInv /\ TypeInv' /\ [Next]_vars => SwitchInv'
  <2> SUFFICES ASSUME SwitchInv, TypeInv', [Next]_vars PROVE SwitchInv'
    OBVIOUS
  <2>1. ASSUME UNCHANGED <<killSwitchVars, closed, born>>
        PROVE  SwitchInv'
    BY <2>1 DEF SwitchInv, Run, HasFallen, HasLost, HasLostARow, PeakIsHighest,
                StreakIsLongest, killSwitchVars
  <2>2. ASSUME NEW s \in Symbols, NEW price \in Prices, ProcessSymbol(s, price)
        PROVE  SwitchInv'
    BY <2>1, <2>2 DEF ProcessSymbol, historyVars
  <2>3. ASSUME NEW s \in Symbols, NEW price \in Prices,
               ReportTradeResult(s, price) \/ ManualExit(s, price)
        PROVE  SwitchInv'
    <3>1. PICK fee \in Nat : SettleTrade(s, price, fee)
      BY <2>3, ClosingStep
    <3>2. TypeInv
      BY DEF SwitchInv
    <3>3. /\ cash' \in Nat /\ realized' \in Int /\ realized' - realized \in Int
          /\ Update(cash', realized', realized' - realized)
          /\ closed' = Append(closed, [pnl |-> realized' - realized, equity |-> cash',
                                       profit |-> realized'])
          /\ born' = born
      BY <3>1, <3>2, SettleStep
    <3>4. QED
      BY <3>3, SwitchStep
  <2>4. ASSUME NEW t \in Tier, AutoSelectTier(t)
        PROVE  SwitchInv'
    BY <2>1, <2>4 DEF AutoSelectTier
  <2>5. CASE Restart
    <3>1. /\ born' = Len(closed) /\ closed' = closed
          /\ peak' = 0 /\ lossStreak' = 0
      BY <2>5 DEF Restart
    <3>2. armed' /\ ~triggered'
      BY <2>5, Zenon DEF Restart
    <3>3. (TypeInv /\ born = Len(closed) /\ armed /\ ~triggered /\ peak = 0 /\ lossStreak = 0
             => SwitchInv)'
      BY SwitchInitially, PTL
    <3>4. QED
      BY <3>1, <3>2, <3>3
  <2>6. CASE UNCHANGED vars
    BY <2>1, <2>6 DEF vars, historyVars
  <2>7. QED
    BY <2>2, <2>3, <2>4, <2>5, <2>6 DEF Next
<1>3. SwitchInv => KillSwitchIsExact
  <2> SUFFICES ASSUME SwitchInv PROVE KillSwitchIsExact
    OBVIOUS
  <2>1. triggered <=> HasFallen \/ HasLost \/ HasLostARow
    BY DEF SwitchInv
  <2>2. QED
    BY <2>1, BreachedByPlaces DEF SwitchInv, KillSwitchIsExact
<1>4. QED
  BY <1>1, <1>2, <1>3, GoldTypes, PTL DEF Spec

-----------------------------------------------------------------------------
(* The books of the code: a commission lowers the profit, not the cash.     *)
CommissionsStay == cash + Invested + forgotten = InitialCash + realized + charged

(* The types TypeInv leaves out, and that the books balance. *)
BooksInv ==
  /\ charged \in Nat
  /\ forgotten \in Nat
  /\ restarts \in 0 .. MaxRestarts
  /\ CommissionsStay

(* What the open positions cost, as a sum the fold lemmas speak of. *)
LEMMA InvestedIsSum ==
  ASSUME AccountTypeOK
  PROVE  /\ Invested = SumOf(cost, Symbols)
         /\ Invested \in Nat
         /\ (\A s \in Symbols : cost[s] = 0) => Invested = 0
<1>1. cost \in [Symbols -> Nat] /\ IsFiniteSet(Symbols)
  BY AccountAssumption DEF AccountTypeOK
<1>2. Invested = SumOf(cost, Symbols)
  BY DEF Invested, SumOf
<1>3. QED
  BY <1>1, <1>2, SumSigns

(* Changing the cost of one position changes the total by as much. *)
LEMMA InvestedStep ==
  ASSUME AccountTypeOK, AccountTypeOK', NEW s \in Symbols, NEW v \in Nat,
         cost' = [cost EXCEPT ![s] = v]
  PROVE  Invested' = Invested - cost[s] + v
<1>1. cost \in [Symbols -> Int] /\ IsFiniteSet(Symbols) /\ v \in Int
  BY AccountAssumption DEF AccountTypeOK
<1>2. SumOf(cost', Symbols) = SumOf(cost, Symbols) - cost[s] + v
  <2>1. PICK g \in [Symbols -> Int] : cost' = g
    BY DEF AccountTypeOK
  <2>2. \A x \in Symbols : g[x] = IF x = s THEN v ELSE cost[x]
    BY <1>1, <2>1
  <2>3. SumOf(g, Symbols) = SumOf(cost, Symbols) - cost[s] + v
    BY <1>1, <2>2, SumExcept
  <2>4. QED
    BY <2>1, <2>3
<1>3. (AccountTypeOK => Invested = SumOf(cost, Symbols))'
  BY InvestedIsSum, PTL
<1>4. QED
  BY <1>2, <1>3, InvestedIsSum

(* Every step keeps the books in balance. *)
LEMMA BooksInductive ==
  ASSUME TypeInv, TypeInv', BooksInv, [Next]_vars
  PROVE  BooksInv'
<1>0. /\ AccountTypeOK /\ AccountTypeOK'
      /\ cash \in Nat /\ cost \in [Symbols -> Nat] /\ realized \in Int
      /\ held \in [Symbols -> Nat] /\ InitialCash \in Nat
      /\ charged \in Nat /\ forgotten \in Nat /\ restarts \in 0 .. MaxRestarts
      /\ cash + Invested + forgotten = InitialCash + realized + charged
  BY AccountAssumption DEF TypeInv, BooksInv, AccountTypeOK, CommissionsStay
<1>1. Invested \in Nat /\ Invested' \in Nat
  <2>1. Invested \in Nat
    BY <1>0, InvestedIsSum
  <2>2. (AccountTypeOK => Invested \in Nat)'
    BY InvestedIsSum, PTL
  <2>3. QED
    BY <1>0, <2>1, <2>2
<1>2. ASSUME NEW s \in Symbols, NEW price \in Prices, ProcessSymbol(s, price)
      PROVE  BooksInv'
  <2>1. /\ PositionSize(price) > 0 /\ OpenPosition(s, PositionSize(price), price)
        /\ UNCHANGED <<charged, forgotten, restarts>>
    BY <1>2 DEF ProcessSymbol, historyVars
  <2> DEFINE value == PositionSize(price) * price
  <2>2. value \in Nat
    BY <1>0, <2>1, SizeType, GoldAssumption
  <2>3. /\ cash' = cash - value /\ realized' = realized
        /\ cost' = [cost EXCEPT ![s] = cost[s] + value]
    BY <1>0, <2>1 DEF OpenPosition
  <2> HIDE DEF value
  <2>4. cost[s] + value \in Nat
    BY <1>0, <2>2
  <2>5. Invested' = Invested - cost[s] + (cost[s] + value)
    BY <1>0, <2>3, <2>4, InvestedStep
  <2>6. cash' + Invested' + forgotten = InitialCash + realized + charged
    <3>1. cost[s] \in Nat
      BY <1>0
    <3>2. QED
      BY <1>0, <1>1, <2>2, <2>3, <2>5, <3>1
  <2>7. cash' + Invested' + forgotten' = InitialCash + realized' + charged'
    BY <2>1, <2>3, <2>6
  <2>8. QED
    BY <1>0, <2>1, <2>7 DEF BooksInv, CommissionsStay
<1>3. ASSUME NEW s \in Symbols, NEW price \in Prices,
             ReportTradeResult(s, price) \/ ManualExit(s, price)
      PROVE  BooksInv'
  <2>1. PICK fee \in Nat : SettleTrade(s, price, fee)
    BY <1>3, ClosingStep
  <2>2. /\ ClosePosition(s, price, fee)
        /\ charged' = charged + fee /\ UNCHANGED <<forgotten, restarts>>
    BY <2>1 DEF SettleTrade
  <2> DEFINE value == held[s] * price
  <2>3. value \in Nat
    BY <1>0, GoldAssumption
  <2>4. /\ cash' = cash + value
        /\ realized' = realized + value - cost[s] - fee
        /\ cost' = [cost EXCEPT ![s] = 0]
    BY <2>2 DEF ClosePosition
  <2> HIDE DEF value
  <2>5. Invested' = Invested - cost[s] + 0
    BY <1>0, <2>4, InvestedStep
  <2>6. cost[s] \in Nat
    BY <1>0
  <2>7. cash' + Invested' + forgotten = InitialCash + realized' + charged'
    BY <1>0, <1>1, <2>2, <2>3, <2>4, <2>5, <2>6
  <2>8. cash' + Invested' + forgotten' = InitialCash + realized' + charged'
    BY <2>2, <2>7
  <2>9. QED
    BY <1>0, <2>2, <2>8 DEF BooksInv, CommissionsStay
<1>4. CASE UNCHANGED <<cash, cost, realized, charged, forgotten, restarts>>
  <2>1. Invested' = Invested
    <3>1. (AccountTypeOK => Invested = SumOf(cost, Symbols))'
      BY InvestedIsSum, PTL
    <3>2. QED
      BY <1>0, <1>4, <3>1, InvestedIsSum
  <2>2. QED
    BY <1>4, <2>1 DEF BooksInv, CommissionsStay
<1>5. CASE Restart
  <2>1. /\ cost' = [s \in Symbols |-> 0] /\ cash' = cash /\ realized' = realized
        /\ forgotten' = forgotten + Invested /\ charged' = charged
        /\ restarts < MaxRestarts /\ restarts' = restarts + 1
    BY <1>5 DEF Restart
  <2>2. \A s \in Symbols : cost'[s] = 0
    BY <2>1
  <2>3. (AccountTypeOK /\ (\A s \in Symbols : cost[s] = 0) => Invested = 0)'
    BY InvestedIsSum, PTL
  <2>4. Invested' = 0
    BY <1>0, <2>2, <2>3
  <2>5. QED
    BY <1>0, <1>1, <2>1, <2>4, GoldAssumption DEF BooksInv, CommissionsStay
<1>6. ASSUME NEW t \in Tier, AutoSelectTier(t)
      PROVE  BooksInv'
  BY <1>4, <1>6 DEF AutoSelectTier, accountVars
<1>7. CASE UNCHANGED vars
  BY <1>4, <1>7 DEF vars, accountVars, historyVars
<1>8. QED
  BY <1>2, <1>3, <1>5, <1>6, <1>7 DEF Next

(* In every state the books balance. *)
LEMMA BooksAlways == Spec => [](TypeInv /\ BooksInv)
<1>1. Init /\ TypeInv => BooksInv
  <2> SUFFICES ASSUME Init, TypeInv PROVE BooksInv
    OBVIOUS
  <2>1. /\ cash = InitialCash /\ cost = [s \in Symbols |-> 0] /\ realized = 0
        /\ charged = 0 /\ forgotten = 0 /\ restarts = 0
    BY DEF Init, AccountInit
  <2>2. Invested = 0
    BY <2>1, InvestedIsSum DEF TypeInv
  <2>3. QED
    BY <2>1, <2>2, AccountAssumption, GoldAssumption DEF BooksInv, CommissionsStay
<1>2. TypeInv /\ TypeInv' /\ BooksInv /\ [Next]_vars => BooksInv'
  BY BooksInductive
<1>3. QED
  BY <1>1, <1>2, GoldTypes, PTL DEF Spec

(* Every variable of the strategy keeps its type: process_symbol never      *)
(* spends more than there is, and a tier is always one of the ladder's.     *)
THEOREM GoldTypeCorrect == Spec => []TypeOK
<1>1. TypeInv /\ BooksInv => TypeOK
  BY DEF TypeInv, BooksInv, TypeOK
<1>2. QED
  BY <1>1, BooksAlways, PTL

(* For any symbols, prices and commissions the books of risk/account.py     *)
(* balance after every purchase, every sale and every restart, but for the  *)
(* commissions.                                                             *)
THEOREM MoneyConserved == Spec => []MoneyIsConserved
<1>1. TypeInv /\ BooksInv => MoneyIsConserved
  <2> SUFFICES ASSUME TypeInv, BooksInv PROVE MoneyIsConserved
    OBVIOUS
  <2>1. /\ cash \in Int /\ Invested \in Int /\ forgotten \in Int
        /\ InitialCash \in Int /\ realized \in Int /\ charged \in Nat
    BY InvestedIsSum, AccountAssumption DEF TypeInv, BooksInv, AccountTypeOK
  <2>2. QED
    BY <2>1 DEF BooksInv, CommissionsStay, MoneyIsConserved
<1>2. QED
  BY <1>1, BooksAlways, PTL

-----------------------------------------------------------------------------
(* The record by its trades, in elementary terms: the last wins of the      *)
(* trades since the tier changed are won and the one before them is not,    *)
(* likewise the losses, and the peak is the highest equity.                 *)
ClosedTrade == [pnl : Int, equity : Int, profit : Int]

WonPlaces(trades) == {i \in 1 .. Len(trades) : trades[i].pnl > 0}

EndsIn(trades, since, count, places) ==
  /\ count \in 0 .. Len(trades) - since
  /\ \A i \in Len(trades) - count + 1 .. Len(trades) : i \in places
  /\ count < Len(trades) - since => Len(trades) - count \notin places

TopOf(trades, top) ==
  /\ InitialCash <= top
  /\ \A i \in 1 .. Len(trades) : trades[i].equity <= top
  /\ top = InitialCash \/ \E i \in 1 .. Len(trades) : trades[i].equity = top

ProgressOf(st, trades, since) ==
  /\ st.trades = Len(trades)
  /\ st.won = Cardinality(WonPlaces(trades))
  /\ EndsIn(trades, since, st.wins, WonPlaces(trades))
  /\ EndsIn(trades, since, st.losses, (1 .. Len(trades)) \ WonPlaces(trades))
  /\ TopOf(trades, st.peak)

(* An element that no other exceeds is the maximum. *)
LEMMA MaxIs ==
  ASSUME NEW S \in SUBSET Int, NEW m \in S, \A x \in S : x <= m
  PROVE  Max(S) = m
<1>1. \A x \in S : (\A y \in S : x >= y) => x = m
  OBVIOUS
<1>2. \A y \in S : m >= y
  OBVIOUS
<1>3. Max(S) \in S /\ \A y \in S : Max(S) >= y
  BY <1>2 DEF Max
<1>4. QED
  BY <1>1, <1>3

(* The trades since a place, counted from their end. *)
LEMMA TrailingIs ==
  ASSUME NEW trades \in Seq(ClosedTrade), NEW since \in 0 .. Len(trades), NEW count,
         NEW test \in SUBSET Int,
         EndsIn(trades, since, count, {i \in 1 .. Len(trades) : trades[i].pnl \in test})
  PROVE  LET here == SubSeq(trades, since + 1, Len(trades))
         IN Max({n \in 0 .. Len(here) :
                   \A i \in Len(here) - n + 1 .. Len(here) : here[i].pnl \in test}) = count
<1> DEFINE here  == SubSeq(trades, since + 1, Len(trades))
           total == Len(trades)
           size  == total - since
           runs  == {n \in 0 .. Len(here) :
                       \A i \in Len(here) - n + 1 .. Len(here) : here[i].pnl \in test}
<1>1. total \in Nat /\ since \in 0 .. total /\ size \in Nat /\ count \in 0 .. size
  BY DEF EndsIn
<1>2. Len(here) = size /\ \A i \in 1 .. size : here[i] = trades[since + i]
  <2>1. since + 1 \in 1 .. total + 1 /\ total \in since .. total
    BY <1>1
  <2>2. QED
    BY <1>1, <2>1, SubSeqProperties
<1>3. /\ \A i \in total - count + 1 .. total : trades[i].pnl \in test
      /\ count < size => trades[total - count].pnl \notin test
  BY <1>1 DEF EndsIn
<1> HIDE DEF here, total
<1>4. runs = {n \in 0 .. size :
                \A i \in size - n + 1 .. size : trades[since + i].pnl \in test}
  <2>1. \A n \in 0 .. size : \A i \in size - n + 1 .. size : here[i] = trades[since + i]
    BY <1>1, <1>2
  <2>2. \A n \in 0 .. size :
          (\A i \in size - n + 1 .. size : here[i].pnl \in test)
            <=> (\A i \in size - n + 1 .. size : trades[since + i].pnl \in test)
    BY <2>1
  <2>3. QED
    BY <1>2, <2>2
<1>5. count \in runs
  <2>1. ASSUME NEW i \in size - count + 1 .. size
        PROVE  trades[since + i].pnl \in test
    BY <1>1, <1>3, <2>1
  <2>2. QED
    BY <1>1, <1>4, <2>1
<1>6. ASSUME NEW n \in runs
      PROVE  n <= count
  <2> SUFFICES ASSUME n > count PROVE FALSE
    BY <1>1, <1>4
  <2>1. n \in 0 .. size /\ size - count \in size - n + 1 .. size /\ count < size
    BY <1>1, <1>4
  <2>2. since + (size - count) = total - count
    BY <1>1
  <2>3. trades[since + (size - count)].pnl \in test
    BY <1>4, <2>1
  <2>4. QED
    BY <1>3, <2>1, <2>2, <2>3
<1>7. runs \in SUBSET Int
  BY <1>1, <1>4
<1> HIDE DEF runs
<1>8. Max(runs) = count
  BY <1>5, <1>6, <1>7, MaxIs
<1>9. QED
  BY <1>8 DEF runs, here

(* What the history of closed trades is made of. *)
LEMMA TradeTypes ==
  ASSUME NEW trades \in Seq(ClosedTrade)
  PROVE  /\ Len(trades) \in Nat /\ DOMAIN trades = 1 .. Len(trades)
         /\ \A i \in 1 .. Len(trades) : /\ trades[i] \in ClosedTrade
                                        /\ trades[i].pnl \in Int
                                        /\ trades[i].equity \in Int
                                        /\ trades[i].profit \in Int
<1>1. \A t \in ClosedTrade : t.pnl \in Int /\ t.equity \in Int /\ t.profit \in Int
  BY DEF ClosedTrade
<1>2. QED
  BY <1>1

(* The trades since a place are trades. *)
LEMMA RunType ==
  ASSUME NEW trades \in Seq(ClosedTrade), NEW since \in 0 .. Len(trades)
  PROVE  SubSeq(trades, since + 1, Len(trades)) \in Seq(ClosedTrade)
<1>1. \A i \in since + 1 .. Len(trades) : trades[i] \in ClosedTrade
  BY TradeTypes
<1>2. QED
  BY <1>1, SubSeqProperties

(* The streaks of the record are those of the trades. *)
LEMMA StreaksAre ==
  ASSUME NEW st, NEW trades \in Seq(ClosedTrade), NEW since \in 0 .. Len(trades),
         ProgressOf(st, trades, since)
  PROVE  /\ Trailing(SubSeq(trades, since + 1, Len(trades)), Won) = st.wins
         /\ Trailing(SubSeq(trades, since + 1, Len(trades)), Lost) = st.losses
<1> DEFINE here == SubSeq(trades, since + 1, Len(trades))
           won  == {x \in Int : x > 0}
           lost == {x \in Int : x <= 0}
           Runs(test) == {n \in 0 .. Len(here) :
                            \A i \in Len(here) - n + 1 .. Len(here) : here[i].pnl \in test}
<1>1. /\ here \in Seq(ClosedTrade)
      /\ Len(here) \in Nat
      /\ \A i \in 1 .. Len(here) : here[i].pnl \in Int
  <2>1. here \in Seq(ClosedTrade)
    BY RunType
  <2> HIDE DEF here
  <2>2. QED
    BY <2>1, TradeTypes
<1>2. \A i \in 1 .. Len(trades) : trades[i].pnl \in Int
  BY TradeTypes
<1>3. /\ WonPlaces(trades) = {i \in 1 .. Len(trades) : trades[i].pnl \in won}
      /\ (1 .. Len(trades)) \ WonPlaces(trades)
           = {i \in 1 .. Len(trades) : trades[i].pnl \in lost}
  BY <1>2 DEF WonPlaces
<1>4. won \in SUBSET Int /\ lost \in SUBSET Int
  OBVIOUS
<1>5. \A n \in 0 .. Len(here), i \in Int :
        i \in Len(here) - n + 1 .. Len(here) =>
          /\ here[i].pnl \in won <=> here[i].pnl > 0
          /\ here[i].pnl \in lost <=> here[i].pnl <= 0
  <2> HIDE DEF here
  <2>1. QED
    BY <1>1
<1> HIDE DEF won, lost
<1>6. Max(Runs(won)) = st.wins /\ Max(Runs(lost)) = st.losses
  <2>1. /\ EndsIn(trades, since, st.wins, {i \in 1 .. Len(trades) : trades[i].pnl \in won})
        /\ EndsIn(trades, since, st.losses, {i \in 1 .. Len(trades) : trades[i].pnl \in lost})
    BY <1>3 DEF ProgressOf
  <2>2. Max(Runs(won)) = st.wins
    BY <1>4, <2>1, TrailingIs
  <2>3. Max(Runs(lost)) = st.losses
    BY <1>4, <2>1, TrailingIs
  <2>4. QED
    BY <2>2, <2>3
<1>7. Trailing(here, Won) = Max(Runs(won))
  <2>1. {n \in 0 .. Len(here) : \A i \in Len(here) - n + 1 .. Len(here) : here[i].pnl > 0}
          = Runs(won)
    <3> HIDE DEF here
    <3>1. ASSUME NEW n \in 0 .. Len(here)
          PROVE  (\A i \in Len(here) - n + 1 .. Len(here) : here[i].pnl > 0)
                   <=> (\A i \in Len(here) - n + 1 .. Len(here) : here[i].pnl \in won)
      <4>1. \A i \in Len(here) - n + 1 .. Len(here) : here[i].pnl \in won <=> here[i].pnl > 0
        BY <1>1, <1>5
      <4>2. QED
        BY <4>1
    <3>2. QED
      BY <3>1
  <2>2. QED
    BY <2>1 DEF Trailing, Won
<1>8. Trailing(here, Lost) = Max(Runs(lost))
  <2>1. {n \in 0 .. Len(here) : \A i \in Len(here) - n + 1 .. Len(here) : here[i].pnl <= 0}
          = Runs(lost)
    <3> HIDE DEF here
    <3>1. ASSUME NEW n \in 0 .. Len(here)
          PROVE  (\A i \in Len(here) - n + 1 .. Len(here) : here[i].pnl <= 0)
                   <=> (\A i \in Len(here) - n + 1 .. Len(here) : here[i].pnl \in lost)
      <4>1. \A i \in Len(here) - n + 1 .. Len(here) : here[i].pnl \in lost <=> here[i].pnl <= 0
        BY <1>1, <1>5
      <4>2. QED
        BY <4>1
    <3>2. QED
      BY <3>1
  <2>2. QED
    BY <2>1 DEF Trailing, Lost
<1>9. QED
  BY <1>6, <1>7, <1>8

(* The record of the invariant is the record of the property. *)
LEMMA ProgressSays ==
  ASSUME TypeInv, ProgressOf(state, closed, tierSince)
  PROVE  ProgressMatchesHistory
<1>1. /\ closed \in Seq(ClosedTrade) /\ tierSince \in 0 .. Len(closed)
      /\ InitialCash \in Nat
      /\ \A i \in 1 .. Len(closed) : closed[i].equity \in Int
  <2>1. closed \in Seq(ClosedTrade) /\ tierSince \in 0 .. Len(closed) /\ InitialCash \in Nat
    BY AccountAssumption DEF TypeInv, ClosedTrade
  <2>2. QED
    BY <2>1, TradeTypes
<1>2. DOMAIN closed = 1 .. Len(closed)
  BY <1>1
<1>3. state.won = Cardinality({i \in DOMAIN closed : Won(closed[i].pnl)})
  BY <1>2 DEF ProgressOf, WonPlaces, Won
<1>4. state.peak = Max({InitialCash} \cup {closed[i].equity : i \in DOMAIN closed})
  <2> DEFINE tops == {InitialCash} \cup {closed[i].equity : i \in DOMAIN closed}
  <2>1. tops \in SUBSET Int
    BY <1>1, <1>2
  <2>2. state.peak \in tops /\ \A x \in tops : x <= state.peak
    BY <1>2 DEF ProgressOf, TopOf
  <2> HIDE DEF tops
  <2>3. Max(tops) = state.peak
    BY <2>1, <2>2, MaxIs
  <2>4. QED
    BY <2>3 DEF tops
<1>5. QED
  BY <1>1, <1>3, <1>4, StreaksAre DEF ProgressMatchesHistory, ProgressOf

(* One more trade lengthens a streak or ends it. *)
LEMMA StreakStep ==
  ASSUME NEW trades, NEW more, NEW since \in Nat, NEW count, NEW places, NEW places2,
         Len(trades) \in Nat, since <= Len(trades), Len(more) = Len(trades) + 1,
         EndsIn(trades, since, count, places),
         \A i \in 1 .. Len(trades) : i \in places2 <=> i \in places
  PROVE  /\ Len(more) \in places2 => EndsIn(more, since, count + 1, places2)
         /\ Len(more) \notin places2 => EndsIn(more, since, 0, places2)
<1> DEFINE n == Len(trades)
<1>1. /\ n \in Nat /\ since <= n /\ Len(more) = n + 1
      /\ count \in 0 .. n - since
      /\ \A i \in n - count + 1 .. n : i \in places
      /\ count < n - since => n - count \notin places
  BY DEF EndsIn
<1> HIDE DEF n
<1>2. ASSUME n + 1 \in places2
      PROVE  EndsIn(more, since, count + 1, places2)
  <2>1. \A i \in n + 1 - (count + 1) + 1 .. n + 1 : i \in places2
    <3>1. ASSUME NEW i \in n + 1 - (count + 1) + 1 .. n + 1
          PROVE  i \in places2
      <4>1. i = n + 1 \/ i \in n - count + 1 .. n
        BY <1>1
      <4>2. i \in n - count + 1 .. n => i \in 1 .. n
        BY <1>1
      <4>3. QED
        BY <1>1, <1>2, <4>1, <4>2 DEF n
    <3>2. QED
      BY <3>1
  <2>2. count + 1 < n + 1 - since => n + 1 - (count + 1) \notin places2
    <3>1. SUFFICES ASSUME count + 1 < n + 1 - since
                   PROVE  n + 1 - (count + 1) \notin places2
      OBVIOUS
    <3>2. count < n - since /\ n - count \in 1 .. n /\ n + 1 - (count + 1) = n - count
      BY <1>1, <3>1
    <3>3. QED
      BY <1>1, <3>2 DEF n
  <2>3. count + 1 \in 0 .. n + 1 - since
    BY <1>1
  <2>4. QED
    BY <1>1, <2>1, <2>2, <2>3 DEF EndsIn
<1>3. ASSUME n + 1 \notin places2
      PROVE  EndsIn(more, since, 0, places2)
  BY <1>1, <1>3 DEF EndsIn
<1>4. QED
  BY <1>1, <1>2, <1>3

(* Scoring a trade keeps the record in step with the trades. *)
LEMMA ScoredProgress ==
  ASSUME NEW st \in GoldMiningState, NEW trades \in Seq(ClosedTrade),
         NEW since \in 0 .. Len(trades), NEW t \in ClosedTrade, t.equity \in Nat,
         ProgressOf(st, trades, since)
  PROVE  ProgressOf(Scored(st, t.pnl, t.equity), Append(trades, t), since)
<1> DEFINE more == Append(trades, t)
           n    == Len(trades)
           next == Scored(st, t.pnl, t.equity)
<1>1. /\ n \in Nat /\ Len(more) = n + 1 /\ since \in Nat /\ since <= n
      /\ \A i \in 1 .. n : more[i] = trades[i]
      /\ more[n + 1] = t
  OBVIOUS
<1>2. t.pnl \in Int
  BY DEF ClosedTrade
<1>3. /\ next.trades = st.trades + 1
      /\ next.won = IF t.pnl > 0 THEN st.won + 1 ELSE st.won
      /\ next.wins = IF t.pnl > 0 THEN st.wins + 1 ELSE 0
      /\ next.losses = IF t.pnl > 0 THEN 0 ELSE st.losses + 1
      /\ next.peak = Higher(st.peak, t.equity)
  BY DEF Scored, GoldMiningState
<1>4. st.peak \in Nat /\ st.won \in Nat
  BY DEF GoldMiningState
<1>5. /\ st.trades = n
      /\ st.won = Cardinality(WonPlaces(trades))
      /\ EndsIn(trades, since, st.wins, WonPlaces(trades))
      /\ EndsIn(trades, since, st.losses, (1 .. n) \ WonPlaces(trades))
      /\ TopOf(trades, st.peak)
  BY DEF ProgressOf
<1> HIDE DEF more, n, next
<1>6. /\ \A i \in 1 .. n : i \in WonPlaces(more) <=> i \in WonPlaces(trades)
      /\ n + 1 \in WonPlaces(more) <=> t.pnl > 0
      /\ WonPlaces(more) \subseteq 1 .. n + 1
      /\ WonPlaces(trades) \subseteq 1 .. n
  BY <1>1 DEF WonPlaces, n
<1>7. next.won = Cardinality(WonPlaces(more))
  <2>1. IsFiniteSet(WonPlaces(trades)) /\ n + 1 \notin WonPlaces(trades)
    <3>1. IsFiniteSet(1 .. n)
      BY <1>1, FS_Interval
    <3>2. QED
      BY <1>1, <1>6, <3>1, FS_Subset
  <2>2. CASE t.pnl > 0
    <3>1. WonPlaces(more) = WonPlaces(trades) \cup {n + 1}
      BY <1>1, <1>6, <2>2
    <3>2. Cardinality(WonPlaces(more)) = Cardinality(WonPlaces(trades)) + 1
      BY <2>1, <3>1, FS_AddElement
    <3>3. QED
      BY <1>3, <1>5, <2>2, <3>2
  <2>3. CASE ~(t.pnl > 0)
    <3>1. WonPlaces(more) = WonPlaces(trades)
      <4>1. WonPlaces(more) \subseteq 1 .. n
        BY <1>1, <1>6, <2>3
      <4>2. QED
        BY <1>6, <4>1
    <3>2. QED
      BY <1>3, <1>5, <2>3, <3>1
  <2>4. QED
    BY <2>2, <2>3
<1>8. EndsIn(more, since, next.wins, WonPlaces(more))
  <2>1. /\ n + 1 \in WonPlaces(more) => EndsIn(more, since, st.wins + 1, WonPlaces(more))
        /\ n + 1 \notin WonPlaces(more) => EndsIn(more, since, 0, WonPlaces(more))
    BY <1>1, <1>5, <1>6, StreakStep DEF n
  <2>2. QED
    BY <1>3, <1>6, <2>1
<1>9. EndsIn(more, since, next.losses, (1 .. n + 1) \ WonPlaces(more))
  <2> DEFINE lost  == (1 .. n) \ WonPlaces(trades)
             lost2 == (1 .. n + 1) \ WonPlaces(more)
  <2>1. /\ \A i \in 1 .. n : i \in lost2 <=> i \in lost
        /\ n + 1 \in lost2 <=> ~(t.pnl > 0)
    BY <1>1, <1>6
  <2>2. EndsIn(trades, since, st.losses, lost)
    BY <1>5
  <2> HIDE DEF lost, lost2
  <2>3. /\ n + 1 \in lost2 => EndsIn(more, since, st.losses + 1, lost2)
        /\ n + 1 \notin lost2 => EndsIn(more, since, 0, lost2)
    BY <1>1, <2>1, <2>2, StreakStep DEF n
  <2>4. EndsIn(more, since, next.losses, lost2)
    BY <1>3, <2>1, <2>3
  <2>5. QED
    BY <2>4 DEF lost2
<1>10. TopOf(more, next.peak)
  <2> DEFINE top == next.peak
  <2>1. top = (IF st.peak > t.equity THEN st.peak ELSE t.equity)
    BY <1>3 DEF Higher
  <2>2. /\ InitialCash <= st.peak /\ InitialCash \in Nat
        /\ \A i \in 1 .. n : trades[i].equity <= st.peak /\ trades[i].equity \in Int
        /\ st.peak = InitialCash \/ \E i \in 1 .. n : trades[i].equity = st.peak
    BY <1>5, AccountAssumption, TradeTypes DEF TopOf, n
  <2> HIDE DEF top
  <2>3. st.peak <= top /\ t.equity <= top /\ top \in Nat
    BY <1>4, <2>1
  <2>4. ASSUME NEW i \in 1 .. n + 1
        PROVE  more[i].equity <= top
    <3>1. CASE i = n + 1
      BY <1>1, <2>3, <3>1
    <3>2. CASE i \in 1 .. n
      BY <1>1, <1>4, <2>2, <2>3, <3>2, SMTT(30)
    <3>3. QED
      BY <1>1, <3>1, <3>2
  <2>5. top = InitialCash \/ \E i \in 1 .. n + 1 : more[i].equity = top
    <3>1. CASE top = t.equity
      BY <1>1, <3>1
    <3>2. CASE top = st.peak
      BY <1>1, <2>2, <3>2
    <3>3. QED
      BY <2>1, <3>1, <3>2
  <2>6. InitialCash <= top
    BY <1>4, <2>2, <2>3
  <2>7. QED
    BY <1>1, <2>4, <2>5, <2>6 DEF TopOf, top
<1>11. next.trades = n + 1
  BY <1>3, <1>5
<1>12. QED
  BY <1>1, <1>7, <1>8, <1>9, <1>10, <1>11 DEF ProgressOf, more, next

ProgressInv == ProgressOf(state, closed, tierSince)

(* A change of tier starts the streaks anew, from the trade it came after.  *)
LEMMA MovedProgress ==
  ASSUME NEW st \in GoldMiningState, NEW trades \in Seq(ClosedTrade), NEW t,
         NEW since, ProgressOf(st, trades, since)
  PROVE  ProgressOf(MoveTo(st, t), trades, Len(trades))
<1> DEFINE next == MoveTo(st, t)
<1>1. /\ next.trades = st.trades /\ next.won = st.won /\ next.peak = st.peak
      /\ next.wins = 0 /\ next.losses = 0
  BY DEF MoveTo, GoldMiningState
<1>2. \A places : EndsIn(trades, Len(trades), 0, places)
  BY DEF EndsIn
<1> HIDE DEF next
<1>3. QED
  BY <1>1, <1>2 DEF ProgressOf, next

(* Graduation and fallback leave the record or start the streaks anew, and  *)
(* they show in the tier.                                                   *)
LEMMA EvaluatedMoves ==
  ASSUME NEW st \in GoldMiningState, NEW profit, NEW capital
  PROVE  \/ /\ Evaluated(st, profit, capital) = st
         \/ /\ Evaluated(st, profit, capital) = MoveTo(st, st.tier + 1)
            /\ Evaluated(st, profit, capital).tier = st.tier + 1
            /\ CanGraduate(st, profit)
         \/ /\ Evaluated(st, profit, capital) = MoveTo(st, st.tier - 1)
            /\ Evaluated(st, profit, capital).tier = st.tier - 1
            /\ ShouldFallback(st, capital)
<1>1. \A t : MoveTo(st, t).tier = t
  BY DEF MoveTo, GoldMiningState
<1>2. QED
  BY <1>1 DEF Evaluated

(* What a closed trade makes of the record, before and after the ladder is  *)
(* looked at.                                                               *)
LEMMA SettleProgress ==
  ASSUME TypeInv, ProgressInv, NEW s \in Symbols, NEW price \in Prices, NEW fee \in Nat,
         SettleTrade(s, price, fee)
  PROVE  LET scored == Scored(state, realized' - realized, cash')
         IN /\ scored \in GoldMiningState /\ scored.tier = state.tier
            /\ state' = Evaluated(scored, realized', cash')
            /\ closed' \in Seq(ClosedTrade) /\ Len(closed') = Len(closed) + 1
            /\ closed'[Len(closed')].profit = realized'
            /\ closed'[Len(closed')].equity = cash'
            /\ ProgressOf(scored, closed', tierSince)
            /\ tierSince' = IF state'.tier # state.tier THEN Len(closed') ELSE tierSince
<1> DEFINE scored == Scored(state, realized' - realized, cash')
           trade  == [pnl |-> realized' - realized, equity |-> cash', profit |-> realized']
<1>1. /\ cash' \in Nat /\ realized' \in Int /\ realized' - realized \in Int
      /\ closed' = Append(closed, trade)
  BY SettleStep
<1>2. /\ state' = Evaluated(scored, realized', cash')
      /\ tierSince' = IF state'.tier # state.tier THEN Len(closed') ELSE tierSince
  BY DEF SettleTrade
<1>3. state \in GoldMiningState /\ closed \in Seq(ClosedTrade) /\ tierSince \in 0 .. Len(closed)
  BY DEF TypeInv, ClosedTrade
<1>4. scored \in GoldMiningState
  BY <1>1, <1>3, ScoredType
<1>5. scored.tier = state.tier
  BY <1>3 DEF Scored, GoldMiningState
<1>6. trade \in ClosedTrade /\ trade.equity \in Nat /\ trade.equity = cash'
      /\ trade.pnl = realized' - realized /\ trade.profit = realized'
  BY <1>1 DEF ClosedTrade
<1> HIDE DEF trade
<1>7. /\ closed' \in Seq(ClosedTrade) /\ Len(closed') = Len(closed) + 1
      /\ closed'[Len(closed')] = trade
  BY <1>1, <1>3, <1>6
<1>8. ProgressOf(Scored(state, trade.pnl, trade.equity), Append(closed, trade), tierSince)
  BY <1>3, <1>6, ScoredProgress DEF ProgressInv
<1>9. QED
  BY <1>1, <1>2, <1>4, <1>5, <1>6, <1>7, <1>8

(* The record stays in step with the trades. *)
LEMMA ProgressInductive ==
  ASSUME TypeInv, TypeInv', ProgressInv, [Next]_vars
  PROVE  ProgressInv'
<1>1. ASSUME NEW s \in Symbols, NEW price \in Prices,
             ReportTradeResult(s, price) \/ ManualExit(s, price)
      PROVE  ProgressInv'
  <2>1. PICK fee \in Nat : SettleTrade(s, price, fee)
    BY <1>1, ClosingStep
  <2> DEFINE scored == Scored(state, realized' - realized, cash')
  <2>2. /\ scored \in GoldMiningState /\ scored.tier = state.tier
        /\ state' = Evaluated(scored, realized', cash')
        /\ closed' \in Seq(ClosedTrade) /\ Len(closed') \in Nat
        /\ ProgressOf(scored, closed', tierSince)
        /\ tierSince' = IF state'.tier # state.tier THEN Len(closed') ELSE tierSince
    BY <2>1, SettleProgress
  <2> HIDE DEF scored
  <2>3. state.tier \in Int
    BY DEF TypeInv, GoldMiningState, Tier
  <2>4. CASE state' = scored
    <3>1. tierSince' = tierSince
      BY <2>2, <2>4
    <3>2. QED
      BY <2>2, <2>4, <3>1 DEF ProgressInv
  <2>5. ASSUME NEW t, state' = MoveTo(scored, t), state'.tier # state.tier
        PROVE  ProgressInv'
    <3>1. tierSince' = Len(closed')
      BY <2>2, <2>5
    <3>2. ProgressOf(MoveTo(scored, t), closed', Len(closed'))
      BY <2>2, MovedProgress
    <3>3. QED
      BY <2>5, <3>1, <3>2 DEF ProgressInv
  <2>6. QED
    BY <2>2, <2>3, <2>4, <2>5, EvaluatedMoves
<1>2. ASSUME NEW t \in Tier, AutoSelectTier(t)
      PROVE  ProgressInv'
  <2>1. /\ state' = MoveTo(state, t) /\ tierSince' = Len(closed) /\ closed' = closed
        /\ state \in GoldMiningState /\ closed \in Seq(ClosedTrade)
    BY <1>2 DEF AutoSelectTier, TypeInv, ClosedTrade
  <2>2. ProgressOf(MoveTo(state, t), closed, Len(closed))
    BY <2>1, MovedProgress DEF ProgressInv
  <2>3. QED
    BY <2>1, <2>2 DEF ProgressInv
<1>3. CASE UNCHANGED <<state, closed, tierSince>>
  BY <1>3 DEF ProgressInv
<1>4. ASSUME NEW s \in Symbols, NEW price \in Prices, ProcessSymbol(s, price)
      PROVE  ProgressInv'
  BY <1>3, <1>4 DEF ProcessSymbol, historyVars
<1>5. CASE Restart
  BY <1>3, <1>5 DEF Restart
<1>6. CASE UNCHANGED vars
  BY <1>3, <1>6 DEF vars, historyVars
<1>7. QED
  BY <1>1, <1>2, <1>4, <1>5, <1>6 DEF Next

(* In every state the record is that of the trades. *)
LEMMA ProgressAlways == Spec => [](TypeInv /\ ProgressInv)
<1>1. Init => ProgressInv
  <2> SUFFICES ASSUME Init PROVE ProgressInv
    OBVIOUS
  <2>1. PICK t \in Tier :
          state = [tier |-> t, wins |-> 0, losses |-> 0, trades |-> 0, won |-> 0,
                   peak |-> InitialCash]
    BY DEF Init
  <2>2. closed = <<>> /\ Len(closed) = 0 /\ tierSince = 0
    BY DEF Init
  <2>3. WonPlaces(closed) = {} /\ Cardinality({}) = 0
    BY <2>2, FS_EmptySet DEF WonPlaces
  <2>4. \A places : EndsIn(closed, tierSince, 0, places)
    BY <2>2 DEF EndsIn
  <2>5. TopOf(closed, InitialCash)
    BY <2>2, AccountAssumption DEF TopOf
  <2>6. QED
    BY <2>1, <2>2, <2>3, <2>4, <2>5 DEF ProgressInv, ProgressOf
<1>2. TypeInv /\ TypeInv' /\ ProgressInv /\ [Next]_vars => ProgressInv'
  BY ProgressInductive
<1>3. QED
  BY <1>1, <1>2, GoldTypes, PTL DEF Spec

(* For any prices, tiers and limits the counters by which the ladder judges *)
(* (total_trades, win_count, the streaks and peak_equity of                 *)
(* GoldMiningState) are what the closed trades say, restarts included.      *)
THEOREM ProgressCorrect == Spec => []ProgressMatchesHistory
<1>1. TypeInv /\ ProgressInv => ProgressMatchesHistory
  BY ProgressSays DEF ProgressInv
<1>2. QED
  BY <1>1, ProgressAlways, PTL

(* A closed trade moves the ladder by what the trades have earned. *)
LEMMA SettledMoveIsEarned ==
  ASSUME TypeInv, TypeInv', ProgressInv, NEW s \in Symbols, NEW price \in Prices,
         NEW fee \in Nat, SettleTrade(s, price, fee)
  PROVE  EarnedMove
<1> DEFINE scored == Scored(state, realized' - realized, cash')
           here   == SubSeq(closed', tierSince + 1, Len(closed'))
           last   == closed'[Len(closed')]
<1>1. /\ scored \in GoldMiningState /\ scored.tier = state.tier
      /\ state' = Evaluated(scored, realized', cash')
      /\ closed' \in Seq(ClosedTrade) /\ Len(closed') = Len(closed) + 1
      /\ last.profit = realized' /\ last.equity = cash'
      /\ ProgressOf(scored, closed', tierSince)
  BY SettleProgress
<1>2. /\ Len(closed) \in Nat /\ tierSince \in 0 .. Len(closed)
      /\ state.tier \in Int
      /\ DOMAIN closed' = 1 .. Len(closed')
  BY <1>1, TradeTypes DEF TypeInv, GoldMiningState, Tier
<1>3. tierSince \in 0 .. Len(closed')
  BY <1>1, <1>2
<1>4. Trailing(here, Won) = scored.wins /\ Trailing(here, Lost) = scored.losses
  <2>1. PICK trades \in Seq(ClosedTrade) : closed' = trades
    BY <1>1
  <2>2. /\ Trailing(SubSeq(trades, tierSince + 1, Len(trades)), Won) = scored.wins
        /\ Trailing(SubSeq(trades, tierSince + 1, Len(trades)), Lost) = scored.losses
    BY <1>1, <1>3, <2>1, StreaksAre
  <2>3. QED
    BY <2>1, <2>2
<1> HIDE DEF scored, here, last
<1>5. CASE state' = scored
  BY <1>1, <1>5 DEF EarnedMove
<1>6. CASE state'.tier = scored.tier + 1 /\ CanGraduate(scored, realized')
  <2>1. /\ realized' >= Tiers[scored.tier + 1].capital
        /\ scored.wins >= Tiers[scored.tier + 1].wins
        /\ 100 * scored.won >= Tiers[scored.tier + 1].rate * scored.trades
    BY <1>6 DEF CanGraduate
  <2>2. /\ scored.trades = Len(closed')
        /\ scored.won = Cardinality({i \in DOMAIN closed' : Won(closed'[i].pnl)})
    BY <1>1, <1>2 DEF ProgressOf, WonPlaces, Won
  <2>3. QED
    BY <1>1, <1>4, <1>6, <2>1, <2>2 DEF EarnedMove, here, last
<1>7. CASE state'.tier = scored.tier - 1 /\ ShouldFallback(scored, cash')
  <2>1. \/ scored.losses >= FallbackLosses
        \/ 100 * (scored.peak - cash') >= FallbackPct * scored.peak
    BY <1>7 DEF ShouldFallback
  <2>2. scored.losses >= FallbackLosses \/ DrawnDown(closed')
    <3>1. \/ scored.peak = InitialCash
          \/ \E i \in DOMAIN closed' : closed'[i].equity = scored.peak
      BY <1>1, <1>2 DEF ProgressOf, TopOf
    <3>2. CASE /\ scored.peak = InitialCash
               /\ 100 * (scored.peak - cash') >= FallbackPct * scored.peak
      <4>1. 100 * (InitialCash - last.equity) >= FallbackPct * InitialCash
        BY <1>1, <3>2
      <4>2. QED
        BY <4>1 DEF DrawnDown, last
    <3>3. CASE /\ \E i \in DOMAIN closed' : closed'[i].equity = scored.peak
               /\ 100 * (scored.peak - cash') >= FallbackPct * scored.peak
      <4>1. \E i \in DOMAIN closed' :
              100 * (closed'[i].equity - last.equity) >= FallbackPct * closed'[i].equity
        BY <1>1, <3>3
      <4>2. QED
        BY <4>1 DEF DrawnDown, last
    <3>4. QED
      BY <2>1, <3>1, <3>2, <3>3
  <2>3. QED
    BY <1>1, <1>4, <1>7, <2>2 DEF EarnedMove, here
<1>8. QED
  BY <1>1, <1>5, <1>6, <1>7, EvaluatedMoves

(* For any ladder and any limits a closed trade moves it by one rung, for   *)
(* the reason _can_graduate or _should_fallback names, and by the trades    *)
(* there were since the tier last changed.                                  *)
THEOREM TierMovesEarned == Spec => TierMovesAreEarned
<1>1. TypeInv /\ TypeInv' /\ ProgressInv /\ [Next]_vars => [EarnedMove]_vars
  <2> SUFFICES ASSUME TypeInv, TypeInv', ProgressInv, [Next]_vars
               PROVE  EarnedMove \/ UNCHANGED vars
    OBVIOUS
  <2>1. ASSUME NEW s \in Symbols, NEW price \in Prices,
               ReportTradeResult(s, price) \/ ManualExit(s, price)
        PROVE  EarnedMove
    BY <2>1, ClosingStep, SettledMoveIsEarned
  <2>2. ASSUME closed' = closed
        PROVE  EarnedMove
    BY <2>2 DEF EarnedMove
  <2>3. QED
    BY <2>1, <2>2 DEF Next, ProcessSymbol, AutoSelectTier, Restart, historyVars
<1>2. QED
  BY <1>1, ProgressAlways, PTL DEF TierMovesAreEarned, Spec
=============================================================================
