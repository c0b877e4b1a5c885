------------------------ MODULE OrderRoutingProofs ------------------------
(* Theorems about the order state machine, and about the order life cycle   *)
(* between a client and its brokers, whose steps are steps of the machine.  *)
EXTENDS OrderRouting, FiniteSetTheorems, TLAPS

(* A move of the matrix or the absence of one: the next state is a state.   *)
LEMMA NextStatesType ==
  ASSUME NEW s \in OrderState, NEW e \in OrderEvent
  PROVE  NextStates(s, e) \subseteq OrderState
BY DEF NextStates

(* No row of the matrix starts in FILLED, so every event leaves it there.   *)
LEMMA FilledRowIsEmpty ==
  ASSUME NEW e, NEW t \in NextStates("FILLED", e)
  PROVE  t = "FILLED"
<1>1. \A u \in OrderState : <<"FILLED", e, u>> \notin Transitions
  BY DEF Transitions
<1>2. QED
  BY <1>1 DEF NextStates

-----------------------------------------------------------------------------
(* Every method keeps the types. *)
LEMMA TypeStep == TypeOK /\ [Next]_osmVars => TypeOK'
<1> SUFFICES ASSUME TypeOK, [Next]_osmVars PROVE TypeOK'
  OBVIOUS
<1> USE ConstantsAssumption
<1>1. ASSUME NEW o \in OrderIds, CreateOrder(o) PROVE TypeOK'
  BY <1>1 DEF CreateOrder, TypeOK, callerVars, OrderState
<1>2. ASSUME NEW o \in OrderIds, NEW e \in OrderEvent, NEW p \in Payload,
             Transition(o, e, p)
      PROVE  TypeOK'
  <2>1. PICK t \in NextStates(state[o], e) :
          /\ filled' = IF p # NoPayload /\ t \in {"FILLED", "PARTIAL_FILL"}
                         THEN [filled EXCEPT ![o] = p] ELSE filled
          /\ state'  = [state EXCEPT ![o] = t]
          /\ last'   = [last EXCEPT ![o] = [from |-> state[o], to |-> t]]
    BY <1>2 DEF Transition, DoTransition
  <2>2. state[o] \in OrderState /\ t \in OrderState
    BY <1>2, <2>1, NextStatesType DEF Transition, Known, TypeOK
  <2>3. filled' \in [OrderIds -> 0 .. Size]
    BY <2>1 DEF TypeOK, Payload
  <2>4. last' \in [OrderIds -> LogEntry]
    BY <2>1, <2>2 DEF TypeOK, LogEntry
  <2>5. QED
    BY <1>2, <2>1, <2>2, <2>3, <2>4 DEF Transition, TypeOK, callerVars
<1>3. ASSUME NEW c \in Callers, NEW o \in OrderIds, RetryBegin(c, o)
      PROVE  TypeOK'
  BY <1>3 DEF RetryBegin, TypeOK, orderVars
<1>4. ASSUME NEW c \in Callers, RetryEnd(c) PROVE TypeOK'
  <2> DEFINE o == asleep[c]
  <2>1. o \in OrderIds
    BY <1>4 DEF RetryEnd, TypeOK
  <2>2. PICK t \in NextStates(state[o], "retry") :
          /\ filled' = filled
          /\ state'  = [state EXCEPT ![o] = t]
          /\ last'   = [last EXCEPT ![o] = [from |-> state[o], to |-> t]]
    BY <1>4 DEF RetryEnd, DoTransition
  <2>3. t \in OrderState \cup {"NONE"}
    BY <2>1, <2>2, NextStatesType DEF TypeOK, NextStates
  <2>4. last' \in [OrderIds -> LogEntry]
    BY <2>1, <2>2, <2>3 DEF TypeOK, LogEntry
  <2>5. retries' \in [OrderIds -> Nat]
    BY <1>4, <2>1 DEF RetryEnd, TypeOK
  <2>6. QED
    BY <1>4, <2>1, <2>2, <2>3, <2>4, <2>5 DEF RetryEnd, TypeOK
<1>5. CASE EvictStale
  BY <1>5 DEF EvictStale, TypeOK, callerVars, OrderState
<1>6. CASE Tick
  BY <1>6 DEF Tick, TypeOK, orderVars, callerVars
<1>7. CASE UNCHANGED osmVars
  BY <1>7 DEF osmVars, orderVars, callerVars, TypeOK
<1>8. QED
  BY <1>1, <1>2, <1>3, <1>4, <1>5, <1>6, <1>7 DEF Next

(* Type correctness of the order life cycle, for every value of the         *)
(* constants.                                                               *)
THEOREM TypeCorrect == Spec => []TypeOK
<1>1. Init => TypeOK
  BY ConstantsAssumption DEF Init, TypeOK, LogEntry, NoEntry, OrderState
<1>2. QED
  BY <1>1, TypeStep, PTL DEF Spec

-----------------------------------------------------------------------------
(* A key is a number that create_order has already issued; a caller asleep  *)
(* in retry() holds such a key.                                             *)
KeysIssued ==
  /\ \A o \in OrderIds : key[o] <= issued
  /\ \A c \in Callers : seen[c] <= issued

(* Only create_order moves keys, and it issues a new one. *)
LEMMA KeysStep == TypeOK /\ KeysIssued /\ [Next]_osmVars => KeysIssued'
<1> SUFFICES ASSUME TypeOK, KeysIssued, [Next]_osmVars PROVE KeysIssued'
  OBVIOUS
<1>1. ASSUME NEW o \in OrderIds, CreateOrder(o) PROVE KeysIssued'
  BY <1>1 DEF CreateOrder, KeysIssued, TypeOK, callerVars
<1>2. ASSUME NEW c \in Callers, NEW o \in OrderIds, RetryBegin(c, o)
      PROVE  KeysIssued'
  BY <1>2 DEF RetryBegin, KeysIssued, TypeOK, orderVars
<1>3. CASE UNCHANGED <<key, issued, seen>>
  BY <1>3 DEF KeysIssued
<1>4. QED
  BY <1>1, <1>2, <1>3 DEF Next, Transition, RetryEnd, EvictStale, Tick,
     osmVars, orderVars, callerVars

(* The number of callers is a positive number, and so is bounded the number *)
(* of those among them that sleep on an order.                              *)
LEMMA SleepersAreFew ==
  ASSUME NEW S \in SUBSET Callers
  PROVE  /\ IsFiniteSet(S)
         /\ Cardinality(S) \in Nat
         /\ Cardinality(Callers) \in Nat \ {0}
         /\ Cardinality(S) <= Cardinality(Callers)
BY ConstantsAssumption, FS_Subset, FS_CardinalityType, FS_EmptySet

(* What a caller that wakes up does to the sum of spent and reserved tries. *)
LEMMA WakeUp ==
  ASSUME TypeOK, NEW c \in Callers, RetryEnd(c), NEW o \in OrderIds
  PROVE  retries'[o] + Cardinality(Sleepers(o)') = retries[o] + Cardinality(Sleepers(o))
<1> DEFINE p == asleep[c]
<1>1. p \in OrderIds /\ key' = key /\ seen' = seen
      /\ asleep' = [asleep EXCEPT ![c] = NoOrder]
      /\ retries' = IF seen[c] = key[p] THEN [retries EXCEPT ![p] = @ + 1] ELSE retries
  BY DEF RetryEnd, TypeOK
<1>2. Sleepers(o)' = Sleepers(o) \ {c}
  BY <1>1, ConstantsAssumption DEF Sleepers, TypeOK
<1>3. Cardinality(Sleepers(o)) \in Nat /\ IsFiniteSet(Sleepers(o))
  BY SleepersAreFew DEF Sleepers
<1>4. Cardinality(Sleepers(o) \ {c})
        = IF c \in Sleepers(o) THEN Cardinality(Sleepers(o)) - 1
                               ELSE Cardinality(Sleepers(o))
  BY <1>3, FS_RemoveElement
<1>5. CASE o = p /\ seen[c] = key[p]
  <2>1. c \in Sleepers(o)
    BY <1>5 DEF Sleepers
  <2>2. retries'[o] = retries[o] + 1 /\ retries[o] \in Nat
    BY <1>1, <1>5 DEF TypeOK
  <2>3. QED
    BY <2>1, <2>2, <1>2, <1>3, <1>4
<1>6. CASE ~(o = p /\ seen[c] = key[p])
  <2>1. c \notin Sleepers(o)
    BY <1>6 DEF Sleepers
  <2>2. retries'[o] = retries[o]
    BY <1>1, <1>6 DEF TypeOK
  <2>3. QED
    BY <2>1, <2>2, <1>2, <1>4
<1>7. QED
  BY <1>5, <1>6

(* The retry budget of order_state_machine.py:131-141 holds for every       *)
(* number of concurrent callers, although the budget is read before the     *)
(* backoff and spent after it.                                              *)
THEOREM RetryBudgetHolds == Spec => []RetryBudget
<1> DEFINE Bound == MaxRetries + Cardinality(Callers) - 1
<1>1. Init => RetryBudget /\ KeysIssued
  <2> SUFFICES ASSUME Init PROVE RetryBudget /\ KeysIssued
    OBVIOUS
  <2>1. \A o \in OrderIds : Sleepers(o) = {}
    BY ConstantsAssumption DEF Init, Sleepers
  <2>2. Cardinality({}) = 0
    BY FS_EmptySet
  <2>3. Cardinality(Callers) \in Nat \ {0}
    BY SleepersAreFew
  <2>4. QED
    BY <2>1, <2>2, <2>3, ConstantsAssumption DEF Init, RetryBudget, KeysIssued
<1>2. TypeOK /\ KeysIssued /\ RetryBudget /\ [Next]_osmVars => RetryBudget'
  <2> SUFFICES ASSUME TypeOK, KeysIssued, RetryBudget, [Next]_osmVars,
                      NEW o \in OrderIds
               PROVE  retries'[o] + Cardinality(Sleepers(o)') <= Bound
    BY DEF RetryBudget, Sleepers
  <2>0. /\ retries[o] \in Nat
        /\ Cardinality(Callers) \in Nat \ {0}
        /\ Bound \in Nat
        /\ retries[o] + Cardinality(Sleepers(o)) <= Bound
    BY SleepersAreFew, ConstantsAssumption DEF TypeOK, RetryBudget
  <2>1. ASSUME NEW p \in OrderIds, CreateOrder(p)
        PROVE  retries'[o] + Cardinality(Sleepers(o)') <= Bound
    <3>1. CASE p = o
      <4>1. Sleepers(o)' = {}
        BY <2>1, <3>1 DEF CreateOrder, Sleepers, KeysIssued, TypeOK, callerVars
      <4>2. retries'[o] = 0
        BY <2>1, <3>1 DEF CreateOrder, TypeOK
      <4>3. QED
        BY <4>1, <4>2, <2>0, FS_EmptySet
    <3>2. CASE p # o
      <4>1. Sleepers(o)' = Sleepers(o) /\ retries'[o] = retries[o]
        BY <2>1, <3>2 DEF CreateOrder, Sleepers, TypeOK, callerVars
      <4>2. QED
        BY <4>1, <2>0
    <3>3. QED
      BY <3>1, <3>2
  <2>2. ASSUME NEW c \in Callers, NEW p \in OrderIds, RetryBegin(c, p)
        PROVE  retries'[o] + Cardinality(Sleepers(o)') <= Bound
    <3>1. retries' = retries /\ key' = key
      BY <2>2 DEF RetryBegin, orderVars
    <3>2. CASE p = o
      <4>1. retries[o] < MaxRetries
        BY <2>2, <3>2 DEF RetryBegin
      <4>2. Cardinality(Sleepers(o)') \in Nat
            /\ Cardinality(Sleepers(o)') <= Cardinality(Callers)
        BY SleepersAreFew DEF Sleepers
      <4>3. QED
        BY <3>1, <4>1, <4>2, <2>0, ConstantsAssumption
    <3>3. CASE p # o
      <4>1. Sleepers(o)' = Sleepers(o)
        BY <2>2, <3>1, <3>3, ConstantsAssumption DEF RetryBegin, Sleepers, TypeOK
      <4>2. QED
        BY <3>1, <4>1, <2>0
    <3>4. QED
      BY <3>2, <3>3
  <2>3. ASSUME NEW c \in Callers, RetryEnd(c)
        PROVE  retries'[o] + Cardinality(Sleepers(o)') <= Bound
    BY <2>3, <2>0, WakeUp
  <2>4. CASE UNCHANGED <<retries, key, asleep, seen>>
    BY <2>4, <2>0 DEF Sleepers
  <2>5. QED
    BY <2>1, <2>2, <2>3, <2>4 DEF Next, Transition, EvictStale, Tick,
       osmVars, orderVars, callerVars
<1>3. QED
  BY <1>1, <1>2, KeysStep, TypeCorrect, PTL DEF Spec

-----------------------------------------------------------------------------
(* A step of the machine takes an order out of FILLED only by giving it a   *)
(* new key.                                                                 *)
LEMMA FilledStep ==
  TypeOK /\ KeysIssued /\ [Next]_osmVars =>
    [\A o \in OrderIds :
       state[o] = "FILLED" /\ key'[o] = key[o] => state'[o] = "FILLED"]_osmVars
<1> SUFFICES ASSUME TypeOK, KeysIssued, Next,
                    NEW o \in OrderIds, state[o] = "FILLED", key'[o] = key[o]
             PROVE  state'[o] = "FILLED"
  OBVIOUS
<1>1. ASSUME NEW p \in OrderIds, CreateOrder(p) PROVE state'[o] = "FILLED"
  <2>1. p # o
    BY <1>1 DEF CreateOrder, KeysIssued, TypeOK
  <2>2. QED
    BY <1>1, <2>1 DEF CreateOrder, TypeOK
<1>2. ASSUME NEW p, NEW e, NEW q, DoTransition(p, e, q)
      PROVE  state'[o] = "FILLED"
  <2>1. PICK t \in NextStates(state[p], e) : state' = [state EXCEPT ![p] = t]
    BY <1>2 DEF DoTransition
  <2>2. QED
    BY <2>1, FilledRowIsEmpty DEF TypeOK
<1>3. CASE EvictStale
  BY <1>3 DEF EvictStale, Evictable
<1>4. CASE state' = state
  BY <1>4
<1>5. QED
  BY <1>1, <1>2, <1>3, <1>4 DEF Next, Transition, RetryBegin, RetryEnd, Tick,
     orderVars

(* FILLED is final, for every number of orders and callers: neither the     *)
(* events of the matrix, nor a retry that wakes up late, nor the sweep take *)
(* an order out of it; only create_order does, and it issues a new key.     *)
THEOREM FilledStaysFilled == Spec => FilledIsFinal
<1>1. Init => KeysIssued
  BY DEF Init, KeysIssued
<1>2. QED
  BY <1>1, FilledStep, KeysStep, TypeCorrect, PTL DEF Spec, FilledIsFinal

(* The audit trail explains every state but those that create_order and     *)
(* evict_stale write past it.                                               *)
THEOREM LogIsFaithful == Spec => []LogExplainsState
<1>1. Init => LogExplainsState
  BY DEF Init, LogExplainsState, Known
<1>2. TypeOK /\ LogExplainsState /\ [Next]_osmVars => LogExplainsState'
  <2> SUFFICES ASSUME TypeOK, LogExplainsState, [Next]_osmVars,
                      NEW o \in OrderIds, Known(o)'
               PROVE  state'[o] \in {last'[o].to, "PENDING", "EXPIRED"}
    BY DEF LogExplainsState
  <2>0. Known(o) => state[o] \in {last[o].to, "PENDING", "EXPIRED"}
    BY DEF LogExplainsState
  <2>1. ASSUME NEW p \in OrderIds, CreateOrder(p)
        PROVE  state'[o] \in {last'[o].to, "PENDING", "EXPIRED"}
    BY <2>0, <2>1 DEF CreateOrder, Known, TypeOK
  <2>2. ASSUME NEW p \in OrderIds, NEW e, NEW q, DoTransition(p, e, q)
        PROVE  state'[o] \in {last'[o].to, "PENDING", "EXPIRED"}
    <3>1. PICK t :
            /\ state' = [state EXCEPT ![p] = t]
            /\ last'  = [last EXCEPT ![p] = [from |-> state[p], to |-> t]]
      BY <2>2 DEF DoTransition
    <3>2. QED
      BY <2>0, <3>1 DEF TypeOK, Known
  <2>3. CASE EvictStale
    BY <2>0, <2>3 DEF EvictStale, Evictable, Old, Known, TypeOK
  <2>4. CASE UNCHANGED <<state, last>>
    BY <2>0, <2>4 DEF Known
  <2>5. QED
    <3>1. ASSUME NEW c \in Callers, RetryEnd(c)
          PROVE  state'[o] \in {last'[o].to, "PENDING", "EXPIRED"}
      <4>1. asleep[c] \in OrderIds /\ DoTransition(asleep[c], "retry", NoPayload)
        BY <3>1 DEF RetryEnd, TypeOK
      <4>2. QED
        BY <4>1, <2>2
    <3>2. QED
      BY <2>1, <2>2, <2>3, <2>4, <3>1 DEF Next, Transition, RetryBegin, Tick,
         osmVars, orderVars
<1>3. QED
  BY <1>1, <1>2, TypeCorrect, PTL DEF Spec

-----------------------------------------------------------------------------
(* Every step of the composition is a step of the machine or leaves it      *)
(* alone, so what is proved of the machine holds in the composition.        *)
LEMMA RoutingStepIsMachineStep ==
  RoutingTypeOK /\ [RoutingNext]_routingVars => [Next]_osmVars
<1> SUFFICES ASSUME RoutingTypeOK, [RoutingNext]_routingVars PROVE [Next]_osmVars
  OBVIOUS
<1>1. ASSUME NEW o \in OrderIds, NEW e \in OrderEvent, Transition(o, e, NoPayload)
      PROVE  Next
  BY <1>1 DEF Next, Payload
<1>2. ASSUME NEW r \in reports, Deliver(r) PROVE Next
  <2>1. r.id \in OrderIds /\ r.event \in OrderEvent /\ r.size \in Payload
    BY DEF RoutingTypeOK, Report, OrderEvent
  <2>2. QED
    BY <1>2, <2>1 DEF Deliver, Next
<1>3. {"submit", "error", "cancel", "resubmit"} \subseteq OrderEvent
  BY DEF OrderEvent
<1>4. ASSUME NEW c \in Callers, Retry(c) PROVE Next
  BY <1>4 DEF Retry, Next
<1>5. ASSUME NEW o \in OrderIds,
             Place(o) \/ Submit(o) \/ CallFails(o) \/ Cancel(o) \/ Resubmit(o)
      PROVE  Next
  BY <1>1, <1>3, <1>5 DEF Place, Submit, CallFails, Cancel, Resubmit, Next
<1>6. CASE Sweep
  BY <1>6 DEF Sweep, Next
<1>7. CASE UNCHANGED osmVars
  BY <1>7
<1>8. QED
  BY <1>2, <1>4, <1>5, <1>6, <1>7
  DEF RoutingNext, Failover, BrokerExecutes, BrokerExpires, Lose, routingVars

-----------------------------------------------------------------------------
(* The brokers' side of the types. *)
LEMMA BrokerTypeStep ==
  RoutingTypeOK /\ [RoutingNext]_routingVars => RoutingTypeOK'
<1> SUFFICES ASSUME RoutingTypeOK, [RoutingNext]_routingVars PROVE RoutingTypeOK'
  OBVIOUS
<1>0. TypeOK'
  BY RoutingStepIsMachineStep, TypeStep DEF RoutingTypeOK
<1> USE ConstantsAssumption, BoundsAssumption
<1>1. ASSUME Watch
      PROVE  revived' \in [OrderIds -> Nat] /\ dropped' \subseteq OrderIds
  BY <1>1 DEF Watch, RoutingTypeOK
<1>2. ASSUME NEW o \in OrderIds, Reach(o)
      PROVE  /\ sent' \in [OrderIds -> 0 .. MaxCopies]
             /\ live' \in [OrderIds -> SUBSET Copies]
             /\ sent'[o] - sent[o] \in Nat
  <2>0. sent[o] \in 0 .. MaxCopies /\ live[o] \subseteq Copies
    BY DEF RoutingTypeOK
  <2>1. CASE /\ sent[o] < MaxCopies
             /\ sent' = [sent EXCEPT ![o] = @ + 1]
             /\ live' = [live EXCEPT ![o] = @ \cup {sent[o] + 1}]
    <3>1. sent[o] + 1 \in Copies
      BY <2>0, <2>1 DEF Copies
    <3>2. sent'[o] - sent[o] = 1
      BY <2>0, <2>1 DEF RoutingTypeOK
    <3>3. QED
      BY <2>0, <2>1, <3>1, <3>2 DEF RoutingTypeOK, Copies
  <2>2. CASE UNCHANGED <<sent, live>>
    BY <2>0, <2>2 DEF RoutingTypeOK
  <2>3. QED
    BY <1>2, <2>1, <2>2 DEF Reach
<1>3. ASSUME NEW o \in OrderIds, Place(o) \/ CallFails(o) \/ Resubmit(o)
      PROVE  RoutingTypeOK'
  BY <1>0, <1>1, <1>3 DEF Place, CallFails, Resubmit, RoutingTypeOK, brokerVars
<1>4. ASSUME NEW o \in OrderIds, Submit(o) PROVE RoutingTypeOK'
  BY <1>0, <1>1, <1>2, <1>4 DEF Submit, RoutingTypeOK
<1>5. ASSUME NEW o \in OrderIds, Cancel(o) PROVE RoutingTypeOK'
  BY <1>0, <1>1, <1>5 DEF Cancel, RoutingTypeOK
<1>6. ASSUME NEW o \in OrderIds, Failover(o) PROVE RoutingTypeOK'
  <2>1. moved' \in [OrderIds -> Nat]
    BY <1>2, <1>6 DEF Failover, RoutingTypeOK
  <2>2. QED
    BY <1>0, <1>2, <1>6, <2>1 DEF Failover, RoutingTypeOK
<1>7. ASSUME NEW o \in OrderIds, NEW k \in Copies, NEW n \in 1 .. Size,
             BrokerExecutes(o, k, n)
      PROVE  RoutingTypeOK'
  <2>1. done' \in [OrderIds -> [Copies -> 0 .. Size]]
        /\ live' \in [OrderIds -> SUBSET Copies]
    BY <1>7 DEF BrokerExecutes, RoutingTypeOK
  <2>2. reports' \subseteq Report
    BY <1>7 DEF BrokerExecutes, RoutingTypeOK, Report, Payload
  <2>3. QED
    BY <1>0, <1>7, <2>1, <2>2 DEF BrokerExecutes, RoutingTypeOK, historyVars
<1>8. ASSUME NEW o \in OrderIds, NEW k \in Copies, BrokerExpires(o, k)
      PROVE  RoutingTypeOK'
  BY <1>0, <1>8 DEF BrokerExpires, RoutingTypeOK, Report, Payload, historyVars
<1>9. ASSUME NEW r \in reports, Deliver(r) PROVE RoutingTypeOK'
  BY <1>0, <1>1, <1>9 DEF Deliver, RoutingTypeOK
<1>10. ASSUME NEW r \in reports, Lose(r) PROVE RoutingTypeOK'
  BY <1>0, <1>10 DEF Lose, RoutingTypeOK, Report
<1>11. ASSUME NEW c \in Callers, Retry(c) PROVE RoutingTypeOK'
  BY <1>0, <1>1, <1>11 DEF Retry, RoutingTypeOK, brokerVars
<1>12. CASE Sweep
  BY <1>0, <1>1, <1>12 DEF Sweep, RoutingTypeOK, brokerVars
<1>13. CASE UNCHANGED routingVars
  BY <1>0, <1>13 DEF routingVars, brokerVars, historyVars, RoutingTypeOK
<1>14. QED
  BY <1>3, <1>4, <1>5, <1>6, <1>7, <1>8, <1>9, <1>10, <1>11, <1>12, <1>13
  DEF RoutingNext

(* Type correctness of the composition, for every value of the constants.   *)
THEOREM RoutingTypeCorrect == RoutingSpec => []RoutingTypeOK
<1>1. RoutingInit => RoutingTypeOK
  BY ConstantsAssumption, BoundsAssumption
  DEF RoutingInit, RoutingTypeOK, Init, TypeOK, LogEntry, NoEntry, OrderState
<1>2. QED
  BY <1>1, BrokerTypeStep, PTL DEF RoutingSpec

(* FILLED is final between brokers too.                                     *)
THEOREM RoutingFilledStaysFilled == RoutingSpec => FilledIsFinal
<1>1. RoutingInit => Init /\ KeysIssued
  BY DEF RoutingInit, Init, KeysIssued
<1>2. QED
  BY <1>1, RoutingTypeCorrect, RoutingStepIsMachineStep, KeysStep, FilledStep, PTL
  DEF RoutingSpec, FilledIsFinal, RoutingTypeOK

-----------------------------------------------------------------------------
(* Reports tell the truth: a report of a fill names a size that some copy   *)
(* has executed, the whole size if it says "fill".                          *)
ReportsAreTrue ==
  \A r \in reports :
    /\ r.event = "fill" => r.size = Size
    /\ r.size # NoPayload => \E k \in Copies : done[r.id][k] >= r.size

(* What NoPhantomFill needs to be inductive. *)
PhantomInv == RoutingTypeOK /\ ReportsAreTrue /\ NoPhantomFill

(* No event but "fill" moves an order to FILLED. *)
LEMMA OnlyFillFills ==
  ASSUME NEW s, NEW e, e # "fill", NEW t \in NextStates(s, e), t = "FILLED"
  PROVE  s = "FILLED"
BY DEF NextStates, Transitions

(* An event without a payload other than "fill" fills nothing. *)
LEMMA SilentTransition ==
  ASSUME TypeOK, NEW p, NEW e, e # "fill", DoTransition(p, e, NoPayload),
         NEW o \in OrderIds
  PROVE  filled' = filled /\ (state'[o] = "FILLED" => state[o] = "FILLED")
<1>1. PICK t \in NextStates(state[p], e) :
        state' = [state EXCEPT ![p] = t] /\ filled' = filled
  BY DEF DoTransition
<1>2. QED
  BY <1>1, OnlyFillFills DEF TypeOK

(* Nothing but a delivered report shows a fill. *)
LEMMA OnlyReportsFill ==
  ASSUME RoutingTypeOK, [RoutingNext]_routingVars, NEW o \in OrderIds,
         ~\E r \in reports : Deliver(r)
  PROVE  /\ filled'[o] \in {0, filled[o]}
         /\ state'[o] = "FILLED" => state[o] = "FILLED"
<1>1. TypeOK
  BY DEF RoutingTypeOK
<1>2. ASSUME NEW p \in OrderIds, Place(p)
      PROVE  /\ filled'[o] \in {0, filled[o]}
             /\ state'[o] = "FILLED" => state[o] = "FILLED"
  BY <1>1, <1>2 DEF Place, CreateOrder, TypeOK
<1>3. ASSUME NEW p, NEW e, e # "fill", DoTransition(p, e, NoPayload)
      PROVE  /\ filled'[o] \in {0, filled[o]}
             /\ state'[o] = "FILLED" => state[o] = "FILLED"
  BY <1>1, <1>3, SilentTransition
<1>4. CASE EvictStale
  BY <1>1, <1>4 DEF EvictStale, TypeOK
<1>5. CASE UNCHANGED <<state, filled>>
  BY <1>5
<1>6. CASE \E p \in OrderIds : Submit(p) \/ CallFails(p) \/ Cancel(p) \/ Resubmit(p)
  BY <1>3, <1>6 DEF Submit, CallFails, Cancel, Resubmit, Transition
<1>7. CASE \E c \in Callers : Retry(c)
  BY <1>3, <1>5, <1>7 DEF Retry, RetryBegin, RetryEnd, orderVars
<1>8. CASE Sweep
  BY <1>4, <1>5, <1>8 DEF Sweep, Tick, orderVars
<1>9. QED
  BY <1>2, <1>5, <1>6, <1>7, <1>8
  DEF RoutingNext, Failover, BrokerExecutes, BrokerExpires, Lose,
      routingVars, osmVars, orderVars

(* What a copy has executed only grows. *)
LEMMA DoneGrows ==
  ASSUME RoutingTypeOK, [RoutingNext]_routingVars
  PROVE  \A o \in OrderIds, k \in Copies : done'[o][k] >= done[o][k]
<1>1. ASSUME NEW o \in OrderIds, NEW k \in Copies, NEW n \in 1 .. Size,
             BrokerExecutes(o, k, n)
      PROVE  \A p \in OrderIds, j \in Copies : done'[p][j] >= done[p][j]
  BY <1>1 DEF BrokerExecutes, RoutingTypeOK
<1>2. CASE done' = done
  BY <1>2 DEF RoutingTypeOK
<1>3. QED
  BY <1>1, <1>2
  DEF RoutingNext, Place, Submit, CallFails, Cancel, Resubmit, Retry, Sweep,
      Failover, BrokerExpires, Deliver, Lose, brokerVars, routingVars

(* Reports stay true: a new one says what the broker has just done. *)
LEMMA ReportsStayTrue ==
  RoutingTypeOK /\ ReportsAreTrue /\ [RoutingNext]_routingVars => ReportsAreTrue'
<1> SUFFICES ASSUME RoutingTypeOK, ReportsAreTrue, [RoutingNext]_routingVars,
                    NEW r \in reports'
             PROVE  /\ r.event = "fill" => r.size = Size
                    /\ r.size # NoPayload => \E k \in Copies : done'[r.id][k] >= r.size
  BY DEF ReportsAreTrue
<1>1. CASE r \in reports
  <2>1. r.id \in OrderIds /\ r.size \in Payload
    BY <1>1 DEF RoutingTypeOK, Report
  <2>2. \A k \in Copies : /\ done[r.id][k] \in Nat
                         /\ done'[r.id][k] \in Nat
                         /\ done'[r.id][k] >= done[r.id][k]
    BY <2>1, DoneGrows, BrokerTypeStep DEF RoutingTypeOK
  <2>3. QED
    BY <1>1, <2>1, <2>2, ConstantsAssumption DEF ReportsAreTrue, Payload
<1>2. ASSUME NEW o \in OrderIds, NEW k \in Copies, NEW n \in 1 .. Size,
             BrokerExecutes(o, k, n), r \notin reports
      PROVE  /\ r.event = "fill" => r.size = Size
             /\ r.size # NoPayload => \E j \in Copies : done'[r.id][j] >= r.size
  <2>1. r = [id |-> o, event |-> IF n = Size THEN "fill" ELSE "partial_fill", size |-> n]
        /\ done' = [done EXCEPT ![o][k] = n]
    BY <1>2 DEF BrokerExecutes
  <2>2. done'[o][k] = n
    BY <2>1 DEF RoutingTypeOK
  <2>3. QED
    BY <2>1, <2>2
<1>3. ASSUME NEW o \in OrderIds, NEW k \in Copies, BrokerExpires(o, k), r \notin reports
      PROVE  r.event # "fill" /\ r.size = NoPayload
  BY <1>3 DEF BrokerExpires
<1>4. QED
  BY <1>1, <1>2, <1>3
  DEF RoutingNext, Place, Submit, CallFails, Cancel, Resubmit, Retry, Sweep,
      Failover, Deliver, Lose, brokerVars, routingVars

(* No phantom fills, for any number of orders, copies, retries and reports: *)
(* the machine says FILLED only if a broker executed a whole copy, and      *)
(* never shows more filled than some copy has executed.                     *)
THEOREM NoPhantomFills == RoutingSpec => []NoPhantomFill
<1>1. RoutingInit => PhantomInv
  BY ConstantsAssumption, BoundsAssumption
  DEF RoutingInit, PhantomInv, RoutingTypeOK, Init, TypeOK, LogEntry, NoEntry,
      OrderState, ReportsAreTrue, NoPhantomFill
<1>2. PhantomInv /\ [RoutingNext]_routingVars => PhantomInv'
  <2> SUFFICES ASSUME PhantomInv, [RoutingNext]_routingVars, NEW o \in OrderIds
               PROVE  /\ state'[o] = "FILLED" => \E k \in Copies : done'[o][k] = Size
                      /\ filled'[o] > 0 => \E k \in Copies : done'[o][k] >= filled'[o]
    BY BrokerTypeStep, ReportsStayTrue DEF PhantomInv, NoPhantomFill
  <2>0. RoutingTypeOK /\ RoutingTypeOK' /\ TypeOK
    BY BrokerTypeStep DEF PhantomInv, RoutingTypeOK
  <2>1. \A k \in Copies : /\ done[o][k] \in 0 .. Size
                         /\ done'[o][k] \in 0 .. Size
                         /\ done'[o][k] >= done[o][k]
    BY <2>0, DoneGrows DEF RoutingTypeOK
  <2>2. /\ filled[o] \in Nat
        /\ state[o] = "FILLED" => \E k \in Copies : done[o][k] = Size
        /\ filled[o] > 0 => \E k \in Copies : done[o][k] >= filled[o]
    BY <2>0, ConstantsAssumption DEF PhantomInv, NoPhantomFill, TypeOK
  <2>3. CASE filled'[o] \in {0, filled[o]} /\ (state'[o] = "FILLED" => state[o] = "FILLED")
    BY <2>1, <2>2, <2>3, ConstantsAssumption
  <2>4. ASSUME NEW r \in reports, Deliver(r)
        PROVE  /\ state'[o] = "FILLED" => \E k \in Copies : done'[o][k] = Size
               /\ filled'[o] > 0 => \E k \in Copies : done'[o][k] >= filled'[o]
    <3>1. CASE r.id # o
      BY <2>0, <2>3, <2>4, <3>1 DEF Deliver, Transition, DoTransition, TypeOK
    <3>2. CASE r.id = o
      <4>1. PICK t \in NextStates(state[o], r.event) :
              /\ state' = [state EXCEPT ![o] = t]
              /\ filled' = IF r.size # NoPayload /\ t \in {"FILLED", "PARTIAL_FILL"}
                             THEN [filled EXCEPT ![o] = r.size] ELSE filled
        BY <2>4, <3>2 DEF Deliver, Transition, DoTransition
      <4>2. /\ r.event = "fill" => r.size = Size
            /\ r.size # NoPayload => \E k \in Copies : done[o][k] >= r.size
            /\ r.size \in Payload
        BY <3>2 DEF PhantomInv, ReportsAreTrue, RoutingTypeOK, Report
      <4>3. t = "FILLED" => \E k \in Copies : done[o][k] = Size
        <5>1. CASE r.event = "fill"
          BY <5>1, <4>2, <2>1, ConstantsAssumption
        <5>2. CASE r.event # "fill"
          BY <5>2, <4>1, <2>2, OnlyFillFills
        <5>3. QED
          BY <5>1, <5>2
      <4>4. filled'[o] = filled[o] \/ (r.size # NoPayload /\ filled'[o] = r.size)
        BY <4>1, <2>0 DEF TypeOK
      <4>5. state'[o] = t
        BY <4>1, <2>0 DEF TypeOK
      <4>6. state'[o] = "FILLED" => \E k \in Copies : done'[o][k] = Size
        BY <4>3, <4>5, <2>1, ConstantsAssumption
      <4>7. filled'[o] > 0 => \E k \in Copies : done'[o][k] >= filled'[o]
        <5>1. CASE filled'[o] = filled[o]
          BY <5>1, <2>1, <2>2
        <5>2. CASE r.size # NoPayload /\ filled'[o] = r.size
          BY <5>2, <4>2, <2>1, ConstantsAssumption DEF Payload
        <5>3. QED
          BY <4>4, <5>1, <5>2
      <4>8. QED
        BY <4>6, <4>7
    <3>3. QED
      BY <3>1, <3>2
  <2>5. QED
    BY <2>0, <2>3, <2>4, OnlyReportsFill
<1>3. QED
  BY <1>1, <1>2, PTL DEF RoutingSpec, PhantomInv

-----------------------------------------------------------------------------
(* One submission is open to an order that is known and not PENDING.        *)
Used(s) == IF s \in {"PENDING", "NONE"} THEN 0 ELSE 1

(* Copies are counted: one for the first submission, one for every return   *)
(* to PENDING, one for every failover.  Part of what FillsAreRemembered     *)
(* needs to be inductive.                                                   *)
CopiesArePaidFor ==
  \A o \in OrderIds : sent[o] <= revived[o] + moved[o] + Used(state[o])

(* An order never leaves self._orders. *)
LEMMA KnownStays ==
  ASSUME TypeOK, [Next]_osmVars, NEW o \in OrderIds, Known(o)
  PROVE  Known(o)'
<1>1. ASSUME NEW p, NEW e, NEW q, DoTransition(p, e, q) PROVE Known(o)'
  <2>1. PICK t \in NextStates(state[p], e) : state' = [state EXCEPT ![p] = t]
    BY <1>1 DEF DoTransition
  <2>2. p = o => t # "NONE"
    BY <2>1 DEF NextStates, Known, OrderState
  <2>3. QED
    BY <2>1, <2>2 DEF Known, TypeOK
<1>2. ASSUME NEW p \in OrderIds, CreateOrder(p) PROVE Known(o)'
  BY <1>2 DEF CreateOrder, Known, TypeOK
<1>3. CASE EvictStale
  BY <1>3 DEF EvictStale, Known
<1>4. CASE state' = state
  BY <1>4 DEF Known
<1>5. QED
  BY <1>1, <1>2, <1>3, <1>4 DEF Next, Transition, RetryBegin, RetryEnd, Tick,
     osmVars, orderVars

(* A return to PENDING frees the submission and is counted in revived.      *)
LEMMA RevivalPays ==
  ASSUME RoutingTypeOK, [Next]_osmVars, Watch, NEW o \in OrderIds
  PROVE  /\ revived'[o] + Used(state'[o]) >= revived[o] + Used(state[o])
         /\ revived'[o] >= revived[o]
<1>1. revived[o] \in Nat
  BY DEF RoutingTypeOK
<1>2. revived'[o] = IF Known(o) /\ state[o] # "PENDING" /\ state'[o] = "PENDING"
                    THEN revived[o] + 1 ELSE revived[o]
  BY DEF Watch
<1>3. Known(o) => Known(o)'
  BY KnownStays DEF RoutingTypeOK
<1>4. QED
  BY <1>1, <1>2, <1>3 DEF Used, Known

(* Every copy beyond the first submission is counted, for any number of     *)
(* orders, retries, resubmissions and failovers.                            *)
LEMMA CopiesStep ==
  RoutingTypeOK /\ CopiesArePaidFor /\ [RoutingNext]_routingVars => CopiesArePaidFor'
<1> SUFFICES ASSUME RoutingTypeOK, CopiesArePaidFor, [RoutingNext]_routingVars,
                    NEW o \in OrderIds
             PROVE  sent'[o] <= revived'[o] + moved'[o] + Used(state'[o])
  BY DEF CopiesArePaidFor, Used
<1>0. /\ sent[o] <= revived[o] + moved[o] + Used(state[o])
      /\ sent[o] \in Nat /\ revived[o] \in Nat /\ moved[o] \in Nat
      /\ sent'[o] \in Nat /\ revived'[o] \in Nat /\ moved'[o] \in Nat
      /\ Used(state[o]) \in 0 .. 1 /\ Used(state'[o]) \in 0 .. 1
      /\ [Next]_osmVars
  BY BrokerTypeStep, RoutingStepIsMachineStep, BoundsAssumption
  DEF CopiesArePaidFor, RoutingTypeOK, Used
<1>1. CASE Watch /\ sent' = sent /\ moved' = moved
  BY <1>0, <1>1, RevivalPays
<1>2. ASSUME NEW p \in OrderIds, Submit(p)
      PROVE  sent'[o] <= revived'[o] + moved'[o] + Used(state'[o])
  <2>1. CASE p # o
    <3>1. sent'[o] = sent[o] /\ moved'[o] = moved[o] /\ Watch
      BY <1>2, <2>1 DEF Submit, Reach, RoutingTypeOK
    <3>2. QED
      BY <1>0, <3>1, RevivalPays
  <2>2. CASE p = o
    <3>1. state[o] = "PENDING" /\ Watch /\ moved' = moved
      BY <1>2, <2>2 DEF Submit
    <3>2. PICK t \in NextStates("PENDING", "submit") : state' = [state EXCEPT ![o] = t]
      BY <1>2, <2>2, <3>1 DEF Submit, Transition, DoTransition
    <3>3. t = "SUBMITTED"
      BY <3>2 DEF NextStates, Transitions, OrderState
    <3>4. Used(state[o]) = 0 /\ Used(state'[o]) = 1
      BY <3>1, <3>2, <3>3 DEF Used, RoutingTypeOK, TypeOK
    <3>5. sent'[o] <= sent[o] + 1
      BY <1>0, <1>2, <2>2 DEF Submit, Reach, RoutingTypeOK
    <3>6. QED
      BY <1>0, <3>1, <3>4, <3>5, RevivalPays
  <2>3. QED
    BY <2>1, <2>2
<1>3. ASSUME NEW p \in OrderIds, Failover(p)
      PROVE  sent'[o] <= revived'[o] + moved'[o] + Used(state'[o])
  <2>1. state' = state /\ revived' = revived
        /\ moved' = [moved EXCEPT ![p] = sent'[p] - sent[p] + @]
    BY <1>3 DEF Failover, osmVars, orderVars
  <2>2. CASE p = o
    BY <1>0, <2>1, <2>2 DEF RoutingTypeOK
  <2>3. CASE p # o
    <3>1. sent'[o] = sent[o]
      BY <1>3, <2>3 DEF Failover, Reach, RoutingTypeOK
    <3>2. QED
      BY <1>0, <2>1, <2>3, <3>1 DEF RoutingTypeOK
  <2>4. QED
    BY <2>2, <2>3
<1>4. CASE UNCHANGED <<state, sent, moved, revived>>
  BY <1>0, <1>4
<1>5. QED
  BY <1>1, <1>2, <1>3, <1>4
  DEF RoutingNext, Place, CallFails, Cancel, Resubmit, Retry, Sweep, Deliver,
      BrokerExecutes, BrokerExpires, Lose, brokerVars, historyVars, routingVars,
      osmVars, orderVars

-----------------------------------------------------------------------------
(* Whoever gave an order up is on record: before that it was never revived. *)
GivenUpIsDropped ==
  \A o \in OrderIds :
    /\ state[o] \in {"CANCELLED", "EXPIRED", "ERROR"} => o \in dropped
    /\ revived[o] > 0 => o \in dropped

(* Only copies that have reached a broker are at work or executed. *)
OnlySentCopiesWork ==
  \A o \in OrderIds, k \in Copies :
    done[o][k] > 0 \/ k \in live[o] => k <= sent[o]

(* What FillsAreRemembered needs to be inductive: an order that was neither *)
(* given up nor handed over has at most one copy, and is not PENDING when   *)
(* it has one.                                                              *)
MemoryInv ==
  /\ RoutingTypeOK
  /\ KeysIssued
  /\ CopiesArePaidFor
  /\ ReportsAreTrue
  /\ GivenUpIsDropped
  /\ OnlySentCopiesWork
  /\ FillsAreRemembered

(* Every step but a failover and the broker's own is watched. *)
LEMMA WatchedOrSilent ==
  ASSUME [RoutingNext]_routingVars
  PROVE  Watch \/ UNCHANGED <<state, revived, dropped>>
BY DEF RoutingNext, Place, Submit, CallFails, Cancel, Resubmit, Retry, Sweep, Failover,
       BrokerExecutes, BrokerExpires, Deliver, Lose, historyVars, routingVars, osmVars,
       orderVars

(* Only a resubmission or a retry leads to PENDING, and only from a state   *)
(* in which the order was given up.                                         *)
LEMMA ToPending ==
  ASSUME NEW s \in OrderState, NEW e, NEW t \in NextStates(s, e), t = "PENDING"
  PROVE  s \in {"PENDING", "CANCELLED", "EXPIRED", "ERROR"}
BY DEF NextStates, Transitions, OrderState

(* An order becomes PENDING again only from a status that gave it up. *)
LEMMA RevivedWasGivenUp ==
  ASSUME TypeOK, [Next]_osmVars, NEW o \in OrderIds, Known(o),
         state'[o] = "PENDING", \A p \in OrderIds : CreateOrder(p) => p # o
  PROVE  state[o] \in {"PENDING", "CANCELLED", "EXPIRED", "ERROR"}
<1>0. state[o] \in OrderState
  BY DEF TypeOK, Known
<1>1. ASSUME NEW p, NEW e, NEW q, DoTransition(p, e, q)
      PROVE  state[o] \in {"PENDING", "CANCELLED", "EXPIRED", "ERROR"}
  <2>1. PICK t \in NextStates(state[p], e) : state' = [state EXCEPT ![p] = t]
    BY <1>1 DEF DoTransition
  <2>2. CASE p = o
    BY <1>0, <2>1, <2>2, ToPending DEF TypeOK
  <2>3. CASE p # o
    BY <2>1, <2>3 DEF TypeOK
  <2>4. QED
    BY <2>2, <2>3
<1>2. ASSUME NEW p \in OrderIds, CreateOrder(p)
      PROVE  state[o] \in {"PENDING", "CANCELLED", "EXPIRED", "ERROR"}
  BY <1>2 DEF CreateOrder, TypeOK
<1>3. CASE EvictStale
  BY <1>3 DEF EvictStale
<1>4. CASE state' = state
  BY <1>4
<1>5. QED
  BY <1>1, <1>2, <1>3, <1>4 DEF Next, Transition, RetryBegin, RetryEnd, Tick,
     osmVars, orderVars

(* In the composition no known order is created again. *)
LEMMA CreatedOnce ==
  ASSUME RoutingTypeOK, KeysIssued, [RoutingNext]_routingVars,
         NEW o \in OrderIds, Known(o)
  PROVE  /\ key'[o] = key[o]
         /\ state'[o] = "PENDING" =>
              state[o] \in {"PENDING", "CANCELLED", "EXPIRED", "ERROR"}
<1>1. ASSUME NEW p \in OrderIds, Place(p)
      PROVE  key'[o] = key[o] /\ state'[o] = state[o]
  <2>1. p # o
    BY <1>1 DEF Place
  <2>2. QED
    BY <1>1, <2>1 DEF Place, CreateOrder, RoutingTypeOK, TypeOK
<1>2. CASE \E p \in OrderIds : Place(p)
  <2>1. state'[o] = state[o] /\ key'[o] = key[o]
    BY <1>1, <1>2
  <2>2. QED
    BY <2>1
<1>3. CASE key' = key
  <2>1. ASSUME NEW p \in OrderIds, CreateOrder(p) PROVE FALSE
    BY <1>3, <2>1 DEF CreateOrder, RoutingTypeOK, TypeOK, KeysIssued
  <2>2. QED
    BY <1>3, <2>1, RevivedWasGivenUp, RoutingStepIsMachineStep DEF RoutingTypeOK
<1>4. QED
  BY <1>2, <1>3
  DEF RoutingNext, Submit, CallFails, Cancel, Resubmit, Retry, Sweep, Failover,
      BrokerExecutes, BrokerExpires, Deliver, Lose, Transition, RetryBegin, RetryEnd,
      EvictStale, Tick, routingVars, osmVars, orderVars

(* Every step keeps that copies of orders that were given up are dropped. *)
LEMMA GivenUpStep ==
  MemoryInv /\ [RoutingNext]_routingVars => GivenUpIsDropped'
<1> SUFFICES ASSUME MemoryInv, [RoutingNext]_routingVars, NEW o \in OrderIds
             PROVE  /\ state'[o] \in {"CANCELLED", "EXPIRED", "ERROR"} => o \in dropped'
                    /\ revived'[o] > 0 => o \in dropped'
  BY DEF GivenUpIsDropped
<1>0. /\ RoutingTypeOK /\ KeysIssued
      /\ state[o] \in {"CANCELLED", "EXPIRED", "ERROR"} => o \in dropped
      /\ revived[o] > 0 => o \in dropped
  BY DEF MemoryInv, GivenUpIsDropped
<1>1. CASE Watch
  <2>1. o \in dropped => o \in dropped'
    BY <1>1 DEF Watch
  <2>2. state'[o] \in {"CANCELLED", "EXPIRED", "ERROR"} => o \in dropped'
    BY <1>1 DEF Watch
  <2>3. CASE Known(o) /\ state[o] # "PENDING" /\ state'[o] = "PENDING"
    <3>1. state[o] \in {"CANCELLED", "EXPIRED", "ERROR"}
      BY <1>0, <2>3, CreatedOnce
    <3>2. QED
      BY <1>0, <2>1, <2>2, <3>1
  <2>4. CASE ~(Known(o) /\ state[o] # "PENDING" /\ state'[o] = "PENDING")
    <3>1. revived'[o] = revived[o]
      BY <1>1, <2>4 DEF Watch
    <3>2. QED
      BY <1>0, <2>1, <2>2, <3>1
  <2>5. QED
    BY <2>3, <2>4
<1>2. CASE UNCHANGED <<state, revived, dropped>>
  BY <1>0, <1>2
<1>3. QED
  BY <1>1, <1>2, WatchedOrSilent

(* Every step keeps that only copies that were sent work. *)
LEMMA SentCopiesStep ==
  MemoryInv /\ [RoutingNext]_routingVars => OnlySentCopiesWork'
<1> SUFFICES ASSUME MemoryInv, [RoutingNext]_routingVars,
                    NEW o \in OrderIds, NEW k \in Copies,
                    done'[o][k] > 0 \/ k \in live'[o]
             PROVE  k <= sent'[o]
  BY DEF OnlySentCopiesWork
<1>0. /\ RoutingTypeOK
      /\ sent[o] \in Nat /\ k \in Nat
      /\ done[o][k] > 0 \/ k \in live[o] => k <= sent[o]
  BY BoundsAssumption DEF MemoryInv, OnlySentCopiesWork, RoutingTypeOK, Copies
<1>1. CASE UNCHANGED <<sent, live, done>>
  BY <1>0, <1>1
<1>2. ASSUME NEW p \in OrderIds, Reach(p), done' = done
      PROVE  k <= sent'[o]
  BY <1>0, <1>2 DEF Reach, RoutingTypeOK
<1>3. ASSUME NEW p \in OrderIds, Cancel(p)
      PROVE  k <= sent'[o]
  BY <1>0, <1>3 DEF Cancel, RoutingTypeOK
<1>4. ASSUME NEW p \in OrderIds, NEW j \in Copies, NEW n \in 1 .. Size,
             BrokerExecutes(p, j, n)
      PROVE  k <= sent'[o]
  BY <1>0, <1>4 DEF BrokerExecutes, RoutingTypeOK
<1>5. ASSUME NEW p \in OrderIds, NEW j \in Copies, BrokerExpires(p, j)
      PROVE  k <= sent'[o]
  BY <1>0, <1>5 DEF BrokerExpires, RoutingTypeOK
<1>6. CASE \E p \in OrderIds : Submit(p) \/ Failover(p)
  BY <1>2, <1>6 DEF Submit, Failover
<1>7. QED
  BY <1>1, <1>3, <1>4, <1>5, <1>6
  DEF RoutingNext, Place, CallFails, Resubmit, Retry, Sweep, Deliver, Lose, brokerVars,
      routingVars

(* An order whose fill was reported and that nobody gave up or handed over. *)
Finished(o) ==
  /\ \E k \in Copies : done[o][k] = Size
  /\ ~\E r \in reports : r.id = o /\ r.event = "fill"
  /\ o \notin lost \cup dropped
  /\ moved[o] = 0

(* Its report has just been delivered, or it was finished before.           *)
LEMMA FinishedBefore ==
  ASSUME MemoryInv, [RoutingNext]_routingVars, NEW o \in OrderIds, Finished(o)'
  PROVE  \/ Finished(o)
         \/ \E r \in reports : Deliver(r) /\ r.id = o /\ r.event = "fill"
<1>0. RoutingTypeOK /\ RoutingTypeOK'
  BY BrokerTypeStep DEF MemoryInv
<1>1. dropped \subseteq dropped'
  BY WatchedOrSilent DEF Watch
<1>2. CASE UNCHANGED <<done, reports, lost, moved>>
  BY <1>1, <1>2 DEF Finished
<1>3. ASSUME NEW p \in OrderIds, Failover(p) PROVE Finished(o)
  <2>1. moved[o] = 0
    <3>1. CASE p # o
      BY <1>0, <1>3, <3>1 DEF Failover, RoutingTypeOK, Finished
    <3>2. CASE p = o
      <4>1. sent'[o] - sent[o] \in Nat
        BY <1>0, <1>3, <3>2, BoundsAssumption DEF Failover, Reach, RoutingTypeOK
      <4>2. moved'[o] = sent'[o] - sent[o] + moved[o] /\ moved[o] \in Nat
        BY <1>0, <1>3, <3>2 DEF Failover, RoutingTypeOK
      <4>3. QED
        BY <4>1, <4>2 DEF Finished
    <3>3. QED
      BY <3>1, <3>2
  <2>2. QED
    BY <1>1, <1>3, <2>1 DEF Failover, Finished
<1>4. ASSUME NEW p \in OrderIds, NEW k \in Copies, NEW n \in 1 .. Size,
             BrokerExecutes(p, k, n)
      PROVE  Finished(o)
  <2>1. UNCHANGED <<lost, moved, dropped>> /\ reports \subseteq reports'
    BY <1>4 DEF BrokerExecutes, historyVars
  <2>2. \E j \in Copies : done[o][j] = Size
    <3>1. CASE p # o
      BY <1>0, <1>4, <3>1 DEF BrokerExecutes, RoutingTypeOK, Finished
    <3>2. CASE p = o
      <4>1. n # Size
        <5> SUFFICES ASSUME n = Size PROVE FALSE
          OBVIOUS
        <5> DEFINE r == [id |-> p, event |-> "fill", size |-> n]
        <5>1. r \in reports' /\ r.id = o /\ r.event = "fill"
          BY <1>4, <3>2 DEF BrokerExecutes
        <5>2. QED
          BY <5>1 DEF Finished
      <4>2. PICK j \in Copies : done'[o][j] = Size
        BY DEF Finished
      <4>3. j # k
        BY <1>0, <1>4, <3>2, <4>1, <4>2 DEF BrokerExecutes, RoutingTypeOK
      <4>4. done[o][j] = Size
        BY <1>0, <1>4, <3>2, <4>2, <4>3 DEF BrokerExecutes, RoutingTypeOK
      <4>5. QED
        BY <4>4
    <3>3. QED
      BY <3>1, <3>2
  <2>3. QED
    BY <2>1, <2>2 DEF Finished
<1>5. ASSUME NEW p \in OrderIds, NEW k \in Copies, BrokerExpires(p, k)
      PROVE  Finished(o)
  BY <1>5 DEF BrokerExpires, historyVars, Finished
<1>6. ASSUME NEW r \in reports, Lose(r) PROVE Finished(o)
  BY <1>6 DEF Lose, Finished
<1>7. ASSUME NEW r \in reports, Deliver(r), ~(r.id = o /\ r.event = "fill")
      PROVE  Finished(o)
  BY <1>1, <1>7 DEF Deliver, Finished
<1>8. QED
  BY <1>2, <1>3, <1>4, <1>5, <1>6, <1>7
  DEF RoutingNext, Place, Submit, CallFails, Cancel, Resubmit, Retry, Sweep, brokerVars,
      historyVars, routingVars

(* The report of a fill finds the order where it can be filled. *)
LEMMA FillIsExpected ==
  ASSUME MemoryInv, NEW o \in OrderIds, moved[o] = 0, o \notin dropped,
         NEW k \in Copies, done[o][k] = Size
  PROVE  state[o] \in {"SUBMITTED", "PARTIAL_FILL", "FILLED"}
<1>1. sent[o] >= 1
  <2>1. done[o][k] > 0
    BY ConstantsAssumption
  <2>2. k <= sent[o] /\ k \in Nat /\ k >= 1
    BY <2>1, BoundsAssumption DEF MemoryInv, OnlySentCopiesWork, Copies
  <2>3. sent[o] \in Nat
    BY BoundsAssumption DEF MemoryInv, RoutingTypeOK
  <2>4. QED
    BY <2>2, <2>3
<1>2. revived[o] = 0
  BY DEF MemoryInv, GivenUpIsDropped, RoutingTypeOK
<1>3. sent[o] <= Used(state[o]) /\ sent[o] \in Nat
  BY <1>2, BoundsAssumption DEF MemoryInv, CopiesArePaidFor, Used, RoutingTypeOK
<1>4. state[o] \notin {"PENDING", "NONE"}
  BY <1>1, <1>3 DEF Used
<1>5. state[o] \notin {"CANCELLED", "EXPIRED", "ERROR"}
  BY DEF MemoryInv, GivenUpIsDropped
<1>6. QED
  BY <1>4, <1>5 DEF MemoryInv, RoutingTypeOK, TypeOK, OrderState

(* The rows "fill" of the matrix end FILLED. *)
LEMMA FillFills ==
  ASSUME NEW s \in {"SUBMITTED", "PARTIAL_FILL", "FILLED"}, NEW t \in NextStates(s, "fill")
  PROVE  t = "FILLED"
BY DEF NextStates, Transitions, OrderState

(* Every step keeps the memory of fills. *)
LEMMA MemoryStep ==
  MemoryInv /\ [RoutingNext]_routingVars => FillsAreRemembered'
<1> SUFFICES ASSUME MemoryInv, [RoutingNext]_routingVars, NEW o \in OrderIds,
                    Finished(o)'
             PROVE  state'[o] = "FILLED"
  BY DEF FillsAreRemembered, Finished
<1>0. RoutingTypeOK /\ KeysIssued /\ TypeOK
  BY DEF MemoryInv, RoutingTypeOK
<1>1. CASE Finished(o)
  <2>1. state[o] = "FILLED"
    BY <1>1 DEF MemoryInv, FillsAreRemembered, Finished
  <2>2. key'[o] = key[o]
    BY <1>0, <2>1, CreatedOnce DEF Known
  <2>3. CASE Next
    BY <1>0, <2>1, <2>2, <2>3, FilledStep DEF osmVars, orderVars
  <2>4. CASE UNCHANGED osmVars
    BY <2>1, <2>4 DEF osmVars, orderVars
  <2>5. QED
    BY <1>0, <2>3, <2>4, RoutingStepIsMachineStep
<1>2. ASSUME NEW r \in reports, Deliver(r), r.id = o, r.event = "fill"
      PROVE  state'[o] = "FILLED"
  <2>1. /\ done' = done /\ moved' = moved /\ dropped \subseteq dropped'
    BY <1>2 DEF Deliver, Watch
  <2>2. state[o] \in {"SUBMITTED", "PARTIAL_FILL", "FILLED"}
    BY <2>1, FillIsExpected DEF Finished
  <2>3. PICK t \in NextStates(state[o], "fill") : state' = [state EXCEPT ![o] = t]
    BY <1>2 DEF Deliver, Transition, DoTransition
  <2>4. QED
    BY <1>0, <2>2, <2>3, FillFills DEF TypeOK
<1>3. QED
  BY <1>1, <1>2, FinishedBefore

(* A fill is not forgotten, for any number of orders, copies and reports:   *)
(* once an order is executed in full and its report has arrived, it is      *)
(* FILLED, unless it was given up, handed over, or a report was lost.       *)
THEOREM FillsRemembered == RoutingSpec => []FillsAreRemembered
<1>1. RoutingInit => MemoryInv
  <2> SUFFICES ASSUME RoutingInit PROVE MemoryInv
    OBVIOUS
  <2>1. RoutingTypeOK
    BY ConstantsAssumption, BoundsAssumption
    DEF RoutingInit, RoutingTypeOK, Init, TypeOK, LogEntry, NoEntry, OrderState
  <2>2. KeysIssued /\ CopiesArePaidFor /\ ReportsAreTrue /\ GivenUpIsDropped
    BY DEF RoutingInit, Init, KeysIssued, CopiesArePaidFor, Used, ReportsAreTrue, GivenUpIsDropped
  <2>3. OnlySentCopiesWork /\ FillsAreRemembered
    BY ConstantsAssumption DEF RoutingInit, OnlySentCopiesWork, FillsAreRemembered
  <2>4. QED
    BY <2>1, <2>2, <2>3 DEF MemoryInv
<1>2. MemoryInv /\ [RoutingNext]_routingVars => MemoryInv'
  <2> SUFFICES ASSUME MemoryInv, [RoutingNext]_routingVars PROVE MemoryInv'
    OBVIOUS
  <2>1. RoutingTypeOK' /\ CopiesArePaidFor' /\ ReportsAreTrue'
    BY BrokerTypeStep, CopiesStep, ReportsStayTrue DEF MemoryInv
  <2>2. KeysIssued'
    BY KeysStep, RoutingStepIsMachineStep DEF MemoryInv, RoutingTypeOK
  <2>3. QED
    BY <2>1, <2>2, GivenUpStep, SentCopiesStep, MemoryStep DEF MemoryInv
<1>3. MemoryInv => FillsAreRemembered
  BY DEF MemoryInv
<1>4. QED
  BY <1>1, <1>2, <1>3, PTL DEF RoutingSpec

-----------------------------------------------------------------------------
(* Between brokers that fail, repeat and reorder their reports the machine  *)
(* still behaves as the machine alone: every behaviour of the composition   *)
(* is one of its own, and what was proved of it carries over.               *)
THEOREM RoutingImplementsMachine == RoutingSpec => Spec
<1>1. RoutingInit => Init
  BY DEF RoutingInit
<1>2. QED
  BY <1>1, RoutingTypeCorrect, RoutingStepIsMachineStep, PTL DEF RoutingSpec, Spec

(* The retry budget holds between brokers too: failovers and late reports   *)
(* cost no retries.                                                         *)
THEOREM RoutingKeepsBudget == RoutingSpec => []RetryBudget
BY RoutingImplementsMachine, RetryBudgetHolds, PTL

(* So does the audit trail: nothing the brokers report moves an order past  *)
(* the log.                                                                 *)
THEOREM RoutingKeepsLog == RoutingSpec => []LogExplainsState
BY RoutingImplementsMachine, LogIsFaithful, PTL
=============================================================================
