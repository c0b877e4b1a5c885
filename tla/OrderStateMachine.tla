------------------------- MODULE OrderStateMachine -------------------------
(***************************************************************************)
(* The order life cycle of execution/order_state_machine.py: a transition  *)
(* matrix driven by events, a retry budget with a backoff that sleeps, and *)
(* a sweep that expires old orders without going through the matrix.       *)
(*                                                                         *)
(* The object has no lock.  retry reads the budget, sleeps, and only then  *)
(* spends it, so it is two actions.  The other methods wait for nothing    *)
(* and are one action each: that a thread may lose the processor between   *)
(* the test and the write of transition or evict_stale is left out.        *)
(***************************************************************************)
EXTENDS Naturals, FiniteSets

CONSTANTS
  OrderIds,    \* the keys of self._orders
  Callers,     \* the threads that may be inside retry() at one time
  MaxRetries,  \* self.max_retries
  MaxAge,      \* self.max_age_sec, in ticks of the model's clock
  Size,        \* the size every order asks for, in lots
  NoPayload,   \* transition() called without a payload
  NoOrder,     \* a caller that is not inside retry()
  MaxTime,     \* bound: the clock stops here
  MaxKeys      \* bound: create_order is called at most this often

ASSUME ConstantsAssumption ==
  /\ MaxRetries \in Nat /\ MaxAge \in Nat
  /\ Size \in Nat \ {0}
  /\ MaxTime \in Nat /\ MaxKeys \in Nat
  /\ NoPayload \notin Nat
  /\ NoOrder \notin OrderIds
  /\ Callers # {} /\ IsFiniteSet(Callers)

VARIABLES
  state,    \* order["state"]; "NONE" while the id is not in self._orders
  filled,   \* order["filled_size"]
  created,  \* order["created_at"]
  retries,  \* order["retry_count"]
  key,      \* order["idempotency_key"]: the number of the create_order call
  issued,   \* how many keys _idempotency_key has put in the key set
  last,     \* the newest entry of self._transitions for each order id
  asleep,   \* the order each caller sleeps on inside retry()
  seen,     \* the key of the order object that caller holds
  now       \* datetime.now()

orderVars  == <<state, filled, created, retries, key, issued, last>>
callerVars == <<asleep, seen>>
osmVars    == <<orderVars, callerVars, now>>

OrderState == {"PENDING", "SUBMITTED", "PARTIAL_FILL", "FILLED",
               "CANCELLED", "EXPIRED", "ERROR"}
OrderEvent == {"submit", "partial_fill", "fill", "cancel", "expire",
               "error", "retry", "resubmit"}
Payload    == {NoPayload} \cup 0 .. Size

(* The transition matrix T, as triples <<current state, event, next state>>. *)
Transitions ==
  { <<"PENDING",      "submit",       "SUBMITTED">>,
    <<"PENDING",      "error",        "ERROR">>,
    <<"PENDING",      "cancel",       "CANCELLED">>,
    <<"SUBMITTED",    "partial_fill", "PARTIAL_FILL">>,
    <<"SUBMITTED",    "fill",         "FILLED">>,
    <<"SUBMITTED",    "cancel",       "CANCELLED">>,
    <<"SUBMITTED",    "expire",       "EXPIRED">>,
    <<"SUBMITTED",    "error",        "ERROR">>,
    <<"PARTIAL_FILL", "fill",         "FILLED">>,
    <<"PARTIAL_FILL", "cancel",       "CANCELLED">>,
    <<"PARTIAL_FILL", "expire",       "EXPIRED">>,
    <<"ERROR",        "retry",        "PENDING">>,
    <<"CANCELLED",    "resubmit",     "PENDING">>,
    <<"EXPIRED",      "resubmit",     "PENDING">> }

(* Mutants: a partial fill completes the order; the matrix has no way from  *)
(* PARTIAL_FILL to FILLED.                                                  *)
NextStatesPartialCompletes(s, e) ==
  IF <<s, e>> = <<"SUBMITTED", "partial_fill">> THEN {"FILLED"}
  ELSE LET moves == {t \in OrderState : <<s, e, t>> \in Transitions}
       IN  IF moves = {} THEN {s} ELSE moves
NextStatesPartialNeverFills(s, e) ==
  LET moves == {t \in OrderState \ {"FILLED"} : <<s, e, t>> \in Transitions}
  IN  IF moves = {} \/ s = "PARTIAL_FILL" THEN {s} ELSE moves

(* TRANSITIONS.get((s, e), s): a pair outside the matrix keeps the state. *)
NextStates(s, e) ==
  LET moves == {t \in OrderState : <<s, e, t>> \in Transitions}
  IN  IF moves = {} THEN {s} ELSE moves

NoEntry == [from |-> "NONE", to |-> "NONE"]
LogEntry == [from : OrderState \cup {"NONE"}, to : OrderState \cup {"NONE"}]

Known(o) == state[o] # "NONE"

TypeOK ==
  /\ state   \in [OrderIds -> OrderState \cup {"NONE"}]
  /\ filled  \in [OrderIds -> 0 .. Size]
  /\ created \in [OrderIds -> Nat]
  /\ retries \in [OrderIds -> Nat]
  /\ key     \in [OrderIds -> Nat]
  /\ issued  \in Nat
  /\ last    \in [OrderIds -> LogEntry]
  /\ asleep  \in [Callers -> OrderIds \cup {NoOrder}]
  /\ seen    \in [Callers -> Nat]
  /\ now     \in Nat

Init ==
  /\ state   = [o \in OrderIds |-> "NONE"]
  /\ filled  = [o \in OrderIds |-> 0]
  /\ created = [o \in OrderIds |-> 0]
  /\ retries = [o \in OrderIds |-> 0]
  /\ key     = [o \in OrderIds |-> 0]
  /\ issued  = 0
  /\ last    = [o \in OrderIds |-> NoEntry]
  /\ asleep  = [c \in Callers |-> NoOrder]
  /\ seen    = [c \in Callers |-> 0]
  /\ now     = 0

-----------------------------------------------------------------------------
(* create_order: a new record under the id, whatever was there before, with *)
(* a key of its own.  Nothing is logged.                                     *)
CreateOrder(o) ==
  /\ issued < MaxKeys
  /\ state'   = [state   EXCEPT ![o] = "PENDING"]
  /\ filled'  = [filled  EXCEPT ![o] = 0]
  /\ created' = [created EXCEPT ![o] = now]
  /\ retries' = [retries EXCEPT ![o] = 0]
  /\ key'     = [key     EXCEPT ![o] = issued + 1]
  /\ issued'  = issued + 1
  /\ UNCHANGED <<last, callerVars, now>>

(* Mutant: the payload is stored without looking whether there is one. *)
DoTransitionAnyPayload(o, e, p) ==
  \E t \in NextStates(state[o], e) :
    /\ filled' = IF t \in {"FILLED", "PARTIAL_FILL"}
                   THEN [filled EXCEPT ![o] = p] ELSE filled
    /\ state'  = [state EXCEPT ![o] = t]
    /\ last'   = [last EXCEPT ![o] = [from |-> state[o], to |-> t]]

(* Mutant: the entry is built before the next state is looked up. *)
DoTransitionLogsTooEarly(o, e, p) ==
  \E t \in NextStates(state[o], e) :
    /\ filled' = IF p # NoPayload /\ t \in {"FILLED", "PARTIAL_FILL"}
                   THEN [filled EXCEPT ![o] = p] ELSE filled
    /\ state'  = [state EXCEPT ![o] = t]
    /\ last'   = [last EXCEPT ![o] = [from |-> state[o], to |-> state[o]]]

(* The body of transition(): the payload is stored whenever the state the   *)
(* order ends in is a filled one, even if the event did not move it there,  *)
(* and an entry is logged whether or not the state moved.                   *)
DoTransition(o, e, p) ==
  \E t \in NextStates(state[o], e) :
    /\ filled' = IF p # NoPayload /\ t \in {"FILLED", "PARTIAL_FILL"}
                   THEN [filled EXCEPT ![o] = p]
                   ELSE filled
    /\ state'  = [state EXCEPT ![o] = t]
    /\ last'   = [last EXCEPT ![o] = [from |-> state[o], to |-> t]]

(* transition() on a known order; on an unknown one it changes nothing. *)
Transition(o, e, p) ==
  /\ Known(o)
  /\ DoTransition(o, e, p)
  /\ UNCHANGED <<created, retries, key, issued, callerVars, now>>

(* Mutant: the budget test is off by one. *)
RetryBeginOffByOne(c, o) ==
  /\ asleep[c] = NoOrder
  /\ Known(o)
  /\ retries[o] <= MaxRetries
  /\ asleep' = [asleep EXCEPT ![c] = o]
  /\ seen'   = [seen   EXCEPT ![c] = key[o]]
  /\ UNCHANGED <<orderVars, now>>

(* retry(), up to the sleep: the budget is read here. *)
RetryBegin(c, o) ==
  /\ asleep[c] = NoOrder
  /\ Known(o)
  /\ retries[o] < MaxRetries
  /\ asleep' = [asleep EXCEPT ![c] = o]
  /\ seen'   = [seen   EXCEPT ![c] = key[o]]
  /\ UNCHANGED <<orderVars, now>>

(* retry(), after the sleep: the count goes up on the object read before    *)
(* the sleep, while the event goes to whatever the id names by now.         *)
RetryEnd(c) ==
  LET o == asleep[c] IN
  /\ o # NoOrder
  /\ retries' = IF seen[c] = key[o] THEN [retries EXCEPT ![o] = @ + 1] ELSE retries
  /\ DoTransition(o, "retry", NoPayload)
  /\ asleep' = [asleep EXCEPT ![c] = NoOrder]
  /\ UNCHANGED <<created, key, issued, seen, now>>

Old(o) == Known(o) /\ now - created[o] > MaxAge

(* Mutant: the sweep forgets that FILLED is final. *)
EvictableEvenFilled(o) == Old(o) /\ state[o] # "CANCELLED"

Evictable(o) == Old(o) /\ state[o] \notin {"FILLED", "CANCELLED"}

(* evict_stale: every old order that is neither filled nor cancelled is set *)
(* to EXPIRED, past the matrix and past the log.                            *)
EvictStale ==
  /\ state' = [o \in OrderIds |-> IF Evictable(o) THEN "EXPIRED" ELSE state[o]]
  /\ UNCHANGED <<filled, created, retries, key, issued, last, callerVars, now>>

(* Time passes. *)
Tick ==
  /\ now < MaxTime
  /\ now' = now + 1
  /\ UNCHANGED <<orderVars, callerVars>>

Next ==
  \/ \E o \in OrderIds : CreateOrder(o)
  \/ \E o \in OrderIds, e \in OrderEvent, p \in Payload : Transition(o, e, p)
  \/ \E c \in Callers, o \in OrderIds : RetryBegin(c, o)
  \/ \E c \in Callers : RetryEnd(c)
  \/ EvictStale
  \/ Tick

(* No fairness: nothing in the repository calls retry, evict_stale or       *)
(* failover on a schedule.                                                  *)
Spec == Init /\ [][Next]_osmVars

-----------------------------------------------------------------------------
(* A filled order stays filled: whatever events, retries and sweeps come    *)
(* late, only create_order under the same id ends the FILLED state.         *)
FilledIsFinal ==
  [][\A o \in OrderIds :
       state[o] = "FILLED" /\ key'[o] = key[o] => state'[o] = "FILLED"]_osmVars

(* The audit trail explains the state: an order is SUBMITTED, partly or     *)
(* fully filled, CANCELLED or in ERROR only if the newest logged transition *)
(* of its id ended there.  create_order and evict_stale do not log, so a    *)
(* PENDING or an EXPIRED order need not agree with the log.                 *)
LogExplainsState ==
  \A o \in OrderIds :
    Known(o) => state[o] \in {last[o].to, "PENDING", "EXPIRED"}

(* The callers that sleep inside retry() on the order object the id names. *)
Sleepers(o) == {c \in Callers : asleep[c] = o /\ seen[c] = key[o]}

(* The retry budget: the count is read before the backoff and raised after  *)
(* it, so every caller but one can overshoot max_retries by one, and no     *)
(* more; the callers still asleep have their share reserved.  With a single *)
(* caller this is retry_count <= max_retries.                               *)
RetryBudget ==
  \A o \in OrderIds :
    retries[o] + Cardinality(Sleepers(o)) <= MaxRetries + Cardinality(Callers) - 1
=============================================================================
