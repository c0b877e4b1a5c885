---------------------------- MODULE OrderRouting ----------------------------
(***************************************************************************)
(* OrderStateMachine between a client and its brokers.  The client and the *)
(* brokers are outside the repository: the client is whoever calls the     *)
(* machine's methods, and a broker is what failover() takes a callable     *)
(* for and what the events "fill", "partial_fill" and "expire" come from.  *)
(*                                                                         *)
(* A broker works on copies of the order, one per request that reached it. *)
(* Its reports travel over a network that loses, duplicates and reorders   *)
(* them; a request may arrive although the client saw the call fail.       *)
(* Order ids are unique, as in InstitutionalFlowStrategy.execute, which    *)
(* derives them from a fresh signal id.                                    *)
(***************************************************************************)
EXTENDS OrderStateMachine

CONSTANTS
  MaxCopies,   \* bound: requests that reach a broker, per order
  MaxRevived   \* bound: the client resubmits only below this count

ASSUME BoundsAssumption == MaxCopies \in Nat /\ MaxRevived \in Nat

VARIABLES
  sent,      \* how many copies of the order have reached a broker
  live,      \* the copies a broker still works on
  done,      \* what each copy has executed so far
  reports,   \* reports on their way to the client
  revived,   \* history: how often the order came back to PENDING
  moved,     \* history: how often failover() passed the order on
  lost,      \* history: orders a report of which the network lost
  dropped    \* history: orders the client side gave up at least once

brokerVars  == <<sent, live, done, reports>>
historyVars == <<revived, moved, lost, dropped>>
routingVars == <<osmVars, brokerVars, historyVars>>

Copies == 1 .. MaxCopies
Report == [id : OrderIds, event : {"partial_fill", "fill", "expire"}, size : Payload]

RoutingTypeOK ==
  /\ TypeOK
  /\ sent    \in [OrderIds -> 0 .. MaxCopies]
  /\ live    \in [OrderIds -> SUBSET Copies]
  /\ done    \in [OrderIds -> [Copies -> 0 .. Size]]
  /\ reports \subseteq Report
  /\ revived \in [OrderIds -> Nat]
  /\ moved   \in [OrderIds -> Nat]
  /\ lost    \subseteq OrderIds
  /\ dropped \subseteq OrderIds

RoutingInit ==
  /\ Init
  /\ sent    = [o \in OrderIds |-> 0]
  /\ live    = [o \in OrderIds |-> {}]
  /\ done    = [o \in OrderIds |-> [k \in Copies |-> 0]]
  /\ reports = {}
  /\ revived = [o \in OrderIds |-> 0]
  /\ moved   = [o \in OrderIds |-> 0]
  /\ lost    = {}
  /\ dropped = {}

(* What a step of the machine adds to the history of its orders. *)
Watch ==
  /\ revived' = [o \in OrderIds |->
                   IF Known(o) /\ state[o] # "PENDING" /\ state'[o] = "PENDING"
                   THEN revived[o] + 1 ELSE revived[o]]
  /\ dropped' = dropped \cup
                {o \in OrderIds : state'[o] \in {"CANCELLED", "EXPIRED", "ERROR"}}

(* A request for the order reaches a broker, or is lost on the way. *)
Reach(o) ==
  \/ /\ sent[o] < MaxCopies
     /\ sent' = [sent EXCEPT ![o] = @ + 1]
     /\ live' = [live EXCEPT ![o] = @ \cup {sent[o] + 1}]
  \/ UNCHANGED <<sent, live>>

-----------------------------------------------------------------------------
(* The client creates the order, once per id. *)
Place(o) ==
  /\ ~Known(o)
  /\ CreateOrder(o)
  /\ Watch
  /\ UNCHANGED <<brokerVars, moved, lost>>

(* The client submits a pending order: event first, then the request. *)
Submit(o) ==
  /\ state[o] = "PENDING"
  /\ Transition(o, "submit", NoPayload)
  /\ Reach(o)
  /\ Watch
  /\ UNCHANGED <<done, reports, moved, lost>>

(* The call to the broker raises or times out; the request may be there. *)
CallFails(o) ==
  /\ Transition(o, "error", NoPayload)
  /\ Watch
  /\ UNCHANGED <<brokerVars, moved, lost>>

(* The client cancels; some of the live copies are killed, the others are   *)
(* executed before the cancellation reaches them.                           *)
Cancel(o) ==
  /\ Transition(o, "cancel", NoPayload)
  /\ \E killed \in SUBSET live[o] : live' = [live EXCEPT ![o] = @ \ killed]
  /\ Watch
  /\ UNCHANGED <<sent, done, reports, moved, lost>>

Resubmit(o) ==
  /\ revived[o] < MaxRevived
  /\ Transition(o, "resubmit", NoPayload)
  /\ Watch
  /\ UNCHANGED <<brokerVars, moved, lost>>

Retry(c) ==
  /\ \/ \E o \in OrderIds : RetryBegin(c, o)
     \/ RetryEnd(c)
  /\ Watch
  /\ UNCHANGED <<brokerVars, moved, lost>>

(* evict_stale() and the clock. *)
Sweep ==
  /\ EvictStale \/ Tick
  /\ Watch
  /\ UNCHANGED <<brokerVars, moved, lost>>

(* failover(): the health check fails and the backup broker gets the order. *)
(* Nothing in the machine changes, whatever state the order is in.          *)
Failover(o) ==
  /\ Known(o)
  /\ Reach(o)
  /\ moved' = [moved EXCEPT ![o] = sent'[o] - sent[o] + @]
  /\ UNCHANGED <<osmVars, done, reports, revived, lost, dropped>>

(* A broker executes a part or the rest of a copy and reports it. *)
BrokerExecutes(o, k, n) ==
  /\ k \in live[o]
  /\ done[o][k] < n
  /\ done' = [done EXCEPT ![o][k] = n]
  /\ live' = IF n = Size THEN [live EXCEPT ![o] = @ \ {k}] ELSE live
  /\ reports' = reports \cup
       {[id |-> o, event |-> IF n = Size THEN "fill" ELSE "partial_fill", size |-> n]}
  /\ UNCHANGED <<osmVars, sent, historyVars>>

(* A broker lets a copy expire. *)
BrokerExpires(o, k) ==
  /\ k \in live[o]
  /\ live' = [live EXCEPT ![o] = @ \ {k}]
  /\ reports' = reports \cup {[id |-> o, event |-> "expire", size |-> NoPayload]}
  /\ UNCHANGED <<osmVars, sent, done, historyVars>>

(* A report reaches the machine; it may come again later. *)
Deliver(r) ==
  /\ Transition(r.id, r.event, r.size)
  /\ reports' \in {reports, reports \ {r}}
  /\ Watch
  /\ UNCHANGED <<sent, live, done, moved, lost>>

Lose(r) ==
  /\ reports' = reports \ {r}
  /\ lost' = lost \cup {r.id}
  /\ UNCHANGED <<osmVars, sent, live, done, revived, moved, dropped>>

RoutingNext ==
  \/ \E o \in OrderIds : Place(o)
  \/ \E o \in OrderIds : Submit(o)
  \/ \E o \in OrderIds : CallFails(o)
  \/ \E o \in OrderIds : Cancel(o)
  \/ \E o \in OrderIds : Resubmit(o)
  \/ \E c \in Callers : Retry(c)
  \/ Sweep
  \/ \E o \in OrderIds : Failover(o)
  \/ \E o \in OrderIds, k \in Copies, n \in 1 .. Size : BrokerExecutes(o, k, n)
  \/ \E o \in OrderIds, k \in Copies : BrokerExpires(o, k)
  \/ \E r \in reports : Deliver(r)
  \/ \E r \in reports : Lose(r)

RoutingSpec == RoutingInit /\ [][RoutingNext]_routingVars

-----------------------------------------------------------------------------
(* No phantom fills: the machine never shows a fill that no broker made.    *)
(* FILLED means that one copy was executed in full, and filled_size is      *)
(* never more than some copy has executed, under lost, repeated, reordered  *)
(* and late reports, retries, resubmissions, sweeps and failovers.          *)
NoPhantomFill ==
  \A o \in OrderIds :
    /\ state[o] = "FILLED" => \E k \in Copies : done[o][k] = Size
    /\ filled[o] > 0 => \E k \in Copies : done[o][k] >= filled[o]

(* A fill is not forgotten: once a copy is executed in full and its report  *)
(* is neither on its way nor lost, the order is FILLED, unless the client   *)
(* side gave it up (cancelled, expired, error) or handed it to the backup.  *)
FillsAreRemembered ==
  \A o \in OrderIds :
    /\ \E k \in Copies : done[o][k] = Size
    /\ ~\E r \in reports : r.id = o /\ r.event = "fill"
    /\ o \notin lost \cup dropped
    /\ moved[o] = 0
    => state[o] = "FILLED"

(* Idempotency, as the class promises it together with failover: an order   *)
(* that never came back to PENDING, so that it was submitted once, under    *)
(* one key, is executed in full once.  False of the code: failover() hands  *)
(* the order to the backup in whatever state it is, and no broker knows     *)
(* what another one has executed.                                           *)
ExecutedOnce ==
  \A o \in OrderIds :
    revived[o] = 0 => Cardinality({k \in Copies : done[o][k] = Size}) <= 1
=============================================================================
