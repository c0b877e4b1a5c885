--------------------------- MODULE OrderManagers ---------------------------
(***************************************************************************)
(* The three order managers that talk to a live broker: OrderManager       *)
(* ("v1", execution/order_manager.py), OrderManagerV2 ("v2",               *)
(* execution/order_manager_v2.py) and UnifiedExecutionEngine ("unified",   *)
(* execution/engine.py, live mode).  They are alternatives: one of them,   *)
(* the client, has the broker for itself.                                  *)
(*                                                                         *)
(* submit() blocks its thread in the call of the broker and in the sleep   *)
(* of the backoff; meanwhile other threads submit, also the same id again, *)
(* reconcile, sweep and cancel.  The caller of v1 and v2 chooses the id,   *)
(* and a second submit() of it puts a new record in the place of the old.  *)
(* place_order() makes every id itself.  The sweeps may find a timer       *)
(* expired at any time, so time is left out, and with it prices, slippage  *)
(* and latencies.  The record's count of the retries is written and not    *)
(* read; it is left out for the attempt of the call.  The unified engine   *)
(* calls its broker with the names "open" and "pending" where the others   *)
(* have SUBMITTED and PENDING; the names are not told apart here.          *)
(***************************************************************************)
EXTENDS Broker

CONSTANTS
  OrderIds,     \* order ids of the managers
  Threads,      \* threads that call submit()
  MaxRetries,   \* max_retries
  Unknown       \* a filled size or an order that is not given

ASSUME ManagersAssumption ==
  /\ OrderIds \subseteq BrokerIds
  /\ MaxRetries \in Nat
  /\ Unknown \notin Nat

VARIABLES
  orders,      \* _orders: status, filled_size
  pending,     \* _pending_partials
  calls,       \* the call of submit() a thread is in
  sweep,       \* where check_stale_orders() is with an order
  snapshots,   \* answers of status_fn that were not yet applied
  silent       \* history: orders taken for filled, their answer named no status

managerVars == <<orders, pending, calls, sweep, snapshots, silent>>

Managers == {"v1", "v2", "unified"}

Status == {"NONE", "PENDING", "SUBMITTED", "PARTIAL", "FILLED", "REJECTED", "CANCELLED",
           "STALE", "PARTIAL_EXPIRED", "RECONCILED", "ERROR"}
Final == {"FILLED", "CANCELLED", "REJECTED"}

FilledSize == 0 .. Size \cup {Unknown}
Order == [status : Status, filled : FilledSize]
Snapshot == [status : Status \cup {"UNNAMED"}, filled : FilledSize]
NoSnapshot == [status |-> "NONE", filled |-> Unknown]

(* attempt counts those that failed, copy is the last request of the call   *)
(* that arrived.                                                            *)
Call == [at : {"idle", "waiting", "arrived", "backoff"}, order : OrderIds \cup {Unknown},
         attempt : 0 .. MaxRetries, copy : Nat]
NoCall == [at |-> "idle", order |-> Unknown, attempt |-> 0, copy |-> 0]

ManagersTypeOK ==
  /\ orders \in [OrderIds -> Order]
  /\ pending \subseteq OrderIds
  /\ calls \in [Threads -> Call]
  /\ sweep \in [OrderIds -> {"none", "judged", "replaced", "marked"}]
  /\ snapshots \in [OrderIds -> Snapshot]
  /\ silent \subseteq OrderIds

ManagersInit ==
  /\ orders = [o \in OrderIds |-> [status |-> "NONE", filled |-> Unknown]]
  /\ pending = {}
  /\ calls = [t \in Threads |-> NoCall]
  /\ sweep = [o \in OrderIds |-> "none"]
  /\ snapshots = [o \in OrderIds |-> NoSnapshot]
  /\ silent = {}

Known(o) == orders[o].status # "NONE"
InCall(t, o) == calls[t].at # "idle" /\ calls[t].order = o

-----------------------------------------------------------------------------
(* submit() and place_order(): the record is made, whatever record the id   *)
(* had, and the request goes out.  A sweep that has read the old record     *)
(* keeps it.                                                                *)
Submit(t, o) ==
  /\ calls[t].at = "idle"
  /\ client = "unified" => ~Known(o)
  /\ orders' = [orders EXCEPT ![o] =
       [status |-> "PENDING", filled |-> IF client = "unified" THEN 0 ELSE Unknown]]
  /\ calls' = [calls EXCEPT ![t] =
       [at |-> "waiting", order |-> o, attempt |-> 0, copy |-> 0]]
  /\ sweep' = [sweep EXCEPT ![o] = IF @ = "judged" THEN "replaced" ELSE @]
  /\ silent' = silent \ {o}
  /\ UNCHANGED <<client, pending, snapshots, brokerVars>>

(* place_order() rejects what the validator does not pass. *)
PlaceInvalid(o) ==
  /\ client = "unified"
  /\ ~Known(o)
  /\ orders' = [orders EXCEPT ![o] = [status |-> "REJECTED", filled |-> 0]]
  /\ UNCHANGED <<client, pending, calls, sweep, snapshots, silent, brokerVars>>

RequestArrives(t) ==
  LET o == calls[t].order
  IN /\ calls[t].at = "waiting"
     /\ Accept({o})
     /\ calls' = [calls EXCEPT ![t].at = "arrived", ![t].copy = Len(book[o]) + 1]
     /\ UNCHANGED <<client, orders, pending, sweep, snapshots, silent>>

(* Mutant: an order filled in part is taken for filled. *)
RecordedInPart(copy, named) ==
  IF copy.done > 0 THEN "FILLED"
  ELSE IF client = "unified" THEN "REJECTED"
  ELSE IF named THEN StatusOf(copy) ELSE "FILLED"

(* The status a manager makes of an answer, which need not name what became *)
(* of the order.  v1 and v2 take it for filled then.  The unified engine    *)
(* knows filled, partial, and rejected for everything else, an order the    *)
(* broker has taken and still works on included.                            *)
Recorded(copy, named) ==
  IF client = "unified"
  THEN IF named /\ StatusOf(copy) \in {"FILLED", "PARTIAL"} THEN StatusOf(copy) ELSE "REJECTED"
  ELSE IF named THEN StatusOf(copy) ELSE "FILLED"

(* The size it makes of an answer, which need not give it. *)
RecordedSize(o, copy, named, sized) ==
  LET what == Recorded(copy, named)
  IN CASE client # "unified" /\ ~sized            -> Unknown
       [] client # "unified" /\ sized             -> copy.done
       [] client = "unified" /\ what = "REJECTED" -> orders[o].filled
       [] client = "unified" /\ what # "REJECTED" ->
            IF sized THEN copy.done ELSE IF what = "FILLED" THEN Size ELSE 0

(* An answer is written over whatever other threads have made of the order  *)
(* meanwhile, with the status given.                                        *)
Record(o, copy, named, sized, status) ==
  /\ orders' = [orders EXCEPT ![o] =
       [status |-> status, filled |-> RecordedSize(o, copy, named, sized)]]
  /\ silent' = IF named \/ client = "unified" THEN silent \ {o} ELSE silent \cup {o}

(* What _pending_partials may be after an answer: a copy that is filled in  *)
(* part is noted if the answer says so, for v2 also with its status.        *)
Noted(o, copy, named) ==
  {p \in {pending, pending \cup {o}} :
     IF client # "unified" /\ StatusOf(copy) = "PARTIAL"
     THEN client = "v2" /\ named => o \in p
     ELSE p = pending}

(* The broker's answer comes back and submit() returns. *)
Answer(t) ==
  LET o    == calls[t].order
      copy == book[o][calls[t].copy]
  IN /\ calls[t].at = "arrived"
     /\ \E named, sized \in BOOLEAN :
          /\ Record(o, copy, named, sized, Recorded(copy, named))
          /\ pending' \in Noted(o, copy, named)
     /\ calls' = [calls EXCEPT ![t] = NoCall]
     /\ UNCHANGED <<client, sweep, snapshots, brokerVars>>

CanRetry(t) == calls[t].attempt < MaxRetries

(* Mutant: one attempt too many, as with range(max_retries + 2). *)
RetriedOnceMore(t) ==
  IF calls[t].attempt <= MaxRetries
  THEN [calls[t] EXCEPT !.at = IF client = "unified" THEN "waiting" ELSE "backoff",
                        !.attempt = @ + 1]
  ELSE NoCall

(* Mutant: the failed attempt is not counted. *)
RetriedUncounted(t) ==
  IF CanRetry(t)
  THEN [calls[t] EXCEPT !.at = IF client = "unified" THEN "waiting" ELSE "backoff"]
  ELSE NoCall

(* The call after an exception: the managers sleep, the unified engine      *)
(* calls again at once, and after the last attempt all of them leave.       *)
Retried(t) ==
  IF CanRetry(t)
  THEN [calls[t] EXCEPT !.at = IF client = "unified" THEN "waiting" ELSE "backoff",
                        !.attempt = @ + 1]
  ELSE NoCall

(* on_event of v2 raises once the answer is recorded, in the alert of the   *)
(* slippage or at the end.                                                  *)
ListenerRaises(t) ==
  LET o    == calls[t].order
      copy == book[o][calls[t].copy]
  IN /\ client = "v2"
     /\ calls[t].at = "arrived"
     /\ \E named, sized \in BOOLEAN :
          /\ Record(o, copy, named, sized, IF CanRetry(t) THEN Recorded(copy, named) ELSE "ERROR")
          /\ pending' \in Noted(o, copy, named)
     /\ calls' = [calls EXCEPT ![t] = Retried(t)]
     /\ UNCHANGED <<client, sweep, snapshots, brokerVars>>

(* The call raises: the request or the answer was lost, or the answer could *)
(* not be read.  The unified engine marks the order ERROR every time, the   *)
(* others when they give up.                                                *)
Raise(t) ==
  /\ calls[t].at \in {"waiting", "arrived"}
  /\ orders' = IF client = "unified" \/ ~CanRetry(t)
               THEN [orders EXCEPT ![calls[t].order].status = "ERROR"] ELSE orders
  /\ calls' = [calls EXCEPT ![t] = Retried(t)]
  /\ UNCHANGED <<client, pending, sweep, snapshots, silent, brokerVars>>

(* The sleep ends; the state of the order is not looked at again. *)
Wake(t) ==
  /\ calls[t].at = "backoff"
  /\ calls' = [calls EXCEPT ![t].at = "waiting"]
  /\ UNCHANGED <<client, orders, pending, sweep, snapshots, silent, brokerVars>>

(* A thread within submit(). *)
CallStep(t) == RequestArrives(t) \/ Answer(t) \/ ListenerRaises(t) \/ Raise(t) \/ Wake(t)

-----------------------------------------------------------------------------
(* What an answer of status_fn may say of a copy; it need not give its      *)
(* status or its size.  v1 does not read the one, v2 not the other.         *)
Answers(copy) ==
  [status : {"UNNAMED"} \cup (IF client = "v1" THEN {} ELSE {StatusOf(copy)}),
   filled : {Unknown} \cup (IF client = "v2" THEN {} ELSE {copy.done})]

(* status_fn is asked, or a list of orders is fetched, and shows a copy.    *)
(* One answer at a time is on its way for an order.                         *)
Ask(o) ==
  /\ Known(o)
  /\ snapshots[o] = NoSnapshot
  /\ \E k \in DOMAIN book[o] : \E answer \in Answers(book[o][k]) :
       snapshots' = [snapshots EXCEPT ![o] = answer]
  /\ UNCHANGED <<client, orders, pending, calls, sweep, silent, brokerVars>>

(* reconcile() of v1 marks the record if the sizes differ. *)
ReconcileV1(o, ext) ==
  /\ client = "v1"
  /\ orders' = IF ext.filled # orders[o].filled
               THEN [orders EXCEPT ![o].status = "RECONCILED"] ELSE orders

(* That of v2 takes over the status, in whatever state the order is. *)
ReconcileV2(o, ext) ==
  /\ client = "v2"
  /\ orders' = IF ext.status # "UNNAMED"
               THEN [orders EXCEPT ![o].status = ext.status] ELSE orders

(* That of the unified engine takes over status and size; a status that is  *)
(* not named is "pending", a size that is not given stays.                  *)
ReconcileUnified(o, ext) ==
  /\ client = "unified"
  /\ orders' = [orders EXCEPT ![o] =
       [status |-> IF ext.status = "UNNAMED" THEN "PENDING" ELSE ext.status,
        filled |-> IF ext.filled = Unknown THEN @.filled ELSE ext.filled]]

Reconcile(o) ==
  LET ext == snapshots[o]
  IN /\ ext # NoSnapshot
     /\ ReconcileV1(o, ext) \/ ReconcileV2(o, ext) \/ ReconcileUnified(o, ext)
     /\ snapshots' = [snapshots EXCEPT ![o] = NoSnapshot]
     /\ UNCHANGED <<client, pending, calls, sweep, silent, brokerVars>>

-----------------------------------------------------------------------------
(* check_stale_orders() reads the status of an old record, also while       *)
(* submit() is still waiting, ...                                           *)
JudgeStale(o) ==
  /\ client = "v2"
  /\ sweep[o] = "none"
  /\ orders[o].status \notin Final \cup {"NONE"}
  /\ sweep' = [sweep EXCEPT ![o] = "judged"]
  /\ UNCHANGED <<client, orders, pending, calls, snapshots, silent, brokerVars>>

(* Mutant: the record is looked up again by its id. *)
MarkStaleById(o) ==
  /\ sweep[o] \in {"judged", "replaced"}
  /\ orders' = [orders EXCEPT ![o].status = "STALE"]
  /\ sweep' = [sweep EXCEPT ![o] = "marked"]
  /\ UNCHANGED <<client, pending, calls, snapshots, silent, brokerVars>>

(* ... writes STALE into it, whatever became of it since, or into a record  *)
(* that was replaced, where nobody reads it, ...                            *)
MarkStale(o) ==
  /\ sweep[o] \in {"judged", "replaced"}
  /\ orders' = IF sweep[o] = "judged" THEN [orders EXCEPT ![o].status = "STALE"] ELSE orders
  /\ sweep' = [sweep EXCEPT ![o] = "marked"]
  /\ UNCHANGED <<client, pending, calls, snapshots, silent, brokerVars>>

(* ... and asks the broker to cancel the id.  The request is not made if    *)
(* on_event raises, and need not arrive.                                    *)
CancelStale(o) ==
  /\ sweep[o] = "marked"
  /\ book' \in {book, Cancelled(o)}
  /\ sweep' = [sweep EXCEPT ![o] = "none"]
  /\ UNCHANGED <<client, orders, pending, calls, snapshots, silent>>

(* check_partial_fills(): whatever has become of the order since. *)
CheckPartialFills(o) ==
  /\ o \in pending
  /\ orders' = [orders EXCEPT ![o].status = IF client = "v1" THEN "PARTIAL_EXPIRED" ELSE "STALE"]
  /\ pending' = pending \ {o}
  /\ UNCHANGED <<client, calls, sweep, snapshots, silent, brokerVars>>

(* cancel() of v2 asks the broker first and looks at no state.  The request *)
(* may arrive although it raises, and then changes nothing here; it may     *)
(* return although nothing is cancelled.                                    *)
CancelAtBroker(o) ==
  /\ client = "v2"
  /\ Known(o)
  /\ book' \in {book, Cancelled(o)}
  /\ orders' \in {orders, [orders EXCEPT ![o].status = "CANCELLED"]}
  /\ UNCHANGED <<client, pending, calls, sweep, snapshots, silent>>

(* Mutant: cancel_order() does not look at the status. *)
CancelLocallyAnyway(o) ==
  /\ client = "unified"
  /\ Known(o)
  /\ orders' = [orders EXCEPT ![o].status = "CANCELLED"]
  /\ UNCHANGED <<client, pending, calls, sweep, snapshots, silent, brokerVars>>

(* cancel_order() of the unified engine changes the record alone. *)
CancelLocally(o) ==
  /\ client = "unified"
  /\ orders[o].status \notin {"NONE", "FILLED", "CANCELLED"}
  /\ orders' = [orders EXCEPT ![o].status = "CANCELLED"]
  /\ UNCHANGED <<client, pending, calls, sweep, snapshots, silent, brokerVars>>

ManagersNext ==
  /\ client \in Managers
  /\ \/ \E t \in Threads, o \in OrderIds : Submit(t, o)
     \/ \E t \in Threads : CallStep(t)
     \/ \E o \in OrderIds :
          \/ PlaceInvalid(o)
          \/ Ask(o)
          \/ Reconcile(o)
          \/ JudgeStale(o)
          \/ MarkStale(o)
          \/ CancelStale(o)
          \/ CheckPartialFills(o)
          \/ CancelAtBroker(o)
          \/ CancelLocally(o)

-----------------------------------------------------------------------------
(* No phantom fills: a manager says FILLED only if a copy was executed so   *)
(* far, unless the last answer it recorded named no status, which v1 and v2 *)
(* take for filled; and it says a filled size only if a copy executed as    *)
(* much.  Whatever order answers, exceptions, listeners that raise and      *)
(* snapshots come in, and whoever submits the id again.                     *)
NoPhantomFill ==
  \A o \in OrderIds :
    /\ orders[o].status = "FILLED" /\ o \notin silent =>
         \E k \in DOMAIN book[o] : book[o][k].done = Size
    /\ orders[o].filled \in 1 .. Size =>
         \E k \in DOMAIN book[o] : book[o][k].done >= orders[o].filled

(* Nobody is about to write the status of o: no call of submit(), no answer *)
(* of status_fn, no timer of a partial fill, no sweep that has read it.     *)
Settled(o) ==
  /\ \A t \in Threads : ~InCall(t, o)
  /\ snapshots[o] = NoSnapshot
  /\ o \notin pending
  /\ sweep[o] # "judged"

(* A final status stays, once it is settled, until its id is submitted      *)
(* again, which only v1 and v2 allow, or cancelled: by v2 whatever it was,  *)
(* by the unified engine only if it was rejected.                           *)
FinalStatusHolds ==
  [][\A o \in OrderIds :
       orders[o].status \in Final /\ Settled(o) =>
         \/ orders'[o].status = orders[o].status
         \/ /\ client \in {"v1", "v2"}
            /\ orders'[o].status = "PENDING"
            /\ \E t \in Threads : InCall(t, o)'
         \/ client = "v2" /\ orders'[o].status = "CANCELLED"
         \/ /\ client = "unified"
            /\ orders[o].status = "REJECTED"
            /\ orders'[o].status = "CANCELLED"]_managerVars

(* submit() and place_order() return or raise: the retry loop ends. *)
SubmitReturns ==
  \A t \in Threads : calls[t].at # "idle" ~> calls[t].at = "idle"

(* What the idempotency keys OrderManager claims would give: one call of    *)
(* its submit() brings at most one order to the broker, however often it    *)
(* tries.                                                                   *)
OneOrderPerSubmit ==
  [][\A t \in Threads :
       calls[t].copy # 0 => calls'[t].copy \in {calls[t].copy, 0}]_managerVars
=============================================================================
