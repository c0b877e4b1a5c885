------------------------------- MODULE Broker -------------------------------
(***************************************************************************)
(* The broker behind the live execution modules: the functions submit_fn,  *)
(* cancel_fn, status_fn, broker_adapter and on_broker_submit they are      *)
(* given.  It is outside the repository.  Every request that reaches it is *)
(* an order of its own, a copy, even if an earlier request had the same    *)
(* id: nothing in the requests lets it tell a retry from a new order.      *)
(***************************************************************************)
EXTENDS Integers, Sequences, SequencesExt

CONSTANTS
  BrokerIds,     \* ids requests may carry
  Size,          \* lots of an order
  MaxCopies      \* bound: requests for an id that reach the broker

ASSUME BrokerAssumption == Size \in Nat \ {0} /\ MaxCopies \in Nat

VARIABLES
  client,     \* the module that uses the broker
  book        \* the copies of every id, in the order of their arrival

brokerVars == <<book>>

Copy == [done : 0 .. Size, fate : {"working", "refused", "cancelled"}]

BrokerTypeOK == book \in [BrokerIds -> Seq(Copy)]

BrokerInit == book = [o \in BrokerIds |-> <<>>]

Works(copy) == copy.fate = "working" /\ copy.done < Size

(* What the broker says of a copy when it is asked. *)
StatusOf(copy) ==
  CASE copy.done = Size                             -> "FILLED"
    [] copy.done < Size /\ copy.fate = "refused"   -> "REJECTED"
    [] copy.done < Size /\ copy.fate = "cancelled" -> "CANCELLED"
    [] Works(copy) /\ copy.done > 0                -> "PARTIAL"
    [] OTHER                                       -> "SUBMITTED"

(* Requests arrive, one for every id in ids. *)
Accept(ids) ==
  /\ \A o \in ids : Len(book[o]) < MaxCopies
  /\ book' = [o \in BrokerIds |->
               IF o \in ids THEN Append(book[o], [done |-> 0, fate |-> "working"]) ELSE book[o]]

Total(lots) == FoldLeft(LAMBDA sum, n : sum + n, 0, lots)

(* How many lots of the copies of o were executed. *)
Executed(o) == Total([k \in DOMAIN book[o] |-> book[o][k].done])

(* A request to cancel ends every copy of the id that still works. *)
Cancelled(o) ==
  [book EXCEPT ![o] = [k \in DOMAIN book[o] |->
     IF Works(book[o][k]) THEN [book[o][k] EXCEPT !.fate = "cancelled"] ELSE book[o][k]]]

(* The broker executes a part or the rest of a copy. *)
Execute(o, k, n) ==
  /\ Works(book[o][k])
  /\ book[o][k].done < n
  /\ book' = [book EXCEPT ![o][k].done = n]

(* The broker refuses a copy it has not begun to execute. *)
Refuse(o, k) ==
  /\ Works(book[o][k])
  /\ book[o][k].done = 0
  /\ book' = [book EXCEPT ![o][k].fate = "refused"]
=============================================================================
