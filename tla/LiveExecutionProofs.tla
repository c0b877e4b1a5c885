------------------------ MODULE LiveExecutionProofs ------------------------
(* Theorems about the order managers, the contingency manager and the       *)
(* broker they talk to.                                                     *)
EXTENDS LiveExecution, FoldLemmas, FiniteSetTheorems, TLAPS

-----------------------------------------------------------------------------
(* What becomes of the copies at the broker.                                *)

BookOK == book \in [BrokerIds -> Seq(Copy)]

(* Copies stay where they are and lose nothing that was executed. *)
Grows(o) ==
  /\ DOMAIN book[o] \subseteq DOMAIN book'[o]
  /\ Len(book[o]) <= Len(book'[o])
  /\ \A k \in DOMAIN book[o] : book[o][k].done <= book'[o][k].done

(* Copies have numbers, and each executed something between nothing and its *)
(* size.                                                                    *)
LEMMA CopiesCount ==
  ASSUME NEW s \in Seq(Copy)
  PROVE  /\ Len(s) \in Nat /\ DOMAIN s = 1 .. Len(s)
         /\ \A k \in DOMAIN s : s[k] \in Copy /\ s[k].done \in Int /\ s[k].done \in 0 .. Size
<1>1. Len(s) \in Nat /\ DOMAIN s = 1 .. Len(s)
  OBVIOUS
<1>2. \A k \in DOMAIN s : s[k] \in Copy
  OBVIOUS
<1>3. \A copy \in Copy : copy.done \in 0 .. Size
  BY DEF Copy
<1>4. QED
  BY <1>1, <1>2, <1>3

(* Requests that arrive: one copy more of every id among them, the others   *)
(* as they were.                                                            *)
LEMMA AcceptGrows ==
  ASSUME BookOK, NEW ids, Accept(ids)
  PROVE  /\ BookOK'
         /\ \A o \in BrokerIds : Grows(o)
         /\ \A o \in BrokerIds : o \notin ids => book'[o] = book[o]
         /\ \A o \in BrokerIds : o \in ids => /\ Len(book'[o]) = Len(book[o]) + 1
                                             /\ book'[o] # <<>>
<1> DEFINE new == [done |-> 0, fate |-> "working"]
<1>0. new \in Copy
  BY BrokerAssumption DEF Copy
<1> HIDE DEF new
<1>1. book' = [o \in BrokerIds |-> IF o \in ids THEN Append(book[o], new) ELSE book[o]]
  BY DEF Accept, new
<1>2. ASSUME NEW o \in BrokerIds
      PROVE  /\ book'[o] \in Seq(Copy) /\ Grows(o)
             /\ o \notin ids => book'[o] = book[o]
             /\ o \in ids => Len(book'[o]) = Len(book[o]) + 1 /\ book'[o] # <<>>
  <2>1. book[o] \in Seq(Copy)
    BY DEF BookOK
  <2>2. \A k \in DOMAIN book[o] : book[o][k].done \in Int
    BY <2>1, CopiesCount
  <2>3. CASE o \in ids
    <3>1. book'[o] = Append(book[o], new)
      BY <1>1, <2>3
    <3>2. /\ book'[o] \in Seq(Copy)
          /\ Len(book'[o]) = Len(book[o]) + 1 /\ Len(book[o]) \in Nat
          /\ DOMAIN book[o] = 1 .. Len(book[o])
          /\ DOMAIN book'[o] = 1 .. Len(book[o]) + 1
          /\ \A k \in 1 .. Len(book[o]) : book'[o][k] = book[o][k]
      BY <1>0, <2>1, <3>1
    <3>3. book'[o] # <<>>
      BY <3>2
    <3>4. QED
      BY <2>2, <2>3, <3>2, <3>3 DEF Grows
  <2>4. CASE o \notin ids
    <3>1. book'[o] = book[o] /\ Len(book[o]) \in Nat
      BY <1>1, <2>1, <2>4
    <3>2. QED
      BY <2>1, <2>2, <2>4, <3>1 DEF Grows
  <2>5. QED
    BY <2>3, <2>4
<1>3. BookOK'
  BY <1>1, <1>2 DEF BookOK
<1>4. QED
  BY <1>2, <1>3

(* Steps that only write into copies that are there. *)
Rewrites ==
  /\ BookOK'
  /\ \A o \in BrokerIds : Grows(o) /\ Len(book'[o]) = Len(book[o])

(* A step that leaves the book alone rewrites nothing. *)
LEMMA SameBook ==
  ASSUME BookOK, book' = book
  PROVE  Rewrites
<1>1. \A o \in BrokerIds : /\ Len(book[o]) \in Nat
                           /\ \A k \in DOMAIN book[o] : book[o][k].done \in Int
  <2> SUFFICES ASSUME NEW o \in BrokerIds
               PROVE  /\ Len(book[o]) \in Nat
                      /\ \A k \in DOMAIN book[o] : book[o][k].done \in Int
    OBVIOUS
  <2>1. book[o] \in Seq(Copy)
    BY DEF BookOK
  <2>2. QED
    BY <2>1, CopiesCount
<1>2. QED
  BY <1>1 DEF Rewrites, BookOK, Grows

(* The copies of one id written anew, none of them less executed. *)
LEMMA CopyRewritten ==
  ASSUME BookOK, NEW o \in BrokerIds, NEW s \in Seq(Copy),
         book' = [book EXCEPT ![o] = s], Len(s) = Len(book[o]),
         \A k \in DOMAIN book[o] : book[o][k].done <= s[k].done
  PROVE  Rewrites
<1>1. BookOK' /\ book'[o] = s /\ \A p \in BrokerIds \ {o} : book'[p] = book[p]
  BY DEF BookOK
<1>2. \A p \in BrokerIds : book[p] \in Seq(Copy)
  BY DEF BookOK
<1>3. \A p \in BrokerIds : \A k \in DOMAIN book[p] : book[p][k].done \in Int
  BY <1>2, CopiesCount
<1>4. \A p \in BrokerIds \ {o} : Grows(p) /\ Len(book'[p]) = Len(book[p])
  BY <1>1, <1>2, <1>3 DEF Grows
<1>5. Grows(o) /\ Len(book'[o]) = Len(book[o])
  BY <1>1, <1>2 DEF Grows
<1>6. QED
  BY <1>1, <1>4, <1>5 DEF Rewrites

(* A cancellation ends copies and takes nothing back. *)
LEMMA CancelRewrites ==
  ASSUME BookOK, NEW o \in BrokerIds, book' = Cancelled(o)
  PROVE  Rewrites
<1> DEFINE s == [k \in DOMAIN book[o] |->
     IF Works(book[o][k]) THEN [book[o][k] EXCEPT !.fate = "cancelled"] ELSE book[o][k]]
<1>1. book[o] \in Seq(Copy)
  BY DEF BookOK
<1>2. /\ DOMAIN book[o] = 1 .. Len(book[o]) /\ Len(book[o]) \in Nat
      /\ \A k \in 1 .. Len(book[o]) : book[o][k] \in Copy
  BY <1>1
<1>3. \A k \in 1 .. Len(book[o]) : s[k] \in Copy /\ s[k].done = book[o][k].done
  BY <1>2 DEF Copy
<1>4. s \in [1 .. Len(book[o]) -> Copy]
  BY <1>2, <1>3
<1>5. book' = [book EXCEPT ![o] = s]
  BY DEF Cancelled
<1>6. \A k \in DOMAIN book[o] : book[o][k].done <= s[k].done
  BY <1>2, <1>3, BrokerAssumption DEF Copy
<1> HIDE DEF s
<1>7. s \in Seq(Copy) /\ Len(s) = Len(book[o])
  BY <1>2, <1>4
<1>8. QED
  BY <1>5, <1>6, <1>7, CopyRewritten

(* The broker executes or refuses copies that are there. *)
LEMMA BrokerRewrites ==
  ASSUME BookOK, BrokerStep
  PROVE  Rewrites
<1>0. PICK o \in BrokerIds : \E k \in DOMAIN book[o] :
        (\E n \in 1 .. Size : Execute(o, k, n)) \/ Refuse(o, k)
  BY DEF BrokerStep
<1>1. PICK k \in DOMAIN book[o] : (\E n \in 1 .. Size : Execute(o, k, n)) \/ Refuse(o, k)
  BY <1>0
<1>2. /\ book[o] \in Seq(Copy) /\ DOMAIN book[o] = 1 .. Len(book[o]) /\ Len(book[o]) \in Nat
      /\ \A j \in 1 .. Len(book[o]) : book[o][j] \in Copy
  BY DEF BookOK
<1>3. ASSUME NEW copy \in Copy, book' = [book EXCEPT ![o][k] = copy],
             book[o][k].done <= copy.done
      PROVE  Rewrites
  <2> DEFINE s == [book[o] EXCEPT ![k] = copy]
  <2>1. book' = [book EXCEPT ![o] = s]
    BY <1>3 DEF BookOK
  <2>2. s \in [1 .. Len(book[o]) -> Copy]
    BY <1>2
  <2>3. \A j \in DOMAIN book[o] : book[o][j].done <= s[j].done
    BY <1>2, <1>3, BrokerAssumption DEF Copy
  <2> HIDE DEF s
  <2>4. s \in Seq(Copy) /\ Len(s) = Len(book[o])
    BY <1>2, <2>2
  <2>5. QED
    BY <2>1, <2>3, <2>4, CopyRewritten
<1>4. ASSUME NEW n \in 1 .. Size, Execute(o, k, n)
      PROVE  Rewrites
  <2> DEFINE copy == [book[o][k] EXCEPT !.done = n]
  <2>1. copy \in Copy /\ book[o][k].done <= copy.done
    <3>1. book[o][k] \in Copy /\ n \in 0 .. Size
      BY <1>2, BrokerAssumption
    <3>2. book[o][k].done \in Int /\ book[o][k].done < n
      BY <1>2, <1>4, CopiesCount DEF Execute
    <3>3. QED
      BY <3>1, <3>2 DEF Copy
  <2>2. book' = [book EXCEPT ![o][k] = copy]
    BY <1>4 DEF Execute
  <2> HIDE DEF copy
  <2>3. QED
    BY <1>3, <2>1, <2>2
<1>5. ASSUME Refuse(o, k)
      PROVE  Rewrites
  <2> DEFINE copy == [book[o][k] EXCEPT !.fate = "refused"]
  <2>1. copy \in Copy /\ book[o][k].done <= copy.done
    BY <1>2, BrokerAssumption DEF Copy
  <2>2. book' = [book EXCEPT ![o][k] = copy]
    BY <1>5 DEF Refuse
  <2> HIDE DEF copy
  <2>3. QED
    BY <1>3, <2>1, <2>2
<1>6. QED
  BY <1>1, <1>4, <1>5

-----------------------------------------------------------------------------
(* What is said of an order, by its record or by a snapshot, and the copies *)
(* it is said of.                                                           *)
Truth(copies, status, filled) ==
  /\ status = "FILLED" => \E k \in DOMAIN copies : copies[k].done = Size
  /\ filled \in 1 .. Size => \E k \in DOMAIN copies : copies[k].done >= filled

(* What was true of the copies stays true when more is executed. *)
LEMMA TruthLasts ==
  ASSUME NEW c \in Seq(Copy), NEW d \in Seq(Copy),
         DOMAIN c \subseteq DOMAIN d, \A k \in DOMAIN c : c[k].done <= d[k].done,
         NEW status, NEW filled, Truth(c, status, filled)
  PROVE  Truth(d, status, filled)
<1>1. /\ \A k \in DOMAIN c : c[k].done \in 0 .. Size
      /\ \A k \in DOMAIN d : d[k].done \in 0 .. Size
  BY CopiesCount
<1>2. ASSUME status = "FILLED"
      PROVE  \E k \in DOMAIN d : d[k].done = Size
  <2>1. PICK k \in DOMAIN c : c[k].done = Size
    BY <1>2 DEF Truth
  <2>2. k \in DOMAIN d /\ Size <= d[k].done
    BY <2>1
  <2>3. d[k].done = Size
    BY <1>1, <2>2, BrokerAssumption
  <2>4. QED
    BY <2>2, <2>3
<1>3. ASSUME filled \in 1 .. Size
      PROVE  \E k \in DOMAIN d : d[k].done >= filled
  <2>1. PICK k \in DOMAIN c : c[k].done >= filled
    BY <1>3 DEF Truth
  <2>2. k \in DOMAIN d /\ d[k].done >= filled
    BY <1>1, <1>3, <2>1
  <2>3. QED
    BY <2>2
<1>4. QED
  BY <1>2, <1>3 DEF Truth

(* FILLED is said of a copy only when all of it was executed, unless the    *)
(* answer did not name what became of it.                                   *)
LEMMA StatusTells ==
  ASSUME NEW copy \in Copy
  PROVE  /\ StatusOf(copy) \in {"FILLED", "REJECTED", "CANCELLED", "PARTIAL", "SUBMITTED"}
         /\ StatusOf(copy) = "FILLED" => copy.done = Size
         /\ StatusOf(copy) = "PARTIAL" => copy.done # Size
<1>1. StatusOf(copy) \in {"FILLED", "REJECTED", "CANCELLED", "PARTIAL", "SUBMITTED"}
  BY DEF StatusOf
<1>2. StatusOf(copy) = "FILLED" => copy.done = Size
  BY DEF StatusOf
<1>3. StatusOf(copy) = "PARTIAL" => copy.done # Size
  BY BrokerAssumption DEF StatusOf, Copy, Works
<1>4. QED
  BY <1>1, <1>2, <1>3

(* A copy says the truth of itself. *)
LEMMA CopySaysTruth ==
  ASSUME NEW copies \in Seq(Copy), NEW k \in DOMAIN copies, NEW status,
         status = "FILLED" => copies[k].done = Size
  PROVE  Truth(copies, status, copies[k].done)
<1>1. copies[k].done \in Int
  BY CopiesCount
<1>2. QED
  BY <1>1 DEF Truth

(* A size that is not given says nothing, nor does that of an order nothing *)
(* of which is filled.                                                      *)
LEMMA NothingSaid ==
  ASSUME NEW copies, NEW status, status # "FILLED"
  PROVE  Truth(copies, status, Unknown) /\ Truth(copies, status, 0)
<1>1. Unknown \notin 1 .. Size
  BY ManagersAssumption
<1>2. QED
  BY <1>1 DEF Truth

(* What the record says on the word of the broker. *)
Backed(quiet, status) == IF quiet THEN "NONE" ELSE status

OrderInv(o) ==
  /\ Truth(book[o], Backed(o \in silent, orders[o].status), orders[o].filled)
  /\ Truth(book[o], snapshots[o].status, snapshots[o].filled)

(* A call that has its request at the broker knows the copy it made. *)
CallOK(c, b) ==
  /\ c.at # "idle" => c.order \in OrderIds
  /\ c.at = "arrived" => c.copy \in DOMAIN b[c.order]

ManagersInv ==
  /\ BookOK
  /\ ManagersTypeOK
  /\ \A o \in OrderIds : OrderInv(o)
  /\ \A t \in Threads : CallOK(calls[t], book)

(* The orders of the managers are known to the broker, and none of them is  *)
(* one of the contingency manager.                                          *)
LEMMA OrdersApart == \A o \in OrderIds : o \in BrokerIds /\ o \notin ContingencyIds
BY ManagersAssumption, LiveAssumption

(* What is true of an order stays true while copies are executed or arrive. *)
LEMMA TruthStays ==
  ASSUME BookOK, BookOK', NEW o \in OrderIds, Grows(o), NEW status, NEW filled,
         Truth(book[o], status, filled)
  PROVE  Truth(book'[o], status, filled)
<1>1. /\ book[o] \in Seq(Copy) /\ book'[o] \in Seq(Copy)
      /\ DOMAIN book[o] \subseteq DOMAIN book'[o]
      /\ \A k \in DOMAIN book[o] : book[o][k].done <= book'[o][k].done
  BY OrdersApart DEF BookOK, Grows
<1>2. QED
  BY <1>1, TruthLasts

(* What a call knows of its copy stays true. *)
LEMMA CallStays ==
  ASSUME NEW c, CallOK(c, book), \A o \in OrderIds : Grows(o)
  PROVE  CallOK(c, book')
BY DEF CallOK, Grows

(* What the actions write, taken from the types. *)
LEMMA Unchanged ==
  ASSUME ManagersTypeOK, NEW o \in OrderIds
  PROVE  /\ orders = [orders EXCEPT ![o] = orders[o]]
         /\ snapshots = [snapshots EXCEPT ![o] = snapshots[o]]
         /\ orders[o] \in Order /\ snapshots[o] \in Snapshot
         /\ orders[o].status \in Status /\ orders[o].filled \in FilledSize
         /\ orders[o] = [status |-> orders[o].status, filled |-> orders[o].filled]
         /\ \A status : [orders EXCEPT ![o].status = status] =
              [orders EXCEPT ![o] = [status |-> status, filled |-> orders[o].filled]]
<1>1. orders \in [OrderIds -> Order] /\ snapshots \in [OrderIds -> Snapshot]
  BY DEF ManagersTypeOK
<1>2. orders[o] \in Order /\ snapshots[o] \in Snapshot
  BY <1>1
<1>3. /\ orders[o].status \in Status /\ orders[o].filled \in FilledSize
      /\ orders[o] = [status |-> orders[o].status, filled |-> orders[o].filled]
  BY <1>2 DEF Order
<1>4. \A status : [orders[o] EXCEPT !.status = status]
                    = [status |-> status, filled |-> orders[o].filled]
  BY <1>2 DEF Order
<1>5. QED
  BY <1>1, <1>2, <1>3, <1>4

(* The calls stay as they are, ... *)
CallsKept == calls' \in [Threads -> Call] /\ \A t \in Threads : CallOK(calls'[t], book')

LEMMA CallsSame ==
  ASSUME ManagersInv, calls' = calls, \A o \in OrderIds : Grows(o)
  PROVE  CallsKept
BY CallStays DEF ManagersInv, ManagersTypeOK, CallsKept

(* ... or one of them moves. *)
LEMMA CallMoves ==
  ASSUME ManagersInv, \A o \in OrderIds : Grows(o),
         NEW t \in Threads, NEW c \in Call, CallOK(c, book'),
         calls' = [calls EXCEPT ![t] = c]
  PROVE  CallsKept
<1>1. calls \in [Threads -> Call] /\ \A u \in Threads : CallOK(calls[u], book)
  BY DEF ManagersInv, ManagersTypeOK
<1>2. /\ calls' \in [Threads -> Call] /\ calls'[t] = c
      /\ \A u \in Threads \ {t} : calls'[u] = calls[u]
  BY <1>1
<1>3. \A u \in Threads : CallOK(calls'[u], book')
  BY <1>1, <1>2, CallStays
<1>4. QED
  BY <1>2, <1>3 DEF CallsKept

(* A step of the managers changes one order: it gets a record and the last  *)
(* snapshot, and whether its status is one nobody named.                    *)
Changes(o, status, filled, s) ==
  /\ orders' = [orders EXCEPT ![o] = [status |-> status, filled |-> filled]]
  /\ snapshots' = [snapshots EXCEPT ![o] = s]
  /\ silent' \subseteq OrderIds
  /\ \A p \in OrderIds \ {o} : (p \in silent') = (p \in silent)

(* The rest of a step: nothing is taken back at the broker, the calls, the  *)
(* timers and the sweeps keep their types.                                  *)
AroundOrder ==
  /\ BookOK' /\ \A o \in OrderIds : Grows(o)
  /\ CallsKept
  /\ pending' \subseteq OrderIds
  /\ sweep' \in [OrderIds -> {"none", "judged", "replaced", "marked"}]

(* Such a step keeps the invariant if what it says of the order is true.    *)
LEMMA ChangeKeeps ==
  ASSUME ManagersInv, NEW o \in OrderIds, NEW status \in Status, NEW filled \in FilledSize,
         NEW s \in Snapshot, Changes(o, status, filled, s), AroundOrder,
         Truth(book[o], Backed(o \in silent', status), filled),
         Truth(book[o], s.status, s.filled)
  PROVE  ManagersInv'
<1> DEFINE r == [status |-> status, filled |-> filled]
<1>1. orders \in [OrderIds -> Order] /\ snapshots \in [OrderIds -> Snapshot] /\ BookOK
  BY DEF ManagersInv, ManagersTypeOK
<1>2. r \in Order /\ r.status = status /\ r.filled = filled
  BY DEF Order
<1>3. orders' = [orders EXCEPT ![o] = r]
  BY DEF Changes
<1> HIDE DEF r
<1>4. /\ orders' \in [OrderIds -> Order] /\ snapshots' \in [OrderIds -> Snapshot]
      /\ orders'[o] = r /\ snapshots'[o] = s
      /\ \A p \in OrderIds \ {o} : orders'[p] = orders[p] /\ snapshots'[p] = snapshots[p]
  BY <1>1, <1>2, <1>3 DEF Changes
<1>5. OrderInv(o)'
  <2>1. /\ Truth(book'[o], Backed(o \in silent', status), filled)
        /\ Truth(book'[o], s.status, s.filled)
    BY <1>1, TruthStays DEF AroundOrder
  <2>2. QED
    BY <1>2, <1>4, <2>1 DEF OrderInv
<1>6. ASSUME NEW p \in OrderIds \ {o}
      PROVE  OrderInv(p)'
  <2>1. /\ Truth(book[p], Backed(p \in silent, orders[p].status), orders[p].filled)
        /\ Truth(book[p], snapshots[p].status, snapshots[p].filled)
    BY DEF ManagersInv, OrderInv
  <2>2. /\ Truth(book'[p], Backed(p \in silent, orders[p].status), orders[p].filled)
        /\ Truth(book'[p], snapshots[p].status, snapshots[p].filled)
    BY <1>1, <2>1, TruthStays DEF AroundOrder
  <2>3. Backed(p \in silent', orders'[p].status) = Backed(p \in silent, orders[p].status)
    BY <1>4 DEF Changes, Backed
  <2>4. QED
    BY <1>4, <2>2, <2>3 DEF OrderInv
<1>7. ManagersTypeOK'
  BY <1>4 DEF ManagersTypeOK, AroundOrder, CallsKept, Changes
<1>8. QED
  BY <1>5, <1>6, <1>7 DEF ManagersInv, AroundOrder, CallsKept

(* Nothing is taken back by a step that does not touch the broker, or       *)
(* cancels there.                                                           *)
LEMMA BrokerKept ==
  ASSUME BookOK, NEW o \in OrderIds, book' = book \/ book' = Cancelled(o)
  PROVE  BookOK' /\ \A p \in OrderIds : Grows(p)
BY OrdersApart, SameBook, CancelRewrites DEF Rewrites

-----------------------------------------------------------------------------
(* The steps of the managers, one by one. *)

(* submit() begins, or refuses an invalid order. *)
LEMMA SubmitKeeps ==
  ASSUME ManagersInv, NEW o \in OrderIds,
         PlaceInvalid(o) \/ \E t \in Threads : Submit(t, o)
  PROVE  ManagersInv'
<1>1. BookOK /\ ManagersTypeOK /\ OrderInv(o) /\ book' = book
  BY DEF ManagersInv, Submit, PlaceInvalid, brokerVars
<1>2. BookOK' /\ \A p \in OrderIds : Grows(p)
  BY <1>1, BrokerKept
<1>3. \E status \in {"PENDING", "REJECTED"}, filled \in {0, Unknown} :
        Changes(o, status, filled, snapshots[o])
  BY <1>1, Unchanged DEF Submit, PlaceInvalid, Changes, ManagersTypeOK
<1>4. CallsKept
  <2>1. CASE PlaceInvalid(o)
    BY <1>2, <2>1, CallsSame DEF PlaceInvalid
  <2>2. ASSUME NEW t \in Threads, Submit(t, o)
        PROVE  CallsKept
    <3> DEFINE c == [at |-> "waiting", order |-> o, attempt |-> 0, copy |-> 0]
    <3>1. c \in Call /\ CallOK(c, book')
      BY ManagersAssumption DEF Call, CallOK
    <3>2. calls' = [calls EXCEPT ![t] = c]
      BY <2>2 DEF Submit
    <3> HIDE DEF c
    <3>3. QED
      BY <1>2, <3>1, <3>2, CallMoves
  <2>3. QED
    BY <2>1, <2>2
<1>5. /\ pending' \subseteq OrderIds
      /\ sweep' \in [OrderIds -> {"none", "judged", "replaced", "marked"}]
  BY <1>1 DEF Submit, PlaceInvalid, ManagersTypeOK
<1>6. AroundOrder
  BY <1>2, <1>4, <1>5 DEF AroundOrder
<1>7. ASSUME NEW status \in {"PENDING", "REJECTED"}, NEW filled \in {0, Unknown}
      PROVE  /\ Truth(book[o], Backed(o \in silent', status), filled)
             /\ status \in Status /\ filled \in FilledSize
  <2>1. Backed(o \in silent', status) # "FILLED"
    BY DEF Backed
  <2>2. Truth(book[o], Backed(o \in silent', status), filled)
    BY <2>1, NothingSaid
  <2>3. QED
    BY <2>2, BrokerAssumption DEF Status, FilledSize
<1>8. snapshots[o] \in Snapshot /\ Truth(book[o], snapshots[o].status, snapshots[o].filled)
  BY <1>1, Unchanged DEF OrderInv
<1>9. QED
  BY <1>3, <1>6, <1>7, <1>8, ChangeKeeps

(* Nothing is said of any order: the rest of the step is all there is. *)
LEMMA RecordsKeep ==
  ASSUME ManagersInv, AroundOrder, UNCHANGED <<orders, snapshots, silent>>
  PROVE  ManagersInv'
<1>1. BookOK /\ ManagersTypeOK
  BY DEF ManagersInv
<1>2. ASSUME NEW o \in OrderIds
      PROVE  OrderInv(o)'
  <2>1. /\ Truth(book[o], Backed(o \in silent, orders[o].status), orders[o].filled)
        /\ Truth(book[o], snapshots[o].status, snapshots[o].filled)
    BY DEF ManagersInv, OrderInv
  <2>2. /\ Truth(book'[o], Backed(o \in silent, orders[o].status), orders[o].filled)
        /\ Truth(book'[o], snapshots[o].status, snapshots[o].filled)
    BY <1>1, <2>1, TruthStays DEF AroundOrder
  <2>3. QED
    BY <2>2 DEF OrderInv
<1>3. ManagersTypeOK'
  BY <1>1 DEF ManagersTypeOK, AroundOrder, CallsKept
<1>4. QED
  BY <1>2, <1>3 DEF ManagersInv, AroundOrder, CallsKept

(* A request arrives: one copy more, which the call knows of. *)
LEMMA ArrivalKeeps ==
  ASSUME ManagersInv, NEW t \in Threads, RequestArrives(t)
  PROVE  ManagersInv'
<1> DEFINE o == calls[t].order
           n == Len(book[o]) + 1
           c == [calls[t] EXCEPT !.at = "arrived", !.copy = n]
<1>1. /\ BookOK /\ ManagersTypeOK /\ calls[t] \in Call /\ o \in OrderIds /\ o \in BrokerIds
      /\ Accept({o})
  BY OrdersApart DEF ManagersInv, ManagersTypeOK, RequestArrives, CallOK
<1>2. /\ BookOK' /\ \A p \in OrderIds : Grows(p)
      /\ Len(book'[o]) = Len(book[o]) + 1
  BY <1>1, AcceptGrows, OrdersApart
<1>3. n \in Nat /\ n \in DOMAIN book'[o]
  <2>1. book[o] \in Seq(Copy) /\ book'[o] \in Seq(Copy)
    BY <1>1, <1>2 DEF BookOK
  <2>2. QED
    BY <1>2, <2>1
<1>4. calls' = [calls EXCEPT ![t] = c]
  BY <1>1 DEF RequestArrives, ManagersTypeOK
<1> HIDE DEF n
<1>5. c \in Call /\ c.order = o /\ c.copy = n
  BY <1>1, <1>3 DEF Call
<1> HIDE DEF c
<1>6. CallOK(c, book')
  BY <1>1, <1>3, <1>5 DEF CallOK
<1>7. CallsKept
  BY <1>2, <1>4, <1>5, <1>6, CallMoves
<1>8. AroundOrder /\ UNCHANGED <<orders, snapshots, silent>>
  BY <1>1, <1>2, <1>7 DEF AroundOrder, RequestArrives, ManagersTypeOK
<1>9. QED
  BY <1>8, RecordsKeep

(* What a manager makes of an answer: the status is among those it knows,   *)
(* and the status and the size are true of the copy unless it assumed them. *)
LEMMA AnswerTells ==
  ASSUME ManagersInv, NEW o \in OrderIds, NEW k \in DOMAIN book[o],
         NEW named \in BOOLEAN, NEW sized \in BOOLEAN, NEW status,
         status \in {Recorded(book[o][k], named), "ERROR"},
         Record(o, book[o][k], named, sized, status)
  PROVE  /\ status \in Status
         /\ RecordedSize(o, book[o][k], named, sized) \in FilledSize
         /\ Truth(book[o], Backed(o \in silent', status),
                  RecordedSize(o, book[o][k], named, sized))
<1> DEFINE copy   == book[o][k]
           said   == Recorded(copy, named)
           filled == RecordedSize(o, copy, named, sized)
<1>1. /\ book[o] \in Seq(Copy) /\ ManagersTypeOK /\ OrderInv(o)
      /\ copy \in Copy /\ copy.done \in 0 .. Size /\ copy.done \in Int
  <2>1. book[o] \in Seq(Copy) /\ ManagersTypeOK /\ OrderInv(o)
    BY OrdersApart DEF ManagersInv, BookOK
  <2>2. QED
    BY <2>1, CopiesCount
<1>2. /\ orders[o].filled \in FilledSize
      /\ Truth(book[o], Backed(o \in silent, orders[o].status), orders[o].filled)
  BY <1>1, Unchanged DEF OrderInv
<1>3. /\ said \in {"FILLED", "REJECTED", "CANCELLED", "PARTIAL", "SUBMITTED"}
      /\ said = "FILLED" /\ (named \/ client = "unified") => copy.done = Size
  BY <1>1, StatusTells, Zenon DEF Recorded
<1>4. status \in Status
  BY <1>3 DEF Status
<1>5. \/ filled = Unknown
      \/ filled = orders[o].filled
      \/ filled = Size /\ client = "unified" /\ said = "FILLED"
      \/ filled = 0
      \/ filled = copy.done
  BY DEF RecordedSize
<1>6. filled \in FilledSize
  BY <1>1, <1>2, <1>5, BrokerAssumption DEF FilledSize
<1>7. Backed(o \in silent', status) = "FILLED" => copy.done = Size
  <2>1. o \in silent' \/ named \/ client = "unified"
    BY DEF Record
  <2>2. QED
    BY <1>3, <2>1, Zenon DEF Backed
<1> HIDE DEF filled, said
<1>8. filled \in 1 .. Size => \E j \in DOMAIN book[o] : book[o][j].done >= filled
  <2>1. filled \in 1 .. Size /\ filled = Unknown => FALSE
    BY ManagersAssumption
  <2>2. filled = orders[o].filled /\ filled \in 1 .. Size
          => \E j \in DOMAIN book[o] : book[o][j].done >= filled
    BY <1>2 DEF Truth
  <2>3. filled = Size /\ client = "unified" /\ said = "FILLED" => copy.done >= filled
    BY <1>1, <1>3, BrokerAssumption
  <2>4. filled \in 1 .. Size /\ filled = 0 => FALSE
    OBVIOUS
  <2>5. filled = copy.done => copy.done >= filled
    BY <1>1
  <2>6. QED
    BY <1>5, <2>1, <2>2, <2>3, <2>4, <2>5
<1>9. Truth(book[o], Backed(o \in silent', status), filled)
  BY <1>7, <1>8 DEF Truth
<1>10. QED
  BY <1>4, <1>6, <1>9 DEF filled

(* The call after an attempt that failed. *)
LEMMA RetriedCall ==
  ASSUME ManagersTypeOK, NEW t \in Threads, calls[t].at # "idle", CallOK(calls[t], book)
  PROVE  /\ Retried(t) \in Call /\ NoCall \in Call
         /\ \A b : CallOK(Retried(t), b) /\ CallOK(NoCall, b)
         /\ \/ Retried(t) = NoCall
            \/ /\ Retried(t).at \in {"waiting", "backoff"}
               /\ Retried(t).attempt = calls[t].attempt + 1
               /\ calls[t].attempt < MaxRetries
<1>1. calls[t] \in Call /\ calls[t].attempt \in 0 .. MaxRetries /\ calls[t].order \in OrderIds
  BY DEF ManagersTypeOK, Call, CallOK
<1>2. NoCall \in Call /\ \A b : CallOK(NoCall, b)
  BY ManagersAssumption DEF NoCall, Call, CallOK
<1>3. CASE ~CanRetry(t)
  BY <1>2, <1>3 DEF Retried
<1>4. CASE CanRetry(t)
  <2> DEFINE n  == calls[t].attempt + 1
             at == IF client = "unified" THEN "waiting" ELSE "backoff"
             c  == [calls[t] EXCEPT !.at = at, !.attempt = n]
  <2>1. n \in 0 .. MaxRetries /\ calls[t].attempt < MaxRetries
    BY <1>1, <1>4, ManagersAssumption DEF CanRetry
  <2>2. at \in {"waiting", "backoff"}
    OBVIOUS
  <2>3. Retried(t) = c
    BY <1>1, <1>4 DEF Retried, Call
  <2> HIDE DEF at, n
  <2>4. c \in Call /\ c.at = at /\ c.attempt = n /\ c.order = calls[t].order
    BY <1>1, <2>1, <2>2 DEF Call
  <2> HIDE DEF c
  <2>5. \A b : CallOK(c, b)
    BY <1>1, <2>2, <2>4 DEF CallOK
  <2>6. QED
    BY <1>2, <2>1, <2>2, <2>3, <2>4, <2>5 DEF n
<1>5. QED
  BY <1>3, <1>4

(* The broker answers the call, and on_event may raise. *)
LEMMA AnswerKeeps ==
  ASSUME ManagersInv, NEW t \in Threads, Answer(t) \/ ListenerRaises(t)
  PROVE  ManagersInv'
<1> DEFINE o    == calls[t].order
           k    == calls[t].copy
           copy == book[o][k]
<1>1. /\ BookOK /\ ManagersTypeOK /\ book' = book /\ snapshots' = snapshots /\ sweep' = sweep
      /\ o \in OrderIds /\ k \in DOMAIN book[o] /\ calls[t].at = "arrived"
      /\ CallOK(calls[t], book)
  BY DEF ManagersInv, Answer, ListenerRaises, brokerVars, CallOK
<1>2. BookOK' /\ \A p \in OrderIds : Grows(p)
  BY <1>1, BrokerKept
<1>3. PICK named \in BOOLEAN, sized \in BOOLEAN :
        \E status \in {Recorded(copy, named), "ERROR"} : Record(o, copy, named, sized, status)
  BY DEF Answer, ListenerRaises
<1>4. PICK status \in {Recorded(copy, named), "ERROR"} : Record(o, copy, named, sized, status)
  BY <1>3
<1> DEFINE filled == RecordedSize(o, copy, named, sized)
<1>5. /\ status \in Status /\ filled \in FilledSize
      /\ Truth(book[o], Backed(o \in silent', status), filled)
  BY <1>1, <1>4, AnswerTells
<1>6. Changes(o, status, filled, snapshots[o])
  <2>1. /\ orders' = [orders EXCEPT ![o] = [status |-> status, filled |-> filled]]
        /\ silent' = silent \ {o} \/ silent' = silent \cup {o}
    BY <1>4 DEF Record
  <2>2. snapshots' = [snapshots EXCEPT ![o] = snapshots[o]] /\ silent \subseteq OrderIds
    BY <1>1, Unchanged DEF ManagersTypeOK
  <2> HIDE DEF filled, o
  <2>3. /\ silent' \subseteq OrderIds
        /\ \A p \in OrderIds \ {o} : (p \in silent') = (p \in silent)
    BY <1>1, <2>1, <2>2
  <2>4. QED
    BY <2>1, <2>2, <2>3 DEF Changes
<1>7. CallsKept
  <2>1. calls' = [calls EXCEPT ![t] = NoCall] \/ calls' = [calls EXCEPT ![t] = Retried(t)]
    BY DEF Answer, ListenerRaises
  <2>2. /\ Retried(t) \in Call /\ NoCall \in Call
        /\ CallOK(Retried(t), book') /\ CallOK(NoCall, book')
    BY <1>1, RetriedCall
  <2>3. QED
    BY <1>2, <2>1, <2>2, CallMoves
<1>8. pending' \subseteq OrderIds
  BY <1>1 DEF Answer, ListenerRaises, Noted, ManagersTypeOK
<1>9. AroundOrder
  BY <1>1, <1>2, <1>7, <1>8 DEF AroundOrder, ManagersTypeOK
<1>10. snapshots[o] \in Snapshot /\ Truth(book[o], snapshots[o].status, snapshots[o].filled)
  BY <1>1, Unchanged DEF ManagersInv, OrderInv
<1> HIDE DEF o, filled
<1>11. QED
  BY <1>1, <1>5, <1>6, <1>9, <1>10, ChangeKeeps

(* The record gets another status, one that claims no fill. *)
LEMMA StatusKeeps ==
  ASSUME ManagersInv, NEW o \in OrderIds, NEW status \in Status, status # "FILLED",
         orders' = [orders EXCEPT ![o].status = status],
         UNCHANGED <<snapshots, silent>>, AroundOrder
  PROVE  ManagersInv'
<1>1. ManagersTypeOK /\ OrderInv(o)
  BY DEF ManagersInv
<1>2. /\ orders[o].filled \in FilledSize /\ snapshots[o] \in Snapshot
      /\ Truth(book[o], Backed(o \in silent, orders[o].status), orders[o].filled)
      /\ Truth(book[o], snapshots[o].status, snapshots[o].filled)
  BY <1>1, Unchanged DEF OrderInv
<1>3. Changes(o, status, orders[o].filled, snapshots[o])
  BY <1>1, Unchanged DEF Changes, ManagersTypeOK
<1>4. Truth(book[o], Backed(o \in silent', status), orders[o].filled)
  <2>1. Backed(o \in silent', status) # "FILLED"
    BY DEF Backed
  <2>2. QED
    BY <1>2, <2>1 DEF Truth
<1>5. QED
  BY <1>2, <1>3, <1>4, ChangeKeeps

(* The call raises: the order is marked ERROR or left as it is. *)
LEMMA RaiseKeeps ==
  ASSUME ManagersInv, NEW t \in Threads, Raise(t)
  PROVE  ManagersInv'
<1> DEFINE o == calls[t].order
<1>1. /\ BookOK /\ ManagersTypeOK /\ book' = book /\ o \in OrderIds
      /\ calls[t].at # "idle" /\ CallOK(calls[t], book)
      /\ UNCHANGED <<pending, sweep, snapshots, silent>>
  BY DEF ManagersInv, Raise, brokerVars, CallOK
<1>2. BookOK' /\ \A p \in OrderIds : Grows(p)
  BY <1>1, BrokerKept
<1>3. CallsKept
  <2>1. Retried(t) \in Call /\ CallOK(Retried(t), book')
    BY <1>1, RetriedCall
  <2>2. calls' = [calls EXCEPT ![t] = Retried(t)]
    BY DEF Raise
  <2>3. QED
    BY <1>2, <2>1, <2>2, CallMoves
<1>4. AroundOrder
  BY <1>1, <1>2, <1>3 DEF AroundOrder, ManagersTypeOK
<1>5. orders' = orders \/ orders' = [orders EXCEPT ![o].status = "ERROR"]
  BY DEF Raise
<1> HIDE DEF o
<1>6. QED
  BY <1>1, <1>4, <1>5, RecordsKeep, StatusKeeps DEF Status

(* The backoff is over. *)
LEMMA WakeKeeps ==
  ASSUME ManagersInv, NEW t \in Threads, Wake(t)
  PROVE  ManagersInv'
<1> DEFINE c == [calls[t] EXCEPT !.at = "waiting"]
<1>1. /\ BookOK /\ ManagersTypeOK /\ book' = book /\ calls[t].order \in OrderIds
      /\ calls[t] \in Call
      /\ UNCHANGED <<orders, pending, sweep, snapshots, silent>>
  BY DEF ManagersInv, ManagersTypeOK, Wake, brokerVars, CallOK
<1>2. BookOK' /\ \A p \in OrderIds : Grows(p)
  BY <1>1, BrokerKept
<1>3. calls' = [calls EXCEPT ![t] = c]
  BY DEF Wake
<1>4. c \in Call /\ c.at = "waiting" /\ c.order = calls[t].order
  BY <1>1 DEF Call
<1> HIDE DEF c
<1>5. CallOK(c, book')
  BY <1>1, <1>4 DEF CallOK
<1>6. AroundOrder
  BY <1>1, <1>2, <1>3, <1>4, <1>5, CallMoves DEF AroundOrder, ManagersTypeOK
<1>7. QED
  BY <1>1, <1>6, RecordsKeep

(* The other steps leave the calls alone. *)
LEMMA SweepAround ==
  ASSUME ManagersInv, NEW o \in OrderIds, calls' = calls,
         book' = book \/ book' = Cancelled(o), pending' \subseteq pending,
         \/ sweep' = sweep
         \/ \E s \in {"none", "judged", "marked"} : sweep' = [sweep EXCEPT ![o] = s]
  PROVE  AroundOrder
<1>1. BookOK /\ ManagersTypeOK
  BY DEF ManagersInv
<1>2. BookOK' /\ \A p \in OrderIds : Grows(p)
  BY <1>1, BrokerKept
<1>3. CallsKept
  BY <1>2, CallsSame
<1>4. QED
  BY <1>1, <1>2, <1>3 DEF AroundOrder, ManagersTypeOK

(* A snapshot shows a copy as it is, as far as it says anything. *)
LEMMA AskKeeps ==
  ASSUME ManagersInv, NEW o \in OrderIds, Ask(o)
  PROVE  ManagersInv'
<1>1. /\ BookOK /\ ManagersTypeOK /\ OrderInv(o) /\ book[o] \in Seq(Copy)
      /\ UNCHANGED <<orders, pending, calls, sweep, silent, book>>
  BY OrdersApart DEF ManagersInv, Ask, brokerVars, BookOK
<1>2. PICK k \in DOMAIN book[o] : \E answer \in Answers(book[o][k]) :
        snapshots' = [snapshots EXCEPT ![o] = answer]
  BY DEF Ask
<1>3. PICK answer \in Answers(book[o][k]) : snapshots' = [snapshots EXCEPT ![o] = answer]
  BY <1>2
<1>4. book[o][k] \in Copy /\ book[o][k].done \in 0 .. Size /\ book[o][k].done \in Int
  BY <1>1, CopiesCount
<1>5. /\ answer.status \in {"UNNAMED", StatusOf(book[o][k])}
      /\ answer.filled \in {Unknown, book[o][k].done}
      /\ answer = [status |-> answer.status, filled |-> answer.filled]
  BY DEF Answers
<1>6. answer \in Snapshot
  <2>1. answer.status \in Status \cup {"UNNAMED"} /\ answer.filled \in FilledSize
    BY <1>4, <1>5, StatusTells DEF Status, FilledSize
  <2>2. QED
    BY <1>5, <2>1 DEF Snapshot
<1>7. Truth(book[o], answer.status, answer.filled)
  <2>1. answer.status = "FILLED" => book[o][k].done = Size
    BY <1>4, <1>5, StatusTells
  <2>2. Truth(book[o], answer.status, book[o][k].done)
    BY <1>1, <2>1, CopySaysTruth
  <2>3. Unknown \notin 1 .. Size
    BY ManagersAssumption
  <2>4. QED
    BY <1>5, <2>2, <2>3 DEF Truth
<1>8. Changes(o, orders[o].status, orders[o].filled, answer)
  <2>1. orders = [orders EXCEPT ![o] = [status |-> orders[o].status, filled |-> orders[o].filled]]
    BY <1>1, Unchanged
  <2>2. QED
    BY <1>1, <1>3, <2>1 DEF Changes, ManagersTypeOK
<1>9. AroundOrder
  BY <1>1, SweepAround
<1>10. /\ orders[o].status \in Status /\ orders[o].filled \in FilledSize
       /\ Truth(book[o], Backed(o \in silent', orders[o].status), orders[o].filled)
  BY <1>1, Unchanged DEF OrderInv
<1>11. QED
  BY <1>6, <1>7, <1>8, <1>9, <1>10, ChangeKeeps

(* A snapshot is written over the order; what it says was true when it was  *)
(* taken.                                                                   *)
LEMMA ReconcileKeeps ==
  ASSUME ManagersInv, NEW o \in OrderIds, Reconcile(o)
  PROVE  ManagersInv'
<1> DEFINE ext == snapshots[o]
<1>1. /\ BookOK /\ ManagersTypeOK /\ OrderInv(o)
      /\ snapshots' = [snapshots EXCEPT ![o] = NoSnapshot]
      /\ UNCHANGED <<pending, calls, sweep, silent, book>>
  BY DEF ManagersInv, Reconcile, brokerVars
<1>2. /\ orders[o].status \in Status /\ orders[o].filled \in FilledSize /\ ext \in Snapshot
      /\ Truth(book[o], Backed(o \in silent, orders[o].status), orders[o].filled)
      /\ Truth(book[o], ext.status, ext.filled)
  BY <1>1, Unchanged DEF OrderInv
<1>3. NoSnapshot \in Snapshot /\ Truth(book[o], NoSnapshot.status, NoSnapshot.filled)
  <2>1. NoSnapshot \in Snapshot /\ NoSnapshot.status = "NONE" /\ NoSnapshot.filled = Unknown
    BY DEF NoSnapshot, Snapshot, Status, FilledSize
  <2>2. QED
    BY <2>1, NothingSaid
<1>4. /\ ext.status \in Status \cup {"UNNAMED"} /\ ext.filled \in FilledSize
      /\ ext.status # "UNNAMED" => ext.status \in Status
  BY <1>2 DEF Snapshot
<1>5. AroundOrder
  BY <1>1, SweepAround
<1>6. ASSUME NEW status \in Status, NEW filled \in FilledSize,
             orders' = [orders EXCEPT ![o] = [status |-> status, filled |-> filled]],
             Truth(book[o], Backed(o \in silent, status), filled)
      PROVE  ManagersInv'
  <2>1. Changes(o, status, filled, NoSnapshot)
    BY <1>1, <1>6 DEF Changes, ManagersTypeOK
  <2>2. QED
    BY <1>1, <1>3, <1>5, <1>6, <2>1, ChangeKeeps
<1>7. ASSUME NEW status \in Status, orders' = [orders EXCEPT ![o].status = status],
             status = "FILLED" => ext.status = "FILLED"
      PROVE  ManagersInv'
  <2>1. orders' = [orders EXCEPT ![o] = [status |-> status, filled |-> orders[o].filled]]
    BY <1>1, <1>7, Unchanged
  <2>2. Truth(book[o], Backed(o \in silent, status), orders[o].filled)
    BY <1>2, <1>7 DEF Truth, Backed
  <2>3. QED
    BY <1>2, <1>6, <2>1, <2>2
<1>8. CASE orders' = orders
  BY <1>1, <1>2, <1>6, <1>8, Unchanged
<1> HIDE DEF ext
<1>9. CASE ReconcileV1(o, ext)
  BY <1>7, <1>8, <1>9 DEF ReconcileV1, Status
<1>10. CASE ReconcileV2(o, ext)
  BY <1>4, <1>7, <1>8, <1>10 DEF ReconcileV2
<1>11. CASE ReconcileUnified(o, ext)
  <2> DEFINE status == IF ext.status = "UNNAMED" THEN "PENDING" ELSE ext.status
             filled == IF ext.filled = Unknown THEN orders[o].filled ELSE ext.filled
  <2>1. orders' = [orders EXCEPT ![o] = [status |-> status, filled |-> filled]]
    BY <1>1, <1>11 DEF ReconcileUnified, ManagersTypeOK
  <2>2. status \in Status /\ filled \in FilledSize
    BY <1>2, <1>4 DEF Status
  <2>3. Truth(book[o], Backed(o \in silent, status), filled)
    BY <1>2 DEF Truth, Backed
  <2> HIDE DEF status, filled
  <2>4. QED
    BY <1>6, <2>1, <2>2, <2>3
<1>12. QED
  BY <1>9, <1>10, <1>11 DEF Reconcile, ext

(* The sweeps and cancel(). *)
Sweeps(o) ==
  \/ JudgeStale(o) \/ MarkStale(o) \/ CancelStale(o) \/ CheckPartialFills(o)
  \/ CancelAtBroker(o) \/ CancelLocally(o)

LEMMA SweepsKeep ==
  ASSUME ManagersInv, NEW o \in OrderIds, Sweeps(o)
  PROVE  ManagersInv'
<1>1. UNCHANGED <<calls, snapshots, silent>>
  BY DEF Sweeps, JudgeStale, MarkStale, CancelStale, CheckPartialFills, CancelAtBroker,
         CancelLocally
<1>2. book' = book \/ book' = Cancelled(o)
  BY DEF Sweeps, JudgeStale, MarkStale, CancelStale, CheckPartialFills, CancelAtBroker,
         CancelLocally, brokerVars
<1>3. pending' \subseteq pending
  BY DEF Sweeps, JudgeStale, MarkStale, CancelStale, CheckPartialFills, CancelAtBroker,
         CancelLocally
<1>4. \/ sweep' = sweep
      \/ \E s \in {"none", "judged", "marked"} : sweep' = [sweep EXCEPT ![o] = s]
  BY DEF Sweeps, JudgeStale, MarkStale, CancelStale, CheckPartialFills, CancelAtBroker,
         CancelLocally
<1>5. AroundOrder
  BY <1>1, <1>2, <1>3, <1>4, SweepAround
<1>6. \/ orders' = orders
      \/ \E status \in {"STALE", "PARTIAL_EXPIRED", "CANCELLED"} :
           orders' = [orders EXCEPT ![o].status = status]
  BY DEF Sweeps, JudgeStale, MarkStale, CancelStale, CheckPartialFills, CancelAtBroker,
         CancelLocally
<1>7. QED
  BY <1>1, <1>5, <1>6, RecordsKeep, StatusKeeps DEF Status

-----------------------------------------------------------------------------
(* A step of the contingency manager sends something or leaves the broker. *)
LEMMA ContingencySends ==
  ASSUME ContingencyNext
  PROVE  book' = book \/ \E some \in SUBSET ContingencyIds : Accept(some)
<1>1. ASSUME NEW ids \in SUBSET ContingencyIds, Sent(ids) \/ Raised(ids)
      PROVE  \E some \in SUBSET ContingencyIds : Accept(some)
  BY <1>1 DEF Sent, Raised
<1>2. /\ {Entry} \in SUBSET ContingencyIds
      /\ \A legs \in SUBSET Legs : legs \in SUBSET ContingencyIds
      /\ \A i \in DOMAIN Slices : {Slices[i]} \in SUBSET ContingencyIds
      /\ {Head(Slices)} \in SUBSET ContingencyIds
  <2>1. \A i \in DOMAIN Slices : Slices[i] \in ContingencyIds
    BY DEF ContingencyIds, SliceIds, ToSet
  <2>2. 1 \in DOMAIN Slices /\ Head(Slices) = Slices[1]
    BY ContingencyAssumption
  <2>3. QED
    BY <2>1, <2>2 DEF ContingencyIds
<1>3. ASSUME NEW o \in ContingencyIds, NEW lots, OnFill(o, lots)
      PROVE  book' = book \/ \E some \in SUBSET ContingencyIds : Accept(some)
  <2>1. CASE FillBracket(lots) \/ FillOco(o) \/ FillIgnored(o)
    BY <2>1 DEF FillBracket, FillOco, FillIgnored, brokerVars
  <2>2. CASE FillSlice(o, lots)
    <3>1. \/ book' = book
          \/ \E i \in DOMAIN Slices : Sent({Slices[i]}) \/ Raised({Slices[i]})
      BY <2>2 DEF FillSlice, NextSlices, brokerVars
    <3>2. QED
      BY <1>1, <1>2, <3>1
  <2>3. QED
    BY <1>3, <2>1, <2>2 DEF OnFill
<1>4. CASE SubmitBracket
  BY <1>1, <1>2, <1>4 DEF SubmitBracket
<1>5. CASE SubmitOco
  BY <1>1, <1>2, <1>5 DEF SubmitOco
<1>6. CASE SubmitIceberg
  BY <1>1, <1>2, <1>6 DEF SubmitIceberg
<1>7. CASE \E o \in ContingencyIds, lots \in 1 .. Size : Report(o, lots) \/ ReportAgain(o, lots)
  BY <1>3, <1>7 DEF Report, ReportAgain
<1>8. CASE SubmitTrailing \/ \E price \in Prices, isLong \in BOOLEAN : UpdateTrailing(price, isLong)
  BY <1>8 DEF SubmitTrailing, UpdateTrailing, brokerVars
<1>9. QED
  BY <1>4, <1>5, <1>6, <1>7, <1>8 DEF ContingencyNext

(* The contingency manager sends under ids of its own. *)
LEMMA ContingencyElsewhere ==
  ASSUME BookOK, ContingencyNext
  PROVE  /\ BookOK'
         /\ \A o \in OrderIds : book'[o] = book[o]
<1>1. CASE book' = book
  BY <1>1 DEF BookOK
<1>2. ASSUME NEW some \in SUBSET ContingencyIds, Accept(some)
      PROVE  BookOK' /\ \A o \in OrderIds : book'[o] = book[o]
  BY <1>2, AcceptGrows, OrdersApart
<1>3. QED
  BY <1>1, <1>2, ContingencySends

(* Every step of a live session keeps the invariant of the managers. *)
LEMMA ManagersStep == ManagersInv /\ [Next]_vars => ManagersInv'
<1> SUFFICES ASSUME ManagersInv, [Next]_vars PROVE ManagersInv'
  OBVIOUS
<1>0. BookOK /\ ManagersTypeOK
  BY DEF ManagersInv
<1>1. ASSUME UNCHANGED managerVars, BookOK', \A o \in OrderIds : Grows(o)
      PROVE  ManagersInv'
  <2>1. CallsKept
    BY <1>1, CallsSame DEF managerVars
  <2>2. AroundOrder /\ UNCHANGED <<orders, snapshots, silent>>
    BY <1>0, <1>1, <2>1 DEF managerVars, AroundOrder, ManagersTypeOK
  <2>3. QED
    BY <2>2, RecordsKeep
<1>2. CASE BrokerStep /\ UNCHANGED <<client, managerVars, contingencyVars>>
  BY <1>0, <1>1, <1>2, BrokerRewrites, OrdersApart DEF Rewrites
<1>3. CASE ManagersNext
  BY <1>3, SubmitKeeps, ArrivalKeeps, AnswerKeeps, RaiseKeeps, WakeKeeps, AskKeeps,
     ReconcileKeeps, SweepsKeep DEF ManagersNext, CallStep, Sweeps
<1>4. CASE ContingencyNext /\ UNCHANGED <<client, managerVars>>
  <2>1. BookOK' /\ \A o \in OrderIds : book'[o] = book[o]
    BY <1>0, <1>4, ContingencyElsewhere
  <2>2. \A o \in OrderIds : Grows(o)
    <3>1. \A o \in OrderIds : book[o] \in Seq(Copy)
      BY <1>0, OrdersApart DEF BookOK
    <3>2. QED
      BY <2>1, <3>1, CopiesCount DEF Grows
  <2>3. QED
    BY <1>1, <1>4, <2>1, <2>2
<1>5. CASE UNCHANGED vars
  <2>1. book' = book /\ UNCHANGED managerVars
    BY <1>5 DEF vars, brokerVars
  <2>2. QED
    BY <1>0, <1>1, <2>1, SameBook, OrdersApart DEF Rewrites
<1>6. QED
  BY <1>2, <1>3, <1>4, <1>5 DEF Next

(* No order is known at first. *)
LEMMA ManagersInvInit == Init => ManagersInv
<1> SUFFICES ASSUME Init PROVE ManagersInv
  OBVIOUS
<1>1. BookOK /\ \A o \in OrderIds : book[o] = <<>>
  BY OrdersApart DEF Init, BrokerInit, BookOK
<1>2. /\ orders = [o \in OrderIds |-> [status |-> "NONE", filled |-> Unknown]]
      /\ calls = [t \in Threads |-> NoCall] /\ pending = {} /\ silent = {}
      /\ sweep = [o \in OrderIds |-> "none"]
      /\ snapshots = [o \in OrderIds |-> NoSnapshot]
  BY DEF Init, ManagersInit
<1>3. /\ [status |-> "NONE", filled |-> Unknown] \in Order
      /\ NoSnapshot \in Snapshot /\ NoSnapshot.status = "NONE" /\ NoSnapshot.filled = Unknown
      /\ NoCall \in Call /\ CallOK(NoCall, book)
  BY ManagersAssumption DEF Order, NoSnapshot, Snapshot, Status, FilledSize, NoCall, Call, CallOK
<1>4. ManagersTypeOK
  BY <1>2, <1>3 DEF ManagersTypeOK
<1>5. \A o \in OrderIds : OrderInv(o)
  <2>1. \A o \in OrderIds : Backed(o \in silent, orders[o].status) = "NONE"
    BY <1>2 DEF Backed
  <2>2. QED
    BY <1>2, <1>3, <2>1, NothingSaid DEF OrderInv
<1>6. QED
  BY <1>1, <1>2, <1>3, <1>4, <1>5 DEF ManagersInv

(* Together. *)
LEMMA ManagersInvHolds == Spec => []ManagersInv
BY ManagersInvInit, ManagersStep, PTL DEF Spec

(* A manager says FILLED, or a filled size, only of what some copy has had  *)
(* executed, an answer without a status aside: for any number of orders,    *)
(* threads that submit them, retries, sweeps and late snapshots.            *)
THEOREM LiveNoPhantomFill == Spec => []NoPhantomFill
<1>1. ManagersInv => NoPhantomFill
  BY DEF ManagersInv, OrderInv, Truth, Backed, NoPhantomFill
<1>2. QED
  BY <1>1, ManagersInvHolds, PTL

(* A final status outlives every late answer, sweep and timer: once nothing *)
(* that was begun is outstanding, only a cancel and another submit() of the *)
(* id still change it.                                                      *)
THEOREM FinalStatusLasts == Spec => FinalStatusHolds
<1> DEFINE Replaced(o) == \/ orders'[o].status = orders[o].status
                          \/ /\ client \in {"v1", "v2"}
                             /\ orders'[o].status = "PENDING"
                             /\ \E t \in Threads : InCall(t, o)'
                          \/ client = "v2" /\ orders'[o].status = "CANCELLED"
                          \/ /\ client = "unified"
                             /\ orders[o].status = "REJECTED"
                             /\ orders'[o].status = "CANCELLED"
           Holds(o) == orders[o].status \in Final /\ Settled(o) => Replaced(o)
<1>1. ASSUME ManagersInv, [Next]_vars, NEW o \in OrderIds
      PROVE  Holds(o)
  <2> SUFFICES ASSUME orders[o].status \in Final, Settled(o)
               PROVE  Replaced(o)
    OBVIOUS
  <2>0. /\ orders \in [OrderIds -> Order] /\ calls \in [Threads -> Call] /\ ManagersTypeOK
        /\ Known(o) /\ orders[o] \in Order
    BY <1>1 DEF ManagersInv, ManagersTypeOK, Known, Final
  <2>1. CASE orders' = orders
    BY <2>1
  <2>2. ASSUME NEW t \in Threads, NEW p \in OrderIds, Submit(t, p), client \in Managers
        PROVE  Replaced(o)
    <3>1. CASE p # o
      BY <2>0, <2>2, <3>1 DEF Submit
    <3>2. CASE p = o
      <4>1. client \in {"v1", "v2"}
        BY <2>0, <2>2, <3>2 DEF Submit, Managers
      <4>2. orders'[o].status = "PENDING"
        BY <2>0, <2>2, <3>2 DEF Submit
      <4>3. InCall(t, o)'
        BY <2>0, <2>2, <3>2 DEF Submit, InCall
      <4>4. QED
        BY <4>1, <4>2, <4>3
    <3>3. QED
      BY <3>1, <3>2
  <2>3. ASSUME NEW t \in Threads, Answer(t) \/ ListenerRaises(t) \/ Raise(t)
        PROVE  Replaced(o)
    <3> DEFINE p == calls[t].order
    <3>1. calls[t].at # "idle" /\ p \in OrderIds
      BY <1>1, <2>3 DEF Answer, ListenerRaises, Raise, ManagersInv, CallOK
    <3>2. p # o
      BY <3>1 DEF Settled, InCall
    <3>3. orders' = orders \/ \E r : orders' = [orders EXCEPT ![p] = r]
      <4>1. CASE Raise(t)
        BY <2>0, <3>1, <4>1, Unchanged DEF Raise
      <4>2. CASE Answer(t) \/ ListenerRaises(t)
        BY <4>2 DEF Answer, ListenerRaises, Record
      <4>3. QED
        BY <2>3, <4>1, <4>2
    <3> HIDE DEF p
    <3>4. QED
      BY <2>0, <3>2, <3>3
  <2>4. ASSUME NEW p \in OrderIds, PlaceInvalid(p) \/ Reconcile(p) \/ Sweeps(p)
        PROVE  Replaced(o)
    <3>1. CASE p # o
      <4>1. orders'[o] = orders[o]
        BY <2>0, <2>4, <3>1 DEF PlaceInvalid, Reconcile, ReconcileV1, ReconcileV2,
           ReconcileUnified, Sweeps, JudgeStale, MarkStale, CancelStale, CheckPartialFills,
           CancelAtBroker, CancelLocally
      <4>2. QED
        BY <4>1
    <3>2. CASE p = o
      <4>1. ~PlaceInvalid(o) /\ ~Reconcile(o) /\ ~CheckPartialFills(o)
        BY <2>0 DEF PlaceInvalid, Reconcile, CheckPartialFills, Settled
      <4>2. CASE JudgeStale(o) \/ MarkStale(o) \/ CancelStale(o)
        BY <4>2 DEF JudgeStale, MarkStale, CancelStale, Settled
      <4>3. CASE CancelAtBroker(o)
        <5>1. client = "v2" /\ orders' \in {orders, [orders EXCEPT ![o].status = "CANCELLED"]}
          BY <4>3 DEF CancelAtBroker
        <5>2. QED
          BY <2>0, <2>1, <5>1 DEF Order
      <4>4. CASE CancelLocally(o)
        <5>1. /\ client = "unified" /\ orders' = [orders EXCEPT ![o].status = "CANCELLED"]
              /\ orders[o].status = "REJECTED"
          BY <4>4 DEF CancelLocally, Final
        <5>2. QED
          BY <2>0, <5>1 DEF Order
      <4>5. QED
        BY <2>4, <3>2, <4>1, <4>2, <4>3, <4>4 DEF Sweeps
    <3>3. QED
      BY <3>1, <3>2
  <2>5. \/ orders' = orders
        \/ \E t \in Threads, p \in OrderIds : Submit(t, p) /\ client \in Managers
        \/ \E t \in Threads : Answer(t) \/ ListenerRaises(t) \/ Raise(t)
        \/ \E p \in OrderIds : PlaceInvalid(p) \/ Reconcile(p) \/ Sweeps(p)
    BY <1>1 DEF Next, ManagersNext, CallStep, managerVars, vars, RequestArrives, Wake, Ask, Sweeps
  <2>6. QED
    BY <2>1, <2>2, <2>3, <2>4, <2>5
<1>2. ManagersInv /\ [Next]_vars => [\A o \in OrderIds : Holds(o)]_managerVars
  BY <1>1
<1>3. QED
  BY <1>2, ManagersInvHolds, PTL DEF Spec, FinalStatusHolds

-----------------------------------------------------------------------------
(* A step of the managers sends one of their orders, cancels one or leaves  *)
(* the broker alone, and leaves the client as it is.                        *)
LEMMA ManagersLeave ==
  ASSUME ManagersNext
  PROVE  /\ client' = client
         /\ \/ \E t \in Threads : RequestArrives(t)
            \/ \E o \in OrderIds : book' = Cancelled(o)
            \/ book' = book
<1>1. ASSUME NEW t \in Threads, NEW o \in OrderIds, Submit(t, o)
      PROVE  client' = client /\ book' = book
  BY <1>1 DEF Submit, brokerVars
<1>2. ASSUME NEW t \in Threads, Answer(t) \/ ListenerRaises(t) \/ Raise(t) \/ Wake(t)
      PROVE  client' = client /\ book' = book
  BY <1>2 DEF Answer, ListenerRaises, Raise, Wake, brokerVars
<1>3. ASSUME NEW o \in OrderIds, PlaceInvalid(o) \/ Ask(o) \/ Reconcile(o) \/ Sweeps(o)
      PROVE  client' = client /\ (book' = book \/ book' = Cancelled(o))
  BY <1>3 DEF PlaceInvalid, Ask, Reconcile, Sweeps, JudgeStale, MarkStale, CancelStale,
              CheckPartialFills, CancelAtBroker, CancelLocally, brokerVars
<1>4. ASSUME NEW t \in Threads, RequestArrives(t)
      PROVE  client' = client
  BY <1>4 DEF RequestArrives
<1>5. QED
  BY <1>1, <1>2, <1>3, <1>4 DEF ManagersNext, CallStep, Sweeps

(* So does everybody. *)
LEMMA ClientStays ==
  ASSUME [Next]_vars
  PROVE  client' = client
BY ManagersLeave DEF Next, vars

-----------------------------------------------------------------------------
(* The trailing stop of a bracket begins with its activation, one of its    *)
(* own when it is submitted; there is one of them.                          *)
Brackets == [status : {"NONE", "PENDING", "ACTIVE"}, stop : Prices \cup {0}, remaining : Int]
Told == [price : Prices, isLong : BOOLEAN]

(* A stop is where the best price it was told puts it, activated or not:    *)
(* the code moves it before it looks at activation_price.                   *)
AlwaysBest ==
  LET stops == {trailing.start} \cup {StopAt(t.price, t.isLong) : t \in told}
      sides == {t.isLong : t \in told}
  IN trailing.active =>
       /\ trailing.stop \in stops
       /\ sides = {TRUE}  => \A s \in stops : trailing.stop >= s
       /\ sides = {FALSE} => \A s \in stops : trailing.stop <= s

TrailInv ==
  /\ bracket \in Brackets
  /\ trailing \in Trailing
  /\ told \subseteq Told
  /\ bracket.status # "NONE" => client = "bracket"
  /\ trailing.active /\ client = "bracket" => bracket.status = "ACTIVE"
  /\ ~trailing.active => told = {}
  /\ AlwaysBest

(* What the arithmetic of the stops needs. *)
LEMMA TrailShape ==
  ASSUME TrailInv
  PROVE  /\ trailing.stop \in Int
         /\ trailing.start \in Int
         /\ \A p \in Prices, side \in BOOLEAN : StopAt(p, side) \in Int
         /\ \A t \in told : t.price \in Prices /\ t.isLong \in BOOLEAN
                            /\ StopAt(t.price, t.isLong) \in Int
<1>1. \A p \in Prices, side \in BOOLEAN : StopAt(p, side) \in Int
  BY ContingencyAssumption DEF StopAt
<1>2. trailing.stop \in Int /\ trailing.start \in Int
  <2>1. trailing.stop \in Int /\ trailing.start \in Prices \cup {0}
    BY DEF TrailInv, Trailing
  <2>2. \A p \in Prices : p \in Int
    BY ContingencyAssumption
  <2>3. QED
    BY <2>1, <2>2
<1>3. \A t \in told : t.price \in Prices /\ t.isLong \in BOOLEAN
  BY DEF TrailInv, Told
<1>4. QED
  BY <1>1, <1>2, <1>3

(* A stop that begins is the best it was told so far. *)
LEMMA StopBegins ==
  ASSUME told' = {}, trailing'.stop = trailing'.start, trailing'.start \in Int
  PROVE  AlwaysBest'
BY DEF AlwaysBest

(* A price the stop is told moves it there if that is better for the side   *)
(* that is named.                                                           *)
LEMMA StopMoves ==
  ASSUME NEW price \in Prices, NEW isLong \in BOOLEAN, TrailInv, UpdateTrailing(price, isLong)
  PROVE  trailing' \in Trailing /\ trailing'.active /\ AlwaysBest'
<1> DEFINE at    == StopAt(price, isLong)
           new   == UpdatedStop(price, isLong)
           stops == {trailing.start} \cup {StopAt(t.price, t.isLong) : t \in told}
           more  == stops \cup {at}
           call  == [price |-> price, isLong |-> isLong]
<1>1. /\ trailing.active /\ trailing' = [trailing EXCEPT !.stop = new]
      /\ told' = told \cup {call}
  BY DEF UpdateTrailing
<1>2. /\ trailing.stop \in Int /\ at \in Int
      /\ \A s \in stops : s \in Int
  BY TrailShape
<1>3. /\ trailing.stop \in stops
      /\ {t.isLong : t \in told} = {TRUE}  => \A s \in stops : trailing.stop >= s
      /\ {t.isLong : t \in told} = {FALSE} => \A s \in stops : trailing.stop <= s
  BY <1>1 DEF TrailInv, AlwaysBest
<1>4. new = IF (isLong /\ at > trailing.stop) \/ (~isLong /\ at < trailing.stop)
            THEN at ELSE trailing.stop
  BY DEF UpdatedStop
<1>5. /\ trailing' \in Trailing /\ trailing'.active /\ trailing'.stop = new
      /\ trailing'.start = trailing.start
  <2>1. new \in Int
    BY <1>2, <1>4
  <2> HIDE DEF new
  <2>2. QED
    BY <1>1, <2>1 DEF TrailInv, Trailing
<1>6. {trailing'.start} \cup {StopAt(t.price, t.isLong) : t \in told'} = more
  <2>1. call.price = price /\ call.isLong = isLong
    OBVIOUS
  <2> HIDE DEF call
  <2>2. QED
    BY <1>1, <1>5, <2>1
<1>7. {t.isLong : t \in told'} = {t.isLong : t \in told} \cup {isLong}
  <2>1. call.isLong = isLong
    OBVIOUS
  <2> HIDE DEF call
  <2>2. QED
    BY <1>1, <2>1
<1>8. told = {} => stops = {trailing.start}
  OBVIOUS
<1>9. {t.isLong : t \in told} = {} \/ {t.isLong : t \in told} = {TRUE}
        \/ {t.isLong : t \in told} = {FALSE} \/ {t.isLong : t \in told} = {TRUE, FALSE}
  BY DEF TrailInv, Told
<1>10. {t.isLong : t \in told} = {} => told = {}
  OBVIOUS
<1> DEFINE sides == {t.isLong : t \in told}
<1> HIDE DEF stops, sides, at, new, call
<1>11. new \in more
  BY <1>3, <1>4
<1>12. ASSUME sides \cup {isLong} = {TRUE}
       PROVE  \A s \in more : new >= s
  <2>1. isLong = TRUE /\ (sides = {} \/ sides = {TRUE})
    BY <1>12
  <2>2. \A s \in stops : trailing.stop >= s
    <3>1. CASE sides = {TRUE}
      BY <1>3, <3>1 DEF sides
    <3>2. CASE sides = {}
      <4>1. trailing.stop = trailing.start /\ stops = {trailing.start}
        BY <1>3, <1>8, <1>10, <3>2 DEF sides
      <4>2. QED
        BY <1>2, <4>1
    <3>3. QED
      BY <2>1, <3>1, <3>2
  <2>3. QED
    BY <1>2, <1>4, <2>1, <2>2
<1>13. ASSUME sides \cup {isLong} = {FALSE}
       PROVE  \A s \in more : new <= s
  <2>1. isLong = FALSE /\ (sides = {} \/ sides = {FALSE})
    BY <1>13
  <2>2. \A s \in stops : trailing.stop <= s
    <3>1. CASE sides = {FALSE}
      BY <1>3, <3>1 DEF sides
    <3>2. CASE sides = {}
      <4>1. trailing.stop = trailing.start /\ stops = {trailing.start}
        BY <1>3, <1>8, <1>10, <3>2 DEF sides
      <4>2. QED
        BY <1>2, <4>1
    <3>3. QED
      BY <2>1, <3>1, <3>2
  <2>3. QED
    BY <1>2, <1>4, <2>1, <2>2
<1>14. {t.isLong : t \in told'} = sides \cup {isLong}
  BY <1>7 DEF sides
<1> HIDE DEF more
<1>15. QED
  BY <1>5, <1>6, <1>11, <1>12, <1>13, <1>14 DEF AlwaysBest

(* The stop is moved by update_trailing only, and by the price it is told. *)
LEMMA TrailStep == TrailInv /\ [Next]_vars => TrailInv'
<1> SUFFICES ASSUME TrailInv, [Next]_vars PROVE TrailInv'
  OBVIOUS
<1>0. client' = client
  BY ClientStays
<1>1. CASE UNCHANGED <<bracket, trailing, told>>
  BY <1>0, <1>1 DEF TrailInv, AlwaysBest
<1>2. CASE SubmitBracket
  <2>1. /\ bracket.status = "NONE" /\ UNCHANGED <<trailing, told>> /\ client = "bracket"
        /\ \E stop \in Prices : bracket' = [bracket EXCEPT !.status = "PENDING", !.stop = stop]
    BY <1>2 DEF SubmitBracket
  <2>2. ~trailing.active /\ bracket' \in Brackets
    BY <2>1 DEF TrailInv, Brackets
  <2>3. QED
    BY <1>0, <2>1, <2>2 DEF TrailInv, AlwaysBest
<1>3. CASE SubmitTrailing
  <2>1. /\ client = "trailing" /\ ~trailing.active /\ UNCHANGED <<bracket, told>>
        /\ trailing' \in Trailing /\ trailing'.active /\ trailing'.stop = trailing'.start
        /\ trailing'.start \in Int
    BY <1>3, ContingencyAssumption DEF SubmitTrailing, Trailing
  <2>2. told' = {} /\ bracket'.status = "NONE" /\ bracket' \in Brackets
    BY <2>1 DEF TrailInv, Brackets
  <2>3. AlwaysBest'
    BY <2>1, <2>2, StopBegins
  <2>4. QED
    BY <1>0, <2>1, <2>2, <2>3 DEF TrailInv, Told
<1>4. ASSUME NEW lots \in 1 .. Size, FillBracket(lots), told' = told
      PROVE  TrailInv'
  <2>1. /\ bracket' = [bracket EXCEPT !.status = "ACTIVE", !.remaining = lots]
        /\ trailing' \in {trailing, StopOfBracket}
        /\ client = "bracket" /\ ~trailing.active /\ told' = {}
    BY <1>4 DEF FillBracket, TrailInv
  <2>2. bracket' \in Brackets /\ bracket'.status = "ACTIVE" /\ bracket.stop \in Prices \cup {0}
    <3>1. bracket \in Brackets /\ lots \in Int
      BY DEF TrailInv
    <3>2. QED
      BY <2>1, <3>1 DEF Brackets
  <2>3. CASE trailing' = trailing
    BY <1>0, <2>1, <2>2, <2>3 DEF TrailInv, AlwaysBest
  <2>4. CASE trailing' = StopOfBracket
    <3>1. \A price \in Prices : price \in Int
      BY ContingencyAssumption
    <3>2. trailing' \in Trailing /\ trailing'.active /\ trailing'.stop = trailing'.start
          /\ trailing'.start \in Int
      BY <2>2, <2>4, <3>1 DEF StopOfBracket, Trailing
    <3>3. AlwaysBest'
      BY <2>1, <3>2, StopBegins
    <3>4. QED
      BY <1>0, <2>1, <2>2, <3>2, <3>3 DEF TrailInv
  <2>5. QED
    BY <2>1, <2>3, <2>4
<1>5. ASSUME NEW price \in Prices, NEW isLong \in BOOLEAN, UpdateTrailing(price, isLong)
      PROVE  TrailInv'
  <2>1. /\ trailing.active /\ bracket' = bracket
        /\ told' = told \cup {[price |-> price, isLong |-> isLong]}
    BY <1>5 DEF UpdateTrailing
  <2>2. told' \subseteq Told
    BY <2>1 DEF TrailInv, Told
  <2>3. trailing' \in Trailing /\ trailing'.active /\ AlwaysBest'
    BY <1>5, StopMoves
  <2>4. QED
    BY <1>0, <2>1, <2>2, <2>3 DEF TrailInv
<1>6. ASSUME NEW o \in ContingencyIds, NEW lots \in 1 .. Size,
             Report(o, lots) \/ ReportAgain(o, lots)
      PROVE  TrailInv'
  <2>1. told' = told /\ OnFill(o, lots)
    BY <1>6 DEF Report, ReportAgain
  <2>2. CASE FillOco(o) \/ FillSlice(o, lots) \/ FillIgnored(o)
    BY <1>1, <2>1, <2>2 DEF FillOco, FillSlice, FillIgnored
  <2>3. QED
    BY <1>4, <2>1, <2>2 DEF OnFill
<1>7. CASE ContingencyNext
  BY <1>1, <1>2, <1>3, <1>5, <1>6, <1>7 DEF ContingencyNext, SubmitOco, SubmitIceberg
<1>8. CASE UNCHANGED contingencyVars
  BY <1>1, <1>8 DEF contingencyVars
<1>9. QED
  BY <1>7, <1>8 DEF Next, vars

(* A trailing stop stands where some price it was told puts it, or where it *)
(* began, and never gives back, for any prices, distance, activation price  *)
(* and first stop, as long as its callers name one side.                    *)
THEOREM StopNeverGivesBack == Spec => []StopFollowsBest
<1>1. Init => TrailInv
  <2> SUFFICES ASSUME Init PROVE TrailInv
    OBVIOUS
  <2>1. bracket = [status |-> "NONE", stop |-> 0, remaining |-> 0]
    BY DEF Init, ContingencyInit
  <2>2. trailing = [active |-> FALSE, stop |-> 0, start |-> 0, activation |-> 0] /\ told = {}
    BY DEF Init, ContingencyInit
  <2>3. QED
    BY <2>1, <2>2 DEF TrailInv, Brackets, Trailing, AlwaysBest
<1>2. TrailInv => StopFollowsBest
  BY DEF TrailInv, AlwaysBest, StopFollowsBest
<1>3. QED
  BY <1>1, <1>2, TrailStep, PTL DEF Spec

-----------------------------------------------------------------------------
(* The types of what the managers do not own. *)
RestTyped ==
  /\ client \in Clients
  /\ ContingencyTypeOK

(* The contingency orders, one kind at a time. *)
Ocos == [status : {"NONE", "PENDING", "FILLED"}, cancelled : Legs \cup {None}]
Icebergs == [status : {"NONE", "RAISED", "ACTIVE", "COMPLETE"}, filled : SUBSET SliceIds,
             remaining : Int, active : SliceIds \cup {None}]
BracketTypes == [status : {"NONE", "PENDING", "ACTIVE"}, stop : Prices \cup {0},
                 remaining : 0 .. Size]

(* The records of the contingency manager, field by field. *)
LEMMA Shapes ==
  ContingencyTypeOK <=>
    /\ bracket \in BracketTypes
    /\ trailing \in Trailing
    /\ oco \in Ocos
    /\ iceberg \in Icebergs
    /\ reported \in [ContingencyIds -> Nat]
    /\ repeats \in 0 .. MaxRepeats
    /\ piecemeal \in BOOLEAN
    /\ told \subseteq Told
BY DEF ContingencyTypeOK, BracketTypes, Ocos, Icebergs, Told

(* A bracket with its fields written anew is a bracket, and its stop one of *)
(* a trailing stop.                                                         *)
LEMMA BracketFields ==
  ASSUME NEW b \in BracketTypes
  PROVE  /\ b.stop \in Prices \cup {0} /\ b.stop \in Int
         /\ \A stop \in Prices :
              [b EXCEPT !.status = "PENDING", !.stop = stop] \in BracketTypes
         /\ \A lots \in 1 .. Size :
              [b EXCEPT !.status = "ACTIVE", !.remaining = lots] \in BracketTypes
<1>1. b.stop \in Prices \cup {0}
  BY DEF BracketTypes
<1>2. b.stop \in Int
  <2>1. \A p \in Prices : p \in Int
    BY ContingencyAssumption
  <2> HIDE DEF BracketTypes
  <2>2. QED
    BY <1>1, <2>1
<1>3. \A lots \in 1 .. Size : lots \in 0 .. Size
  BY BrokerAssumption
<1>4. QED
  BY <1>1, <1>2, <1>3 DEF BracketTypes

(* A report of a fill: the leg that is noted as cancelled is the other one, *)
(* and the slice that is sent next is one of the iceberg.                   *)
LEMMA FillTyped ==
  ASSUME RestTyped, NEW o \in ContingencyIds, NEW lots \in 1 .. Size, OnFill(o, lots)
  PROVE  /\ bracket' \in BracketTypes
         /\ trailing' \in Trailing
         /\ oco' \in Ocos
         /\ iceberg' \in Icebergs
<1>1. /\ bracket \in BracketTypes /\ trailing \in Trailing
      /\ oco \in Ocos /\ iceberg \in Icebergs /\ lots \in Int
  BY Shapes DEF RestTyped
<1>2. CASE FillBracket(lots)
  <2>1. /\ bracket' = [bracket EXCEPT !.status = "ACTIVE", !.remaining = lots]
        /\ trailing' \in {trailing, StopOfBracket}
        /\ oco' = oco /\ iceberg' = iceberg
    BY <1>2 DEF FillBracket, brokerVars
  <2>2. bracket.stop \in Int /\ bracket.stop \in Prices \cup {0} /\ bracket' \in BracketTypes
    BY <1>1, <2>1, BracketFields
  <2>3. StopOfBracket \in Trailing
    BY <2>2 DEF StopOfBracket, Trailing
  <2>4. trailing' \in Trailing
    BY <1>1, <2>1, <2>3
  <2>5. QED
    BY <1>1, <2>1, <2>2, <2>4
<1>3. CASE o \in Legs /\ FillOco(o)
  <2> DEFINE other == CHOOSE leg \in Legs : leg # o
  <2>1. other \in Legs
    <3>1. \E leg \in Legs : leg # o
      BY ContingencyAssumption DEF Legs
    <3>2. QED
      BY <3>1
  <2>2. /\ oco' = [status |-> "FILLED", cancelled |-> other]
        /\ UNCHANGED <<bracket, trailing, iceberg>>
    BY <1>3 DEF FillOco, brokerVars
  <2> HIDE DEF other
  <2>3. oco' \in Ocos
    BY <2>1, <2>2 DEF Ocos
  <2>4. QED
    BY <1>1, <2>2, <2>3
<1>4. CASE o \in SliceIds /\ FillSlice(o, lots)
  <2> DEFINE filled    == iceberg.filled \cup {o}
             remaining == iceberg.remaining - lots
             next      == NextSlices(filled)
             status    == IF remaining <= 0 THEN "COMPLETE" ELSE iceberg.status
             advanced  == [iceberg EXCEPT !.status = status, !.filled = filled,
                                          !.remaining = remaining]
  <2>1. /\ filled \in SUBSET SliceIds /\ remaining \in Int
        /\ status \in {"NONE", "RAISED", "ACTIVE", "COMPLETE"}
        /\ iceberg.status \in {"NONE", "RAISED", "ACTIVE", "COMPLETE"}
    BY <1>1, <1>4 DEF Icebergs
  <2>2. /\ UNCHANGED <<bracket, trailing, oco>>
        /\ \/ iceberg' = advanced /\ UNCHANGED brokerVars
           \/ \E i \in DOMAIN Slices :
                /\ Sent({Slices[i]}) \/ Raised({Slices[i]})
                /\ \/ iceberg' = [advanced EXCEPT !.active = Slices[i]]
                   \/ iceberg' = [advanced EXCEPT !.active = Slices[i],
                                                  !.status = iceberg.status]
    BY <1>4 DEF FillSlice, NextSlices
  <2> HIDE DEF filled, remaining, status
  <2>3. advanced \in Icebergs
    BY <1>1, <2>1 DEF Icebergs
  <2> HIDE DEF advanced
  <2>4. CASE iceberg' = advanced /\ UNCHANGED brokerVars
    BY <1>1, <2>2, <2>3, <2>4
  <2>5. ASSUME NEW i \in DOMAIN Slices, Sent({Slices[i]}) \/ Raised({Slices[i]}),
               \/ iceberg' = [advanced EXCEPT !.active = Slices[i]]
               \/ iceberg' = [advanced EXCEPT !.active = Slices[i], !.status = iceberg.status]
        PROVE  iceberg' \in Icebergs
    <3>1. Slices[i] \in SliceIds
      BY DEF SliceIds, ToSet
    <3>2. QED
      BY <2>1, <2>3, <2>5, <3>1 DEF Icebergs
  <2>6. QED
    BY <1>1, <2>2, <2>4, <2>5
<1>5. CASE FillIgnored(o)
  BY <1>1, <1>5 DEF FillIgnored
<1>6. QED
  BY <1>2, <1>3, <1>4, <1>5 DEF OnFill

(* The contingency manager keeps the types. *)
LEMMA ContingencyTyped ==
  ASSUME RestTyped, ContingencyNext
  PROVE  ContingencyTypeOK'
<1>1. /\ bracket \in BracketTypes /\ trailing \in Trailing
      /\ oco \in Ocos /\ iceberg \in Icebergs
      /\ reported \in [ContingencyIds -> Nat] /\ repeats \in 0 .. MaxRepeats
      /\ piecemeal \in BOOLEAN /\ told \subseteq Told
  BY Shapes DEF RestTyped
<1>2. CASE SubmitBracket
  <2>1. /\ \E stop \in Prices : bracket' = [bracket EXCEPT !.status = "PENDING", !.stop = stop]
        /\ UNCHANGED <<trailing, oco, iceberg, reported, repeats, piecemeal, told>>
    BY <1>2 DEF SubmitBracket, history
  <2>2. bracket' \in BracketTypes
    BY <1>1, <2>1, BracketFields
  <2>3. QED
    BY <1>1, <2>1, <2>2 DEF ContingencyTypeOK, BracketTypes, Ocos, Icebergs, Told
<1>3. CASE SubmitOco
  <2>1. /\ oco' = [oco EXCEPT !.status = "PENDING"]
        /\ UNCHANGED <<bracket, trailing, iceberg, reported, repeats, piecemeal, told>>
    BY <1>3 DEF SubmitOco, history
  <2>2. oco' \in Ocos
    BY <1>1, <2>1 DEF Ocos
  <2>3. QED
    BY <1>1, <2>1, <2>2 DEF ContingencyTypeOK, BracketTypes, Ocos, Icebergs, Told
<1>4. CASE SubmitIceberg
  <2>1. /\ iceberg' \in {[iceberg EXCEPT !.status = "ACTIVE"], [iceberg EXCEPT !.status = "RAISED"]}
        /\ UNCHANGED <<bracket, trailing, oco, reported, repeats, piecemeal, told>>
    BY <1>4 DEF SubmitIceberg, history
  <2>2. iceberg' \in Icebergs
    BY <1>1, <2>1 DEF Icebergs
  <2>3. QED
    BY <1>1, <2>1, <2>2 DEF ContingencyTypeOK, BracketTypes, Ocos, Icebergs, Told
<1>5. ASSUME NEW o \in ContingencyIds, NEW lots \in 1 .. Size,
             Report(o, lots) \/ ReportAgain(o, lots)
      PROVE  ContingencyTypeOK'
  <2>1. OnFill(o, lots) /\ told' = told
    BY <1>5 DEF Report, ReportAgain
  <2>2. reported' \in [ContingencyIds -> Nat]
    <3>1. reported' \in {reported, [reported EXCEPT ![o] = @ + lots]}
      BY <1>5 DEF Report, ReportAgain
    <3>2. reported[o] + lots \in Nat
      BY <1>1, BrokerAssumption
    <3>3. QED
      BY <1>1, <3>1, <3>2
  <2>3. repeats' \in 0 .. MaxRepeats
    <3>1. repeats' = repeats \/ (repeats < MaxRepeats /\ repeats' = repeats + 1)
      BY <1>5 DEF Report, ReportAgain
    <3>2. QED
      BY <1>1, <3>1, ContingencyAssumption
  <2>4. piecemeal' \in BOOLEAN
    <3>1. piecemeal' = piecemeal \/ piecemeal' = (piecemeal \/ lots # Size)
      BY <1>5 DEF Report, ReportAgain
    <3>2. QED
      BY <1>1, <3>1
  <2>5. QED
    BY <1>1, <2>1, <2>2, <2>3, <2>4, FillTyped
     DEF ContingencyTypeOK, BracketTypes, Ocos, Icebergs, Told
<1>6. CASE SubmitTrailing
  <2>1. /\ \E stop, activation \in Prices \cup {0} :
             trailing' = [active |-> TRUE, stop |-> stop, start |-> stop, activation |-> activation]
        /\ UNCHANGED <<bracket, oco, iceberg, reported, repeats, piecemeal, told>>
    BY <1>6 DEF SubmitTrailing, history, brokerVars
  <2>2. \A stop \in Prices \cup {0} : stop \in Int
    BY ContingencyAssumption
  <2>3. trailing' \in Trailing
    BY <2>1, <2>2 DEF Trailing
  <2>4. QED
    BY <1>1, <2>1, <2>3 DEF ContingencyTypeOK, BracketTypes, Ocos, Icebergs, Told
<1>7. ASSUME NEW price \in Prices, NEW isLong \in BOOLEAN, UpdateTrailing(price, isLong)
      PROVE  ContingencyTypeOK'
  <2>1. /\ trailing' = [trailing EXCEPT !.stop = UpdatedStop(price, isLong)]
        /\ told' = told \cup {[price |-> price, isLong |-> isLong]}
        /\ UNCHANGED <<bracket, oco, iceberg, reported, repeats, piecemeal>>
    BY <1>7 DEF UpdateTrailing, history, brokerVars
  <2>2. UpdatedStop(price, isLong) \in Int
    <3>1. price \in Int /\ Distance \in Int
      BY ContingencyAssumption
    <3>2. trailing.stop \in Int
      BY <1>1 DEF Trailing
    <3>3. QED
      BY <3>1, <3>2 DEF UpdatedStop, StopAt
  <2>3. trailing' \in Trailing
    BY <1>1, <2>1, <2>2 DEF Trailing
  <2>4. told' \subseteq Told
    BY <1>1, <2>1 DEF Told
  <2>5. QED
    BY <1>1, <2>1, <2>3, <2>4 DEF ContingencyTypeOK, BracketTypes, Ocos, Icebergs, Told
<1>8. QED
  BY <1>2, <1>3, <1>4, <1>5, <1>6, <1>7 DEF ContingencyNext

(* Managers, contingency orders and broker keep their types: the retries    *)
(* stay within max_retries, what is left of a bracket within its size,  *)
(* and the leg and the slices that are named are those of the order.        *)
THEOREM LiveTypeCorrect == Spec => []TypeOK
<1>1. Init => RestTyped
  <2> SUFFICES ASSUME Init PROVE RestTyped
    OBVIOUS
  <2>1. client \in Clients
    BY DEF Init
  <2>2. /\ trailing = [active |-> FALSE, stop |-> 0, start |-> 0, activation |-> 0]
        /\ oco = [status |-> "NONE", cancelled |-> None]
        /\ iceberg = [status |-> "NONE", filled |-> {}, remaining |-> TotalSize, active |-> None]
        /\ reported = [o \in ContingencyIds |-> 0]
        /\ repeats = 0 /\ piecemeal = FALSE /\ told = {}
    BY DEF Init, ContingencyInit
  <2>3. TotalSize \in Int
    BY BrokerAssumption, ContingencyAssumption DEF TotalSize
  <2>4. bracket \in BracketTypes
    <3>1. bracket = [status |-> "NONE", stop |-> 0, remaining |-> 0]
      BY DEF Init, ContingencyInit
    <3>2. 0 \in 0 .. Size
      BY BrokerAssumption
    <3>3. QED
      BY <3>1, <3>2 DEF BracketTypes
  <2>5. /\ trailing \in Trailing /\ oco \in Ocos
        /\ reported \in [ContingencyIds -> Nat] /\ piecemeal \in BOOLEAN /\ told \subseteq Told
    <3>1. trailing \in Trailing
      BY <2>2 DEF Trailing
    <3>2. oco \in Ocos
      BY <2>2 DEF Ocos
    <3>3. reported \in [ContingencyIds -> Nat] /\ told \subseteq Told
      BY <2>2
    <3>4. piecemeal \in BOOLEAN
      BY <2>2, Zenon
    <3>5. QED
      BY <3>1, <3>2, <3>3, <3>4
  <2>6. iceberg \in Icebergs
    BY <2>2, <2>3 DEF Icebergs
  <2>7. repeats \in 0 .. MaxRepeats
    BY <2>2, ContingencyAssumption
  <2>8. QED
    BY <2>1, <2>4, <2>5, <2>6, <2>7, Shapes DEF RestTyped
<1>2. RestTyped /\ [Next]_vars => RestTyped'
  <2> SUFFICES ASSUME RestTyped, [Next]_vars PROVE RestTyped'
    OBVIOUS
  <2>1. CASE BrokerStep /\ UNCHANGED <<client, managerVars, contingencyVars>>
    BY <2>1 DEF RestTyped, ContingencyTypeOK, contingencyVars
  <2>2. CASE ManagersNext /\ UNCHANGED contingencyVars
    <3>1. client' = client
      BY <2>2, ManagersLeave
    <3>2. QED
      BY <2>2, <3>1 DEF RestTyped, ContingencyTypeOK, contingencyVars
  <2>3. CASE ContingencyNext /\ UNCHANGED <<client, managerVars>>
    BY <2>3, ContingencyTyped DEF RestTyped
  <2>4. CASE UNCHANGED vars
    BY <2>4 DEF vars, contingencyVars, RestTyped, ContingencyTypeOK
  <2>5. QED
    BY <2>1, <2>2, <2>3, <2>4 DEF Next
<1>3. ManagersInv /\ RestTyped => TypeOK
  BY DEF ManagersInv, BookOK, RestTyped, TypeOK, BrokerTypeOK
<1>4. QED
  BY <1>1, <1>2, <1>3, ManagersInvHolds, PTL DEF Spec

-----------------------------------------------------------------------------
(* How much was executed. *)
Dones(copies) == [k \in DOMAIN copies |-> copies[k].done]

(* How much of a sequence of copies was executed. *)
LEMMA DonesAdd ==
  ASSUME NEW s \in Seq(Copy)
  PROVE  /\ Dones(s) \in Seq(Nat) /\ Len(Dones(s)) = Len(s)
         /\ \A k \in 1 .. Len(s) : Dones(s)[k] = s[k].done
         /\ Total(Dones(s)) \in Nat
         /\ s = <<>> => Total(Dones(s)) = 0
         /\ Len(s) = 1 => Total(Dones(s)) = s[1].done
<1>1. Len(s) \in Nat /\ DOMAIN s = 1 .. Len(s) /\ \A k \in DOMAIN s : s[k].done \in 0 .. Size
  BY CopiesCount
<1>2. \A k \in 1 .. Len(s) : s[k].done \in Nat
  BY <1>1, BrokerAssumption
<1>3. Dones(s) = [k \in 1 .. Len(s) |-> s[k].done]
  BY <1>1 DEF Dones
<1>4. Dones(s) \in [1 .. Len(s) -> Nat]
  BY <1>2, <1>3
<1>5. /\ Dones(s) \in Seq(Nat) /\ Len(Dones(s)) = Len(s)
      /\ \A k \in 1 .. Len(s) : Dones(s)[k] = s[k].done
  BY <1>1, <1>3, <1>4
<1>6. Total(Dones(s)) = TotalOf(Dones(s))
  BY DEF Total, TotalOf
<1>7. s = <<>> => Len(s) = 0
  OBVIOUS
<1>8. /\ TotalOf(Dones(s)) \in Nat
      /\ Len(Dones(s)) = 0 => TotalOf(Dones(s)) = 0
      /\ Len(Dones(s)) = 1 => TotalOf(Dones(s)) = Dones(s)[1]
  BY <1>5, TotalType
<1>9. Len(s) = 1 => Dones(s)[1] = s[1].done
  BY <1>5
<1> HIDE DEF Dones
<1>10. QED
  BY <1>5, <1>6, <1>7, <1>8, <1>9

(* More copies, none of them less executed: no less was executed. *)
LEMMA ExecutedGrows ==
  ASSUME BookOK, BookOK', NEW o \in BrokerIds, Grows(o)
  PROVE  /\ Executed(o) \in Nat /\ Executed(o)' \in Nat
         /\ Executed(o) <= Executed(o)'
<1> DEFINE s == book[o]
           t == book'[o]
<1>1. /\ s \in Seq(Copy) /\ t \in Seq(Copy) /\ Len(s) <= Len(t)
      /\ \A k \in DOMAIN s : s[k].done <= t[k].done
      /\ Executed(o) = Total(Dones(s)) /\ Executed(o)' = Total(Dones(t))
  BY DEF BookOK, Grows, Executed, Dones
<1> HIDE DEF s, t
<1>2. /\ Total(Dones(s)) = TotalOf(Dones(s)) /\ Total(Dones(t)) = TotalOf(Dones(t))
  BY DEF Total, TotalOf
<1>3. Len(s) \in Nat /\ Len(t) \in Nat /\ DOMAIN s = 1 .. Len(s)
  BY <1>1
<1>4. \A k \in 1 .. Len(Dones(s)) : Dones(s)[k] <= Dones(t)[k]
  <2>1. \A k \in 1 .. Len(s) : /\ Dones(s)[k] = s[k].done /\ s[k].done <= t[k].done
    BY <1>1, <1>3, DonesAdd
  <2>2. \A k \in 1 .. Len(t) : Dones(t)[k] = t[k].done
    BY <1>1, DonesAdd
  <2>3. \A k \in 1 .. Len(s) : k \in 1 .. Len(t)
    BY <1>1, <1>3
  <2>4. Len(Dones(s)) = Len(s)
    BY <1>1, DonesAdd
  <2>5. QED
    BY <2>1, <2>2, <2>3, <2>4
<1>5. Dones(s) \in Seq(Nat) /\ Dones(t) \in Seq(Nat) /\ Len(Dones(s)) <= Len(Dones(t))
  BY <1>1, DonesAdd
<1>6. TotalOf(Dones(s)) <= TotalOf(Dones(t))
  BY <1>4, <1>5, TotalMonotone
<1>7. QED
  BY <1>1, <1>2, <1>6, DonesAdd

(* The managers send under ids of their own. *)
LEMMA ManagersElsewhere ==
  ASSUME ManagersInv, ManagersNext
  PROVE  /\ BookOK'
         /\ \A o \in BrokerIds : Grows(o)
         /\ \A o \in BrokerIds \ OrderIds : book'[o] = book[o]
<1>1. BookOK
  BY DEF ManagersInv
<1>2. ASSUME NEW t \in Threads, RequestArrives(t)
      PROVE  /\ BookOK' /\ \A p \in BrokerIds : Grows(p)
             /\ \A p \in BrokerIds \ OrderIds : book'[p] = book[p]
  <2>1. calls[t].order \in OrderIds /\ Accept({calls[t].order})
    BY <1>2 DEF RequestArrives, ManagersInv, CallOK
  <2>2. QED
    BY <1>1, <2>1, AcceptGrows
<1>3. ASSUME NEW o \in OrderIds, book' = Cancelled(o)
      PROVE  /\ BookOK' /\ \A p \in BrokerIds : Grows(p)
             /\ \A p \in BrokerIds \ OrderIds : book'[p] = book[p]
  <2>1. Rewrites
    BY <1>1, <1>3, CancelRewrites, OrdersApart
  <2>2. \A p \in BrokerIds \ OrderIds : book'[p] = book[p]
    BY <1>1, <1>3 DEF Cancelled, BookOK
  <2>3. QED
    BY <2>1, <2>2 DEF Rewrites
<1>4. CASE book' = book
  BY <1>1, <1>4, SameBook DEF Rewrites
<1>5. QED
  BY <1>2, <1>3, <1>4, ManagersLeave

(* What was executed stays so, whatever happens. *)
LEMMA BookGrows ==
  ASSUME ManagersInv, [Next]_vars
  PROVE  /\ BookOK' /\ \A o \in BrokerIds : Grows(o)
         /\ \A o \in BrokerIds : /\ Executed(o) \in Nat /\ Executed(o)' \in Nat
                                 /\ Executed(o) <= Executed(o)'
<1>0. BookOK
  BY DEF ManagersInv
<1>1. BookOK' /\ \A o \in BrokerIds : Grows(o)
  <2>1. CASE BrokerStep
    BY <1>0, <2>1, BrokerRewrites DEF Rewrites
  <2>2. CASE ManagersNext
    BY <2>2, ManagersElsewhere
  <2>3. CASE ContingencyNext
    BY <1>0, <2>3, ContingencySends, AcceptGrows, SameBook DEF Rewrites
  <2>4. CASE UNCHANGED vars
    BY <1>0, <2>4, SameBook DEF Rewrites, vars, brokerVars
  <2>5. QED
    BY <2>1, <2>2, <2>3, <2>4 DEF Next
<1>2. QED
  BY <1>0, <1>1, ExecutedGrows

-----------------------------------------------------------------------------
(* What the contingency manager was told and what it makes of it.  Nothing  *)
(* is reported that was not executed, and without a report that came twice  *)
(* an iceberg has left what was not reported of its slices.                 *)
LotsOf(r) == [i \in DOMAIN Slices |-> r[Slices[i]]]

ReportedInv == \A o \in ContingencyIds : reported[o] <= Executed(o)

ToldInv ==
  /\ bracket.status = "ACTIVE" => bracket.remaining \in 1 .. Executed(Entry)
  /\ oco.status = "FILLED" => \E leg \in Legs : leg # oco.cancelled /\ Executed(leg) > 0
  /\ repeats = 0 => TotalSize - iceberg.remaining <= Total(LotsOf(reported))
  /\ iceberg.status = "COMPLETE" => iceberg.remaining <= 0

(* The slices, one by one, and the ids around them. *)
LEMMA SlicesAre ==
  /\ Len(Slices) \in Nat \ {0} /\ DOMAIN Slices = 1 .. Len(Slices)
  /\ \A i \in DOMAIN Slices : Slices[i] \in SliceIds
  /\ \A s \in SliceIds : s \in ContingencyIds /\ \E i \in DOMAIN Slices : Slices[i] = s
  /\ Head(Slices) = Slices[1] /\ Head(Slices) \in SliceIds
  /\ Entry \in ContingencyIds /\ \A leg \in Legs : leg \in ContingencyIds
  /\ \A o \in ContingencyIds : o \in BrokerIds
<1>1. Len(Slices) \in Nat \ {0} /\ DOMAIN Slices = 1 .. Len(Slices) /\ Head(Slices) = Slices[1]
  BY ContingencyAssumption
<1>2. /\ \A i \in DOMAIN Slices : Slices[i] \in SliceIds /\ Slices[i] \in BrokerIds
      /\ \A s \in SliceIds : \E i \in DOMAIN Slices : Slices[i] = s
  BY ContingencyAssumption DEF SliceIds, ToSet
<1>3. QED
  BY <1>1, <1>2, ContingencyAssumption DEF ContingencyIds, Legs

(* What is noted of the slices in their order is a sequence of numbers. *)
LEMMA LotsTyped ==
  ASSUME NEW r, \A s \in SliceIds : r[s] \in Nat
  PROVE  /\ LotsOf(r) \in Seq(Nat) /\ Len(LotsOf(r)) = Len(Slices)
         /\ \A i \in 1 .. Len(Slices) : LotsOf(r)[i] = r[Slices[i]]
         /\ Total(LotsOf(r)) \in Nat /\ Total(LotsOf(r)) = TotalOf(LotsOf(r))
<1>1. LotsOf(r) = [i \in 1 .. Len(Slices) |-> r[Slices[i]]]
  BY SlicesAre DEF LotsOf
<1>2. \A i \in 1 .. Len(Slices) : r[Slices[i]] \in Nat
  BY SlicesAre
<1>3. LotsOf(r) \in [1 .. Len(Slices) -> Nat]
  BY <1>1, <1>2
<1>4. /\ LotsOf(r) \in Seq(Nat) /\ Len(LotsOf(r)) = Len(Slices)
      /\ \A i \in 1 .. Len(Slices) : LotsOf(r)[i] = r[Slices[i]]
  BY <1>1, <1>3, SlicesAre
<1>5. Total(LotsOf(r)) = TotalOf(LotsOf(r))
  BY DEF Total, TotalOf
<1> HIDE DEF LotsOf
<1>6. QED
  BY <1>4, <1>5, TotalType

(* More is reported of the slices than before, by what is new of one. *)
LEMMA LotsGrow ==
  ASSUME NEW r, NEW q, \A s \in SliceIds : r[s] \in Nat /\ q[s] \in Nat /\ r[s] <= q[s]
  PROVE  /\ Total(LotsOf(r)) <= Total(LotsOf(q))
         /\ \A s \in SliceIds, d \in Nat :
              r[s] + d <= q[s] => Total(LotsOf(r)) + d <= Total(LotsOf(q))
<1>1. /\ LotsOf(r) \in Seq(Nat) /\ Len(LotsOf(r)) = Len(Slices)
      /\ \A i \in 1 .. Len(Slices) : LotsOf(r)[i] = r[Slices[i]]
      /\ Total(LotsOf(r)) = TotalOf(LotsOf(r))
  BY LotsTyped
<1>2. /\ LotsOf(q) \in Seq(Nat) /\ Len(LotsOf(q)) = Len(Slices)
      /\ \A i \in 1 .. Len(Slices) : LotsOf(q)[i] = q[Slices[i]]
      /\ Total(LotsOf(q)) = TotalOf(LotsOf(q))
  BY LotsTyped
<1>3. \A i \in 1 .. Len(LotsOf(r)) : LotsOf(r)[i] <= LotsOf(q)[i]
  BY <1>1, <1>2, SlicesAre
<1>4. Len(LotsOf(r)) <= Len(LotsOf(q))
  BY <1>1, <1>2, SlicesAre
<1>5. /\ TotalOf(LotsOf(r)) <= TotalOf(LotsOf(q))
      /\ \A k \in 1 .. Len(LotsOf(r)), d \in Nat :
           LotsOf(r)[k] + d <= LotsOf(q)[k] => TotalOf(LotsOf(r)) + d <= TotalOf(LotsOf(q))
  BY <1>1, <1>2, <1>3, <1>4, TotalMonotone
<1>6. ASSUME NEW s \in SliceIds, NEW d \in Nat, r[s] + d <= q[s]
      PROVE  TotalOf(LotsOf(r)) + d <= TotalOf(LotsOf(q))
  <2>1. PICK i \in 1 .. Len(Slices) : Slices[i] = s
    BY SlicesAre
  <2>2. LotsOf(r)[i] + d <= LotsOf(q)[i] /\ i \in 1 .. Len(LotsOf(r))
    BY <1>1, <1>2, <1>6, <2>1
  <2>3. QED
    BY <1>5, <2>2
<1>7. QED
  BY <1>1, <1>2, <1>5, <1>6

(* A report of lots that were executed. *)
LEMMA FillTells ==
  ASSUME ManagersInv, RestTyped, ToldInv, [Next]_vars,
         NEW o \in ContingencyIds, NEW lots \in 1 .. Size, lots <= Executed(o), OnFill(o, lots)
  PROVE  /\ bracket'.status = "ACTIVE" => bracket'.remaining \in 1 .. Executed(Entry)'
         /\ oco'.status = "FILLED" => \E leg \in Legs : leg # oco'.cancelled /\ Executed(leg)' > 0
         /\ \/ iceberg'.remaining = iceberg.remaining
            \/ o \in SliceIds /\ iceberg'.remaining = iceberg.remaining - lots
         /\ iceberg'.status = "COMPLETE" => iceberg'.remaining <= 0
<1>1. /\ \A p \in ContingencyIds : /\ Executed(p) \in Nat /\ Executed(p)' \in Nat
                                   /\ Executed(p) <= Executed(p)'
      /\ lots \in Nat /\ lots > 0 /\ o \in BrokerIds
  BY BookGrows, SlicesAre, BrokerAssumption
<1>2. /\ bracket \in BracketTypes /\ oco \in Ocos /\ iceberg \in Icebergs
      /\ iceberg.remaining \in Int
  BY Shapes DEF RestTyped, Icebergs
<1>3. /\ bracket.status = "ACTIVE" => bracket.remaining \in 1 .. Executed(Entry)'
      /\ oco.status = "FILLED" => \E leg \in Legs : leg # oco.cancelled /\ Executed(leg)' > 0
      /\ iceberg.status = "COMPLETE" => iceberg.remaining <= 0
  <2>1. bracket.status = "ACTIVE" => bracket.remaining \in 1 .. Executed(Entry)'
    BY <1>1, SlicesAre DEF ToldInv
  <2>2. oco.status = "FILLED" => \E leg \in Legs : leg # oco.cancelled /\ Executed(leg)' > 0
    BY <1>1, SlicesAre DEF ToldInv
  <2>3. QED
    BY <2>1, <2>2 DEF ToldInv
<1>4. CASE o = Entry /\ FillBracket(lots)
  <2>1. /\ bracket' = [bracket EXCEPT !.status = "ACTIVE", !.remaining = lots]
        /\ oco' = oco /\ iceberg' = iceberg
    BY <1>4 DEF FillBracket
  <2>2. bracket'.remaining = lots
    BY <1>2, <2>1 DEF BracketTypes
  <2>3. lots \in 1 .. Executed(Entry)'
    BY <1>1, <1>4
  <2>4. QED
    BY <1>3, <2>1, <2>2, <2>3
<1>5. CASE o \in Legs /\ FillOco(o)
  <2> DEFINE other == CHOOSE leg \in Legs : leg # o
  <2>1. other # o
    <3>1. \E leg \in Legs : leg # o
      BY ContingencyAssumption DEF Legs
    <3>2. QED
      BY <3>1
  <2>2. /\ oco' = [status |-> "FILLED", cancelled |-> other]
        /\ UNCHANGED <<bracket, iceberg>>
    BY <1>5 DEF FillOco
  <2> HIDE DEF other
  <2>3. o \in Legs /\ o # oco'.cancelled /\ Executed(o)' > 0
    BY <1>1, <1>5, <2>1, <2>2
  <2>4. QED
    BY <1>3, <2>2, <2>3
<1>6. CASE o \in SliceIds /\ FillSlice(o, lots)
  <2> DEFINE filled    == iceberg.filled \cup {o}
             remaining == iceberg.remaining - lots
             status    == IF remaining <= 0 THEN "COMPLETE" ELSE iceberg.status
             advanced  == [iceberg EXCEPT !.status = status, !.filled = filled,
                                          !.remaining = remaining]
  <2>1. /\ UNCHANGED <<bracket, oco>>
        /\ \/ iceberg' = advanced
           \/ \E i \in DOMAIN Slices :
                \/ iceberg' = [advanced EXCEPT !.active = Slices[i]]
                \/ iceberg' = [advanced EXCEPT !.active = Slices[i],
                                               !.status = iceberg.status]
    BY <1>6 DEF FillSlice, NextSlices
  <2>2. advanced.status = status /\ advanced.remaining = remaining /\ DOMAIN advanced = DOMAIN iceberg
    BY <1>2 DEF Icebergs
  <2>3. DOMAIN iceberg = {"status", "filled", "remaining", "active"}
    BY <1>2 DEF Icebergs
  <2> HIDE DEF advanced, status, filled, remaining
  <2>4. iceberg'.remaining = remaining /\ iceberg'.status \in {status, iceberg.status}
    BY <2>1, <2>2, <2>3
  <2>5. iceberg'.status = "COMPLETE" => iceberg'.remaining <= 0
    <3>1. remaining \in Int /\ remaining <= iceberg.remaining
      BY <1>1, <1>2 DEF remaining
    <3>2. status = "COMPLETE" => remaining <= 0
      BY <1>2, <1>3, <3>1 DEF status
    <3>3. QED
      BY <1>2, <1>3, <2>4, <3>1, <3>2
  <2>6. QED
    BY <1>3, <1>6, <2>1, <2>4, <2>5 DEF remaining
<1>7. CASE FillIgnored(o)
  BY <1>3, <1>7 DEF FillIgnored
<1>8. QED
  BY <1>4, <1>5, <1>6, <1>7 DEF OnFill

(* Every step keeps what the contingency manager was told and made of it,   *)
(* one action after the other.                                              *)
LEMMA ToldStep ==
  ASSUME ManagersInv, RestTyped, ReportedInv, ToldInv, [Next]_vars
  PROVE  ReportedInv' /\ ToldInv'
<1>1. /\ \A o \in ContingencyIds : /\ Executed(o) \in Nat /\ Executed(o)' \in Nat
                                   /\ Executed(o) <= Executed(o)'
      /\ Entry \in ContingencyIds /\ \A leg \in Legs : leg \in ContingencyIds
      /\ \A s \in SliceIds : s \in ContingencyIds
  BY BookGrows, SlicesAre
<1>2. /\ reported \in [ContingencyIds -> Nat] /\ repeats \in Nat
      /\ bracket \in BracketTypes /\ oco \in Ocos /\ iceberg \in Icebergs
      /\ iceberg.remaining \in Int /\ TotalSize \in Int
      /\ Total(LotsOf(reported)) \in Nat
  <2>1. /\ reported \in [ContingencyIds -> Nat] /\ repeats \in 0 .. MaxRepeats
        /\ bracket \in BracketTypes /\ oco \in Ocos /\ iceberg \in Icebergs
    BY Shapes DEF RestTyped
  <2>2. iceberg.remaining \in Int
    BY <2>1 DEF Icebergs
  <2>3. TotalSize \in Int
    BY BrokerAssumption, SlicesAre DEF TotalSize
  <2>4. \A s \in SliceIds : reported[s] \in Nat
    BY <1>1, <2>1
  <2>5. Total(LotsOf(reported)) \in Nat
    BY <2>4, LotsTyped
  <2>6. repeats \in Nat
    BY <2>1, ContingencyAssumption
  <2>7. QED
    BY <2>1, <2>2, <2>3, <2>5, <2>6
<1>3. /\ bracket.status = "ACTIVE" => bracket.remaining \in 1 .. Executed(Entry)'
      /\ oco.status = "FILLED" => \E leg \in Legs : leg # oco.cancelled /\ Executed(leg)' > 0
  <2>1. bracket.status = "ACTIVE" => bracket.remaining \in 1 .. Executed(Entry)'
    BY <1>1 DEF ToldInv
  <2>2. oco.status = "FILLED" => \E leg \in Legs : leg # oco.cancelled /\ Executed(leg)' > 0
    BY <1>1 DEF ToldInv
  <2>3. QED
    BY <2>1, <2>2
<1>4. ASSUME UNCHANGED <<reported, repeats>>,
             \/ bracket' = bracket
             \/ bracket'.status = "PENDING",
             \/ oco' = oco
             \/ oco'.status = "PENDING",
             \/ iceberg' = iceberg
             \/ iceberg'.status # "COMPLETE" /\ iceberg'.remaining = iceberg.remaining
      PROVE  ReportedInv' /\ ToldInv'
  <2>1. ReportedInv'
    <3>1. \A o \in ContingencyIds : reported[o] <= Executed(o)'
      BY <1>1, <1>2 DEF ReportedInv
    <3>2. QED
      BY <1>4, <3>1 DEF ReportedInv
  <2>2. /\ bracket'.status = "ACTIVE" => bracket'.remaining \in 1 .. Executed(Entry)'
        /\ oco'.status = "FILLED" => \E leg \in Legs : leg # oco'.cancelled /\ Executed(leg)' > 0
    BY <1>3, <1>4
  <2>3. /\ repeats' = 0 => TotalSize - iceberg'.remaining <= Total(LotsOf(reported))
        /\ iceberg'.status = "COMPLETE" => iceberg'.remaining <= 0
    BY <1>4 DEF ToldInv
  <2>4. Total(LotsOf(reported))' = Total(LotsOf(reported))
    BY <1>4 DEF LotsOf
  <2>5. QED
    BY <2>1, <2>2, <2>3, <2>4 DEF ToldInv, TotalSize
<1>5. ASSUME NEW o \in ContingencyIds, NEW lots \in 1 .. Size, Report(o, lots)
      PROVE  ReportedInv' /\ ToldInv'
  <2>1. /\ reported[o] + lots <= Executed(o)
        /\ reported' = [reported EXCEPT ![o] = @ + lots]
        /\ OnFill(o, lots) /\ repeats' = repeats
    BY <1>5 DEF Report
  <2>2. lots \in Nat /\ lots <= Executed(o)
    BY <1>1, <1>2, <2>1, BrokerAssumption
  <2>3. /\ bracket'.status = "ACTIVE" => bracket'.remaining \in 1 .. Executed(Entry)'
        /\ oco'.status = "FILLED" => \E leg \in Legs : leg # oco'.cancelled /\ Executed(leg)' > 0
        /\ \/ iceberg'.remaining = iceberg.remaining
           \/ o \in SliceIds /\ iceberg'.remaining = iceberg.remaining - lots
        /\ iceberg'.status = "COMPLETE" => iceberg'.remaining <= 0
    BY <2>1, <2>2, FillTells
  <2>4. /\ reported'[o] = reported[o] + lots
        /\ \A p \in ContingencyIds : p # o => reported'[p] = reported[p]
    BY <1>2, <2>1
  <2>5. ReportedInv'
    <3>1. ASSUME NEW p \in ContingencyIds PROVE reported'[p] <= Executed(p)'
      <4>1. CASE p = o
        BY <1>1, <1>2, <2>1, <2>2, <2>4, <4>1
      <4>2. CASE p # o
        BY <1>1, <1>2, <2>4, <4>2 DEF ReportedInv
      <4>3. QED
        BY <4>1, <4>2
    <3>2. QED
      BY <3>1 DEF ReportedInv
  <2>6. /\ Total(LotsOf(reported)) <= Total(LotsOf(reported'))
        /\ o \in SliceIds => Total(LotsOf(reported)) + lots <= Total(LotsOf(reported'))
        /\ Total(LotsOf(reported')) \in Nat
    <3> DEFINE new == reported'
    <3>1. \A s \in SliceIds : reported[s] \in Nat /\ new[s] \in Nat /\ reported[s] <= new[s]
      BY <1>1, <1>2, <2>2, <2>4
    <3>2. o \in SliceIds => reported[o] + lots <= new[o]
      BY <1>1, <1>2, <2>2, <2>4
    <3> HIDE DEF new
    <3>3. /\ Total(LotsOf(reported)) <= Total(LotsOf(new))
          /\ o \in SliceIds => Total(LotsOf(reported)) + lots <= Total(LotsOf(new))
      BY <2>2, <3>1, <3>2, LotsGrow
    <3>4. Total(LotsOf(new)) \in Nat
      BY <3>1, LotsTyped
    <3>5. QED
      BY <3>3, <3>4 DEF new
  <2>7. repeats' = 0 => TotalSize - iceberg'.remaining <= Total(LotsOf(reported'))
    <3> DEFINE before == Total(LotsOf(reported))
               after == Total(LotsOf(reported'))
    <3>1. repeats = 0 => TotalSize - iceberg.remaining <= before
      BY DEF ToldInv
    <3>2. before \in Nat /\ after \in Nat
      BY <1>2, <2>6
    <3> HIDE DEF before, after
    <3>3. before <= after /\ (o \in SliceIds => before + lots <= after)
      BY <2>6 DEF before, after
    <3>4. QED
      BY <1>2, <2>1, <2>2, <2>3, <3>1, <3>2, <3>3 DEF after
  <2>8. QED
    BY <2>3, <2>5, <2>7 DEF ToldInv, TotalSize, LotsOf
<1>6. ASSUME NEW o \in ContingencyIds, NEW lots \in 1 .. Size, ReportAgain(o, lots)
      PROVE  ReportedInv' /\ ToldInv'
  <2>1. /\ lots <= reported[o] /\ reported' = reported
        /\ OnFill(o, lots) /\ repeats' = repeats + 1
    BY <1>6 DEF ReportAgain
  <2>2. lots <= Executed(o)
    BY <1>1, <1>2, <2>1, BrokerAssumption DEF ReportedInv
  <2>3. /\ bracket'.status = "ACTIVE" => bracket'.remaining \in 1 .. Executed(Entry)'
        /\ oco'.status = "FILLED" => \E leg \in Legs : leg # oco'.cancelled /\ Executed(leg)' > 0
        /\ iceberg'.status = "COMPLETE" => iceberg'.remaining <= 0
    BY <2>1, <2>2, FillTells
  <2>4. ReportedInv'
    <3>1. \A p \in ContingencyIds : reported[p] <= Executed(p)'
      BY <1>1, <1>2 DEF ReportedInv
    <3>2. QED
      BY <2>1, <3>1 DEF ReportedInv
  <2>5. repeats' # 0
    BY <1>2, <2>1
  <2>6. QED
    BY <2>3, <2>4, <2>5 DEF ToldInv
<1>7. CASE contingencyVars' = contingencyVars
  BY <1>4, <1>7 DEF contingencyVars
<1>8. CASE SubmitBracket
  <2>1. /\ bracket'.status = "PENDING"
        /\ UNCHANGED <<oco, iceberg, reported, repeats>>
    BY <1>2, <1>8 DEF SubmitBracket, history, BracketTypes
  <2>2. QED
    BY <1>4, <2>1
<1>9. CASE SubmitOco
  <2>1. oco'.status = "PENDING" /\ UNCHANGED <<bracket, iceberg, reported, repeats>>
    BY <1>2, <1>9 DEF SubmitOco, history, Ocos
  <2>2. QED
    BY <1>4, <2>1
<1>10. CASE SubmitIceberg
  <2>1. /\ \/ iceberg' = [iceberg EXCEPT !.status = "ACTIVE"]
           \/ iceberg' = [iceberg EXCEPT !.status = "RAISED"]
        /\ UNCHANGED <<bracket, oco, reported, repeats>>
    BY <1>10 DEF SubmitIceberg, history
  <2>2. iceberg'.status # "COMPLETE" /\ iceberg'.remaining = iceberg.remaining
    BY <1>2, <2>1 DEF Icebergs
  <2>3. QED
    BY <1>4, <2>1, <2>2
<1>11. CASE SubmitTrailing \/ \E price \in Prices, isLong \in BOOLEAN : UpdateTrailing(price, isLong)
  BY <1>4, <1>11 DEF SubmitTrailing, UpdateTrailing, history
<1>12. CASE ContingencyNext
  BY <1>5, <1>6, <1>8, <1>9, <1>10, <1>11, <1>12 DEF ContingencyNext
<1>13. QED
  BY <1>7, <1>12 DEF Next, vars

(* Nothing was executed or reported at first. *)
LEMMA ToldInit == Init => ReportedInv /\ ToldInv
<1> SUFFICES ASSUME Init PROVE ReportedInv /\ ToldInv
  OBVIOUS
<1>1. /\ reported = [o \in ContingencyIds |-> 0] /\ bracket.status = "NONE"
      /\ oco.status = "NONE" /\ iceberg.status = "NONE" /\ iceberg.remaining = TotalSize
  BY DEF Init, ContingencyInit
<1>2. \A o \in ContingencyIds : Executed(o) = 0
  <2>1. \A o \in ContingencyIds : book[o] = <<>>
    BY SlicesAre DEF Init, BrokerInit
  <2>2. <<>> \in Seq(Copy)
    OBVIOUS
  <2>3. Total(Dones(<<>>)) = 0
    BY <2>2, DonesAdd
  <2>4. QED
    BY <2>1, <2>3 DEF Executed, Dones
<1>3. Total(LotsOf(reported)) \in Nat /\ TotalSize - TotalSize = 0
  <2>1. \A s \in SliceIds : reported[s] \in Nat
    BY <1>1, SlicesAre
  <2>2. TotalSize \in Int
    BY BrokerAssumption, SlicesAre DEF TotalSize
  <2>3. QED
    BY <2>1, <2>2, LotsTyped
<1>4. ReportedInv
  BY <1>1, <1>2 DEF ReportedInv
<1>5. ToldInv
  BY <1>1, <1>3 DEF ToldInv
<1>6. QED
  BY <1>4, <1>5

(* Whatever the broker executes, refuses and reports, once or twice, in one *)
(* piece or in many, and whatever submission raises: every fill the manager *)
(* counts on, of a bracket, an OCO or an iceberg, was executed.             *)
THEOREM FillsBacked == Spec => []FillsAreBacked
<1>1. Init => ReportedInv /\ ToldInv
  BY ToldInit
<1>2. TypeOK => RestTyped
  BY DEF TypeOK, BrokerTypeOK, RestTyped
<1>3. ManagersInv /\ RestTyped /\ ReportedInv /\ ToldInv /\ [Next]_vars
        => ReportedInv' /\ ToldInv'
  BY ToldStep
<1>4. ManagersInv /\ RestTyped /\ ReportedInv /\ ToldInv => FillsAreBacked
  <2> SUFFICES ASSUME ManagersInv, RestTyped, ReportedInv, ToldInv PROVE FillsAreBacked
    OBVIOUS
  <2> DEFINE executed == [o \in ContingencyIds |-> Executed(o)]
  <2>1. \A s \in SliceIds : /\ reported[s] \in Nat /\ executed[s] \in Nat
                            /\ reported[s] <= executed[s] /\ executed[s] = Executed(s)
    <3>1. \A o \in BrokerIds : Executed(o) \in Nat
      BY DonesAdd DEF ManagersInv, BookOK, Executed, Dones
    <3>2. reported \in [ContingencyIds -> Nat]
      BY DEF RestTyped, ContingencyTypeOK
    <3>3. QED
      BY <3>1, <3>2, SlicesAre DEF ReportedInv
  <2>2. [i \in DOMAIN Slices |-> Executed(Slices[i])] = LotsOf(executed)
    BY <2>1, SlicesAre DEF LotsOf
  <2> HIDE DEF executed
  <2>3. /\ Total(LotsOf(reported)) <= Total(LotsOf(executed))
        /\ Total(LotsOf(reported)) \in Nat /\ Total(LotsOf(executed)) \in Nat
    BY <2>1, LotsGrow, LotsTyped
  <2>4. iceberg.status = "COMPLETE" /\ repeats = 0 => Total(LotsOf(executed)) >= TotalSize
    <3>1. iceberg.remaining \in Int /\ TotalSize \in Int
      BY Shapes, BrokerAssumption, SlicesAre DEF RestTyped, Icebergs, TotalSize
    <3>2. QED
      BY <2>3, <3>1 DEF ToldInv
  <2>5. QED
    BY <2>2, <2>4 DEF ToldInv, FillsAreBacked
<1>5. QED
  BY <1>1, <1>2, <1>3, <1>4, LiveTypeCorrect, ManagersInvHolds, PTL DEF Spec

-----------------------------------------------------------------------------
(* The slices of an iceberg, while every report is for a whole order and    *)
(* comes once.  What was sent is the current slice or counted as filled,    *)
(* and what is counted as filled was executed and reported as a whole.      *)
Current(i) == IF i.active = None THEN Head(Slices) ELSE i.active

SliceBySlice(b, r, i) ==
  \A s \in SliceIds :
    /\ Len(b[s]) <= 1
    /\ Len(b[s]) > 0 => s = Current(i) \/ s \in i.filled
    /\ s \in i.filled => Len(b[s]) = 1 /\ b[s][1].done = Size /\ r[s] = Size
    /\ s \notin i.filled => r[s] = 0

SliceInv ==
  /\ client # "iceberg" => iceberg.status = "NONE"
  /\ iceberg.status = "NONE" => /\ iceberg.filled = {} /\ iceberg.active = None
                                /\ \A s \in SliceIds : Len(book[s]) = 0
  /\ iceberg.status = "RAISED" =>
       \A s \in SliceIds : Len(book[s]) <= 1 /\ (Len(book[s]) > 0 => s = Head(Slices))
  /\ ~piecemeal /\ repeats = 0 /\ iceberg.status \in {"ACTIVE", "COMPLETE"} =>
       SliceBySlice(book, reported, iceberg)

(* The copies of a slice, one by one. *)
LEMMA SliceCopies ==
  ASSUME BookOK
  PROVE  \A s \in SliceIds : /\ book[s] \in Seq(Copy) /\ Len(book[s]) \in Nat
                             /\ Len(book[s]) = 0 => Executed(s) = 0
                             /\ Len(book[s]) = 1 => /\ book[s][1].done \in 0 .. Size
                                                    /\ Executed(s) = book[s][1].done
<1> SUFFICES ASSUME NEW s \in SliceIds
             PROVE  /\ book[s] \in Seq(Copy) /\ Len(book[s]) \in Nat
                    /\ Len(book[s]) = 0 => Executed(s) = 0
                    /\ Len(book[s]) = 1 => /\ book[s][1].done \in 0 .. Size
                                           /\ Executed(s) = book[s][1].done
  OBVIOUS
<1>1. book[s] \in Seq(Copy)
  BY SlicesAre DEF BookOK
<1>2. Executed(s) = Total(Dones(book[s]))
  BY DEF Executed, Dones
<1>3. Len(book[s]) = 0 => book[s] = <<>>
  BY <1>1
<1>4. Len(book[s]) = 1 => 1 \in DOMAIN book[s]
  BY <1>1
<1>5. QED
  BY <1>1, <1>2, <1>3, <1>4, CopiesCount, DonesAdd

(* A slice is nothing but a slice: no bracket, no OCO and no manager has    *)
(* its id.                                                                  *)
LEMMA SlicesApart ==
  /\ Entry \notin SliceIds /\ \A leg \in Legs : leg \notin SliceIds
  /\ \A s \in SliceIds : s \in BrokerIds \ OrderIds
BY SlicesAre, OrdersApart, ContingencyAssumption DEF SliceIds, Legs

(* Nothing new is sent and no slice is reported. *)
LEMMA SlicesKeep ==
  ASSUME BookOK, BookOK', SliceInv, client' = client, iceberg' = iceberg,
         \A s \in SliceIds : Grows(s) /\ Len(book'[s]) = Len(book[s]),
         ~piecemeal' /\ repeats' = 0 => ~piecemeal /\ repeats = 0,
         iceberg.status \in {"ACTIVE", "COMPLETE"} =>
           \A s \in SliceIds : reported'[s] = reported[s]
  PROVE  SliceInv'
<1>1. ASSUME SliceBySlice(book, reported, iceberg),
             \A s \in SliceIds : reported'[s] = reported[s]
      PROVE  SliceBySlice(book', reported', iceberg)
  <2> SUFFICES ASSUME NEW s \in SliceIds
               PROVE  /\ Len(book'[s]) <= 1
                      /\ Len(book'[s]) > 0 => s = Current(iceberg) \/ s \in iceberg.filled
                      /\ s \in iceberg.filled => /\ Len(book'[s]) = 1 /\ book'[s][1].done = Size
                                                 /\ reported'[s] = Size
                      /\ s \notin iceberg.filled => reported'[s] = 0
    BY DEF SliceBySlice
  <2>1. /\ Len(book[s]) <= 1
        /\ Len(book[s]) > 0 => s = Current(iceberg) \/ s \in iceberg.filled
        /\ s \in iceberg.filled => Len(book[s]) = 1 /\ book[s][1].done = Size /\ reported[s] = Size
        /\ s \notin iceberg.filled => reported[s] = 0
    BY <1>1 DEF SliceBySlice
  <2>2. /\ book[s] \in Seq(Copy) /\ book'[s] \in Seq(Copy)
        /\ Len(book'[s]) = Len(book[s])
        /\ \A k \in DOMAIN book[s] : book[s][k].done <= book'[s][k].done
    BY SlicesAre DEF BookOK, Grows
  <2>3. ASSUME s \in iceberg.filled PROVE book'[s][1].done = Size
    <3>1. /\ 1 \in DOMAIN book[s] /\ 1 \in DOMAIN book'[s] /\ book[s][1].done = Size
      BY <2>1, <2>2, <2>3
    <3>2. book'[s][1].done \in 0 .. Size
      BY <2>2, <3>1, CopiesCount
    <3>3. QED
      BY <2>2, <3>1, <3>2, BrokerAssumption
  <2>4. QED
    BY <1>1, <2>1, <2>2, <2>3
<1>2. iceberg.status = "NONE" =>
        /\ iceberg.filled = {} /\ iceberg.active = None
        /\ \A s \in SliceIds : Len(book'[s]) = 0
  BY DEF SliceInv
<1>3. iceberg.status = "RAISED" =>
        \A s \in SliceIds : Len(book'[s]) <= 1 /\ (Len(book'[s]) > 0 => s = Head(Slices))
  BY DEF SliceInv
<1>4. ~piecemeal' /\ repeats' = 0 /\ iceberg.status \in {"ACTIVE", "COMPLETE"} =>
        SliceBySlice(book', reported', iceberg)
  BY <1>1 DEF SliceInv
<1>5. client # "iceberg" => iceberg.status = "NONE"
  BY DEF SliceInv
<1>6. QED
  BY <1>2, <1>3, <1>4, <1>5 DEF SliceInv

(* The steps of everyone else. *)
LEMMA SlicesElsewhere ==
  ASSUME BookOK, BookOK', SliceInv, client' = client, UNCHANGED contingencyVars,
         \A s \in SliceIds : Grows(s) /\ Len(book'[s]) = Len(book[s])
  PROVE  SliceInv'
BY SlicesKeep DEF contingencyVars

(* Requests under other ids. *)
LEMMA SendsElsewhere ==
  ASSUME BookOK, NEW ids, Sent(ids) \/ Raised(ids), ids \cap SliceIds = {}
  PROVE  /\ BookOK'
         /\ \A s \in SliceIds : Grows(s) /\ Len(book'[s]) = Len(book[s])
<1>1. PICK some \in SUBSET ids : Accept(some)
  BY DEF Sent, Raised
<1>2. BookOK' /\ \A s \in SliceIds : Grows(s) /\ book'[s] = book[s]
  BY <1>1, AcceptGrows, SlicesAre
<1>3. QED
  BY <1>2

(* A slice is sent of which nothing was sent yet. *)
LEMMA SendsOne ==
  ASSUME BookOK, NEW slice \in SliceIds, Sent({slice}) \/ Raised({slice}),
         Len(book[slice]) = 0
  PROVE  /\ BookOK' /\ Len(book'[slice]) <= 1
         /\ \A s \in SliceIds \ {slice} : book'[s] = book[s]
<1>1. PICK some \in SUBSET {slice} : Accept(some)
  BY DEF Sent, Raised
<1>2. /\ BookOK'
      /\ slice \notin some => book'[slice] = book[slice]
      /\ slice \in some => Len(book'[slice]) = Len(book[slice]) + 1
      /\ \A s \in SliceIds \ {slice} : book'[s] = book[s]
  BY <1>1, AcceptGrows, SlicesAre
<1>3. Len(book'[slice]) = 0 \/ Len(book'[slice]) = 1
  BY <1>2
<1>4. \A n \in Nat : n = 0 \/ n = 1 => n <= 1
  OBVIOUS
<1>5. Len(book'[slice]) \in Nat
  BY <1>3
<1>6. Len(book'[slice]) <= 1
  BY <1>3, <1>4, <1>5
<1>7. QED
  BY <1>2, <1>6

(* The first slice is sent, or the call raises and nobody knows of it.      *)
LEMMA FirstSlice ==
  ASSUME BookOK, RestTyped, ReportedInv, SliceInv, SubmitIceberg, UNCHANGED client
  PROVE  SliceInv'
<1> DEFINE first == Head(Slices)
<1>1. /\ client = "iceberg" /\ iceberg.status = "NONE" /\ reported' = reported
      /\ \/ iceberg' = [iceberg EXCEPT !.status = "ACTIVE"]
         \/ iceberg' = [iceberg EXCEPT !.status = "RAISED"]
      /\ Sent({first}) \/ Raised({first})
  BY DEF SubmitIceberg, history
<1>2. /\ iceberg.filled = {} /\ iceberg.active = None
      /\ \A s \in SliceIds : Len(book[s]) = 0
  BY <1>1 DEF SliceInv
<1>3. first \in SliceIds
  BY SlicesAre
<1>4. iceberg \in Icebergs
  BY Shapes DEF RestTyped
<1>5. /\ iceberg'.status \in {"ACTIVE", "RAISED"} /\ iceberg'.filled = {}
      /\ iceberg'.active = None
  BY <1>1, <1>2, <1>4 DEF Icebergs
<1> HIDE DEF first
<1>6. /\ BookOK' /\ Len(book'[first]) <= 1
      /\ \A s \in SliceIds \ {first} : book'[s] = book[s]
  BY <1>1, <1>2, <1>3, SendsOne
<1>7. \A s \in SliceIds : Len(book'[s]) <= 1 /\ (Len(book'[s]) > 0 => s = first)
  BY <1>2, <1>6
<1>8. \A s \in SliceIds : reported'[s] = 0
  <2>1. \A s \in SliceIds : reported[s] \in Nat /\ reported[s] <= Executed(s) /\ Executed(s) = 0
    <3>1. \A s \in SliceIds : Executed(s) = 0
      BY <1>2, SliceCopies
    <3>2. reported \in [ContingencyIds -> Nat]
      BY DEF RestTyped, ContingencyTypeOK
    <3>3. QED
      BY <3>1, <3>2, SlicesAre DEF ReportedInv
  <2>2. QED
    BY <1>1, <2>1
<1>9. SliceBySlice(book', reported', iceberg')
  BY <1>5, <1>7, <1>8 DEF SliceBySlice, Current, first
<1>10. QED
  BY <1>1, <1>5, <1>7, <1>9 DEF SliceInv, first

(* A slice is reported as a whole: it was the current one, and the next is  *)
(* sent when everything that was sent before is done.                       *)
LEMMA SliceFilled ==
  ASSUME BookOK, RestTyped, SliceInv, UNCHANGED client,
         NEW o \in SliceIds, NEW lots \in 1 .. Size, FillSlice(o, lots),
         reported[o] + lots <= Executed(o), reported' = [reported EXCEPT ![o] = @ + lots],
         piecemeal' = (piecemeal \/ lots # Size), repeats' = repeats
  PROVE  SliceInv'
<1> DEFINE filled    == iceberg.filled \cup {o}
           remaining == iceberg.remaining - lots
           status    == IF remaining <= 0 THEN "COMPLETE" ELSE iceberg.status
           advanced  == [iceberg EXCEPT !.status = status, !.filled = filled,
                                        !.remaining = remaining]
<1>1. /\ iceberg.status \in {"ACTIVE", "COMPLETE"}
      /\ \/ UNCHANGED book /\ iceberg' = advanced
         \/ \E i \in DOMAIN Slices :
              /\ Slices[i] \notin filled
              /\ \/ /\ Sent({Slices[i]})
                    /\ iceberg' = [advanced EXCEPT !.active = Slices[i]]
                 \/ /\ Raised({Slices[i]})
                    /\ iceberg' = [advanced EXCEPT !.active = Slices[i],
                                                   !.status = iceberg.status]
  BY DEF FillSlice, NextSlices, brokerVars
<1>2. iceberg \in Icebergs
  BY Shapes DEF RestTyped
<1>3. DOMAIN iceberg = {"status", "filled", "remaining", "active"}
  BY <1>2 DEF Icebergs
<1>4. /\ DOMAIN advanced = DOMAIN iceberg /\ advanced.filled = filled
      /\ advanced.status = status /\ advanced.active = iceberg.active
  BY <1>3
<1>5. status \in {"ACTIVE", "COMPLETE"}
  BY <1>1
<1> HIDE DEF advanced, status, filled, remaining
<1>6. /\ iceberg'.status \in {"ACTIVE", "COMPLETE"} /\ iceberg'.filled = filled
      /\ \/ UNCHANGED book
         \/ \E slice \in SliceIds : /\ slice \notin filled
                                    /\ Sent({slice}) \/ Raised({slice})
                                    /\ iceberg'.active = slice
  <2>1. CASE UNCHANGED book /\ iceberg' = advanced
    BY <1>4, <1>5, <2>1
  <2>2. CASE \E i \in DOMAIN Slices :
              /\ Slices[i] \notin filled
              /\ \/ /\ Sent({Slices[i]})
                    /\ iceberg' = [advanced EXCEPT !.active = Slices[i]]
                 \/ /\ Raised({Slices[i]})
                    /\ iceberg' = [advanced EXCEPT !.active = Slices[i],
                                                   !.status = iceberg.status]
    <3>1. PICK i \in DOMAIN Slices :
              /\ Slices[i] \notin filled
              /\ \/ /\ Sent({Slices[i]})
                    /\ iceberg' = [advanced EXCEPT !.active = Slices[i]]
                 \/ /\ Raised({Slices[i]})
                    /\ iceberg' = [advanced EXCEPT !.active = Slices[i],
                                                   !.status = iceberg.status]
      BY <2>2
    <3>2. /\ iceberg'.active = Slices[i] /\ iceberg'.filled = filled
          /\ iceberg'.status \in {status, iceberg.status}
      BY <1>3, <1>4, <3>1
    <3>3. Slices[i] \in SliceIds
      BY SlicesAre
    <3>4. QED
      BY <1>1, <1>5, <3>1, <3>2, <3>3
  <2>3. QED
    BY <1>1, <2>1, <2>2
<1>7. client = "iceberg" /\ client' = client
  BY <1>1 DEF SliceInv
<1>8. ASSUME ~piecemeal', repeats' = 0
      PROVE  SliceBySlice(book', reported', iceberg')
  <2>1. lots = Size /\ SliceBySlice(book, reported, iceberg)
    BY <1>1, <1>8 DEF SliceInv
  <2>2. \A s \in SliceIds :
          /\ Len(book[s]) <= 1
          /\ Len(book[s]) > 0 => s = Current(iceberg) \/ s \in iceberg.filled
          /\ s \in iceberg.filled => Len(book[s]) = 1 /\ book[s][1].done = Size /\ reported[s] = Size
          /\ s \notin iceberg.filled => reported[s] = 0
    BY <2>1 DEF SliceBySlice
  <2>3. reported \in [ContingencyIds -> Nat] /\ \A s \in SliceIds : s \in ContingencyIds
    BY SlicesAre DEF RestTyped, ContingencyTypeOK
  <2>4. Len(book[o]) = 1 /\ book[o][1].done = Size /\ reported[o] = 0
    <3>1. /\ Len(book[o]) \in Nat /\ reported[o] \in Nat /\ reported[o] + Size <= Executed(o)
          /\ Size \in Nat /\ Size > 0
      BY <2>1, <2>3, SliceCopies, BrokerAssumption
    <3>2. /\ Len(book[o]) = 0 => Executed(o) = 0
          /\ Len(book[o]) = 1 => /\ book[o][1].done \in 0 .. Size
                                 /\ Executed(o) = book[o][1].done
      BY SliceCopies
    <3>3. Len(book[o]) = 1
      <4>1. Len(book[o]) <= 1
        BY <2>2
      <4>2. Executed(o) # 0
        BY <3>1
      <4>3. \A n \in Nat : n <= 1 => n = 0 \/ n = 1
        OBVIOUS
      <4>4. QED
        BY <3>1, <3>2, <4>1, <4>2, <4>3
    <3>4. QED
      BY <3>1, <3>2, <3>3
  <2>5. o = Current(iceberg) /\ o \notin iceberg.filled
    <3>1. o \notin iceberg.filled
      BY <2>2, <2>4, BrokerAssumption
    <3>2. QED
      BY <2>2, <2>4, <3>1
  <2>6. /\ reported'[o] = Size
        /\ \A s \in SliceIds \ {o} : reported'[s] = reported[s]
    BY <2>1, <2>3, <2>4, BrokerAssumption
  <2>7. \A s \in SliceIds :
          /\ Len(book[s]) <= 1
          /\ Len(book[s]) > 0 => s \in filled
          /\ s \in filled => Len(book[s]) = 1 /\ book[s][1].done = Size /\ reported'[s] = Size
          /\ s \notin filled => reported'[s] = 0
    BY <2>2, <2>4, <2>5, <2>6 DEF filled
  <2>8. CASE UNCHANGED book
    BY <1>6, <2>7, <2>8 DEF SliceBySlice
  <2>9. CASE \E slice \in SliceIds : /\ slice \notin filled
                                     /\ Sent({slice}) \/ Raised({slice})
                                     /\ iceberg'.active = slice
    <3>1. PICK slice \in SliceIds : /\ slice \notin filled
                                    /\ Sent({slice}) \/ Raised({slice})
                                    /\ iceberg'.active = slice
      BY <2>9
    <3>2. Len(book[slice]) = 0
      BY <2>7, <3>1, SliceCopies
    <3>3. /\ Len(book'[slice]) <= 1
          /\ \A s \in SliceIds \ {slice} : book'[s] = book[s]
      BY <3>1, <3>2, SendsOne
    <3>4. Current(iceberg') = slice
      BY <3>1, SlicesAre, ContingencyAssumption DEF Current
    <3>5. \A s \in SliceIds :
            /\ Len(book'[s]) <= 1
            /\ Len(book'[s]) > 0 => s = slice \/ s \in filled
            /\ s \in filled => /\ Len(book'[s]) = 1 /\ book'[s][1].done = Size
                               /\ reported'[s] = Size
            /\ s \notin filled => reported'[s] = 0
      BY <2>7, <3>1, <3>3
    <3>6. QED
      BY <1>6, <3>4, <3>5 DEF SliceBySlice
  <2>10. QED
    BY <1>6, <2>8, <2>9
<1>9. QED
  BY <1>6, <1>7, <1>8 DEF SliceInv

(* A slice is reported again. *)
LEMMA SliceAgain ==
  ASSUME RestTyped, SliceInv, UNCHANGED client, NEW o \in SliceIds, NEW lots,
         FillSlice(o, lots), repeats' = repeats + 1
  PROVE  SliceInv'
<1> DEFINE filled    == iceberg.filled \cup {o}
           remaining == iceberg.remaining - lots
           status    == IF remaining <= 0 THEN "COMPLETE" ELSE iceberg.status
           advanced  == [iceberg EXCEPT !.status = status, !.filled = filled,
                                        !.remaining = remaining]
<1>1. /\ iceberg.status \in {"ACTIVE", "COMPLETE"}
      /\ \/ iceberg' = advanced
         \/ \E i \in DOMAIN Slices :
              \/ iceberg' = [advanced EXCEPT !.active = Slices[i]]
              \/ iceberg' = [advanced EXCEPT !.active = Slices[i], !.status = iceberg.status]
  BY DEF FillSlice, NextSlices
<1>2. DOMAIN iceberg = {"status", "filled", "remaining", "active"}
  BY Shapes DEF RestTyped, Icebergs
<1>3. DOMAIN advanced = DOMAIN iceberg /\ advanced.status = status
  BY <1>2
<1>4. status \in {"ACTIVE", "COMPLETE"}
  BY <1>1
<1> HIDE DEF advanced, status
<1>5. iceberg'.status \in {"ACTIVE", "COMPLETE"}
  BY <1>1, <1>2, <1>3, <1>4
<1>6. repeats' # 0
  BY ContingencyAssumption DEF RestTyped, ContingencyTypeOK
<1>7. client' = "iceberg"
  BY <1>1 DEF SliceInv
<1>8. QED
  BY <1>5, <1>6, <1>7 DEF SliceInv

(* Every step keeps the slices in their order, one action after the other. *)
LEMMA SliceStep ==
  ASSUME ManagersInv, RestTyped, ReportedInv, SliceInv, [Next]_vars
  PROVE  SliceInv'
<1>0. BookOK /\ BookOK'
  BY BookGrows DEF ManagersInv
<1>1. ASSUME UNCHANGED <<book, client, contingencyVars>>
      PROVE  SliceInv'
  BY <1>0, <1>1, SameBook, SlicesElsewhere, SlicesApart DEF Rewrites
<1>2. ASSUME client' = client, iceberg' = iceberg, UNCHANGED <<repeats, piecemeal, reported>>,
             \A s \in SliceIds : Grows(s) /\ Len(book'[s]) = Len(book[s])
      PROVE  SliceInv'
  BY <1>0, <1>2, SlicesKeep
<1>3. ASSUME book' = book
      PROVE  \A s \in SliceIds : Grows(s) /\ Len(book'[s]) = Len(book[s])
  BY <1>0, <1>3, SameBook, SlicesApart DEF Rewrites
<1>4. CASE BrokerStep /\ UNCHANGED <<client, managerVars, contingencyVars>>
  BY <1>0, <1>4, BrokerRewrites, SlicesElsewhere, SlicesApart DEF Rewrites
<1>5. CASE ManagersNext /\ UNCHANGED contingencyVars
  <2>1. \A s \in SliceIds : Grows(s) /\ Len(book'[s]) = Len(book[s])
    BY <1>5, ManagersElsewhere, SlicesApart
  <2>2. client' = client
    BY <1>5, ManagersLeave
  <2>3. QED
    BY <1>0, <1>5, <2>1, <2>2, SlicesElsewhere
<1>6. CASE ContingencyNext /\ UNCHANGED <<client, managerVars>>
  <2>1. CASE SubmitBracket
    BY <1>0, <1>2, <1>6, <2>1, SendsElsewhere, SlicesApart DEF SubmitBracket, history
  <2>2. CASE SubmitOco
    <3>1. PICK legs \in SUBSET Legs : Sent(legs) \/ Raised(legs)
      BY <2>2 DEF SubmitOco
    <3>2. legs \cap SliceIds = {}
      BY SlicesApart
    <3>3. \A s \in SliceIds : Grows(s) /\ Len(book'[s]) = Len(book[s])
      BY <1>0, <3>1, <3>2, SendsElsewhere
    <3>4. QED
      BY <1>2, <1>6, <2>2, <3>3 DEF SubmitOco, history
  <2>3. CASE SubmitIceberg
    BY <1>0, <1>6, <2>3, FirstSlice
  <2>4. ASSUME NEW o \in ContingencyIds, NEW lots \in 1 .. Size, Report(o, lots)
        PROVE  SliceInv'
    <3>1. /\ reported[o] + lots <= Executed(o) /\ OnFill(o, lots)
          /\ reported' = [reported EXCEPT ![o] = @ + lots]
          /\ piecemeal' = (piecemeal \/ lots # Size) /\ repeats' = repeats
      BY <2>4 DEF Report
    <3>2. CASE o \in SliceIds /\ FillSlice(o, lots)
      BY <1>0, <1>6, <3>1, <3>2, SliceFilled
    <3>3. CASE \/ o = Entry /\ FillBracket(lots)
               \/ o \in Legs /\ FillOco(o)
               \/ FillIgnored(o)
      <4>1. iceberg' = iceberg /\ book' = book
        BY <3>3 DEF FillBracket, FillOco, FillIgnored, brokerVars
      <4>2. iceberg.status \in {"ACTIVE", "COMPLETE"} => o \notin SliceIds
        BY <3>3, SlicesApart DEF FillIgnored
      <4>3. reported \in [ContingencyIds -> Nat]
        BY DEF RestTyped, ContingencyTypeOK
      <4>4. iceberg.status \in {"ACTIVE", "COMPLETE"} =>
              \A s \in SliceIds : reported'[s] = reported[s]
        BY <3>1, <4>2, <4>3, SlicesAre
      <4>5. ~piecemeal' /\ repeats' = 0 => ~piecemeal /\ repeats = 0
        BY <3>1
      <4>6. QED
        BY <1>0, <1>3, <1>6, <4>1, <4>4, <4>5, SlicesKeep
    <3>4. QED
      BY <3>1, <3>2, <3>3 DEF OnFill
  <2>5. ASSUME NEW o \in ContingencyIds, NEW lots \in 1 .. Size, ReportAgain(o, lots)
        PROVE  SliceInv'
    <3>1. /\ OnFill(o, lots) /\ repeats' = repeats + 1
          /\ reported' = reported /\ piecemeal' = piecemeal
      BY <2>5 DEF ReportAgain
    <3>2. CASE o \in SliceIds /\ FillSlice(o, lots)
      BY <1>6, <3>1, <3>2, SliceAgain
    <3>3. CASE FillBracket(lots) \/ FillOco(o) \/ FillIgnored(o)
      <4>1. iceberg' = iceberg /\ book' = book
        BY <3>3 DEF FillBracket, FillOco, FillIgnored, brokerVars
      <4>2. repeats' # 0
        BY <3>1, ContingencyAssumption DEF RestTyped, ContingencyTypeOK
      <4>3. QED
        BY <1>0, <1>3, <1>6, <3>1, <4>1, <4>2, SlicesKeep
    <3>4. QED
      BY <3>1, <3>2, <3>3 DEF OnFill
  <2>6. CASE SubmitTrailing \/ \E price \in Prices, isLong \in BOOLEAN : UpdateTrailing(price, isLong)
    BY <1>2, <1>3, <1>6, <2>6 DEF SubmitTrailing, UpdateTrailing, history, brokerVars
  <2>7. QED
    BY <1>6, <2>1, <2>2, <2>3, <2>4, <2>5, <2>6 DEF ContingencyNext
<1>7. CASE UNCHANGED vars
  BY <1>1, <1>7 DEF vars, brokerVars
<1>8. QED
  BY <1>4, <1>5, <1>6, <1>7 DEF Next

(* While every report is for a whole order and comes once, an iceberg shows *)
(* one slice and sends none twice, whatever the broker does with what it    *)
(* got and wherever a submission raises: for any number of slices.          *)
THEOREM IcebergShowsOneSlice == Spec => []OneSliceShown
<1>1. Init => SliceInv
  <2> SUFFICES ASSUME Init PROVE SliceInv
    OBVIOUS
  <2>1. /\ iceberg.status = "NONE" /\ iceberg.filled = {} /\ iceberg.active = None
    BY DEF Init, ContingencyInit
  <2>2. \A s \in SliceIds : book[s] = <<>>
    BY SlicesAre DEF Init, BrokerInit
  <2>3. QED
    BY <2>1, <2>2 DEF SliceInv
<1>2. Init => ReportedInv /\ ToldInv
  BY ToldInit
<1>3. TypeOK /\ ManagersInv => BookOK /\ RestTyped
  BY DEF TypeOK, BrokerTypeOK, ManagersInv, RestTyped
<1>4. /\ ManagersInv /\ RestTyped /\ ReportedInv /\ ToldInv /\ SliceInv /\ [Next]_vars
         => ReportedInv' /\ ToldInv' /\ SliceInv'
  BY ToldStep, SliceStep
<1>5. BookOK /\ RestTyped /\ SliceInv => OneSliceShown
  <2> SUFFICES ASSUME BookOK, RestTyped, SliceInv, ~piecemeal, repeats = 0
               PROVE  /\ \A s \in SliceIds : Len(book[s]) <= 1
                      /\ \A s, t \in SliceIds :
                           /\ \E k \in DOMAIN book[s] : Works(book[s][k])
                           /\ \E k \in DOMAIN book[t] : Works(book[t][k])
                           => s = t
    BY DEF OneSliceShown
  <2> DEFINE shown == IF iceberg.status = "RAISED" THEN Head(Slices) ELSE Current(iceberg)
  <2>1. \A s \in SliceIds : /\ Len(book[s]) <= 1
                            /\ Len(book[s]) = 1 => s = shown \/ book[s][1].done = Size
    <3>1. iceberg.status \in {"NONE", "RAISED", "ACTIVE", "COMPLETE"}
      BY Shapes DEF RestTyped, Icebergs
    <3>2. QED
      BY <3>1 DEF SliceInv, SliceBySlice
  <2> HIDE DEF shown
  <2>2. ASSUME NEW s \in SliceIds, NEW k \in DOMAIN book[s], Works(book[s][k])
        PROVE  s = shown
    <3>1. /\ book[s] \in Seq(Copy) /\ Len(book[s]) \in Nat
          /\ Len(book[s]) = 1 => book[s][1].done \in 0 .. Size
      BY SliceCopies
    <3>2. Len(book[s]) = 1 /\ k = 1
      <4>1. DOMAIN book[s] = 1 .. Len(book[s])
        BY <3>1
      <4>2. Len(book[s]) <= 1
        BY <2>1
      <4>3. \A n \in Nat : \A j \in 1 .. n : n <= 1 => n = 1 /\ j = 1
        OBVIOUS
      <4>4. QED
        BY <3>1, <4>1, <4>2, <4>3
    <3>3. book[s][1].done < Size
      BY <2>2, <3>2 DEF Works
    <3>4. QED
      BY <2>1, <3>1, <3>2, <3>3, BrokerAssumption
  <2>3. QED
    BY <2>1, <2>2
<1>6. QED
  BY <1>1, <1>2, <1>3, <1>4, <1>5, LiveTypeCorrect, ManagersInvHolds, PTL DEF Spec

-----------------------------------------------------------------------------
(* The retry loop winds down.                                               *)

(* The longest way a call of submit() can still go: an attempt that fails   *)
(* costs the request, its arrival and the sleep.                            *)
Ahead(c) ==
  LET place == CASE c.at = "backoff" -> 3 [] c.at = "waiting" -> 2 [] OTHER -> 1
  IN IF c.at = "idle" THEN 0 ELSE 3 * (MaxRetries - c.attempt) + place

StepsLeft(t) == Ahead(calls[t])

(* A thread is never farther from the end of submit() than at its start,    *)
(* every step of it shortens the way, and no step makes it longer.          *)
WindsDown(t) ==
  /\ StepsLeft(t) \in 0 .. 3 * MaxRetries + 3
  /\ StepsLeft(t) = 0 <=> calls[t].at = "idle"
  /\ CallStep(t) => StepsLeft(t)' < StepsLeft(t)
  /\ calls[t].at # "idle" => StepsLeft(t)' <= StepsLeft(t)

(* How long the way is from every place. *)
LEMMA AheadIs ==
  ASSUME NEW c \in Call
  PROVE  /\ c.at = "idle" => Ahead(c) = 0
         /\ c.at = "backoff" => Ahead(c) = 3 * (MaxRetries - c.attempt) + 3
         /\ c.at = "waiting" => Ahead(c) = 3 * (MaxRetries - c.attempt) + 2
         /\ c.at = "arrived" => Ahead(c) = 3 * (MaxRetries - c.attempt) + 1
         /\ c.attempt \in 0 .. MaxRetries /\ MaxRetries \in Nat
         /\ c.at \in {"idle", "waiting", "arrived", "backoff"}
<1>1. c.attempt \in 0 .. MaxRetries /\ c.at \in {"idle", "waiting", "arrived", "backoff"}
  BY DEF Call
<1>2. QED
  BY <1>1, ManagersAssumption DEF Ahead

(* Each step of a thread brings it nearer to the end. *)
LEMMA CallShrinks ==
  ASSUME ManagersInv, NEW t \in Threads, CallStep(t), calls'[t] \in Call
  PROVE  Ahead(calls'[t]) < Ahead(calls[t])
<1> DEFINE c == calls[t]
           d == calls'[t]
<1>1. calls \in [Threads -> Call] /\ c \in Call /\ d \in Call
  BY DEF ManagersInv, ManagersTypeOK
<1>2. CASE RequestArrives(t)
  <2>1. c.at = "waiting" /\ d.at = "arrived" /\ d.attempt = c.attempt
    BY <1>1, <1>2 DEF RequestArrives, Call
  <2> HIDE DEF c, d
  <2>2. Ahead(d) < Ahead(c)
    BY <1>1, <2>1, AheadIs
  <2>3. QED
    BY <2>2 DEF c, d
<1>3. CASE Wake(t)
  <2>1. c.at = "backoff" /\ d.at = "waiting" /\ d.attempt = c.attempt
    BY <1>1, <1>3 DEF Wake, Call
  <2> HIDE DEF c, d
  <2>2. Ahead(d) < Ahead(c)
    BY <1>1, <2>1, AheadIs
  <2>3. QED
    BY <2>2 DEF c, d
<1>4. CASE Answer(t) \/ ListenerRaises(t) \/ Raise(t)
  <2>1. c.at \in {"waiting", "arrived"} /\ d \in {NoCall, Retried(t)}
    BY <1>1, <1>4 DEF Answer, ListenerRaises, Raise
  <2>2. NoCall.at = "idle"
    BY DEF NoCall
  <2>3. d.at = "idle" \/ (d.at \in {"waiting", "backoff"} /\ d.attempt = c.attempt + 1)
    BY <2>1, <2>2, RetriedCall DEF ManagersInv
  <2> HIDE DEF c, d
  <2>4. Ahead(d) < Ahead(c)
    BY <1>1, <2>1, <2>3, AheadIs
  <2>5. QED
    BY <2>4 DEF c, d
<1>5. QED
  BY <1>2, <1>3, <1>4 DEF CallStep

(* Nobody else touches the call of a thread, and the thread begins one only *)
(* if it has none.                                                          *)
LEMMA OthersLeaveCall ==
  ASSUME ManagersInv, [Next]_vars, NEW t \in Threads, ~CallStep(t), calls[t].at # "idle"
  PROVE  calls'[t] = calls[t]
<1>1. calls \in [Threads -> Call]
  BY DEF ManagersInv, ManagersTypeOK
<1>2. ASSUME NEW u \in Threads, NEW o \in OrderIds, Submit(u, o)
      PROVE  calls'[t] = calls[t]
  BY <1>1, <1>2 DEF Submit
<1>3. ASSUME NEW u \in Threads, CallStep(u)
      PROVE  calls'[t] = calls[t]
  BY <1>1, <1>3 DEF CallStep, RequestArrives, Answer, ListenerRaises, Raise, Wake
<1>4. ASSUME NEW o \in OrderIds, PlaceInvalid(o) \/ Ask(o) \/ Reconcile(o) \/ Sweeps(o)
      PROVE  calls' = calls
  BY <1>4 DEF PlaceInvalid, Ask, Reconcile, Sweeps, JudgeStale, MarkStale, CancelStale,
              CheckPartialFills, CancelAtBroker, CancelLocally
<1>5. CASE calls' = calls
  BY <1>5
<1>6. QED
  BY <1>2, <1>3, <1>4, <1>5 DEF Next, ManagersNext, Sweeps, managerVars, vars

(* submit() has a bounded way to its return, for any number of orders,      *)
(* threads and retries: a call starts at most 3 max_retries + 3 steps from  *)
(* the end, each of its own steps brings it nearer, and no sweep, snapshot, *)
(* cancel or other call takes it back.  The fairness of the thread makes of *)
(* this that it returns.                                                    *)
THEOREM SubmitWindsDown == Spec => [][\A t \in Threads : WindsDown(t)]_vars
<1>1. ASSUME ManagersInv, [Next]_vars, NEW t \in Threads
      PROVE  WindsDown(t)
  <2>1. ManagersInv'
    BY <1>1, ManagersStep
  <2>2. calls[t] \in Call /\ calls'[t] \in Call
    BY <1>1, <2>1 DEF ManagersInv, ManagersTypeOK
  <2>3. /\ StepsLeft(t) \in 0 .. 3 * MaxRetries + 3
        /\ StepsLeft(t) = 0 <=> calls[t].at = "idle"
    BY <2>2, AheadIs DEF StepsLeft
  <2>4. StepsLeft(t) \in Int /\ StepsLeft(t)' = Ahead(calls'[t]) /\ StepsLeft(t) = Ahead(calls[t])
    BY <2>3, ManagersAssumption DEF StepsLeft, Ahead
  <2>5. Ahead(calls'[t]) \in Int
    BY <2>2, AheadIs
  <2>6. CallStep(t) => StepsLeft(t)' < StepsLeft(t)
    BY <1>1, <2>2, <2>4, CallShrinks
  <2>7. calls[t].at # "idle" => StepsLeft(t)' <= StepsLeft(t)
    <3>1. CASE CallStep(t)
      BY <2>4, <2>5, <2>6, <3>1
    <3>2. CASE ~CallStep(t)
      BY <1>1, <2>4, <3>2, OthersLeaveCall
    <3>3. QED
      BY <3>1, <3>2
  <2>8. QED
    BY <2>3, <2>6, <2>7 DEF WindsDown
<1>2. ManagersInv /\ [Next]_vars => [\A t \in Threads : WindsDown(t)]_vars
  BY <1>1
<1>3. QED
  BY <1>2, ManagersInvHolds, PTL DEF Spec
=============================================================================
