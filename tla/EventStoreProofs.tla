-------------------------- MODULE EventStoreProofs --------------------------
(* Theorems about the event store.  Types are right for any number of       *)
(* writers; replay, checkpoints and the order of the log are right for one  *)
(* writer whose clock moves between two events, for any number of events,   *)
(* crashes and checkpoints.                                                 *)
EXTENDS EventStore, SequenceTheorems, TLAPS

(* The assumption under which the store keeps its promises. *)
Sequential == (\E w : Writers = {w}) /\ ClockSteps \subseteq Nat \ {0}

-----------------------------------------------------------------------------
(* The newest checkpoint is one of those that are saved, if there is one.   *)
HasNewest ==
  saved # {} => \E c \in saved : \A d \in saved : d.ts <= c.ts

(* Where replay starts: the newest checkpoint, or nothing. *)
LEMMA StartType ==
  ASSUME TypeOK, HasNewest
  PROVE  /\ Start \in Checkpoints
         /\ saved # {} => Start \in saved
         /\ saved = {} => Start = [ts |-> 0, state |-> [e \in Events |-> 0]]
BY ConstantsAssumption DEF TypeOK, HasNewest, Start, Newest, Checkpoints, States

(* Replay ends in a state. *)
LEMMA ReplayedType ==
  ASSUME TypeOK, HasNewest
  PROVE  Replayed \in States
BY StartType DEF Replayed, Checkpoints, States

(* Every step keeps that saved checkpoints have a newest one. *)
LEMMA NewestStep == TypeOK /\ HasNewest /\ [Next]_vars => HasNewest'
<1> SUFFICES ASSUME TypeOK, HasNewest, [Next]_vars PROVE HasNewest'
  OBVIOUS
<1>1. ASSUME NEW w \in Writers, Checkpoint(w) PROVE HasNewest'
  <2> DEFINE n == [ts |-> latest[w], state |-> applied]
  <2>1. saved' = {c \in saved : c.ts # n.ts} \cup {n} /\ n.ts \in Nat
        /\ \A c \in saved : c.ts \in Nat
    BY <1>1 DEF Checkpoint, Save, TypeOK, Checkpoints
  <2>2. CASE \A d \in saved : d.ts <= n.ts
    <3>1. n \in saved' /\ \A d \in saved' : d.ts <= n.ts
      BY <2>1, <2>2
    <3>2. QED
      BY <3>1 DEF HasNewest
  <2>3. CASE ~\A d \in saved : d.ts <= n.ts
    <3>1. PICK c \in saved : \A d \in saved : d.ts <= c.ts
      BY <2>3 DEF HasNewest
    <3>2. c.ts > n.ts
      BY <2>1, <2>3, <3>1
    <3>3. c \in saved' /\ \A d \in saved' : d.ts <= c.ts
      BY <2>1, <3>1, <3>2
    <3>4. QED
      BY <3>3 DEF HasNewest
  <2>4. QED
    BY <2>2, <2>3
<1>2. CASE saved' = saved
  BY <1>2 DEF HasNewest
<1>3. QED
  BY <1>1, <1>2 DEF Next, Build, BeginPublish, Store, Notify, Crash, vars, tables

(* Each step keeps the types. *)
LEMMA TypeStep == TypeOK /\ HasNewest /\ [Next]_vars => TypeOK'
<1> SUFFICES ASSUME TypeOK, HasNewest, [Next]_vars PROVE TypeOK'
  OBVIOUS
<1> USE ConstantsAssumption
<1>1. ASSUME NEW w \in Writers, NEW e \in Events, Build(w, e) PROVE TypeOK'
  <2>1. clock' \in Nat /\ stamp' \in [Events -> Nat]
        /\ queue' \in [Writers -> Seq(Events)]
    BY <1>1 DEF Build, TypeOK
  <2>2. \A v \in Writers : stage[v] # "building" => queue'[v] # <<>>
    BY <1>1 DEF Build, TypeOK
  <2>3. QED
    BY <1>1, <2>1, <2>2 DEF Build, TypeOK, tables
<1>2. ASSUME NEW w \in Writers, BeginPublish(w) PROVE TypeOK'
  BY <1>2 DEF BeginPublish, TypeOK, tables
<1>3. ASSUME NEW w \in Writers, Store(w) PROVE TypeOK'
  BY <1>3 DEF Store, TypeOK
<1>4. ASSUME NEW w \in Writers, Notify(w) PROVE TypeOK'
  <2>1. queue[w] \in Seq(Events) /\ queue[w] # <<>>
    BY <1>4 DEF Notify, TypeOK
  <2>2. /\ Head(queue[w]) \in Events
        /\ Tail(queue[w]) \in Seq(Events)
        /\ Len(Tail(queue[w])) = Len(queue[w]) - 1
        /\ Len(queue[w]) \in Nat \ {0}
    BY <2>1, HeadTailProperties, EmptySeq
  <2>3. ASSUME Len(queue[w]) # 1 PROVE Tail(queue[w]) # <<>>
    <3>1. Len(Tail(queue[w])) # Len(<<>>)
      BY <2>2, <2>3, EmptySeq
    <3>2. QED
      BY <3>1
  <2>4. queue' \in [Writers -> Seq(Events)] /\ latest' \in [Writers -> Nat]
        /\ applied' \in States
    BY <1>4, <2>2, SMTT(30) DEF Notify, TypeOK, States
  <2>5. \A v \in Writers : stage'[v] # "building" => queue'[v] # <<>>
    BY <1>4, <2>3 DEF Notify, TypeOK
  <2>6. stage' \in [Writers -> {"building", "publishing", "notifying"}]
    BY <1>4 DEF Notify, TypeOK
  <2>7. QED
    BY <1>4, <2>4, <2>5, <2>6 DEF Notify, TypeOK, tables
<1>5. ASSUME NEW w \in Writers, Checkpoint(w) PROVE TypeOK'
  BY <1>5 DEF Checkpoint, Save, TypeOK, Checkpoints
<1>6. CASE Crash
  BY <1>6, ReplayedType DEF Crash, TypeOK, tables
<1>7. CASE UNCHANGED vars
  BY <1>7 DEF vars, tables, TypeOK
<1>8. QED
  BY <1>1, <1>2, <1>3, <1>4, <1>5, <1>6, <1>7 DEF Next

(* Type correctness, for any number of writers and any clock. *)
THEOREM EventStoreTypeCorrect == Spec => []TypeOK
<1>1. Init => TypeOK /\ HasNewest
  BY ConstantsAssumption DEF Init, TypeOK, HasNewest, States
<1>2. QED
  BY <1>1, TypeStep, NewestStep, PTL DEF Spec
-----------------------------------------------------------------------------
(* The event at place i of a queue: built, not stored unless it is the head *)
(* and being delivered, and younger than all the store has seen.            *)
Pending(w, i, e) ==
  /\ stamp[e] > latest[w]
  /\ \A c \in saved : c.ts < stamp[e]
  /\ \A f \in Events : Stored(f) /\ f # e => stamp[f] < stamp[e]
  /\ Stored(e) <=> (i = 1 /\ stage[w] = "notifying")

QueueInv(w) == \A i \in 1 .. Len(queue[w]) : Pending(w, i, queue[w][i])

(* The queue is in the order of the stamps. *)
QueueOrder(w) ==
  \A i, j \in 1 .. Len(queue[w]) : i < j => stamp[queue[w][i]] < stamp[queue[w][j]]

(* Stamps come from the clock, row numbers from the counter. *)
StampInv(w) ==
  /\ \A e \in Events : /\ stamp[e] <= clock /\ row[e] <= rows
                       /\ Stored(e) => stamp[e] > 0
  /\ \A c \in saved : c.ts <= clock
  /\ latest[w] <= clock

(* The live state has what the log has, up to the event being delivered;    *)
(* nothing in it is younger than the last event published.                  *)
LiveInv(w) ==
  \A e \in Events :
    /\ applied[e] = IF Stored(e) /\ ~Delivering(e) THEN 1 ELSE 0
    /\ latest[w] # 0 /\ Stored(e) => stamp[e] <= latest[w] \/ Delivering(e)

LogInv(w) ==
  /\ TypeOK /\ HasNewest
  /\ StampInv(w) /\ QueueInv(w) /\ QueueOrder(w) /\ LiveInv(w)
  /\ CheckpointsAreTrue /\ LogIsChronological

(* Replay gives what the log has, wherever it starts from. *)
LEMMA ReplayIsTheLog ==
  ASSUME TypeOK, HasNewest, CheckpointsAreTrue, NEW e \in Events,
         Stored(e) => stamp[e] > 0
  PROVE  Replayed[e] = IF Stored(e) THEN 1 ELSE 0
<1>1. Replayed[e] = Start.state[e] + (IF Stored(e) /\ stamp[e] > Start.ts THEN 1 ELSE 0)
  BY DEF Replayed, After
<1>2. stamp[e] \in Nat /\ Start.ts \in Nat
  BY StartType DEF TypeOK, Checkpoints
<1>3. CASE saved = {}
  BY <1>1, <1>2, <1>3, StartType
<1>4. CASE saved # {}
  <2>1. Start.state[e] = IF Stored(e) /\ stamp[e] <= Start.ts THEN 1 ELSE 0
    BY <1>4, StartType DEF CheckpointsAreTrue
  <2>2. QED
    BY <1>1, <1>2, <2>1
<1>5. QED
  BY <1>3, <1>4

ReplayedIsLog == \A e \in Events : Replayed[e] = IF Stored(e) THEN 1 ELSE 0

(* The head of a queue in use, and what remains behind it. *)
LEMMA HeadAndTail ==
  ASSUME TypeOK, NEW w \in Writers, stage[w] # "building"
  PROVE  /\ Head(queue[w]) = queue[w][1]
         /\ queue[w][1] \in Events
         /\ 1 \in 1 .. Len(queue[w])
         /\ Len(queue[w]) \in Nat \ {0}
         /\ Len(Tail(queue[w])) = Len(queue[w]) - 1
         /\ \A i \in 1 .. Len(Tail(queue[w])) : Tail(queue[w])[i] = queue[w][i + 1]
<1>1. queue[w] \in Seq(Events) /\ queue[w] # <<>>
  BY DEF TypeOK
<1>2. Len(queue[w]) \in Nat \ {0}
  BY <1>1, EmptySeq
<1>3. Head(queue[w]) = queue[w][1]
  BY <1>1
<1>4. QED
  BY <1>1, <1>2, <1>3, HeadTailProperties

(* With one writer, only its head is being delivered. *)
LEMMA OneDelivery ==
  ASSUME TypeOK, NEW w, Writers = {w}, NEW e \in Events
  PROVE  Delivering(e) <=> (stage[w] = "notifying" /\ e = queue[w][1])
BY HeadAndTail DEF Delivering

-----------------------------------------------------------------------------
(* Building an event: its stamp is the new time, later than all others.     *)
LEMMA BuildStep ==
  ASSUME Sequential, NEW w, Writers = {w}, LogInv(w), TypeOK', NEW e \in Events,
         Build(w, e)
  PROVE  /\ StampInv(w)' /\ QueueInv(w)' /\ QueueOrder(w)' /\ LiveInv(w)'
         /\ CheckpointsAreTrue' /\ LogIsChronological'
<1> DEFINE q == queue[w]
           p == queue'[w]
<1>1. /\ TypeOK /\ StampInv(w) /\ QueueInv(w) /\ QueueOrder(w) /\ LiveInv(w)
      /\ CheckpointsAreTrue /\ LogIsChronological
  BY DEF LogInv
<1>2. /\ clock \in Nat /\ clock' \in Nat /\ clock' > clock
      /\ stamp' = [stamp EXCEPT ![e] = clock']
      /\ stage[w] = "building"
      /\ UNCHANGED <<row, rows, saved, stage, latest, applied>>
  BY <1>1 DEF Build, Sequential, TypeOK, tables
<1>3. /\ stamp'[e] = clock' /\ stamp[e] = 0
      /\ \A f \in Events : /\ stamp[f] \in Nat /\ stamp'[f] \in Nat
                           /\ f # e => stamp'[f] = stamp[f]
  BY <1>1, <1>2, ConstantsAssumption DEF Build, TypeOK
<1>4. row[e] = 0
  BY <1>1, <1>3 DEF StampInv, Stored
<1>5. \A f \in Events : ~Delivering(f) /\ ~Delivering(f)'
  BY <1>1, <1>2 DEF Delivering
<1>6. StampInv(w)'
  BY <1>1, <1>2, <1>3, <1>4 DEF StampInv, Stored, TypeOK, Checkpoints
<1>7. /\ Len(q) \in Nat /\ Len(p) = Len(q) + 1
      /\ \A i \in 1 .. Len(q) : p[i] = q[i] /\ q[i] \in Events
      /\ p[Len(q) + 1] = e
  <2>1. q \in Seq(Events) /\ p = Append(q, e)
    BY <1>1 DEF Build, TypeOK
  <2>2. QED
    BY <2>1
<1>8. \A i \in 1 .. Len(q) : q[i] # e /\ stamp[q[i]] <= clock
  <2> SUFFICES ASSUME NEW i \in 1 .. Len(q), NEW f \in Events, f = q[i]
               PROVE  f # e /\ stamp[f] <= clock
    BY <1>7
  <2>1. stamp[f] > latest[w] /\ latest[w] \in Nat
    BY <1>1 DEF QueueInv, Pending, TypeOK
  <2>2. QED
    BY <1>1, <1>3, <2>1 DEF StampInv
<1>9. QueueOrder(w)'
  <2> SUFFICES ASSUME NEW i \in 1 .. Len(p), NEW j \in 1 .. Len(p), i < j
               PROVE  stamp'[p[i]] < stamp'[p[j]]
    BY DEF QueueOrder
  <2>1. i \in 1 .. Len(q) /\ stamp'[p[i]] = stamp[q[i]] /\ stamp[q[i]] \in Nat
    BY <1>3, <1>7, <1>8
  <2>2. CASE j \in 1 .. Len(q)
    BY <1>1, <1>3, <1>7, <1>8, <2>1, <2>2 DEF QueueOrder
  <2>3. CASE j = Len(q) + 1
    BY <1>2, <1>3, <1>7, <1>8, <2>1, <2>3
  <2>4. QED
    BY <1>7, <2>2, <2>3
<1>10. QueueInv(w)'
  <2> SUFFICES ASSUME NEW i \in 1 .. Len(p), NEW f \in Events, f = p[i]
               PROVE  Pending(w, i, f)'
    <3>1. \A i \in 1 .. Len(p) : p[i] \in Events
      BY <1>7
    <3>2. QED
      BY <3>1 DEF QueueInv, Pending
  <2>1. CASE i \in 1 .. Len(q)
    <3>1. Pending(w, i, f) /\ f # e
      BY <1>1, <1>7, <1>8, <2>1 DEF QueueInv
    <3>2. QED
      BY <1>2, <1>3, <1>4, <3>1 DEF Pending, Stored
  <2>2. CASE i = Len(q) + 1
    <3>1. f = e
      BY <1>7, <2>2
    <3>2. latest[w] <= clock /\ latest[w] \in Nat /\ \A c \in saved : c.ts <= clock /\ c.ts \in Nat
      BY <1>1 DEF StampInv, TypeOK, Checkpoints
    <3>3. \A g \in Events : stamp[g] <= clock
      BY <1>1 DEF StampInv
    <3>4. QED
      BY <1>2, <1>3, <1>4, <3>1, <3>2, <3>3 DEF Pending, Stored
  <2>3. QED
    BY <1>7, <2>1, <2>2
<1>11. LiveInv(w)'
  BY <1>1, <1>2, <1>3, <1>4, <1>5 DEF LiveInv, Stored
<1>12. CheckpointsAreTrue'
  BY <1>1, <1>2, <1>3, <1>4 DEF CheckpointsAreTrue, Stored
<1>13. LogIsChronological'
  BY <1>1, <1>2, <1>3, <1>4 DEF LogIsChronological, Stored
<1>14. QED
  BY <1>6, <1>9, <1>10, <1>11, <1>12, <1>13

(* Storing the head: it is younger than the log, and no checkpoint reaches  *)
(* it.                                                                      *)
LEMMA StoreStep ==
  ASSUME NEW w, Writers = {w}, LogInv(w), TypeOK', Store(w)
  PROVE  /\ StampInv(w)' /\ QueueInv(w)' /\ QueueOrder(w)' /\ LiveInv(w)'
         /\ CheckpointsAreTrue' /\ LogIsChronological'
<1> DEFINE q == queue[w]
           e == q[1]
<1>1. /\ TypeOK /\ StampInv(w) /\ QueueInv(w) /\ QueueOrder(w) /\ LiveInv(w)
      /\ CheckpointsAreTrue /\ LogIsChronological
  BY DEF LogInv
<1>2. /\ e = Head(q) /\ e \in Events /\ 1 \in 1 .. Len(q)
      /\ stage[w] = "publishing"
      /\ UNCHANGED <<clock, stamp, saved, queue, latest, applied>>
      /\ stage' = [stage EXCEPT ![w] = "notifying"]
      /\ rows' = rows + 1
      /\ row' = [row EXCEPT ![e] = rows + 1]
  BY <1>1, HeadAndTail DEF Store
<1>3. /\ rows \in Nat /\ row'[e] = rows + 1
      /\ \A f \in Events : row[f] \in Nat /\ (f # e => row'[f] = row[f])
  BY <1>1, <1>2 DEF TypeOK
<1>4. Pending(w, 1, e)
  BY <1>1, <1>2 DEF QueueInv
<1>5. /\ \A f \in Events : ~Delivering(f) /\ (Delivering(f)' <=> f = e)
      /\ stage'[w] = "notifying"
  BY <1>1, <1>2, HeadAndTail DEF Delivering, TypeOK
<1>6. \A f \in Events : stamp[f] \in Nat /\ row[f] <= rows
  BY <1>1 DEF TypeOK, StampInv
<1>7. row[e] = 0 /\ stamp[e] > latest[w] /\ latest[w] \in Nat
  BY <1>1, <1>2, <1>4 DEF Pending, Stored, TypeOK
<1>8. StampInv(w)'
  BY <1>1, <1>2, <1>3, <1>6, <1>7 DEF StampInv, Stored
<1>9. QueueOrder(w)'
  BY <1>1, <1>2 DEF QueueOrder
<1>10. QueueInv(w)'
  <2> SUFFICES ASSUME NEW i \in 1 .. Len(q), NEW f \in Events, f = q[i]
               PROVE  Pending(w, i, f)'
    <3>1. \A i \in 1 .. Len(q) : q[i] \in Events
      BY <1>1 DEF TypeOK
    <3>2. QED
      BY <1>2, <3>1 DEF QueueInv, Pending
  <2>1. Pending(w, i, f)
    BY <1>1 DEF QueueInv
  <2>2. i # 1 => stamp[e] < stamp[f]
    BY <1>1, <1>2 DEF QueueOrder, TypeOK
  <2>3. i # 1 => f # e
    BY <1>6, <2>2
  <2>4. Stored(f)' <=> i = 1
    BY <1>2, <1>3, <2>1, <2>3 DEF Pending, Stored
  <2>5. \A g \in Events : Stored(g)' /\ g # f => stamp[g] < stamp[f]
    BY <1>2, <1>3, <2>1, <2>2 DEF Pending, Stored
  <2>6. QED
    BY <1>2, <1>5, <2>1, <2>4, <2>5 DEF Pending
<1>11. LiveInv(w)'
  BY <1>1, <1>2, <1>3, <1>5, <1>7 DEF LiveInv, Stored
<1>12. CheckpointsAreTrue'
  <2> SUFFICES ASSUME NEW c \in saved, NEW f \in Events
               PROVE  c.state[f] = IF row'[f] # 0 /\ stamp[f] <= c.ts THEN 1 ELSE 0
    BY <1>2 DEF CheckpointsAreTrue, Stored
  <2>1. c.state[f] = IF row[f] # 0 /\ stamp[f] <= c.ts THEN 1 ELSE 0
    BY <1>1 DEF CheckpointsAreTrue, Stored
  <2>2. c.ts < stamp[e] /\ c.ts \in Nat
    BY <1>1, <1>4 DEF Pending, TypeOK, Checkpoints
  <2>3. QED
    BY <1>3, <1>6, <1>7, <2>1, <2>2
<1>13. LogIsChronological'
  <2> SUFFICES ASSUME NEW f \in Events, NEW g \in Events,
                      row'[f] # 0, row'[g] # 0, row'[f] < row'[g]
               PROVE  stamp[f] <= stamp[g]
    BY <1>2 DEF LogIsChronological, Stored
  <2>1. f # e
    BY <1>3, <1>6
  <2>2. CASE g = e
    BY <1>3, <1>4, <1>6, <2>1, <2>2 DEF Pending, Stored
  <2>3. CASE g # e
    BY <1>1, <1>3, <2>1, <2>3 DEF LogIsChronological, Stored
  <2>4. QED
    BY <2>2, <2>3
<1>14. QED
  BY <1>8, <1>9, <1>10, <1>11, <1>12, <1>13

(* Applying the head: the live state catches up with the log. *)
LEMMA NotifyStep ==
  ASSUME NEW w, Writers = {w}, LogInv(w), TypeOK', Notify(w)
  PROVE  /\ StampInv(w)' /\ QueueInv(w)' /\ QueueOrder(w)' /\ LiveInv(w)'
         /\ CheckpointsAreTrue' /\ LogIsChronological'
<1> DEFINE q == queue[w]
           e == q[1]
           p == queue'[w]
<1>1. /\ TypeOK /\ StampInv(w) /\ QueueInv(w) /\ QueueOrder(w) /\ LiveInv(w)
      /\ CheckpointsAreTrue /\ LogIsChronological
  BY DEF LogInv
<1>2. /\ e = Head(q) /\ e \in Events /\ 1 \in 1 .. Len(q)
      /\ stage[w] = "notifying"
      /\ UNCHANGED <<clock, stamp, row, rows, saved>>
      /\ applied' = [applied EXCEPT ![e] = @ + 1]
      /\ latest' = [latest EXCEPT ![w] = stamp[e]]
      /\ stage'[w] # "notifying"
  BY <1>1, HeadAndTail DEF Notify, tables, TypeOK
<1>3. /\ Len(q) \in Nat /\ Len(p) = Len(q) - 1
      /\ \A i \in 1 .. Len(p) : p[i] = q[i + 1]
      /\ \A i \in 1 .. Len(q) : q[i] \in Events
  BY <1>1, <1>2, HeadAndTail DEF Notify, TypeOK
<1>4. Pending(w, 1, e) /\ Stored(e)
  BY <1>1, <1>2 DEF QueueInv, Pending
<1>5. \A f \in Events : (Delivering(f) <=> f = e) /\ ~Delivering(f)'
  BY <1>1, <1>2, OneDelivery DEF Delivering
<1>6. /\ \A f \in Events : stamp[f] \in Nat
      /\ latest[w] \in Nat /\ latest'[w] = stamp[e]
  BY <1>1, <1>2 DEF TypeOK
<1>7. StampInv(w)'
  BY <1>1, <1>2, <1>6 DEF StampInv, Stored
<1>8. QueueOrder(w)'
  <2> SUFFICES ASSUME NEW i \in 1 .. Len(p), NEW j \in 1 .. Len(p), i < j
               PROVE  stamp[p[i]] < stamp[p[j]]
    BY <1>2 DEF QueueOrder
  <2>1. i + 1 \in 1 .. Len(q) /\ j + 1 \in 1 .. Len(q) /\ i + 1 < j + 1
    BY <1>3
  <2>2. QED
    BY <1>1, <1>3, <2>1 DEF QueueOrder
<1>9. QueueInv(w)'
  <2> SUFFICES ASSUME NEW i \in 1 .. Len(p), NEW f \in Events, f = p[i]
               PROVE  Pending(w, i, f)'
    <3>1. \A i \in 1 .. Len(p) : p[i] \in Events
      BY <1>3
    <3>2. QED
      BY <3>1 DEF QueueInv, Pending
  <2>1. i + 1 \in 1 .. Len(q) /\ i + 1 # 1 /\ f = q[i + 1]
    BY <1>3
  <2>2. Pending(w, i + 1, f)
    BY <1>1, <2>1 DEF QueueInv
  <2>3. stamp[e] < stamp[f]
    BY <1>1, <1>2, <1>3, <2>1 DEF QueueOrder
  <2>4. QED
    BY <1>2, <1>6, <2>1, <2>2, <2>3 DEF Pending, Stored
<1>10. LiveInv(w)'
  <2> SUFFICES ASSUME NEW f \in Events
               PROVE  /\ applied'[f] = IF Stored(f) THEN 1 ELSE 0
                      /\ Stored(f) => stamp[f] <= stamp[e]
    BY <1>2, <1>5, <1>6 DEF LiveInv, Stored
  <2>1. applied[f] = IF Stored(f) /\ f # e THEN 1 ELSE 0
    BY <1>1, <1>5 DEF LiveInv
  <2>2. applied'[f] = IF f = e THEN applied[f] + 1 ELSE applied[f]
    BY <1>1, <1>2 DEF TypeOK, States
  <2>3. applied'[f] = IF Stored(f) THEN 1 ELSE 0
    <3>1. CASE f = e
      BY <1>4, <2>1, <2>2, <3>1
    <3>2. CASE f # e
      BY <2>1, <2>2, <3>2
    <3>3. QED
      BY <3>1, <3>2
  <2>4. Stored(f) => stamp[f] <= stamp[e]
    BY <1>2, <1>4, <1>6 DEF Pending
  <2>5. QED
    BY <2>3, <2>4
<1>11. CheckpointsAreTrue' /\ LogIsChronological'
  BY <1>1, <1>2 DEF CheckpointsAreTrue, LogIsChronological, Stored
<1>12. QED
  BY <1>7, <1>8, <1>9, <1>10, <1>11

(* A checkpoint of the live state, dated by the last event in it. *)
LEMMA CheckpointStep ==
  ASSUME NEW w, Writers = {w}, LogInv(w), TypeOK', Checkpoint(w)
  PROVE  /\ StampInv(w)' /\ QueueInv(w)' /\ QueueOrder(w)' /\ LiveInv(w)'
         /\ CheckpointsAreTrue' /\ LogIsChronological'
<1> DEFINE n == [ts |-> latest[w], state |-> applied]
<1>1. /\ TypeOK /\ StampInv(w) /\ QueueInv(w) /\ QueueOrder(w) /\ LiveInv(w)
      /\ CheckpointsAreTrue /\ LogIsChronological
  BY DEF LogInv
<1>2. /\ stage[w] # "notifying" /\ latest[w] # 0 /\ latest[w] \in Nat
      /\ saved' = {c \in saved : c.ts # n.ts} \cup {n}
      /\ UNCHANGED <<clock, stamp, row, rows, queue, stage, latest, applied>>
  BY <1>1, ConstantsAssumption DEF Checkpoint, Save, TypeOK
<1>3. \A f \in Events : ~Delivering(f) /\ ~Delivering(f)'
  BY <1>2 DEF Delivering
<1>4. StampInv(w)'
  BY <1>1, <1>2 DEF StampInv, Stored
<1>5. QueueOrder(w)'
  BY <1>1, <1>2 DEF QueueOrder
<1>6. QueueInv(w)'
  BY <1>1, <1>2 DEF QueueInv, Pending, Stored
<1>7. LiveInv(w)'
  BY <1>1, <1>2, <1>3 DEF LiveInv, Stored
<1>8. CheckpointsAreTrue'
  <2>1. \A f \in Events : n.state[f] = IF Stored(f) /\ stamp[f] <= n.ts THEN 1 ELSE 0
    BY <1>1, <1>2, <1>3 DEF LiveInv
  <2>2. QED
    BY <1>1, <1>2, <2>1 DEF CheckpointsAreTrue, Stored
<1>9. LogIsChronological'
  BY <1>1, <1>2 DEF LogIsChronological, Stored
<1>10. QED
  BY <1>4, <1>5, <1>6, <1>7, <1>8, <1>9

(* After a crash the live state is what replay gives: the log. *)
LEMMA CrashStep ==
  ASSUME NEW w, Writers = {w}, LogInv(w), TypeOK', Crash
  PROVE  /\ StampInv(w)' /\ QueueInv(w)' /\ QueueOrder(w)' /\ LiveInv(w)'
         /\ CheckpointsAreTrue' /\ LogIsChronological'
<1>1. /\ TypeOK /\ HasNewest /\ StampInv(w)
      /\ CheckpointsAreTrue /\ LogIsChronological
  BY DEF LogInv
<1>2. /\ queue'[w] = <<>> /\ Len(queue'[w]) = 0
      /\ stage'[w] = "building" /\ latest'[w] = 0
      /\ applied' = Replayed
      /\ UNCHANGED <<clock, stamp, row, rows, saved>>
  BY EmptySeq, ConstantsAssumption DEF Crash, tables
<1>3. \A f \in Events : ~Delivering(f)'
  BY <1>2 DEF Delivering
<1>4. StampInv(w)'
  BY <1>1, <1>2 DEF StampInv, Stored, TypeOK
<1>5. QueueInv(w)' /\ QueueOrder(w)'
  BY <1>2 DEF QueueInv, QueueOrder
<1>6. LiveInv(w)'
  <2>1. \A f \in Events : Replayed[f] = IF Stored(f) THEN 1 ELSE 0
    BY <1>1, ReplayIsTheLog DEF StampInv
  <2>2. QED
    BY <1>2, <1>3, <2>1 DEF LiveInv, Stored
<1>7. CheckpointsAreTrue' /\ LogIsChronological'
  BY <1>1, <1>2 DEF CheckpointsAreTrue, LogIsChronological, Stored
<1>8. QED
  BY <1>4, <1>5, <1>6, <1>7

(* The steps that leave the log, the live state and the order alone. *)
LEMMA IdleStep ==
  ASSUME NEW w, Writers = {w}, LogInv(w), BeginPublish(w) \/ UNCHANGED vars
  PROVE  /\ StampInv(w)' /\ QueueInv(w)' /\ QueueOrder(w)' /\ LiveInv(w)'
         /\ CheckpointsAreTrue' /\ LogIsChronological'
<1>1. /\ TypeOK /\ StampInv(w) /\ QueueInv(w) /\ QueueOrder(w) /\ LiveInv(w)
      /\ CheckpointsAreTrue /\ LogIsChronological
  BY DEF LogInv
<1>2. /\ UNCHANGED <<clock, stamp, row, rows, saved, queue, latest, applied>>
      /\ stage'[w] = "notifying" <=> stage[w] = "notifying"
  BY <1>1 DEF BeginPublish, vars, tables, TypeOK
<1>3. \A f \in Events : Delivering(f)' <=> Delivering(f)
  BY <1>2 DEF Delivering
<1>4. StampInv(w)' /\ QueueOrder(w)'
  BY <1>1, <1>2 DEF StampInv, QueueOrder, Stored
<1>5. QueueInv(w)'
  BY <1>1, <1>2 DEF QueueInv, Pending, Stored
<1>6. LiveInv(w)'
  BY <1>1, <1>2, <1>3 DEF LiveInv, Stored
<1>7. CheckpointsAreTrue' /\ LogIsChronological'
  BY <1>1, <1>2 DEF CheckpointsAreTrue, LogIsChronological, Stored
<1>8. QED
  BY <1>4, <1>5, <1>6, <1>7

(* Every step of the one writer keeps the invariant. *)
LEMMA LogStep ==
  ASSUME Sequential, NEW w, Writers = {w}
  PROVE  LogInv(w) /\ [Next]_vars => LogInv(w)'
<1> SUFFICES ASSUME LogInv(w), [Next]_vars PROVE LogInv(w)'
  OBVIOUS
<1>1. TypeOK' /\ HasNewest'
  BY TypeStep, NewestStep DEF LogInv
<1>2. /\ StampInv(w)' /\ QueueInv(w)' /\ QueueOrder(w)' /\ LiveInv(w)'
      /\ CheckpointsAreTrue' /\ LogIsChronological'
  BY <1>1, BuildStep, StoreStep, NotifyStep, CheckpointStep, CrashStep, IdleStep
  DEF Next
<1>3. QED
  BY <1>1, <1>2 DEF LogInv

(* The inductive invariant of the sequential store holds: with one writer   *)
(* and a clock that moves between two events, stamps grow in the order of   *)
(* append, and the live state is the log without the event in delivery.     *)
THEOREM LogInvHolds ==
  ASSUME Sequential, NEW w, Writers = {w}
  PROVE  Spec => []LogInv(w)
<1>1. Init => LogInv(w)
  <2> SUFFICES ASSUME Init PROVE LogInv(w)
    OBVIOUS
  <2>1. TypeOK /\ HasNewest
    BY ConstantsAssumption DEF Init, TypeOK, HasNewest, States
  <2>2. Len(queue[w]) = 0 /\ \A e \in Events : ~Stored(e) /\ ~Delivering(e)
    BY EmptySeq DEF Init, Stored, Delivering
  <2>3. StampInv(w) /\ LiveInv(w)
    BY <2>2, ConstantsAssumption DEF Init, StampInv, LiveInv
  <2>4. QueueInv(w) /\ QueueOrder(w)
    BY <2>2 DEF QueueInv, QueueOrder
  <2>5. CheckpointsAreTrue /\ LogIsChronological
    BY <2>2 DEF Init, CheckpointsAreTrue, LogIsChronological
  <2>6. QED
    BY <2>1, <2>3, <2>4, <2>5 DEF LogInv
<1>2. LogInv(w) /\ [Next]_vars => LogInv(w)'
  BY LogStep
<1>3. QED
  BY <1>1, <1>2, PTL DEF Spec

-----------------------------------------------------------------------------
(* The validation in the header of event_sourcing.py, for one writer: every *)
(* checkpoint is the replay from t=0 up to its time.                        *)
THEOREM CheckpointsTrue ==
  ASSUME Sequential PROVE Spec => []CheckpointsAreTrue
<1>1. PICK w : Writers = {w}
  BY DEF Sequential
<1>2. LogInv(w) => CheckpointsAreTrue
  BY DEF LogInv
<1>3. Spec => []LogInv(w)
  BY <1>1, LogInvHolds
<1>4. QED
  BY <1>2, <1>3, PTL

(* The order by timestamp is the order of publication. *)
THEOREM LogChronological ==
  ASSUME Sequential PROVE Spec => []LogIsChronological
<1>1. PICK w : Writers = {w}
  BY DEF Sequential
<1>2. LogInv(w) => LogIsChronological
  BY DEF LogInv
<1>3. Spec => []LogInv(w)
  BY <1>1, LogInvHolds
<1>4. QED
  BY <1>2, <1>3, PTL

(* Replay from the newest checkpoint is the live state, at every moment.    *)
THEOREM ReplayMatches ==
  ASSUME Sequential PROVE Spec => []ReplayMatchesLive
<1>1. PICK w : Writers = {w}
  BY DEF Sequential
<1>2. LogInv(w) => ReplayMatchesLive
  <2> SUFFICES ASSUME LogInv(w), NEW e \in Events
               PROVE  Replayed[e] = applied[e] + (IF Delivering(e) THEN 1 ELSE 0)
    BY DEF ReplayMatchesLive
  <2>1. Replayed[e] = IF Stored(e) THEN 1 ELSE 0
    BY ReplayIsTheLog DEF LogInv, StampInv
  <2>2. applied[e] = IF Stored(e) /\ ~Delivering(e) THEN 1 ELSE 0
    BY DEF LogInv, LiveInv
  <2>3. Delivering(e) => Stored(e)
    BY <1>1, OneDelivery, HeadAndTail DEF LogInv, QueueInv, Pending
  <2>4. QED
    BY <2>1, <2>2, <2>3
<1>3. Spec => []LogInv(w)
  BY <1>1, LogInvHolds
<1>4. QED
  BY <1>2, <1>3, PTL

(* What replay returns is the append-only log: only a publication changes   *)
(* it, by the one event published; checkpoints and crashes do not.          *)
THEOREM ReplayImplementsLog ==
  ASSUME Sequential PROVE Spec => ReplayIsAppendOnly
<1>1. PICK w : Writers = {w}
  BY DEF Sequential
<1>2. Init => Replayed = Log!NothingRecorded
  <2> SUFFICES ASSUME Init, NEW e \in Events PROVE Replayed[e] = 0
    BY DEF Replayed, Log!NothingRecorded
  <2>1. ~After(e, Start.ts) /\ Start.state[e] = 0
    BY DEF Init, After, Stored, Start
  <2>2. QED
    BY <2>1 DEF Replayed
<1>3. LogInv(w) /\ ReplayedIsLog /\ ReplayedIsLog' /\ [Next]_vars => [Log!Next]_Replayed
  <2> SUFFICES ASSUME LogInv(w), ReplayedIsLog, ReplayedIsLog', [Next]_vars
               PROVE  Replayed' = Replayed \/ \E e \in Events : Log!Record(e)
    BY DEF Log!Next
  <2>1. /\ \A e \in Events : Replayed[e] = IF Stored(e) THEN 1 ELSE 0
        /\ \A e \in Events : Replayed'[e] = IF Stored(e)' THEN 1 ELSE 0
    BY DEF ReplayedIsLog
  <2>2. Replayed = [e \in Events |-> Replayed[e]] /\ Replayed' = [e \in Events |-> Replayed'[e]]
    BY DEF Replayed
  <2>3. ASSUME Store(w) PROVE \E e \in Events : Log!Record(e)
    <3> DEFINE e == Head(queue[w])
    <3>1. e \in Events /\ ~Stored(e)
      BY <1>1, <2>3, HeadAndTail DEF LogInv, QueueInv, Pending, Store
    <3>2. row' = [row EXCEPT ![e] = rows + 1] /\ rows \in Nat
      BY <2>3 DEF Store, LogInv, TypeOK
    <3>3. row'[e] # 0 /\ \A f \in Events : f # e => row'[f] = row[f]
      BY <3>1, <3>2 DEF LogInv, TypeOK
    <3>4. /\ Replayed[e] = 0 /\ Replayed'[e] = 1
          /\ \A f \in Events : f # e => Replayed'[f] = Replayed[f]
      BY <2>1, <3>1, <3>3 DEF Stored
    <3>5. Replayed' = [Replayed EXCEPT ![e] = 1]
      BY <2>2, <3>1, <3>4
    <3>6. QED
      BY <3>1, <3>4, <3>5 DEF Log!Record
  <2>4. CASE row' = row
    BY <2>1, <2>2, <2>4 DEF Stored
  <2>5. QED
    BY <1>1, <2>3, <2>4
    DEF Next, Build, BeginPublish, Notify, Checkpoint, Crash, vars, tables
<1>4. Spec => []LogInv(w)
  BY <1>1, LogInvHolds
<1>5. LogInv(w) => ReplayedIsLog
  BY ReplayIsTheLog DEF LogInv, StampInv, ReplayedIsLog
<1>6. QED
  BY <1>2, <1>3, <1>4, <1>5, PTL DEF Spec, ReplayIsAppendOnly, Log!Spec
=============================================================================
