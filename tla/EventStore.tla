----------------------------- MODULE EventStore -----------------------------
(***************************************************************************)
(* The event store and the event bus of common/event_sourcing.py: writers  *)
(* build events, publish them through the bus into an SQLite table and to  *)
(* the subscriber that keeps the live state, save checkpoints of that      *)
(* state, and rebuild it by replay after the process died.                 *)
(*                                                                         *)
(* An event is stamped when it is built and stored when it is published;   *)
(* replay selects by stamp.  Everything the store promises hangs on the    *)
(* two orders agreeing.                                                    *)
(*                                                                         *)
(* A state is the number of times each event was applied to it: whatever   *)
(* apply_fn computes, it cannot be right if an event is missing or counted *)
(* twice.  That events are applied in the right order is said of the log.  *)
(*                                                                         *)
(* Left out: _event_cache and _event_queue, which are filled and never     *)
(* read by the store or the bus, the event hashes, which are written and   *)
(* never compared, and the limit of a million rows in replay.              *)
(***************************************************************************)
EXTENDS Naturals, Sequences, FiniteSets

CONSTANTS
  Writers,     \* threads that share the store, the bus and the live state
  Events,      \* the events that can be built
  ClockSteps,  \* how far the clock may move between two events
  NoTime,      \* the timestamp of nothing
  MaxBatch     \* bound: longest list given to publish_batch

ASSUME ConstantsAssumption ==
  /\ ClockSteps \subseteq Nat
  /\ MaxBatch \in Nat
  /\ NoTime = 0

VARIABLES
  clock,    \* the wall clock, in its own resolution
  stamp,    \* event.timestamp; NoTime before the event is built
  row,      \* the rowid of the event in the table events; 0 when it is not there
  rows,     \* how many rows the table has
  saved,    \* the table checkpoints
  queue,    \* the events each writer has built and not yet published
  stage,    \* where the writer is inside publish
  latest,   \* the timestamp of the event the writer published last
  applied,  \* the live state, kept by a subscriber of every event type
  batch     \* history: the list the writer gave to publish_batch last

tables == <<row, rows, saved>>
vars == <<clock, stamp, tables, queue, stage, latest, applied, batch>>

States == [Events -> Nat]
Checkpoints == [ts : Nat, state : States]
Stored(e) == row[e] # 0

TypeOK ==
  /\ clock   \in Nat
  /\ stamp   \in [Events -> Nat]
  /\ row     \in [Events -> Nat]
  /\ rows    \in Nat
  /\ saved   \subseteq Checkpoints
  /\ queue   \in [Writers -> Seq(Events)]
  /\ stage   \in [Writers -> {"building", "publishing", "notifying"}]
  /\ latest  \in [Writers -> Nat]
  /\ applied \in States
  /\ batch   \in [Writers -> SUBSET Events]
  /\ \A w \in Writers : stage[w] # "building" => queue[w] # <<>>

Init ==
  /\ clock   = NoTime
  /\ stamp   = [e \in Events |-> NoTime]
  /\ row     = [e \in Events |-> 0]
  /\ rows    = 0
  /\ saved   = {}
  /\ queue   = [w \in Writers |-> <<>>]
  /\ stage   = [w \in Writers |-> "building"]
  /\ latest  = [w \in Writers |-> NoTime]
  /\ applied = [e \in Events |-> 0]
  /\ batch   = [w \in Writers |-> {}]

-----------------------------------------------------------------------------
(* Mutant: the event the checkpoint stands for is read once more. *)
AfterInclusive(e, ts) == Stored(e) /\ stamp[e] >= ts

(* get_events(after_ts): the rows with timestamp > after_ts. *)
After(e, ts) == Stored(e) /\ stamp[e] > ts

(* _load_checkpoint: ORDER BY timestamp DESC LIMIT 1. *)
Newest == CHOOSE c \in saved : \A d \in saved : d.ts <= c.ts

Start == IF saved = {} THEN [ts |-> NoTime, state |-> [e \in Events |-> 0]] ELSE Newest

(* replay: the newest checkpoint and every later event once. *)
Replayed ==
  [e \in Events |-> Start.state[e] + (IF After(e, Start.ts) THEN 1 ELSE 0)]

-----------------------------------------------------------------------------
(* Event(): the event is stamped when it is built, before it is published.  *)
Build(w, e) ==
  /\ stage[w] = "building"
  /\ Len(queue[w]) < MaxBatch
  /\ stamp[e] = NoTime
  /\ \E step \in ClockSteps : clock' = clock + step
  /\ stamp' = [stamp EXCEPT ![e] = clock']
  /\ queue' = [queue EXCEPT ![w] = Append(@, e)]
  /\ UNCHANGED <<tables, stage, latest, applied, batch>>

(* publish_batch: from here on the list is the bus's. *)
BeginPublish(w) ==
  /\ stage[w] = "building"
  /\ queue[w] # <<>>
  /\ stage' = [stage EXCEPT ![w] = "publishing"]
  /\ batch' = [batch EXCEPT ![w] = {queue[w][i] : i \in DOMAIN queue[w]}]
  /\ UNCHANGED <<clock, stamp, tables, queue, latest, applied>>

(* Mutant: the list is published from its end. *)
StoreFromTheEnd(w) ==
  LET q == queue[w]
      last == q[Len(q)] IN
  /\ stage[w] = "publishing"
  /\ rows'  = rows + 1
  /\ row'   = [row EXCEPT ![last] = rows + 1]
  /\ queue' = [queue EXCEPT ![w] = <<last>> \o SubSeq(q, 1, Len(q) - 1)]
  /\ stage' = [stage EXCEPT ![w] = "notifying"]
  /\ UNCHANGED <<clock, stamp, saved, latest, applied, batch>>

(* EventStore.append, called by publish: the row is committed. *)
Store(w) ==
  /\ stage[w] = "publishing"
  /\ rows'  = rows + 1
  /\ row'   = [row EXCEPT ![Head(queue[w])] = rows + 1]
  /\ stage' = [stage EXCEPT ![w] = "notifying"]
  /\ UNCHANGED <<clock, stamp, saved, queue, latest, applied, batch>>

(* Mutant: the loop of publish_batch runs once too often. *)
NotifyOnceTooOften(w) ==
  LET e == Head(queue[w]) IN
  /\ stage[w] = "notifying"
  /\ applied' = [applied EXCEPT ![e] = @ + 1]
  /\ queue'   = [queue EXCEPT ![w] = Tail(@)]
  /\ stage'   = [stage EXCEPT ![w] = "publishing"]
  /\ latest'  = [latest EXCEPT ![w] = stamp[e]]
  /\ UNCHANGED <<clock, stamp, tables, batch>>

(* The rest of publish: the subscriber applies the event to the live state. *)
Notify(w) ==
  LET e == Head(queue[w]) IN
  /\ stage[w] = "notifying"
  /\ applied' = [applied EXCEPT ![e] = @ + 1]
  /\ queue'   = [queue EXCEPT ![w] = Tail(@)]
  /\ stage'   = [stage EXCEPT ![w] = IF Len(queue[w]) = 1 THEN "building" ELSE "publishing"]
  /\ latest'  = [latest EXCEPT ![w] = stamp[e]]
  /\ UNCHANGED <<clock, stamp, tables, batch>>

(* INSERT OR REPLACE INTO checkpoints. *)
Save(ts, state) ==
  saved' = {c \in saved : c.ts # ts} \cup {[ts |-> ts, state |-> state]}

(* Mutants: the checkpoint is dated by the wall clock; it is taken when the *)
(* event is in the log but not in the live state.                           *)
CheckpointNow(w) ==
  /\ stage[w] # "notifying"
  /\ latest[w] # NoTime
  /\ Save(clock, applied)
  /\ UNCHANGED <<clock, stamp, row, rows, queue, stage, latest, applied, batch>>
CheckpointTooEarly(w) ==
  /\ stage[w] = "notifying"
  /\ Save(stamp[Head(queue[w])], applied)
  /\ UNCHANGED <<clock, stamp, row, rows, queue, stage, latest, applied, batch>>

(* checkpoint: the caller saves the live state under the timestamp of the   *)
(* event it published last, as the tests of the store do.                   *)
Checkpoint(w) ==
  /\ stage[w] # "notifying"
  /\ latest[w] # NoTime
  /\ Save(latest[w], applied)
  /\ UNCHANGED <<clock, stamp, row, rows, queue, stage, latest, applied, batch>>

(* The process dies, or a callback raises through publish and ends it; the  *)
(* next one starts from what replay gives.                                  *)
Crash ==
  /\ queue'   = [w \in Writers |-> <<>>]
  /\ stage'   = [w \in Writers |-> "building"]
  /\ latest'  = [w \in Writers |-> NoTime]
  /\ applied' = Replayed
  /\ UNCHANGED <<clock, stamp, tables, batch>>

Next ==
  \/ \E w \in Writers, e \in Events : Build(w, e)
  \/ \E w \in Writers : BeginPublish(w)
  \/ \E w \in Writers : Store(w)
  \/ \E w \in Writers : Notify(w)
  \/ \E w \in Writers : Checkpoint(w)
  \/ Crash

Spec == Init /\ [][Next]_vars

-----------------------------------------------------------------------------
(* The event a writer has stored and not yet shown to the subscriber. *)
Delivering(e) ==
  \E w \in Writers : stage[w] = "notifying" /\ Head(queue[w]) = e

(* Replay matches the live state at every moment, through checkpoints and   *)
(* crashes: it differs only by the event that is stored and about to be     *)
(* applied.                                                                 *)
ReplayMatchesLive ==
  \A e \in Events :
    Replayed[e] = applied[e] + (IF Delivering(e) THEN 1 ELSE 0)

(* The validation of the module's header: replaying the log from t=0 up to  *)
(* the time of a checkpoint gives the state the checkpoint has.             *)
CheckpointsAreTrue ==
  \A c \in saved, e \in Events :
    c.state[e] = IF Stored(e) /\ stamp[e] <= c.ts THEN 1 ELSE 0

(* The order of the log is the order of the timestamps, so that replay, who *)
(* sorts by timestamp, applies the events in the order the live state got   *)
(* them.                                                                    *)
LogIsChronological ==
  \A e, f \in Events :
    Stored(e) /\ Stored(f) /\ row[e] < row[f] => stamp[e] <= stamp[f]

(* Publish multiple events atomically: a list that is no longer being       *)
(* published is in the log entirely or not at all.                          *)
BatchesAreAtomic ==
  \A w \in Writers :
    stage[w] = "building" =>
      \/ \A e \in batch[w] : Stored(e)
      \/ \A e \in batch[w] : ~Stored(e)

(* What replay returns is an append-only log: checkpoints and crashes are   *)
(* invisible, each event counts once and for ever.                          *)
Log == INSTANCE AppendOnlyLog WITH view <- Replayed
ReplayIsAppendOnly == Log!Spec
=============================================================================
