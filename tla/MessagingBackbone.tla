------------------------- MODULE MessagingBackbone -------------------------
(***************************************************************************)
(* ExactlyOnceMessagingBackbone of infrastructure/messaging_backbone.py,   *)
(* one topic of it: processes that publish messages under idempotency keys *)
(* they record in a shared SQLite file, and call the subscribers of their  *)
(* own process one after the other.                                        *)
(*                                                                         *)
(* Each process has a backbone of its own, its counters, queues and        *)
(* subscribers included; only the keys are shared, and only they survive a *)
(* crash.  publish looks a key up, records it and calls the subscribers in *)
(* steps of its own, and an error of the database is swallowed.            *)
(*                                                                         *)
(* The messages here carry a key and go to the backend "memory", as those  *)
(* of InstitutionalFlowStrategy do.                                        *)
(***************************************************************************)
EXTENDS Naturals, FiniteSets

CONSTANTS
  Processes,
  Keys,         \* idempotency keys
  NumSubs,      \* how many callbacks each process has subscribed
  MaxRetries,   \* self.max_retries
  MaxDeadLetters, \* deque(maxlen=10000): the dead letters that are kept
  Retention,    \* cleanup forgets keys that are older than this
  Never,        \* the age of a key that is not in the table
  NoKey,        \* a process that is not inside publish
  MaxAccepted,  \* bound: publish is called for a key accepted less often than this
  MaxTime       \* bound: the clock stops here

ASSUME ConstantsAssumption ==
  /\ IsFiniteSet(Processes) /\ Processes # {}
  /\ NumSubs \in Nat /\ MaxRetries \in Nat \ {0} /\ Retention \in Nat
  /\ MaxDeadLetters \in Nat
  /\ MaxAccepted \in Nat /\ MaxTime \in Nat
  /\ Never \notin Nat /\ NoKey \notin Keys

VARIABLES
  keys,       \* the table: when each key was recorded
  stage,      \* where the process is inside publish
  key,        \* the key it publishes under
  at,         \* the subscriber whose callback is next
  tries,      \* msg.retry_count
  seq,        \* self._seq_counters[topic]
  queued,     \* the length of self._queues[topic]
  dead,       \* the length of self._dlq
  now,        \* time.time()
  accepted,   \* history: how many messages were built under the key
  calls,      \* history: how often each subscriber place got the key
  failures,   \* history: callbacks that raised since the process started
  cleaned,    \* history: how often cleanup forgot the key
  swallowed,  \* history: database errors swallowed when publishing the key
  cut         \* history: crashes while the key was being delivered

memoryVars  == <<stage, key, at, tries, seq, queued, dead, failures>>
historyVars == <<accepted, calls, cleaned, swallowed, cut>>
vars == <<keys, memoryVars, now, historyVars>>

Subs == 1 .. NumSubs

TypeOK ==
  /\ keys     \in [Keys -> Nat \cup {Never}]
  /\ stage    \in [Processes -> {"idle", "checked", "calling"}]
  /\ key      \in [Processes -> Keys \cup {NoKey}]
  /\ at       \in [Processes -> Nat \ {0}]
  /\ tries    \in [Processes -> Nat]
  /\ seq      \in [Processes -> Nat]
  /\ queued   \in [Processes -> Nat]
  /\ dead     \in [Processes -> 0 .. MaxDeadLetters]
  /\ failures \in [Processes -> Nat]
  /\ now      \in Nat
  /\ accepted \in [Keys -> Nat]
  /\ calls    \in [Keys -> [Subs -> Nat]]
  /\ cleaned  \in [Keys -> Nat]
  /\ swallowed \in [Keys -> Nat]
  /\ cut      \in [Keys -> Nat]
  /\ \A p \in Processes : stage[p] # "idle" => key[p] # NoKey
  /\ \A p \in Processes : stage[p] = "calling" => at[p] \in Subs

Init ==
  /\ keys     = [k \in Keys |-> Never]
  /\ stage    = [p \in Processes |-> "idle"]
  /\ key      = [p \in Processes |-> NoKey]
  /\ at       = [p \in Processes |-> 1]
  /\ tries    = [p \in Processes |-> 0]
  /\ seq      = [p \in Processes |-> 0]
  /\ queued   = [p \in Processes |-> 0]
  /\ dead     = [p \in Processes |-> 0]
  /\ failures = [p \in Processes |-> 0]
  /\ now      = 0
  /\ accepted = [k \in Keys |-> 0]
  /\ calls    = [k \in Keys |-> [s \in Subs |-> 0]]
  /\ cleaned  = [k \in Keys |-> 0]
  /\ swallowed = [k \in Keys |-> 0]
  /\ cut      = [k \in Keys |-> 0]

Recorded(k) == keys[k] # Never

-----------------------------------------------------------------------------
(* _next_seq, called twice for a message: once for its id, once for its     *)
(* producer_seq.                                                            *)
NextSeq(p) == seq' = [seq EXCEPT ![p] = @ + 2]

(* The message is built and queued; the callbacks come next, if there are   *)
(* any.                                                                     *)
Accept(p, k) ==
  /\ NextSeq(p)
  /\ queued'   = [queued EXCEPT ![p] = @ + 1]
  /\ accepted' = [accepted EXCEPT ![k] = @ + 1]
  /\ stage'    = [stage EXCEPT ![p] = IF NumSubs = 0 THEN "idle" ELSE "calling"]
  /\ key'      = [key EXCEPT ![p] = k]
  /\ at'       = [at EXCEPT ![p] = 1]
  /\ tries'    = [tries EXCEPT ![p] = 0]

(* publish: the key is not in the table.  (If it is, publish returns False  *)
(* and nothing changes.)                                                    *)
Check(p, k) ==
  /\ stage[p] = "idle"
  /\ accepted[k] < MaxAccepted
  /\ ~Recorded(k)
  /\ stage' = [stage EXCEPT ![p] = "checked"]
  /\ key'   = [key EXCEPT ![p] = k]
  /\ UNCHANGED <<keys, at, tries, seq, queued, dead, failures, now, historyVars>>

(* has() raises: the message goes out as if the key were new. *)
CheckRaises(p, k) ==
  /\ stage[p] = "idle"
  /\ accepted[k] < MaxAccepted
  /\ Accept(p, k)
  /\ swallowed' = [swallowed EXCEPT ![k] = @ + 1]
  /\ UNCHANGED <<keys, dead, failures, now, calls, cleaned, cut>>

(* Mutant: add() does not commit. *)
RecordUncommitted(p) ==
  /\ stage[p] = "checked"
  /\ Accept(p, key[p])
  /\ UNCHANGED <<keys, dead, failures, now, calls, cleaned, swallowed, cut>>

(* add(): INSERT OR IGNORE keeps the time of a key that is there already.   *)
Record(p) ==
  /\ stage[p] = "checked"
  /\ keys' = IF Recorded(key[p]) THEN keys ELSE [keys EXCEPT ![key[p]] = now]
  /\ Accept(p, key[p])
  /\ UNCHANGED <<dead, failures, now, calls, cleaned, swallowed, cut>>

(* add() raises: the message goes out, the key is not recorded. *)
RecordRaises(p) ==
  /\ stage[p] = "checked"
  /\ Accept(p, key[p])
  /\ swallowed' = [swallowed EXCEPT ![key[p]] = @ + 1]
  /\ UNCHANGED <<keys, dead, failures, now, calls, cleaned, cut>>

(* Mutant: the loop goes one place past the last subscriber. *)
MoveOnTooFar(p) ==
  /\ calls' = [calls EXCEPT ![key[p]][at[p]] = @ + 1]
  /\ at'    = [at EXCEPT ![p] = @ + 1]
  /\ stage' = [stage EXCEPT ![p] = IF at[p] > NumSubs THEN "idle" ELSE "calling"]

(* The loop over the subscribers moves on; after the last one publish       *)
(* returns True.                                                            *)
MoveOn(p) ==
  /\ calls' = [calls EXCEPT ![key[p]][at[p]] = @ + 1]
  /\ at'    = [at EXCEPT ![p] = @ + 1]
  /\ stage' = [stage EXCEPT ![p] = IF at[p] = NumSubs THEN "idle" ELSE "calling"]

CallbackReturns(p) ==
  /\ stage[p] = "calling"
  /\ MoveOn(p)
  /\ UNCHANGED <<keys, key, tries, seq, queued, dead, failures, now,
                 accepted, cleaned, swallowed, cut>>

(* Mutants: the exception leaves publish; a message at its limit is dropped. *)
CallbackRaisesThrough(p) ==
  /\ stage[p] = "calling"
  /\ calls'    = [calls EXCEPT ![key[p]][at[p]] = @ + 1]
  /\ stage'    = [stage EXCEPT ![p] = "idle"]
  /\ queued'   = [queued EXCEPT ![p] = @ + 1]
  /\ tries'    = [tries EXCEPT ![p] = @ + 1]
  /\ failures' = [failures EXCEPT ![p] = @ + 1]
  /\ UNCHANGED <<keys, key, at, seq, dead, now, accepted, cleaned, swallowed, cut>>
CallbackRaisesNoDlq(p) ==
  /\ stage[p] = "calling"
  /\ MoveOn(p)
  /\ tries'    = [tries EXCEPT ![p] = @ + 1]
  /\ failures' = [failures EXCEPT ![p] = @ + 1]
  /\ queued'   = IF tries[p] + 1 < MaxRetries THEN [queued EXCEPT ![p] = @ + 1] ELSE queued
  /\ UNCHANGED <<keys, key, seq, dead, now, accepted, cleaned, swallowed, cut>>

(* Appending to a deque of bounded length: when it is full, the oldest      *)
(* entry goes, without a word.                                              *)
Appended(n) == IF n < MaxDeadLetters THEN n + 1 ELSE n

(* The callback raises: the message goes to the dead letters if its count   *)
(* has reached max_retries, else into the queue once more after a backoff.  *)
(* Nobody reads the queue, and the next subscriber is called.               *)
CallbackRaises(p) ==
  /\ stage[p] = "calling"
  /\ MoveOn(p)
  /\ tries'    = [tries EXCEPT ![p] = @ + 1]
  /\ failures' = [failures EXCEPT ![p] = @ + 1]
  /\ IF tries[p] + 1 >= MaxRetries
       THEN dead' = [dead EXCEPT ![p] = Appended(@)] /\ UNCHANGED queued
       ELSE queued' = [queued EXCEPT ![p] = @ + 1] /\ UNCHANGED dead
  /\ UNCHANGED <<keys, key, seq, now, accepted, cleaned, swallowed, cut>>

(* cleanup: DELETE FROM keys WHERE ts < cutoff. *)
Expired(k) == Recorded(k) /\ keys[k] + Retention < now

Cleanup(p) ==
  /\ stage[p] = "idle"
  /\ keys'    = [k \in Keys |-> IF Expired(k) THEN Never ELSE keys[k]]
  /\ cleaned' = [k \in Keys |-> IF Expired(k) THEN cleaned[k] + 1 ELSE cleaned[k]]
  /\ UNCHANGED <<memoryVars, now, accepted, calls, swallowed, cut>>

(* The process dies and starts again with empty memory. *)
Crash(p) ==
  /\ cut' = IF stage[p] = "calling" THEN [cut EXCEPT ![key[p]] = @ + 1] ELSE cut
  /\ stage'    = [stage EXCEPT ![p] = "idle"]
  /\ key'      = [key EXCEPT ![p] = NoKey]
  /\ at'       = [at EXCEPT ![p] = 1]
  /\ tries'    = [tries EXCEPT ![p] = 0]
  /\ seq'      = [seq EXCEPT ![p] = 0]
  /\ queued'   = [queued EXCEPT ![p] = 0]
  /\ dead'     = [dead EXCEPT ![p] = 0]
  /\ failures' = [failures EXCEPT ![p] = 0]
  /\ UNCHANGED <<keys, now, accepted, calls, cleaned, swallowed>>

Tick ==
  /\ now < MaxTime
  /\ now' = now + 1
  /\ UNCHANGED <<keys, memoryVars, historyVars>>

Next ==
  \/ \E p \in Processes, k \in Keys : Check(p, k)
  \/ \E p \in Processes, k \in Keys : CheckRaises(p, k)
  \/ \E p \in Processes : Record(p)
  \/ \E p \in Processes : RecordRaises(p)
  \/ \E p \in Processes : CallbackReturns(p)
  \/ \E p \in Processes : CallbackRaises(p)
  \/ \E p \in Processes : Cleanup(p)
  \/ \E p \in Processes : Crash(p)
  \/ Tick

Spec == Init /\ [][Next]_vars

-----------------------------------------------------------------------------
(* No message is delivered for free.  A key goes to a subscriber at most    *)
(* once per process for each time it was recorded and forgotten, and once   *)
(* for each database error that was swallowed: the check and the record are *)
(* apart, so every process may pass the check before one records the key,   *)
(* and no more than that.                                                   *)
DeliveriesArePaidFor ==
  \A k \in Keys, s \in Subs :
    calls[k][s] <= Cardinality(Processes) * (cleaned[k] + 1) + swallowed[k]

(* Processes that have a message under the key and have not yet called s. *)
OnTheWay(k, s) == {p \in Processes : stage[p] = "calling" /\ key[p] = k /\ at[p] <= s}

(* A subscriber that raises does not starve the others: every message that  *)
(* was built reaches every subscriber exactly once, unless a crash cuts the *)
(* loop short.                                                              *)
EverySubscriberIsCalled ==
  \A k \in Keys, s \in Subs :
    LET reached == calls[k][s] + Cardinality(OnTheWay(k, s)) IN
    reached <= accepted[k] /\ accepted[k] <= reached + cut[k]

(* Every message and every failed callback leaves one entry, in the queue   *)
(* or in the dead letters, and an entry is lost only to younger dead        *)
(* letters: while they are not full, none is missing, and there are never   *)
(* more entries than messages and failures.  producer_seq counts the        *)
(* messages, by two.                                                        *)
FailuresLeaveATrace ==
  \A p \in Processes :
    /\ 2 * (queued[p] + dead[p]) <= seq[p] + 2 * failures[p]
    /\ dead[p] < MaxDeadLetters => 2 * (queued[p] + dead[p]) = seq[p] + 2 * failures[p]

(* The module's title, "Exactly-Once Messaging Backbone": a key that was    *)
(* recorded and is not being published has reached each subscriber once.    *)
ExactlyOnce ==
  \A k \in Keys, s \in Subs :
    /\ calls[k][s] <= 1
    /\ Recorded(k) /\ (\A p \in Processes : stage[p] = "calling" => key[p] # k)
         => calls[k][s] = 1

(* Dead letter queue after N retries: once publish is over, a message whose *)
(* delivery failed is in the dead letter queue.  False of the code: its     *)
(* copy waits in a queue that nothing reads.                                *)
FailedDeliveriesAreDead ==
  \A p \in Processes :
    stage[p] = "idle" /\ failures[p] > 0 => dead[p] > 0
=============================================================================
