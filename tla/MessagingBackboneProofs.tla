----------------------- MODULE MessagingBackboneProofs -----------------------
(* Theorems about the messaging backbone, for any number of processes,      *)
(* keys, subscribers, crashes, cleanups and database errors.                *)
EXTENDS MessagingBackbone, FiniteSetTheorems, TLAPS

(* An accepted message keeps the types. *)
LEMMA AcceptType ==
  ASSUME TypeOK, NEW p \in Processes, NEW k \in Keys, Accept(p, k)
  PROVE  /\ seq' \in [Processes -> Nat] /\ queued' \in [Processes -> Nat]
         /\ accepted' \in [Keys -> Nat]
         /\ stage' \in [Processes -> {"idle", "checked", "calling"}]
         /\ key' \in [Processes -> Keys \cup {NoKey}]
         /\ at' \in [Processes -> Nat \ {0}] /\ tries' \in [Processes -> Nat]
         /\ \A q \in Processes : stage'[q] # "idle" => key'[q] # NoKey
         /\ \A q \in Processes : stage'[q] = "calling" => at'[q] \in Subs
<1>1. /\ seq' \in [Processes -> Nat] /\ queued' \in [Processes -> Nat]
      /\ accepted' \in [Keys -> Nat]
      /\ stage' \in [Processes -> {"idle", "checked", "calling"}]
      /\ key' \in [Processes -> Keys \cup {NoKey}]
      /\ at' \in [Processes -> Nat \ {0}] /\ tries' \in [Processes -> Nat]
  BY DEF Accept, NextSeq, TypeOK
<1>2. \A q \in Processes : stage'[q] # "idle" => key'[q] # NoKey
  BY ConstantsAssumption DEF Accept, TypeOK
<1>3. \A q \in Processes : stage'[q] = "calling" => at'[q] \in Subs
  <2> SUFFICES ASSUME NEW q \in Processes, stage'[q] = "calling" PROVE at'[q] \in Subs
    OBVIOUS
  <2>1. CASE q = p
    BY <2>1, ConstantsAssumption DEF Accept, TypeOK, Subs
  <2>2. CASE q # p
    BY <2>2 DEF Accept, TypeOK
  <2>3. QED
    BY <2>1, <2>2
<1>4. QED
  BY <1>1, <1>2, <1>3

(* Going on to the next subscriber keeps the types. *)
LEMMA MoveOnType ==
  ASSUME TypeOK, NEW p \in Processes, stage[p] = "calling", MoveOn(p),
         UNCHANGED key
  PROVE  /\ calls' \in [Keys -> [Subs -> Nat]]
         /\ at' \in [Processes -> Nat \ {0}]
         /\ stage' \in [Processes -> {"idle", "checked", "calling"}]
         /\ \A q \in Processes : stage'[q] # "idle" => key'[q] # NoKey
         /\ \A q \in Processes : stage'[q] = "calling" => at'[q] \in Subs
<1>1. key[p] \in Keys /\ at[p] \in Subs /\ NumSubs \in Nat
  BY ConstantsAssumption DEF TypeOK
<1>2. calls' \in [Keys -> [Subs -> Nat]]
  BY <1>1 DEF MoveOn, TypeOK
<1>3. /\ at' \in [Processes -> Nat \ {0}]
      /\ stage' \in [Processes -> {"idle", "checked", "calling"}]
  BY DEF MoveOn, TypeOK
<1>4. \A q \in Processes : stage'[q] # "idle" => key'[q] # NoKey
  BY DEF MoveOn, TypeOK
<1>5. \A q \in Processes : stage'[q] = "calling" => at'[q] \in Subs
  <2> SUFFICES ASSUME NEW q \in Processes, stage'[q] = "calling" PROVE at'[q] \in Subs
    OBVIOUS
  <2>1. CASE q = p
    BY <1>1, <2>1, SMTT(30) DEF MoveOn, TypeOK, Subs
  <2>2. CASE q # p
    BY <2>2 DEF MoveOn, TypeOK
  <2>3. QED
    BY <2>1, <2>2
<1>6. QED
  BY <1>2, <1>3, <1>4, <1>5

(* A callback that raises adds one entry to the queue or to the dead        *)
(* letters, unless these are full.                                          *)
LEMMA TraceOfAFailure ==
  ASSUME NEW p \in Processes, CallbackRaises(p)
  PROVE  \/ dead' = [dead EXCEPT ![p] = Appended(@)] /\ queued' = queued
         \/ queued' = [queued EXCEPT ![p] = @ + 1] /\ dead' = dead
<1>1. CASE tries[p] + 1 >= MaxRetries
  BY <1>1 DEF CallbackRaises
<1>2. CASE ~(tries[p] + 1 >= MaxRetries)
  BY <1>2 DEF CallbackRaises
<1>3. QED
  BY <1>1, <1>2

(* Each step keeps the types. *)
LEMMA TypeStep == TypeOK /\ [Next]_vars => TypeOK'
<1> SUFFICES ASSUME TypeOK, [Next]_vars PROVE TypeOK'
  OBVIOUS
<1> USE ConstantsAssumption
<1>1. ASSUME NEW p \in Processes, NEW k \in Keys, Check(p, k) PROVE TypeOK'
  BY <1>1 DEF Check, TypeOK, historyVars
<1>2. ASSUME NEW p \in Processes, NEW k \in Keys, CheckRaises(p, k) PROVE TypeOK'
  BY <1>2, AcceptType DEF CheckRaises, TypeOK
<1>3. ASSUME NEW p \in Processes, Record(p) \/ RecordRaises(p) PROVE TypeOK'
  <2>1. key[p] \in Keys
    BY <1>3 DEF Record, RecordRaises, TypeOK
  <2>2. CASE Record(p)
    <3>1. keys' \in [Keys -> Nat \cup {Never}]
      BY <2>1, <2>2 DEF Record, TypeOK
    <3>2. QED
      BY <2>1, <2>2, <3>1, AcceptType DEF Record, TypeOK
  <2>3. CASE RecordRaises(p)
    <3>1. swallowed' \in [Keys -> Nat]
      BY <2>1, <2>3 DEF RecordRaises, TypeOK
    <3>2. QED
      BY <2>1, <2>3, <3>1, AcceptType DEF RecordRaises, TypeOK
  <2>4. QED
    BY <1>3, <2>2, <2>3
<1>4. ASSUME NEW p \in Processes, CallbackReturns(p) PROVE TypeOK'
  BY <1>4, MoveOnType DEF CallbackReturns, TypeOK
<1>5. ASSUME NEW p \in Processes, CallbackRaises(p) PROVE TypeOK'
  <2>1. tries' \in [Processes -> Nat] /\ failures' \in [Processes -> Nat]
    BY <1>5 DEF CallbackRaises, TypeOK
  <2>2. queued' \in [Processes -> Nat] /\ dead' \in [Processes -> 0 .. MaxDeadLetters]
    BY <1>5, TraceOfAFailure DEF TypeOK, Appended
  <2>3. QED
    BY <1>5, <2>1, <2>2, MoveOnType DEF CallbackRaises, TypeOK
<1>6. ASSUME NEW p \in Processes, Cleanup(p) PROVE TypeOK'
  BY <1>6 DEF Cleanup, TypeOK, memoryVars
<1>7. ASSUME NEW p \in Processes, Crash(p) PROVE TypeOK'
  BY <1>7 DEF Crash, TypeOK
<1>8. CASE Tick
  BY <1>8 DEF Tick, TypeOK, memoryVars, historyVars
<1>9. CASE UNCHANGED vars
  BY <1>9 DEF vars, memoryVars, historyVars, TypeOK
<1>10. QED
  BY <1>1, <1>2, <1>3, <1>4, <1>5, <1>6, <1>7, <1>8, <1>9 DEF Next

(* Type correctness, for every value of the constants. *)
THEOREM MessagingTypeCorrect == Spec => []TypeOK
<1>1. Init => TypeOK
  BY ConstantsAssumption DEF Init, TypeOK
<1>2. QED
  BY <1>1, TypeStep, PTL DEF Spec

-----------------------------------------------------------------------------
(* Every message and every callback that raises leaves an entry, and none   *)
(* is lost but to younger dead letters, when there are too many to keep.    *)
THEOREM FailuresTraced == Spec => []FailuresLeaveATrace
<1> DEFINE Traced(q) ==
             /\ 2 * (queued[q] + dead[q]) <= seq[q] + 2 * failures[q]
             /\ dead[q] < MaxDeadLetters =>
                  2 * (queued[q] + dead[q]) = seq[q] + 2 * failures[q]
<1>1. Init => FailuresLeaveATrace
  BY DEF Init, FailuresLeaveATrace
<1>2. TypeOK /\ FailuresLeaveATrace /\ [Next]_vars => FailuresLeaveATrace'
  <2> SUFFICES ASSUME TypeOK, FailuresLeaveATrace, [Next]_vars, NEW q \in Processes
               PROVE  Traced(q)'
    BY DEF FailuresLeaveATrace
  <2>1. /\ Traced(q)
        /\ queued[q] \in Nat /\ dead[q] \in 0 .. MaxDeadLetters
        /\ seq[q] \in Nat /\ failures[q] \in Nat /\ MaxDeadLetters \in Nat
    BY ConstantsAssumption DEF FailuresLeaveATrace, TypeOK
  <2>2. ASSUME NEW p \in Processes, NEW k, Accept(p, k), UNCHANGED <<dead, failures>>
        PROVE  Traced(q)'
    BY <2>1, <2>2 DEF Accept, NextSeq, TypeOK
  <2>3. ASSUME NEW p \in Processes, CallbackRaises(p)
        PROVE  Traced(q)'
    <3>1. /\ failures'[q] = failures[q] + (IF q = p THEN 1 ELSE 0)
          /\ seq' = seq
      BY <2>3 DEF CallbackRaises, TypeOK
    <3>2. CASE dead' = [dead EXCEPT ![p] = Appended(@)] /\ queued' = queued
      <4>1. dead'[q] = IF q = p THEN Appended(dead[q]) ELSE dead[q]
        BY <3>2 DEF TypeOK
      <4>2. QED
        BY <2>1, <3>1, <3>2, <4>1 DEF Appended
    <3>3. CASE queued' = [queued EXCEPT ![p] = @ + 1] /\ dead' = dead
      <4>1. queued'[q] = IF q = p THEN queued[q] + 1 ELSE queued[q]
        BY <3>3 DEF TypeOK
      <4>2. QED
        BY <2>1, <3>1, <3>3, <4>1
    <3>4. QED
      BY <2>3, <3>2, <3>3, TraceOfAFailure
  <2>4. ASSUME NEW p \in Processes, Crash(p)
        PROVE  Traced(q)'
    BY <2>1, <2>4 DEF Crash, TypeOK
  <2>5. CASE UNCHANGED <<queued, dead, seq, failures>>
    BY <2>1, <2>5
  <2>6. QED
    BY <2>2, <2>3, <2>4, <2>5
    DEF Next, Check, CheckRaises, Record, RecordRaises, CallbackReturns, Cleanup,
        Tick, vars, memoryVars
<1>3. QED
  BY <1>1, <1>2, MessagingTypeCorrect, PTL DEF Spec

-----------------------------------------------------------------------------
(* Processes are finitely many, and so are those in any stage of publish.   *)
LEMMA FewProcesses ==
  ASSUME NEW S \in SUBSET Processes
  PROVE  /\ IsFiniteSet(S) /\ Cardinality(S) \in Nat
         /\ Cardinality(Processes) \in Nat
         /\ Cardinality(S) <= Cardinality(Processes)
BY ConstantsAssumption, FS_Subset, FS_CardinalityType

(* A process more among the finitely many. *)
LEMMA OneMore ==
  ASSUME NEW S \in SUBSET Processes, NEW p \in Processes, p \notin S
  PROVE  Cardinality(S \cup {p}) = Cardinality(S) + 1
BY FewProcesses, FS_AddElement

(* A process less. *)
LEMMA OneLess ==
  ASSUME NEW S \in SUBSET Processes, NEW p \in S
  PROVE  Cardinality(S \ {p}) = Cardinality(S) - 1
BY FewProcesses, FS_RemoveElement

(* The processes on the way with a key, before and after a step of one of   *)
(* them: the others stay where they are.                                    *)
LEMMA OthersStay ==
  ASSUME NEW p \in Processes, NEW k, NEW s,
         \A q \in Processes \ {p} :
           stage'[q] = stage[q] /\ key'[q] = key[q] /\ at'[q] = at[q]
  PROVE  /\ OnTheWay(k, s)' = OnTheWay(k, s) \/ OnTheWay(k, s)' = OnTheWay(k, s) \cup {p}
            \/ OnTheWay(k, s)' = OnTheWay(k, s) \ {p}
         /\ p \in OnTheWay(k, s) <=> (stage[p] = "calling" /\ key[p] = k /\ at[p] <= s)
         /\ p \in OnTheWay(k, s)' <=> (stage'[p] = "calling" /\ key'[p] = k /\ at'[p] <= s)
BY DEF OnTheWay

Reached(k, s) == calls[k][s] + Cardinality(OnTheWay(k, s))

(* What a process does to the count of those on the way. *)
LEMMA CountOnTheWay ==
  ASSUME NEW p \in Processes, NEW k, NEW s,
         \A q \in Processes \ {p} :
           stage'[q] = stage[q] /\ key'[q] = key[q] /\ at'[q] = at[q]
  PROVE  LET was == stage[p] = "calling" /\ key[p] = k /\ at[p] <= s
             is  == stage'[p] = "calling" /\ key'[p] = k /\ at'[p] <= s
             m   == Cardinality(OnTheWay(k, s))
         IN  /\ m \in Nat
             /\ Cardinality(OnTheWay(k, s)') =
                  m + (IF is /\ ~was THEN 1 ELSE 0) - (IF was /\ ~is THEN 1 ELSE 0)
<1> DEFINE S == OnTheWay(k, s)
           T == OnTheWay(k, s)'
<1>1. S \in SUBSET Processes /\ T \in SUBSET Processes
  BY DEF OnTheWay
<1>2. Cardinality(S) \in Nat /\ Cardinality(T) \in Nat
  BY <1>1, FewProcesses
<1>3. CASE p \in S /\ p \in T
  <2>1. T = S
    <3>1. S \cup {p} = S /\ T # S \ {p}
      BY <1>3
    <3>2. QED
      BY <3>1, OthersStay
  <2>2. QED
    BY <1>2, <1>3, <2>1, OthersStay
<1>4. CASE p \notin S /\ p \notin T
  <2>1. T = S
    BY <1>4, OthersStay
  <2>2. QED
    BY <1>2, <1>4, <2>1, OthersStay
<1>5. CASE p \notin S /\ p \in T
  <2>1. T = S \cup {p}
    BY <1>5, OthersStay
  <2>2. Cardinality(T) = Cardinality(S) + 1
    BY <1>1, <1>5, <2>1, OneMore
  <2>3. QED
    BY <1>2, <1>5, <2>2, OthersStay
<1>6. CASE p \in S /\ p \notin T
  <2>1. T = S \ {p}
    BY <1>6, OthersStay
  <2>2. Cardinality(T) = Cardinality(S) - 1
    BY <1>1, <1>6, <2>1, OneLess
  <2>3. QED
    BY <1>2, <1>6, <2>2, OthersStay
<1>7. QED
  BY <1>3, <1>4, <1>5, <1>6

(* Every step keeps that the subscribers before the current one were        *)
(* called.                                                                  *)
LEMMA CalledStep ==
  TypeOK /\ EverySubscriberIsCalled /\ [Next]_vars => EverySubscriberIsCalled'
<1> SUFFICES ASSUME TypeOK, EverySubscriberIsCalled, [Next]_vars,
                    NEW k \in Keys, NEW s \in Subs
             PROVE  Reached(k, s)' <= accepted'[k] /\ accepted'[k] <= Reached(k, s)' + cut'[k]
  BY DEF EverySubscriberIsCalled, Reached
<1> DEFINE m == Cardinality(OnTheWay(k, s))
           n == Cardinality(OnTheWay(k, s)')
<1>1. /\ calls[k][s] + m <= accepted[k] /\ accepted[k] <= calls[k][s] + m + cut[k]
      /\ calls[k][s] \in Nat /\ accepted[k] \in Nat /\ cut[k] \in Nat
      /\ m \in Nat /\ s \in Nat \ {0} /\ NumSubs \in Nat /\ s <= NumSubs
  <2>1. OnTheWay(k, s) \in SUBSET Processes
    BY DEF OnTheWay
  <2>2. m \in Nat
    BY <2>1, FewProcesses
  <2>3. QED
    BY <2>2, ConstantsAssumption DEF EverySubscriberIsCalled, TypeOK, Subs
<1>2. ASSUME NEW p \in Processes, NEW l \in Keys, stage[p] # "calling", Accept(p, l),
             UNCHANGED <<calls, cut>>
      PROVE  Reached(k, s)' <= accepted'[k] /\ accepted'[k] <= Reached(k, s)' + cut'[k]
  <2>1. \A q \in Processes \ {p} : stage'[q] = stage[q] /\ key'[q] = key[q] /\ at'[q] = at[q]
    BY <1>2 DEF Accept, TypeOK
  <2>2. stage'[p] = "calling" /\ key'[p] = l /\ at'[p] = 1
    BY <1>1, <1>2 DEF Accept, TypeOK
  <2>3. n = m + (IF l = k THEN 1 ELSE 0)
    BY <1>1, <1>2, <2>1, <2>2, CountOnTheWay
  <2>4. accepted'[k] = accepted[k] + (IF l = k THEN 1 ELSE 0)
    BY <1>2 DEF Accept, TypeOK
  <2>5. QED
    BY <1>1, <1>2, <2>3, <2>4 DEF Reached
<1>3. ASSUME NEW p \in Processes, stage[p] = "calling", MoveOn(p),
             UNCHANGED <<key, accepted, cut>>
      PROVE  Reached(k, s)' <= accepted'[k] /\ accepted'[k] <= Reached(k, s)' + cut'[k]
  <2>1. \A q \in Processes \ {p} : stage'[q] = stage[q] /\ key'[q] = key[q] /\ at'[q] = at[q]
    BY <1>3 DEF MoveOn, TypeOK
  <2>2. /\ key'[p] = key[p] /\ at[p] \in Subs /\ key[p] \in Keys /\ at'[p] = at[p] + 1
        /\ stage'[p] = IF at[p] = NumSubs THEN "idle" ELSE "calling"
    BY <1>3 DEF MoveOn, TypeOK
  <2>3. n = m - (IF key[p] = k /\ at[p] = s THEN 1 ELSE 0)
    <3> DEFINE was == stage[p] = "calling" /\ key[p] = k /\ at[p] <= s
               is  == stage'[p] = "calling" /\ key'[p] = k /\ at'[p] <= s
    <3>1. is => was
      BY <1>1, <1>3, <2>2 DEF Subs
    <3>2. was /\ ~is <=> key[p] = k /\ at[p] = s
      BY <1>1, <1>3, <2>2 DEF Subs
    <3>3. n = m + (IF is /\ ~was THEN 1 ELSE 0) - (IF was /\ ~is THEN 1 ELSE 0)
      BY <2>1, CountOnTheWay
    <3>4. QED
      BY <1>1, <3>1, <3>2, <3>3
  <2>4. calls'[k][s] = calls[k][s] + (IF key[p] = k /\ at[p] = s THEN 1 ELSE 0)
    BY <1>1, <1>3, <2>2 DEF MoveOn, TypeOK
  <2>5. QED
    BY <1>1, <1>3, <2>3, <2>4 DEF Reached
<1>4. ASSUME NEW p \in Processes, Crash(p)
      PROVE  Reached(k, s)' <= accepted'[k] /\ accepted'[k] <= Reached(k, s)' + cut'[k]
  <2>1. \A q \in Processes \ {p} : stage'[q] = stage[q] /\ key'[q] = key[q] /\ at'[q] = at[q]
    BY <1>4 DEF Crash, TypeOK
  <2>2. stage'[p] = "idle"
    BY <1>4 DEF Crash, TypeOK
  <2>3. n \in {m, m - 1} /\ (n = m - 1 => stage[p] = "calling" /\ key[p] = k)
    BY <1>1, <2>1, <2>2, CountOnTheWay
  <2>4. /\ stage[p] = "calling" /\ key[p] = k => cut'[k] = cut[k] + 1
        /\ cut'[k] \in {cut[k], cut[k] + 1}
    BY <1>4 DEF Crash, TypeOK
  <2>5. QED
    BY <1>1, <1>4, <2>3, <2>4 DEF Reached, Crash
<1>5. ASSUME NEW p \in Processes, NEW l \in Keys, Check(p, l)
      PROVE  Reached(k, s)' <= accepted'[k] /\ accepted'[k] <= Reached(k, s)' + cut'[k]
  <2>1. \A q \in Processes \ {p} : stage'[q] = stage[q] /\ key'[q] = key[q] /\ at'[q] = at[q]
    BY <1>5 DEF Check, TypeOK
  <2>2. stage'[p] # "calling" /\ stage[p] # "calling"
    BY <1>5 DEF Check, TypeOK
  <2>3. n = m
    BY <1>1, <2>1, <2>2, CountOnTheWay
  <2>4. QED
    BY <1>1, <1>5, <2>3 DEF Reached, Check, historyVars
<1>6. CASE UNCHANGED <<stage, key, at, calls, accepted, cut>>
  <2>1. n = m
    BY <1>6 DEF OnTheWay
  <2>2. QED
    BY <1>1, <1>6, <2>1 DEF Reached
<1>7. \A p \in Processes : stage[p] = "checked" => key[p] \in Keys
  BY DEF TypeOK
<1>8. QED
  BY <1>2, <1>3, <1>4, <1>5, <1>6, <1>7
  DEF Next, CheckRaises, Record, RecordRaises, CallbackReturns, CallbackRaises,
      Cleanup, Tick, vars, memoryVars, historyVars

(* A subscriber that raises does not starve the others.                     *)
THEOREM SubscribersCalled == Spec => []EverySubscriberIsCalled
<1>1. Init => EverySubscriberIsCalled
  <2> SUFFICES ASSUME Init, NEW k \in Keys, NEW s \in Subs
               PROVE  Cardinality(OnTheWay(k, s)) = 0 /\ calls[k][s] = 0
                      /\ accepted[k] = 0 /\ cut[k] = 0
    BY DEF EverySubscriberIsCalled
  <2>1. OnTheWay(k, s) = {}
    BY DEF Init, OnTheWay
  <2>2. QED
    BY <2>1, FS_EmptySet DEF Init
<1>2. QED
  BY <1>1, CalledStep, MessagingTypeCorrect, PTL DEF Spec

-----------------------------------------------------------------------------
(* The processes that found the key missing and are about to record it.     *)
Racing(k) == {p \in Processes : stage[p] = "checked" /\ key[p] = k}

(* What DeliveriesArePaidFor needs to be inductive: while the key is in the *)
(* table the racing processes have their share of the budget reserved, and  *)
(* when it is not, the whole share of this round is still there.            *)
BudgetInv ==
  \A k \in Keys :
    LET n == Cardinality(Processes) IN
    IF Recorded(k)
    THEN accepted[k] + Cardinality(Racing(k)) <= n * (cleaned[k] + 1) + swallowed[k]
    ELSE accepted[k] <= n * cleaned[k] + swallowed[k]

(* The processes that race with a key can be counted. *)
LEMMA RacingType ==
  ASSUME NEW k
  PROVE  /\ Racing(k) \in SUBSET Processes
         /\ Cardinality(Racing(k)) \in Nat
         /\ Cardinality(Processes) \in Nat
         /\ Cardinality(Racing(k)) <= Cardinality(Processes)
<1>1. Racing(k) \in SUBSET Processes
  BY DEF Racing
<1>2. QED
  BY <1>1, FewProcesses

(* A process leaves the race: there is one less, or it was not in it. *)
LEMMA LeaveRace ==
  ASSUME NEW p \in Processes, NEW k, stage'[p] # "checked",
         \A q \in Processes \ {p} : stage'[q] = stage[q] /\ key'[q] = key[q]
  PROVE  /\ Racing(k)' = Racing(k) \ {p}
         /\ Cardinality(Racing(k)') =
              Cardinality(Racing(k)) - (IF stage[p] = "checked" /\ key[p] = k THEN 1 ELSE 0)
<1>1. Racing(k)' = Racing(k) \ {p}
  BY DEF Racing
<1>2. CASE stage[p] = "checked" /\ key[p] = k
  <2>1. p \in Racing(k)
    BY <1>2 DEF Racing
  <2>2. Cardinality(Racing(k) \ {p}) = Cardinality(Racing(k)) - 1
    BY <2>1, RacingType, OneLess
  <2>3. QED
    BY <1>1, <1>2, <2>2
<1>3. CASE ~(stage[p] = "checked" /\ key[p] = k)
  <2>1. Racing(k) \ {p} = Racing(k)
    BY <1>3 DEF Racing
  <2>2. Racing(k)' = Racing(k)
    BY <1>1, <2>1
  <2>3. Cardinality(Racing(k)') = Cardinality(Racing(k)) /\ Cardinality(Racing(k)) \in Nat
    BY <2>2, RacingType
  <2>4. QED
    BY <1>1, <1>3, <2>3
<1>4. QED
  BY <1>1, <1>2, <1>3

(* One more delivery pays for n calls more. *)
LEMMA Distribute == \A n, c \in Nat : n * c \in Nat /\ n * (c + 1) = n * c + n
OBVIOUS

(* Every step keeps the deliveries within their budget. *)
LEMMA BudgetStep ==
  TypeOK /\ BudgetInv /\ [Next]_vars => BudgetInv'
<1> DEFINE n == Cardinality(Processes)
<1> SUFFICES ASSUME TypeOK, BudgetInv, [Next]_vars, NEW k \in Keys
             PROVE  IF Recorded(k)'
                    THEN accepted'[k] + Cardinality(Racing(k)')
                           <= n * (cleaned'[k] + 1) + swallowed'[k]
                    ELSE accepted'[k] <= n * cleaned'[k] + swallowed'[k]
  BY DEF BudgetInv
<1> DEFINE r == Cardinality(Racing(k))
           rr == Cardinality(Racing(k)')
           b == n * cleaned[k]
           Goal == IF Recorded(k)'
                    THEN accepted'[k] + rr <= n * (cleaned'[k] + 1) + swallowed'[k]
                    ELSE accepted'[k] <= n * cleaned'[k] + swallowed'[k]
<1>1. /\ accepted[k] \in Nat /\ cleaned[k] \in Nat /\ swallowed[k] \in Nat
      /\ r \in Nat /\ n \in Nat /\ r <= n
      /\ b \in Nat /\ n * (cleaned[k] + 1) = b + n
      /\ IF Recorded(k) THEN accepted[k] + r <= b + n + swallowed[k]
                        ELSE accepted[k] <= b + swallowed[k]
  <2>1. accepted[k] \in Nat /\ cleaned[k] \in Nat /\ swallowed[k] \in Nat
    BY DEF TypeOK
  <2>2. r \in Nat /\ n \in Nat /\ r <= n
    BY RacingType
  <2>3. b \in Nat /\ n * (cleaned[k] + 1) = b + n
    BY <2>1, <2>2, Distribute
  <2>4. IF Recorded(k) THEN accepted[k] + r <= b + n + swallowed[k]
                       ELSE accepted[k] <= b + swallowed[k]
    BY <2>3 DEF BudgetInv
  <2>5. QED
    BY <2>1, <2>2, <2>3, <2>4
<1>2. ASSUME NEW p \in Processes, NEW l \in Keys, Accept(p, l)
      PROVE  /\ accepted'[k] = accepted[k] + (IF l = k THEN 1 ELSE 0)
             /\ stage'[p] # "checked"
             /\ \A q \in Processes \ {p} : stage'[q] = stage[q] /\ key'[q] = key[q]
  BY <1>2 DEF Accept, TypeOK
<1>3. ASSUME NEW p \in Processes, NEW l \in Keys, CheckRaises(p, l) PROVE Goal
  <2>1. rr = r /\ accepted'[k] = accepted[k] + (IF l = k THEN 1 ELSE 0)
    BY <1>1, <1>2, <1>3, LeaveRace DEF CheckRaises
  <2>2. swallowed'[k] = swallowed[k] + (IF l = k THEN 1 ELSE 0)
        /\ cleaned' = cleaned /\ Recorded(k)' = Recorded(k)
    BY <1>3 DEF CheckRaises, TypeOK, Recorded
  <2>3. QED
    BY <1>1, <2>1, <2>2
<1>4. ASSUME NEW p \in Processes, RecordRaises(p) PROVE Goal
  <2>1. key[p] \in Keys /\ stage[p] = "checked"
    BY <1>4 DEF RecordRaises, TypeOK
  <2>2. /\ rr = r - (IF key[p] = k THEN 1 ELSE 0)
        /\ accepted'[k] = accepted[k] + (IF key[p] = k THEN 1 ELSE 0)
    BY <1>1, <1>2, <1>4, <2>1, LeaveRace DEF RecordRaises
  <2>3. swallowed'[k] = swallowed[k] + (IF key[p] = k THEN 1 ELSE 0)
        /\ cleaned' = cleaned /\ Recorded(k)' = Recorded(k)
    BY <1>4, <2>1 DEF RecordRaises, TypeOK, Recorded
  <2>4. QED
    BY <1>1, <2>2, <2>3
<1>5. ASSUME NEW p \in Processes, Record(p) PROVE Goal
  <2>1. key[p] \in Keys /\ stage[p] = "checked"
    BY <1>5 DEF Record, TypeOK
  <2>2. /\ rr = r - (IF key[p] = k THEN 1 ELSE 0)
        /\ accepted'[k] = accepted[k] + (IF key[p] = k THEN 1 ELSE 0)
    BY <1>1, <1>2, <1>5, <2>1, LeaveRace DEF Record
  <2>3. UNCHANGED <<swallowed, cleaned>>
    BY <1>5 DEF Record
  <2>4. CASE key[p] = k
    <3>1. Recorded(k)'
      BY <1>5, <2>1, <2>4, ConstantsAssumption DEF Record, Recorded, TypeOK
    <3>2. QED
      BY <1>1, <2>2, <2>3, <2>4, <3>1
  <2>5. CASE key[p] # k
    <3>1. Recorded(k)' = Recorded(k)
      BY <1>5, <2>1, <2>5 DEF Record, Recorded, TypeOK
    <3>2. QED
      BY <1>1, <2>2, <2>3, <2>5, <3>1
  <2>6. QED
    BY <2>4, <2>5
<1>6. ASSUME NEW p \in Processes, NEW l \in Keys, Check(p, l) PROVE Goal
  <2>1. UNCHANGED <<keys, accepted, cleaned, swallowed>> /\ ~Recorded(l)
    BY <1>6 DEF Check, historyVars
  <2>2. CASE l = k
    BY <1>1, <2>1, <2>2 DEF Recorded
  <2>3. CASE l # k
    <3>1. Racing(k)' = Racing(k)
      BY <1>6, <2>3 DEF Check, Racing, TypeOK
    <3>2. QED
      BY <1>1, <2>1, <3>1 DEF Recorded
  <2>4. QED
    BY <2>2, <2>3
<1>7. ASSUME NEW p \in Processes, Cleanup(p) PROVE Goal
  <2>1. UNCHANGED <<stage, key, accepted, swallowed>>
    BY <1>7 DEF Cleanup, memoryVars
  <2>2. rr = r
    BY <2>1 DEF Racing
  <2>3. CASE Expired(k)
    <3>1. ~Recorded(k)' /\ Recorded(k) /\ cleaned'[k] = cleaned[k] + 1
      BY <1>7, <2>3 DEF Cleanup, Recorded, Expired
    <3>2. QED
      BY <1>1, <2>1, <3>1
  <2>4. CASE ~Expired(k)
    <3>1. Recorded(k)' = Recorded(k) /\ cleaned'[k] = cleaned[k]
      BY <1>7, <2>4 DEF Cleanup, Recorded
    <3>2. QED
      BY <1>1, <2>1, <2>2, <3>1
  <2>5. QED
    BY <2>3, <2>4
<1>8. ASSUME NEW p \in Processes, Crash(p) PROVE Goal
  <2>1. /\ stage'[p] # "checked"
        /\ \A q \in Processes \ {p} : stage'[q] = stage[q] /\ key'[q] = key[q]
        /\ UNCHANGED <<keys, accepted, cleaned, swallowed>>
    BY <1>8 DEF Crash, TypeOK
  <2>2. rr = r - (IF stage[p] = "checked" /\ key[p] = k THEN 1 ELSE 0)
    BY <2>1, LeaveRace
  <2>3. QED
    BY <1>1, <2>1, <2>2 DEF Recorded
<1>9. ASSUME NEW p \in Processes, stage[p] = "calling", MoveOn(p),
             UNCHANGED <<keys, key, accepted, cleaned, swallowed>>
      PROVE  Goal
  <2>1. /\ stage'[p] # "checked"
        /\ \A q \in Processes \ {p} : stage'[q] = stage[q]
    BY <1>9 DEF MoveOn, TypeOK
  <2>2. rr = r
    BY <1>1, <1>9, <2>1, LeaveRace
  <2>3. QED
    BY <1>1, <1>9, <2>2 DEF Recorded
<1>10. CASE UNCHANGED <<keys, stage, key, accepted, cleaned, swallowed>>
  <2>1. rr = r
    BY <1>10 DEF Racing
  <2>2. QED
    BY <1>1, <1>10, <2>1 DEF Recorded
<1>11. QED
  BY <1>3, <1>4, <1>5, <1>6, <1>7, <1>8, <1>9, <1>10
  DEF Next, CallbackReturns, CallbackRaises, Tick, vars, memoryVars, historyVars

(* No delivery is free: a key reaches a subscriber at most once per process *)
(* and round of cleanup, and once per swallowed error; with one process, no *)
(* cleanup and a healthy database that is at most once.                     *)
THEOREM DeliveriesPaidFor == Spec => []DeliveriesArePaidFor
<1>1. Init => BudgetInv /\ EverySubscriberIsCalled
  <2> SUFFICES ASSUME Init PROVE BudgetInv /\ EverySubscriberIsCalled
    OBVIOUS
  <2>1. \A k \in Keys : ~Recorded(k) /\ accepted[k] = 0 /\ swallowed[k] = 0
                        /\ cleaned[k] = 0 /\ cut[k] = 0
    BY DEF Init, Recorded
  <2>2. Cardinality(Processes) \in Nat /\ Cardinality(Processes) * 0 = 0
    BY RacingType
  <2>3. \A k \in Keys, s \in Subs : OnTheWay(k, s) = {} /\ calls[k][s] = 0
    BY DEF Init, OnTheWay
  <2>4. BudgetInv
    BY <2>1, <2>2 DEF BudgetInv
  <2>5. EverySubscriberIsCalled
    BY <2>1, <2>3, FS_EmptySet DEF EverySubscriberIsCalled
  <2>6. QED
    BY <2>4, <2>5
<1>2. TypeOK /\ BudgetInv /\ EverySubscriberIsCalled => DeliveriesArePaidFor
  <2> SUFFICES ASSUME TypeOK, BudgetInv, EverySubscriberIsCalled,
                      NEW k \in Keys, NEW s \in Subs
               PROVE  calls[k][s] <= Cardinality(Processes) * (cleaned[k] + 1) + swallowed[k]
    BY DEF DeliveriesArePaidFor
  <2> DEFINE n == Cardinality(Processes)
  <2>1. OnTheWay(k, s) \in SUBSET Processes
    BY DEF OnTheWay
  <2>2. calls[k][s] <= accepted[k] /\ calls[k][s] \in Nat /\ accepted[k] \in Nat
    BY <2>1, FewProcesses DEF EverySubscriberIsCalled, TypeOK
  <2>3. /\ n \in Nat /\ cleaned[k] \in Nat /\ swallowed[k] \in Nat
        /\ Cardinality(Racing(k)) \in Nat
    BY RacingType DEF TypeOK
  <2>4. n * (cleaned[k] + 1) = n * cleaned[k] + n /\ n * cleaned[k] \in Nat
    BY <2>3, Distribute
  <2>5. accepted[k] <= n * cleaned[k] + n + swallowed[k]
    BY <2>2, <2>3, <2>4 DEF BudgetInv
  <2>6. QED
    BY <2>2, <2>3, <2>4, <2>5
<1>3. QED
  BY <1>1, <1>2, BudgetStep, CalledStep, MessagingTypeCorrect, PTL DEF Spec
=============================================================================
