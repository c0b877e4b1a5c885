---------------------------- MODULE Contingency ----------------------------
(***************************************************************************)
(* ContingencyManager (execution/contingency_manager.py) emulates bracket, *)
(* OCO, trailing stop and iceberg orders on top of a broker that knows     *)
(* plain orders.  Orders share nothing but the counter of the ids, so one  *)
(* order is followed: a bracket, an OCO, an iceberg or a trailing stop.    *)
(*                                                                         *)
(* on_fill is called with what the broker reports: reports come late, for  *)
(* a part of an order at a time, or twice.  on_broker_submit may raise,    *)
(* after the request arrived or before, in the middle of an operation.     *)
(* The slices of an iceberg are taken to be of equal size, and the broker  *)
(* to know the size of a slice that is sent with the word "advance" only.  *)
(* A trailing distance is a price, not a percentage.                       *)
(***************************************************************************)
EXTENDS Broker

CONSTANTS
  Entry,        \* entry_id of the bracket
  LegA, LegB,   \* leg_a_id and leg_b_id of the OCO
  Slices,       \* slice_ids of the iceberg, in their order
  None,         \* an id that is not set
  Prices,       \* market prices
  Distance,     \* trailing_distance
  MaxRepeats    \* bound: reports that come twice

(* _gen_id() makes every id once. *)
ASSUME ContingencyAssumption ==
  /\ Slices \in Seq(BrokerIds) \ {<<>>}
  /\ {Entry, LegA, LegB} \subseteq BrokerIds
  /\ LegA # LegB
  /\ {Entry, LegA, LegB} \cap ToSet(Slices) = {}
  /\ None \notin BrokerIds
  /\ Prices \subseteq Nat
  /\ Distance \in Nat
  /\ MaxRepeats \in Nat

VARIABLES
  bracket,    \* _brackets: status, sl_price, remaining_size
  trailing,   \* _trailings: current_stop, activation_price, and where the stop began
  oco,        \* _ocos: status, cancelled_id
  iceberg,    \* _icebergs: status, filled_slices, remaining, active_slice
  reported,   \* history: lots that were reported, per id
  repeats,    \* history: reports that came twice
  piecemeal,  \* history: some report was not for a whole order
  told        \* history: what update_trailing was called with

contingencyVars == <<bracket, trailing, oco, iceberg, reported, repeats, piecemeal, told>>
history == <<reported, repeats, piecemeal>>

Kinds == {"bracket", "oco", "iceberg", "trailing"}
Legs == {LegA, LegB}
SliceIds == ToSet(Slices)
TotalSize == Len(Slices) * Size
ContingencyIds == {Entry} \cup Legs \cup SliceIds

(* An activation_price of 0 is one that is not set. *)
Trailing == [active : BOOLEAN, stop : Int, start : Prices \cup {0}, activation : Prices \cup {0}]

ContingencyTypeOK ==
  /\ bracket \in [status : {"NONE", "PENDING", "ACTIVE"}, stop : Prices \cup {0},
                  remaining : 0 .. Size]
  /\ trailing \in Trailing
  /\ oco \in [status : {"NONE", "PENDING", "FILLED"}, cancelled : Legs \cup {None}]
  /\ iceberg \in [status : {"NONE", "RAISED", "ACTIVE", "COMPLETE"}, filled : SUBSET SliceIds,
                  remaining : Int, active : SliceIds \cup {None}]
  /\ reported \in [ContingencyIds -> Nat]
  /\ repeats \in 0 .. MaxRepeats
  /\ piecemeal \in BOOLEAN
  /\ told \subseteq [price : Prices, isLong : BOOLEAN]

ContingencyInit ==
  /\ bracket = [status |-> "NONE", stop |-> 0, remaining |-> 0]
  /\ trailing = [active |-> FALSE, stop |-> 0, start |-> 0, activation |-> 0]
  /\ oco = [status |-> "NONE", cancelled |-> None]
  /\ iceberg = [status |-> "NONE", filled |-> {}, remaining |-> TotalSize, active |-> None]
  /\ reported = [o \in ContingencyIds |-> 0]
  /\ repeats = 0
  /\ piecemeal = FALSE
  /\ told = {}

-----------------------------------------------------------------------------
(* on_broker_submit returns: every request has arrived. *)
Sent(ids) == Accept(ids)

(* on_broker_submit raises: what comes later is not sent, and the request   *)
(* it raised for may have arrived.                                          *)
Raised(ids) == \E some \in SUBSET ids : Accept(some)

(* The id and the record come before the request. *)
SubmitBracket ==
  /\ client = "bracket"
  /\ bracket.status = "NONE"
  /\ \E stop \in Prices : bracket' = [bracket EXCEPT !.status = "PENDING", !.stop = stop]
  /\ Sent({Entry}) \/ Raised({Entry})
  /\ UNCHANGED <<trailing, oco, iceberg, history, told>>

(* A leg without a price is not sent; both are sent in turn, the first      *)
(* although the second raises.                                              *)
SubmitOco ==
  /\ client = "oco"
  /\ oco.status = "NONE"
  /\ oco' = [oco EXCEPT !.status = "PENDING"]
  /\ \E legs \in SUBSET Legs : Sent(legs) \/ Raised(legs)
  /\ UNCHANGED <<bracket, trailing, iceberg, history, told>>

(* The first slice is sent before the iceberg is recorded: if the call      *)
(* raises, nobody knows of it.                                              *)
SubmitIceberg ==
  /\ client = "iceberg"
  /\ iceberg.status = "NONE"
  /\ \/ Sent({Head(Slices)}) /\ iceberg' = [iceberg EXCEPT !.status = "ACTIVE"]
     \/ Raised({Head(Slices)}) /\ iceberg' = [iceberg EXCEPT !.status = "RAISED"]
  /\ UNCHANGED <<bracket, trailing, oco, history, told>>

(* A trailing stop of its own is kept here and not sent; its first stop may *)
(* be the default of 0.                                                     *)
SubmitTrailing ==
  /\ client = "trailing"
  /\ ~trailing.active
  /\ \E stop, activation \in Prices \cup {0} :
       trailing' = [active |-> TRUE, stop |-> stop, start |-> stop, activation |-> activation]
  /\ UNCHANGED <<bracket, oco, iceberg, history, told, brokerVars>>

-----------------------------------------------------------------------------
(* The trailing stop a bracket with a trailing_distance gets. *)
StopOfBracket ==
  [active |-> TRUE, stop |-> bracket.stop, start |-> bracket.stop, activation |-> 0]

(* Mutant: the size of the bracket instead of the size that was filled. *)
FillBracketWhole(lots) ==
  /\ bracket.status = "PENDING"
  /\ bracket' = [bracket EXCEPT !.status = "ACTIVE", !.remaining = Size]
  /\ trailing' \in {trailing, StopOfBracket}
  /\ UNCHANGED <<oco, iceberg, brokerVars>>

(* Mutant: every fill of the entry adds to the size of the bracket. *)
FillBracketEveryTime(lots) ==
  /\ bracket.status \in {"PENDING", "ACTIVE"}
  /\ bracket' = [bracket EXCEPT !.status = "ACTIVE", !.remaining = @ + lots]
  /\ trailing' \in {trailing, StopOfBracket}
  /\ UNCHANGED <<oco, iceberg, brokerVars>>

(* The first fill of the entry activates the bracket with the size of that  *)
(* fill; its stop becomes a trailing one.  Later fills change nothing.      *)
FillBracket(lots) ==
  /\ bracket.status = "PENDING"
  /\ bracket' = [bracket EXCEPT !.status = "ACTIVE", !.remaining = lots]
  /\ trailing' \in {trailing, StopOfBracket}
  /\ UNCHANGED <<oco, iceberg, brokerVars>>

(* The other leg is noted as cancelled; the broker is not told. *)
FillOco(leg) ==
  /\ oco.status # "NONE"
  /\ oco' = [status |-> "FILLED", cancelled |-> CHOOSE other \in Legs : other # leg]
  /\ UNCHANGED <<bracket, trailing, iceberg, brokerVars>>

(* Mutant: the slices that are filled already are not left out. *)
NextSlicesUnfilled(filled) == {i \in DOMAIN Slices : Slices[i] # iceberg.active}

(* The places of the slices _maybe_advance_iceberg may send: the first of   *)
(* them is sent.                                                            *)
NextSlices(filled) ==
  {i \in DOMAIN Slices : Slices[i] \notin filled /\ Slices[i] # iceberg.active}

(* Every fill of a slice, of a part of it too, counts the slice as filled   *)
(* and sends the next.  If that raises, the end is not looked for.          *)
FillSlice(slice, lots) ==
  LET filled    == iceberg.filled \cup {slice}
      remaining == iceberg.remaining - lots
      next      == NextSlices(filled)
      status    == IF remaining <= 0 THEN "COMPLETE" ELSE iceberg.status
      advanced  == [iceberg EXCEPT !.status = status, !.filled = filled,
                                   !.remaining = remaining]
  IN /\ iceberg.status \in {"ACTIVE", "COMPLETE"}
     /\ \/ /\ next = {}
           /\ iceberg' = advanced
           /\ UNCHANGED brokerVars
        \/ \E i \in next :
             /\ \A j \in next : i <= j
             /\ \/ /\ Sent({Slices[i]})
                   /\ iceberg' = [advanced EXCEPT !.active = Slices[i]]
                \/ /\ Raised({Slices[i]})
                   /\ iceberg' = [advanced EXCEPT !.active = Slices[i],
                                                  !.status = iceberg.status]
     /\ UNCHANGED <<bracket, trailing, oco>>

(* on_fill of an id that no order waits for. *)
FillIgnored(o) ==
  /\ \/ o = Entry /\ bracket.status # "PENDING"
     \/ o \in Legs /\ oco.status = "NONE"
     \/ o \in SliceIds /\ iceberg.status \notin {"ACTIVE", "COMPLETE"}
  /\ UNCHANGED <<bracket, trailing, oco, iceberg, brokerVars>>

OnFill(o, lots) ==
  \/ o = Entry /\ FillBracket(lots)
  \/ o \in Legs /\ FillOco(o)
  \/ o \in SliceIds /\ FillSlice(o, lots)
  \/ FillIgnored(o)

(* The broker reports lots it has executed and not reported yet. *)
Report(o, lots) ==
  /\ reported[o] + lots <= Executed(o)
  /\ reported' = [reported EXCEPT ![o] = @ + lots]
  /\ piecemeal' = (piecemeal \/ lots # Size)
  /\ OnFill(o, lots)
  /\ UNCHANGED <<repeats, told>>

(* A report comes again. *)
ReportAgain(o, lots) ==
  /\ repeats < MaxRepeats
  /\ lots <= reported[o]
  /\ repeats' = repeats + 1
  /\ OnFill(o, lots)
  /\ UNCHANGED <<reported, piecemeal, told>>

-----------------------------------------------------------------------------
(* Where a price puts the stop. *)
StopAt(price, isLong) == IF isLong THEN price - Distance ELSE price + Distance

(* Mutant: the stop follows the price both ways. *)
UpdatedStopBothWays(price, isLong) == StopAt(price, isLong)

(* update_stop: the stop of a long position only rises, that of a short     *)
(* one only falls.  activation_price is read after the stop has moved, when *)
(* it has no effect any more.                                               *)
UpdatedStop(price, isLong) ==
  LET new == StopAt(price, isLong)
  IN IF (isLong /\ new > trailing.stop) \/ (~isLong /\ new < trailing.stop)
     THEN new ELSE trailing.stop

(* update_trailing: it answers whether the stop was hit; it sends nothing.  *)
(* The caller says at every call which side the position is on; is_long is  *)
(* TRUE if it does not.                                                     *)
UpdateTrailing(price, isLong) ==
  /\ trailing.active
  /\ trailing' = [trailing EXCEPT !.stop = UpdatedStop(price, isLong)]
  /\ told' = told \cup {[price |-> price, isLong |-> isLong]}
  /\ UNCHANGED <<bracket, oco, iceberg, history, brokerVars>>

ContingencyNext ==
  /\ client \in Kinds
  /\ \/ SubmitBracket
     \/ SubmitOco
     \/ SubmitIceberg
     \/ SubmitTrailing
     \/ \E o \in ContingencyIds, lots \in 1 .. Size : Report(o, lots) \/ ReportAgain(o, lots)
     \/ \E price \in Prices, isLong \in BOOLEAN : UpdateTrailing(price, isLong)

-----------------------------------------------------------------------------
(* While every report is for a whole order and comes once, an iceberg shows *)
(* one slice: at most one works at the broker, and none is sent twice.      *)
(* (A report for a part already sends the next slice, and with two slices   *)
(* at work the record of the active one makes it send a slice again.)       *)
OneSliceShown ==
  ~piecemeal /\ repeats = 0 =>
    /\ \A s \in SliceIds : Len(book[s]) <= 1
    /\ \A s, t \in SliceIds :
         (\E k \in DOMAIN book[s] : Works(book[s][k])) /\ (\E k \in DOMAIN book[t] : Works(book[t][k]))
         => s = t

(* What IcebergOrder says, and the code does not do: no more than           *)
(* display_qty, the size of a slice, is shown at a time.                    *)
OnlyDisplayShown ==
  LET shown(copy) == IF Works(copy) THEN Size - copy.done ELSE 0
      shownOf(s)  == Total([k \in DOMAIN book[s] |-> shown(book[s][k])])
  IN Total([i \in DOMAIN Slices |-> shownOf(Slices[i])]) <= Size

(* The fills the manager counts on are executed at the broker: a bracket is *)
(* active for no more than was executed of its entry, an OCO is FILLED only *)
(* if something of the leg that is not noted as cancelled was executed, and *)
(* an iceberg is complete when all of it was executed, however its fills    *)
(* were cut up, unless a report came twice.  (Of the leg that is noted it   *)
(* says nothing: see OtherLegCancelled.)                                    *)
FillsAreBacked ==
  /\ bracket.status = "ACTIVE" => bracket.remaining \in 1 .. Executed(Entry)
  /\ oco.status = "FILLED" => \E leg \in Legs : leg # oco.cancelled /\ Executed(leg) > 0
  /\ iceberg.status = "COMPLETE" /\ repeats = 0 =>
       Total([i \in DOMAIN Slices |-> Executed(Slices[i])]) >= TotalSize

(* What OCOOrder says, and the code does not do: when one leg fills, the    *)
(* other is cancelled, so the leg that is noted as cancelled no longer      *)
(* works at the broker.                                                     *)
OtherLegCancelled ==
  oco.status = "FILLED" =>
    \A k \in DOMAIN book[oco.cancelled] : ~Works(book[oco.cancelled][k])

(* The market got to activation_price, if there is one: above it for a long *)
(* position, below it for a short one.                                      *)
Activated ==
  \/ trailing.activation = 0
  \/ \E t \in told : IF t.isLong THEN t.price >= trailing.activation
                                 ELSE t.price <= trailing.activation

(* A trailing stop stands where some price it was told puts it, or where it *)
(* began, and it never gives back: once activated it is where the best of   *)
(* these prices puts it, before that at least where it began.  That is, as  *)
(* long as every call of update_trailing names the same side.  Which side   *)
(* that is, the manager takes from the caller and compares with no order: a *)
(* short position updated with the default trails like a long one, and      *)
(* updated with the default once it gives back.                             *)
StopFollowsBest ==
  LET stops == {trailing.start} \cup {StopAt(t.price, t.isLong) : t \in told}
      bests == IF Activated THEN stops ELSE {trailing.start}
      sides == {t.isLong : t \in told}
  IN trailing.active =>
       /\ trailing.stop \in stops
       /\ sides = {TRUE}  => \A s \in bests : trailing.stop >= s
       /\ sides = {FALSE} => \A s \in bests : trailing.stop <= s

(* What TrailingStopOrder says of activation_price, and the code does not   *)
(* do: the stop trails only after the price got there.                      *)
TrailsOnlyAfterActivation ==
  trailing.active /\ ~Activated => trailing.stop = trailing.start
=============================================================================
