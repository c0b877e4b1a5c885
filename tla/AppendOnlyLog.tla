--------------------------- MODULE AppendOnlyLog ---------------------------
(***************************************************************************)
(* What common/event_sourcing.py promises: all state is derived from an    *)
(* immutable log.  Whoever asks for the state gets every recorded event,   *)
(* once; events are recorded one at a time and never taken back.           *)
(***************************************************************************)
EXTENDS Naturals

CONSTANT Events

VARIABLE view   \* how often each event counts in the state

NothingRecorded == [e \in Events |-> 0]

Record(e) ==
  /\ view[e] = 0
  /\ view' = [view EXCEPT ![e] = 1]

Next == \E e \in Events : Record(e)

Spec == view = NothingRecorded /\ [][Next]_view
=============================================================================
