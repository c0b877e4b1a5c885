--------------------------- MODULE LiveExecution ---------------------------
(***************************************************************************)
(* A live session: one of the order managers or the contingency manager    *)
(* has the broker for itself, and the broker executes and refuses what it  *)
(* was sent whenever it likes.                                             *)
(***************************************************************************)
EXTENDS OrderManagers, Contingency

CONSTANT Clients   \* the modules that may have the broker

(* The managers and the contingency manager make ids of their own. *)
ASSUME LiveAssumption ==
  /\ Clients \subseteq Managers \cup Kinds
  /\ OrderIds \cap ContingencyIds = {}

vars == <<client, brokerVars, managerVars, contingencyVars>>

Init ==
  /\ client \in Clients
  /\ BrokerInit
  /\ ManagersInit
  /\ ContingencyInit

BrokerStep ==
  \E o \in BrokerIds : \E k \in DOMAIN book[o] :
    \/ \E n \in 1 .. Size : Execute(o, k, n)
    \/ Refuse(o, k)

Next ==
  \/ BrokerStep /\ UNCHANGED <<client, managerVars, contingencyVars>>
  \/ ManagersNext /\ UNCHANGED contingencyVars
  \/ ContingencyNext /\ UNCHANGED <<client, managerVars>>

(* A call of the broker returns or raises, and a sleep ends: a thread in    *)
(* submit() goes on.  Nothing is assumed of the broker or of the sweeps.    *)
Spec ==
  /\ Init /\ [][Next]_vars
  /\ \A t \in Threads : WF_vars(CallStep(t) /\ UNCHANGED contingencyVars)

TypeOK == BrokerTypeOK /\ client \in Clients
          /\ ManagersTypeOK /\ ContingencyTypeOK
=============================================================================
