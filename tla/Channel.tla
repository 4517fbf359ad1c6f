------------------------------- MODULE Channel -------------------------------
(***************************************************************************)
(* What the transport promises the layers above it, without connections,   *)
(* relays or addresses.  Each call of Send hands copies of its message to  *)
(* the network, which may lose them and lets the others arrive, once each  *)
(* and nowhere but at the destination.  A call that succeeds has handed    *)
(* over a copy.                                                            *)
(***************************************************************************)
EXTENDS Naturals

CONSTANTS
  Nodes,      \* daemons
  Calls,      \* calls of Send, each with a message of its own
  To,         \* the destination of each call
  MaxCopies   \* copies a call may hand over

VARIABLES
  result,     \* what each call has returned, "none" before that
  handed,     \* copies handed over by each call
  arrived     \* copies that each node has received

vars == <<result, handed, arrived>>

Init ==
  /\ result = [c \in Calls |-> "none"]
  /\ handed = [c \in Calls |-> 0]
  /\ arrived = [n \in Nodes |-> [c \in Calls |-> 0]]

\* A call does not always know that it has handed over a copy: it succeeds,
\* goes on, or fails.
Hand(c) ==
  /\ result[c] = "none" /\ handed[c] < MaxCopies
  /\ handed' = [handed EXCEPT ![c] = @ + 1]
  /\ \E res \in {"none", "ok", "error"} : result' = [result EXCEPT ![c] = res]
  /\ UNCHANGED arrived

Fail(c) ==
  /\ result[c] = "none"
  /\ result' = [result EXCEPT ![c] = "error"]
  /\ UNCHANGED <<handed, arrived>>

\* The other copies are lost, or on the way.
Arrive(c) ==
  /\ arrived[To[c]][c] < handed[c]
  /\ arrived' = [arrived EXCEPT ![To[c]][c] = @ + 1]
  /\ UNCHANGED <<result, handed>>

Next == \E c \in Calls : Hand(c) \/ Fail(c) \/ Arrive(c)

Spec == Init /\ [][Next]_vars
=============================================================================
