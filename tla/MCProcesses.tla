----------------------------- MODULE MCProcesses -----------------------------
(***************************************************************************)
(* How the programs start, trust each other and stop, checked side by      *)
(* side: each behaviour runs one part, chosen initially, while the other   *)
(* rests.                                                                  *)
(***************************************************************************)
EXTENDS Startup, Trust

VARIABLE part

processVars == <<part, startVars, trustVars>>

Init ==
  /\ part \in {"startup", "trust"}
  /\ StartInit /\ TrustInit

Next ==
  \/ part = "startup" /\ StartNext /\ UNCHANGED <<part, trustVars>>
  \/ part = "trust" /\ TrustNext /\ UNCHANGED <<part, startVars>>

\* The fairness of the two modules, each asked only of its own part.
Fairness ==
  /\ \A p \in Starts : /\ WF_startVars(part = "startup" /\ New(p))
                       /\ WF_startVars(part = "startup" /\ Stop(p))
  /\ WF_trustVars(part = "trust" /\ (BootKey \/ BootSeed \/ BootJWT \/ BootServe))
  /\ WF_trustVars(part = "trust" /\ LogIn)
  /\ \A c \in Clients : /\ WF_trustVars(part = "trust" /\ Dial(c))
                        /\ WF_trustVars(part = "trust" /\ Heartbeat(c))
  /\ WF_trustVars(part = "trust" /\ Registers("daemon"))

Spec == Init /\ [][Next]_processVars /\ Fairness

\* A process that starts decides, one that is told to stop does, and a daemon
\* that coord has lost comes back (New, Run, Heartbeat).
ProcessesSettle == StartDecides /\ StopEnds /\ DaemonReturns
=============================================================================
