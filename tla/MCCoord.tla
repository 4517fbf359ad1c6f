------------------------------- MODULE MCCoord -------------------------------
(***************************************************************************)
(* Two questions about coord, one for each part: the registry with two     *)
(* daemons that want the same handle and no streams, and the streams of    *)
(* one daemon, whose handles stay as they are, while the other rests.      *)
(***************************************************************************)
EXTENDS Coord

CONSTANT Watched   \* the daemon with streams

VARIABLE part

MCMayHost == [n \in Nodes |-> Handles]

MCInit == Init /\ part \in {"registry", "watch"}

Kept ==
  /\ UNCHANGED part
  /\ part = "registry" => UNCHANGED watchVars
  /\ part = "watch" =>
       /\ reaps' <= 1 /\ UNCHANGED changes
       /\ \A n \in Nodes \ {Watched} :
            n \in nodes' /\ beating'[n] = beating[n] /\ current'[n] = current[n]

MCNext == Next /\ Kept

\* The fairness of Coord, for what is not held back.
MCFairness ==
  /\ \A n \in Nodes :
       /\ WF_vars((\E r \in {q \in Requests : q.node = n} :
                      RegisterCheck(r) \/ RegisterUpsert(r)) /\ Kept)
       /\ WF_vars((HeartbeatSend(n) \/ Heartbeat(n) \/ HeartbeatRejected(n)) /\ Kept)
       /\ WF_vars(WatchPeerMap(n) /\ Kept)
  /\ \A c \in Callers : WF_vars((CastBuild(c) \/ CastHash(c) \/ CastSend(c)) /\ Kept)
  /\ \A s \in Streams : WF_vars((AddWatcher(s) \/ WatchSend(s) \/ WatchEnd(s)) /\ Kept)

MCSpec == MCInit /\ [][MCNext]_<<vars, part>> /\ MCFairness

\* Coord as it is.
WholeSpec ==
  Init /\ part = "whole" /\ [][Next /\ UNCHANGED part]_<<vars, part>> /\ Fairness
=============================================================================
