------------------------------ MODULE MCStreams ------------------------------
(***************************************************************************)
(* The streams of a daemon, checked side by side: those of its agents, and *)
(* those to other daemons and relays.  Each behaviour runs one part,       *)
(* chosen initially, while the other rests.                                *)
(***************************************************************************)
EXTENDS Handles, Transport, TLC

CONSTANTS sender, receiver, s1, s2, s3, l1, l2, l3, k1, k2, c1, c2

VARIABLE part

AllFrom == [c \in Calls |-> sender]
AllTo   == [c \in Calls |-> receiver]

MCInit ==
  /\ part \in {"handles", "transport"}
  /\ Init /\ TransportInit

MCNext ==
  \/ part = "handles" /\ Next /\ UNCHANGED <<part, transportVars>>
  \/ part = "transport" /\ TransportNext /\ UNCHANGED <<part, vars>>

MCSpec == MCInit /\ [][MCNext]_<<part, vars, transportVars>>

\* Only one part moves, so its values may be exchanged together with those of
\* the other part: streams with links, and connections with calls.
Twin == s1 :> l1 @@ s2 :> l2 @@ s3 :> l3 @@ k1 :> c1 @@ k2 :> c2

WithTwins(p) ==
  p @@ [t \in {Twin[x] : x \in DOMAIN p} |->
          Twin[p[CHOOSE x \in DOMAIN p : Twin[x] = t]]]

Symmetry == {WithTwins(p) : p \in Permutations(Streams) \union Permutations(Conns)}
=============================================================================
