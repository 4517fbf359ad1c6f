------------------------------- MODULE Trust ---------------------------------
(***************************************************************************)
(* Coord's main program, and what its clients hold on to when it restarts: *)
(* a daemon, which logs in and registers until coord accepts, and a relay  *)
(* (tailbus-relay), which has a token from its configuration, registers    *)
(* once and never again.  Coord's embedded relay writes its own row.       *)
(*                                                                         *)
(* Coord's database, its key file and its JWT key outlive it; its TLS      *)
(* certificate is made anew at each start, numbered here by the start.  A  *)
(* client pins the certificate that it sees first in a file.  Coord has    *)
(* OAuth configured.                                                       *)
(***************************************************************************)
EXTENDS Naturals

CONSTANTS
  PreShared,   \* auth tokens that coord's configuration may hold
  MaxBoots,    \* bound: starts of coord
  MaxTrouble,  \* bound: crashes, signals, lost heartbeats and restarts of the relay
  NoToken

ASSUME TrustAssumption ==
  MaxBoots \in Nat \ {0} /\ MaxTrouble \in Nat /\ NoToken \notin PreShared

VARIABLES
  coord,     \* coord's process: where main is, the token in its configuration
  boots,     \* starts of coord so far; the number of its certificate
  coordKey,  \* coord's key file: "none", "cut" (created and not written) or "whole"
  jwtKey,    \* the JWT key file: the start that generated it, 0 without a whole key
  seeded,    \* the row "token-0" of auth_tokens
  rows,      \* the node rows: "absent", "fresh" or "stale"
  client,    \* the clients
  trouble,   \* crashes, signals and lost heartbeats so far
  jwt,       \* the key with which the daemon's token was signed, 0 without one
  rotated,   \* history: coord was configured with different tokens
  missed     \* history: three heartbeats of the embedded relay in a row failed

trustDisk == <<coordKey, jwtKey, seeded>>
trustHist == <<rotated, missed>>
trustVars == <<coord, boots, trustDisk, rows, client, trouble, jwt, trustHist>>

Clients == {"daemon", "relay"}
Nodes   == Clients \union {"embedded"}
Serving == coord.pc = "serve"
Trouble == trouble < MaxTrouble /\ trouble' = trouble + 1
CoordTo(pc) == coord' = [coord EXCEPT !.pc = pc]

TrustInit ==
  /\ coord = [pc |-> "down", conf |-> NoToken] /\ boots = 0
  /\ coordKey = "none" /\ jwtKey = 0 /\ seeded = NoToken
  /\ rows = [n \in Nodes |-> "absent"] /\ trouble = 0 /\ jwt = 0
  /\ client = [c \in Clients |-> [pc |-> "register", pinned |-> 0, conn |-> FALSE]]
  /\ rotated = FALSE /\ missed = FALSE
-----------------------------------------------------------------------------
\* main: flags and configuration, the data directory and the store.
Boot(t) ==
  /\ coord.pc = "down" /\ boots < MaxBoots /\ boots' = boots + 1
  /\ coord' = [pc |-> "key", conf |-> t]
  /\ rotated' = (rotated \/ (boots > 0 /\ t # coord.conf))
  /\ UNCHANGED <<trustDisk, rows, client, trouble, jwt, missed>>

\* LoadOrGenerate of coord's keypair: a file that was cut short stops the start.
BootKey ==
  /\ coord.pc = "key"
  /\ IF coordKey = "cut" THEN CoordTo("down") /\ UNCHANGED coordKey
     ELSE CoordTo("seed") /\ coordKey' = "whole"
  /\ UNCHANGED <<boots, jwtKey, seeded, rows, client, trouble, jwt, trustHist>>

\* Variant: tokens are seeded only into a table that has one.
SeedToken_Skips(t) == seeded

\* SeedToken: an insert under the name token-0, whose failure is ignored.
SeedToken(t) == IF seeded = NoToken THEN t ELSE seeded

BootSeed ==
  /\ coord.pc = "seed" /\ CoordTo("jwt") /\ seeded' = SeedToken(coord.conf)
  /\ UNCHANGED <<boots, coordKey, jwtKey, rows, client, trouble, jwt, trustHist>>

\* NewJWTIssuer: a key that is missing or too short is generated.
NewJWTIssuer == jwtKey' = IF jwtKey = 0 THEN boots ELSE jwtKey

BootJWT ==
  /\ coord.pc = "jwt" /\ CoordTo("listen") /\ NewJWTIssuer
  /\ UNCHANGED <<boots, coordKey, seeded, rows, client, trouble, jwt, trustHist>>

\* The reaper, the listeners, the HTTP servers and the embedded relay, whose row
\* is written with a new heartbeat.
BootServe ==
  /\ coord.pc = "listen" /\ CoordTo("serve")
  /\ rows' = [rows EXCEPT !["embedded"] = "fresh"]
  /\ UNCHANGED <<boots, trustDisk, client, trouble, jwt, trustHist>>

\* The process dies, possibly between the creation of the key file and its
\* writing; a JWT key cut short counts as none.
Dies ==
  /\ CoordTo("down") /\ client' = [c \in Clients |-> [client[c] EXCEPT !.conn = FALSE]]
  /\ \/ UNCHANGED coordKey
     \/ coord.pc = "key" /\ coordKey = "none" /\ coordKey' = "cut"
  /\ UNCHANGED <<boots, jwtKey, seeded, rows, jwt, trustHist>>

CoordCrash == coord.pc # "down" /\ Trouble /\ Dies

\* SIGINT or SIGTERM: the reaper, the relay's heartbeat and the HTTP servers end
\* with the context; GracefulStop of the relay and of the server, in this order,
\* wait for the streams, which clients keep open, and only then close.
CoordSignal ==
  /\ Serving /\ Trouble /\ CoordTo("drain")
  /\ UNCHANGED <<boots, trustDisk, rows, client, jwt, trustHist>>

CoordStopped ==
  /\ coord.pc = "drain" /\ \A c \in Clients : ~client[c].conn
  /\ Dies /\ UNCHANGED trouble
-----------------------------------------------------------------------------
Open == coord.pc \in {"serve", "drain"}

\* The certificate that main makes from the key, with a new ECDSA key and a new
\* serial number at each start.
SelfSignedCert == boots

\* TOFUVerifier.Verify: the first certificate is saved, another is refused.
Verify(c) ==
  /\ client[c].pinned \in {0, SelfSignedCert}
  /\ client' = [client EXCEPT ![c].conn = TRUE, ![c].pinned = SelfSignedCert]

\* The client's connection, made anew when a call needs it.
Dial(c) ==
  /\ Open /\ client[c].pc # "exit" /\ ~client[c].conn /\ Verify(c)
  /\ UNCHANGED <<coord, boots, trustDisk, rows, trouble, jwt, trustHist>>

\* Admission: the daemon shows a token signed with the JWT key, the relay the
\* token of coord's first configuration that has one.
Admits(c) == IF c = "daemon" THEN jwt = jwtKey ELSE seeded # NoToken

\* The login of the daemon's user (see Login).
LogIn ==
  /\ Serving /\ client["daemon"].pc = "register" /\ jwt # jwtKey /\ jwt' = jwtKey
  /\ UNCHANGED <<coord, boots, trustDisk, rows, client, trouble, trustHist>>

\* Register, in the daemon's retry loops or once in the relay's main, which
\* exits when it fails.
Registers(c) ==
  /\ client[c].pc = "register"
  /\ IF Open /\ client[c].conn /\ Admits(c)
     THEN /\ rows' = [rows EXCEPT ![c] = "fresh"]
          /\ client' = [client EXCEPT ![c].pc = "run"]
     ELSE /\ c = "relay" /\ UNCHANGED rows
          /\ client' = [client EXCEPT ![c].pc = "exit", ![c].conn = FALSE]
  /\ UNCHANGED <<coord, boots, trustDisk, trouble, jwt, trustHist>>

\* UpdateHeartbeat.
Beat(n) == rows' = IF rows[n] = "absent" THEN rows ELSE [rows EXCEPT ![n] = "fresh"]

\* Variant: no reRegister for the daemon either.
Heartbeat_NoRegister(c) ==
  /\ client[c].pc = "run" /\ Open /\ client[c].conn
  /\ Beat(c) /\ UNCHANGED client
  /\ UNCHANGED <<coord, boots, trustDisk, trouble, jwt, trustHist>>

\* Heartbeat: the daemon registers again if the call fails or coord does not
\* know it; the relay has no reRegister.
Heartbeat(c) ==
  /\ client[c].pc = "run"
  /\ IF Open /\ client[c].conn THEN Beat(c) ELSE UNCHANGED rows
  /\ client' = IF c = "daemon" /\ (~(Open /\ client[c].conn) \/ rows[c] = "absent")
               THEN [client EXCEPT ![c].pc = "register"] ELSE client
  /\ UNCHANGED <<coord, boots, trustDisk, trouble, jwt, trustHist>>

\* The embedded relay's ticker, which ends with the context.
EmbeddedBeat ==
  /\ Serving /\ Beat("embedded")
  /\ UNCHANGED <<coord, boots, trustDisk, client, trouble, jwt, trustHist>>

\* Ninety seconds without a heartbeat: nobody sends one for the row, or three
\* in a row were lost or failed.
Ages(n) ==
  /\ rows[n] = "fresh" /\ rows' = [rows EXCEPT ![n] = "stale"]
  /\ IF IF n = "embedded" THEN Serving ELSE Open /\ client[n].conn
     THEN Trouble ELSE UNCHANGED trouble
  /\ missed' = (missed \/ (n = "embedded" /\ Serving))
  /\ UNCHANGED <<coord, boots, trustDisk, client, jwt, rotated>>

\* The reaper's sweep.
Reap ==
  /\ Serving /\ \E n \in Nodes : rows[n] = "stale"
  /\ rows' = [n \in Nodes |-> IF rows[n] = "stale" THEN "absent" ELSE rows[n]]
  /\ UNCHANGED <<coord, boots, trustDisk, client, trouble, jwt, trustHist>>

\* A supervisor starts the relay again.
RelayStart ==
  /\ client["relay"].pc = "exit" /\ Trouble
  /\ client' = [client EXCEPT !["relay"].pc = "register"]
  /\ UNCHANGED <<coord, boots, trustDisk, rows, jwt, trustHist>>

\* A signal stops the relay.
RelayStop ==
  /\ client["relay"].pc = "run" /\ Trouble
  /\ client' = [client EXCEPT !["relay"].pc = "exit", !["relay"].conn = FALSE]
  /\ UNCHANGED <<coord, boots, trustDisk, rows, jwt, trustHist>>
-----------------------------------------------------------------------------
TrustNext ==
  \/ \E t \in PreShared \union {NoToken} : Boot(t)
  \/ BootKey \/ BootSeed \/ BootJWT \/ BootServe \/ CoordCrash \/ CoordSignal \/ CoordStopped
  \/ LogIn \/ EmbeddedBeat \/ Reap \/ RelayStart \/ RelayStop
  \/ \E c \in Clients : Dial(c) \/ Registers(c) \/ Heartbeat(c)
  \/ \E n \in Nodes : Ages(n)

\* Coord finishes its start; a client goes on calling, and the user logs in.
TrustSpec ==
  /\ TrustInit /\ [][TrustNext]_trustVars
  /\ WF_trustVars(BootKey \/ BootSeed \/ BootJWT \/ BootServe) /\ WF_trustVars(LogIn)
  /\ \A c \in Clients : WF_trustVars(Dial(c)) /\ WF_trustVars(Heartbeat(c))
  /\ WF_trustVars(Registers("daemon"))
-----------------------------------------------------------------------------
\* Every variable has its type; certificates and keys in use have been made,
\* and nobody is connected to a coord that is down.
TrustTypeOK ==
  /\ coord \in [pc : {"down", "key", "seed", "jwt", "listen", "serve", "drain"},
                conf : PreShared \union {NoToken}]
  /\ boots \in 0..MaxBoots /\ jwtKey \in 0..boots /\ jwt \in 0..boots
  /\ coordKey \in {"none", "cut", "whole"} /\ seeded \in PreShared \union {NoToken}
  /\ rows \in [Nodes -> {"absent", "fresh", "stale"}] /\ trouble \in 0..MaxTrouble
  /\ client \in [Clients -> [pc : {"register", "run", "exit"}, pinned : 0..boots, conn : BOOLEAN]]
  /\ \A c \in Clients : client[c].conn => Open

\* A client that is connected talks to the start of coord that it saw first,
\* and to no other (TOFUVerifier.Verify).
ConnectedIsPinned == \A c \in Clients : client[c].conn => client[c].pinned = boots

\* A token that the daemon got stays valid across restarts of coord, also of
\* one that died while it wrote its key (NewJWTIssuer).
LoginSurvives == jwt # 0 => jwt = jwtKey

\* While coord serves, the token in its configuration is accepted, unless it
\* was configured with another one before (SeedToken).
ConfiguredIsAccepted == Open /\ coord.conf # NoToken => seeded = coord.conf \/ rotated

\* Coord lists its embedded relay from the moment it serves until it is told to
\* stop, after a crash and a pause too, unless three heartbeats in a row failed:
\* then the row is gone for good (the ticker does not register again).
EmbeddedIsListed == Serving => rows["embedded"] # "absent" \/ missed

\* A daemon that coord does not know comes back by itself as long as coord is
\* the start that it has pinned (Heartbeat, reRegister and retryWithBackoff).
DaemonReturns ==
  (Serving /\ rows["daemon"] = "absent" /\ client["daemon"].pinned = boots) ~>
    (rows["daemon"] # "absent" \/ ~Serving)

\* After a restart of coord a daemon's heartbeat leads to its registration: "it
\* calls reRegister to re-register the node" (Heartbeat).
RestartIsSurvived ==
  (Serving /\ client["daemon"].pinned # 0 /\ rows["daemon"] = "absent") ~>
    (rows["daemon"] # "absent" \/ ~Serving)

\* Across restarts of coord its clients talk to the start they pinned, and what
\* was issued, configured or listed still counts (main of tailbus-coord).
TrustAgrees ==
  /\ TrustTypeOK /\ ConnectedIsPinned /\ LoginSurvives
  /\ ConfiguredIsAccepted /\ EmbeddedIsListed
=============================================================================
