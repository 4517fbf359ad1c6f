------------------------------- MODULE Login ---------------------------------
(***************************************************************************)
(* How a user and a daemon come by an access token and keep it.            *)
(*                                                                         *)
(* Coord's OAuth server hands out device codes, which a user confirms in a *)
(* browser while the client polls.  The daemon (resolveAuth) and the       *)
(* tailbus command (login, logout, team switch, team delete) share one     *)
(* credentials file, which each reads, changes and writes as a whole.  The *)
(* daemon registers with its token and refreshes it when a heartbeat call  *)
(* fails.  Tokens are numbered as they are issued and age with time; a     *)
(* refresh token outlives what is modelled.  Coord has OAuth configured,   *)
(* so a registration without a token is rejected.                          *)
(***************************************************************************)
EXTENDS Naturals, Sequences

CONSTANTS
  Emails,       \* users at a browser
  Codes,        \* device codes, each generated once
  States,       \* OAuth states, each generated once
  Teams,        \* teams a user can make active
  MaxTokens,    \* bound: tokens issued
  MaxCommands,  \* bound: tailbus commands run
  MaxOutages,   \* bound: times coord is out of reach or forgets the node
  Nobody

ASSUME LoginAssumption ==
  /\ MaxTokens \in Nat /\ MaxCommands \in Nat /\ MaxOutages \in Nat
  /\ Nobody \notin Emails \union Codes \union States \union Teams /\ "browser" \notin Codes

VARIABLES
  codes,     \* coord: the device codes
  browser,   \* coord: states of logins that began in a browser
  user,      \* the user each state was generated for
  callback,  \* coord: the callback of each state, waiting for the provider
  age,       \* the tokens issued: 0 fresh, 1 to expire within 5 minutes, 2 expired
  file,      \* the credentials file
  proc,      \* the daemon and the tailbus command
  known,     \* coord has the node
  commands,  \* commands so far
  outages,   \* outages so far
  submitted, \* history: the users who entered each code
  chosen,    \* history: the team last made active, Nobody without one
  muddled    \* history: the file was written from a copy read before that

server  == <<codes, browser, user, callback>>
history == <<submitted, chosen, muddled>>
loginVars    == <<server, age, file, proc, known, commands, outages, history>>

Procs   == {"daemon", "cli"}
NoCreds == [email |-> Nobody, token |-> 0, team |-> Nobody]
NoCode  == [at |-> "new", expired |-> FALSE, state |-> Nobody, email |-> Nobody, token |-> 0]
Ready   == [pc |-> "idle", code |-> Nobody, creds |-> NoCreds, token |-> 0, team |-> Nobody]

\* JWTIssuer: a new pair of tokens.
Issue(n)     == Len(age) < MaxTokens /\ age' = Append(age, 0) /\ n = Len(age) + 1
NeedsRefresh(creds) == age[creds.token] >= 1
IsExpired(creds)    == age[creds.token] = 2
At(p, pc)    == proc[p].pc = pc

LoginInit ==
  /\ codes = [d \in Codes |-> NoCode] /\ browser = {}
  /\ user = [s \in States |-> Nobody] /\ callback = [s \in States |-> Nobody]
  /\ age = <<>> /\ file = NoCreds
  /\ proc = [p \in Procs |-> [Ready EXCEPT !.pc = IF p = "daemon" THEN "start" ELSE "idle"]]
  /\ known = FALSE /\ commands = 0 /\ outages = 0
  /\ submitted = [d \in Codes |-> {}] /\ chosen = Nobody /\ muddled = FALSE
-----------------------------------------------------------------------------
\* Coord: the user enters a code.  Whether it has expired is not looked at,
\* and a state from an earlier attempt is replaced.
handleVerifySubmit(d, s, e) ==
  /\ codes[d].at = "pending" /\ user[s] = Nobody
  /\ codes' = [codes EXCEPT ![d].state = s]
  /\ user' = [user EXCEPT ![s] = e]
  /\ submitted' = [submitted EXCEPT ![d] = @ \union {e}]
  /\ UNCHANGED <<browser, callback, age, file, proc, known, commands, outages,
                 chosen, muddled>>

handleBrowserLogin(s, e) ==
  /\ user[s] = Nobody
  /\ user' = [user EXCEPT ![s] = e] /\ browser' = browser \union {s}
  /\ UNCHANGED <<codes, callback, age, file, proc, known, commands, outages, history>>

\* The provider sends the browser back: the state belongs to a browser login,
\* which it ends, or to a device code that is not completed.
handleCallback(s) ==
  /\ callback[s] = Nobody /\ user[s] # Nobody
  /\ \/ /\ s \in browser
        /\ browser' = browser \ {s} /\ callback' = [callback EXCEPT ![s] = "browser"]
     \/ /\ s \notin browser /\ UNCHANGED browser
        /\ \E d \in Codes : codes[d].at = "pending" /\ codes[d].state = s
                            /\ callback' = [callback EXCEPT ![s] = d]
  /\ UNCHANGED <<codes, user, age, file, proc, known, commands, outages, history>>

\* The rest of it, once the provider has answered.  The code may have been
\* removed meanwhile: then the tokens are written where nobody reads them.
exchangeCodeForEmail(s) ==
  LET d == callback[s]
  IN /\ d # Nobody /\ callback' = [callback EXCEPT ![s] = Nobody]
     /\ \E n \in 1..MaxTokens :
          /\ Issue(n)
          /\ codes' = IF d \in Codes /\ codes[d].at \in {"pending", "completed"}
                      THEN [codes EXCEPT ![d].at = "completed", ![d].email = user[s],
                                         ![d].token = n]
                      ELSE codes
     /\ UNCHANGED <<browser, user, file, proc, known, commands, outages, history>>

ExchangeFails(s) ==
  /\ callback[s] # Nobody /\ callback' = [callback EXCEPT ![s] = Nobody]
  /\ UNCHANGED <<codes, browser, user, age, file, proc, known, commands, outages, history>>

\* StartCleanup's ticker.
Cleanup ==
  /\ \E d \in Codes : codes[d].expired /\ codes[d].at \in {"pending", "completed"}
  /\ codes' = [d \in Codes |-> IF codes[d].expired THEN [NoCode EXCEPT !.at = "gone"]
                               ELSE codes[d]]
  /\ UNCHANGED <<browser, user, callback, age, file, proc, known, commands, outages, history>>

\* Fifteen minutes pass.
CodeExpires(d) ==
  /\ codes[d].at \in {"pending", "completed"} /\ ~codes[d].expired
  /\ codes' = [codes EXCEPT ![d].expired = TRUE]
  /\ UNCHANGED <<browser, user, callback, age, file, proc, known, commands, outages, history>>

TokenAges(n) ==
  /\ n \in DOMAIN age /\ age[n] < 2 /\ age' = [age EXCEPT ![n] = @ + 1]
  /\ UNCHANGED <<server, file, proc, known, commands, outages, history>>
-----------------------------------------------------------------------------
Becomes(p, next) == proc' = [proc EXCEPT ![p] = next]
Stops(p)         == Becomes(p, [Ready EXCEPT !.pc = IF p = "daemon" THEN "failed" ELSE "idle"])

\* SaveCredentials of creds, which were made from the copy `from` of the file.
SaveCredentials(creds, from) ==
  /\ file' = creds
  /\ muddled' = (muddled \/ file # from)

\* The daemon starts: saved credentials, refreshed if need be, or a login.
resolveAuth ==
  LET d == proc["daemon"]
  IN /\ At("daemon", "start")
     /\ Becomes("daemon",
          IF file = NoCreds THEN [d EXCEPT !.pc = "ask"]
          ELSE IF NeedsRefresh(file) THEN [d EXCEPT !.pc = "refresh", !.creds = file]
          ELSE [d EXCEPT !.pc = "register", !.token = file.token])
     /\ UNCHANGED <<server, age, file, known, commands, outages, history>>

\* Variant: the file is written without its team.
RefreshIfNeeded_DropsTeam(p) ==
  /\ proc[p].pc \in {"refresh", "beat"}
  /\ \E n \in 1..MaxTokens :
       /\ Issue(n)
       /\ SaveCredentials([proc[p].creds EXCEPT !.token = n, !.team = Nobody], proc[p].creds)
       /\ Becomes(p, [Ready EXCEPT !.pc = "register", !.token = n])
  /\ UNCHANGED <<server, known, commands, outages, submitted, chosen>>

\* Coord checks the refresh token and issues a new pair; it keeps no record, so
\* a refresh token can be used again.
handleRefresh(n) == Issue(n)

\* Coord answers the refresh; the copy of the file read before is changed and
\* written back.
RefreshIfNeeded(p) ==
  /\ proc[p].pc \in {"refresh", "beat"}
  /\ \E n \in 1..MaxTokens :
       /\ handleRefresh(n)
       /\ SaveCredentials([proc[p].creds EXCEPT !.token = n], proc[p].creds)
       /\ Becomes(p, [Ready EXCEPT !.pc = "register", !.token = n])
  /\ UNCHANGED <<server, known, commands, outages, submitted, chosen>>

\* At start a login follows; after a heartbeat the old token is kept.
RefreshFails(p) ==
  /\ proc[p].pc \in {"refresh", "beat"}
  /\ Becomes(p, [proc[p] EXCEPT !.pc = IF At(p, "refresh") THEN "ask" ELSE "register",
                                !.creds = NoCreds])
  /\ UNCHANGED <<server, age, file, known, commands, outages, history>>

RequestDeviceCode(p) ==
  /\ At(p, "ask")
  /\ \E d \in Codes :
       /\ codes[d].at = "new" /\ codes' = [codes EXCEPT ![d].at = "pending"]
       /\ Becomes(p, [proc[p] EXCEPT !.pc = "poll", !.code = d])
  /\ UNCHANGED <<browser, user, callback, age, file, known, commands, outages, history>>

\* Coord out of reach: the daemon goes on without a token.
RequestFails(p) ==
  /\ At(p, "ask")
  /\ IF p = "daemon" THEN Becomes(p, [Ready EXCEPT !.pc = "register"]) ELSE Stops(p)
  /\ UNCHANGED <<server, age, file, known, commands, outages, history>>

\* Coord's answer to a poll removes a code that has expired or is completed.
handleDeviceToken(d) ==
  codes' = IF codes[d].expired \/ codes[d].at = "completed"
           THEN [codes EXCEPT ![d] = [NoCode EXCEPT !.at = "gone"]] ELSE codes

\* An answer other than "authorization_pending", which changes nothing.
PollForToken(p) ==
  LET d == codes[proc[p].code]
  IN /\ At(p, "poll") /\ (d.at # "pending" \/ d.expired)
     /\ handleDeviceToken(proc[p].code)
     /\ IF d.at = "completed" /\ ~d.expired
        THEN Becomes(p, [proc[p] EXCEPT !.pc = "save",
                           !.creds = [email |-> d.email, token |-> d.token, team |-> Nobody]])
        ELSE Stops(p)
     /\ UNCHANGED <<browser, user, callback, age, file, known, commands, outages, history>>

\* Coord answers, the answer is lost, and the client polls again.
PollLost(p) ==
  /\ At(p, "poll") /\ outages < MaxOutages /\ outages' = outages + 1
  /\ handleDeviceToken(proc[p].code)
  /\ UNCHANGED <<browser, user, callback, age, file, proc, known, commands, history>>

\* A login writes a file of its own, without a team.
SaveLogin(p) ==
  /\ At(p, "save")
  /\ file' = proc[p].creds /\ chosen' = Nobody
  /\ Becomes(p, IF p = "daemon"
                THEN [Ready EXCEPT !.pc = "register", !.token = proc[p].creds.token]
                ELSE [Ready EXCEPT !.pc = "list"])
  /\ UNCHANGED <<server, age, known, commands, outages, submitted, muddled>>
-----------------------------------------------------------------------------
\* One command at a time, in a shell.
Command ==
  At("cli", "idle") /\ commands < MaxCommands /\ commands' = commands + 1

login ==
  /\ Command /\ (file # NoCreds => IsExpired(file))
  /\ Becomes("cli", [Ready EXCEPT !.pc = "ask"])
  /\ UNCHANGED <<server, age, file, known, outages, history>>

logout ==
  /\ Command /\ file' = NoCreds /\ chosen' = Nobody
  /\ UNCHANGED <<server, age, proc, known, outages, submitted, muddled>>

\* Without credentials a command has no connection to coord, and ends.
teamCoordClient == file # NoCreds

\* The command reads the file and asks coord: to activate the user's team
\* after a login, to switch to team t (Nobody is personal mode) or to delete it.
ReadsFile ==
  /\ \/ At("cli", "list") /\ UNCHANGED commands
        /\ \E t \in Teams : Becomes("cli", [Ready EXCEPT !.pc = "activate", !.creds = file, !.team = t])
     \/ Command /\ \E t \in Teams \union {Nobody}, cmd \in {"switch", "delete"} :
          /\ cmd = "delete" => t # Nobody
          /\ Becomes("cli", [Ready EXCEPT !.pc = cmd, !.creds = file, !.team = t])
  /\ teamCoordClient
  /\ UNCHANGED <<server, age, file, known, outages, history>>

\* A team is active already if another process has chosen one.
activateTeam ==
  LET creds == proc["cli"].creds
  IN /\ At("cli", "activate") /\ Stops("cli")
     /\ \/ /\ creds.team = Nobody /\ chosen' = proc["cli"].team
           /\ SaveCredentials([creds EXCEPT !.team = proc["cli"].team], creds)
        \/ UNCHANGED <<file, chosen, muddled>>
     /\ UNCHANGED <<server, age, known, commands, outages, submitted>>

teamSwitch ==
  LET creds == proc["cli"].creds
  IN /\ At("cli", "switch") /\ Stops("cli")
     /\ SaveCredentials([creds EXCEPT !.team = proc["cli"].team], creds)
     /\ chosen' = proc["cli"].team
     /\ UNCHANGED <<server, age, known, commands, outages, submitted>>

teamDelete ==
  LET creds == proc["cli"].creds
  IN /\ At("cli", "delete") /\ Stops("cli")
     /\ \/ /\ creds.team = proc["cli"].team /\ chosen' = Nobody
           /\ SaveCredentials([creds EXCEPT !.team = Nobody], creds)
        \/ creds.team # proc["cli"].team /\ UNCHANGED <<file, chosen, muddled>>
     /\ UNCHANGED <<server, age, known, commands, outages, submitted>>
-----------------------------------------------------------------------------
\* registerWithRetry and reRegister try until coord accepts.
Register ==
  LET n == proc["daemon"].token
  IN /\ At("daemon", "register") /\ n # 0 /\ age[n] < 2
     /\ known' = TRUE /\ Becomes("daemon", [proc["daemon"] EXCEPT !.pc = "run"])
     /\ UNCHANGED <<server, age, file, commands, outages, history>>

\* Variant: a rejected heartbeat is only logged.
BeatRejected_NoRegister ==
  /\ At("daemon", "run") /\ ~known /\ proc["daemon"].token = 0
  /\ Becomes("daemon", [proc["daemon"] EXCEPT !.pc = "register"])
  /\ UNCHANGED <<server, age, file, known, commands, outages, history>>

\* Coord does not know the node: the daemon registers, with the token it has.
BeatRejected ==
  /\ At("daemon", "run") /\ ~known
  /\ Becomes("daemon", [proc["daemon"] EXCEPT !.pc = "register"])
  /\ UNCHANGED <<server, age, file, known, commands, outages, history>>

\* The call fails: the token is refreshed from the file if it can be.
HeartbeatFails ==
  LET d == proc["daemon"]
  IN /\ At("daemon", "run") /\ outages < MaxOutages /\ outages' = outages + 1
     /\ Becomes("daemon",
          IF file = NoCreds THEN [d EXCEPT !.pc = "register"]
          ELSE IF NeedsRefresh(file) THEN [d EXCEPT !.pc = "beat", !.creds = file]
          ELSE [d EXCEPT !.pc = "register", !.token = file.token])
     /\ UNCHANGED <<server, age, file, known, commands, history>>

\* Coord's reaper, or a restart of coord with a new database.
Forgotten ==
  /\ known /\ outages < MaxOutages
  /\ known' = FALSE /\ outages' = outages + 1
  /\ UNCHANGED <<server, age, file, proc, commands, history>>
-----------------------------------------------------------------------------
CoordSide ==
  \/ \E s \in States :
       \/ \E e \in Emails : \/ \E d \in Codes : handleVerifySubmit(d, s, e)
                            \/ handleBrowserLogin(s, e)
       \/ handleCallback(s) \/ exchangeCodeForEmail(s) \/ ExchangeFails(s)
  \/ Cleanup \/ Forgotten
  \/ \E d \in Codes : CodeExpires(d)
  \/ \E n \in 1..MaxTokens : TokenAges(n)

Client(p) ==
  \/ RefreshIfNeeded(p) \/ RefreshFails(p) \/ RequestDeviceCode(p) \/ RequestFails(p)
  \/ PollForToken(p) \/ PollLost(p) \/ SaveLogin(p)

Daemon  == resolveAuth \/ Register \/ BeatRejected \/ HeartbeatFails
Cli     == \/ login \/ logout \/ ReadsFile \/ activateTeam
           \/ teamSwitch \/ teamDelete

LoginNext == CoordSide \/ Daemon \/ Cli \/ \E p \in Procs : Client(p)

\* Codes expire, a client goes on polling and is answered, and the daemon goes
\* on sending heartbeats and registering; a lost call is repeated.
LoginFairness ==
  /\ \A d \in Codes : WF_loginVars(CodeExpires(d))
  /\ \A p \in Procs : WF_loginVars(PollForToken(p))
  /\ WF_loginVars(BeatRejected) /\ WF_loginVars(Register)
  /\ WF_loginVars(RefreshIfNeeded("daemon") \/ RefreshFails("daemon"))

LoginSpec == LoginInit /\ [][LoginNext]_loginVars /\ LoginFairness
-----------------------------------------------------------------------------
Creds == [email : Emails \union {Nobody}, token : 0..MaxTokens, team : Teams \union {Nobody}]

\* Every variable has its type, and tokens in use have been issued.
LoginTypeOK ==
  /\ codes \in [Codes -> [at : {"new", "pending", "completed", "gone"}, expired : BOOLEAN,
                          state : States \union {Nobody}, email : Emails \union {Nobody},
                          token : 0..Len(age)]]
  /\ browser \subseteq States /\ user \in [States -> Emails \union {Nobody}]
  /\ callback \in [States -> Codes \union {"browser", Nobody}]
  /\ file \in Creds /\ file.token <= Len(age)
  /\ \A p \in Procs : proc[p].creds \in Creds /\ proc[p].token <= Len(age)

\* The token that a client gets for its device code is that of a user who has
\* entered this code (handleVerifySubmit and handleCallback): another user's
\* login, started in a browser or for another code, never completes it.
TokenOfSubmitter ==
  \A p \in Procs : At(p, "save") => proc[p].creds.email \in submitted[proc[p].code]

\* The active team stays what the user last made it, across refreshes of the
\* token by the daemon, unless one process wrote the file from a copy that
\* another had changed since (RefreshIfNeeded and teamSwitch write all of it).
TeamStays == file # NoCreds => file.team = chosen \/ muddled

\* A client stops polling: with a token, when its code has expired, or when the
\* code is gone because an answer was lost (PollForToken).
PollEnds == \A p \in Procs : At(p, "poll") ~> ~At(p, "poll")

\* A daemon that coord has forgotten is registered again, unless its token has
\* expired or it never had one (Heartbeat and reRegister).
ComesBack ==
  (At("daemon", "run") /\ ~known) ~>
    (known \/ proc["daemon"].token = 0 \/ age[proc["daemon"].token] = 2)

\* The credentials file has the user's own token and team, across logins,
\* refreshes and commands that run at the same time (credentials.go).
CredentialsAgree == LoginTypeOK /\ TokenOfSubmitter /\ TeamStays

\* Nobody waits for ever: a client that polls is told the end, and a daemon that
\* coord has forgotten comes back (PollForToken, Heartbeat).
LoginEnds == PollEnds /\ ComesBack
=============================================================================
