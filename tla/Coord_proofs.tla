---------------------------- MODULE Coord_proofs ----------------------------
(***************************************************************************)
(* The watchers of coord's peer map, for any number of daemons, streams    *)
(* and broadcasts; coord's logins with the credentials file, for any       *)
(* number of users, codes and tokens; and the daemons that share the files *)
(* of one machine, for any number of starts and stops.                     *)
(***************************************************************************)
EXTENDS Coord, Login, Startup, TLAPS

WatchType ==
  /\ watchers \in [Nodes -> Streams \union {None}]
  /\ streamPc \in [Streams -> {"new", "sent", "watching", "ended"}]
  /\ streamNode \in [Streams -> Nodes \union {None}]
  /\ current \in [Nodes -> Streams \union {None}]
  /\ closed \subseteq Streams

\* A stream that was begun has its daemon, and a channel exists, and so can be
\* closed, only once AddWatcher has run.
Begun ==
  \A s \in Streams : /\ streamPc[s] # "new" => streamNode[s] \in Nodes
                     /\ s \in closed => streamPc[s] \in {"watching", "ended"}

\* WatchersLive is inductive together with these.
WatchInv == WatchType /\ Begun /\ WatchersLive

streamVars == <<watchers, streamPc, streamNode, current, closed>>

\* No stream is open at the start.
LEMMA WatchInit == Init => WatchInv
BY Zenon, CoordBounds DEF Init, WatchInv, WatchType, Begun, WatchersLive

\* Steps of the store leave the streams alone.
LEMMA WatchFrame == WatchInv /\ UNCHANGED streamVars => WatchInv'
BY DEF WatchInv, WatchType, Begun, WatchersLive, streamVars

\* A stream that WatchPeerMap opens is of a known daemon.
LEMMA WatchPeerMapStep ==
  ASSUME WatchInv, NEW n \in Nodes, WatchPeerMap(n) PROVE WatchInv'
<1>1. PICK s \in Streams : /\ streamPc[s] = "new"
                           /\ streamPc' = [streamPc EXCEPT ![s] = "sent"]
                           /\ streamNode' = [streamNode EXCEPT ![s] = n]
                           /\ current' = [current EXCEPT ![n] = s]
  BY Zenon DEF WatchPeerMap, Unused
<1>2. UNCHANGED <<watchers, closed>>
  BY Zenon DEF WatchPeerMap
<1>. QED
  BY SMTT(20), <1>1, <1>2, CoordBounds DEF WatchInv, WatchType, Begun, WatchersLive

\* Its AddWatcher replaces the entry of that daemon only.
LEMMA AddWatcherStep ==
  ASSUME WatchInv, NEW s \in Streams, AddWatcher(s) PROVE WatchInv'
<1>1. streamNode[s] \in Nodes /\ s \notin closed
  BY Zenon DEF WatchInv, Begun, AddWatcher
<1>. QED
  BY SMTT(20), <1>1 DEF WatchInv, WatchType, Begun, WatchersLive, AddWatcher

\* The handler of s takes the entry of its daemon out of the map, whether it
\* is its own or a newer one; entries of other daemons are of other streams.
LEMMA WatchEndStep ==
  ASSUME WatchInv, NEW s \in Streams, WatchEnd(s) PROVE WatchInv'
<1>. DEFINE n == streamNode[s]
<1>1. /\ n \in Nodes /\ streamPc[s] \in {"sent", "watching"}
      /\ streamPc' = [streamPc EXCEPT ![s] = "ended"]
      /\ streamNode' = streamNode
      /\ current' = IF current[n] = s THEN [current EXCEPT ![n] = None]
                                      ELSE current
  BY Zenon DEF WatchInv, Begun, WatchEnd
<1>2. CASE streamPc[s] = "watching"
  <2>1. /\ closed' = closed \union ({watchers[n]} \ {None})
        /\ watchers' = [watchers EXCEPT ![n] = None]
    BY Zenon, <1>2 DEF WatchEnd, RemoveWatcher
  <2>2. WatchType'
    BY Zenon, <1>1, <2>1 DEF WatchInv, WatchType
  <2>3. Begun'
    BY SMTT(20), <1>1, <2>1 DEF WatchInv, WatchType, Begun, WatchersLive
  <2>4. ASSUME NEW m \in Nodes, watchers'[m] # None
        PROVE  /\ watchers'[m] \notin closed'
               /\ streamPc'[watchers'[m]] = "watching"
               /\ streamNode'[watchers'[m]] = m
    <3>1. m # n /\ watchers'[m] = watchers[m]
      BY Zenon, <2>1, <2>4, <1>1 DEF WatchInv, WatchType
    <3>2. /\ watchers[m] \in Streams /\ watchers[m] \notin closed
          /\ streamPc[watchers[m]] = "watching"
          /\ streamNode[watchers[m]] = m
      BY SMTT(20), <2>4, <3>1 DEF WatchInv, WatchType, WatchersLive
    <3>3. watchers[m] # s /\ watchers[m] # watchers[n]
      BY SMTT(20), <3>1, <3>2, <1>1, CoordBounds DEF WatchInv, WatchType, WatchersLive
    <3>. QED
      BY Zenon, <1>1, <2>1, <3>1, <3>2, <3>3 DEF WatchInv, WatchType
  <2>. QED
    BY Zenon, <2>2, <2>3, <2>4 DEF WatchInv, WatchersLive
<1>3. CASE streamPc[s] = "sent"
  <2>1. UNCHANGED <<watchers, closed>>
    BY Zenon, <1>3 DEF WatchEnd
  <2>. QED
    BY SMTT(20), <1>1, <1>3, <2>1 DEF WatchInv, WatchType, Begun, WatchersLive
<1>. QED
  BY Zenon, <1>1, <1>2, <1>3

\* Broadcast sends on no closed channel and to no handler that has returned
\* (WatchersLive), however the streams of however many daemons come and go.
THEOREM WatchersStayLive == Spec => []WatchersLive
<1>1. WatchInv /\ [Next]_vars => WatchInv'
  <2>. SUFFICES ASSUME WatchInv, [Next]_vars PROVE WatchInv'
    BY Zenon
  <2>1. ASSUME NEW r \in Requests, RegisterCheck(r) \/ RegisterUpsert(r)
        PROVE  WatchInv'
    BY Zenon, <2>1, WatchFrame DEF RegisterCheck, RegisterUpsert, watchVars, streamVars
  <2>2. ASSUME NEW n \in Nodes,
               \/ \E hs \in SUBSET MayHost[n] : HandleChange(n, hs)
               \/ HeartbeatSend(n) \/ Heartbeat(n)
               \/ HeartbeatRejected(n) \/ HeartbeatError(n) \/ Reap(n)
        PROVE  WatchInv'
    BY Zenon, <2>2, WatchFrame DEF HandleChange, HeartbeatSend, Heartbeat,
         HeartbeatRejected, HeartbeatError, Reap, watchVars, streamVars
  <2>3. ASSUME NEW c \in Callers, CastBuild(c) \/ CastHash(c) \/ CastSend(c)
        PROVE  WatchInv'
    BY Zenon, <2>3, WatchFrame DEF CastBuild, CastHash, CastSend, watchVars, streamVars
  <2>4. ASSUME NEW n \in Nodes, StreamBreaks(n) PROVE WatchInv'
    BY Zenon, <2>4 DEF StreamBreaks, WatchInv, WatchType, Begun, WatchersLive
  <2>5. ASSUME NEW s \in Streams, WatchSend(s) PROVE WatchInv'
    BY Zenon, <2>5, WatchFrame DEF WatchSend, streamVars
  <2>6. CASE UNCHANGED vars
    BY Zenon, <2>6, WatchFrame DEF vars, streamVars
  <2>. QED
    BY Zenon, <2>1, <2>2, <2>3, <2>4, <2>5, <2>6, WatchPeerMapStep, AddWatcherStep,
       WatchEndStep DEF Next
<1>2. WatchInv => WatchersLive
  BY Zenon DEF WatchInv
<1>. QED
  BY <1>1, <1>2, WatchInit, PTL DEF Spec

-----------------------------------------------------------------------------
(* Logins and the credentials file.                                        *)

ClientPcs == {"start", "ask", "refresh", "beat", "register", "poll", "save", "list", "run",
              "failed", "idle", "activate", "switch", "delete"}
CodeRec(n) == [at : {"new", "pending", "completed", "gone"}, expired : BOOLEAN,
               state : States \union {Nobody}, email : Emails \union {Nobody}, token : 0..n]
ProcRec == [pc : ClientPcs, code : Codes \union {Nobody}, creds : Creds, token : 0..MaxTokens,
            team : Teams \union {Nobody}]

\* Coord's side: a state and a completed code are of users who entered the code.
CodesInv ==
  /\ age \in Seq(0..2) /\ Len(age) <= MaxTokens
  /\ codes \in [Codes -> CodeRec(Len(age))]
  /\ browser \subseteq States /\ user \in [States -> Emails \union {Nobody}]
  /\ callback \in [States -> Codes \union {"browser", Nobody}]
  /\ submitted \in [Codes -> SUBSET Emails]
  /\ \A d \in Codes, s \in States : codes[d].state = s => user[s] \in submitted[d]
  /\ \A s \in States : callback[s] \in Codes => user[s] \in submitted[callback[s]]
  /\ \A d \in Codes : codes[d].at = "completed" => codes[d].email \in submitted[d]

\* A client: its tokens were issued, a client that polls has a code, what it is
\* about to save is of a user who entered that code and has no team, and a
\* refresh works on a file that was there.
ClientOK(x) ==
  /\ x \in ProcRec /\ x.token <= Len(age) /\ x.creds.token <= Len(age)
  /\ x.pc \in {"poll", "save"} => x.code \in Codes
  /\ x.pc = "save" => x.creds.email \in submitted[x.code] /\ x.creds.team = Nobody
  /\ x.pc \in {"refresh", "beat"} => x.creds # NoCreds

FileInv ==
  /\ file \in Creds /\ file.token <= Len(age)
  /\ chosen \in Teams \union {Nobody} /\ muddled \in BOOLEAN
  /\ TeamStays

LoginInv ==
  /\ CodesInv /\ FileInv
  /\ proc \in [Procs -> ProcRec] /\ \A p \in Procs : ClientOK(proc[p])

\* LoginInv is what CredentialsAgree says, and more.
LEMMA LoginInvShows == LoginInv => CredentialsAgree
<1> SUFFICES ASSUME LoginInv PROVE CredentialsAgree
  BY Zenon
<1>1. \A p \in Procs : proc[p].creds \in Creds /\ proc[p].token <= Len(age)
  BY Zenon DEF LoginInv, ClientOK, ProcRec
<1>2. LoginTypeOK
  BY Zenon, <1>1 DEF LoginInv, CodesInv, FileInv, LoginTypeOK, CodeRec
<1>3. TokenOfSubmitter
  BY Zenon DEF LoginInv, ClientOK, TokenOfSubmitter, At
<1> QED
  BY Zenon, <1>2, <1>3 DEF LoginInv, FileInv, CredentialsAgree

\* Nobody has logged in at the start.
LEMMA LoginStarts == LoginInit => LoginInv
<1> SUFFICES ASSUME LoginInit PROVE LoginInv
  BY Zenon
<1>1. /\ codes = [d \in Codes |-> NoCode] /\ browser = {}
      /\ user = [s \in States |-> Nobody] /\ callback = [s \in States |-> Nobody]
      /\ age = <<>> /\ file = NoCreds
      /\ proc = [p \in Procs |-> [Ready EXCEPT !.pc = IF p = "daemon" THEN "start" ELSE "idle"]]
      /\ submitted = [d \in Codes |-> {}] /\ chosen = Nobody /\ muddled = FALSE
  BY Zenon DEF LoginInit
<1>2. NoCreds \in Creds /\ NoCreds.token = 0 /\ Len(age) = 0 /\ age \in Seq(0..2) /\ 0 <= MaxTokens
  BY <1>1, LoginAssumption DEF NoCreds, Creds
<1>3. NoCode \in CodeRec(0) /\ NoCode.state = Nobody /\ NoCode.at = "new"
  BY DEF NoCode, CodeRec
<1>4. CodesInv
  <2>1. /\ codes \in [Codes -> CodeRec(Len(age))]
        /\ user \in [States -> Emails \union {Nobody}]
        /\ callback \in [States -> Codes \union {"browser", Nobody}]
        /\ submitted \in [Codes -> SUBSET Emails]
    BY Zenon, <1>1, <1>2, <1>3
  <2>2. /\ \A d \in Codes : codes[d].state = Nobody /\ codes[d].at # "completed"
        /\ \A s \in States : callback[s] = Nobody
    BY Zenon, <1>1, <1>3
  <2>3. Nobody \notin States /\ Nobody \notin Codes
    BY Zenon, LoginAssumption
  <2> QED
    BY Zenon, <1>1, <1>2, <2>1, <2>2, <2>3 DEF CodesInv
<1>5. FileInv
  <2>1. file \in Creds /\ file.token <= Len(age)
    BY <1>1, <1>2
  <2> QED
    BY Zenon, <1>1, <2>1 DEF FileInv, TeamStays
<1>6. ASSUME NEW p \in Procs PROVE ClientOK(proc[p])
  <2>1. PICK x : x = proc[p]
    BY Zenon
  <2>2. /\ x \in ProcRec /\ x.pc \in {"start", "idle"} /\ x.token = 0 /\ x.creds = NoCreds
    BY <1>1, <1>2, <2>1, LoginAssumption DEF Ready, ProcRec, ClientPcs
  <2>3. x.token <= Len(age) /\ x.creds.token <= Len(age)
    BY <1>2, <2>2
  <2>4. x.pc \notin {"poll", "save", "refresh", "beat"}
    BY Zenon, <2>2
  <2>5. ClientOK(x)
    BY Zenon, <2>2, <2>3, <2>4 DEF ClientOK
  <2> QED
    BY Zenon, <2>1, <2>5
<1>7. proc \in [Procs -> ProcRec]
  BY Zenon, <1>1, <1>6 DEF ClientOK
<1> QED
  BY Zenon, <1>4, <1>5, <1>6, <1>7 DEF LoginInv

\* Tokens issued stay issued.
LEMMA IssueType ==
  ASSUME CodesInv, NEW n \in 1..MaxTokens, Issue(n)
  PROVE  age' \in Seq(0..2) /\ Len(age') = Len(age) + 1 /\ n = Len(age') /\ Len(age') <= MaxTokens
<1>1. age \in Seq(0..2) /\ Len(age) < MaxTokens /\ age' = Append(age, 0) /\ n = Len(age) + 1
  BY Zenon DEF CodesInv, Issue
<1> QED
  BY <1>1, LoginAssumption

\* A client is as it should be with more tokens and more users of its code.
LEMMA ClientKept ==
  ASSUME NEW x, ClientOK(x), Len(age) \in Nat, Len(age') \in Nat, Len(age) <= Len(age'),
         \A d \in Codes : submitted[d] \subseteq submitted'[d]
  PROVE  ClientOK(x)'
<1>1. x.token \in Nat /\ x.creds.token \in Nat
  BY LoginAssumption DEF ClientOK, ProcRec, Creds
<1>2. x.token <= Len(age') /\ x.creds.token <= Len(age')
  BY <1>1 DEF ClientOK
<1> QED
  BY Zenon, <1>2 DEF ClientOK

\* The clients when one of them becomes x, or none changes.
LEMMA ClientsKept ==
  ASSUME LoginInv, Len(age') \in Nat, Len(age) <= Len(age'),
         \A d \in Codes : submitted[d] \subseteq submitted'[d],
         proc' = proc \/ \E p \in Procs, x \in ProcRec : ClientOK(x)' /\ proc' = [proc EXCEPT ![p] = x]
  PROVE  proc' \in [Procs -> ProcRec] /\ (\A q \in Procs : ClientOK(proc[q]))'
<1>1. Len(age) \in Nat /\ proc \in [Procs -> ProcRec]
  BY DEF LoginInv, CodesInv
<1>2. ASSUME NEW q \in Procs PROVE ClientOK(proc[q])'
  <2>1. PICK y, z : y = proc[q] /\ z = proc'[q]
    BY Zenon
  <2>2. ClientOK(y)
    BY Zenon, <2>1 DEF LoginInv
  <2>3. ClientOK(y)'
    BY Zenon, <1>1, <2>2, ClientKept
  <2>4. z = y \/ ClientOK(z)'
    BY Zenon, <1>1, <2>1
  <2>5. ClientOK(z)'
    BY Zenon, <2>3, <2>4
  <2> QED
    BY Zenon, <2>1, <2>5 DEF ClientOK
<1>3. proc' \in [Procs -> ProcRec]
  BY Zenon, <1>1
<1> QED
  BY Zenon, <1>2, <1>3

\* Coord's side is left alone, but for a token that is issued.
LEMMA CodesKept ==
  ASSUME CodesInv, UNCHANGED <<codes, browser, user, callback, submitted>>,
         age' \in Seq(0..2), Len(age) <= Len(age'), Len(age') <= MaxTokens
  PROVE  CodesInv'
<1>1. Len(age) \in Nat /\ Len(age') \in Nat
  BY DEF CodesInv
<1>2. codes' \in [Codes -> CodeRec(Len(age'))]
  BY <1>1 DEF CodesInv, CodeRec
<1>3. /\ codes' = codes /\ browser' = browser /\ user' = user /\ callback' = callback
      /\ submitted' = submitted
  BY Zenon
<1> QED
  BY Zenon, <1>2, <1>3 DEF CodesInv

\* Nothing is written to the file.
LEMMA FileKept ==
  ASSUME FileInv, UNCHANGED <<file, chosen, muddled>>, Len(age) \in Nat, Len(age') \in Nat,
         Len(age) <= Len(age')
  PROVE  FileInv'
<1>1. file \in Creds /\ file.token <= Len(age) /\ file' = file /\ chosen' = chosen /\ muddled' = muddled
  BY Zenon DEF FileInv
<1>2. file.token \in Nat
  BY <1>1, LoginAssumption DEF Creds
<1>3. file'.token <= Len(age')
  BY <1>1, <1>2
<1>4. TeamStays'
  <2>1. TeamStays
    BY Zenon DEF FileInv
  <2> QED
    BY SMT, <1>1, <2>1 DEF TeamStays
<1> QED
  BY Zenon, <1>1, <1>3, <1>4 DEF FileInv

\* A step of coord's side that issues at most a token.
LEMMA CoordMoves ==
  ASSUME LoginInv, CodesInv', UNCHANGED <<file, proc, chosen, muddled>>, Len(age) <= Len(age'),
         \A d \in Codes : submitted[d] \subseteq submitted'[d]
  PROVE  LoginInv'
<1>1. Len(age) \in Nat /\ Len(age') \in Nat
  BY DEF LoginInv, CodesInv
<1>2. FileInv'
  BY Zenon, <1>1, FileKept DEF LoginInv
<1>3. proc' \in [Procs -> ProcRec] /\ (\A q \in Procs : ClientOK(proc[q]))'
  BY Zenon, <1>1, ClientsKept
<1> QED
  BY Zenon, <1>2, <1>3 DEF LoginInv

\* handleVerifySubmit: the state is of a user who is among those of the code.
LEMMA SubmitStep ==
  ASSUME LoginInv, NEW d \in Codes, NEW s \in States, NEW e \in Emails, handleVerifySubmit(d, s, e)
  PROVE  LoginInv'
<1>1. /\ user[s] = Nobody /\ codes' = [codes EXCEPT ![d].state = s]
      /\ user' = [user EXCEPT ![s] = e] /\ submitted' = [submitted EXCEPT ![d] = @ \union {e}]
      /\ UNCHANGED <<browser, callback, age, file, proc, chosen, muddled>>
  BY Zenon DEF handleVerifySubmit
<1>2. CodesInv
  BY Zenon DEF LoginInv
<1>3. /\ user \in [States -> Emails \union {Nobody}] /\ submitted \in [Codes -> SUBSET Emails]
      /\ codes \in [Codes -> CodeRec(Len(age))] /\ Len(age) \in Nat
  BY <1>2 DEF CodesInv
<1>4. /\ user' \in [States -> Emails \union {Nobody}] /\ user'[s] = e
      /\ \A r \in States : r # s => user'[r] = user[r]
  BY Zenon, <1>1, <1>3
<1>5. /\ submitted' \in [Codes -> SUBSET Emails] /\ e \in submitted'[d]
      /\ \A c \in Codes : submitted[c] \subseteq submitted'[c]
  BY Zenon, <1>1, <1>3
<1>6. codes' \in [Codes -> CodeRec(Len(age))]
  <2>1. [codes[d] EXCEPT !.state = s] \in CodeRec(Len(age))
    BY Zenon, <1>3 DEF CodeRec
  <2> QED
    BY Zenon, <1>1, <1>3, <2>1
<1>7. /\ \A c \in Codes : c # d => codes'[c] = codes[c]
      /\ codes'[d].state = s /\ codes'[d].at = codes[d].at /\ codes'[d].email = codes[d].email
  BY Zenon, <1>1, <1>3 DEF CodeRec
<1>8. \A c \in Codes : Nobody \notin submitted[c]
  BY Zenon, <1>3, LoginAssumption
<1>9. ASSUME NEW c \in Codes, NEW r \in States, codes'[c].state = r PROVE user'[r] \in submitted'[c]
  <2>1. CASE c = d
    BY Zenon, <1>4, <1>5, <1>7, <1>9, <2>1
  <2>2. CASE c # d
    <3>1. user[r] \in submitted[c]
      BY Zenon, <1>2, <1>7, <1>9, <2>2 DEF CodesInv
    <3>2. r # s
      BY Zenon, <1>1, <1>8, <3>1
    <3> QED
      BY Zenon, <1>4, <1>5, <3>1, <3>2
  <2> QED
    BY Zenon, <2>1, <2>2
<1>10. ASSUME NEW r \in States, callback'[r] \in Codes PROVE user'[r] \in submitted'[callback'[r]]
  <2>1. callback'[r] = callback[r] /\ user[r] \in submitted[callback[r]]
    BY Zenon, <1>1, <1>2, <1>10 DEF CodesInv
  <2>2. r # s
    BY Zenon, <1>1, <1>8, <1>10, <2>1
  <2> QED
    BY Zenon, <1>4, <1>5, <1>10, <2>1, <2>2
<1>11. \A c \in Codes : codes'[c].at = "completed" => codes'[c].email \in submitted'[c]
  BY Zenon, <1>2, <1>5, <1>7 DEF CodesInv
<1>12. CodesInv'
  BY Zenon, <1>1, <1>2, <1>4, <1>5, <1>6, <1>9, <1>10, <1>11 DEF CodesInv
<1>13. Len(age) <= Len(age')
  BY <1>1, <1>3
<1> QED
  BY Zenon, <1>1, <1>5, <1>12, <1>13, CoordMoves

\* Codes lose their state or are completed by a user who entered them, and no
\* user enters one.
LEMMA CodesMove ==
  ASSUME CodesInv, UNCHANGED <<user, submitted>>, browser' \subseteq States,
         age' \in Seq(0..2), Len(age') <= MaxTokens,
         codes' \in [Codes -> CodeRec(Len(age'))],
         callback' \in [States -> Codes \union {"browser", Nobody}],
         \A d \in Codes : codes'[d].state \in {codes[d].state, Nobody},
         \A d \in Codes : codes'[d].at = "completed" => codes'[d].email \in submitted[d],
         \A s \in States : callback'[s] \in Codes =>
            callback'[s] = callback[s] \/ user[s] \in submitted[callback'[s]]
  PROVE  CodesInv'
<1>1. user' = user /\ submitted' = submitted
  BY Zenon
<1>2. ASSUME NEW d \in Codes, NEW s \in States, codes'[d].state = s PROVE user'[s] \in submitted'[d]
  <2>1. Nobody # s
    BY Zenon, LoginAssumption
  <2>2. codes[d].state = s
    BY Zenon, <1>2, <2>1
  <2> QED
    BY Zenon, <1>1, <2>2 DEF CodesInv
<1>3. ASSUME NEW s \in States, callback'[s] \in Codes PROVE user'[s] \in submitted'[callback'[s]]
  <2>1. CASE callback'[s] = callback[s]
    BY Zenon, <1>1, <1>3, <2>1 DEF CodesInv
  <2> QED
    BY Zenon, <1>1, <1>3, <2>1
<1>4. \A d \in Codes : codes'[d].at = "completed" => codes'[d].email \in submitted'[d]
  BY Zenon, <1>1
<1> QED
  BY Zenon, <1>1, <1>2, <1>3, <1>4 DEF CodesInv

\* handleBrowserLogin: the state is new, so no code has it.
LEMMA BrowserStep ==
  ASSUME LoginInv, NEW s \in States, NEW e \in Emails, handleBrowserLogin(s, e)
  PROVE  LoginInv'
<1>1. /\ user[s] = Nobody /\ user' = [user EXCEPT ![s] = e] /\ browser' = browser \union {s}
      /\ UNCHANGED <<codes, callback, age, file, proc, submitted, chosen, muddled>>
  BY Zenon DEF handleBrowserLogin, history
<1>2. CodesInv
  BY Zenon DEF LoginInv
<1>3. /\ user \in [States -> Emails \union {Nobody}] /\ submitted \in [Codes -> SUBSET Emails]
      /\ Len(age) \in Nat /\ browser \subseteq States
  BY <1>2 DEF CodesInv
<1>4. /\ user' \in [States -> Emails \union {Nobody}] /\ browser' \subseteq States
      /\ \A r \in States : r # s => user'[r] = user[r]
  BY Zenon, <1>1, <1>3
<1>5. \A c \in Codes : Nobody \notin submitted[c]
  BY Zenon, <1>3, LoginAssumption
<1>6. ASSUME NEW c \in Codes, NEW r \in States, codes[c].state = r PROVE user'[r] \in submitted[c]
  BY Zenon, <1>1, <1>2, <1>4, <1>5, <1>6 DEF CodesInv
<1>7. ASSUME NEW r \in States, callback[r] \in Codes PROVE user'[r] \in submitted[callback[r]]
  BY Zenon, <1>1, <1>2, <1>4, <1>5, <1>7 DEF CodesInv
<1>8. CodesInv'
  BY Zenon, <1>1, <1>2, <1>4, <1>6, <1>7 DEF CodesInv
<1>9. Len(age) <= Len(age') /\ \A d \in Codes : submitted[d] \subseteq submitted'[d]
  BY <1>1, <1>3
<1> QED
  BY Zenon, <1>1, <1>8, <1>9, CoordMoves

\* A step on codes, callbacks and browser logins, which may issue a token.
LEMMA CodesMoved ==
  ASSUME LoginInv, UNCHANGED <<user, submitted, file, proc, chosen, muddled>>,
         browser' \subseteq States, age' \in Seq(0..2), Len(age) <= Len(age'), Len(age') <= MaxTokens,
         codes' \in [Codes -> CodeRec(Len(age'))],
         callback' \in [States -> Codes \union {"browser", Nobody}],
         \A d \in Codes : codes'[d].state \in {codes[d].state, Nobody},
         \A d \in Codes : codes'[d].at = "completed" => codes'[d].email \in submitted[d],
         \A s \in States : callback'[s] \in Codes =>
            callback'[s] = callback[s] \/ user[s] \in submitted[callback'[s]]
  PROVE  LoginInv'
<1>1. CodesInv'
  BY Zenon, CodesMove DEF LoginInv
<1>2. \A d \in Codes : submitted[d] \subseteq submitted'[d]
  BY Zenon
<1> QED
  BY Zenon, <1>1, <1>2, CoordMoves

\* What coord's codes are, for the steps that leave most of them.
LEMMA CodesAre ==
  ASSUME LoginInv
  PROVE  /\ CodesInv /\ age \in Seq(0..2) /\ Len(age) \in Nat /\ Len(age) <= MaxTokens /\ Len(age) <= Len(age)
         /\ codes \in [Codes -> CodeRec(Len(age))] /\ browser \subseteq States
         /\ user \in [States -> Emails \union {Nobody}]
         /\ callback \in [States -> Codes \union {"browser", Nobody}]
         /\ submitted \in [Codes -> SUBSET Emails]
         /\ \A d \in Codes : codes[d].state \in {codes[d].state, Nobody}
         /\ \A d \in Codes : codes[d].at = "completed" => codes[d].email \in submitted[d]
<1>1. CodesInv
  BY Zenon DEF LoginInv
<1>2. Len(age) \in Nat /\ Len(age) <= Len(age)
  BY <1>1 DEF CodesInv
<1> QED
  BY Zenon, <1>1, <1>2 DEF CodesInv

\* handleCallback: a device code's state is of one of its users.
LEMMA CallbackStep ==
  ASSUME LoginInv, NEW s \in States, handleCallback(s)
  PROVE  LoginInv'
<1>1. UNCHANGED <<codes, user, age, submitted, file, proc, chosen, muddled>>
  BY Zenon DEF handleCallback, history
<1>2. PICK y \in Codes \union {"browser"} : /\ callback' = [callback EXCEPT ![s] = y]
                                            /\ y \in Codes => codes[y].state = s
  BY Zenon, LoginAssumption DEF handleCallback
<1>3. browser' \subseteq States
  BY Zenon, CodesAre DEF handleCallback
<1>4. /\ callback' \in [States -> Codes \union {"browser", Nobody}] /\ callback'[s] = y
      /\ \A r \in States : r # s => callback'[r] = callback[r]
  BY Zenon, <1>2, CodesAre
<1>5. ASSUME NEW r \in States, callback'[r] \in Codes
      PROVE  callback'[r] = callback[r] \/ user[r] \in submitted[callback'[r]]
  <2>1. CASE r = s
    <3>1. y \in Codes /\ callback'[r] = y
      BY Zenon, <1>4, <1>5, <2>1
    <3>2. user[s] \in submitted[y]
      BY Zenon, <1>2, <3>1, CodesAre DEF CodesInv
    <3> QED
      BY Zenon, <2>1, <3>1, <3>2
  <2> QED
    BY Zenon, <1>4, <2>1
<1>6. /\ age' \in Seq(0..2) /\ Len(age) <= Len(age') /\ Len(age') <= MaxTokens
      /\ codes' \in [Codes -> CodeRec(Len(age'))]
      /\ \A d \in Codes : codes'[d].state \in {codes[d].state, Nobody}
      /\ \A d \in Codes : codes'[d].at = "completed" => codes'[d].email \in submitted[d]
  BY Zenon, <1>1, CodesAre
<1> QED
  BY Zenon, <1>1, <1>3, <1>4, <1>5, <1>6, CodesMoved

\* One code becomes y, with tokens that were issued.
LEMMA CodeBecomes ==
  ASSUME LoginInv, NEW d \in Codes, NEW y, codes' = [codes EXCEPT ![d] = y],
         Len(age') \in Nat, Len(age) <= Len(age'), y \in CodeRec(Len(age')),
         y.state \in {codes[d].state, Nobody}, y.at = "completed" => y.email \in submitted[d]
  PROVE  /\ codes' \in [Codes -> CodeRec(Len(age'))]
         /\ \A c \in Codes : codes'[c].state \in {codes[c].state, Nobody}
         /\ \A c \in Codes : codes'[c].at = "completed" => codes'[c].email \in submitted[c]
<1>1. codes \in [Codes -> CodeRec(Len(age))] /\ Len(age) \in Nat
  BY Zenon, CodesAre
<1>2. codes'[d] = y /\ \A c \in Codes : c # d => codes'[c] = codes[c]
  BY Zenon, <1>1
<1>3. \A c \in Codes : codes[c] \in CodeRec(Len(age'))
  BY <1>1 DEF CodeRec
<1>4. codes' \in [Codes -> CodeRec(Len(age'))]
  BY Zenon, <1>1, <1>3
<1>5. ASSUME NEW c \in Codes
      PROVE  /\ codes'[c].state \in {codes[c].state, Nobody}
             /\ codes'[c].at = "completed" => codes'[c].email \in submitted[c]
  <2>1. CASE c = d
    BY Zenon, <1>2, <2>1
  <2> QED
    BY Zenon, <1>2, <2>1, CodesAre
<1> QED
  BY Zenon, <1>4, <1>5

\* A callback that is answered leaves the others.
LEMMA CallbackEnds ==
  ASSUME LoginInv, NEW s \in States, callback' = [callback EXCEPT ![s] = Nobody]
  PROVE  /\ callback' \in [States -> Codes \union {"browser", Nobody}]
         /\ \A r \in States : callback'[r] \in Codes => callback'[r] = callback[r]
<1>1. callback \in [States -> Codes \union {"browser", Nobody}]
  BY Zenon, CodesAre
<1>2. callback' \in [States -> Codes \union {"browser", Nobody}] /\ callback'[s] = Nobody
  BY Zenon, <1>1
<1>3. \A r \in States : r # s => callback'[r] = callback[r]
  BY Zenon, <1>1
<1>4. Nobody \notin Codes
  BY Zenon, LoginAssumption
<1> QED
  BY Zenon, <1>2, <1>3, <1>4

\* exchangeCodeForEmail: the code is completed for a user who entered it.
LEMMA ExchangeStep ==
  ASSUME LoginInv, NEW s \in States, exchangeCodeForEmail(s)
  PROVE  LoginInv'
<1>1. PICK d : d = callback[s]
  BY Zenon
<1>2. PICK n \in 1..MaxTokens :
        /\ Issue(n)
        /\ codes' = IF d \in Codes /\ codes[d].at \in {"pending", "completed"}
                    THEN [codes EXCEPT ![d].at = "completed", ![d].email = user[s], ![d].token = n]
                    ELSE codes
  BY Zenon, <1>1 DEF exchangeCodeForEmail
<1>3. /\ callback' = [callback EXCEPT ![s] = Nobody]
      /\ UNCHANGED <<browser, user, submitted, file, proc, chosen, muddled>>
  BY Zenon DEF exchangeCodeForEmail, history
<1>4. CodesInv
  BY Zenon, CodesAre
<1>5. age' \in Seq(0..2) /\ Len(age') = Len(age) + 1 /\ n = Len(age') /\ Len(age') <= MaxTokens
  BY Zenon, <1>2, <1>4, IssueType
<1>6. Len(age) \in Nat /\ Len(age') \in Nat /\ Len(age) <= Len(age') /\ n \in 0..Len(age')
  BY <1>5, CodesAre
<1>7. /\ codes' \in [Codes -> CodeRec(Len(age'))]
      /\ \A c \in Codes : codes'[c].state \in {codes[c].state, Nobody}
      /\ \A c \in Codes : codes'[c].at = "completed" => codes'[c].email \in submitted[c]
  <2>1. CASE d \in Codes /\ codes[d].at \in {"pending", "completed"}
    <3>1. PICK y : y = [codes[d] EXCEPT !.at = "completed", !.email = user[s], !.token = n]
      BY Zenon
    <3>2. codes[d] \in CodeRec(Len(age)) /\ user[s] \in Emails \union {Nobody}
      BY Zenon, <2>1, CodesAre
    <3>3. /\ y \in CodeRec(Len(age')) /\ y.state = codes[d].state /\ y.email = user[s]
      BY Zenon, <1>6, <3>1, <3>2 DEF CodeRec
    <3>4. user[s] \in submitted[d]
      BY Zenon, <1>1, <1>4, <2>1 DEF CodesInv
    <3>5. codes' = [codes EXCEPT ![d] = y]
      BY Zenon, <1>2, <2>1, <3>1, <3>2, CodesAre DEF CodeRec
    <3>6. d \in Codes /\ y.state \in {codes[d].state, Nobody} /\ (y.at = "completed" => y.email \in submitted[d])
      BY Zenon, <2>1, <3>3, <3>4
    <3> QED
      BY Zenon, <1>6, <3>3, <3>5, <3>6, CodeBecomes
  <2>2. CASE ~(d \in Codes /\ codes[d].at \in {"pending", "completed"})
    <3>1. codes' = codes
      BY Zenon, <1>2, <2>2
    <3>2. codes' \in [Codes -> CodeRec(Len(age'))]
      BY <1>6, <3>1, CodesAre DEF CodeRec
    <3> QED
      BY Zenon, <3>1, <3>2, CodesAre
  <2> QED
    BY Zenon, <2>1, <2>2
<1>8. /\ callback' \in [States -> Codes \union {"browser", Nobody}]
      /\ \A r \in States : callback'[r] \in Codes => callback'[r] = callback[r]
  BY Zenon, <1>3, CallbackEnds
<1>9. browser' \subseteq States
  BY Zenon, <1>3, CodesAre
<1> QED
  BY Zenon, <1>3, <1>5, <1>6, <1>7, <1>8, <1>9, CodesMoved

\* ExchangeFails
LEMMA ExchangeFailsStep ==
  ASSUME LoginInv, NEW s \in States, ExchangeFails(s)
  PROVE  LoginInv'
<1>1. /\ callback' = [callback EXCEPT ![s] = Nobody] /\ codes' = codes /\ age' = age /\ browser' = browser
      /\ UNCHANGED <<user, submitted, file, proc, chosen, muddled>>
  BY Zenon DEF ExchangeFails, history
<1>2. /\ callback' \in [States -> Codes \union {"browser", Nobody}]
      /\ \A r \in States : callback'[r] \in Codes => callback'[r] = callback[r]
  BY Zenon, <1>1, CallbackEnds
<1>3. /\ age' \in Seq(0..2) /\ Len(age) <= Len(age') /\ Len(age') <= MaxTokens /\ browser' \subseteq States
      /\ codes' \in [Codes -> CodeRec(Len(age'))]
      /\ \A d \in Codes : codes'[d].state \in {codes[d].state, Nobody}
      /\ \A d \in Codes : codes'[d].at = "completed" => codes'[d].email \in submitted[d]
  BY Zenon, <1>1, CodesAre
<1> QED
  BY Zenon, <1>1, <1>2, <1>3, CodesMoved

\* Only codes change.
LEMMA OnlyCodes ==
  ASSUME LoginInv, UNCHANGED <<browser, user, callback, age, submitted, file, proc, chosen, muddled>>,
         codes' \in [Codes -> CodeRec(Len(age))],
         \A d \in Codes : codes'[d].state \in {codes[d].state, Nobody},
         \A d \in Codes : codes'[d].at = "completed" => codes'[d].email \in submitted[d]
  PROVE  LoginInv'
<1>1. /\ age' = age /\ browser' = browser /\ callback' = callback
      /\ UNCHANGED <<user, submitted, file, proc, chosen, muddled>>
  BY Zenon
<1>2. /\ age' \in Seq(0..2) /\ Len(age) <= Len(age') /\ Len(age') <= MaxTokens /\ browser' \subseteq States
      /\ codes' \in [Codes -> CodeRec(Len(age'))]
      /\ callback' \in [States -> Codes \union {"browser", Nobody}]
  BY Zenon, <1>1, CodesAre
<1>3. \A s \in States : callback'[s] \in Codes => callback'[s] = callback[s]
  BY Zenon, <1>1
<1> QED
  BY Zenon, <1>1, <1>2, <1>3, CodesMoved

\* Cleanup
LEMMA CleanupStep == ASSUME LoginInv, Cleanup PROVE LoginInv'
<1>1. /\ codes' = [d \in Codes |-> IF codes[d].expired THEN [NoCode EXCEPT !.at = "gone"] ELSE codes[d]]
      /\ UNCHANGED <<browser, user, callback, age, submitted, file, proc, chosen, muddled>>
  BY Zenon DEF Cleanup, history
<1>2. PICK g : g = [NoCode EXCEPT !.at = "gone"]
  BY Zenon
<1>3. g \in CodeRec(Len(age)) /\ g.state = Nobody /\ g.at # "completed"
  <2>1. g = [at |-> "gone", expired |-> FALSE, state |-> Nobody, email |-> Nobody, token |-> 0]
    BY Zenon, <1>2 DEF NoCode
  <2>2. 0 \in 0..Len(age)
    BY CodesAre
  <2>3. g \in CodeRec(Len(age))
    BY Zenon, <2>1, <2>2 DEF CodeRec
  <2> QED
    BY Zenon, <2>1, <2>3
<1>4. \A d \in Codes : codes'[d] = g \/ codes'[d] = codes[d]
  BY Zenon, <1>1, <1>2
<1>5. codes' \in [Codes -> CodeRec(Len(age))]
  BY Zenon, <1>1, <1>2, <1>3, CodesAre
<1>6. /\ \A d \in Codes : codes'[d].state \in {codes[d].state, Nobody}
      /\ \A d \in Codes : codes'[d].at = "completed" => codes'[d].email \in submitted[d]
  BY Zenon, <1>3, <1>4, CodesAre
<1> QED
  BY Zenon, <1>1, <1>5, <1>6, OnlyCodes

\* CodeExpires
LEMMA ExpiresStep == ASSUME LoginInv, NEW d \in Codes, CodeExpires(d) PROVE LoginInv'
<1>1. /\ codes' = [codes EXCEPT ![d].expired = TRUE] /\ age' = age
      /\ UNCHANGED <<browser, user, callback, age, submitted, file, proc, chosen, muddled>>
  BY Zenon DEF CodeExpires, history
<1>2. PICK y : y = [codes[d] EXCEPT !.expired = TRUE]
  BY Zenon
<1>3. codes[d] \in CodeRec(Len(age)) /\ Len(age') \in Nat /\ Len(age) <= Len(age')
  BY Zenon, <1>1, CodesAre
<1>4. /\ y \in CodeRec(Len(age')) /\ y.state = codes[d].state /\ y.email = codes[d].email /\ y.at = codes[d].at
  BY Zenon, <1>1, <1>2, <1>3 DEF CodeRec
<1>5. codes' = [codes EXCEPT ![d] = y]
  BY Zenon, <1>1, <1>2, <1>3, CodesAre DEF CodeRec
<1>6. y.state \in {codes[d].state, Nobody} /\ (y.at = "completed" => y.email \in submitted[d])
  BY Zenon, <1>4, CodesAre
<1>7. /\ codes' \in [Codes -> CodeRec(Len(age'))]
      /\ \A c \in Codes : codes'[c].state \in {codes[c].state, Nobody}
      /\ \A c \in Codes : codes'[c].at = "completed" => codes'[c].email \in submitted[c]
  BY Zenon, <1>3, <1>4, <1>5, <1>6, CodeBecomes
<1>8. codes' \in [Codes -> CodeRec(Len(age))]
  BY Zenon, <1>1, <1>7
<1> QED
  BY Zenon, <1>1, <1>7, <1>8, OnlyCodes

\* TokenAges
LEMMA AgesStep == ASSUME LoginInv, NEW n, TokenAges(n) PROVE LoginInv'
<1>1. /\ n \in DOMAIN age /\ age[n] < 2 /\ age' = [age EXCEPT ![n] = @ + 1]
      /\ UNCHANGED <<codes, browser, user, callback, submitted, file, proc, chosen, muddled>>
  BY Zenon DEF TokenAges, server, history
<1>2. CodesInv /\ age \in Seq(0..2) /\ Len(age) \in Nat /\ Len(age) <= MaxTokens
  BY Zenon, CodesAre
<1>3. PICK k : k = age[n] + 1
  BY Zenon
<1>4. k \in 0..2
  BY <1>1, <1>2, <1>3
<1>5. age' = [age EXCEPT ![n] = k]
  BY Zenon, <1>1, <1>3
<1>6. age' \in Seq(0..2) /\ Len(age') = Len(age)
  BY <1>1, <1>2, <1>4, <1>5
<1>7. Len(age) <= Len(age') /\ Len(age') <= MaxTokens /\ \A d \in Codes : submitted[d] \subseteq submitted'[d]
  BY <1>1, <1>2, <1>6
<1>8. CodesInv'
  BY Zenon, <1>1, <1>2, <1>6, <1>7, CodesKept
<1> QED
  BY Zenon, <1>1, <1>7, <1>8, CoordMoves

\* A step that touches neither codes nor the file.
LEMMA LoginStays ==
  ASSUME LoginInv, UNCHANGED <<codes, browser, user, callback, age, submitted, file, proc, chosen, muddled>>
  PROVE  LoginInv'
<1>1. /\ UNCHANGED <<browser, user, callback, age, submitted, file, proc, chosen, muddled>>
      /\ codes' = codes
  BY Zenon
<1>2. codes' \in [Codes -> CodeRec(Len(age))]
  BY Zenon, <1>1, CodesAre
<1>3. /\ \A d \in Codes : codes'[d].state \in {codes[d].state, Nobody}
      /\ \A d \in Codes : codes'[d].at = "completed" => codes'[d].email \in submitted[d]
  BY Zenon, <1>1, CodesAre
<1> QED
  BY Zenon, <1>1, <1>2, <1>3, OnlyCodes

\* Every step of coord's side.
LEMMA CoordSideStep == ASSUME LoginInv, CoordSide PROVE LoginInv'
<1>1. CASE Forgotten
  BY Zenon, <1>1, LoginStays DEF Forgotten, server, history
<1>2. CASE \E s \in States, e \in Emails, d \in Codes : handleVerifySubmit(d, s, e)
  BY Zenon, <1>2, SubmitStep
<1>3. CASE \E s \in States, e \in Emails : handleBrowserLogin(s, e)
  BY Zenon, <1>3, BrowserStep
<1>4. CASE \E s \in States : handleCallback(s) \/ exchangeCodeForEmail(s) \/ ExchangeFails(s)
  BY Zenon, <1>4, CallbackStep, ExchangeStep, ExchangeFailsStep
<1>5. CASE Cleanup \/ (\E d \in Codes : CodeExpires(d)) \/ \E n \in 1..MaxTokens : TokenAges(n)
  BY Zenon, <1>5, CleanupStep, ExpiresStep, AgesStep
<1> QED
  BY Zenon, <1>1, <1>2, <1>3, <1>4, <1>5 DEF CoordSide

\* A client in a state without promises has only issued tokens.
LEMMA TurnOK ==
  ASSUME NEW x \in ProcRec, x.token <= Len(age), x.creds.token <= Len(age),
         x.pc \notin {"poll", "save", "refresh", "beat"}
  PROVE  ClientOK(x)
BY Zenon DEF ClientOK

\* A client takes a step of its own.
LEMMA ClientTurns ==
  ASSUME LoginInv, UNCHANGED <<codes, browser, user, callback, age, submitted, file, chosen, muddled>>,
         NEW p \in Procs, NEW x, ClientOK(x), proc' = [proc EXCEPT ![p] = x]
  PROVE  LoginInv'
<1>1. /\ UNCHANGED <<codes, browser, user, callback, submitted>> /\ UNCHANGED <<file, chosen, muddled>>
      /\ age' = age /\ submitted' = submitted
  BY Zenon
<1>2. /\ age' \in Seq(0..2) /\ Len(age) \in Nat /\ Len(age') \in Nat /\ Len(age) <= Len(age')
      /\ Len(age') <= MaxTokens /\ CodesInv
  BY Zenon, <1>1, CodesAre
<1>3. \A d \in Codes : submitted[d] \subseteq submitted'[d]
  BY Zenon, <1>1
<1>4. CodesInv' /\ FileInv'
  BY Zenon, <1>1, <1>2, CodesKept, FileKept DEF LoginInv
<1>5. ClientOK(x)' /\ x \in ProcRec
  BY Zenon, <1>2, <1>3, ClientKept DEF ClientOK
<1>6. proc' \in [Procs -> ProcRec] /\ (\A q \in Procs : ClientOK(proc[q]))'
  BY Zenon, <1>2, <1>3, <1>5, ClientsKept
<1> QED
  BY Zenon, <1>4, <1>6 DEF LoginInv

\* What a client is, for the steps that leave most of it.
LEMMA ClientsAre ==
  ASSUME LoginInv, NEW p \in Procs
  PROVE  /\ proc \in [Procs -> ProcRec] /\ proc[p] \in ProcRec /\ ClientOK(proc[p]) /\ Len(age) \in Nat
         /\ proc[p].token \in 0..Len(age) /\ proc[p].creds \in Creds /\ proc[p].creds.token \in 0..Len(age)
         /\ file \in Creds /\ file.token \in 0..Len(age) /\ Len(age) <= MaxTokens
         /\ proc[p].team \in Teams \union {Nobody} /\ proc[p].code \in Codes \union {Nobody}
<1>1. /\ proc \in [Procs -> ProcRec] /\ ClientOK(proc[p]) /\ proc[p] \in ProcRec
      /\ file \in Creds /\ file.token <= Len(age) /\ Len(age) \in Nat /\ Len(age) <= MaxTokens
      /\ proc[p].token <= Len(age) /\ proc[p].creds.token <= Len(age)
  BY Zenon, CodesAre DEF LoginInv, ClientOK, FileInv
<1>2. /\ proc[p].token \in 0..MaxTokens /\ proc[p].creds \in Creds
      /\ proc[p].team \in Teams \union {Nobody} /\ proc[p].code \in Codes \union {Nobody}
  BY Zenon, <1>1 DEF ProcRec
<1>3. proc[p].creds.token \in 0..MaxTokens /\ file.token \in 0..MaxTokens
  BY Zenon, <1>1, <1>2 DEF Creds
<1>4. proc[p].token \in 0..Len(age) /\ proc[p].creds.token \in 0..Len(age) /\ file.token \in 0..Len(age)
  BY <1>1, <1>2, <1>3, LoginAssumption
<1> QED
  BY Zenon, <1>1, <1>2, <1>4

\* A client that begins anew with an issued token, a copy of the file and a team.
LEMMA AnewOK ==
  ASSUME LoginInv, NEW k \in ClientPcs \ {"poll", "save", "refresh", "beat"}, NEW c \in Creds,
         c.token <= Len(age), NEW n \in 0..Len(age), NEW t \in Teams \union {Nobody},
         NEW x, x = [pc |-> k, code |-> Nobody, creds |-> c, token |-> n, team |-> t]
  PROVE  ClientOK(x)
<1>1. n \in 0..MaxTokens /\ n <= Len(age)
  BY CodesAre, LoginAssumption
<1>2. x \in ProcRec
  BY Zenon, <1>1 DEF ProcRec
<1>3. /\ x.token <= Len(age) /\ x.creds.token <= Len(age)
      /\ x.pc \notin {"poll", "save", "refresh", "beat"}
  BY Zenon, <1>1
<1> QED
  BY Zenon, <1>2, <1>3, TurnOK

\* The same, without a copy of the file and a team.
LEMMA ReadyOK ==
  ASSUME LoginInv, NEW k \in ClientPcs \ {"poll", "save", "refresh", "beat"}, NEW n \in 0..Len(age),
         NEW x, x = [pc |-> k, code |-> Nobody, creds |-> NoCreds, token |-> n, team |-> Nobody]
  PROVE  ClientOK(x)
<1>1. NoCreds \in Creds /\ NoCreds.token <= Len(age)
  BY CodesAre, LoginAssumption DEF NoCreds, Creds
<1> QED
  BY Zenon, <1>1, AnewOK

\* A client goes on in another state, with an issued token.
LEMMA GoesOnOK ==
  ASSUME LoginInv, NEW x \in ProcRec, x.pc \in ClientPcs \ {"poll", "save", "refresh", "beat"},
         x.creds.token <= Len(age), x.token \in 0..Len(age)
  PROVE  ClientOK(x)
<1>1. x.token <= Len(age)
  BY CodesAre
<1>2. x.pc \notin {"poll", "save", "refresh", "beat"}
  BY Zenon
<1> QED
  BY Zenon, <1>1, <1>2, TurnOK

\* A client reads the file, to refresh its token.
LEMMA ReadsOK ==
  ASSUME LoginInv, NEW p \in Procs, NEW k \in {"refresh", "beat"}, file # NoCreds,
         NEW x, x = [proc[p] EXCEPT !.pc = k, !.creds = file]
  PROVE  ClientOK(x)
<1>1. proc[p] \in ProcRec /\ file \in Creds /\ k \in ClientPcs /\ proc[p].token <= Len(age) /\ file.token <= Len(age)
  BY ClientsAre DEF ClientPcs
<1>2. x \in ProcRec /\ x.pc = k /\ x.creds = file /\ x.token = proc[p].token
  BY Zenon, <1>1 DEF ProcRec
<1>3. k # "poll" /\ k # "save"
  BY Zenon
<1> QED
  BY Zenon, <1>1, <1>2, <1>3 DEF ClientOK

\* resolveAuth and HeartbeatFails: the daemon takes what the file has.
LEMMA TakesFile ==
  ASSUME LoginInv, NEW a \in ClientPcs \ {"poll", "save", "refresh", "beat"}, NEW b \in {"refresh", "beat"},
         UNCHANGED <<codes, browser, user, callback, age, submitted, file, chosen, muddled>>,
         Becomes("daemon",
           IF file = NoCreds THEN [proc["daemon"] EXCEPT !.pc = a]
           ELSE IF NeedsRefresh(file) THEN [proc["daemon"] EXCEPT !.pc = b, !.creds = file]
           ELSE [proc["daemon"] EXCEPT !.pc = "register", !.token = file.token])
  PROVE  LoginInv'
<1>0. "daemon" \in Procs /\ "register" \in ClientPcs \ {"poll", "save", "refresh", "beat"}
  BY Zenon DEF Procs, ClientPcs
<1>1. PICK d, x : /\ d = proc["daemon"] /\ proc' = [proc EXCEPT !["daemon"] = x]
                  /\ x = IF file = NoCreds THEN [d EXCEPT !.pc = a]
                         ELSE IF NeedsRefresh(file) THEN [d EXCEPT !.pc = b, !.creds = file]
                         ELSE [d EXCEPT !.pc = "register", !.token = file.token]
  BY Zenon DEF Becomes
<1>2. /\ d \in ProcRec /\ d.creds \in Creds /\ d.token \in 0..Len(age) /\ file.token \in 0..Len(age)
      /\ d.creds.token <= Len(age) /\ file.token \in 0..MaxTokens
  BY <1>0, <1>1, ClientsAre, LoginAssumption
<1>3. CASE x = [d EXCEPT !.pc = a]
  <2>1. x \in ProcRec /\ x.pc = a /\ x.creds = d.creds /\ x.token = d.token
    BY Zenon, <1>2, <1>3 DEF ProcRec
  <2>2. ClientOK(x)
    BY Zenon, <1>0, <1>1, <1>2, <2>1, GoesOnOK
  <2> QED
    BY Zenon, <1>0, <1>1, <2>2, ClientTurns
<1>4. CASE file # NoCreds /\ x = [d EXCEPT !.pc = b, !.creds = file]
  <2>2. ClientOK(x)
    BY Zenon, <1>0, <1>1, <1>4, ReadsOK
  <2> QED
    BY Zenon, <1>0, <1>1, <2>2, ClientTurns
<1>5. CASE x = [d EXCEPT !.pc = "register", !.token = file.token]
  <2>1. x \in ProcRec /\ x.pc = "register" /\ x.creds = d.creds /\ x.token = file.token
    BY Zenon, <1>0, <1>2, <1>5 DEF ProcRec
  <2>2. ClientOK(x)
    BY Zenon, <1>0, <1>1, <1>2, <2>1, GoesOnOK
  <2> QED
    BY Zenon, <1>0, <1>1, <2>2, ClientTurns
<1> QED
  BY Zenon, <1>1, <1>3, <1>4, <1>5

\* The daemon's steps.
LEMMA DaemonStep == ASSUME LoginInv, Daemon PROVE LoginInv'
<1>0. /\ "daemon" \in Procs /\ {"refresh", "beat"} \subseteq {"refresh", "beat"}
      /\ {"ask", "register", "run"} \subseteq ClientPcs \ {"poll", "save", "refresh", "beat"}
      /\ proc["daemon"] \in ProcRec /\ proc["daemon"].creds \in Creds /\ proc["daemon"].token \in 0..Len(age)
      /\ proc["daemon"].creds.token <= Len(age)
  BY ClientsAre DEF Procs, ClientPcs
<1>1. CASE resolveAuth
  <2>1. "ask" \in ClientPcs \ {"poll", "save", "refresh", "beat"} /\ "refresh" \in {"refresh", "beat"}
    BY Zenon, <1>0
  <2> QED
    BY Zenon, <1>1, <2>1, TakesFile DEF resolveAuth, server, history
<1>2. CASE HeartbeatFails
  <2>1. "register" \in ClientPcs \ {"poll", "save", "refresh", "beat"} /\ "beat" \in {"refresh", "beat"}
    BY Zenon, <1>0
  <2> QED
    BY Zenon, <1>2, <2>1, TakesFile DEF HeartbeatFails, server, history
<1>3. CASE Register \/ BeatRejected
  <2>1. PICK k, d, x : /\ k \in {"run", "register"} /\ proc' = [proc EXCEPT !["daemon"] = x]
                       /\ d = proc["daemon"] /\ x = [d EXCEPT !.pc = k]
    BY Zenon, <1>3 DEF Register, BeatRejected, Becomes
  <2>2. UNCHANGED <<codes, browser, user, callback, age, submitted, file, chosen, muddled>>
    BY Zenon, <1>3 DEF Register, BeatRejected, server, history
  <2>4. k \in ClientPcs \ {"poll", "save", "refresh", "beat"}
    BY Zenon, <1>0, <2>1
  <2>3. x \in ProcRec /\ x.pc = k /\ x.creds = d.creds /\ x.token = d.token
    BY Zenon, <1>0, <2>1, <2>4 DEF ProcRec
  <2>5. ClientOK(x)
    BY Zenon, <1>0, <2>1, <2>3, <2>4, GoesOnOK
  <2> QED
    BY Zenon, <1>0, <2>1, <2>2, <2>5, ClientTurns
<1> QED
  BY Zenon, <1>1, <1>2, <1>3 DEF Daemon

\* A client that stops.
LEMMA StopsOK ==
  ASSUME LoginInv, NEW p \in Procs, Stops(p)
  PROVE  \E x : proc' = [proc EXCEPT ![p] = x] /\ ClientOK(x)
<1>1. PICK k, x : /\ k = IF p = "daemon" THEN "failed" ELSE "idle"
                  /\ x = [Ready EXCEPT !.pc = k] /\ proc' = [proc EXCEPT ![p] = x]
  BY Zenon DEF Stops, Becomes
<1>2. k \in ClientPcs \ {"poll", "save", "refresh", "beat"} /\ 0 \in 0..Len(age)
  BY <1>1, CodesAre DEF ClientPcs
<1>3. x = [pc |-> k, code |-> Nobody, creds |-> NoCreds, token |-> 0, team |-> Nobody]
  BY Zenon, <1>1 DEF Ready
<1>4. ClientOK(x)
  BY Zenon, <1>2, <1>3, ReadyOK
<1> QED
  BY Zenon, <1>1, <1>4

\* RefreshFails and RequestFails, and the end of a client.
LEMMA FailsStep ==
  ASSUME LoginInv, NEW p \in Procs, RefreshFails(p) \/ RequestFails(p)
  PROVE  LoginInv'
<1>0. /\ {"ask", "register", "failed", "idle"} \subseteq ClientPcs \ {"poll", "save", "refresh", "beat"}
      /\ proc[p] \in ProcRec /\ proc[p].token \in 0..Len(age) /\ 0 \in 0..Len(age)
      /\ NoCreds \in Creds /\ NoCreds.token <= Len(age)
  BY ClientsAre, LoginAssumption DEF ClientPcs, NoCreds, Creds
<1>1. UNCHANGED <<codes, browser, user, callback, age, submitted, file, chosen, muddled>>
  BY Zenon DEF RefreshFails, RequestFails, server, history
<1>2. CASE RefreshFails(p)
  <2>1. PICK k, d, x : /\ k \in {"ask", "register"} /\ proc' = [proc EXCEPT ![p] = x]
                       /\ d = proc[p] /\ x = [d EXCEPT !.pc = k, !.creds = NoCreds]
    BY Zenon, <1>2 DEF RefreshFails, Becomes
  <2>0. k \in ClientPcs \ {"poll", "save", "refresh", "beat"}
    BY Zenon, <1>0, <2>1
  <2>2. x \in ProcRec /\ x.pc = k /\ x.creds = NoCreds /\ x.token = d.token
    BY Zenon, <1>0, <2>0, <2>1 DEF ProcRec
  <2>3. ClientOK(x)
    BY Zenon, <1>0, <2>0, <2>1, <2>2, GoesOnOK
  <2> QED
    BY Zenon, <1>1, <2>1, <2>3, ClientTurns
<1>3. CASE Stops(p)
  <2>1. PICK x : proc' = [proc EXCEPT ![p] = x] /\ ClientOK(x)
    BY Zenon, <1>3, StopsOK
  <2> QED
    BY Zenon, <1>1, <2>1, ClientTurns
<1>4. CASE Becomes(p, [Ready EXCEPT !.pc = "register"])
  <2>1. PICK x : x = [Ready EXCEPT !.pc = "register"] /\ proc' = [proc EXCEPT ![p] = x]
    BY Zenon, <1>4 DEF Becomes
  <2>2. x = [pc |-> "register", code |-> Nobody, creds |-> NoCreds, token |-> 0, team |-> Nobody]
    BY Zenon, <2>1 DEF Ready
  <2>3. ClientOK(x)
    BY Zenon, <1>0, <2>2, ReadyOK
  <2> QED
    BY Zenon, <1>1, <2>1, <2>3, ClientTurns
<1> QED
  BY Zenon, <1>2, <1>3, <1>4 DEF RequestFails

\* A client's step that changes codes too.
LEMMA ClientAndCodes ==
  ASSUME LoginInv, UNCHANGED <<browser, user, callback, age, submitted, file, chosen, muddled>>,
         codes' \in [Codes -> CodeRec(Len(age))],
         \A d \in Codes : codes'[d].state \in {codes[d].state, Nobody},
         \A d \in Codes : codes'[d].at = "completed" => codes'[d].email \in submitted[d],
         NEW p \in Procs, NEW x, ClientOK(x), proc' = [proc EXCEPT ![p] = x]
  PROVE  LoginInv'
<1>1. /\ UNCHANGED <<user, submitted>> /\ UNCHANGED <<file, chosen, muddled>>
      /\ age' = age /\ submitted' = submitted /\ browser' = browser /\ callback' = callback
  BY Zenon
<1>2. /\ age' \in Seq(0..2) /\ Len(age) \in Nat /\ Len(age') \in Nat /\ Len(age) <= Len(age')
      /\ Len(age') <= MaxTokens /\ CodesInv /\ browser' \subseteq States
      /\ callback' \in [States -> Codes \union {"browser", Nobody}]
      /\ codes' \in [Codes -> CodeRec(Len(age'))]
  BY Zenon, <1>1, CodesAre
<1>3. \A d \in Codes : submitted[d] \subseteq submitted'[d]
  BY Zenon, <1>1
<1>4. CodesInv'
  BY Zenon, <1>1, <1>2, CodesMove
<1>5. FileInv'
  BY Zenon, <1>1, <1>2, FileKept DEF LoginInv
<1>6. ClientOK(x)' /\ x \in ProcRec
  BY Zenon, <1>2, <1>3, ClientKept DEF ClientOK
<1>7. proc' \in [Procs -> ProcRec] /\ (\A q \in Procs : ClientOK(proc[q]))'
  BY Zenon, <1>2, <1>3, <1>6, ClientsKept
<1> QED
  BY Zenon, <1>4, <1>5, <1>7 DEF LoginInv

\* RequestDeviceCode: a new code, that nobody has entered.
LEMMA RequestStep == ASSUME LoginInv, NEW p \in Procs, RequestDeviceCode(p) PROVE LoginInv'
<1>1. PICK d \in Codes : /\ codes[d].at = "new" /\ codes' = [codes EXCEPT ![d].at = "pending"]
                         /\ Becomes(p, [proc[p] EXCEPT !.pc = "poll", !.code = d])
  BY Zenon DEF RequestDeviceCode
<1>2. UNCHANGED <<browser, user, callback, age, submitted, file, chosen, muddled>>
  BY Zenon DEF RequestDeviceCode, history
<1>3. PICK y, x : /\ y = [codes[d] EXCEPT !.at = "pending"] /\ x = [proc[p] EXCEPT !.pc = "poll", !.code = d]
                  /\ proc' = [proc EXCEPT ![p] = x]
  BY Zenon, <1>1 DEF Becomes
<1>4. /\ codes[d] \in CodeRec(Len(age)) /\ age' = age /\ Len(age') \in Nat /\ Len(age) <= Len(age')
      /\ proc[p] \in ProcRec /\ ClientOK(proc[p])
  BY Zenon, <1>2, CodesAre, ClientsAre
<1>5. y \in CodeRec(Len(age')) /\ y.state = codes[d].state /\ y.at = "pending"
  BY Zenon, <1>3, <1>4 DEF CodeRec
<1>6. codes' = [codes EXCEPT ![d] = y]
  BY Zenon, <1>1, <1>3, <1>4, CodesAre DEF CodeRec
<1>7. y.state \in {codes[d].state, Nobody} /\ (y.at = "completed" => y.email \in submitted[d])
  <2>1. "pending" # "completed"
    BY Zenon
  <2> QED
    BY Zenon, <1>5, <2>1
<1>8. /\ codes' \in [Codes -> CodeRec(Len(age'))]
      /\ \A c \in Codes : codes'[c].state \in {codes[c].state, Nobody}
      /\ \A c \in Codes : codes'[c].at = "completed" => codes'[c].email \in submitted[c]
  BY Zenon, <1>4, <1>5, <1>6, <1>7, CodeBecomes
<1>9. codes' \in [Codes -> CodeRec(Len(age))]
  BY Zenon, <1>2, <1>8
<1>10. ClientOK(x)
  <2>1. "poll" \in ClientPcs
    BY Zenon DEF ClientPcs
  <2>2. /\ x \in ProcRec /\ x.pc = "poll" /\ x.code = d /\ x.creds = proc[p].creds /\ x.token = proc[p].token
    BY Zenon, <1>3, <1>4, <2>1 DEF ProcRec
  <2>3. "poll" \notin {"refresh", "beat", "save"}
    BY Zenon
  <2> QED
    BY Zenon, <1>4, <2>2, <2>3 DEF ClientOK
<1> QED
  BY Zenon, <1>2, <1>3, <1>8, <1>9, <1>10, ClientAndCodes

\* What coord's answer to a poll makes of the codes.
LEMMA AnswerCodes ==
  ASSUME LoginInv, NEW d \in Codes, handleDeviceToken(d)
  PROVE  /\ codes' \in [Codes -> CodeRec(Len(age))]
         /\ \A c \in Codes : codes'[c].state \in {codes[c].state, Nobody}
         /\ \A c \in Codes : codes'[c].at = "completed" => codes'[c].email \in submitted[c]
<1>1. PICK g : g = [NoCode EXCEPT !.at = "gone"]
  BY Zenon
<1>2. g = [at |-> "gone", expired |-> FALSE, state |-> Nobody, email |-> Nobody, token |-> 0]
  BY Zenon, <1>1 DEF NoCode
<1>3. 0 \in 0..Len(age)
  BY CodesAre
<1>4. g \in CodeRec(Len(age)) /\ g.at # "completed" /\ g.state = Nobody
  BY Zenon, <1>2, <1>3 DEF CodeRec
<1>5. codes' = codes \/ codes' = [codes EXCEPT ![d] = g]
  BY Zenon, <1>1 DEF handleDeviceToken
<1>6. codes' \in [Codes -> CodeRec(Len(age))] /\ \A c \in Codes : codes'[c] = codes[c] \/ codes'[c] = g
  BY Zenon, <1>4, <1>5, CodesAre
<1> QED
  BY Zenon, <1>4, <1>6, CodesAre

\* PollForToken: the token is of a user who entered the code.
LEMMA PollStep == ASSUME LoginInv, NEW p \in Procs, PollForToken(p) PROVE LoginInv'
<1>1. PICK c, d : c = proc[p].code /\ d = codes[c]
  BY Zenon
<1>2. /\ proc[p].pc = "poll" /\ handleDeviceToken(c)
      /\ IF d.at = "completed" /\ ~d.expired
         THEN Becomes(p, [proc[p] EXCEPT !.pc = "save",
                            !.creds = [email |-> d.email, token |-> d.token, team |-> Nobody]])
         ELSE Stops(p)
      /\ UNCHANGED <<browser, user, callback, age, submitted, file, chosen, muddled>>
  BY Zenon, <1>1 DEF PollForToken, At, history
<1>3. /\ proc[p] \in ProcRec /\ ClientOK(proc[p]) /\ c \in Codes /\ proc[p].token <= Len(age) /\ Len(age) <= MaxTokens
      /\ Len(age) \in Nat
  BY Zenon, <1>1, <1>2, ClientsAre DEF ClientOK
<1>4. /\ codes' \in [Codes -> CodeRec(Len(age))]
      /\ \A b \in Codes : codes'[b].state \in {codes[b].state, Nobody}
      /\ \A b \in Codes : codes'[b].at = "completed" => codes'[b].email \in submitted[b]
  BY Zenon, <1>2, <1>3, AnswerCodes
<1>5. CASE d.at = "completed" /\ ~d.expired
  <2>1. PICK r, x : /\ r = [email |-> d.email, token |-> d.token, team |-> Nobody]
                    /\ x = [proc[p] EXCEPT !.pc = "save", !.creds = r] /\ proc' = [proc EXCEPT ![p] = x]
    BY Zenon, <1>2, <1>5 DEF Becomes
  <2>2. d \in CodeRec(Len(age)) /\ d.email \in submitted[c] /\ c \in Codes
    BY Zenon, <1>1, <1>3, <1>5, CodesAre
  <2>3. d.email \in Emails \union {Nobody} /\ d.token \in 0..Len(age)
    BY Zenon, <2>2 DEF CodeRec
  <2>4. d.token \in 0..MaxTokens /\ d.token <= Len(age)
    BY <1>3, <2>3, LoginAssumption
  <2>5. r \in Creds /\ r.email = d.email /\ r.token = d.token /\ r.team = Nobody
    BY Zenon, <2>1, <2>3, <2>4 DEF Creds
  <2>6. "save" \in ClientPcs
    BY Zenon DEF ClientPcs
  <2>7. x \in ProcRec /\ x.pc = "save" /\ x.code = c /\ x.creds = r /\ x.token = proc[p].token
    BY Zenon, <1>1, <1>3, <2>1, <2>5, <2>6 DEF ProcRec
  <2>8. "save" \notin {"refresh", "beat"}
    BY Zenon
  <2>9. ClientOK(x)
    BY Zenon, <1>3, <2>2, <2>4, <2>5, <2>7, <2>8 DEF ClientOK
  <2> QED
    BY Zenon, <1>2, <1>4, <2>1, <2>9, ClientAndCodes
<1>6. CASE ~(d.at = "completed" /\ ~d.expired)
  <2>1. Stops(p)
    BY Zenon, <1>2, <1>6
  <2>2. PICK x : proc' = [proc EXCEPT ![p] = x] /\ ClientOK(x)
    BY Zenon, <2>1, StopsOK
  <2> QED
    BY Zenon, <1>2, <1>4, <2>2, ClientAndCodes
<1> QED
  BY Zenon, <1>5, <1>6

\* PollLost
LEMMA LostStep == ASSUME LoginInv, NEW p \in Procs, PollLost(p) PROVE LoginInv'
<1>1. PICK c : c = proc[p].code
  BY Zenon
<1>2. /\ proc[p].pc = "poll" /\ handleDeviceToken(c)
      /\ UNCHANGED <<browser, user, callback, age, submitted, file, proc, chosen, muddled>>
  BY Zenon, <1>1 DEF PollLost, At, history
<1>3. c \in Codes
  BY Zenon, <1>1, <1>2, ClientsAre DEF ClientOK
<1> QED
  BY Zenon, <1>2, <1>3, AnswerCodes, OnlyCodes

\* A client's step that writes the file, and may have a token issued.
LEMMA FileWritten ==
  ASSUME LoginInv, UNCHANGED <<codes, browser, user, callback, submitted>>,
         age' \in Seq(0..2), Len(age) <= Len(age'), Len(age') <= MaxTokens, FileInv',
         proc' = proc \/ \E p \in Procs, x \in ProcRec : ClientOK(x)' /\ proc' = [proc EXCEPT ![p] = x]
  PROVE  LoginInv'
<1>1. CodesInv /\ Len(age) \in Nat /\ submitted' = submitted
  BY Zenon, CodesAre
<1>2. Len(age') \in Nat /\ \A d \in Codes : submitted[d] \subseteq submitted'[d]
  BY <1>1
<1>3. CodesInv'
  BY Zenon, <1>1, CodesKept
<1>4. proc' \in [Procs -> ProcRec] /\ (\A q \in Procs : ClientOK(proc[q]))'
  BY Zenon, <1>2, ClientsKept
<1> QED
  BY Zenon, <1>3, <1>4 DEF LoginInv

\* The same for a client that has no token issued and is as it should be.
LEMMA FileWrittenBy ==
  ASSUME LoginInv, UNCHANGED <<codes, browser, user, callback, age, submitted>>, FileInv',
         NEW p \in Procs, NEW x, ClientOK(x), proc' = [proc EXCEPT ![p] = x]
  PROVE  LoginInv'
<1>1. /\ UNCHANGED <<codes, browser, user, callback, submitted>> /\ age' = age /\ submitted' = submitted
  BY Zenon
<1>2. /\ age' \in Seq(0..2) /\ Len(age) \in Nat /\ Len(age') \in Nat /\ Len(age) <= Len(age')
      /\ Len(age') <= MaxTokens
  BY Zenon, <1>1, CodesAre
<1>3. \A d \in Codes : submitted[d] \subseteq submitted'[d]
  BY Zenon, <1>1
<1>4. ClientOK(x)' /\ x \in ProcRec
  BY Zenon, <1>2, <1>3, ClientKept DEF ClientOK
<1> QED
  BY Zenon, <1>1, <1>2, <1>4, FileWritten

\* SaveCredentials keeps the team that was chosen, or the file is muddled.
LEMMA FileSaved ==
  ASSUME LoginInv, NEW c \in Creds, NEW from, c.token \in Nat, Len(age') \in Nat, c.token <= Len(age'),
         SaveCredentials(c, from), chosen' \in Teams \union {Nobody},
         file = from /\ ~muddled => c.team = chosen'
  PROVE  FileInv'
<1>1. file' = c /\ muddled' = (muddled \/ file # from) /\ muddled \in BOOLEAN
  BY Zenon DEF SaveCredentials, LoginInv, FileInv
<1>2. muddled' \in BOOLEAN
  BY Zenon, SMT, <1>1
<1>3. c.team = chosen' \/ muddled'
  BY Zenon, <1>1
<1>4. TeamStays'
  BY Zenon, SMT, <1>1, <1>3 DEF TeamStays
<1>5. file' \in Creds /\ file'.token <= Len(age')
  BY Zenon, <1>1
<1> QED
  BY Zenon, <1>2, <1>4, <1>5 DEF FileInv

\* SaveLogin: a file without a team.
LEMMA SaveStep == ASSUME LoginInv, NEW p \in Procs, SaveLogin(p) PROVE LoginInv'
<1>1. PICK c, n : c = proc[p].creds /\ n = c.token
  BY Zenon
<1>2. /\ proc[p].pc = "save" /\ file' = c /\ chosen' = Nobody /\ muddled' = muddled /\ age' = age
      /\ Becomes(p, IF p = "daemon" THEN [Ready EXCEPT !.pc = "register", !.token = n]
                    ELSE [Ready EXCEPT !.pc = "list"])
      /\ UNCHANGED <<codes, browser, user, callback, age, submitted>>
  BY Zenon, <1>1 DEF SaveLogin, At, server
<1>3. /\ c \in Creds /\ n \in 0..Len(age) /\ n <= Len(age) /\ 0 \in 0..Len(age) /\ muddled \in BOOLEAN
  BY <1>1, ClientsAre DEF LoginInv, FileInv
<1>4. c.team = Nobody
  BY Zenon, <1>1, <1>2, ClientsAre DEF ClientOK
<1>5. FileInv'
  <2>1. TeamStays'
    BY Zenon, <1>2, <1>4 DEF TeamStays
  <2>2. file' \in Creds /\ file'.token <= Len(age') /\ chosen' \in Teams \union {Nobody} /\ muddled' \in BOOLEAN
    BY Zenon, <1>1, <1>2, <1>3
  <2> QED
    BY Zenon, <2>1, <2>2 DEF FileInv
<1>6. PICK x : /\ proc' = [proc EXCEPT ![p] = x]
               /\ x = IF p = "daemon" THEN [Ready EXCEPT !.pc = "register", !.token = n]
                      ELSE [Ready EXCEPT !.pc = "list"]
  BY Zenon, <1>2 DEF Becomes
<1>7. "register" \in ClientPcs \ {"poll", "save", "refresh", "beat"} /\ "list" \in ClientPcs \ {"poll", "save", "refresh", "beat"}
  BY Zenon DEF ClientPcs
<1>8. \/ x = [pc |-> "register", code |-> Nobody, creds |-> NoCreds, token |-> n, team |-> Nobody]
      \/ x = [pc |-> "list", code |-> Nobody, creds |-> NoCreds, token |-> 0, team |-> Nobody]
  BY Zenon, <1>6 DEF Ready
<1>9. ClientOK(x)
  BY Zenon, <1>3, <1>7, <1>8, ReadyOK
<1> QED
  BY Zenon, <1>2, <1>5, <1>6, <1>9, FileWrittenBy

\* RefreshIfNeeded: the team of the copy goes with the new token.
LEMMA RefreshStep == ASSUME LoginInv, NEW p \in Procs, RefreshIfNeeded(p) PROVE LoginInv'
<1>1. PICK o : o = proc[p].creds
  BY Zenon
<1>2. PICK n \in 1..MaxTokens :
        /\ Issue(n) /\ SaveCredentials([o EXCEPT !.token = n], o)
        /\ Becomes(p, [Ready EXCEPT !.pc = "register", !.token = n])
  BY Zenon, <1>1 DEF RefreshIfNeeded, handleRefresh
<1>3. /\ proc[p].pc \in {"refresh", "beat"} /\ chosen' = chosen /\ submitted' = submitted
      /\ UNCHANGED <<codes, browser, user, callback, submitted>>
  BY Zenon DEF RefreshIfNeeded, server
<1>4. /\ o \in Creds /\ o # NoCreds /\ CodesInv /\ Len(age) \in Nat
  BY Zenon, <1>1, <1>3, ClientsAre, CodesAre DEF ClientOK
<1>5. age' \in Seq(0..2) /\ Len(age') = Len(age) + 1 /\ n = Len(age') /\ Len(age') <= MaxTokens
  BY Zenon, <1>2, <1>4, IssueType
<1>6. /\ Len(age') \in Nat /\ Len(age) <= Len(age') /\ n \in 0..MaxTokens /\ n \in Nat /\ n <= Len(age')
      /\ 0 <= Len(age')
  BY <1>4, <1>5
<1>7. PICK c : c = [o EXCEPT !.token = n]
  BY Zenon
<1>8. c \in Creds /\ c.token = n /\ c.team = o.team
  BY Zenon, <1>4, <1>6, <1>7 DEF Creds
<1>9. FileInv'
  <2>1. chosen' \in Teams \union {Nobody}
    BY Zenon, <1>3 DEF LoginInv, FileInv
  <2>2. TeamStays
    BY Zenon DEF LoginInv, FileInv
  <2>3. file = o /\ ~muddled => c.team = chosen'
    BY Zenon, <1>3, <1>4, <1>8, <2>2 DEF TeamStays
  <2>4. SaveCredentials(c, o) /\ c.token \in Nat /\ c.token <= Len(age')
    BY Zenon, <1>2, <1>6, <1>7, <1>8
  <2> QED
    BY Zenon, <1>6, <1>8, <2>1, <2>3, <2>4, FileSaved
<1>10. PICK x : x = [Ready EXCEPT !.pc = "register", !.token = n] /\ proc' = [proc EXCEPT ![p] = x]
  BY Zenon, <1>2 DEF Becomes
<1>11. x = [pc |-> "register", code |-> Nobody, creds |-> NoCreds, token |-> n, team |-> Nobody]
  BY Zenon, <1>10 DEF Ready
<1>12. "register" \in ClientPcs /\ "register" \notin {"poll", "save", "refresh", "beat"}
       /\ NoCreds \in Creds /\ NoCreds.token = 0
  BY LoginAssumption DEF ClientPcs, NoCreds, Creds
<1>13. x \in ProcRec /\ x.pc = "register" /\ x.token = n /\ x.creds = NoCreds
  BY Zenon, <1>6, <1>11, <1>12 DEF ProcRec
<1>14. ClientOK(x)'
  BY Zenon, <1>6, <1>12, <1>13 DEF ClientOK
<1> QED
  BY Zenon, <1>3, <1>5, <1>6, <1>9, <1>10, <1>13, <1>14, FileWritten

\* The steps of the client's login.
LEMMA ClientStep == ASSUME LoginInv, NEW p \in Procs, Client(p) PROVE LoginInv'
BY Zenon, RefreshStep, FailsStep, RequestStep, PollStep, LostStep, SaveStep DEF Client

\* login and ReadsFile: the command begins.
LEMMA BeginsStep == ASSUME LoginInv, login \/ ReadsFile PROVE LoginInv'
<1>0. /\ "cli" \in Procs /\ {"ask", "activate", "switch", "delete"} \subseteq ClientPcs \ {"poll", "save", "refresh", "beat"}
      /\ file \in Creds /\ file.token <= Len(age) /\ 0 \in 0..Len(age)
      /\ NoCreds \in Creds /\ NoCreds.token <= Len(age) /\ Nobody \in Teams \union {Nobody}
  BY ClientsAre, LoginAssumption DEF Procs, ClientPcs, NoCreds, Creds
<1>1. UNCHANGED <<codes, browser, user, callback, age, submitted, file, chosen, muddled>>
  BY Zenon DEF login, ReadsFile, server, history
<1>2. CASE login
  <2>1. PICK x : x = [Ready EXCEPT !.pc = "ask"] /\ proc' = [proc EXCEPT !["cli"] = x]
    BY Zenon, <1>2 DEF login, Becomes
  <2>2. x = [pc |-> "ask", code |-> Nobody, creds |-> NoCreds, token |-> 0, team |-> Nobody]
    BY Zenon, <2>1 DEF Ready
  <2>3. ClientOK(x)
    BY Zenon, <1>0, <2>2, ReadyOK
  <2> QED
    BY Zenon, <1>0, <1>1, <2>1, <2>3, ClientTurns
<1>3. CASE ReadsFile
  <2>1. PICK k \in {"activate", "switch", "delete"}, t \in Teams \union {Nobody} :
          Becomes("cli", [Ready EXCEPT !.pc = k, !.creds = file, !.team = t])
    BY Zenon, <1>3 DEF ReadsFile
  <2>2. PICK x : x = [Ready EXCEPT !.pc = k, !.creds = file, !.team = t] /\ proc' = [proc EXCEPT !["cli"] = x]
    BY Zenon, <2>1 DEF Becomes
  <2>3. x = [pc |-> k, code |-> Nobody, creds |-> file, token |-> 0, team |-> t]
    BY Zenon, <2>2 DEF Ready
  <2>4. k \in ClientPcs \ {"poll", "save", "refresh", "beat"}
    BY Zenon, <1>0, <2>1
  <2>5. ClientOK(x)
    BY Zenon, <1>0, <2>1, <2>3, <2>4, AnewOK
  <2> QED
    BY Zenon, <1>0, <1>1, <2>2, <2>5, ClientTurns
<1> QED
  BY Zenon, <1>2, <1>3

\* logout: no file and no team.
LEMMA LogoutStep == ASSUME LoginInv, logout PROVE LoginInv'
<1>1. /\ file' = NoCreds /\ chosen' = Nobody /\ muddled' = muddled /\ age' = age /\ proc' = proc
      /\ UNCHANGED <<codes, browser, user, callback, submitted>>
  BY Zenon DEF logout, server
<1>2. NoCreds \in Creds /\ NoCreds.token <= Len(age) /\ Nobody \in Teams \union {Nobody} /\ muddled \in BOOLEAN
  BY CodesAre, LoginAssumption DEF NoCreds, Creds, LoginInv, FileInv
<1>3. FileInv'
  BY Zenon, <1>1, <1>2 DEF FileInv, TeamStays
<1>4. age' \in Seq(0..2) /\ Len(age) <= Len(age') /\ Len(age') <= MaxTokens
  BY Zenon, <1>1, CodesAre
<1> QED
  BY Zenon, <1>1, <1>3, <1>4, FileWritten

\* activateTeam, teamSwitch and teamDelete: the file gets the team that is
\* chosen, or is left alone.
LEMMA TeamStep ==
  ASSUME LoginInv, activateTeam \/ teamSwitch \/ teamDelete
  PROVE  LoginInv'
<1>0. "cli" \in Procs
  BY Zenon DEF Procs
<1>1. PICK o, u : o = proc["cli"].creds /\ u = proc["cli"].team
  BY Zenon
<1>2. /\ Stops("cli") /\ UNCHANGED <<codes, browser, user, callback, age, submitted>> /\ age' = age
  BY Zenon DEF activateTeam, teamSwitch, teamDelete, server
<1>3. /\ o \in Creds /\ u \in Teams \union {Nobody} /\ o.token <= Len(age) /\ Len(age) \in Nat /\ o.token \in Nat
  BY <1>0, <1>1, ClientsAre
<1>4. PICK x : proc' = [proc EXCEPT !["cli"] = x] /\ ClientOK(x)
  BY Zenon, <1>0, <1>2, StopsOK
<1>5. \/ UNCHANGED <<file, chosen, muddled>>
      \/ \E t \in Teams \union {Nobody} : chosen' = t /\ SaveCredentials([o EXCEPT !.team = t], o)
  BY Zenon, <1>1, <1>3 DEF activateTeam, teamSwitch, teamDelete
<1>6. FileInv'
  <2>1. CASE UNCHANGED <<file, chosen, muddled>>
    <3>1. Len(age') \in Nat /\ Len(age) <= Len(age')
      BY Zenon, <1>2, CodesAre
    <3> QED
      BY Zenon, <1>3, <2>1, <3>1, FileKept DEF LoginInv
  <2>2. ASSUME NEW t \in Teams \union {Nobody}, chosen' = t, SaveCredentials([o EXCEPT !.team = t], o)
        PROVE  FileInv'
    <3>1. PICK c : c = [o EXCEPT !.team = t]
      BY Zenon
    <3>2. c \in Creds /\ c.team = t /\ c.token = o.token
      BY Zenon, <1>3, <3>1 DEF Creds
    <3>3. /\ SaveCredentials(c, o) /\ c.token \in Nat /\ c.token <= Len(age') /\ Len(age') \in Nat
          /\ chosen' \in Teams \union {Nobody} /\ (file = o /\ ~muddled => c.team = chosen')
      BY Zenon, <1>2, <1>3, <2>2, <3>1, <3>2
    <3> QED
      BY Zenon, <3>2, <3>3, FileSaved
  <2> QED
    BY Zenon, <1>5, <2>1, <2>2
<1> QED
  BY Zenon, <1>0, <1>2, <1>4, <1>6, FileWrittenBy

\* Whatever the steps of coord, the daemon and the commands, and in whatever
\* order they read and write the credentials file: tokens in use were issued, a
\* client is given the token of a user who entered its code (handleVerifySubmit,
\* handleCallback), and the active team is the one last chosen unless the file
\* was written from a stale copy (SaveCredentials).
THEOREM CredentialsStayAgreed == LoginSpec => []CredentialsAgree
<1>1. ASSUME LoginInv, [LoginNext]_loginVars PROVE LoginInv'
  <2>1. CASE LoginNext
    BY Zenon, <1>1, <2>1, CoordSideStep, DaemonStep, ClientStep, BeginsStep, LogoutStep, TeamStep
    DEF LoginNext, Cli
  <2>2. CASE UNCHANGED loginVars
    BY Zenon, <1>1, <2>2, LoginStays DEF loginVars, server, history
  <2> QED
    BY Zenon, <1>1, <2>1, <2>2
<1> QED
  BY <1>1, LoginStarts, LoginInvShows, PTL DEF LoginSpec

-----------------------------------------------------------------------------
(* The daemons of one machine.                                             *)

Daemons ==
  [pc : {"off", "exit"} \union InNew \union InRun, key : 0..MaxStarts, db : Nat,
   locked : BOOLEAN, retry : BOOLEAN, port : BOOLEAN,
   srv : {"off", "remove", "token", "bind", "listen", "stopped"},
   cancelled : BOOLEAN, stream : BOOLEAN, late : BOOLEAN]

FilesType ==
  /\ keyFile \in 0..Cut /\ dbPath \in 0..Len(records) /\ token \in 0..MaxStarts
  /\ socket \in 0..MaxStarts /\ stops \in 0..MaxStops
  /\ records \in Seq(SUBSET (1..MaxRecords)) /\ stored \in SUBSET (1..MaxRecords)

\* What the place of a process in main, New and Run says of its lock, port and
\* server: a server that is still to listen after its daemon was told to stop,
\* and a second removal of the token file, are noted as untidy.
DaemonOK(d) ==
  /\ d.locked \/ d.pc = "lock" => d.db \in 1..Len(records)
  /\ d.locked => d.pc \in InRun
  /\ d.pc \in InRun \ {"release"} => d.locked
  /\ d.port <=> d.pc \in {"serve", "drain", "close"}
  /\ d.srv # "off" => d.pc \in {"serve", "drain", "close", "release"}
  /\ d.srv = "listen" => d.pc = "serve"
  /\ d.srv \in {"remove", "token", "bind"} => d.pc = "serve" \/ untidy
  /\ d.late => untidy

\* One process has the port, one the lock of a database, and one is alive
\* unless processes overlapped.
Alone ==
  \A p, q \in Starts : p # q =>
    /\ ~(daemon[p].port /\ daemon[q].port)
    /\ ~(daemon[p].locked /\ daemon[q].locked /\ daemon[p].db = daemon[q].db)
    /\ ~(Live(p) /\ Live(q)) \/ overlap

DaemonInv ==
  /\ FilesType /\ daemon \in [Starts -> Daemons]
  /\ \A p \in Starts : DaemonOK(daemon[p])
  /\ Alone

\* The port keeps others from the socket and the token file between the
\* removal of the socket and the end of the server.
ServerInv ==
  \A p \in Starts :
    /\ daemon[p].srv = "listen" => socket = p \/ untidy
    /\ daemon[p].srv \in {"bind", "listen"} => token = p \/ untidy

\* A process has the key that is in the file from the moment it has one.
KeyInv ==
  /\ \A p \in Starts :
       daemon[p].pc \in InRun \union {"open", "lock", "probe", "remove"} =>
         keyFile = daemon[p].key \/ overlap
  /\ KeyIsWhole

\* Until a start finds no answer at the socket, there is one database.
RecordsInv ==
  blind \/ /\ \A p \in Starts : /\ daemon[p].pc # "remove"
                                /\ daemon[p].db = 0 \/ daemon[p].db = dbPath
           /\ stored # {} => dbPath # 0 /\ stored \subseteq records[dbPath]

StartInv == DaemonInv /\ ServerInv /\ KeyInv /\ RecordsInv

\* Only process p takes a step.
Advances(p) == daemon' = [daemon EXCEPT ![p] = daemon'[p]] /\ daemon'[p] \in Daemons

\* A sequence has a length.
LEMMA LengthOf == ASSUME NEW S, NEW q \in Seq(S) PROVE Len(q) \in Nat
OBVIOUS

\* The databases are numbered from 1 to the length of records.
LEMMA LengthIsNat == FilesType => Len(records) \in Nat
<1> SUFFICES ASSUME FilesType PROVE Len(records) \in Nat
  BY Zenon
<1>1. records \in Seq(SUBSET (1..MaxRecords))
  BY Zenon DEF FilesType
<1> QED
  BY <1>1

\* A step that creates no database and touches only files of the right type.
LEMMA FilesKept ==
  ASSUME FilesType, UNCHANGED <<dbPath, records, stored>>, keyFile' \in 0..Cut,
         stops' \in 0..MaxStops, socket' \in 0..MaxStarts, token' \in 0..MaxStarts
  PROVE  FilesType' /\ Len(records) <= Len(records')
<1>1. Len(records) \in Nat
  BY Zenon, LengthIsNat
<1>2. Len(records) <= Len(records')
  BY <1>1
<1>3. Cut' = Cut
  BY Zenon DEF Cut
<1>4. FilesType'
  BY Zenon, <1>3 DEF FilesType
<1> QED
  BY Zenon, <1>2, <1>4

\* A step of one process keeps DaemonInv if it leaves that process in order,
\* and if it takes the port, a lock or life only where it may.
LEMMA DaemonMoves ==
  ASSUME DaemonInv, NEW p \in Starts, Advances(p), FilesType', DaemonOK(daemon[p])',
         Len(records) <= Len(records'), untidy => untidy', overlap => overlap',
         daemon'[p].port => daemon[p].port \/ \A q \in Starts : ~daemon[q].port,
         daemon'[p].locked =>
           (daemon[p].locked /\ daemon'[p].db = daemon[p].db) \/ Holds(daemon'[p].db) = {},
         daemon'[p].pc \in InNew \union InRun =>
           Live(p) \/ overlap' \/ \A q \in Starts : ~Live(q)
  PROVE  DaemonInv'
<1>1. daemon' \in [Starts -> Daemons]
  BY Zenon DEF DaemonInv, Advances
<1>2. \A q \in Starts : q # p => daemon'[q] = daemon[q]
  BY Zenon DEF DaemonInv, Advances
<1>3. \A q \in Starts : DaemonOK(daemon[q])'
  <2> SUFFICES ASSUME NEW q \in Starts, q # p PROVE DaemonOK(daemon[q])'
    BY Zenon
  <2>1. daemon'[q] = daemon[q] /\ DaemonOK(daemon[q])
    BY Zenon, <1>2 DEF DaemonInv
  <2>2. PICK a, b : a = Len(records) /\ b = Len(records')
    BY Zenon
  <2>3. \A n : n \in 1..Len(records) => n \in 1..Len(records')
    <3>1. a \in Nat /\ b \in Nat /\ a <= b
      <4>1. Len(records) \in Nat
        BY Zenon, LengthIsNat DEF DaemonInv
      <4>2. records' \in Seq(SUBSET (1..MaxRecords))
        BY Zenon DEF FilesType
      <4>3. Len(records') \in Nat
        BY Zenon, <4>2, LengthOf
      <4> QED
        BY Zenon, <2>2, <4>1, <4>3
    <3>2. \A n : n \in 1..a => n \in 1..b
      BY <3>1
    <3> QED
      BY Zenon, <2>2, <3>2
  <2> QED
    BY Zenon, <2>1, <2>3 DEF DaemonOK
<1>4. Alone'
  <2> SUFFICES ASSUME NEW a \in Starts, NEW b \in Starts, a # b
               PROVE  /\ ~(daemon'[a].port /\ daemon'[b].port)
                      /\ ~(daemon'[a].locked /\ daemon'[b].locked /\ daemon'[a].db = daemon'[b].db)
                      /\ ~(Live(a)' /\ Live(b)') \/ overlap'
    BY Zenon DEF Alone
  <2>1. /\ ~(daemon[a].port /\ daemon[b].port)
        /\ ~(daemon[a].locked /\ daemon[b].locked /\ daemon[a].db = daemon[b].db)
        /\ ~(Live(a) /\ Live(b)) \/ overlap
    BY Zenon DEF DaemonInv, Alone
  <2>2. \A q \in Starts : Holds(daemon'[p].db) = {} /\ daemon[q].locked => daemon[q].db # daemon'[p].db
    BY Zenon DEF Holds
  <2>3. CASE a = p
    <3>1. daemon'[b] = daemon[b]
      BY Zenon, <1>2, <2>3
    <3> QED
      BY Zenon, <2>1, <2>2, <2>3, <3>1 DEF Live
  <2>4. CASE b = p
    <3>1. daemon'[a] = daemon[a]
      BY Zenon, <1>2, <2>4
    <3> QED
      BY Zenon, <2>1, <2>2, <2>4, <3>1 DEF Live
  <2>5. CASE a # p /\ b # p
    BY Zenon, <1>2, <2>1, <2>5 DEF Live
  <2> QED
    BY Zenon, <2>3, <2>4, <2>5
<1> QED
  BY Zenon, <1>1, <1>3, <1>4 DEF DaemonInv

\* A step of one process that leaves the socket and the token file alone.
LEMMA ServerMoves ==
  ASSUME DaemonInv, ServerInv, NEW p \in Starts, Advances(p),
         socket' = socket, token' = token, untidy => untidy',
         daemon'[p].srv \in {"bind", "listen"} => daemon'[p].srv = daemon[p].srv \/ untidy'
  PROVE  ServerInv'
<1> SUFFICES ASSUME NEW q \in Starts
             PROVE  /\ daemon'[q].srv = "listen" => socket' = q \/ untidy'
                    /\ daemon'[q].srv \in {"bind", "listen"} => token' = q \/ untidy'
  BY Zenon DEF ServerInv
<1>1. q # p => daemon'[q] = daemon[q]
  BY Zenon DEF DaemonInv, Advances
<1>2. /\ daemon[q].srv = "listen" => socket = q \/ untidy
      /\ daemon[q].srv \in {"bind", "listen"} => token = q \/ untidy
  BY Zenon DEF ServerInv
<1> QED
  BY Zenon, <1>1, <1>2

HasKey == InRun \union {"open", "lock", "probe", "remove"}

\* A step of one process that leaves the key file alone.
LEMMA KeyMoves ==
  ASSUME DaemonInv, KeyInv, NEW p \in Starts, Advances(p),
         keyFile' = keyFile, overlap => overlap', torn => torn',
         daemon'[p].pc \in HasKey =>
           daemon'[p].key = keyFile \/ (daemon[p].pc \in HasKey /\ daemon'[p].key = daemon[p].key),
         daemon[p].pc = "write" => daemon'[p].pc = "write" \/ torn'
  PROVE  KeyInv'
<1>1. \A q \in Starts : q # p => daemon'[q] = daemon[q]
  BY Zenon DEF DaemonInv, Advances
<1>2. ASSUME NEW q \in Starts, daemon'[q].pc \in HasKey
      PROVE  keyFile' = daemon'[q].key \/ overlap'
  BY Zenon, <1>1, <1>2 DEF KeyInv, HasKey
<1>3. KeyIsWhole'
  <2> SUFFICES ASSUME keyFile = Cut, ~torn' PROVE \E q \in Starts : daemon'[q].pc = "write"
    BY Zenon DEF KeyIsWhole, Is, Cut
  <2>1. PICK q \in Starts : daemon[q].pc = "write"
    BY Zenon DEF KeyInv, KeyIsWhole, Is
  <2> QED
    BY Zenon, <1>1, <2>1
<1> QED
  BY Zenon, <1>2, <1>3 DEF KeyInv, HasKey

\* A step of one process that leaves the database alone.
LEMMA RecordsMove ==
  ASSUME DaemonInv, RecordsInv, NEW p \in Starts, Advances(p),
         UNCHANGED <<dbPath, records, stored>>, blind => blind',
         daemon'[p].pc = "remove" => blind',
         daemon'[p].db \in {0, daemon[p].db, dbPath}
  PROVE  RecordsInv'
<1>1. \A q \in Starts : q # p => daemon'[q] = daemon[q]
  BY Zenon DEF DaemonInv, Advances
<1> SUFFICES ASSUME ~blind'
             PROVE  /\ \A q \in Starts : /\ daemon'[q].pc # "remove"
                                         /\ daemon'[q].db = 0 \/ daemon'[q].db = dbPath
                    /\ stored # {} => dbPath # 0 /\ stored \subseteq records[dbPath]
  BY Zenon DEF RecordsInv
<1> QED
  BY Zenon, <1>1 DEF RecordsInv

\* The end of a process: it gives up what it had, and the socket, the token and
\* the key file stay as they are.
LEMMA Exits ==
  ASSUME StartInv, NEW p \in Starts, daemon' = [daemon EXCEPT ![p] = Exited],
         UNCHANGED <<startFiles, stored, overlap, untidy>>, stops' \in 0..MaxStops,
         blind => blind', torn => torn', daemon[p].pc = "write" => torn'
  PROVE  StartInv'
<1>1. /\ Exited.pc = "exit" /\ Exited.db = 0 /\ ~Exited.locked /\ ~Exited.port
      /\ Exited.srv = "off" /\ ~Exited.late /\ Exited \in Daemons
  <2>1. Off \in Daemons
    <3>1. 0 \in 0..MaxStarts /\ 0 \in Nat
      BY SMTT(20), StartupAssumption
    <3> QED
      BY Zenon, <3>1 DEF Daemons, Off
  <2>2. /\ Off.db = 0 /\ ~Off.locked /\ ~Off.port /\ Off.srv = "off" /\ ~Off.late
    BY Zenon DEF Off
  <2> QED
    BY Zenon, <2>1, <2>2 DEF Exited, Daemons
<1>2. daemon'[p] = Exited /\ Advances(p)
  BY Zenon, <1>1 DEF StartInv, DaemonInv, Advances
<1>3. FilesType' /\ Len(records) <= Len(records')
  BY DEF StartInv, DaemonInv, FilesType, startFiles, Cut
<1>4. DaemonOK(daemon[p])'
  BY Zenon, <1>1, <1>2 DEF DaemonOK, InRun
<1>5. DaemonInv'
  BY Zenon, <1>1, <1>2, <1>3, <1>4, DaemonMoves DEF StartInv, InNew, InRun
<1>6. ServerInv'
  BY Zenon, <1>1, <1>2, ServerMoves DEF StartInv, startFiles
<1>7. KeyInv'
  BY Zenon, <1>1, <1>2, KeyMoves DEF StartInv, startFiles, HasKey, InRun
<1>8. RecordsInv'
  BY Zenon, <1>1, <1>2, RecordsMove DEF StartInv, startFiles
<1> QED
  BY Zenon, <1>5, <1>6, <1>7, <1>8 DEF StartInv

\* A step of one process within its run: only its own state, and perhaps the
\* count of stops, change.
LEMMA Runs ==
  ASSUME StartInv, NEW p \in Starts, Advances(p), DaemonOK(daemon[p])',
         UNCHANGED <<startFiles, stored, blind, untidy>>, stops' \in 0..MaxStops,
         overlap => overlap', torn => torn',
         daemon'[p].port => daemon[p].port \/ \A q \in Starts : ~daemon[q].port,
         daemon'[p].locked =>
           (daemon[p].locked /\ daemon'[p].db = daemon[p].db) \/ Holds(daemon'[p].db) = {},
         daemon'[p].pc \in InNew \union InRun =>
           Live(p) \/ overlap' \/ \A q \in Starts : ~Live(q),
         daemon'[p].srv \in {"bind", "listen"} => daemon'[p].srv = daemon[p].srv,
         daemon'[p].pc \in HasKey =>
           daemon'[p].key = keyFile \/ (daemon[p].pc \in HasKey /\ daemon'[p].key = daemon[p].key),
         daemon[p].pc # "write", daemon'[p].pc # "remove" \/ blind,
         daemon'[p].db \in {0, daemon[p].db}
  PROVE  StartInv'
<1>3. FilesType' /\ Len(records) <= Len(records')
  <2>1. /\ FilesType /\ keyFile' \in 0..Cut /\ socket' \in 0..MaxStarts /\ token' \in 0..MaxStarts
        /\ UNCHANGED <<dbPath, records, stored>>
    BY Zenon DEF StartInv, DaemonInv, FilesType, startFiles
  <2> QED
    BY Zenon, <2>1, FilesKept
<1>5. DaemonInv'
  BY Zenon, <1>3, DaemonMoves DEF StartInv
<1>6. ServerInv'
  BY Zenon, ServerMoves DEF StartInv, startFiles
<1>7. KeyInv'
  BY Zenon, KeyMoves DEF StartInv, startFiles
<1>8. RecordsInv'
  BY Zenon, RecordsMove DEF StartInv, startFiles
<1> QED
  BY Zenon, <1>5, <1>6, <1>7, <1>8 DEF StartInv

\* A process that goes on to another place keeps everything else.
LEMMA Goes_On ==
  ASSUME StartInv, NEW p \in Starts, NEW x \in {"off", "exit"} \union InNew \union InRun, To(p, x)
  PROVE  /\ Advances(p) /\ daemon'[p].pc = x
         /\ daemon'[p].db = daemon[p].db /\ daemon'[p].srv = daemon[p].srv
         /\ daemon'[p].locked = daemon[p].locked /\ daemon'[p].port = daemon[p].port
         /\ daemon'[p].late = daemon[p].late /\ daemon'[p].key = daemon[p].key
         /\ DaemonOK(daemon[p])
<1>1. /\ daemon[p] \in Daemons /\ DaemonOK(daemon[p])
      /\ daemon' = [daemon EXCEPT ![p] = [daemon[p] EXCEPT !.pc = x]]
  BY Zenon DEF StartInv, DaemonInv, To, Goes
<1>2. daemon'[p] = [daemon[p] EXCEPT !.pc = x] /\ Advances(p)
  BY Zenon, <1>1 DEF StartInv, DaemonInv, Advances, Daemons
<1> QED
  BY <1>1, <1>2 DEF Daemons

\* A start takes nothing, and notes an overlap.
LEMMA StartStep ==
  ASSUME StartInv, NEW p \in Starts, Start(p)
  PROVE  StartInv'
<1>1. daemon[p].pc = "off" /\ To(p, "new") /\ "new" \in InNew /\ "new" \notin HasKey \union InRun
  BY Zenon DEF Start, Spawn, Is, InNew, HasKey, InRun
<1>2. /\ UNCHANGED <<startFiles, stored, blind, torn, untidy>> /\ stops' \in 0..MaxStops
      /\ overlap => overlap'
      /\ overlap' \/ \A q \in Starts : ~Live(q)
  BY Zenon DEF Start, Spawn, StartInv, DaemonInv, FilesType
<1>3. DaemonOK(daemon[p])'
  <2>1. /\ DaemonOK(daemon[p]) /\ records' = records /\ daemon'[p].pc = "new"
        /\ daemon'[p].db = daemon[p].db /\ daemon'[p].srv = daemon[p].srv
        /\ daemon'[p].locked = daemon[p].locked /\ daemon'[p].port = daemon[p].port
        /\ daemon'[p].late = daemon[p].late
    BY Zenon, <1>1, <1>2, Goes_On DEF StartInv, DaemonInv, startFiles
  <2> QED
    BY Zenon, <1>1, <1>2, <2>1 DEF DaemonOK, InRun
<1>4. /\ Advances(p) /\ daemon'[p].pc = "new"
      /\ daemon'[p].db = daemon[p].db /\ daemon'[p].srv = daemon[p].srv
      /\ daemon'[p].locked = daemon[p].locked /\ daemon'[p].port = daemon[p].port
  BY Zenon, <1>1, Goes_On
<1> QED
  BY Zenon, <1>1, <1>2, <1>3, <1>4, Runs

\* A process that loads a key has the one in the file.
LEMMA LoadStep ==
  ASSUME StartInv, NEW p \in Starts, LoadOrGenerate(p)
  PROVE  StartInv'
<1>1. /\ daemon[p].pc = "new" /\ daemon[p] \in Daemons /\ DaemonOK(daemon[p])
      /\ UNCHANGED <<startFiles, stored, blind, overlap, torn, untidy>> /\ stops' \in 0..MaxStops
      /\ records' = records /\ Live(p) /\ keyFile \in 0..Cut
  BY Zenon DEF LoadOrGenerate, Is, StartInv, DaemonInv, FilesType, startHist, startFiles, Live, InNew
<1>2. CASE keyFile = 0
  <2>1. To(p, "key") /\ "key" \in InNew /\ "key" \notin HasKey \union InRun
    BY Zenon, <1>2 DEF LoadOrGenerate, To, InNew, HasKey, InRun
  <2>2. DaemonOK(daemon[p])'
    BY Zenon, <1>1, <2>1, Goes_On DEF DaemonOK, InRun
  <2>3. /\ Advances(p) /\ daemon'[p].pc = "key"
        /\ daemon'[p].db = daemon[p].db /\ daemon'[p].srv = daemon[p].srv
        /\ daemon'[p].locked = daemon[p].locked /\ daemon'[p].port = daemon[p].port
    BY Zenon, <2>1, Goes_On
  <2> QED
    BY Zenon, <1>1, <2>1, <2>2, <2>3, Runs
<1>3. CASE keyFile = Cut
  <2>1. daemon' = [daemon EXCEPT ![p] = Exited]
    <3>1. Cut # 0
      BY StartupAssumption DEF Cut
    <3> QED
      BY Zenon, <1>3, <3>1 DEF LoadOrGenerate, Goes
  <2> QED
    BY Zenon, <1>1, <2>1, Exits
<1>4. CASE keyFile # 0 /\ keyFile # Cut
  <2>1. daemon' = [daemon EXCEPT ![p] = [daemon[p] EXCEPT !.pc = "open", !.key = keyFile]]
    BY Zenon, <1>4 DEF LoadOrGenerate, Goes
  <2>2. keyFile \in 0..MaxStarts
    <3>1. PICK a, b : a = keyFile /\ b = MaxStarts
      BY Zenon
    <3>2. a \in 0..b + 1 /\ a # b + 1 /\ b \in Nat
      <4>1. keyFile \in 0..MaxStarts + 1 /\ keyFile # MaxStarts + 1
        BY Zenon, <1>1, <1>4 DEF Cut, FilesType
      <4> QED
        BY Zenon, <3>1, <4>1, StartupAssumption
    <3>3. a \in 0..b
      BY <3>2
    <3> QED
      BY Zenon, <3>1, <3>3
  <2>3. daemon'[p] = [daemon[p] EXCEPT !.pc = "open", !.key = keyFile] /\ Advances(p)
    BY Zenon, <1>1, <2>1, <2>2 DEF StartInv, DaemonInv, Advances, Daemons, InNew
  <2>4. /\ daemon'[p].pc = "open" /\ daemon'[p].key = keyFile
        /\ daemon'[p].db = daemon[p].db /\ daemon'[p].srv = daemon[p].srv
        /\ daemon'[p].locked = daemon[p].locked /\ daemon'[p].port = daemon[p].port
        /\ daemon'[p].late = daemon[p].late
    BY Zenon, <1>1, <2>3 DEF Daemons
  <2>5. DaemonOK(daemon[p])'
    BY Zenon, <1>1, <2>4 DEF DaemonOK, InRun
  <2> QED
    BY Zenon, <1>1, <2>3, <2>4, <2>5, Runs
<1> QED
  BY Zenon, <1>2, <1>3, <1>4

\* The lock of a database goes to one process at a time.
LEMMA LockStep ==
  ASSUME StartInv, NEW p \in Starts, Lock(p)
  PROVE  StartInv'
<1>1. /\ daemon[p].pc = "lock" /\ daemon[p] \in Daemons /\ DaemonOK(daemon[p])
      /\ UNCHANGED <<startFiles, stored, blind, overlap, torn, untidy>> /\ stops' \in 0..MaxStops
      /\ records' = records /\ Live(p) /\ "lock" \in HasKey
  BY Zenon DEF Lock, Is, StartInv, DaemonInv, FilesType, startHist, startFiles, Live, InNew, HasKey
<1>2. CASE Holds(daemon[p].db) = {}
  <2>1. daemon' = [daemon EXCEPT ![p] = [daemon[p] EXCEPT !.pc = "auth", !.locked = TRUE]]
    BY Zenon, <1>2 DEF Lock, Goes
  <2>2. daemon'[p] = [daemon[p] EXCEPT !.pc = "auth", !.locked = TRUE] /\ Advances(p)
    BY Zenon, <1>1, <2>1 DEF StartInv, DaemonInv, Advances, Daemons, InRun
  <2>3. /\ daemon'[p].pc = "auth" /\ daemon'[p].key = daemon[p].key
        /\ daemon'[p].db = daemon[p].db /\ daemon'[p].srv = daemon[p].srv
        /\ daemon'[p].locked /\ daemon'[p].port = daemon[p].port
        /\ daemon'[p].late = daemon[p].late
    BY Zenon, <1>1, <2>2 DEF Daemons
  <2>4. DaemonOK(daemon[p])'
    BY Zenon, <1>1, <2>3 DEF DaemonOK, InRun
  <2> QED
    BY Zenon, <1>1, <1>2, <2>2, <2>3, <2>4, Runs
<1>3. CASE Holds(daemon[p].db) # {} /\ daemon[p].retry
  <2>1. daemon' = [daemon EXCEPT ![p] = Exited]
    BY Zenon, <1>3 DEF Lock, Goes
  <2> QED
    BY Zenon, <1>1, <2>1, Exits
<1>4. CASE Holds(daemon[p].db) # {} /\ ~daemon[p].retry
  <2>1. daemon' = [daemon EXCEPT ![p] = [daemon[p] EXCEPT !.pc = "probe", !.db = 0]]
    BY Zenon, <1>4 DEF Lock, Goes
  <2>2. daemon'[p] = [daemon[p] EXCEPT !.pc = "probe", !.db = 0] /\ Advances(p)
    BY Zenon, <1>1, <2>1 DEF StartInv, DaemonInv, Advances, Daemons, InNew
  <2>3. /\ daemon'[p].pc = "probe" /\ daemon'[p].key = daemon[p].key
        /\ daemon'[p].db = 0 /\ daemon'[p].srv = daemon[p].srv
        /\ daemon'[p].locked = daemon[p].locked /\ daemon'[p].port = daemon[p].port
        /\ daemon'[p].late = daemon[p].late
    BY Zenon, <1>1, <2>2 DEF Daemons
  <2>4. DaemonOK(daemon[p])' /\ ~daemon'[p].locked
    BY Zenon, <1>1, <2>3 DEF DaemonOK, InRun
  <2> QED
    BY Zenon, <1>1, <2>2, <2>3, <2>4, Runs
<1> QED
  BY Zenon, <1>2, <1>3, <1>4

\* A new key is in the file as a whole before the process goes on; another
\* process that has a key makes this an overlap.
LEMMA SavingStep ==
  ASSUME StartInv, NEW p \in Starts, SavePrivateKey(p)
  PROVE  StartInv'
<1>1. /\ daemon[p].pc \in {"key", "write"} /\ daemon[p] \in Daemons /\ DaemonOK(daemon[p])
      /\ UNCHANGED <<stops, dbPath, records, token, socket, stored, blind, overlap, torn, untidy>>
      /\ Live(p) /\ Cut \in 0..Cut /\ p \in 0..Cut /\ p # Cut /\ p \in 0..MaxStarts
  BY StartupAssumption
     DEF SavePrivateKey, Is, StartInv, DaemonInv, startHist, Live, InNew, Cut, Starts
<1>2. ASSUME Advances(p), daemon'[p].pc \in {"write", "open"}, keyFile' \in 0..Cut,
             daemon'[p].db = daemon[p].db, daemon'[p].srv = daemon[p].srv,
             daemon'[p].locked = daemon[p].locked, daemon'[p].port = daemon[p].port,
             daemon'[p].late = daemon[p].late,
             daemon'[p].pc = "open" => keyFile' = daemon'[p].key, KeyIsWhole'
      PROVE  StartInv'
  <2>1. FilesType' /\ Len(records) <= Len(records')
    <3>1. FilesType /\ UNCHANGED <<dbPath, records, stored, stops, socket, token>>
      BY Zenon, <1>1 DEF StartInv, DaemonInv
    <3>2. stops' \in 0..MaxStops /\ socket' \in 0..MaxStarts /\ token' \in 0..MaxStarts
      BY Zenon, <3>1 DEF FilesType
    <3> QED
      BY Zenon, <1>2, <3>1, <3>2, FilesKept
  <2>2. DaemonOK(daemon[p])'
    BY Zenon, <1>1, <1>2 DEF DaemonOK, InRun
  <2>3. DaemonInv'
    BY Zenon, <1>1, <1>2, <2>1, <2>2, DaemonMoves DEF StartInv
  <2>4. ServerInv'
    BY Zenon, <1>1, <1>2, ServerMoves DEF StartInv
  <2>5. RecordsInv'
    BY Zenon, <1>1, <1>2, RecordsMove DEF StartInv
  <2>6. ASSUME NEW q \in Starts, daemon'[q].pc \in HasKey PROVE keyFile' = daemon'[q].key \/ overlap'
    <3>1. CASE q = p
      BY Zenon, <1>2, <2>6, <3>1 DEF HasKey, InRun
    <3>2. CASE q # p
      <4>1. daemon'[q] = daemon[q]
        BY Zenon, <1>2, <3>2 DEF StartInv, DaemonInv, Advances
      <4>2. Live(q)
        BY Zenon, <2>6, <4>1 DEF Live, HasKey, InNew
      <4> QED
        BY Zenon, <1>1, <3>2, <4>2 DEF StartInv, DaemonInv, Alone
    <3> QED
      BY Zenon, <3>1, <3>2
  <2> QED
    BY Zenon, <1>2, <2>3, <2>4, <2>5, <2>6 DEF StartInv, KeyInv, HasKey
<1>3. CASE Is(p, "key") /\ keyFile' = Cut /\ To(p, "write")
  <2>1. "write" \in InNew
    BY Zenon DEF InNew
  <2>2. /\ Advances(p) /\ daemon'[p].pc = "write"
        /\ daemon'[p].db = daemon[p].db /\ daemon'[p].srv = daemon[p].srv
        /\ daemon'[p].locked = daemon[p].locked /\ daemon'[p].port = daemon[p].port
        /\ daemon'[p].late = daemon[p].late
    BY Zenon, <1>3, <2>1, Goes_On
  <2>3. KeyIsWhole'
    BY Zenon, <2>2 DEF KeyIsWhole, Is
  <2> QED
    BY Zenon, <1>1, <1>2, <1>3, <2>2, <2>3
<1>4. CASE /\ Is(p, "write") /\ keyFile' = p
           /\ Goes(p, [daemon[p] EXCEPT !.pc = "open", !.key = p])
  <2>1. daemon' = [daemon EXCEPT ![p] = [daemon[p] EXCEPT !.pc = "open", !.key = p]]
    BY Zenon, <1>4 DEF Goes
  <2>2. daemon'[p] = [daemon[p] EXCEPT !.pc = "open", !.key = p] /\ Advances(p)
    BY Zenon, <1>1, <2>1 DEF StartInv, DaemonInv, Advances, Daemons, InNew
  <2>3. /\ daemon'[p].pc = "open" /\ daemon'[p].key = p
        /\ daemon'[p].db = daemon[p].db /\ daemon'[p].srv = daemon[p].srv
        /\ daemon'[p].locked = daemon[p].locked /\ daemon'[p].port = daemon[p].port
        /\ daemon'[p].late = daemon[p].late
    BY Zenon, <1>1, <2>2 DEF Daemons
  <2>4. KeyIsWhole'
    BY Zenon, <1>1, <1>4 DEF KeyIsWhole, Cut
  <2> QED
    BY Zenon, <1>1, <1>2, <1>4, <2>2, <2>3, <2>4
<1> QED
  BY Zenon, <1>3, <1>4 DEF SavePrivateKey

\* The database at the path is opened, or one is created where there is none.
LEMMA OpenStep ==
  ASSUME StartInv, NEW p \in Starts, NewMessageStore(p)
  PROVE  StartInv'
<1>1. /\ daemon[p].pc = "open" /\ daemon[p] \in Daemons /\ DaemonOK(daemon[p]) /\ FilesType
      /\ UNCHANGED <<stops, keyFile, token, socket, stored, blind, overlap, torn, untidy>>
      /\ Live(p) /\ "open" \in HasKey /\ "lock" \in HasKey
      /\ daemon' = [daemon EXCEPT ![p] = [daemon[p] EXCEPT !.pc = "lock", !.db = dbPath']]
  BY Zenon DEF NewMessageStore, Is, Goes, StartInv, DaemonInv, startHist, Live, InNew, HasKey
<1>2. \/ dbPath = 0 /\ records' = Append(records, {}) /\ dbPath' = Len(records) + 1
      \/ dbPath # 0 /\ records' = records /\ dbPath' = dbPath
  BY Zenon DEF NewMessageStore
<1>3. /\ FilesType' /\ Len(records) <= Len(records') /\ dbPath' \in 1..Len(records')
      /\ dbPath' \in Nat
  <2>1. CASE dbPath = 0
    <3>1. records \in Seq(SUBSET (1..MaxRecords)) /\ {} \in SUBSET (1..MaxRecords)
      BY Zenon, <1>1 DEF FilesType
    <3>2. /\ records' \in Seq(SUBSET (1..MaxRecords)) /\ Len(records') = Len(records) + 1
          /\ Len(records) \in Nat /\ dbPath' = Len(records) + 1
      BY <1>2, <2>1, <3>1
    <3> QED
      BY <1>1, <3>2 DEF FilesType, Cut
  <2>2. CASE dbPath # 0
    BY <1>1, <1>2, <2>2 DEF FilesType, Cut
  <2> QED
    BY Zenon, <2>1, <2>2
<1>4. daemon'[p] = [daemon[p] EXCEPT !.pc = "lock", !.db = dbPath'] /\ Advances(p)
  BY Zenon, <1>1, <1>3 DEF StartInv, DaemonInv, Advances, Daemons, InNew
<1>5. /\ daemon'[p].pc = "lock" /\ daemon'[p].key = daemon[p].key
      /\ daemon'[p].db = dbPath' /\ daemon'[p].srv = daemon[p].srv
      /\ daemon'[p].locked = daemon[p].locked /\ daemon'[p].port = daemon[p].port
      /\ daemon'[p].late = daemon[p].late
  <2>1. daemon[p] \in Daemons
    BY Zenon, <1>1
  <2> QED
    BY Zenon, <1>4, <2>1 DEF Daemons
<1>6. DaemonOK(daemon[p])' /\ ~daemon'[p].locked
  BY Zenon, <1>1, <1>3, <1>5 DEF DaemonOK, InRun
<1>7. DaemonInv'
  BY Zenon, <1>1, <1>3, <1>4, <1>5, <1>6, DaemonMoves DEF StartInv
<1>8. ServerInv'
  BY Zenon, <1>1, <1>4, <1>5, ServerMoves DEF StartInv
<1>9. KeyInv'
  <2>1. daemon[p].pc # "write"
    BY Zenon, <1>1
  <2> QED
    BY Zenon, <1>1, <1>4, <1>5, <2>1, KeyMoves DEF StartInv
<1>10. RecordsInv'
  <2>1. CASE dbPath # 0
    <3>1. daemon'[p].pc # "remove" /\ daemon'[p].db \in {0, daemon[p].db, dbPath}
      BY Zenon, <1>2, <1>5, <2>1
    <3> QED
      BY Zenon, <1>1, <1>2, <1>4, <2>1, <3>1, RecordsMove DEF StartInv
  <2>2. CASE dbPath = 0
    <3> SUFFICES ASSUME ~blind
                 PROVE  /\ \A q \in Starts : /\ daemon'[q].pc # "remove"
                                             /\ daemon'[q].db = 0 \/ daemon'[q].db = dbPath'
                        /\ stored = {}
      BY Zenon, <1>1 DEF RecordsInv
    <3>1. \A q \in Starts : q # p => daemon'[q] = daemon[q]
      BY Zenon, <1>4 DEF StartInv, DaemonInv, Advances
    <3>2. "lock" # "remove"
      BY Zenon
    <3> QED
      BY Zenon, <1>5, <2>2, <3>1, <3>2 DEF StartInv, RecordsInv
  <2> QED
    BY Zenon, <2>1, <2>2
<1> QED
  BY Zenon, <1>7, <1>8, <1>9, <1>10 DEF StartInv

\* A database is about to be removed only after a blind probe.
LEMMA ProbeStep ==
  ASSUME StartInv, NEW p \in Starts, Probe(p)
  PROVE  StartInv'
<1>1. /\ daemon[p].pc = "probe" /\ UNCHANGED <<stops, startFiles, stored, overlap, torn, untidy>>
      /\ Live(p) /\ "probe" \in HasKey /\ "remove" \in HasKey /\ "remove" \in InNew
      /\ stops \in 0..MaxStops
  BY Zenon DEF Probe, Is, Live, InNew, HasKey, StartInv, DaemonInv, FilesType
<1>2. CASE isDaemonAlive
  <2>1. daemon' = [daemon EXCEPT ![p] = Exited] /\ blind' = blind
    BY Zenon, <1>2 DEF Probe, Goes
  <2> QED
    BY Zenon, <1>1, <2>1, Exits
<1>3. CASE ~isDaemonAlive
  <2>1. To(p, "remove") /\ blind'
    BY Zenon, <1>3 DEF Probe
  <2>2. /\ Advances(p) /\ daemon'[p].pc = "remove"
        /\ daemon'[p].db = daemon[p].db /\ daemon'[p].srv = daemon[p].srv
        /\ daemon'[p].locked = daemon[p].locked /\ daemon'[p].port = daemon[p].port
        /\ daemon'[p].late = daemon[p].late /\ daemon'[p].key = daemon[p].key
        /\ DaemonOK(daemon[p])
    BY Zenon, <1>1, <2>1, Goes_On
  <2>3. FilesType' /\ Len(records) <= Len(records')
    BY SMTT(20), <1>1 DEF StartInv, DaemonInv, FilesType, startFiles, Cut
  <2>4. DaemonOK(daemon[p])'
    BY Zenon, <1>1, <2>2 DEF DaemonOK, InRun, startFiles
  <2>5. DaemonInv'
    BY Zenon, <1>1, <2>2, <2>3, <2>4, DaemonMoves DEF StartInv
  <2>6. ServerInv'
    BY Zenon, <1>1, <2>2, ServerMoves DEF StartInv, startFiles
  <2>7. KeyInv'
    <3>1. daemon[p].pc # "write"
      BY Zenon, <1>1
    <3> QED
      BY Zenon, <1>1, <2>2, <3>1, KeyMoves DEF StartInv, startFiles
  <2>8. RecordsInv'
    BY Zenon, <2>1 DEF RecordsInv
  <2> QED
    BY Zenon, <2>5, <2>6, <2>7, <2>8 DEF StartInv
<1> QED
  BY Zenon, <1>2, <1>3

\* The removal is one of those the history blind notes.
LEMMA RemoveStep ==
  ASSUME StartInv, NEW p \in Starts, Remove(p)
  PROVE  StartInv'
<1>1. /\ daemon[p].pc = "remove" /\ dbPath' = 0 /\ daemon[p] \in Daemons /\ DaemonOK(daemon[p])
      /\ UNCHANGED <<stops, keyFile, records, token, socket, stored, blind, overlap, torn, untidy>>
      /\ Live(p) /\ "remove" \in HasKey /\ "open" \in HasKey /\ stops \in 0..MaxStops
  BY Zenon DEF Remove, Is, Live, InNew, HasKey, StartInv, DaemonInv, FilesType, startHist
<1>2. CASE dbPath = 0
  <2>1. daemon' = [daemon EXCEPT ![p] = Exited] /\ dbPath' = dbPath
    BY Zenon, <1>1, <1>2 DEF Remove, Goes
  <2> QED
    BY Zenon, <1>1, <2>1, Exits DEF startFiles
<1>3. CASE dbPath # 0
  <2>1. daemon' = [daemon EXCEPT ![p] = [daemon[p] EXCEPT !.pc = "open", !.retry = TRUE]]
    BY Zenon, <1>3 DEF Remove, Goes
  <2>2. daemon'[p] = [daemon[p] EXCEPT !.pc = "open", !.retry = TRUE] /\ Advances(p)
    BY Zenon, <1>1, <2>1 DEF StartInv, DaemonInv, Advances, Daemons, InNew
  <2>3. /\ daemon'[p].pc = "open" /\ daemon'[p].key = daemon[p].key
        /\ daemon'[p].db = daemon[p].db /\ daemon'[p].srv = daemon[p].srv
        /\ daemon'[p].locked = daemon[p].locked /\ daemon'[p].port = daemon[p].port
        /\ daemon'[p].late = daemon[p].late
    BY Zenon, <1>1, <2>2 DEF Daemons
  <2>4. FilesType' /\ Len(records) <= Len(records')
    BY SMTT(20), <1>1 DEF StartInv, DaemonInv, FilesType, Cut
  <2>5. DaemonOK(daemon[p])'
    BY Zenon, <1>1, <2>3 DEF DaemonOK, InRun
  <2>6. DaemonInv'
    BY Zenon, <1>1, <2>2, <2>3, <2>4, <2>5, DaemonMoves DEF StartInv
  <2>7. ServerInv'
    BY Zenon, <1>1, <2>2, <2>3, ServerMoves DEF StartInv
  <2>8. KeyInv'
    <3>1. daemon[p].pc # "write"
      BY Zenon, <1>1
    <3> QED
      BY Zenon, <1>1, <2>2, <2>3, <3>1, KeyMoves DEF StartInv
  <2>9. RecordsInv'
    BY Zenon, <1>1 DEF StartInv, RecordsInv
  <2> QED
    BY Zenon, <2>6, <2>7, <2>8, <2>9 DEF StartInv
<1> QED
  BY Zenon, <1>2, <1>3

\* ResolveAuth, AuthCancelled and ProcessDies.
LEMMA AuthStep ==
  ASSUME StartInv, NEW p \in Starts, ResolveAuth(p) \/ AuthCancelled(p) \/ ProcessDies(p)
  PROVE  StartInv'
<1>1. /\ daemon[p].pc \in InRun /\ stops' \in 0..MaxStops
      /\ UNCHANGED <<startFiles, stored, blind, overlap, torn, untidy>>
  BY SMTT(20), StartupAssumption
     DEF ResolveAuth, AuthCancelled, ProcessDies, Is, InRun, StartInv, DaemonInv, FilesType, startHist
<1>2. Live(p) /\ daemon[p].pc # "write"
  BY Zenon, <1>1 DEF Live, InRun
<1>3. CASE daemon' = [daemon EXCEPT ![p] = Exited]
  BY Zenon, <1>1, <1>2, <1>3, Exits
<1>4. CASE daemon[p].pc = "auth" /\ To(p, "register")
  <2>1. "register" \in InRun /\ "auth" \in HasKey
    BY Zenon DEF InRun, HasKey
  <2>2. /\ Advances(p) /\ daemon'[p].pc = "register"
        /\ daemon'[p].db = daemon[p].db /\ daemon'[p].srv = daemon[p].srv
        /\ daemon'[p].locked = daemon[p].locked /\ daemon'[p].port = daemon[p].port
        /\ daemon'[p].late = daemon[p].late /\ daemon'[p].key = daemon[p].key
        /\ DaemonOK(daemon[p])
    BY Zenon, <1>4, <2>1, Goes_On
  <2>3. DaemonOK(daemon[p])'
    BY Zenon, <1>1, <1>4, <2>2 DEF DaemonOK, InRun, startFiles
  <2> QED
    BY Zenon, <1>1, <1>2, <1>4, <2>1, <2>2, <2>3, Runs
<1> QED
  BY Zenon, <1>3, <1>4 DEF ResolveAuth, AuthCancelled, ProcessDies, Is, Goes

\* The port goes to one process at a time.
LEMMA RegisterStep ==
  ASSUME StartInv, NEW p \in Starts, registerWithRetry(p)
  PROVE  StartInv'
<1>1. /\ daemon[p].pc = "register" /\ daemon[p] \in Daemons /\ DaemonOK(daemon[p])
      /\ UNCHANGED <<startFiles, stored, blind, overlap, torn, untidy>> /\ stops' \in 0..MaxStops
      /\ Live(p) /\ "register" \in HasKey /\ records' = records
  BY Zenon DEF registerWithRetry, Is, Live, InRun, HasKey, StartInv, DaemonInv, FilesType, startHist,
         startFiles
<1>2. CASE daemon' = [daemon EXCEPT ![p] = Exited]
  BY Zenon, <1>1, <1>2, Exits
<1>3. CASE /\ daemon' = [daemon EXCEPT ![p] = [daemon[p] EXCEPT !.pc = "serve", !.port = TRUE,
                                                               !.srv = "remove"]]
           /\ \A q \in Starts : ~daemon[q].port
  <2>1. daemon' = [daemon EXCEPT ![p] = [daemon[p] EXCEPT !.pc = "serve", !.port = TRUE, !.srv = "remove"]]
    BY Zenon, <1>3
  <2>2. daemon'[p] = [daemon[p] EXCEPT !.pc = "serve", !.port = TRUE, !.srv = "remove"] /\ Advances(p)
    BY Zenon, <1>1, <2>1 DEF StartInv, DaemonInv, Advances, Daemons, InRun
  <2>3. /\ daemon'[p].pc = "serve" /\ daemon'[p].key = daemon[p].key
        /\ daemon'[p].db = daemon[p].db /\ daemon'[p].srv = "remove"
        /\ daemon'[p].locked = daemon[p].locked /\ daemon'[p].port
        /\ daemon'[p].late = daemon[p].late
    BY Zenon, <1>1, <2>2 DEF Daemons
  <2>4. DaemonOK(daemon[p])' /\ daemon'[p].srv \notin {"bind", "listen"}
    BY Zenon, <1>1, <2>3 DEF DaemonOK, InRun
  <2> QED
    BY Zenon, <1>1, <1>3, <2>2, <2>3, <2>4, Runs
<1> QED
  BY Zenon, <1>2, <1>3 DEF registerWithRetry, retryWithBackoff, ListenP2P, Goes

\* While a process has the port, or has yet to listen, no other process listens
\* or is about to, unless a stop was untidy.
LEMMA OneServer ==
  ASSUME StartInv, NEW p \in Starts, NEW q \in Starts, p # q,
         daemon[p].port \/ daemon[p].srv \in {"remove", "token", "bind", "listen"},
         daemon[q].srv \in {"bind", "listen"}
  PROVE  untidy
<1>1. DaemonOK(daemon[p]) /\ DaemonOK(daemon[q]) /\ ~(daemon[p].port /\ daemon[q].port)
  BY Zenon DEF StartInv, DaemonInv, Alone
<1>2. daemon[p].port \/ untidy
  BY Zenon, <1>1 DEF DaemonOK
<1>3. daemon[q].port \/ untidy
  BY Zenon, <1>1 DEF DaemonOK
<1> QED
  BY Zenon, <1>1, <1>2, <1>3

\* A step of a daemon that serves or stops, with its socket and its token.
LEMMA Serves ==
  ASSUME StartInv, NEW p \in Starts, Advances(p), DaemonOK(daemon[p])', ServerInv',
         UNCHANGED <<stops, keyFile, dbPath, records, stored, blind, overlap, torn>>,
         untidy => untidy', socket' \in 0..MaxStarts, token' \in 0..MaxStarts,
         daemon'[p].port => daemon[p].port, daemon'[p].locked => daemon[p].locked,
         daemon'[p].db = daemon[p].db, daemon'[p].key = daemon[p].key,
         daemon[p].pc \in InRun, daemon'[p].pc \in InRun
  PROVE  StartInv'
<1>1. FilesType' /\ Len(records) <= Len(records')
  <2>1. FilesType /\ UNCHANGED <<dbPath, records, stored, stops, keyFile>>
    BY Zenon DEF StartInv, DaemonInv
  <2>2. stops' \in 0..MaxStops /\ keyFile' \in 0..Cut
    BY Zenon, <2>1 DEF FilesType
  <2> QED
    BY Zenon, <2>1, <2>2, FilesKept
<1>2. /\ Live(p) /\ daemon[p].pc \in HasKey /\ daemon[p].pc # "write" /\ daemon'[p].pc # "remove"
  BY Zenon DEF Live, HasKey, InRun
<1>3. DaemonInv'
  BY Zenon, <1>1, <1>2, DaemonMoves DEF StartInv
<1>4. KeyInv'
  BY Zenon, <1>2, KeyMoves DEF StartInv
<1>5. RecordsInv'
  BY Zenon, <1>2, RecordsMove DEF StartInv
<1> QED
  BY Zenon, <1>3, <1>4, <1>5 DEF StartInv

\* The agent server comes up: socket, token, listener.
LEMMA ServeStep ==
  ASSUME StartInv, NEW p \in Starts, ServeUnix(p)
  PROVE  StartInv'
<1>1. /\ daemon[p] \in Daemons /\ DaemonOK(daemon[p]) /\ daemon[p].pc \in InRun
      /\ UNCHANGED <<stops, keyFile, dbPath, records, stored, blind, overlap, torn, untidy>>
      /\ socket \in 0..MaxStarts /\ token \in 0..MaxStarts /\ p \in 0..MaxStarts /\ 0 \in 0..MaxStarts
  <2>1. daemon[p] \in Daemons /\ DaemonOK(daemon[p]) /\ FilesType
    BY Zenon DEF StartInv, DaemonInv
  <2>2. daemon[p].srv # "off"
    BY Zenon DEF ServeUnix
  <2> QED
    BY <2>1, <2>2, StartupAssumption DEF DaemonOK, FilesType, InRun, ServeUnix, startHist, Starts
<1>2. \A q \in Starts : q # p /\ Advances(p) => daemon'[q] = daemon[q]
  BY Zenon DEF StartInv, DaemonInv, Advances
<1>3. /\ daemon[p].srv = "listen" => socket = p \/ untidy
      /\ daemon[p].srv \in {"bind", "listen"} => token = p \/ untidy
  BY Zenon DEF StartInv, ServerInv
<1>4. CASE daemon[p].srv = "remove" /\ socket' = 0 /\ token' = token
           /\ Goes(p, [daemon[p] EXCEPT !.srv = "token"])
  <2>1. daemon' = [daemon EXCEPT ![p] = [daemon[p] EXCEPT !.srv = "token"]]
    BY Zenon, <1>4 DEF Goes
  <2>2. daemon'[p] = [daemon[p] EXCEPT !.srv = "token"] /\ Advances(p)
    BY Zenon, <1>1, <2>1 DEF StartInv, DaemonInv, Advances, Daemons, InRun
  <2>3. /\ daemon'[p].pc = daemon[p].pc /\ daemon'[p].key = daemon[p].key
        /\ daemon'[p].db = daemon[p].db /\ daemon'[p].srv = "token"
        /\ daemon'[p].locked = daemon[p].locked /\ daemon'[p].port = daemon[p].port
        /\ daemon'[p].late = daemon[p].late
    BY Zenon, <1>1, <2>2 DEF Daemons
  <2>4. DaemonOK(daemon[p])'
    BY Zenon, <1>1, <1>4, <2>3 DEF DaemonOK, InRun
  <2>5. ServerInv'
    <3> SUFFICES ASSUME NEW q \in Starts, daemon'[q].srv \in {"bind", "listen"}
                 PROVE  untidy'
      BY Zenon DEF ServerInv
    <3>1. q # p /\ daemon'[q] = daemon[q]
      BY Zenon, <1>2, <2>2, <2>3
    <3> QED
      BY Zenon, <1>1, <1>4, <3>1, OneServer
  <2> QED
    BY Zenon, <1>1, <1>4, <2>2, <2>3, <2>4, <2>5, Serves
<1>5. CASE daemon[p].srv = "token" /\ token' = p /\ socket' = socket
           /\ Goes(p, [daemon[p] EXCEPT !.srv = "bind"])
  <2>1. daemon' = [daemon EXCEPT ![p] = [daemon[p] EXCEPT !.srv = "bind"]]
    BY Zenon, <1>5 DEF Goes
  <2>2. daemon'[p] = [daemon[p] EXCEPT !.srv = "bind"] /\ Advances(p)
    BY Zenon, <1>1, <2>1 DEF StartInv, DaemonInv, Advances, Daemons, InRun
  <2>3. /\ daemon'[p].pc = daemon[p].pc /\ daemon'[p].key = daemon[p].key
        /\ daemon'[p].db = daemon[p].db /\ daemon'[p].srv = "bind"
        /\ daemon'[p].locked = daemon[p].locked /\ daemon'[p].port = daemon[p].port
        /\ daemon'[p].late = daemon[p].late
    BY Zenon, <1>1, <2>2 DEF Daemons
  <2>4. DaemonOK(daemon[p])'
    BY Zenon, <1>1, <1>5, <2>3 DEF DaemonOK, InRun
  <2>5. ServerInv'
    <3> SUFFICES ASSUME NEW q \in Starts, daemon'[q].srv \in {"bind", "listen"}, q # p
                 PROVE  untidy'
      BY Zenon, <1>5, <2>3 DEF ServerInv
    <3>1. daemon'[q] = daemon[q]
      BY Zenon, <1>2, <2>2
    <3> QED
      BY Zenon, <1>1, <1>5, <3>1, OneServer
  <2> QED
    BY Zenon, <1>1, <1>5, <2>2, <2>3, <2>4, <2>5, Serves
<1>6. CASE daemon[p].srv = "bind" /\ token' = token /\ Is(p, "serve") /\ socket' = p
           /\ Goes(p, [daemon[p] EXCEPT !.srv = "listen"])
  <2>1. daemon' = [daemon EXCEPT ![p] = [daemon[p] EXCEPT !.srv = "listen"]]
    BY Zenon, <1>6 DEF Goes
  <2>2. daemon'[p] = [daemon[p] EXCEPT !.srv = "listen"] /\ Advances(p)
    BY Zenon, <1>1, <2>1 DEF StartInv, DaemonInv, Advances, Daemons, InRun
  <2>3. /\ daemon'[p].pc = daemon[p].pc /\ daemon'[p].key = daemon[p].key
        /\ daemon'[p].db = daemon[p].db /\ daemon'[p].srv = "listen"
        /\ daemon'[p].locked = daemon[p].locked /\ daemon'[p].port = daemon[p].port
        /\ daemon'[p].late = daemon[p].late
    BY Zenon, <1>1, <2>2 DEF Daemons
  <2>4. DaemonOK(daemon[p])'
    BY Zenon, <1>1, <1>6, <2>3 DEF DaemonOK, InRun, Is
  <2>5. ServerInv'
    <3> SUFFICES ASSUME NEW q \in Starts, daemon'[q].srv \in {"bind", "listen"}, q # p
                 PROVE  untidy'
      BY Zenon, <1>1, <1>3, <1>6 DEF ServerInv
    <3>1. daemon'[q] = daemon[q]
      BY Zenon, <1>2, <2>2
    <3> QED
      BY Zenon, <1>1, <1>6, <3>1, OneServer
  <2> QED
    BY Zenon, <1>1, <1>6, <2>2, <2>3, <2>4, <2>5, Serves
<1>7. CASE daemon[p].srv = "bind" /\ token' = token /\ socket' = socket
           /\ Goes(p, [daemon[p] EXCEPT !.srv = "stopped"])
  <2>1. daemon' = [daemon EXCEPT ![p] = [daemon[p] EXCEPT !.srv = "stopped"]]
    BY Zenon, <1>7 DEF Goes
  <2>2. daemon'[p] = [daemon[p] EXCEPT !.srv = "stopped"] /\ Advances(p)
    BY Zenon, <1>1, <2>1 DEF StartInv, DaemonInv, Advances, Daemons, InRun
  <2>3. /\ daemon'[p].pc = daemon[p].pc /\ daemon'[p].key = daemon[p].key
        /\ daemon'[p].db = daemon[p].db /\ daemon'[p].srv = "stopped"
        /\ daemon'[p].locked = daemon[p].locked /\ daemon'[p].port = daemon[p].port
        /\ daemon'[p].late = daemon[p].late
    BY Zenon, <1>1, <2>2 DEF Daemons
  <2>4. DaemonOK(daemon[p])' /\ daemon'[p].srv \notin {"bind", "listen"}
    BY Zenon, <1>1, <1>7, <2>3 DEF DaemonOK, InRun
  <2>5. ServerInv'
    BY Zenon, <1>1, <1>7, <2>2, <2>4, ServerMoves DEF StartInv
  <2> QED
    BY Zenon, <1>1, <1>7, <2>2, <2>3, <2>4, <2>5, Serves
<1> QED
  BY Zenon, <1>4, <1>5, <1>6, <1>7 DEF ServeUnix

\* Stream, Shutdown, and a signal within Run.
LEMMA StreamStep ==
  ASSUME StartInv, NEW p \in Starts, Stream(p) \/ Shutdown(p) \/ Signal(p)
  PROVE  StartInv'
<1>1. /\ daemon[p] \in Daemons /\ DaemonOK(daemon[p]) /\ stops' \in 0..MaxStops
      /\ UNCHANGED <<startFiles, stored, blind, overlap, untidy>> /\ records' = records
  BY StartupAssumption
     DEF Stream, Shutdown, Signal, StartInv, DaemonInv, FilesType, startHist, startFiles
<1>2. ASSUME NEW d \in Daemons, Goes(p, d), torn => torn', daemon[p].pc \in InRun,
             d.pc = daemon[p].pc, d.key = daemon[p].key, d.db = daemon[p].db,
             d.srv = daemon[p].srv, d.locked = daemon[p].locked, d.port = daemon[p].port,
             d.late = daemon[p].late
      PROVE  StartInv'
  <2>1. daemon'[p] = d /\ Advances(p)
    BY Zenon, <1>1, <1>2 DEF StartInv, DaemonInv, Advances, Goes
  <2>2. DaemonOK(daemon[p])'
    BY Zenon, <1>1, <1>2, <2>1 DEF DaemonOK
  <2>3. Live(p) /\ daemon[p].pc \in HasKey /\ daemon[p].pc # "write" /\ daemon'[p].pc # "remove"
    BY Zenon, <1>2, <2>1 DEF Live, HasKey, InRun
  <2> QED
    BY Zenon, <1>1, <1>2, <2>1, <2>2, <2>3, Runs
<1>3. CASE Stream(p)
  <2>1. daemon[p].srv = "listen" /\ torn' = torn /\ Goes(p, [daemon[p] EXCEPT !.stream = TRUE])
    BY Zenon, <1>3 DEF Stream, startHist
  <2>2. daemon[p].pc \in InRun
    BY Zenon, <1>1, <2>1 DEF DaemonOK, InRun
  <2>3. PICK d \in Daemons : d = [daemon[p] EXCEPT !.stream = TRUE]
    BY Zenon, <1>1 DEF Daemons
  <2>4. /\ d.pc = daemon[p].pc /\ d.key = daemon[p].key /\ d.db = daemon[p].db
        /\ d.srv = daemon[p].srv /\ d.locked = daemon[p].locked /\ d.port = daemon[p].port
        /\ d.late = daemon[p].late
    BY Zenon, <1>1, <2>3 DEF Daemons
  <2> QED
    BY Zenon, <1>2, <2>1, <2>2, <2>3, <2>4
<1>4. ASSUME daemon[p].pc \in InRun, torn => torn', Goes(p, [daemon[p] EXCEPT !.cancelled = TRUE])
      PROVE  StartInv'
  <2>1. PICK d \in Daemons : d = [daemon[p] EXCEPT !.cancelled = TRUE]
    BY Zenon, <1>1 DEF Daemons
  <2>2. /\ d.pc = daemon[p].pc /\ d.key = daemon[p].key /\ d.db = daemon[p].db
        /\ d.srv = daemon[p].srv /\ d.locked = daemon[p].locked /\ d.port = daemon[p].port
        /\ d.late = daemon[p].late
    BY Zenon, <1>1, <2>1 DEF Daemons
  <2> QED
    BY Zenon, <1>2, <1>4, <2>1, <2>2
<1>5. CASE Shutdown(p)
  <2>1. daemon[p].pc \in InRun
    BY Zenon, <1>1, <1>5 DEF DaemonOK, InRun, Shutdown
  <2> QED
    BY Zenon, <1>4, <1>5, <2>1 DEF Shutdown, startHist
<1>6. CASE Signal(p)
  <2>1. CASE daemon[p].pc \in InRun
    BY Zenon, <1>4, <1>6, <2>1 DEF Signal
  <2>2. CASE daemon[p].pc \notin InRun
    <3>1. daemon' = [daemon EXCEPT ![p] = Exited] /\ (torn => torn') /\ (daemon[p].pc = "write" => torn')
      BY Zenon, <1>6, <2>2 DEF Signal, Goes, Is
    <3> QED
      BY Zenon, <1>1, <3>1, Exits
  <2> QED
    BY Zenon, <2>1, <2>2
<1> QED
  BY Zenon, <1>3, <1>5, <1>6

\* A record goes to the database at the path, unless a start was blind.
LEMMA StoreStep ==
  ASSUME StartInv, NEW p \in Starts, Store(p)
  PROVE  StartInv'
<1>1. /\ daemon' = daemon /\ daemon[p] \in Daemons /\ daemon[p].pc = "serve"
      /\ DaemonOK(daemon[p]) /\ FilesType
      /\ UNCHANGED <<stops, keyFile, dbPath, token, socket, blind, overlap, torn, untidy>>
  BY Zenon DEF Store, Is, StartInv, DaemonInv
<1>2. PICK r \in 1..MaxRecords : /\ stored' = stored \union {r}
                                 /\ records' = [records EXCEPT ![daemon[p].db] = @ \union {r}]
  BY Zenon DEF Store
<1>3. daemon[p].db \in 1..Len(records)
  BY Zenon, <1>1 DEF DaemonOK, InRun
<1>4. FilesType' /\ Len(records') = Len(records)
  <2>1. records \in Seq(SUBSET (1..MaxRecords)) /\ stored \in SUBSET (1..MaxRecords)
    BY Zenon, <1>1 DEF FilesType
  <2>2. records[daemon[p].db] \union {r} \in SUBSET (1..MaxRecords)
    BY SMTT(20), <1>3, <2>1
  <2>3. /\ records' \in Seq(SUBSET (1..MaxRecords)) /\ Len(records') = Len(records)
        /\ stored' \in SUBSET (1..MaxRecords)
    <3>1. PICK X : X = SUBSET (1..MaxRecords)
      BY Zenon
    <3>2. PICK i, v : i = daemon[p].db /\ v = records[daemon[p].db] \union {r}
      BY Zenon
    <3>3. records \in Seq(X) /\ i \in 1..Len(records) /\ v \in X /\ records' = [records EXCEPT ![i] = v]
      BY Zenon, <1>2, <1>3, <2>1, <2>2, <3>1, <3>2
    <3>4. records' \in Seq(X) /\ Len(records') = Len(records)
      BY <3>3
    <3>5. stored' \in SUBSET (1..MaxRecords)
      BY Zenon, <1>2, <2>1
    <3> QED
      BY Zenon, <3>1, <3>4, <3>5
  <2> QED
    BY Zenon, <1>1, <2>3 DEF FilesType, Cut
<1>5. DaemonInv'
  <2>1. Advances(p) /\ daemon'[p] = daemon[p]
    BY Zenon, <1>1 DEF StartInv, DaemonInv, Advances
  <2>2. DaemonOK(daemon[p])' /\ Len(records) <= Len(records')
    <3>1. Len(records) \in Nat
      BY Zenon, <1>1, LengthIsNat
    <3>2. Len(records) <= Len(records')
      BY <1>4, <3>1
    <3> QED
      BY Zenon, <1>1, <1>4, <3>2 DEF DaemonOK
  <2> QED
    BY Zenon, <1>1, <1>4, <2>1, <2>2, DaemonMoves DEF StartInv, Live
<1>6. ServerInv' /\ KeyInv'
  BY Zenon, <1>1 DEF StartInv, ServerInv, KeyInv, KeyIsWhole, Is, Cut
<1>7. RecordsInv'
  <2> SUFFICES ASSUME ~blind
               PROVE  /\ \A q \in Starts : /\ daemon'[q].pc # "remove"
                                           /\ daemon'[q].db = 0 \/ daemon'[q].db = dbPath
                      /\ dbPath # 0 /\ stored' \subseteq records'[dbPath]
    BY Zenon, <1>1 DEF RecordsInv
  <2>1. /\ \A q \in Starts : daemon[q].pc # "remove" /\ (daemon[q].db = 0 \/ daemon[q].db = dbPath)
        /\ stored # {} => stored \subseteq records[dbPath]
    BY Zenon DEF StartInv, RecordsInv
  <2>2. daemon[p].db = dbPath /\ dbPath # 0 /\ dbPath \in 1..Len(records)
    BY <1>3, <2>1
  <2>3. records'[dbPath] = records[dbPath] \union {r}
    <3>1. records \in Seq(SUBSET (1..MaxRecords))
      BY Zenon, <1>1 DEF FilesType
    <3>2. PICK i, v : i = daemon[p].db /\ v = records[i] \union {r}
      BY Zenon
    <3>3. i \in 1..Len(records) /\ records' = [records EXCEPT ![i] = v] /\ i = dbPath
      BY Zenon, <1>2, <2>2, <3>2
    <3>4. records'[i] = v
      BY <3>1, <3>3
    <3> QED
      BY Zenon, <3>2, <3>3, <3>4
  <2> QED
    BY Zenon, <1>1, <1>2, <2>1, <2>2, <2>3
<1> QED
  BY Zenon, <1>5, <1>6, <1>7 DEF StartInv

\* The listener is closed by the process whose socket it is.
LEMMA GracefulStep ==
  ASSUME StartInv, NEW p \in Starts, GracefulStop(p)
  PROVE  StartInv'
<1>1. /\ daemon[p] \in Daemons /\ DaemonOK(daemon[p]) /\ daemon[p].pc = "serve"
      /\ UNCHANGED <<stops, keyFile, dbPath, records, token, stored, blind, overlap, torn>>
      /\ socket \in 0..MaxStarts /\ token \in 0..MaxStarts /\ 0 \in 0..MaxStarts
      /\ daemon[p].pc \in InRun /\ "drain" \in InRun
  BY StartupAssumption DEF GracefulStop, Is, StartInv, DaemonInv, FilesType, InRun
<1>2. CASE daemon[p].srv = "listen"
  <2>0. socket' = 0 /\ untidy' = untidy
    BY Zenon, <1>2 DEF GracefulStop
  <2>1. daemon' = [daemon EXCEPT ![p] = [daemon[p] EXCEPT !.pc = "drain", !.srv = "stopped"]]
    BY Zenon, <1>2 DEF GracefulStop, Goes
  <2>2. daemon'[p] = [daemon[p] EXCEPT !.pc = "drain", !.srv = "stopped"] /\ Advances(p)
    BY Zenon, <1>1, <2>1 DEF StartInv, DaemonInv, Advances, Daemons, InRun
  <2>3. /\ daemon'[p].pc = "drain" /\ daemon'[p].key = daemon[p].key
        /\ daemon'[p].db = daemon[p].db /\ daemon'[p].srv = "stopped"
        /\ daemon'[p].locked = daemon[p].locked /\ daemon'[p].port = daemon[p].port
        /\ daemon'[p].late = daemon[p].late
    BY Zenon, <1>1, <2>2 DEF Daemons
  <2>4. DaemonOK(daemon[p])' /\ daemon'[p].srv \notin {"bind", "listen"}
    BY Zenon, <1>1, <2>0, <2>3 DEF DaemonOK, InRun
  <2>5. ServerInv'
    <3> SUFFICES ASSUME NEW q \in Starts, daemon'[q].srv \in {"bind", "listen"}
                 PROVE  untidy'
      BY Zenon DEF ServerInv
    <3>1. q # p /\ daemon'[q] = daemon[q]
      BY Zenon, <2>2, <2>4 DEF Advances, StartInv, DaemonInv
    <3> QED
      BY Zenon, <1>2, <2>0, <3>1, OneServer
  <2> QED
    BY Zenon, <1>1, <2>0, <2>2, <2>3, <2>4, <2>5, Serves
<1>3. CASE daemon[p].srv # "listen"
  <2>1. socket' = socket /\ untidy' /\ To(p, "drain")
    BY Zenon, <1>3 DEF GracefulStop
  <2>2. /\ Advances(p) /\ daemon'[p].pc = "drain"
        /\ daemon'[p].db = daemon[p].db /\ daemon'[p].srv = daemon[p].srv
        /\ daemon'[p].locked = daemon[p].locked /\ daemon'[p].port = daemon[p].port
        /\ daemon'[p].late = daemon[p].late /\ daemon'[p].key = daemon[p].key
    BY Zenon, <1>1, <2>1, Goes_On
  <2>3. DaemonOK(daemon[p])'
    BY Zenon, <1>1, <1>3, <2>1, <2>2 DEF DaemonOK, InRun
  <2>4. ServerInv'
    BY Zenon, <2>1 DEF ServerInv
  <2> QED
    BY Zenon, <1>1, <2>1, <2>2, <2>3, <2>4, Serves
<1> QED
  BY Zenon, <1>2, <1>3

\* The token file is removed by the process that has the port, or late.
LEMMA DrainedStep ==
  ASSUME StartInv, NEW p \in Starts, Drained(p)
  PROVE  StartInv'
<1>1. /\ daemon[p] \in Daemons /\ DaemonOK(daemon[p]) /\ daemon[p].pc = "drain"
      /\ UNCHANGED <<stops, keyFile, dbPath, records, socket, stored, blind, overlap, torn>>
      /\ socket \in 0..MaxStarts /\ token' \in 0..MaxStarts
      /\ daemon[p].pc \in InRun /\ "close" \in InRun
  BY StartupAssumption DEF Drained, RemoveToken, Is, StartInv, DaemonInv, FilesType, InRun
<1>2. CASE To(p, "close") /\ untidy' = untidy
  <2>1. /\ Advances(p) /\ daemon'[p].pc = "close"
        /\ daemon'[p].db = daemon[p].db /\ daemon'[p].srv = daemon[p].srv
        /\ daemon'[p].locked = daemon[p].locked /\ daemon'[p].port = daemon[p].port
        /\ daemon'[p].late = daemon[p].late /\ daemon'[p].key = daemon[p].key
    BY Zenon, <1>1, <1>2, Goes_On
  <2>2. DaemonOK(daemon[p])'
    BY Zenon, <1>1, <1>2, <2>1 DEF DaemonOK, InRun
  <2>3. ServerInv'
    <3> SUFFICES ASSUME NEW q \in Starts, daemon'[q].srv \in {"bind", "listen"}
                 PROVE  untidy'
      BY Zenon DEF ServerInv
    <3>1. CASE q = p
      BY Zenon, <2>1, <2>2, <3>1 DEF DaemonOK
    <3>2. CASE q # p
      <4>1. daemon'[q] = daemon[q]
        BY Zenon, <2>1, <3>2 DEF Advances, StartInv, DaemonInv
      <4>2. daemon[p].port
        BY Zenon, <1>1 DEF DaemonOK
      <4> QED
        BY Zenon, <1>2, <3>2, <4>1, <4>2, OneServer
    <3> QED
      BY Zenon, <3>1, <3>2
  <2> QED
    BY Zenon, <1>1, <1>2, <2>1, <2>2, <2>3, Serves
<1>3. CASE /\ Goes(p, [daemon[p] EXCEPT !.pc = "close", !.stream = FALSE, !.late = TRUE])
           /\ untidy'
  <2>1. daemon' = [daemon EXCEPT ![p] = [daemon[p] EXCEPT !.pc = "close", !.stream = FALSE, !.late = TRUE]]
    BY Zenon, <1>3 DEF Goes
  <2>2. daemon'[p] = [daemon[p] EXCEPT !.pc = "close", !.stream = FALSE, !.late = TRUE] /\ Advances(p)
    BY Zenon, <1>1, <2>1 DEF StartInv, DaemonInv, Advances, Daemons, InRun
  <2>3. /\ daemon'[p].pc = "close" /\ daemon'[p].key = daemon[p].key
        /\ daemon'[p].db = daemon[p].db /\ daemon'[p].srv = daemon[p].srv
        /\ daemon'[p].locked = daemon[p].locked /\ daemon'[p].port = daemon[p].port
        /\ daemon'[p].late
    BY Zenon, <1>1, <2>2 DEF Daemons
  <2>4. DaemonOK(daemon[p])'
    BY Zenon, <1>1, <1>3, <2>3 DEF DaemonOK, InRun
  <2>5. ServerInv'
    BY Zenon, <1>3 DEF ServerInv
  <2> QED
    BY Zenon, <1>1, <1>3, <2>2, <2>3, <2>4, <2>5, Serves
<1> QED
  BY Zenon, <1>2, <1>3 DEF Drained

\* A late removal of the token file follows an untidy stop.
LEMMA LateStep ==
  ASSUME StartInv, NEW p \in Starts, LateRemove(p)
  PROVE  StartInv'
<1>1. /\ daemon[p] \in Daemons /\ DaemonOK(daemon[p]) /\ daemon[p].late
      /\ UNCHANGED <<stops, keyFile, dbPath, records, socket, stored, blind, overlap, torn, untidy>>
      /\ FilesType /\ token' \in 0..MaxStarts
  BY SMTT(20), StartupAssumption DEF LateRemove, RemoveToken, StartInv, DaemonInv, FilesType, startHist
<1>2. untidy'
  BY Zenon, <1>1 DEF DaemonOK
<1>3. daemon' = [daemon EXCEPT ![p] = [daemon[p] EXCEPT !.late = FALSE]]
  BY Zenon DEF LateRemove, Goes
<1>4. daemon'[p] = [daemon[p] EXCEPT !.late = FALSE] /\ Advances(p)
  BY Zenon, <1>1, <1>3 DEF StartInv, DaemonInv, Advances, Daemons, InRun
<1>5. /\ daemon'[p].pc = daemon[p].pc /\ daemon'[p].key = daemon[p].key
      /\ daemon'[p].db = daemon[p].db /\ daemon'[p].srv = daemon[p].srv
      /\ daemon'[p].locked = daemon[p].locked /\ daemon'[p].port = daemon[p].port
      /\ ~daemon'[p].late
  BY SMTT(20), <1>1, <1>4 DEF Daemons
<1>6. DaemonOK(daemon[p])'
  BY Zenon, <1>1, <1>5 DEF DaemonOK
<1>7. FilesType' /\ Len(records) <= Len(records')
  BY <1>1 DEF FilesType, Cut
<1>8. DaemonInv'
  BY Zenon, <1>1, <1>4, <1>5, <1>6, <1>7, DaemonMoves DEF StartInv, Live
<1>9. ServerInv'
  BY Zenon, <1>2 DEF ServerInv
<1>10. KeyInv'
  BY Zenon, <1>1, <1>4, <1>5, KeyMoves DEF StartInv
<1>11. RecordsInv'
  <2>1. daemon'[p].pc = "remove" => blind'
    BY Zenon, <1>1, <1>5 DEF StartInv, RecordsInv
  <2> QED
    BY Zenon, <1>1, <1>4, <1>5, <2>1, RecordsMove DEF StartInv
<1> QED
  BY Zenon, <1>8, <1>9, <1>10, <1>11 DEF StartInv

\* Port and lock are given up, in this order, before the process ends.
LEMMA CloseStep ==
  ASSUME StartInv, NEW p \in Starts, Close(p)
  PROVE  StartInv'
<1>1. /\ daemon[p] \in Daemons /\ DaemonOK(daemon[p]) /\ daemon[p].pc \in {"close", "release"}
      /\ UNCHANGED <<startFiles, stored, blind, overlap, torn, untidy>> /\ stops' = stops
      /\ stops \in 0..MaxStops /\ daemon[p].pc # "write"
      /\ keyFile' = keyFile /\ dbPath' = dbPath /\ records' = records /\ socket' = socket
      /\ token' = token /\ socket \in 0..MaxStarts /\ token \in 0..MaxStarts
  BY Zenon DEF Close, Is, StartInv, DaemonInv, FilesType, startHist, startFiles
<1>2. daemon[p].pc \in InRun /\ "release" \in InRun
  BY Zenon, <1>1 DEF InRun
<1>3. CASE daemon[p].pc = "close" /\ Goes(p, [daemon[p] EXCEPT !.pc = "release", !.port = FALSE])
  <2>1. daemon' = [daemon EXCEPT ![p] = [daemon[p] EXCEPT !.pc = "release", !.port = FALSE]]
    BY Zenon, <1>3 DEF Goes
  <2>2. daemon'[p] = [daemon[p] EXCEPT !.pc = "release", !.port = FALSE] /\ Advances(p)
    BY Zenon, <1>1, <2>1 DEF StartInv, DaemonInv, Advances, Daemons, InRun
  <2>3. /\ daemon'[p].pc = "release" /\ daemon'[p].key = daemon[p].key
        /\ daemon'[p].db = daemon[p].db /\ daemon'[p].srv = daemon[p].srv
        /\ daemon'[p].locked = daemon[p].locked /\ ~daemon'[p].port
        /\ daemon'[p].late = daemon[p].late
    BY Zenon, <1>1, <2>2 DEF Daemons
  <2>4. DaemonOK(daemon[p])'
    BY Zenon, <1>1, <1>3, <2>3 DEF DaemonOK, InRun
  <2>5. ServerInv'
    BY Zenon, <1>1, <2>2, <2>3, ServerMoves DEF StartInv
  <2> QED
    BY Zenon, <1>1, <1>2, <1>3, <2>2, <2>3, <2>4, <2>5, Serves
<1>4. CASE daemon[p].pc = "release" /\ Goes(p, [daemon[p] EXCEPT !.locked = FALSE])
  <2>1. daemon' = [daemon EXCEPT ![p] = [daemon[p] EXCEPT !.locked = FALSE]]
    BY Zenon, <1>4 DEF Goes
  <2>2. daemon'[p] = [daemon[p] EXCEPT !.locked = FALSE] /\ Advances(p)
    BY Zenon, <1>1, <2>1 DEF StartInv, DaemonInv, Advances, Daemons, InRun
  <2>3. /\ daemon'[p].pc = daemon[p].pc /\ daemon'[p].key = daemon[p].key
        /\ daemon'[p].db = daemon[p].db /\ daemon'[p].srv = daemon[p].srv
        /\ ~daemon'[p].locked /\ daemon'[p].port = daemon[p].port
        /\ daemon'[p].late = daemon[p].late
    BY Zenon, <1>1, <2>2 DEF Daemons
  <2>4. DaemonOK(daemon[p])'
    BY Zenon, <1>1, <1>4, <2>3 DEF DaemonOK, InRun
  <2>5. ServerInv'
    BY Zenon, <1>1, <2>2, <2>3, ServerMoves DEF StartInv
  <2> QED
    BY Zenon, <1>1, <1>2, <1>4, <2>2, <2>3, <2>4, <2>5, Serves
<1>5. CASE Goes(p, Exited)
  BY Zenon, <1>1, <1>5, Exits DEF Goes
<1> QED
  BY Zenon, <1>3, <1>4, <1>5 DEF Close, Is

\* The invariant of the processes holds in every reachable state.
LEMMA StartAlways == StartSpec => []StartInv
<1>1. StartInit => StartInv
  <2> SUFFICES ASSUME StartInit PROVE StartInv
    BY Zenon
  <2>1. \A p \in Starts : daemon[p] = Off
    BY Zenon DEF StartInit
  <2>2. /\ Off.pc = "off" /\ ~Off.locked /\ ~Off.port /\ Off.srv = "off" /\ ~Off.late /\ Off.db = 0
        /\ Off \in Daemons
    <3>1. 0 \in 0..MaxStarts /\ 0 \in Nat
      BY StartupAssumption
    <3> QED
      BY Zenon, <3>1 DEF Off, Daemons
  <2>3. daemon \in [Starts -> Daemons]
    BY Zenon, <2>2 DEF StartInit
  <2>4. FilesType
    BY SMTT(20), StartupAssumption DEF StartInit, FilesType, Cut
  <2>5. DaemonInv
    BY Zenon, <2>1, <2>2, <2>3, <2>4 DEF DaemonInv, DaemonOK, Alone, Live, InNew, InRun
  <2>6. ServerInv /\ RecordsInv
    BY Zenon, <2>1, <2>2 DEF ServerInv, RecordsInv, StartInit
  <2>7. KeyInv
    BY <2>1, <2>2, StartupAssumption DEF KeyInv, KeyIsWhole, InRun, StartInit, Cut
  <2> QED
    BY Zenon, <2>5, <2>6, <2>7 DEF StartInv
<1>2. StartInv /\ [StartNext]_startVars => StartInv'
  <2>1. ASSUME StartInv, UNCHANGED startVars PROVE StartInv'
    BY Zenon, <2>1
       DEF startVars, startFiles, startHist, StartInv, DaemonInv, ServerInv, KeyInv, KeyIsWhole,
           RecordsInv, FilesType, DaemonOK, Alone, Live, Is, Cut
  <2> HIDE DEF StartInv
  <2> QED
    BY Zenon, <2>1, StartStep, LoadStep, SavingStep, OpenStep, LockStep, ProbeStep, RemoveStep,
       AuthStep, RegisterStep, ServeStep, StreamStep, StoreStep, GracefulStep, DrainedStep,
       LateStep, CloseStep DEF StartNext, runUp, New
<1>3. StartSpec => StartInit /\ [][StartNext]_startVars
  BY PTL DEF StartSpec
<1> QED
  BY <1>1, <1>2, <1>3, PTL

\* RecordsKept: whatever starts, stops, signals and crashes there are, what the
\* daemons stored is in the database at the path, unless a start found it locked
\* and nobody at the socket (New, NewMessageStore).
THEOREM RecordsAreKept == StartSpec => []RecordsKept
<1>1. StartInv => RecordsKept
  BY Zenon DEF StartInv, RecordsInv, RecordsKept
<1> QED
  BY <1>1, StartAlways, PTL

\* FilesAgree: the socket leads to the daemon that listens on it, the token file
\* holds that daemon's token, the key file its key, and no two daemons hold the
\* lock of one database, except after an untidy stop or an overlap of starts
\* (ServeUnix, GracefulStop, LoadOrGenerate, bolt.Open).
THEOREM FilesStayAgreed == StartSpec => []FilesAgree
<1>1. StartInv => FilesAgree
  <2> SUFFICES ASSUME StartInv PROVE FilesAgree
    BY Zenon
  <2>1. \A p \in Starts : daemon[p].key \in 0..MaxStarts
    BY Zenon DEF StartInv, DaemonInv, Daemons
  <2>2. ASSUME NEW p \in Starts, daemon[p].locked
        PROVE  daemon[p].db \in 1..Len(records) /\ Holds(daemon[p].db) = {p}
    <3>1. daemon[p].db \in 1..Len(records)
      BY Zenon, <2>2 DEF StartInv, DaemonInv, DaemonOK
    <3>2. \A q \in Starts : q # p /\ daemon[q].locked => daemon[q].db # daemon[p].db
      BY Zenon, <2>2 DEF StartInv, DaemonInv, Alone
    <3> QED
      BY Zenon, <2>2, <3>1, <3>2 DEF Holds
  <2>3. StartTypeOK
    BY Zenon, <2>1, <2>2 DEF StartTypeOK, StartInv, DaemonInv, FilesType
  <2>4. Reachable
    BY Zenon DEF Reachable, StartInv, ServerInv
  <2>5. TokenMatches
    <3> SUFFICES ASSUME isDaemonAlive PROVE token = socket \/ untidy
      BY Zenon DEF TokenMatches
    <3>1. socket \in Starts /\ daemon[socket].srv \in {"bind", "listen"}
      BY StartupAssumption DEF isDaemonAlive, StartInv, DaemonInv, FilesType, Starts
    <3> QED
      BY Zenon, <3>1 DEF StartInv, ServerInv
  <2>6. KeyAgrees /\ KeyIsWhole
    BY Zenon DEF KeyAgrees, StartInv, KeyInv
  <2> QED
    BY Zenon, <2>3, <2>4, <2>5, <2>6 DEF FilesAgree
<1> QED
  BY <1>1, StartAlways, PTL

=============================================================================
