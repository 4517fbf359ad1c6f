---------------------------- MODULE Teams_proofs -----------------------------
(***************************************************************************)
(* The teams in coord's database, for any number of users, teams, invites, *)
(* nodes and calls; and what the dashboard shows of a daemon, for any      *)
(* number of turns and events.                                             *)
(***************************************************************************)
EXTENDS Teams, Dashboard, Sizes, TLAPS

-----------------------------------------------------------------------------
(* Teams.  Each group of tables has an inductive invariant of its own,      *)
(* which says what the calls in progress have already read or promised.    *)

\* The steps of the gRPC calls; those of REST and of the command line are the
\* same.
CallStep(r) ==
  \/ \E u \in Users, t \in Teams :
       \/ CreateTeamInvite(r, u, t) \/ DeleteTeam(r, u, t)
       \/ \E w \in Users :
            \/ RemoveTeamMember(r, u, t, w)
            \/ \E to \in {"owner", "member"} : UpdateTeamMemberRole(r, u, t, w, to)
  \/ \E u \in Users, c \in Codes : AcceptTeamInvite(r, u, c)
  \/ InsertInvite(r) \/ AddTeamMember(r) \/ DeleteMember(r) \/ CountOwners(r)
  \/ SetRole(r) \/ DropTeam(r) \/ ClearNodes(r)

\* Every step is one of the gRPC calls, of a registration, or CreateTeam.
LEMMA Steps ==
  Next => \/ \E u \in Users : CreateTeam(u)
          \/ \E r \in Requests : CallStep(r) \/ NodeStep(r)
BY SMTT(20) DEF Next, TeamStep, CallStep, handleCreateTeam, teamCreate, handleCreateInvite,
       teamInvite, handleDeleteTeam, handleRemoveMember, teamRemove, handleUpdateRole,
       teamRole, handleAcceptInvite, teamJoin

Pcs == {"idle", "invite", "join", "remove", "count", "role", "delete", "clear",
        "personal", "member", "upsert", "scope"}

-----------------------------------------------------------------------------
(* The types, with what the fields of a call are at each of its steps, and *)
(* the references between the tables.                                      *)

Fits(x, known) ==
  /\ x.pc \in {"invite", "join", "remove", "count", "role", "delete", "clear"} =>
       x.by \in Users /\ x.team \in known
  /\ x.pc \in {"invite", "join"} => x.code \in Codes
  /\ x.pc \in {"remove", "count", "role"} => x.who \in Users
  /\ x.pc \in {"count", "role"} => x.to \in {"owner", "member"}
  /\ x.pc \in {"personal", "member"} => x.by \in Users
  /\ x.pc \in {"personal", "member", "upsert", "scope"} => x.node \in Nodes

CallsOK   == /\ req \in [Requests -> Calls]
             /\ \A r \in Requests : Fits(req[r], made)
TeamsOK   == /\ teams \subseteq made /\ made \subseteq Teams
             /\ role \in [Teams -> [Users -> Roles]]
             /\ \A t \in Teams \ teams, u \in Users : role[t][u] = ""
InvitesOK == /\ invite \in [Codes -> [team : Teams \union {None}, max : Nat, uses : Nat]]
             /\ given \in [Codes -> Nat] /\ joins \in [Codes -> Nat]
             /\ \A c \in Codes : IF invite[c].team = None THEN invite[c].max = 0
                                 ELSE invite[c].team \in teams
NodesOK   == /\ nodeTeam \in [Nodes -> Teams \union {None}]
             /\ usedBy \in [Tokens -> Nodes \union {None}]
             /\ admitted \in [Tokens -> Nat]
NotesOK   == /\ stepped \subseteq Teams /\ crossed \subseteq Teams
             /\ loose \subseteq Nodes /\ hurried \subseteq Users /\ extra \subseteq Users

TypeInv == CallsOK /\ TeamsOK /\ InvitesOK /\ NodesOK /\ NotesOK

\* A call of this type may begin.
LEMMA CallTypes ==
  ASSUME NEW u \in Users \union {None}, NEW t \in Teams \union {None},
         NEW w \in Users \union {None}, NEW to \in Roles, NEW c \in Codes \union {None},
         NEW n \in Nodes \union {None}, NEW pc \in Pcs
  PROVE  /\ Idle \in Calls
         /\ ByOwner(u, t, pc) \in Calls
         /\ [ByOwner(u, t, pc) EXCEPT !.code = c] \in Calls
         /\ [ByOwner(u, t, pc) EXCEPT !.who = w] \in Calls
         /\ [ByOwner(u, t, pc) EXCEPT !.who = w, !.to = to] \in Calls
         /\ [Idle EXCEPT !.pc = pc, !.by = u, !.node = n, !.team = t] \in Calls
         /\ [Idle EXCEPT !.pc = pc, !.node = n, !.team = t] \in Calls
<1>1. Idle \in Calls /\ ByOwner(u, t, pc) \in Calls
  BY Zenon DEF Idle, Calls, Pcs, ByOwner, Roles
<1>2. ASSUME NEW x \in Calls
      PROVE  /\ [x EXCEPT !.code = c] \in Calls
             /\ [x EXCEPT !.who = w] \in Calls
             /\ [x EXCEPT !.who = w, !.to = to] \in Calls
  BY ZenonT(30) DEF Calls
<1>3. ASSUME NEW x \in Calls
      PROVE  [x EXCEPT !.pc = pc, !.by = u, !.node = n, !.team = t] \in Calls
  BY Zenon DEF Calls, Pcs
<1>4. ASSUME NEW x \in Calls
      PROVE  [x EXCEPT !.pc = pc, !.node = n, !.team = t] \in Calls
  BY Zenon DEF Calls, Pcs
<1> QED
  BY Zenon, <1>1, <1>2, <1>3, <1>4

\* The table of calls stays right when one of them begins, goes on or ends.
LEMMA CallsStayTyped ==
  ASSUME CallsOK, made \subseteq made', NEW r \in Requests
  PROVE  /\ \A call \in Calls : Begin(r, call) /\ Fits(call, made') => CallsOK'
         /\ \A pc \in Pcs : Goes(r, pc) /\ Fits([req[r] EXCEPT !.pc = pc], made') => CallsOK'
         /\ Ends(r) => CallsOK'
<1>1. Idle \in Calls /\ Fits(Idle, made')
  BY Zenon DEF Idle, Calls, Roles, Fits
<1>2. \A q \in Requests : Fits(req[q], made')
  BY Zenon DEF Fits, CallsOK
<1>3. ASSUME NEW call \in Calls, req' = [req EXCEPT ![r] = call], Fits(call, made')
      PROVE  CallsOK'
  BY Zenon, <1>2, <1>3 DEF CallsOK
<1>4. \A pc \in Pcs : [req[r] EXCEPT !.pc = pc] \in Calls
  BY DEF CallsOK, Calls, Pcs
<1> QED
  BY Zenon, <1>1, <1>3, <1>4 DEF Begin, Goes, Ends

\* What becomes of the calls when one of them goes on or ends.
LEMMA Moves ==
  ASSUME CallsOK, NEW r \in Requests
  PROVE  /\ \A pc : Goes(r, pc) =>
              /\ req'[r].pc = pc /\ req'[r].by = req[r].by /\ req'[r].team = req[r].team
              /\ req'[r].node = req[r].node
              /\ \A q \in Requests \ {r} : req'[q] = req[q]
         /\ Ends(r) => req'[r].pc = "idle" /\ \A q \in Requests \ {r} : req'[q] = req[q]
<1>1. req \in [Requests -> Calls] /\ req[r] \in Calls
  BY Zenon DEF CallsOK
<1>2. ASSUME NEW pc, Goes(r, pc)
      PROVE  /\ req'[r] = [req[r] EXCEPT !.pc = pc]
             /\ \A q \in Requests \ {r} : req'[q] = req[q]
  BY Zenon, <1>1, <1>2 DEF Goes
<1>3. ASSUME NEW pc, Goes(r, pc)
      PROVE  /\ req'[r].pc = pc /\ req'[r].by = req[r].by /\ req'[r].team = req[r].team
             /\ req'[r].node = req[r].node
  <2>1. req'[r] = [req[r] EXCEPT !.pc = pc]
    BY Zenon, <1>2, <1>3
  <2> QED
    BY Zenon, <1>1, <2>1 DEF Calls
<1>4. ASSUME Ends(r)
      PROVE  req'[r].pc = "idle" /\ \A q \in Requests \ {r} : req'[q] = req[q]
  BY Zenon, <1>1, <1>4 DEF Ends, Idle
<1> QED
  BY Zenon, <1>2, <1>3, <1>4

\* What RegisterNode has read of the user's teams when the call goes on.
LEMMA RegisterBegins ==
  ASSUME CallsOK, NEW r \in Requests, NEW u, NEW n, NEW t, RegisterNode(r, u, n, t)
  PROVE  /\ req[r].pc = "idle" /\ req'[r].by = u /\ req'[r].node = n /\ req'[r].team = t
         /\ req'[r].pc = IF TeamsOf(u) = {} THEN "personal" ELSE "member"
         /\ \A q \in Requests \ {r} : req'[q] = req[q]
<1> DEFINE pc   == IF TeamsOf(u) = {} THEN "personal" ELSE "member"
           call == [Idle EXCEPT !.pc = pc, !.by = u, !.node = n, !.team = t]
<1>1. call.pc = pc /\ call.by = u /\ call.node = n /\ call.team = t
  BY Zenon DEF Idle
<1>2. Begin(r, call)
  BY Zenon DEF RegisterNode
<1> HIDE DEF call
<1> QED
  BY Zenon, <1>1, <1>2 DEF Begin, CallsOK

\* What a call that begins with u's role in t knows: the team was made.
LEMMA OwnedIsMade ==
  ASSUME TeamsOK, NEW u \in Users, NEW t \in Teams, role[t][u] = "owner"
  PROVE  t \in teams /\ t \in made
BY Zenon DEF TeamsOK

\* Every step of a call on teams keeps the types and the shape of the call.
LEMMA CallStepTyped ==
  ASSUME TypeInv, NEW r \in Requests, CallStep(r)
  PROVE  TypeInv'
<1> USE DEF TypeInv
<1> req[r] \in Calls /\ Fits(req[r], made)
  BY Zenon DEF CallsOK
<1>1. ASSUME NEW u \in Users, NEW t \in Teams, CreateTeamInvite(r, u, t)
      PROVE  TypeInv'
  <2>1. PICK c \in Codes : Begin(r, [ByOwner(u, t, "invite") EXCEPT !.code = c])
    BY Zenon, <1>1 DEF CreateTeamInvite
  <2>2. [ByOwner(u, t, "invite") EXCEPT !.code = c] \in Calls
    BY Zenon, CallTypes DEF Pcs, Roles
  <2>3. UNCHANGED <<tables, history>> /\ t \in made
    BY Zenon, <1>1, OwnedIsMade DEF CreateTeamInvite
  <2>4. Fits([ByOwner(u, t, "invite") EXCEPT !.code = c], made')
    BY Zenon, <2>3 DEF Fits, ByOwner, Idle, history
  <2> QED
    BY Zenon, <2>1, <2>2, <2>3, <2>4, CallsStayTyped
       DEF TeamsOK, InvitesOK, NodesOK, NotesOK, tables, history
<1>2. ASSUME NEW u \in Users, NEW t \in Teams, DeleteTeam(r, u, t)
      PROVE  TypeInv'
  <2>1. ByOwner(u, t, "delete") \in Calls
    BY Zenon, CallTypes DEF Pcs, Roles
  <2>2. UNCHANGED <<tables, history>> /\ t \in made
    BY Zenon, <1>2, OwnedIsMade DEF DeleteTeam
  <2>3. Fits(ByOwner(u, t, "delete"), made')
    BY Zenon, <2>2 DEF Fits, ByOwner, Idle, history
  <2> QED
    BY Zenon, <1>2, <2>1, <2>2, <2>3, CallsStayTyped
       DEF DeleteTeam, TeamsOK, InvitesOK, NodesOK, NotesOK, tables, history
<1>3. ASSUME NEW u \in Users, NEW t \in Teams, NEW w \in Users, RemoveTeamMember(r, u, t, w)
      PROVE  TypeInv'
  <2> DEFINE call == [ByOwner(u, t, "remove") EXCEPT !.who = w]
  <2>1. call \in Calls
    BY Zenon, CallTypes DEF Pcs, Roles
  <2>2. t \in made /\ BeginChange(r, t, call)
    BY Zenon, <1>3, OwnedIsMade DEF RemoveTeamMember
  <2>3. Fits(call, made')
    BY Zenon, <2>2 DEF Fits, ByOwner, Idle, BeginChange
  <2> HIDE DEF call
  <2> QED
    BY Zenon, <2>1, <2>2, <2>3, CallsStayTyped
       DEF BeginChange, TeamsOK, InvitesOK, NodesOK, NotesOK, tables
<1>4. ASSUME NEW u \in Users, NEW t \in Teams, NEW w \in Users, NEW to \in {"owner", "member"},
             UpdateTeamMemberRole(r, u, t, w, to)
      PROVE  TypeInv'
  <2> DEFINE pc   == IF w = u /\ to # "owner" THEN "count" ELSE "role"
             call == [ByOwner(u, t, pc) EXCEPT !.who = w, !.to = to]
  <2>1. t \in made /\ BeginChange(r, t, call)
    BY Zenon, <1>4, OwnedIsMade DEF UpdateTeamMemberRole
  <2>2. pc \in {"count", "role"}
    BY Zenon
  <2> HIDE DEF pc
  <2>3. call \in Calls
    <3>1. pc \in Pcs /\ to \in Roles
      BY Zenon, <2>2 DEF Pcs, Roles
    <3> QED
      BY Zenon, <3>1, CallTypes
  <2>4. Fits(call, made')
    BY Zenon, <2>1, <2>2 DEF Fits, ByOwner, Idle, BeginChange
  <2> HIDE DEF call
  <2> QED
    BY Zenon, <2>1, <2>3, <2>4, CallsStayTyped
       DEF BeginChange, TeamsOK, InvitesOK, NodesOK, NotesOK, tables
<1>5. ASSUME NEW u \in Users, NEW c \in Codes, AcceptTeamInvite(r, u, c)
      PROVE  TypeInv'
  <2>1. invite[c].team \in teams /\ invite[c].team \in made
    <3>1. invite[c].uses < invite[c].max /\ invite[c].uses \in Nat /\ invite[c].max \in Nat
      BY Zenon, <1>5 DEF AcceptTeamInvite, ConsumeTeamInvite, InvitesOK
    <3>2. invite[c].max # 0
      BY SMTT(20), <3>1
    <3> QED
      BY Zenon, <3>2 DEF InvitesOK, TeamsOK
  <2> DEFINE call == [ByOwner(u, invite[c].team, "join") EXCEPT !.code = c]
  <2>2. call \in Calls
    BY Zenon, <2>1, CallTypes DEF Pcs, Roles, TeamsOK
  <2>3. Fits(call, made')
    BY Zenon, <1>5, <2>1 DEF Fits, ByOwner, Idle, AcceptTeamInvite, history
  <2>4. Begin(r, call)
    BY Zenon, <1>5 DEF AcceptTeamInvite
  <2>5. InvitesOK'
    BY SMTT(20), <1>5 DEF AcceptTeamInvite, ConsumeTeamInvite, InvitesOK, history
  <2> HIDE DEF call
  <2> QED
    BY Zenon, <1>5, <2>2, <2>3, <2>4, <2>5, CallsStayTyped
       DEF AcceptTeamInvite, TeamsOK, NodesOK, NotesOK, history
<1>6. CASE InsertInvite(r)
  <2>1. req[r].code \in Codes
    BY Zenon, <1>6 DEF InsertInvite, At, Fits
  <2>2. CASE req[r].team \in teams
    <3>1. PICK max \in 1..MaxUses :
            /\ invite' = [invite EXCEPT ![req[r].code] =
                            [team |-> req[r].team, max |-> max, uses |-> 0]]
            /\ given' = [given EXCEPT ![req[r].code] = max]
      BY Zenon, <1>6, <2>2 DEF InsertInvite
    <3>2. max \in Nat /\ req[r].team # None
      <4>1. max \in Nat
        BY SMTT(20), TeamsAssumption
      <4>2. req[r].team # None
        BY Zenon, <2>2, TeamsAssumption, Zenon DEF TeamsOK
      <4> QED
        BY Zenon, <4>1, <4>2
    <3>3. UNCHANGED <<teams, joins>>
      BY Zenon, <1>6 DEF InsertInvite
    <3> QED
      BY Zenon, <1>6, <2>1, <2>2, <3>1, <3>2, <3>3, CallsStayTyped
         DEF InsertInvite, InvitesOK, TeamsOK, NodesOK, NotesOK
  <2>3. CASE req[r].team \notin teams
    BY Zenon, <1>6, <2>3, CallsStayTyped DEF InsertInvite, InvitesOK, TeamsOK, NodesOK, NotesOK
  <2> QED
    BY Zenon, <2>2, <2>3
<1>7. CASE AddTeamMember(r)
  <2> DEFINE t == req[r].team
             u == req[r].by
  <2>1. u \in Users /\ t \in Teams /\ req[r].code \in Codes
    BY Zenon, <1>7 DEF AddTeamMember, At, Fits, TeamsOK
  <2>2. CASE t \in teams
    <3>1. /\ role' = [role EXCEPT ![t][u] = "member"]
          /\ joins' = [joins EXCEPT ![req[r].code] = @ + 1]
          /\ stepped' = IF role[t][u] = "owner" THEN stepped \union {t} ELSE stepped
          /\ hurried' = IF Making(u) THEN hurried \union {u} ELSE hurried
          /\ UNCHANGED <<teams, made, invite, given>>
      BY Zenon, <1>7, <2>2 DEF AddTeamMember
    <3>2. TeamsOK'
      BY Zenon, <2>1, <2>2, <3>1 DEF TeamsOK, Roles
    <3>3. InvitesOK'
      BY SMTT(20), <2>1, <3>1 DEF InvitesOK
    <3>4. NotesOK'
      BY Zenon, <1>7, <2>1, <3>1 DEF NotesOK, AddTeamMember
    <3> QED
      BY Zenon, <1>7, <3>2, <3>3, <3>4, CallsStayTyped DEF AddTeamMember, NodesOK
  <2>3. CASE t \notin teams
    BY Zenon, <1>7, <2>3, CallsStayTyped DEF AddTeamMember, InvitesOK, TeamsOK, NodesOK, NotesOK
  <2> QED
    BY Zenon, <2>2, <2>3
<1>8. CASE DeleteMember(r)
  <2>1. TeamsOK'
    <3>1. PICK f : f = [role[req[r].team] EXCEPT ![req[r].who] = ""]
      BY Zenon
    <3>2. role' = [role EXCEPT ![req[r].team] = f] /\ teams' = teams /\ made' = made
      BY Zenon, <1>8, <3>1 DEF DeleteMember, history
    <3>3. role \in [Teams -> [Users -> Roles]] /\ "" \in Roles
      BY Zenon DEF TeamsOK, Roles
    <3>4. role' \in [Teams -> [Users -> Roles]]
      BY Zenon, <3>1, <3>2, <3>3
    <3>5. ASSUME NEW t \in Teams \ teams, NEW u \in Users PROVE role'[t][u] = ""
      BY Zenon, <3>1, <3>2, <3>3 DEF TeamsOK
    <3> QED
      BY Zenon, <3>2, <3>4, <3>5 DEF TeamsOK
  <2> QED
    BY Zenon, <1>8, <2>1, CallsStayTyped DEF DeleteMember, InvitesOK, NodesOK, NotesOK, history
<1>9. CASE CountOwners(r)
  <2>1. UNCHANGED <<tables, history>>
    BY Zenon, <1>9 DEF CountOwners
  <2>2. Fits([req[r] EXCEPT !.pc = "role"], made')
    BY Zenon, <1>9, <2>1 DEF CountOwners, At, Fits, Calls, history
  <2> QED
    BY Zenon, <1>9, <2>1, <2>2, CallsStayTyped
       DEF CountOwners, Pcs, TeamsOK, InvitesOK, NodesOK, NotesOK, tables, history
<1>10. CASE SetRole(r)
  <2>1. req[r].to \in Roles /\ UNCHANGED <<teams, made>>
    BY Zenon, <1>10 DEF SetRole, history, Calls
  <2>2. PICK x \in Roles :
          /\ role' = [role EXCEPT ![req[r].team][req[r].who] = x]
          /\ role[req[r].team][req[r].who] = "" => x = ""
    <3>1. CASE role[req[r].team][req[r].who] = ""
      BY Zenon, <1>10, <3>1 DEF SetRole, Roles
    <3>2. CASE role[req[r].team][req[r].who] # ""
      BY Zenon, <1>10, <2>1, <3>2 DEF SetRole, TeamsOK
    <3> QED
      BY Zenon, <3>1, <3>2
  <2>3. TeamsOK'
    BY Zenon, <2>1, <2>2 DEF TeamsOK
  <2> QED
    BY Zenon, <1>10, <2>1, <2>3, CallsStayTyped DEF SetRole, InvitesOK, NodesOK, NotesOK, history
<1>11. CASE DropTeam(r)
  <2> DEFINE t == req[r].team
  <2>1. CASE t \in teams
    <3>1. /\ teams' = teams \ {t}
          /\ role' = [role EXCEPT ![t] = [u \in Users |-> ""]]
          /\ invite' = [c \in Codes |-> IF invite[c].team = t THEN NoInvite ELSE invite[c]]
          /\ loose' = loose \union Entering(t)
          /\ Goes(r, "clear")
          /\ UNCHANGED <<made, given, joins, stepped, crossed, hurried, extra>>
      BY Zenon, <1>11, <2>1 DEF DropTeam
    <3>2. TeamsOK'
      BY Zenon, <3>1 DEF TeamsOK, Roles
    <3>3. InvitesOK'
      BY Zenon, <3>1 DEF InvitesOK, NoInvite
    <3>4. Entering(t) \subseteq Nodes
      BY Zenon DEF Entering, CallsOK, Fits
    <3>5. NotesOK'
      BY Zenon, <3>1, <3>4 DEF NotesOK
    <3>6. Fits([req[r] EXCEPT !.pc = "clear"], made')
      BY Zenon, <1>11, <3>1 DEF DropTeam, At, Fits, Calls
    <3> QED
      BY Zenon, <1>11, <3>1, <3>2, <3>3, <3>5, <3>6, CallsStayTyped DEF DropTeam, NodesOK, Pcs
  <2>2. CASE t \notin teams
    BY Zenon, <1>11, <2>2, CallsStayTyped DEF DropTeam, InvitesOK, TeamsOK, NodesOK, NotesOK
  <2> QED
    BY Zenon, <2>1, <2>2
<1>12. CASE ClearNodes(r)
  <2>1. NodesOK'
    BY Zenon, <1>12 DEF ClearNodes, NodesOK, history
  <2> QED
    BY Zenon, <1>12, <2>1, CallsStayTyped DEF ClearNodes, TeamsOK, InvitesOK, NotesOK, history
<1> QED
  BY Zenon, <1>1, <1>2, <1>3, <1>4, <1>5, <1>6, <1>7, <1>8, <1>9, <1>10, <1>11, <1>12 DEF CallStep

\* So does the transaction that makes a team and its first owner.
LEMMA InsertTeamTyped ==
  ASSUME TeamsOK, NEW t \in Teams, NEW u \in Users, InsertTeam(t, u)
  PROVE  TeamsOK' /\ made \subseteq made' /\ teams \subseteq teams'
BY Zenon DEF TeamsOK, InsertTeam, Roles

\* So does every step of the registration of a node.
LEMMA NodeStepTyped ==
  ASSUME TypeInv, NEW r \in Requests, NodeStep(r)
  PROVE  TypeInv'
<1> USE DEF TypeInv
<1> req[r] \in Calls /\ Fits(req[r], made)
  BY Zenon DEF CallsOK
<1>1. ASSUME NEW n \in Nodes, NEW t \in made \union {None}, NEW u \in Users,
             RegisterNode(r, u, n, t)
      PROVE  TypeInv'
  <2> DEFINE pc   == IF TeamsOf(u) = {} THEN "personal" ELSE "member"
             call == [Idle EXCEPT !.pc = pc, !.by = u, !.node = n, !.team = t]
  <2>1. Begin(r, call) /\ UNCHANGED <<tables, history>>
    BY Zenon, <1>1 DEF RegisterNode
  <2>2. pc \in {"personal", "member"} /\ t \in Teams \union {None}
    BY Zenon DEF TeamsOK
  <2> HIDE DEF pc
  <2>3. call \in Calls
    <3>1. pc \in Pcs
      BY Zenon, <2>2 DEF Pcs
    <3> QED
      BY ZenonT(30), <2>2, <3>1, CallTypes DEF Roles
  <2>4. Fits(call, made')
    BY Zenon, <2>2 DEF Fits, Idle
  <2> HIDE DEF call
  <2> QED
    BY Zenon, <2>1, <2>3, <2>4, CallsStayTyped
       DEF TeamsOK, InvitesOK, NodesOK, NotesOK, tables, history
<1>2. ASSUME NEW n \in Nodes, NEW t \in made \union {None}, NEW k \in Tokens,
             RegisterWithToken(r, k, n, t)
      PROVE  TypeInv'
  <2> DEFINE call == [Idle EXCEPT !.pc = "upsert", !.node = n, !.team = t]
  <2>1. Begin(r, call)
    BY Zenon, <1>2 DEF RegisterWithToken
  <2>2. call \in Calls
    <3>1. t \in Teams \union {None}
      BY Zenon DEF TeamsOK
    <3> QED
      BY Zenon, <3>1 DEF Idle, Calls, Roles
  <2>3. Fits(call, made')
    BY Zenon DEF Fits, Idle
  <2>4. NodesOK'
    BY SMTT(20), <1>2 DEF RegisterWithToken, ValidateAndConsumeToken, NodesOK
  <2>5. NotesOK'
    BY Zenon, <1>2 DEF RegisterWithToken, NotesOK
  <2> HIDE DEF call
  <2> QED
    BY Zenon, <1>2, <2>1, <2>2, <2>3, <2>4, <2>5, CallsStayTyped
       DEF RegisterWithToken, TeamsOK, InvitesOK
<1>3. CASE MakePersonalTeam(r)
  <2>1. req[r].by \in Users
    BY Zenon, <1>3 DEF MakePersonalTeam, At, Fits
  <2>2. TeamsOK' /\ made \subseteq made' /\ teams \subseteq teams'
    BY Zenon, <1>3, <2>1, InsertTeamTyped DEF MakePersonalTeam
  <2>3. Fits([req[r] EXCEPT !.pc = "member"], made')
    BY Zenon, <1>3 DEF MakePersonalTeam, At, Fits, Calls
  <2>4. NotesOK'
    BY Zenon, <1>3, <2>1 DEF MakePersonalTeam, NotesOK
  <2>5. InvitesOK'
    BY Zenon, <1>3, <2>2 DEF MakePersonalTeam, InvitesOK
  <2> QED
    BY Zenon, <1>3, <2>2, <2>3, <2>4, <2>5, CallsStayTyped DEF MakePersonalTeam, NodesOK, Pcs
<1>4. CASE CheckMember(r)
  <2>1. UNCHANGED <<tables, history>>
    BY Zenon, <1>4 DEF CheckMember
  <2>2. Fits([req[r] EXCEPT !.pc = "upsert"], made')
    BY Zenon, <1>4 DEF CheckMember, At, Fits, Calls
  <2> QED
    BY Zenon, <1>4, <2>1, <2>2, CallsStayTyped
       DEF CheckMember, Pcs, TeamsOK, InvitesOK, NodesOK, NotesOK, tables, history
<1>5. CASE UpsertNode(r)
  <2>1. NodesOK'
    BY Zenon, <1>5 DEF UpsertNode, NodesOK, history, Calls
  <2>2. Fits([req[r] EXCEPT !.pc = "scope"], made')
    BY Zenon, <1>5 DEF UpsertNode, At, Fits, Calls
  <2> QED
    BY Zenon, <1>5, <2>1, <2>2, CallsStayTyped
       DEF UpsertNode, Pcs, TeamsOK, InvitesOK, NotesOK, history
<1>6. CASE SetNodeTeam(r)
  <2>1. NodesOK'
    BY Zenon, <1>6 DEF SetNodeTeam, NodesOK, history, Calls
  <2> QED
    BY Zenon, <1>6, <2>1, CallsStayTyped DEF SetNodeTeam, TeamsOK, InvitesOK, NotesOK, history
<1> QED
  BY Zenon, <1>1, <1>2, <1>3, <1>4, <1>5, <1>6 DEF NodeStep

\* The empty tables are typed.
LEMMA InitTyped == Init => TypeInv
<1> SUFFICES ASSUME Init PROVE TypeInv
  BY Zenon
<1>1. CallsOK
  <2>1. Idle \in Calls /\ Fits(Idle, made)
    BY Zenon DEF Idle, Calls, Roles, Fits
  <2> QED
    BY Zenon, <2>1 DEF Init, CallsOK
<1>2. TeamsOK
  BY Zenon DEF Init, TeamsOK, Roles
<1>3. InvitesOK
  BY Zenon DEF Init, InvitesOK, NoInvite
<1>4. NodesOK /\ NotesOK
  BY Zenon DEF Init, NodesOK, NotesOK
<1> QED
  BY Zenon, <1>1, <1>2, <1>3, <1>4 DEF TypeInv

\* The types are inductive.
LEMMA NextTyped == TypeInv /\ [Next]_vars => TypeInv'
<1> SUFFICES ASSUME TypeInv, [Next]_vars PROVE TypeInv'
  BY Zenon
<1>1. CASE UNCHANGED vars
  BY Zenon, <1>1 DEF TypeInv, CallsOK, TeamsOK, InvitesOK, NodesOK, NotesOK, vars, tables, history
<1>2. ASSUME NEW u \in Users, CreateTeam(u) PROVE TypeInv'
  <2>1. TeamsOK' /\ made \subseteq made' /\ teams \subseteq teams'
    BY Zenon, <1>2, InsertTeamTyped DEF CreateTeam, TypeInv
  <2>2. CallsOK'
    BY Zenon, <1>2, <2>1 DEF CreateTeam, TypeInv, CallsOK, Fits
  <2>3. InvitesOK' /\ NodesOK'
    BY Zenon, <1>2, <2>1 DEF CreateTeam, TypeInv, InvitesOK, NodesOK
  <2>4. NotesOK'
    BY Zenon, <1>2 DEF CreateTeam, TypeInv, NotesOK
  <2> QED
    BY Zenon, <2>1, <2>2, <2>3, <2>4 DEF TypeInv
<1> QED
  BY Zenon, <1>1, <1>2, Steps, CallStepTyped, NodeStepTyped

\* The types hold always; the lemmas below assume them.
LEMMA TypesAlways == Spec => []TypeInv
BY InitTyped, NextTyped, PTL DEF Spec

\* Type correctness of coord's tables and of the calls in progress.
THEOREM TypeCorrect == Spec => []TypeOK
<1>1. TypeInv => TypeOK
  BY Zenon DEF TypeInv, CallsOK, TeamsOK, InvitesOK, NodesOK, NotesOK, TypeOK
<1> QED
  BY <1>1, TypesAlways, PTL
-----------------------------------------------------------------------------
(* Single-use tokens.                                                      *)

TokenInv == \A k \in Tokens : admitted[k] = IF usedBy[k] = None THEN 0 ELSE 1

\* No step but a registration with a token touches the tokens.
LEMMA TokensFrame ==
  ASSUME [Next]_vars,
         ~ \E r \in Requests, k \in Tokens, n \in Nodes, t \in made \union {None} :
             RegisterWithToken(r, k, n, t)
  PROVE  UNCHANGED <<usedBy, admitted>>
<1>1. CASE UNCHANGED vars
  BY Zenon, <1>1 DEF vars, tables, history
<1>2. CASE \E u \in Users : CreateTeam(u)
  BY Zenon, <1>2 DEF CreateTeam
<1>3. ASSUME NEW r \in Requests, CallStep(r) PROVE UNCHANGED <<usedBy, admitted>>
  BY ZenonT(30), <1>3 DEF CallStep, CreateTeamInvite, DeleteTeam, RemoveTeamMember, UpdateTeamMemberRole,
     BeginChange, AcceptTeamInvite, InsertInvite, AddTeamMember, DeleteMember, CountOwners,
     SetRole, DropTeam, ClearNodes, tables, history
<1>4. ASSUME NEW r \in Requests, NodeStep(r) PROVE UNCHANGED <<usedBy, admitted>>
  BY Zenon, <1>4 DEF NodeStep, RegisterNode, MakePersonalTeam, CheckMember, UpsertNode, SetNodeTeam,
     tables, history
<1> QED
  BY Zenon, <1>1, <1>2, <1>3, <1>4, Steps

\* A token is consumed in the transaction that checks it.
LEMMA TokensAlways == Spec => []TokenInv
<1>1. Init => TokenInv
  BY Zenon DEF Init, TokenInv
<1>2. TypeInv /\ TokenInv /\ [Next]_vars => TokenInv'
  <2> SUFFICES ASSUME TypeInv, TokenInv, [Next]_vars PROVE TokenInv'
    BY Zenon
  <2>1. ASSUME NEW r \in Requests, NEW k \in Tokens, NEW n \in Nodes,
               NEW t \in made \union {None}, RegisterWithToken(r, k, n, t)
        PROVE  TokenInv'
    <3>1. n # None
      BY TeamsAssumption, Zenon
    <3>2. usedBy[k] = None /\ usedBy' = [usedBy EXCEPT ![k] = n]
          /\ admitted' = [admitted EXCEPT ![k] = @ + 1]
      BY Zenon, <2>1 DEF RegisterWithToken, ValidateAndConsumeToken
    <3> QED
      BY SMTT(20), <3>1, <3>2 DEF TokenInv, TypeInv, NodesOK
  <2>2. UNCHANGED <<usedBy, admitted>> => TokenInv'
    BY Zenon DEF TokenInv
  <2> QED
    BY Zenon, <2>1, <2>2, TokensFrame
<1> QED
  BY <1>1, <1>2, TypesAlways, PTL DEF Spec
-----------------------------------------------------------------------------
(* Owners.  An uncrossed call that is going to change an owner was made by *)
(* a user who still is one, and leaves one.                                *)

KeepsOwner(x) ==
  x.pc \in {"remove", "count", "role"} /\ x.team \in teams \ (stepped \union crossed) =>
    /\ role[x.team][x.by] = "owner"
    /\ x.pc = "remove" => x.who # x.by
    /\ x.pc = "role" /\ x.who = x.by =>
         x.to = "owner" \/ \E w \in Users \ {x.by} : role[x.team][w] = "owner"

OwnersInv ==
  /\ OwnerRemains
  /\ \A r \in Requests : KeepsOwner(req[r])
  /\ \A q, r \in Requests :
       q # r /\ ChangesOwners(q) /\ ChangesOwners(r) /\ req[q].team = req[r].team =>
         req[r].team \in crossed

\* Whether a call is one of those.
Changing == {"remove", "count", "role"}

\* Calls that begin or go on without changing owners.
LEMMA OwnersFrame ==
  ASSUME OwnersInv, UNCHANGED <<teams, role, stepped, crossed>>,
         \A q \in Requests : req'[q] = req[q] \/ req'[q].pc \notin Changing
  PROVE  OwnersInv'
<1>1. OwnerRemains'
  BY Zenon DEF OwnersInv, OwnerRemains, Owners
<1>2. \A q \in Requests : KeepsOwner(req[q])'
  BY DEF OwnersInv, KeepsOwner, Changing
<1>3. (\A q, r \in Requests :
         q # r /\ ChangesOwners(q) /\ ChangesOwners(r) /\ req[q].team = req[r].team =>
           req[r].team \in crossed)'
  BY Zenon DEF OwnersInv, ChangesOwners, Changing
<1> QED
  BY Zenon, <1>1, <1>2, <1>3 DEF OwnersInv

\* A new team has its owner, and no call is about it yet.
LEMMA OwnersInsert ==
  ASSUME TypeInv, OwnersInv, NEW t \in Teams, NEW u \in Users, InsertTeam(t, u),
         UNCHANGED <<stepped, crossed>>,
         \A q \in Requests : req'[q] = req[q] \/ req'[q].pc \notin Changing
  PROVE  OwnersInv'
<1>1. /\ t \notin made /\ teams' = teams \union {t}
      /\ role' = [role EXCEPT ![t][u] = "owner"]
      /\ role \in [Teams -> [Users -> Roles]]
  BY Zenon DEF InsertTeam, TypeInv, TeamsOK
<1>2. \A x \in Teams \ {t} : role'[x] = role[x]
  BY Zenon, <1>1
<1>3. OwnerRemains'
  <2>1. role'[t][u] = "owner"
    BY Zenon, <1>1
  <2>2. \A x \in teams : x \in Teams \ {t}
    BY Zenon, <1>1 DEF TypeInv, TeamsOK
  <2> QED
    BY SMTT(20), <1>1, <1>2, <2>1, <2>2 DEF OwnersInv, OwnerRemains, Owners
<1>4. \A q \in Requests : req[q].pc \in Changing => req[q].team \in Teams \ {t}
  BY Zenon, <1>1 DEF TypeInv, CallsOK, Fits, Changing, TeamsOK
<1>5. \A q \in Requests : KeepsOwner(req[q])'
  BY SMTT(20), <1>1, <1>2, <1>4 DEF OwnersInv, KeepsOwner, Changing
<1>6. (\A q, r \in Requests :
         q # r /\ ChangesOwners(q) /\ ChangesOwners(r) /\ req[q].team = req[r].team =>
           req[r].team \in crossed)'
  BY Zenon DEF OwnersInv, ChangesOwners, Changing
<1> QED
  BY Zenon, <1>3, <1>5, <1>6 DEF OwnersInv

\* A call that changes the owners begins: the caller is one of them.
LEMMA OwnersBegin ==
  ASSUME TypeInv, OwnersInv, NEW r \in Requests, NEW t \in Teams, NEW call,
         BeginChange(r, t, call), call.pc \in Changing, call.team = t,
         role[t][call.by] = "owner", call.pc = "remove" => call.who # call.by,
         call.pc = "role" /\ call.who = call.by => call.to = "owner"
  PROVE  OwnersInv'
<1>1. /\ req \in [Requests -> Calls] /\ req[r].pc = "idle"
      /\ req' = [req EXCEPT ![r] = call]
      /\ crossed' = IF \E q \in Requests : ChangesOwners(q) /\ req[q].team = t
                    THEN crossed \union {t} ELSE crossed
      /\ UNCHANGED <<teams, role, stepped>>
  BY Zenon DEF BeginChange, Begin, TypeInv, CallsOK, tables
<1>2. OwnerRemains'
  BY SMTT(20), <1>1 DEF OwnersInv, OwnerRemains, Owners
<1>3. KeepsOwner(call)'
  BY Zenon, <1>1 DEF KeepsOwner
<1>4. \A q \in Requests \ {r} : KeepsOwner(req[q])'
  BY <1>1 DEF OwnersInv, KeepsOwner
<1>5. \A q \in Requests : KeepsOwner(req[q])'
  BY Zenon, <1>1, <1>3, <1>4
<1>6. ASSUME NEW q \in Requests, NEW p \in Requests, q # p,
             ChangesOwners(q)', ChangesOwners(p)', req'[q].team = req'[p].team
      PROVE  req'[p].team \in crossed'
  <2>1. CASE p = r
    BY Zenon, <1>1, <1>6, <2>1 DEF ChangesOwners
  <2>2. CASE q = r
    BY Zenon, <1>1, <1>6, <2>2 DEF ChangesOwners
  <2>3. CASE p # r /\ q # r
    BY Zenon, <1>1, <1>6, <2>3 DEF ChangesOwners, OwnersInv
  <2> QED
    BY Zenon, <2>1, <2>2, <2>3
<1> QED
  BY Zenon, <1>2, <1>5, <1>6 DEF OwnersInv

\* The end of a call that changes owners: the owners of an uncrossed team are
\* changed by this call alone, and one is left.
LEMMA OwnersChange ==
  ASSUME TypeInv, OwnersInv, NEW r \in Requests, req[r].pc \in Changing, Ends(r),
         NEW x \in Roles, role' = [role EXCEPT ![req[r].team][req[r].who] = x],
         UNCHANGED <<teams, stepped, crossed>>,
         \/ x = "owner"
         \/ \E w \in Users \ {req[r].who} : role[req[r].team][w] = "owner"
         \/ req[r].team \notin teams \ (stepped \union crossed)
  PROVE  OwnersInv'
<1> DEFINE t == req[r].team
           w == req[r].who
<1>1. /\ req \in [Requests -> Calls] /\ req' = [req EXCEPT ![r] = Idle]
      /\ role \in [Teams -> [Users -> Roles]] /\ t \in Teams /\ w \in Users
      /\ teams \subseteq Teams
  BY Zenon DEF Ends, TypeInv, CallsOK, TeamsOK, Fits, Changing
<1>2. /\ \A y \in Teams \ {t} : role'[y] = role[y]
      /\ \A v \in Users \ {w} : role'[t][v] = role[t][v]
      /\ role'[t][w] = x
  BY Zenon, <1>1
<1>3. OwnerRemains'
  <2>1. t \in teams \ (stepped \union crossed) => {u \in Users : role'[t][u] = "owner"} # {}
    BY Zenon, <1>1, <1>2
  <2>2. \A y \in teams \ (stepped \union crossed) : y # t => Owners(y)' # {}
    BY <1>1, <1>2 DEF OwnersInv, OwnerRemains, Owners
  <2> QED
    BY Zenon, <2>1, <2>2 DEF OwnerRemains, Owners
<1>4. \A q \in Requests \ {r} : req'[q] = req[q]
  BY Zenon, <1>1
<1>5. \A q \in Requests : KeepsOwner(req[q])'
  <2>1. KeepsOwner(req[r])'
    BY Zenon, <1>1 DEF KeepsOwner, Idle
  <2>2. ASSUME NEW q \in Requests \ {r} PROVE KeepsOwner(req[q])'
    <3>1. CASE req[q].pc \in Changing /\ req[q].team = t
      <4>1. t \in crossed
        BY Zenon, <3>1 DEF OwnersInv, ChangesOwners, Changing
      <4> QED
        BY Zenon, <1>4, <3>1, <4>1 DEF KeepsOwner
    <3>2. CASE req[q].pc \notin Changing
      BY Zenon, <1>4, <3>2 DEF KeepsOwner, Changing
    <3>3. CASE req[q].pc \in Changing /\ req[q].team # t
      <4>1. role'[req[q].team] = role[req[q].team]
        BY Zenon, <1>2, <3>3 DEF TypeInv, CallsOK, Fits, Changing, TeamsOK
      <4> QED
        BY SMTT(20), <1>4, <3>3, <4>1 DEF KeepsOwner, OwnersInv
    <3> QED
      BY Zenon, <3>1, <3>2, <3>3
  <2> QED
    BY Zenon, <2>1, <2>2
<1>6. (\A q, p \in Requests :
         q # p /\ ChangesOwners(q) /\ ChangesOwners(p) /\ req[q].team = req[p].team =>
           req[p].team \in crossed)'
  BY Zenon, <1>1 DEF OwnersInv, ChangesOwners, Idle
<1> QED
  BY Zenon, <1>3, <1>5, <1>6 DEF OwnersInv

\* Calls on teams leave an owner, by what each has checked and not yet written.
LEMMA OwnersCallStep ==
  ASSUME SizeLaws, TypeInv, OwnersInv, NEW r \in Requests, CallStep(r)
  PROVE  OwnersInv'
<1>0. req \in [Requests -> Calls] /\ Fits(req[r], made) /\ KeepsOwner(req[r])
  BY Zenon DEF TypeInv, CallsOK, OwnersInv
<1>1. ASSUME NEW u \in Users, NEW t \in Teams, CreateTeamInvite(r, u, t) PROVE OwnersInv'
  BY <1>0, <1>1, OwnersFrame
     DEF CreateTeamInvite, Begin, ByOwner, Idle, Changing, tables, history
<1>10. ASSUME NEW u \in Users, NEW t \in Teams, DeleteTeam(r, u, t) PROVE OwnersInv'
  BY Zenon, <1>0, <1>10, OwnersFrame
     DEF DeleteTeam, Begin, ByOwner, Idle, Changing, tables, history
<1>2. ASSUME NEW u \in Users, NEW t \in Teams, NEW w \in Users, RemoveTeamMember(r, u, t, w)
      PROVE  OwnersInv'
  <2> DEFINE call == [ByOwner(u, t, "remove") EXCEPT !.who = w]
  <2>1. call.pc = "remove" /\ call.team = t /\ call.by = u /\ call.who = w
    BY Zenon DEF ByOwner, Idle
  <2>2. BeginChange(r, t, call) /\ role[t][u] = "owner" /\ w # u
    BY Zenon, <1>2 DEF RemoveTeamMember
  <2> HIDE DEF call
  <2> QED
    BY Zenon, <2>1, <2>2, OwnersBegin DEF Changing
<1>3. ASSUME NEW u \in Users, NEW t \in Teams, NEW w \in Users, NEW to \in {"owner", "member"},
             UpdateTeamMemberRole(r, u, t, w, to)
      PROVE  OwnersInv'
  <2> DEFINE pc   == IF w = u /\ to # "owner" THEN "count" ELSE "role"
             call == [ByOwner(u, t, pc) EXCEPT !.who = w, !.to = to]
  <2>1. call.pc = pc /\ call.team = t /\ call.by = u /\ call.who = w /\ call.to = to
    BY Zenon DEF ByOwner, Idle
  <2>2. BeginChange(r, t, call) /\ role[t][u] = "owner"
    BY Zenon, <1>3 DEF UpdateTeamMemberRole
  <2>3. pc \in {"count", "role"} /\ (pc = "role" /\ w = u => to = "owner")
    BY Zenon
  <2> HIDE DEF call, pc
  <2> QED
    BY Zenon, <2>1, <2>2, <2>3, OwnersBegin DEF Changing
<1>4. CASE \E u \in Users, c \in Codes : AcceptTeamInvite(r, u, c)
  BY SMTT(20), <1>0, <1>4, OwnersFrame
     DEF AcceptTeamInvite, Begin, ByOwner, Idle, Changing, history
<1>5. CASE InsertInvite(r)
  BY Zenon, <1>0, <1>5, OwnersFrame DEF InsertInvite, Ends, Idle, Changing
<1>6. CASE ClearNodes(r)
  BY Zenon, <1>0, <1>6, OwnersFrame DEF ClearNodes, Ends, Idle, Changing, history
<1>7. CASE DeleteMember(r)
  <2>1. req[r].pc = "remove" /\ Ends(r) /\ UNCHANGED <<teams, stepped, crossed>>
        /\ role' = [role EXCEPT ![req[r].team][req[r].who] = ""]
    BY Zenon, <1>7 DEF DeleteMember, At, history
  <2>2. req[r].by \in Users
    BY Zenon, <1>0, <2>1 DEF Fits
  <2>3. \/ \E w \in Users \ {req[r].who} : role[req[r].team][w] = "owner"
        \/ req[r].team \notin teams \ (stepped \union crossed)
    BY Zenon, <1>0, <2>1, <2>2 DEF KeepsOwner
  <2> QED
    BY Zenon, <2>1, <2>3, OwnersChange DEF Changing, Roles
<1>8. CASE SetRole(r)
  <2>1. req[r].pc = "role" /\ Ends(r) /\ UNCHANGED <<teams, stepped, crossed>>
    BY Zenon, <1>8 DEF SetRole, At, history
  <2>2. req[r].by \in Users /\ req[r].to \in {"owner", "member"}
        /\ req[r].team \in Teams /\ req[r].who \in Users
    BY Zenon, <1>0, <2>1 DEF Fits, TypeInv, TeamsOK
  <2> DEFINE x == IF role[req[r].team][req[r].who] = "" THEN "" ELSE req[r].to
  <2>3. role' = [role EXCEPT ![req[r].team][req[r].who] = x] /\ x \in Roles
    BY Zenon, <1>8, <2>2 DEF SetRole, TypeInv, TeamsOK, Roles
  <2>4. CASE req[r].team \in teams \ (stepped \union crossed) /\ req[r].who = req[r].by
    <3>1. role[req[r].team][req[r].who] = "owner"
      BY Zenon, <1>0, <2>1, <2>4 DEF KeepsOwner
    <3>2. x = "owner" \/ \E w \in Users \ {req[r].who} : role[req[r].team][w] = "owner"
      BY Zenon, <1>0, <2>1, <2>4, <3>1 DEF KeepsOwner
    <3> HIDE DEF x
    <3> QED
      BY Zenon, <2>1, <2>3, <3>2, OwnersChange DEF Changing
  <2>5. CASE req[r].team \in teams \ (stepped \union crossed) /\ req[r].who # req[r].by
    <3>1. \E w \in Users \ {req[r].who} : role[req[r].team][w] = "owner"
      BY Zenon, <1>0, <2>1, <2>2, <2>5 DEF KeepsOwner
    <3> HIDE DEF x
    <3> QED
      BY Zenon, <2>1, <2>3, <3>1, OwnersChange DEF Changing
  <2>6. CASE req[r].team \notin teams \ (stepped \union crossed)
    <3> HIDE DEF x
    <3> QED
      BY Zenon, <2>1, <2>3, <2>6, OwnersChange DEF Changing
  <2> QED
    BY Zenon, <2>4, <2>5, <2>6
<1>9. CASE AddTeamMember(r)
  <2>1. CASE req[r].team \notin teams
    BY Zenon, <1>0, <1>9, <2>1, OwnersFrame DEF AddTeamMember, Ends, Idle, Changing
  <2>2. CASE req[r].team \in teams
    <3>1. /\ req' = [req EXCEPT ![r] = Idle] /\ role' = [role EXCEPT ![req[r].team][req[r].by] = "member"]
          /\ stepped' = IF role[req[r].team][req[r].by] = "owner"
                        THEN stepped \union {req[r].team} ELSE stepped
          /\ UNCHANGED <<teams, crossed>>
      BY Zenon, <1>9, <2>2 DEF AddTeamMember, Ends
    <3>2. role \in [Teams -> [Users -> Roles]] /\ teams \subseteq Teams /\ req[r].by \in Users
      BY Zenon, <1>0, <1>9 DEF TypeInv, TeamsOK, AddTeamMember, At, Fits
    <3>3. ASSUME NEW t \in teams \ stepped', NEW u \in Users
          PROVE  role'[t][u] = "owner" <=> role[t][u] = "owner"
      BY Zenon, <2>2, <3>1, <3>2
    <3>4. stepped \subseteq stepped'
      BY Zenon, <3>1
    <3>5. OwnerRemains'
      BY SMTT(20), <3>1, <3>3, <3>4 DEF OwnersInv, OwnerRemains, Owners
    <3>6. \A q \in Requests : KeepsOwner(req[q])'
      <4>1. KeepsOwner(req[r])'
        BY Zenon, <1>0, <3>1 DEF KeepsOwner, Idle
      <4>2. ASSUME NEW q \in Requests \ {r} PROVE KeepsOwner(req[q])'
        <5>1. req'[q] = req[q] /\ KeepsOwner(req[q])
          BY Zenon, <1>0, <3>1 DEF OwnersInv
        <5>2. req[q].pc \in Changing => req[q].by \in Users
          BY Zenon DEF TypeInv, CallsOK, Fits, Changing
        <5> QED
          BY SMTT(20), <3>1, <3>3, <3>4, <5>1, <5>2 DEF KeepsOwner, Changing
      <4> QED
        BY Zenon, <4>1, <4>2
    <3>7. (\A q, p \in Requests :
             q # p /\ ChangesOwners(q) /\ ChangesOwners(p) /\ req[q].team = req[p].team =>
               req[p].team \in crossed)'
      BY Zenon, <1>0, <3>1 DEF OwnersInv, ChangesOwners, Idle
    <3> QED
      BY Zenon, <3>5, <3>6, <3>7 DEF OwnersInv
  <2> QED
    BY Zenon, <2>1, <2>2
<1>11. CASE CountOwners(r)
  <2>1. UNCHANGED <<teams, role, stepped, crossed>> /\ req[r].pc = "count"
    BY Zenon, <1>11 DEF CountOwners, At, tables, history
  <2>2. CASE Ends(r)
    BY Zenon, <1>0, <2>1, <2>2, OwnersFrame DEF Ends, Idle, Changing
  <2>3. CASE ~(Cardinality(Owners(req[r].team)) <= 1) /\ Goes(r, "role")
    <3>1. /\ req' = [req EXCEPT ![r].pc = "role"]
          /\ req'[r] = [req[r] EXCEPT !.pc = "role"] /\ req[r] \in Calls
      BY Zenon, <1>0, <2>3 DEF Goes
    <3>2. /\ req'[r].pc = "role" /\ req'[r].by = req[r].by /\ req'[r].who = req[r].who
          /\ req'[r].to = req[r].to /\ req'[r].team = req[r].team
      BY SMTT(20), <3>1 DEF Calls
    <3>3. \A q \in Requests \ {r} : req'[q] = req[q]
      BY Zenon, <1>0, <3>1
    <3>4. OwnerRemains'
      BY Zenon, <2>1 DEF OwnersInv, OwnerRemains, Owners
    <3>5. req[r].by \in Users
      BY Zenon, <1>0, <2>1 DEF Fits
    <3>6. role[req[r].team][req[r].by] = "owner" =>
            \E w \in Users \ {req[r].by} : role[req[r].team][w] = "owner"
      <4> SUFFICES ASSUME role[req[r].team][req[r].by] = "owner",
                          \A w \in Users \ {req[r].by} : role[req[r].team][w] # "owner"
                   PROVE  FALSE
        BY Zenon
      <4>1. Owners(req[r].team) = {req[r].by}
        BY Zenon, <3>5 DEF Owners
      <4>2. Cardinality({req[r].by}) = 1
        BY Zenon DEF SizeLaws, SizeOfOne
      <4> QED
        BY SMTT(20), <2>3, <4>1, <4>2
    <3>7. KeepsOwner(req[r])'
      BY Zenon, <1>0, <2>1, <3>2, <3>6 DEF KeepsOwner
    <3>8. \A q \in Requests : KeepsOwner(req[q])'
      BY SMTT(20), <2>1, <3>3, <3>7 DEF KeepsOwner, OwnersInv
    <3>9. (\A q, p \in Requests :
             q # p /\ ChangesOwners(q) /\ ChangesOwners(p) /\ req[q].team = req[p].team =>
               req[p].team \in crossed)'
      <4>1. \A q \in Requests : (ChangesOwners(q)' <=> ChangesOwners(q)) /\ req'[q].team = req[q].team
        BY Zenon, <2>1, <3>2, <3>3 DEF ChangesOwners
      <4> QED
        BY Zenon, <2>1, <4>1 DEF OwnersInv
    <3> QED
      BY Zenon, <3>4, <3>8, <3>9 DEF OwnersInv
  <2> QED
    BY Zenon, <1>11, <2>2, <2>3 DEF CountOwners
<1>12. CASE DropTeam(r)
  <2>1. CASE req[r].team \notin teams
    <3>1. req' = [req EXCEPT ![r] = Idle] /\ UNCHANGED <<teams, role, stepped, crossed>>
      BY Zenon, <1>12, <2>1 DEF DropTeam, Ends
    <3> QED
      BY Zenon, <1>0, <3>1, OwnersFrame DEF Idle, Changing
  <2>2. CASE req[r].team \in teams
    <3>1. /\ teams' = teams \ {req[r].team}
          /\ role' = [role EXCEPT ![req[r].team] = [u \in Users |-> ""]]
          /\ req' = [req EXCEPT ![r].pc = "clear"] /\ UNCHANGED <<stepped, crossed>>
      BY Zenon, <1>12, <2>2 DEF DropTeam, Goes
    <3>2. role \in [Teams -> [Users -> Roles]] /\ teams \subseteq Teams /\ req[r] \in Calls
      BY Zenon, <1>0 DEF TypeInv, TeamsOK
    <3>3. \A t \in teams' : role'[t] = role[t]
      BY Zenon, <3>1, <3>2
    <3>4. teams' \subseteq teams /\ stepped' = stepped /\ crossed' = crossed
      BY Zenon, <3>1
    <3>5. req'[r].pc = "clear" /\ \A q \in Requests \ {r} : req'[q] = req[q]
      BY Zenon, <1>0, <3>1, <3>2 DEF Calls
    <3>6. OwnerRemains'
      BY SMTT(20), <3>3, <3>4 DEF OwnersInv, OwnerRemains, Owners
    <3>7. \A q \in Requests : KeepsOwner(req[q])'
      BY SMTT(20), <3>3, <3>4, <3>5 DEF OwnersInv, KeepsOwner
    <3>8. (\A q, p \in Requests :
             q # p /\ ChangesOwners(q) /\ ChangesOwners(p) /\ req[q].team = req[p].team =>
               req[p].team \in crossed)'
      BY Zenon, <3>4, <3>5 DEF OwnersInv, ChangesOwners
    <3> QED
      BY Zenon, <3>6, <3>7, <3>8 DEF OwnersInv
  <2> QED
    BY Zenon, <2>1, <2>2
<1> QED
  BY Zenon, <1>1, <1>10, <1>2, <1>3, <1>4, <1>5, <1>6, <1>7, <1>8, <1>9, <1>11, <1>12 DEF CallStep

\* A registration writes no role after its personal team is made.
LEMMA NodeGoesOn ==
  ASSUME TypeInv, OwnersInv, NEW r \in Requests, UNCHANGED <<teams, role, stepped, crossed>>,
         Ends(r) \/ Goes(r, "upsert") \/ Goes(r, "scope")
  PROVE  OwnersInv'
<1>1. req \in [Requests -> Calls] /\ req[r] \in Calls
  BY Zenon DEF TypeInv, CallsOK
<1>2. req'[r].pc \notin Changing /\ \A q \in Requests \ {r} : req'[q] = req[q]
  <2>1. CASE Ends(r)
    BY Zenon, <1>1, <2>1 DEF Ends, Idle, Changing
  <2>2. CASE Goes(r, "upsert")
    BY Zenon, <1>1, <2>2 DEF Goes, Changing, Calls
  <2>3. CASE Goes(r, "scope")
    BY Zenon, <1>1, <2>3 DEF Goes, Changing, Calls
  <2> QED
    BY Zenon, <2>1, <2>2, <2>3
<1> QED
  BY Zenon, <1>2, OwnersFrame

\* The registration of a node changes no owner but that of a team it makes.
LEMMA OwnersNodeStep ==
  ASSUME TypeInv, OwnersInv, NEW r \in Requests, NodeStep(r)
  PROVE  OwnersInv'
<1>0. req \in [Requests -> Calls] /\ Fits(req[r], made) /\ req[r] \in Calls
  BY Zenon DEF TypeInv, CallsOK
<1>1. CASE \E n \in Nodes, t \in made \union {None}, u \in Users : RegisterNode(r, u, n, t)
  BY SMTT(20), <1>0, <1>1, OwnersFrame DEF RegisterNode, Begin, Idle, Changing, tables, history
<1>2. CASE \E n \in Nodes, t \in made \union {None}, k \in Tokens : RegisterWithToken(r, k, n, t)
  BY <1>0, <1>2, OwnersFrame DEF RegisterWithToken, Begin, Idle, Changing
<1>3. CASE MakePersonalTeam(r)
  <2>1. req[r].by \in Users
    BY Zenon, <1>0, <1>3 DEF MakePersonalTeam, At, Fits
  <2>2. \A q \in Requests : req'[q] = req[q] \/ req'[q].pc \notin Changing
    BY Zenon, <1>0, <1>3 DEF MakePersonalTeam, Goes, Changing, Calls
  <2> QED
    BY Zenon, <1>3, <2>1, <2>2, OwnersInsert DEF MakePersonalTeam
<1>4. CASE CheckMember(r)
  <2>1. UNCHANGED <<teams, role, stepped, crossed>> /\ (Ends(r) \/ Goes(r, "upsert"))
    BY Zenon, <1>4 DEF CheckMember, tables, history
  <2> QED
    BY Zenon, <2>1, NodeGoesOn
<1>5. CASE UpsertNode(r)
  <2>1. UNCHANGED <<teams, role, stepped, crossed>> /\ (Ends(r) \/ Goes(r, "scope"))
    BY Zenon, <1>5 DEF UpsertNode, history
  <2> QED
    BY Zenon, <2>1, NodeGoesOn
<1>6. CASE SetNodeTeam(r)
  BY Zenon, <1>0, <1>6, OwnersFrame DEF SetNodeTeam, Ends, Idle, Changing, history
<1> QED
  BY Zenon, <1>1, <1>2, <1>3, <1>4, <1>5, <1>6 DEF NodeStep

-----------------------------------------------------------------------------
(* Invites.  The uses of an invite cover its members and the calls that    *)
(* have used it and not yet added theirs.                                  *)

Joining(c) == {r \in Requests : req[r].pc = "join" /\ req[r].code = c}

UsesCover(c) ==
  LET taken == joins[c] + Cardinality(Joining(c))
  IN /\ taken <= given[c]
     /\ invite[c].team # None =>
          taken <= invite[c].uses /\ invite[c].uses <= invite[c].max /\ invite[c].max = given[c]

InvitesInv ==
  /\ \A c \in Codes : UsesCover(c)
  /\ \A r \in Requests : req[r].pc = "invite" => given[req[r].code] = 0
  /\ \A q, r \in Requests :
       q # r /\ req[q].pc = "invite" /\ req[r].pc = "invite" => req[q].code # req[r].code

\* Few calls run at a time, so those that hold a use of an invite can be counted.
LEMMA JoiningFinite ==
  ASSUME SizeLaws, NEW c
  PROVE  IsFiniteSet(Joining(c)) /\ Cardinality(Joining(c)) \in Nat
<1>1. Joining(c) \subseteq Requests
  BY Zenon DEF Joining
<1>2. IsFiniteSet(Joining(c))
  BY Zenon, <1>1, TeamsAssumption DEF SizeLaws, SizeOfPart
<1> QED
  BY Zenon, <1>2 DEF SizeLaws, SizeIsNat

\* Steps of other calls.
LEMMA InvitesFrame ==
  ASSUME InvitesInv, UNCHANGED <<invite, given, joins>>,
         \A q \in Requests : \/ req'[q] = req[q]
                             \/ req[q].pc # "join" /\ req'[q].pc \notin {"invite", "join"}
  PROVE  InvitesInv'
<1>1. \A c : Joining(c)' = Joining(c)
  BY Zenon DEF Joining
<1>2. \A c \in Codes : UsesCover(c)'
  BY Zenon, <1>1 DEF InvitesInv, UsesCover
<1> QED
  BY <1>2 DEF InvitesInv

\* Calls on teams keep joined members plus calls about to join within the uses given.
LEMMA InvitesCallStep ==
  ASSUME SizeLaws, TypeInv, InvitesInv, NEW r \in Requests, CallStep(r)
  PROVE  InvitesInv'
<1>0. req \in [Requests -> Calls] /\ Fits(req[r], made) /\ req[r] \in Calls
  BY Zenon DEF TypeInv, CallsOK
<1>1. ASSUME NEW u \in Users, NEW t \in Teams, CreateTeamInvite(r, u, t) PROVE InvitesInv'
  <2>1. PICK c \in Codes : /\ given[c] = 0 /\ \A q \in Requests : req[q].code # c
                           /\ Begin(r, [ByOwner(u, t, "invite") EXCEPT !.code = c])
    BY Zenon, <1>1 DEF CreateTeamInvite
  <2>2. /\ UNCHANGED <<invite, given, joins>> /\ \A q \in Requests \ {r} : req'[q] = req[q]
        /\ req[r].pc = "idle" /\ req'[r].pc = "invite" /\ req'[r].code = c
    BY Zenon, <1>0, <1>1, <2>1 DEF CreateTeamInvite, Begin, ByOwner, Idle, tables, history
  <2>3. \A x : Joining(x)' = Joining(x)
    BY Zenon, <2>2 DEF Joining
  <2>4. \A x \in Codes : UsesCover(x)'
    BY Zenon, <2>2, <2>3 DEF InvitesInv, UsesCover
  <2> QED
    BY SMTT(20), <2>1, <2>2, <2>4 DEF InvitesInv
<1>2. ASSUME NEW u \in Users, NEW t \in Teams, DeleteTeam(r, u, t) PROVE InvitesInv'
  BY Zenon, <1>0, <1>2, InvitesFrame DEF DeleteTeam, Begin, ByOwner, Idle, tables, history
<1>3. ASSUME NEW u \in Users, NEW t \in Teams, NEW w \in Users, RemoveTeamMember(r, u, t, w)
      PROVE  InvitesInv'
  BY Zenon, <1>0, <1>3, InvitesFrame DEF RemoveTeamMember, BeginChange, Begin, ByOwner, Idle, tables
<1>4. ASSUME NEW u \in Users, NEW t \in Teams, NEW w \in Users, NEW to \in {"owner", "member"},
             UpdateTeamMemberRole(r, u, t, w, to)
      PROVE  InvitesInv'
  <2> DEFINE pc   == IF w = u /\ to # "owner" THEN "count" ELSE "role"
             call == [ByOwner(u, t, pc) EXCEPT !.who = w, !.to = to]
  <2>1. call.pc = pc /\ pc \in {"count", "role"} /\ BeginChange(r, t, call)
    BY Zenon, <1>4 DEF ByOwner, Idle, UpdateTeamMemberRole
  <2> HIDE DEF pc, call
  <2> QED
    BY Zenon, <1>0, <2>1, InvitesFrame DEF BeginChange, Begin, tables
<1>5. ASSUME NEW u \in Users, NEW c \in Codes, AcceptTeamInvite(r, u, c) PROVE InvitesInv'
  <2>1. /\ req[r].pc = "idle" /\ req'[r].pc = "join" /\ req'[r].code = c
        /\ \A q \in Requests \ {r} : req'[q] = req[q]
    BY Zenon, <1>0, <1>5 DEF AcceptTeamInvite, Begin, ByOwner, Idle
  <2>2. /\ invite' = [invite EXCEPT ![c].uses = @ + 1] /\ invite[c].uses < invite[c].max
        /\ UNCHANGED <<given, joins>>
    BY Zenon, <1>5 DEF AcceptTeamInvite, ConsumeTeamInvite, history
  <2>3. /\ invite[c] \in [team : Teams \union {None}, max : Nat, uses : Nat]
        /\ given[c] \in Nat /\ joins[c] \in Nat
        /\ invite \in [Codes -> [team : Teams \union {None}, max : Nat, uses : Nat]]
    BY Zenon DEF TypeInv, InvitesOK
  <2>4. invite[c].team # None
    <3>1. invite[c].max # 0
      BY SMTT(20), <2>2, <2>3
    <3> QED
      BY Zenon, <3>1 DEF TypeInv, InvitesOK
  <2>5. r \notin Joining(c) /\ Joining(c)' = Joining(c) \union {r}
        /\ \A x \in Codes \ {c} : Joining(x)' = Joining(x)
    BY Zenon, <2>1 DEF Joining
  <2>6. Cardinality(Joining(c))' = Cardinality(Joining(c)) + 1
    BY Zenon, <2>5, JoiningFinite DEF SizeLaws, SizeWith
  <2>7. UsesCover(c)'
    <3>1. /\ joins[c] + Cardinality(Joining(c)) <= invite[c].uses
          /\ invite[c].uses <= invite[c].max /\ invite[c].max = given[c]
      BY Zenon, <2>4 DEF InvitesInv, UsesCover
    <3>2. /\ invite'[c].uses = invite[c].uses + 1 /\ invite'[c].max = invite[c].max
          /\ invite'[c].team = invite[c].team
      BY Zenon, <2>2, <2>3
    <3> QED
      BY SMTT(20), <2>2, <2>3, <2>6, <3>1, <3>2, JoiningFinite DEF UsesCover
  <2>8. \A x \in Codes \ {c} : UsesCover(x)'
    BY Zenon, <2>2, <2>3, <2>5 DEF InvitesInv, UsesCover
  <2>9. \A x \in Codes : UsesCover(x)'
    BY Zenon, <2>7, <2>8
  <2>10. \A q \in Requests : req'[q].pc = "invite" => q # r /\ req'[q] = req[q]
    BY Zenon, <2>1
  <2> QED
    BY Zenon, <2>2, <2>9, <2>10 DEF InvitesInv
<1>6. CASE InsertInvite(r)
  <2>1. PICK c \in Codes : c = req[r].code
    BY Zenon, <1>0, <1>6 DEF InsertInvite, At, Fits
  <2>2. /\ req[r].pc = "invite" /\ UNCHANGED joins
        /\ req'[r].pc = "idle" /\ \A q \in Requests \ {r} : req'[q] = req[q]
    BY Zenon, <1>0, <1>6 DEF InsertInvite, At, Ends, Idle
  <2>3. \A x : Joining(x)' = Joining(x)
    BY Zenon, <2>2 DEF Joining
  <2>4. CASE req[r].team \notin teams
    <3>1. UNCHANGED <<invite, given>>
      BY Zenon, <1>6, <2>4 DEF InsertInvite
    <3> QED
      BY Zenon, <2>2, <3>1, InvitesFrame
  <2>5. CASE req[r].team \in teams
    <3>1. PICK max \in 1..MaxUses :
            /\ invite' = [invite EXCEPT ![c] = [team |-> req[r].team, max |-> max, uses |-> 0]]
            /\ given' = [given EXCEPT ![c] = max]
      BY Zenon, <1>6, <2>1, <2>5 DEF InsertInvite
    <3>2. /\ invite \in [Codes -> [team : Teams \union {None}, max : Nat, uses : Nat]]
          /\ given \in [Codes -> Nat] /\ joins \in [Codes -> Nat] /\ max \in Nat
      BY SMTT(20), TeamsAssumption DEF TypeInv, InvitesOK
    <3>3. given[c] = 0 /\ joins[c] + Cardinality(Joining(c)) = 0
      <4>1. given[c] = 0 /\ joins[c] + Cardinality(Joining(c)) <= given[c]
        BY Zenon, <2>1, <2>2 DEF InvitesInv, UsesCover
      <4> QED
        BY SMTT(20), <3>2, <4>1, JoiningFinite
    <3>4. UsesCover(c)'
      <4>1. given'[c] = max /\ invite'[c].uses = 0 /\ invite'[c].max = max
        BY Zenon, <3>1, <3>2
      <4>2. joins'[c] + Cardinality(Joining(c)') = 0
        BY Zenon, <2>2, <2>3, <3>3
      <4> QED
        BY SMTT(20), <3>2, <4>1, <4>2 DEF UsesCover
    <3>5. \A x \in Codes \ {c} : UsesCover(x)'
      <4>1. \A x \in Codes \ {c} : given'[x] = given[x] /\ invite'[x] = invite[x]
        BY Zenon, <3>1, <3>2
      <4> QED
        BY Zenon, <2>2, <2>3, <4>1 DEF InvitesInv, UsesCover
    <3>6. \A x \in Codes : UsesCover(x)'
      BY Zenon, <3>4, <3>5
    <3>7. ASSUME NEW q \in Requests, req'[q].pc = "invite"
          PROVE  given'[req'[q].code] = 0
      <4>1. q # r /\ req'[q] = req[q]
        BY Zenon, <2>2, <3>7
      <4>2. req[q].code \in Codes \ {c}
        BY Zenon, <2>1, <2>2, <3>7, <4>1 DEF InvitesInv, TypeInv, CallsOK, Fits
      <4> QED
        BY Zenon, <3>1, <3>2, <3>7, <4>1, <4>2 DEF InvitesInv
    <3>8. \A q, p \in Requests :
            q # p /\ req'[q].pc = "invite" /\ req'[p].pc = "invite" => req'[q].code # req'[p].code
      BY <2>2 DEF InvitesInv
    <3> QED
      BY Zenon, <3>6, <3>7, <3>8 DEF InvitesInv
  <2> QED
    BY Zenon, <2>4, <2>5
<1>7. CASE AddTeamMember(r)
  <2>1. PICK c \in Codes : c = req[r].code
    BY Zenon, <1>0, <1>7 DEF AddTeamMember, At, Fits
  <2>2. /\ req[r].pc = "join" /\ UNCHANGED <<invite, given>>
        /\ req'[r].pc = "idle" /\ \A q \in Requests \ {r} : req'[q] = req[q]
    BY Zenon, <1>0, <1>7 DEF AddTeamMember, At, Ends, Idle
  <2>3. joins' = joins \/ joins' = [joins EXCEPT ![c] = @ + 1]
    BY Zenon, <1>7, <2>1 DEF AddTeamMember
  <2>4. /\ given \in [Codes -> Nat] /\ joins \in [Codes -> Nat]
        /\ invite \in [Codes -> [team : Teams \union {None}, max : Nat, uses : Nat]]
    BY Zenon DEF TypeInv, InvitesOK
  <2>5. r \in Joining(c) /\ Joining(c)' = Joining(c) \ {r}
        /\ \A x \in Codes \ {c} : Joining(x)' = Joining(x)
    BY Zenon, <2>1, <2>2 DEF Joining
  <2>6. Cardinality(Joining(c)') = Cardinality(Joining(c)) - 1
    BY Zenon, <2>5, JoiningFinite DEF SizeLaws, SizeWithout
  <2>7. joins'[c] + Cardinality(Joining(c)') <= joins[c] + Cardinality(Joining(c))
        /\ joins'[c] + Cardinality(Joining(c)') \in Int
    BY SMTT(20), <2>3, <2>4, <2>6, JoiningFinite
  <2>8. UsesCover(c)'
    <3>1. joins[c] + Cardinality(Joining(c)) \in Int
      BY SMTT(20), <2>4, JoiningFinite
    <3> QED
      BY SMTT(20), <2>2, <2>4, <2>7, <3>1 DEF UsesCover, InvitesInv
  <2>9. \A x \in Codes \ {c} : UsesCover(x)'
    <3>1. \A x \in Codes \ {c} : joins'[x] = joins[x]
      BY Zenon, <2>3, <2>4
    <3> QED
      BY Zenon, <2>2, <2>5, <3>1 DEF InvitesInv, UsesCover
  <2>10. \A x \in Codes : UsesCover(x)'
    BY Zenon, <2>8, <2>9
  <2>11. \A q \in Requests : req'[q].pc = "invite" => q # r /\ req'[q] = req[q]
    BY Zenon, <2>2
  <2> QED
    BY SMTT(20), <2>2, <2>10, <2>11 DEF InvitesInv
<1>8. CASE DeleteMember(r)
  BY Zenon, <1>0, <1>8, InvitesFrame DEF DeleteMember, At, Ends, Idle, history
<1>9. CASE SetRole(r)
  BY Zenon, <1>0, <1>9, InvitesFrame DEF SetRole, At, Ends, Idle, history
<1>10. CASE ClearNodes(r)
  BY Zenon, <1>0, <1>10, InvitesFrame DEF ClearNodes, At, Ends, Idle, history
<1>11. CASE CountOwners(r)
  <2>1. UNCHANGED <<invite, given, joins>> /\ req[r].pc = "count" /\ (Ends(r) \/ Goes(r, "role"))
    BY Zenon, <1>11 DEF CountOwners, At, tables, history
  <2>2. req'[r].pc \in {"idle", "role"} /\ \A q \in Requests \ {r} : req'[q] = req[q]
    BY Zenon, <2>1, Moves DEF TypeInv
  <2> QED
    BY Zenon, <2>1, <2>2, InvitesFrame
<1>12. CASE DropTeam(r)
  <2>1. UNCHANGED <<given, joins>> /\ req[r].pc = "delete" /\ (Ends(r) \/ Goes(r, "clear"))
    BY Zenon, <1>12 DEF DropTeam, At
  <2>2. req'[r].pc \in {"idle", "clear"} /\ \A q \in Requests \ {r} : req'[q] = req[q]
    BY Zenon, <2>1, Moves DEF TypeInv
  <2>3. \A c \in Codes : invite'[c] = invite[c] \/ invite'[c].team = None
    <3>1. CASE UNCHANGED invite
      BY Zenon, <3>1
    <3>2. CASE invite' = [c \in Codes |-> IF invite[c].team = req[r].team THEN NoInvite ELSE invite[c]]
      BY Zenon, <3>2 DEF NoInvite
    <3> QED
      BY Zenon, <1>12, <3>1, <3>2 DEF DropTeam
  <2>4. \A x : Joining(x)' = Joining(x)
    BY Zenon, <2>1, <2>2 DEF Joining
  <2>5. \A c \in Codes : UsesCover(c)'
    BY Zenon, <2>1, <2>3, <2>4 DEF InvitesInv, UsesCover
  <2> QED
    BY <2>1, <2>2, <2>5 DEF InvitesInv
<1> QED
  BY Zenon, <1>1, <1>2, <1>3, <1>4, <1>5, <1>6, <1>7, <1>8, <1>9, <1>10, <1>11, <1>12 DEF CallStep

\* The registration of a node uses no invite.
LEMMA InvitesNodeStep ==
  ASSUME TypeInv, InvitesInv, NEW r \in Requests, NodeStep(r)
  PROVE  InvitesInv'
<1>0. req \in [Requests -> Calls]
  BY Zenon DEF TypeInv, CallsOK
<1>1. CASE \E n \in Nodes, t \in made \union {None}, u \in Users : RegisterNode(r, u, n, t)
  <2>1. UNCHANGED <<invite, given, joins>>
    BY Zenon, <1>1 DEF RegisterNode, tables, history
  <2>2. /\ req[r].pc # "join" /\ req'[r].pc \in {"personal", "member"}
        /\ \A q \in Requests \ {r} : req'[q] = req[q]
    BY Zenon, <1>1, RegisterBegins DEF TypeInv
  <2> QED
    BY Zenon, <2>1, <2>2, InvitesFrame
<1>2. CASE \E n \in Nodes, t \in made \union {None}, k \in Tokens : RegisterWithToken(r, k, n, t)
  BY <1>0, <1>2, InvitesFrame DEF RegisterWithToken, Begin, Idle
<1>3. ASSUME UNCHANGED <<invite, given, joins>>, req[r].pc # "join",
             \E pc \in {"member", "upsert", "scope"} : Goes(r, pc) \/ Ends(r)
      PROVE  InvitesInv'
  <2>1. CASE Ends(r)
    BY Zenon, <1>3, <2>1, InvitesFrame, Moves DEF TypeInv
  <2>2. ASSUME NEW pc \in {"member", "upsert", "scope"}, Goes(r, pc) PROVE InvitesInv'
    <3>1. req'[r].pc = pc /\ \A q \in Requests \ {r} : req'[q] = req[q]
      BY Zenon, <2>2, Moves DEF TypeInv
    <3>2. pc \notin {"invite", "join"}
      BY Zenon, <2>2
    <3> QED
      BY Zenon, <1>3, <3>1, <3>2, InvitesFrame
  <2> QED
    BY Zenon, <1>3, <2>1, <2>2
<1>4. CASE MakePersonalTeam(r)
  BY Zenon, <1>3, <1>4 DEF MakePersonalTeam, At
<1>5. CASE CheckMember(r)
  BY Zenon, <1>3, <1>5 DEF CheckMember, At, tables, history
<1>6. CASE UpsertNode(r) \/ SetNodeTeam(r)
  BY Zenon, <1>3, <1>6 DEF UpsertNode, SetNodeTeam, At, history
<1> QED
  BY Zenon, <1>1, <1>2, <1>4, <1>5, <1>6 DEF NodeStep

-----------------------------------------------------------------------------
(* Personal teams.  A user who has a team while their personal one is      *)
(* being made got it after their teams were listed.                        *)

PersonalInv ==
  /\ extra \subseteq hurried
  /\ \A r \in Requests :
       req[r].pc = "personal" /\ TeamsOf(req[r].by) # {} => req[r].by \in hurried

\* A step after which nobody has a team who had none, except users who are
\* noted.
LEMMA PersonalFrame ==
  ASSUME TypeInv, PersonalInv, hurried \subseteq hurried', extra' \subseteq hurried',
         \A u \in Users : {t \in teams' : role'[t][u] # ""} # {} =>
                            \/ {t \in teams : role[t][u] # ""} # {}
                            \/ (\E q \in Requests : req[q].pc = "personal" /\ req[q].by = u
                                  /\ req'[q] = req[q]) => u \in hurried',
         \A q \in Requests : \/ req'[q] = req[q]
                             \/ req'[q].pc # "personal"
                             \/ {t \in teams' : role'[t][req'[q].by] # ""} = {}
  PROVE  PersonalInv'
<1>1. ASSUME NEW r \in Requests, req'[r].pc = "personal",
             {t \in teams' : role'[t][req'[r].by] # ""} # {}
      PROVE  req'[r].by \in hurried'
  <2>1. req'[r] = req[r]
    BY Zenon, <1>1
  <2>2. req[r].by \in Users
    BY Zenon, <1>1, <2>1 DEF TypeInv, CallsOK, Fits
  <2>3. CASE {t \in teams : role[t][req[r].by] # ""} # {}
    BY Zenon, <1>1, <2>1, <2>3 DEF PersonalInv, TeamsOf
  <2>4. CASE {t \in teams : role[t][req[r].by] # ""} = {}
    BY Zenon, <1>1, <2>1, <2>2, <2>4
  <2> QED
    BY Zenon, <2>3, <2>4
<1> QED
  BY Zenon, <1>1 DEF PersonalInv, TeamsOf

\* Steps that leave teams and roles alone, and begin no registration.
LEMMA PersonalSame ==
  ASSUME TypeInv, PersonalInv, UNCHANGED <<teams, role, hurried, extra>>,
         \A q \in Requests : req'[q] = req[q] \/ req'[q].pc # "personal"
  PROVE  PersonalInv'
BY Zenon DEF PersonalInv, TeamsOf

\* Calls on teams give a user a team only if the user is noted as hurried.
LEMMA PersonalCallStep ==
  ASSUME TypeInv, PersonalInv, NEW r \in Requests, CallStep(r)
  PROVE  PersonalInv'
<1>0. req \in [Requests -> Calls] /\ CallsOK /\ Fits(req[r], made)
  BY Zenon DEF TypeInv, CallsOK
<1>1. ASSUME NEW u \in Users, NEW t \in Teams, CreateTeamInvite(r, u, t) PROVE PersonalInv'
  BY Zenon, <1>0, <1>1, PersonalSame DEF CreateTeamInvite, Begin, ByOwner, Idle, tables, history
<1>2. ASSUME NEW u \in Users, NEW t \in Teams, DeleteTeam(r, u, t) PROVE PersonalInv'
  BY Zenon, <1>0, <1>2, PersonalSame DEF DeleteTeam, Begin, ByOwner, Idle, tables, history
<1>3. ASSUME NEW u \in Users, NEW t \in Teams, NEW w \in Users, RemoveTeamMember(r, u, t, w)
      PROVE  PersonalInv'
  BY Zenon, <1>0, <1>3, PersonalSame DEF RemoveTeamMember, BeginChange, Begin, ByOwner, Idle, tables
<1>4. ASSUME NEW u \in Users, NEW t \in Teams, NEW w \in Users, NEW to \in {"owner", "member"},
             UpdateTeamMemberRole(r, u, t, w, to)
      PROVE  PersonalInv'
  <2> DEFINE pc   == IF w = u /\ to # "owner" THEN "count" ELSE "role"
             call == [ByOwner(u, t, pc) EXCEPT !.who = w, !.to = to]
  <2>1. call.pc = pc /\ pc \in {"count", "role"} /\ BeginChange(r, t, call)
    BY Zenon, <1>4 DEF ByOwner, Idle, UpdateTeamMemberRole
  <2> HIDE DEF pc, call
  <2> QED
    BY Zenon, <1>0, <2>1, PersonalSame DEF BeginChange, Begin, tables
<1>5. ASSUME NEW u \in Users, NEW c \in Codes, AcceptTeamInvite(r, u, c) PROVE PersonalInv'
  BY Zenon, <1>0, <1>5, PersonalSame DEF AcceptTeamInvite, Begin, ByOwner, Idle, history
<1>6. CASE InsertInvite(r)
  BY Zenon, <1>0, <1>6, PersonalSame, Moves DEF InsertInvite
<1>7. CASE AddTeamMember(r)
  <2>1. CASE req[r].team \notin teams
    BY Zenon, <1>0, <1>7, <2>1, PersonalSame, Moves DEF AddTeamMember
  <2>2. CASE req[r].team \in teams
    <3>1. /\ role' = [role EXCEPT ![req[r].team][req[r].by] = "member"]
          /\ hurried' = IF Making(req[r].by) THEN hurried \union {req[r].by} ELSE hurried
          /\ UNCHANGED <<teams, extra>> /\ Ends(r) /\ req[r].pc = "join"
      BY Zenon, <1>7, <2>2 DEF AddTeamMember, At
    <3>2. role \in [Teams -> [Users -> Roles]] /\ teams \subseteq Teams
      BY Zenon DEF TypeInv, TeamsOK
    <3>3. \A u \in Users \ {req[r].by} : \A t \in teams : role'[t][u] = role[t][u]
      BY Zenon, <3>1, <3>2
    <3>4. (\E q \in Requests : req[q].pc = "personal" /\ req[q].by = req[r].by) =>
            req[r].by \in hurried'
      BY Zenon, <3>1 DEF Making
    <3>5. hurried \subseteq hurried' /\ extra' \subseteq hurried'
      BY Zenon, <3>1 DEF PersonalInv
    <3>6. \A q \in Requests : req'[q] = req[q] \/ req'[q].pc # "personal"
      BY Zenon, <1>0, <3>1, Moves
    <3>7. ASSUME NEW u \in Users, {t \in teams' : role'[t][u] # ""} # {},
                 {t \in teams : role[t][u] # ""} = {},
                 \E q \in Requests : req[q].pc = "personal" /\ req[q].by = u
          PROVE  u \in hurried'
      <4>1. u = req[r].by
        BY Zenon, <3>1, <3>3, <3>7
      <4> QED
        BY Zenon, <3>4, <3>7, <4>1
    <3> QED
      BY Zenon, <3>5, <3>6, <3>7, PersonalFrame
  <2> QED
    BY Zenon, <2>1, <2>2
<1>8. CASE DeleteMember(r)
  <2>1. /\ role' = [role EXCEPT ![req[r].team][req[r].who] = ""] /\ Ends(r)
        /\ UNCHANGED <<teams, hurried, extra>>
    BY Zenon, <1>8 DEF DeleteMember, history
  <2>2. role \in [Teams -> [Users -> Roles]] /\ teams \subseteq Teams
    BY Zenon DEF TypeInv, TeamsOK
  <2>3. \A u \in Users, t \in teams : role'[t][u] # "" => role[t][u] # ""
    BY Zenon, <2>1, <2>2
  <2>4. \A q \in Requests : req'[q] = req[q] \/ req'[q].pc # "personal"
    BY Zenon, <1>0, <2>1, Moves
  <2> QED
    BY Zenon, <2>1, <2>3, <2>4, PersonalFrame DEF PersonalInv
<1>9. CASE SetRole(r)
  <2>1. PICK x : /\ role' = [role EXCEPT ![req[r].team][req[r].who] = x] /\ Ends(r)
                 /\ role[req[r].team][req[r].who] = "" => x = ""
                 /\ UNCHANGED <<teams, hurried, extra>>
    <3>1. /\ role' = [role EXCEPT ![req[r].team][req[r].who] =
                        IF role[req[r].team][req[r].who] = "" THEN "" ELSE req[r].to]
          /\ Ends(r) /\ UNCHANGED <<teams, hurried, extra>>
      BY Zenon, <1>0, <1>9 DEF SetRole, history, At, Fits, TypeInv, TeamsOK
    <3> QED
      BY Zenon, <3>1
  <2>2. role \in [Teams -> [Users -> Roles]] /\ teams \subseteq Teams
    BY Zenon DEF TypeInv, TeamsOK
  <2>3. \A u \in Users, t \in teams : role'[t][u] # "" => role[t][u] # ""
    BY Zenon, <2>1, <2>2
  <2>4. \A q \in Requests : req'[q] = req[q] \/ req'[q].pc # "personal"
    BY Zenon, <1>0, <2>1, Moves
  <2> QED
    BY Zenon, <2>1, <2>3, <2>4, PersonalFrame DEF PersonalInv
<1>10. CASE ClearNodes(r)
  BY Zenon, <1>0, <1>10, PersonalSame, Moves DEF ClearNodes, history
<1>11. CASE CountOwners(r)
  <2>1. UNCHANGED <<teams, role, hurried, extra>> /\ (Ends(r) \/ Goes(r, "role"))
    BY Zenon, <1>11 DEF CountOwners, tables, history
  <2> QED
    BY <1>0, <2>1, PersonalSame, Moves
<1>12. CASE DropTeam(r)
  <2>1. UNCHANGED <<hurried, extra>> /\ (Ends(r) \/ Goes(r, "clear")) /\ teams' \subseteq teams
    BY Zenon, <1>12 DEF DropTeam
  <2>2. \A t \in teams' : role'[t] = role[t]
    <3>1. role \in [Teams -> [Users -> Roles]] /\ teams \subseteq Teams
      BY Zenon DEF TypeInv, TeamsOK
    <3> QED
      BY Zenon, <1>12, <3>1 DEF DropTeam
  <2>3. \A q \in Requests : req'[q] = req[q] \/ req'[q].pc # "personal"
    BY <1>0, <2>1, Moves
  <2> QED
    BY Zenon, <2>1, <2>2, <2>3, PersonalFrame DEF PersonalInv
<1> QED
  BY Zenon, <1>1, <1>2, <1>3, <1>4, <1>5, <1>6, <1>7, <1>8, <1>9, <1>10, <1>11, <1>12 DEF CallStep

\* A new team: its owner is noted if their personal team is being made.
LEMMA PersonalInsert ==
  ASSUME TypeInv, PersonalInv, NEW t \in Teams, NEW u \in Users, InsertTeam(t, u),
         hurried \subseteq hurried', extra' \subseteq hurried',
         (\E q \in Requests : req[q].pc = "personal" /\ req[q].by = u /\ req'[q] = req[q]) =>
           u \in hurried',
         \A q \in Requests : req'[q] = req[q] \/ req'[q].pc # "personal"
  PROVE  PersonalInv'
<1>1. /\ t \notin made /\ teams' = teams \union {t}
      /\ role' = [role EXCEPT ![t][u] = "owner"]
      /\ role \in [Teams -> [Users -> Roles]] /\ teams \subseteq Teams /\ t \notin teams
      /\ \A v \in Users : role[t][v] = ""
  BY Zenon DEF InsertTeam, TypeInv, TeamsOK
<1>2. \A v \in Users \ {u} : \A x \in teams' : role'[x][v] = role[x][v]
  BY Zenon, <1>1
<1>3. ASSUME NEW v \in Users, {x \in teams' : role'[x][v] # ""} # {},
             {x \in teams : role[x][v] # ""} = {}
      PROVE  v = u
  <2> SUFFICES ASSUME v # u PROVE FALSE
    BY Zenon
  <2>1. PICK x \in teams' : role'[x][v] # ""
    BY Zenon, <1>3
  <2>2. role[x][v] # ""
    BY Zenon, <1>2, <2>1
  <2> QED
    BY Zenon, <1>1, <1>3, <2>2
<1> QED
  BY Zenon, <1>3, PersonalFrame

\* The registration of a node makes a personal team for a user listed without one.
LEMMA PersonalNodeStep ==
  ASSUME TypeInv, PersonalInv, NEW r \in Requests, NodeStep(r)
  PROVE  PersonalInv'
<1>0. req \in [Requests -> Calls] /\ CallsOK /\ Fits(req[r], made)
  BY Zenon DEF TypeInv, CallsOK
<1>1. ASSUME NEW n \in Nodes, NEW t \in made \union {None}, NEW u \in Users,
             RegisterNode(r, u, n, t)
      PROVE  PersonalInv'
  <2>1. UNCHANGED <<teams, role, hurried, extra>>
    BY Zenon, <1>1 DEF RegisterNode, tables, history
  <2>2. /\ req'[r].by = u /\ req'[r].pc = IF TeamsOf(u) = {} THEN "personal" ELSE "member"
        /\ \A q \in Requests \ {r} : req'[q] = req[q]
    BY Zenon, <1>0, <1>1, RegisterBegins
  <2>3. req'[r].pc = "personal" => {x \in teams' : role'[x][req'[r].by] # ""} = {}
    BY Zenon, <2>1, <2>2 DEF TeamsOf
  <2> QED
    BY Zenon, <2>1, <2>2, <2>3, PersonalFrame DEF PersonalInv
<1>2. CASE \E n \in Nodes, t \in made \union {None}, k \in Tokens : RegisterWithToken(r, k, n, t)
  BY <1>0, <1>2, PersonalSame DEF RegisterWithToken, Begin, Idle
<1>3. CASE MakePersonalTeam(r)
  <2>1. PICK u \in Users : u = req[r].by
    BY Zenon, <1>0, <1>3 DEF MakePersonalTeam, At, Fits
  <2>2. PICK t \in Teams : InsertTeam(t, u)
    BY Zenon, <1>3, <2>1 DEF MakePersonalTeam
  <2>3. /\ req[r].pc = "personal" /\ Goes(r, "member")
        /\ extra' = IF TeamsOf(u) # {} THEN extra \union {u} ELSE extra
        /\ hurried' = IF \E q \in Requests \ {r} : req[q].pc = "personal" /\ req[q].by = u
                      THEN hurried \union {u} ELSE hurried
    BY Zenon, <1>3, <2>1 DEF MakePersonalTeam, At
  <2>4. hurried \subseteq hurried' /\ extra' \subseteq hurried'
    BY Zenon, <2>1, <2>3 DEF PersonalInv
  <2>5. req'[r].pc = "member" /\ \A q \in Requests \ {r} : req'[q] = req[q]
    BY Zenon, <1>0, <2>3, Moves
  <2>6. (\E q \in Requests : req[q].pc = "personal" /\ req[q].by = u /\ req'[q] = req[q]) =>
          u \in hurried'
    BY Zenon, <2>3, <2>5
  <2> QED
    BY Zenon, <2>2, <2>4, <2>5, <2>6, PersonalInsert
<1>4. CASE CheckMember(r)
  <2>1. UNCHANGED <<teams, role, hurried, extra>> /\ (Ends(r) \/ Goes(r, "upsert"))
    BY Zenon, <1>4 DEF CheckMember, tables, history
  <2> QED
    BY <1>0, <2>1, PersonalSame, Moves
<1>5. CASE UpsertNode(r)
  BY ZenonT(30), <1>0, <1>5, PersonalSame, Moves DEF UpsertNode, history
<1>6. CASE SetNodeTeam(r)
  BY Zenon, <1>0, <1>6, PersonalSame, Moves DEF SetNodeTeam, history
<1> QED
  BY Zenon, <1>1, <1>2, <1>3, <1>4, <1>5, <1>6 DEF NodeStep

\* The personal team, with the registrations under way.
LEMMA PersonalAlways == Spec => []PersonalInv
<1>1. Init => PersonalInv
  <2> SUFFICES ASSUME Init PROVE PersonalInv
    BY Zenon
  <2>1. extra \subseteq hurried
    BY Zenon DEF Init
  <2>2. \A r \in Requests : req[r].pc = "idle"
    BY Zenon DEF Init, Idle
  <2> QED
    BY Zenon, <2>1, <2>2 DEF PersonalInv
<1>2. TypeInv /\ PersonalInv /\ [Next]_vars => PersonalInv'
  <2> SUFFICES ASSUME TypeInv, PersonalInv, [Next]_vars PROVE PersonalInv'
    BY Zenon
  <2>1. CASE UNCHANGED vars
    BY Zenon, <2>1, PersonalSame DEF vars, tables, history
  <2>2. ASSUME NEW u \in Users, CreateTeam(u) PROVE PersonalInv'
    <3>1. PICK t \in Teams : InsertTeam(t, u)
      BY Zenon, <2>2 DEF CreateTeam
    <3>2. /\ hurried' = IF Making(u) THEN hurried \union {u} ELSE hurried
          /\ UNCHANGED <<req, extra>>
      BY Zenon, <2>2 DEF CreateTeam
    <3>3. hurried \subseteq hurried' /\ extra' \subseteq hurried'
      BY Zenon, <3>2 DEF PersonalInv
    <3>4. (\E q \in Requests : req[q].pc = "personal" /\ req[q].by = u) => u \in hurried'
      BY Zenon, <3>2 DEF Making
    <3> QED
      BY Zenon, <3>1, <3>2, <3>3, <3>4, PersonalInsert
  <2> QED
    BY Zenon, <2>1, <2>2, Steps, PersonalCallStep, PersonalNodeStep
<1> QED
  BY <1>1, <1>2, TypesAlways, PTL DEF Spec
-----------------------------------------------------------------------------
(* The teams of nodes.  A registration that is about to write a team has   *)
(* seen it alive; if the team has gone since, the node is noted.           *)

ScopeInv ==
  /\ ScopedToLiveTeam
  /\ \A r \in Requests : req[r].pc \in {"upsert", "scope"} =>
       req[r].node \in loose \/ req[r].team \in teams \union {None}

\* Steps that write no team into a node and end none.
LEMMA ScopeFrame ==
  ASSUME ScopeInv, teams \subseteq teams', loose \subseteq loose', UNCHANGED nodeTeam,
         \A q \in Requests :
           \/ req'[q] = req[q]
           \/ /\ req[q].pc # "clear"
              /\ req'[q].pc \in {"upsert", "scope"} =>
                   req'[q].node \in loose' \/ req'[q].team \in teams' \union {None}
  PROVE  ScopeInv'
<1>1. ScopedToLiveTeam'
  BY Zenon DEF ScopeInv, ScopedToLiveTeam, At
<1>2. (\A r \in Requests : req[r].pc \in {"upsert", "scope"} =>
         req[r].node \in loose \/ req[r].team \in teams \union {None})'
  BY Zenon DEF ScopeInv
<1> QED
  BY Zenon, <1>1, <1>2 DEF ScopeInv

\* DeleteTeam leaves no node behind but those it goes on to clear.
LEMMA ScopeCallStep ==
  ASSUME TypeInv, ScopeInv, NEW r \in Requests, CallStep(r)
  PROVE  ScopeInv'
<1>0. req \in [Requests -> Calls] /\ CallsOK /\ Fits(req[r], made)
  BY Zenon DEF TypeInv, CallsOK
<1>1. ASSUME NEW u \in Users, NEW t \in Teams, CreateTeamInvite(r, u, t) PROVE ScopeInv'
  BY <1>0, <1>1, ScopeFrame DEF CreateTeamInvite, Begin, ByOwner, Idle, tables, history
<1>2. ASSUME NEW u \in Users, NEW t \in Teams, DeleteTeam(r, u, t) PROVE ScopeInv'
  BY Zenon, <1>0, <1>2, ScopeFrame DEF DeleteTeam, Begin, ByOwner, Idle, tables, history
<1>3. ASSUME NEW u \in Users, NEW t \in Teams, NEW w \in Users, RemoveTeamMember(r, u, t, w)
      PROVE  ScopeInv'
  BY Zenon, <1>0, <1>3, ScopeFrame DEF RemoveTeamMember, BeginChange, Begin, ByOwner, Idle, tables
<1>4. ASSUME NEW u \in Users, NEW t \in Teams, NEW w \in Users, NEW to \in {"owner", "member"},
             UpdateTeamMemberRole(r, u, t, w, to)
      PROVE  ScopeInv'
  <2> DEFINE pc   == IF w = u /\ to # "owner" THEN "count" ELSE "role"
             call == [ByOwner(u, t, pc) EXCEPT !.who = w, !.to = to]
  <2>1. call.pc = pc /\ pc \in {"count", "role"} /\ BeginChange(r, t, call)
    BY Zenon, <1>4 DEF ByOwner, Idle, UpdateTeamMemberRole
  <2> HIDE DEF pc, call
  <2> QED
    BY Zenon, <1>0, <2>1, ScopeFrame DEF BeginChange, Begin, tables
<1>5. ASSUME NEW u \in Users, NEW c \in Codes, AcceptTeamInvite(r, u, c) PROVE ScopeInv'
  BY Zenon, <1>0, <1>5, ScopeFrame DEF AcceptTeamInvite, Begin, ByOwner, Idle, history
<1>6. CASE InsertInvite(r)
  BY Zenon, <1>0, <1>6, ScopeFrame, Moves DEF InsertInvite, At
<1>7. CASE AddTeamMember(r)
  BY Zenon, <1>0, <1>7, ScopeFrame, Moves DEF AddTeamMember, At
<1>8. CASE DeleteMember(r)
  BY Zenon, <1>0, <1>8, ScopeFrame, Moves DEF DeleteMember, At, history
<1>9. CASE SetRole(r)
  BY Zenon, <1>0, <1>9, ScopeFrame, Moves DEF SetRole, At, history
<1>10. CASE CountOwners(r)
  <2>1. /\ UNCHANGED <<teams, nodeTeam, loose>> /\ req[r].pc = "count"
        /\ (Ends(r) \/ Goes(r, "role"))
    BY Zenon, <1>10 DEF CountOwners, At, tables, history
  <2>2. CASE Ends(r)
    BY Zenon, <1>0, <2>1, <2>2, ScopeFrame, Moves
  <2>3. CASE Goes(r, "role")
    BY <1>0, <2>1, <2>3, ScopeFrame, Moves
  <2> QED
    BY Zenon, <2>1, <2>2, <2>3
<1>11. CASE DropTeam(r)
  <2>1. CASE req[r].team \notin teams
    BY Zenon, <1>0, <1>11, <2>1, ScopeFrame, Moves DEF DropTeam, At
  <2>2. CASE req[r].team \in teams
    <3>1. /\ teams' = teams \ {req[r].team} /\ loose' = loose \union Entering(req[r].team)
          /\ UNCHANGED nodeTeam /\ req[r].pc = "delete" /\ Goes(r, "clear")
      BY Zenon, <1>11, <2>2 DEF DropTeam, At
    <3>2. /\ req'[r].pc = "clear" /\ req'[r].team = req[r].team
          /\ \A q \in Requests \ {r} : req'[q] = req[q]
      BY Zenon, <1>0, <3>1, Moves
    <3>3. ASSUME NEW n \in Nodes \ loose'
          PROVE  \/ nodeTeam'[n] \in teams' \union {None}
                 \/ \E q \in Requests : req'[q].pc = "clear" /\ req'[q].team = nodeTeam'[n]
      <4>1. CASE nodeTeam[n] = req[r].team
        BY Zenon, <3>1, <3>2, <4>1
      <4>2. CASE nodeTeam[n] # req[r].team
        <5>1. \/ nodeTeam[n] \in teams \union {None}
              \/ \E q \in Requests : req[q].pc = "clear" /\ req[q].team = nodeTeam[n]
          BY Zenon, <3>1 DEF ScopeInv, ScopedToLiveTeam, At
        <5> QED
          BY Zenon, <3>1, <3>2, <4>2, <5>1
      <4> QED
        BY Zenon, <4>1, <4>2
    <3>4. ASSUME NEW q \in Requests, req'[q].pc \in {"upsert", "scope"}
          PROVE  req'[q].node \in loose' \/ req'[q].team \in teams' \union {None}
      <4>1. req'[q] = req[q]
        BY Zenon, <3>2, <3>4
      <4>2. req[q].team = req[r].team => req[q].node \in Entering(req[r].team)
        BY Zenon, <3>4, <4>1 DEF Entering
      <4> QED
        BY Zenon, <3>1, <3>4, <4>1, <4>2 DEF ScopeInv
    <3> QED
      BY Zenon, <3>3, <3>4 DEF ScopeInv, ScopedToLiveTeam, At
  <2> QED
    BY Zenon, <2>1, <2>2
<1>12. CASE ClearNodes(r)
  <2>1. /\ nodeTeam' = [n \in Nodes |-> IF nodeTeam[n] = req[r].team THEN None ELSE nodeTeam[n]]
        /\ UNCHANGED <<teams, loose>> /\ Ends(r) /\ req[r].pc = "clear"
    BY Zenon, <1>12 DEF ClearNodes, At, history
  <2>2. req'[r].pc = "idle" /\ \A q \in Requests \ {r} : req'[q] = req[q]
    BY Zenon, <1>0, <2>1, Moves
  <2>3. ASSUME NEW n \in Nodes \ loose'
        PROVE  \/ nodeTeam'[n] \in teams' \union {None}
               \/ \E q \in Requests : req'[q].pc = "clear" /\ req'[q].team = nodeTeam'[n]
    <3>1. \/ nodeTeam[n] \in teams \union {None}
          \/ \E q \in Requests : req[q].pc = "clear" /\ req[q].team = nodeTeam[n]
      BY Zenon, <2>1 DEF ScopeInv, ScopedToLiveTeam, At
    <3> QED
      BY Zenon, <2>1, <2>2, <3>1
  <2>4. \A q \in Requests : req'[q].pc \in {"upsert", "scope"} =>
          req'[q].node \in loose' \/ req'[q].team \in teams' \union {None}
    BY Zenon, <2>1, <2>2 DEF ScopeInv
  <2> QED
    BY Zenon, <2>3, <2>4 DEF ScopeInv, ScopedToLiveTeam, At
<1> QED
  BY Zenon, <1>1, <1>2, <1>3, <1>4, <1>5, <1>6, <1>7, <1>8, <1>9, <1>10, <1>11, <1>12 DEF CallStep

\* A registration writes a team that was checked, or the node is noted as loose.
LEMMA ScopeNodeStep ==
  ASSUME TypeInv, ScopeInv, NEW r \in Requests, NodeStep(r)
  PROVE  ScopeInv'
<1>0. req \in [Requests -> Calls] /\ CallsOK /\ Fits(req[r], made) /\ req[r] \in Calls
  BY Zenon DEF TypeInv, CallsOK
<1>1. ASSUME NEW n \in Nodes, NEW t \in made \union {None}, NEW u \in Users,
             RegisterNode(r, u, n, t)
      PROVE  ScopeInv'
  <2>1. UNCHANGED <<teams, nodeTeam, loose>>
    BY Zenon, <1>1 DEF RegisterNode, tables, history
  <2>2. /\ req[r].pc = "idle" /\ req'[r].pc \in {"personal", "member"}
        /\ \A q \in Requests \ {r} : req'[q] = req[q]
    BY Zenon, <1>0, <1>1, RegisterBegins
  <2> QED
    BY Zenon, <2>1, <2>2, ScopeFrame
<1>2. ASSUME NEW n \in Nodes, NEW t \in made \union {None}, NEW k \in Tokens,
             RegisterWithToken(r, k, n, t)
      PROVE  ScopeInv'
  <2>1. /\ req[r].pc = "idle" /\ req'[r].node = n /\ req'[r].team = t
        /\ \A q \in Requests \ {r} : req'[q] = req[q]
        /\ UNCHANGED <<teams, nodeTeam>>
        /\ loose' = IF t # None THEN loose \union {n} ELSE loose
    BY Zenon, <1>0, <1>2 DEF RegisterWithToken, Begin, Idle
  <2> QED
    BY Zenon, <2>1, ScopeFrame
<1>3. CASE MakePersonalTeam(r)
  <2>1. /\ teams \subseteq teams' /\ UNCHANGED <<nodeTeam, loose>> /\ req[r].pc = "personal"
        /\ Goes(r, "member")
    BY Zenon, <1>3 DEF MakePersonalTeam, InsertTeam, At
  <2> QED
    BY SMTT(20), <1>0, <2>1, ScopeFrame, Moves
<1>4. CASE CheckMember(r)
  <2>1. UNCHANGED <<teams, nodeTeam, loose>> /\ req[r].pc = "member"
    BY Zenon, <1>4 DEF CheckMember, At, tables, history
  <2>2. CASE Ends(r)
    BY Zenon, <1>0, <2>1, <2>2, ScopeFrame, Moves
  <2>3. CASE ~(req[r].team \in Teams /\ role[req[r].team][req[r].by] = "") /\ Goes(r, "upsert")
    <3>1. req[r].by \in Users
      BY Zenon, <1>0, <2>1 DEF Fits
    <3>2. req[r].team \in Teams \union {None}
      BY Zenon, <1>0 DEF Calls
    <3>3. \A t \in Teams \ teams, u \in Users : role[t][u] = ""
      BY Zenon DEF TypeInv, TeamsOK
    <3>4. req[r].team \in teams \union {None}
      BY Zenon, <2>3, <3>1, <3>2, <3>3
    <3> QED
      BY ZenonT(30), <1>0, <2>1, <2>3, <3>4, ScopeFrame, Moves
  <2> QED
    BY Zenon, <1>4, <2>2, <2>3 DEF CheckMember
<1>5. ASSUME UpsertNode(r) \/ SetNodeTeam(r) PROVE ScopeInv'
  <2>1. /\ nodeTeam' = [nodeTeam EXCEPT ![req[r].node] = req[r].team]
        /\ UNCHANGED <<teams, loose>> /\ (Ends(r) \/ Goes(r, "scope"))
        /\ req[r].pc \in {"upsert", "scope"}
    BY Zenon, <1>5 DEF UpsertNode, SetNodeTeam, At, history
  <2>2. /\ \A q \in Requests \ {r} : req'[q] = req[q]
        /\ \/ req'[r].pc = "idle"
           \/ /\ req'[r].pc = "scope" /\ req'[r].node = req[r].node
              /\ req'[r].team = req[r].team
    <3>1. CASE Ends(r)
      BY Zenon, <1>0, <3>1, Moves
    <3>2. CASE Goes(r, "scope")
      BY Zenon, <1>0, <3>2, Moves
    <3> QED
      BY Zenon, <2>1, <3>1, <3>2
  <2>3. req[r].node \in loose \/ req[r].team \in teams \union {None}
    BY Zenon, <2>1 DEF ScopeInv
  <2>4. nodeTeam \in [Nodes -> Teams \union {None}]
    BY Zenon DEF TypeInv, NodesOK
  <2>5. ASSUME NEW n \in Nodes \ loose'
        PROVE  \/ nodeTeam'[n] \in teams' \union {None}
               \/ \E q \in Requests : req'[q].pc = "clear" /\ req'[q].team = nodeTeam'[n]
    <3>1. \/ nodeTeam[n] \in teams \union {None}
          \/ \E q \in Requests \ {r} : req[q].pc = "clear" /\ req[q].team = nodeTeam[n]
      BY Zenon, <2>1 DEF ScopeInv, ScopedToLiveTeam, At
    <3> QED
      BY Zenon, <2>1, <2>2, <2>3, <2>4, <3>1
  <2>6. \A q \in Requests : req'[q].pc \in {"upsert", "scope"} =>
          req'[q].node \in loose' \/ req'[q].team \in teams' \union {None}
    BY Zenon, <2>1, <2>2, <2>3 DEF ScopeInv
  <2> QED
    BY Zenon, <2>5, <2>6 DEF ScopeInv, ScopedToLiveTeam, At
<1> QED
  BY Zenon, <1>1, <1>2, <1>3, <1>4, <1>5 DEF NodeStep

-----------------------------------------------------------------------------
(* The dashboard.                                                          *)

Kinds == {"turn_request", "turn_progress", "turn_timeout", "reply_ok", "reply_error", "other"}
Events == UNION {Posts(n) : n \in 1..MaxPosts}

DashTypes ==
  /\ posts \in 0..MaxPosts /\ quitting \in BOOLEAN
  /\ stream \in [open : BOOLEAN, ch : Seq(Events)] /\ Len(stream.ch) <= WatchBuffer
  /\ watch \in [at : {"calling", "reading", "got", "failed", "retry", "none"},
                event : Events \union {NoEvent}]
  /\ DOMAIN busyTurns \subseteq Turns
  /\ \A t \in DOMAIN busyTurns : busyTurns[t] \in [to : Handles, state : {"working", "stalled"}]
  /\ handleLastStatus \subseteq Handles
  /\ entries \in Seq(Nat) /\ Len(entries) <= MaxActivity

\* The watch command and the channel it reads.
WatchPlace ==
  /\ stream.open <=> watch.at = "reading"
  /\ ~stream.open => stream.ch = << >>
  /\ watch.at = "got" <=> watch.event # NoEvent
  /\ quitting <=> watch.at = "none"

\* The entries are older than the events under way, and these were posted.
OrderInv ==
  /\ ShownInOrder
  /\ \A i \in DOMAIN entries : entries[i] <= posts
  /\ \A j \in DOMAIN stream.ch :
       /\ stream.ch[j].n <= posts
       /\ \A i \in DOMAIN entries : entries[i] < stream.ch[j].n
  /\ watch.event # NoEvent =>
       /\ watch.event.n <= posts
       /\ \A i \in DOMAIN entries : entries[i] < watch.event.n

\* The dashboard shows turn or handle s as it is, and e tells how s is.
Shown(s) ==
  /\ s \in Turns => (s \in DOMAIN busyTurns <=> s \in openTurns)
  /\ s \in Handles => (s \in handleLastStatus <=> s \in failed)
Tells(e, s) ==
  /\ s \in Turns => (s \in openTurns <=> Opens(e))
  /\ s \in Handles => (s \in failed <=> Fails(e))

\* What was not lost is shown, or the last event about it is under way.
NewsOf(s) ==
  /\ s \notin InTransit => Shown(s)
  /\ watch.event # NoEvent /\ s \in Subjects(watch.event) => Tells(watch.event, s)
  /\ \A i \in DOMAIN stream.ch :
       /\ s \in Subjects(stream.ch[i])
       /\ \A j \in DOMAIN stream.ch : i < j => s \notin Subjects(stream.ch[j])
       => Tells(stream.ch[i], s)
NewsInv == ~quitting => \A s \in (Turns \union Handles) \ unseen : NewsOf(s)

DashInv == DashTypes /\ WatchPlace /\ OrderInv /\ NewsInv

\* The fields of the channel and of the watch command.
LEMMA Fields ==
  /\ \A x \in [open : BOOLEAN, ch : Seq(Events)] : x.open \in BOOLEAN /\ x.ch \in Seq(Events)
  /\ \A x \in [at : {"calling", "reading", "got", "failed", "retry", "none"},
                event : Events \union {NoEvent}] :
       /\ x.at \in {"calling", "reading", "got", "failed", "retry", "none"}
       /\ x.event \in Events \union {NoEvent}
OBVIOUS

\* The fields of an event.
LEMMA EventFields ==
  ASSUME NEW n \in 1..MaxPosts, NEW e \in Posts(n)
  PROVE  /\ e \in Events /\ e # NoEvent /\ e.n = n /\ e.kind \in Kinds
         /\ e.from \in Handles /\ e.turn \in Turns \union {NoTurn}
         /\ e.target \in Handles \union {NoHandle}
<1>1. e \in Events /\ e # NoEvent
  BY Zenon, EventAssumption DEF Events
<1>2. /\ e.n = n /\ e.kind \in Kinds
      /\ e.from \in Handles /\ e.turn \in Turns \union {NoTurn}
      /\ e.target \in Handles \union {NoHandle}
  BY SMTT(20) DEF Posts, Handles, Kinds
<1> QED
  BY Zenon, <1>1, <1>2

\* What an event is about: a handle, and the turn it opens or closes.
LEMMA EventNews ==
  ASSUME NEW e \in Events
  PROVE  /\ e.n \in 1..MaxPosts /\ e # NoEvent /\ e.kind \in Kinds
         /\ TargetOrAuthor(e) \in Handles /\ e.from \in Handles /\ About(e) \in Handles
         /\ e.turn \in Turns \union {NoTurn}
         /\ \A s \in Handles : s \in Subjects(e) <=> e.kind # "other" /\ s = About(e)
         /\ \A s \in Turns : s \in Subjects(e) <=> (Opens(e) \/ Closes(e)) /\ s = e.turn /\ s # NoTurn
         /\ ~(Opens(e) /\ Closes(e))
         /\ Opens(e) \/ Closes(e) => e.kind # "other"
<1>1. PICK n \in 1..MaxPosts : e \in Posts(n)
  BY Zenon DEF Events
<1>2. /\ e # NoEvent /\ e.n = n /\ e.kind \in Kinds
      /\ e.from \in Handles /\ e.turn \in Turns \union {NoTurn}
      /\ e.target \in Handles \union {NoHandle}
  BY Zenon, <1>1, EventFields
<1>3. TargetOrAuthor(e) \in Handles
  BY Zenon, <1>2 DEF TargetOrAuthor
<1>4. About(e) \in Handles
  BY Zenon, <1>2, <1>3 DEF About
<1>5. /\ isTurnLifecycleKind(e.kind) <=> e.kind # "other"
      /\ ~(Opens(e) /\ Closes(e))
      /\ Opens(e) \/ Closes(e) => e.kind # "other"
  BY SMT, <1>2 DEF Kinds, isTurnLifecycleKind, isTurnReplyKind, Opens, Closes
<1>6. \A s \in Handles : s \notin Turns
  BY Zenon, DashAssumption DEF Handles
<1>7. \A s \in Handles : s \in Subjects(e) <=> e.kind # "other" /\ s = About(e)
  BY Zenon, <1>2, <1>5, <1>6 DEF Subjects
<1>8. \A s \in Turns : s \in Subjects(e) <=> (Opens(e) \/ Closes(e)) /\ s = e.turn /\ s # NoTurn
  BY Zenon, <1>2, <1>4, <1>5, <1>6 DEF Subjects
<1> QED
  BY Zenon, <1>1, <1>2, <1>3, <1>4, <1>5, <1>7, <1>8

\* updateBusyTurns opens and closes the turn that an event opens and closes.
LEMMA TurnsFollow ==
  ASSUME DashTypes, NEW e \in Events
  PROVE  /\ DOMAIN updateBusyTurns(e) \subseteq Turns
         /\ \A t \in DOMAIN updateBusyTurns(e) :
              updateBusyTurns(e)[t] \in [to : Handles, state : {"working", "stalled"}]
         /\ \A t \in Turns : t \in DOMAIN updateBusyTurns(e) <=>
              IF t \in Subjects(e) THEN Opens(e) ELSE t \in DOMAIN busyTurns
<1>1. /\ e.kind \in Kinds /\ TargetOrAuthor(e) \in Handles
      /\ e.turn \in Turns \union {NoTurn}
      /\ \A s \in Turns : s \in Subjects(e) <=> (Opens(e) \/ Closes(e)) /\ s = e.turn /\ s # NoTurn
      /\ ~(Opens(e) /\ Closes(e))
  BY Zenon, EventNews
<1>2. /\ DOMAIN busyTurns \subseteq Turns
      /\ \A t \in DOMAIN busyTurns : busyTurns[t] \in [to : Handles, state : {"working", "stalled"}]
  BY Zenon DEF DashTypes
<1>3. CASE updateBusyTurns(e) = busyTurns /\ (e.turn = NoTurn \/ ~(Opens(e) \/ Closes(e)))
  BY Zenon, <1>1, <1>2, <1>3
<1>4. CASE /\ e.turn # NoTurn /\ Opens(e)
           /\ \E h \in Handles : updateBusyTurns(e) = SetTurn(e.turn, [to |-> h, state |-> "working"])
  <2>1. PICK h \in Handles : updateBusyTurns(e) = SetTurn(e.turn, [to |-> h, state |-> "working"])
    BY Zenon, <1>4
  <2>1b. [to |-> h, state |-> "working"] \in [to : Handles, state : {"working", "stalled"}]
    OBVIOUS
  <2>2. PICK r \in [to : Handles, state : {"working", "stalled"}] : r = [to |-> h, state |-> "working"]
    BY Zenon, <2>1b
  <2>3. updateBusyTurns(e) = [u \in DOMAIN busyTurns \union {e.turn} |-> IF u = e.turn THEN r ELSE busyTurns[u]]
    BY Zenon, <2>1, <2>2 DEF SetTurn
  <2> QED
    BY Zenon, <1>1, <1>2, <1>4, <2>3
<1>5. CASE e.turn # NoTurn /\ Closes(e) /\ updateBusyTurns(e) = DropTurn(e.turn)
  BY Zenon, <1>1, <1>2, <1>5 DEF DropTurn
<1>6. \/ updateBusyTurns(e) = busyTurns /\ (e.turn = NoTurn \/ ~(Opens(e) \/ Closes(e)))
      \/ /\ e.turn # NoTurn /\ Opens(e)
         /\ \E h \in Handles : updateBusyTurns(e) = SetTurn(e.turn, [to |-> h, state |-> "working"])
      \/ e.turn # NoTurn /\ Closes(e) /\ updateBusyTurns(e) = DropTurn(e.turn)
  <2>1. CASE e.turn = NoTurn
    BY SMT, <2>1 DEF updateBusyTurns
  <2>2. CASE e.turn # NoTurn /\ e.kind = "turn_request"
    <3>1. CASE e.target # NoHandle
      <4>1. e.target \in Handles
        BY Zenon, <1>1, <3>1 DEF TargetOrAuthor
      <4>2. updateBusyTurns(e) = SetTurn(e.turn, [to |-> e.target, state |-> "working"])
        BY SMT, <2>2, <3>1 DEF updateBusyTurns, isTurnReplyKind
      <4> QED
        BY Zenon, <2>2, <3>1, <4>1, <4>2 DEF Opens
    <3>2. CASE e.target = NoHandle
      <4>1. updateBusyTurns(e) = busyTurns
        BY SMT, <2>2, <3>2 DEF updateBusyTurns, isTurnReplyKind
      <4>2. ~(Opens(e) \/ Closes(e))
        BY SMT, <2>2, <3>2 DEF Opens, Closes, isTurnReplyKind
      <4> QED
        BY Zenon, <4>1, <4>2
    <3> QED
      BY Zenon, <3>1, <3>2
  <2>3. CASE e.turn # NoTurn /\ e.kind = "turn_progress"
    <3>1. PICK h : h = IF e.turn \in DOMAIN busyTurns THEN busyTurns[e.turn].to ELSE TargetOrAuthor(e)
      BY Zenon
    <3>2. \A r \in [to : Handles, state : {"working", "stalled"}] : r.to \in Handles
      BY SMT
    <3>3. h \in Handles
      BY Zenon, <1>1, <1>2, <3>1, <3>2
    <3>4. updateBusyTurns(e) = SetTurn(e.turn, [to |-> h, state |-> "working"])
      BY SMT, <2>3, <3>1 DEF updateBusyTurns, isTurnReplyKind
    <3> QED
      BY Zenon, <2>3, <3>3, <3>4 DEF Opens
  <2>4. CASE e.turn # NoTurn /\ Closes(e)
    <3>1. updateBusyTurns(e) = DropTurn(e.turn)
      BY SMT, <2>4 DEF updateBusyTurns, Closes, isTurnReplyKind
    <3> QED
      BY Zenon, <2>4, <3>1
  <2>5. CASE e.turn # NoTurn /\ e.kind = "other"
    BY SMT, <2>5 DEF updateBusyTurns, Opens, Closes, isTurnReplyKind
  <2> QED
    BY SMT, <1>1, <2>1, <2>2, <2>3, <2>4, <2>5 DEF Kinds, Closes, isTurnReplyKind
<1> QED
  BY Zenon, <1>3, <1>4, <1>5, <1>6

\* updateHandleTurnState notes whether the last event about a handle was a failure.
LEMMA StatusFollows ==
  ASSUME DashTypes, NEW e \in Events
  PROVE  /\ updateHandleTurnState(e) \subseteq Handles
         /\ \A h \in Handles : h \in updateHandleTurnState(e) <=>
              IF h \in Subjects(e) THEN Fails(e) ELSE h \in handleLastStatus
<1>1. /\ e.kind \in Kinds /\ TargetOrAuthor(e) \in Handles /\ e.from \in Handles
      /\ \A s \in Handles : s \in Subjects(e) <=> e.kind # "other" /\ s = About(e)
      /\ handleLastStatus \subseteq Handles
  BY Zenon, EventNews DEF DashTypes
<1>2. updateHandleTurnState(e) =
        IF e.kind = "other" THEN handleLastStatus
        ELSE IF Fails(e) THEN handleLastStatus \union {About(e)} ELSE handleLastStatus \ {About(e)}
  BY SMT, <1>1 DEF Kinds, updateHandleTurnState, Fails, About, isTurnReplyKind
<1>3. About(e) \in Handles
  BY Zenon, <1>1 DEF About
<1>4. CASE e.kind = "other"
  BY Zenon, <1>1, <1>2, <1>4
<1>5. CASE e.kind # "other" /\ Fails(e)
  <2>1. updateHandleTurnState(e) = handleLastStatus \union {About(e)}
    BY Zenon, <1>2, <1>5
  <2> QED
    BY Zenon, <1>1, <1>3, <1>5, <2>1
<1>6. CASE e.kind # "other" /\ ~Fails(e)
  <2>1. updateHandleTurnState(e) = handleLastStatus \ {About(e)}
    BY Zenon, <1>2, <1>6
  <2> QED
    BY Zenon, <1>1, <1>3, <1>6, <2>1
<1> QED
  BY Zenon, <1>4, <1>5, <1>6

\* Nothing is shown and nothing is under way at the start.
LEMMA DashStarts == DashInit => DashInv
<1> SUFFICES ASSUME DashInit PROVE DashInv
  OBVIOUS
<1>1. stream = [open |-> FALSE, ch |-> << >>] /\ watch = [at |-> "calling", event |-> NoEvent]
  BY Zenon DEF DashInit, Closed, Watch
<1>2. /\ stream.open = FALSE /\ stream.ch = << >> /\ watch.at = "calling" /\ watch.event = NoEvent
      /\ DOMAIN stream.ch = {}
  BY <1>1
<1>3. DOMAIN busyTurns = {} /\ DOMAIN entries = {}
  BY DEF DashInit
<1>4. DashTypes
  <2>1. stream \in [open : BOOLEAN, ch : Seq(Events)] /\ Len(stream.ch) <= WatchBuffer
    BY <1>1, DashAssumption
  <2>2. watch \in [at : {"calling", "reading", "got", "failed", "retry", "none"},
                   event : Events \union {NoEvent}]
    BY <1>1
  <2>3. posts \in 0..MaxPosts /\ entries \in Seq(Nat) /\ Len(entries) <= MaxActivity
    BY DashAssumption DEF DashInit
  <2> QED
    BY Zenon, <1>3, <2>1, <2>2, <2>3 DEF DashInit, DashTypes
<1>5. WatchPlace
  BY <1>2 DEF DashInit, WatchPlace
<1>6. OrderInv
  BY Zenon, <1>2, <1>3 DEF OrderInv, ShownInOrder
<1>7. NewsInv
  BY Zenon, <1>2, <1>3 DEF DashInit, NewsInv, NewsOf, Shown
<1> QED
  BY Zenon, <1>4, <1>5, <1>6, <1>7 DEF DashInv

\* The invariant does not depend on whether a daemon runs.
LEMMA DashKept ==
  ASSUME DashInv, UNCHANGED <<posts, stream, watch, Panel, quitting, openTurns, failed, unseen>>
  PROVE  DashInv'
BY Zenon DEF DashInv, DashTypes, WatchPlace, OrderInv, ShownInOrder, NewsInv, NewsOf, Shown, Tells, InTransit, Panel

\* The turn or handle s is as it was.
SameAt(s) ==
  /\ s \in Turns => (s \in openTurns' <=> s \in openTurns)
  /\ s \in Handles => (s \in failed' <=> s \in failed)

\* An event tells as much as before when its subject is as before.
LEMMA TellsKept ==
  ASSUME NEW e, NEW s, SameAt(s), Tells(e, s)
  PROVE  Tells(e, s)'
BY Zenon DEF SameAt, Tells, Opens, Fails

\* A new event changes only what it is about, and tells how that is.
LEMMA PostTells ==
  ASSUME NEW e \in Events, NEW s \in Turns \union Handles,
         openTurns' = IF Opens(e) THEN openTurns \cup ({e.turn} \ {NoTurn})
                      ELSE IF Closes(e) THEN openTurns \ {e.turn} ELSE openTurns,
         failed' = IF ~isTurnLifecycleKind(e.kind) THEN failed
                   ELSE IF Fails(e) THEN failed \cup {About(e)} ELSE failed \ {About(e)}
  PROVE  IF s \in Subjects(e) THEN Tells(e, s)' ELSE SameAt(s)
<1>1. /\ e.kind \in Kinds /\ e.turn \in Turns \union {NoTurn} /\ About(e) \in Handles
      /\ \A h \in Handles : h \in Subjects(e) <=> e.kind # "other" /\ h = About(e)
      /\ \A t \in Turns : t \in Subjects(e) <=> (Opens(e) \/ Closes(e)) /\ t = e.turn /\ t # NoTurn
      /\ ~(Opens(e) /\ Closes(e))
      /\ Opens(e) \/ Closes(e) => e.kind # "other"
  BY Zenon, EventNews
<1>2. isTurnLifecycleKind(e.kind) <=> e.kind # "other"
  BY SMT, <1>1 DEF Kinds, isTurnLifecycleKind, isTurnReplyKind
<1>3. \A h \in Handles : h \notin Turns
  BY Zenon, DashAssumption DEF Handles
<1>4. CASE s \in Turns
  <2>1. s \notin Handles
    BY Zenon, <1>3, <1>4
  <2>2. CASE s \in Subjects(e)
    <3>1. (Opens(e) \/ Closes(e)) /\ s = e.turn /\ s # NoTurn
      BY Zenon, <1>1, <1>4, <2>2
    <3>2. s \in openTurns' <=> Opens(e)
      BY Zenon, <1>1, <3>1
    <3> QED
      BY Zenon, <2>1, <2>2, <3>2 DEF Tells, Opens, Fails
  <2>3. CASE s \notin Subjects(e)
    <3>1. ~(Opens(e) \/ Closes(e)) \/ s # e.turn
      BY Zenon, <1>1, <1>4, <2>3, DashAssumption
    <3>2. s \in openTurns' <=> s \in openTurns
      BY Zenon, <1>1, <3>1
    <3> QED
      BY Zenon, <2>1, <2>3, <3>2 DEF SameAt
  <2> QED
    BY Zenon, <2>2, <2>3
<1>5. CASE s \in Handles
  <2>1. s \notin Turns
    BY Zenon, <1>3, <1>5
  <2>2. CASE s \in Subjects(e)
    <3>1. e.kind # "other" /\ s = About(e)
      BY Zenon, <1>1, <1>5, <2>2
    <3>2. s \in failed' <=> Fails(e)
      BY Zenon, <1>2, <3>1
    <3> QED
      BY Zenon, <2>1, <2>2, <3>2 DEF Tells, Opens, Fails
  <2>3. CASE s \notin Subjects(e)
    <3>1. e.kind = "other" \/ s # About(e)
      BY Zenon, <1>1, <1>5, <2>3
    <3>2. s \in failed' <=> s \in failed
      BY Zenon, <1>2, <3>1
    <3> QED
      BY Zenon, <2>1, <2>3, <3>2 DEF SameAt
  <2> QED
    BY Zenon, <2>2, <2>3
<1> QED
  BY Zenon, <1>4, <1>5

\* A sequence with one more event.
LEMMA OneMore ==
  ASSUME NEW c \in Seq(Events), NEW e \in Events
  PROVE  /\ Append(c, e) \in Seq(Events) /\ Len(Append(c, e)) = Len(c) + 1
         /\ DOMAIN c \subseteq DOMAIN Append(c, e)
         /\ Len(c) + 1 \in DOMAIN Append(c, e) /\ Append(c, e)[Len(c) + 1] = e
         /\ \A i \in DOMAIN c : Append(c, e)[i] = c[i] /\ i < Len(c) + 1
         /\ \A i \in DOMAIN Append(c, e) : i = Len(c) + 1 \/ i \in DOMAIN c
OBVIOUS

\* An event that the daemon posts reaches the watch command's channel or is lost.
LEMMA PostStep == ASSUME DashInv, Post PROVE DashInv'
<1>1. PICK e \in Posts(posts + 1) :
        /\ Emit(e)
        /\ openTurns' = IF Opens(e) THEN openTurns \cup ({e.turn} \ {NoTurn})
                        ELSE IF Closes(e) THEN openTurns \ {e.turn} ELSE openTurns
        /\ failed' = IF ~isTurnLifecycleKind(e.kind) THEN failed
                     ELSE IF Fails(e) THEN failed \cup {About(e)} ELSE failed \ {About(e)}
  BY Zenon DEF Post
<1>2. /\ posts' = posts + 1 /\ posts < MaxPosts
      /\ UNCHANGED <<watch, busyTurns, handleLastStatus, entries, quitting>>
  BY Zenon DEF Post, Panel
<1>3. DashTypes /\ WatchPlace /\ OrderInv /\ NewsInv
  BY Zenon DEF DashInv
<1>4. posts \in 0..MaxPosts /\ posts + 1 \in 1..MaxPosts /\ posts' \in 0..MaxPosts
  <2>1. posts \in 0..MaxPosts
    BY Zenon, <1>3 DEF DashTypes
  <2> QED
    BY <1>2, <2>1, DashAssumption
<1>5. e \in Events /\ e.n = posts + 1
  BY Zenon, <1>4, EventFields
<1>6. \A s \in Turns \union Handles : IF s \in Subjects(e) THEN Tells(e, s)' ELSE SameAt(s)
  BY Zenon, <1>1, <1>5, PostTells
<1>7. entries \in Seq(Nat) /\ \A i \in DOMAIN entries : entries[i] \in Nat /\ entries[i] <= posts
  <2>1. entries \in Seq(Nat) /\ \A i \in DOMAIN entries : entries[i] <= posts
    BY Zenon, <1>3 DEF DashTypes, OrderInv
  <2> QED
    BY <2>1
<1>8. \A i \in DOMAIN entries : entries[i] <= posts + 1 /\ entries[i] < posts + 1
  BY <1>4, <1>7
<1>9. PICK c \in Seq(Events) : c = stream.ch
  BY Zenon, <1>3, Fields DEF DashTypes
<1>10. \A x \in Nat : x <= posts => x <= posts + 1
  BY <1>4
<1>11. \A i \in DOMAIN c : c[i] \in Events /\ c[i].n \in Nat
  <2>1. \A i \in DOMAIN c : c[i] \in Events
    BY <1>9
  <2>2. \A x \in Events : x.n \in Nat
    BY EventNews
  <2> QED
    BY Zenon, <2>1, <2>2
<1>12. CASE stream.open /\ Len(stream.ch) < WatchBuffer
  <2>1. /\ stream'.open = stream.open /\ stream'.ch = Append(c, e) /\ unseen' = unseen
        /\ stream' = [open |-> stream.open, ch |-> Append(c, e)]
    <3>1. stream \in [open : BOOLEAN, ch : Seq(Events)] /\ stream' = [stream EXCEPT !.ch = Append(@, e)]
      BY Zenon, <1>1, <1>3, <1>12 DEF Emit, DashTypes
    <3>2. unseen' = unseen
      BY Zenon, <1>1, <1>12 DEF Emit
    <3> QED
      BY Zenon, <1>9, <3>1, <3>2
  <2>2. PICK d : d = Append(c, e)
    BY Zenon
  <2>3. PICK last : last = Len(c) + 1
    BY Zenon
  <2>4. /\ d \in Seq(Events) /\ Len(d) = last
        /\ DOMAIN c \subseteq DOMAIN d /\ last \in DOMAIN d /\ d[last] = e
        /\ \A i \in DOMAIN c : d[i] = c[i] /\ i < last
        /\ \A i \in DOMAIN d : i = last \/ i \in DOMAIN c
    BY Zenon, <1>5, <2>2, <2>3, OneMore
  <2>5. DashTypes'
    <3>1. Len(d) <= WatchBuffer
      BY <1>9, <1>12, <2>3, <2>4, DashAssumption
    <3>2. stream' \in [open : BOOLEAN, ch : Seq(Events)]
      BY <1>12, <2>1, <2>2, <2>4
    <3> QED
      BY Zenon, <1>2, <1>3, <1>4, <2>1, <2>2, <3>1, <3>2 DEF DashTypes
  <2>6. watch.event = NoEvent
    BY <1>3, <1>12 DEF WatchPlace
  <2>7. WatchPlace'
    BY Zenon, <1>2, <1>3, <1>12, <2>1 DEF WatchPlace
  <2>8. OrderInv'
    <3>1. \A j \in DOMAIN d : d[j].n <= posts + 1 /\ \A i \in DOMAIN entries : entries[i] < d[j].n
      <4>1. ASSUME NEW j \in DOMAIN c PROVE d[j].n <= posts + 1 /\ \A i \in DOMAIN entries : entries[i] < d[j].n
        BY Zenon, <1>3, <1>9, <1>10, <1>11, <2>4, <4>1 DEF OrderInv
      <4>2. posts + 1 <= posts + 1
        BY <1>4
      <4> QED
        BY Zenon, <1>5, <1>8, <2>4, <4>1, <4>2
    <3> QED
      BY Zenon, <1>2, <1>3, <1>8, <2>1, <2>2, <2>6, <3>1 DEF OrderInv, ShownInOrder
  <2>9. NewsInv'
    <3> SUFFICES ASSUME ~quitting, NEW s \in (Turns \union Handles) \ unseen PROVE NewsOf(s)'
      BY Zenon, <1>2, <2>1 DEF NewsInv
    <3>1. NewsOf(s)
      BY Zenon, <1>3 DEF NewsInv
    <3>2. s \notin InTransit' => s \notin InTransit /\ s \notin Subjects(e)
      <4>1. s \notin SubjectsOf(d) => s \notin SubjectsOf(c) /\ s \notin Subjects(e)
        BY Zenon, <2>4 DEF SubjectsOf
      <4>2. SubjectsOf(d) \subseteq InTransit'
        BY Zenon, <2>1, <2>2 DEF InTransit, SubjectsOf
      <4>3. InTransit = SubjectsOf(c)
        BY Zenon, <1>9, <2>6 DEF InTransit
      <4> QED
        BY Zenon, <4>1, <4>2, <4>3
    <3>3. s \notin InTransit' => Shown(s)'
      BY Zenon, <1>2, <1>6, <3>1, <3>2 DEF NewsOf, Shown, SameAt
    <3>4. ASSUME NEW i \in DOMAIN d, s \in Subjects(d[i]),
                 \A j \in DOMAIN d : i < j => s \notin Subjects(d[j])
          PROVE  Tells(d[i], s)'
      <4>1. CASE i = last
        BY Zenon, <1>6, <2>4, <3>4, <4>1
      <4>2. CASE i \in DOMAIN c
        <5>1. s \notin Subjects(e) /\ d[i] = c[i]
          BY Zenon, <2>4, <3>4, <4>2
        <5>2. Tells(c[i], s)
          BY Zenon, <1>9, <2>4, <3>1, <3>4, <4>2, <5>1 DEF NewsOf
        <5>3. SameAt(s)
          BY Zenon, <1>6, <5>1
        <5> QED
          BY Zenon, <5>1, <5>2, <5>3, TellsKept
      <4> QED
        BY Zenon, <2>4, <4>1, <4>2
    <3> QED
      BY Zenon, <1>2, <2>1, <2>2, <2>6, <3>3, <3>4 DEF NewsOf, Tells
  <2> QED
    BY Zenon, <2>5, <2>7, <2>8, <2>9 DEF DashInv
<1>13. CASE ~(stream.open /\ Len(stream.ch) < WatchBuffer)
  <2>1. stream' = stream /\ unseen' = unseen \union Subjects(e)
    BY Zenon, <1>1, <1>13 DEF Emit
  <2>2. DashTypes' /\ WatchPlace'
    BY Zenon, <1>2, <1>3, <1>4, <2>1 DEF DashTypes, WatchPlace
  <2>3. OrderInv'
    <3>1. watch.event # NoEvent => watch.event.n \in Nat
      <4>1. watch.event \in Events \union {NoEvent}
        BY Zenon, <1>3, Fields DEF DashTypes
      <4>2. \A x \in Events : x.n \in Nat
        BY EventNews
      <4> QED
        BY Zenon, <4>1, <4>2
    <3> QED
      BY Zenon, <1>2, <1>3, <1>8, <1>9, <1>10, <1>11, <2>1, <3>1 DEF OrderInv, ShownInOrder
  <2>4. NewsInv'
    <3> SUFFICES ASSUME ~quitting, NEW s \in (Turns \union Handles) \ unseen, s \notin Subjects(e)
                 PROVE  NewsOf(s)'
      BY Zenon, <1>2, <2>1 DEF NewsInv
    <3>1. NewsOf(s) /\ SameAt(s)
      BY Zenon, <1>3, <1>6 DEF NewsInv
    <3>2. s \notin InTransit' => Shown(s)'
      BY Zenon, <1>2, <2>1, <3>1 DEF NewsOf, Shown, SameAt, InTransit
    <3> QED
      BY Zenon, <1>2, <2>1, <3>1, <3>2 DEF NewsOf, SameAt, Tells
  <2> QED
    BY Zenon, <2>2, <2>3, <2>4 DEF DashInv
<1> QED
  BY Zenon, <1>12, <1>13

\* Without a channel nothing is under way but the event that was read.
LEMMA ClosedTransit ==
  ASSUME stream.ch = << >>
  PROVE  /\ DOMAIN stream.ch = {}
         /\ InTransit = IF watch.event # NoEvent THEN Subjects(watch.event) ELSE {}
<1>1. DOMAIN stream.ch = {}
  OBVIOUS
<1> QED
  BY Zenon, <1>1 DEF InTransit, SubjectsOf

\* A command that begins, fails or waits, without an event.
Restful ==
  /\ watch.event = NoEvent /\ watch'.event = NoEvent /\ stream'.ch = << >>
  /\ UNCHANGED <<posts, Panel, quitting, openTurns, failed>>
  /\ unseen' = unseen \union SubjectsOf(stream.ch)

\* Such a step loses what was in the channel and keeps all else.
LEMMA RestfulStep ==
  ASSUME DashInv, Restful, DashTypes', WatchPlace'
  PROVE  DashInv'
<1>1. OrderInv /\ NewsInv
  BY Zenon DEF DashInv
<1>2. DOMAIN stream'.ch = {}
  BY DEF Restful
<1>3. OrderInv'
  BY Zenon, <1>1, <1>2 DEF Restful, Panel, OrderInv, ShownInOrder
<1>4. InTransit = SubjectsOf(stream.ch)
  BY Zenon DEF Restful, InTransit
<1>5. NewsInv'
  <2> SUFFICES ASSUME ~quitting, NEW s \in (Turns \union Handles) \ unseen, s \notin InTransit
               PROVE  NewsOf(s)'
    BY Zenon, <1>4 DEF NewsInv, Restful
  <2>1. Shown(s)
    BY Zenon, <1>1 DEF NewsInv, NewsOf
  <2> QED
    BY Zenon, <1>2, <2>1 DEF NewsOf, Shown, Restful, Panel
<1> QED
  BY Zenon, <1>3, <1>5 DEF DashInv

\* The records that the channel and the command become.
LEMMA WatchFields ==
  ASSUME NEW at \in {"calling", "reading", "got", "failed", "retry", "none"}
  PROVE  /\ Watch(at) \in [at : {"calling", "reading", "got", "failed", "retry", "none"},
                           event : Events \union {NoEvent}]
         /\ Watch(at).at = at /\ Watch(at).event = NoEvent
BY DEF Watch

\* The fields of a watcher that is not connected and of one just connected.
LEMMA ClosedFields ==
  /\ Closed \in [open : BOOLEAN, ch : Seq(Events)]
  /\ Closed.open = FALSE /\ Closed.ch = << >> /\ Len(Closed.ch) <= WatchBuffer
  /\ [open |-> TRUE, ch |-> << >>] \in [open : BOOLEAN, ch : Seq(Events)]
  /\ [open |-> TRUE, ch |-> << >>].open = TRUE /\ [open |-> TRUE, ch |-> << >>].ch = << >>
  /\ SubjectsOf(<< >>) = {}
<1>1. /\ Closed \in [open : BOOLEAN, ch : Seq(Events)]
      /\ Closed.open = FALSE /\ Closed.ch = << >> /\ Len(Closed.ch) <= WatchBuffer
      /\ [open |-> TRUE, ch |-> << >>] \in [open : BOOLEAN, ch : Seq(Events)]
      /\ [open |-> TRUE, ch |-> << >>].open = TRUE /\ [open |-> TRUE, ch |-> << >>].ch = << >>
      /\ DOMAIN << >> = {}
  BY DashAssumption DEF Closed
<1> QED
  BY Zenon, <1>1 DEF SubjectsOf

\* A daemon that stops loses the events in the channel.
LEMMA StopsStep == ASSUME DashInv, DaemonStops PROVE DashInv'
<1>1. DashTypes /\ WatchPlace /\ stream' = Closed
      /\ UNCHANGED <<posts, Panel, quitting, openTurns, failed>>
      /\ unseen' = unseen \union SubjectsOf(stream.ch)
      /\ watch' = IF watch.at = "reading" THEN Watch("failed") ELSE watch
  BY Zenon DEF DashInv, DaemonStops
<1>2. CASE watch.at = "reading"
  <2>1. /\ watch.event = NoEvent /\ watch' = Watch("failed")
        /\ watch'.at = "failed" /\ watch'.event = NoEvent
    BY Zenon, <1>1, <1>2, WatchFields DEF WatchPlace
  <2>2. DashTypes'
    BY Zenon, <1>1, <2>1, WatchFields, ClosedFields DEF DashTypes, Panel
  <2>3. WatchPlace'
    BY <1>1, <1>2, <2>1, ClosedFields DEF WatchPlace
  <2> QED
    BY Zenon, <1>1, <2>1, <2>2, <2>3, ClosedFields, RestfulStep DEF Restful
<1>3. CASE watch.at # "reading"
  <2>1. watch' = watch /\ stream.ch = << >> /\ ~stream.open
    BY Zenon, <1>1, <1>3 DEF WatchPlace
  <2>2. stream \in [open : BOOLEAN, ch : Seq(Events)]
    BY Zenon, <1>1 DEF DashTypes
  <2>3. stream' = stream
    BY <1>1, <2>1, <2>2 DEF Closed
  <2>4. unseen' = unseen
    BY Zenon, <1>1, <2>1, ClosedFields
  <2> QED
    BY Zenon, <1>1, <2>1, <2>3, <2>4, DashKept
<1> QED
  BY Zenon, <1>2, <1>3

\* WatchActivity opens an empty channel, or fails.
LEMMA DialStep == ASSUME DashInv, WatchActivity PROVE DashInv'
<1>1. /\ DashTypes /\ WatchPlace /\ watch.at = "calling"
      /\ UNCHANGED <<posts, Panel, quitting, openTurns, failed, unseen>>
      /\ \/ watch' = Watch("failed") /\ stream' = stream
         \/ watch' = Watch("reading") /\ stream' = [open |-> TRUE, ch |-> << >>]
  BY Zenon DEF DashInv, WatchActivity, Daemon
<1>2. /\ watch.event = NoEvent /\ stream.ch = << >> /\ ~stream.open
      /\ unseen' = unseen \union SubjectsOf(stream.ch)
  <2>1. watch.event = NoEvent /\ stream.ch = << >> /\ ~stream.open
    BY <1>1 DEF WatchPlace
  <2> QED
    BY Zenon, <1>1, <2>1, ClosedFields
<1>3. watch'.event = NoEvent /\ stream'.ch = << >>
  BY Zenon, <1>1, <1>2, WatchFields, ClosedFields
<1>4. DashTypes'
  <2>1. Len(<< >>) <= WatchBuffer
    BY DashAssumption
  <2>2. stream' \in [open : BOOLEAN, ch : Seq(Events)]
    BY Zenon, <1>1, ClosedFields DEF DashTypes
  <2> QED
    BY Zenon, <1>1, <1>3, <2>1, <2>2, WatchFields DEF DashTypes, Panel
<1>5. WatchPlace'
  <2>1. (watch'.at = "failed" /\ ~stream'.open) \/ (watch'.at = "reading" /\ stream'.open)
    BY Zenon, <1>1, <1>2, WatchFields, ClosedFields
  <2> QED
    BY <1>1, <1>3, <2>1 DEF WatchPlace
<1> QED
  BY Zenon, <1>1, <1>2, <1>3, <1>4, <1>5, RestfulStep DEF Restful

\* The dashboard waits after an error, and calls again.
LEMMA RetryStep == ASSUME DashInv, UpdateActivityErr \/ UpdateWatchRetry PROVE DashInv'
<1>1. /\ DashTypes /\ WatchPlace /\ watch.at \in {"failed", "retry"}
      /\ UNCHANGED <<posts, Panel, quitting, openTurns, failed, unseen, stream>>
      /\ watch' = Watch("retry") \/ watch' = Watch("calling")
  BY Zenon DEF DashInv, UpdateActivityErr, UpdateWatchRetry, Daemon
<1>2. /\ watch.event = NoEvent /\ stream.ch = << >> /\ ~stream.open
      /\ unseen' = unseen \union SubjectsOf(stream.ch)
  <2>1. watch.event = NoEvent /\ stream.ch = << >> /\ ~stream.open
    BY <1>1 DEF WatchPlace
  <2> QED
    BY Zenon, <1>1, <2>1, ClosedFields
<1>3. watch'.event = NoEvent /\ stream'.ch = << >> /\ watch'.at \in {"retry", "calling"}
  BY Zenon, <1>1, <1>2, WatchFields
<1>4. DashTypes'
  BY Zenon, <1>1, WatchFields DEF DashTypes, Panel
<1>5. WatchPlace'
  BY <1>1, <1>2, <1>3 DEF WatchPlace
<1> QED
  BY Zenon, <1>1, <1>2, <1>3, <1>4, <1>5, RestfulStep DEF Restful

\* The command returns the first event, and the others in the channel are lost.
LEMMA ReadStep == ASSUME DashInv, watchActivity PROVE DashInv'
<1>1. /\ DashTypes /\ WatchPlace /\ OrderInv /\ NewsInv
      /\ watch.at = "reading" /\ stream.ch # << >>
      /\ watch' = [at |-> "got", event |-> Head(stream.ch)] /\ stream' = Closed
      /\ unseen' = unseen \union SubjectsOf(Tail(stream.ch))
      /\ UNCHANGED <<posts, Panel, quitting, openTurns, failed>>
  BY Zenon DEF DashInv, watchActivity, Daemon
<1>2. PICK c \in Seq(Events) : c = stream.ch
  BY Zenon, <1>1, Fields DEF DashTypes
<1>3. PICK e : e = Head(c)
  BY Zenon
<1>4. PICK d : d = Tail(c)
  BY Zenon
<1>5. /\ 1 \in DOMAIN c /\ e = c[1] /\ e \in Events
      /\ \A j \in DOMAIN c : j = 1 \/ (1 < j /\ \E i \in DOMAIN d : d[i] = c[j])
  <2>1. c # << >>
    BY Zenon, <1>1, <1>2
  <2>2. 1 \in DOMAIN c /\ e = c[1] /\ e \in Events
    BY <1>2, <1>3, <2>1
  <2>3. ASSUME NEW j \in DOMAIN c, j # 1 PROVE 1 < j /\ \E i \in DOMAIN d : d[i] = c[j]
    <3>1. j - 1 \in DOMAIN d /\ d[j - 1] = c[j] /\ 1 < j
      BY <1>2, <1>4, <2>1, <2>3
    <3> QED
      BY Zenon, <3>1
  <2> QED
    BY Zenon, <2>2, <2>3
<1>6. e # NoEvent
  BY Zenon, <1>5, EventNews
<1>7. watch' = [at |-> "got", event |-> e] /\ watch'.at = "got" /\ watch'.event = e
  BY <1>1, <1>2, <1>3
<1>8. stream'.open = FALSE /\ stream'.ch = << >> /\ DOMAIN stream'.ch = {}
  BY <1>1, ClosedFields
<1>9. DashTypes'
  <2>1. watch' \in [at : {"calling", "reading", "got", "failed", "retry", "none"},
                    event : Events \union {NoEvent}]
    BY <1>5, <1>7
  <2> QED
    BY Zenon, <1>1, <2>1, ClosedFields DEF DashTypes, Panel
<1>10. WatchPlace'
  BY <1>1, <1>6, <1>7, <1>8 DEF WatchPlace
<1>11. OrderInv'
  BY Zenon, <1>1, <1>2, <1>5, <1>7, <1>8 DEF OrderInv, ShownInOrder, Panel
<1>12. NewsInv'
  <2> SUFFICES ASSUME ~quitting, NEW s \in (Turns \union Handles) \ unseen, s \notin SubjectsOf(d)
               PROVE  NewsOf(s)'
    BY Zenon, <1>1, <1>2, <1>4 DEF NewsInv
  <2>1. NewsOf(s)
    BY Zenon, <1>1 DEF NewsInv
  <2>2. \A j \in DOMAIN c : j = 1 \/ (1 < j /\ s \notin Subjects(c[j]))
    BY Zenon, <1>5 DEF SubjectsOf
  <2>3. s \in Subjects(e) => Tells(e, s)
    <3>1. \A j \in DOMAIN c : 1 < j => s \notin Subjects(c[j])
      <4>1. ~(1 < 1)
        OBVIOUS
      <4> QED
        BY Zenon, <2>2, <4>1
    <3> QED
      BY Zenon, <1>2, <1>5, <2>1, <3>1 DEF NewsOf
  <2>4. s \notin Subjects(e) => Shown(s)
    <3>1. watch.event = NoEvent
      BY <1>1 DEF WatchPlace
    <3>2. s \notin Subjects(e) => s \notin SubjectsOf(c)
      BY Zenon, <1>5, <2>2 DEF SubjectsOf
    <3> QED
      BY Zenon, <1>2, <2>1, <3>1, <3>2 DEF NewsOf, InTransit
  <2>5. Subjects(e) \subseteq InTransit'
    BY Zenon, <1>6, <1>7 DEF InTransit
  <2> QED
    BY Zenon, <1>1, <1>7, <1>8, <2>3, <2>4, <2>5 DEF NewsOf, Shown, Tells, Panel
<1> QED
  BY Zenon, <1>9, <1>10, <1>11, <1>12 DEF DashInv

\* A new entry is the last one, and the oldest one makes room for it.
LEMMA EntryAdded ==
  ASSUME NEW q \in Seq(Nat), Len(q) <= MaxActivity, NEW n \in Nat,
         \A i \in DOMAIN q : q[i] < n,
         \A i, j \in DOMAIN q : i < j => q[i] < q[j]
  PROVE  /\ AddEntry(q, n) \in Seq(Nat) /\ Len(AddEntry(q, n)) <= MaxActivity
         /\ \A i \in DOMAIN AddEntry(q, n) : AddEntry(q, n)[i] <= n
         /\ \A i, j \in DOMAIN AddEntry(q, n) : i < j => AddEntry(q, n)[i] < AddEntry(q, n)[j]
<1>1. PICK t : t = Append(q, n)
  BY Zenon
<1>2. /\ t \in Seq(Nat) /\ Len(t) = Len(q) + 1 /\ Len(q) \in Nat
      /\ \A i \in 1..Len(t) : t[i] \in Nat /\ t[i] <= n
      /\ \A i, j \in 1..Len(t) : i < j => t[i] < t[j]
  BY <1>1
<1>3. CASE Len(t) <= MaxActivity
  <2>1. AddEntry(q, n) = t
    BY <1>1, <1>2, <1>3, DashAssumption DEF AddEntry
  <2> QED
    BY <1>2, <1>3, <2>1
<1>4. CASE Len(t) > MaxActivity
  <2>1. AddEntry(q, n) = SubSeq(t, Len(t) - MaxActivity + 1, Len(t))
    BY Zenon, <1>1, <1>2, <1>4, DashAssumption DEF AddEntry
  <2>2. Len(t) - MaxActivity + 1 = 2 /\ Len(t) = MaxActivity + 1
    BY <1>2, <1>4, DashAssumption
  <2>3. PICK u : u = SubSeq(t, 2, Len(t))
    BY Zenon
  <2>4. u \in Seq(Nat) /\ Len(u) = MaxActivity /\ \A i \in 1..Len(u) : u[i] = t[i + 1]
    BY <1>2, <2>2, <2>3, DashAssumption
  <2>4b. \A i \in 1..Len(u) : i + 1 \in 1..Len(t)
    BY <2>2, <2>4, DashAssumption
  <2>4c. \A i, j \in 1..Len(u) : i < j => i + 1 < j + 1
    BY <2>4, DashAssumption
  <2>5. \A i \in 1..Len(u) : u[i] <= n
    BY Zenon, <1>2, <2>4, <2>4b
  <2>6. \A i, j \in 1..Len(u) : i < j => u[i] < u[j]
    BY Zenon, <1>2, <2>4, <2>4b, <2>4c
  <2>7. AddEntry(q, n) = u
    BY Zenon, <2>1, <2>2, <2>3
  <2>8. DOMAIN u = 1..Len(u) /\ Len(u) <= MaxActivity
    BY <2>4, DashAssumption
  <2> QED
    BY Zenon, <2>4, <2>5, <2>6, <2>7, <2>8
<1> QED
  BY <1>2, <1>3, <1>4, DashAssumption

\* The panels show the event that was read.
LEMMA UpdateStep == ASSUME DashInv, UpdateActivity PROVE DashInv'
<1>1. /\ DashTypes /\ WatchPlace /\ OrderInv /\ NewsInv /\ watch.at = "got"
      /\ watch' = Watch("calling") /\ UNCHANGED <<posts, openTurns, failed, stream, quitting, unseen>>
  BY Zenon DEF DashInv, UpdateActivity, Daemon
<1>2. PICK e \in Events : e = watch.event /\ e # NoEvent
  BY Zenon, <1>1, Fields DEF DashTypes, WatchPlace
<1>3. /\ entries' = IF shouldDisplayActivity(e) THEN AddEntry(entries, e.n) ELSE entries
      /\ busyTurns' = updateBusyTurns(e) /\ handleLastStatus' = updateHandleTurnState(e)
  BY Zenon, <1>2 DEF UpdateActivity
<1>4. stream.ch = << >> /\ ~stream.open
  BY <1>1 DEF WatchPlace
<1>5. DOMAIN stream.ch = {} /\ InTransit = Subjects(e)
  BY Zenon, <1>2, <1>4, ClosedTransit
<1>6. watch'.at = "calling" /\ watch'.event = NoEvent
  BY Zenon, <1>1, WatchFields
<1>7. /\ entries' \in Seq(Nat) /\ Len(entries') <= MaxActivity
      /\ \A i \in DOMAIN entries' : entries'[i] <= posts
      /\ \A i, j \in DOMAIN entries' : i < j => entries'[i] < entries'[j]
  <2>1. /\ entries \in Seq(Nat) /\ Len(entries) <= MaxActivity /\ posts \in 0..MaxPosts
        /\ \A i \in DOMAIN entries : entries[i] <= posts /\ entries[i] < e.n
        /\ \A i, j \in DOMAIN entries : i < j => entries[i] < entries[j]
        /\ e.n <= posts
    BY Zenon, <1>1, <1>2 DEF DashTypes, OrderInv, ShownInOrder
  <2>2. CASE entries' = entries
    BY Zenon, <2>1, <2>2
  <2>3. CASE entries' = AddEntry(entries, e.n)
    <3>1. e.n \in 1..MaxPosts
      BY Zenon, EventNews
    <3>2. e.n \in Nat
      BY <3>1
    <3>3. /\ entries' \in Seq(Nat) /\ Len(entries') <= MaxActivity
          /\ \A i \in DOMAIN entries' : entries'[i] <= e.n
          /\ \A i, j \in DOMAIN entries' : i < j => entries'[i] < entries'[j]
      BY Zenon, <2>1, <2>3, <3>2, EntryAdded
    <3>4. \A i \in DOMAIN entries' : entries'[i] <= posts
      BY <2>1, <3>2, <3>3
    <3> QED
      BY Zenon, <3>3, <3>4
  <2> QED
    BY Zenon, <1>3, <2>2, <2>3
<1>8. DashTypes'
  <2>1. /\ DOMAIN busyTurns' \subseteq Turns /\ handleLastStatus' \subseteq Handles
        /\ \A t \in DOMAIN busyTurns' : busyTurns'[t] \in [to : Handles, state : {"working", "stalled"}]
    BY Zenon, <1>1, <1>3, TurnsFollow, StatusFollows
  <2> QED
    BY Zenon, <1>1, <1>7, <2>1, WatchFields DEF DashTypes
<1>9. WatchPlace'
  BY <1>1, <1>4, <1>6 DEF WatchPlace
<1>10. OrderInv'
  BY Zenon, <1>1, <1>5, <1>6, <1>7 DEF OrderInv, ShownInOrder
<1>11. NewsInv'
  <2> SUFFICES ASSUME ~quitting, NEW s \in (Turns \union Handles) \ unseen PROVE NewsOf(s)'
    BY Zenon, <1>1 DEF NewsInv
  <2>1. IF s \in Subjects(e) THEN Tells(e, s) ELSE Shown(s)
    BY Zenon, <1>1, <1>2, <1>5 DEF NewsInv, NewsOf
  <2>2. /\ s \in Turns => (s \in DOMAIN busyTurns' <=>
              IF s \in Subjects(e) THEN Opens(e) ELSE s \in DOMAIN busyTurns)
        /\ s \in Handles => (s \in handleLastStatus' <=>
              IF s \in Subjects(e) THEN Fails(e) ELSE s \in handleLastStatus)
    BY Zenon, <1>1, <1>3, TurnsFollow, StatusFollows
  <2>3. Shown(s)'
    BY Zenon, <1>1, <2>1, <2>2 DEF Shown, Tells
  <2> QED
    BY Zenon, <1>1, <1>5, <1>6, <2>3 DEF NewsOf
<1> QED
  BY Zenon, <1>8, <1>9, <1>10, <1>11 DEF DashInv

\* A turn without news stays in the panel.
LEMMA PruneStep == ASSUME DashInv, pruneBusyTurns PROVE DashInv'
<1>1. /\ DashTypes /\ WatchPlace /\ OrderInv /\ NewsInv
      /\ UNCHANGED <<posts, openTurns, failed, stream, watch, handleLastStatus, entries, quitting, unseen>>
  BY Zenon DEF DashInv, pruneBusyTurns, Daemon
<1>2. PICK old : busyTurns' = [t \in DOMAIN busyTurns |->
                   IF t \in old THEN [busyTurns[t] EXCEPT !.state = "stalled"] ELSE busyTurns[t]]
  BY Zenon DEF pruneBusyTurns
<1>3. DOMAIN busyTurns' = DOMAIN busyTurns
  BY Zenon, <1>2
<1>4. \A r \in [to : Handles, state : {"working", "stalled"}] :
        [r EXCEPT !.state = "stalled"] \in [to : Handles, state : {"working", "stalled"}]
  OBVIOUS
<1>5. DashTypes'
  <2>1. \A t \in DOMAIN busyTurns' : busyTurns'[t] \in [to : Handles, state : {"working", "stalled"}]
    BY Zenon, <1>1, <1>2, <1>3, <1>4 DEF DashTypes
  <2> QED
    BY Zenon, <1>1, <1>3, <2>1 DEF DashTypes
<1>6. WatchPlace' /\ OrderInv'
  BY Zenon, <1>1 DEF WatchPlace, OrderInv, ShownInOrder
<1>7. NewsInv'
  BY Zenon, <1>1, <1>3 DEF NewsInv, NewsOf, Shown, Tells, InTransit
<1> QED
  BY Zenon, <1>5, <1>6, <1>7 DEF DashInv

\* The user quits or clears the activity panel.
LEMMA KeyStep == ASSUME DashInv, UpdateKey PROVE DashInv'
<1>1. /\ DashTypes /\ WatchPlace /\ OrderInv /\ NewsInv /\ ~quitting
      /\ UNCHANGED <<posts, openTurns, failed, busyTurns, handleLastStatus, unseen>>
  BY Zenon DEF DashInv, UpdateKey, Daemon
<1>2. CASE quitting' = TRUE /\ stream' = Closed /\ watch' = Watch("none") /\ UNCHANGED entries
  <2>1. /\ stream'.open = FALSE /\ stream'.ch = << >> /\ DOMAIN stream'.ch = {}
        /\ watch'.at = "none" /\ watch'.event = NoEvent
    BY <1>2, ClosedFields, WatchFields
  <2>2. DashTypes'
    BY Zenon, <1>1, <1>2, ClosedFields, WatchFields DEF DashTypes
  <2>3. WatchPlace'
    BY <1>2, <2>1 DEF WatchPlace
  <2>4. OrderInv'
    BY Zenon, <1>1, <1>2, <2>1 DEF OrderInv, ShownInOrder
  <2>5. NewsInv'
    BY Zenon, <1>2 DEF NewsInv
  <2> QED
    BY Zenon, <2>2, <2>3, <2>4, <2>5 DEF DashInv
<1>3. CASE entries' = << >> /\ UNCHANGED <<quitting, stream, watch>>
  <2>1. DOMAIN entries' = {} /\ entries' \in Seq(Nat) /\ Len(entries') <= MaxActivity
    BY <1>3, DashAssumption
  <2>2. DashTypes' /\ WatchPlace' /\ NewsInv'
    BY Zenon, <1>1, <1>3, <2>1 DEF DashTypes, WatchPlace, NewsInv, NewsOf, Shown, Tells, InTransit
  <2>3. OrderInv'
    BY Zenon, <1>1, <1>3, <2>1 DEF OrderInv, ShownInOrder
  <2> QED
    BY Zenon, <2>2, <2>3 DEF DashInv
<1> QED
  BY Zenon, <1>2, <1>3 DEF UpdateKey

\* The invariant says what the dashboard shows.
LEMMA DashShows == DashInv => DashboardAgrees
<1> SUFFICES ASSUME DashInv PROVE DashboardAgrees
  OBVIOUS
<1>1. DashTypes /\ WatchPlace /\ OrderInv /\ NewsInv
  BY Zenon DEF DashInv
<1>2. DashTypeOK
  BY Zenon, <1>1, Fields DEF DashTypes, DashTypeOK
<1>3. \A s \in (Turns \union Handles) \ (unseen \union InTransit) : ~quitting => Shown(s)
  BY Zenon, <1>1 DEF NewsInv, NewsOf
<1>4. BusyAgrees
  BY Zenon, <1>3 DEF Shown, BusyAgrees
<1>5. ASSUME NEW h \in Handles \ (unseen \union InTransit), ~quitting,
             \A t \in DOMAIN busyTurns : busyTurns[t].to # h
      PROVE  handleState(h) = "error" <=> h \in failed
  <2>1. h \in handleLastStatus <=> h \in failed
    BY Zenon, <1>3, <1>5 DEF Shown
  <2>2. {busyTurns[t].state : t \in {u \in DOMAIN busyTurns : busyTurns[u].to = h}} = {}
    BY Zenon, <1>5
  <2>3. {} # {"stalled"} /\ "working" \notin {}
    OBVIOUS
  <2>4. handleState(h) = IF h \in handleLastStatus THEN "error" ELSE "idle"
    BY SMT, <2>2, <2>3 DEF handleState
  <2> QED
    BY <2>1, <2>4
<1>6. ErrorAgrees
  BY Zenon, <1>5 DEF ErrorAgrees
<1> QED
  BY Zenon, <1>1, <1>2, <1>4, <1>6 DEF OrderInv, DashboardAgrees

\* The dashboard shows the turns, the failed handles and the order of events as
\* they are, for any number of turns, events, restarts of the daemon and lost
\* events, except for what it has not seen (updateBusyTurns, handleState).
THEOREM DashboardStaysAgreed == DashSpec => []DashboardAgrees
<1>1. DashInit => DashInv
  BY DashStarts
<1>2. DashInv /\ [DashNext]_dashVars => DashInv'
  <2> SUFFICES ASSUME DashInv, [DashNext]_dashVars PROVE DashInv'
    OBVIOUS
  <2>1. CASE UNCHANGED dashVars
    BY Zenon, <2>1, DashKept DEF dashVars, Panel
  <2>2. CASE DaemonStarts
    BY Zenon, <2>2, DashKept DEF DaemonStarts
  <2> QED
    BY Zenon, <2>1, <2>2, PostStep, StopsStep, DialStep, ReadStep, UpdateStep, RetryStep, PruneStep,
       KeyStep DEF DashNext
<1>3. DashInv => DashboardAgrees
  BY DashShows
<1> QED
  BY <1>1, <1>2, <1>3, PTL DEF DashSpec

-----------------------------------------------------------------------------
(* The laws of sizes hold.  The theorems about finite sets enter here, and *)
(* not in the context of the proofs above.                                 *)

F == INSTANCE FiniteSetTheorems

\* Every law of Sizes is a theorem about finite sets.
LEMMA SizeLawsHold == SizeLaws
<1>1. \A S : F!IsFiniteSet(S) <=> IsFiniteSet(S)
  BY Zenon DEF F!IsFiniteSet, IsFiniteSet
<1>2. \A S : F!Cardinality(S) = Cardinality(S)
  BY Zenon DEF F!Cardinality, Cardinality
<1>3. SizeIsNat
  BY Zenon, <1>1, <1>2, F!FS_CardinalityType DEF SizeIsNat
<1>4. SizeOfEmpty /\ SizeOfOne
  BY Zenon, <1>1, <1>2, F!FS_EmptySet, F!FS_Singleton DEF SizeOfEmpty, SizeOfOne
<1>5. SizeOfPart
  BY Zenon, <1>1, <1>2, F!FS_Subset DEF SizeOfPart
<1>6. SizeWith
  BY Zenon, <1>1, <1>2, F!FS_AddElement DEF SizeWith
<1>7. SizeWithout
  BY Zenon, <1>1, <1>2, F!FS_RemoveElement DEF SizeWithout
<1>8. SizeInto
  <2> SUFFICES ASSUME NEW S, NEW T, NEW f \in [S -> T], IsFiniteSet(T),
                      \A x, y \in S : f[x] = f[y] => x = y
               PROVE  IsFiniteSet(S) /\ Cardinality(S) <= Cardinality(T)
    BY Zenon DEF SizeInto
  <2>1. f \in F!Injection(S, T)
    BY Zenon DEF F!Injection, F!IsInjective
  <2> QED
    BY Zenon, <1>1, <1>2, <2>1, F!FS_Injection
<1>9. LeastExists
  <2> SUFFICES ASSUME NEW T \in SUBSET Nat, T # {} PROVE \E x \in T : \A y \in T : x <= y
    BY Zenon DEF LeastExists
  <2>1. PICK R : R = F!OpToRel(<, Nat)
    BY Zenon
  <2>2. PICK x \in T : \A y \in T : ~(<<y, x>> \in R)
    BY Zenon, <2>1, F!NatLessThanWellFounded, F!WFMin
  <2>3. ASSUME NEW y \in T PROVE x <= y
    <3>1. ~(<<y, x>> \in R) /\ x \in Nat /\ y \in Nat
      BY Zenon, <2>2
    <3>2. ~(y < x)
      BY Zenon, <2>1, <3>1 DEF F!OpToRel
    <3> QED
      BY <3>1, <3>2
  <2> QED
    BY Zenon, <2>3
<1> QED
  BY Zenon, <1>3, <1>4, <1>5, <1>6, <1>7, <1>8, <1>9 DEF SizeLaws

\* A team keeps an owner unless an owner stepped down by an invite or two calls
\* changed its owners at once, for any number of users and calls.
THEOREM OwnersRemain == Spec => []OwnerRemains
<1>1. Init => OwnersInv
  <2> SUFFICES ASSUME Init PROVE OwnersInv
    BY Zenon
  <2>1. \A r \in Requests : req[r].pc = "idle"
    BY Zenon DEF Init, Idle
  <2>2. OwnerRemains
    BY Zenon DEF Init, OwnerRemains
  <2> QED
    BY Zenon, <2>1, <2>2 DEF OwnersInv, KeepsOwner, ChangesOwners
<1>2. TypeInv /\ OwnersInv /\ [Next]_vars => OwnersInv'
  <2> SUFFICES ASSUME TypeInv, OwnersInv, [Next]_vars PROVE OwnersInv'
    BY Zenon
  <2>1. CASE UNCHANGED vars
    BY Zenon, <2>1, OwnersFrame DEF vars, tables, history
  <2>2. ASSUME NEW u \in Users, CreateTeam(u) PROVE OwnersInv'
    BY Zenon, <2>2, OwnersInsert DEF CreateTeam
  <2> QED
    BY Zenon, <2>1, <2>2, Steps, SizeLawsHold, OwnersCallStep, OwnersNodeStep
<1>3. OwnersInv => OwnerRemains
  BY Zenon DEF OwnersInv
<1> QED
  BY <1>1, <1>2, <1>3, TypesAlways, PTL DEF Spec

\* The bound on the uses of an invite, with the calls under way counted.
LEMMA InvitesAlways == Spec => []InvitesInv
<1>1. Init => InvitesInv
  <2> SUFFICES ASSUME Init PROVE InvitesInv
    BY Zenon
  <2>1. \A r \in Requests : req[r].pc = "idle"
    BY Zenon DEF Init, Idle
  <2>2. \A c : Joining(c) = {}
    BY Zenon, <2>1 DEF Joining
  <2>3. \A c \in Codes : UsesCover(c)
    <3>1. Cardinality({}) = 0
      BY Zenon, SizeLawsHold DEF SizeLaws, SizeOfEmpty
    <3>2. \A c \in Codes : joins[c] = 0 /\ given[c] = 0 /\ invite[c].team = None
      BY Zenon DEF Init, NoInvite
    <3> QED
      BY SMTT(20), <2>2, <3>1, <3>2 DEF UsesCover
  <2> QED
    BY Zenon, <2>1, <2>3 DEF InvitesInv
<1>2. TypeInv /\ InvitesInv /\ [Next]_vars => InvitesInv'
  <2> SUFFICES ASSUME TypeInv, InvitesInv, [Next]_vars PROVE InvitesInv'
    BY Zenon
  <2>1. CASE UNCHANGED vars
    BY Zenon, <2>1, InvitesFrame DEF vars, tables, history
  <2>2. ASSUME NEW u \in Users, CreateTeam(u) PROVE InvitesInv'
    BY Zenon, <2>2, InvitesFrame DEF CreateTeam
  <2> QED
    BY Zenon, <2>1, <2>2, Steps, SizeLawsHold, InvitesCallStep, InvitesNodeStep
<1> QED
  BY <1>1, <1>2, TypesAlways, PTL DEF Spec

\* The scope of the nodes, with the registrations and deletions under way.
LEMMA ScopeAlways == Spec => []ScopeInv
<1>1. Init => ScopeInv
  <2> SUFFICES ASSUME Init PROVE ScopeInv
    BY Zenon
  <2>1. (\A n \in Nodes : nodeTeam[n] = None) /\ \A r \in Requests : req[r].pc = "idle"
    BY Zenon DEF Init, Idle
  <2> QED
    BY Zenon, <2>1 DEF ScopeInv, ScopedToLiveTeam
<1>2. TypeInv /\ ScopeInv /\ [Next]_vars => ScopeInv'
  <2> SUFFICES ASSUME TypeInv, ScopeInv, [Next]_vars PROVE ScopeInv'
    BY Zenon
  <2>1. CASE UNCHANGED vars
    BY Zenon, <2>1, ScopeFrame DEF vars, tables, history
  <2>2. ASSUME NEW u \in Users, CreateTeam(u) PROVE ScopeInv'
    BY Zenon, <2>2, ScopeFrame DEF CreateTeam, InsertTeam
  <2> QED
    BY Zenon, <2>1, <2>2, Steps, ScopeCallStep, ScopeNodeStep
<1> QED
  BY <1>1, <1>2, TypesAlways, PTL DEF Spec
-----------------------------------------------------------------------------
\* The tables of coord agree with each other and with the calls that were let
\* through, for any number of users, teams, invites, nodes and calls.
THEOREM TablesStayAgreed == Spec => []TablesAgree
<1>1. TypeInv => NoOrphanRows
  BY Zenon DEF TypeInv, TeamsOK, InvitesOK, NoOrphanRows
<1>2. TypeInv /\ InvitesInv => InviteBound
  <2> SUFFICES ASSUME TypeInv, InvitesInv, NEW c \in Codes PROVE joins[c] <= given[c]
    BY Zenon DEF InviteBound
  <2>1. joins[c] \in Nat /\ given[c] \in Nat /\ joins[c] + Cardinality(Joining(c)) <= given[c]
    BY Zenon DEF TypeInv, InvitesOK, InvitesInv, UsesCover
  <2> QED
    BY SMTT(20), <2>1, SizeLawsHold, JoiningFinite
<1>3. ScopeInv => ScopedToLiveTeam
  BY Zenon DEF ScopeInv
<1>4. PersonalInv => PersonalOnlyIfNone
  BY Zenon DEF PersonalInv, PersonalOnlyIfNone
<1>5. TokenInv => SingleUse
  BY SMTT(20) DEF TokenInv, SingleUse
<1> QED
  BY <1>1, <1>2, <1>3, <1>4, <1>5, TypeCorrect, TypesAlways, InvitesAlways, ScopeAlways,
     PersonalAlways, TokensAlways, PTL DEF TablesAgree
=============================================================================
