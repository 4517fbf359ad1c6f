------------------------------- MODULE Teams ---------------------------------
(***************************************************************************)
(* Teams, roles, invites and the admission of nodes, as coord keeps them   *)
(* in its database.  The gRPC server and the REST handler run the same     *)
(* calls, each in a goroutine of its own: a role is read by one statement  *)
(* and the change it allows is written by another, so calls interleave     *)
(* between them.  A call that is refused changes nothing and is not a step *)
(* of its own, an expired invite included.  Coord models what follows a    *)
(* registration: the conflict check and the broadcasts.                    *)
(***************************************************************************)
EXTENDS Naturals, FiniteSets

CONSTANTS
  Users,     \* the emails in access tokens
  Teams,     \* team ids, each generated once
  Codes,     \* invite codes, each generated once
  Nodes,     \* daemons that register
  Tokens,    \* single-use pre-shared tokens
  Requests,  \* calls that can be in progress at once
  MaxUses,   \* bound: uses an invite is created for
  None

ASSUME TeamsAssumption ==
  /\ MaxUses \in Nat \ {0} /\ IsFiniteSet(Requests)
  /\ None \notin Teams \union Users \union Nodes \union Codes

VARIABLES
  teams,     \* rows of teams
  role,      \* rows of team_members: each user's role, "" without a row
  invite,    \* rows of team_invites
  nodeTeam,  \* column team_id of nodes
  usedBy,    \* column used_by of auth_tokens
  req,       \* the calls in progress
  made,      \* history: the team ids generated so far
  given,     \* history: the uses each code was created for, 0 if it was not
  joins,     \* history: members added with each code
  stepped,   \* history: teams an owner of which has accepted an invite
  crossed,   \* history: teams whose owners two calls were changing at once
  loose,     \* history: nodes scoped without a check that still held
  hurried,   \* history: users given a team while their personal one was made
  extra,     \* history: users given a personal team who had a team
  admitted   \* history: registrations admitted by each token

tables  == <<teams, role, invite, nodeTeam, usedBy>>
history == <<made, given, joins, stepped, crossed, loose, hurried, extra,
             admitted>>
vars    == <<tables, req, history>>

Roles    == {"", "owner", "member"}
NoInvite == [team |-> None, max |-> 0, uses |-> 0]
Idle     == [pc |-> "idle", by |-> None, team |-> None, who |-> None,
             to |-> "", code |-> None, node |-> None]

Owners(t)  == {u \in Users : role[t][u] = "owner"}
TeamsOf(u) == {t \in teams : role[t][u] # ""}

\* Calls between reading the role that allows them and changing an owner.
ChangesOwners(r) == req[r].pc \in {"remove", "count", "role"}
Making(u)        == \E r \in Requests : req[r].pc = "personal" /\ req[r].by = u

Init ==
  /\ teams = {} /\ role = [t \in Teams |-> [u \in Users |-> ""]]
  /\ invite = [c \in Codes |-> NoInvite]
  /\ nodeTeam = [n \in Nodes |-> None] /\ usedBy = [k \in Tokens |-> None]
  /\ req = [r \in Requests |-> Idle]
  /\ made = {} /\ given = [c \in Codes |-> 0] /\ joins = [c \in Codes |-> 0] /\ stepped = {}
  /\ crossed = {} /\ loose = {} /\ hurried = {} /\ extra = {}
  /\ admitted = [k \in Tokens |-> 0]
-----------------------------------------------------------------------------
Begin(r, call) == req[r].pc = "idle" /\ req' = [req EXCEPT ![r] = call]
At(r, pc)      == req[r].pc = pc
Goes(r, pc)    == req' = [req EXCEPT ![r].pc = pc]
Ends(r)        == req' = [req EXCEPT ![r] = Idle]

\* A call by u on team t that its owners alone may make.
ByOwner(u, t, pc) == [Idle EXCEPT !.pc = pc, !.by = u, !.team = t]

\* Store.CreateTeam: the team and its owner in one transaction.
InsertTeam(t, u) ==
  /\ t \notin made
  /\ teams' = teams \union {t} /\ made' = made \union {t}
  /\ role' = [role EXCEPT ![t][u] = "owner"]

CreateTeam(u) ==
  /\ \E t \in Teams : InsertTeam(t, u)
  /\ hurried' = IF Making(u) THEN hurried \union {u} ELSE hurried
  /\ UNCHANGED <<invite, nodeTeam, usedBy, req, given, joins, stepped, crossed, loose, extra, admitted>>

CreateTeamInvite(r, u, t) ==
  /\ role[t][u] = "owner"
  /\ \E c \in {x \in Codes : given[x] = 0 /\ \A q \in Requests : req[q].code # x} :
       Begin(r, [ByOwner(u, t, "invite") EXCEPT !.code = c])
  /\ UNCHANGED <<tables, history>>

\* The invite refers to its team: without the team the insert fails.
InsertInvite(r) ==
  /\ At(r, "invite") /\ Ends(r)
  /\ \/ /\ req[r].team \in teams
        /\ \E max \in 1..MaxUses :
             /\ invite' = [invite EXCEPT ![req[r].code] =
                             [team |-> req[r].team, max |-> max, uses |-> 0]]
             /\ given' = [given EXCEPT ![req[r].code] = max]
     \/ req[r].team \notin teams /\ UNCHANGED <<invite, given>>
  /\ UNCHANGED <<teams, role, nodeTeam, usedBy, made, joins, stepped, crossed,
                 loose, hurried, extra, admitted>>
-----------------------------------------------------------------------------
\* Checked and counted in one transaction.
ConsumeTeamInvite(c) ==
  /\ invite[c].uses < invite[c].max
  /\ invite' = [invite EXCEPT ![c].uses = @ + 1]

AcceptTeamInvite(r, u, c) ==
  /\ Begin(r, [ByOwner(u, invite[c].team, "join") EXCEPT !.code = c])
  /\ ConsumeTeamInvite(c)
  /\ UNCHANGED <<teams, role, nodeTeam, usedBy, history>>

\* The upsert overwrites the role of a user who is in the team already.
AddTeamMember(r) ==
  LET t == req[r].team
      u == req[r].by
  IN /\ At(r, "join") /\ Ends(r)
     /\ \/ /\ t \in teams
           /\ role' = [role EXCEPT ![t][u] = "member"]
           /\ joins' = [joins EXCEPT ![req[r].code] = @ + 1]
           /\ stepped' = IF role[t][u] = "owner" THEN stepped \union {t} ELSE stepped
           /\ hurried' = IF Making(u) THEN hurried \union {u} ELSE hurried
        \/ t \notin teams /\ UNCHANGED <<role, joins, stepped, hurried>>
     /\ UNCHANGED <<teams, invite, nodeTeam, usedBy, made, given, crossed, loose, extra, admitted>>
-----------------------------------------------------------------------------
\* A call that will change the owners of t begins.
BeginChange(r, t, call) ==
  /\ Begin(r, call)
  /\ crossed' = IF \E q \in Requests : ChangesOwners(q) /\ req[q].team = t
                THEN crossed \union {t} ELSE crossed
  /\ UNCHANGED <<tables, made, given, joins, stepped, loose, hurried, extra, admitted>>

\* An owner cannot remove themselves.
RemoveTeamMember(r, u, t, w) ==
  /\ role[t][u] = "owner"
  /\ w # u
  /\ BeginChange(r, t, [ByOwner(u, t, "remove") EXCEPT !.who = w])

DeleteMember(r) ==
  /\ At(r, "remove") /\ Ends(r)
  /\ role' = [role EXCEPT ![req[r].team][req[r].who] = ""]
  /\ UNCHANGED <<teams, invite, nodeTeam, usedBy, history>>

\* Variant: the owners are not counted.
UpdateTeamMemberRole_NoCount(r, u, t, w, to) ==
  /\ role[t][u] = "owner"
  /\ BeginChange(r, t, [ByOwner(u, t, "role") EXCEPT !.who = w, !.to = to])

\* Only an owner who demotes themselves has the owners counted.
UpdateTeamMemberRole(r, u, t, w, to) ==
  /\ role[t][u] = "owner"
  /\ BeginChange(r, t, [ByOwner(u, t, IF w = u /\ to # "owner" THEN "count" ELSE "role")
                          EXCEPT !.who = w, !.to = to])

CountOwners(r) ==
  /\ At(r, "count")
  /\ IF Cardinality(Owners(req[r].team)) <= 1 THEN Ends(r) ELSE Goes(r, "role")
  /\ UNCHANGED <<tables, history>>

\* The update finds no row if the member has gone.
SetRole(r) ==
  LET t == req[r].team
      w == req[r].who
  IN /\ At(r, "role") /\ Ends(r)
     /\ role' = [role EXCEPT ![t][w] = IF @ = "" THEN "" ELSE req[r].to]
     /\ UNCHANGED <<teams, invite, nodeTeam, usedBy, history>>
-----------------------------------------------------------------------------
DeleteTeam(r, u, t) ==
  /\ role[t][u] = "owner"
  /\ Begin(r, ByOwner(u, t, "delete"))
  /\ UNCHANGED <<tables, history>>

\* Nodes that a registration has been allowed to put into team t.
Entering(t) == {req[r].node : r \in {q \in Requests :
                  req[q].team = t /\ req[q].pc \in {"upsert", "scope"}}}

\* Members and invites go with the team, by cascade; nodes by a second
\* statement.
DropTeam(r) ==
  LET t == req[r].team
  IN /\ At(r, "delete")
     /\ \/ /\ t \in teams
           /\ teams' = teams \ {t}
           /\ role' = [role EXCEPT ![t] = [u \in Users |-> ""]]
           /\ invite' = [c \in Codes |-> IF invite[c].team = t THEN NoInvite ELSE invite[c]]
           /\ loose' = loose \union Entering(t)
           /\ Goes(r, "clear")
        \/ t \notin teams /\ Ends(r) /\ UNCHANGED <<teams, role, invite, loose>>
     /\ UNCHANGED <<nodeTeam, usedBy, made, given, joins, stepped, crossed, hurried, extra, admitted>>

\* Variant: the nodes keep the team.
ClearNodes_Skipped(r) ==
  /\ At(r, "clear") /\ Ends(r)
  /\ UNCHANGED <<tables, history>>

ClearNodes(r) ==
  /\ At(r, "clear") /\ Ends(r)
  /\ nodeTeam' = [n \in Nodes |-> IF nodeTeam[n] = req[r].team THEN None ELSE nodeTeam[n]]
  /\ UNCHANGED <<teams, role, invite, usedBy, history>>
-----------------------------------------------------------------------------
\* RegisterNode with an access token.  The user and the binding of the node
\* are upserts nothing here reads; then the user's teams are listed.
RegisterNode(r, u, n, t) ==
  /\ Begin(r, [Idle EXCEPT !.pc = IF TeamsOf(u) = {} THEN "personal" ELSE "member",
                           !.by = u, !.node = n, !.team = t])
  /\ UNCHANGED <<tables, history>>

\* The rest of EnsurePersonalTeam: the name is changed if it is taken.
MakePersonalTeam(r) ==
  LET u == req[r].by
  IN /\ At(r, "personal") /\ Goes(r, "member")
     /\ \E t \in Teams : InsertTeam(t, u)
     /\ extra' = IF TeamsOf(u) # {} THEN extra \union {u} ELSE extra
     /\ hurried' = IF \E q \in Requests \ {r} : At(q, "personal") /\ req[q].by = u
                   THEN hurried \union {u} ELSE hurried
     /\ UNCHANGED <<invite, nodeTeam, usedBy, given, joins, stepped, crossed, loose,
                    admitted>>

\* The team asked for, or the one in the token, must have the user in it.
CheckMember(r) ==
  LET t == req[r].team  \* None in personal mode
  IN /\ At(r, "member")
     /\ IF t \in Teams /\ role[t][req[r].by] = "" THEN Ends(r) ELSE Goes(r, "upsert")
     /\ UNCHANGED <<tables, history>>

\* Checked and used up in one transaction.
ValidateAndConsumeToken(k, n) ==
  /\ usedBy[k] = None
  /\ usedBy' = [usedBy EXCEPT ![k] = n]

\* RegisterNode with a pre-shared token.  It names no user, so the team asked
\* for is not checked.
RegisterWithToken(r, k, n, t) ==
  /\ ValidateAndConsumeToken(k, n)
  /\ Begin(r, [Idle EXCEPT !.pc = "upsert", !.node = n, !.team = t])
  /\ loose' = IF t # None THEN loose \union {n} ELSE loose
  /\ admitted' = [admitted EXCEPT ![k] = @ + 1]
  /\ UNCHANGED <<teams, role, invite, nodeTeam, made, given, joins, stepped,
                 crossed, hurried, extra>>

UpsertNode(r) ==
  /\ At(r, "upsert")
  /\ nodeTeam' = [nodeTeam EXCEPT ![req[r].node] = req[r].team]
  /\ IF req[r].team = None THEN Ends(r) ELSE Goes(r, "scope")
  /\ UNCHANGED <<teams, role, invite, usedBy, history>>

\* Written once more after the registry has.
SetNodeTeam(r) ==
  /\ At(r, "scope") /\ Ends(r)
  /\ nodeTeam' = [nodeTeam EXCEPT ![req[r].node] = req[r].team]
  /\ UNCHANGED <<teams, role, invite, usedBy, history>>
-----------------------------------------------------------------------------
\* The REST handler makes the same calls on the same store.  It differs in
\* what it answers, and in that it does not broadcast after a delete.
handleCreateTeam(u)             == CreateTeam(u)
handleDeleteTeam(r, u, t)       == DeleteTeam(r, u, t)
handleCreateInvite(r, u, t)     == CreateTeamInvite(r, u, t)
handleAcceptInvite(r, u, c)     == AcceptTeamInvite(r, u, c)
handleRemoveMember(r, u, t, w)  == RemoveTeamMember(r, u, t, w)
handleUpdateRole(r, u, t, w, x) == UpdateTeamMemberRole(r, u, t, w, x)

\* So do the tailbus team commands, with the id of a team that the user is in
\* and whose name they gave: ids are not used again, so it does not matter that
\* the id was looked up in an earlier call.
teamCreate(u)         == CreateTeam(u)
teamInvite(r, u, t)   == CreateTeamInvite(r, u, t)
teamJoin(r, u, c)     == AcceptTeamInvite(r, u, c)
teamRemove(r, u, t, w)  == RemoveTeamMember(r, u, t, w)
teamRole(r, u, t, w, x) == UpdateTeamMemberRole(r, u, t, w, x)

TeamStep(r) ==
  \/ \E u \in Users, t \in Teams :
       \/ CreateTeamInvite(r, u, t) \/ handleCreateInvite(r, u, t) \/ teamInvite(r, u, t)
       \/ DeleteTeam(r, u, t) \/ handleDeleteTeam(r, u, t)
       \/ \E w \in Users :
            \/ RemoveTeamMember(r, u, t, w) \/ handleRemoveMember(r, u, t, w)
            \/ teamRemove(r, u, t, w)
            \/ \E to \in {"owner", "member"} :
                 \/ UpdateTeamMemberRole(r, u, t, w, to) \/ handleUpdateRole(r, u, t, w, to)
                 \/ teamRole(r, u, t, w, to)
  \/ \E u \in Users, c \in Codes :
       AcceptTeamInvite(r, u, c) \/ handleAcceptInvite(r, u, c) \/ teamJoin(r, u, c)
  \/ InsertInvite(r) \/ AddTeamMember(r) \/ DeleteMember(r) \/ CountOwners(r)
  \/ SetRole(r) \/ DropTeam(r) \/ ClearNodes(r)

NodeStep(r) ==
  \/ \E n \in Nodes, t \in made \union {None} :
       \/ \E u \in Users : RegisterNode(r, u, n, t)
       \/ \E k \in Tokens : RegisterWithToken(r, k, n, t)
  \/ MakePersonalTeam(r) \/ CheckMember(r) \/ UpsertNode(r) \/ SetNodeTeam(r)

Next ==
  \/ \E u \in Users : CreateTeam(u) \/ handleCreateTeam(u) \/ teamCreate(u)
  \/ \E r \in Requests : TeamStep(r) \/ NodeStep(r)

Spec == Init /\ [][Next]_vars
-----------------------------------------------------------------------------
Calls == [pc : {"idle", "invite", "join", "remove", "count", "role", "delete",
                "clear", "personal", "member", "upsert", "scope"},
          by : Users \union {None}, team : Teams \union {None},
          who : Users \union {None}, to : Roles, code : Codes \union {None},
          node : Nodes \union {None}]

\* Every table and every call has its type.
TypeOK ==
  /\ teams \subseteq made /\ made \subseteq Teams
  /\ role \in [Teams -> [Users -> Roles]]
  /\ invite \in [Codes -> [team : Teams \union {None}, max : Nat, uses : Nat]]
  /\ nodeTeam \in [Nodes -> Teams \union {None}]
  /\ usedBy \in [Tokens -> Nodes \union {None}]
  /\ req \in [Requests -> Calls]
  /\ given \in [Codes -> Nat] /\ joins \in [Codes -> Nat]
  /\ stepped \subseteq Teams /\ crossed \subseteq Teams
  /\ loose \subseteq Nodes /\ hurried \subseteq Users /\ extra \subseteq Users
  /\ admitted \in [Tokens -> Nat]

\* Members and invites belong to teams that exist, whatever calls were under
\* way when a team was deleted (the references and the cascade of migrate).
NoOrphanRows ==
  /\ \A t \in Teams \ teams, u \in Users : role[t][u] = ""
  /\ \A c \in Codes : invite[c].team \in teams \union {None}

\* An invite never admits more members than it was created for, however many
\* AcceptTeamInvite calls run at once (ConsumeTeamInvite).
InviteBound == \A c \in Codes : joins[c] <= given[c]

\* A team keeps an owner, unless an owner has accepted an invite to it or two
\* calls were changing its owners at once: RemoveTeamMember never removes the
\* caller and UpdateTeamMemberRole counts the owners.
OwnerRemains ==
  \A t \in teams \ (stepped \union crossed) : Owners(t) # {}

\* A node is not left in a team that has been deleted, once DeleteTeam has
\* cleared the nodes, unless its registration was under way at the time or
\* was admitted by a token, for which no team is checked.
ScopedToLiveTeam ==
  \A n \in Nodes \ loose :
    nodeTeam[n] \in teams \union {None}
      \/ \E r \in Requests : At(r, "clear") /\ req[r].team = nodeTeam[n]

\* EnsurePersonalTeam makes a team for a user who has one only if another call
\* gave it to them after their teams were listed.
PersonalOnlyIfNone == extra \subseteq hurried

\* A single-use token admits one registration (ValidateAndConsumeToken): any
\* other with it, the re-registration of the same node too, is rejected.
SingleUse == \A k \in Tokens : admitted[k] <= 1

\* The tables of coord agree with each other and with the calls that were let
\* through, however the calls interleave with the end of a team (Store).
TablesAgree ==
  /\ TypeOK /\ NoOrphanRows /\ InviteBound /\ ScopedToLiveTeam
  /\ PersonalOnlyIfNone /\ SingleUse
=============================================================================
