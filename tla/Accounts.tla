------------------------------- MODULE Accounts -------------------------------
(***************************************************************************)
(* Users, applications, members and invites in the admin API: AuthService  *)
(* .register, ApplicationsService.create and .remove, and MembersService.  *)
(*                                                                         *)
(* Each handler looks, decides, and writes, with an await in between and   *)
(* no transaction around: a request is a process, its pc names the next    *)
(* call of the database, and requests of several users (or of one, twice)  *)
(* interleave.  The database keeps its constraints: one user per email,    *)
(* one membership per user and application, rows that go with their        *)
(* application.                                                            *)
(*                                                                         *)
(* DELETE applications/:appId/members/me, by which the UI leaves an        *)
(* application, never gets to leaveApplication: the route of removeMember  *)
(* comes first, takes "me" for a :memberId, and ParseUUIDPipe answers 400. *)
(* So nobody leaves, and the handler is no action here.                    *)
(***************************************************************************)
EXTENDS Integers, FiniteSets

CONSTANTS
  User,         \* people, each with one email
  App,          \* applications that may be created
  Invite,       \* invites that may be created
  Slot,         \* requests that may be in flight at once
  None,         \* no row
  Open,         \* registrationMode = "open"
  MaxRequests,  \* bounds the requests
  MaxFailures   \* bounds the requests that die half-way

Role == {"OWNER", "MEMBER"}     \* a GUEST counts for what follows as a MEMBER

InviteRow ==
  [app : App, to : User, status : {"PENDING", "ACCEPTED", "DECLINED", "EXPIRED"}, expired : BOOLEAN]

ASSUME AccountsAssumption ==
  /\ IsFiniteSet(User) /\ IsFiniteSet(App) /\ IsFiniteSet(Invite) /\ IsFiniteSet(Slot)
  /\ None \notin User \cup App \cup Invite \cup Role \cup {"nobody"}
  /\ None \notin InviteRow
  /\ Open \in BOOLEAN /\ MaxRequests \in Nat /\ MaxFailures \in Nat

VARIABLES
  \* the database
  users, root,         \* registered users, and those with isRoot
  apps,                \* applications
  member,              \* member[a][u]: role of u in a, or None
  invite,              \* invite[v]: a row of application_invites, or None
  \* the handlers
  request,             \* request[s]: a request in flight
  \* history and bounds
  admitted,            \* admitted[v]: memberships that invite v made
  excused,             \* what a handler did on readings that were no longer true,
                       \* or left half done
  requests, failures

database == <<users, root, apps, member, invite>>
vars == <<database, request, admitted, excused, requests, failures>>

\* on: whom or what the request is about; seen: what it has read; stale: that has
\* changed since; gone: the row it found was deleted.
Idle == [kind |-> "none", pc |-> "none", user |-> None, app |-> None, on |-> None,
         seen |-> None, stale |-> FALSE, gone |-> FALSE]

Nobody == [u \in User |-> None]

\* An empty database, or one application that an invite has given a second owner.
Init ==
  /\ \/ /\ users = {} /\ root = {} /\ apps = {}
        /\ member = [a \in App |-> Nobody]
     \/ \E a \in App, r, u \in User :
          /\ r # u
          /\ users = User /\ root = {r} /\ apps = {a}
          /\ member = [b \in App |-> IF b = a THEN [Nobody EXCEPT ![r] = "OWNER", ![u] = "OWNER"]
                                              ELSE Nobody]
  /\ invite = [v \in Invite |-> None]
  /\ request = [s \in Slot |-> Idle]
  /\ admitted = [v \in Invite |-> 0]
  /\ excused = {}
  /\ requests = 0 /\ failures = 0

Owners(a) == {u \in User : member[a][u] = "OWNER"}

-----------------------------------------------------------------------------
(* Requests                                                                 *)

Ready(s, kind, pc) == request[s].kind = kind /\ request[s].pc = pc

End(s) == request' = [request EXCEPT ![s] = Idle]

Go(s, pc) == request' = [request EXCEPT ![s].pc = pc]

Begin(s, kind, pc, u, a, on) ==
  /\ request[s].kind = "none" /\ requests < MaxRequests
  /\ requests' = requests + 1
  /\ request' = [request EXCEPT ![s] =
                   [Idle EXCEPT !.kind = kind, !.pc = pc, !.user = u, !.app = a, !.on = on]]
  /\ UNCHANGED <<database, admitted, excused, failures>>

\* requireRole and validateAccess: the root user, or a member of that role.
HasRole(u, a, role) == u \in root \/ (member[a][u] # None /\ (role = "OWNER" => member[a][u] = "OWNER"))

\* Request s goes on as r, having changed what those in others have read.
Outdate(s, r, others) ==
  request' = [t \in Slot |-> IF t = s THEN r
                             ELSE [request[t] EXCEPT !.stale = @ \/ t \in others]]

ChangesRoles(s, a) == request[s].kind \in {"promote", "demote", "remove"} /\ request[s].app = a

\* Request s goes on as r, having written the members of a, and deleted some rows.
Wrote(s, r, a, deleted) ==
  request' = [t \in Slot |->
    IF t = s THEN r
    ELSE IF ~ChangesRoles(t, a) THEN request[t]
    ELSE [request[t] EXCEPT !.stale = TRUE, !.gone = @ \/ request[t].on \in deleted]]

-----------------------------------------------------------------------------
(* AuthService.register                                                     *)

Register(s, u) == Begin(s, "register", "count", u, None, None)

\* count() decides who is the first user, and whether registration is open.
RegisterCount(s) ==
  /\ Ready(s, "register", "count")
  /\ IF users # {} /\ ~Open THEN End(s)
     ELSE request' = [request EXCEPT ![s].pc = "email", ![s].seen = IF users = {} THEN "nobody" ELSE None]
  /\ UNCHANGED <<database, admitted, excused, requests, failures>>

RegisterEmail(s) ==
  /\ Ready(s, "register", "email")
  /\ IF request[s].user \in users THEN End(s) ELSE Go(s, "create")
  /\ UNCHANGED <<database, admitted, excused, requests, failures>>

\* Not the code: everybody is taken for the first user.
RegisterCreateRoot(s) ==
  LET u == request[s].user
  IN  /\ Ready(s, "register", "create")
      /\ users' = users \cup {u}
      /\ IF u \in users THEN End(s) ELSE Go(s, "root")
      /\ UNCHANGED <<root, apps, member, invite, admitted, excused, requests, failures>>

\* The email is unique: the second of two creations throws.  A user who is created
\* while another one believes to be the first may become a second root.
RegisterCreate(s) ==
  LET u == request[s].user
  IN  /\ Ready(s, "register", "create")
      /\ users' = users \cup {u}
      /\ IF u \in users \/ request[s].seen # "nobody" THEN End(s) ELSE Go(s, "root")
      /\ excused' = IF request[s].seen = "nobody" /\ users # {} THEN excused \cup {<<"root", u>>} ELSE excused
      /\ UNCHANGED <<root, apps, member, invite, admitted, requests, failures>>

RegisterRoot(s) ==
  /\ Ready(s, "register", "root")
  /\ root' = root \cup {request[s].user}
  /\ End(s)
  /\ UNCHANGED <<users, apps, member, invite, admitted, excused, requests, failures>>

-----------------------------------------------------------------------------
(* ApplicationsService                                                      *)

CreateApplication(s, u, a) ==
  /\ u \in users /\ a \notin apps
  /\ \A t \in Slot : request[t].app # a
  /\ Begin(s, "create", "app", u, a, None)

CreateApp(s) ==
  /\ Ready(s, "create", "app")
  /\ apps' = apps \cup {request[s].app}
  /\ Go(s, "owner")
  /\ UNCHANGED <<users, root, member, invite, admitted, excused, requests, failures>>

\* createMembership; the application may be gone again.
CreateOwner(s) ==
  LET a == request[s].app
  IN  /\ Ready(s, "create", "owner")
      /\ member' = IF a \in apps THEN [member EXCEPT ![a][request[s].user] = "OWNER"] ELSE member
      /\ Wrote(s, Idle, a, {})
      /\ UNCHANGED <<users, root, apps, invite, admitted, excused, requests, failures>>

RemoveApplication(s, u, a) ==
  /\ a \in apps /\ HasRole(u, a, "OWNER")
  /\ Begin(s, "delete", "write", u, a, None)

\* Not the code: what belongs to the application stays.
DeleteAppOnly(s) ==
  /\ Ready(s, "delete", "write")
  /\ apps' = apps \ {request[s].app}
  /\ Wrote(s, Idle, request[s].app, User)
  /\ UNCHANGED <<users, root, member, invite, admitted, excused, requests, failures>>

\* Members and invites go with their application.
DeleteApp(s) ==
  LET a == request[s].app
  IN  /\ Ready(s, "delete", "write")
      /\ apps' = apps \ {a}
      /\ member' = [member EXCEPT ![a] = Nobody]
      /\ invite' = [v \in Invite |-> IF invite[v] # None /\ invite[v].app = a THEN None ELSE invite[v]]
      /\ Wrote(s, Idle, a, User)
      /\ UNCHANGED <<users, root, admitted, excused, requests, failures>>

-----------------------------------------------------------------------------
(* MembersService: roles                                                    *)

UpdateMemberRole(s, u, a, target, role) ==
  /\ a \in apps /\ HasRole(u, a, "OWNER")
  /\ Begin(s, IF role = "OWNER" THEN "promote" ELSE "demote", "find", u, a, target)

RemoveMember(s, u, a, target) ==
  /\ a \in apps /\ HasRole(u, a, "OWNER")
  /\ Begin(s, "remove", "find", u, a, target)

\* findMemberById; only who takes an owner away counts the owners.
FindMember(s) ==
  LET r == request[s]
      role == member[r.app][r.on]
  IN  /\ r.kind \in {"promote", "demote", "remove"} /\ r.pc = "find"
      /\ IF role = None THEN End(s)
         ELSE request' = [request EXCEPT ![s].seen = role, ![s].stale = FALSE, ![s].gone = FALSE,
                ![s].pc = IF role = "OWNER" /\ r.kind # "promote" THEN "count" ELSE "write"]
      /\ UNCHANGED <<database, admitted, excused, requests, failures>>

\* Not the code: the owner who is to go is counted too.
CountOwnersAll(s) ==
  /\ request[s].pc = "count" /\ request[s].kind \in {"demote", "remove"}
  /\ IF Owners(request[s].app) = {} THEN End(s) ELSE Go(s, "write")
  /\ UNCHANGED <<database, admitted, excused, requests, failures>>

\* countOwners: the last owner stays.
CountOwners(s) ==
  /\ request[s].pc = "count" /\ request[s].kind \in {"demote", "remove"}
  /\ IF Cardinality(Owners(request[s].app)) <= 1 THEN End(s) ELSE Go(s, "write")
  /\ UNCHANGED <<database, admitted, excused, requests, failures>>

\* The row is written by its id: it must be the one that was found.
WriteMember(s) ==
  LET r == request[s]
      row == [promote |-> "OWNER", demote |-> "MEMBER", remove |-> None]
  IN  /\ r.kind \in {"promote", "demote", "remove"} /\ r.pc = "write"
      /\ IF r.gone THEN End(s) /\ UNCHANGED <<member, excused>>
         ELSE /\ member' = [member EXCEPT ![r.app][r.on] = row[r.kind]]
              /\ Wrote(s, Idle, r.app, IF r.kind = "remove" THEN {r.on} ELSE {})
              /\ excused' = IF r.stale /\ member[r.app][r.on] = "OWNER" THEN excused \cup {<<"owners", r.app>>} ELSE excused
      /\ UNCHANGED <<users, root, apps, invite, admitted, requests, failures>>

-----------------------------------------------------------------------------
(* MembersService: invites                                                  *)

InviteMember(s, u, a, target) ==
  /\ a \in apps /\ HasRole(u, a, "OWNER")
  /\ target \in users
  /\ Begin(s, "invite", "member", u, a, target)

InviteCheckMember(s) ==
  LET r == request[s]
  IN  /\ Ready(s, "invite", "member")
      /\ IF member[r.app][r.on] # None THEN End(s) ELSE Go(s, "pending")
      /\ UNCHANGED <<database, admitted, excused, requests, failures>>

Pending(a, u) ==
  {v \in Invite : invite[v] # None /\ invite[v].app = a /\ invite[v].to = u /\ invite[v].status = "PENDING"}

\* Not the code: an invite that has expired is no obstacle.
InviteCheckPendingInTime(s) ==
  LET r == request[s]
  IN  /\ Ready(s, "invite", "pending")
      /\ IF \E v \in Pending(r.app, r.on) : ~invite[v].expired THEN End(s)
         ELSE request' = [request EXCEPT ![s].pc = "write", ![s].stale = FALSE]
      /\ UNCHANGED <<database, admitted, excused, requests, failures>>

\* An invite that has expired unnoticed is PENDING too, and in the way.
InviteCheckPending(s) ==
  LET r == request[s]
  IN  /\ Ready(s, "invite", "pending")
      /\ IF Pending(r.app, r.on) # {} THEN End(s)
         ELSE request' = [request EXCEPT ![s].pc = "write", ![s].stale = FALSE]
      /\ UNCHANGED <<database, admitted, excused, requests, failures>>

\* The id of an invite is new.
Unused(v) == invite[v] = None /\ admitted[v] = 0 /\ \A t \in Slot : request[t].on # v

CreateInvite(s) ==
  LET r == request[s]
  IN  /\ Ready(s, "invite", "write")
      /\ IF r.app \notin apps THEN End(s) /\ UNCHANGED <<invite, excused>>
         ELSE /\ \E v \in {w \in Invite : Unused(w)} :
                   invite' = [invite EXCEPT ![v] =
                     [app |-> r.app, to |-> r.on, status |-> "PENDING", expired |-> FALSE]]
              /\ excused' = IF r.stale THEN excused \cup {<<"pending", r.app, r.on>>} ELSE excused
              /\ Outdate(s, Idle, {t \in Slot : /\ request[t].kind = "invite"
                                               /\ request[t].app = r.app /\ request[t].on = r.on})
      /\ UNCHANGED <<users, root, apps, member, admitted, requests, failures>>

AcceptInvite(s, v) ==
  /\ invite[v] # None
  /\ Begin(s, "accept", "find", invite[v].to, invite[v].app, v)

DeclineInvite(s, v) ==
  /\ invite[v] # None
  /\ Begin(s, "decline", "find", invite[v].to, invite[v].app, v)

CancelInvite(s, u, v) ==
  /\ invite[v] # None /\ HasRole(u, invite[v].app, "OWNER")
  /\ Begin(s, "cancel", "find", u, invite[v].app, v)

\* Not the code: whether the invite has been processed is not asked.
FindInviteAnyStatus(s) ==
  LET r == request[s]
      next == IF r.kind = "cancel" THEN "drop" ELSE IF r.kind = "decline" THEN "mark"
              ELSE IF invite[r.on].expired THEN "expire" ELSE "join"
  IN  /\ r.kind \in {"accept", "decline", "cancel"} /\ r.pc = "find"
      /\ IF invite[r.on] = None THEN End(s)
         ELSE request' = [request EXCEPT ![s].pc = next, ![s].stale = FALSE]
      /\ UNCHANGED <<database, admitted, excused, requests, failures>>

\* findInviteByToken, findInviteById.
FindInvite(s) ==
  LET r == request[s]
      row == invite[r.on]
      next == IF r.kind = "cancel" THEN "drop" ELSE IF r.kind = "decline" THEN "mark"
              ELSE IF row.expired THEN "expire" ELSE "join"
  IN  /\ r.kind \in {"accept", "decline", "cancel"} /\ r.pc = "find"
      /\ IF row = None \/ (r.kind # "cancel" /\ row.status # "PENDING") THEN End(s)
         ELSE request' = [request EXCEPT ![s].pc = next, ![s].stale = FALSE]
      /\ UNCHANGED <<database, admitted, excused, requests, failures>>

Answers(s, v) == request[s].kind \in {"accept", "decline"} /\ request[s].on = v

AboutToMark(s, v) == Ready(s, "accept", "mark") /\ request[s].on = v

\* createMember throws for who is a member, and for an application that is gone.
AcceptJoin(s) ==
  LET r == request[s]
  IN  /\ Ready(s, "accept", "join")
      /\ IF r.app \notin apps \/ member[r.app][r.user] # None
           THEN End(s) /\ UNCHANGED <<member, admitted, excused>>
           ELSE /\ member' = [member EXCEPT ![r.app][r.user] = "MEMBER"]
                /\ Wrote(s, [r EXCEPT !.pc = "mark"], r.app, {})
                /\ admitted' = [admitted EXCEPT ![r.on] = @ + 1]
                /\ excused' = IF r.stale \/ \E t \in Slot : AboutToMark(t, r.on)
                              THEN excused \cup {<<"invite", r.on>>} ELSE excused
      /\ UNCHANGED <<users, root, apps, invite, requests, failures>>

\* updateInviteStatus, of a row that may be gone.
MarkInvite(s) ==
  LET r == request[s]
      status == IF r.kind = "decline" THEN "DECLINED" ELSE IF r.pc = "expire" THEN "EXPIRED" ELSE "ACCEPTED"
  IN  /\ r.kind \in {"accept", "decline"} /\ r.pc \in {"expire", "mark"}
      /\ invite' = IF invite[r.on] = None THEN invite ELSE [invite EXCEPT ![r.on].status = status]
      /\ excused' = IF status # "ACCEPTED" /\ r.stale THEN excused \cup {<<"invite", r.on>>} ELSE excused
      /\ Outdate(s, Idle, {t \in Slot : Answers(t, r.on)})
      /\ UNCHANGED <<users, root, apps, member, admitted, requests, failures>>

DropInvite(s) ==
  /\ Ready(s, "cancel", "drop")
  /\ invite' = [invite EXCEPT ![request[s].on] = None]
  /\ Outdate(s, Idle, {t \in Slot : Answers(t, request[s].on)})
  /\ UNCHANGED <<users, root, apps, member, admitted, excused, requests, failures>>

-----------------------------------------------------------------------------
(* The environment                                                          *)

\* Seven days pass.
Expire(v) ==
  /\ invite[v] # None /\ ~invite[v].expired
  /\ invite' = [invite EXCEPT ![v].expired = TRUE]
  /\ UNCHANGED <<users, root, apps, member, request, admitted, excused, requests, failures>>

\* A call of the database is rejected, or the process dies: the rest is not done.
Fail(s) ==
  LET r == request[s]
  IN  /\ r.kind # "none" /\ failures < MaxFailures
      /\ failures' = failures + 1
      /\ End(s)
      /\ excused' =
           CASE Ready(s, "register", "root") -> excused \cup {<<"first", r.user>>}
             [] Ready(s, "create", "owner")  -> excused \cup {<<"owners", r.app>>}
             [] Ready(s, "accept", "mark")   -> excused \cup {<<"invite", r.on>>}
             [] OTHER -> excused
      /\ UNCHANGED <<database, admitted, requests>>

Arrive(s) ==
  \/ \E u \in User : Register(s, u)
  \/ \E u \in User, a \in App : CreateApplication(s, u, a) \/ RemoveApplication(s, u, a)
  \/ \E u, target \in User, a \in App :
       \/ RemoveMember(s, u, a, target) \/ InviteMember(s, u, a, target)
       \/ \E role \in Role : UpdateMemberRole(s, u, a, target, role)
  \/ \E v \in Invite :
       AcceptInvite(s, v) \/ DeclineInvite(s, v) \/ \E u \in User : CancelInvite(s, u, v)

Handle(s) ==
  \/ RegisterCount(s) \/ RegisterEmail(s) \/ RegisterCreate(s) \/ RegisterRoot(s)
  \/ CreateApp(s) \/ CreateOwner(s) \/ DeleteApp(s)
  \/ FindMember(s) \/ CountOwners(s) \/ WriteMember(s)
  \/ InviteCheckMember(s) \/ InviteCheckPending(s) \/ CreateInvite(s)
  \/ FindInvite(s) \/ AcceptJoin(s) \/ MarkInvite(s) \/ DropInvite(s)

Next ==
  \/ \E s \in Slot : Arrive(s) \/ Handle(s) \/ Fail(s)
  \/ \E v \in Invite : Expire(v)

Spec == Init /\ [][Next]_vars

-----------------------------------------------------------------------------
(* Properties                                                               *)

Kind == {"none", "register", "create", "delete", "promote", "demote", "remove", "invite",
         "accept", "decline", "cancel"}

\* Types; and rows refer to rows that exist.
TypeOK ==
  /\ users \subseteq User /\ root \subseteq users /\ apps \subseteq App
  /\ member \in [App -> [User -> Role \cup {None}]]
  /\ \A a \in App, u \in User : member[a][u] # None => a \in apps /\ u \in users
  /\ invite \in [Invite -> InviteRow \cup {None}]
  /\ \A v \in Invite : invite[v] # None => invite[v].app \in apps /\ invite[v].to \in users
  /\ \A s \in Slot :
       /\ request[s].kind \in Kind
       /\ request[s].user \in User \cup {None} /\ request[s].app \in App \cup {None}
  /\ admitted \in [Invite -> Nat]
  /\ requests \in 0 .. MaxRequests /\ failures \in 0 .. MaxFailures

Becoming(a) == \E s \in Slot : Ready(s, "create", "owner") /\ request[s].app = a

\* Every application has an owner.  Exceptions: it is being created, its creation
\* stopped in the middle, or somebody's role was changed on readings that another
\* change had made untrue; what happens to other applications, and a change of role
\* that merely interleaves with readings, never takes the last owner.
ApplicationsHaveOwners ==
  \A a \in apps : Owners(a) # {} \/ Becoming(a) \/ <<"owners", a>> \in excused

\* The first user, and nobody else, is root: a second root counted the users while
\* the first was not yet written, and a platform with users has a root unless the
\* first registration stopped before setRoot.
OnlyTheFirstUserIsRoot ==
  /\ \A u, w \in root : u # w => <<"root", u>> \in excused \/ <<"root", w>> \in excused
  /\ (users # {} /\ root = {}) =>
       \/ \E s \in Slot : Ready(s, "register", "root")
       \/ \E u \in users : <<"first", u>> \in excused

\* An invite makes one membership at most, exactly when it is (or is about to be)
\* marked ACCEPTED; not so if the answers to it overlap, or the mark fails.
InvitesAdmitOnce ==
  \A v \in Invite : (invite[v] # None /\ <<"invite", v>> \notin excused) =>
    /\ admitted[v] <= 1
    /\ admitted[v] = 1 <=>
         \/ invite[v].status = "ACCEPTED"
         \/ \E s \in Slot : AboutToMark(s, v)

\* One invite at a time waits for an answer, expired ones included, unless two
\* invitations of the same user overlap.
OneInviteIsPending ==
  \A a \in App, u \in User : Cardinality(Pending(a, u)) <= 1 \/ <<"pending", a, u>> \in excused
=============================================================================
