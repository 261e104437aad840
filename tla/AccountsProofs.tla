---------------------------- MODULE AccountsProofs ----------------------------
(***************************************************************************)
(* Theorems about Accounts, for any people, applications, invites and      *)
(* number of requests in flight: its four invariants and its types, by one *)
(* invariant about what each request in flight has read, and when that is  *)
(* not true any more.                                                      *)
(***************************************************************************)
EXTENDS Accounts, FiniteSetTheorems, TLAPS

-----------------------------------------------------------------------------
(* The invariant                                                            *)

Pc == {"none", "count", "email", "create", "root", "app", "owner", "write", "find", "member", "pending",
       "join", "expire", "mark", "drop"}

RequestRecord ==
  [kind : Kind, pc : Pc, user : User \cup {None}, app : App \cup {None},
   on : User \cup Invite \cup {None}, seen : Role \cup {"nobody", None}, stale : BOOLEAN, gone : BOOLEAN]

DatabaseOK ==
  /\ users \subseteq User /\ root \subseteq users /\ apps \subseteq App
  /\ member \in [App -> [User -> Role \cup {None}]]
  /\ \A a \in App, u \in User : member[a][u] # None => a \in apps /\ u \in users
  /\ invite \in [Invite -> InviteRow \cup {None}]
  /\ \A v \in Invite : invite[v] # None => invite[v].app \in apps /\ invite[v].to \in users

BoundsOK ==
  /\ admitted \in [Invite -> Nat]
  /\ requests \in 0 .. MaxRequests /\ failures \in 0 .. MaxFailures

RoleKind == {"promote", "demote", "remove"}

\* Steps of a handler that leave something half done until the next one.
Rooting(r) == r.kind = "register" /\ r.pc = "root"
Owning(r)  == r.kind = "create" /\ r.pc = "owner"
Marking(r) == r.kind = "accept" /\ r.pc = "mark"

\* A request is about rows of its own kind, and about users who are registered.
Typed(r) ==
  /\ r \in RequestRecord
  /\ r.kind = "register" =>
       /\ r.user \in User
       /\ r.pc = "root" => r.user \in users
       /\ r.pc \in {"email", "create"} /\ r.seen # "nobody" => users # {}
  /\ r.kind = "create" => r.user \in users /\ r.app \in App
  /\ r.kind = "delete" => r.app \in App
  /\ r.kind \in RoleKind => r.app \in App /\ r.on \in User
  /\ r.kind = "invite" => r.app \in App /\ r.on \in users
  /\ r.kind \in {"accept", "decline", "cancel"} => r.app \in App /\ r.on \in Invite /\ r.user \in users

\* A role that was found is the role there is, unless that has changed, and an owner
\* who is to go was not the last one.
RoleFound(r) ==
  r.kind \in RoleKind /\ r.pc \in {"count", "write"} =>
    /\ ~r.gone => member[r.app][r.on] # None
    /\ ~r.stale => member[r.app][r.on] = r.seen
    /\ (~r.stale /\ r.pc = "write" /\ r.kind # "promote" /\ r.seen = "OWNER")
         => Cardinality(Owners(r.app)) > 1

\* An invite that was found waits for its answer, and none waits where none was
\* found, unless that has changed.
InviteFound(r) ==
  /\ (r.kind \in {"accept", "decline"} /\ r.pc \in {"join", "expire", "mark"} /\ ~Marking(r) /\ ~r.stale)
       => invite[r.on] = None \/ invite[r.on].status = "PENDING"
  /\ (r.kind = "invite" /\ r.pc = "write" /\ ~r.stale) => Pending(r.app, r.on) = {}

RequestsOK ==
  /\ request \in [Slot -> RequestRecord]
  /\ \A s \in Slot : LET r == request[s] IN Typed(r) /\ RoleFound(r) /\ InviteFound(r)

\* Those who are root or are about to be.
Rooted == root \cup {u \in User : \E s \in Slot : Rooting(request[s]) /\ request[s].user = u}

RootsOK ==
  /\ \A u, w \in Rooted : u # w => <<"root", u>> \in excused \/ <<"root", w>> \in excused
  /\ (users # {} /\ root = {}) =>
       \/ \E s \in Slot : Ready(s, "register", "root")
       \/ \E u \in users : <<"first", u>> \in excused

AccountsInv ==
  /\ DatabaseOK /\ BoundsOK /\ RequestsOK
  /\ ApplicationsHaveOwners /\ RootsOK /\ InvitesAdmitOnce /\ OneInviteIsPending


-----------------------------------------------------------------------------
(* Requests                                                                 *)

LEMMA Nones ==
  /\ None \notin User /\ None \notin App /\ None \notin Invite /\ None \notin InviteRow
  /\ None # "OWNER" /\ None # "MEMBER" /\ None # "nobody"
  /\ IsFiniteSet(User) /\ IsFiniteSet(Invite)
BY AccountsAssumption DEF Role

LEMMA IdleSound ==
  /\ Idle \in RequestRecord /\ Idle.kind = "none"
  /\ Typed(Idle) /\ RoleFound(Idle) /\ InviteFound(Idle)
  /\ Typed(Idle)' /\ RoleFound(Idle)' /\ InviteFound(Idle)'
  /\ ~Rooting(Idle) /\ ~Owning(Idle) /\ ~Marking(Idle)
<1>1. Idle \in RequestRecord /\ Idle.kind = "none" /\ Idle.pc = "none"
  BY DEF Idle, RequestRecord, Kind, Pc
<1>2. QED
  BY <1>1 DEF Typed, RoleFound, InviteFound, RoleKind, Rooting, Owning, Marking

\* A request that another one overtakes keeps what it has, but may be out of date.
Ages(l, k) ==
  /\ k \in RequestRecord
  /\ k.kind = l.kind /\ k.pc = l.pc /\ k.user = l.user /\ k.app = l.app /\ k.on = l.on /\ k.seen = l.seen
  /\ l.stale => k.stale
  /\ l.gone => k.gone

LEMMA AgesItself == ASSUME NEW l \in RequestRecord PROVE Ages(l, l)
BY DEF Ages

\* How the requests look when s goes on as k: by itself, ...
LEMMA GoesOn ==
  ASSUME RequestsOK, NEW s \in Slot, NEW k \in RequestRecord, request' = [request EXCEPT ![s] = k]
  PROVE  /\ request' \in [Slot -> RequestRecord] /\ request'[s] = k
         /\ \A t \in Slot \ {s} : request'[t] = request[t] /\ Ages(request[t], request'[t])
<1>1. request \in [Slot -> RequestRecord]
  BY DEF RequestsOK
<1>2. QED
  BY <1>1, AgesItself

\* ... with an invite written, ...
LEMMA OutdateMoves ==
  ASSUME RequestsOK, NEW s \in Slot, NEW k \in RequestRecord, NEW others, Outdate(s, k, others)
  PROVE  /\ request' \in [Slot -> RequestRecord] /\ request'[s] = k
         /\ \A t \in Slot \ {s} : /\ Ages(request[t], request'[t])
                                  /\ t \in others => request'[t].stale
<1>1. request \in [Slot -> RequestRecord]
  BY DEF RequestsOK
<1>2. ASSUME NEW t \in Slot \ {s}
      PROVE  Ages(request[t], request'[t]) /\ (t \in others => request'[t].stale)
  <2>1. PICK l \in RequestRecord : l = request[t]
    BY <1>1
  <2>2. PICK b : b = (l.stale \/ t \in others)
    OBVIOUS
  <2>3. request'[t] = [l EXCEPT !.stale = b]
    BY <2>1, <2>2 DEF Outdate
  <2>4. b \in BOOLEAN
    BY <2>2
  <2>5. QED
    BY <2>1, <2>2, <2>3, <2>4 DEF Ages, RequestRecord
<1>3. request' = [t \in Slot |-> request'[t]]
  BY DEF Outdate
<1>4. request'[s] = k
  BY DEF Outdate
<1>5. \A t \in Slot : request'[t] \in RequestRecord
  BY <1>2, <1>4 DEF Ages
<1>6. QED
  BY <1>2, <1>3, <1>4, <1>5

\* ... or with the members of an application written.
LEMMA WroteMoves ==
  ASSUME RequestsOK, NEW s \in Slot, NEW k \in RequestRecord, NEW a, NEW deleted, Wrote(s, k, a, deleted)
  PROVE  /\ request' \in [Slot -> RequestRecord] /\ request'[s] = k
         /\ \A t \in Slot \ {s} :
              /\ Ages(request[t], request'[t])
              /\ ChangesRoles(t, a) => request'[t].stale
              /\ ChangesRoles(t, a) /\ request[t].on \in deleted => request'[t].gone
<1>1. request \in [Slot -> RequestRecord]
  BY DEF RequestsOK
<1>2. ASSUME NEW t \in Slot \ {s}
      PROVE  /\ Ages(request[t], request'[t])
             /\ ChangesRoles(t, a) => request'[t].stale
             /\ ChangesRoles(t, a) /\ request[t].on \in deleted => request'[t].gone
  <2>1. PICK l \in RequestRecord : l = request[t]
    BY <1>1
  <2>2. PICK b : b = (l.gone \/ l.on \in deleted)
    OBVIOUS
  <2>3. request'[t] = IF ~ChangesRoles(t, a) THEN l ELSE [l EXCEPT !.stale = TRUE, !.gone = b]
    BY <2>1, <2>2 DEF Wrote
  <2>4. b \in BOOLEAN
    BY <2>2
  <2>5. CASE ~ChangesRoles(t, a)
    BY <2>1, <2>3, <2>5, AgesItself
  <2>6. CASE ChangesRoles(t, a)
    BY <2>1, <2>2, <2>3, <2>4, <2>6 DEF Ages, RequestRecord
  <2>7. QED
    BY <2>5, <2>6
<1>3. request' = [t \in Slot |-> request'[t]]
  BY DEF Wrote
<1>4. request'[s] = k
  BY DEF Wrote
<1>5. \A t \in Slot : request'[t] \in RequestRecord
  BY <1>2, <1>4 DEF Ages
<1>6. QED
  BY <1>2, <1>3, <1>4, <1>5

LEMMA TypedAges ==
  ASSUME NEW l, NEW k, Typed(l), Ages(l, k), users \subseteq users'
  PROVE  Typed(k)'
BY DEF Typed, Ages

LEMMA RoleAges ==
  ASSUME NEW l, NEW k, RoleFound(l), Ages(l, k), member' = member
  PROVE  RoleFound(k)'
<1>1. Owners(k.app)' = Owners(l.app)
  BY DEF Owners, Ages
<1>2. QED
  BY <1>1 DEF RoleFound, Ages

\* No invite is new, and those that are left are what they were.
FewerInvites ==
  \A v \in Invite : invite'[v] = invite[v] \/ invite'[v] = None

LEMMA InviteAges ==
  ASSUME NEW l, NEW k, Typed(l), InviteFound(l), Ages(l, k), FewerInvites
  PROVE  InviteFound(k)'
<1>1. Pending(k.app, k.on)' \subseteq Pending(l.app, l.on)
  BY DEF Pending, FewerInvites, Ages
<1>2. (k.kind \in {"accept", "decline"} /\ k.pc \in {"join", "expire", "mark"} /\ ~Marking(k) /\ ~k.stale)
        => invite'[k.on] = None \/ invite'[k.on].status = "PENDING"
  BY DEF InviteFound, Ages, Typed, FewerInvites, Marking
<1>3. (k.kind = "invite" /\ k.pc = "write" /\ ~k.stale) => Pending(k.app, k.on)' = {}
  BY <1>1 DEF InviteFound, Ages
<1>4. QED
  BY <1>2, <1>3 DEF InviteFound, Marking

\* A request moves; the others only age.
LEMMA RequestsMove ==
  ASSUME RequestsOK, NEW s \in Slot, NEW k \in RequestRecord, request' \in [Slot -> RequestRecord],
         request'[s] = k, \A t \in Slot \ {s} : Ages(request[t], request'[t]),
         users \subseteq users', Typed(k)', RoleFound(k)', InviteFound(k)',
         \A t \in Slot \ {s} : \A r \in RequestRecord :
           r = request'[t] => RoleFound(r)' /\ InviteFound(r)'
  PROVE  RequestsOK'
<1>1. ASSUME NEW t \in Slot, NEW r, r = request'[t]
      PROVE  Typed(r)' /\ RoleFound(r)' /\ InviteFound(r)'
  <2>1. CASE t = s
    BY <1>1, <2>1
  <2>2. CASE t # s
    <3>1. PICK l : l = request[t]
      OBVIOUS
    <3>2. Typed(l) /\ Ages(l, r)
      BY <1>1, <2>2, <3>1 DEF RequestsOK
    <3>3. Typed(r)'
      BY <3>2, TypedAges
    <3>4. r \in RequestRecord
      BY <1>1
    <3>5. QED
      BY <1>1, <2>2, <3>3, <3>4
  <2>3. QED
    BY <2>1, <2>2
<1>2. QED
  BY <1>1 DEF RequestsOK, Typed, RoleFound, InviteFound


-----------------------------------------------------------------------------
(* Handlers that only read                                                  *)

\* The request that a step is about.
LEMMA TheRequest ==
  ASSUME AccountsInv, NEW s \in Slot
  PROVE  /\ request[s] \in RequestRecord
         /\ Typed(request[s]) /\ RoleFound(request[s]) /\ InviteFound(request[s])
BY DEF AccountsInv, RequestsOK

\* What a request was in the middle of, or nothing was.
LEMMA QuietKeeps ==
  ASSUME AccountsInv, NEW s \in Slot, NEW k \in RequestRecord, NEW l, l = request[s],
         request' = [request EXCEPT ![s] = k],
         UNCHANGED <<database, admitted>>, excused \subseteq excused',
         requests' \in 0 .. MaxRequests, failures' \in 0 .. MaxFailures,
         Typed(k), RoleFound(k), InviteFound(k), ~Rooting(k), ~Owning(k), ~Marking(k),
         Rooting(l) => <<"first", l.user>> \in excused',
         Owning(l)  => <<"owners", l.app>> \in excused',
         Marking(l) => <<"invite", l.on>> \in excused'
  PROVE  AccountsInv'
<1>1. /\ request' \in [Slot -> RequestRecord] /\ request'[s] = k
      /\ \A t \in Slot \ {s} : request'[t] = request[t] /\ Ages(request[t], request'[t])
  BY GoesOn DEF AccountsInv
<1>2. /\ users' = users /\ root' = root /\ apps' = apps /\ member' = member /\ invite' = invite
      /\ admitted' = admitted
  BY DEF database
<1>3. DatabaseOK' /\ BoundsOK'
  BY <1>2 DEF AccountsInv, DatabaseOK, BoundsOK
<1>4. RequestsOK'
  <2>1. Typed(k)' /\ RoleFound(k)' /\ InviteFound(k)'
    BY <1>2 DEF Typed, RoleFound, InviteFound, Owners, Pending, Marking
  <2>2. \A t \in Slot \ {s} : \A r \in RequestRecord :
          r = request'[t] => RoleFound(r)' /\ InviteFound(r)'
    <3>1. ASSUME NEW t \in Slot \ {s}, NEW r \in RequestRecord, r = request'[t]
          PROVE  RoleFound(r)' /\ InviteFound(r)'
      <4>1. RoleFound(r) /\ InviteFound(r)
        BY <1>1, <3>1, TheRequest
      <4>2. QED
        BY <1>2, <4>1 DEF RoleFound, InviteFound, Owners, Pending, Marking
    <3>2. QED
      BY <3>1
  <2>3. QED
    BY <1>1, <1>2, <2>1, <2>2, RequestsMove DEF AccountsInv
<1>5. ApplicationsHaveOwners'
  <2> SUFFICES ASSUME NEW a \in apps PROVE (Owners(a) # {} \/ Becoming(a) \/ <<"owners", a>> \in excused)'
    BY <1>2 DEF ApplicationsHaveOwners
  <2>1. Owners(a)' = Owners(a)
    BY <1>2 DEF Owners
  <2>2. Owners(a) # {} \/ Becoming(a) \/ <<"owners", a>> \in excused
    BY DEF AccountsInv, ApplicationsHaveOwners
  <2>3. Becoming(a) => Becoming(a)' \/ <<"owners", a>> \in excused'
    BY <1>1 DEF Becoming, Ready, Owning
  <2>4. QED
    BY <2>1, <2>2, <2>3
<1>6. RootsOK'
  <2>1. Rooted' \subseteq Rooted
    BY <1>1, <1>2 DEF Rooted, Rooting
  <2>2. \A u, w \in Rooted' : u # w => <<"root", u>> \in excused' \/ <<"root", w>> \in excused'
    BY <2>1 DEF AccountsInv, RootsOK
  <2>3. ASSUME users' # {}, root' = {}
        PROVE  \/ \E t \in Slot : Ready(t, "register", "root")'
               \/ \E u \in users' : <<"first", u>> \in excused'
    <3>1. \/ \E t \in Slot : Ready(t, "register", "root")
          \/ \E u \in users : <<"first", u>> \in excused
      BY <1>2, <2>3 DEF AccountsInv, RootsOK
    <3>2. Ready(s, "register", "root") => l.user \in users /\ <<"first", l.user>> \in excused'
      BY TheRequest DEF Typed, Ready, Rooting
    <3>3. \A t \in Slot \ {s} : Ready(t, "register", "root") => Ready(t, "register", "root")'
      BY <1>1 DEF Ready
    <3>4. QED
      BY <1>2, <3>1, <3>2, <3>3
  <2>4. QED
    BY <2>2, <2>3 DEF RootsOK
<1>7. InvitesAdmitOnce'
  <2> SUFFICES ASSUME NEW v \in Invite, invite[v] # None, <<"invite", v>> \notin excused'
               PROVE  /\ admitted[v] <= 1
                      /\ admitted[v] = 1 <=> \/ invite[v].status = "ACCEPTED"
                                             \/ \E t \in Slot : AboutToMark(t, v)'
    BY <1>2 DEF InvitesAdmitOnce
  <2>1. /\ admitted[v] <= 1
        /\ admitted[v] = 1 <=> \/ invite[v].status = "ACCEPTED"
                               \/ \E t \in Slot : AboutToMark(t, v)
    BY DEF AccountsInv, InvitesAdmitOnce
  <2>2. \A t \in Slot : AboutToMark(t, v) <=> AboutToMark(t, v)'
    BY <1>1 DEF AboutToMark, Ready, Marking
  <2>3. QED
    BY <2>1, <2>2
<1>8. OneInviteIsPending'
  <2>1. \A a \in App, u \in User : Pending(a, u)' = Pending(a, u)
    BY <1>2 DEF Pending
  <2>2. QED
    BY <2>1 DEF AccountsInv, OneInviteIsPending
<1>9. QED
  BY <1>3, <1>4, <1>5, <1>6, <1>7, <1>8 DEF AccountsInv


\* A request ends without a write, at a step that owes none.
LEMMA EndKeeps ==
  ASSUME AccountsInv, NEW s \in Slot, End(s),
         UNCHANGED <<database, admitted, excused, requests, failures>>,
         ~Rooting(request[s]), ~Owning(request[s]), ~Marking(request[s])
  PROVE  AccountsInv'
<1>1. PICK l : l = request[s]
  OBVIOUS
<1>2. request' = [request EXCEPT ![s] = Idle] /\ excused \subseteq excused'
  BY DEF End
<1>3. requests' \in 0 .. MaxRequests /\ failures' \in 0 .. MaxFailures
  BY DEF AccountsInv, BoundsOK
<1>4. UNCHANGED <<database, admitted>>
  OBVIOUS
<1>5. QED
  BY <1>1, <1>2, <1>3, <1>4, IdleSound, QuietKeeps

\* A request goes on without a write.
LEMMA GoKeeps ==
  ASSUME AccountsInv, NEW s \in Slot, NEW k \in RequestRecord, request' = [request EXCEPT ![s] = k],
         UNCHANGED <<database, admitted, excused, requests, failures>>,
         Typed(k), RoleFound(k), InviteFound(k), ~Rooting(k), ~Owning(k), ~Marking(k),
         ~Rooting(request[s]), ~Owning(request[s]), ~Marking(request[s])
  PROVE  AccountsInv'
<1>1. PICK l : l = request[s]
  OBVIOUS
<1>2. requests' \in 0 .. MaxRequests /\ failures' \in 0 .. MaxFailures /\ excused \subseteq excused'
  BY DEF AccountsInv, BoundsOK
<1>3. UNCHANGED <<database, admitted>>
  OBVIOUS
<1>4. QED
  BY <1>1, <1>2, <1>3, QuietKeeps

LEMMA BeginKeeps ==
  ASSUME AccountsInv, NEW s \in Slot, NEW kind \in Kind, NEW pc \in Pc, NEW u \in User,
         NEW a \in App \cup {None}, NEW on \in User \cup Invite \cup {None}, Begin(s, kind, pc, u, a, on),
         \/ kind = "register" /\ pc = "count"
         \/ kind = "create" /\ pc = "app" /\ u \in users /\ a \in App
         \/ kind = "delete" /\ pc = "write" /\ a \in App
         \/ kind \in RoleKind /\ pc = "find" /\ a \in App /\ on \in User
         \/ kind = "invite" /\ pc = "member" /\ a \in App /\ on \in users
         \/ kind \in {"accept", "decline", "cancel"} /\ pc = "find"
            /\ a \in App /\ on \in Invite /\ u \in users
  PROVE  AccountsInv'
<1>1. PICK l : l = request[s]
  OBVIOUS
<1>2. PICK k : k = [Idle EXCEPT !.kind = kind, !.pc = pc, !.user = u, !.app = a, !.on = on]
  OBVIOUS
<1>3. /\ l.kind = "none" /\ requests < MaxRequests /\ requests' = requests + 1
      /\ request' = [request EXCEPT ![s] = k]
      /\ UNCHANGED <<database, admitted>> /\ excused' = excused /\ failures' = failures
  BY <1>1, <1>2 DEF Begin
<1>4. /\ k \in RequestRecord /\ k.kind = kind /\ k.pc = pc /\ k.user = u /\ k.app = a /\ k.on = on
  BY <1>2, IdleSound DEF RequestRecord
<1>5. Typed(k) /\ RoleFound(k) /\ InviteFound(k) /\ ~Rooting(k) /\ ~Owning(k) /\ ~Marking(k)
  BY <1>4 DEF Typed, RoleFound, InviteFound, Rooting, Owning, Marking, RoleKind
<1>6. requests' \in 0 .. MaxRequests /\ failures' \in 0 .. MaxFailures
  BY <1>3, AccountsAssumption DEF AccountsInv, BoundsOK
<1>7. ~Rooting(l) /\ ~Owning(l) /\ ~Marking(l)
  BY <1>3 DEF Rooting, Owning, Marking
<1>8. QED
  BY <1>1, <1>3, <1>4, <1>5, <1>6, <1>7, QuietKeeps

LEMMA ArriveKeeps ==
  ASSUME AccountsInv, NEW s \in Slot, Arrive(s)
  PROVE  AccountsInv'
<1>1. users \subseteq User /\ apps \subseteq App /\ root \subseteq users
  BY DEF AccountsInv, DatabaseOK
<1>2. ASSUME NEW u \in User, Register(s, u) PROVE AccountsInv'
  BY <1>2, BeginKeeps DEF Register, Kind, Pc
<1>3. ASSUME NEW u \in User, NEW a \in App, CreateApplication(s, u, a) PROVE AccountsInv'
  BY <1>3, BeginKeeps DEF CreateApplication, Kind, Pc
<1>4. ASSUME NEW u \in User, NEW a \in App, RemoveApplication(s, u, a) PROVE AccountsInv'
  BY <1>4, BeginKeeps DEF RemoveApplication, Kind, Pc
<1>5. ASSUME NEW u \in User, NEW a \in App, NEW target \in User, RemoveMember(s, u, a, target)
      PROVE  AccountsInv'
  BY <1>5, BeginKeeps DEF RemoveMember, Kind, Pc, RoleKind
<1>6. ASSUME NEW u \in User, NEW a \in App, NEW target \in User, InviteMember(s, u, a, target)
      PROVE  AccountsInv'
  BY <1>6, BeginKeeps DEF InviteMember, Kind, Pc
<1>7. ASSUME NEW u \in User, NEW a \in App, NEW target \in User, NEW role \in Role,
             UpdateMemberRole(s, u, a, target, role)
      PROVE  AccountsInv'
  <2>1. PICK kind \in RoleKind : Begin(s, kind, "find", u, a, target)
    BY <1>7 DEF UpdateMemberRole, RoleKind
  <2>2. QED
    BY <2>1, BeginKeeps DEF Kind, Pc, RoleKind
<1>8. ASSUME NEW v \in Invite, AcceptInvite(s, v) \/ DeclineInvite(s, v) PROVE AccountsInv'
  <2>1. invite[v] # None
    BY <1>8 DEF AcceptInvite, DeclineInvite
  <2>2. PICK u \in User, a \in App : u = invite[v].to /\ a = invite[v].app /\ u \in users
    BY <1>1, <2>1 DEF AccountsInv, DatabaseOK
  <2>3. PICK kind \in {"accept", "decline"} : Begin(s, kind, "find", u, a, v)
    BY <1>8, <2>2 DEF AcceptInvite, DeclineInvite
  <2>4. QED
    BY <2>2, <2>3, BeginKeeps DEF Kind, Pc
<1>9. ASSUME NEW v \in Invite, NEW u \in User, CancelInvite(s, u, v) PROVE AccountsInv'
  <2>1. PICK a \in App : a = invite[v].app
    BY <1>1, <1>9 DEF CancelInvite, AccountsInv, DatabaseOK
  <2>2. u \in users
    BY <1>1, <1>9, <2>1 DEF CancelInvite, HasRole, AccountsInv, DatabaseOK
  <2>3. QED
    BY <1>9, <2>1, <2>2, BeginKeeps DEF CancelInvite, Kind, Pc
<1>10. QED
  BY <1>2, <1>3, <1>4, <1>5, <1>6, <1>7, <1>8, <1>9 DEF Arrive

\* A request at another step of its handler.
LEMMA AtStep ==
  ASSUME NEW l \in RequestRecord, NEW pc \in Pc, NEW k, k = [l EXCEPT !.pc = pc]
  PROVE  /\ k \in RequestRecord /\ k.pc = pc
         /\ k.kind = l.kind /\ k.user = l.user /\ k.app = l.app /\ k.on = l.on /\ k.seen = l.seen
         /\ (k.stale <=> l.stale) /\ (k.gone <=> l.gone)
BY DEF RequestRecord

LEMMA RegisterReadKeeps ==
  ASSUME AccountsInv, NEW s \in Slot, RegisterCount(s) \/ RegisterEmail(s)
  PROVE  AccountsInv'
<1>1. PICK l : l = request[s]
  OBVIOUS
<1>2. /\ l \in RequestRecord /\ Typed(l) /\ request \in [Slot -> RequestRecord]
  BY <1>1, TheRequest DEF AccountsInv, RequestsOK
<1>3. l.kind = "register" /\ l.pc \in {"count", "email"}
  BY <1>1 DEF RegisterCount, RegisterEmail, Ready
<1>4. ~Rooting(l) /\ ~Owning(l) /\ ~Marking(l)
  BY <1>3 DEF Rooting, Owning, Marking
<1>5. UNCHANGED <<database, admitted, excused, requests, failures>>
  BY DEF RegisterCount, RegisterEmail
<1>6. CASE End(s)
  BY <1>1, <1>4, <1>5, <1>6, EndKeeps
<1>7. CASE ~End(s) /\ RegisterCount(s)
  <2>1. PICK seen : seen = IF users = {} THEN "nobody" ELSE None
    OBVIOUS
  <2>2. PICK k : k = [l EXCEPT !.pc = "email", !.seen = seen]
    OBVIOUS
  <2>3. request' = [request EXCEPT ![s] = k]
    BY <1>1, <1>2, <1>7, <2>1, <2>2 DEF RegisterCount
  <2>4. seen \in Role \cup {"nobody", None} /\ (seen # "nobody" => users # {}) /\ "email" \in Pc
    BY <2>1 DEF Pc
  <2>5. k \in RequestRecord /\ k.kind = "register" /\ k.pc = "email" /\ k.seen = seen /\ k.user = l.user
    BY <1>2, <1>3, <2>2, <2>4 DEF RequestRecord
  <2>6. Typed(k) /\ RoleFound(k) /\ InviteFound(k) /\ ~Rooting(k) /\ ~Owning(k) /\ ~Marking(k)
    BY <1>2, <1>3, <2>4, <2>5 DEF Typed, RoleFound, InviteFound, Rooting, Owning, Marking, RoleKind
  <2>7. QED
    BY <1>1, <1>4, <1>5, <2>3, <2>5, <2>6, GoKeeps
<1>8. CASE ~End(s) /\ RegisterEmail(s)
  <2>1. PICK k : k = [l EXCEPT !.pc = "create"]
    OBVIOUS
  <2>2. request' = [request EXCEPT ![s] = k] /\ l.pc = "email"
    BY <1>1, <1>2, <1>8, <2>1 DEF RegisterEmail, Go, Ready
  <2>3. k \in RequestRecord /\ k.kind = "register" /\ k.pc = "create" /\ k.seen = l.seen /\ k.user = l.user
    BY <1>2, <1>3, <2>1, AtStep DEF Pc
  <2>4. Typed(k) /\ RoleFound(k) /\ InviteFound(k) /\ ~Rooting(k) /\ ~Owning(k) /\ ~Marking(k)
    BY <1>2, <1>3, <2>2, <2>3 DEF Typed, RoleFound, InviteFound, Rooting, Owning, Marking, RoleKind
  <2>5. QED
    BY <1>1, <1>4, <1>5, <2>2, <2>3, <2>4, GoKeeps
<1>9. QED
  BY <1>6, <1>7, <1>8

LEMMA RoleReadKeeps ==
  ASSUME AccountsInv, NEW s \in Slot, FindMember(s) \/ CountOwners(s)
  PROVE  AccountsInv'
<1>1. PICK l : l = request[s]
  OBVIOUS
<1>2. /\ l \in RequestRecord /\ Typed(l) /\ RoleFound(l) /\ request \in [Slot -> RequestRecord]
  BY <1>1, TheRequest DEF AccountsInv, RequestsOK
<1>3. l.kind \in RoleKind /\ l.pc \in {"find", "count"} /\ l.app \in App /\ l.on \in User
  BY <1>1, <1>2 DEF FindMember, CountOwners, RoleKind, Typed
<1>4. ~Rooting(l) /\ ~Owning(l) /\ ~Marking(l)
  BY <1>3 DEF Rooting, Owning, Marking, RoleKind
<1>5. UNCHANGED <<database, admitted, excused, requests, failures>>
  BY DEF FindMember, CountOwners
<1>6. CASE End(s)
  BY <1>1, <1>4, <1>5, <1>6, EndKeeps
<1>7. CASE ~End(s) /\ FindMember(s)
  <2>1. PICK role : role = member[l.app][l.on]
    OBVIOUS
  <2>2. PICK pc : pc = IF role = "OWNER" /\ l.kind # "promote" THEN "count" ELSE "write"
    OBVIOUS
  <2>3. PICK k : k = [l EXCEPT !.seen = role, !.stale = FALSE, !.gone = FALSE, !.pc = pc]
    OBVIOUS
  <2>4. request' = [request EXCEPT ![s] = k] /\ role # None
    BY <1>1, <1>2, <1>7, <2>1, <2>2, <2>3 DEF FindMember
  <2>5. role \in Role /\ pc \in Pc /\ pc \in {"count", "write"}
    BY <1>3, <2>1, <2>2, <2>4 DEF AccountsInv, DatabaseOK, Pc
  <2>6. /\ k \in RequestRecord /\ k.kind = l.kind /\ k.pc = pc /\ k.seen = role /\ k.user = l.user
        /\ k.app = l.app /\ k.on = l.on
    BY <1>2, <2>3, <2>5 DEF RequestRecord
  <2>7. Typed(k) /\ InviteFound(k) /\ ~Rooting(k) /\ ~Owning(k) /\ ~Marking(k)
    BY <1>3, <2>6 DEF Typed, InviteFound, Rooting, Owning, Marking, RoleKind
  <2>8. RoleFound(k)
    BY <2>1, <2>2, <2>4, <2>6 DEF RoleFound
  <2>9. QED
    BY <1>1, <1>4, <1>5, <2>4, <2>6, <2>7, <2>8, GoKeeps
<1>8. CASE ~End(s) /\ CountOwners(s)
  <2>1. PICK k : k = [l EXCEPT !.pc = "write"]
    OBVIOUS
  <2>2. /\ request' = [request EXCEPT ![s] = k] /\ l.pc = "count"
        /\ ~(Cardinality(Owners(l.app)) <= 1)
    BY <1>1, <1>2, <1>8, <2>1 DEF CountOwners, Go
  <2>3. /\ k \in RequestRecord /\ k.kind = l.kind /\ k.pc = "write" /\ k.seen = l.seen /\ k.user = l.user
        /\ k.app = l.app /\ k.on = l.on /\ (k.stale <=> l.stale) /\ (k.gone <=> l.gone)
    BY <1>2, <2>1, AtStep DEF Pc
  <2>4. Typed(k) /\ InviteFound(k) /\ ~Rooting(k) /\ ~Owning(k) /\ ~Marking(k)
    BY <1>3, <2>3 DEF Typed, InviteFound, Rooting, Owning, Marking, RoleKind
  <2>5. Cardinality(Owners(l.app)) > 1
    <3>1. Cardinality(Owners(l.app)) \in Nat
      BY Nones, FS_Subset, FS_CardinalityType DEF Owners
    <3>2. QED
      BY <2>2, <3>1
  <2>6. RoleFound(k)
    BY <1>2, <1>3, <2>2, <2>3, <2>5 DEF RoleFound
  <2>7. QED
    BY <1>1, <1>4, <1>5, <2>2, <2>3, <2>4, <2>6, GoKeeps
<1>9. QED
  BY <1>6, <1>7, <1>8

LEMMA InviteReadKeeps ==
  ASSUME AccountsInv, NEW s \in Slot,
         InviteCheckMember(s) \/ InviteCheckPending(s) \/ FindInvite(s)
  PROVE  AccountsInv'
<1>1. PICK l : l = request[s]
  OBVIOUS
<1>2. /\ l \in RequestRecord /\ Typed(l) /\ request \in [Slot -> RequestRecord]
  BY <1>1, TheRequest DEF AccountsInv, RequestsOK
<1>3. ~Rooting(l) /\ ~Owning(l) /\ ~Marking(l)
  BY <1>1 DEF InviteCheckMember, InviteCheckPending, FindInvite, Ready, Rooting, Owning, Marking
<1>4. UNCHANGED <<database, admitted, excused, requests, failures>>
  BY DEF InviteCheckMember, InviteCheckPending, FindInvite
<1>5. CASE End(s)
  BY <1>1, <1>3, <1>4, <1>5, EndKeeps
<1>6. ASSUME NEW k, request' = [request EXCEPT ![s] = k], k \in RequestRecord, k.kind = l.kind,
             k.kind \in {"invite", "accept", "decline", "cancel"}, ~Marking(k),
             k.user = l.user, k.app = l.app, k.on = l.on, InviteFound(k)
      PROVE  AccountsInv'
  <2>1. Typed(k) /\ RoleFound(k) /\ ~Rooting(k) /\ ~Owning(k)
    BY <1>2, <1>6 DEF Typed, RoleFound, Rooting, Owning, RoleKind
  <2>2. QED
    BY <1>1, <1>3, <1>4, <1>6, <2>1, GoKeeps
<1>7. CASE ~End(s) /\ InviteCheckMember(s)
  <2>1. PICK k : k = [l EXCEPT !.pc = "pending"]
    OBVIOUS
  <2>2. request' = [request EXCEPT ![s] = k] /\ l.kind = "invite"
    BY <1>1, <1>7, <2>1 DEF InviteCheckMember, Go, Ready
  <2>3. /\ k \in RequestRecord /\ k.kind = l.kind /\ k.pc = "pending" /\ k.user = l.user
        /\ k.app = l.app /\ k.on = l.on
    BY <1>2, <2>1, AtStep DEF Pc
  <2>4. InviteFound(k) /\ ~Marking(k)
    BY <2>2, <2>3 DEF InviteFound, Marking
  <2>5. QED
    BY <1>6, <2>2, <2>3, <2>4
<1>8. CASE ~End(s) /\ InviteCheckPending(s)
  <2>1. PICK k : k = [l EXCEPT !.pc = "write", !.stale = FALSE]
    OBVIOUS
  <2>2. request' = [request EXCEPT ![s] = k] /\ l.kind = "invite" /\ Pending(l.app, l.on) = {}
    BY <1>1, <1>2, <1>8, <2>1 DEF InviteCheckPending, Ready
  <2>3. /\ k \in RequestRecord /\ k.kind = l.kind /\ k.pc = "write" /\ k.user = l.user
        /\ k.app = l.app /\ k.on = l.on
    BY <1>2, <2>1 DEF RequestRecord, Pc
  <2>4. InviteFound(k) /\ ~Marking(k)
    BY <2>2, <2>3 DEF InviteFound, Marking
  <2>5. QED
    BY <1>6, <2>2, <2>3, <2>4
<1>9. CASE ~End(s) /\ FindInvite(s)
  <2>1. PICK row : row = invite[l.on]
    OBVIOUS
  <2>2. PICK pc : pc = IF l.kind = "cancel" THEN "drop" ELSE IF l.kind = "decline" THEN "mark"
                       ELSE IF row.expired THEN "expire" ELSE "join"
    OBVIOUS
  <2>3. PICK k : k = [l EXCEPT !.pc = pc, !.stale = FALSE]
    OBVIOUS
  <2>4. /\ request' = [request EXCEPT ![s] = k] /\ l.kind \in {"accept", "decline", "cancel"}
        /\ row # None /\ (l.kind # "cancel" => row.status = "PENDING")
    BY <1>1, <1>2, <1>9, <2>1, <2>2, <2>3 DEF FindInvite
  <2>5. pc \in {"drop", "mark", "expire", "join"} /\ pc \in Pc /\ (pc = "mark" => l.kind = "decline")
    BY <2>2, <2>4 DEF Pc
  <2>6. /\ k \in RequestRecord /\ k.kind = l.kind /\ k.pc = pc /\ k.user = l.user
        /\ k.app = l.app /\ k.on = l.on
    BY <1>2, <2>3, <2>5 DEF RequestRecord
  <2>7. InviteFound(k) /\ ~Marking(k)
    BY <2>1, <2>4, <2>5, <2>6 DEF InviteFound, Marking
  <2>8. QED
    BY <1>6, <2>4, <2>6, <2>7
<1>10. QED
  BY <1>5, <1>7, <1>8, <1>9

LEMMA FailKeeps ==
  ASSUME AccountsInv, NEW s \in Slot, Fail(s)
  PROVE  AccountsInv'
<1>1. PICK l : l = request[s]
  OBVIOUS
<1>2. /\ failures < MaxFailures /\ failures' = failures + 1 /\ requests' = requests
      /\ request' = [request EXCEPT ![s] = Idle] /\ UNCHANGED <<database, admitted>>
  BY DEF Fail, End
<1>3. requests' \in 0 .. MaxRequests /\ failures' \in 0 .. MaxFailures
  BY <1>2, AccountsAssumption DEF AccountsInv, BoundsOK
<1>4. /\ excused \subseteq excused'
      /\ Rooting(l) => <<"first", l.user>> \in excused'
      /\ Owning(l)  => <<"owners", l.app>> \in excused'
      /\ Marking(l) => <<"invite", l.on>> \in excused'
  BY <1>1 DEF Fail, Ready, Rooting, Owning, Marking
<1>5. QED
  BY <1>1, <1>2, <1>3, <1>4, IdleSound, QuietKeeps


-----------------------------------------------------------------------------
(* Handlers that write: what they leave alone                               *)

\* Request s was l and is k; the others age.
Moves(s, l, k) ==
  /\ l = request[s] /\ k \in RequestRecord
  /\ request' \in [Slot -> RequestRecord] /\ request'[s] = k
  /\ \A t \in Slot \ {s} : Ages(request[t], request'[t])

LEMMA AgesKind ==
  ASSUME NEW l, NEW k, Ages(l, k)
  PROVE  /\ Rooting(k) <=> Rooting(l)
         /\ Owning(k) <=> Owning(l)
         /\ Marking(k) <=> Marking(l)
BY DEF Ages, Rooting, Owning, Marking

LEMMA RootsKept ==
  ASSUME AccountsInv, NEW s \in Slot, NEW l, NEW k, Moves(s, l, k), UNCHANGED <<users, root>>,
         excused \subseteq excused', ~Rooting(l), ~Rooting(k)
  PROVE  RootsOK'
<1>1. \A t \in Slot : /\ Rooting(request[t]) <=> Rooting(request'[t])
                      /\ Rooting(request[t]) => request'[t].user = request[t].user
  BY AgesKind DEF Moves, Ages
<1>2. Rooted' = Rooted
  BY <1>1 DEF Rooted, Rooting
<1>3. (\E t \in Slot : Ready(t, "register", "root")) => (\E t \in Slot : Ready(t, "register", "root"))'
  BY <1>1 DEF Ready, Rooting
<1>4. QED
  BY <1>2, <1>3 DEF AccountsInv, RootsOK

LEMMA OwnersKept ==
  ASSUME AccountsInv, NEW s \in Slot, NEW l, NEW k, Moves(s, l, k), UNCHANGED <<apps, member>>,
         excused \subseteq excused', ~Owning(l), ~Owning(k)
  PROVE  ApplicationsHaveOwners'
<1>1. \A t \in Slot : /\ Owning(request[t]) <=> Owning(request'[t])
                      /\ Owning(request[t]) => request'[t].app = request[t].app
  BY AgesKind DEF Moves, Ages
<1>2. \A a \in apps : /\ Owners(a)' = Owners(a)
                      /\ Becoming(a) => Becoming(a)'
  BY <1>1 DEF Owners, Becoming, Ready, Owning
<1>3. QED
  BY <1>2 DEF AccountsInv, ApplicationsHaveOwners

\* Who is about to mark an invite is so after a step that is not about that.
LEMMA MarkersKept ==
  ASSUME NEW s \in Slot, NEW l, NEW k, Moves(s, l, k), ~Marking(l), ~Marking(k), NEW v, NEW t \in Slot
  PROVE  AboutToMark(t, v) <=> AboutToMark(t, v)'
<1>1. /\ Marking(request[t]) <=> Marking(request'[t])
      /\ Marking(request[t]) => request'[t].on = request[t].on
  BY AgesKind DEF Moves, Ages
<1>2. QED
  BY <1>1 DEF AboutToMark, Ready, Marking

LEMMA OtherMarkers ==
  ASSUME NEW s \in Slot, NEW l, NEW k, Moves(s, l, k), NEW v, NEW t \in Slot \ {s}
  PROVE  AboutToMark(t, v) <=> AboutToMark(t, v)'
<1>1. Ages(request[t], request'[t])
  BY DEF Moves
<1>2. request'[t].kind = request[t].kind /\ request'[t].pc = request[t].pc /\ request'[t].on = request[t].on
  BY <1>1 DEF Ages
<1>3. QED
  BY <1>2 DEF AboutToMark, Ready

\* No more invites wait for an answer than before.
LEMMA PendingKept ==
  ASSUME AccountsInv, excused \subseteq excused',
         \A a \in App, u \in User : <<"pending", a, u>> \notin excused' => Pending(a, u)' \subseteq Pending(a, u)
  PROVE  OneInviteIsPending'
<1> SUFFICES ASSUME NEW a \in App, NEW u \in User, <<"pending", a, u>> \notin excused'
             PROVE  Cardinality(Pending(a, u)') <= 1
  BY DEF OneInviteIsPending
<1>1. Cardinality(Pending(a, u)) <= 1
  BY DEF AccountsInv, OneInviteIsPending
<1>2. IsFiniteSet(Pending(a, u))
  BY Nones, FS_Subset DEF Pending
<1>3. /\ Cardinality(Pending(a, u)) \in Nat /\ Cardinality(Pending(a, u)') \in Nat
      /\ Cardinality(Pending(a, u)') <= Cardinality(Pending(a, u))
  BY <1>2, FS_Subset, FS_CardinalityType
<1>4. QED
  BY <1>1, <1>3

LEMMA InvitesKept ==
  ASSUME AccountsInv, NEW s \in Slot, NEW l, NEW k, Moves(s, l, k), FewerInvites, admitted' = admitted,
         excused \subseteq excused', ~Marking(l), ~Marking(k)
  PROVE  InvitesAdmitOnce' /\ OneInviteIsPending'
<1>1. InvitesAdmitOnce'
  <2> SUFFICES ASSUME NEW v \in Invite, invite'[v] # None, <<"invite", v>> \notin excused'
               PROVE  /\ admitted'[v] <= 1
                      /\ admitted'[v] = 1 <=> \/ invite'[v].status = "ACCEPTED"
                                              \/ \E t \in Slot : AboutToMark(t, v)'
    BY DEF InvitesAdmitOnce
  <2>1. invite'[v] = invite[v]
    BY DEF FewerInvites
  <2>2. /\ admitted[v] <= 1
        /\ admitted[v] = 1 <=> \/ invite[v].status = "ACCEPTED"
                               \/ \E t \in Slot : AboutToMark(t, v)
    BY <2>1 DEF AccountsInv, InvitesAdmitOnce
  <2>3. \A t \in Slot : AboutToMark(t, v) <=> AboutToMark(t, v)'
    BY MarkersKept
  <2>4. QED
    BY <2>1, <2>2, <2>3
<1>2. OneInviteIsPending'
  <2>1. \A a \in App, u \in User : Pending(a, u)' \subseteq Pending(a, u)
    BY DEF Pending, FewerInvites
  <2>2. QED
    BY <2>1, PendingKept
<1>3. QED
  BY <1>1, <1>2

\* The others still have what they found when the members are as they were ...
LEMMA FoundKept ==
  ASSUME AccountsInv, NEW s \in Slot, NEW l, NEW k, Moves(s, l, k), member' = member, FewerInvites
  PROVE  \A t \in Slot \ {s} : \A r \in RequestRecord :
           r = request'[t] => RoleFound(r)' /\ InviteFound(r)'
<1>1. ASSUME NEW t \in Slot \ {s}, NEW r \in RequestRecord, r = request'[t]
      PROVE  RoleFound(r)' /\ InviteFound(r)'
  <2>1. PICK h : h = request[t]
    OBVIOUS
  <2>2. Typed(h) /\ RoleFound(h) /\ InviteFound(h) /\ Ages(h, r)
    BY <1>1, <2>1, TheRequest DEF Moves
  <2>3. QED
    BY <2>2, RoleAges, InviteAges
<1>2. QED
  BY <1>1

\* ... and when it is noted whose members were written.
LEMMA FoundNoted ==
  ASSUME AccountsInv, NEW s \in Slot, NEW l, NEW k, Moves(s, l, k),
         NEW a, NEW deleted, Wrote(s, k, a, deleted), FewerInvites,
         \A b \in App : b # a => member'[b] = member[b],
         \A u \in User : a \in App /\ member[a][u] # None /\ member'[a][u] = None => u \in deleted
  PROVE  \A t \in Slot \ {s} : \A r \in RequestRecord :
           r = request'[t] => RoleFound(r)' /\ InviteFound(r)'
<1>1. ASSUME NEW t \in Slot \ {s}, NEW r \in RequestRecord, r = request'[t]
      PROVE  RoleFound(r)' /\ InviteFound(r)'
  <2>1. PICK h : h = request[t]
    OBVIOUS
  <2>2. Typed(h) /\ RoleFound(h) /\ InviteFound(h) /\ Ages(h, r)
    BY <1>1, <2>1, TheRequest DEF Moves
  <2>3. InviteFound(r)'
    BY <2>2, InviteAges
  <2>4. RoleFound(r)'
    <3>1. CASE r.kind \notin RoleKind
      BY <3>1 DEF RoleFound
    <3>2. CASE r.kind \in RoleKind /\ r.app # a
      <4>1. h.app \in App /\ h.app = r.app /\ member'[r.app] = member[r.app]
        BY <2>2, <3>2 DEF Typed, Ages
      <4>2. Owners(r.app)' = Owners(h.app)
        BY <4>1 DEF Owners
      <4>3. QED
        BY <2>2, <4>1, <4>2 DEF RoleFound, Ages
    <3>3. CASE r.kind \in RoleKind /\ r.app = a
      <4>1. ChangesRoles(t, a) /\ h.app = a /\ a \in App /\ h.on \in User /\ r.on = h.on
        BY <2>1, <2>2, <3>3 DEF ChangesRoles, RoleKind, Typed, Ages
      <4>2. r.stale /\ (h.on \in deleted => r.gone)
        BY <1>1, <2>1, <4>1, WroteMoves DEF AccountsInv, Moves
      <4>3. ASSUME r.pc \in {"count", "write"}, ~r.gone PROVE member'[a][r.on] # None
        BY <2>2, <3>3, <4>1, <4>2, <4>3 DEF RoleFound, Ages
      <4>4. QED
        BY <3>3, <4>2, <4>3 DEF RoleFound
    <3>4. QED
      BY <3>1, <3>2, <3>3
  <2>5. QED
    BY <2>3, <2>4
<1>2. QED
  BY <1>1

LEMMA RequestsKept ==
  ASSUME AccountsInv, NEW s \in Slot, NEW l, NEW k, Moves(s, l, k), users \subseteq users',
         Typed(k)', RoleFound(k)', InviteFound(k)',
         \A t \in Slot \ {s} : \A r \in RequestRecord :
           r = request'[t] => RoleFound(r)' /\ InviteFound(r)'
  PROVE  RequestsOK'
BY RequestsMove DEF AccountsInv, Moves

-----------------------------------------------------------------------------
(* Handlers that write users and roles                                      *)

LEMMA RegisterCreateKeeps ==
  ASSUME AccountsInv, NEW s \in Slot, RegisterCreate(s)
  PROVE  AccountsInv'
<1>1. PICK l : l = request[s]
  OBVIOUS
<1>2. PICK u : u = l.user
  OBVIOUS
<1>3. /\ l \in RequestRecord /\ Typed(l) /\ request \in [Slot -> RequestRecord]
      /\ l.kind = "register" /\ l.pc = "create" /\ u \in User /\ (l.seen # "nobody" => users # {})
  BY <1>1, <1>2, TheRequest DEF AccountsInv, RequestsOK, RegisterCreate, Ready, Typed
<1>4. PICK k : k = IF u \in users \/ l.seen # "nobody" THEN Idle ELSE [l EXCEPT !.pc = "root"]
  OBVIOUS
<1>5. /\ request' = [request EXCEPT ![s] = k] /\ users' = users \cup {u}
      /\ excused' = IF l.seen = "nobody" /\ users # {} THEN excused \cup {<<"root", u>>} ELSE excused
      /\ UNCHANGED <<root, apps, member, invite, admitted, requests, failures>>
  BY <1>1, <1>2, <1>3, <1>4 DEF RegisterCreate, End, Go
<1>6. /\ k \in RequestRecord /\ ~Owning(k) /\ ~Marking(k) /\ ~Owning(l) /\ ~Marking(l) /\ ~Rooting(l)
      /\ Rooting(k) => k.user = u /\ u \notin users /\ l.seen = "nobody"
      /\ u \notin users /\ l.seen = "nobody" => Rooting(k)
      /\ Typed(k)' /\ RoleFound(k)' /\ InviteFound(k)'
  <2>1. CASE u \in users \/ l.seen # "nobody"
    BY <1>3, <1>4, <2>1, IdleSound DEF Rooting, Owning, Marking
  <2>2. CASE ~(u \in users \/ l.seen # "nobody")
    <3>1. k \in RequestRecord /\ k.kind = "register" /\ k.pc = "root" /\ k.user = u
      BY <1>2, <1>3, <1>4, <2>2, AtStep DEF Pc
    <3>2. QED
      BY <1>3, <1>5, <2>2, <3>1 DEF Typed, RoleFound, InviteFound, Rooting, Owning, Marking, RoleKind
  <2>3. QED
    BY <2>1, <2>2
<1>7. Moves(s, l, k) /\ \A t \in Slot \ {s} : request'[t] = request[t]
  BY <1>1, <1>5, <1>6, GoesOn DEF AccountsInv, Moves
<1>8. DatabaseOK' /\ BoundsOK'
  BY <1>3, <1>5 DEF AccountsInv, DatabaseOK, BoundsOK
<1>9. RequestsOK'
  <2>1. FewerInvites
    BY <1>5 DEF FewerInvites
  <2>2. QED
    BY <1>5, <1>6, <1>7, <2>1, FoundKept, RequestsKept
<1>10. ApplicationsHaveOwners' /\ InvitesAdmitOnce' /\ OneInviteIsPending'
  BY <1>5, <1>6, <1>7, OwnersKept, InvitesKept DEF FewerInvites
<1>11. RootsOK'
  <2>1. Rooted' \subseteq Rooted \cup {u}
    BY <1>5, <1>6, <1>7 DEF Rooted, Rooting, Moves
  <2>2. Rooted \subseteq users
    BY TheRequest DEF Rooted, Rooting, Typed, AccountsInv, DatabaseOK
  <2>3. u \in Rooted' /\ u \notin Rooted => Rooting(k) /\ u \notin users
    BY <1>5, <1>6, <1>7 DEF Rooted, Moves
  <2>4. ASSUME NEW x \in Rooted', NEW w \in Rooted', x # w
        PROVE  <<"root", x>> \in excused' \/ <<"root", w>> \in excused'
    <3>1. CASE x \in Rooted /\ w \in Rooted
      BY <1>5, <2>4, <3>1 DEF AccountsInv, RootsOK
    <3>2. CASE ~(x \in Rooted /\ w \in Rooted)
      <4>1. u \in {x, w} /\ Rooting(k) /\ users # {}
        BY <2>1, <2>2, <2>3, <2>4, <3>2
      <4>2. <<"root", u>> \in excused'
        BY <1>5, <1>6, <4>1
      <4>3. QED
        BY <4>1, <4>2
    <3>3. QED
      BY <3>1, <3>2
  <2>5. ASSUME users' # {}, root' = {}
        PROVE  \/ \E t \in Slot : Ready(t, "register", "root")'
               \/ \E w \in users' : <<"first", w>> \in excused'
    <3>1. CASE users = {}
      <4>1. Rooting(k)
        BY <1>3, <1>6, <3>1
      <4>2. Ready(s, "register", "root")'
        BY <1>7, <4>1 DEF Ready, Rooting, Moves
      <4>3. QED
        BY <4>2
    <3>2. CASE users # {}
      <4>1. \/ \E t \in Slot : Ready(t, "register", "root")
            \/ \E w \in users : <<"first", w>> \in excused
        BY <1>5, <2>5, <3>2 DEF AccountsInv, RootsOK
      <4>2. \A t \in Slot : Ready(t, "register", "root") => Ready(t, "register", "root")'
        BY <1>1, <1>6, <1>7 DEF Ready, Rooting
      <4>3. QED
        BY <1>5, <4>1, <4>2
    <3>3. QED
      BY <3>1, <3>2
  <2>6. QED
    BY <2>4, <2>5 DEF RootsOK
<1>12. QED
  BY <1>8, <1>9, <1>10, <1>11 DEF AccountsInv

LEMMA RegisterRootKeeps ==
  ASSUME AccountsInv, NEW s \in Slot, RegisterRoot(s)
  PROVE  AccountsInv'
<1>1. PICK l : l = request[s]
  OBVIOUS
<1>2. /\ l \in RequestRecord /\ Typed(l) /\ Rooting(l) /\ ~Owning(l) /\ ~Marking(l)
      /\ l.user \in users /\ l.user \in User
  BY <1>1, TheRequest DEF RegisterRoot, Ready, Typed, Rooting, Owning, Marking
<1>3. /\ request' = [request EXCEPT ![s] = Idle] /\ root' = root \cup {l.user}
      /\ UNCHANGED <<users, apps, member, invite, admitted, excused, requests, failures>>
  BY <1>1 DEF RegisterRoot, End
<1>4. Moves(s, l, Idle) /\ \A t \in Slot \ {s} : request'[t] = request[t]
  BY <1>1, <1>3, IdleSound, GoesOn DEF AccountsInv, Moves
<1>5. DatabaseOK' /\ BoundsOK'
  BY <1>2, <1>3 DEF AccountsInv, DatabaseOK, BoundsOK
<1>6. FewerInvites
  BY <1>3 DEF FewerInvites
<1>7. RequestsOK'
  BY <1>3, <1>4, <1>6, IdleSound, FoundKept, RequestsKept
<1>8. ApplicationsHaveOwners' /\ InvitesAdmitOnce' /\ OneInviteIsPending'
  BY <1>2, <1>3, <1>4, <1>6, IdleSound, OwnersKept, InvitesKept
<1>9. RootsOK'
  <2>1. Rooted' \subseteq Rooted
    BY <1>1, <1>2, <1>3, <1>4, IdleSound DEF Rooted, Moves
  <2>2. root' # {}
    BY <1>3
  <2>3. QED
    BY <1>3, <2>1, <2>2 DEF AccountsInv, RootsOK
<1>10. QED
  BY <1>5, <1>7, <1>8, <1>9 DEF AccountsInv


\* The owners of an application stay, or it is noted that they may be gone.
LEMMA OwnersStay ==
  ASSUME AccountsInv, NEW s \in Slot, NEW l, NEW k, Moves(s, l, k), apps' \subseteq apps,
         excused \subseteq excused', ~Owning(l),
         \A a \in apps' : Owners(a) # {} => Owners(a)' # {} \/ <<"owners", a>> \in excused'
  PROVE  ApplicationsHaveOwners'
<1>1. \A t \in Slot \ {s} : Owning(request[t]) => Owning(request'[t]) /\ request'[t].app = request[t].app
  BY AgesKind DEF Moves, Ages
<1>2. \A a \in apps : Becoming(a) => Becoming(a)'
  BY <1>1 DEF Becoming, Ready, Owning, Moves
<1>3. QED
  BY <1>2 DEF AccountsInv, ApplicationsHaveOwners

LEMMA CreateAppKeeps ==
  ASSUME AccountsInv, NEW s \in Slot, CreateApp(s)
  PROVE  AccountsInv'
<1>1. PICK l : l = request[s]
  OBVIOUS
<1>2. /\ l \in RequestRecord /\ Typed(l) /\ l.kind = "create" /\ l.pc = "app"
      /\ l.user \in users /\ l.app \in App
  BY <1>1, TheRequest DEF CreateApp, Ready, Typed
<1>3. PICK k : k = [l EXCEPT !.pc = "owner"]
  OBVIOUS
<1>4. /\ request' = [request EXCEPT ![s] = k] /\ apps' = apps \cup {l.app}
      /\ UNCHANGED <<users, root, member, invite, admitted, excused, requests, failures>>
  BY <1>1, <1>3 DEF CreateApp, Go
<1>5. /\ k \in RequestRecord /\ k.pc = "owner" /\ k.kind = "create" /\ k.user = l.user /\ k.app = l.app
  BY <1>2, <1>3, AtStep DEF Pc
<1>6. /\ ~Rooting(l) /\ ~Owning(l) /\ ~Marking(l) /\ ~Rooting(k) /\ Owning(k) /\ ~Marking(k)
      /\ Typed(k)' /\ RoleFound(k)' /\ InviteFound(k)'
  BY <1>2, <1>4, <1>5 DEF Rooting, Owning, Marking, Typed, RoleFound, InviteFound, RoleKind
<1>7. Moves(s, l, k) /\ \A t \in Slot \ {s} : request'[t] = request[t]
  BY <1>1, <1>4, <1>5, GoesOn DEF AccountsInv, Moves
<1>8. DatabaseOK' /\ BoundsOK'
  BY <1>2, <1>4 DEF AccountsInv, DatabaseOK, BoundsOK
<1>9. FewerInvites
  BY <1>4 DEF FewerInvites
<1>10. RequestsOK'
  BY <1>4, <1>6, <1>7, <1>9, FoundKept, RequestsKept
<1>11. RootsOK' /\ InvitesAdmitOnce' /\ OneInviteIsPending'
  BY <1>4, <1>6, <1>7, <1>9, RootsKept, InvitesKept
<1>12. ApplicationsHaveOwners'
  <2>1. Becoming(l.app)'
    BY <1>5, <1>6, <1>7 DEF Becoming, Ready, Owning, Moves
  <2>2. \A a \in apps : Owners(a)' = Owners(a) /\ (Becoming(a) => Becoming(a)')
    BY <1>1, <1>4, <1>6, <1>7 DEF Owners, Becoming, Ready, Owning, Moves
  <2>3. QED
    BY <1>4, <2>1, <2>2 DEF AccountsInv, ApplicationsHaveOwners
<1>13. QED
  BY <1>8, <1>10, <1>11, <1>12 DEF AccountsInv

LEMMA CreateOwnerKeeps ==
  ASSUME AccountsInv, NEW s \in Slot, CreateOwner(s)
  PROVE  AccountsInv'
<1>1. PICK l : l = request[s]
  OBVIOUS
<1>2. PICK a : a = l.app
  OBVIOUS
<1>3. /\ l \in RequestRecord /\ Typed(l) /\ Owning(l) /\ ~Rooting(l) /\ ~Marking(l)
      /\ l.user \in users /\ l.user \in User /\ a \in App
  BY <1>1, <1>2, TheRequest DEF CreateOwner, Ready, Typed, Rooting, Owning, Marking, AccountsInv, DatabaseOK
<1>4. /\ member' = IF a \in apps THEN [member EXCEPT ![a][l.user] = "OWNER"] ELSE member
      /\ Wrote(s, Idle, a, {})
      /\ UNCHANGED <<users, root, apps, invite, admitted, excused, requests, failures>>
  BY <1>1, <1>2 DEF CreateOwner
<1>5. Moves(s, l, Idle)
  BY <1>1, <1>4, IdleSound, WroteMoves DEF AccountsInv, Moves
<1>6. /\ \A b \in App : b # a => member'[b] = member[b]
      /\ \A u \in User : member'[a][u] = IF a \in apps /\ u = l.user THEN "OWNER" ELSE member[a][u]
      /\ member' \in [App -> [User -> Role \cup {None}]]
  <2>1. member \in [App -> [User -> Role \cup {None}]]
    BY DEF AccountsInv, DatabaseOK
  <2>2. QED
    BY <1>3, <1>4, <2>1 DEF Role
<1>7. FewerInvites
  BY <1>4 DEF FewerInvites
<1>8. DatabaseOK' /\ BoundsOK'
  BY <1>3, <1>4, <1>6 DEF AccountsInv, DatabaseOK, BoundsOK
<1>9. RequestsOK'
  <2>1. \A u \in User : a \in App /\ member[a][u] # None /\ member'[a][u] = None => u \in {}
    BY <1>6, Nones
  <2>2. \A t \in Slot \ {s} : \A r \in RequestRecord :
          r = request'[t] => RoleFound(r)' /\ InviteFound(r)'
    BY <1>4, <1>5, <1>6, <1>7, <2>1, FoundNoted
  <2>3. QED
    BY <1>4, <1>5, <2>2, IdleSound, RequestsKept
<1>10. RootsOK' /\ InvitesAdmitOnce' /\ OneInviteIsPending'
  BY <1>3, <1>4, <1>5, <1>7, IdleSound, RootsKept, InvitesKept
<1>11. ApplicationsHaveOwners'
  <2> SUFFICES ASSUME NEW b \in apps PROVE (Owners(b) # {} \/ Becoming(b) \/ <<"owners", b>> \in excused)'
    BY <1>4 DEF ApplicationsHaveOwners
  <2>1. b \in App
    BY DEF AccountsInv, DatabaseOK
  <2>2. CASE b = a
    <3>1. l.user \in Owners(b)'
      BY <1>3, <1>6, <2>2 DEF Owners
    <3>2. QED
      BY <3>1
  <2>3. CASE b # a
    <3>1. Owners(b)' = Owners(b)
      BY <1>6, <2>1, <2>3 DEF Owners
    <3>2. \A t \in Slot \ {s} :
            Owning(request[t]) => Owning(request'[t]) /\ request'[t].app = request[t].app
      BY <1>5, AgesKind DEF Moves, Ages
    <3>3. Becoming(b) => Becoming(b)'
      BY <1>1, <1>2, <2>3, <3>2 DEF Becoming, Ready, Owning
    <3>4. QED
      BY <1>4, <3>1, <3>3 DEF AccountsInv, ApplicationsHaveOwners
  <2>4. QED
    BY <2>2, <2>3
<1>12. QED
  BY <1>8, <1>9, <1>10, <1>11 DEF AccountsInv

LEMMA DeleteAppKeeps ==
  ASSUME AccountsInv, NEW s \in Slot, DeleteApp(s)
  PROVE  AccountsInv'
<1>1. PICK l : l = request[s]
  OBVIOUS
<1>2. PICK a : a = l.app
  OBVIOUS
<1>3. /\ l \in RequestRecord /\ Typed(l) /\ ~Owning(l) /\ ~Rooting(l) /\ ~Marking(l) /\ a \in App
  BY <1>1, <1>2, TheRequest DEF DeleteApp, Ready, Typed, Rooting, Owning, Marking
<1>4. /\ apps' = apps \ {a}
      /\ member' = [member EXCEPT ![a] = Nobody]
      /\ invite' = [v \in Invite |-> IF invite[v] # None /\ invite[v].app = a THEN None ELSE invite[v]]
      /\ Wrote(s, Idle, a, User)
      /\ UNCHANGED <<users, root, admitted, excused, requests, failures>>
  BY <1>1, <1>2 DEF DeleteApp
<1>5. Moves(s, l, Idle)
  BY <1>1, <1>4, IdleSound, WroteMoves DEF AccountsInv, Moves
<1>6. /\ \A b \in App : b # a => member'[b] = member[b]
      /\ \A u \in User : member'[a][u] = None
      /\ member' \in [App -> [User -> Role \cup {None}]]
  BY <1>3, <1>4 DEF AccountsInv, DatabaseOK, Nobody
<1>7. FewerInvites
  BY <1>4 DEF FewerInvites
<1>8. DatabaseOK' /\ BoundsOK'
  <2>1. /\ users' \subseteq User /\ root' \subseteq users' /\ apps' \subseteq App
        /\ \A b \in App, u \in User : member'[b][u] # None => b \in apps' /\ u \in users'
    BY <1>4, <1>6 DEF AccountsInv, DatabaseOK
  <2>2. /\ invite' \in [Invite -> InviteRow \cup {None}]
        /\ \A v \in Invite : invite'[v] # None => invite'[v].app \in apps' /\ invite'[v].to \in users'
    BY <1>4 DEF AccountsInv, DatabaseOK
  <2>3. QED
    BY <1>4, <1>6, <2>1, <2>2 DEF AccountsInv, DatabaseOK, BoundsOK
<1>9. RequestsOK'
  <2>1. \A t \in Slot \ {s} : \A r \in RequestRecord :
          r = request'[t] => RoleFound(r)' /\ InviteFound(r)'
    BY <1>4, <1>5, <1>6, <1>7, FoundNoted
  <2>2. QED
    BY <1>4, <1>5, <2>1, IdleSound, RequestsKept
<1>10. RootsOK' /\ InvitesAdmitOnce' /\ OneInviteIsPending'
  BY <1>3, <1>4, <1>5, <1>7, IdleSound, RootsKept, InvitesKept
<1>11. ApplicationsHaveOwners'
  <2>1. \A b \in apps' : Owners(b)' = Owners(b)
    BY <1>4, <1>6 DEF Owners, AccountsInv, DatabaseOK
  <2>2. QED
    BY <1>3, <1>4, <1>5, <2>1, OwnersStay
<1>12. QED
  BY <1>8, <1>9, <1>10, <1>11 DEF AccountsInv


LEMMA WriteMemberKeeps ==
  ASSUME AccountsInv, NEW s \in Slot, WriteMember(s)
  PROVE  AccountsInv'
<1>1. PICK l : l = request[s]
  OBVIOUS
<1>2. PICK a, u : a = l.app /\ u = l.on
  OBVIOUS
<1>3. PICK role : role = [promote |-> "OWNER", demote |-> "MEMBER", remove |-> None][l.kind]
  OBVIOUS
<1>4. /\ l \in RequestRecord /\ Typed(l) /\ RoleFound(l) /\ ~Owning(l) /\ ~Rooting(l) /\ ~Marking(l)
      /\ l.kind \in RoleKind /\ l.pc = "write" /\ a \in App /\ u \in User
  BY <1>1, <1>2, TheRequest DEF WriteMember, Typed, RoleKind, Rooting, Owning, Marking
<1>5. role \in Role \cup {None} /\ (role = None <=> l.kind = "remove") /\ (role = "OWNER" <=> l.kind = "promote")
  BY <1>3, <1>4, Nones DEF RoleKind, Role
<1>6. CASE l.gone
  BY <1>1, <1>4, <1>6, EndKeeps DEF WriteMember, database
<1>7. CASE ~l.gone
  <2>1. /\ member' = [member EXCEPT ![a][u] = role]
        /\ Wrote(s, Idle, a, IF l.kind = "remove" THEN {u} ELSE {})
        /\ excused' = IF l.stale /\ member[a][u] = "OWNER" THEN excused \cup {<<"owners", a>>} ELSE excused
        /\ UNCHANGED <<users, root, apps, invite, admitted, requests, failures>>
    BY <1>1, <1>2, <1>3, <1>7 DEF WriteMember
  <2>2. Moves(s, l, Idle)
    BY <1>1, <2>1, IdleSound, WroteMoves DEF AccountsInv, Moves
  <2>3. /\ \A b \in App : b # a => member'[b] = member[b]
        /\ \A w \in User : member'[a][w] = IF w = u THEN role ELSE member[a][w]
        /\ member' \in [App -> [User -> Role \cup {None}]]
    BY <1>4, <1>5, <2>1 DEF AccountsInv, DatabaseOK
  <2>4. FewerInvites
    BY <2>1 DEF FewerInvites
  <2>5. member[a][u] # None /\ a \in apps /\ u \in users
    BY <1>2, <1>4, <1>7 DEF RoleFound, AccountsInv, DatabaseOK
  <2>6. DatabaseOK' /\ BoundsOK'
    <3>1. \A b \in App, w \in User : member'[b][w] # None => b \in apps' /\ w \in users'
      BY <2>1, <2>3, <2>5 DEF AccountsInv, DatabaseOK
    <3>2. QED
      BY <2>1, <2>3, <3>1 DEF AccountsInv, DatabaseOK, BoundsOK
  <2>7. RequestsOK'
    <3>1. PICK deleted : deleted = IF l.kind = "remove" THEN {u} ELSE {}
      OBVIOUS
    <3>2. \A w \in User : a \in App /\ member[a][w] # None /\ member'[a][w] = None => w \in deleted
      BY <1>5, <2>3, <3>1
    <3>3. Wrote(s, Idle, a, deleted)
      BY <2>1, <3>1
    <3>4. \A t \in Slot \ {s} : \A r \in RequestRecord :
            r = request'[t] => RoleFound(r)' /\ InviteFound(r)'
      BY <2>2, <2>3, <2>4, <3>2, <3>3, FoundNoted
    <3>5. QED
      BY <2>1, <2>2, <3>4, IdleSound, RequestsKept
  <2>8. excused \subseteq excused'
    BY <2>1
  <2>9. RootsOK' /\ InvitesAdmitOnce' /\ OneInviteIsPending'
    BY <1>4, <2>1, <2>2, <2>4, <2>8, IdleSound, RootsKept, InvitesKept
  <2>10. ApplicationsHaveOwners'
    <3>1. ASSUME NEW b \in apps', Owners(b) # {}
          PROVE  Owners(b)' # {} \/ <<"owners", b>> \in excused'
      <4>1. b \in App
        BY <2>1 DEF AccountsInv, DatabaseOK
      <4>2. CASE b # a
        BY <2>3, <3>1, <4>1, <4>2 DEF Owners
      <4>3. CASE b = a /\ l.kind = "promote"
        BY <1>4, <1>5, <2>3, <4>3 DEF Owners
      <4>4. CASE b = a /\ member[a][u] # "OWNER"
        BY <2>3, <3>1, <4>4 DEF Owners
      <4>5. CASE b = a /\ l.stale /\ member[a][u] = "OWNER"
        BY <2>1, <4>5
      <4>6. CASE b = a /\ l.kind # "promote" /\ ~l.stale /\ member[a][u] = "OWNER"
        <5>1. Cardinality(Owners(a)) > 1
          BY <1>2, <1>4, <4>6 DEF RoleFound
        <5>2. IsFiniteSet(Owners(a))
          BY Nones, FS_Subset DEF Owners
        <5>3. PICK w \in Owners(a) : w # u
          <6>1. ASSUME Owners(a) \subseteq {u} PROVE FALSE
            <7>1. Cardinality({u}) = 1 /\ IsFiniteSet({u})
              BY FS_Singleton
            <7>2. Cardinality(Owners(a)) <= 1 /\ Cardinality(Owners(a)) \in Nat
              BY <5>2, <6>1, <7>1, FS_Subset, FS_CardinalityType
            <7>3. QED
              BY <5>1, <7>2
          <6>2. QED
            BY <6>1
        <5>4. w \in Owners(a)'
          BY <2>3, <5>3 DEF Owners
        <5>5. QED
          BY <4>6, <5>4
      <4>7. QED
        BY <4>2, <4>3, <4>4, <4>5, <4>6
    <3>2. QED
      BY <1>4, <2>1, <2>2, <2>8, <3>1, OwnersStay
  <2>11. QED
    BY <2>6, <2>7, <2>9, <2>10 DEF AccountsInv
<1>8. QED
  BY <1>6, <1>7

-----------------------------------------------------------------------------
(* Handlers that write invites                                              *)

LEMMA AcceptJoinKeeps ==
  ASSUME AccountsInv, NEW s \in Slot, AcceptJoin(s)
  PROVE  AccountsInv'
<1>1. PICK l : l = request[s]
  OBVIOUS
<1>2. PICK a, u, v : a = l.app /\ u = l.user /\ v = l.on
  OBVIOUS
<1>3. /\ l \in RequestRecord /\ Typed(l) /\ InviteFound(l) /\ ~Owning(l) /\ ~Rooting(l) /\ ~Marking(l)
      /\ l.kind = "accept" /\ l.pc = "join" /\ a \in App /\ u \in users /\ u \in User /\ v \in Invite
  BY <1>1, <1>2, TheRequest DEF AcceptJoin, Ready, Typed, Rooting, Owning, Marking, AccountsInv, DatabaseOK
<1>4. CASE End(s) /\ UNCHANGED <<member, admitted, excused>>
  BY <1>1, <1>3, <1>4, EndKeeps DEF AcceptJoin, database
<1>5. CASE ~(End(s) /\ UNCHANGED <<member, admitted, excused>>)
  <2>1. PICK k : k = [l EXCEPT !.pc = "mark"]
    OBVIOUS
  <2>2. /\ a \in apps /\ member[a][u] = None
        /\ member' = [member EXCEPT ![a][u] = "MEMBER"]
        /\ Wrote(s, k, a, {})
        /\ admitted' = [admitted EXCEPT ![v] = @ + 1]
        /\ excused' = IF l.stale \/ \E t \in Slot : AboutToMark(t, v)
                      THEN excused \cup {<<"invite", v>>} ELSE excused
        /\ UNCHANGED <<users, root, apps, invite, requests, failures>>
    BY <1>1, <1>2, <1>5, <2>1 DEF AcceptJoin
  <2>3. /\ k \in RequestRecord /\ k.pc = "mark" /\ k.kind = "accept" /\ k.user = u /\ k.app = a /\ k.on = v
    BY <1>2, <1>3, <2>1, AtStep DEF Pc
  <2>4. /\ ~Rooting(k) /\ ~Owning(k) /\ Marking(k)
        /\ Typed(k)' /\ RoleFound(k)' /\ InviteFound(k)'
    BY <1>3, <2>2, <2>3 DEF Rooting, Owning, Marking, Typed, RoleFound, InviteFound, RoleKind
  <2>5. Moves(s, l, k)
    BY <1>1, <2>2, <2>3, WroteMoves DEF AccountsInv, Moves
  <2>6. /\ \A b \in App : b # a => member'[b] = member[b]
        /\ \A w \in User : member'[a][w] = IF w = u THEN "MEMBER" ELSE member[a][w]
        /\ member' \in [App -> [User -> Role \cup {None}]]
    BY <1>3, <2>2 DEF AccountsInv, DatabaseOK, Role
  <2>7. /\ admitted' \in [Invite -> Nat] /\ admitted'[v] = admitted[v] + 1
        /\ \A w \in Invite : w # v => admitted'[w] = admitted[w]
    BY <1>3, <2>2 DEF AccountsInv, BoundsOK
  <2>8. FewerInvites /\ excused \subseteq excused'
    BY <2>2 DEF FewerInvites
  <2>9. DatabaseOK' /\ BoundsOK'
    <3>1. \A b \in App, w \in User : member'[b][w] # None => b \in apps' /\ w \in users'
      BY <1>3, <2>2, <2>6 DEF AccountsInv, DatabaseOK
    <3>2. QED
      BY <2>2, <2>6, <2>7, <3>1 DEF AccountsInv, DatabaseOK, BoundsOK
  <2>10. RequestsOK'
    <3>1. \A w \in User : a \in App /\ member[a][w] # None /\ member'[a][w] = None => w \in {}
      BY <2>6, Nones
    <3>2. \A t \in Slot \ {s} : \A r \in RequestRecord :
            r = request'[t] => RoleFound(r)' /\ InviteFound(r)'
      BY <2>2, <2>5, <2>6, <2>8, <3>1, FoundNoted
    <3>3. QED
      BY <2>2, <2>4, <2>5, <3>2, RequestsKept
  <2>11. RootsOK'
    BY <1>3, <2>2, <2>4, <2>5, <2>8, RootsKept
  <2>12. ApplicationsHaveOwners'
    <3>1. \A b \in App : Owners(b)' = Owners(b)
      BY <2>2, <2>6, Nones DEF Owners
    <3>2. apps' \subseteq App /\ apps' = apps
      BY <2>2 DEF AccountsInv, DatabaseOK
    <3>3. \A b \in apps' : Owners(b) # {} => Owners(b)' # {} \/ <<"owners", b>> \in excused'
      BY <3>1, <3>2
    <3>4. QED
      BY <1>3, <2>5, <2>8, <3>2, <3>3, OwnersStay
  <2>13. InvitesAdmitOnce'
    <3> SUFFICES ASSUME NEW w \in Invite, invite[w] # None, <<"invite", w>> \notin excused'
                 PROVE  /\ admitted'[w] <= 1
                        /\ admitted'[w] = 1 <=> \/ invite[w].status = "ACCEPTED"
                                                \/ \E t \in Slot : AboutToMark(t, w)'
      BY <2>2 DEF InvitesAdmitOnce
    <3>1. /\ admitted[w] <= 1
          /\ admitted[w] = 1 <=> \/ invite[w].status = "ACCEPTED"
                                 \/ \E t \in Slot : AboutToMark(t, w)
      BY <2>8 DEF AccountsInv, InvitesAdmitOnce
    <3>2. CASE w # v
      <4>1. \A t \in Slot \ {s} : AboutToMark(t, w) <=> AboutToMark(t, w)'
        BY <2>5, OtherMarkers
      <4>2. ~AboutToMark(s, w) /\ ~AboutToMark(s, w)'
        BY <1>1, <1>3, <2>3, <2>5, <3>2 DEF AboutToMark, Ready, Marking, Moves
      <4>3. QED
        BY <2>7, <3>1, <3>2, <4>1, <4>2
    <3>3. CASE w = v
      <4>1. ~l.stale /\ ~\E t \in Slot : AboutToMark(t, w)
        BY <2>2, <3>3
      <4>2. invite[w].status = "PENDING"
        BY <1>2, <1>3, <3>3, <4>1 DEF InviteFound
      <4>3. admitted[w] \in Nat /\ admitted[w] # 1
        BY <3>1, <4>1, <4>2 DEF AccountsInv, BoundsOK
      <4>4. admitted'[w] = 1
        BY <2>7, <3>1, <3>3, <4>3
      <4>5. AboutToMark(s, w)'
        BY <2>3, <2>5, <3>3 DEF AboutToMark, Ready, Moves
      <4>6. QED
        BY <4>4, <4>5
    <3>4. QED
      BY <3>2, <3>3
  <2>14. OneInviteIsPending'
    <3>1. \A b \in App, w \in User : Pending(b, w)' = Pending(b, w)
      BY <2>2 DEF Pending
    <3>2. QED
      BY <2>8, <3>1, PendingKept
  <2>15. QED
    BY <2>9, <2>10, <2>11, <2>12, <2>13, <2>14 DEF AccountsInv
<1>6. QED
  BY <1>4, <1>5


\* The id of a new invite is one that no request is about.
LEMMA CreateInviteKeeps ==
  ASSUME AccountsInv, NEW s \in Slot, CreateInvite(s)
  PROVE  AccountsInv'
<1>1. PICK l : l = request[s]
  OBVIOUS
<1>2. PICK a, u : a = l.app /\ u = l.on
  OBVIOUS
<1>3. /\ l \in RequestRecord /\ Typed(l) /\ InviteFound(l) /\ ~Owning(l) /\ ~Rooting(l) /\ ~Marking(l)
      /\ l.kind = "invite" /\ l.pc = "write" /\ a \in App /\ u \in users /\ u \in User
  BY <1>1, <1>2, TheRequest DEF CreateInvite, Ready, Typed, Rooting, Owning, Marking, AccountsInv, DatabaseOK
<1>4. CASE a \notin apps
  BY <1>1, <1>2, <1>3, <1>4, EndKeeps DEF CreateInvite, database
<1>5. CASE a \in apps
  <2>1. PICK v \in Invite :
          /\ Unused(v)
          /\ invite' = [invite EXCEPT ![v] = [app |-> a, to |-> u, status |-> "PENDING", expired |-> FALSE]]
    BY <1>1, <1>2, <1>5 DEF CreateInvite
  <2>2. PICK others : others = {t \in Slot : /\ request[t].kind = "invite"
                                             /\ request[t].app = a /\ request[t].on = u}
    OBVIOUS
  <2>3. /\ excused' = IF l.stale THEN excused \cup {<<"pending", a, u>>} ELSE excused
        /\ Outdate(s, Idle, others)
        /\ UNCHANGED <<users, root, apps, member, admitted, requests, failures>>
    BY <1>1, <1>2, <1>5, <2>2 DEF CreateInvite
  <2>4. /\ Moves(s, l, Idle)
        /\ \A t \in Slot \ {s} : t \in others => request'[t].stale
    BY <1>1, <2>3, IdleSound, OutdateMoves DEF AccountsInv, Moves
  <2>5. PICK row \in InviteRow : /\ row = [app |-> a, to |-> u, status |-> "PENDING", expired |-> FALSE]
                                 /\ row.app = a /\ row.to = u /\ row.status = "PENDING"
    <3>1. PICK row : row = [app |-> a, to |-> u, status |-> "PENDING", expired |-> FALSE]
      OBVIOUS
    <3>2. row \in InviteRow
      BY <1>3, <3>1 DEF InviteRow
    <3>3. row.app = a /\ row.to = u /\ row.status = "PENDING"
      BY <3>1
    <3>4. QED
      BY <3>1, <3>2, <3>3
  <2>6. /\ invite \in [Invite -> InviteRow \cup {None}]
        /\ invite'[v] = row /\ \A w \in Invite : w # v => invite'[w] = invite[w]
        /\ invite' \in [Invite -> InviteRow \cup {None}]
    BY <2>1, <2>5 DEF AccountsInv, DatabaseOK
  <2>7. invite[v] = None /\ admitted[v] = 0 /\ (\A t \in Slot : request[t].on # v) /\ excused \subseteq excused'
    BY <2>1, <2>3 DEF Unused
  <2>8. DatabaseOK' /\ BoundsOK'
    BY <1>3, <1>5, <2>3, <2>5, <2>6 DEF AccountsInv, DatabaseOK, BoundsOK
  <2>9. ASSUME NEW b \in App, NEW w \in User
        PROVE  /\ ~(b = a /\ w = u) => Pending(b, w)' = Pending(b, w)
               /\ b = a /\ w = u => Pending(b, w)' \subseteq Pending(b, w) \cup {v}
    BY <2>5, <2>6, <2>7 DEF Pending
  <2>10. RequestsOK'
    <3>1. ASSUME NEW t \in Slot \ {s}, NEW r \in RequestRecord, r = request'[t]
          PROVE  RoleFound(r)' /\ InviteFound(r)'
      <4>1. PICK h : h = request[t]
        OBVIOUS
      <4>2. Typed(h) /\ RoleFound(h) /\ InviteFound(h) /\ Ages(h, r) /\ h.on # v
        BY <2>4, <2>7, <3>1, <4>1, TheRequest DEF Moves
      <4>3. RoleFound(r)'
        BY <2>3, <4>2, RoleAges
      <4>4. ASSUME r.kind \in {"accept", "decline"}, r.pc \in {"join", "expire", "mark"},
                   ~Marking(r), ~r.stale
            PROVE  invite'[r.on] = None \/ invite'[r.on].status = "PENDING"
        <5>1. r.on \in Invite /\ r.on # v /\ r.on = h.on
          BY <4>2, <4>4 DEF Typed, Ages
        <5>2. invite[h.on] = None \/ invite[h.on].status = "PENDING"
          BY <4>2, <4>4 DEF InviteFound, Ages, Marking
        <5>3. QED
          BY <2>6, <5>1, <5>2
      <4>5. ASSUME r.kind = "invite", r.pc = "write", ~r.stale
            PROVE  Pending(r.app, r.on)' = {}
        <5>1. r.app = h.app /\ r.on = h.on /\ h.app \in App /\ h.on \in users /\ users \subseteq User
          BY <4>2, <4>5 DEF Typed, Ages, AccountsInv, DatabaseOK
        <5>2. t \notin others
          BY <2>4, <3>1, <4>5
        <5>3. ~(h.app = a /\ h.on = u)
          BY <2>2, <4>1, <4>2, <4>5, <5>2 DEF Ages
        <5>4. Pending(h.app, h.on) = {}
          BY <4>2, <4>5 DEF InviteFound, Ages
        <5>5. Pending(h.app, h.on)' = Pending(h.app, h.on)
          BY <2>9, <5>1, <5>3
        <5>6. Pending(r.app, r.on)' = Pending(h.app, h.on)'
          BY <5>1 DEF Pending
        <5>7. QED
          BY <5>4, <5>5, <5>6
      <4>6. InviteFound(r)'
        BY <4>4, <4>5 DEF InviteFound, Marking
      <4>7. QED
        BY <4>3, <4>6
    <3>2. \A t \in Slot \ {s} : \A r \in RequestRecord :
            r = request'[t] => RoleFound(r)' /\ InviteFound(r)'
      BY <3>1
    <3>3. QED
      BY <2>3, <2>4, <3>2, IdleSound, RequestsKept
  <2>11. RootsOK' /\ ApplicationsHaveOwners'
    BY <1>3, <2>3, <2>4, <2>7, IdleSound, RootsKept, OwnersKept
  <2>12. InvitesAdmitOnce'
    <3> SUFFICES ASSUME NEW w \in Invite, invite'[w] # None, <<"invite", w>> \notin excused'
                 PROVE  /\ admitted'[w] <= 1
                        /\ admitted'[w] = 1 <=> \/ invite'[w].status = "ACCEPTED"
                                                \/ \E t \in Slot : AboutToMark(t, w)'
      BY DEF InvitesAdmitOnce
    <3>1. \A t \in Slot : AboutToMark(t, w) <=> AboutToMark(t, w)'
      BY <1>3, <2>4, IdleSound, MarkersKept
    <3>2. CASE w # v
      BY <2>3, <2>6, <2>7, <3>1, <3>2 DEF AccountsInv, InvitesAdmitOnce
    <3>3. CASE w = v
      <4>1. \A t \in Slot : ~AboutToMark(t, w)
        BY <2>7, <3>3 DEF AboutToMark
      <4>2. QED
        BY <2>3, <2>5, <2>6, <2>7, <3>1, <3>3, <4>1
    <3>4. QED
      BY <3>2, <3>3
  <2>13. OneInviteIsPending'
    <3> SUFFICES ASSUME NEW b \in App, NEW w \in User, <<"pending", b, w>> \notin excused'
                 PROVE  Cardinality(Pending(b, w)') <= 1
      BY DEF OneInviteIsPending
    <3>1. CASE b = a /\ w = u
      <4>1. ~l.stale
        BY <2>3, <3>1
      <4>2. Pending(a, u) = {}
        BY <1>2, <1>3, <4>1 DEF InviteFound
      <4>3. Pending(b, w)' \subseteq {v}
        BY <2>9, <3>1, <4>2
      <4>4. IsFiniteSet({v}) /\ Cardinality({v}) = 1
        BY FS_Singleton
      <4>5. /\ Cardinality(Pending(b, w)') \in Nat
            /\ Cardinality(Pending(b, w)') <= Cardinality({v})
        BY <4>3, <4>4, FS_Subset, FS_CardinalityType
      <4>6. QED
        BY <4>4, <4>5
    <3>2. CASE ~(b = a /\ w = u)
      BY <2>7, <2>9, <3>2 DEF AccountsInv, OneInviteIsPending
    <3>3. QED
      BY <3>1, <3>2
  <2>14. QED
    BY <2>8, <2>10, <2>11, <2>12, <2>13 DEF AccountsInv
<1>6. QED
  BY <1>4, <1>5

LEMMA MarkInviteKeeps ==
  ASSUME AccountsInv, NEW s \in Slot, MarkInvite(s)
  PROVE  AccountsInv'
<1>1. PICK l : l = request[s]
  OBVIOUS
<1>2. PICK v : v = l.on
  OBVIOUS
<1>3. /\ l \in RequestRecord /\ Typed(l) /\ InviteFound(l) /\ ~Owning(l) /\ ~Rooting(l)
      /\ l.kind \in {"accept", "decline"} /\ l.pc \in {"expire", "mark"} /\ v \in Invite
  BY <1>1, <1>2, TheRequest DEF MarkInvite, Typed, Rooting, Owning
<1>4. PICK status : status = IF l.kind = "decline" THEN "DECLINED"
                             ELSE IF l.pc = "expire" THEN "EXPIRED" ELSE "ACCEPTED"
  OBVIOUS
<1>5. PICK others : others = {t \in Slot : Answers(t, v)}
  OBVIOUS
<1>6. /\ invite' = IF invite[v] = None THEN invite ELSE [invite EXCEPT ![v].status = status]
      /\ excused' = IF status # "ACCEPTED" /\ l.stale THEN excused \cup {<<"invite", v>>} ELSE excused
      /\ Outdate(s, Idle, others)
      /\ UNCHANGED <<users, root, apps, member, admitted, requests, failures>>
  BY <1>1, <1>2, <1>4, <1>5 DEF MarkInvite
<1>7. /\ Moves(s, l, Idle)
      /\ \A t \in Slot \ {s} : t \in others => request'[t].stale
  BY <1>1, <1>6, IdleSound, OutdateMoves DEF AccountsInv, Moves
<1>8. /\ status \in {"ACCEPTED", "DECLINED", "EXPIRED"} /\ (status = "ACCEPTED" <=> Marking(l))
  BY <1>3, <1>4 DEF Marking
<1>9. /\ \A w \in Invite : w # v => invite'[w] = invite[w]
      /\ invite[v] = None => invite'[v] = None
      /\ invite[v] # None => /\ invite'[v] \in InviteRow /\ invite'[v].status = status
                             /\ invite'[v].app = invite[v].app /\ invite'[v].to = invite[v].to
      /\ invite' \in [Invite -> InviteRow \cup {None}]
  <2>1. invite \in [Invite -> InviteRow \cup {None}]
    BY DEF AccountsInv, DatabaseOK
  <2>2. CASE invite[v] = None
    BY <1>6, <2>1, <2>2
  <2>3. CASE invite[v] # None
    <3>1. PICK row \in InviteRow : row = invite[v]
      BY <1>3, <2>1, <2>3
    <3>2. invite' = [invite EXCEPT ![v] = [row EXCEPT !.status = status]]
      BY <1>6, <2>3, <3>1
    <3>3. PICK new : new = [row EXCEPT !.status = status]
      OBVIOUS
    <3>4. new \in InviteRow /\ new.status = status /\ new.app = row.app /\ new.to = row.to
      BY <1>8, <3>1, <3>3 DEF InviteRow
    <3>5. QED
      BY <1>3, <2>1, <2>3, <3>1, <3>2, <3>3, <3>4
  <2>4. QED
    BY <2>2, <2>3
<1>10. invite'[v] # None => invite[v] # None /\ invite'[v].status = status
  BY <1>9
<1>11. DatabaseOK' /\ BoundsOK'
  <2>1. \A w \in Invite : invite'[w] # None => invite'[w].app \in apps' /\ invite'[w].to \in users'
    BY <1>6, <1>9 DEF AccountsInv, DatabaseOK
  <2>2. QED
    BY <1>6, <1>9, <2>1 DEF AccountsInv, DatabaseOK, BoundsOK
<1>12. \A b, w : Pending(b, w)' \subseteq Pending(b, w)
  BY <1>8, <1>9, <1>10 DEF Pending
<1>13. RequestsOK'
  <2>1. ASSUME NEW t \in Slot \ {s}, NEW r \in RequestRecord, r = request'[t]
        PROVE  RoleFound(r)' /\ InviteFound(r)'
    <3>1. PICK h : h = request[t]
      OBVIOUS
    <3>2. Typed(h) /\ RoleFound(h) /\ InviteFound(h) /\ Ages(h, r)
      BY <1>7, <2>1, <3>1, TheRequest DEF Moves
    <3>3. RoleFound(r)'
      BY <1>6, <3>2, RoleAges
    <3>4. ASSUME r.kind \in {"accept", "decline"}, r.pc \in {"join", "expire", "mark"},
                 ~Marking(r), ~r.stale
          PROVE  invite'[r.on] = None \/ invite'[r.on].status = "PENDING"
      <4>1. h.on = r.on /\ r.on \in Invite /\ h.kind = r.kind
        BY <3>2, <3>4 DEF Typed, Ages
      <4>2. t \notin others
        BY <1>7, <2>1, <3>4
      <4>3. r.on # v
        BY <1>5, <3>1, <3>4, <4>1, <4>2 DEF Answers
      <4>4. invite[h.on] = None \/ invite[h.on].status = "PENDING"
        BY <3>2, <3>4 DEF InviteFound, Ages, Marking
      <4>5. QED
        BY <1>9, <4>1, <4>3, <4>4
    <3>5. ASSUME r.kind = "invite", r.pc = "write", ~r.stale
          PROVE  Pending(r.app, r.on)' = {}
      <4>1. Pending(h.app, h.on) = {} /\ h.app = r.app /\ h.on = r.on
        BY <3>2, <3>5 DEF InviteFound, Ages
      <4>2. Pending(r.app, r.on)' = Pending(h.app, h.on)'
        BY <4>1 DEF Pending
      <4>3. QED
        BY <1>12, <4>1, <4>2
    <3>6. InviteFound(r)'
      BY <3>4, <3>5 DEF InviteFound, Marking
    <3>7. QED
      BY <3>3, <3>6
  <2>2. \A t \in Slot \ {s} : \A r \in RequestRecord :
          r = request'[t] => RoleFound(r)' /\ InviteFound(r)'
    BY <2>1
  <2>3. QED
    BY <1>6, <1>7, <2>2, IdleSound, RequestsKept
<1>14. excused \subseteq excused'
  BY <1>6
<1>15. RootsOK' /\ ApplicationsHaveOwners'
  BY <1>3, <1>6, <1>7, <1>14, IdleSound, RootsKept, OwnersKept
<1>16. OneInviteIsPending'
  BY <1>12, <1>14, PendingKept
<1>17. InvitesAdmitOnce'
  <2> SUFFICES ASSUME NEW w \in Invite, invite'[w] # None, <<"invite", w>> \notin excused'
               PROVE  /\ admitted'[w] <= 1
                      /\ admitted'[w] = 1 <=> \/ invite'[w].status = "ACCEPTED"
                                              \/ \E t \in Slot : AboutToMark(t, w)'
    BY DEF InvitesAdmitOnce
  <2>1. invite[w] # None
    BY <1>9, <1>10
  <2>2. /\ admitted[w] <= 1
        /\ admitted[w] = 1 <=> \/ invite[w].status = "ACCEPTED"
                               \/ \E t \in Slot : AboutToMark(t, w)
    BY <1>14, <2>1 DEF AccountsInv, InvitesAdmitOnce
  <2>3. \A t \in Slot \ {s} : AboutToMark(t, w) <=> AboutToMark(t, w)'
    BY <1>7, OtherMarkers
  <2>4. ~AboutToMark(s, w)'
    BY <1>7, IdleSound DEF AboutToMark, Ready, Moves
  <2>5. AboutToMark(s, w) <=> (Marking(l) /\ w = v)
    BY <1>1, <1>2 DEF AboutToMark, Ready, Marking
  <2>6. CASE w # v
    BY <1>6, <1>9, <2>2, <2>3, <2>4, <2>5, <2>6
  <2>7. CASE w = v /\ Marking(l)
    <3>1. admitted[w] = 1
      BY <2>2, <2>5, <2>7
    <3>2. invite'[w].status = "ACCEPTED"
      BY <1>8, <1>10, <2>7
    <3>3. QED
      BY <1>6, <3>1, <3>2
  <2>8. CASE w = v /\ ~Marking(l)
    <3>1. ~l.stale
      BY <1>6, <1>8, <2>8
    <3>2. invite[w].status = "PENDING"
      BY <1>2, <1>3, <2>1, <2>8, <3>1 DEF InviteFound
    <3>3. invite'[w].status # "ACCEPTED"
      BY <1>8, <1>10, <2>8
    <3>4. QED
      BY <1>6, <2>2, <2>3, <2>4, <2>5, <2>8, <3>2, <3>3
  <2>9. QED
    BY <2>6, <2>7, <2>8
<1>18. QED
  BY <1>11, <1>13, <1>15, <1>16, <1>17 DEF AccountsInv


LEMMA DropInviteKeeps ==
  ASSUME AccountsInv, NEW s \in Slot, DropInvite(s)
  PROVE  AccountsInv'
<1>1. PICK l : l = request[s]
  OBVIOUS
<1>2. /\ l \in RequestRecord /\ Typed(l) /\ ~Owning(l) /\ ~Rooting(l) /\ ~Marking(l) /\ l.on \in Invite
  BY <1>1, TheRequest DEF DropInvite, Ready, Typed, Rooting, Owning, Marking
<1>3. PICK others : others = {t \in Slot : Answers(t, request[s].on)}
  OBVIOUS
<1>4. /\ invite' = [invite EXCEPT ![l.on] = None]
      /\ Outdate(s, Idle, others)
      /\ UNCHANGED <<users, root, apps, member, admitted, excused, requests, failures>>
  BY <1>1, <1>3 DEF DropInvite
<1>5. Moves(s, l, Idle)
  BY <1>1, <1>4, IdleSound, OutdateMoves DEF AccountsInv, Moves
<1>6. /\ \A w \in Invite : invite'[w] = IF w = l.on THEN None ELSE invite[w]
      /\ invite' \in [Invite -> InviteRow \cup {None}]
  BY <1>2, <1>4 DEF AccountsInv, DatabaseOK
<1>7. FewerInvites /\ excused \subseteq excused'
  BY <1>4, <1>6 DEF FewerInvites
<1>8. DatabaseOK' /\ BoundsOK'
  BY <1>4, <1>6 DEF AccountsInv, DatabaseOK, BoundsOK
<1>9. RequestsOK'
  BY <1>4, <1>5, <1>7, IdleSound, FoundKept, RequestsKept
<1>10. RootsOK' /\ ApplicationsHaveOwners'
  BY <1>2, <1>4, <1>5, <1>7, IdleSound, RootsKept, OwnersKept
<1>11. InvitesAdmitOnce' /\ OneInviteIsPending'
  BY <1>2, <1>4, <1>5, <1>7, IdleSound, InvitesKept
<1>12. QED
  BY <1>8, <1>9, <1>10, <1>11 DEF AccountsInv

\* An invite that expires waits for its answer as before.
LEMMA ExpireKeeps ==
  ASSUME AccountsInv, NEW v \in Invite, Expire(v)
  PROVE  AccountsInv'
<1>1. /\ invite[v] # None /\ invite' = [invite EXCEPT ![v].expired = TRUE]
      /\ UNCHANGED <<users, root, apps, member, request, admitted, excused, requests, failures>>
  BY DEF Expire
<1>2. PICK row \in InviteRow : row = invite[v]
  BY <1>1 DEF AccountsInv, DatabaseOK
<1>3. PICK new : new = [row EXCEPT !.expired = TRUE]
  OBVIOUS
<1>4. new \in InviteRow /\ new.app = row.app /\ new.to = row.to /\ new.status = row.status
  BY <1>2, <1>3 DEF InviteRow
<1>5. /\ \A w \in Invite : /\ invite'[w] = None <=> invite[w] = None
                           /\ invite[w] # None => /\ invite'[w].app = invite[w].app
                                                  /\ invite'[w].to = invite[w].to
                                                  /\ invite'[w].status = invite[w].status
      /\ invite' \in [Invite -> InviteRow \cup {None}]
  <2>1. invite \in [Invite -> InviteRow \cup {None}] /\ invite' = [invite EXCEPT ![v] = new]
    BY <1>1, <1>2, <1>3 DEF AccountsInv, DatabaseOK
  <2>2. new # None
    BY <1>4, Nones
  <2>3. QED
    BY <1>1, <1>2, <1>4, <2>1, <2>2
<1>6. DatabaseOK' /\ BoundsOK'
  BY <1>1, <1>5 DEF AccountsInv, DatabaseOK, BoundsOK
<1>7. \A b, w : Pending(b, w)' = Pending(b, w)
  BY <1>5 DEF Pending
<1>8. RequestsOK'
  <2>1. ASSUME NEW t \in Slot, NEW r, r = request[t]
        PROVE  Typed(r)' /\ RoleFound(r)' /\ InviteFound(r)'
    <3>1. Typed(r) /\ RoleFound(r) /\ InviteFound(r)
      BY <2>1, TheRequest
    <3>2. Typed(r)' /\ RoleFound(r)'
      BY <1>1, <3>1 DEF Typed, RoleFound, Owners
    <3>3. InviteFound(r)'
      BY <1>5, <1>7, <3>1 DEF InviteFound, Marking, Typed
    <3>4. QED
      BY <3>2, <3>3
  <2>2. QED
    BY <1>1, <2>1 DEF AccountsInv, RequestsOK, Typed, RoleFound, InviteFound
<1>9. RootsOK' /\ ApplicationsHaveOwners'
  BY <1>1 DEF AccountsInv, RootsOK, Rooted, Rooting, Ready, ApplicationsHaveOwners, Owners, Becoming
<1>10. InvitesAdmitOnce'
  BY <1>1, <1>5 DEF AccountsInv, InvitesAdmitOnce, AboutToMark, Ready
<1>11. OneInviteIsPending'
  BY <1>1, <1>7, PendingKept
<1>12. QED
  BY <1>6, <1>8, <1>9, <1>10, <1>11 DEF AccountsInv


-----------------------------------------------------------------------------
(* The theorems                                                             *)

LEMMA InitKeeps == Init => AccountsInv
<1> SUFFICES ASSUME Init PROVE AccountsInv
  OBVIOUS
<1>1. /\ invite = [v \in Invite |-> None] /\ request = [s \in Slot |-> Idle]
      /\ admitted = [v \in Invite |-> 0] /\ excused = {} /\ requests = 0 /\ failures = 0
  BY DEF Init
<1>2. \/ /\ users = {} /\ root = {} /\ apps = {} /\ member = [a \in App |-> Nobody]
      \/ \E a \in App, r, u \in User :
           /\ r # u /\ users = User /\ root = {r} /\ apps = {a}
           /\ member = [b \in App |-> IF b = a THEN [Nobody EXCEPT ![r] = "OWNER", ![u] = "OWNER"]
                                               ELSE Nobody]
  BY DEF Init
<1>3. Nobody \in [User -> Role \cup {None}] /\ \A u \in User : Nobody[u] = None
  BY DEF Nobody
<1>4. /\ users \subseteq User /\ root \subseteq users /\ apps \subseteq App
      /\ member \in [App -> [User -> Role \cup {None}]]
      /\ \A a \in App, u \in User : member[a][u] # None => a \in apps /\ u \in users
      /\ ApplicationsHaveOwners
      /\ \A u, w \in root : u = w
      /\ users # {} => root # {}
  <2>1. CASE users = {} /\ root = {} /\ apps = {} /\ member = [a \in App |-> Nobody]
    BY <1>3, <2>1 DEF ApplicationsHaveOwners
  <2>2. ASSUME NEW a \in App, NEW r \in User, NEW u \in User,
               r # u, users = User, root = {r}, apps = {a},
               member = [b \in App |-> IF b = a THEN [Nobody EXCEPT ![r] = "OWNER", ![u] = "OWNER"]
                                                ELSE Nobody]
        PROVE  /\ users \subseteq User /\ root \subseteq users /\ apps \subseteq App
               /\ member \in [App -> [User -> Role \cup {None}]]
               /\ \A b \in App, w \in User : member[b][w] # None => b \in apps /\ w \in users
               /\ ApplicationsHaveOwners
               /\ \A v, w \in root : v = w
               /\ users # {} => root # {}
    <3>1. [Nobody EXCEPT ![r] = "OWNER", ![u] = "OWNER"] \in [User -> Role \cup {None}]
      BY <1>3 DEF Role
    <3>2. member \in [App -> [User -> Role \cup {None}]]
      BY <1>3, <2>2, <3>1
    <3>3. \A b \in App, w \in User : member[b][w] # None => b = a
      BY <1>3, <2>2
    <3>4. r \in Owners(a)
      BY <1>3, <2>2 DEF Owners
    <3>5. ApplicationsHaveOwners
      BY <2>2, <3>4 DEF ApplicationsHaveOwners
    <3>6. QED
      BY <2>2, <3>2, <3>3, <3>5
  <2>3. QED
    BY <1>2, <2>1, <2>2
<1>5. \A s \in Slot : request[s] = Idle
  BY <1>1
<1>6. DatabaseOK /\ BoundsOK
  BY <1>1, <1>4, AccountsAssumption DEF DatabaseOK, BoundsOK
<1>7. RequestsOK
  BY <1>1, <1>5, IdleSound DEF RequestsOK
<1>8. RootsOK
  <2>1. Rooted = root
    BY <1>5, IdleSound DEF Rooted
  <2>2. QED
    BY <1>4, <2>1 DEF RootsOK
<1>9. InvitesAdmitOnce
  BY <1>1 DEF InvitesAdmitOnce
<1>10. OneInviteIsPending
  <2>1. \A a \in App, u \in User : Pending(a, u) = {}
    BY <1>1 DEF Pending
  <2>2. QED
    BY <2>1, FS_EmptySet DEF OneInviteIsPending
<1>11. QED
  BY <1>4, <1>6, <1>7, <1>8, <1>9, <1>10 DEF AccountsInv

LEMMA StutterKeeps ==
  ASSUME AccountsInv, UNCHANGED vars
  PROVE  AccountsInv'
<1>1. /\ users' = users /\ root' = root /\ apps' = apps /\ member' = member /\ invite' = invite
      /\ request' = request /\ admitted' = admitted /\ excused' = excused
      /\ requests' = requests /\ failures' = failures
  BY DEF vars, database
<1>2. DatabaseOK' /\ BoundsOK'
  BY <1>1 DEF AccountsInv, DatabaseOK, BoundsOK
<1>3. RequestsOK'
  BY <1>1 DEF AccountsInv, RequestsOK, Typed, RoleFound, InviteFound, Owners, Pending, Marking
<1>4. RootsOK' /\ ApplicationsHaveOwners'
  BY <1>1 DEF AccountsInv, RootsOK, Rooted, Rooting, Ready, ApplicationsHaveOwners, Owners, Becoming
<1>5. InvitesAdmitOnce' /\ OneInviteIsPending'
  BY <1>1 DEF AccountsInv, InvitesAdmitOnce, AboutToMark, Ready, OneInviteIsPending, Pending
<1>6. QED
  BY <1>2, <1>3, <1>4, <1>5 DEF AccountsInv

LEMMA StepKeeps == AccountsInv /\ [Next]_vars => AccountsInv'
<1> SUFFICES ASSUME AccountsInv, [Next]_vars PROVE AccountsInv'
  OBVIOUS
<1>1. ASSUME NEW s \in Slot, Handle(s) PROVE AccountsInv'
  <2>1. CASE RegisterCount(s) \/ RegisterEmail(s)
    BY <2>1, RegisterReadKeeps
  <2>2. CASE RegisterCreate(s)
    BY <2>2, RegisterCreateKeeps
  <2>3. CASE RegisterRoot(s)
    BY <2>3, RegisterRootKeeps
  <2>4. CASE CreateApp(s)
    BY <2>4, CreateAppKeeps
  <2>5. CASE CreateOwner(s)
    BY <2>5, CreateOwnerKeeps
  <2>6. CASE DeleteApp(s)
    BY <2>6, DeleteAppKeeps
  <2>7. CASE FindMember(s) \/ CountOwners(s)
    BY <2>7, RoleReadKeeps
  <2>8. CASE WriteMember(s)
    BY <2>8, WriteMemberKeeps
  <2>9. CASE InviteCheckMember(s) \/ InviteCheckPending(s) \/ FindInvite(s)
    BY <2>9, InviteReadKeeps
  <2>10. CASE CreateInvite(s)
    BY <2>10, CreateInviteKeeps
  <2>11. CASE AcceptJoin(s)
    BY <2>11, AcceptJoinKeeps
  <2>12. CASE MarkInvite(s)
    BY <2>12, MarkInviteKeeps
  <2>13. CASE DropInvite(s)
    BY <2>13, DropInviteKeeps
  <2>14. QED
    BY <1>1, <2>1, <2>2, <2>3, <2>4, <2>5, <2>6, <2>7, <2>8, <2>9, <2>10, <2>11, <2>12, <2>13 DEF Handle
<1>2. ASSUME NEW s \in Slot, Arrive(s) PROVE AccountsInv'
  BY <1>2, ArriveKeeps
<1>3. ASSUME NEW s \in Slot, Fail(s) PROVE AccountsInv'
  BY <1>3, FailKeeps
<1>4. ASSUME NEW v \in Invite, Expire(v) PROVE AccountsInv'
  BY <1>4, ExpireKeeps
<1>5. CASE UNCHANGED vars
  BY <1>5, StutterKeeps
<1>6. QED
  BY <1>1, <1>2, <1>3, <1>4, <1>5 DEF Next

LEMMA Invariant == Spec => []AccountsInv
BY InitKeeps, StepKeeps, PTL DEF Spec

\* Types, and rows refer to rows that exist: whatever the requests in flight do, no
\* membership and no invite outlives its application or precedes its user.
THEOREM TypeCorrect == Spec => []TypeOK
<1>1. AccountsInv => TypeOK
  <2> SUFFICES ASSUME AccountsInv PROVE TypeOK
    OBVIOUS
  <2>1. DatabaseOK /\ BoundsOK
    BY DEF AccountsInv
  <2>2. \A s \in Slot : /\ request[s].kind \in Kind
                        /\ request[s].user \in User \cup {None} /\ request[s].app \in App \cup {None}
    BY TheRequest DEF RequestRecord
  <2>3. QED
    BY <2>1, <2>2 DEF TypeOK, DatabaseOK, BoundsOK
<1>2. QED
  BY <1>1, Invariant, PTL

\* Requests that interleave never take the last owner of an application, as long as
\* what each of them has read of its members is still so when it writes.
THEOREM AlwaysOwned == Spec => []ApplicationsHaveOwners
<1>1. AccountsInv => ApplicationsHaveOwners
  BY DEF AccountsInv
<1>2. QED
  BY <1>1, Invariant, PTL

\* The first user to register, and nobody else, is root, unless two who register both
\* count nobody, or the first registration stops before setRoot.
THEOREM OneRoot == Spec => []OnlyTheFirstUserIsRoot
<1>1. AccountsInv => OnlyTheFirstUserIsRoot
  <2>1. root \subseteq Rooted
    BY DEF Rooted
  <2>2. QED
    BY <2>1 DEF AccountsInv, RootsOK, OnlyTheFirstUserIsRoot
<1>2. QED
  BY <1>1, Invariant, PTL

\* An invite that is accepted makes one membership, unless the answers to it overlap.
THEOREM AdmittedOnce == Spec => []InvitesAdmitOnce
<1>1. AccountsInv => InvitesAdmitOnce
  BY DEF AccountsInv
<1>2. QED
  BY <1>1, Invariant, PTL

\* An application has one invite at most that waits for the answer of a user, unless
\* two invitations of that user overlap.
THEOREM OnePending == Spec => []OneInviteIsPending
<1>1. AccountsInv => OneInviteIsPending
  BY DEF AccountsInv
<1>2. QED
  BY <1>1, Invariant, PTL
=============================================================================
