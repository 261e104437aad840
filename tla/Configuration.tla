---------------------------- MODULE Configuration ----------------------------
(***************************************************************************)
(* The admin API as its clients see it: the rows it keeps, and what each   *)
(* operation of its services checks, writes and publishes.                 *)
(*                                                                         *)
(* There is one row of every kind, the one the pages below are about; a    *)
(* creation makes another one.  An operation is a record:                  *)
(*   role     what the caller must be: "any", "guest", "member", "owner"   *)
(*            or "creator" of the application (who is taken to be its      *)
(*            owner), or "root" of the platform                            *)
(*   needs    rows it looks for first (404 without them)                   *)
(*   forbids  rows that must not be there (400)                            *)
(*   writes   its commits, in order; nothing makes one transaction of them *)
(*   signals  whether it publishes a refresh signal at the end             *)
(*   probes   checkRpcConnection, whose writes depend on what it finds     *)
(* A read has shows instead: the kinds whose rows it lists.                *)
(***************************************************************************)
EXTENDS Naturals, Sequences

Kind == {"chain", "program", "event", "subscription", "webhook", "application",
         "membership", "member", "sentInvite", "myInvite", "apiKey", "log"}

\* "on": enabled, ACTIVE, OWNER (a membership), FAILED (a log), or just there.
\* "off": disabled, PAUSED, INACTIVE, MEMBER (a membership).
Status == {"on", "off", "none"}

\* onDelete: Cascade
Dependents(kind) ==
  CASE kind = "application" -> {"membership", "member", "sentInvite", "apiKey", "program",
                                "event", "subscription", "webhook", "log"}
    [] kind = "program" -> {"event", "subscription", "log"}
    [] kind = "webhook" -> {"subscription", "log"}
    [] kind = "subscription" -> {"log"}
    [] OTHER -> {}

\* Foreign keys a new row needs.
Parents(kind) ==
  CASE kind = "program" -> {"application", "chain"}
    [] kind = "subscription" -> {"event", "webhook"}
    [] kind \in {"webhook", "apiKey", "sentInvite"} -> {"application"}
    [] OTHER -> {}

Put(kind, to) == [kind |-> kind, to |-> to]
New(kind) == Put(kind, "new")
Touch(kind) == Put(kind, "same")
Delete(kind) == Put(kind, "none")

\* The row exists and the constraints hold.
Possible(rows, w) ==
  IF w.to = "new" THEN \A k \in Parents(w.kind) : rows[k] # "none"
  ELSE /\ rows[w.kind] # "none"
       /\ w = Delete("chain") => rows["program"] = "none"

Committed(rows, w) ==
  [k \in Kind |-> IF w.to = "none" /\ k \in Dependents(w.kind) \cup {w.kind} THEN "none"
                  ELSE IF k = w.kind /\ w.to \in Status THEN w.to ELSE rows[k]]

Touched(w) == {w.kind} \cup (IF w.to = "none" THEN Dependents(w.kind) ELSE {})

\* ApplicationsService.validateAccess
HasAccess(role, rows, root) ==
  \/ root
  \/ rows["membership"] \in
       CASE role = "owner" -> {"on"} [] role \in {"member", "guest"} -> {"on", "off"}

\* The guards of the controllers, and the rows looked for.
Admitted(op, rows, root) ==
  /\ \A k \in op.needs : rows[k] # "none"
  /\ \A k \in op.forbids : rows[k] = "none"
  /\ CASE op.role = "any" -> TRUE
       [] op.role = "root" -> root
       [] op.role = "creator" -> rows["membership"] = "on"
       [] OTHER -> HasAccess(op.role, rows, root)

Op(role, needs, writes, signals) ==
  [role |-> role, needs |-> needs, forbids |-> {}, writes |-> writes,
   signals |-> signals, probes |-> FALSE]
Read(role, needs, shows) ==
  [role |-> role, needs |-> needs, forbids |-> {}, shows |-> shows]

-----------------------------------------------------------------------------
(* The services.                                                            *)

ChainsFindAll == Read("any", {}, {"chain"})
ChainsFindAllAdmin == Read("root", {}, {"chain"})
ChainsCreate == Op("root", {}, <<New("chain")>>, TRUE)
ChainsUpdate(to) == Op("root", {"chain"}, <<Put("chain", to)>>, TRUE)
ChainsRemove == [Op("root", {"chain"}, <<Delete("chain")>>, TRUE) EXCEPT !.forbids = {"program"}]
ChainsCheckRpc == [Op("root", {"chain"}, <<>>, TRUE) EXCEPT !.probes = TRUE]

\* What checkRpcConnection writes: it decides on the row it read before it called
\* the node, and whether the node answered.
Probed(rows, reachable) ==
  CASE reachable /\ rows["chain"] = "off" -> <<Put("chain", "on")>>
    [] ~reachable /\ rows["chain"] = "on" -> <<Put("chain", "off")>>
    [] OTHER -> <<>>

ProgramsFindAll == Read("guest", {}, {"program"})
ProgramsFindOne == Read("guest", {"program"}, {"program"})
ProgramsCreate == Op("member", {"chain"}, <<New("program"), New("event")>>, TRUE)
ProgramsRemove == Op("member", {"program"}, <<Delete("program")>>, TRUE)
ProgramsVerify == Op("any", {}, <<>>, FALSE)
EventsFindAll == Read("any", {}, {"event"})

SubscriptionsFindAll == Read("guest", {}, {"subscription"})
SubscriptionsFindOne == Read("any", {"subscription"}, {"subscription"})
SubscriptionsCreate == Op("member", {}, <<New("subscription")>>, TRUE)
SubscriptionsUpdate(to) == Op("any", {"subscription"}, <<Put("subscription", to)>>, TRUE)
SubscriptionsRemove == Op("any", {"subscription"}, <<Delete("subscription")>>, TRUE)

WebhooksFindAll == Read("guest", {}, {"webhook"})
WebhooksFindOne == Read("guest", {"webhook"}, {"webhook"})
WebhooksCreate == Op("member", {}, <<New("webhook")>>, FALSE)
WebhooksUpdate(to) == Op("member", {"webhook"}, <<Put("webhook", to)>>, FALSE)
WebhooksRemove == Op("member", {"webhook"}, <<Delete("webhook")>>, FALSE)
WebhooksTest == Op("member", {"webhook"}, <<>>, FALSE)
WebhooksHealthCheck == Op("guest", {"webhook"}, <<>>, FALSE)

LogsFindByWebhook == Read("any", {}, {"log"})
LogsDailyStats == Read("any", {}, {})
LogsRetry == Op("any", {"log"}, <<>>, FALSE)

ApplicationsFindAll == Read("any", {}, {"application"})
ApplicationsFindOne == Read("guest", {"application"}, {"application", "membership"})
ApplicationsCreate == Op("any", {}, <<New("application"), New("membership")>>, FALSE)
ApplicationsUpdate == Op("owner", {"application"}, <<Touch("application")>>, FALSE)
ApplicationsRemove == Op("owner", {"application"}, <<Delete("application")>>, FALSE)
ApplicationStatistics == Read("creator", {"application"}, {})

MembersGet == Read("guest", {}, {"member"})
MembersInvite == Op("owner", {"application"}, <<New("sentInvite")>>, FALSE)
MembersUpdateRole == Op("owner", {"member"}, <<Touch("member")>>, FALSE)
MembersRemove == Op("owner", {"member"}, <<Delete("member")>>, FALSE)
\* The route of removeMember answers first and refuses "me".
MembersLeave == [Op("any", {}, <<>>, FALSE) EXCEPT !.forbids = {"application"}]
InvitesGet == Read("owner", {}, {"sentInvite"})
InvitesCancel == Op("owner", {"sentInvite"}, <<Delete("sentInvite")>>, FALSE)
\* An invitation to another application.
InvitesPending == Read("any", {}, {"myInvite"})
InvitesAccept == Op("any", {"myInvite"}, <<New("application"), Delete("myInvite")>>, FALSE)
InvitesDecline == Op("any", {"myInvite"}, <<Delete("myInvite")>>, FALSE)

ApiKeysFindAll == Read("member", {}, {"apiKey"})
ApiKeysCreate == Op("owner", {}, <<New("apiKey")>>, FALSE)
ApiKeysRevoke == Op("owner", {"apiKey"}, <<Touch("apiKey")>>, FALSE)

DashboardQuery == Read("any", {}, {})
IngestorInstances == Read("any", {}, {})
DispatcherInstances == Read("any", {}, {})
IngestorRebalance == Op("root", {}, <<>>, FALSE)
DispatcherRebalance == Op("root", {}, <<>>, FALSE)

\* IngestorService.getActiveSubscriptions: does the tracked subscription take part?
Active(rows) == \A k \in {"chain", "program", "subscription", "webhook"} : rows[k] = "on"
=============================================================================
