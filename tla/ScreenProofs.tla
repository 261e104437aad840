---------------------------- MODULE ScreenProofs ----------------------------
(***************************************************************************)
(* Theorems about Console that rest on what its pages mount and offer:     *)
(* what a page shows, and what comes of the requests it offers.            *)
(***************************************************************************)
EXTENDS ConsoleProofs

-----------------------------------------------------------------------------
(* The pages and the hooks.                                                 *)

\* What some page offers.
OfferedMutation ==
  {useAcceptInvite, useDeclineInvite, useCreateApplication, useUpdateApplication,
   useDeleteApplication, useCreateApiKey, useRevokeApiKey, useInviteMember, useUpdateMemberRole,
   useRemoveMember, useLeaveApplication, useCancelInvite, useCreateProgram, useDeleteProgram,
   useVerifyContract, useCreateSubscription, useUpdateSubscription("on"),
   useUpdateSubscription("off"), useUpdateSubscription("same"), useDeleteSubscription,
   useCreateWebhook, useUpdateWebhook("on"), useUpdateWebhook("off"), useDeleteWebhook,
   useTestWebhook, checkWebhookHealth, useRetryWebhookLog, useCreateChain, useUpdateChain("on"),
   useUpdateChain("off"), useUpdateChain("same"), useDeleteChain, useCheckChainRpc,
   useRebalanceIngestors, useRebalanceDispatchers}

LEMMA OffersOfScreens ==
  ASSUME NEW r \in BOOLEAN, NEW p \in Page, NEW offer \in Pages[r][p].offers
  PROVE  offer.mutation \in OfferedMutation
<1> DEFINE Fine(screen) == \A o \in screen.offers : o.mutation \in OfferedMutation
<1>1. \A o \in NotificationBell : o.mutation \in OfferedMutation
  BY DEF NotificationBell, Offer, OfferedMutation
<1>2. Fine(Pages[r]["dashboard"])
  BY <1>1 DEF Pages, DashboardPage, Screen
<1>3. Fine(Pages[r]["applications"])
  BY <1>1 DEF Pages, ApplicationsPage, CreateApplicationDialog, Screen, Offer, OfferedMutation
<1>4. Fine(Pages[r]["overview"])
  BY <1>1 DEF Pages, ApplicationOverviewPage, CreateApiKeyDialog, Screen, AppPage, Reached, Offer,
              OfferedMutation
<1>5. Fine(Pages[r]["members"])
  BY <1>1 DEF Pages, MembersPage, InviteMemberDialog, Screen, AppPage, Reached, Offer, OfferedMutation
<1>6. Fine(Pages[r]["programs"])
  BY <1>1 DEF Pages, ProgramsPage, Screen, AppPage, Reached, Offer, OfferedMutation
<1>7. Fine(Pages[r]["newProgram"])
  BY <1>1 DEF Pages, CreateProgramDialog, Screen, AppPage, Reached, Offer, OfferedMutation
<1>8. Fine(Pages[r]["subscriptions"])
  BY <1>1 DEF Pages, SubscriptionsPage, Screen, AppPage, Reached, Offer, OfferedMutation
<1>9. Fine(Pages[r]["newSubscription"])
  BY <1>1 DEF Pages, CreateSubscriptionDialog, Screen, AppPage, Reached, Offer, OfferedMutation
<1>10. Fine(Pages[r]["webhooks"])
  BY <1>1 DEF Pages, WebhooksPage, CreateWebhookDialog, Screen, AppPage, Reached, Offer, OfferedMutation
<1>11. Fine(Pages[r]["settings"])
  BY <1>1 DEF Pages, SettingsPage, Screen, AppPage, Reached, Offer, OfferedMutation
<1>12. Fine(Pages[r]["program"])
  BY <1>1 DEF Pages, ProgramDetailPage, Screen, Reached
<1>13. Fine(Pages[r]["subscription"])
  BY <1>1 DEF Pages, SubscriptionDetailPage, Screen, Reached, Offer, OfferedMutation
<1>14. Fine(Pages[r]["webhook"])
  <2>1. \A o \in EditWebhookDialog : o.mutation \in OfferedMutation
    BY DEF EditWebhookDialog, Offer, OfferedMutation
  <2>2. QED
    BY <1>1, <2>1 DEF Pages, WebhookDetailPage, Screen, Reached, Offer, OfferedMutation
<1>15. Fine(Pages[r]["chains"])
  <2>1. Pages[r]["chains"] = ChainsPage(r)
    BY DEF Pages
  <2>2. ASSUME NEW o \in ChainsPage(r).offers \ NotificationBell
        PROVE  o.mutation \in {useCreateChain, useUpdateChain("on"), useUpdateChain("off"),
                              useUpdateChain("same"), useDeleteChain, useCheckChainRpc}
    <3>1. r = TRUE
      BY <2>2 DEF ChainsPage, Screen
    <3>2. QED
      BY <2>2, <3>1 DEF ChainsPage, CreateChainDialog, EditChainDialog, Screen, Offer
  <2>3. QED
    BY <1>1, <2>1, <2>2 DEF OfferedMutation
<1>16. Fine(Pages[r]["ingestors"])
  BY <1>1 DEF Pages, IngestorsPage, Screen, Offer, OfferedMutation
<1>17. Fine(Pages[r]["dispatchers"])
  BY <1>1 DEF Pages, DispatchersPage, Screen, Offer, OfferedMutation
<1>18. Fine(Pages[r]["login"])
  BY DEF Pages, LoginPage
<1>19. Fine(Pages[r][p])
  BY ThePages, <1>2, <1>3, <1>4, <1>5, <1>6, <1>7, <1>8, <1>9, <1>10, <1>11, <1>12, <1>13, <1>14,
     <1>15, <1>16, <1>17, <1>18 DEF PageNames
<1>20. QED
  BY <1>19

\* The rows an operation may write.
Writes(op) == {op.writes[i] : i \in DOMAIN op.writes}
              \cup (IF op.probes THEN {Put("chain", "on"), Put("chain", "off")} ELSE {})

LEMMA KeyPrefixes ==
  ASSUME NEW a, NEW b, NEW c
  PROVE  /\ IsPrefix(<<a, b>>, <<a, b>>) /\ IsPrefix(<<a, b>>, <<a, b, c>>)
         /\ IsPrefix(<<a, b, c>>, <<a, b, c>>)
<1>1. PICK s : s = <<a, b>>
  OBVIOUS
<1>2. PICK t : t = <<a, b, c>>
  OBVIOUS
<1>3. s \in Seq({a, b, c}) /\ Len(s) = 2 /\ s[1] = a /\ s[2] = b
  BY <1>1
<1>4. t \in Seq({a, b, c}) /\ Len(t) = 3 /\ t[1] = a /\ t[2] = b
  BY <1>2
<1>5. SubSeq(s, 1, 2) = SubSeq(t, 1, 2)
  BY <1>3, <1>4
<1>6. QED
  BY <1>1, <1>2, <1>3, <1>4, <1>5 DEF IsPrefix

LEMMA TheShows ==
  /\ useApplications("100").read.shows = {"application"}
  /\ useApplications("20").read.shows = {"application"}
  /\ useApplications("5").read.shows = {"application"}
  /\ useApplication.read.shows = {"application", "membership"}
  /\ useApplicationStats.read.shows = {}
  /\ useChains.read.shows = {"chain"}
  /\ useChainsAdmin.read.shows = {"chain"}
  /\ usePrograms("20").read.shows = {"program"}
  /\ usePrograms("100").read.shows = {"program"}
  /\ useProgram.read.shows = {"program"}
  /\ useEvents("20").read.shows = {"event"}
  /\ useEvents("100").read.shows = {"event"}
  /\ useSubscriptions.read.shows = {"subscription"}
  /\ useSubscription.read.shows = {"subscription"}
  /\ useWebhooks("20").read.shows = {"webhook"}
  /\ useWebhooks("100").read.shows = {"webhook"}
  /\ useWebhook.read.shows = {"webhook"}
  /\ Polled(useWebhookLogs).read.shows = {"log"}
  /\ Polled(useWebhookLogStats).read.shows = {}
  /\ useMembers.read.shows = {"member"}
  /\ useInvites.read.shows = {"sentInvite"}
  /\ useMyPendingInvites.read.shows = {"myInvite"}
  /\ useApiKeys.read.shows = {"apiKey"}
  /\ useDashboardStats.read.shows = {}
  /\ useDailyEventStats.read.shows = {}
  /\ useTopApplications.read.shows = {}
  /\ useIngestorInstances.read.shows = {}
  /\ useDispatcherInstances.read.shows = {}
BY DEF useApplications, useApplication, useApplicationStats, useChains, useChainsAdmin,
       usePrograms, useProgram, useEvents, useSubscription, useSubscriptions, useWebhooks,
       useWebhook, useWebhookLogs, useWebhookLogStats, useMembers, useInvites,
       useMyPendingInvites, useApiKeys, useDashboardStats, useDailyEventStats, useTopApplications,
       useIngestorInstances, useDispatcherInstances, Query, Polled,
       applicationsApi, chainsApi, programsApi, eventsApi, subscriptionsApi, webhooksApi, logsApi,
       membersApi, apiKeysApi, dashboardApi, ingestorApi, dispatcherApi, Read,
       ApplicationsFindAll, ApplicationsFindOne, ApplicationStatistics, ChainsFindAll, ChainsFindAllAdmin,
       ProgramsFindAll, ProgramsFindOne, EventsFindAll, SubscriptionsFindAll, SubscriptionsFindOne,
       WebhooksFindAll, WebhooksFindOne, LogsFindByWebhook, LogsDailyStats, MembersGet, InvitesGet,
       InvitesPending, ApiKeysFindAll, DashboardQuery, IngestorInstances, DispatcherInstances

\* key is the one of a query that shows rows of kind k.
Shows(k, key) ==
  \/ k = "chain" /\ key \in {<<"chains", "list">>, <<"chains", "admin", "list">>}
  \/ k = "program" /\ key \in {<<"programs", "list", "20">>, <<"programs", "list", "100">>,
                                 <<"programs", "detail">>}
  \/ k = "event" /\ key \in {<<"events", "list", "20">>, <<"events", "list", "100">>}
  \/ k = "subscription" /\ key \in {<<"subscriptions", "list", "20">>, <<"subscriptions", "detail">>}
  \/ k = "webhook" /\ key \in {<<"webhooks", "list", "20">>, <<"webhooks", "list", "100">>,
                                 <<"webhooks", "detail">>}
  \/ k = "application" /\ key \in {<<"applications", "list", "100">>, <<"applications", "list", "20">>,
                                     <<"applications", "list", "5">>, <<"applications", "detail">>}
  \/ k = "membership" /\ key = <<"applications", "detail">>
  \/ k = "member" /\ key = <<"members", "list">>
  \/ k = "sentInvite" /\ key = <<"invites", "list">>
  \/ k = "myInvite" /\ key = <<"invites", "pending">>
  \/ k = "apiKey" /\ key = <<"api-keys", "list", "20">>
  \/ k = "log" /\ key = <<"webhook-logs", "list", "20">>

LEMMA ShownIn ==
  ASSUME NEW q \in MountedQuery, NEW k \in q.read.shows
  PROVE  Shows(k, q.key)
<1> DEFINE Listed(x) == x \in MountedQuery /\ k \in x.read.shows => Shows(k, x.key)
<1>1. Listed(useApplications("100")) /\ Listed(useApplications("20")) /\ Listed(useApplications("5"))
  BY TheKeys, TheShows DEF Shows
<1>2. Listed(useApplication) /\ Listed(useApplicationStats) /\ Listed(useChains) /\ Listed(useChainsAdmin)
  BY TheKeys, TheShows DEF Shows
<1>3. Listed(usePrograms("20")) /\ Listed(usePrograms("100")) /\ Listed(useProgram)
  BY TheKeys, TheShows DEF Shows
<1>4. Listed(useEvents("20")) /\ Listed(useEvents("100"))
  BY TheKeys, TheShows DEF Shows
<1>5. Listed(useSubscriptions) /\ Listed(useSubscription)
  BY TheKeys, TheShows DEF Shows
<1>6. Listed(useWebhooks("20")) /\ Listed(useWebhooks("100")) /\ Listed(useWebhook)
  BY TheKeys, TheShows DEF Shows
<1>7. Listed(Polled(useWebhookLogs)) /\ Listed(Polled(useWebhookLogStats))
  BY TheKeys, TheShows DEF Shows
<1>8. Listed(useMembers) /\ Listed(useInvites) /\ Listed(useMyPendingInvites) /\ Listed(useApiKeys)
  BY TheKeys, TheShows DEF Shows
<1>9. Listed(useDashboardStats) /\ Listed(useDailyEventStats) /\ Listed(useTopApplications)
  BY TheKeys, TheShows DEF Shows
<1>10. Listed(useIngestorInstances) /\ Listed(useDispatcherInstances)
  BY TheKeys, TheShows DEF Shows
<1>11. QED
  BY <1>1, <1>2, <1>3, <1>4, <1>5, <1>6, <1>7, <1>8, <1>9, <1>10, SMTT(60) DEF MountedQuery

\* Its writes in order, and the queries it invalidates.
Does(mu, writes, keys) ==
  mu.op.writes = writes /\ mu.op.probes = FALSE /\ keys \subseteq mu.invalidates

LEMMA TheMutations ==
  /\ Does(useAcceptInvite, <<New("application"), Delete("myInvite")>>,
          {<<"invites", "pending">>, <<"applications", "list">>})
  /\ Does(useDeclineInvite, <<Delete("myInvite")>>, {<<"invites", "pending">>})
  /\ Does(useCreateApplication, <<New("application"), New("membership")>>,
          {<<"applications", "list">>})
  /\ Does(useUpdateApplication, <<Touch("application")>>,
          {<<"applications", "detail">>, <<"applications", "list">>})
  /\ Does(useDeleteApplication, <<Delete("application")>>, {<<"applications", "list">>})
  /\ Does(useCreateApiKey, <<New("apiKey")>>, {<<"api-keys", "list">>})
  /\ Does(useRevokeApiKey, <<Touch("apiKey")>>, {<<"api-keys", "list">>})
  /\ Does(useInviteMember, <<New("sentInvite")>>, {<<"members", "list">>, <<"invites", "list">>})
  /\ Does(useUpdateMemberRole, <<Touch("member")>>, {<<"members", "list">>})
  /\ Does(useRemoveMember, <<Delete("member")>>, {<<"members", "list">>})
  /\ Does(useLeaveApplication, <<>>, {<<"applications", "list">>})
  /\ Does(useCancelInvite, <<Delete("sentInvite")>>, {<<"invites", "list">>})
  /\ Does(useCreateProgram, <<New("program"), New("event")>>, {<<"programs", "list">>})
  /\ Does(useDeleteProgram, <<Delete("program")>>, {<<"programs", "list">>})
  /\ Does(useVerifyContract, <<>>, {})
  /\ Does(useCreateSubscription, <<New("subscription")>>, {<<"subscriptions", "list">>})
  /\ Does(useUpdateSubscription("on"), <<Put("subscription", "on")>>,
          {<<"subscriptions", "detail">>, <<"subscriptions", "list">>})
  /\ Does(useUpdateSubscription("off"), <<Put("subscription", "off")>>,
          {<<"subscriptions", "detail">>, <<"subscriptions", "list">>})
  /\ Does(useUpdateSubscription("same"), <<Put("subscription", "same")>>,
          {<<"subscriptions", "detail">>, <<"subscriptions", "list">>})
  /\ Does(useDeleteSubscription, <<Delete("subscription")>>, {<<"subscriptions", "list">>})
  /\ Does(useCreateWebhook, <<New("webhook")>>, {<<"webhooks", "list">>})
  /\ Does(useUpdateWebhook("on"), <<Put("webhook", "on")>>,
          {<<"webhooks", "detail">>, <<"webhooks", "list">>})
  /\ Does(useUpdateWebhook("off"), <<Put("webhook", "off")>>,
          {<<"webhooks", "detail">>, <<"webhooks", "list">>})
  /\ Does(useDeleteWebhook, <<Delete("webhook")>>, {<<"webhooks", "list">>})
  /\ Does(useTestWebhook, <<>>, {})
  /\ Does(checkWebhookHealth, <<>>, {})
  /\ Does(useRetryWebhookLog, <<>>, {<<"webhook-logs", "list">>})
  /\ Does(useCreateChain, <<New("chain")>>, ChainLists)
  /\ Does(useUpdateChain("on"), <<Put("chain", "on")>>, ChainLists)
  /\ Does(useUpdateChain("off"), <<Put("chain", "off")>>, ChainLists)
  /\ Does(useUpdateChain("same"), <<Put("chain", "same")>>, ChainLists)
  /\ Does(useDeleteChain, <<Delete("chain")>>, ChainLists)
  /\ useCheckChainRpc.op.writes = <<>> /\ useCheckChainRpc.op.probes = TRUE
     /\ ChainLists \subseteq useCheckChainRpc.invalidates
  /\ Does(useRebalanceIngestors, <<>>, {})
  /\ Does(useRebalanceDispatchers, <<>>, {})
BY DEF Does, Mutation, Op, useAcceptInvite, membersApi, InvitesAccept, useDeclineInvite,
       InvitesDecline, useInviteMember, MembersInvite, useUpdateMemberRole, MembersUpdateRole,
       useRemoveMember, MembersRemove, useLeaveApplication, MembersLeave, useCancelInvite,
       InvitesCancel, useCreateApplication, applicationsApi, ApplicationsCreate,
       useUpdateApplication, ApplicationsUpdate, useDeleteApplication, ApplicationsRemove,
       useCreateApiKey, apiKeysApi, ApiKeysCreate, useRevokeApiKey, ApiKeysRevoke,
       useCreateProgram, programsApi, ProgramsCreate, useDeleteProgram, ProgramsRemove,
       useVerifyContract, ProgramsVerify, useCreateSubscription, subscriptionsApi,
       SubscriptionsCreate, useUpdateSubscription, SubscriptionsUpdate, Statuses,
       useDeleteSubscription, SubscriptionsRemove, useCreateWebhook, webhooksApi, WebhooksCreate,
       useUpdateWebhook, WebhooksUpdate, useDeleteWebhook, WebhooksRemove, useTestWebhook,
       WebhooksTest, checkWebhookHealth, WebhooksHealthCheck, useRetryWebhookLog, logsApi,
       LogsRetry, useCreateChain, chainsApi, ChainsCreate, useUpdateChain, ChainsUpdate,
       useDeleteChain, ChainsRemove, useCheckChainRpc, ChainsCheckRpc, useRebalanceIngestors,
       ingestorApi, IngestorRebalance, useRebalanceDispatchers, dispatcherApi, DispatcherRebalance

\* What an operation may write, however the probe of the node turns out, is what its
\* answer speaks for.
LEMMA WritesAndSubject ==
  ASSUME NEW c
  PROVE  Subject(c) = {w.kind : w \in Writes(c.of.op)}
<1>1. Put("chain", "on").kind = "chain" /\ Put("chain", "off").kind = "chain"
  BY DEF Put
<1>2. QED
  BY <1>1 DEF Subject, Writes

LEMMA SmallWrites ==
  ASSUME NEW op, op.probes = FALSE, NEW v, NEW w
  PROVE  /\ op.writes = <<>> => Writes(op) = {}
         /\ op.writes = <<w>> => Writes(op) = {w}
         /\ op.writes = <<v, w>> => Writes(op) = {v, w}
BY DEF Writes

\* A mutation invalidates the queries that show what it writes, but for the page of what
\* it deletes.
Thorough(mu) ==
  \A q \in MountedQuery, v \in Writes(mu.op), w \in Writes(mu.op) :
    w.kind \in Changed(q, v) => Matching(mu.invalidates, q.key) \/ (q.key[2] = "detail" /\ v.to = "none")

\* keys reach what shows rows of kind k, but for pages of a row that is new or gone.
Reaches(keys, k, to) ==
  \A q \in MountedQuery : k \in q.read.shows =>
    Matching(keys, q.key) \/ (q.key[2] = "detail" /\ to \in {"new", "none"})

LEMMA Reaching ==
  ASSUME NEW keys
  PROVE  /\ ChainLists \subseteq keys => \A to : Reaches(keys, "chain", to)
         /\ \A to \in {"new", "none"} :
              /\ <<"programs", "list">> \in keys => Reaches(keys, "program", to)
              /\ <<"subscriptions", "list">> \in keys => Reaches(keys, "subscription", to)
              /\ <<"webhooks", "list">> \in keys => Reaches(keys, "webhook", to)
              /\ <<"applications", "list">> \in keys => Reaches(keys, "application", to)
              /\ Reaches(keys, "membership", to)
         /\ \A to :
              /\ {<<"subscriptions", "list">>, <<"subscriptions", "detail">>} \subseteq keys =>
                   Reaches(keys, "subscription", to)
              /\ {<<"webhooks", "list">>, <<"webhooks", "detail">>} \subseteq keys =>
                   Reaches(keys, "webhook", to)
              /\ {<<"applications", "list">>, <<"applications", "detail">>} \subseteq keys =>
                   Reaches(keys, "application", to)
              /\ <<"members", "list">> \in keys => Reaches(keys, "member", to)
              /\ <<"invites", "list">> \in keys => Reaches(keys, "sentInvite", to)
              /\ <<"invites", "pending">> \in keys => Reaches(keys, "myInvite", to)
              /\ <<"api-keys", "list">> \in keys => Reaches(keys, "apiKey", to)
<1>1. ASSUME NEW a, NEW b, <<a, b>> \in keys
      PROVE  Matching(keys, <<a, b>>) /\ \A c : Matching(keys, <<a, b, c>>)
  BY <1>1, KeyPrefixes DEF Matching
<1>2. <<"chains", "admin", "list">> \in keys => Matching(keys, <<"chains", "admin", "list">>)
  BY KeyPrefixes DEF Matching
<1>3. ChainLists \subseteq keys => \A to : Reaches(keys, "chain", to)
  BY <1>1, <1>2, ShownIn DEF Shows, Reaches, ChainLists
<1> DEFINE Hit(k, a) == \A q \in MountedQuery : k \in q.read.shows =>
                          Matching(keys, q.key) \/ q.key = <<a, "detail">>
<1>4. /\ <<"programs", "list">> \in keys => Hit("program", "programs")
      /\ <<"subscriptions", "list">> \in keys => Hit("subscription", "subscriptions")
      /\ <<"webhooks", "list">> \in keys => Hit("webhook", "webhooks")
      /\ <<"applications", "list">> \in keys => Hit("application", "applications")
      /\ Hit("membership", "applications")
  <2>1. ASSUME NEW q \in MountedQuery, NEW k \in q.read.shows
        PROVE  /\ k = "program" /\ <<"programs", "list">> \in keys =>
                    Matching(keys, q.key) \/ q.key = <<"programs", "detail">>
               /\ k = "subscription" /\ <<"subscriptions", "list">> \in keys =>
                    Matching(keys, q.key) \/ q.key = <<"subscriptions", "detail">>
               /\ k = "webhook" /\ <<"webhooks", "list">> \in keys =>
                    Matching(keys, q.key) \/ q.key = <<"webhooks", "detail">>
               /\ k = "application" /\ <<"applications", "list">> \in keys =>
                    Matching(keys, q.key) \/ q.key = <<"applications", "detail">>
               /\ k = "membership" => q.key = <<"applications", "detail">>
    <3>1. Shows(k, q.key)
      BY <2>1, ShownIn
    <3>2. QED
      BY <1>1, <3>1 DEF Shows
  <2>2. QED
    BY <2>1
<1>5. ASSUME NEW k, NEW a, Hit(k, a)
      PROVE  /\ \A to \in {"new", "none"} : Reaches(keys, k, to)
             /\ <<a, "detail">> \in keys => \A to : Reaches(keys, k, to)
  <2>1. <<a, "detail">>[2] = "detail"
    OBVIOUS
  <2>2. QED
    BY <1>1, <1>5, <2>1 DEF Reaches
<1>6. \A to : /\ <<"members", "list">> \in keys => Reaches(keys, "member", to)
              /\ <<"invites", "list">> \in keys => Reaches(keys, "sentInvite", to)
              /\ <<"invites", "pending">> \in keys => Reaches(keys, "myInvite", to)
              /\ <<"api-keys", "list">> \in keys => Reaches(keys, "apiKey", to)
  BY <1>1, ShownIn DEF Shows, Reaches
<1>7. QED
  BY <1>3, <1>4, <1>5, <1>6

LEMMA OneWrite ==
  ASSUME NEW mu, NEW k, NEW to, mu.op.probes = FALSE, mu.op.writes = <<Put(k, to)>>,
         Reaches(mu.invalidates, k, to)
  PROVE  Thorough(mu)
<1>1. Writes(mu.op) = {Put(k, to)}
  BY SmallWrites
<1>2. ASSUME NEW q \in MountedQuery, k \in Changed(q, Put(k, to))
      PROVE  Matching(mu.invalidates, q.key) \/ (q.key[2] = "detail" /\ to = "none")
  <2>1. k \in q.read.shows /\ ~(to = "new" /\ q.key[2] = "detail")
    BY <1>2 DEF Changed, Put
  <2>2. QED
    BY <2>1 DEF Reaches
<1>3. QED
  BY <1>1, <1>2 DEF Thorough, Put

LEMMA TwoWrites ==
  ASSUME NEW mu, NEW v, NEW w, mu.op.probes = FALSE, mu.op.writes = <<v, w>>,
         Touched(v) = {v.kind}, Touched(w) = {w.kind}, v.kind # w.kind,
         Reaches(mu.invalidates, v.kind, v.to),
         Reaches(mu.invalidates, w.kind, w.to) \/ (w.kind = "event" /\ w.to = "new")
  PROVE  Thorough(mu)
<1>1. Writes(mu.op) = {v, w}
  BY DEF Writes
<1>2. ASSUME NEW x \in {v, w}, NEW y \in {v, w}, NEW q \in MountedQuery, y.kind \in Changed(q, x)
      PROVE  Matching(mu.invalidates, q.key) \/ (q.key[2] = "detail" /\ x.to = "none")
  <2>1. x = y /\ x.kind \in q.read.shows /\ ~(x.to = "new" /\ (q.key[2] = "detail" \/ x.kind = "event"))
    BY <1>2 DEF Changed
  <2>2. QED
    BY <2>1 DEF Reaches
<1>3. QED
  BY <1>1, <1>2, Zenon DEF Thorough

\* Every mutation that a page offers is thorough.
LEMMA MutationsAreThorough == \A mu \in OfferedMutation : Thorough(mu)
<1>1. ASSUME NEW mu, NEW keys, Does(mu, <<>>, keys)
      PROVE  Thorough(mu)
  BY <1>1, SmallWrites DEF Does, Thorough
<1>2. ASSUME NEW mu, NEW k, NEW to, NEW keys, Does(mu, <<Put(k, to)>>, keys), Reaches(keys, k, to)
      PROVE  Thorough(mu)
  <2>1. Reaches(mu.invalidates, k, to)
    BY <1>2 DEF Does, Reaches, Matching
  <2>2. QED
    BY <1>2, <2>1, OneWrite DEF Does
<1>3. Thorough(useLeaveApplication) /\ Thorough(useVerifyContract) /\ Thorough(useTestWebhook)
      /\ Thorough(checkWebhookHealth) /\ Thorough(useRetryWebhookLog)
      /\ Thorough(useRebalanceIngestors) /\ Thorough(useRebalanceDispatchers)
  BY <1>1, TheMutations
<1>4. \A to : /\ Reaches({<<"invites", "pending">>}, "myInvite", to)
              /\ Reaches({<<"invites", "list">>}, "sentInvite", to)
              /\ Reaches({<<"members", "list">>, <<"invites", "list">>}, "sentInvite", to)
              /\ Reaches({<<"members", "list">>}, "member", to)
              /\ Reaches({<<"api-keys", "list">>}, "apiKey", to)
              /\ Reaches(ChainLists, "chain", to)
  BY Reaching
<1>5. /\ Thorough(useDeclineInvite) /\ Thorough(useInviteMember) /\ Thorough(useUpdateMemberRole)
      /\ Thorough(useRemoveMember) /\ Thorough(useCancelInvite)
      /\ Thorough(useCreateApiKey) /\ Thorough(useRevokeApiKey)
  BY <1>2, <1>4, TheMutations DEF New, Touch, Delete
<1>6. /\ Thorough(useCreateChain) /\ Thorough(useUpdateChain("on"))
      /\ Thorough(useUpdateChain("off")) /\ Thorough(useUpdateChain("same"))
      /\ Thorough(useDeleteChain)
  BY <1>2, <1>4, TheMutations DEF New, Delete
<1>7. /\ \A to \in {"new", "none"} :
           /\ Reaches({<<"programs", "list">>}, "program", to)
           /\ Reaches({<<"subscriptions", "list">>}, "subscription", to)
           /\ Reaches({<<"webhooks", "list">>}, "webhook", to)
           /\ Reaches({<<"applications", "list">>}, "application", to)
      /\ \A to :
           /\ Reaches({<<"subscriptions", "detail">>, <<"subscriptions", "list">>}, "subscription", to)
           /\ Reaches({<<"webhooks", "detail">>, <<"webhooks", "list">>}, "webhook", to)
           /\ Reaches({<<"applications", "detail">>, <<"applications", "list">>}, "application", to)
  BY Reaching
<1>8. /\ Thorough(useUpdateApplication) /\ Thorough(useDeleteApplication) /\ Thorough(useDeleteProgram)
  BY <1>2, <1>7, TheMutations DEF Touch, Delete
<1>9. /\ Thorough(useCreateSubscription) /\ Thorough(useDeleteSubscription)
      /\ Thorough(useUpdateSubscription("on")) /\ Thorough(useUpdateSubscription("off"))
      /\ Thorough(useUpdateSubscription("same"))
  BY <1>2, <1>7, TheMutations DEF New, Delete
<1>10. /\ Thorough(useCreateWebhook) /\ Thorough(useDeleteWebhook)
       /\ Thorough(useUpdateWebhook("on")) /\ Thorough(useUpdateWebhook("off"))
  BY <1>2, <1>7, TheMutations DEF New, Delete
<1> DEFINE Single(w) == Touched(w) = {w.kind}
<1>11. Thorough(useCreateApplication)
  <2>1. PICK v, w : v = New("application") /\ w = New("membership")
    OBVIOUS
  <2>2. /\ Single(v) /\ v.kind = "application" /\ v.to = "new"
        /\ Single(w) /\ w.kind = "membership" /\ w.to = "new"
    BY <2>1 DEF New, Put, Touched
  <2>3. Does(useCreateApplication, <<v, w>>, {<<"applications", "list">>})
    BY <2>1, TheMutations
  <2>4. /\ Reaches(useCreateApplication.invalidates, v.kind, v.to)
        /\ Reaches(useCreateApplication.invalidates, w.kind, w.to)
    BY <2>2, <2>3, Reaching DEF Does
  <2>5. QED
    BY <2>2, <2>3, <2>4, TwoWrites DEF Does
<1>12. Thorough(useCreateProgram)
  <2>1. PICK v, w : v = New("program") /\ w = New("event")
    OBVIOUS
  <2>2. Single(v) /\ Single(w) /\ v.kind = "program" /\ v.to = "new" /\ w.kind = "event" /\ w.to = "new"
    BY <2>1 DEF New, Put, Touched
  <2>3. Does(useCreateProgram, <<v, w>>, {<<"programs", "list">>})
    BY <2>1, TheMutations
  <2>4. Reaches(useCreateProgram.invalidates, v.kind, v.to)
    BY <2>2, <2>3, Reaching DEF Does
  <2>5. QED
    BY <2>2, <2>3, <2>4, TwoWrites DEF Does
<1>13. Thorough(useAcceptInvite)
  <2>1. PICK v, w : v = New("application") /\ w = Delete("myInvite")
    OBVIOUS
  <2>2. Single(v) /\ Single(w) /\ v.kind = "application" /\ v.to = "new" /\ w.kind = "myInvite" /\ w.to = "none"
    BY <2>1 DEF New, Delete, Put, Touched, Dependents
  <2>3. Does(useAcceptInvite, <<v, w>>, {<<"invites", "pending">>, <<"applications", "list">>})
    BY <2>1, TheMutations
  <2>4. /\ Reaches(useAcceptInvite.invalidates, "application", "new")
        /\ Reaches(useAcceptInvite.invalidates, "myInvite", "none")
    BY <2>3, Reaching DEF Does
  <2>5. QED
    BY <2>2, <2>3, <2>4, TwoWrites DEF Does
<1>14. Thorough(useCheckChainRpc)
  <2>1. Writes(useCheckChainRpc.op) = {Put("chain", "on"), Put("chain", "off")}
    BY TheMutations DEF Writes
  <2>2. Reaches(useCheckChainRpc.invalidates, "chain", "on")
    BY TheMutations, Reaching
  <2>3. ASSUME NEW v \in {Put("chain", "on"), Put("chain", "off")}, NEW q \in MountedQuery,
               NEW k \in Changed(q, v)
        PROVE  k \in q.read.shows /\ k = "chain"
    BY <2>3 DEF Changed, Touched, Put
  <2>4. ASSUME NEW q \in MountedQuery, "chain" \in q.read.shows
        PROVE  Matching(useCheckChainRpc.invalidates, q.key)
    BY <2>2, <2>4 DEF Reaches
  <2>5. ASSUME NEW q \in MountedQuery, NEW v \in Writes(useCheckChainRpc.op), NEW k \in Changed(q, v)
        PROVE  Matching(useCheckChainRpc.invalidates, q.key)
    BY <2>1, <2>3, <2>4
  <2>6. QED
    BY <2>5 DEF Thorough
<1>15. QED
  BY <1>3, <1>4, <1>5, <1>6, <1>7, <1>8, <1>9, <1>10, <1>11, <1>12, <1>13, <1>14 DEF OfferedMutation

-----------------------------------------------------------------------------
(* What a page shows.                                                       *)

\* The page of a row that is gone, for good.
Gone(q, k) == q.key[2] = "detail" /\ Now[k] = "none"
\* A mutation has written, and its answer will invalidate the query.
Tells(c, k, key) ==
  /\ c.kind = "mutation" /\ c.heard /\ c.wrote /\ c.pc \in {"running", "publishing", "done"}
  /\ k \in Subject(c) /\ Matching(c.of.invalidates, key)
Excused(q, k) == k \in swept \/ Gone(q, k) \/ \E c \in calls : Tells(c, k, q.key)
\* What the query shows is as commit i left it, but for what is excused.
UpToDate(q, i) == \A j \in i + 1 .. Len(db) : \A k \in Changed(q, db[j].by) : Excused(q, k)

EntriesFit ==
  \A q \in MountedQuery : Known(q) =>
    cache[q.key].slipped \/ cache[q.key].invalid \/ UpToDate(q, cache[q.key].at)
CallsFit == \A c \in calls : FetchFor(c) => c.late \/ UpToDate(c.of, c.from)
\* What is shown although it was invalidated is being fetched, or could not be.
MountedFetched ==
  \A q \in Mounted(page) : Known(q) /\ cache[q.key].invalid => Fetching(q) \/ cache[q.key].failed

\* A call is of a query that some page mounts or of a mutation that some page offers, and
\* has only writes of its operation before it.
OfItsPage(c) ==
  IF c.kind = "query" THEN c.of \in MountedQuery
  ELSE /\ c.of \in OfferedMutation
       /\ c.pc = "running" => c.todo \in Seq(Writes(c.of.op)) /\ c.todo # <<>>
OfOK == \A c \in calls : OfItsPage(c)

ShowInv == OfOK /\ EntriesFit /\ CallsFit /\ MountedFetched

\* What a step has to keep: the excuses.
Keeps == \A q \in MountedQuery : \A i \in 0 .. Len(db) : UpToDate(q, i) => UpToDate(q, i)'
StillTold ==
  \A c \in calls : \A k, key : Tells(c, k, key) => k \in swept' \/ \E d \in calls' : Tells(d, k, key)

LEMMA KindsShown ==
  ASSUME NEW q \in MountedQuery, NEW w, NEW k \in Changed(q, w)
  PROVE  k \in Kind /\ k \in Touched(w)
<1>1. k \in Touched(w) /\ k \in q.read.shows
  BY DEF Changed
<1>2. Shows(k, q.key)
  BY <1>1, ShownIn
<1>3. QED
  BY <1>1, <1>2 DEF Shows, Kind

\* No commit brings a row back.
LEMMA GoneStays ==
  ASSUME NEW rows, NEW w, Possible(rows, w), NEW k \in Kind, rows[k] = "none"
  PROVE  Committed(rows, w)[k] = "none"
BY DEF Possible, Committed, Status

LEMMA QuietKeeps ==
  ASSUME UNCHANGED db, swept \subseteq swept', StillTold
  PROVE  Keeps
<1>1. ASSUME NEW q, NEW k, Excused(q, k)
      PROVE  Excused(q, k)'
  <2>1. Now' = Now
    BY DEF Now
  <2>2. CASE \E c \in calls : Tells(c, k, q.key)
    BY <2>2 DEF StillTold, Excused
  <2>3. CASE k \in swept \/ Gone(q, k)
    BY <2>1, <2>3 DEF Excused, Gone
  <2>4. QED
    BY <1>1, <2>2, <2>3 DEF Excused
<1>2. QED
  BY <1>1 DEF Keeps, UpToDate

LEMMA CommitKeeps ==
  ASSUME DbOK, NEW w, NEW subject, Commit(w, subject), Possible(Now, w), StillTold,
         \A q \in MountedQuery : \A k \in Changed(q, w) : Excused(q, k)'
  PROVE  Keeps
<1>1. PICK x : x = [rows |-> Committed(Now, w), by |-> w]
  OBVIOUS
<1>2. db' = Append(db, x) /\ swept \subseteq swept'
  BY <1>1 DEF Commit
<1>3. Len(db') = Len(db) + 1 /\ Now' = Committed(Now, w) /\ \A i \in 1 .. Len(db) : db'[i] = db[i]
  BY <1>1, <1>2, Appended
<1>4. db'[Len(db) + 1].by = w /\ Len(db) \in Nat
  BY <1>1, <1>2 DEF DbOK
<1>5. ASSUME NEW q \in MountedQuery, NEW k \in Kind, Excused(q, k)
      PROVE  Excused(q, k)'
  <2>1. CASE \E c \in calls : Tells(c, k, q.key)
    BY <2>1 DEF StillTold, Excused
  <2>2. CASE Gone(q, k)
    BY <1>3, <2>2, GoneStays DEF Excused, Gone
  <2>3. QED
    BY <1>2, <1>5, <2>1, <2>2 DEF Excused
<1>6. ASSUME NEW q \in MountedQuery, NEW i \in 0 .. Len(db), UpToDate(q, i)
      PROVE  UpToDate(q, i)'
  <2>1. ASSUME NEW j \in i + 1 .. Len(db) + 1, NEW k \in Changed(q, db'[j].by)
        PROVE  Excused(q, k)'
    <3>1. CASE j = Len(db) + 1
      BY <1>4, <2>1, <3>1
    <3>2. CASE j # Len(db) + 1
      <4>1. j \in i + 1 .. Len(db) /\ j \in 1 .. Len(db)
        BY <1>4, <3>2
      <4>2. Excused(q, k) /\ k \in Kind
        BY <1>3, <1>6, <2>1, <4>1, KindsShown DEF UpToDate
      <4>3. QED
        BY <1>5, <4>2
    <3>3. QED
      BY <3>1, <3>2
  <2>2. QED
    BY <1>3, <2>1 DEF UpToDate
<1>7. QED
  BY <1>6 DEF Keeps

LEMMA EntriesKept ==
  ASSUME EntriesFit, CacheOK, Keeps,
         \A k \in DOMAIN cache' : cache'[k].at > 0 =>
           /\ k \in DOMAIN cache /\ cache'[k].at = cache[k].at
           /\ cache[k].slipped => cache'[k].slipped
           /\ cache[k].invalid => cache'[k].invalid
  PROVE  EntriesFit'
<1>1. ASSUME NEW q \in MountedQuery, Known(q)'
      PROVE  (cache[q.key].slipped \/ cache[q.key].invalid \/ UpToDate(q, cache[q.key].at))'
  <2>1. Known(q) /\ cache'[q.key].at = cache[q.key].at
    BY <1>1 DEF Known
  <2>2. PICK i : i = cache[q.key].at /\ i \in 0 .. Len(db)
    BY <2>1 DEF Known, CacheOK, EntryFits
  <2>3. CASE UpToDate(q, i)
    <3>1. UpToDate(q, i)'
      BY <2>2, <2>3 DEF Keeps
    <3>2. QED
      BY <2>1, <2>2, <3>1
  <2>4. CASE ~UpToDate(q, i)
    BY <1>1, <2>1, <2>2, <2>4 DEF EntriesFit, Known
  <2>5. QED
    BY <2>3, <2>4
<1>2. QED
  BY <1>1 DEF EntriesFit

LEMMA CallsKept ==
  ASSUME CallsFit, OfOK, CallsOK, Grows, Keeps,
         \A e \in calls' : FetchFor(e) =>
           \/ e.late \/ e.from = Len(db')
           \/ \E c \in calls : FetchFor(c) /\ c.of = e.of /\ c.from = e.from /\ c.late = e.late
  PROVE  CallsFit'
<1>1. ASSUME NEW e \in calls', FetchFor(e), ~e.late
      PROVE  UpToDate(e.of, e.from)'
  <2>1. CASE e.from = Len(db')
    BY <2>1 DEF UpToDate, Grows
  <2>2. ASSUME NEW c \in calls, FetchFor(c), c.of = e.of, c.from = e.from, c.late = e.late
        PROVE  UpToDate(e.of, e.from)'
    <3>1. c.of \in MountedQuery /\ c.from \in 0 .. Len(db)
      BY <2>2 DEF OfOK, OfItsPage, FetchFor, CallsOK, Fits
    <3>2. UpToDate(c.of, c.from)
      BY <1>1, <2>2 DEF CallsFit
    <3>3. UpToDate(c.of, c.from)'
      BY <3>1, <3>2 DEF Keeps
    <3>4. QED
      BY <2>2, <3>3
  <2>3. QED
    BY <1>1, <2>1, <2>2
<1>2. QED
  BY <1>1 DEF CallsFit

-----------------------------------------------------------------------------
(* What the steps of a call do to it.                                       *)

\* The call c goes on as d.
LEMMA MoveShows ==
  ASSUME ShowInv, CallsOK, CacheOK, Grows, Keeps, NEW c \in calls, NEW d, Move(c, d), Same(c, d),
         FetchFor(c) => d.late = c.late /\ (d.from = c.from \/ d.from = Len(db')),
         OfItsPage(d), UNCHANGED <<root, page, cache>>
  PROVE  ShowInv'
<1>1. EntriesFit'
  BY EntriesKept DEF ShowInv
<1>2. CallsFit'
  <2>1. ASSUME NEW e \in calls', FetchFor(e)
        PROVE  \/ e.late \/ e.from = Len(db')
               \/ \E b \in calls : FetchFor(b) /\ b.of = e.of /\ b.from = e.from /\ b.late = e.late
    <3>1. CASE e \in calls
      BY <2>1, <3>1
    <3>2. CASE e = d
      BY <2>1, <3>2 DEF Same, FetchFor
    <3>3. QED
      BY <3>1, <3>2 DEF Move
  <2>2. QED
    BY <2>1, CallsKept DEF ShowInv
<1>3. OfOK'
  BY DEF ShowInv, OfOK, Move
<1>4. \A q : Fetching(q) => Fetching(q)'
  BY DEF Fetching, Move, Same
<1>5. MountedFetched'
  BY <1>4 DEF ShowInv, MountedFetched, Mounted, Known
<1>6. QED
  BY <1>1, <1>2, <1>3, <1>5 DEF ShowInv

LEMMA MoveTells ==
  ASSUME NEW c \in calls, NEW d, Move(c, d),
         \A k, key : Tells(c, k, key) => k \in swept' \/ Tells(d, k, key)
  PROVE  StillTold
<1>1. ASSUME NEW b \in calls, NEW k, NEW key, Tells(b, k, key)
      PROVE  k \in swept' \/ \E e \in calls' : Tells(e, k, key)
  <2>1. CASE b = c
    BY <1>1, <2>1 DEF Move
  <2>2. CASE b # c
    BY <1>1, <2>2 DEF Move
  <2>3. QED
    BY <2>1, <2>2
<1>2. QED
  BY <1>1 DEF StillTold

\* A step of a call that has nothing to tell yet.
LEMMA SilentMove ==
  ASSUME ShowInv, CallsOK, CacheOK, Grows, NEW c \in calls, NEW d, Move(c, d), Same(c, d),
         c.pc \notin {"running", "publishing", "done"}, OfItsPage(d),
         FetchFor(c) => d.late = c.late /\ (d.from = c.from \/ d.from = Len(db)),
         UNCHANGED <<root, page, cache, db>>, swept \subseteq swept'
  PROVE  ShowInv'
<1>1. StillTold
  BY MoveTells DEF Tells
<1>2. QED
  BY <1>1, QuietKeeps, MoveShows

\* The interceptor, while the tokens are renewed.
LEMMA RenewalShows ==
  ASSUME ShowInv, CallsOK, CacheOK, Grows, NEW c \in calls,
         \/ CheckRefreshToken(c) \/ RotateTokens(c) \/ RenewalFails(c) \/ SetTokens(c)
         \/ Intercept(c) /\ ~SignOut(c)
  PROVE  ShowInv'
<1>1. IsCall(c) /\ OfItsPage(c)
  BY DEF CallsOK, Fits, ShowInv, OfOK
<1>2. PICK d : /\ Move(c, d) /\ Same(c, d) /\ d.late = c.late /\ d.pc # "running"
               /\ c.kind = "query" => d.from = c.from \/ d.from = Len(db)
  <2>1. CASE CheckRefreshToken(c) \/ RenewalFails(c)
    <3>1. PICK pc \in {"rejected", "checked"} : Move(c, [c EXCEPT !.pc = pc])
      BY <2>1, Zenon DEF CheckRefreshToken, RenewalFails
    <3>2. QED
      BY <1>1, <3>1 DEF Same, IsCall, CallField
  <2>2. CASE RotateTokens(c)
    <3>1. PICK n : Move(c, [c EXCEPT !.pc = "renewed", !.holds = n])
      BY <2>2, Zenon DEF RotateTokens
    <3>2. PICK d : d = [c EXCEPT !.pc = "renewed", !.holds = n]
      OBVIOUS
    <3>3. Same(c, d) /\ d.late = c.late /\ d.pc # "running" /\ d.from = c.from
      BY <1>1, <3>2 DEF Same, IsCall, CallField
    <3>4. QED
      BY <3>1, <3>2, <3>3
  <2>3. CASE SetTokens(c)
    <3>1. PICK t, from : /\ Move(c, [c EXCEPT !.pc = "sent", !.token = t, !.holds = 0, !.from = from])
                         /\ from = (IF c.kind = "query" THEN Len(db) ELSE 0)
      BY <2>3, Zenon DEF SetTokens, Resend
    <3>2. PICK d : d = [c EXCEPT !.pc = "sent", !.token = t, !.holds = 0, !.from = from]
      OBVIOUS
    <3>3. Same(c, d) /\ d.late = c.late /\ d.pc # "running" /\ d.from = from
      BY <1>1, <3>2 DEF Same, IsCall, CallField
    <3>4. QED
      BY <3>1, <3>2, <3>3
  <2>4. CASE Intercept(c) /\ ~SignOut(c)
    <3>1. \/ Move(c, [c EXCEPT !.pc = "failed"])
          \/ Move(c, [c EXCEPT !.pc = "renewing", !.again = TRUE, !.holds = tokens])
      BY <2>4, Zenon DEF Intercept
    <3>2. PICK d : /\ Move(c, d)
                   /\ \/ d = [c EXCEPT !.pc = "failed"]
                      \/ d = [c EXCEPT !.pc = "renewing", !.again = TRUE, !.holds = tokens]
      BY <3>1
    <3>3. Same(c, d) /\ d.late = c.late /\ d.pc # "running" /\ d.from = c.from
      BY <1>1, <3>2 DEF Same, IsCall, CallField
    <3>4. QED
      BY <3>2, <3>3
  <2>5. QED
    BY <2>1, <2>2, <2>3, <2>4
<1>3. OfItsPage(d)
  BY <1>1, <1>2 DEF OfItsPage, Same
<1>4. UNCHANGED <<root, page, cache, db, swept>> /\ c.pc \notin {"running", "publishing", "done"}
  <2>1. CASE CheckRefreshToken(c) \/ RotateTokens(c) \/ RenewalFails(c) \/ SetTokens(c)
    BY <2>1 DEF CheckRefreshToken, RotateTokens, RenewalFails, SetTokens, browser, server, history
  <2>2. CASE Intercept(c) /\ ~SignOut(c)
    BY <2>2 DEF Intercept, browser, server
  <2>3. QED
    BY <2>1, <2>2
<1>5. QED
  BY <1>2, <1>3, <1>4, SilentMove DEF FetchFor

-----------------------------------------------------------------------------
(* A mutation in its handler.                                               *)

\* What a handler has to write is a sequence of writes of its operation.
LEMMA WritesInOrder ==
  ASSUME NEW mu \in OfferedMutation
  PROVE  mu.op.writes \in Seq(Writes(mu.op))
<1> DEFINE Short(m) == m.op.writes \in Seq(Writes(m.op))
<1>1. ASSUME NEW m, m.op.writes = <<>>
      PROVE  Short(m)
  BY <1>1
<1>2. ASSUME NEW m, NEW w, NEW keys, Does(m, <<w>>, keys)
      PROVE  Short(m)
  <2>1. Writes(m.op) = {w} /\ m.op.writes = <<w>>
    BY <1>2, SmallWrites DEF Does
  <2>2. QED
    BY <2>1
<1>3. ASSUME NEW m, NEW v, NEW w, NEW keys, Does(m, <<v, w>>, keys)
      PROVE  Short(m)
  <2>1. Writes(m.op) = {v, w} /\ m.op.writes = <<v, w>>
    BY <1>3 DEF Does, Writes
  <2>2. QED
    BY <2>1
<1>4. /\ Short(useLeaveApplication) /\ Short(useVerifyContract) /\ Short(useTestWebhook)
      /\ Short(checkWebhookHealth) /\ Short(useRetryWebhookLog) /\ Short(useCheckChainRpc)
      /\ Short(useRebalanceIngestors) /\ Short(useRebalanceDispatchers)
  BY <1>1, TheMutations DEF Does
<1>5. /\ Short(useDeclineInvite) /\ Short(useUpdateApplication) /\ Short(useDeleteApplication)
      /\ Short(useCreateApiKey) /\ Short(useRevokeApiKey) /\ Short(useInviteMember)
      /\ Short(useUpdateMemberRole) /\ Short(useRemoveMember) /\ Short(useCancelInvite)
  BY <1>2, TheMutations
<1>6. /\ Short(useDeleteProgram) /\ Short(useCreateSubscription) /\ Short(useUpdateSubscription("on"))
      /\ Short(useUpdateSubscription("off")) /\ Short(useUpdateSubscription("same"))
      /\ Short(useDeleteSubscription)
      /\ Short(useCreateWebhook) /\ Short(useUpdateWebhook("on")) /\ Short(useUpdateWebhook("off"))
  BY <1>2, TheMutations
<1>7. /\ Short(useDeleteWebhook) /\ Short(useCreateChain) /\ Short(useUpdateChain("on"))
      /\ Short(useUpdateChain("off")) /\ Short(useUpdateChain("same")) /\ Short(useDeleteChain)
  BY <1>2, TheMutations
<1>8. /\ Short(useAcceptInvite) /\ Short(useCreateApplication) /\ Short(useCreateProgram)
  BY <1>3, TheMutations
<1>9. \A m \in OfferedMutation : Short(m)
  BY <1>4, <1>5, <1>6, <1>7, <1>8 DEF OfferedMutation
<1>10. QED
  BY <1>9

LEMMA ProbedInOrder ==
  ASSUME NEW op, op.probes, NEW rows, NEW reachable \in BOOLEAN
  PROVE  Probed(rows, reachable) \in Seq(Writes(op))
<1>1. Put("chain", "on") \in Writes(op) /\ Put("chain", "off") \in Writes(op)
  BY DEF Writes
<1>2. Probed(rows, reachable) \in {<<>>, <<Put("chain", "on")>>, <<Put("chain", "off")>>}
  BY DEF Probed
<1>3. ASSUME NEW S, NEW x \in S
      PROVE  <<x>> \in Seq(S) /\ <<>> \in Seq(S)
  OBVIOUS
<1>4. QED
  BY <1>1, <1>2, <1>3

LEMMA FindShows ==
  ASSUME ShowInv, CallsOK, CacheOK, Grows, NEW c \in calls, Find(c)
  PROVE  ShowInv'
<1>1. IsCall(c) /\ c.kind = "mutation" /\ c.pc = "sent" /\ c.of \in OfferedMutation
  BY DEF Find, CallsOK, Fits, ShowInv, OfOK, OfItsPage
<1>2. UNCHANGED <<root, page, cache, db, swept>>
  BY DEF Find, browser, server, history
<1>3. CASE Move(c, [c EXCEPT !.pc = "failed"])
  <2>1. PICK d : d = [c EXCEPT !.pc = "failed"]
    OBVIOUS
  <2>2. Same(c, d) /\ OfItsPage(d)
    BY <1>1, <2>1 DEF Same, IsCall, CallField, OfItsPage
  <2>3. QED
    BY <1>1, <1>2, <1>3, <2>1, <2>2, SilentMove DEF FetchFor
<1>4. CASE ~Move(c, [c EXCEPT !.pc = "failed"])
  <2>1. PICK reachable \in BOOLEAN :
          LET todo == IF c.of.op.probes THEN Probed(Now, reachable) ELSE c.of.op.writes
          IN  Move(c, [c EXCEPT !.todo = todo, !.pc = IF todo = <<>> THEN "done" ELSE "running"])
    BY <1>4, Zenon DEF Find
  <2>2. PICK todo : todo = (IF c.of.op.probes THEN Probed(Now, reachable) ELSE c.of.op.writes)
    OBVIOUS
  <2>3. PICK pc : pc = (IF todo = <<>> THEN "done" ELSE "running")
    OBVIOUS
  <2>4. PICK d : d = [c EXCEPT !.todo = todo, !.pc = pc]
    OBVIOUS
  <2>5. Move(c, d)
    BY <2>1, <2>2, <2>3, <2>4
  <2>6. todo \in Seq(Writes(c.of.op))
    <3>1. CASE c.of.op.probes
      BY <2>2, <3>1, ProbedInOrder
    <3>2. CASE ~c.of.op.probes
      BY <1>1, <2>2, <3>2, WritesInOrder
    <3>3. QED
      BY <3>1, <3>2
  <2>7. Same(c, d) /\ d.pc = pc /\ d.todo = todo
    BY <1>1, <2>4 DEF Same, IsCall, CallField
  <2>8. OfItsPage(d)
    BY <1>1, <2>3, <2>6, <2>7 DEF Same, OfItsPage
  <2>9. QED
    BY <1>1, <1>2, <2>5, <2>7, <2>8, SilentMove DEF FetchFor
<1>5. QED
  BY <1>3, <1>4

LEMMA PublishShows ==
  ASSUME ShowInv, CallsOK, CacheOK, Grows, NEW c \in calls, Publish(c) \/ HandlerFails(c)
  PROVE  ShowInv'
<1>1. /\ IsCall(c) /\ c.kind = "mutation" /\ c.of \in OfferedMutation
      /\ c.pc \in {"running", "publishing"}
  BY DEF Publish, HandlerFails, CallsOK, Fits, ShowInv, OfOK, OfItsPage
<1>2. UNCHANGED <<root, page, cache, db>>
  BY DEF Publish, HandlerFails, browser, server
<1>3. PICK d : /\ Move(c, d) /\ Same(c, d) /\ d.wrote = c.wrote
               /\ d.pc = "done" \/ (d.pc = "failed" /\ Left(c) \subseteq swept')
               /\ swept \subseteq swept'
  <2>1. CASE Publish(c)
    <3>1. PICK d : d = [c EXCEPT !.pc = "done"]
      OBVIOUS
    <3>2. QED
      BY <1>1, <2>1, <3>1 DEF Publish, history, Same, IsCall, CallField
  <2>2. CASE HandlerFails(c)
    <3>1. PICK pc \in {"done", "failed"} : Move(c, [c EXCEPT !.pc = pc, !.todo = <<>>])
      BY <2>2, Zenon DEF HandlerFails
    <3>2. PICK d : d = [c EXCEPT !.pc = pc, !.todo = <<>>]
      OBVIOUS
    <3>3. Same(c, d) /\ d.wrote = c.wrote /\ d.pc = pc
      BY <1>1, <3>2 DEF Same, IsCall, CallField
    <3>4. swept' = swept \cup Left(c)
      BY <2>2 DEF HandlerFails
    <3>5. QED
      BY <3>1, <3>2, <3>3, <3>4
  <2>3. QED
    BY <2>1, <2>2
<1>4. OfItsPage(d)
  BY <1>1, <1>3 DEF OfItsPage, Same
<1>5. \A k, key : Tells(c, k, key) => k \in swept' \/ Tells(d, k, key)
  BY <1>3 DEF Tells, Same, Left, Subject
<1>6. Keeps
  BY <1>2, <1>3, <1>5, MoveTells, QuietKeeps
<1>7. QED
  BY <1>1, <1>2, <1>3, <1>4, <1>6, MoveShows DEF FetchFor

\* A write of this browser: its answer will tell every query that shows what it changed,
\* but for pages of what it deleted; what it changed beside that is swept.
LEMMA WriteExcuses ==
  ASSUME DbOK, OfOK, NEW c \in calls, c.kind = "mutation", NEW w \in Writes(c.of.op),
         Commit(w, IF c.heard THEN Subject(c) ELSE {}),
         NEW d \in calls', Same(c, d), d.wrote = TRUE, d.pc \in {"running", "publishing", "done"},
         NEW q \in MountedQuery, NEW k \in Changed(q, w)
  PROVE  Excused(q, k)'
<1>1. k \in Kind /\ k \in Touched(w)
  BY KindsShown
<1>2. swept' = swept \cup (Touched(w) \ (IF c.heard THEN Subject(c) ELSE {}))
  BY DEF Commit
<1>3. CASE c.heard /\ k \in Subject(c)
  <2>1. PICK v \in Writes(c.of.op) : v.kind = k
    BY <1>3, WritesAndSubject
  <2>2. Matching(c.of.invalidates, q.key) \/ (q.key[2] = "detail" /\ w.to = "none")
    <3>1. Thorough(c.of)
      BY MutationsAreThorough DEF OfOK, OfItsPage
    <3>2. QED
      BY <2>1, <3>1 DEF Thorough
  <2>3. CASE Matching(c.of.invalidates, q.key)
    <3>1. Tells(d, k, q.key)
      BY <1>3, <2>3 DEF Tells, Same, Subject
    <3>2. QED
      BY <3>1 DEF Excused
  <2>4. CASE q.key[2] = "detail" /\ w.to = "none"
    <3>1. Now' = Committed(Now, w)
      <4>1. PICK x : x = [rows |-> Committed(Now, w), by |-> w]
        OBVIOUS
      <4>2. db' = Append(db, x)
        BY <4>1 DEF Commit
      <4>3. QED
        BY <4>1, <4>2, Appended
    <3>2. k \in Dependents(w.kind) \cup {w.kind}
      BY <1>1, <2>4 DEF Touched
    <3>3. Now'[k] = "none"
      BY <1>1, <2>4, <3>1, <3>2 DEF Committed
    <3>4. QED
      BY <2>4, <3>3 DEF Excused, Gone
  <2>5. QED
    BY <2>2, <2>3, <2>4
<1>4. CASE ~(c.heard /\ k \in Subject(c))
  BY <1>1, <1>2, <1>4 DEF Excused
<1>5. QED
  BY <1>3, <1>4

LEMMA WriteShows ==
  ASSUME ShowInv, DbOK, CallsOK, CacheOK, Grows, NEW c \in calls, Write(c)
  PROVE  ShowInv'
<1>1. /\ IsCall(c) /\ c.kind = "mutation" /\ c.of \in OfferedMutation /\ c.pc = "running"
      /\ c.todo \in Seq(Writes(c.of.op)) /\ c.todo # <<>>
  BY DEF Write, CallsOK, Fits, ShowInv, OfOK, OfItsPage
<1>2. UNCHANGED <<root, page, cache>>
  BY DEF Write, browser
<1>3. PICK w, todo : w = Head(c.todo) /\ todo = Tail(c.todo)
  OBVIOUS
<1>4. w \in Writes(c.of.op) /\ todo \in Seq(Writes(c.of.op))
  <2>1. ASSUME NEW S, NEW s \in Seq(S), s # <<>>
        PROVE  Head(s) \in S /\ Tail(s) \in Seq(S)
    BY <2>1
  <2>2. QED
    BY <1>1, <1>3, <2>1
<1>5. CASE Possible(Now, w)
  <2>1. PICK b : b = [c EXCEPT !.todo = todo, !.wrote = TRUE]
    OBVIOUS
  <2>2. Same(c, b) /\ IsCall(b) /\ b.todo = todo /\ b.wrote = TRUE /\ b.pc = "running"
    BY <1>1, <2>1 DEF Same, IsCall, CallField
  <2>3. PICK d : d = (IF b.todo = <<>> THEN [b EXCEPT !.pc = Returned(b)] ELSE b)
    OBVIOUS
  <2>4. Commit(w, IF c.heard THEN Subject(c) ELSE {}) /\ Move(c, d)
    BY <1>3, <1>5, <2>1, <2>3 DEF Write
  <2>5. Same(b, d) /\ d.todo = todo /\ d.wrote = TRUE /\ d.pc \in {"running", "publishing", "done"}
    BY <2>2, <2>3 DEF Same, IsCall, CallField, Returned
  <2>6. d.pc = "running" => d.todo # <<>>
    BY <2>2, <2>3 DEF IsCall, CallField, Returned
  <2>7. Same(c, d) /\ OfItsPage(d)
    BY <1>1, <1>4, <2>2, <2>5, <2>6 DEF Same, OfItsPage
  <2>8. \A k, key : Tells(c, k, key) => Tells(d, k, key)
    BY <2>5, <2>7 DEF Tells, Same, Subject
  <2>9. \A q \in MountedQuery : \A k \in Changed(q, w) : Excused(q, k)'
    BY <1>1, <1>4, <2>4, <2>5, <2>7, WriteExcuses DEF Move, ShowInv
  <2>10. Keeps
    BY <1>5, <2>4, <2>8, <2>9, MoveTells, CommitKeeps
  <2>11. QED
    BY <1>1, <1>2, <2>4, <2>7, <2>10, MoveShows DEF FetchFor
<1>6. CASE ~Possible(Now, w)
  <2>1. PICK d : d = [c EXCEPT !.pc = "failed"]
    OBVIOUS
  <2>2. Same(c, d) /\ d.pc = "failed"
    BY <1>1, <2>1 DEF Same, IsCall, CallField
  <2>3. OfItsPage(d)
    BY <1>1, <2>2 DEF Same, OfItsPage
  <2>4. Move(c, d) /\ swept' = swept \cup Left(c) /\ UNCHANGED db
    BY <1>3, <1>6, <2>1 DEF Write
  <2>5. \A k, key : Tells(c, k, key) => k \in swept'
    BY <2>4 DEF Tells, Left
  <2>6. Keeps
    BY <2>4, <2>5, MoveTells, QuietKeeps
  <2>7. QED
    BY <1>1, <1>2, <2>2, <2>3, <2>4, <2>6, MoveShows DEF FetchFor
<1>7. QED
  BY <1>5, <1>6

-----------------------------------------------------------------------------
(* Answers.                                                                 *)

\* A call ends that has nothing to tell.
LEMMA EndShows ==
  ASSUME ShowInv, CallsOK, Grows, NEW c \in calls, calls' = calls \ {c},
         c.kind = "mutation" => c.pc \notin {"running", "publishing", "done"},
         UNCHANGED db, swept \subseteq swept'
  PROVE  OfOK' /\ CallsFit' /\ Keeps
<1>1. StillTold
  BY DEF StillTold, Tells
<1>2. Keeps
  BY <1>1, QuietKeeps
<1>3. CallsFit'
  BY <1>2, CallsKept DEF ShowInv
<1>4. QED
  BY <1>2, <1>3 DEF ShowInv, OfOK

LEMMA ArriveShows ==
  ASSUME ShowInv, PageOK, CallsOK, CacheOK, Grows, NEW c \in calls, Arrive(c)
  PROVE  ShowInv'
<1>1. /\ c.kind = "query" /\ c.of \in MountedQuery /\ c.from \in 0 .. Len(db)
      /\ Len(db) \in Nat /\ calls' = calls \ {c}
  BY DEF Arrive, ShowInv, OfOK, OfItsPage, CallsOK, Fits, Grows
<1>2. UNCHANGED <<root, page, db, swept>>
  BY DEF Arrive, server, history
<1>3. PICK i \in c.from .. Len(db) :
        cache' = IF c.heard THEN Store(c.of.key, [Entry EXCEPT !.at = i, !.slipped = c.late]) ELSE cache
  BY Zenon DEF Arrive
<1>4. OfOK' /\ CallsFit' /\ Keeps
  BY <1>1, <1>2, EndShows
<1>5. CASE ~c.heard
  <2>1. UNCHANGED cache /\ \A q : Fetching(q) => Fetching(q)'
    BY <1>1, <1>3, <1>5 DEF Fetching
  <2>2. EntriesFit'
    BY <1>4, <2>1, EntriesKept DEF ShowInv
  <2>3. MountedFetched'
    BY <1>2, <2>1 DEF ShowInv, MountedFetched, Mounted, Known
  <2>4. QED
    BY <1>4, <2>2, <2>3 DEF ShowInv
<1>6. CASE c.heard
  <2>1. PICK e : e = [Entry EXCEPT !.at = i, !.slipped = c.late]
    OBVIOUS
  <2>2. e.at = i /\ e.slipped = c.late /\ e.invalid = FALSE
    BY <2>1 DEF Entry
  <2>3. PICK key : key = c.of.key
    OBVIOUS
  <2>4. cache' = [k \in DOMAIN cache \cup {key} |-> IF k = key THEN e ELSE cache[k]]
    BY <1>3, <1>6, <2>1, <2>3 DEF Store
  <2>5. ASSUME NEW q \in MountedQuery, Known(q)', q.key # key
        PROVE  Known(q) /\ cache'[q.key] = cache[q.key]
    BY <2>4, <2>5 DEF Known
  <2>6. cache'[key] = e
    BY <2>4
  <2>7. ASSUME NEW q \in MountedQuery, Known(q)'
        PROVE  (cache[q.key].slipped \/ cache[q.key].invalid \/ UpToDate(q, cache[q.key].at))'
    <3>1. CASE q.key = key
      <4>1. q = c.of
        BY <1>1, <2>3, <3>1, KeysApart
      <4>2. CASE ~c.late
        <5>1. UpToDate(c.of, c.from)
          BY <1>1, <1>6, <4>2 DEF ShowInv, CallsFit, FetchFor
        <5>2. UpToDate(c.of, i)
          BY <1>1, <5>1 DEF UpToDate
        <5>3. i \in 0 .. Len(db)
          BY <1>1
        <5>4. UpToDate(c.of, i)'
          BY <1>1, <1>4, <5>2, <5>3 DEF Keeps
        <5>5. QED
          BY <2>2, <2>6, <3>1, <4>1, <5>4
      <4>3. CASE c.late
        BY <2>2, <2>6, <3>1, <4>3
      <4>4. QED
        BY <4>2, <4>3
    <3>2. CASE q.key # key
      <4>1. Known(q) /\ cache'[q.key] = cache[q.key]
        BY <2>5, <2>7, <3>2
      <4>2. PICK n : n = cache[q.key].at /\ n \in 0 .. Len(db)
        BY <4>1 DEF Known, CacheOK, EntryFits
      <4>3. UpToDate(q, n) => UpToDate(q, n)'
        BY <1>4, <4>2 DEF Keeps
      <4>4. QED
        BY <4>1, <4>2, <4>3 DEF ShowInv, EntriesFit
    <3>3. QED
      BY <3>1, <3>2
  <2>8. ASSUME NEW q \in Mounted(page), Known(q)', cache'[q.key].invalid
        PROVE  Fetching(q)' \/ cache'[q.key].failed
    <3>1. q \in MountedQuery /\ q.key # key
      BY <2>2, <2>6, <2>8, MountsOfScreens DEF Mounted, PageOK
    <3>2. Known(q) /\ cache'[q.key] = cache[q.key]
      BY <2>5, <2>8, <3>1
    <3>3. Fetching(q) => Fetching(q)'
      BY <1>1, <2>3, <3>1 DEF Fetching
    <3>4. QED
      BY <2>8, <3>2, <3>3 DEF ShowInv, MountedFetched
  <2>9. EntriesFit'
    BY <2>7 DEF EntriesFit
  <2>10. MountedFetched'
    BY <1>2, <2>8 DEF MountedFetched, Mounted
  <2>11. QED
    BY <1>4, <2>9, <2>10 DEF ShowInv
<1>7. QED
  BY <1>5, <1>6

LEMMA FailureShows ==
  ASSUME ShowInv, PageOK, CallsOK, CacheOK, Grows, NEW c \in calls, QueryFails(c) \/ Fail(c)
  PROVE  ShowInv'
<1>1. calls' = calls \ {c} /\ UNCHANGED <<root, page, db, swept>>
  BY DEF QueryFails, Fail, browser, server, history
<1>2. OfOK' /\ CallsFit' /\ Keeps
  BY <1>1, EndShows DEF QueryFails, Fail
<1>3. CASE Fail(c) \/ ~c.heard
  <2>1. UNCHANGED cache /\ \A q : Fetching(q) => Fetching(q)'
    BY <1>1, <1>3 DEF Fetching, QueryFails, Fail, browser
  <2>2. EntriesFit'
    BY <1>2, <2>1, EntriesKept DEF ShowInv
  <2>3. MountedFetched'
    BY <1>1, <2>1 DEF ShowInv, MountedFetched, Mounted, Known
  <2>4. QED
    BY <1>2, <2>2, <2>3 DEF ShowInv
<1>4. CASE QueryFails(c) /\ c.heard
  <2>1. PICK key : key = c.of.key
    OBVIOUS
  <2>2. PICK e : e = [(IF key \in DOMAIN cache THEN cache[key] ELSE Entry) EXCEPT !.failed = TRUE]
    OBVIOUS
  <2>3. /\ e.failed = TRUE
        /\ key \in DOMAIN cache => /\ e.at = cache[key].at /\ e.slipped = cache[key].slipped
                                   /\ e.invalid = cache[key].invalid
        /\ key \notin DOMAIN cache => e.at = 0
    BY <2>2 DEF Entry, CacheOK, EntryFits, EntryField
  <2>4. cache' = [k \in DOMAIN cache \cup {key} |-> IF k = key THEN e ELSE cache[k]]
    BY <1>4, <2>1, <2>2 DEF QueryFails, Store
  <2>5. EntriesFit'
    BY <1>2, <2>3, <2>4, EntriesKept DEF ShowInv
  <2>6. ASSUME NEW q \in Mounted(page), Known(q)', cache'[q.key].invalid
        PROVE  Fetching(q)' \/ cache'[q.key].failed
    <3>1. CASE q.key = key
      BY <2>3, <2>4, <3>1
    <3>2. CASE q.key # key
      <4>1. Known(q) /\ cache'[q.key] = cache[q.key]
        BY <2>4, <2>6, <3>2 DEF Known
      <4>2. Fetching(q) => Fetching(q)'
        BY <1>1, <2>1, <3>2 DEF Fetching
      <4>3. QED
        BY <2>6, <4>1, <4>2 DEF ShowInv, MountedFetched
    <3>3. QED
      BY <3>1, <3>2
  <2>7. MountedFetched'
    BY <1>1, <2>6 DEF MountedFetched, Mounted
  <2>8. QED
    BY <1>2, <2>5, <2>7 DEF ShowInv
<1>5. QED
  BY <1>3, <1>4

-----------------------------------------------------------------------------
(* What fetches, marks and silences calls.                                  *)

\* Nobody waits any more, and the cache is gone.
LEMMA SilencedShows ==
  ASSUME ShowInv, CallsOK, OneFetch, NEW cs, cs \subseteq calls, calls' = Unheard(cs), cache' = NoCache
  PROVE  ShowInv'
<1>1. \A e \in calls' : ~e.heard
  BY FewerHeard
<1>2. \A q : ~Known(q)'
  BY DEF Known, NoCache
<1>3. OfOK'
  <2>1. ASSUME NEW c \in cs
        PROVE  OfItsPage([c EXCEPT !.heard = FALSE])
    <3>1. IsCall(c) /\ OfItsPage(c)
      BY DEF CallsOK, Fits, ShowInv, OfOK
    <3>2. QED
      BY <3>1 DEF OfItsPage, IsCall, CallField
  <2>2. QED
    BY <2>1 DEF OfOK, Unheard
<1>4. QED
  BY <1>1, <1>2, <1>3 DEF ShowInv, EntriesFit, CallsFit, MountedFetched, FetchFor

LEMMA FetchCalls ==
  ASSUME NEW qs
  PROVE  /\ \A e \in Fetch(qs) : \E q \in qs : e.of = q /\ e.kind = "query" /\ e.from = Len(db)
         /\ calls' = calls \cup Fetch(qs) => \A q \in qs : Fetching(q)'
<1>1. \A q : LET e == Call(q, "query")
             IN  e.of = q /\ e.kind = "query" /\ e.heard /\ e.from = Len(db)
  BY DEF Call
<1>2. ASSUME NEW q \in qs, calls' = calls \cup Fetch(qs)
      PROVE  Fetching(q)'
  <2>1. CASE Fetching(q)
    BY <1>2, <2>1 DEF Fetching
  <2>2. CASE ~Fetching(q)
    <3>1. Call(q, "query") \in calls'
      BY <1>2, <2>2 DEF Fetch
    <3>2. QED
      BY <1>1, <3>1 DEF Fetching
  <2>3. QED
    BY <2>1, <2>2
<1>3. QED
  BY <1>1, <1>2 DEF Fetch

\* Queries are sent, and what is known of others stays what it was.
LEMMA FetchesShow ==
  ASSUME ShowInv, CallsOK, CacheOK, Grows, NEW sent, calls' = calls \cup sent,
         \A e \in sent : e.of \in MountedQuery /\ e.kind = "query" /\ e.from = Len(db),
         UNCHANGED <<db, swept>>,
         \A k \in DOMAIN cache' : /\ k \in DOMAIN cache /\ cache'[k].at = cache[k].at
                                  /\ cache'[k].slipped = cache[k].slipped
                                  /\ cache'[k].invalid = cache[k].invalid
  PROVE  OfOK' /\ EntriesFit' /\ CallsFit' /\ \A q : Fetching(q) => Fetching(q)'
<1>1. Keeps
  <2>1. StillTold
    BY DEF StillTold
  <2>2. QED
    BY <2>1, QuietKeeps
<1>2. OfOK'
  BY DEF ShowInv, OfOK, OfItsPage
<1>3. EntriesFit'
  BY <1>1, EntriesKept DEF ShowInv
<1>4. CallsFit'
  BY <1>1, CallsKept DEF ShowInv
<1>5. QED
  BY <1>2, <1>3, <1>4 DEF Fetching

LEMMA NavigateShows ==
  ASSUME ShowInv, PageOK, CallsOK, CacheOK, Grows, NEW p \in Page, Navigate(p)
  PROVE  ShowInv'
<1>1. PICK qs : qs = {q \in Pages[root][p].mounts \cup (Pages[root][p].frame \ Pages[root][page].frame) :
                        Outdated(q)}
  OBVIOUS
<1>2. calls' = calls \cup Fetch(qs) /\ page' = p /\ UNCHANGED <<root, cache, db, swept>>
  BY <1>1 DEF Navigate, MountQueries, server
<1>3. /\ Mounted(p) = Pages[root][p].frame \cup Pages[root][p].mounts /\ Mounted(p) \subseteq MountedQuery
      /\ Pages[root][page].frame \subseteq Mounted(page)
  BY MountsOfScreens DEF Mounted, PageOK
<1>4. OfOK' /\ EntriesFit' /\ CallsFit' /\ \A q : Fetching(q) => Fetching(q)'
  <2>1. PICK sent : sent = Fetch(qs)
    OBVIOUS
  <2>2. qs \subseteq MountedQuery
    BY <1>1, <1>3
  <2>3. \A e \in sent : e.of \in MountedQuery /\ e.kind = "query" /\ e.from = Len(db)
    BY <2>1, <2>2, FetchCalls
  <2>4. QED
    BY <1>2, <2>1, <2>3, FetchesShow
<1>5. ASSUME NEW q \in Mounted(p), Known(q), cache[q.key].invalid
      PROVE  Fetching(q)' \/ cache[q.key].failed
  <2>1. CASE q \in qs
    BY <1>2, <2>1, FetchCalls
  <2>2. CASE q \notin qs
    <3>1. q \in Mounted(page)
      BY <1>1, <1>3, <1>5, <2>2 DEF Outdated
    <3>2. QED
      BY <1>4, <1>5, <3>1 DEF ShowInv, MountedFetched
  <2>3. QED
    BY <2>1, <2>2
<1>6. MountedFetched'
  BY <1>2, <1>5 DEF MountedFetched, Mounted, Known
<1>7. QED
  BY <1>4, <1>6 DEF ShowInv

LEMMA SignInShows ==
  ASSUME ShowInv, PageOK, CallsOK, CacheOK, Grows, SignIn
  PROVE  ShowInv'
<1>1. "dashboard" \in Page
  BY ThePages DEF PageNames
<1>2. PICK qs : qs = Mounted("dashboard") /\ qs \subseteq MountedQuery
  BY <1>1, MountsOfScreens DEF Mounted, PageOK
<1>3. PICK sent : sent = {[Call(q, "query") EXCEPT !.token = issued + 1] : q \in qs}
  OBVIOUS
<1>4. calls' = calls \cup sent /\ page' = "dashboard" /\ UNCHANGED <<root, cache, db, swept>>
  BY <1>2, <1>3 DEF SignIn, server
<1>5. \A q : LET e == [Call(q, "query") EXCEPT !.token = issued + 1]
             IN  e.of = q /\ e.kind = "query" /\ e.heard /\ e.from = Len(db)
  BY DEF Call
<1>6. OfOK' /\ EntriesFit' /\ CallsFit'
  <2>1. \A e \in sent : e.of \in MountedQuery /\ e.kind = "query" /\ e.from = Len(db)
    <3>1. ASSUME NEW q \in qs, NEW e, e = [Call(q, "query") EXCEPT !.token = issued + 1]
          PROVE  e.of = q /\ e.kind = "query" /\ e.from = Len(db)
      BY <3>1 DEF Call
    <3>2. QED
      BY <1>2, <1>3, <3>1
  <2>2. QED
    BY <1>4, <2>1, FetchesShow
<1>7. \A q \in qs : Fetching(q)'
  BY <1>3, <1>4, <1>5 DEF Fetching
<1>8. MountedFetched'
  BY <1>2, <1>4, <1>7 DEF MountedFetched, Mounted
<1>9. QED
  BY <1>6, <1>8 DEF ShowInv

\* Polls.
LEMMA AgedShows ==
  ASSUME ShowInv, PageOK, CallsOK, CacheOK, Grows, Minute \/ Expire
  PROVE  ShowInv'
<1>1. PICK qs : qs = {q \in Mounted(page) : q.interval}
  OBVIOUS
<1>2. /\ UNCHANGED <<root, page, db, swept>>
      /\ cache' = Aged /\ calls' = calls \cup Fetch(qs)
  BY <1>1 DEF Minute, Expire, server
<1>3. /\ DOMAIN cache' = DOMAIN cache
      /\ \A k \in DOMAIN cache : /\ cache'[k].at = cache[k].at /\ cache'[k].slipped = cache[k].slipped
                                 /\ cache'[k].invalid = cache[k].invalid
                                 /\ cache'[k].failed = cache[k].failed
  BY <1>2 DEF Aged, CacheOK, EntryFits, EntryField
<1>4. qs \subseteq MountedQuery
  BY <1>1, MountsOfScreens DEF Mounted, PageOK
<1>5. OfOK' /\ EntriesFit' /\ CallsFit' /\ \A q : Fetching(q) => Fetching(q)'
  BY <1>2, <1>3, <1>4, FetchCalls, FetchesShow
<1>6. MountedFetched'
  BY <1>2, <1>3, <1>5 DEF ShowInv, MountedFetched, Mounted, Known
<1>7. QED
  BY <1>5, <1>6 DEF ShowInv

LEMMA MutateShows ==
  ASSUME ShowInv, PageOK, CallsOK, CacheOK, Grows, NEW offer \in Screen0.offers, Mutate(offer)
  PROVE  ShowInv'
<1>1. PICK new : new = [Call(offer.mutation, "mutation") EXCEPT !.calm = AtRest]
  OBVIOUS
<1>2. PICK as : as = [c \in calls |-> [c EXCEPT !.calm = FALSE]]
  OBVIOUS
<1>3. calls' = {as[c] : c \in calls} \cup {new} /\ UNCHANGED <<root, page, cache, db, swept>>
  BY <1>1, <1>2 DEF Mutate, browser, server
<1>4. new.of = offer.mutation /\ new.kind = "mutation" /\ new.pc = "sent"
  BY <1>1 DEF Call
<1>5. offer.mutation \in OfferedMutation
  BY OffersOfScreens DEF Screen0, PageOK
<1>6. \A c \in calls : as[c] \in calls' /\ as[c] = [c EXCEPT !.calm = FALSE] /\ IsCall(c)
  BY <1>2, <1>3 DEF CallsOK, Fits
<1>7. \A c \in calls : /\ Same(c, as[c]) /\ as[c].pc = c.pc /\ as[c].wrote = c.wrote /\ as[c].todo = c.todo
                       /\ as[c].from = c.from /\ as[c].late = c.late
  <2>1. ASSUME NEW c, IsCall(c), NEW d, d = [c EXCEPT !.calm = FALSE]
        PROVE  /\ Same(c, d) /\ d.pc = c.pc /\ d.wrote = c.wrote /\ d.todo = c.todo
               /\ d.from = c.from /\ d.late = c.late
    BY <2>1 DEF Same, IsCall, CallField
  <2>2. QED
    BY <1>6, <2>1
<1>8. Keeps
  <2>1. ASSUME NEW c \in calls, NEW k, NEW key, Tells(c, k, key)
        PROVE  Tells(as[c], k, key)
    <3>1. PICK d : d = as[c]
      OBVIOUS
    <3>2. d.of = c.of /\ d.kind = c.kind /\ d.heard = c.heard /\ d.pc = c.pc /\ d.wrote = c.wrote
      BY <1>7, <3>1 DEF Same
    <3>3. QED
      BY <2>1, <3>1, <3>2 DEF Tells, Subject
  <2>2. StillTold
    BY <1>6, <2>1 DEF StillTold
  <2>3. QED
    BY <1>3, <2>2, QuietKeeps
<1>9. OfOK'
  <2>1. ASSUME NEW c \in calls
        PROVE  OfItsPage(as[c])
    <3>1. PICK d : d = as[c]
      OBVIOUS
    <3>2. d.of = c.of /\ d.kind = c.kind /\ d.pc = c.pc /\ d.todo = c.todo
      BY <1>7, <3>1 DEF Same
    <3>3. QED
      BY <3>1, <3>2 DEF ShowInv, OfOK, OfItsPage
  <2>2. OfItsPage(new)
    BY <1>4, <1>5 DEF OfItsPage
  <2>3. QED
    BY <1>3, <2>1, <2>2 DEF OfOK
<1>10. CallsFit'
  <2>1. ASSUME NEW e \in calls', FetchFor(e)
        PROVE  \E c \in calls : FetchFor(c) /\ c.of = e.of /\ c.from = e.from /\ c.late = e.late
    <3>1. PICK c \in calls : e = as[c]
      BY <1>3, <1>4, <2>1 DEF FetchFor
    <3>2. e.of = c.of /\ e.kind = c.kind /\ e.heard = c.heard /\ e.from = c.from /\ e.late = c.late
      BY <1>7, <3>1 DEF Same
    <3>3. QED
      BY <2>1, <3>2 DEF FetchFor
  <2>2. QED
    BY <1>8, <2>1, CallsKept DEF ShowInv
<1>11. EntriesFit'
  BY <1>3, <1>8, EntriesKept DEF ShowInv
<1>12. MountedFetched'
  <2>1. ASSUME NEW q, Fetching(q)
        PROVE  Fetching(q)'
    <3>1. PICK c \in calls : c.kind = "query" /\ c.heard /\ c.of.key = q.key
      BY <2>1 DEF Fetching
    <3>2. PICK d \in calls' : d.of = c.of /\ d.kind = c.kind /\ d.heard = c.heard
      BY <1>6, <1>7 DEF Same
    <3>3. QED
      BY <3>1, <3>2 DEF Fetching
  <2>2. QED
    BY <1>3, <2>1 DEF ShowInv, MountedFetched, Mounted, Known
<1>13. QED
  BY <1>9, <1>10, <1>11, <1>12 DEF ShowInv

\* What others change is swept.
LEMMA OthersShow ==
  ASSUME ShowInv, DbOK, CallsOK, CacheOK, Grows, (\E op \in Others : Elsewhere(op)) \/ HearSignal
  PROVE  ShowInv'
<1>1. UNCHANGED <<root, page, cache, calls>>
  BY DEF Elsewhere, HearSignal, browser
<1>2. StillTold
  BY <1>1 DEF StillTold
<1>3. Keeps
  <2>1. ASSUME NEW op \in Others, Elsewhere(op)
        PROVE  Keeps
    <3>1. PICK w : w = Head(op.writes)
      OBVIOUS
    <3>2. Commit(w, {}) /\ Possible(Now, w)
      BY <2>1, <3>1 DEF Elsewhere
    <3>3. \A q \in MountedQuery : \A k \in Changed(q, w) : Excused(q, k)'
      BY <3>2, KindsShown DEF Commit, Excused
    <3>4. QED
      BY <1>2, <3>2, <3>3, CommitKeeps
  <2>2. CASE HearSignal
    BY <1>2, <2>2, QuietKeeps DEF HearSignal
  <2>3. QED
    BY <2>1, <2>2
<1>4. OfOK'
  BY <1>1 DEF ShowInv, OfOK
<1>5. EntriesFit'
  BY <1>1, <1>3, EntriesKept DEF ShowInv
<1>6. CallsFit'
  BY <1>1, <1>3, CallsKept DEF ShowInv
<1>7. MountedFetched'
  BY <1>1 DEF ShowInv, MountedFetched, Mounted, Known, Fetching
<1>8. QED
  BY <1>4, <1>5, <1>6, <1>7 DEF ShowInv

-----------------------------------------------------------------------------
(* An answer that invalidates.                                              *)

LEMMA DeletesApplications ==
  ASSUME NEW mu \in OfferedMutation, mu.hook = "useDeleteApplication"
  PROVE  <<"applications", "list">> \in mu.invalidates
<1> DEFINE Fine(m) == m.hook # "useDeleteApplication"
<1>1. /\ Fine(useAcceptInvite) /\ Fine(useDeclineInvite) /\ Fine(useInviteMember)
      /\ Fine(useUpdateMemberRole) /\ Fine(useRemoveMember) /\ Fine(useLeaveApplication)
      /\ Fine(useCancelInvite) /\ Fine(useCreateApplication) /\ Fine(useUpdateApplication)
      /\ Fine(useCreateApiKey) /\ Fine(useRevokeApiKey)
  BY DEF Mutation, useAcceptInvite, useDeclineInvite, useInviteMember, useUpdateMemberRole,
         useRemoveMember, useLeaveApplication, useCancelInvite, useCreateApplication,
         useUpdateApplication, useCreateApiKey, useRevokeApiKey
<1>2. /\ Fine(useCreateProgram) /\ Fine(useDeleteProgram) /\ Fine(useVerifyContract)
      /\ Fine(useCreateSubscription) /\ Fine(useUpdateSubscription("on"))
      /\ Fine(useUpdateSubscription("off")) /\ Fine(useUpdateSubscription("same"))
      /\ Fine(useDeleteSubscription) /\ Fine(useCreateWebhook) /\ Fine(useUpdateWebhook("on"))
      /\ Fine(useUpdateWebhook("off")) /\ Fine(useDeleteWebhook) /\ Fine(useTestWebhook)
  BY DEF Mutation, useCreateProgram, useDeleteProgram, useVerifyContract, useCreateSubscription,
         useUpdateSubscription, useDeleteSubscription, useCreateWebhook, useUpdateWebhook,
         useDeleteWebhook, useTestWebhook
<1>3. /\ Fine(checkWebhookHealth) /\ Fine(useRetryWebhookLog) /\ Fine(useCreateChain)
      /\ Fine(useUpdateChain("on")) /\ Fine(useUpdateChain("off")) /\ Fine(useUpdateChain("same"))
      /\ Fine(useDeleteChain) /\ Fine(useCheckChainRpc) /\ Fine(useRebalanceIngestors)
      /\ Fine(useRebalanceDispatchers)
  BY DEF Mutation, checkWebhookHealth, useRetryWebhookLog, useCreateChain, useUpdateChain,
         useDeleteChain, useCheckChainRpc, useRebalanceIngestors, useRebalanceDispatchers
<1>4. mu = useDeleteApplication
  BY <1>1, <1>2, <1>3 DEF OfferedMutation
<1>5. QED
  BY <1>4, TheMutations DEF Does

\* The bell is on every page of a user.
LEMMA BellEverywhere ==
  ASSUME NEW r \in BOOLEAN, NEW p \in Page, p # "login"
  PROVE  useMyPendingInvites \in Mounts[r][p]
<1> DEFINE Fine(screen) == useMyPendingInvites \in screen.frame
<1>1. \A frame, mounts, offers : Fine(Screen(frame, mounts, offers))
  BY DEF Screen, Header
<1>2. \A mounts, offers : Fine(AppPage(mounts, offers))
  BY DEF AppPage, Reached, Screen, Header
<1>3. /\ Fine(Pages[r]["dashboard"]) /\ Fine(Pages[r]["applications"]) /\ Fine(Pages[r]["chains"])
      /\ Fine(Pages[r]["ingestors"]) /\ Fine(Pages[r]["dispatchers"])
  BY <1>1 DEF Pages, DashboardPage, ApplicationsPage, ChainsPage, IngestorsPage, DispatchersPage
<1>4. /\ Fine(Pages[r]["overview"]) /\ Fine(Pages[r]["members"]) /\ Fine(Pages[r]["programs"])
      /\ Fine(Pages[r]["newProgram"]) /\ Fine(Pages[r]["subscriptions"])
      /\ Fine(Pages[r]["newSubscription"]) /\ Fine(Pages[r]["webhooks"]) /\ Fine(Pages[r]["settings"])
  BY <1>2 DEF Pages, ApplicationOverviewPage, MembersPage, ProgramsPage, CreateProgramDialog,
              SubscriptionsPage, CreateSubscriptionDialog, WebhooksPage, SettingsPage
<1>5. /\ Fine(Pages[r]["program"]) /\ Fine(Pages[r]["subscription"]) /\ Fine(Pages[r]["webhook"])
  BY DEF Pages, ProgramDetailPage, SubscriptionDetailPage, WebhookDetailPage, Reached, Screen, Header
<1>6. Fine(Pages[r][p])
  BY <1>3, <1>4, <1>5, ThePages DEF PageNames
<1>7. QED
  BY <1>6, MountsOfScreens

\* What the page that comes up mounts has been mounted before, or is invalidated.
LEMMA StaysMounted ==
  ASSUME PageOK, OfOK, NEW c \in calls, c.kind = "mutation", c.heard,
         NEW q \in Mounted(After(c)), ~Matching(c.of.invalidates, q.key)
  PROVE  q \in Mounted(page)
<1>1. CASE After(c) = page
  BY <1>1
<1>2. CASE After(c) # page
  <2>1. After(c) = "applications" /\ c.of.hook = "useDeleteApplication"
    BY <1>2 DEF After
  <2>2. page # "login" /\ page \in Page /\ root \in BOOLEAN
    BY DEF PageOK
  <2>3. <<"applications", "list">> \in c.of.invalidates
    BY <2>1, DeletesApplications DEF OfOK, OfItsPage
  <2>4. q \in {useApplications("100"), useApplications("20"), useMyPendingInvites}
    <3>1. "applications" \in Page
      BY ThePages DEF PageNames
    <3>2. q \in Pages[root]["applications"].frame \cup Pages[root]["applications"].mounts
      BY <2>1, <2>2, <3>1, MountsOfScreens DEF Mounted
    <3>3. QED
      BY <2>2, <3>2 DEF Pages, ApplicationsPage, Screen, Header
  <2>5. /\ Matching(c.of.invalidates, useApplications("100").key)
        /\ Matching(c.of.invalidates, useApplications("20").key)
    <3>1. \A n : Matching(c.of.invalidates, <<"applications", "list", n>>)
      BY <2>3, KeyPrefixes DEF Matching
    <3>2. QED
      BY <3>1, TheKeys
  <2>6. q = useMyPendingInvites
    BY <2>4, <2>5
  <2>7. QED
    BY <2>2, <2>6, BellEverywhere DEF Mounted
<1>3. QED
  BY <1>1, <1>2

LEMMA Invalidations ==
  ASSUME CallsOK, root \in BOOLEAN, NEW keys, NEW cs, cs \subseteq calls, NEW p \in Page,
         Invalidate(keys, cs, p)
  PROVE  /\ \A e \in calls' :
              \/ e \in cs /\ (FetchFor(e) => ~Matching(keys, e.of.key))
              \/ \E c \in cs : e.of = c.of /\ e.kind = "query" /\ c.kind = "query" /\ (~e.heard \/ e.late)
              \/ e.of \in MountedQuery /\ e.kind = "query" /\ e.from = Len(db)
         /\ \A c \in cs : c \in calls' \/ (FetchFor(c) /\ Matching(keys, c.of.key))
         /\ \A q \in Mounted(p) : Matching(keys, q.key) /\ Known(q) => Fetching(q)'
<1>1. PICK flying : flying = {c \in cs : c.kind = "query" /\ c.heard /\ Matching(keys, c.of.key)}
  OBVIOUS
<1>2. PICK active : active = {q \in Mounted(p) : Matching(keys, q.key)}
  OBVIOUS
<1>3. PICK kept : kept = {c \in flying : c.of.key \notin {q.key : q \in {q \in active : Known(q)}}}
  OBVIOUS
<1>4. PICK sent : sent = {Call(q, "query") : q \in {q \in active : \A c \in kept : c.of.key # q.key}}
  OBVIOUS
<1>5. calls' = (cs \ flying) \cup Unheard(flying \ kept)
               \cup {[c EXCEPT !.late = TRUE] : c \in kept} \cup sent
  BY <1>1, <1>2, <1>3, <1>4, Zenon DEF Invalidate
<1>6. \A c \in flying : c \in cs /\ IsCall(c) /\ c.kind = "query"
  BY <1>1 DEF CallsOK, Fits
<1>7. \A q : Call(q, "query").of = q /\ Call(q, "query").kind = "query" /\ Call(q, "query").heard
             /\ Call(q, "query").from = Len(db)
  BY DEF Call
<1>8. active \subseteq MountedQuery
  BY <1>2, MountsOfScreens DEF Mounted
<1>9. ASSUME NEW e \in calls'
      PROVE  \/ e \in cs /\ (FetchFor(e) => ~Matching(keys, e.of.key))
             \/ \E c \in cs : e.of = c.of /\ e.kind = "query" /\ c.kind = "query" /\ (~e.heard \/ e.late)
             \/ e.of \in MountedQuery /\ e.kind = "query" /\ e.from = Len(db)
  <2>1. CASE e \in cs \ flying
    BY <1>1, <2>1 DEF FetchFor
  <2>2. CASE e \in Unheard(flying \ kept)
    <3>1. PICK c \in flying : e = [c EXCEPT !.heard = FALSE]
      BY <2>2 DEF Unheard
    <3>2. e.of = c.of /\ e.kind = c.kind /\ ~e.heard
      BY <1>6, <3>1 DEF IsCall, CallField
    <3>3. QED
      BY <1>6, <3>2
  <2>3. CASE e \in {[c EXCEPT !.late = TRUE] : c \in kept}
    <3>1. PICK c \in flying : e = [c EXCEPT !.late = TRUE]
      BY <1>3, <2>3
    <3>2. e.of = c.of /\ e.kind = c.kind /\ e.late
      BY <1>6, <3>1 DEF IsCall, CallField
    <3>3. QED
      BY <1>6, <3>2
  <2>4. CASE e \in sent
    <3>1. PICK q \in active : e = Call(q, "query")
      BY <1>4, <2>4
    <3>2. QED
      BY <1>7, <1>8, <3>1
  <2>5. QED
    BY <1>5, <2>1, <2>2, <2>3, <2>4
<1>10. \A c \in cs : c \in calls' \/ (FetchFor(c) /\ Matching(keys, c.of.key))
  BY <1>1, <1>5 DEF FetchFor
<1>11. ASSUME NEW q \in Mounted(p), Matching(keys, q.key), Known(q)
       PROVE  Fetching(q)'
  <2>1. q \in active /\ \A c \in kept : c.of.key # q.key
    BY <1>2, <1>3, <1>11
  <2>2. Call(q, "query") \in calls'
    BY <1>4, <1>5, <2>1
  <2>3. QED
    BY <1>7, <2>2 DEF Fetching
<1>12. QED
  BY <1>9, <1>10, <1>11

LEMMA SucceedShows ==
  ASSUME ShowInv, PageOK, CallsOK, CacheOK, Grows, NEW c \in calls, Succeed(c)
  PROVE  ShowInv'
<1>1. c.kind = "mutation" /\ UNCHANGED <<root, db, swept>> /\ page' = After(c) /\ After(c) \in Page
  BY ThePages DEF Succeed, After, PageNames, PageOK, server, history
<1>2. CASE ~c.heard
  <2>1. page' = page /\ calls' = calls \ {c} /\ UNCHANGED cache
    BY <1>1, <1>2 DEF Succeed, After
  <2>2. StillTold
    BY <1>2, <2>1 DEF StillTold, Tells
  <2>3. Keeps
    BY <1>1, <2>2, QuietKeeps
  <2>4. OfOK' /\ CallsFit' /\ EntriesFit'
    BY <2>1, <2>3, CallsKept, EntriesKept DEF ShowInv, OfOK
  <2>5. MountedFetched'
    BY <1>1, <2>1 DEF ShowInv, MountedFetched, Mounted, Known, Fetching
  <2>6. QED
    BY <2>4, <2>5 DEF ShowInv
<1>3. CASE c.heard
  <2>1. PICK keys, cs, p : keys = c.of.invalidates /\ cs = calls \ {c} /\ p = After(c)
    OBVIOUS
  <2>2. Invalidate(keys, cs, p)
    BY <1>1, <1>3, <2>1 DEF Succeed
  <2>3. /\ \A e \in calls' :
             \/ e \in cs /\ (FetchFor(e) => ~Matching(keys, e.of.key))
             \/ \E d \in cs : e.of = d.of /\ e.kind = "query" /\ d.kind = "query" /\ (~e.heard \/ e.late)
             \/ e.of \in MountedQuery /\ e.kind = "query" /\ e.from = Len(db)
        /\ \A d \in cs : d \in calls' \/ (FetchFor(d) /\ Matching(keys, d.of.key))
        /\ \A q \in Mounted(p) : Matching(keys, q.key) /\ Known(q) => Fetching(q)'
    BY <1>1, <2>1, <2>2, Invalidations DEF PageOK
  <2>4. cache' = [k \in DOMAIN cache |-> [cache[k] EXCEPT !.invalid = @ \/ Matching(keys, k)]]
    BY <2>2 DEF Invalidate
  <2>5. /\ DOMAIN cache' = DOMAIN cache
        /\ \A k \in DOMAIN cache :
             /\ cache'[k].at = cache[k].at /\ cache'[k].slipped = cache[k].slipped
             /\ cache'[k].failed = cache[k].failed
             /\ cache'[k].invalid = (cache[k].invalid \/ Matching(keys, k))
    <3>1. ASSUME NEW e, NEW b, NEW d, e = [f \in EntryField |-> e[f]], d = [e EXCEPT !.invalid = b]
          PROVE  /\ d.at = e.at /\ d.slipped = e.slipped /\ d.failed = e.failed
                 /\ d.invalid = b
      BY <3>1 DEF EntryField
    <3>2. \A k \in DOMAIN cache :
            cache'[k] = [cache[k] EXCEPT !.invalid = cache[k].invalid \/ Matching(keys, k)]
      BY <2>4
    <3>3. ASSUME NEW k \in DOMAIN cache
          PROVE  /\ cache'[k].at = cache[k].at /\ cache'[k].slipped = cache[k].slipped
                 /\ cache'[k].failed = cache[k].failed
                 /\ cache'[k].invalid = (cache[k].invalid \/ Matching(keys, k))
      <4>1. PICK b : b = (cache[k].invalid \/ Matching(keys, k))
        OBVIOUS
      <4>2. cache'[k] = [cache[k] EXCEPT !.invalid = b] /\ cache[k] = [f \in EntryField |-> cache[k][f]]
        BY <3>2, <4>1, Zenon DEF CacheOK, EntryFits
      <4>3. QED
        BY <3>1, <4>1, <4>2
    <3>4. QED
      BY <2>4, <3>3
  \* Whoever was to tell a query that is not invalidated now still is.
  <2>6. ASSUME NEW q \in MountedQuery, ~Matching(keys, q.key), NEW i \in 0 .. Len(db), UpToDate(q, i)
        PROVE  UpToDate(q, i)'
    <3>1. ASSUME NEW k, Excused(q, k)
          PROVE  Excused(q, k)'
      <4>1. ASSUME NEW d \in calls, Tells(d, k, q.key)
            PROVE  d \in calls'
        BY <2>1, <2>3, <2>6, <4>1 DEF Tells, FetchFor
      <4>2. Gone(q, k) => Gone(q, k)'
        BY <1>1 DEF Gone, Now
      <4>3. QED
        BY <1>1, <3>1, <4>1, <4>2 DEF Excused
    <3>2. QED
      BY <1>1, <2>6, <3>1 DEF UpToDate
  <2>7. OfOK'
    <3>1. ASSUME NEW e \in calls'
          PROVE  OfItsPage(e)
      BY <2>1, <2>3 DEF ShowInv, OfOK, OfItsPage
    <3>2. QED
      BY <3>1 DEF OfOK
  <2>8. EntriesFit'
    <3>1. ASSUME NEW q \in MountedQuery, Known(q)'
          PROVE  (cache[q.key].slipped \/ cache[q.key].invalid \/ UpToDate(q, cache[q.key].at))'
      <4>1. Known(q) /\ cache'[q.key].at = cache[q.key].at
        BY <2>5, <3>1 DEF Known
      <4>2. PICK i : i = cache[q.key].at /\ i \in 0 .. Len(db)
        BY <4>1 DEF Known, CacheOK, EntryFits
      <4>3. CASE Matching(keys, q.key) \/ cache[q.key].invalid \/ cache[q.key].slipped
        BY <2>5, <4>1, <4>3 DEF Known
      <4>4. CASE ~Matching(keys, q.key) /\ UpToDate(q, i)
        BY <2>6, <4>1, <4>2, <4>4
      <4>5. QED
        BY <4>1, <4>2, <4>3, <4>4 DEF ShowInv, EntriesFit
    <3>2. QED
      BY <3>1 DEF EntriesFit
  <2>9. CallsFit'
    <3>1. ASSUME NEW e \in calls', FetchFor(e), ~e.late
          PROVE  UpToDate(e.of, e.from)'
      <4>1. CASE e.from = Len(db)
        BY <1>1, <4>1 DEF UpToDate, Grows
      <4>2. CASE e \in cs /\ ~Matching(keys, e.of.key)
        <5>1. e \in calls /\ e.of \in MountedQuery /\ e.from \in 0 .. Len(db)
          BY <2>1, <3>1, <4>2 DEF ShowInv, OfOK, OfItsPage, FetchFor, CallsOK, Fits
        <5>2. UpToDate(e.of, e.from)
          BY <3>1, <5>1 DEF ShowInv, CallsFit
        <5>3. QED
          BY <2>6, <4>2, <5>1, <5>2
      <4>3. QED
        BY <2>3, <3>1, <4>1, <4>2 DEF FetchFor
    <3>2. QED
      BY <3>1 DEF CallsFit
  <2>10. MountedFetched'
    <3>1. ASSUME NEW q \in Mounted(p), Known(q)', cache'[q.key].invalid
          PROVE  Fetching(q)' \/ cache'[q.key].failed
      <4>1. Known(q)
        BY <2>5, <3>1 DEF Known
      <4>2. CASE Matching(keys, q.key)
        BY <2>3, <4>1, <4>2
      <4>3. CASE ~Matching(keys, q.key)
        <5>1. q \in Mounted(page)
          BY <1>1, <1>3, <2>1, <4>3, StaysMounted DEF ShowInv
        <5>2. cache[q.key].invalid /\ cache'[q.key].failed = cache[q.key].failed
          BY <2>5, <3>1, <4>1, <4>3 DEF Known
        <5>3. CASE Fetching(q)
          <6>1. PICK d \in calls : d.kind = "query" /\ d.heard /\ d.of.key = q.key
            BY <5>3 DEF Fetching
          <6>2. d \in calls'
            BY <1>1, <2>1, <2>3, <4>3, <6>1
          <6>3. QED
            BY <6>1, <6>2 DEF Fetching
        <5>4. QED
          BY <4>1, <5>1, <5>2, <5>3 DEF ShowInv, MountedFetched
      <4>4. QED
        BY <4>2, <4>3
    <3>2. QED
      BY <1>1, <2>1, <3>1 DEF MountedFetched, Mounted
  <2>11. QED
    BY <2>7, <2>8, <2>9, <2>10 DEF ShowInv
<1>4. QED
  BY <1>2, <1>3

-----------------------------------------------------------------------------
(* OwnChangesShow.                                                          *)

LEMMA StepShows ==
  ASSUME ShowInv, ScreenInv, KnowInv, [Next]_vars
  PROVE  ShowInv'
<1>1. Grows /\ CallsOK /\ DbOK /\ PageOK /\ CacheOK /\ OneFetch
  BY StepGrows DEF KnowInv, TokenInv, ScreenInv
<1>2. CASE User
  <2>1. CASE Logout
    BY <1>1, <2>1, SilencedShows DEF Logout
  <2>2. QED
    BY <1>1, <1>2, <2>1, NavigateShows, MutateShows, SignInShows DEF User
<1>3. ASSUME NEW c \in calls, CallStep(c)
      PROVE  ShowInv'
  <2>1. CASE SignOut(c)
    <3>1. PICK cs : cs \subseteq calls /\ calls' = Unheard(cs)
      BY <2>1 DEF SignOut
    <3>2. QED
      BY <1>1, <2>1, <3>1, SilencedShows DEF SignOut
  <2>2. CASE Arrive(c) \/ QueryFails(c) \/ Fail(c) \/ Succeed(c)
    BY <1>1, <2>2, ArriveShows, FailureShows, SucceedShows
  <2>3. CASE Find(c) \/ Write(c) \/ Publish(c)
    BY <1>1, <2>3, FindShows, WriteShows, PublishShows
  <2>4. CASE ~SignOut(c) /\ (Intercept(c) \/ CheckRefreshToken(c) \/ RotateTokens(c) \/ SetTokens(c))
    BY <1>1, <2>4, RenewalShows
  <2>5. QED
    BY <1>3, <2>1, <2>2, <2>3, <2>4 DEF CallStep, Rejected
<1>4. CASE Environment
  BY <1>1, <1>4, OthersShow, AgedShows, PublishShows, RenewalShows DEF Environment
<1>5. CASE UNCHANGED vars
  <2>1. UNCHANGED <<root, page, cache, calls, db, swept>>
    BY <1>5 DEF vars, browser, server, history
  <2>2. UNCHANGED Now
    BY <2>1 DEF Now
  <2>3. QED
    BY <2>1, <2>2 DEF ShowInv, OfOK, EntriesFit, CallsFit, MountedFetched, UpToDate, Excused, Gone,
                     Mounted, Known, Fetching
<1>6. QED
  BY <1>2, <1>3, <1>4, <1>5 DEF Next, Work

LEMMA ShowInvariant == Spec => []ShowInv
<1>1. Init => ShowInv
  <2>1. ASSUME Init
        PROVE  ShowInv
    <3>1. Len(db) = 1 /\ calls = {}
      BY <2>1 DEF Init
    <3>2. \A k \in DOMAIN cache : cache[k].at = 1 /\ cache[k].invalid = FALSE
      BY <2>1 DEF Init, Entry
    <3>3. EntriesFit
      BY <3>1, <3>2 DEF EntriesFit, UpToDate, Known
    <3>4. MountedFetched
      BY <3>2 DEF MountedFetched, Known
    <3>5. QED
      BY <3>1, <3>3, <3>4 DEF ShowInv, OfOK, CallsFit
  <2>2. QED
    BY <2>1
<1>2. ShowInv /\ ScreenInv /\ KnowInv /\ [Next]_vars => ShowInv'
  BY StepShows
<1>3. QED
  BY <1>1, <1>2, Invariant, ScreenInvariant, PTL DEF Spec

\* When a page rests, it shows what this browser's own changes have made of the rows:
\* everything else has an excuse, namely a change of others, a cascade or a request that failed
\* half-way, an answer that slipped past an invalidation, or a mutation whose answer is still to come.
\* So no mutation of any page leaves a list or a detail uninvalidated that shows what it wrote,
\* whatever the order in which answers, invalidations and page changes come.
THEOREM OwnChangesAreShown == Spec => []OwnChangesShow
<1>1. ASSUME ShowInv, ScreenInv
      PROVE  OwnChangesShow
  <2>1. ASSUME NEW q \in Mounted(page), Known(q), NEW i \in cache[q.key].at + 1 .. Len(db),
               NEW k \in Changed(q, db[i].by), Settled(q)
        PROVE  k \in swept \/ Pending(k)
    <3>1. q \in MountedQuery
      BY <1>1, MountsOfScreens DEF Mounted, ScreenInv, PageOK
    <3>2. UpToDate(q, cache[q.key].at)
      BY <1>1, <2>1, <3>1 DEF ShowInv, EntriesFit, MountedFetched, Settled
    <3>3. Excused(q, k)
      BY <3>2 DEF UpToDate
    <3>4. ~Gone(q, k)
      BY <2>1 DEF Gone, Settled, Ghost, Changed
    <3>5. QED
      BY <3>3, <3>4 DEF Excused, Tells, Pending
  <2>2. QED
    BY <2>1 DEF OwnChangesShow
<1>2. QED
  BY <1>1, ShowInvariant, ScreenInvariant, PTL

-----------------------------------------------------------------------------
(* What the operations ask for, and what the pages offer them on.           *)

\* Rows that this browser's mutations may end without ending another with them.
Fleeting == {"member", "sentInvite", "myInvite"}
Lasting == Kind \ Fleeting
ApiKeyHooks == {"useCreateApiKey", "useRevokeApiKey"}

Asks(mu, role, needs) == mu.op.role = role /\ mu.op.needs = needs /\ mu.op.forbids = {}

LEMMA TheGuards ==
  /\ Asks(useAcceptInvite, "any", {"myInvite"})
  /\ Asks(useDeclineInvite, "any", {"myInvite"})
  /\ Asks(useCreateApplication, "any", {})
  /\ Asks(useUpdateApplication, "owner", {"application"})
  /\ Asks(useDeleteApplication, "owner", {"application"})
  /\ Asks(useCreateApiKey, "owner", {})
  /\ Asks(useRevokeApiKey, "owner", {"apiKey"})
  /\ Asks(useInviteMember, "owner", {"application"})
  /\ Asks(useUpdateMemberRole, "owner", {"member"})
  /\ Asks(useRemoveMember, "owner", {"member"})
  /\ Asks(useCancelInvite, "owner", {"sentInvite"})
  /\ Asks(useCreateProgram, "member", {"chain"})
  /\ Asks(useDeleteProgram, "member", {"program"})
  /\ Asks(useVerifyContract, "any", {})
  /\ Asks(useCreateSubscription, "member", {})
  /\ Asks(useUpdateSubscription("on"), "any", {"subscription"})
  /\ Asks(useUpdateSubscription("off"), "any", {"subscription"})
  /\ Asks(useUpdateSubscription("same"), "any", {"subscription"})
  /\ Asks(useDeleteSubscription, "any", {"subscription"})
  /\ Asks(useCreateWebhook, "member", {})
  /\ Asks(useUpdateWebhook("on"), "member", {"webhook"})
  /\ Asks(useUpdateWebhook("off"), "member", {"webhook"})
  /\ Asks(useDeleteWebhook, "member", {"webhook"})
  /\ Asks(useTestWebhook, "member", {"webhook"})
  /\ Asks(checkWebhookHealth, "guest", {"webhook"})
  /\ Asks(useRetryWebhookLog, "any", {"log"})
  /\ Asks(useCreateChain, "root", {})
  /\ Asks(useUpdateChain("on"), "root", {"chain"})
  /\ Asks(useUpdateChain("off"), "root", {"chain"})
  /\ Asks(useUpdateChain("same"), "root", {"chain"})
  /\ Asks(useCheckChainRpc, "root", {"chain"})
  /\ Asks(useRebalanceIngestors, "root", {})
  /\ Asks(useRebalanceDispatchers, "root", {})
  /\ useDeleteChain.hook = "useDeleteChain" /\ useDeleteChain.op.role = "root"
     /\ useDeleteChain.op.needs = {"chain"}
  /\ useLeaveApplication.hook = "useLeaveApplication" /\ useLeaveApplication.op.role = "any"
     /\ useLeaveApplication.op.needs = {}
  /\ useCreateApiKey.hook = "useCreateApiKey" /\ useRevokeApiKey.hook = "useRevokeApiKey"
BY DEF Asks, Mutation, Op, useAcceptInvite, membersApi, InvitesAccept, useDeclineInvite,
       InvitesDecline, useInviteMember, MembersInvite, useUpdateMemberRole, MembersUpdateRole,
       useRemoveMember, MembersRemove, useLeaveApplication, MembersLeave, useCancelInvite,
       InvitesCancel, useCreateApplication, applicationsApi, ApplicationsCreate,
       useUpdateApplication, ApplicationsUpdate, useDeleteApplication, ApplicationsRemove,
       useCreateApiKey, apiKeysApi, ApiKeysCreate, useRevokeApiKey, ApiKeysRevoke,
       useCreateProgram, programsApi, ProgramsCreate, useDeleteProgram, ProgramsRemove,
       useVerifyContract, ProgramsVerify, useCreateSubscription, subscriptionsApi,
       SubscriptionsCreate, useUpdateSubscription, SubscriptionsUpdate, Statuses,
       useDeleteSubscription, SubscriptionsRemove, useCreateWebhook, webhooksApi, WebhooksCreate,
       useUpdateWebhook, WebhooksUpdate, useDeleteWebhook, WebhooksRemove, useTestWebhook,
       WebhooksTest, checkWebhookHealth, WebhooksHealthCheck, useRetryWebhookLog, logsApi,
       LogsRetry, useCreateChain, chainsApi, ChainsCreate, useUpdateChain, ChainsUpdate,
       useDeleteChain, ChainsRemove, useCheckChainRpc, ChainsCheckRpc, useRebalanceIngestors,
       ingestorApi, IngestorRebalance, useRebalanceDispatchers, dispatcherApi, DispatcherRebalance

\* What a mutation writes: rows it has looked for, and new ones; nobody's role; and with
\* a row that is not fleeting it ends rows that its answer does not speak for.
Careful(mu) ==
  /\ mu.op.role \in {"any", "guest", "member", "owner", "root"}
  /\ mu.op.needs \subseteq Kind
  /\ mu.op.forbids = {} \/ mu.hook \in {"useDeleteChain", "useLeaveApplication"}
  /\ \A w \in Writes(mu.op) :
       /\ w.kind \in Kind /\ (w.kind = "membership" => w.to = "new")
       /\ w.to = "none" => \/ w.kind \in Fleeting \cup {"chain"}
                           \/ ~(Touched(w) \subseteq {v.kind : v \in Writes(mu.op)})
       /\ w.to = "new" \/ w.kind \in mu.op.needs
       /\ w.kind = "chain" /\ w.to = "none" => w = Delete("chain") /\ mu.hook = "useDeleteChain"
\* Of two writes the first is of a new row.
NewFirst(todo) == \A i, j \in DOMAIN todo : i < j => todo[i].to = "new"

LEMMA MutationsAreCareful == \A mu \in OfferedMutation : Careful(mu)
<1>1. ASSUME NEW mu, NEW role \in {"any", "guest", "member", "owner", "root"}, NEW needs, NEW keys,
             needs \subseteq Kind, Asks(mu, role, needs), Does(mu, <<>>, keys)
      PROVE  Careful(mu)
  <2>1. Writes(mu.op) = {}
    BY <1>1, SmallWrites DEF Does
  <2>2. QED
    BY <1>1, <2>1 DEF Careful, Asks
<1> DEFINE Mild(k, to) == /\ k \in Kind \ {"membership"} /\ (k = "chain" => to # "none")
                          /\ to = "none" => k \in Fleeting \/ Dependents(k) \ {k} # {}
           Asking(mu) == /\ mu.op.role \in {"any", "guest", "member", "owner", "root"}
                         /\ mu.op.needs \subseteq Kind /\ mu.op.forbids = {}
           Wants(mu, k, to) == Asking(mu) /\ (to = "new" \/ k \in mu.op.needs)
           Puts(mu, k, to) == mu.op.writes = <<Put(k, to)>> /\ mu.op.probes = FALSE
<1>2. ASSUME NEW mu, NEW k, NEW to, Puts(mu, k, to), Wants(mu, k, to), Mild(k, to)
      PROVE  Careful(mu)
  <2>1. PICK w : w = Put(k, to)
    OBVIOUS
  <2>2. w.kind = k /\ w.to = to /\ w # Delete("chain")
    BY <1>2, <2>1 DEF Put, Delete
  <2>3. Writes(mu.op) = {w}
    BY <1>2, <2>1, SmallWrites
  <2>4. to = "none" => k \in Fleeting \/ ~(Touched(w) \subseteq {v.kind : v \in Writes(mu.op)})
    BY <1>2, <2>2, <2>3 DEF Touched
  <2>5. QED
    BY <1>2, <2>2, <2>3, <2>4 DEF Careful
<1>3. /\ {} \subseteq Kind
      /\ \A k \in {"application", "chain", "program", "subscription", "webhook", "log", "apiKey", "member",
                   "sentInvite", "myInvite"} : {k} \subseteq Kind /\ k \in {k}
  BY DEF Kind
<1>4. /\ \A to \in {"new", "same", "on", "off"} :
           \A k \in {"application", "chain", "program", "subscription", "webhook", "apiKey", "member",
                     "sentInvite"} : Mild(k, to)
      /\ \A k \in {"application", "program", "subscription", "webhook", "member", "sentInvite", "myInvite"} :
           Mild(k, "none")
  BY DEF Dependents, Kind, Fleeting
<1>5. ASSUME NEW mu, NEW k, NEW to, NEW keys, Does(mu, <<Put(k, to)>>, keys)
      PROVE  Puts(mu, k, to)
  BY <1>5 DEF Does
<1>6. ASSUME NEW mu, NEW role \in {"any", "guest", "member", "owner", "root"}, NEW needs, NEW to, NEW k,
             needs \subseteq Kind, Asks(mu, role, needs), to = "new" \/ k \in needs
      PROVE  Wants(mu, k, to)
  BY <1>6 DEF Asks
<1> HIDE DEF Mild, Wants, Puts
<1>7. /\ Careful(useVerifyContract) /\ Careful(useTestWebhook)
      /\ Careful(checkWebhookHealth) /\ Careful(useRetryWebhookLog)
      /\ Careful(useRebalanceIngestors) /\ Careful(useRebalanceDispatchers)
  BY <1>1, <1>3, TheMutations, TheGuards
\* What each of the others writes, and asks for.
<1>8. /\ Puts(useDeclineInvite, "myInvite", "none") /\ Puts(useInviteMember, "sentInvite", "new")
      /\ Puts(useUpdateMemberRole, "member", "same") /\ Puts(useRemoveMember, "member", "none")
      /\ Puts(useCancelInvite, "sentInvite", "none") /\ Puts(useUpdateApplication, "application", "same")
      /\ Puts(useDeleteApplication, "application", "none") /\ Puts(useCreateApiKey, "apiKey", "new")
      /\ Puts(useRevokeApiKey, "apiKey", "same") /\ Puts(useDeleteProgram, "program", "none")
  BY <1>5, TheMutations DEF New, Delete, Touch
<1>9. /\ Puts(useCreateSubscription, "subscription", "new")
      /\ Puts(useDeleteSubscription, "subscription", "none")
      /\ \A to \in {"on", "off", "same"} : Puts(useUpdateSubscription(to), "subscription", to)
      /\ Puts(useCreateWebhook, "webhook", "new") /\ Puts(useDeleteWebhook, "webhook", "none")
      /\ \A to \in {"on", "off"} : Puts(useUpdateWebhook(to), "webhook", to)
      /\ Puts(useCreateChain, "chain", "new")
      /\ \A to \in {"on", "off", "same"} : Puts(useUpdateChain(to), "chain", to)
  BY <1>5, TheMutations DEF New, Delete
<1>10. /\ Wants(useDeclineInvite, "myInvite", "none") /\ Wants(useInviteMember, "sentInvite", "new")
       /\ Wants(useUpdateMemberRole, "member", "same") /\ Wants(useRemoveMember, "member", "none")
       /\ Wants(useCancelInvite, "sentInvite", "none") /\ Wants(useUpdateApplication, "application", "same")
       /\ Wants(useDeleteApplication, "application", "none") /\ Wants(useCreateApiKey, "apiKey", "new")
       /\ Wants(useRevokeApiKey, "apiKey", "same") /\ Wants(useDeleteProgram, "program", "none")
  <2>1. /\ Wants(useInviteMember, "sentInvite", "new") /\ Wants(useCreateApiKey, "apiKey", "new")
    <3>1. /\ Asks(useInviteMember, "owner", {"application"}) /\ {"application"} \subseteq Kind
          /\ Asks(useCreateApiKey, "owner", {}) /\ {} \subseteq Kind
      BY TheGuards DEF Kind
    <3>2. QED
      BY <3>1 DEF Wants, Asks
  <2>2. ASSUME NEW mu, NEW role \in {"any", "guest", "member", "owner", "root"}, NEW to, NEW k \in Kind,
               Asks(mu, role, {k})
        PROVE  Wants(mu, k, to)
    BY <1>6, <2>2
  <2>3. QED
    BY <1>3, <2>1, <2>2, TheGuards
<1>11. /\ Wants(useCreateSubscription, "subscription", "new")
       /\ Wants(useDeleteSubscription, "subscription", "none")
       /\ \A to \in {"on", "off", "same"} : Wants(useUpdateSubscription(to), "subscription", to)
       /\ Wants(useCreateWebhook, "webhook", "new") /\ Wants(useDeleteWebhook, "webhook", "none")
       /\ \A to \in {"on", "off"} : Wants(useUpdateWebhook(to), "webhook", to)
       /\ Wants(useCreateChain, "chain", "new")
       /\ \A to \in {"on", "off", "same"} : Wants(useUpdateChain(to), "chain", to)
  <2>1. /\ Wants(useCreateSubscription, "subscription", "new") /\ Wants(useCreateWebhook, "webhook", "new")
        /\ Wants(useCreateChain, "chain", "new")
    <3>1. /\ Asks(useCreateSubscription, "member", {}) /\ Asks(useCreateWebhook, "member", {})
          /\ Asks(useCreateChain, "root", {}) /\ {} \subseteq Kind
      BY TheGuards
    <3>2. QED
      BY <3>1 DEF Wants, Asks
  <2>2. ASSUME NEW mu, NEW role \in {"any", "guest", "member", "owner", "root"}, NEW to, NEW k \in Kind,
               Asks(mu, role, {k})
        PROVE  Wants(mu, k, to)
    BY <1>6, <2>2
  <2>3. QED
    BY <1>3, <2>1, <2>2, TheGuards
<1>12. /\ Careful(useDeclineInvite) /\ Careful(useInviteMember) /\ Careful(useUpdateMemberRole)
       /\ Careful(useRemoveMember) /\ Careful(useCancelInvite) /\ Careful(useUpdateApplication)
       /\ Careful(useDeleteApplication) /\ Careful(useCreateApiKey) /\ Careful(useRevokeApiKey)
       /\ Careful(useDeleteProgram)
  BY <1>2, <1>4, <1>8, <1>10
<1>13. /\ Careful(useCreateSubscription) /\ Careful(useDeleteSubscription)
       /\ Careful(useUpdateSubscription("on")) /\ Careful(useUpdateSubscription("off"))
       /\ Careful(useUpdateSubscription("same"))
       /\ Careful(useCreateWebhook) /\ Careful(useDeleteWebhook)
       /\ Careful(useUpdateWebhook("on")) /\ Careful(useUpdateWebhook("off"))
       /\ Careful(useCreateChain) /\ Careful(useUpdateChain("on")) /\ Careful(useUpdateChain("off"))
       /\ Careful(useUpdateChain("same"))
  BY <1>2, <1>4, <1>9, <1>11
<1>14. Careful(useCreateApplication) /\ Careful(useCreateProgram)
  <2>1. ASSUME NEW mu, NEW role \in {"any", "member"}, NEW needs, NEW keys, NEW k \in Kind, NEW l \in Kind,
               needs \subseteq Kind, Asks(mu, role, needs), Does(mu, <<New(k), New(l)>>, keys)
        PROVE  Careful(mu)
    <3>1. Writes(mu.op) = {New(k), New(l)}
      BY <2>1 DEF Does, Writes
    <3>2. QED
      BY <2>1, <3>1 DEF Careful, Asks, New, Put, Delete
  <2>2. {"application", "membership", "program", "event"} \subseteq Kind
    BY DEF Kind
  <2>3. QED
    BY <1>3, <2>1, <2>2, TheMutations, TheGuards
<1>15. Careful(useAcceptInvite)
  <2>1. Writes(useAcceptInvite.op) = {New("application"), Delete("myInvite")}
    BY TheMutations DEF Does, Writes
  <2>2. QED
    BY <2>1, TheGuards DEF Careful, Asks, New, Delete, Put, Kind, Fleeting
<1>16. Careful(useLeaveApplication)
  <2>1. Writes(useLeaveApplication.op) = {}
    BY TheMutations, SmallWrites DEF Does
  <2>2. QED
    BY <2>1, TheGuards DEF Careful
<1>17. Careful(useDeleteChain)
  <2>1. Writes(useDeleteChain.op) = {Delete("chain")}
    BY TheMutations, SmallWrites DEF Does
  <2>2. QED
    BY <2>1, TheGuards DEF Careful, Delete, Put, Kind
<1>18. Careful(useCheckChainRpc)
  <2>1. Writes(useCheckChainRpc.op) = {Put("chain", "on"), Put("chain", "off")}
    BY TheMutations DEF Writes
  <2>2. QED
    BY <2>1, TheGuards DEF Careful, Asks, Delete, Put, Kind
<1>19. QED
  BY <1>7, <1>12, <1>13, <1>14, <1>15, <1>16, <1>17, <1>18 DEF OfferedMutation

LEMMA WritesNewFirst ==
  ASSUME NEW mu \in OfferedMutation
  PROVE  NewFirst(mu.op.writes)
<1> DEFINE Fine(m) == NewFirst(m.op.writes)
<1>1. ASSUME NEW m, NEW w, m.op.writes = <<>> \/ m.op.writes = <<w>>
      PROVE  Fine(m)
  BY <1>1 DEF NewFirst
<1>2. ASSUME NEW m, NEW k, NEW w, NEW keys, Does(m, <<New(k), w>>, keys)
      PROVE  Fine(m)
  <2>1. m.op.writes = <<New(k), w>> /\ New(k).to = "new"
    BY <1>2 DEF Does, New, Put
  <2>2. QED
    BY <2>1 DEF NewFirst
<1>3. /\ Fine(useLeaveApplication) /\ Fine(useVerifyContract) /\ Fine(useTestWebhook)
      /\ Fine(checkWebhookHealth) /\ Fine(useRetryWebhookLog) /\ Fine(useCheckChainRpc)
      /\ Fine(useRebalanceIngestors) /\ Fine(useRebalanceDispatchers)
  BY <1>1, TheMutations DEF Does
<1>4. ASSUME NEW m, NEW w, NEW keys, Does(m, <<w>>, keys)
      PROVE  Fine(m)
  BY <1>1, <1>4 DEF Does
<1> HIDE DEF Fine
<1>5. /\ Fine(useDeclineInvite) /\ Fine(useUpdateApplication) /\ Fine(useDeleteApplication)
      /\ Fine(useCreateApiKey) /\ Fine(useRevokeApiKey) /\ Fine(useInviteMember)
      /\ Fine(useUpdateMemberRole) /\ Fine(useRemoveMember) /\ Fine(useCancelInvite)
  BY <1>4, TheMutations
<1>6. /\ Fine(useDeleteProgram) /\ Fine(useCreateSubscription) /\ Fine(useUpdateSubscription("on"))
      /\ Fine(useUpdateSubscription("off")) /\ Fine(useUpdateSubscription("same"))
      /\ Fine(useDeleteSubscription)
      /\ Fine(useCreateWebhook) /\ Fine(useUpdateWebhook("on")) /\ Fine(useUpdateWebhook("off"))
  BY <1>4, TheMutations
<1>7. /\ Fine(useDeleteWebhook) /\ Fine(useCreateChain) /\ Fine(useUpdateChain("on"))
      /\ Fine(useUpdateChain("off")) /\ Fine(useUpdateChain("same")) /\ Fine(useDeleteChain)
  BY <1>4, TheMutations
<1>8. /\ Fine(useAcceptInvite) /\ Fine(useCreateApplication) /\ Fine(useCreateProgram)
  BY <1>2, TheMutations
<1>9. \A m \in OfferedMutation : Fine(m)
  BY <1>3, <1>5, <1>6, <1>7, <1>8 DEF OfferedMutation
<1>10. QED
  BY <1>9 DEF Fine

\* What an operation asks for and no row of this application tells: who is root, who is
\* owner, and the rows that this browser itself may have ended.
Granted(r, mounts, offer) ==
  LET mu == offer.mutation
  IN  /\ mu.op.role = "root" => r
      /\ mu.op.role = "owner" => mu.hook \in ApiKeyHooks \/ isOwner \in offer.rows
      /\ \A k \in mu.op.needs \cap Fleeting :
           \E q \in mounts : k \in q.read.shows /\ Row(q, k, There) \in offer.rows

LEMMA OffersAreGranted ==
  ASSUME NEW r \in BOOLEAN, NEW p \in Page, NEW offer \in Pages[r][p].offers
  PROVE  Granted(r, Mounts[r][p], offer)
<1> DEFINE Modest(mu) == /\ mu.op.role # "root" /\ (mu.op.role = "owner" => mu.hook \in ApiKeyHooks)
                         /\ mu.op.needs \cap Fleeting = {}
           Modestly(o) == Modest(o.mutation)
           Bell(o) == o \in NotificationBell
           Fine(screen) == \A o \in screen.offers : Modestly(o) \/ Bell(o)
<1>1. /\ Modest(useCreateApplication) /\ Modest(useCreateApiKey) /\ Modest(useRevokeApiKey)
      /\ Modest(useLeaveApplication) /\ Modest(useCreateProgram) /\ Modest(useDeleteProgram)
      /\ Modest(useVerifyContract)
  BY TheGuards DEF Asks, ApiKeyHooks, Fleeting
<1>2. /\ Modest(useCreateSubscription) /\ Modest(useDeleteSubscription)
      /\ Modest(useUpdateSubscription("on")) /\ Modest(useUpdateSubscription("off"))
      /\ Modest(useUpdateSubscription("same"))
      /\ Modest(useCreateWebhook) /\ Modest(useDeleteWebhook)
      /\ Modest(useUpdateWebhook("on")) /\ Modest(useUpdateWebhook("off"))
      /\ Modest(useTestWebhook) /\ Modest(checkWebhookHealth) /\ Modest(useRetryWebhookLog)
  BY TheGuards DEF Asks, Fleeting
<1>3. ASSUME NEW o, Modestly(o)
      PROVE  Granted(r, Mounts[r][p], o)
  BY <1>3 DEF Granted
<1>4. ASSUME NEW o, Bell(o), p # "login"
      PROVE  Granted(r, Mounts[r][p], o)
  <2>1. useMyPendingInvites \in Mounts[r][p] /\ "myInvite" \in useMyPendingInvites.read.shows
    BY <1>4, BellEverywhere, TheShows
  <2>2. Row(useMyPendingInvites, "myInvite", There) \in o.rows
        /\ o.mutation \in {useAcceptInvite, useDeclineInvite}
    BY <1>4 DEF NotificationBell, Offer
  <2>3. o.mutation.op.role = "any" /\ o.mutation.op.needs = {"myInvite"}
    BY <2>2, TheGuards DEF Asks
  <2>4. QED
    BY <2>1, <2>2, <2>3 DEF Granted
<1> HIDE DEF Modest, Bell
<1>5. Fine(Pages[r]["dashboard"])
  BY DEF Pages, DashboardPage, Screen, Bell
<1>6. Fine(Pages[r]["applications"])
  BY <1>1 DEF Pages, ApplicationsPage, CreateApplicationDialog, Screen, Offer, Bell
<1>7. Fine(Pages[r]["overview"])
  BY <1>1 DEF Pages, ApplicationOverviewPage, CreateApiKeyDialog, Screen, AppPage, Reached, Offer, Bell
<1>8. Fine(Pages[r]["programs"])
  BY <1>1 DEF Pages, ProgramsPage, Screen, AppPage, Reached, Offer, Bell
<1>9. Fine(Pages[r]["newProgram"])
  BY <1>1 DEF Pages, CreateProgramDialog, Screen, AppPage, Reached, Offer, Bell
<1>10. Fine(Pages[r]["subscriptions"])
  BY <1>2 DEF Pages, SubscriptionsPage, Screen, AppPage, Reached, Offer, Bell
<1>11. Fine(Pages[r]["newSubscription"])
  BY <1>2 DEF Pages, CreateSubscriptionDialog, Screen, AppPage, Reached, Offer, Bell
<1>12. Fine(Pages[r]["webhooks"])
  BY <1>2 DEF Pages, WebhooksPage, CreateWebhookDialog, Screen, AppPage, Reached, Offer, Bell
<1>13. Fine(Pages[r]["program"])
  BY DEF Pages, ProgramDetailPage, Screen, Reached, Bell
<1>14. Fine(Pages[r]["subscription"])
  BY <1>2 DEF Pages, SubscriptionDetailPage, Screen, Reached, Offer, Bell
<1>15. Fine(Pages[r]["webhook"])
  <2>1. \A o \in EditWebhookDialog : Modestly(o)
    BY <1>2 DEF EditWebhookDialog, Offer
  <2>2. QED
    BY <1>2, <2>1 DEF Pages, WebhookDetailPage, Screen, Reached, Offer, Bell
<1>16. Pages[r]["login"].offers = {}
  BY DEF Pages, LoginPage
<1>17. ASSUME NEW o, o.mutation.op.role = "root", o.mutation.op.needs \cap Fleeting = {}, r
       PROVE  Granted(r, Mounts[r][p], o)
  BY <1>17 DEF Granted
<1>18. ASSUME NEW o \in Pages[r]["chains"].offers, ~Bell(o)
       PROVE  o.mutation.op.role = "root" /\ o.mutation.op.needs \cap Fleeting = {} /\ r
  <2>1. Pages[r]["chains"] = ChainsPage(r)
    BY DEF Pages
  <2>2. r = TRUE
    BY <1>18, <2>1 DEF ChainsPage, Screen, Bell
  <2>3. o.mutation \in {useCreateChain, useUpdateChain("on"), useUpdateChain("off"),
                        useUpdateChain("same"), useDeleteChain, useCheckChainRpc}
    BY <1>18, <2>1, <2>2 DEF ChainsPage, CreateChainDialog, EditChainDialog, Screen, Offer, Bell
  <2>4. QED
    BY <2>2, <2>3, TheGuards DEF Asks, Fleeting
<1>19. ASSUME NEW o, ~Bell(o), o \in Pages[r]["ingestors"].offers \/ o \in Pages[r]["dispatchers"].offers
       PROVE  o.mutation.op.role = "root" /\ o.mutation.op.needs \cap Fleeting = {} /\ r
  <2>1. r /\ o.mutation \in {useRebalanceIngestors, useRebalanceDispatchers}
    BY <1>19 DEF Pages, IngestorsPage, DispatchersPage, Screen, Offer, Bell
  <2>2. QED
    BY <2>1, TheGuards DEF Asks
<1>20. ASSUME NEW o \in Pages[r]["settings"].offers, ~Bell(o)
       PROVE  Granted(r, Mounts[r][p], o)
  <2>1. isOwner \in o.rows /\ o.mutation \in {useUpdateApplication, useDeleteApplication}
    BY <1>20 DEF Pages, SettingsPage, Screen, AppPage, Reached, Offer, Bell
  <2>2. o.mutation.op.role = "owner" /\ o.mutation.op.needs = {"application"}
    BY <2>1, TheGuards DEF Asks
  <2>3. QED
    BY <2>1, <2>2 DEF Granted, Fleeting
<1>21. ASSUME NEW o \in Pages[r]["members"].offers, ~Bell(o), p = "members"
       PROVE  Granted(r, Mounts[r][p], o)
  <2>1. useMembers \in Mounts[r][p] /\ useInvites \in Mounts[r][p]
    <3>1. useMembers \in Pages[r]["members"].mounts /\ useInvites \in Pages[r]["members"].mounts
      BY DEF Pages, MembersPage, Screen, AppPage, Reached
    <3>2. QED
      BY <1>21, <3>1, MountsOfScreens
  <2>2. "member" \in useMembers.read.shows /\ "sentInvite" \in useInvites.read.shows
    BY TheShows
  <2>3. \/ o.mutation = useLeaveApplication
        \/ o.mutation = useInviteMember /\ isOwner \in o.rows
        \/ /\ o.mutation \in {useUpdateMemberRole, useRemoveMember}
           /\ {isOwner, Row(useMembers, "member", There)} \subseteq o.rows
        \/ /\ o.mutation = useCancelInvite
           /\ {isOwner, Row(useInvites, "sentInvite", There)} \subseteq o.rows
    BY <1>21 DEF Pages, MembersPage, InviteMemberDialog, Screen, AppPage, Reached, Offer, Bell
  <2>4. CASE o.mutation = useLeaveApplication
    BY <1>1, <1>3, <2>4
  <2>5. CASE o.mutation = useInviteMember /\ isOwner \in o.rows
    BY <2>5, TheGuards DEF Granted, Asks, Fleeting
  <2>6. CASE /\ o.mutation \in {useUpdateMemberRole, useRemoveMember}
             /\ {isOwner, Row(useMembers, "member", There)} \subseteq o.rows
    <3>1. o.mutation.op.role = "owner" /\ o.mutation.op.needs = {"member"}
      BY <2>6, TheGuards DEF Asks
    <3>2. QED
      BY <2>1, <2>2, <2>6, <3>1 DEF Granted
  <2>7. CASE /\ o.mutation = useCancelInvite
             /\ {isOwner, Row(useInvites, "sentInvite", There)} \subseteq o.rows
    <3>1. o.mutation.op.role = "owner" /\ o.mutation.op.needs = {"sentInvite"}
      BY <2>7, TheGuards DEF Asks
    <3>2. QED
      BY <2>1, <2>2, <2>7, <3>1 DEF Granted
  <2>8. QED
    BY <2>3, <2>4, <2>5, <2>6, <2>7
<1>22. CASE p \in {"members", "settings", "chains", "ingestors", "dispatchers", "login"}
  BY <1>4, <1>16, <1>17, <1>18, <1>19, <1>20, <1>21, <1>22
<1>23. CASE p \notin {"members", "settings", "chains", "ingestors", "dispatchers", "login"}
  <2>1. Fine(Pages[r][p])
    BY <1>5, <1>6, <1>7, <1>8, <1>9, <1>10, <1>11, <1>12, <1>13, <1>14, <1>15, <1>23, ThePages DEF PageNames
  <2>2. QED
    BY <1>3, <1>4, <1>23, <2>1
<1>24. QED
  BY <1>22, <1>23

-----------------------------------------------------------------------------
(* The rows and what is shown of them.                                      *)

\* Rows change by commits that a page must show: not by new ones.
HistoryOK ==
  \A i \in 1 .. Len(db), k \in Kind : db[i].rows[k] # Now[k] =>
    \E j \in i + 1 .. Len(db) : k \in Touched(db[j].by) /\ db[j].by.to # "new"

\* Behind nobody's back no lasting row goes, and nobody's role changes.
Standing ==
  swept = {} => /\ \A k \in Lasting : Now[k] # "none"
                /\ Now["membership"] \in {"on", "off"}
                /\ \A i \in 1 .. Len(db) : db[i].rows["membership"] = Now["membership"]

LEMMA CommittedChanges ==
  ASSUME NEW rows, NEW w, NEW k \in Kind, Committed(rows, w)[k] # rows[k]
  PROVE  k \in Touched(w) /\ w.to # "new"
BY DEF Committed, Touched, Status

LEMMA CommitHistory ==
  ASSUME DbOK, HistoryOK, NEW w, NEW subject, Commit(w, subject)
  PROVE  HistoryOK'
<1>1. PICK x : x = [rows |-> Committed(Now, w), by |-> w]
  OBVIOUS
<1>2. db' = Append(db, x) /\ Len(db) \in Nat
  BY <1>1 DEF Commit, DbOK
<1>3. Len(db') = Len(db) + 1 /\ Now' = Committed(Now, w) /\ \A i \in 1 .. Len(db) : db'[i] = db[i]
  BY <1>1, <1>2, Appended
<1>4. db'[Len(db) + 1].by = w /\ db'[Len(db) + 1].rows = Now'
  BY <1>1, <1>2, <1>3 DEF DbOK
<1>5. ASSUME NEW i \in 1 .. Len(db) + 1, NEW k \in Kind, db'[i].rows[k] # Now'[k]
      PROVE  \E j \in i + 1 .. Len(db) + 1 : k \in Touched(db'[j].by) /\ db'[j].by.to # "new"
  <2>1. i \in 1 .. Len(db)
    BY <1>2, <1>4, <1>5
  <2>2. CASE db[i].rows[k] # Now[k]
    <3>1. PICK j \in i + 1 .. Len(db) : k \in Touched(db[j].by) /\ db[j].by.to # "new"
      BY <2>1, <2>2 DEF HistoryOK
    <3>2. db'[j] = db[j] /\ j \in i + 1 .. Len(db) + 1
      BY <1>2, <1>3, <2>1
    <3>3. QED
      BY <3>1, <3>2
  <2>3. CASE db[i].rows[k] = Now[k]
    <3>1. Committed(Now, w)[k] # Now[k]
      BY <1>3, <1>5, <2>1, <2>3
    <3>2. k \in Touched(w) /\ w.to # "new"
      BY <3>1, CommittedChanges
    <3>3. QED
      BY <1>2, <1>4, <2>1, <3>2
  <2>4. QED
    BY <2>2, <2>3
<1>6. QED
  BY <1>3, <1>5 DEF HistoryOK

\* This browser's own writes, where their answer speaks for all they change.
LEMMA OwnCommitStands ==
  ASSUME DbOK, Standing, NEW mu \in OfferedMutation, NEW w \in Writes(mu.op), Possible(Now, w),
         NEW subject, subject \subseteq {v.kind : v \in Writes(mu.op)}, Commit(w, subject)
  PROVE  Standing'
<1> SUFFICES ASSUME swept' = {}
             PROVE  /\ \A k \in Lasting : Now'[k] # "none"
                    /\ Now'["membership"] \in {"on", "off"}
                    /\ \A i \in 1 .. Len(db') : db'[i].rows["membership"] = Now'["membership"]
  BY DEF Standing
<1>1. PICK x : x = [rows |-> Committed(Now, w), by |-> w]
  OBVIOUS
<1>2. /\ db' = Append(db, x) /\ Len(db) \in Nat /\ swept = {} /\ Touched(w) \subseteq subject
  BY <1>1 DEF Commit, DbOK
<1>3. Len(db') = Len(db) + 1 /\ Now' = Committed(Now, w) /\ \A i \in 1 .. Len(db) : db'[i] = db[i]
  BY <1>1, <1>2, Appended
<1>4. db'[Len(db) + 1].rows = Now'
  BY <1>1, <1>2, <1>3 DEF DbOK
<1>5. Careful(mu)
  BY MutationsAreCareful
<1>6. /\ \A k \in Lasting : Now[k] # "none"
      /\ Now["membership"] \in {"on", "off"}
      /\ \A i \in 1 .. Len(db) : db[i].rows["membership"] = Now["membership"]
  BY <1>2 DEF Standing
<1>7. w.to = "none" => w.kind \in Fleeting
  <2>1. "program" \in Lasting
    BY DEF Lasting, Fleeting, Kind
  <2>2. w.to = "none" /\ w.kind = "chain" => w = Delete("chain")
    BY <1>5 DEF Careful
  <2>3. QED
    BY <1>2, <1>5, <1>6, <2>1, <2>2 DEF Careful, Possible, Fleeting
<1>8. ASSUME NEW k \in Lasting
      PROVE  Now'[k] # "none" /\ (k = "membership" => Now'[k] = Now[k])
  <2>1. k \in Kind /\ k \notin Fleeting
    BY DEF Lasting
  <2>2. w.kind \in Fleeting => Dependents(w.kind) = {}
    BY DEF Fleeting, Dependents
  <2>3. k = w.kind => w.to # "none" /\ (k = "membership" => w.to = "new")
    BY <1>5, <1>7, <2>1 DEF Careful
  <2>4. QED
    BY <1>3, <1>6, <1>7, <2>1, <2>2, <2>3 DEF Committed, Status
<1>9. Now'["membership"] = Now["membership"]
  BY <1>8 DEF Lasting, Fleeting, Kind
<1>10. QED
  BY <1>2, <1>3, <1>4, <1>6, <1>8, <1>9

LEMMA StepRows ==
  ASSUME DbOK, CallsOK, OfOK, HistoryOK, Standing, [Next]_vars
  PROVE  HistoryOK' /\ Standing' /\ swept \subseteq swept'
<1>1. ASSUME UNCHANGED db, swept \subseteq swept'
      PROVE  HistoryOK' /\ Standing'
  <2>1. Now' = Now
    BY <1>1 DEF Now
  <2>2. HistoryOK'
    BY <1>1, <2>1 DEF HistoryOK
  <2>3. swept' = {} => swept = {}
    BY <1>1
  <2>4. QED
    BY <1>1, <2>1, <2>2, <2>3 DEF Standing
<1>2. CASE User
  <2>1. UNCHANGED <<db, swept>>
    BY <1>2 DEF User, Navigate, Mutate, Logout, SignIn, server
  <2>2. QED
    BY <1>1, <2>1
<1>3. ASSUME NEW c \in calls, Write(c)
      PROVE  HistoryOK' /\ Standing' /\ swept \subseteq swept'
  <2>1. PICK w : w = Head(c.todo)
    OBVIOUS
  <2>2. c.of \in OfferedMutation /\ w \in Writes(c.of.op)
    <3>1. c.pc = "running" /\ c.kind = "mutation"
      BY <1>3 DEF Write, CallsOK, Fits
    <3>2. c.of \in OfferedMutation /\ c.todo \in Seq(Writes(c.of.op)) /\ c.todo # <<>>
      BY <3>1 DEF OfOK, OfItsPage
    <3>3. QED
      BY <2>1, <3>2
  <2>3. CASE Possible(Now, w)
    <3>1. Commit(w, IF c.heard THEN Subject(c) ELSE {})
      BY <1>3, <2>1, <2>3 DEF Write
    <3>2. PICK subject : subject = IF c.heard THEN Subject(c) ELSE {}
      OBVIOUS
    <3>3. Commit(w, subject) /\ subject \subseteq {v.kind : v \in Writes(c.of.op)}
      BY <3>1, <3>2, WritesAndSubject
    <3>4. swept \subseteq swept'
      BY <3>3 DEF Commit
    <3>5. QED
      BY <2>2, <2>3, <3>3, <3>4, CommitHistory, OwnCommitStands
  <2>4. CASE ~Possible(Now, w)
    BY <1>1, <1>3, <2>1, <2>4 DEF Write
  <2>5. QED
    BY <2>3, <2>4
<1>4. ASSUME NEW c \in calls, CallStep(c), ~Write(c)
      PROVE  UNCHANGED db /\ swept \subseteq swept'
  <2>1. CASE Arrive(c) \/ QueryFails(c) \/ Find(c) \/ Publish(c)
    BY <2>1 DEF Arrive, QueryFails, Find, Publish, server, history
  <2>2. CASE Succeed(c) \/ Fail(c)
    BY <2>2 DEF Succeed, Fail, server, history
  <2>3. CASE Intercept(c) \/ CheckRefreshToken(c) \/ RotateTokens(c) \/ SetTokens(c) \/ Rejected(c)
    BY <2>3 DEF Intercept, CheckRefreshToken, RotateTokens, SetTokens, Rejected, server, history
  <2>4. QED
    BY <1>4, <2>1, <2>2, <2>3 DEF CallStep
<1>5. ASSUME NEW op \in Others, Elsewhere(op)
      PROVE  HistoryOK' /\ Standing' /\ swept \subseteq swept'
  <2>1. PICK w : w = Head(op.writes)
    OBVIOUS
  <2>2. Commit(w, {})
    BY <1>5, <2>1 DEF Elsewhere
  <2>3. swept \subseteq swept' /\ swept' # {}
    BY <2>2 DEF Commit, Touched
  <2>4. QED
    BY <2>2, <2>3, CommitHistory DEF Standing
<1>6. CASE Environment /\ ~\E op \in Others : Elsewhere(op)
  <2>1. UNCHANGED db /\ swept \subseteq swept'
    BY <1>6 DEF Environment, HandlerFails, RenewalFails, Minute, Expire, HearSignal, server
  <2>2. QED
    BY <1>1, <2>1
<1>7. CASE UNCHANGED vars
  BY <1>1, <1>7 DEF vars, server, history
<1>8. QED
  BY <1>1, <1>2, <1>3, <1>4, <1>5, <1>6, <1>7 DEF Next, Work, Environment

\* A page at rest shows the rows as they are, but for the kinds that changed behind its back.
LEMMA RestShowsNow ==
  ASSUME ShowInv, PageOK, CacheOK, DbOK, HistoryOK, AtRest,
         NEW q \in Mounted(page), Known(q), NEW k \in q.read.shows, k \in Kind, k \notin swept
  PROVE  /\ cache[q.key].at \in 1 .. Len(db)
         /\ db[cache[q.key].at].rows[k] = Now[k]
<1>1. q \in MountedQuery
  BY MountsOfScreens DEF Mounted, PageOK
<1>2. PICK i : i = cache[q.key].at
  OBVIOUS
<1>3. i \in 1 .. Len(db)
  BY <1>2 DEF Known, CacheOK, EntryFits, DbOK
<1>4. UpToDate(q, i)
  BY <1>1, <1>2 DEF ShowInv, EntriesFit, MountedFetched, Settled, AtRest
<1>5. ASSUME db[i].rows[k] # Now[k]
      PROVE  FALSE
  <2>1. PICK j \in i + 1 .. Len(db) : k \in Touched(db[j].by) /\ db[j].by.to # "new"
    BY <1>3, <1>5 DEF HistoryOK
  <2>2. k \in Changed(q, db[j].by)
    BY <2>1 DEF Changed
  <2>3. Excused(q, k)
    BY <1>4, <2>1, <2>2 DEF UpToDate
  <2>4. Gone(q, k)
    BY <2>3 DEF Excused, AtRest
  <2>5. Ghost
    BY <2>4 DEF Gone, Ghost
  <2>6. QED
    BY <2>5 DEF AtRest, Settled
<1>6. QED
  BY <1>2, <1>3, <1>5

\* What a page at rest offers may be done, unless it should not have offered it.
LEMMA OffersMayBeDone ==
  ASSUME ShowInv, PageOK, CacheOK, DbOK, HistoryOK, Standing, AtRest, swept = {},
         NEW offer \in Screen0.offers, \A row \in offer.rows : Shown(row),
         NEW mu, mu = offer.mutation, ~Misplaced(mu.hook)
  PROVE  Admitted(mu.op, Now, root) /\ \A w \in Writes(mu.op) : Possible(Now, w)
<1>1. /\ mu \in OfferedMutation /\ Careful(mu) /\ Granted(root, Mounted(page), offer)
  BY OffersOfScreens, OffersAreGranted, MutationsAreCareful DEF Screen0, Mounted, PageOK
<1>2. /\ \A k \in Lasting : Now[k] # "none"
      /\ Now["membership"] \in {"on", "off"}
      /\ \A i \in 1 .. Len(db) : db[i].rows["membership"] = Now["membership"]
  BY DEF Standing
<1>3. ASSUME NEW k \in mu.op.needs
      PROVE  Now[k] # "none"
  <2>1. CASE k \in Fleeting
    <3>1. PICK q \in Mounted(page) : k \in q.read.shows /\ Row(q, k, There) \in offer.rows
      BY <1>1, <1>3, <2>1 DEF Granted
    <3>2. PICK row : row = Row(q, k, There)
      OBVIOUS
    <3>3. row.key = q.key /\ row.kind = k /\ row.states = There /\ Shown(row)
      BY <3>1, <3>2 DEF Row
    <3>4. Known(q) /\ db[cache[q.key].at].rows[k] \in There
      BY <3>3 DEF Shown, Known
    <3>5. k \in Kind
      BY <2>1 DEF Fleeting, Kind
    <3>6. Now[k] \in There
      BY <3>1, <3>4, <3>5, RestShowsNow
    <3>7. QED
      BY <3>6 DEF There
  <2>2. CASE k \notin Fleeting
    BY <1>1, <1>2, <1>3, <2>2 DEF Careful, Lasting
  <2>3. QED
    BY <2>1, <2>2
<1>4. mu.op.forbids = {} /\ mu.hook # "useDeleteChain"
  <2>1. "program" \in Lasting
    BY DEF Lasting, Fleeting, Kind
  <2>2. QED
    BY <1>1, <1>2, <2>1 DEF Careful, Misplaced
<1>5. mu.op.role = "owner" => Now["membership"] = "on"
  <2>1. ASSUME mu.op.role = "owner", isOwner \in offer.rows
        PROVE  Now["membership"] = "on"
    <3>1. Shown(isOwner) /\ isOwner.kind = "membership" /\ isOwner.states = {"on"}
      BY <2>1 DEF isOwner, Row
    <3>2. PICK i : i = cache[isOwner.key].at
      OBVIOUS
    <3>3. i \in 1 .. Len(db) /\ db[i].rows["membership"] = "on"
      BY <3>1, <3>2 DEF Shown, CacheOK, EntryFits, DbOK
    <3>4. QED
      BY <1>2, <3>3
  <2>2. QED
    BY <1>1, <2>1 DEF Granted, ApiKeyHooks, Misplaced
<1>6. Admitted(mu.op, Now, root)
  <2>1. mu.op.role = "root" => root
    BY <1>1 DEF Granted
  <2>2. mu.op.role \in {"guest", "member", "owner"} => HasAccess(mu.op.role, Now, root)
    BY <1>2, <1>5 DEF HasAccess
  <2>3. mu.op.role \in {"any", "guest", "member", "owner", "root"}
    BY <1>1 DEF Careful
  <2>4. QED
    BY <1>3, <1>4, <2>1, <2>2, <2>3 DEF Admitted
<1>7. ASSUME NEW w \in Writes(mu.op)
      PROVE  Possible(Now, w)
  <2>1. Parents(w.kind) \subseteq Lasting
    BY DEF Parents, Lasting, Fleeting, Kind
  <2>2. w.kind = "chain" => w.to # "none"
    BY <1>1, <1>4, <1>7 DEF Careful
  <2>3. w # Delete("chain")
    BY <2>2 DEF Delete, Put
  <2>4. CASE w.to = "new"
    BY <1>2, <2>1, <2>4 DEF Possible
  <2>5. CASE w.to # "new"
    BY <1>1, <1>3, <1>7, <2>3, <2>5 DEF Possible, Careful
  <2>6. QED
    BY <2>4, <2>5
<1>8. QED
  BY <1>6, <1>7

-----------------------------------------------------------------------------
(* Requests that were sent from a page at rest.                             *)

Mutations == {c \in calls : c.kind = "mutation"}

\* A call that has been sent again carries a token that has not expired.
RenewedOK ==
  \A c \in Mutations : /\ c.pc = "sent" /\ c.again => c.token > expired
                       /\ c.pc = "renewed" => c.holds > expired

\* Before it is in its handler, and in it, what a request needs is there.
Asked(c) == c.pc \in {"sent", "renewing", "checked", "renewed", "rejected"}
Able(c) ==
  \/ Misplaced(c.of.hook)
  \/ /\ c.pc # "failed"
     /\ Asked(c) => Admitted(c.of.op, Now, root) /\ \A w \in Writes(c.of.op) : Possible(Now, w)
     /\ c.pc = "running" => (\A i \in DOMAIN c.todo : Possible(Now, c.todo[i])) /\ NewFirst(c.todo)

Alone == \A c, d \in Mutations : c.calm => c = d
CalmOK == \A c \in Mutations : c.calm /\ swept = {} /\ ~faulted => Able(c)

CallsCalm == RenewedOK /\ Alone /\ CalmOK
CalmInv == HistoryOK /\ Standing /\ CallsCalm

\* c or what Logout and a reload leave of it
Muted(c, mute) == IF mute THEN [c EXCEPT !.heard = FALSE] ELSE c

LEMMA MutedSame ==
  ASSUME NEW c, IsCall(c), NEW mute
  PROVE  LET d == Muted(c, mute)
         IN  /\ d.kind = c.kind /\ d.of = c.of /\ d.pc = c.pc /\ d.token = c.token /\ d.holds = c.holds
             /\ d.again = c.again /\ d.todo = c.todo /\ d.calm = c.calm
BY DEF Muted, IsCall, CallField

\* No mutation gets anywhere.
LEMMA MutationsRest ==
  ASSUME CallsCalm, CallsOK, NEW mute \in BOOLEAN,
         \A e \in Mutations' : \E c \in Mutations : e = Muted(c, mute),
         Mutations = {} \/ UNCHANGED expired,
         swept' = {} /\ ~faulted' => swept = {} /\ ~faulted /\ UNCHANGED <<db, root>>
  PROVE  CallsCalm'
<1>1. \A c \in Mutations : IsCall(c)
  BY DEF Mutations, CallsOK, Fits
<1>2. RenewedOK'
  <2>1. ASSUME NEW e \in Mutations'
        PROVE  /\ e.pc = "sent" /\ e.again => e.token > expired'
               /\ e.pc = "renewed" => e.holds > expired'
    <3>1. PICK c \in Mutations : e = Muted(c, mute)
      BY <2>1
    <3>2. e.pc = c.pc /\ e.again = c.again /\ e.token = c.token /\ e.holds = c.holds
      BY <1>1, <3>1, MutedSame
    <3>3. QED
      BY <3>2 DEF CallsCalm, RenewedOK
  <2>2. QED
    BY <2>1 DEF RenewedOK
<1>3. Alone'
  <2>1. ASSUME NEW e \in Mutations', NEW f \in Mutations', e.calm
        PROVE  e = f
    <3>1. PICK c \in Mutations : e = Muted(c, mute)
      BY <2>1
    <3>2. PICK d \in Mutations : f = Muted(d, mute)
      BY <2>1
    <3>3. c.calm
      BY <1>1, <2>1, <3>1, MutedSame
    <3>4. QED
      BY <3>1, <3>2, <3>3 DEF CallsCalm, Alone
  <2>2. QED
    BY <2>1 DEF Alone
<1>4. CalmOK'
  <2>1. ASSUME NEW e \in Mutations', e.calm, swept' = {}, ~faulted'
        PROVE  Able(e)'
    <3>1. PICK c \in Mutations : e = Muted(c, mute)
      BY <2>1
    <3>2. e.of = c.of /\ e.pc = c.pc /\ e.todo = c.todo /\ e.calm = c.calm
      BY <1>1, <3>1, MutedSame
    <3>3. Able(c)
      BY <2>1, <3>2 DEF CallsCalm, CalmOK
    <3>4. Now' = Now /\ root' = root
      BY <2>1 DEF Now
    <3>5. QED
      BY <3>2, <3>3, <3>4 DEF Able, Asked, Misplaced
  <2>2. QED
    BY <2>1 DEF CalmOK
<1>5. QED
  BY <1>2, <1>3, <1>4 DEF CallsCalm

\* The mutation c goes on as d.
LEMMA MutationMoves ==
  ASSUME CallsCalm, NEW c \in Mutations, NEW d, Move(c, d), d.kind = "mutation", d.calm = c.calm,
         d.pc = "sent" /\ d.again => d.token > expired,
         d.pc = "renewed" => d.holds > expired,
         c.calm /\ swept' = {} /\ ~faulted' => Able(d)',
         UNCHANGED expired
  PROVE  CallsCalm'
<1>1. \A e \in Mutations' : e = d \/ (e \in Mutations /\ e # c)
  BY DEF Mutations, Move
<1>2. \A e \in Mutations : e.calm \/ c.calm => e = c
  BY DEF CallsCalm, Alone
<1>3. RenewedOK'
  BY <1>1 DEF CallsCalm, RenewedOK
<1>4. Alone'
  BY <1>1, <1>2 DEF Alone
<1>5. CalmOK'
  BY <1>1, <1>2 DEF CalmOK
<1>6. QED
  BY <1>3, <1>4, <1>5 DEF CallsCalm

\* Buttons that should not have been offered stay so.
LEMMA MisplacedStays ==
  ASSUME DbOK, DbOK', Len(db') >= Len(db), \A i \in 1 .. Len(db) : db'[i] = db[i],
         Standing', swept' = {}, NEW hook, Misplaced(hook)
  PROVE  Misplaced(hook)'
<1>1. CASE hook = "useDeleteChain"
  <2>1. "program" \in Lasting
    BY DEF Lasting, Fleeting, Kind
  <2>2. QED
    BY <1>1, <2>1 DEF Standing, Misplaced
<1>2. CASE hook \in {"useCreateApiKey", "useRevokeApiKey"}
  <2>1. Len(db) \in 1 .. Len(db') /\ Now = db'[Len(db)].rows
    BY DEF DbOK, Now, Last
  <2>2. Now'["membership"] = Now["membership"]
    BY <2>1 DEF Standing
  <2>3. QED
    BY <1>2, <2>2 DEF Misplaced
<1>3. QED
  BY <1>1, <1>2 DEF Misplaced

LEMMA FindCalm ==
  ASSUME CallsCalm, CallsOK, OfOK, NEW c \in Mutations, Find(c)
  PROVE  CallsCalm'
<1>1. c \in calls /\ IsCall(c) /\ c.pc = "sent" /\ c.of \in OfferedMutation
  BY DEF Mutations, Find, CallsOK, Fits, OfOK, OfItsPage
<1>2. UNCHANGED <<root, db, expired, swept, faulted>> /\ Now' = Now
  BY DEF Find, server, auth, history, Now
<1>3. PICK op : op = c.of.op
  OBVIOUS
<1>4. CASE Admitted(op, Now, root)
  <2>1. PICK reachable \in BOOLEAN :
          LET todo == IF op.probes THEN Probed(Now, reachable) ELSE op.writes
          IN  Move(c, [c EXCEPT !.todo = todo, !.pc = IF todo = <<>> THEN "done" ELSE "running"])
    BY <1>3, <1>4 DEF Find
  <2>2. PICK todo : todo = IF op.probes THEN Probed(Now, reachable) ELSE op.writes
    OBVIOUS
  <2>3. PICK pc \in {"done", "running"} : pc = IF todo = <<>> THEN "done" ELSE "running"
    OBVIOUS
  <2>4. PICK d : d = [c EXCEPT !.todo = todo, !.pc = pc]
    OBVIOUS
  <2>5. Move(c, d)
    BY <2>1, <2>2, <2>3, <2>4
  <2>6. d.kind = c.kind /\ d.calm = c.calm /\ d.of = c.of /\ d.pc = pc /\ d.todo = todo
    BY <1>1, <2>4 DEF IsCall, CallField
  <2>7. todo \in Seq(Writes(op)) /\ NewFirst(todo)
    <3>1. CASE op.probes
      <4>1. todo \in Seq(Writes(op))
        BY <2>2, <3>1, ProbedInOrder
      <4>2. todo \in {<<>>, <<Put("chain", "on")>>, <<Put("chain", "off")>>}
        BY <2>2, <3>1 DEF Probed
      <4>3. ASSUME NEW s, NEW w, s = <<>> \/ s = <<w>>
            PROVE  NewFirst(s)
        BY <4>3 DEF NewFirst
      <4>4. QED
        BY <4>1, <4>2, <4>3
    <3>2. CASE ~op.probes
      BY <1>1, <1>3, <2>2, <3>2, WritesInOrder, WritesNewFirst
    <3>3. QED
      BY <3>1, <3>2
  <2>8. ASSUME c.calm, swept' = {}, ~faulted'
        PROVE  Able(d)'
    <3>1. Able(c)
      BY <1>2, <2>8 DEF CallsCalm, CalmOK
    <3>2. CASE Misplaced(c.of.hook)
      BY <1>2, <2>6, <3>2 DEF Able, Misplaced
    <3>3. CASE ~Misplaced(c.of.hook)
      <4>1. \A w \in Writes(op) : Possible(Now, w)
        BY <1>1, <1>3, <3>1, <3>3 DEF Able, Asked
      <4>2. \A i \in DOMAIN todo : Possible(Now, todo[i])
        BY <2>7, <4>1
      <4>3. QED
        BY <1>2, <2>3, <2>6, <2>7, <4>2 DEF Able, Asked
    <3>4. QED
      BY <3>2, <3>3
  <2>9. QED
    BY <1>2, <2>3, <2>5, <2>6, <2>8, MutationMoves DEF Mutations
<1>5. CASE ~Admitted(op, Now, root)
  <2>1. PICK d : d = [c EXCEPT !.pc = "failed"]
    OBVIOUS
  <2>2. Move(c, d)
    BY <1>3, <1>5, <2>1 DEF Find
  <2>3. d.kind = c.kind /\ d.calm = c.calm /\ d.of = c.of /\ d.pc = "failed"
    BY <1>1, <2>1 DEF IsCall, CallField
  <2>4. ASSUME c.calm, swept' = {}, ~faulted'
        PROVE  Able(d)'
    <3>1. Able(c)
      BY <1>2, <2>4 DEF CallsCalm, CalmOK
    <3>2. Misplaced(c.of.hook)
      BY <1>1, <1>3, <1>5, <3>1 DEF Able, Asked
    <3>3. QED
      BY <1>2, <2>3, <3>2 DEF Able, Misplaced
  <2>5. QED
    BY <1>2, <2>2, <2>3, <2>4, MutationMoves DEF Mutations
<1>6. QED
  BY <1>4, <1>5

\* A new row of another stands in nobody's way.
LEMMA NewChangesNothing ==
  ASSUME NEW rows, NEW v, v.to = "new", NEW mu \in OfferedMutation, NEW w \in Writes(mu.op),
         Possible(rows, w)
  PROVE  Possible(Committed(rows, v), w)
<1>1. \A k \in Kind : Committed(rows, v)[k] = rows[k]
  BY DEF Committed, Status
<1>2. w.kind \in Kind /\ "program" \in Kind /\ Parents(w.kind) \subseteq Kind
  <2>1. w.kind \in Kind
    BY MutationsAreCareful DEF Careful
  <2>2. QED
    BY <2>1 DEF Parents, Kind
<1>3. QED
  BY <1>1, <1>2 DEF Possible

LEMMA WriteCalm ==
  ASSUME CallsCalm, CallsOK, DbOK, OfOK, NEW c \in Mutations, Write(c), Standing', swept \subseteq swept',
         DbOK', Len(db') >= Len(db), \A i \in 1 .. Len(db) : db'[i] = db[i]
  PROVE  CallsCalm'
<1>1. /\ c \in calls /\ IsCall(c) /\ c.pc = "running" /\ c.of \in OfferedMutation
      /\ c.todo \in Seq(Writes(c.of.op)) /\ c.todo # <<>>
  BY DEF Mutations, Write, CallsOK, Fits, OfOK, OfItsPage
<1>2. UNCHANGED <<root, expired, faulted>> /\ (swept' = {} => swept = {})
  BY DEF Write, auth
<1>3. PICK w, rest : w = Head(c.todo) /\ rest = Tail(c.todo)
  OBVIOUS
<1>4. rest \in Seq(Writes(c.of.op)) /\ Len(rest) = Len(c.todo) - 1 /\ w = c.todo[1]
      /\ \A i \in 1 .. Len(rest) : rest[i] = c.todo[i + 1]
  <2>1. ASSUME NEW S, NEW s \in Seq(S), s # <<>>
        PROVE  /\ Tail(s) \in Seq(S) /\ Len(Tail(s)) = Len(s) - 1 /\ Head(s) = s[1]
               /\ \A i \in 1 .. Len(Tail(s)) : Tail(s)[i] = s[i + 1]
    BY <2>1
  <2>2. QED
    BY <1>1, <1>3, <2>1
<1>5. ASSUME c.calm, swept' = {}, ~faulted', ~Misplaced(c.of.hook)
      PROVE  (\A i \in DOMAIN c.todo : Possible(Now, c.todo[i])) /\ NewFirst(c.todo)
  BY <1>1, <1>2, <1>5 DEF CallsCalm, CalmOK, Able
<1>6. ASSUME Misplaced(c.of.hook), swept' = {}
      PROVE  Misplaced(c.of.hook)'
  BY <1>6, MisplacedStays
<1>7. CASE Possible(Now, w)
  <2>1. PICK subject : Commit(w, subject)
    BY <1>3, <1>7 DEF Write
  <2>2. Now' = Committed(Now, w)
    <3>1. PICK x : x = [rows |-> Committed(Now, w), by |-> w]
      OBVIOUS
    <3>2. db' = Append(db, x)
      BY <2>1, <3>1 DEF Commit
    <3>3. QED
      BY <3>1, <3>2, Appended
  <2>3. PICK pc \in {"running", "publishing", "done"} :
          pc = IF rest # <<>> THEN "running" ELSE IF Signals(c) THEN "publishing" ELSE "done"
    OBVIOUS
  <2>4. PICK d : d = [c EXCEPT !.todo = rest, !.wrote = TRUE, !.pc = pc]
    OBVIOUS
  <2>5. Move(c, d)
    <3>1. PICK b : b = [c EXCEPT !.todo = rest, !.wrote = TRUE]
      OBVIOUS
    <3>2. b.todo = rest /\ b.wrote = TRUE /\ b.of = c.of /\ b.pc = c.pc
      BY <1>1, <3>1 DEF IsCall, CallField
    <3>3. Move(c, IF b.todo = <<>> THEN [b EXCEPT !.pc = Returned(b)] ELSE b)
      BY <1>3, <1>7, <3>1, Zenon DEF Write
    <3>4. Returned(b) = IF Signals(c) THEN "publishing" ELSE "done"
      BY <3>2 DEF Returned, Signals
    <3>5. d = [b EXCEPT !.pc = pc] /\ (pc = "running" => d = b)
      BY <1>1, <2>4, <3>1 DEF IsCall, CallField
    <3>6. QED
      BY <2>3, <3>2, <3>3, <3>4, <3>5
  <2>6. d.kind = c.kind /\ d.calm = c.calm /\ d.of = c.of /\ d.pc = pc /\ d.todo = rest
    BY <1>1, <2>4 DEF IsCall, CallField
  <2>7. ASSUME c.calm, swept' = {}, ~faulted'
        PROVE  Able(d)'
    <3>1. CASE Misplaced(c.of.hook)
      BY <1>6, <2>6, <2>7, <3>1 DEF Able
    <3>2. CASE ~Misplaced(c.of.hook)
      <4>1. ASSUME NEW i \in 1 .. Len(rest)
            PROVE  Possible(Now', rest[i])
        <5>1. i + 1 \in DOMAIN c.todo /\ 1 \in DOMAIN c.todo /\ 1 < i + 1
          BY <1>1, <1>4
        <5>2. w.to = "new" /\ Possible(Now, rest[i])
          BY <1>4, <1>5, <2>7, <3>2, <5>1 DEF NewFirst
        <5>3. rest[i] \in Writes(c.of.op)
          BY <1>4
        <5>4. QED
          BY <1>1, <2>2, <5>2, <5>3, NewChangesNothing
      <4>2. NewFirst(rest)
        <5>1. ASSUME NEW i \in 1 .. Len(rest), NEW j \in 1 .. Len(rest), i < j
              PROVE  rest[i].to = "new"
          <6>1. i + 1 \in DOMAIN c.todo /\ j + 1 \in DOMAIN c.todo /\ i + 1 < j + 1
            BY <1>1, <1>4, <5>1
          <6>2. QED
            BY <1>4, <1>5, <2>7, <3>2, <6>1 DEF NewFirst
        <5>2. QED
          BY <1>4, <5>1 DEF NewFirst
      <4>3. DOMAIN rest = 1 .. Len(rest)
        BY <1>4
      <4>4. QED
        BY <2>3, <2>6, <4>1, <4>2, <4>3 DEF Able, Asked
    <3>3. QED
      BY <3>1, <3>2
  <2>8. QED
    BY <1>2, <2>3, <2>5, <2>6, <2>7, MutationMoves DEF Mutations
<1>8. CASE ~Possible(Now, w)
  <2>1. PICK d : d = [c EXCEPT !.pc = "failed"]
    OBVIOUS
  <2>2. Move(c, d)
    BY <1>3, <1>8, <2>1 DEF Write
  <2>3. d.kind = c.kind /\ d.calm = c.calm /\ d.of = c.of /\ d.pc = "failed"
    BY <1>1, <2>1 DEF IsCall, CallField
  <2>4. ASSUME c.calm, swept' = {}, ~faulted'
        PROVE  Able(d)'
    <3>1. 1 \in DOMAIN c.todo
      BY <1>1
    <3>2. Misplaced(c.of.hook)
      BY <1>4, <1>5, <1>8, <2>4, <3>1
    <3>3. QED
      BY <1>6, <2>3, <2>4, <3>2 DEF Able
  <2>5. QED
    BY <1>2, <2>2, <2>3, <2>4, MutationMoves DEF Mutations
<1>9. QED
  BY <1>7, <1>8

\* In a handler past its writes, between 401 and the second try, or failing with a fault.
LEMMA MoveOnCalm ==
  ASSUME CallsCalm, CallsOK, NumbersOK, NEW c \in Mutations, UNCHANGED <<db, root>>, swept \subseteq swept',
         \/ Publish(c) \/ CheckRefreshToken(c) \/ RotateTokens(c) \/ SetTokens(c)
         \/ Intercept(c) /\ ~SignOut(c)
         \/ HandlerFails(c) \/ RenewalFails(c)
  PROVE  CallsCalm'
<1>1. c \in calls /\ IsCall(c) /\ c.kind = "mutation" /\ c.token \in Nat /\ c.holds \in Nat
  BY DEF Mutations, CallsOK, Fits, NumbersOK
<1>2. Now' = Now /\ (swept' = {} => swept = {})
  BY DEF Now
<1>3. expired \in Nat /\ issued \in Nat /\ expired <= issued
  BY DEF NumbersOK
\* It is as able as before.
<1>4. ASSUME NEW d, Move(c, d), d.kind = c.kind, d.calm = c.calm, d.of = c.of,
             d.pc \in {"publishing", "done"} \/ (Asked(c) /\ Asked(d)),
             d.pc = "sent" /\ d.again => d.token > expired,
             d.pc = "renewed" => d.holds > expired,
             UNCHANGED <<expired, faulted>>
      PROVE  CallsCalm'
  <2>1. ASSUME c.calm, swept' = {}, ~faulted'
        PROVE  Able(d)'
    <3>1. Able(c)
      BY <1>2, <1>4, <2>1 DEF CallsCalm, CalmOK
    <3>2. d.pc \notin {"failed", "running"}
      BY <1>4 DEF Asked
    <3>3. QED
      BY <1>2, <1>4, <3>1, <3>2 DEF Able, Asked, Misplaced
  <2>2. QED
    BY <1>1, <1>4, <2>1, MutationMoves
\* A fault has interfered.
<1>5. ASSUME NEW d, Move(c, d), d.kind = c.kind, d.calm = c.calm, d.pc \in {"done", "failed", "rejected"},
             faulted' = TRUE, UNCHANGED expired
      PROVE  CallsCalm'
  BY <1>1, <1>5, MutationMoves
<1>6. CASE Publish(c)
  <2>1. Move(c, [c EXCEPT !.pc = "done"]) /\ UNCHANGED <<expired, faulted>>
    BY <1>6 DEF Publish, auth, history
  <2>2. QED
    BY <1>1, <1>4, <2>1 DEF IsCall, CallField
<1>7. CASE CheckRefreshToken(c)
  <2>1. PICK pc \in {"rejected", "checked"} : Move(c, [c EXCEPT !.pc = pc])
    BY <1>7, Zenon DEF CheckRefreshToken
  <2>2. PICK d : d = [c EXCEPT !.pc = pc]
    OBVIOUS
  <2>3. d.kind = c.kind /\ d.calm = c.calm /\ d.of = c.of /\ d.pc = pc
    BY <1>1, <2>2 DEF IsCall, CallField
  <2>4. c.pc = "renewing" /\ UNCHANGED <<expired, faulted>>
    BY <1>7 DEF CheckRefreshToken, auth, history
  <2>5. QED
    BY <1>4, <2>1, <2>2, <2>3, <2>4 DEF Asked
<1>8. CASE RotateTokens(c)
  <2>1. PICK d : d = [c EXCEPT !.pc = "renewed", !.holds = issued + 1]
    OBVIOUS
  <2>2. Move(c, d) /\ c.pc = "checked" /\ UNCHANGED <<expired, faulted>>
    BY <1>8, <2>1 DEF RotateTokens, history
  <2>3. d.kind = c.kind /\ d.calm = c.calm /\ d.of = c.of /\ d.pc = "renewed" /\ d.holds > expired
    BY <1>1, <1>3, <2>1 DEF IsCall, CallField
  <2>4. QED
    BY <1>4, <2>2, <2>3 DEF Asked
<1>9. CASE SetTokens(c)
  <2>1. PICK d : d = [c EXCEPT !.pc = "sent", !.token = c.holds, !.holds = 0, !.from = 0]
    OBVIOUS
  <2>2. Move(c, d) /\ c.pc = "renewed" /\ UNCHANGED <<expired, faulted>>
    BY <1>1, <1>9, <2>1 DEF SetTokens, Resend, auth, history
  <2>3. d.kind = c.kind /\ d.calm = c.calm /\ d.of = c.of /\ d.pc = "sent" /\ d.token = c.holds
    BY <1>1, <2>1 DEF IsCall, CallField
  <2>4. c.holds > expired
    BY <2>2 DEF CallsCalm, RenewedOK
  <2>5. QED
    BY <1>4, <2>2, <2>3, <2>4 DEF Asked
<1>10. CASE Intercept(c) /\ ~SignOut(c)
  <2>1. PICK d : d = [c EXCEPT !.pc = "renewing", !.again = TRUE, !.holds = tokens]
    OBVIOUS
  <2>2. c.pc = "sent" /\ c.token <= expired /\ UNCHANGED <<expired, faulted>>
    BY <1>10 DEF Intercept, auth
  <2>3. ~c.again
    BY <1>1, <1>3, <2>2 DEF CallsCalm, RenewedOK
  <2>4. Move(c, d)
    BY <1>10, <2>1, <2>3 DEF Intercept
  <2>5. d.kind = c.kind /\ d.calm = c.calm /\ d.of = c.of /\ d.pc = "renewing"
    BY <1>1, <2>1 DEF IsCall, CallField
  <2>6. QED
    BY <1>4, <2>2, <2>4, <2>5 DEF Asked
<1>11. CASE HandlerFails(c)
  <2>1. PICK pc \in {"done", "failed"} : Move(c, [c EXCEPT !.pc = pc, !.todo = <<>>])
    <3>1. PICK b \in BOOLEAN : b = (c.of.op.probes /\ \E x \in BOOLEAN : c.todo = Probed(Now, x))
      OBVIOUS
    <3>2. Move(c, [c EXCEPT !.pc = IF b THEN "done" ELSE "failed", !.todo = <<>>])
      BY <1>11, <3>1, Zenon DEF HandlerFails
    <3>3. QED
      BY <3>2
  <2>2. PICK d : d = [c EXCEPT !.pc = pc, !.todo = <<>>]
    OBVIOUS
  <2>3. d.kind = c.kind /\ d.calm = c.calm /\ d.pc = pc
    BY <1>1, <2>2 DEF IsCall, CallField
  <2>4. faulted' = TRUE /\ UNCHANGED expired
    BY <1>11 DEF HandlerFails, auth
  <2>5. QED
    BY <1>5, <2>1, <2>2, <2>3, <2>4
<1>12. CASE RenewalFails(c)
  <2>1. PICK d : d = [c EXCEPT !.pc = "rejected"]
    OBVIOUS
  <2>2. Move(c, d) /\ faulted' = TRUE /\ UNCHANGED expired
    BY <1>12, <2>1 DEF RenewalFails, auth
  <2>3. d.kind = c.kind /\ d.calm = c.calm /\ d.pc = "rejected"
    BY <1>1, <2>1 DEF IsCall, CallField
  <2>4. QED
    BY <1>5, <2>2, <2>3
<1>13. QED
  BY <1>6, <1>7, <1>8, <1>9, <1>10, <1>11, <1>12

\* A new request: whatever was calm is so no more.
LEMMA MutateCalm ==
  ASSUME CalmInv, CallsOK, ShowInv, PageOK, CacheOK, DbOK, NEW offer \in Screen0.offers, Mutate(offer)
  PROVE  CallsCalm'
<1>1. PICK new : new = [Call(offer.mutation, "mutation") EXCEPT !.calm = AtRest]
  OBVIOUS
<1>2. /\ calls' = {[c EXCEPT !.calm = FALSE] : c \in calls} \cup {new}
      /\ UNCHANGED <<root, db, expired, swept, faulted>> /\ Now' = Now
  BY <1>1 DEF Mutate, browser, server, auth, Now
<1>3. /\ new.kind = "mutation" /\ new.pc = "sent" /\ new.again = FALSE /\ new.of = offer.mutation
      /\ new.calm = AtRest
  BY <1>1 DEF Call
<1>4. ASSUME NEW e \in Mutations', e # new
      PROVE  \E c \in Mutations : /\ e.pc = c.pc /\ e.again = c.again /\ e.token = c.token
                                  /\ e.holds = c.holds /\ e.calm = FALSE
  <2>1. PICK c \in calls : e = [c EXCEPT !.calm = FALSE]
    BY <1>2, <1>4 DEF Mutations
  <2>2. IsCall(c)
    BY DEF CallsOK, Fits
  <2>3. /\ e.pc = c.pc /\ e.again = c.again /\ e.token = c.token /\ e.holds = c.holds
        /\ e.calm = FALSE /\ e.kind = c.kind
    BY <2>1, <2>2 DEF IsCall, CallField
  <2>4. QED
    BY <1>4, <2>3 DEF Mutations
<1>5. RenewedOK'
  <2>1. RenewedOK
    BY DEF CalmInv, CallsCalm
  <2>2. QED
    BY <1>2, <1>3, <1>4, <2>1 DEF RenewedOK
<1>6. Alone'
  <2>1. ASSUME NEW e \in Mutations', NEW f \in Mutations', e.calm
        PROVE  e = f
    <3>1. e = new
      BY <1>4, <2>1
    <3>2. calls = {}
      BY <1>3, <2>1, <3>1 DEF AtRest
    <3>3. QED
      BY <1>2, <3>1, <3>2 DEF Mutations
  <2>2. QED
    BY <2>1 DEF Alone
<1>7. ASSUME AtRest, swept = {}
      PROVE  Able(new)
  <2>1. \A row \in offer.rows : Shown(row)
    BY DEF Mutate
  <2>2. ~Misplaced(offer.mutation.hook) =>
          /\ Admitted(offer.mutation.op, Now, root)
          /\ \A w \in Writes(offer.mutation.op) : Possible(Now, w)
    BY <1>7, <2>1, OffersMayBeDone DEF CalmInv
  <2>3. QED
    BY <1>3, <2>2 DEF Able
<1>8. CalmOK'
  <2>1. ASSUME NEW e \in Mutations', e.calm, swept' = {}, ~faulted'
        PROVE  Able(e)'
    <3>1. e = new
      BY <1>4, <2>1
    <3>2. Able(new)
      BY <1>2, <1>3, <1>7, <2>1, <3>1
    <3>3. QED
      BY <1>2, <3>1, <3>2 DEF Able, Asked, Misplaced
  <2>2. QED
    BY <2>1 DEF CalmOK
<1>9. QED
  BY <1>5, <1>6, <1>8 DEF CallsCalm

\* Steps that leave the mutations alone, or end some.
LEMMA OnlyQueries ==
  ASSUME CallsCalm, CallsOK, Mutations' \subseteq Mutations, Mutations = {} \/ UNCHANGED expired,
         swept' = {} /\ ~faulted' => swept = {} /\ ~faulted /\ UNCHANGED <<db, root>>
  PROVE  CallsCalm'
<1>1. \A e \in Mutations' : \E c \in Mutations : e = Muted(c, FALSE)
  BY DEF Muted
<1>2. QED
  BY <1>1, MutationsRest

LEMMA Silenced ==
  ASSUME CallsCalm, CallsOK, NEW cs, cs \subseteq calls, calls' = Unheard(cs),
         UNCHANGED <<db, root, expired, swept, faulted>>
  PROVE  CallsCalm'
<1>1. ASSUME NEW e \in Mutations'
      PROVE  \E c \in Mutations : e = Muted(c, TRUE)
  <2>1. PICK c \in calls : e = [c EXCEPT !.heard = FALSE]
    BY <1>1 DEF Mutations, Unheard
  <2>2. e = Muted(c, TRUE) /\ IsCall(c)
    BY <2>1 DEF Muted, CallsOK, Fits
  <2>3. c.kind = e.kind
    BY <2>2, MutedSame
  <2>4. QED
    BY <1>1, <2>2, <2>3 DEF Mutations
<1>2. QED
  BY <1>1, MutationsRest

LEMMA UserCalm ==
  ASSUME CalmInv, CallsOK, ShowInv, PageOK, CacheOK, DbOK, User
  PROVE  CallsCalm'
<1>1. ASSUME NEW p \in Page, Navigate(p)
      PROVE  CallsCalm'
  <2>1. UNCHANGED <<db, root, expired, swept, faulted>>
    BY <1>1 DEF Navigate, server, auth
  <2>2. PICK qs : calls' = calls \cup Fetch(qs)
    BY <1>1 DEF Navigate, MountQueries
  <2>3. Mutations' \subseteq Mutations
    BY <2>2, FetchCalls DEF Mutations
  <2>4. QED
    BY <2>1, <2>3, OnlyQueries DEF CalmInv
<1>2. CASE Logout
  <2>1. calls' = Unheard(calls) /\ UNCHANGED <<db, root, expired, swept, faulted>>
    BY <1>2 DEF Logout, server, auth
  <2>2. QED
    BY <2>1, Silenced DEF CalmInv
<1>3. CASE SignIn
  <2>1. UNCHANGED <<db, root, expired, swept, faulted>>
    BY <1>3 DEF SignIn, server
  <2>2. \A e \in calls' : e \in calls \/ e.kind = "query"
    BY <1>3 DEF SignIn, Call
  <2>3. Mutations' \subseteq Mutations
    BY <2>2 DEF Mutations
  <2>4. QED
    BY <2>1, <2>3, OnlyQueries DEF CalmInv
<1>4. QED
  BY <1>1, <1>2, <1>3, MutateCalm DEF User

\* A step of a query.
LEMMA QueryCalm ==
  ASSUME CallsCalm, CallsOK, Grows, ScreenInv, NEW c \in calls, c.kind = "query", CallStep(c),
         ~(SignOut(c) /\ (Intercept(c) \/ Rejected(c)))
  PROVE  CallsCalm'
<1>1. IsCall(c) /\ c.pc \notin {"running", "publishing"}
  BY DEF CallsOK, Fits
<1>2. CASE Arrive(c) \/ QueryFails(c)
  <2>1. calls' = calls \ {c} /\ UNCHANGED <<db, root, expired, swept, faulted>>
    BY <1>2 DEF Arrive, QueryFails, server, auth, history
  <2>2. Mutations' \subseteq Mutations
    BY <2>1 DEF Mutations
  <2>3. QED
    BY <2>1, <2>2, OnlyQueries
<1>3. CASE Intercept(c) \/ CheckRefreshToken(c) \/ RotateTokens(c) \/ SetTokens(c)
  <2>1. UNCHANGED <<db, root, expired, swept, faulted>>
    BY <1>3 DEF Intercept, CheckRefreshToken, RotateTokens, SetTokens, server, auth, history
  <2>2. PICK d : Move(c, d) /\ Same(c, d)
    <3>1. CASE Intercept(c)
      <4>1. \/ Move(c, [c EXCEPT !.pc = "failed"])
            \/ Move(c, [c EXCEPT !.pc = "renewing", !.again = TRUE, !.holds = tokens])
        <5>1. ~SignOut(c)
          BY <3>1
        <5>2. QED
          BY <3>1, <5>1, Zenon DEF Intercept
      <4>2. /\ Same(c, [c EXCEPT !.pc = "failed"])
            /\ Same(c, [c EXCEPT !.pc = "renewing", !.again = TRUE, !.holds = tokens])
        BY <1>1 DEF Same, IsCall, CallField
      <4>3. QED
        BY <4>1, <4>2
    <3>2. CASE CheckRefreshToken(c) \/ RotateTokens(c) \/ SetTokens(c)
      BY <3>2, CallsGoOn
    <3>3. QED
      BY <1>3, <3>1, <3>2
  <2>3. Mutations' \subseteq Mutations
    BY <2>2 DEF Mutations, Move, Same
  <2>4. QED
    BY <2>1, <2>3, OnlyQueries
<1>4. QED
  BY <1>1, <1>2, <1>3 DEF CallStep, Find, Write, Publish, Succeed, Fail, Rejected

LEMMA AnswerCalm ==
  ASSUME CallsCalm, CallsOK, PageOK, NEW c \in calls, Succeed(c) \/ Fail(c)
  PROVE  CallsCalm'
<1>1. UNCHANGED <<db, root, expired, swept, faulted>>
  BY DEF Succeed, Fail, server, auth, history
<1>2. Mutations' \subseteq Mutations
  <2>1. CASE calls' = calls \ {c}
    BY <2>1 DEF Mutations
  <2>2. CASE calls' # calls \ {c}
    <3>1. Invalidate(c.of.invalidates, calls \ {c}, page') /\ page' \in Page /\ root \in BOOLEAN
      <4>1. page' = After(c) /\ Succeed(c)
        BY <2>2 DEF Succeed, Fail
      <4>2. After(c) \in Page
        BY ThePages DEF After, PageOK, PageNames
      <4>3. QED
        BY <2>2, <4>1, <4>2 DEF Succeed, PageOK
    <3>2. \A e \in calls' : e \in calls \/ e.kind = "query"
      <4>1. calls \ {c} \subseteq calls
        OBVIOUS
      <4>2. QED
        BY <3>1, <4>1, Invalidations
    <3>3. QED
      BY <3>2 DEF Mutations
  <2>3. QED
    BY <2>1, <2>2
<1>3. QED
  BY <1>1, <1>2, OnlyQueries

LEMMA StepCalm ==
  ASSUME CalmInv, ShowInv, ScreenInv, KnowInv, [Next]_vars
  PROVE  CalmInv'
<1>1. /\ CallsCalm /\ Grows /\ CallsOK /\ DbOK /\ PageOK /\ CacheOK /\ OfOK /\ NumbersOK
  BY StepGrows DEF KnowInv, TokenInv, ScreenInv, ShowInv, CalmInv
<1>2. DbOK' /\ Len(db') >= Len(db) /\ \A i \in 1 .. Len(db) : db'[i] = db[i]
  BY <1>1, DbStep
<1>3. HistoryOK' /\ Standing' /\ swept \subseteq swept'
  BY <1>1, StepRows DEF CalmInv
<1>4. ASSUME User
      PROVE  CallsCalm'
  BY <1>1, <1>4, UserCalm
<1>5. ASSUME NEW c \in calls, CallStep(c)
      PROVE  CallsCalm'
  <2>1. CASE SignOut(c) /\ (Intercept(c) \/ Rejected(c))
    <3>1. PICK cs : cs \subseteq calls /\ calls' = Unheard(cs)
      BY <2>1 DEF SignOut
    <3>2. UNCHANGED <<db, root, expired, swept, faulted>>
      BY <2>1 DEF Intercept, Rejected, server, auth
    <3>3. QED
      BY <1>1, <3>1, <3>2, Silenced
  <2>2. CASE ~(SignOut(c) /\ (Intercept(c) \/ Rejected(c))) /\ c.kind = "query"
    BY <1>1, <1>5, <2>2, QueryCalm
  <2>3. CASE ~(SignOut(c) /\ (Intercept(c) \/ Rejected(c))) /\ c.kind # "query"
    <3>1. c \in Mutations
      BY <1>1, <2>3 DEF CallsOK, Fits, Mutations
    <3>2. CASE Find(c)
      BY <1>1, <3>1, <3>2, FindCalm
    <3>3. CASE Write(c)
      BY <1>1, <1>2, <1>3, <3>1, <3>3, WriteCalm
    <3>4. CASE Succeed(c) \/ Fail(c)
      BY <1>1, <3>4, AnswerCalm
    <3>5. CASE Publish(c) \/ Intercept(c) \/ CheckRefreshToken(c) \/ RotateTokens(c) \/ SetTokens(c)
      <4>1. UNCHANGED <<db, root>>
        BY <3>5 DEF Publish, Intercept, CheckRefreshToken, RotateTokens, SetTokens, server
      <4>2. QED
        BY <1>1, <1>3, <2>3, <3>1, <3>5, <4>1, MoveOnCalm
    <3>6. QED
      BY <1>5, <2>3, <3>2, <3>3, <3>4, <3>5 DEF CallStep, Arrive, QueryFails, Rejected
  <2>4. QED
    BY <2>1, <2>2, <2>3
<1>6. ASSUME \E op \in Others : Elsewhere(op)
      PROVE  CallsCalm'
  <2>1. PICK op \in Others : Elsewhere(op)
    BY <1>6
  <2>2. UNCHANGED <<calls, expired>> /\ swept' # {}
    BY <2>1 DEF Elsewhere, Commit, Touched, auth
  <2>3. QED
    BY <1>1, <2>2, OnlyQueries DEF Mutations
<1>7. ASSUME NEW c \in calls, HandlerFails(c) \/ RenewalFails(c)
      PROVE  CallsCalm'
  <2>1. UNCHANGED <<db, root, expired>> /\ faulted' = TRUE
    BY <1>7 DEF HandlerFails, RenewalFails, server, auth
  <2>2. CASE c \in Mutations
    BY <1>1, <1>3, <1>7, <2>1, <2>2, MoveOnCalm
  <2>3. CASE c \notin Mutations
    <3>1. PICK d : Move(c, d) /\ Same(c, d)
      BY <1>1, <1>7, CallsGoOn
    <3>2. Mutations' \subseteq Mutations
      BY <2>3, <3>1 DEF Mutations, Move, Same
    <3>3. QED
      BY <1>1, <2>1, <3>2, OnlyQueries
  <2>4. QED
    BY <2>2, <2>3
<1>8. ASSUME Minute \/ Expire
      PROVE  CallsCalm'
  <2>1. PICK qs : calls' = calls \cup Fetch(qs)
    BY <1>8 DEF Minute, Expire
  <2>2. Mutations' \subseteq Mutations
    BY <2>1, FetchCalls DEF Mutations
  <2>3. UNCHANGED <<db, root, swept, faulted>> /\ (calls = {} \/ UNCHANGED expired)
    BY <1>8 DEF Minute, Expire, server, auth
  <2>4. QED
    BY <1>1, <2>2, <2>3, OnlyQueries DEF Mutations
<1>9. ASSUME HearSignal \/ UNCHANGED vars
      PROVE  CallsCalm'
  <2>1. UNCHANGED <<calls, db, root, expired, swept, faulted>>
    BY <1>9 DEF HearSignal, vars, browser, server, auth, history
  <2>2. QED
    BY <1>1, <2>1, OnlyQueries DEF Mutations
<1>10. QED
  BY <1>3, <1>4, <1>5, <1>6, <1>7, <1>8, <1>9 DEF CalmInv, Next, Work, Environment

\* What a page at rest offers is what the API allows: the request is not refused, at the
\* guards, at the lookups or by a constraint of the database, however long the renewal of the
\* tokens, page changes and answers take in between, unless others or a fault have interfered or
\* the button is one that should not have been there.
THEOREM CalmRequestsAreGranted == Spec => []CalmRequestsSucceed
<1>1. Init => CalmInv
  <2>1. ASSUME Init
        PROVE  CalmInv
    <3>1. Len(db) = 1 /\ Now = db[1].rows
      BY <2>1 DEF Init, Now, Last
    <3>2. PICK role \in {"on", "off"} : db[1].rows = [Rows0 EXCEPT !["membership"] = role]
      <4>1. PICK role \in {"on", "off"} :
              db = <<[rows |-> [Rows0 EXCEPT !["membership"] = role], by |-> Nothing]>>
        BY <2>1, Zenon DEF Init
      <4>2. QED
        BY <4>1
    <3>3. HistoryOK
      BY <3>1 DEF HistoryOK
    <3>4. \A k \in Kind : Now[k] = IF k = "membership" THEN role ELSE "on"
      BY <3>1, <3>2 DEF Rows0
    <3>5. "membership" \in Kind /\ Lasting \subseteq Kind
      BY DEF Kind, Lasting
    <3>6. Standing
      BY <3>1, <3>4, <3>5 DEF Standing
    <3>7. Mutations = {}
      BY <2>1 DEF Init, Mutations
    <3>8. QED
      BY <3>3, <3>6, <3>7 DEF CalmInv, CallsCalm, RenewedOK, Alone, CalmOK
  <2>2. QED
    BY <2>1
<1>2. CalmInv /\ ShowInv /\ ScreenInv /\ KnowInv /\ [Next]_vars => CalmInv'
  BY StepCalm
<1>3. CalmInv => CalmRequestsSucceed
  BY DEF CalmInv, CallsCalm, CalmOK, Mutations, Able, CalmRequestsSucceed
<1>4. QED
  BY <1>1, <1>2, <1>3, Invariant, ScreenInvariant, ShowInvariant, PTL DEF Spec
=============================================================================
