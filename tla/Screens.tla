------------------------------- MODULE Screens -------------------------------
(***************************************************************************)
(* The admin UI as data: which function of lib/api calls which operation,  *)
(* which hook of lib/hooks caches it under which key and invalidates what, *)
(* and which hooks a page mounts and which mutations it offers on what     *)
(* that it shows.                                                          *)
(***************************************************************************)
EXTENDS Configuration

-----------------------------------------------------------------------------
(* lib/api: the functions and the operations their routes lead to.          *)

Statuses == {"on", "off", "same"}

applicationsApi ==
  [list |-> ApplicationsFindAll, get |-> ApplicationsFindOne, stats |-> ApplicationStatistics,
   create |-> ApplicationsCreate, update |-> ApplicationsUpdate, delete |-> ApplicationsRemove]
chainsApi ==
  [list |-> ChainsFindAll, admin |-> ChainsFindAllAdmin, create |-> ChainsCreate,
   update |-> [to \in Statuses |-> ChainsUpdate(to)], delete |-> ChainsRemove,
   checkRpc |-> ChainsCheckRpc]
programsApi ==
  [list |-> ProgramsFindAll, get |-> ProgramsFindOne, create |-> ProgramsCreate,
   delete |-> ProgramsRemove, verify |-> ProgramsVerify]
eventsApi == [list |-> EventsFindAll]
subscriptionsApi ==
  [list |-> SubscriptionsFindAll, get |-> SubscriptionsFindOne, create |-> SubscriptionsCreate,
   update |-> [to \in Statuses |-> SubscriptionsUpdate(to)], delete |-> SubscriptionsRemove]
webhooksApi ==
  [list |-> WebhooksFindAll, get |-> WebhooksFindOne, create |-> WebhooksCreate,
   update |-> [to \in Statuses |-> WebhooksUpdate(to)], delete |-> WebhooksRemove,
   test |-> WebhooksTest, health |-> WebhooksHealthCheck]
logsApi == [list |-> LogsFindByWebhook, stats |-> LogsDailyStats, retry |-> LogsRetry]
membersApi ==
  [list |-> MembersGet, invite |-> MembersInvite, role |-> MembersUpdateRole,
   remove |-> MembersRemove, leave |-> MembersLeave, invites |-> InvitesGet,
   cancel |-> InvitesCancel, pending |-> InvitesPending, accept |-> InvitesAccept,
   decline |-> InvitesDecline]
apiKeysApi == [list |-> ApiKeysFindAll, create |-> ApiKeysCreate, revoke |-> ApiKeysRevoke]
dashboardApi == [stats |-> DashboardQuery, daily |-> DashboardQuery, top |-> DashboardQuery]
ingestorApi == [instances |-> IngestorInstances, rebalance |-> IngestorRebalance]
dispatcherApi == [instances |-> DispatcherInstances, rebalance |-> DispatcherRebalance]

-----------------------------------------------------------------------------
(* lib/hooks.  There is one application, program, ... to look at, so a key   *)
(* leaves its identifier out; a number is the limit of a page of a list.     *)

Query(key, read) == [key |-> key, read |-> read, interval |-> FALSE]
Polled(query) == [query EXCEPT !.interval = TRUE]
Mutation(hook, op, invalidates) == [hook |-> hook, op |-> op, invalidates |-> invalidates]

useApplications(limit) == Query(<<"applications", "list", limit>>, applicationsApi.list)
useApplication == Query(<<"applications", "detail">>, applicationsApi.get)
useApplicationStats == Query(<<"applications", "detail", "stats">>, applicationsApi.stats)
useCreateApplication ==
  Mutation("useCreateApplication", applicationsApi.create, {<<"applications", "list">>})
useUpdateApplication ==
  Mutation("useUpdateApplication", applicationsApi.update,
           {<<"applications", "detail">>, <<"applications", "list">>})
useDeleteApplication ==
  Mutation("useDeleteApplication", applicationsApi.delete, {<<"applications", "list">>})

ChainLists == {<<"chains", "list">>, <<"chains", "admin", "list">>}
useChains == Query(<<"chains", "list">>, chainsApi.list)
useChainsAdmin == Query(<<"chains", "admin", "list">>, chainsApi.admin)
useCreateChain == Mutation("useCreateChain", chainsApi.create, ChainLists)
useUpdateChain(to) ==
  Mutation("useUpdateChain", chainsApi.update[to],
           ChainLists \cup {<<"chains", "detail">>, <<"chains", "admin", "detail">>})
useDeleteChain == Mutation("useDeleteChain", chainsApi.delete, ChainLists)
useCheckChainRpc == Mutation("useCheckChainRpc", chainsApi.checkRpc, ChainLists)

usePrograms(limit) == Query(<<"programs", "list", limit>>, programsApi.list)
useProgram == Query(<<"programs", "detail">>, programsApi.get)
useCreateProgram == Mutation("useCreateProgram", programsApi.create, {<<"programs", "list">>})
useDeleteProgram == Mutation("useDeleteProgram", programsApi.delete, {<<"programs", "list">>})
useVerifyContract == Mutation("useVerifyContract", programsApi.verify, {})
useEvents(limit) == Query(<<"events", "list", limit>>, eventsApi.list)

useSubscriptions == Query(<<"subscriptions", "list", "20">>, subscriptionsApi.list)
useSubscription == Query(<<"subscriptions", "detail">>, subscriptionsApi.get)
useCreateSubscription ==
  Mutation("useCreateSubscription", subscriptionsApi.create, {<<"subscriptions", "list">>})
useUpdateSubscription(to) ==
  Mutation("useUpdateSubscription", subscriptionsApi.update[to],
           {<<"subscriptions", "detail">>, <<"subscriptions", "list">>})
useDeleteSubscription ==
  Mutation("useDeleteSubscription", subscriptionsApi.delete, {<<"subscriptions", "list">>})

useWebhooks(limit) == Query(<<"webhooks", "list", limit>>, webhooksApi.list)
useWebhook == Query(<<"webhooks", "detail">>, webhooksApi.get)
useCreateWebhook == Mutation("useCreateWebhook", webhooksApi.create, {<<"webhooks", "list">>})
useUpdateWebhook(to) ==
  Mutation("useUpdateWebhook", webhooksApi.update[to],
           {<<"webhooks", "detail">>, <<"webhooks", "list">>})
useDeleteWebhook == Mutation("useDeleteWebhook", webhooksApi.delete, {<<"webhooks", "list">>})
useTestWebhook == Mutation("useTestWebhook", webhooksApi.test, {})
checkWebhookHealth == Mutation("checkWebhookHealth", webhooksApi.health, {})

useWebhookLogs == Query(<<"webhook-logs", "list", "20">>, logsApi.list)
useWebhookLogStats == Query(<<"webhook-logs", "stats">>, logsApi.stats)
useRetryWebhookLog == Mutation("useRetryWebhookLog", logsApi.retry, {<<"webhook-logs", "list">>})

useMembers == Query(<<"members", "list">>, membersApi.list)
useInviteMember ==
  Mutation("useInviteMember", membersApi.invite, {<<"members", "list">>, <<"invites", "list">>})
useUpdateMemberRole == Mutation("useUpdateMemberRole", membersApi.role, {<<"members", "list">>})
useRemoveMember == Mutation("useRemoveMember", membersApi.remove, {<<"members", "list">>})
useLeaveApplication ==
  Mutation("useLeaveApplication", membersApi.leave, {<<"applications", "list">>})
useInvites == Query(<<"invites", "list">>, membersApi.invites)
useCancelInvite == Mutation("useCancelInvite", membersApi.cancel, {<<"invites", "list">>})
useMyPendingInvites == Query(<<"invites", "pending">>, membersApi.pending)
useAcceptInvite ==
  Mutation("useAcceptInvite", membersApi.accept,
           {<<"invites", "pending">>, <<"applications", "list">>})
useDeclineInvite == Mutation("useDeclineInvite", membersApi.decline, {<<"invites", "pending">>})

useApiKeys == Query(<<"api-keys", "list", "20">>, apiKeysApi.list)
useCreateApiKey == Mutation("useCreateApiKey", apiKeysApi.create, {<<"api-keys", "list">>})
useRevokeApiKey == Mutation("useRevokeApiKey", apiKeysApi.revoke, {<<"api-keys", "list">>})

useDashboardStats == Query(<<"dashboard", "stats">>, dashboardApi.stats)
useDailyEventStats == Polled(Query(<<"dashboard", "dailyEventStats">>, dashboardApi.daily))
useTopApplications == Polled(Query(<<"dashboard", "topApplications">>, dashboardApi.top))
useIngestorInstances == Polled(Query(<<"ingestor", "instances">>, ingestorApi.instances))
useRebalanceIngestors ==
  Mutation("useRebalanceIngestors", ingestorApi.rebalance, {<<"ingestor", "instances">>})
useDispatcherInstances == Polled(Query(<<"dispatcher", "instances">>, dispatcherApi.instances))
useRebalanceDispatchers ==
  Mutation("useRebalanceDispatchers", dispatcherApi.rebalance, {<<"dispatcher", "instances">>})

-----------------------------------------------------------------------------
(* The pages: a dialog that mounts queries is a page of its own.             *)
(*   frame    what the layouts around the page mount                         *)
(*   mounts   what the page mounts                                           *)
(*   offers   mutations, and the rows the page has to show to offer them     *)
(*   via      the row whose link leads to the page                           *)

Row(query, kind, states) == [key |-> query.key, kind |-> kind, states |-> states]
There == {"on", "off"}
Offer(mutation, rows) == [mutation |-> mutation, rows |-> rows]

\* The header of every page, its search and its bell.
Header ==
  [mounts |-> {useApplications("100"), useMyPendingInvites}]
NotificationBell ==
  LET invite == Row(useMyPendingInvites, "myInvite", There)
  IN  {Offer(useAcceptInvite, {invite}), Offer(useDeclineInvite, {invite})}

Screen(frame, mounts, offers) ==
  [frame |-> Header.mounts \cup frame, mounts |-> mounts,
   offers |-> offers \cup NotificationBell, via |-> {}]
Reached(screen, row) == [screen EXCEPT !.via = {row}]

DashboardPage ==
  Screen({}, {useApplications("5"), useDashboardStats, useDailyEventStats, useTopApplications}, {})

CreateApplicationDialog == Offer(useCreateApplication, {})
ApplicationsPage == Screen({}, {useApplications("20")}, {CreateApplicationDialog})

\* The pages of an application are inside its layout.
AppLayout == {useApplication}
AppShown == Row(useApplications("100"), "application", There)
isOwner == Row(useApplication, "membership", {"on"})
AppPage(mounts, offers) == Reached(Screen(AppLayout, mounts, offers), AppShown)

CreateApiKeyDialog == Offer(useCreateApiKey, {})
ApplicationOverviewPage ==
  AppPage({useApplicationStats, useApiKeys},
          {CreateApiKeyDialog, Offer(useRevokeApiKey, {Row(useApiKeys, "apiKey", There)})})

InviteMemberDialog == Offer(useInviteMember, {isOwner})
MembersPageForAll ==
  AppPage({useApplication, useMembers, useInvites},
          {Offer(useInviteMember, {}),
           Offer(useUpdateMemberRole, {Row(useMembers, "member", There)})})
MembersPage ==
  LET member == Row(useMembers, "member", There)
  IN  AppPage({useApplication, useMembers, useInvites},
              {InviteMemberDialog,
               Offer(useUpdateMemberRole, {isOwner, member}),
               Offer(useRemoveMember, {isOwner, member}),
               Offer(useLeaveApplication, {member}),
               Offer(useCancelInvite, {isOwner, Row(useInvites, "sentInvite", There)})})

ProgramsPage ==
  AppPage({usePrograms("20")},
          {Offer(useDeleteProgram, {Row(usePrograms("20"), "program", There)})})
CreateProgramDialog ==
  AppPage({usePrograms("20"), useChains},
          {Offer(useCreateProgram, {Row(useChains, "chain", {"on"})}),
           Offer(useVerifyContract, {Row(useChains, "chain", {"on"})})})

SubscriptionsPage ==
  AppPage({useSubscriptions},
          {Offer(useUpdateSubscription("off"), {Row(useSubscriptions, "subscription", {"on"})}),
           Offer(useUpdateSubscription("on"), {Row(useSubscriptions, "subscription", {"off"})}),
           Offer(useDeleteSubscription, {Row(useSubscriptions, "subscription", There)})})
CreateSubscriptionDialog ==
  AppPage({useSubscriptions, usePrograms("100"), useWebhooks("100"), useEvents("100")},
          {Offer(useCreateSubscription, {Row(useEvents("100"), "event", There),
                                         Row(useWebhooks("100"), "webhook", There)})})

CreateWebhookDialog == Offer(useCreateWebhook, {})
WebhooksPage ==
  LET webhook == Row(useWebhooks("20"), "webhook", There)
  IN  AppPage({useWebhooks("20")},
              {CreateWebhookDialog, Offer(useDeleteWebhook, {webhook}),
               Offer(useTestWebhook, {webhook}), Offer(checkWebhookHealth, {webhook})})

SettingsPage ==
  AppPage({useApplication},
          {Offer(useUpdateApplication, {isOwner}), Offer(useDeleteApplication, {isOwner})})

ProgramDetailPage ==
  Reached(Screen({}, {useProgram, useEvents("20")}, {}), Row(usePrograms("20"), "program", There))

SubscriptionDetailPage ==
  LET shown(states) == Row(useSubscription, "subscription", states)
  IN  Reached(Screen({}, {useSubscription},
                     {Offer(useUpdateSubscription("off"), {shown({"on"})}),
                      Offer(useUpdateSubscription("on"), {shown({"off"})}),
                      Offer(useUpdateSubscription("same"), {shown(There)})}),
              Row(useSubscriptions, "subscription", There))

EditWebhookDialog ==
  {Offer(useUpdateWebhook(to), {Row(useWebhook, "webhook", There)}) : to \in {"on", "off"}}
WebhookDetailPage ==
  Reached(Screen({}, {useWebhook, Polled(useWebhookLogs), Polled(useWebhookLogStats)},
                 EditWebhookDialog \cup
                 {Offer(useTestWebhook, {Row(useWebhook, "webhook", There)}),
                  Offer(useRetryWebhookLog, {Row(useWebhookLogs, "log", {"on"})})}),
          Row(useWebhooks("20"), "webhook", There))

\* Platform settings are read-only for whoever is not root.
CreateChainDialog == Offer(useCreateChain, {})
EditChainDialog == Offer(useUpdateChain("same"), {Row(useChainsAdmin, "chain", There)})
ChainsPage(root) ==
  LET shown(states) == {Row(useChainsAdmin, "chain", states)}
  IN  IF ~root THEN Screen({}, {useChains}, {})
      ELSE Screen({}, {useChainsAdmin},
                  {CreateChainDialog, EditChainDialog,
                   Offer(useUpdateChain("off"), shown({"on"})),
                   Offer(useUpdateChain("on"), shown({"off"})),
                   Offer(useDeleteChain, shown(There)), Offer(useCheckChainRpc, shown(There))})
IngestorsPage(root) ==
  Screen({}, {useIngestorInstances}, IF root THEN {Offer(useRebalanceIngestors, {})} ELSE {})
DispatchersPage(root) ==
  Screen({}, {useDispatcherInstances}, IF root THEN {Offer(useRebalanceDispatchers, {})} ELSE {})

LoginPage == [frame |-> {}, mounts |-> {}, offers |-> {}, via |-> {}]

Pages == [root \in BOOLEAN |->
  [dashboard |-> DashboardPage, applications |-> ApplicationsPage,
   overview |-> ApplicationOverviewPage, members |-> MembersPage,
   programs |-> ProgramsPage, newProgram |-> CreateProgramDialog,
   subscriptions |-> SubscriptionsPage, newSubscription |-> CreateSubscriptionDialog,
   webhooks |-> WebhooksPage, settings |-> SettingsPage, program |-> ProgramDetailPage,
   subscription |-> SubscriptionDetailPage, webhook |-> WebhookDetailPage,
   chains |-> ChainsPage(root), ingestors |-> IngestorsPage(root),
   dispatchers |-> DispatchersPage(root), login |-> LoginPage]]
Page == DOMAIN Pages[TRUE]
Mounts == [root \in BOOLEAN |->
            [p \in Page |-> Pages[root][p].frame \cup Pages[root][p].mounts]]
=============================================================================
