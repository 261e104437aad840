-------------------------------- MODULE Ingest --------------------------------
(***************************************************************************)
(* The ingestor's way from the blocks of one chain to the streams of the   *)
(* applications: ChainManagerService, which starts and stops the chain's   *)
(* BlockPollerService as applications are claimed and released and as the  *)
(* configuration changes, the poller itself, QueuePublisherService and     *)
(* AppProgressService.                                                     *)
(*                                                                         *)
(* Who holds a claim is left to AppClaim: here a claim is free, or some    *)
(* instance's.  Chains do not touch each other's state, so there is one.   *)
(* All of a process runs on one thread: an action is what runs between two *)
(* awaits, and a pc names what is awaited.  A poller that was stopped, or  *)
(* deleted from the map, goes on with what it awaits: so an instance has   *)
(* slots for several.                                                      *)
(***************************************************************************)
EXTENDS Integers, FiniteSets

CONSTANTS
  Instance,        \* ingestor instances
  App,             \* applications, each with one subscription on the chain
  Slot,            \* pollers of an instance that may exist at once
  None,            \* no holder, no poller, no progress
  MaxBlock,        \* bounds the chain
  Silent,          \* blocks without an event; every other has one for each application
  Batch,           \* BATCH_SIZE
  MaxChanges,      \* bounds the changes of the configuration
  Disturbance,     \* which faults and operator actions may happen
  MaxDisturbances  \* bounds how many of them happen

ASSUME IngestAssumption ==
  /\ IsFiniteSet(Instance) /\ IsFiniteSet(App) /\ IsFiniteSet(Slot)
  /\ None \notin Instance \cup Slot \cup Nat
  /\ {MaxChanges, MaxDisturbances} \subseteq Nat /\ {MaxBlock, Batch} \subseteq Nat \ {0}
  /\ Silent \subseteq Nat
  /\ Disturbance \subseteq {"rpc", "redis", "drop", "lose", "crash", "full", "hasty"}

VARIABLES
  \* the chain, the configuration in the database, and Redis
  head,       \* the latest (finalized) block
  active,     \* applications with an active subscription
  chain,      \* revision of the chain's row, from 1 on
  enabled,    \* whether the chain is enabled
  holder,     \* holder[a]: whose claim key of a exists
  progress,   \* progress[a]: the value of app:progress:<a>, or None
  published,  \* the events <<a, b>> in the streams
  \* each instance
  manager,    \* manager[i]: the fields of its ChainManagerService
  poller,     \* poller[i][p]: a poller
  handler,    \* handler[i]: what handleAppClaimed awaits
  request,    \* request[i]: a refresh, up to the answer of the admin API
  \* history and bounds
  origin,     \* origin[a]: the block before the first whose events a is owed, or None
  passed,     \* passed[a]: blocks already behind the poller, or in its current
              \* batch, when a was added to its list
  leapt,      \* leapt[a]: blocks between the first progress of a and pollers that
              \* had started without any
  failed,     \* events whose XADD failed within a pipeline that resolved
  changes, disturbed

database == <<active, chain, enabled, changes>>
redis    == <<holder, progress, published>>
history  == <<origin, passed, leapt, failed>>
vars     == <<head, database, redis, manager, poller, handler, request, history, disturbed>>

Block == 1 .. MaxBlock

\* this.subscriptions of the chain is stored; chain is the revision in this.chains, or 0.
Down == [up |-> FALSE, known |-> {}, claimed |-> {}, chain |-> 0, stored |-> {}, current |-> None]

\* filter: the applications getLogs was asked for; batch: the events and the
\* progress updates in the pipeline; written: lastWrittenProgress.
Off == [pc |-> "off", running |-> FALSE, subs |-> {}, last |-> 0, to |-> 0, target |-> 0,
        filter |-> {}, batch |-> [events |-> {}, apps |-> {}], written |-> [a \in App |-> 0]]

Idle == [pc |-> "no", app |-> None, poller |-> None, from |-> 0, to |-> 0]

Init ==
  /\ head = 1
  /\ active = App /\ chain = 1 /\ enabled = TRUE
  /\ holder = [a \in App |-> None]
  /\ progress = [a \in App |-> None]
  /\ published = {}
  /\ manager = [i \in Instance |-> Down]
  /\ poller = [i \in Instance |-> [p \in Slot |-> Off]]
  /\ handler = [i \in Instance |-> Idle]
  /\ request = [i \in Instance |-> None]
  /\ origin = [a \in App |-> None]
  /\ passed = [a \in App |-> {}]
  /\ leapt = [a \in App |-> {}]
  /\ failed = {}
  /\ changes = 0 /\ disturbed = 0

Disturb(what) ==
  /\ what \in Disturbance
  /\ disturbed < MaxDisturbances
  /\ disturbed' = disturbed + 1

Put(i, p, l) == poller' = [poller EXCEPT ![i][p] = l]

Lesser(m, n) == IF m < n THEN m ELSE n

Events(apps, from, to) == apps \X ((from .. to) \ Silent)

\* What getSubscriptions answers: the enabled chains and their active subscriptions.
Answer == [apps |-> IF enabled THEN active ELSE {}, chain |-> IF enabled THEN chain ELSE 0]

\* An RPC call of a poller fails, for sure or maybe when stop() has destroyed its provider.
RpcFails(l) == IF l.running THEN Disturb("rpc") ELSE UNCHANGED disturbed

-----------------------------------------------------------------------------
(* Progress and publication                                                 *)

\* Where an application's history begins: behind the position of the first poller that
\* has it in its list when the progress is written.
Begin(apps, block) ==
  [a \in App |-> IF a \in apps /\ origin[a] = None THEN block ELSE origin[a]]

Progressed(apps, block) == [a \in App |-> IF a \in apps THEN block ELSE progress[a]]

Position(a) == IF progress[a] = None THEN 0 ELSE progress[a]

\* Applications that enter the list of a poller that is done, or past asking, up to block.
Pass(apps, block) == [a \in App |-> IF a \in apps THEN passed[a] \cup (Position(a) + 1 .. block)
                                                  ELSE passed[a]]

\* How far a poller is, its current batch included.
Reached(l) == IF l.pc \in {"logs", "pipe"} THEN l.to ELSE l.last

\* Pollers that have an application in their list, or in the batch on its way.
Serving(a) ==
  {c \in Instance \X Slot :
     a \in poller[c[1]][c[2]].subs \cup poller[c[1]][c[2]].batch.apps}

\* The first progress is written at block; a poller that found none is ahead of it, and
\* will set the progress forward.
Leap(apps, block) ==
  [a \in App |->
     leapt[a] \cup
       IF a \in apps /\ progress[a] = None
         THEN {b \in Block : b > block /\ \E c \in Serving(a) : b <= poller[c[1]][c[2]].last}
         ELSE {}]

Publish(events, apps, to, before) ==
  /\ published' = published \cup events
  /\ progress' = Progressed(apps, to)
  /\ origin' = Begin(apps, before)
  /\ leapt' = Leap(apps, to)

-----------------------------------------------------------------------------
(* BlockPollerService                                                       *)

\* schedulePoll: a stopped poller is not scheduled again.
Rest(l) ==
  IF l.running THEN [l EXCEPT !.pc = "idle", !.to = 0, !.target = 0, !.filter = {}, !.batch = Off.batch]
  ELSE Off

\* Not the code: a drain loop that does not look at isRunning.
NextBatchRegardless(l) ==
  IF l.target <= l.last THEN Rest(l)
  ELSE [l EXCEPT !.pc = "logs", !.to = Lesser(l.last + Batch, l.target), !.filter = l.subs,
                 !.batch = Off.batch]

\* Not the code: a whole batch, past the target.
NextBatchWhole(l) ==
  IF ~l.running \/ l.target <= l.last THEN Rest(l)
  ELSE [l EXCEPT !.pc = "logs", !.to = l.last + Batch + 1, !.filter = l.subs, !.batch = Off.batch]

\* The drain loop of poll(): the next getLogs, or the end of this poll.
NextBatch(l) ==
  IF ~l.running \/ l.target <= l.last THEN Rest(l)
  ELSE [l EXCEPT !.pc = "logs", !.to = Lesser(l.last + Batch, l.target), !.filter = l.subs,
                 !.batch = Off.batch]

\* start(): the target block is known; getMinAppProgress asks for the applications
\* in the list now.
StartTarget(i, p) ==
  LET l == poller[i][p]
  IN  /\ l.pc = "start"
      /\ Put(i, p, [l EXCEPT !.pc = "min", !.target = head, !.filter = l.subs])
      /\ UNCHANGED <<head, database, redis, manager, handler, request, history, disturbed>>

StartBlock(l) ==
  LET known == {progress[a] : a \in {b \in l.filter : progress[b] # None}}
  IN  IF known = {} THEN l.target ELSE CHOOSE n \in known : \A k \in known : n <= k

\* A claim handler that awaited this start has ended.
Awaited(i, p) ==
  IF handler[i].pc = "starting" /\ handler[i].poller = p THEN [handler EXCEPT ![i] = Idle] ELSE handler

StartMin(i, p) ==
  LET l == poller[i][p]
  IN  /\ l.pc = "min"
      /\ Put(i, p, Rest([l EXCEPT !.last = StartBlock(l)]))
      /\ passed' = Pass(l.subs \ l.filter, StartBlock(l))
      /\ handler' = Awaited(i, p)
      /\ UNCHANGED <<head, database, redis, manager, request, origin, leapt, failed, disturbed>>

\* start() throws, and startPoller deletes the poller from the map.
StartFails(i, p) ==
  LET l == poller[i][p]
  IN  /\ l.pc \in {"start", "min"}
      /\ IF l.pc = "start" THEN RpcFails(l) ELSE Disturb("redis")
      /\ Put(i, p, Off)
      /\ manager' = [manager EXCEPT ![i].current = None]
      /\ handler' = Awaited(i, p)
      /\ UNCHANGED <<head, database, redis, request, history>>

\* The timer fires, and poll() learns the target block.
Poll(i, p) ==
  LET l == poller[i][p]
  IN  /\ l.pc = "idle" /\ l.subs # {}
      /\ head > l.last
      /\ Put(i, p, NextBatch([l EXCEPT !.target = head]))
      /\ UNCHANGED <<head, database, redis, manager, handler, request, history, disturbed>>

\* getLogs and getBlock have answered; processLogs matches the logs with the list as
\* it is now, and prepares the progress of the applications in the list now.
ProcessLogs(i, p) ==
  LET l      == poller[i][p]
      events == Events(l.filter \cap l.subs, l.last + 1, l.to)
      apps   == {a \in l.subs : l.written[a] # l.to}
  IN  /\ l.pc = "logs"
      /\ Put(i, p, IF events = {} /\ apps = {} THEN NextBatch([l EXCEPT !.last = l.to])
                   ELSE [l EXCEPT !.pc = "pipe", !.batch = [events |-> events, apps |-> apps],
                                  !.written = [a \in App |-> IF a \in apps THEN l.to ELSE @[a]]])
      /\ UNCHANGED <<head, database, redis, manager, handler, request, history, disturbed>>

\* Redis has executed the pipeline, and exec() resolves.
PublishEventsWithProgress(i, p) ==
  LET l == poller[i][p]
  IN  /\ l.pc = "pipe"
      /\ Publish(l.batch.events, l.batch.apps, l.to, l.last)
      /\ Put(i, p, NextBatch([l EXCEPT !.last = l.to]))
      /\ UNCHANGED <<head, database, holder, manager, handler, request, passed, failed, disturbed>>

\* exec() resolves with the errors of single commands, at which nobody looks.
CommandsFail(i, p) ==
  LET l == poller[i][p]
  IN  /\ l.pc = "pipe" /\ l.batch.events # {}
      /\ Disturb("drop")
      /\ \E apps \in {{}, l.batch.apps} :
           /\ Publish({}, apps, l.to, l.last)
           /\ failed' = failed \cup (l.batch.events \ published)
      /\ Put(i, p, NextBatch([l EXCEPT !.last = l.to]))
      /\ UNCHANGED <<head, database, holder, manager, handler, request, passed>>

\* Not the code: a poll that failed is not followed by another.
PollFailsForGood(i, p) ==
  LET l == poller[i][p]
  IN  /\ l.pc = "logs"
      /\ RpcFails(l)
      /\ Put(i, p, [l EXCEPT !.pc = "end"])
      /\ UNCHANGED <<head, database, redis, manager, handler, request, history>>

\* An RPC call or the pipeline is rejected (be it executed or not): poll() ends, and
\* the next one starts again from the same block.
PollFails(i, p) ==
  LET l == poller[i][p]
  IN  /\ \/ /\ l.pc = "logs" /\ RpcFails(l)
            /\ UNCHANGED <<progress, published, origin, leapt>>
         \/ /\ l.pc = "pipe" /\ Disturb("redis")
            /\ \/ Publish(l.batch.events, l.batch.apps, l.to, l.last)
               \/ UNCHANGED <<progress, published, origin, leapt>>
      /\ Put(i, p, Rest(l))
      /\ UNCHANGED <<head, database, holder, manager, handler, request, passed, failed>>

\* The list of poller p becomes subs, as add- and updateSubscriptions do it.
Listed(l, subs) == IF l.pc = "off" THEN l ELSE [l EXCEPT !.subs = subs]

Joined(l, subs) == Pass(subs \ l.subs, Reached(l))

\* stop(): what the poller awaits will still come, or be rejected.
Stopped(l) == IF l.pc \in {"off", "idle"} THEN Off ELSE [l EXCEPT !.running = FALSE]

-----------------------------------------------------------------------------
(* ChainManagerService                                                      *)

\* A slot nobody refers to; which one does not matter.
Vacant(i, p) ==
  LET free == {q \in Slot : /\ poller[i][q].pc = "off"
                            /\ manager[i].current # q /\ handler[i].poller # q}
  IN  free # {} /\ p = CHOOSE q \in free : TRUE

\* startPoller: in the map before start() is awaited.
Fresh(subs) == [Off EXCEPT !.pc = "start", !.running = TRUE, !.subs = subs]

\* The poller in the map may be stopped now.  Stopped while it is starting, it would
\* delete its successor from the map when its start() fails.
MayStop(i) ==
  \A p \in Slot : (manager[i].current = p /\ poller[i][p].pc \in {"start", "min"})
                   => "hasty" \in Disturbance

\* initialize(): fetchInitialDataWithRetry has the answer.
Initialize(i) ==
  /\ ~manager[i].up
  /\ manager' = [manager EXCEPT ![i] = [Down EXCEPT !.up = TRUE, !.known = Answer.apps,
                                                    !.chain = Answer.chain]]
  /\ UNCHANGED <<head, database, redis, poller, handler, request, history, disturbed>>

\* The claim cycle has set the claim key, and handleAppClaimed asks for the progress
\* (when the chain is known).
Claim(i, a) ==
  /\ manager[i].up /\ handler[i].pc = "no"
  /\ a \in manager[i].known \ manager[i].claimed
  /\ holder[a] = None
  /\ holder' = [holder EXCEPT ![a] = i]
  /\ manager' = [manager EXCEPT ![i].claimed = @ \cup {a}]
  /\ handler' = IF manager[i].chain = 0 THEN handler
                ELSE [handler EXCEPT ![i] = [Idle EXCEPT !.pc = "progress", !.app = a]]
  /\ UNCHANGED <<head, database, progress, published, poller, request, history, disturbed>>

\* handleAppClaimed without a poller: start one with all subscriptions of the chain.
JoinByStart(i) ==
  LET a    == handler[i].app
      subs == manager[i].stored \cup {a}
  IN  /\ handler[i].pc = "progress"
      /\ manager[i].current = None
      /\ \E p \in Slot :
           /\ Vacant(i, p)
           /\ manager' = [manager EXCEPT ![i].stored = subs, ![i].current = p]
           /\ Put(i, p, Fresh(subs))
           /\ handler' = [handler EXCEPT ![i].pc = "starting", ![i].poller = p]
      /\ UNCHANGED <<head, database, redis, request, history, disturbed>>

\* handleAppClaimed with a poller: an application that is new, behind, or caught up.
JoinPoller(i) ==
  LET a == handler[i].app
      p == manager[i].current
      l == poller[i][p]
  IN  /\ handler[i].pc = "progress"
      /\ p # None
      /\ \/ /\ progress[a] = None
            /\ handler' = [handler EXCEPT ![i] = [@ EXCEPT !.pc = "set", !.poller = p, !.to = l.last]]
            /\ UNCHANGED <<poller, passed>>
         \/ /\ progress[a] # None /\ progress[a] < l.last
            /\ handler' = [handler EXCEPT ![i] = [@ EXCEPT !.pc = "logs", !.poller = p,
                                                           !.from = progress[a] + 1, !.to = l.last]]
            /\ UNCHANGED <<poller, passed>>
         \/ /\ progress[a] # None /\ progress[a] >= l.last
            /\ Put(i, p, Listed(l, l.subs \cup {a}))
            /\ passed' = Joined(l, l.subs \cup {a})
            /\ handler' = [handler EXCEPT ![i] = Idle]
      /\ UNCHANGED <<head, database, redis, manager, request, origin, leapt, failed, disturbed>>

\* setProgress has returned.  The position of a poller that is starting still is 0: a
\* number, but not where an application's history begins; nor is what an instance
\* writes that has lost the claim meanwhile.
SetProgress(i) ==
  LET h == handler[i]
      l == poller[i][h.poller]
  IN  /\ h.pc = "set"
      /\ progress' = Progressed({h.app}, h.to)
      /\ leapt' = Leap({h.app}, h.to)
      /\ origin' = IF h.to = 0 \/ holder[h.app] # i THEN origin ELSE Begin({h.app}, h.to)
      /\ passed' = Pass({h.app}, IF Reached(l) > h.to THEN Reached(l) ELSE h.to)
      /\ Put(i, h.poller, Listed(l, l.subs \cup {h.app}))
      /\ handler' = [handler EXCEPT ![i] = Idle]
      /\ UNCHANGED <<head, database, holder, published, manager, request, failed, disturbed>>

CatchUpEnd(h) == Lesser(h.from + Batch - 1, h.to)

\* One batch of catchUpApplication: its logs ...
CatchUpLogs(i) ==
  /\ handler[i].pc = "logs"
  /\ handler' = [handler EXCEPT ![i].pc = "pipe"]
  /\ UNCHANGED <<head, database, redis, manager, poller, request, history, disturbed>>

\* Not the code: the next batch starts behind a block that nobody looked at.
CatchUpPipelineGap(i) ==
  LET h == handler[i]
      a == h.app
      end == CatchUpEnd(h)
      l == poller[i][h.poller]
  IN  /\ h.pc = "pipe"
      /\ Publish(Events({a}, h.from + 1, end), {a}, end, end)
      /\ IF end < h.to
           THEN /\ handler' = [handler EXCEPT ![i].pc = "logs", ![i].from = end + 1]
                /\ UNCHANGED <<poller, passed>>
           ELSE /\ handler' = [handler EXCEPT ![i] = Idle]
                /\ Put(i, h.poller, Listed(l, l.subs \cup {a}))
                /\ passed' = [passed EXCEPT ![a] = @ \cup (end + 1 .. Reached(l))]
      /\ UNCHANGED <<head, database, holder, manager, request, failed, disturbed>>

\* ... and its pipeline; behind the last one the application joins the poller,
\* wherever that is by now.
CatchUpPipeline(i) ==
  LET h   == handler[i]
      a   == h.app
      end == CatchUpEnd(h)
      l   == poller[i][h.poller]
  IN  /\ h.pc = "pipe"
      /\ Publish(Events({a}, h.from, end), {a}, end, end)
      /\ IF end < h.to
           THEN /\ handler' = [handler EXCEPT ![i].pc = "logs", ![i].from = end + 1]
                /\ UNCHANGED <<poller, passed>>
           ELSE /\ handler' = [handler EXCEPT ![i] = Idle]
                /\ Put(i, h.poller, Listed(l, l.subs \cup {a}))
                /\ passed' = [passed EXCEPT ![a] = @ \cup (end + 1 .. Reached(l))]
      /\ UNCHANGED <<head, database, holder, manager, request, failed, disturbed>>

\* An await of the handler is rejected: AppClaimService logs it, and the application
\* stays claimed without being in any poller.
HandlerFails(i) ==
  LET h == handler[i]
  IN  /\ \/ h.pc \in {"progress", "set", "pipe"} /\ Disturb("redis")
         \/ h.pc = "logs" /\ RpcFails(poller[i][h.poller])
      /\ handler' = [handler EXCEPT ![i] = Idle]
      /\ UNCHANGED <<head, database, redis, manager, poller, request, history>>

\* handleAppReleased, when the claim is somebody else's or nobody's: the list of the
\* poller in the map, and only with it the stored list, lose the application.
HandleAppReleased(i, a) ==
  LET m    == manager[i]
      p    == m.current
      subs == poller[i][p].subs \ {a}
  IN  /\ a \in m.claimed /\ holder[a] # i
      /\ MayStop(i)
      /\ IF p = None
           THEN /\ manager' = [manager EXCEPT ![i].claimed = @ \ {a}]
                /\ UNCHANGED poller
           ELSE /\ manager' = [manager EXCEPT ![i] =
                     [m EXCEPT !.claimed = @ \ {a}, !.stored = @ \ {a},
                               !.current = IF subs = {} THEN None ELSE p]]
                /\ Put(i, p, IF subs = {} THEN Stopped(Listed(poller[i][p], {}))
                                          ELSE Listed(poller[i][p], subs))
      /\ UNCHANGED <<head, database, redis, handler, request, history, disturbed>>

-----------------------------------------------------------------------------
(* Refreshes                                                                *)

\* A signal has been received; getSubscriptions reads the database.
ReadRefresh(i) ==
  /\ request[i] # None /\ request[i].data = None
  /\ request' = [request EXCEPT ![i].data = Answer]
  /\ UNCHANGED <<head, database, redis, manager, poller, handler, history, disturbed>>

Answered(i, type) == request[i] # None /\ request[i].type = type /\ request[i].data # None

RefreshFails(i) ==
  /\ request[i] # None
  /\ Disturb("rpc")
  /\ request' = [request EXCEPT ![i] = None]
  /\ UNCHANGED <<head, database, redis, manager, poller, handler, history>>

\* refreshSubscriptions: the lists become those of the claimed applications.  It
\* starts no poller.
RefreshSubscriptions(i) ==
  LET m    == manager[i]
      data == request[i].data
      subs == data.apps \cap m.claimed
      p    == m.current
  IN  /\ Answered(i, "subscriptions")
      /\ manager' = [manager EXCEPT ![i] =
           [m EXCEPT !.known = data.apps,
                     !.stored = IF subs = {} /\ m.chain = 0 THEN @ ELSE subs]]
      /\ IF p # None /\ (subs # {} \/ m.chain # 0)
           THEN /\ Put(i, p, Listed(poller[i][p], subs))
                /\ passed' = Joined(poller[i][p], subs)
           ELSE UNCHANGED <<poller, passed>>
      /\ request' = [request EXCEPT ![i] = None]
      /\ UNCHANGED <<head, database, redis, handler, origin, leapt, failed, disturbed>>

\* Not the code: the poller is replaced but not stopped.
RefreshChainsKeeping(i) ==
  LET m    == manager[i]
      data == request[i].data
      subs == data.apps \cap m.claimed
  IN  /\ Answered(i, "chains")
      /\ data.chain # 0 /\ data.chain # m.chain
      /\ \E p \in Slot :
           /\ Vacant(i, p)
           /\ manager' = [manager EXCEPT ![i] =
                [m EXCEPT !.known = data.apps, !.chain = data.chain, !.stored = subs, !.current = p]]
           /\ poller' = [poller EXCEPT ![i][p] = Fresh(subs)]
      /\ request' = [request EXCEPT ![i] = None]
      /\ UNCHANGED <<head, database, redis, handler, history, disturbed>>

\* refreshChains: a chain that is gone loses its poller; one that is new, or whose
\* row has changed, gets a new poller with the claimed applications; else only the
\* known applications are new.
RefreshChains(i) ==
  LET m    == manager[i]
      data == request[i].data
      subs == data.apps \cap m.claimed
      rest == IF m.current = None THEN poller[i]
              ELSE [poller[i] EXCEPT ![m.current] = Stopped(@)]
  IN  /\ Answered(i, "chains")
      /\ \/ /\ data.chain = m.chain
            /\ manager' = [manager EXCEPT ![i].known = data.apps]
            /\ UNCHANGED poller
         \/ /\ data.chain = 0 /\ m.chain # 0
            /\ MayStop(i)
            /\ manager' = [manager EXCEPT ![i] =
                 [m EXCEPT !.known = data.apps, !.chain = 0, !.stored = {}, !.current = None]]
            /\ poller' = [poller EXCEPT ![i] = rest]
         \/ /\ data.chain # 0 /\ data.chain # m.chain
            /\ MayStop(i)
            /\ \E p \in Slot :
                 /\ Vacant(i, p)
                 /\ manager' = [manager EXCEPT ![i] =
                      [m EXCEPT !.known = data.apps, !.chain = data.chain, !.stored = subs,
                                !.current = p]]
                 /\ poller' = [poller EXCEPT ![i] = [rest EXCEPT ![p] = Fresh(subs)]]
      /\ request' = [request EXCEPT ![i] = None]
      /\ UNCHANGED <<head, database, redis, handler, history, disturbed>>

\* fullRefresh: every poller is stopped and all is fetched anew; the claims are kept,
\* and no handler is called for them again.
FullRefresh(i) ==
  LET m == manager[i]
  IN  /\ m.up /\ request[i] = None
      /\ Disturb("full")
      /\ MayStop(i)
      /\ manager' = [manager EXCEPT ![i] =
           [m EXCEPT !.known = Answer.apps, !.chain = Answer.chain, !.stored = {}, !.current = None]]
      /\ poller' = IF m.current = None THEN poller
                   ELSE [poller EXCEPT ![i][m.current] = Stopped(@)]
      /\ UNCHANGED <<head, database, redis, handler, request, history>>

-----------------------------------------------------------------------------
(* The rest of the platform                                                 *)

Mine ==
  /\ head < MaxBlock
  /\ head' = head + 1
  /\ UNCHANGED <<database, redis, manager, poller, handler, request, history, disturbed>>

\* The configuration changes; its signal reaches some of the instances (those that
\* listen already).  Refreshes do not overlap.
Signal(type) ==
  /\ changes < MaxChanges
  /\ changes' = changes + 1
  /\ \A i \in Instance : request[i] = None
  /\ \E heard \in SUBSET {i \in Instance : manager[i].up} :
       request' = [i \in Instance |->
                    IF i \in heard THEN [type |-> type, data |-> None] ELSE None]
  /\ UNCHANGED <<head, redis, manager, poller, handler, history, disturbed>>

ChangeSubscription(a) ==
  /\ Signal("subscriptions")
  /\ active' = IF a \in active THEN active \ {a} ELSE active \cup {a}
  /\ UNCHANGED <<chain, enabled>>

ChangeChain ==
  /\ Signal("chains")
  /\ \/ chain' = chain + 1 /\ UNCHANGED enabled
     \/ enabled' = ~enabled /\ UNCHANGED chain
  /\ UNCHANGED active

\* A claim is given up, revoked, or expires.
LoseClaim(a) ==
  /\ holder[a] # None
  /\ Disturb("lose")
  /\ holder' = [holder EXCEPT ![a] = None]
  /\ UNCHANGED <<head, database, progress, published, manager, poller, handler, request, history>>

\* The process dies, or shuts down; its claims have been released, or have expired,
\* before anybody can claim them.
Crash(i) ==
  /\ manager[i].up
  /\ Disturb("crash")
  /\ holder' = [a \in App |-> IF holder[a] = i THEN None ELSE holder[a]]
  /\ manager' = [manager EXCEPT ![i] = Down]
  /\ poller' = [poller EXCEPT ![i] = [p \in Slot |-> Off]]
  /\ handler' = [handler EXCEPT ![i] = Idle]
  /\ request' = [request EXCEPT ![i] = None]
  /\ UNCHANGED <<head, database, progress, published, history>>

-----------------------------------------------------------------------------
(* The specification                                                        *)

PollerStep(i, p) ==
  \/ StartTarget(i, p) \/ StartMin(i, p)
  \/ Poll(i, p) \/ ProcessLogs(i, p) \/ PublishEventsWithProgress(i, p)

HandlerStep(i) == JoinByStart(i) \/ JoinPoller(i) \/ SetProgress(i) \/ CatchUpLogs(i) \/ CatchUpPipeline(i)

RefreshStep(i) == ReadRefresh(i) \/ RefreshSubscriptions(i) \/ RefreshChains(i)

ClaimStep(i, a) == Claim(i, a) \/ HandleAppReleased(i, a)

Fault ==
  \/ \E i \in Instance, p \in Slot : StartFails(i, p) \/ CommandsFail(i, p) \/ PollFails(i, p)
  \/ \E i \in Instance : HandlerFails(i) \/ RefreshFails(i) \/ FullRefresh(i) \/ Crash(i)
  \/ \E a \in App : LoseClaim(a)

Next ==
  \/ \E i \in Instance, p \in Slot : PollerStep(i, p)
  \/ \E i \in Instance : Initialize(i) \/ HandlerStep(i) \/ RefreshStep(i)
  \/ \E i \in Instance, a \in App : ClaimStep(i, a)
  \/ Mine \/ ChangeChain \/ \E a \in App : ChangeSubscription(a)
  \/ Fault

Spec == Init /\ [][Next]_vars

\* Timers fire, and the RPC node, Redis and the admin API answer each call.
FairSpec ==
  /\ Spec
  /\ \A i \in Instance, p \in Slot : WF_vars(PollerStep(i, p))
  /\ \A i \in Instance : WF_vars(HandlerStep(i)) /\ WF_vars(RefreshStep(i))

-----------------------------------------------------------------------------
(* Properties                                                               *)

PollerRecord ==
  [pc : {"off", "start", "min", "idle", "logs", "pipe"}, running : BOOLEAN, subs : SUBSET App,
   last : 0 .. MaxBlock, to : 0 .. MaxBlock, target : 0 .. MaxBlock, filter : SUBSET App,
   batch : [events : SUBSET (App \X Block), apps : SUBSET App], written : [App -> 0 .. MaxBlock]]

ManagerRecord ==
  [up : BOOLEAN, known : SUBSET App, claimed : SUBSET App, chain : 0 .. MaxChanges + 1,
   stored : SUBSET App, current : Slot \cup {None}]

HandlerRecord ==
  [pc : {"no", "progress", "set", "logs", "pipe", "starting"}, app : App \cup {None},
   poller : Slot \cup {None}, from : 0 .. MaxBlock, to : 0 .. MaxBlock]

\* Types; and nothing is published, fetched or written that has not been mined.
TypeOK ==
  /\ head \in Block /\ active \subseteq App /\ chain \in Nat /\ enabled \in BOOLEAN
  /\ holder \in [App -> Instance \cup {None}]
  /\ progress \in [App -> (0 .. head) \cup {None}]
  /\ published \subseteq App \X (1 .. head) /\ failed \subseteq App \X (1 .. head)
  /\ manager \in [Instance -> ManagerRecord]
  /\ poller \in [Instance -> [Slot -> PollerRecord]]
  /\ \A i \in Instance, p \in Slot :
       LET l == poller[i][p]
       IN  l.last <= head /\ l.to <= l.target /\ l.target <= head
  /\ handler \in [Instance -> HandlerRecord]
  /\ \A i \in Instance : handler[i].to <= head
  /\ origin \in [App -> (0 .. head) \cup {None}]
  /\ passed \in [App -> SUBSET (1 .. head)] /\ leapt \in [App -> SUBSET (1 .. head)]
  /\ changes \in 0 .. MaxChanges /\ disturbed \in 0 .. MaxDisturbances

\* Blocks with an event that is not in the stream, though the progress is beyond them,
\* and that no XADD failed for whose error nobody looks at.
Skipped(a) ==
  IF progress[a] = None \/ origin[a] = None THEN {}
  ELSE {b \in Block : /\ origin[a] < b /\ b <= progress[a] /\ b \notin Silent
                      /\ <<a, b>> \notin published \cup failed}

\* No event is skipped, but in two gaps the code leaves: blocks that a poller passes,
\* or has asked for, before it has the application in its list; and blocks between
\* the first progress of an application and a poller that had started without any.
\* Crashes, rejected calls, restarts, handovers between instances, and batches
\* that are written late skip nothing else.
NothingSkipped == \A a \in App : Skipped(a) \subseteq passed[a] \cup leapt[a]

\* "Any blocks produced during this poll cycle will be picked up by the next scheduled
\* poll invocation" (poll()), also when that is the poll of a successor.
NothingLeapt == \A a \in App : Skipped(a) \subseteq passed[a]

\* A chain has one poller: only the one in the map is running.  Not so if a poller
\* is stopped while it is starting (MayStop).
OnlyThePollerInTheMapRuns ==
  \A i \in Instance, p \in Slot : poller[i][p].running => manager[i].current = p

Ended(l) == l.pc # "off" /\ ~l.running

\* stop() ends a poller: it finishes the batch at hand, but begins no other, and its
\* position does not move again behind that.
StoppedPollersEnd ==
  [][\A i \in Instance, p \in Slot :
       Ended(poller[i][p]) =>
         /\ ~poller'[i][p].running
         /\ poller'[i][p].pc # "off" => poller'[i][p].last = poller[i][p].last]_vars

Behind(i, p) == poller[i][p].running /\ poller[i][p].subs # {} /\ poller[i][p].last < head

\* A poller with subscriptions gets to the head of the chain, whatever calls fail,
\* unless it is stopped: an error ends a poll and never the polling.
PollersReachTheHead ==
  \A i \in Instance, p \in Slot : []<>~Behind(i, p)
=============================================================================
