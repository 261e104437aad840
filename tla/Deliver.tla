-------------------------------- MODULE Deliver --------------------------------
(***************************************************************************)
(* The dispatcher's delivery of one application's messages: the consume    *)
(* loops of QueueConsumerService over a Redis stream and its consumer      *)
(* group, DispatcherService with its subscription cache, the calls and     *)
(* logs of WebhookCallerService and WebhookLogRepository, and the trimming *)
(* of StreamMaintenanceService.                                            *)
(*                                                                         *)
(* Instances start and stop consumers when AppClaimService tells them to.  *)
(* A loop whose consumer was stopped goes on with what it awaits: a        *)
(* command already sent is still executed, everything it sends afterwards  *)
(* fails on the closed connection.  So an instance can have two loops, and *)
(* a loop is a slot of an instance.  Its pc names what it awaits.          *)
(*                                                                         *)
(* One tick of the clock is as long as a dispatch with all its retries may *)
(* take (91 s by default); an entry is idle long enough for XAUTOCLAIM     *)
(* after MinIdle ticks (120 s).                                            *)
(***************************************************************************)
EXTENDS Integers, FiniteSets

CONSTANTS
  Instance,         \* dispatcher instances
  Slot,             \* loops of an instance that may run at once
  MaxMessage,       \* messages are 1 .. MaxMessage, in the order of their ids
  None,             \* no consumer, no entry
  MinIdle,          \* ticks until a pending entry may be claimed by others
  MaxDeliveryCount, \* deliveries until a message goes to the dead letters
  MaxRetries,       \* retries of the retry policy, within one dispatch
  Batch,            \* COUNT of XAUTOCLAIM
  MaxRecovery,      \* maxRecoveryPerCycle
  CacheTtl,         \* cacheTtlMs in ticks
  MaxLen,           \* emergencyMaxLen
  MaxChanges,       \* bounds the changes of the subscription
  Disturbance,      \* which faults and operator actions may happen
  MaxDisturbances   \* bounds how many of them happen

ASSUME DeliverAssumption ==
  /\ IsFiniteSet(Instance) /\ IsFiniteSet(Slot)
  /\ None \notin Slot /\ None \notin Instance
  /\ None \notin [by : Instance, idle : Nat, count : Nat]
  /\ {MaxMessage, MaxDeliveryCount, MaxRetries, MaxChanges, MaxDisturbances} \subseteq Nat
  /\ {MinIdle, Batch, MaxRecovery, CacheTtl, MaxLen} \subseteq Nat \ {0}
  /\ Disturbance \subseteq {"stop", "crash", "error", "disconnect", "slow", "overlap", "malformed",
                            "old", "sweep", "race", "deaf"}

VARIABLES
  \* the stream of the application and its consumer group
  stream,     \* entries that are not trimmed
  appended,   \* entries there have been
  lastRead,   \* last-delivered-id of the group
  pel,        \* pel[m]: consumer, delivery count and idle time of a pending entry
  letters,    \* letters[m]: entries for m in the dead-letter stream
  old,        \* entries older than the retention
  bad,        \* entries without readable data
  \* each instance
  consumers,  \* consumers[i]: the loop in the map of that name, or None
  loop,       \* loop[i][s]: what loop s of i is doing
  cache,      \* subscriptionCache: entry for the application's subscription
  refresh,    \* pendingRefreshes: not, asked, or the answer on its way
  sweep,      \* StreamMaintenanceService: consumers found idle, still to be removed
  \* the database and the signals about it
  status,     \* what getSubscriptionById would answer
  signal,     \* signal[i]: a refresh signal on its way to i
  logs,       \* logs[m]: the final states of the log rows of m
  \* the environment and history
  disturbed,  \* how many disturbances have happened
  changes,    \* how often the subscription has changed
  changed,    \* ticks since the last change, CacheTtl + 1 for longer
  tries,      \* tries[m]: calls of dispatch() for m
  accepted,   \* messages the endpoint has answered with 2xx
  refused     \* messages found malformed or without an active subscription

redis    == <<stream, appended, lastRead, pel, letters, old, bad>>
instance == <<consumers, loop, cache, refresh, sweep>>
database == <<status, signal, logs, changes, changed>>
history  == <<tries, accepted, refused>>
vars     == <<redis, instance, database, history, disturbed>>

Message == 1 .. MaxMessage
Status  == {"active", "inactive", "gone"}

RedisStep    == {"group", "autoclaim", "count", "read", "ack", "bury", "buried"}
DispatchStep == {"fetch", "fetched", "log", "call", "mark"}

\* redo: within recoverPendingMessages, which still has batch to go through and
\* XAUTOCLAIM to ask again from cursor on (0: the scan was complete).
Off == [pc |-> "off", running |-> FALSE, due |-> FALSE, msg |-> 0, redo |-> FALSE, batch |-> {},
        cursor |-> 0, handled |-> 0, attempt |-> 0, data |-> "gone", spent |-> 0]

Init ==
  /\ stream = {} /\ appended = {} /\ old = {} /\ bad = {}
  /\ lastRead = 0
  /\ pel = [m \in Message |-> None]
  /\ letters = [m \in Message |-> 0]
  /\ consumers = [i \in Instance |-> None]
  /\ loop = [i \in Instance |-> [s \in Slot |-> Off]]
  /\ cache = [i \in Instance |-> None]
  /\ refresh = [i \in Instance |-> "no"]
  /\ sweep = [i \in Instance |-> {}]
  /\ status = "active"
  /\ signal = [i \in Instance |-> FALSE]
  /\ logs = [m \in Message |-> {}]
  /\ disturbed = 0 /\ changes = 0 /\ changed = CacheTtl + 1
  /\ tries = [m \in Message |-> 0]
  /\ accepted = {} /\ refused = {}

Disturb(what) ==
  /\ what \in Disturbance
  /\ disturbed < MaxDisturbances
  /\ disturbed' = disturbed + 1

Put(i, s, l) == loop' = [loop EXCEPT ![i][s] = l]

First(ms) == CHOOSE m \in ms : \A n \in ms : m <= n

\* The first n of the messages ms.
FirstOf(n, ms) == {m \in ms : Cardinality({k \in ms : k < m}) < n}

-----------------------------------------------------------------------------
(* Where a loop goes on                                                     *)

At(l, pc) == [l EXCEPT !.pc = pc]

\* The while loop of consumeLoop: recovery when it is due, else the next read.
Top(l) ==
  LET fresh == [Off EXCEPT !.running = TRUE, !.due = l.due]
  IN  IF ~l.running THEN Off
      ELSE IF l.due THEN At([fresh EXCEPT !.redo = TRUE], "autoclaim") ELSE At(fresh, "read")

\* recoverPendingMessages has returned, and its time is noted.  When the consumer
\* was stopped meanwhile, the read that follows fails and ends the loop.
RecoveryDone(l) == IF l.running THEN Top([l EXCEPT !.due = FALSE]) ELSE Off

\* Not the code: a batch whose first message is looked at again and again.
NextClaimedAgain(l) ==
  IF ~l.running \/ l.handled >= MaxRecovery THEN RecoveryDone(l)
  ELSE IF l.batch # {} THEN At([l EXCEPT !.msg = First(l.batch)], "count")
  ELSE RecoveryDone(l)

\* The for and the while loop of recoverPendingMessages.
NextClaimed(l) ==
  LET m == First(l.batch)
  IN  IF ~l.running \/ l.handled >= MaxRecovery THEN RecoveryDone(l)
      ELSE IF l.batch # {} THEN At([l EXCEPT !.msg = m, !.batch = @ \ {m}], "count")
      ELSE IF l.cursor # 0 THEN At(l, "autoclaim")
      ELSE RecoveryDone(l)

\* processMessage (or moveToDlq) has returned.
MessageDone(l) ==
  LET done == [l EXCEPT !.msg = 0, !.attempt = 0, !.data = "gone", !.spent = 0]
  IN  IF l.redo THEN NextClaimed([done EXCEPT !.handled = @ + 1]) ELSE Top(done)

\* dispatch() has returned; XACK fails at once on a connection that was closed.
Acknowledge(l) == IF l.running THEN At([l EXCEPT !.spent = 0], "ack") ELSE Off

-----------------------------------------------------------------------------
(* dispatch()                                                               *)

\* The subscription is known: go on to the log entry, or give the message up.
Judge(l, data) == IF data = "active" THEN At([l EXCEPT !.data = "gone"], "log") ELSE Acknowledge(l)

Give(ms, data) == IF data = "active" THEN {} ELSE ms

IsFresh(entry) == ~entry.stale /\ entry.age <= CacheTtl

\* A stale or expired entry is used once more, and asked for again unless that
\* has been done already.
Revalidate(i) == IF refresh[i] = "no" THEN [refresh EXCEPT ![i] = "asked"] ELSE refresh

\* processMessage up to its first await: loop s of i looks at message l.msg.
Process(i, s, l) ==
  IF l.msg \in bad
    THEN /\ Put(i, s, Acknowledge(l))
         /\ refused' = refused \cup {l.msg}
         /\ UNCHANGED <<refresh, tries>>
    ELSE /\ tries' = [tries EXCEPT ![l.msg] = IF @ < MaxDeliveryCount THEN @ + 1 ELSE @]
         /\ IF cache[i] = None
              THEN Put(i, s, At(l, "fetch")) /\ UNCHANGED <<refresh, refused>>
              ELSE /\ Put(i, s, Judge(l, cache[i].data))
                   /\ refused' = refused \cup Give({l.msg}, cache[i].data)
                   /\ refresh' = IF IsFresh(cache[i]) THEN refresh ELSE Revalidate(i)

Entry(data) == [data |-> data, age |-> 0, stale |-> FALSE]

\* getSubscriptionById reads the database ...
Fetch(i, s) ==
  /\ loop[i][s].pc = "fetch"
  /\ Put(i, s, [loop[i][s] EXCEPT !.pc = "fetched", !.data = status])
  /\ UNCHANGED <<redis, consumers, cache, refresh, sweep, database, history, disturbed>>

\* ... and its answer arrives; nothing is cached for a subscription that is gone.
Fetched(i, s) ==
  LET l == loop[i][s]
  IN  /\ l.pc = "fetched"
      /\ cache' = IF l.data = "gone" THEN cache ELSE [cache EXCEPT ![i] = Entry(l.data)]
      /\ Put(i, s, Judge(l, l.data))
      /\ refused' = refused \cup Give({l.msg}, l.data)
      /\ UNCHANGED <<redis, consumers, refresh, sweep, database, tries, accepted, disturbed>>

\* The answer to a revalidation: the same two steps, or a failure that leaves the
\* old entry as it is.
RefreshRead(i) ==
  /\ refresh[i] = "asked"
  /\ refresh' = [refresh EXCEPT ![i] = status]
  /\ UNCHANGED <<redis, consumers, loop, cache, sweep, database, history, disturbed>>

Refreshed(i) ==
  /\ refresh[i] \in Status
  /\ cache' = [cache EXCEPT ![i] = IF refresh[i] = "gone" THEN None ELSE Entry(refresh[i])]
  /\ refresh' = [refresh EXCEPT ![i] = "no"]
  /\ UNCHANGED <<redis, consumers, loop, sweep, database, history, disturbed>>

\* Not the code: a failed revalidation counts as one.
RefreshFailsFresh(i) ==
  /\ refresh[i] # "no"
  /\ Disturb("error")
  /\ refresh' = [refresh EXCEPT ![i] = "no"]
  /\ cache' = IF cache[i] = None THEN cache ELSE [cache EXCEPT ![i] = Entry(@.data)]
  /\ UNCHANGED <<redis, consumers, loop, sweep, database, history>>

RefreshFails(i) ==
  /\ refresh[i] # "no"
  /\ Disturb("error")
  /\ refresh' = [refresh EXCEPT ![i] = "no"]
  /\ UNCHANGED <<redis, consumers, loop, cache, sweep, database, history>>

\* WebhookLogRepository.create: a PENDING row.
CreateLog(i, s) ==
  /\ loop[i][s].pc = "log"
  /\ Put(i, s, [loop[i][s] EXCEPT !.pc = "call", !.attempt = 1])
  /\ UNCHANGED <<redis, consumers, cache, refresh, sweep, database, history, disturbed>>

\* Not the code: a delivery that is acknowledged without its log.
CallUnlogged(i, s) ==
  LET l == loop[i][s]
  IN  /\ l.pc = "call"
      /\ \E accepts \in BOOLEAN :
           /\ accepted' = IF accepts THEN accepted \cup {l.msg} ELSE accepted
           /\ Put(i, s, IF accepts THEN Acknowledge([l EXCEPT !.attempt = 0])
                                   ELSE [l EXCEPT !.pc = "mark", !.attempt = 0])
      /\ UNCHANGED <<redis, consumers, cache, refresh, sweep, database, tries, refused, disturbed>>

\* One attempt of callWithRetry.  The endpoint may accept although its answer is
\* late or lost; anything but a 2xx that arrives is retried.
Call(i, s) ==
  LET l == loop[i][s]
  IN  /\ l.pc = "call"
      /\ \E accepts, heard \in BOOLEAN :
           /\ accepted' = IF accepts THEN accepted \cup {l.msg} ELSE accepted
           /\ Put(i, s, IF accepts /\ heard
                          THEN [l EXCEPT !.pc = "mark", !.attempt = 0, !.data = "active"]
                        ELSE IF l.attempt <= MaxRetries
                          THEN [l EXCEPT !.attempt = @ + 1]
                        ELSE [l EXCEPT !.pc = "mark", !.attempt = 0])
      /\ UNCHANGED <<redis, consumers, cache, refresh, sweep, database, tries, refused, disturbed>>

\* Not the code: a failed delivery acknowledged like a successful one.
MarkAcked(i, s) ==
  LET l == loop[i][s]
  IN  /\ l.pc = "mark"
      /\ logs' = [logs EXCEPT ![l.msg] = @ \cup {IF l.data = "active" THEN "SUCCESS" ELSE "FAILED"}]
      /\ Put(i, s, Acknowledge([l EXCEPT !.data = "gone"]))
      /\ UNCHANGED <<redis, consumers, cache, refresh, sweep, status, signal, changes, changed,
                     history, disturbed>>

\* markSuccess and markFailed; a failed dispatch leaves the message pending.
Mark(i, s) ==
  LET l       == loop[i][s]
      success == l.data = "active"
  IN  /\ l.pc = "mark"
      /\ logs' = [logs EXCEPT ![l.msg] = @ \cup {IF success THEN "SUCCESS" ELSE "FAILED"}]
      /\ Put(i, s, IF success THEN Acknowledge([l EXCEPT !.data = "gone"]) ELSE MessageDone(l))
      /\ UNCHANGED <<redis, consumers, cache, refresh, sweep, status, signal, changes, changed,
                     history, disturbed>>

\* The admin API or the database rejects: the exception ends dispatch(), and the
\* message stays pending.
DispatchFails(i, s) ==
  /\ loop[i][s].pc \in DispatchStep \ {"call"}
  /\ Disturb("error")
  /\ Put(i, s, MessageDone(loop[i][s]))
  /\ UNCHANGED <<redis, consumers, cache, refresh, sweep, database, history>>

-----------------------------------------------------------------------------
(* The commands of a loop                                                   *)

\* The loop after XGROUP CREATE, which ignores a group that exists.
EnsureConsumerGroup(i, s) ==
  /\ loop[i][s].pc = "group"
  /\ Put(i, s, Top(loop[i][s]))
  /\ UNCHANGED <<redis, consumers, cache, refresh, sweep, database, history, disturbed>>

Pending(i, m) ==
  [by |-> i, idle |-> 0,
   count |-> IF pel[m] = None THEN 1
             ELSE IF pel[m].count <= MaxDeliveryCount THEN pel[m].count + 1 ELSE pel[m].count]

\* Not the code: XAUTOCLAIM without a minimum idle time.
IdlersAtOnce(cursor) == {m \in Message : m >= cursor /\ pel[m] # None}

\* XAUTOCLAIM: from the cursor on, the first entries idle for long enough change
\* hands; those whose message was trimmed leave the list.
Idlers(cursor) == {m \in Message : m >= cursor /\ pel[m] # None /\ pel[m].idle >= MinIdle}
Taken(cursor)  == FirstOf(Batch, Idlers(cursor) \cap stream)
Lost(cursor)   == Idlers(cursor) \ stream

Autoclaimed(i, cursor) ==
  [m \in Message |-> IF m \in Taken(cursor) THEN Pending(i, m)
                     ELSE IF m \in Lost(cursor) THEN None
                     ELSE pel[m]]

\* Where the scan would go on: behind the last entry taken, 0 when nothing is left.
NextCursor(cursor) ==
  LET later == {m \in Message : pel[m] # None /\ m > cursor /\ \A k \in Taken(cursor) : k < m}
  IN  IF later = {} THEN 0 ELSE First(later)

Autoclaim(i, s) ==
  LET l == loop[i][s]
  IN  /\ l.pc = "autoclaim"
      /\ pel' = Autoclaimed(i, l.cursor)
      /\ Put(i, s, IF Taken(l.cursor) = {} THEN RecoveryDone(l)
                   ELSE NextClaimed([l EXCEPT !.batch = Taken(l.cursor),
                                              !.cursor = NextCursor(l.cursor)]))
      /\ UNCHANGED <<stream, appended, lastRead, letters, old, bad, consumers, cache, refresh, sweep,
                     database, history, disturbed>>

\* Not the code: the last delivery is one too early, or there is none.
DeliveryCountEarly(i, s) ==
  LET l    == loop[i][s]
      many == pel[l.msg] # None /\ pel[l.msg].count >= MaxDeliveryCount
  IN  /\ l.pc = "count"
      /\ IF many
           THEN Put(i, s, At(l, "bury")) /\ UNCHANGED <<refresh, tries, refused>>
           ELSE Process(i, s, l)
      /\ UNCHANGED <<redis, consumers, cache, sweep, database, accepted, disturbed>>
DeliveryCountUnlimited(i, s) ==
  /\ loop[i][s].pc = "count"
  /\ Process(i, s, loop[i][s])
  /\ UNCHANGED <<redis, consumers, cache, sweep, database, accepted, disturbed>>

\* XPENDING for one message; an entry that is gone, or an error, counts as 0.
\* Too many deliveries: XADD to the dead letters, which fails on a closed connection.
DeliveryCount(i, s) ==
  LET l    == loop[i][s]
      many == pel[l.msg] # None /\ pel[l.msg].count > MaxDeliveryCount
  IN  /\ l.pc = "count"
      /\ IF many
           THEN /\ Put(i, s, IF l.running THEN At(l, "bury") ELSE Off)
                /\ UNCHANGED <<refresh, tries, refused>>
           ELSE Process(i, s, l)
      /\ UNCHANGED <<redis, consumers, cache, sweep, database, accepted, disturbed>>

DeliveryCountUnknown(i, s) ==
  /\ loop[i][s].pc = "count"
  /\ Disturb("error")
  /\ Process(i, s, loop[i][s])
  /\ UNCHANGED <<redis, consumers, cache, sweep, database, accepted>>

\* moveToDlq: two commands.
Bury(i, s) ==
  LET l == loop[i][s]
  IN  /\ l.pc = "bury"
      /\ letters' = [letters EXCEPT ![l.msg] = @ + 1]
      /\ Put(i, s, IF l.running THEN At(l, "buried") ELSE Off)
      /\ UNCHANGED <<stream, appended, lastRead, pel, old, bad, consumers, cache, refresh, sweep,
                     database, history, disturbed>>

\* XACK, the end of a message's way through a loop.
Ack(i, s) ==
  LET l == loop[i][s]
  IN  /\ l.pc \in {"ack", "buried"}
      /\ pel' = [pel EXCEPT ![l.msg] = None]
      /\ Put(i, s, MessageDone(l))
      /\ UNCHANGED <<stream, appended, lastRead, letters, old, bad, consumers, cache, refresh, sweep,
                     database, history, disturbed>>

Unread == {m \in stream : m > lastRead}

\* XREADGROUP COUNT 1 '>'.
Deliverable(i, m) ==
  /\ lastRead' = m
  /\ pel' = [pel EXCEPT ![m] = [by |-> i, idle |-> 0, count |-> 1]]
  /\ UNCHANGED <<stream, appended, letters, old, bad>>

Read(i, s) ==
  LET l == loop[i][s]
  IN  /\ l.pc = "read"
      /\ IF Unread # {}
           THEN /\ Deliverable(i, First(Unread))
                /\ Process(i, s, [l EXCEPT !.msg = First(Unread)])
           ELSE \* the block times out: only now does the loop look around again
                /\ l.due \/ ~l.running
                /\ Put(i, s, Top(l))
                /\ UNCHANGED <<redis, refresh, tries, refused>>
      /\ UNCHANGED <<consumers, cache, sweep, database, accepted, disturbed>>

\* A command is rejected, though it may have been executed.  An exception ends
\* the recovery, but not the loop; a failed XACK leaves the message pending.
CommandFails(i, s) ==
  LET l == loop[i][s]
      quiet == UNCHANGED <<stream, appended, lastRead, pel, letters, old, bad>>
  IN  /\ Disturb("error")
      /\ \/ /\ l.pc = "autoclaim"
            /\ quiet \/ (pel' = Autoclaimed(i, l.cursor)
                         /\ UNCHANGED <<stream, appended, lastRead, letters, old, bad>>)
            /\ Put(i, s, RecoveryDone(l))
         \/ /\ l.pc = "read" /\ Unread # {}
            /\ Deliverable(i, First(Unread))
            /\ Put(i, s, Top(l))
         \/ /\ l.pc = "ack"
            /\ quiet \/ (pel' = [pel EXCEPT ![l.msg] = None]
                         /\ UNCHANGED <<stream, appended, lastRead, letters, old, bad>>)
            /\ Put(i, s, IF l.redo /\ l.msg \in bad THEN RecoveryDone(l) ELSE MessageDone(l))
         \/ /\ l.pc = "bury"
            /\ quiet \/ (letters' = [letters EXCEPT ![l.msg] = @ + 1]
                         /\ UNCHANGED <<stream, appended, lastRead, pel, old, bad>>)
            /\ Put(i, s, RecoveryDone(l))
         \/ /\ l.pc = "buried" /\ quiet
            /\ Put(i, s, RecoveryDone(l))
      /\ UNCHANGED <<consumers, cache, refresh, sweep, database, history>>

-----------------------------------------------------------------------------
(* Consumers                                                                *)

\* The onAppClaimed handler.  The leases let only one instance consume at a time
\* (AppClaim!OverlapOnlyWhileEnding), unless a cycle is late.
StartConsumer(i, s) ==
  /\ consumers[i] = None
  /\ loop[i][s].pc = "off"
  /\ (\E j \in Instance : consumers[j] # None) => "overlap" \in Disturbance
  /\ (\E j \in Instance : i \in sweep[j]) => "race" \in Disturbance
  /\ consumers' = [consumers EXCEPT ![i] = s]
  /\ Put(i, s, [Off EXCEPT !.pc = "group", !.running = TRUE, !.due = TRUE])
  /\ UNCHANGED <<redis, cache, refresh, sweep, database, history, disturbed>>

\* The onAppReleased handler: QUIT is queued behind the command the loop awaits.
StopConsumer(i) ==
  /\ consumers[i] # None
  /\ Disturb("stop")
  /\ loop' = [loop EXCEPT ![i][consumers[i]].running = FALSE]
  /\ consumers' = [consumers EXCEPT ![i] = None]
  /\ UNCHANGED <<redis, cache, refresh, sweep, database, history>>

\* The client gives up reconnecting, or the group cannot be created: the loop ends,
\* and the consumer stays in the map.
Disconnect(i, s) ==
  /\ loop[i][s].pc \in RedisStep
  /\ Disturb("disconnect")
  /\ Put(i, s, Off)
  /\ UNCHANGED <<redis, consumers, cache, refresh, sweep, database, history>>

\* The process dies (or shuts down, which does not wait for a dispatch).
Crash(i) ==
  /\ \E s \in Slot : loop[i][s] # Off
  /\ Disturb("crash")
  /\ loop' = [loop EXCEPT ![i] = [s \in Slot |-> Off]]
  /\ consumers' = [consumers EXCEPT ![i] = None]
  /\ cache' = [cache EXCEPT ![i] = None]
  /\ refresh' = [refresh EXCEPT ![i] = "no"]
  /\ signal' = [signal EXCEPT ![i] = FALSE]
  /\ sweep' = [sweep EXCEPT ![i] = {}]
  /\ UNCHANGED <<redis, status, logs, changes, changed, history>>

-----------------------------------------------------------------------------
(* Stream maintenance, on the timer of an instance that has claimed the app  *)

\* XTRIM MINID: the oldest of the entries beyond the retention, maybe not all ("~").
Trim(i) ==
  /\ consumers[i] # None
  /\ \E n \in old \cap stream : stream' = {m \in stream : m > n}
  /\ UNCHANGED <<appended, lastRead, pel, letters, old, bad, instance, database, history, disturbed>>

\* XLEN, then XTRIM MAXLEN.
EmergencyTrim(i) ==
  /\ consumers[i] # None
  /\ Cardinality(stream) > MaxLen
  /\ stream' = {m \in stream : Cardinality({k \in stream : k > m}) < MaxLen}
  /\ UNCHANGED <<appended, lastRead, pel, letters, old, bad, instance, database, history, disturbed>>

\* XINFO CONSUMERS: consumers without a loop may have been idle for an hour.
Inspect(i) ==
  LET idle == {j \in Instance : /\ \A s \in Slot : loop[j][s].pc = "off"
                                /\ \A m \in Message : pel[m] # None => pel[m].by # j}
  IN  /\ consumers[i] # None
      /\ sweep[i] = {} /\ idle # {}
      /\ Disturb("sweep")
      /\ sweep' = [sweep EXCEPT ![i] = idle]
      /\ UNCHANGED <<redis, consumers, loop, cache, refresh, database, history>>

\* XGROUP DELCONSUMER, with whatever the consumer has pending by then.
DeleteConsumer(i) ==
  /\ \E j \in sweep[i] :
       /\ pel' = [m \in Message |-> IF pel[m] # None /\ pel[m].by = j THEN None ELSE pel[m]]
       /\ sweep' = [sweep EXCEPT ![i] = @ \ {j}]
  /\ UNCHANGED <<stream, appended, lastRead, letters, old, bad, consumers, loop, cache, refresh,
                 database, history, disturbed>>

-----------------------------------------------------------------------------
(* The rest of the platform                                                 *)

NextId == Cardinality(appended) + 1

Add(m) ==
  /\ m \in Message
  /\ stream' = stream \cup {m}
  /\ appended' = appended \cup {m}

\* The ingestor publishes an event.
Publish ==
  /\ Add(NextId)
  /\ UNCHANGED <<lastRead, pel, letters, old, bad, instance, database, history, disturbed>>

\* Somebody else writes to the stream.
PublishMalformed ==
  /\ Disturb("malformed")
  /\ Add(NextId)
  /\ bad' = bad \cup {NextId}
  /\ UNCHANGED <<lastRead, pel, letters, old, instance, database, history>>

\* WebhookLogsService.retry: the payload of a failed log is published anew, as often
\* as it is asked for, since the log stays FAILED.
RetryLog(m) ==
  /\ "FAILED" \in logs[m]
  /\ Add(NextId)
  /\ UNCHANGED <<lastRead, pel, letters, old, bad, instance, database, history, disturbed>>

\* The subscription or its webhook is paused, resumed or deleted.
SetStatus(st) ==
  /\ changes < MaxChanges
  /\ st # status /\ status # "gone"
  /\ status' = st
  /\ changes' = changes + 1 /\ changed' = 0
  /\ UNCHANGED <<redis, instance, logs, history>>

\* The admin API publishes a refresh signal after it (SubscriptionsService) or not
\* (WebhooksService, ApplicationsService).
Signal(st) ==
  /\ SetStatus(st)
  /\ signal' = [i \in Instance |-> TRUE]
  /\ UNCHANGED disturbed

ChangeSilently(st) ==
  /\ SetStatus(st)
  /\ Disturb("deaf")
  /\ UNCHANGED signal

\* RedisSubscriberService hands the signal on: every entry becomes stale.
InvalidateCache(i) ==
  /\ signal[i]
  /\ signal' = [signal EXCEPT ![i] = FALSE]
  /\ cache' = IF cache[i] = None THEN cache ELSE [cache EXCEPT ![i].stale = TRUE]
  /\ UNCHANGED <<redis, consumers, loop, refresh, sweep, status, logs, changes, changed, history,
                 disturbed>>

\* A day passes over the messages up to n.
GrowOld(n) ==
  /\ n \in appended \ old
  /\ Disturb("old")
  /\ old' = old \cup (1 .. n)
  /\ UNCHANGED <<stream, appended, lastRead, pel, letters, bad, instance, database, history>>

Older(n, limit) == IF n < limit THEN n + 1 ELSE n

\* A dispatch has ended when it has taken a tick, and no HTTP request of the
\* dispatcher outlasts one; unless "slow", a retry policy of its own.
Tick ==
  /\ \A i \in Instance :
       /\ refresh[i] = "no"
       /\ \A s \in Slot : /\ loop[i][s].pc \notin {"fetch", "fetched"}
                          /\ loop[i][s].spent = 0 \/ "slow" \in Disturbance
  /\ pel' = [m \in Message |-> IF pel[m] = None THEN None
                               ELSE [pel[m] EXCEPT !.idle = Older(@, MinIdle)]]
  /\ loop' = [i \in Instance |-> [s \in Slot |->
                [loop[i][s] EXCEPT !.due = loop[i][s].pc # "off",
                                   !.spent = IF loop[i][s].pc \in DispatchStep THEN 1 ELSE 0]]]
  /\ cache' = [i \in Instance |->
                IF cache[i] = None THEN None ELSE [cache[i] EXCEPT !.age = Older(@, CacheTtl + 1)]]
  /\ changed' = Older(changed, CacheTtl + 1)
  /\ UNCHANGED <<stream, appended, lastRead, letters, old, bad, consumers, refresh, sweep, status,
                 signal, logs, changes, history, disturbed>>

-----------------------------------------------------------------------------
(* The specification                                                        *)

LoopStep(i, s) ==
  \/ EnsureConsumerGroup(i, s)
  \/ Autoclaim(i, s) \/ DeliveryCount(i, s) \/ Bury(i, s) \/ Ack(i, s) \/ Read(i, s)
  \/ Fetch(i, s) \/ Fetched(i, s) \/ CreateLog(i, s) \/ Call(i, s) \/ Mark(i, s)

InstanceStep(i) == RefreshRead(i) \/ Refreshed(i) \/ InvalidateCache(i) \/ DeleteConsumer(i)

Started == \E i \in Instance, s \in Slot : StartConsumer(i, s)

Fault ==
  \/ \E i \in Instance, s \in Slot :
       CommandFails(i, s) \/ DeliveryCountUnknown(i, s) \/ DispatchFails(i, s) \/ Disconnect(i, s)
  \/ \E i \in Instance : StopConsumer(i) \/ Crash(i) \/ RefreshFails(i)
  \/ \E m \in Message : GrowOld(m)

Maintenance == \E i \in Instance : Trim(i) \/ EmergencyTrim(i) \/ Inspect(i)

Platform ==
  \/ Publish \/ PublishMalformed
  \/ \E m \in Message : RetryLog(m)
  \/ \E st \in Status : Signal(st) \/ ChangeSilently(st)

Next ==
  \/ \E i \in Instance, s \in Slot : LoopStep(i, s)
  \/ \E i \in Instance : InstanceStep(i)
  \/ Started \/ Fault \/ Maintenance \/ Platform \/ Tick

Spec == Init /\ [][Next]_vars

\* Node runs what is ready, Redis, the database and the admin API answer, time
\* passes, and the application is claimed again whenever nobody has it
\* (AppClaim!ApplicationsAreHeld).  Nothing bad has to happen.
FairSpec ==
  /\ Spec
  /\ \A i \in Instance, s \in Slot : WF_vars(LoopStep(i, s))
  /\ \A i \in Instance : WF_vars(InstanceStep(i))
  /\ WF_vars(Started)
  /\ WF_vars(Tick)

-----------------------------------------------------------------------------
(* Properties                                                               *)

PelEntry   == [by : Instance, idle : 0 .. MinIdle, count : 1 .. MaxDeliveryCount + 1]
CacheEntry == [data : Status \ {"gone"}, age : 0 .. CacheTtl + 1, stale : BOOLEAN]

LoopRecord ==
  [pc : RedisStep \cup DispatchStep \cup {"off"}, running : BOOLEAN, due : BOOLEAN,
   msg : 0 .. MaxMessage, redo : BOOLEAN, batch : SUBSET Message, cursor : 0 .. MaxMessage,
   handled : Nat, attempt : 0 .. MaxRetries + 1, data : Status, spent : {0, 1}]

\* Types, and what the parts of the group owe each other: what was never read has
\* no pending entry, a loop in the map of consumers is running unless its
\* connection broke, and what a recovery has yet to look at is behind what it
\* looks at.
TypeOK ==
  /\ stream \subseteq appended /\ appended \subseteq Message
  /\ old \subseteq appended /\ bad \subseteq appended
  /\ lastRead \in 0 .. MaxMessage
  /\ pel \in [Message -> PelEntry \cup {None}]
  /\ \A m \in Message : pel[m] # None => m <= lastRead
  /\ letters \in [Message -> Nat]
  /\ consumers \in [Instance -> Slot \cup {None}]
  /\ loop \in [Instance -> [Slot -> LoopRecord]]
  /\ \A i \in Instance, s \in Slot :
       LET l == loop[i][s]
       IN  /\ l.running => consumers[i] = s
           /\ \A m \in l.batch : l.msg < m
           /\ l.handled <= MaxRecovery
  /\ cache \in [Instance -> CacheEntry \cup {None}]
  /\ refresh \in [Instance -> Status \cup {"no", "asked"}]
  /\ sweep \in [Instance -> SUBSET Instance]
  /\ status \in Status /\ signal \in [Instance -> BOOLEAN]
  /\ logs \in [Message -> SUBSET {"SUCCESS", "FAILED"}]
  /\ disturbed \in 0 .. MaxDisturbances /\ changes \in 0 .. MaxChanges
  /\ changed \in 0 .. CacheTtl + 1
  /\ tries \in [Message -> 0 .. MaxDeliveryCount]
  /\ accepted \subseteq appended /\ refused \subseteq appended

\* Messages no loop will be given any more: read or trimmed, and not pending.
Settled == {m \in appended : pel[m] = None /\ (m <= lastRead \/ m \notin stream)}

Dead == {m \in Message : letters[m] > 0}

\* Beyond the retention, or beyond the cap of the stream.
Expired == old \cup {m \in appended : Cardinality({k \in appended : k > m}) >= MaxLen}

\* The dispatcher implements Delivery: a message leaves the pending list (or the
\* stream unread) only when the endpoint accepted it, there was nobody to
\* deliver it to, it is among the dead letters, or it was too old, whatever
\* crashes, handovers and rejected commands come in between.
Promise == INSTANCE Delivery WITH dead <- Dead, expired <- Expired, settled <- Settled
DeliverySpec == Promise!Spec

\* A message goes to the dead letters only after it was dispatched as often as
\* maxDeliveryCount says: a delivery that is counted but never dispatched (a
\* batch that was claimed and dropped) takes a stop, a crash or an error each.  It
\* takes none where maxRecoveryPerCycle ends a recovery inside a batch.
DeadLettersWereTried ==
  \A m \in Dead : tries[m] + disturbed >= MaxDeliveryCount

\* The log tells of every delivery that was completed: a message let go because the
\* endpoint accepted it has a row that says so, committed before the XACK.
DeliveredIsLogged ==
  \A m \in Settled \ (refused \cup Dead \cup Expired) : "SUCCESS" \in logs[m]

Dispatching(i, s, m) == loop[i][s].msg = m /\ loop[i][s].pc \in DispatchStep

\* XAUTOCLAIM does not overtake the first dispatch of a message: two loops that
\* dispatch one message at once have both claimed it in a recovery (where
\* messages that wait in a batch grow idle behind the others).
FirstDispatchAlone ==
  \A i, j \in Instance, s, t \in Slot, m \in Message :
    (Dispatching(i, s, m) /\ Dispatching(j, t, m) /\ <<i, s>> # <<j, t>>)
      => loop[i][s].redo /\ loop[j][t].redo

\* What is used without asking again is right, or was until CacheTtl ago, even when
\* the signal is lost or its invalidation is undone by an answer that is older.
StaleUseIsBounded ==
  \A i \in Instance :
    (cache[i] # None /\ IsFresh(cache[i]) /\ cache[i].data # status) => changed <= CacheTtl

\* No message is retried or left pending for ever.
MessagesSettle == \A m \in Message : m \in appended ~> m \in Settled
=============================================================================
