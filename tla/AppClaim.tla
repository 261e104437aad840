------------------------------- MODULE AppClaim -------------------------------
(***************************************************************************)
(* AppClaimService: how the instances of the ingestor (and, with the same  *)
(* code, of the dispatcher) share the applications out through Redis       *)
(* leases, together with the admin API's rebalance, which deletes claim    *)
(* keys from outside.                                                      *)
(*                                                                         *)
(* An instance is one Node process, so its code runs undisturbed between   *)
(* two awaits, and several activities are interleaved at the awaits: the   *)
(* cycle in start(), the cycles the interval timer starts (a slow one      *)
(* overlaps the next), the rebalance a cycle or a join message starts, and *)
(* stop().  Each is a task whose pc names what it awaits: a Redis command  *)
(* it has issued, or the handlers it called.  A step of a task executes    *)
(* that command and runs the code up to the next await.  Only a release is *)
(* two steps, since a key that is gone can be taken before the answer that *)
(* it is gone arrives.                                                     *)
(*                                                                         *)
(* One tick of the clock is one claim interval.                            *)
(***************************************************************************)
EXTENDS Integers, FiniteSets

CONSTANTS
  Instance,        \* the instances of the service
  App,             \* the applications
  Slot,            \* how many of an instance's timer cycles may overlap
  None,            \* no instance, or no application
  LeaseTtl,        \* a lease in claim intervals
  StartsAtOnce,    \* whether the onClaimed handler starts the work before it
                   \* first awaits (the dispatcher's) or last (the ingestor's)
  Disturbance,     \* which faults and operator actions may happen
  MaxDisturbances  \* bounds how many of them happen

ASSUME AppClaimAssumption ==
  /\ IsFiniteSet(Instance) /\ IsFiniteSet(App)
  /\ None \notin Instance /\ None \notin App
  /\ Slot \cap {"start", "rebalance", "stop"} = {}
  /\ LeaseTtl \in Nat \ {0}
  /\ StartsAtOnce \in BOOLEAN
  /\ Disturbance \subseteq {"stop", "crash", "lose", "error", "disconnect", "apps", "admin", "late"}
  /\ MaxDisturbances \in Nat

VARIABLES
  \* Redis
  holder,      \* holder[a]: the value of the claim key of a, None without key
  ttl,         \* ttl[a]: intervals until the claim key of a expires
  heartbeat,   \* heartbeat[i]: intervals until the instance key of i expires
  inbox,       \* inbox[i]: the instances whose join message i has yet to see
  \* each process
  up,          \* whether the process is running
  linked,      \* FALSE once the Redis client has given up reconnecting
  known,       \* knownAppIds
  claimed,     \* claimedAppIds
  processing,  \* applications with a running consumer, or with subscriptions in a poller
  lastCount,   \* lastKnownInstanceCount
  timer,       \* "off", "due" in this interval, or "waiting" for the next
  task,        \* task[i][t]: what task t of i awaits
  \* the admin API and the environment
  revoking,    \* claim keys a running admin rebalance has yet to delete
  disturbed    \* how many disturbances have happened

redis   == <<holder, ttl, heartbeat>>
keys    == <<holder, ttl>>
process == <<up, linked, known, claimed, processing, lastCount, timer, task>>
env     == <<revoking, disturbed>>
vars    == <<redis, inbox, process, env>>

Cycle == Slot \cup {"start"}
Task  == Cycle \cup {"rebalance", "stop"}

\* A pending step: pc on app a, with the applications in todo still to visit
\* (claims, a rebalance) or already visited (renewals, stop).
Await(pc, a, todo, quota) == [pc |-> pc, app |-> a, todo |-> todo, quota |-> quota]

Idle   == Await("idle", None, {}, 0)
At(pc) == Await(pc, None, {}, 0)

AppStep   == {"claim", "onClaimed", "renew", "release", "deleted", "onReleased"}
OtherStep == {"idle", "heartbeat", "check", "rebalancing", "target", "count", "publish", "unregister"}

TaskRecord ==
  [pc : AppStep, app : App, todo : SUBSET App, quota : Nat] \cup
  [pc : {"ttls"}, app : {None}, todo : SUBSET App, quota : Nat] \cup
  [pc : OtherStep, app : {None}, todo : {{}}, quota : {0}]

Init ==
  /\ holder = [a \in App |-> None]
  /\ ttl = [a \in App |-> 0]
  /\ heartbeat = [i \in Instance |-> 0]
  /\ inbox = [i \in Instance |-> {}]
  /\ up = [i \in Instance |-> FALSE]
  /\ linked = [i \in Instance |-> TRUE]
  /\ known = [i \in Instance |-> App]
  /\ claimed = [i \in Instance |-> {}]
  /\ processing = [i \in Instance |-> {}]
  /\ lastCount = [i \in Instance |-> 0]
  /\ timer = [i \in Instance |-> "off"]
  /\ task = [i \in Instance |-> [t \in Task |-> Idle]]
  /\ revoking = {}
  /\ disturbed = 0

-----------------------------------------------------------------------------
(* Arithmetic and the loops of claimCycle, selfRebalance and stop            *)

CeilDiv(m, n) == (m + n - 1) \div n

\* countInstances: the instance keys that exist
Registered == Cardinality({j \in Instance : heartbeat[j] > 0})

\* Not the code: an instance that counts itself twice.
ShareOfOneMore(apps, count) == CeilDiv(Cardinality(apps), count + 1)

\* The share getClaimTarget and selfRebalance give an instance.
Share(apps, count) ==
  IF count <= 1 THEN Cardinality(apps) ELSE CeilDiv(Cardinality(apps), count)

\* claimCycle's renewal loop: the next claimed application not visited yet is
\* renewed, or released when it is no longer known.
RenewLoop(visited, mine, apps) ==
  IF mine \subseteq visited
    THEN {Idle}
    ELSE {Await(IF a \in apps THEN "renew" ELSE "release", a, visited, 0) :
            a \in mine \ visited}

\* claimCycle's claim loop: the next application that is not claimed, as long
\* as the target is not reached; then the renewals.
ClaimLoop(todo, quota, mine, apps) ==
  IF todo \subseteq mine \/ Cardinality(mine) >= quota
    THEN RenewLoop({}, mine, apps)
    ELSE {Await("claim", a, todo \ {a}, quota) : a \in todo \ mine}

\* selfRebalance's loop over the claims it picked.
ExcessLoop(todo) ==
  IF todo = {} THEN {Idle} ELSE {Await("release", a, todo \ {a}, 0) : a \in todo}

\* stop()'s loop over the claims, then DEL of the instance key.
StopLoop(visited, mine) ==
  IF mine \subseteq visited
    THEN {At("unregister")}
    ELSE {Await("release", a, visited, 0) : a \in mine \ visited}

\* Where a task that renewed or released goes on.  The loops run over the live
\* set of claims: what leaves it and comes back is visited again.
Onward(i, t, visited) ==
  IF t = "rebalance"
    THEN ExcessLoop(task[i][t].todo)
    ELSE IF t = "stop" THEN StopLoop(visited, claimed'[i])
                       ELSE RenewLoop(visited, claimed'[i], known[i])

\* Task t of i goes on to await next.  The end of a rebalance resumes the cycle
\* that called it; the end of the first cycle lets start() go on.
Proceed(i, t, next) ==
  task' = [task EXCEPT ![i] = [u \in Task |->
    IF u = t
      THEN IF t = "start" /\ next = Idle THEN At("publish") ELSE next
      ELSE IF t = "rebalance" /\ next = Idle /\ task[i][u].pc = "rebalancing"
        THEN At("target") ELSE task[i][u]]]

\* Something happens that nobody is bound to do; its number is bounded.
Disturb(kind) ==
  /\ kind \in Disturbance /\ disturbed < MaxDisturbances
  /\ disturbed' = disturbed + 1

\* Task t of i awaits pc, and its connection to Redis works.
Pending(i, t, pc) == linked[i] /\ task[i][t].pc = pc

-----------------------------------------------------------------------------
(* start() and the claim cycle                                               *)

\* start(): register, subscribe to join messages, and begin the first cycle.
\* setKnownApps has been called with the list the admin API returned.
Start(i) ==
  /\ ~up[i]
  /\ up' = [up EXCEPT ![i] = TRUE]
  /\ heartbeat' = [heartbeat EXCEPT ![i] = LeaseTtl]
  /\ known' = [known EXCEPT ![i] = App]
  /\ task' = [task EXCEPT ![i]["start"] = At("heartbeat")]
  /\ UNCHANGED <<keys, inbox, linked, claimed, processing, lastCount, timer, env>>

\* The end of start(): publish the join message and set the timer, even if
\* stop() has been called meanwhile.
Publish(i) ==
  /\ Pending(i, "start", "publish")
  /\ inbox' = [j \in Instance |-> IF up[j] /\ j # i THEN inbox[j] \cup {i} ELSE inbox[j]]
  /\ timer' = [timer EXCEPT ![i] = "waiting"]
  /\ task' = [task EXCEPT ![i]["start"] = Idle]
  /\ UNCHANGED <<redis, up, linked, known, claimed, processing, lastCount, env>>

\* The interval timer starts a cycle, whether or not an earlier one has ended.
TimerFires(i) ==
  /\ timer[i] = "due"
  /\ \E s \in Slot : task[i][s] = Idle
  /\ timer' = [timer EXCEPT ![i] = "waiting"]
  /\ LET s == CHOOSE s \in Slot : task[i][s] = Idle IN
       task' = [task EXCEPT ![i][s] = At("heartbeat")]
  /\ UNCHANGED <<redis, inbox, up, linked, known, claimed, processing, lastCount, env>>

\* renewInstanceHeartbeat
Heartbeat(i, s) ==
  /\ Pending(i, s, "heartbeat")
  /\ heartbeat' = [heartbeat EXCEPT ![i] = LeaseTtl]
  /\ Proceed(i, s, At("check"))
  /\ UNCHANGED <<keys, inbox, up, linked, known, claimed, processing, lastCount, timer, env>>

\* selfRebalanceIfNeeded: only a larger count than the last one starts a
\* rebalance, and selfRebalance returns at once if one is running.
Check(i, s) ==
  /\ Pending(i, s, "check")
  /\ lastCount' = [lastCount EXCEPT ![i] = Registered]
  /\ IF Registered > lastCount[i] /\ task[i]["rebalance"] = Idle
       THEN task' = [task EXCEPT ![i][s] = At("rebalancing"), ![i]["rebalance"] = At("count")]
       ELSE Proceed(i, s, At("target"))
  /\ UNCHANGED <<redis, inbox, up, linked, known, claimed, processing, timer, env>>

\* getClaimTarget, which asks Redis only when it knows of applications, and on
\* to the claim loop.
Target(i, s) ==
  /\ Pending(i, s, "target") \/ (task[i][s].pc = "target" /\ known[i] = {})
  /\ lastCount' = [lastCount EXCEPT ![i] =
                     IF known[i] # {} /\ Registered > 1 THEN Registered ELSE @]
  /\ \E next \in ClaimLoop(known[i], Share(known[i], Registered), claimed[i], known[i]) :
       Proceed(i, s, next)
  /\ UNCHANGED <<redis, inbox, up, linked, known, claimed, processing, timer, env>>

\* Not the code: SET without NX.
ClaimRegardless(i, s) ==
  LET me == task[i][s]  a == me.app IN
  /\ Pending(i, s, "claim")
  /\ holder' = [holder EXCEPT ![a] = i]
  /\ ttl' = [ttl EXCEPT ![a] = LeaseTtl]
  /\ claimed' = [claimed EXCEPT ![i] = @ \cup {a}]
  /\ processing' = [processing EXCEPT ![i] = IF StartsAtOnce THEN @ \cup {a} ELSE @]
  /\ Proceed(i, s, [me EXCEPT !.pc = "onClaimed"])
  /\ UNCHANGED <<heartbeat, inbox, up, linked, known, lastCount, timer, env>>

\* SET NX EX: on success the application is ours and the handlers are called.
Claim(i, s) ==
  LET me == task[i][s]  a == me.app IN
  /\ Pending(i, s, "claim")
  /\ \/ /\ holder[a] = None
        /\ holder' = [holder EXCEPT ![a] = i]
        /\ ttl' = [ttl EXCEPT ![a] = LeaseTtl]
        /\ claimed' = [claimed EXCEPT ![i] = @ \cup {a}]
        /\ processing' = [processing EXCEPT ![i] = IF StartsAtOnce THEN @ \cup {a} ELSE @]
        /\ Proceed(i, s, [me EXCEPT !.pc = "onClaimed"])
     \/ /\ holder[a] # None
        /\ \E next \in ClaimLoop(me.todo, me.quota, claimed[i], known[i]) :
             Proceed(i, s, next)
        /\ UNCHANGED <<keys, claimed, processing>>
  /\ UNCHANGED <<heartbeat, inbox, up, linked, known, lastCount, timer, env>>

\* Not the code: the consumer is started by the end of the handler in any case.
OnClaimedStartsLate(i, s) ==
  LET me == task[i][s] IN
  /\ me.pc = "onClaimed"
  /\ processing' = [processing EXCEPT ![i] = @ \cup {me.app}]
  /\ \E next \in ClaimLoop(me.todo, me.quota, claimed[i], known[i]) : Proceed(i, s, next)
  /\ UNCHANGED <<redis, inbox, up, linked, known, claimed, lastCount, timer, env>>

\* The onClaimed handlers end, however long they took.  The ingestor's has read
\* the progress and caught up, and now adds the subscriptions to the poller.
OnClaimed(i, s) ==
  LET me == task[i][s] IN
  /\ me.pc = "onClaimed"
  /\ processing' = [processing EXCEPT ![i] = IF StartsAtOnce THEN @ ELSE @ \cup {me.app}]
  /\ \E next \in ClaimLoop(me.todo, me.quota, claimed[i], known[i]) : Proceed(i, s, next)
  /\ UNCHANGED <<redis, inbox, up, linked, known, claimed, lastCount, timer, env>>

\* The claim is forgotten and the onReleased handlers are called: they first
\* stop the consumer, or take the subscriptions out of the poller.
Detach(i, a) ==
  /\ claimed' = [claimed EXCEPT ![i] = @ \ {a}]
  /\ processing' = [processing EXCEPT ![i] = @ \ {a}]

\* Not the code: RENEW_SCRIPT without EXPIRE.
RenewWithoutExpire(i, s) ==
  LET me == task[i][s] IN
  /\ Pending(i, s, "renew")
  /\ UNCHANGED <<redis, inbox, up, linked, known, lastCount, timer, env>>
  /\ IF holder[me.app] = i
       THEN UNCHANGED <<claimed, processing>> ELSE Detach(i, me.app)
  /\ IF holder[me.app] = i
       THEN \E next \in Onward(i, s, me.todo \cup {me.app}) : Proceed(i, s, next)
       ELSE Proceed(i, s, [me EXCEPT !.pc = "onReleased"])

\* Not the code: the script's answer is ignored.
RenewUnheeded(i, s) ==
  LET me == task[i][s]  a == me.app IN
  /\ Pending(i, s, "renew")
  /\ ttl' = [ttl EXCEPT ![a] = IF holder[a] = i THEN LeaseTtl ELSE @]
  /\ UNCHANGED <<holder, heartbeat, inbox, up, linked, known, claimed, processing, lastCount, timer, env>>
  /\ \E next \in Onward(i, s, me.todo \cup {a}) : Proceed(i, s, next)

\* RENEW_SCRIPT: extend the lease if it is still ours, else drop the claim.
Renew(i, s) ==
  LET me == task[i][s]  a == me.app IN
  /\ Pending(i, s, "renew")
  /\ \/ /\ holder[a] = i
        /\ ttl' = [ttl EXCEPT ![a] = LeaseTtl]
        /\ UNCHANGED <<claimed, processing>>
        /\ \E next \in Onward(i, s, me.todo \cup {a}) : Proceed(i, s, next)
     \/ /\ holder[a] # i
        /\ Detach(i, a)
        /\ Proceed(i, s, [me EXCEPT !.pc = "onReleased"])
        /\ UNCHANGED ttl
  /\ UNCHANGED <<holder, heartbeat, inbox, up, linked, known, lastCount, timer, env>>

-----------------------------------------------------------------------------
(* releaseClaim, selfRebalance and stop                                      *)

\* Not the code: DEL without looking at the value.
DeleteAnyway(i, a) ==
  /\ holder' = [holder EXCEPT ![a] = None]
  /\ ttl' = [ttl EXCEPT ![a] = 0]

\* RELEASE_SCRIPT: delete the claim key only if its value is i.
DeleteIfOwner(i, a) ==
  /\ holder' = [holder EXCEPT ![a] = IF @ = i THEN None ELSE @]
  /\ ttl' = [ttl EXCEPT ![a] = IF holder[a] = i THEN 0 ELSE @]

\* releaseClaim, asked for by a cycle, a rebalance or stop(): the key goes first.
Release(i, t) ==
  LET me == task[i][t] IN
  /\ Pending(i, t, "release")
  /\ DeleteIfOwner(i, me.app)
  /\ Proceed(i, t, [me EXCEPT !.pc = "deleted"])
  /\ UNCHANGED <<heartbeat, inbox, up, linked, known, claimed, processing, lastCount, timer, env>>

\* The answer arrives, whether or not the key was still ours.
Released(i, t) ==
  LET me == task[i][t] IN
  /\ me.pc = "deleted"
  /\ Detach(i, me.app)
  /\ Proceed(i, t, [me EXCEPT !.pc = "onReleased"])
  /\ UNCHANGED <<redis, inbox, up, linked, known, lastCount, timer, env>>

\* The onReleased handlers end.
OnReleased(i, t) ==
  LET me == task[i][t] IN
  /\ me.pc = "onReleased"
  /\ UNCHANGED <<redis, inbox, up, linked, known, claimed, processing, lastCount, timer, env>>
  /\ \E next \in Onward(i, t, me.todo) : Proceed(i, t, next)

\* A join message arrives; selfRebalance returns at once if one is running.
JoinEvent(i) ==
  /\ up[i]
  /\ \E j \in inbox[i] : inbox' = [inbox EXCEPT ![i] = @ \ {j}]
  /\ task' = [task EXCEPT ![i]["rebalance"] = IF @ = Idle THEN At("count") ELSE @]
  /\ UNCHANGED <<redis, up, linked, known, claimed, processing, lastCount, timer, env>>

\* Not the code: no early return when there is no excess.
CountExcessAlways(i) ==
  /\ Pending(i, "rebalance", "count")
  /\ lastCount' = [lastCount EXCEPT ![i] = Registered]
  /\ Proceed(i, "rebalance", Await("ttls", None, claimed[i],
                                   Cardinality(claimed[i]) - Share(known[i], Registered)))
  /\ UNCHANGED <<redis, inbox, up, linked, known, claimed, processing, timer, env>>

\* selfRebalance: how many claims are above the share?
CountExcess(i) ==
  LET excess == Cardinality(claimed[i]) - Share(known[i], Registered) IN
  /\ Pending(i, "rebalance", "count")
  /\ lastCount' = [lastCount EXCEPT ![i] = Registered]
  /\ Proceed(i, "rebalance",
       IF Registered <= 1 \/ known[i] = {} \/ excess <= 0
         THEN Idle ELSE Await("ttls", None, claimed[i], excess))
  /\ UNCHANGED <<redis, inbox, up, linked, known, claimed, processing, timer, env>>

\* The excess claims whose keys expire first are released, whoever holds the
\* keys by now.
PickExcess(i) ==
  LET me == task[i]["rebalance"] IN
  /\ Pending(i, "rebalance", "ttls")
  /\ \E S \in SUBSET me.todo :
       /\ Cardinality(S) = me.quota
       /\ \A a \in S, b \in me.todo \ S : ttl[a] <= ttl[b]
       /\ \E next \in ExcessLoop(S) : Proceed(i, "rebalance", next)
  /\ UNCHANGED <<redis, inbox, up, linked, known, claimed, processing, lastCount, timer, env>>

\* stop(): the timer is cleared, a cycle that is under way is not.
Stop(i) ==
  /\ up[i] /\ task[i]["stop"] = Idle
  /\ Disturb("stop")
  /\ timer' = [timer EXCEPT ![i] = "off"]
  /\ \E next \in StopLoop({}, claimed[i]) : task' = [task EXCEPT ![i]["stop"] = next]
  /\ UNCHANGED <<redis, inbox, up, linked, known, claimed, processing, lastCount, revoking>>

\* The process is gone and with it everything it remembered.
Exit(i) ==
  /\ up' = [up EXCEPT ![i] = FALSE]
  /\ linked' = [linked EXCEPT ![i] = TRUE]
  /\ claimed' = [claimed EXCEPT ![i] = {}]
  /\ processing' = [processing EXCEPT ![i] = {}]
  /\ lastCount' = [lastCount EXCEPT ![i] = 0]
  /\ timer' = [timer EXCEPT ![i] = "off"]
  /\ task' = [task EXCEPT ![i] = [t \in Task |-> Idle]]
  /\ inbox' = [inbox EXCEPT ![i] = {}]
  /\ UNCHANGED known

\* stop()'s last commands: DEL of the instance key, then the connections close
\* and the process exits.
Unregister(i) ==
  /\ Pending(i, "stop", "unregister")
  /\ heartbeat' = [heartbeat EXCEPT ![i] = 0]
  /\ Exit(i)
  /\ UNCHANGED <<keys, env>>

-----------------------------------------------------------------------------
(* Faults, operators, the admin API and the clock                            *)

\* A Redis command of task t is rejected, once, or always when the client has
\* given up.  A rejected SET NX or release may still have been executed.  A
\* rejected SCAN or TTL ends the cycle or the rebalance; the others are logged
\* and the code goes on.
CommandFails(i, t) ==
  LET me == task[i][t]  a == me.app IN
  /\ IF linked[i] THEN Disturb("error") ELSE UNCHANGED disturbed
  /\ UNCHANGED <<heartbeat, inbox, up, linked, known, claimed, processing, lastCount, timer, revoking>>
  /\ \/ /\ me.pc = "heartbeat"
        /\ Proceed(i, t, At("check"))
        /\ UNCHANGED keys
     \/ /\ me.pc \in {"check", "target", "count", "ttls"} /\ t # "start"
        /\ me.pc = "target" => known[i] # {}
        /\ Proceed(i, t, Idle)
        /\ UNCHANGED keys
     \/ /\ me.pc = "claim"
        /\ \E next \in ClaimLoop(me.todo, me.quota, claimed[i], known[i]) : Proceed(i, t, next)
        /\ \/ UNCHANGED keys
           \/ /\ linked[i] /\ holder[a] = None
              /\ holder' = [holder EXCEPT ![a] = i]
              /\ ttl' = [ttl EXCEPT ![a] = LeaseTtl]
     \/ /\ me.pc \in {"renew", "release"}
        /\ \E next \in Onward(i, t, me.todo \cup {a}) : Proceed(i, t, next)
        /\ (UNCHANGED keys) \/ (linked[i] /\ me.pc = "release" /\ DeleteIfOwner(i, a))

\* A rejected command in start() itself or at the end of stop() ends the process.
FatalFailure(i) ==
  /\ IF linked[i] THEN Disturb("error") ELSE UNCHANGED disturbed
  /\ \/ task[i]["start"].pc \in {"check", "publish"}
     \/ task[i]["start"].pc = "target" /\ known[i] # {}
     \/ task[i]["stop"].pc = "unregister"
  /\ Exit(i)
  /\ UNCHANGED <<redis, revoking>>

\* The process dies; its keys stay in Redis until they expire.
Crash(i) ==
  /\ up[i]
  /\ Disturb("crash")
  /\ Exit(i)
  /\ UNCHANGED <<redis, revoking>>

\* retryStrategy returns null: the client never connects again.
Disconnect(i) ==
  /\ up[i] /\ linked[i]
  /\ Disturb("disconnect")
  /\ linked' = [linked EXCEPT ![i] = FALSE]
  /\ UNCHANGED <<redis, inbox, up, known, claimed, processing, lastCount, timer, task, revoking>>

\* Pub/Sub loses a join message.
LoseJoin(i) ==
  /\ Disturb("lose")
  /\ \E j \in inbox[i] : inbox' = [inbox EXCEPT ![i] = @ \ {j}]
  /\ UNCHANGED <<redis, process, revoking>>

\* A configuration refresh replaces the list of known applications.
SetKnownApps(i) ==
  /\ up[i]
  /\ Disturb("apps")
  /\ \E S \in SUBSET App : known' = [known EXCEPT ![i] = S]
  /\ UNCHANGED <<redis, inbox, up, linked, claimed, processing, lastCount, timer, task, revoking>>

\* The admin API's rebalance reads the claim keys: the instances it sees are
\* those that hold one, and from each it picks the claims above an even share.
AdminScan ==
  LET held(i) == {a \in App : holder[a] = i}
      holders == {i \in Instance : held(i) # {}}
      target  == CeilDiv(Cardinality(App), Cardinality(holders))
  IN /\ revoking = {}
     /\ Disturb("admin")
     /\ Cardinality(holders) > 1
     /\ \E S \in SUBSET App :
          /\ S # {}
          /\ \A a \in S : holder[a] # None
          /\ \A i \in holders :
               LET kept == held(i) \ S IN
               /\ Cardinality(kept) = IF Cardinality(held(i)) > target
                                        THEN target ELSE Cardinality(held(i))
               /\ \A a \in held(i) \cap S, b \in kept : ttl[a] <= ttl[b]
          /\ revoking' = S
     /\ UNCHANGED <<redis, inbox, process>>

\* ... and deletes their keys one by one, whoever holds them by then.
AdminDelete(a) ==
  /\ a \in revoking
  /\ holder' = [holder EXCEPT ![a] = None]
  /\ ttl' = [ttl EXCEPT ![a] = 0]
  /\ revoking' = revoking \ {a}
  /\ UNCHANGED <<heartbeat, inbox, process, disturbed>>

\* Everything started in this interval has ended.
IntervalDone(i) ==
  /\ timer[i] # "due"
  /\ \A t \in Task : task[i][t] = Idle
  /\ inbox[i] = {}

Less(n) == IF n > 0 THEN n - 1 ELSE 0

\* A claim interval passes: TTLs run down, keys expire, timers are due again.
\* Unless this interval is late, its cycles and messages have been dealt with.
Tick ==
  /\ IF \A i \in Instance : IntervalDone(i)
       THEN UNCHANGED disturbed ELSE Disturb("late")
  /\ ttl' = [a \in App |-> Less(ttl[a])]
  /\ holder' = [a \in App |-> IF ttl[a] <= 1 THEN None ELSE holder[a]]
  /\ heartbeat' = [i \in Instance |-> Less(heartbeat[i])]
  /\ timer' = [i \in Instance |-> IF timer[i] = "off" THEN "off" ELSE "due"]
  /\ UNCHANGED <<inbox, up, linked, known, claimed, processing, lastCount, task, revoking>>

-----------------------------------------------------------------------------

\* One step of task t of instance i.
Work(i, t) ==
  \/ /\ t \in Cycle
     /\ \/ Heartbeat(i, t) \/ Check(i, t) \/ Target(i, t)
        \/ Claim(i, t) \/ OnClaimed(i, t) \/ Renew(i, t)
  \/ Release(i, t)
  \/ Released(i, t)
  \/ OnReleased(i, t)
  \/ t = "start" /\ Publish(i)
  \/ t = "rebalance" /\ (CountExcess(i) \/ PickExcess(i))
  \/ t = "stop" /\ Unregister(i)
  \/ CommandFails(i, t)

Next ==
  \/ \E i \in Instance :
       \/ \E t \in Task : Work(i, t)
       \/ Start(i) \/ TimerFires(i) \/ JoinEvent(i) \/ Stop(i)
       \/ FatalFailure(i) \/ Crash(i) \/ Disconnect(i) \/ LoseJoin(i) \/ SetKnownApps(i)
  \/ AdminScan
  \/ \E a \in App : AdminDelete(a)
  \/ Tick

Spec == Init /\ [][Next]_vars

\* Node runs every continuation that is due, Redis answers or rejects every
\* command, handlers return, timers fire, messages not lost arrive and time
\* passes.  Nobody has to start or stop an instance, and no fault has to happen.
Fairness ==
  /\ \A i \in Instance :
       /\ \A t \in Task : WF_vars(Work(i, t))
       /\ WF_vars(TimerFires(i))
       /\ WF_vars(JoinEvent(i))
       /\ WF_vars(~linked[i] /\ FatalFailure(i))
  /\ \A a \in App : WF_vars(AdminDelete(a))
  /\ WF_vars(Tick)

FairSpec == Spec /\ Fairness

-----------------------------------------------------------------------------
(* Properties                                                                *)

\* Type invariant.  A claim key has a TTL exactly while it exists.
TypeOK ==
  /\ holder \in [App -> Instance \cup {None}]
  /\ ttl \in [App -> 0..LeaseTtl]
  /\ heartbeat \in [Instance -> 0..LeaseTtl]
  /\ \A a \in App : holder[a] = None <=> ttl[a] = 0
  /\ inbox \in [Instance -> SUBSET Instance]
  /\ up \in [Instance -> BOOLEAN]
  /\ linked \in [Instance -> BOOLEAN]
  /\ known \in [Instance -> SUBSET App]
  /\ claimed \in [Instance -> SUBSET App]
  /\ processing \in [Instance -> SUBSET App]
  /\ lastCount \in [Instance -> Nat]
  /\ timer \in [Instance -> {"off", "due", "waiting"}]
  /\ task \in [Instance -> [Task -> TaskRecord]]
  /\ revoking \in SUBSET App
  /\ disturbed \in Nat

\* A release of a by i has been executed, and its answer or its handlers are
\* still to come.
Ending(i, a) ==
  \E t \in Task : task[i][t].pc \in {"deleted", "onReleased"} /\ task[i][t].app = a

\* When every interval's cycles end within it, nothing deletes a key from
\* outside and no command is rejected, a claim an instance believes in is backed
\* by its key, unless its release is being answered: neither overlapping tasks
\* nor stops, crashes and changes to the list of applications make it stale.
ClaimsAreBacked ==
  \A i \in Instance : \A a \in claimed[i] : holder[a] = i \/ Ending(i, a)

\* Under the same conditions two instances process one application only while
\* one of them is being told that it has released it.
OverlapOnlyWhileEnding ==
  \A i, j \in Instance : i # j =>
    \A a \in processing[i] \cap processing[j] : Ending(i, a) \/ Ending(j, a)

\* The commands on claim keys that the tasks of i have issued.
Asking(i) ==
  {<<task[i][t].pc, task[i][t].app>> :
     t \in {u \in Task : task[i][u].pc \in {"claim", "renew", "release"}}}

\* Redis leases as an abstract service, whatever goes wrong: see Lease.  Commands
\* may be rejected after they were executed, cycles overlap and outlast leases,
\* the admin API deletes keys: nobody takes, renews or deletes a key that another
\* instance holds, and only a won key makes an instance believe in a claim.
Leases == INSTANCE Lease WITH
            owner <- holder, left <- ttl, condemned <- revoking, believers <- claimed,
            asking <- [i \in Instance |-> Asking(i)]
LeaseSpec == Leases!Spec

\* README, Horizontal Scaling, item 3: "Each application is processed by exactly
\* one instance at a time"; handleAppReleased is there to remove the subscriptions
\* of an application that is no longer claimed.  So an instance processes only
\* what it believes it has claimed.
ProcessesOnlyClaims ==
  \A i \in Instance : processing[i] \subseteq claimed[i]

StaleIsNoticed(i, a) ==
  (a \in claimed[i] /\ holder[a] # i) ~> (a \notin claimed[i] \/ holder[a] = i)

\* An instance whose key is gone finds out and drops the claim.
StaleClaimNoticed ==
  \A i \in Instance, a \in App : StaleIsNoticed(i, a)

HeldWhileUp(i, a) ==
  <>[](up[i] /\ task[i]["stop"] = Idle)
    => []<>(\E j \in Instance : a \in claimed[j] /\ holder[a] = j)

\* README, Horizontal Scaling, item 4.  As long as one instance stays up, every
\* application is held again and again: after crashes, stops, lost answers and
\* revoked keys its lease runs out and somebody with room for it takes it.
ApplicationsAreHeld ==
  \A i \in Instance, a \in App : HeldWhileUp(i, a)

\* claimCycle, line 186: "Self-rebalance check (fallback in case Pub/Sub message
\* was missed)".  Once the set of instances no longer changes, everyone gets down
\* to its share.
SharesBecomeEven ==
  \A i \in Instance :
    <>[](\A j \in Instance : up[j] /\ known[j] = App)
      => <>[](Cardinality(claimed[i]) <= CeilDiv(Cardinality(App), Cardinality(Instance)))
=============================================================================
