---------------------------- MODULE AppClaimProofs ----------------------------
(***************************************************************************)
(* Theorems about AppClaim, for any instances, applications, lease length  *)
(* and number of overlapping cycles.                                       *)
(***************************************************************************)
EXTENDS AppClaim, FiniteSetTheorems, TLAPS

-----------------------------------------------------------------------------
(* The loops only produce task records.                                      *)

LEMMA CardinalityNat ==
  ASSUME NEW S \in SUBSET App
  PROVE  Cardinality(S) \in Nat
BY AppClaimAssumption, FS_Subset, FS_CardinalityType

LEMMA RegisteredNat == Registered \in Nat
<1>1. {j \in Instance : heartbeat[j] > 0} \subseteq Instance
  OBVIOUS
<1>2. QED
  BY <1>1, AppClaimAssumption, FS_Subset, FS_CardinalityType DEF Registered

LEMMA CeilDivNat ==
  ASSUME NEW m \in Nat, NEW n \in Nat, n > 0
  PROVE  CeilDiv(m, n) \in Nat
BY DEF CeilDiv

LEMMA ShareNat ==
  ASSUME NEW apps \in SUBSET App, NEW count \in Nat
  PROVE  Share(apps, count) \in Nat
BY CardinalityNat, CeilDivNat DEF Share

LEMMA RenewLoopType ==
  ASSUME NEW visited \in SUBSET App, NEW mine \in SUBSET App, NEW apps
  PROVE  RenewLoop(visited, mine, apps) \subseteq TaskRecord
BY DEF RenewLoop, Await, Idle, TaskRecord, AppStep, OtherStep

LEMMA ClaimLoopType ==
  ASSUME NEW todo \in SUBSET App, NEW quota \in Nat, NEW mine \in SUBSET App, NEW apps
  PROVE  ClaimLoop(todo, quota, mine, apps) \subseteq TaskRecord
<1>1. RenewLoop({}, mine, apps) \subseteq TaskRecord
  BY RenewLoopType
<1>2. {Await("claim", a, todo \ {a}, quota) : a \in todo \ mine} \subseteq TaskRecord
  BY DEF Await, TaskRecord, AppStep
<1>3. QED
  BY <1>1, <1>2 DEF ClaimLoop

LEMMA ExcessLoopType ==
  ASSUME NEW todo \in SUBSET App
  PROVE  ExcessLoop(todo) \subseteq TaskRecord
BY DEF ExcessLoop, Await, Idle, TaskRecord, AppStep, OtherStep

LEMMA StopLoopType ==
  ASSUME NEW visited \in SUBSET App, NEW mine \in SUBSET App
  PROVE  StopLoop(visited, mine) \subseteq TaskRecord
BY DEF StopLoop, At, Await, TaskRecord, AppStep, OtherStep

LEMMA TaskType ==
  ASSUME TypeOK, NEW i \in Instance, NEW t \in Task
  PROVE  /\ task[i][t] \in TaskRecord
         /\ task[i][t].todo \in SUBSET App
         /\ task[i][t].quota \in Nat
         /\ task[i][t].pc \in AppStep =>
              task[i][t].app \in App /\ task[i][t].todo \cup {task[i][t].app} \in SUBSET App
         /\ claimed[i] \in SUBSET App
         /\ known[i] \in SUBSET App
<1>1. task[i][t] \in TaskRecord
  BY DEF TypeOK
<1>2. QED
  BY <1>1 DEF TypeOK, TaskRecord, AppStep, OtherStep

LEMMA OnwardType ==
  ASSUME TypeOK, NEW i \in Instance, NEW t \in Task, claimed'[i] \in SUBSET App,
         NEW visited \in SUBSET App
  PROVE  Onward(i, t, visited) \subseteq TaskRecord
BY TaskType, ExcessLoopType, StopLoopType, RenewLoopType DEF Onward

LEMMA FixedRecords == \A pc \in OtherStep : At(pc) \in TaskRecord
BY DEF At, Await, TaskRecord, OtherStep

LEMMA IdleRecord == Idle \in TaskRecord
BY DEF Idle, Await, TaskRecord, OtherStep

LEMMA ProceedType ==
  ASSUME TypeOK, NEW i \in Instance, NEW t \in Task, NEW next \in TaskRecord,
         Proceed(i, t, next)
  PROVE  task' \in [Instance -> [Task -> TaskRecord]]
<1>1. At("target") \in TaskRecord /\ At("publish") \in TaskRecord
  BY FixedRecords DEF OtherStep
<1>2. \A u \in Task : task[i][u] \in TaskRecord
  BY TaskType
<1>3. QED
  BY <1>1, <1>2 DEF Proceed, TypeOK

\* Giving a task a new record.
LEMMA SetTaskType ==
  ASSUME TypeOK, NEW i \in Instance, NEW t \in Task, NEW r \in TaskRecord
  PROVE  [task EXCEPT ![i][t] = r] \in [Instance -> [Task -> TaskRecord]]
BY DEF TypeOK

\* The variables that tell where the keys are, and what they may be.
KeysOK(h, t) ==
  /\ h \in [App -> Instance \cup {None}]
  /\ t \in [App -> 0..LeaseTtl]
  /\ \A a \in App : h[a] = None <=> t[a] = 0

\* A key is taken, renewed or deleted together with its TTL.
LEMMA SetKey ==
  ASSUME TypeOK, NEW i \in Instance, NEW a \in App
  PROVE  /\ KeysOK([holder EXCEPT ![a] = i], [ttl EXCEPT ![a] = LeaseTtl])
         /\ KeysOK([holder EXCEPT ![a] = None], [ttl EXCEPT ![a] = 0])
         /\ holder[a] = i => KeysOK(holder, [ttl EXCEPT ![a] = LeaseTtl])
<1>1. LeaseTtl \in 0..LeaseTtl /\ LeaseTtl # 0 /\ i # None /\ 0 \in 0..LeaseTtl
  BY AppClaimAssumption
<1>2. QED
  BY <1>1 DEF TypeOK, KeysOK

LEMMA DeleteKey ==
  ASSUME TypeOK, NEW i \in Instance, NEW a \in App, DeleteIfOwner(i, a)
  PROVE  KeysOK(holder', ttl')
<1>1. 0 \in 0..LeaseTtl /\ i # None
  BY AppClaimAssumption
<1>2. QED
  BY <1>1 DEF TypeOK, KeysOK, DeleteIfOwner

LEMMA DetachType ==
  ASSUME TypeOK, NEW i \in Instance, NEW a, Detach(i, a)
  PROVE  claimed' \in [Instance -> SUBSET App] /\ processing' \in [Instance -> SUBSET App]
BY DEF TypeOK, Detach

-----------------------------------------------------------------------------
(* Type correctness                                                          *)

LEMMA InitType == Init => TypeOK
BY IdleRecord, AppClaimAssumption DEF Init, TypeOK

\* A step of a task gives it a record of the right type.
LEMMA WorkTaskType ==
  ASSUME TypeOK, NEW i \in Instance, NEW t \in Task, Work(i, t)
  PROVE  task' \in [Instance -> [Task -> TaskRecord]]
<1> DEFINE me == task[i][t]
           Good == task' \in [Instance -> [Task -> TaskRecord]]
<1> USE AppClaimAssumption
<1>0. /\ me \in TaskRecord /\ me.todo \in SUBSET App /\ me.quota \in Nat
      /\ me.pc \in AppStep => me.app \in App /\ me.todo \cup {me.app} \in SUBSET App
      /\ claimed[i] \in SUBSET App /\ known[i] \in SUBSET App
  BY TaskType
<1>1. SUFFICES ASSUME \A next \in TaskRecord : ~Proceed(i, t, next) PROVE Good
  BY ProceedType
<1>2. ASSUME t \in Cycle, Heartbeat(i, t) PROVE FALSE
  BY <1>1, <1>2, FixedRecords DEF Heartbeat, OtherStep
<1>3. ASSUME t \in Cycle, Check(i, t) PROVE Good
  <2>1. /\ "rebalance" \in Task
        /\ At("target") \in TaskRecord /\ At("rebalancing") \in TaskRecord /\ At("count") \in TaskRecord
    BY FixedRecords DEF Task, OtherStep
  <2>2. task' = [task EXCEPT ![i][t] = At("rebalancing"), ![i]["rebalance"] = At("count")]
    BY <1>1, <1>3, <2>1 DEF Check
  <2>3. QED
    BY <2>1, <2>2 DEF TypeOK
<1>4. ASSUME t \in Cycle, Target(i, t) PROVE FALSE
  <2>1. Share(known[i], Registered) \in Nat
    BY <1>0, RegisteredNat, ShareNat
  <2>2. QED
    BY <1>0, <1>1, <1>4, <2>1, ClaimLoopType DEF Target
<1>5. me.pc \in AppStep => \A pc \in AppStep : [me EXCEPT !.pc = pc] \in TaskRecord
  BY <1>0 DEF TaskRecord, AppStep, OtherStep
<1>6. ASSUME t \in Cycle, Claim(i, t) PROVE FALSE
  <2>1. me.pc \in AppStep /\ "onClaimed" \in AppStep
    BY <1>6 DEF Claim, Pending, AppStep
  <2>2. QED
    BY <1>0, <1>1, <1>5, <1>6, <2>1, ClaimLoopType DEF Claim
<1>7. ASSUME t \in Cycle, OnClaimed(i, t) PROVE FALSE
  BY <1>0, <1>1, <1>7, ClaimLoopType DEF OnClaimed
<1>8. ASSUME t \in Cycle, Renew(i, t) PROVE FALSE
  <2>1. me.pc \in AppStep /\ "onReleased" \in AppStep /\ me.todo \cup {me.app} \in SUBSET App
    BY <1>0, <1>8 DEF Renew, Pending, AppStep
  <2>2. UNCHANGED claimed => Onward(i, t, me.todo \cup {me.app}) \subseteq TaskRecord
    BY <1>0, <2>1, OnwardType
  <2>3. QED
    BY <1>1, <1>5, <1>8, <2>1, <2>2 DEF Renew
<1>9. ASSUME Release(i, t) \/ Released(i, t) PROVE FALSE
  <2>1. me.pc \in AppStep /\ "deleted" \in AppStep /\ "onReleased" \in AppStep
    BY <1>9 DEF Release, Released, Pending, AppStep
  <2>2. QED
    BY <1>1, <1>5, <1>9, <2>1 DEF Release, Released
<1>10. ASSUME OnReleased(i, t) PROVE FALSE
  <2>1. Onward(i, t, me.todo) \subseteq TaskRecord
    BY <1>0, <1>10, OnwardType DEF OnReleased
  <2>2. QED
    BY <1>1, <1>10, <2>1 DEF OnReleased
<1>11. ASSUME t = "start", Publish(i) PROVE Good
  BY <1>11, IdleRecord, SetTaskType DEF Publish
<1>12. ASSUME t = "rebalance", CountExcess(i) PROVE FALSE
  <2> DEFINE excess == Cardinality(claimed[i]) - Share(known[i], Registered)
  <2>1. excess \in Int
    BY <1>0, CardinalityNat, RegisteredNat, ShareNat
  <2>2. ~(excess <= 0) => Await("ttls", None, claimed[i], excess) \in TaskRecord
    BY <1>0, <2>1 DEF Await, TaskRecord
  <2>3. QED
    BY <1>1, <1>12, <2>2, IdleRecord DEF CountExcess
<1>13. ASSUME t = "rebalance", PickExcess(i) PROVE FALSE
  <2>1. \A S \in SUBSET me.todo : ExcessLoop(S) \subseteq TaskRecord
    BY <1>0, ExcessLoopType
  <2>2. QED
    BY <1>1, <1>13, <2>1 DEF PickExcess
<1>14. ASSUME t = "stop", Unregister(i) PROVE Good
  BY <1>14, IdleRecord DEF Unregister, Exit, TypeOK
<1>15. ASSUME CommandFails(i, t) PROVE FALSE
  <2>1. ClaimLoop(me.todo, me.quota, claimed[i], known[i]) \subseteq TaskRecord
    BY <1>0, ClaimLoopType
  <2>2. me.pc \in {"renew", "release"} =>
          Onward(i, t, me.todo \cup {me.app}) \subseteq TaskRecord
    BY <1>0, <1>15, OnwardType DEF AppStep, CommandFails
  <2>3. At("check") \in TaskRecord
    BY FixedRecords DEF OtherStep
  <2>4. QED
    BY <1>1, <1>15, <2>1, <2>2, <2>3, IdleRecord DEF CommandFails
<1>16. QED
  BY <1>2, <1>3, <1>4, <1>6, <1>7, <1>8, <1>9, <1>10, <1>11, <1>12, <1>13, <1>14, <1>15 DEF Work

\* Steps of a task.
LEMMA WorkType ==
  ASSUME TypeOK, NEW i \in Instance, NEW t \in Task, Work(i, t)
  PROVE  TypeOK'
<1> DEFINE me == task[i][t]
<1> USE AppClaimAssumption
<1>1. /\ task' \in [Instance -> [Task -> TaskRecord]]
      /\ me.pc \in AppStep => me.app \in App
  BY WorkTaskType, TaskType
<1>2. ASSUME t \in Cycle, Heartbeat(i, t) PROVE TypeOK'
  BY <1>1, <1>2 DEF Heartbeat, TypeOK, keys, env
<1>3. ASSUME t \in Cycle, Check(i, t) \/ Target(i, t) PROVE TypeOK'
  <2>1. PICK n \in Nat : lastCount' = [lastCount EXCEPT ![i] = n]
    <3>1. lastCount[i] \in Nat /\ Registered \in Nat
      BY RegisteredNat DEF TypeOK
    <3>2. QED
      BY <1>3, <3>1 DEF Check, Target
  <2>2. lastCount' \in [Instance -> Nat]
    BY <2>1 DEF TypeOK
  <2>3. QED
    BY <1>1, <1>3, <2>2 DEF Check, Target, TypeOK, redis, env
<1>4. ASSUME t \in Cycle, Claim(i, t) PROVE TypeOK'
  <2>1. me.app \in App
    BY <1>1, <1>4 DEF Claim, Pending, AppStep
  <2>2. CASE holder[me.app] = None
    <3>1. /\ holder' = [holder EXCEPT ![me.app] = i]
          /\ ttl' = [ttl EXCEPT ![me.app] = LeaseTtl]
          /\ claimed' = [claimed EXCEPT ![i] = @ \cup {me.app}]
          /\ processing' = [processing EXCEPT ![i] = IF StartsAtOnce THEN @ \cup {me.app} ELSE @]
      BY <1>4, <2>2 DEF Claim
    <3>2. /\ KeysOK(holder', ttl')
          /\ claimed' \in [Instance -> SUBSET App] /\ processing' \in [Instance -> SUBSET App]
      BY <2>1, <3>1, SetKey DEF TypeOK
    <3>3. QED
      BY <1>1, <1>4, <3>2 DEF Claim, TypeOK, env, KeysOK
  <2>3. CASE holder[me.app] # None
    <3>1. UNCHANGED <<holder, ttl, claimed, processing>>
      BY <1>4, <2>3 DEF Claim, keys
    <3>2. QED
      BY <1>1, <1>4, <3>1 DEF Claim, TypeOK, env
  <2>4. QED
    BY <2>2, <2>3
<1>5. ASSUME t \in Cycle, OnClaimed(i, t) PROVE TypeOK'
  <2>1. me.app \in App
    BY <1>1, <1>5 DEF OnClaimed, AppStep
  <2>2. processing' \in [Instance -> SUBSET App]
    BY <1>5, <2>1 DEF OnClaimed, TypeOK
  <2>3. QED
    BY <1>1, <1>5, <2>2 DEF OnClaimed, TypeOK, redis, env
<1>6. ASSUME t \in Cycle, Renew(i, t) PROVE TypeOK'
  <2>1. me.app \in App
    BY <1>1, <1>6 DEF Renew, Pending, AppStep
  <2>2. CASE holder[me.app] = i
    <3>1. UNCHANGED <<holder, claimed, processing>> /\ ttl' = [ttl EXCEPT ![me.app] = LeaseTtl]
      BY <1>6, <2>2 DEF Renew
    <3>2. KeysOK(holder', ttl')
      BY <2>1, <2>2, <3>1, SetKey
    <3>3. QED
      BY <1>1, <1>6, <3>1, <3>2 DEF Renew, TypeOK, env, KeysOK
  <2>3. CASE holder[me.app] # i
    <3>1. UNCHANGED <<holder, ttl>> /\ Detach(i, me.app)
      BY <1>6, <2>3 DEF Renew
    <3>2. QED
      BY <1>1, <1>6, <3>1, DetachType DEF Renew, TypeOK, env
  <2>4. QED
    BY <2>2, <2>3
<1>7. ASSUME Release(i, t) PROVE TypeOK'
  <2>1. me.app \in App
    BY <1>1, <1>7 DEF Release, Pending, AppStep
  <2>2. KeysOK(holder', ttl')
    BY <1>7, <2>1, DeleteKey DEF Release
  <2>3. QED
    BY <1>1, <1>7, <2>2 DEF Release, TypeOK, env, KeysOK
<1>8. ASSUME Released(i, t) PROVE TypeOK'
  BY <1>1, <1>8, DetachType DEF Released, TypeOK, redis, env
<1>9. ASSUME OnReleased(i, t) PROVE TypeOK'
  BY <1>1, <1>9 DEF OnReleased, TypeOK, redis, env
<1>10. ASSUME t = "start", Publish(i) PROVE TypeOK'
  BY <1>1, <1>10 DEF Publish, TypeOK, redis, env
<1>11. ASSUME t = "rebalance", CountExcess(i) PROVE TypeOK'
  <2>1. lastCount' \in [Instance -> Nat]
    BY <1>11, RegisteredNat DEF CountExcess, TypeOK
  <2>2. QED
    BY <1>1, <1>11, <2>1 DEF CountExcess, TypeOK, redis, env
<1>12. ASSUME t = "rebalance", PickExcess(i) PROVE TypeOK'
  BY <1>1, <1>12 DEF PickExcess, TypeOK, redis, env
<1>13. ASSUME t = "stop", Unregister(i) PROVE TypeOK'
  BY <1>1, <1>13 DEF Unregister, Exit, TypeOK, keys, env
<1>14. ASSUME CommandFails(i, t) PROVE TypeOK'
  <2>1. disturbed' \in Nat
    BY <1>14 DEF CommandFails, Disturb, TypeOK
  <2>2. CASE UNCHANGED keys
    BY <1>1, <1>14, <2>1, <2>2 DEF CommandFails, TypeOK, keys
  <2>3. CASE ~UNCHANGED keys
    <3>1. /\ me.app \in App
          /\ \/ /\ holder' = [holder EXCEPT ![me.app] = i]
                /\ ttl' = [ttl EXCEPT ![me.app] = LeaseTtl]
             \/ DeleteIfOwner(i, me.app)
      BY <1>1, <1>14, <2>3 DEF CommandFails, AppStep
    <3>2. KeysOK(holder', ttl')
      <4>1. CASE DeleteIfOwner(i, me.app)
        BY <3>1, <4>1, DeleteKey
      <4>2. CASE ~DeleteIfOwner(i, me.app)
        <5>1. KeysOK([holder EXCEPT ![me.app] = i], [ttl EXCEPT ![me.app] = LeaseTtl])
          BY <3>1, SetKey
        <5>2. QED
          BY <3>1, <4>2, <5>1
      <4>3. QED
        BY <4>1, <4>2
    <3>3. QED
      BY <1>1, <1>14, <2>1, <3>2 DEF CommandFails, TypeOK, KeysOK
  <2>4. QED
    BY <2>2, <2>3
<1>15. QED
  BY <1>2, <1>3, <1>4, <1>5, <1>6, <1>7, <1>8, <1>9, <1>10, <1>11, <1>12, <1>13, <1>14 DEF Work

\* Every other step.
LEMMA OtherType ==
  ASSUME TypeOK, [Next]_vars, ~ \E i \in Instance, t \in Task : Work(i, t)
  PROVE  TypeOK'
<1> USE AppClaimAssumption
<1>0. /\ \A pc \in OtherStep : At(pc) \in TaskRecord
      /\ Idle \in TaskRecord
      /\ Slot \subseteq Task /\ {"start", "rebalance", "stop"} \subseteq Task
  BY FixedRecords, IdleRecord DEF Task, Cycle
<1>1. ASSUME NEW i \in Instance, Start(i) PROVE TypeOK'
  <2>1. task' \in [Instance -> [Task -> TaskRecord]]
    BY <1>0, <1>1, SetTaskType DEF Start, OtherStep
  <2>2. LeaseTtl \in 0..LeaseTtl
    OBVIOUS
  <2>3. QED
    BY <1>1, <2>1, <2>2 DEF Start, TypeOK, keys, env
<1>2. ASSUME NEW i \in Instance, TimerFires(i) PROVE TypeOK'
  <2>1. task' \in [Instance -> [Task -> TaskRecord]]
    <3>1. (CHOOSE s \in Slot : task[i][s] = Idle) \in Task
      BY <1>0, <1>2 DEF TimerFires
    <3>2. QED
      BY <1>0, <1>2, <3>1, SetTaskType DEF TimerFires, OtherStep
  <2>2. QED
    BY <1>2, <2>1 DEF TimerFires, TypeOK, redis, env
<1>3. ASSUME NEW i \in Instance, JoinEvent(i) PROVE TypeOK'
  <2>1. task' \in [Instance -> [Task -> TaskRecord]]
    BY <1>0, <1>3, TaskType, SetTaskType DEF JoinEvent, OtherStep
  <2>2. QED
    BY <1>3, <2>1 DEF JoinEvent, TypeOK, redis, env
<1>4. ASSUME NEW i \in Instance, Stop(i) PROVE TypeOK'
  <2>1. StopLoop({}, claimed[i]) \subseteq TaskRecord
    BY <1>0, TaskType, StopLoopType
  <2>2. task' \in [Instance -> [Task -> TaskRecord]]
    BY <1>0, <1>4, <2>1, SetTaskType DEF Stop
  <2>3. QED
    BY <1>4, <2>2 DEF Stop, Disturb, TypeOK, redis
<1>5. ASSUME NEW i \in Instance, FatalFailure(i) \/ Crash(i) PROVE TypeOK'
  <2>1. Exit(i) /\ UNCHANGED <<redis, revoking>>
    BY <1>5 DEF FatalFailure, Crash
  <2>2. disturbed' \in Nat
    BY <1>5 DEF FatalFailure, Crash, Disturb, TypeOK
  <2>3. QED
    BY <1>0, <2>1, <2>2 DEF Exit, TypeOK, redis
<1>6. ASSUME NEW i \in Instance, Disconnect(i) PROVE TypeOK'
  BY <1>6 DEF Disconnect, Disturb, TypeOK, redis
<1>7. ASSUME NEW i \in Instance, LoseJoin(i) PROVE TypeOK'
  BY <1>7 DEF LoseJoin, Disturb, TypeOK, redis, process
<1>8. ASSUME NEW i \in Instance, SetKnownApps(i) PROVE TypeOK'
  BY <1>8 DEF SetKnownApps, Disturb, TypeOK, redis
<1>9. ASSUME AdminScan PROVE TypeOK'
  BY <1>9 DEF AdminScan, Disturb, TypeOK, redis, process
<1>10. ASSUME NEW a \in App, AdminDelete(a) PROVE TypeOK'
  BY <1>10 DEF AdminDelete, TypeOK, process
<1>11. ASSUME Tick PROVE TypeOK'
  <2>1. \A n \in 0..LeaseTtl : Less(n) \in 0..LeaseTtl /\ (n <= 1 <=> Less(n) = 0)
    BY DEF Less
  <2>2. QED
    BY <1>11, <2>1 DEF Tick, Disturb, TypeOK, env
<1>12. CASE UNCHANGED vars
  BY <1>12 DEF vars, redis, process, env, TypeOK
<1>13. QED
  BY <1>1, <1>2, <1>3, <1>4, <1>5, <1>6, <1>7, <1>8, <1>9, <1>10, <1>11, <1>12 DEF Next

\* The types are right in every reachable state.
THEOREM TypeCorrect == Spec => []TypeOK
<1>1. TypeOK /\ [Next]_vars => TypeOK'
  BY WorkType, OtherType
<1>2. QED
  BY InitType, <1>1, PTL DEF Spec

-----------------------------------------------------------------------------
(* Claims are backed by their keys                                           *)

\* Nothing deletes keys from outside or fails, and all cycles end in time.
Timely ==
  /\ Disturbance \cap {"late", "admin", "error", "disconnect"} = {}
  /\ LeaseTtl > 1

Calm ==
  /\ revoking = {}
  /\ \A i \in Instance : linked[i]

\* A process that is down has nothing, start() sets the timer in the end, and
\* only a process that is starting or stopping is without one.
Lifecycle ==
  \A i \in Instance :
    /\ ~up[i] => /\ claimed[i] = {} /\ timer[i] = "off"
                 /\ \A t \in Task : task[i][t] = Idle
    /\ task[i]["start"] # Idle => timer[i] = "off"
    /\ up[i] /\ timer[i] = "off" => task[i]["start"] # Idle \/ task[i]["stop"] # Idle

\* A release of a by i has been executed and its answer is still to come.
Deleting(i, a) == \E t \in Task : task[i][t].pc = "deleted" /\ task[i][t].app = a

\* A cycle that awaits r has still to come to a in its renewal loop.
Visits(r, a) ==
  \/ r.pc \in {"heartbeat", "check", "rebalancing", "target", "claim", "onClaimed"}
  \/ r.pc \in {"renew", "release", "deleted", "onReleased"} /\ a \notin r.todo

\* The lease of a is whole, or i is going to renew it in this interval, or i is
\* going to exit.
Fresh(i, a) ==
  \/ ttl[a] = LeaseTtl
  \/ timer[i] = "due"
  \/ task[i]["stop"] # Idle
  \/ \E c \in Cycle : Visits(task[i][c], a)

\* The inductive form of ClaimsAreBacked.  A key on its last unit would be gone
\* at the next tick, so being held is not enough: the lease must be whole by then.
Backed ==
  \A i \in Instance : \A a \in claimed[i] :
    Deleting(i, a) \/ (holder[a] = i /\ Fresh(i, a))

\* A step of task t of i leaves the other tasks of i alone, except for the
\* rebalance that it starts and the cycle that it resumes.
Others(i, t) ==
  \A u \in Task \ {t} :
    \/ task'[i][u] = task[i][u]
    \/ u = "rebalance" /\ task[i][u] = Idle
    \/ task[i][u].pc = "rebalancing" /\ task'[i][u] = At("target")

LEMMA ProceedFrame ==
  ASSUME TypeOK, NEW i \in Instance, NEW t \in Task, NEW next, Proceed(i, t, next)
  PROVE  /\ \A j \in Instance \ {i} : task'[j] = task[j]
         /\ Others(i, t)
         /\ \/ task'[i][t] = next
            \/ t = "start" /\ next = Idle /\ task'[i][t] = At("publish")
BY DEF Proceed, TypeOK, Others

\* A step of a task concerns a task that is not idle.
LEMMA WorkBusy ==
  ASSUME NEW i \in Instance, NEW t \in Task, Work(i, t)
  PROVE  task[i][t] # Idle /\ task[i][t].pc # "idle"
<1>1. CASE /\ t \in Cycle
           /\ \/ Heartbeat(i, t) \/ Check(i, t) \/ Target(i, t)
              \/ Claim(i, t) \/ OnClaimed(i, t) \/ Renew(i, t)
  BY <1>1 DEF Heartbeat, Check, Target, Claim, OnClaimed, Renew, Pending, Idle, Await
<1>2. CASE Release(i, t) \/ Released(i, t) \/ OnReleased(i, t)
  BY <1>2 DEF Release, Released, OnReleased, Pending, Idle, Await
<1>3. CASE \/ t = "start" /\ Publish(i)
           \/ t = "stop" /\ Unregister(i)
           \/ t = "rebalance" /\ (CountExcess(i) \/ PickExcess(i))
  BY <1>3 DEF Publish, Unregister, CountExcess, PickExcess, Pending, Idle, Await
<1>4. CASE CommandFails(i, t)
  <2>1. task[i][t].pc # "idle"
    BY <1>4 DEF CommandFails
  <2>2. QED
    BY <2>1 DEF Idle, Await
<1>5. QED
  BY <1>1, <1>2, <1>3, <1>4 DEF Work

\* What a step of a task leaves alone.
LEMMA WorkFrame ==
  ASSUME TypeOK, NEW i \in Instance, NEW t \in Task,
         Work(i, t), ~CommandFails(i, t), ~Unregister(i)
  PROVE  /\ \A j \in Instance \ {i} : task'[j] = task[j] /\ claimed'[j] = claimed[j]
         /\ Others(i, t)
         /\ UNCHANGED <<up, linked, revoking>>
         /\ timer' = timer \/ (t = "start" /\ Publish(i))
         /\ t \in {"start", "stop"} => task'[i][t] # Idle \/ Publish(i)
<1> USE AppClaimAssumption
<1> DEFINE me == task[i][t]
           Framed == /\ \A j \in Instance \ {i} : task'[j] = task[j]
                     /\ Others(i, t)
                     /\ t \in {"start", "stop"} => task'[i][t] # Idle
<1>1. At("publish") # Idle /\ At("target") # Idle /\ At("check") # Idle /\ At("unregister") # Idle
  BY DEF At, Idle, Await
<1>2. ASSUME NEW next, Proceed(i, t, next), t = "stop" => next # Idle
      PROVE  Framed
  <2>1. /\ \A j \in Instance \ {i} : task'[j] = task[j]
        /\ Others(i, t)
        /\ task'[i][t] = next \/ (t = "start" /\ next = Idle /\ task'[i][t] = At("publish"))
    BY <1>2, ProceedFrame
  <2>2. CASE task'[i][t] = next
    <3>1. t = "start" => next # Idle
      BY <1>1, <1>2, <2>2 DEF Proceed, TypeOK
    <3>2. QED
      BY <1>2, <2>1, <2>2, <3>1
  <2>3. CASE t = "start" /\ task'[i][t] = At("publish")
    BY <1>1, <2>1, <2>3
  <2>4. QED
    BY <2>1, <2>2, <2>3
<1>3. "rebalance" \notin Cycle /\ "stop" \notin Cycle
  BY DEF Cycle
<1>4. me.pc # "idle" => \A pc \in AppStep : [me EXCEPT !.pc = pc] # Idle
  BY TaskType DEF Idle, Await, AppStep, TaskRecord, OtherStep
<1>5. ASSUME t \in Cycle, Check(i, t) PROVE Framed
  <2>1. CASE \E next : Proceed(i, t, next)
    BY <1>2, <1>3, <1>5, <2>1
  <2>2. CASE ~ \E next : Proceed(i, t, next)
    <3>1. task' = [task EXCEPT ![i][t] = At("rebalancing"), ![i]["rebalance"] = At("count")]
          /\ task[i]["rebalance"] = Idle
      BY <1>5, <2>2 DEF Check
    <3>2. At("rebalancing") # Idle
      BY DEF At, Idle, Await
    <3>3. QED
      BY <1>3, <1>5, <3>1, <3>2 DEF TypeOK, Others
  <2>3. QED
    BY <2>1, <2>2
<1>6. ASSUME t \in Cycle, Heartbeat(i, t) \/ Target(i, t) \/ Claim(i, t) \/ OnClaimed(i, t) \/ Renew(i, t)
      PROVE  Framed
  <2>1. \E next : Proceed(i, t, next)
    BY <1>6 DEF Heartbeat, Target, Claim, OnClaimed, Renew
  <2>2. QED
    BY <1>2, <1>3, <1>6, <2>1
<1>7. ASSUME Release(i, t) \/ Released(i, t) PROVE Framed
  <2>1. me.pc # "idle" /\ \E pc \in AppStep : Proceed(i, t, [me EXCEPT !.pc = pc])
    BY <1>7 DEF Release, Released, Pending, AppStep
  <2>2. QED
    BY <1>2, <1>4, <2>1
<1>8. ASSUME OnReleased(i, t) PROVE Framed
  <2>1. PICK next \in Onward(i, t, me.todo) : Proceed(i, t, next)
    BY <1>8 DEF OnReleased
  <2>2. t = "stop" => next # Idle
    BY <1>1, <2>1 DEF Onward, StopLoop, Await, Idle
  <2>3. QED
    BY <1>2, <2>1, <2>2
<1>9. ASSUME t = "rebalance", CountExcess(i) \/ PickExcess(i) PROVE Framed
  <2>1. \E next : Proceed(i, t, next)
    BY <1>9 DEF CountExcess, PickExcess
  <2>2. QED
    BY <1>2, <1>9, <2>1
<1>10. ASSUME t = "start", Publish(i)
       PROVE  (\A j \in Instance \ {i} : task'[j] = task[j]) /\ Others(i, t)
  BY <1>10 DEF Publish, Others, TypeOK
<1>11. \A j \in Instance \ {i} : claimed'[j] = claimed[j]
  BY DEF Work, Heartbeat, Check, Target, Claim, OnClaimed, Renew, Release, Released, OnReleased,
         Publish, CountExcess, PickExcess, Detach, TypeOK
<1>12. UNCHANGED <<up, linked, revoking>> /\ (timer' = timer \/ (t = "start" /\ Publish(i)))
  BY DEF Work, Heartbeat, Check, Target, Claim, OnClaimed, Renew, Release, Released, OnReleased,
         Publish, CountExcess, PickExcess, env
<1>13. Framed \/ (t = "start" /\ Publish(i))
  BY <1>5, <1>6, <1>7, <1>8, <1>9 DEF Work
<1>14. QED
  BY <1>10, <1>11, <1>12, <1>13

\* In a timely system nothing fails and nobody revokes keys.
LEMMA CalmStep ==
  ASSUME TypeOK, Timely, Calm, [Next]_vars
  PROVE  /\ Calm'
         /\ \A i \in Instance, t \in Task : ~CommandFails(i, t)
         /\ \A i \in Instance : ~FatalFailure(i)
         /\ Tick => \A i \in Instance : IntervalDone(i)
<1>1. \A kind \in {"late", "admin", "error", "disconnect"} : ~Disturb(kind)
  BY DEF Timely, Disturb
<1>2. \A i \in Instance, t \in Task : ~CommandFails(i, t)
  BY <1>1 DEF Calm, CommandFails
<1>3. \A i \in Instance : ~FatalFailure(i) /\ ~Disconnect(i)
  BY <1>1 DEF Calm, FatalFailure, Disconnect
<1>4. ~AdminScan /\ \A a \in App : ~AdminDelete(a)
  BY <1>1 DEF Calm, AdminScan, AdminDelete
<1>5. Tick => \A i \in Instance : IntervalDone(i)
  BY <1>1 DEF Tick
<1>6. ASSUME NEW i \in Instance, NEW t \in Task, Work(i, t)
      PROVE  UNCHANGED revoking /\ (UNCHANGED linked \/ Exit(i))
  BY <1>2, <1>6 DEF Work, Heartbeat, Check, Target, Claim, OnClaimed, Renew, Release, Released,
       OnReleased, Publish, CountExcess, PickExcess, Unregister, env
<1>7. ASSUME NEW i \in Instance, Start(i) \/ TimerFires(i) \/ JoinEvent(i)
      PROVE  UNCHANGED <<revoking, linked>>
  BY <1>7 DEF Start, TimerFires, JoinEvent, env
<1>8. ASSUME NEW i \in Instance, Stop(i) \/ Crash(i) \/ LoseJoin(i) \/ SetKnownApps(i)
      PROVE  UNCHANGED revoking /\ (UNCHANGED linked \/ Exit(i))
  BY <1>8 DEF Stop, Crash, LoseJoin, SetKnownApps, process
<1>9. ASSUME Tick \/ UNCHANGED vars PROVE Calm'
  BY <1>9 DEF Tick, vars, process, env, Calm
<1>10. ASSUME NEW i \in Instance, UNCHANGED revoking, UNCHANGED linked \/ Exit(i)
       PROVE  Calm'
  BY <1>10 DEF Calm, Exit, TypeOK
<1>11. Calm'
  <2>1. CASE \E i \in Instance, t \in Task : Work(i, t)
    BY <1>6, <1>10, <2>1
  <2>2. CASE \E i \in Instance : Start(i) \/ TimerFires(i) \/ JoinEvent(i)
    BY <1>7, <1>10, <2>2
  <2>3. CASE \E i \in Instance : Stop(i) \/ Crash(i) \/ LoseJoin(i) \/ SetKnownApps(i)
    BY <1>8, <1>10, <2>3
  <2>4. CASE Tick \/ UNCHANGED vars
    BY <1>9, <2>4
  <2>5. QED
    BY <1>3, <1>4, <2>1, <2>2, <2>3, <2>4 DEF Next
<1>12. QED
  BY <1>2, <1>3, <1>5, <1>11

LEMMA ExitFrame ==
  ASSUME TypeOK, NEW i \in Instance, Exit(i)
  PROVE  /\ ~up'[i] /\ claimed'[i] = {} /\ timer'[i] = "off"
         /\ \A t \in Task : task'[i][t] = Idle
         /\ \A j \in Instance \ {i} :
              /\ up'[j] = up[j] /\ claimed'[j] = claimed[j] /\ timer'[j] = timer[j]
              /\ task'[j] = task[j]
BY DEF Exit, TypeOK

LEMMA WorkLifecycle ==
  ASSUME TypeOK, Lifecycle, NEW i \in Instance, NEW t \in Task,
         Work(i, t), ~CommandFails(i, t)
  PROVE  Lifecycle'
<1> USE AppClaimAssumption
<1>1. "start" \in Task /\ "stop" \in Task
  BY DEF Task, Cycle
<1>2. CASE Unregister(i)
  BY <1>1, <1>2, ExitFrame DEF Unregister, Lifecycle
<1>3. CASE t = "start" /\ Publish(i)
  <2>1. up[i]
    BY <1>3, WorkBusy DEF Lifecycle
  <2>2. /\ UNCHANGED <<up, claimed>>
        /\ timer'[i] = "waiting" /\ task'[i]["start"] = Idle
        /\ \A j \in Instance \ {i} : task'[j] = task[j] /\ timer'[j] = timer[j]
    BY <1>1, <1>3 DEF Publish, TypeOK
  <2>3. QED
    BY <2>1, <2>2 DEF Lifecycle
<1>4. CASE ~Unregister(i) /\ ~(t = "start" /\ Publish(i))
  <2>1. /\ \A j \in Instance \ {i} : task'[j] = task[j] /\ claimed'[j] = claimed[j]
        /\ UNCHANGED <<up, timer>>
        /\ Others(i, t)
        /\ t \in {"start", "stop"} => task'[i][t] # Idle
    <3>1. t # "start" => ~Publish(i) \/ task'[i][t] # Idle
      BY WorkBusy, WorkFrame, <1>4 DEF Publish, TypeOK, Pending
    <3>2. QED
      BY <1>4, <3>1, WorkFrame
  <2>2. up[i] /\ task[i][t] # Idle
    BY WorkBusy DEF Lifecycle
  <2>3. At("target") # Idle
    BY DEF At, Idle, Await
  <2>4. Idle.pc # "rebalancing"
    BY DEF Idle, Await
  <2>5. \A u \in {"start", "stop"} : task'[i][u] # Idle <=> task[i][u] # Idle
    BY <1>1, <2>1, <2>2, <2>3, <2>4 DEF Others
  <2>6. QED
    BY <2>1, <2>2, <2>5 DEF Lifecycle
<1>5. QED
  BY <1>2, <1>3, <1>4 DEF Work, Publish, Pending

LEMMA OtherLifecycle ==
  ASSUME TypeOK, Lifecycle, [Next]_vars, ~ \E i \in Instance, t \in Task : Work(i, t)
  PROVE  Lifecycle'
<1> USE AppClaimAssumption
<1>0. /\ {"start", "rebalance", "stop"} \subseteq Task
      /\ Slot \subseteq Task \ {"start", "rebalance", "stop"}
      /\ At("heartbeat") # Idle /\ At("unregister") # Idle
      /\ \A pc, a, todo, quota : pc # "idle" => Await(pc, a, todo, quota) # Idle
  BY DEF Task, Cycle, At, Await, Idle
<1>1. ASSUME NEW i \in Instance, Start(i) PROVE Lifecycle'
  <2>1. /\ up'[i] /\ task'[i]["start"] # Idle
        /\ timer[i] = "off"
        /\ UNCHANGED <<claimed, timer>>
        /\ \A j \in Instance \ {i} : task'[j] = task[j] /\ up'[j] = up[j]
    BY <1>0, <1>1 DEF Start, Lifecycle, TypeOK
  <2>2. QED
    BY <2>1 DEF Lifecycle
<1>2. ASSUME NEW i \in Instance, TimerFires(i) PROVE Lifecycle'
  <2>1. PICK s \in Slot : task' = [task EXCEPT ![i][s] = At("heartbeat")]
    BY <1>2 DEF TimerFires
  <2>2. up[i]
    BY <1>2 DEF TimerFires, Lifecycle
  <2>3. \A u \in {"start", "stop"} : task'[i][u] = task[i][u]
    BY <1>0, <2>1 DEF TypeOK
  <2>4. /\ \A j \in Instance \ {i} : task'[j] = task[j] /\ timer'[j] = timer[j]
        /\ timer[i] = "due" /\ timer'[i] = "waiting"
        /\ UNCHANGED <<up, claimed>>
    BY <1>2, <2>1 DEF TimerFires, TypeOK
  <2>5. QED
    BY <2>2, <2>3, <2>4 DEF Lifecycle
<1>3. ASSUME NEW i \in Instance, JoinEvent(i) PROVE Lifecycle'
  BY <1>0, <1>3 DEF JoinEvent, Lifecycle, TypeOK
<1>4. ASSUME NEW i \in Instance, Stop(i) PROVE Lifecycle'
  <2>1. \A next \in StopLoop({}, claimed[i]) : next # Idle
    BY <1>0 DEF StopLoop
  <2>2. QED
    BY <1>0, <1>4, <2>1 DEF Stop, Lifecycle, TypeOK
<1>5. ASSUME NEW i \in Instance, FatalFailure(i) \/ Crash(i) PROVE Lifecycle'
  <2>1. Exit(i)
    BY <1>5 DEF FatalFailure, Crash
  <2>2. QED
    BY <1>0, <2>1, ExitFrame DEF Lifecycle
<1>6. ASSUME NEW i \in Instance, Disconnect(i) \/ LoseJoin(i) \/ SetKnownApps(i)
      PROVE  Lifecycle'
  BY <1>6 DEF Disconnect, LoseJoin, SetKnownApps, Lifecycle, process
<1>7. ASSUME AdminScan \/ \E a \in App : AdminDelete(a) PROVE Lifecycle'
  BY <1>7 DEF AdminScan, AdminDelete, Lifecycle, process
<1>8. ASSUME Tick PROVE Lifecycle'
  BY <1>8 DEF Tick, Lifecycle
<1>9. CASE UNCHANGED vars
  BY <1>9 DEF vars, process, Lifecycle
<1>10. QED
  BY <1>1, <1>2, <1>3, <1>4, <1>5, <1>6, <1>7, <1>8, <1>9 DEF Next

\* The loops of a cycle come to every claim they have not visited.
LEMMA RenewLoopVisits ==
  ASSUME NEW visited, NEW mine, NEW apps, NEW a \in mine \ visited,
         NEW next \in RenewLoop(visited, mine, apps)
  PROVE  Visits(next, a) /\ next # Idle
<1>1. PICK b \in mine \ visited :
        next = Await(IF b \in apps THEN "renew" ELSE "release", b, visited, 0)
  BY DEF RenewLoop
<1>2. CASE b \in apps
  BY <1>1, <1>2 DEF Visits, Await, Idle
<1>3. CASE b \notin apps
  BY <1>1, <1>3 DEF Visits, Await, Idle
<1>4. QED
  BY <1>2, <1>3

LEMMA ClaimLoopVisits ==
  ASSUME NEW todo, NEW quota, NEW mine, NEW apps, NEW a \in mine,
         NEW next \in ClaimLoop(todo, quota, mine, apps)
  PROVE  Visits(next, a) /\ next # Idle
<1>1. CASE next \in RenewLoop({}, mine, apps)
  BY <1>1, RenewLoopVisits
<1>2. CASE \E b \in todo : next = Await("claim", b, todo \ {b}, quota)
  BY <1>2 DEF Visits, Await, Idle
<1>3. QED
  BY <1>1, <1>2 DEF ClaimLoop

\* What task t does not change remains as it was: an answer to come, a lease
\* that is going to be renewed.
LEMMA OthersKeep ==
  ASSUME NEW i \in Instance, NEW t \in Task, Others(i, t), NEW a
  PROVE  /\ \A u \in Task \ {t} : task[i][u].pc = "deleted" => task'[i][u] = task[i][u]
         /\ \A c \in Cycle \ {t} : Visits(task[i][c], a) => Visits(task'[i][c], a)
         /\ t # "stop" /\ task[i]["stop"] # Idle => task'[i]["stop"] # Idle
<1> USE AppClaimAssumption
<1>1. /\ At("target").pc = "target" /\ At("target") # Idle /\ Idle.pc = "idle"
      /\ Visits(At("target"), a)
  BY DEF At, Idle, Await, Visits
<1>2. "rebalance" \notin Cycle /\ Cycle \subseteq Task /\ "stop" \in Task
  BY DEF Cycle, Task
<1>3. ASSUME NEW u \in Task \ {t}, task[i][u].pc = "deleted"
      PROVE  task'[i][u] = task[i][u]
  BY <1>1, <1>3 DEF Others
<1>4. ASSUME NEW c \in Cycle \ {t}, Visits(task[i][c], a)
      PROVE  Visits(task'[i][c], a)
  BY <1>1, <1>2, <1>4 DEF Others
<1>5. ASSUME t # "stop", task[i]["stop"] # Idle PROVE task'[i]["stop"] # Idle
  BY <1>1, <1>2, <1>5 DEF Others
<1>6. QED
  BY <1>3, <1>4, <1>5

\* A claim that task t of i neither renews nor deletes stays backed.
LEMMA BackedKept ==
  ASSUME TypeOK, NEW i \in Instance, NEW t \in Task, Others(i, t), NEW a \in App,
         Deleting(i, a) \/ (holder[a] = i /\ Fresh(i, a)),
         holder'[a] = holder[a], ttl'[a] = ttl[a], timer'[i] = timer[i],
         ~(task[i][t].pc = "deleted" /\ task[i][t].app = a),
         t = "stop" => task'[i][t] # Idle,
         t \in Cycle /\ Visits(task[i][t], a) => Visits(task'[i][t], a)
  PROVE  Deleting(i, a)' \/ (holder'[a] = i /\ Fresh(i, a)')
<1>1. CASE Deleting(i, a)
  <2>1. PICK u \in Task : task[i][u].pc = "deleted" /\ task[i][u].app = a
    BY <1>1 DEF Deleting
  <2>2. task'[i][u] = task[i][u]
    BY <2>1, OthersKeep
  <2>3. QED
    BY <2>1, <2>2 DEF Deleting
<1>2. CASE holder[a] = i /\ Fresh(i, a)
  <2>1. \A c \in Cycle : Visits(task[i][c], a) => Visits(task'[i][c], a)
    BY OthersKeep
  <2>2. task[i]["stop"] # Idle => task'[i]["stop"] # Idle
    BY OthersKeep
  <2>3. Fresh(i, a)'
    BY <1>2, <2>1, <2>2 DEF Fresh
  <2>4. QED
    BY <1>2, <2>3
<1>3. QED
  BY <1>1, <1>2

\* A cycle that comes to a keeps its claim backed.
LEMMA BackedVisited ==
  ASSUME NEW i \in Instance, NEW t \in Cycle, Others(i, t), NEW a \in App,
         Deleting(i, a) \/ holder[a] = i,
         holder'[a] = holder[a], task[i][t].pc # "deleted",
         Visits(task'[i][t], a)
  PROVE  Deleting(i, a)' \/ (holder'[a] = i /\ Fresh(i, a)')
<1> USE AppClaimAssumption
<1>1. CASE Deleting(i, a)
  <2>1. PICK u \in Task : task[i][u].pc = "deleted" /\ task[i][u].app = a
    BY <1>1 DEF Deleting
  <2>2. t \in Task
    BY DEF Task
  <2>3. task'[i][u] = task[i][u]
    BY <2>1, <2>2, OthersKeep
  <2>4. QED
    BY <2>1, <2>3 DEF Deleting
<1>2. CASE holder[a] = i
  BY <1>2 DEF Fresh
<1>3. QED
  BY <1>1, <1>2

\* What another instance's task does to the keys of j's claims: nothing.
LEMMA WorkSpares ==
  ASSUME TypeOK, NEW i \in Instance, NEW t \in Task, Work(i, t), ~CommandFails(i, t),
         NEW j \in Instance \ {i}, NEW a \in App, holder[a] = j
  PROVE  holder'[a] = j /\ ttl'[a] = ttl[a]
<1> USE AppClaimAssumption
<1>1. CASE Claim(i, t)
  BY <1>1 DEF Claim, TypeOK, keys
<1>2. CASE Renew(i, t)
  BY <1>2 DEF Renew, TypeOK
<1>3. CASE Release(i, t)
  BY <1>3 DEF Release, DeleteIfOwner, TypeOK
<1>4. CASE ~Claim(i, t) /\ ~Renew(i, t) /\ ~Release(i, t)
  <2>1. UNCHANGED <<holder, ttl>>
    BY <1>4 DEF Work, Heartbeat, Check, Target, OnClaimed, Released, OnReleased, Publish,
         CountExcess, PickExcess, Unregister, redis, keys
  <2>2. QED
    BY <2>1
<1>5. QED
  BY <1>1, <1>2, <1>3, <1>4

\* Where a task that goes on ends up.
LEMMA ProceedVisits ==
  ASSUME TypeOK, NEW i \in Instance, NEW t \in Task, NEW next, NEW a,
         Proceed(i, t, next), Visits(next, a), next # Idle
  PROVE  Others(i, t) /\ Visits(task'[i][t], a)
BY ProceedFrame

\* A cycle before its renewal loop keeps what it has claimed backed.
LEMMA ClaimingBacked ==
  ASSUME TypeOK, Backed, NEW i \in Instance, NEW t \in Cycle,
         \/ Heartbeat(i, t) \/ Check(i, t) \/ Target(i, t) \/ Claim(i, t) \/ OnClaimed(i, t),
         NEW a \in claimed'[i]
  PROVE  Deleting(i, a)' \/ (holder'[a] = i /\ Fresh(i, a)')
<1> USE AppClaimAssumption
<1> DEFINE me == task[i][t]
<1>0. t \in Task /\ claimed[i] \subseteq App
  BY DEF Task, TypeOK
<1>1. ASSUME a \in claimed[i], a \in App, holder'[a] = holder[a], me.pc # "deleted",
             NEW next, Proceed(i, t, next), Visits(next, a), next # Idle
      PROVE  Deleting(i, a)' \/ (holder'[a] = i /\ Fresh(i, a)')
  <2>1. Others(i, t) /\ Visits(task'[i][t], a)
    BY <1>0, <1>1, ProceedVisits
  <2>2. Deleting(i, a) \/ holder[a] = i
    BY <1>1 DEF Backed
  <2>3. QED
    BY <1>1, <2>1, <2>2, BackedVisited
<1>2. \A pc \in {"check", "target", "rebalancing"} : Visits(At(pc), a) /\ At(pc) # Idle
  BY DEF At, Await, Visits, Idle
<1>3. CASE Heartbeat(i, t)
  BY <1>0, <1>1, <1>2, <1>3 DEF Heartbeat, Pending, keys
<1>4. CASE Check(i, t)
  <2>1. a \in claimed[i] /\ holder' = holder /\ me.pc = "check"
    BY <1>4 DEF Check, Pending, redis
  <2>2. CASE Proceed(i, t, At("target"))
    BY <1>0, <1>1, <1>2, <2>1, <2>2
  <2>3. CASE ~Proceed(i, t, At("target"))
    <3>1. task' = [task EXCEPT ![i][t] = At("rebalancing"), ![i]["rebalance"] = At("count")]
          /\ task[i]["rebalance"] = Idle
      BY <1>4, <2>3 DEF Check
    <3>2. t # "rebalance"
      BY DEF Cycle
    <3>3. Others(i, t) /\ task'[i][t] = At("rebalancing")
      BY <1>0, <3>1, <3>2 DEF TypeOK, Others
    <3>4. QED
      BY <1>0, <1>2, <2>1, <3>3, BackedVisited DEF Backed
  <2>4. QED
    BY <2>2, <2>3
<1>5. CASE Target(i, t)
  <2>1. /\ a \in claimed[i] /\ holder' = holder /\ me.pc = "target"
        /\ \E next \in ClaimLoop(known[i], Share(known[i], Registered), claimed[i], known[i]) :
             Proceed(i, t, next)
    BY <1>5 DEF Target, Pending, redis
  <2>2. QED
    BY <1>0, <1>1, <2>1, ClaimLoopVisits
<1>6. CASE Claim(i, t) /\ holder[me.app] # None
  <2>1. /\ a \in claimed[i] /\ holder' = holder /\ me.pc = "claim"
        /\ \E next \in ClaimLoop(me.todo, me.quota, claimed[i], known[i]) : Proceed(i, t, next)
    BY <1>6 DEF Claim, Pending, keys
  <2>2. QED
    BY <1>0, <1>1, <2>1, ClaimLoopVisits
<1>7. CASE Claim(i, t) /\ holder[me.app] = None
  <2>1. /\ me.pc = "claim" /\ me.app \in App
        /\ holder' = [holder EXCEPT ![me.app] = i]
        /\ ttl' = [ttl EXCEPT ![me.app] = LeaseTtl]
        /\ claimed' = [claimed EXCEPT ![i] = @ \cup {me.app}]
        /\ Proceed(i, t, [me EXCEPT !.pc = "onClaimed"])
    BY <1>0, <1>7, TaskType DEF Claim, Pending, AppStep
  <2>2. CASE a = me.app
    BY <2>1, <2>2 DEF Fresh, TypeOK
  <2>3. CASE a # me.app
    <3>1. a \in claimed[i] /\ a \in App /\ holder'[a] = holder[a]
      BY <1>0, <2>1, <2>3 DEF TypeOK
    <3>2. [me EXCEPT !.pc = "onClaimed"].pc = "onClaimed"
      BY <1>0, TaskType DEF TaskRecord
    <3>3. Visits([me EXCEPT !.pc = "onClaimed"], a) /\ [me EXCEPT !.pc = "onClaimed"] # Idle
      BY <3>2 DEF Visits, Idle, Await
    <3>4. QED
      BY <1>1, <2>1, <3>1, <3>3
  <2>4. QED
    BY <2>2, <2>3
<1>8. CASE OnClaimed(i, t)
  <2>1. /\ a \in claimed[i] /\ holder' = holder /\ me.pc = "onClaimed"
        /\ \E next \in ClaimLoop(me.todo, me.quota, claimed[i], known[i]) : Proceed(i, t, next)
    BY <1>8 DEF OnClaimed, redis
  <2>2. QED
    BY <1>0, <1>1, <2>1, ClaimLoopVisits
<1>9. QED
  BY <1>3, <1>4, <1>5, <1>6, <1>7, <1>8

\* A renewal makes one lease whole, or drops the claim, and goes on to the others.
LEMMA RenewBacked ==
  ASSUME TypeOK, Backed, NEW i \in Instance, NEW t \in Cycle, Renew(i, t),
         NEW a \in claimed'[i]
  PROVE  Deleting(i, a)' \/ (holder'[a] = i /\ Fresh(i, a)')
<1> USE AppClaimAssumption
<1> DEFINE me == task[i][t]
<1>0. /\ t \in Task /\ claimed[i] \subseteq App
      /\ me.pc = "renew" /\ me.app \in App /\ holder' = holder /\ timer' = timer
      /\ t # "stop"
  BY TaskType DEF Task, Cycle, TypeOK, Renew, Pending, AppStep
<1>1. a \in claimed[i] /\ a \in App /\ (holder[me.app] # i => a # me.app)
  BY <1>0 DEF Renew, Detach, TypeOK
<1>2. Deleting(i, a) \/ (holder[a] = i /\ Fresh(i, a))
  BY <1>1 DEF Backed
<1>3. CASE holder[me.app] = i
  <2>1. PICK next \in RenewLoop(me.todo \cup {me.app}, claimed'[i], known[i]) : Proceed(i, t, next)
    BY <1>0, <1>3 DEF Renew, Onward, Cycle
  <2>2. ttl' = [ttl EXCEPT ![me.app] = LeaseTtl]
    BY <1>3 DEF Renew
  <2>3. CASE a = me.app
    BY <1>0, <1>3, <2>2, <2>3 DEF Fresh, TypeOK
  <2>4. CASE a # me.app
    <3>1. Others(i, t)
      BY <1>0, <2>1, ProceedFrame
    <3>2. ASSUME Visits(me, a) PROVE Visits(task'[i][t], a)
      <4>1. a \notin me.todo
        BY <1>0, <3>2 DEF Visits
      <4>2. Visits(next, a) /\ next # Idle
        BY <2>1, <2>4, <4>1, RenewLoopVisits
      <4>3. QED
        BY <1>0, <2>1, <4>2, ProceedVisits
    <3>3. ttl'[a] = ttl[a]
      BY <1>1, <2>2, <2>4 DEF TypeOK
    <3>4. QED
      BY <1>0, <1>1, <1>2, <3>1, <3>2, <3>3, BackedKept
  <2>5. QED
    BY <2>3, <2>4
<1>4. CASE holder[me.app] # i
  <2>1. Proceed(i, t, [me EXCEPT !.pc = "onReleased"]) /\ ttl' = ttl
    BY <1>4 DEF Renew
  <2>2. LET next == [me EXCEPT !.pc = "onReleased"] IN
          next.pc = "onReleased" /\ next.todo = me.todo /\ next # Idle
    BY <1>0, TaskType DEF TaskRecord, AppStep, OtherStep, Idle, Await
  <2>3. Visits(me, a) => Visits([me EXCEPT !.pc = "onReleased"], a)
    BY <1>0, <2>2 DEF Visits
  <2>4. Others(i, t)
    BY <1>0, <2>1, ProceedFrame
  <2>5. Visits(me, a) => Visits(task'[i][t], a)
    BY <1>0, <2>1, <2>2, <2>3, ProceedVisits
  <2>6. QED
    BY <1>0, <1>1, <1>2, <2>1, <2>4, <2>5, BackedKept
<1>5. QED
  BY <1>3, <1>4

\* A release: the script has run, the answer arrives, the handlers have ended.
LEMMA ReleaseBacked ==
  ASSUME TypeOK, Backed, NEW i \in Instance, NEW t \in Task,
         Release(i, t) \/ Released(i, t) \/ OnReleased(i, t),
         t = "stop" => task'[i][t] # Idle,
         NEW a \in claimed'[i]
  PROVE  Deleting(i, a)' \/ (holder'[a] = i /\ Fresh(i, a)')
<1> USE AppClaimAssumption
<1> DEFINE me == task[i][t]
<1>0. /\ me.pc \in {"release", "deleted", "onReleased"} /\ me.app \in App
      /\ claimed[i] \subseteq App /\ timer' = timer
  BY TaskType DEF Release, Released, OnReleased, Pending, AppStep, TypeOK
<1>1. a \in claimed[i] /\ a \in App
  BY <1>0 DEF Release, Released, OnReleased, Detach, TypeOK
<1>2. Deleting(i, a) \/ (holder[a] = i /\ Fresh(i, a))
  BY <1>1 DEF Backed
<1>3. ASSUME NEW pc \in {"deleted", "onReleased"}, Proceed(i, t, [me EXCEPT !.pc = pc])
      PROVE  /\ Others(i, t)
             /\ task'[i][t].pc = pc /\ task'[i][t].app = me.app
             /\ Visits(me, a) => Visits(task'[i][t], a)
  <2>1. LET next == [me EXCEPT !.pc = pc] IN
          next.pc = pc /\ next.app = me.app /\ next.todo = me.todo /\ next # Idle
    BY <1>0, <1>3, TaskType DEF TaskRecord, AppStep, OtherStep, Idle, Await
  <2>2. Others(i, t) /\ task'[i][t] = [me EXCEPT !.pc = pc]
    BY <1>3, <2>1, ProceedFrame
  <2>3. Visits(me, a) => Visits([me EXCEPT !.pc = pc], a)
    BY <1>0, <2>1 DEF Visits
  <2>4. QED
    BY <2>1, <2>2, <2>3
<1>4. CASE Release(i, t)
  <2>1. Proceed(i, t, [me EXCEPT !.pc = "deleted"]) /\ DeleteIfOwner(i, me.app)
    BY <1>4 DEF Release
  <2>2. CASE a = me.app
    BY <1>3, <2>1, <2>2 DEF Deleting
  <2>3. CASE a # me.app
    <3>1. holder'[a] = holder[a] /\ ttl'[a] = ttl[a]
      BY <1>1, <2>1, <2>3 DEF DeleteIfOwner, TypeOK
    <3>2. QED
      BY <1>0, <1>1, <1>2, <1>3, <2>1, <2>3, <3>1, BackedKept
  <2>4. QED
    BY <2>2, <2>3
<1>5. CASE Released(i, t)
  <2>1. Proceed(i, t, [me EXCEPT !.pc = "onReleased"]) /\ UNCHANGED <<holder, ttl>>
    BY <1>5 DEF Released, redis
  <2>2. a # me.app
    BY <1>5 DEF Released, Detach, TypeOK
  <2>3. QED
    BY <1>0, <1>1, <1>2, <1>3, <2>1, <2>2, BackedKept
<1>6. CASE OnReleased(i, t)
  <2>1. PICK next \in Onward(i, t, me.todo) : Proceed(i, t, next)
    BY <1>6 DEF OnReleased
  <2>2. UNCHANGED <<holder, ttl>> /\ me.pc = "onReleased"
    BY <1>6 DEF OnReleased, redis
  <2>3. Others(i, t)
    BY <2>1, ProceedFrame
  <2>4. ASSUME t \in Cycle, Visits(me, a) PROVE Visits(task'[i][t], a)
    <3>1. a \notin me.todo
      BY <2>2, <2>4 DEF Visits
    <3>2. next \in RenewLoop(me.todo, claimed'[i], known[i])
      BY <2>1, <2>4 DEF Onward, Cycle
    <3>3. QED
      BY <2>1, <3>1, <3>2, RenewLoopVisits, ProceedVisits
  <2>5. QED
    BY <1>0, <1>1, <1>2, <2>2, <2>3, <2>4, BackedKept
<1>7. QED
  BY <1>4, <1>5, <1>6

\* A step of a task keeps every claim backed.
LEMMA WorkBacked ==
  ASSUME TypeOK, Lifecycle, Backed, NEW i \in Instance, NEW t \in Task,
         Work(i, t), ~CommandFails(i, t)
  PROVE  Backed'
<1> USE AppClaimAssumption
<1> SUFFICES ASSUME NEW j \in Instance, NEW a \in claimed'[j]
             PROVE  Deleting(j, a)' \/ (holder'[a] = j /\ Fresh(j, a)')
  BY DEF Backed
<1>1. CASE Unregister(i)
  <2>1. j # i /\ claimed'[j] = claimed[j] /\ task'[j] = task[j] /\ timer'[j] = timer[j]
    BY <1>1, ExitFrame DEF Unregister
  <2>2. UNCHANGED <<holder, ttl>>
    BY <1>1 DEF Unregister, keys
  <2>3. QED
    BY <2>1, <2>2 DEF Backed, Deleting, Fresh
<1>2. CASE ~Unregister(i) /\ j # i
  <2>1. claimed'[j] = claimed[j] /\ task'[j] = task[j] /\ timer'[j] = timer[j] /\ a \in App
    BY <1>2, WorkFrame DEF Publish, TypeOK
  <2>2. holder[a] = j => holder'[a] = j /\ ttl'[a] = ttl[a]
    BY <1>2, <2>1, WorkSpares
  <2>3. QED
    BY <2>1, <2>2 DEF Backed, Deleting, Fresh
<1>3. CASE ~Unregister(i) /\ j = i
  <2>1. CASE /\ t \in Cycle
             /\ \/ Heartbeat(i, t) \/ Check(i, t) \/ Target(i, t) \/ Claim(i, t) \/ OnClaimed(i, t)
    BY <1>3, <2>1, ClaimingBacked
  <2>2. CASE t \in Cycle /\ Renew(i, t)
    BY <1>3, <2>2, RenewBacked
  <2>3. CASE Release(i, t) \/ Released(i, t) \/ OnReleased(i, t)
    <3>1. t = "stop" => task'[i][t] # Idle
      <4>1. ~(t = "stop" /\ Publish(i)) \/ task'[i]["stop"] # Idle
        BY <1>3, WorkBusy, WorkFrame DEF Publish, TypeOK, Release, Released, OnReleased, Pending
      <4>2. QED
        BY <1>3, <4>1, WorkFrame
    <3>2. QED
      BY <1>3, <2>3, <3>1, ReleaseBacked
  <2>4. CASE t = "start" /\ Publish(i)
    <3>1. /\ task[i]["start"].pc = "publish" /\ task' = [task EXCEPT ![i]["start"] = Idle]
          /\ UNCHANGED <<holder, ttl, claimed>>
          /\ timer[i] = "off"
      BY <2>4, WorkBusy DEF Publish, Pending, redis, Lifecycle
    <3>2. /\ \A u \in Task \ {"start"} : task'[i][u] = task[i][u]
          /\ ~Visits(task[i]["start"], a)
          /\ "stop" \in Task /\ Cycle \subseteq Task
      BY <3>1 DEF TypeOK, Visits, Task, Cycle
    <3>3. Deleting(i, a) => Deleting(i, a)'
      BY <3>1, <3>2 DEF Deleting
    <3>4. Fresh(i, a) => Fresh(i, a)'
      BY <3>1, <3>2 DEF Fresh
    <3>5. QED
      BY <1>3, <3>1, <3>3, <3>4 DEF Backed
  <2>5. CASE t = "rebalance" /\ (CountExcess(i) \/ PickExcess(i))
    <3>1. /\ task[i][t].pc \in {"count", "ttls"}
          /\ UNCHANGED <<holder, ttl, claimed, timer>>
      BY <2>5 DEF CountExcess, PickExcess, Pending, redis
    <3>2. Others(i, t) /\ t \notin Cycle /\ a \in App /\ a \in claimed[i]
      BY <1>3, <2>5, <3>1, WorkFrame DEF Cycle, TypeOK
    <3>3. QED
      BY <1>3, <2>5, <3>1, <3>2, BackedKept DEF Backed
  <2>6. QED
    BY <1>3, <2>1, <2>2, <2>3, <2>4, <2>5 DEF Work
<1>4. QED
  BY <1>1, <1>2, <1>3

\* Every other step does, too.  Only time is delicate: what has not been renewed
\* by the end of the interval would expire.
LEMMA OtherBacked ==
  ASSUME Timely, TypeOK, Calm, Lifecycle, Backed, [Next]_vars,
         ~ \E i \in Instance, t \in Task : Work(i, t)
  PROVE  Backed'
<1> USE AppClaimAssumption
<1>0. /\ Cycle \subseteq Task /\ {"rebalance", "stop"} \subseteq Task
      /\ Slot \subseteq Cycle \ {"rebalance", "stop"} /\ "rebalance" \notin Cycle
      /\ Idle.pc = "idle" /\ At("heartbeat").pc = "heartbeat" /\ At("unregister") # Idle
      /\ At("count").pc = "count"
  BY DEF Cycle, Task, Idle, At, Await
<1> SUFFICES ASSUME NEW j \in Instance, NEW a \in claimed'[j]
             PROVE  Deleting(j, a)' \/ (holder'[a] = j /\ Fresh(j, a)')
  BY DEF Backed
<1>1. ASSUME claimed'[j] = claimed[j], task'[j] = task[j], timer'[j] = timer[j],
             UNCHANGED <<holder, ttl>>
      PROVE  Deleting(j, a)' \/ (holder'[a] = j /\ Fresh(j, a)')
  BY <1>1 DEF Backed, Deleting, Fresh
<1>2. ASSUME NEW i \in Instance, Start(i)
      PROVE  Deleting(j, a)' \/ (holder'[a] = j /\ Fresh(j, a)')
  <2>1. j # i
    BY <1>2 DEF Start, Lifecycle
  <2>2. QED
    BY <1>1, <1>2, <2>1 DEF Start, TypeOK, keys
<1>3. ASSUME NEW i \in Instance, TimerFires(i)
      PROVE  Deleting(j, a)' \/ (holder'[a] = j /\ Fresh(j, a)')
  <2>1. PICK s \in Slot : task[i][s] = Idle /\ task' = [task EXCEPT ![i][s] = At("heartbeat")]
    BY <1>3 DEF TimerFires
  <2>2. UNCHANGED <<holder, ttl, claimed>>
    BY <1>3 DEF TimerFires, redis
  <2>3. CASE j # i
    BY <1>1, <1>3, <2>1, <2>2, <2>3 DEF TimerFires, TypeOK
  <2>4. CASE j = i
    <3>1. /\ \A u \in Task \ {s} : task'[i][u] = task[i][u]
          /\ task'[i][s] = At("heartbeat")
      BY <1>0, <2>1 DEF TypeOK
    <3>2. Deleting(i, a) => Deleting(i, a)'
      BY <1>0, <2>1, <3>1 DEF Deleting
    <3>3. Fresh(i, a)'
      BY <1>0, <3>1 DEF Fresh, Visits
    <3>4. QED
      BY <2>2, <2>4, <3>2, <3>3 DEF Backed
  <2>5. QED
    BY <2>3, <2>4
<1>4. ASSUME NEW i \in Instance, JoinEvent(i)
      PROVE  Deleting(j, a)' \/ (holder'[a] = j /\ Fresh(j, a)')
  <2>1. /\ UNCHANGED <<holder, ttl, claimed, timer>>
        /\ \A u \in Task \ {"rebalance"} : task'[j][u] = task[j][u]
        /\ task[j]["rebalance"] # Idle => task'[j]["rebalance"] = task[j]["rebalance"]
    BY <1>0, <1>4 DEF JoinEvent, redis, TypeOK
  <2>2. Deleting(j, a) => Deleting(j, a)'
    BY <1>0, <2>1 DEF Deleting
  <2>3. Fresh(j, a) => Fresh(j, a)'
    BY <1>0, <2>1 DEF Fresh
  <2>4. QED
    BY <2>1, <2>2, <2>3 DEF Backed
<1>5. ASSUME NEW i \in Instance, Stop(i)
      PROVE  Deleting(j, a)' \/ (holder'[a] = j /\ Fresh(j, a)')
  <2>1. PICK next \in StopLoop({}, claimed[i]) : task' = [task EXCEPT ![i]["stop"] = next]
    BY <1>5 DEF Stop
  <2>2. next # Idle
    BY <2>1 DEF StopLoop, Await, At, Idle
  <2>3. UNCHANGED <<holder, ttl, claimed>> /\ task[i]["stop"] = Idle
    BY <1>5 DEF Stop, redis
  <2>4. CASE j # i
    BY <1>1, <1>5, <2>1, <2>3, <2>4 DEF Stop, TypeOK
  <2>5. CASE j = i
    <3>1. /\ \A u \in Task \ {"stop"} : task'[i][u] = task[i][u]
          /\ task'[i]["stop"] = next
      BY <1>0, <2>1 DEF TypeOK
    <3>2. Deleting(i, a) => Deleting(i, a)'
      BY <1>0, <2>3, <3>1 DEF Deleting
    <3>3. Fresh(i, a)'
      BY <2>2, <3>1 DEF Fresh
    <3>4. QED
      BY <2>3, <2>5, <3>2, <3>3 DEF Backed
  <2>6. QED
    BY <2>4, <2>5
<1>6. ASSUME NEW i \in Instance, Crash(i)
      PROVE  Deleting(j, a)' \/ (holder'[a] = j /\ Fresh(j, a)')
  <2>1. /\ j # i /\ claimed'[j] = claimed[j] /\ task'[j] = task[j] /\ timer'[j] = timer[j]
    BY <1>6, ExitFrame DEF Crash
  <2>2. QED
    BY <1>1, <1>6, <2>1 DEF Crash, redis
<1>7. ASSUME NEW i \in Instance, LoseJoin(i) \/ SetKnownApps(i)
      PROVE  Deleting(j, a)' \/ (holder'[a] = j /\ Fresh(j, a)')
  BY <1>1, <1>7 DEF LoseJoin, SetKnownApps, redis, process
<1>8. CASE Tick
  <2>1. /\ claimed' = claimed /\ task' = task
        /\ timer' = [i \in Instance |-> IF timer[i] = "off" THEN "off" ELSE "due"]
        /\ holder' = [b \in App |-> IF ttl[b] <= 1 THEN None ELSE holder[b]]
    BY <1>8 DEF Tick
  <2>2. timer[j] # "due" /\ \A t \in Task : task[j][t] = Idle
    BY <1>8, CalmStep DEF IntervalDone
  <2>3. ~Deleting(j, a)
    BY <1>0, <2>2 DEF Deleting
  <2>4. \A c \in Cycle : ~Visits(task[j][c], a)
    BY <1>0, <2>2 DEF Visits
  <2>5. a \in App /\ holder[a] = j /\ ttl[a] = LeaseTtl
    BY <1>0, <2>1, <2>2, <2>3, <2>4 DEF Backed, Fresh, TypeOK
  <2>6. timer[j] # "off"
    BY <1>0, <2>1, <2>2 DEF Lifecycle, Task, Cycle
  <2>7. timer'[j] = "due"
    BY <2>1, <2>6
  <2>8. holder'[a] = j
    BY <2>1, <2>5 DEF Timely
  <2>9. QED
    BY <2>7, <2>8 DEF Fresh
<1>9. CASE UNCHANGED vars
  BY <1>1, <1>9 DEF vars, redis, process
<1>10. /\ \A i \in Instance : ~FatalFailure(i) /\ ~Disconnect(i)
       /\ ~AdminScan /\ \A b \in App : ~AdminDelete(b)
  BY CalmStep DEF Timely, Calm, Disconnect, AdminScan, AdminDelete, Disturb
<1>11. QED
  BY <1>2, <1>3, <1>4, <1>5, <1>6, <1>7, <1>8, <1>9, <1>10 DEF Next

\* What holds in every reachable state of a timely system: see Timely.
TimelyInv == TypeOK /\ Calm /\ Lifecycle /\ Backed

\* Claims are backed by their keys as long as every interval's cycles end within
\* it, no command is rejected and nobody revokes a key: whatever the number of
\* instances, applications and overlapping cycles, and with stops, crashes, lost
\* join messages and changes to the list of applications.
THEOREM TimelyClaimsAreBacked ==
  ASSUME Timely PROVE Spec => []ClaimsAreBacked
<1>1. Init => TimelyInv
  <2>1. ASSUME Init PROVE Calm /\ Lifecycle /\ Backed
    BY <2>1 DEF Init, Calm, Lifecycle, Backed, Task, Cycle
  <2>2. QED
    BY <2>1, InitType DEF TimelyInv
<1>2. TimelyInv /\ [Next]_vars => TimelyInv'
  <2> SUFFICES ASSUME TimelyInv, [Next]_vars PROVE TimelyInv'
    OBVIOUS
  <2>1. TypeOK'
    BY WorkType, OtherType DEF TimelyInv
  <2>2. Calm' /\ \A i \in Instance, t \in Task : ~CommandFails(i, t)
    BY CalmStep DEF TimelyInv
  <2>3. Lifecycle'
    BY <2>2, WorkLifecycle, OtherLifecycle DEF TimelyInv
  <2>4. Backed'
    BY <2>2, WorkBacked, OtherBacked DEF TimelyInv
  <2>5. QED
    BY <2>1, <2>2, <2>3, <2>4 DEF TimelyInv
<1>3. TimelyInv => ClaimsAreBacked
  BY DEF TimelyInv, Backed, ClaimsAreBacked, Deleting, Ending
<1>4. QED
  BY <1>1, <1>2, <1>3, PTL DEF Spec

-----------------------------------------------------------------------------
(* What is processed                                                         *)

\* A step changes claims and processing together, or neither.
LEMMA ProcessingStep ==
  ASSUME TypeOK, StartsAtOnce, [Next]_vars
  PROVE  \/ UNCHANGED <<claimed, processing>>
         \/ \E i \in Instance, a \in App :
              /\ claimed' = [claimed EXCEPT ![i] = @ \cup {a}]
              /\ processing' = [processing EXCEPT ![i] = @ \cup {a}]
         \/ \E i \in Instance, a \in App : Detach(i, a)
         \/ \E i \in Instance : Exit(i)
<1>1. ASSUME NEW i \in Instance, NEW t \in Task, Claim(i, t)
      PROVE  \/ UNCHANGED <<claimed, processing>>
             \/ \E a \in App :
                  /\ claimed' = [claimed EXCEPT ![i] = @ \cup {a}]
                  /\ processing' = [processing EXCEPT ![i] = @ \cup {a}]
  <2>1. task[i][t].app \in App
    BY <1>1, TaskType DEF Claim, Pending, AppStep
  <2>2. QED
    BY <1>1, <2>1 DEF Claim
<1>2. ASSUME NEW i \in Instance, NEW t \in Task, Renew(i, t) \/ Released(i, t)
      PROVE  UNCHANGED <<claimed, processing>> \/ \E a \in App : Detach(i, a)
  <2>1. task[i][t].app \in App
    BY <1>2, TaskType DEF Renew, Released, Pending, AppStep
  <2>2. QED
    BY <1>2, <2>1 DEF Renew, Released
<1>3. ASSUME NEW i \in Instance, NEW t \in Task, Work(i, t),
             ~Claim(i, t), ~Renew(i, t), ~Released(i, t)
      PROVE  UNCHANGED <<claimed, processing>> \/ Exit(i)
  <2>1. ASSUME OnClaimed(i, t) PROVE UNCHANGED <<claimed, processing>>
    BY <2>1 DEF OnClaimed, TypeOK
  <2>2. CASE CommandFails(i, t)
    BY <2>2 DEF CommandFails
  <2>3. CASE ~CommandFails(i, t) /\ ~OnClaimed(i, t)
    BY <1>3, <2>3 DEF Work, Heartbeat, Check, Target, Release, OnReleased, Publish,
         CountExcess, PickExcess, Unregister
  <2>4. QED
    BY <2>1, <2>2, <2>3
<1>4. ASSUME NEW i \in Instance, Start(i) \/ TimerFires(i) \/ JoinEvent(i) \/ Stop(i)
      PROVE  UNCHANGED <<claimed, processing>>
  BY <1>4 DEF Start, TimerFires, JoinEvent, Stop
<1>5. ASSUME NEW i \in Instance, FatalFailure(i) \/ Crash(i)
      PROVE  Exit(i)
  BY <1>5 DEF FatalFailure, Crash
<1>6. ASSUME NEW i \in Instance, Disconnect(i) \/ LoseJoin(i) \/ SetKnownApps(i)
      PROVE  UNCHANGED <<claimed, processing>>
  BY <1>6 DEF Disconnect, LoseJoin, SetKnownApps, process
<1>7. CASE AdminScan \/ (\E a \in App : AdminDelete(a)) \/ Tick \/ UNCHANGED vars
  BY <1>7 DEF AdminScan, AdminDelete, Tick, vars, process
<1>8. QED
  BY <1>1, <1>2, <1>3, <1>4, <1>5, <1>6, <1>7 DEF Next

\* A service whose handler starts the work before it first awaits processes only
\* what it believes it has claimed, whatever goes wrong.  The dispatcher's does;
\* the ingestor's does not, and a run shows what follows.
THEOREM ProcessingIsClaimed ==
  ASSUME StartsAtOnce PROVE Spec => []ProcessesOnlyClaims
<1>1. Init => ProcessesOnlyClaims
  BY DEF Init, ProcessesOnlyClaims
<1>2. TypeOK /\ ProcessesOnlyClaims /\ [Next]_vars => ProcessesOnlyClaims'
  <2> SUFFICES ASSUME TypeOK, ProcessesOnlyClaims, [Next]_vars,
                      NEW j \in Instance
               PROVE  processing'[j] \subseteq claimed'[j]
    BY DEF ProcessesOnlyClaims
  <2>1. processing[j] \subseteq claimed[j]
    BY DEF ProcessesOnlyClaims
  <2>2. CASE UNCHANGED <<claimed, processing>>
    BY <2>1, <2>2
  <2>3. ASSUME NEW i \in Instance, NEW a \in App,
               claimed' = [claimed EXCEPT ![i] = @ \cup {a}],
               processing' = [processing EXCEPT ![i] = @ \cup {a}]
        PROVE  processing'[j] \subseteq claimed'[j]
    BY <2>1, <2>3 DEF TypeOK
  <2>4. ASSUME NEW i \in Instance, NEW a \in App, Detach(i, a)
        PROVE  processing'[j] \subseteq claimed'[j]
    BY <2>1, <2>4 DEF Detach, TypeOK
  <2>5. ASSUME NEW i \in Instance, Exit(i)
        PROVE  processing'[j] \subseteq claimed'[j]
    BY <2>1, <2>5 DEF Exit, TypeOK
  <2>6. QED
    BY <2>2, <2>3, <2>4, <2>5, ProcessingStep
<1>3. QED
  BY <1>1, <1>2, TypeCorrect, PTL DEF Spec

\* Two instances process one application only while one of them is being told
\* that it has released it: what is processed is claimed, what is claimed is
\* backed, and a key has one value.
THEOREM NoOverlapButEnding ==
  ASSUME Timely, StartsAtOnce PROVE Spec => []OverlapOnlyWhileEnding
<1>1. ClaimsAreBacked /\ ProcessesOnlyClaims => OverlapOnlyWhileEnding
  BY DEF ClaimsAreBacked, ProcessesOnlyClaims, OverlapOnlyWhileEnding
<1>2. QED
  BY <1>1, TimelyClaimsAreBacked, ProcessingIsClaimed, PTL

-----------------------------------------------------------------------------
(* AppClaim implements Lease                                                 *)

LEMMA AskingType ==
  ASSUME TypeOK
  PROVE  [i \in Instance |-> Asking(i)] \in [Instance -> SUBSET Leases!Request]
<1>1. ASSUME NEW i \in Instance, NEW t \in Task,
             task[i][t].pc \in {"claim", "renew", "release"}
      PROVE  <<task[i][t].pc, task[i][t].app>> \in Leases!Request
  BY <1>1, TaskType DEF AppStep, Leases!Request
<1>2. QED
  BY <1>1 DEF Asking

\* The commands on claim keys: SET NX, renewal, release, and their failures.
LEMMA CommandServes ==
  ASSUME TypeOK, NEW i \in Instance, NEW t \in Task,
         (t \in Cycle /\ (Claim(i, t) \/ Renew(i, t))) \/ Release(i, t) \/ CommandFails(i, t)
  PROVE  Leases!Change \/ UNCHANGED Leases!leases
<1> DEFINE me == task[i][t]
           a == me.app
           Ask == [j \in Instance |-> Asking(j)]
<1>1. \A pc \in {"claim", "renew", "release"} :
        me.pc = pc => a \in App /\ <<pc, a>> \in Ask[i]
  BY TaskType DEF AppStep, Asking
<1>2. ASSUME me.pc = "claim", holder[a] = None,
             holder' = [holder EXCEPT ![a] = i], ttl' = [ttl EXCEPT ![a] = LeaseTtl],
             (claimed' = [claimed EXCEPT ![i] = @ \cup {a}]) \/ UNCHANGED claimed,
             UNCHANGED revoking
      PROVE  Leases!Change
  BY <1>1, <1>2 DEF Leases!Change, Leases!Acquire
<1>3. ASSUME me.pc = "release", DeleteIfOwner(i, a), UNCHANGED <<claimed, revoking>>
      PROVE  Leases!Change \/ UNCHANGED Leases!leases
  <2>1. CASE holder[a] = i
    <3>1. /\ holder' = [holder EXCEPT ![a] = None]
          /\ ttl' = [ttl EXCEPT ![a] = 0]
      BY <1>1, <1>3, <2>1 DEF DeleteIfOwner, TypeOK
    <3>2. QED
      BY <1>1, <1>3, <2>1, <3>1 DEF Leases!Change, Leases!GiveUp
  <2>2. CASE holder[a] # i
    <3>1. UNCHANGED <<holder, ttl>>
      BY <1>3, <2>2 DEF DeleteIfOwner, TypeOK
    <3>2. QED
      BY <1>3, <3>1 DEF Leases!leases
  <2>3. QED
    BY <2>1, <2>2
<1>4. CASE t \in Cycle /\ Claim(i, t)
  <2>1. CASE holder[a] = None
    BY <1>2, <1>4, <2>1 DEF Claim, Pending, env
  <2>2. CASE holder[a] # None
    BY <1>4, <2>2 DEF Claim, keys, env, Leases!leases
  <2>3. QED
    BY <2>1, <2>2
<1>5. CASE t \in Cycle /\ Renew(i, t)
  <2>1. me.pc = "renew" /\ UNCHANGED <<holder, revoking>>
    BY <1>5 DEF Renew, Pending, env
  <2>2. CASE holder[a] = i
    BY <1>1, <1>5, <2>1, <2>2 DEF Renew, Leases!Change, Leases!Renew
  <2>3. CASE holder[a] # i
    <3>1. UNCHANGED ttl /\ claimed' = [claimed EXCEPT ![i] = @ \ {a}]
      BY <1>5, <2>3 DEF Renew, Detach
    <3>2. {a} \in SUBSET App
      BY <1>1, <2>1
    <3>3. QED
      BY <2>1, <3>1, <3>2 DEF Leases!Change, Leases!Forget
  <2>4. QED
    BY <2>2, <2>3
<1>6. CASE Release(i, t)
  BY <1>3, <1>6 DEF Release, Pending, env
<1>7. CASE CommandFails(i, t)
  <2>1. UNCHANGED <<claimed, revoking>>
    BY <1>7 DEF CommandFails
  <2>2. CASE UNCHANGED keys
    BY <2>1, <2>2 DEF keys, Leases!leases
  <2>3. CASE ~UNCHANGED keys
    <3>1. \/ /\ me.pc = "claim" /\ holder[a] = None
             /\ holder' = [holder EXCEPT ![a] = i] /\ ttl' = [ttl EXCEPT ![a] = LeaseTtl]
          \/ me.pc = "release" /\ DeleteIfOwner(i, a)
      BY <1>7, <2>3 DEF CommandFails
    <3>2. QED
      BY <1>2, <1>3, <2>1, <3>1
  <2>4. QED
    BY <2>2, <2>3
<1>8. QED
  BY <1>4, <1>5, <1>6, <1>7

LEMMA ExitForgets ==
  ASSUME TypeOK, NEW i \in Instance, Exit(i), UNCHANGED <<holder, ttl, revoking>>
  PROVE  Leases!Change
<1>1. claimed' = [claimed EXCEPT ![i] = @ \ App]
  BY DEF Exit, TypeOK
<1>2. QED
  BY <1>1 DEF Leases!Change, Leases!Forget

\* Every step is a step of the lease service or leaves it alone.
LEMMA StepServes ==
  ASSUME TypeOK, [Next]_vars
  PROVE  Leases!Change \/ UNCHANGED Leases!leases
<1>1. ASSUME UNCHANGED <<holder, ttl, revoking, claimed>>
      PROVE  UNCHANGED Leases!leases
  BY <1>1 DEF Leases!leases
<1>2. ASSUME NEW i \in Instance, NEW t \in Task, Work(i, t)
      PROVE  Leases!Change \/ UNCHANGED Leases!leases
  <2>1. CASE (t \in Cycle /\ (Claim(i, t) \/ Renew(i, t))) \/ Release(i, t) \/ CommandFails(i, t)
    BY <2>1, CommandServes
  <2>2. CASE Released(i, t)
    <3>1. task[i][t].app \in App
      BY <2>2, TaskType DEF Released, AppStep
    <3>2. {task[i][t].app} \in SUBSET App
      BY <3>1
    <3>3. QED
      BY <2>2, <3>2 DEF Released, Detach, redis, env, Leases!Change, Leases!Forget
  <2>3. CASE Unregister(i)
    BY <2>3, ExitForgets DEF Unregister, keys, env
  <2>4. CASE t \in Cycle /\ (Heartbeat(i, t) \/ Check(i, t) \/ Target(i, t) \/ OnClaimed(i, t))
    BY <1>1, <2>4 DEF Heartbeat, Check, Target, OnClaimed, redis, keys, env
  <2>5. CASE OnReleased(i, t) \/ Publish(i) \/ CountExcess(i) \/ PickExcess(i)
    BY <1>1, <2>5 DEF OnReleased, Publish, CountExcess, PickExcess, redis, env
  <2>6. QED
    BY <1>2, <2>1, <2>2, <2>3, <2>4, <2>5 DEF Work
<1>3. ASSUME NEW i \in Instance,
             \/ Start(i) \/ TimerFires(i) \/ JoinEvent(i) \/ Stop(i)
             \/ Disconnect(i) \/ LoseJoin(i) \/ SetKnownApps(i)
      PROVE  UNCHANGED Leases!leases
  BY <1>1, <1>3 DEF Start, TimerFires, JoinEvent, Stop, Disconnect, LoseJoin, SetKnownApps,
       redis, keys, env, process
<1>4. ASSUME NEW i \in Instance, FatalFailure(i) \/ Crash(i)
      PROVE  Leases!Change
  BY <1>4, ExitForgets DEF FatalFailure, Crash, redis
<1>5. CASE AdminScan
  BY <1>5 DEF AdminScan, redis, process, Leases!Change, Leases!Condemn
<1>6. ASSUME NEW a \in App, AdminDelete(a) PROVE Leases!Change
  BY <1>6 DEF AdminDelete, process, Leases!Change, Leases!Revoke
<1>7. CASE Tick
  BY <1>7 DEF Tick, Less, Leases!Change, Leases!Pass
<1>8. CASE UNCHANGED vars
  BY <1>1, <1>8 DEF vars, redis, process, env
<1>9. QED
  BY <1>2, <1>3, <1>4, <1>5, <1>6, <1>7, <1>8 DEF Next

\* Whatever goes wrong, the claim keys and what the instances believe of them
\* behave as the lease service allows.
THEOREM ImplementsLease == Spec => LeaseSpec
<1>1. Init => Leases!Init
  BY DEF Init, Leases!Init, Asking, Idle, Await
<1>2. TypeOK /\ TypeOK' /\ [Next]_vars => [Leases!Next]_Leases!vars
  <2>1. TypeOK' => ([i \in Instance |-> Asking(i)] \in [Instance -> SUBSET Leases!Request])'
    BY AskingType, PTL
  <2>2. QED
    BY <2>1, StepServes DEF Leases!Next
<1>3. QED
  BY <1>1, <1>2, TypeCorrect, PTL DEF Spec, LeaseSpec, Leases!Spec

=============================================================================
