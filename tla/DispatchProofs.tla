---------------------------- MODULE DispatchProofs ----------------------------
(***************************************************************************)
(* More theorems about Deliver: what a loop does with the message it has,  *)
(* so that first dispatches are alone, and how old an answer may be that   *)
(* the cache gives.                                                        *)
(***************************************************************************)
EXTENDS DeliverProofs

-----------------------------------------------------------------------------
(* Whom the messages are with                                               *)

\* A loop that was at l goes on at k with what it has, or gives it up ...
Carries(l, k) ==
  /\ k.msg = 0 \/ k.msg = l.msg \/ k.msg \in l.batch
  /\ k.batch \subseteq l.batch
  /\ FirstDispatch(k) => FirstDispatch(l) /\ k.msg = l.msg /\ k.spent = l.spent

\* ... or goes through what XAUTOCLAIM gave it ...
Claims(i, l, k) ==
  /\ l.pc = "autoclaim" /\ pel' = Autoclaimed(i, l.cursor)
  /\ k.msg = 0 \/ k.msg \in Taken(l.cursor)
  /\ k.batch \subseteq Taken(l.cursor)
  /\ ~FirstDispatch(k)

\* ... or begins with what XREADGROUP gave it.
Reads(i, l, k) ==
  /\ l.pc = "read" /\ Unread # {} /\ Deliverable(i, First(Unread))
  /\ k.msg = 0 \/ k.msg = First(Unread)
  /\ k.batch = {}

LoopActs(i, s) ==
  \/ LoopStep(i, s) \/ CommandFails(i, s) \/ DeliveryCountUnknown(i, s)
  \/ DispatchFails(i, s) \/ Disconnect(i, s)

LEMMA LoopGoesOn ==
  ASSUME DeliverInv, NEW i \in Instance, NEW s \in Slot, LoopActs(i, s)
  PROVE  \E k : /\ Put(i, s, k)
                /\ k.pc = "fetched" => k.data = status /\ status' = status
                /\ \/ Carries(loop[i][s], k)
                   \/ Claims(i, loop[i][s], k)
                   \/ Reads(i, loop[i][s], k)
<1>1. PICK l : l = loop[i][s]
  OBVIOUS
<1>2. LoopOK(l) /\ Shape(l) /\ l \in LoopRecord /\ (l.pc \notin Resting => Held(l) /\ l.msg # 0)
  BY <1>1, TheLoop DEF Held
<1> DEFINE Goal == \E k : /\ Put(i, s, k)
                          /\ k.pc = "fetched" => k.data = status /\ status' = status
                          /\ Carries(l, k) \/ Claims(i, l, k) \/ Reads(i, l, k)
<1>0. ASSUME NEW k, Put(i, s, k), k.pc # "fetched" \/ (k.data = status /\ status' = status),
             Carries(l, k) \/ Claims(i, l, k) \/ Reads(i, l, k)
      PROVE  Goal
  BY <1>0
<1> SUFFICES Goal
  BY <1>1
<1> HIDE DEF Goal
<1>3. ASSUME NEW k, Put(i, s, k), k.msg = 0, k.batch = {}, k.pc \in {"off", "autoclaim", "read"}
      PROVE  Goal
  <2>1. Carries(l, k)
    BY <1>3 DEF Carries, FirstDispatch, DispatchStep
  <2>2. QED
    BY <1>0, <1>3, <2>1
<1>4. Put(i, s, Off) => Goal
  BY <1>3, OffShape
<1>5. Put(i, s, Top(l)) => Goal
  BY <1>2, <1>3, TopShape
<1>6. Put(i, s, RecoveryDone(l)) => Goal
  BY <1>2, <1>3, RecoveryDoneShape
<1>7. Put(i, s, MessageDone(l)) /\ l.msg # 0 => Goal
  <2> SUFFICES ASSUME Put(i, s, MessageDone(l)), l.msg # 0 PROVE Goal
    OBVIOUS
  <2>1. PICK k : k = MessageDone(l)
    OBVIOUS
  <2>2. /\ k.pc \in {"off", "autoclaim", "read", "count"} /\ k.batch \subseteq l.batch
        /\ k.msg # 0 => k.msg \in l.batch
    BY <1>2, <2>1, MessageDoneShape
  <2>3. Carries(l, k)
    BY <2>2 DEF Carries, FirstDispatch, DispatchStep
  <2>4. QED
    BY <1>0, <2>1, <2>2, <2>3
<1>8. ASSUME Held(l), NEW pc \in {"bury", "buried"}, Put(i, s, At(l, pc)), l.redo
      PROVE  Goal
  <2>1. PICK k : k = At(l, pc)
    OBVIOUS
  <2>2. k.pc = pc /\ k.msg = l.msg /\ k.batch = l.batch
    BY <1>8, <2>1, AtShape
  <2>3. Carries(l, k)
    BY <2>2 DEF Carries, FirstDispatch, DispatchStep
  <2>4. QED
    BY <1>0, <1>8, <2>1, <2>2, <2>3
<1>9. ASSUME NEW h, Held(h), Process(i, s, h)
      PROVE  \E k : /\ Put(i, s, k) /\ k.pc # "fetched"
                    /\ \/ k.msg = 0 /\ k.batch = {} /\ k.pc = "off"
                       \/ /\ k.msg = h.msg /\ k.batch = h.batch /\ (k.redo <=> h.redo)
  <2>1. PICK k : /\ Put(i, s, k)
                 /\ k = Acknowledge(h) \/ k = At(h, "fetch") \/ k = Judge(h, cache[i].data)
    BY <1>9 DEF Process
  <2>2. CASE k = Acknowledge(h)
    BY <1>9, <2>1, <2>2, AcknowledgeShape, OffShape
  <2>3. CASE k = At(h, "fetch")
    BY <1>9, <2>1, <2>3, AtShape
  <2>4. CASE k = Judge(h, cache[i].data)
    <3>1. PICK data : data = cache[i].data
      OBVIOUS
    <3>2. k = Judge(h, data)
      BY <2>4, <3>1
    <3>3. /\ k.pc = "log" \/ k.pc = "ack" \/ k = Off
          /\ k = Off \/ (k.msg = h.msg /\ k.batch = h.batch /\ (k.redo <=> h.redo))
      BY <1>9, <3>2, JudgeShape
    <3>4. QED
      BY <2>1, <3>3, OffShape
  <2>5. QED
    BY <2>1, <2>2, <2>3, <2>4
<1>10. ASSUME l.pc = "count", Process(i, s, l) PROVE Goal
  <2>1. Held(l) /\ l.redo
    BY <1>2, <1>10 DEF Shape, Resting
  <2>2. PICK k : /\ Put(i, s, k) /\ k.pc # "fetched"
                 /\ \/ k.msg = 0 /\ k.batch = {} /\ k.pc = "off"
                    \/ k.msg = l.msg /\ k.batch = l.batch /\ (k.redo <=> l.redo)
    BY <1>9, <1>10, <2>1
  <2>3. Carries(l, k)
    BY <2>1, <2>2 DEF Carries, FirstDispatch, DispatchStep
  <2>4. QED
    BY <1>0, <2>2, <2>3
<1>11. CASE EnsureConsumerGroup(i, s) \/ Disconnect(i, s)
  BY <1>1, <1>4, <1>5, <1>11 DEF EnsureConsumerGroup, Disconnect
<1>12. CASE Autoclaim(i, s)
  <2>1. PICK taken : taken = Taken(l.cursor)
    OBVIOUS
  <2>2. PICK cursor : cursor = NextCursor(l.cursor)
    OBVIOUS
  <2> DEFINE next == [l EXCEPT !.batch = taken, !.cursor = cursor]
  <2>3. PICK k : k = IF taken = {} THEN RecoveryDone(l) ELSE NextClaimed(next)
    OBVIOUS
  <2>4. /\ l.pc = "autoclaim" /\ pel' = Autoclaimed(i, l.cursor) /\ Put(i, s, k)
    BY <1>1, <1>12, <2>1, <2>2, <2>3 DEF Autoclaim
  <2>5. CASE taken = {}
    BY <1>6, <2>3, <2>4, <2>5
  <2>6. CASE taken # {}
    <3>1. PICK b : b = next
      OBVIOUS
    <3>2. k = NextClaimed(b) /\ b = [l EXCEPT !.batch = Taken(l.cursor), !.cursor = NextCursor(l.cursor)]
      BY <2>1, <2>2, <2>3, <2>6, <3>1
    <3> HIDE DEF next
    <3>3. Between(b) /\ b.batch = taken
      BY <1>2, <2>1, <2>4, <3>2, ClaimedBetween
    <3>4. /\ k.pc \in {"off", "autoclaim", "read", "count"} /\ k.batch \subseteq taken
          /\ k.msg # 0 => k.msg \in taken
      BY <3>2, <3>3, NextClaimedShape
    <3>5. Claims(i, l, k)
      BY <2>1, <2>4, <3>4 DEF Claims, FirstDispatch, DispatchStep
    <3>6. QED
      BY <1>0, <2>4, <3>4, <3>5
  <2>7. QED
    BY <2>5, <2>6
<1>13. CASE DeliveryCount(i, s) \/ DeliveryCountUnknown(i, s)
  <2>1. /\ l.pc = "count"
        /\ Process(i, s, l) \/ Put(i, s, IF l.running THEN At(l, "bury") ELSE Off)
    BY <1>1, <1>13 DEF DeliveryCount, DeliveryCountUnknown
  <2>2. Held(l) /\ l.redo
    BY <1>2, <2>1 DEF Shape, Resting
  <2>3. QED
    BY <1>4, <1>8, <1>10, <2>1, <2>2
<1>14. CASE Bury(i, s)
  <2>1. l.pc = "bury" /\ Put(i, s, IF l.running THEN At(l, "buried") ELSE Off)
    BY <1>1, <1>14 DEF Bury
  <2>2. Held(l) /\ l.redo
    BY <1>2, <2>1 DEF Shape, Resting
  <2>3. QED
    BY <1>4, <1>8, <2>1, <2>2
<1>15. CASE Ack(i, s) \/ DispatchFails(i, s)
  <2>1. Put(i, s, MessageDone(l)) /\ l.pc \in {"ack", "buried"} \cup DispatchStep
    BY <1>1, <1>15 DEF Ack, DispatchFails
  <2>2. QED
    BY <1>2, <1>7, <2>1 DEF Resting, DispatchStep
<1>16. CASE CommandFails(i, s)
  <2>1. \/ Put(i, s, RecoveryDone(l)) \/ Put(i, s, Top(l))
        \/ l.pc = "ack" /\ Put(i, s, MessageDone(l))
    BY <1>1, <1>16 DEF CommandFails
  <2>2. QED
    BY <1>2, <1>5, <1>6, <1>7, <2>1 DEF Resting
<1>17. CASE Read(i, s)
  <2>1. CASE Unread = {}
    BY <1>1, <1>5, <1>17, <2>1 DEF Read
  <2>2. CASE Unread # {}
    <3>1. PICK n : n = First(Unread)
      OBVIOUS
    <3>2. PICK h : h = [l EXCEPT !.msg = n]
      OBVIOUS
    <3>3. l.pc = "read" /\ Deliverable(i, First(Unread)) /\ Process(i, s, h)
      BY <1>1, <1>17, <2>2, <3>1, <3>2 DEF Read
    <3>4. n \in Message
      BY <2>2, <3>1, <3>3, DeliverableMoves
    <3>5. Held(h) /\ h.msg = n /\ h.batch = {}
      BY <1>2, <3>2, <3>3, <3>4, ReadShape
    <3>6. PICK k : /\ Put(i, s, k) /\ k.pc # "fetched"
                   /\ \/ k.msg = 0 /\ k.batch = {} /\ k.pc = "off"
                      \/ k.msg = h.msg /\ k.batch = h.batch /\ (k.redo <=> h.redo)
      BY <1>9, <3>3, <3>5
    <3>7. Reads(i, l, k)
      BY <2>2, <3>1, <3>3, <3>5, <3>6 DEF Reads
    <3>8. QED
      BY <1>0, <3>6, <3>7
  <2>3. QED
    BY <2>1, <2>2
<1>18. CASE Fetch(i, s)
  <2>1. PICK k : k = [l EXCEPT !.pc = "fetched", !.data = status]
    OBVIOUS
  <2>2. Put(i, s, k) /\ status' = status /\ l.pc = "fetch"
    BY <1>1, <1>18, <2>1 DEF Fetch, database
  <2>3. /\ k.pc = "fetched" /\ k.msg = l.msg /\ k.batch = l.batch /\ k.data = status
        /\ (k.redo <=> l.redo) /\ k.spent = l.spent
    BY <1>2, <2>1 DEF LoopRecord
  <2>4. Carries(l, k)
    BY <2>2, <2>3 DEF Carries, FirstDispatch, DispatchStep
  <2>5. QED
    BY <1>0, <2>2, <2>3, <2>4
<1>19. CASE Fetched(i, s)
  <2>1. PICK data : data = l.data
    OBVIOUS
  <2>2. PICK k : k = Judge(l, data)
    OBVIOUS
  <2>3. Put(i, s, k) /\ l.pc = "fetched" /\ Held(l)
    BY <1>1, <1>2, <1>19, <2>1, <2>2 DEF Fetched, Resting
  <2>4. /\ k.pc = "log" \/ k.pc = "ack" \/ k = Off
        /\ k = Off \/ (k.msg = l.msg /\ k.batch = l.batch /\ (k.redo <=> l.redo))
        /\ k.pc = "log" => k.spent = l.spent
    BY <2>2, <2>3, JudgeShape
  <2>5. Carries(l, k)
    BY <2>3, <2>4, OffShape DEF Carries, FirstDispatch, DispatchStep
  <2>6. QED
    BY <1>0, <2>3, <2>4, <2>5, OffShape
<1>20. CASE CreateLog(i, s)
  <2>1. PICK k : k = [l EXCEPT !.pc = "call", !.attempt = 1]
    OBVIOUS
  <2>2. Put(i, s, k) /\ l.pc = "log"
    BY <1>1, <1>20, <2>1 DEF CreateLog
  <2>3. /\ k.pc = "call" /\ k.msg = l.msg /\ k.batch = l.batch
        /\ (k.redo <=> l.redo) /\ k.spent = l.spent
    BY <1>2, <2>1 DEF LoopRecord
  <2>4. Carries(l, k)
    BY <2>2, <2>3 DEF Carries, FirstDispatch, DispatchStep
  <2>5. QED
    BY <1>0, <2>2, <2>3, <2>4
<1>21. CASE Call(i, s)
  <2>1. PICK k : /\ Put(i, s, k)
                 /\ \/ k = [l EXCEPT !.pc = "mark", !.attempt = 0, !.data = "active"]
                    \/ k = [l EXCEPT !.attempt = l.attempt + 1]
                    \/ k = [l EXCEPT !.pc = "mark", !.attempt = 0]
    <3>1. PICK accepts \in BOOLEAN, heard \in BOOLEAN :
             Put(i, s, IF accepts /\ heard
                       THEN [l EXCEPT !.pc = "mark", !.attempt = 0, !.data = "active"]
                     ELSE IF l.attempt <= MaxRetries THEN [l EXCEPT !.attempt = @ + 1]
                     ELSE [l EXCEPT !.pc = "mark", !.attempt = 0])
      BY <1>1, <1>21 DEF Call
    <3>2. PICK k : k = IF accepts /\ heard
                       THEN [l EXCEPT !.pc = "mark", !.attempt = 0, !.data = "active"]
                     ELSE IF l.attempt <= MaxRetries THEN [l EXCEPT !.attempt = @ + 1]
                     ELSE [l EXCEPT !.pc = "mark", !.attempt = 0]
      OBVIOUS
    <3>3. QED
      BY <3>1, <3>2
  <2>2. l.pc = "call"
    BY <1>1, <1>21 DEF Call
  <2>3. /\ k.pc \in {"call", "mark"} /\ k.msg = l.msg /\ k.batch = l.batch
        /\ (k.redo <=> l.redo) /\ k.spent = l.spent
    BY <1>2, <2>1, <2>2 DEF LoopRecord
  <2>4. Carries(l, k)
    BY <2>2, <2>3 DEF Carries, FirstDispatch, DispatchStep
  <2>5. QED
    BY <1>0, <2>1, <2>3, <2>4
<1>22. CASE Mark(i, s)
  <2>1. PICK g : g = [l EXCEPT !.data = "gone"]
    OBVIOUS
  <2>2. /\ l.pc = "mark" /\ l.msg # 0 /\ Held(l)
        /\ Put(i, s, IF l.data = "active" THEN Acknowledge(g) ELSE MessageDone(l))
    BY <1>1, <1>2, <1>22, <2>1 DEF Mark, Resting
  <2>3. CASE l.data = "active"
    <3>1. /\ g \in LoopRecord /\ g.msg = l.msg /\ g.batch = l.batch /\ (g.redo <=> l.redo)
          /\ g.cursor = l.cursor /\ g.handled = l.handled
      BY <1>2, <2>1 DEF LoopRecord, Status
    <3>2. Held(g)
      BY <2>2, <3>1 DEF Held, Scan
    <3>3. PICK k : k = Acknowledge(g)
      OBVIOUS
    <3>4. \/ k = Off
          \/ k.pc = "ack" /\ k.msg = l.msg /\ k.batch = l.batch
      BY <3>1, <3>2, <3>3, AcknowledgeShape
    <3>5. Carries(l, k)
      BY <3>4, OffShape DEF Carries, FirstDispatch, DispatchStep
    <3>6. QED
      BY <1>0, <2>2, <2>3, <3>3, <3>4, <3>5, OffShape
  <2>4. CASE l.data # "active"
    BY <1>7, <2>2, <2>4
  <2>5. QED
    BY <2>3, <2>4
<1>23. QED
  BY <1>11, <1>12, <1>13, <1>14, <1>15, <1>16, <1>17, <1>18, <1>19, <1>20, <1>21, <1>22 DEF LoopStep, LoopActs

\* A loop that does not move by itself stays where it is, but may be stopped or start.
Stands(l, k) == /\ k.pc = l.pc /\ k.msg = l.msg /\ k.batch = l.batch
                /\ (k.redo <=> l.redo) /\ k.data = l.data
Rests(k)     == k.msg = 0 /\ k.batch = {} /\ k.pc \in {"off", "group"}

Others ==
  /\ \A i \in Instance, s \in Slot :
       \/ Stands(loop[i][s], loop'[i][s]) /\ loop'[i][s].spent = loop[i][s].spent
       \/ Rests(loop'[i][s])
  /\ \A m \in Message : pel'[m] # None => pel'[m] = pel[m]

LEMMA StartMoves ==
  ASSUME DeliverInv, NEW i \in Instance, NEW s \in Slot, StartConsumer(i, s)
  PROVE  Others
<1>1. PICK k : k = [Off EXCEPT !.pc = "group", !.running = TRUE, !.due = TRUE]
  OBVIOUS
<1>2. Put(i, s, k) /\ pel' = pel
  BY <1>1 DEF StartConsumer, redis
<1>3. Rests(k)
  BY <1>1 DEF Off, Rests
<1>4. /\ loop'[i][s] = k
      /\ \A j \in Instance, t \in Slot : <<j, t>> # <<i, s>> => loop'[j][t] = loop[j][t]
  BY <1>2, PutLoop DEF DeliverInv
<1>5. ASSUME NEW j \in Instance, NEW t \in Slot
      PROVE  \/ Stands(loop[j][t], loop'[j][t]) /\ loop'[j][t].spent = loop[j][t].spent
             \/ Rests(loop'[j][t])
  BY <1>3, <1>4 DEF Stands
<1>6. QED
  BY <1>2, <1>5 DEF Others

LEMMA StopMoves ==
  ASSUME DeliverInv, NEW i \in Instance, StopConsumer(i)
  PROVE  Others
<1>1. /\ loop' = [loop EXCEPT ![i][consumers[i]].running = FALSE]
      /\ consumers[i] \in Slot /\ pel' = pel /\ LoopTypes
  BY DEF StopConsumer, redis, DeliverInv, LoopTypes
<1>2. PICK k : k = [loop[i][consumers[i]] EXCEPT !.running = FALSE]
  OBVIOUS
<1>3. Stands(loop[i][consumers[i]], k) /\ k.spent = loop[i][consumers[i]].spent
  BY <1>1, <1>2 DEF LoopTypes, LoopRecord, Stands
<1>4. /\ loop'[i][consumers[i]] = k
      /\ \A j \in Instance, s \in Slot :
           <<j, s>> # <<i, consumers[i]>> => loop'[j][s] = loop[j][s]
  BY <1>1, <1>2 DEF LoopTypes
<1>5. ASSUME NEW j \in Instance, NEW t \in Slot
      PROVE  Stands(loop[j][t], loop'[j][t]) /\ loop'[j][t].spent = loop[j][t].spent
  BY <1>3, <1>4 DEF Stands
<1>6. QED
  BY <1>1, <1>5 DEF Others

LEMMA CrashMoves ==
  ASSUME DeliverInv, NEW i \in Instance, Crash(i)
  PROVE  Others
<1>1. loop' = [loop EXCEPT ![i] = [s \in Slot |-> Off]] /\ pel' = pel /\ LoopTypes
  BY DEF Crash, redis, DeliverInv
<1>2. Rests(Off)
  BY DEF Off, Rests
<1>3. ASSUME NEW j \in Instance, NEW t \in Slot
      PROVE  \/ Stands(loop[j][t], loop'[j][t]) /\ loop'[j][t].spent = loop[j][t].spent
             \/ Rests(loop'[j][t])
  <2>1. CASE j = i
    BY <1>1, <1>2, <2>1 DEF LoopTypes
  <2>2. CASE j # i
    BY <1>1, <2>2 DEF LoopTypes, Stands
  <2>3. QED
    BY <2>1, <2>2
<1>4. QED
  BY <1>1, <1>3 DEF Others

LEMMA TickMoves ==
  ASSUME DeliverInv, Tick, NEW i \in Instance, NEW s \in Slot
  PROVE  /\ Stands(loop[i][s], loop'[i][s])
         /\ loop'[i][s].spent = IF loop[i][s].pc \in DispatchStep THEN 1 ELSE 0
<1>1. PICK l : l = loop[i][s]
  OBVIOUS
<1>2. loop'[i][s] = [l EXCEPT !.due = l.pc # "off",
                              !.spent = IF l.pc \in DispatchStep THEN 1 ELSE 0]
  BY <1>1 DEF Tick
<1>3. l \in LoopRecord
  BY <1>1, TheLoop
<1>4. QED
  BY <1>1, <1>2, <1>3 DEF LoopRecord, Stands

\* A step is one of a loop, the clock, or none of the loops moves.
LEMMA StepMoves ==
  ASSUME DeliverInv, [Next]_vars
  PROVE  \/ \E i \in Instance, s \in Slot : LoopActs(i, s)
         \/ Tick
         \/ Others
<1>1. ASSUME loop' = loop, pel' = pel PROVE Others
  BY <1>1 DEF Others, Stands
<1>2. ASSUME NEW i \in Instance, InstanceStep(i) PROVE Others
  <2>1. CASE DeleteConsumer(i)
    BY <2>1 DEF DeleteConsumer, Others, Stands
  <2>2. CASE RefreshRead(i) \/ Refreshed(i) \/ InvalidateCache(i)
    BY <1>1, <2>2 DEF RefreshRead, Refreshed, InvalidateCache, redis
  <2>3. QED
    BY <1>2, <2>1, <2>2 DEF InstanceStep
<1>3. CASE Started
  BY <1>3, StartMoves DEF Started
<1>4. ASSUME NEW i \in Instance, StopConsumer(i) \/ Crash(i) \/ RefreshFails(i) PROVE Others
  BY <1>1, <1>4, StopMoves, CrashMoves DEF RefreshFails, redis
<1>5. CASE Maintenance
  BY <1>1, <1>5 DEF Maintenance, Trim, EmergencyTrim, Inspect, instance, redis
<1>6. CASE Platform \/ (\E m \in Message : GrowOld(m))
  <2>1. loop' = loop /\ pel' = pel
    BY <1>6 DEF Platform, Publish, PublishMalformed, RetryLog, Signal, ChangeSilently, SetStatus,
                GrowOld, redis, instance
  <2>2. QED
    BY <1>1, <2>1
<1>7. CASE UNCHANGED vars
  BY <1>1, <1>7 DEF vars, redis, instance
<1>8. QED
  BY <1>2, <1>3, <1>4, <1>5, <1>6, <1>7 DEF Next, Fault, LoopActs

-----------------------------------------------------------------------------
(* What the cache answers                                                   *)

\* What a step of a loop does to the cache: an entry is what was just fetched.
LEMMA LoopCaches ==
  ASSUME DeliverInv, NEW i \in Instance, NEW s \in Slot, LoopActs(i, s)
  PROVE  /\ status' = status /\ changed' = changed
         /\ \A j \in Instance : refresh'[j] \in Status => refresh'[j] = refresh[j]
         /\ \A j \in Instance :
              \/ cache'[j] = cache[j]
              \/ /\ loop[i][s].pc = "fetched"
                 /\ cache'[j] = Entry(loop[i][s].data)
<1>1. status' = status /\ changed' = changed
  BY DEF LoopActs, LoopStep, EnsureConsumerGroup, Autoclaim, DeliveryCount, Bury, Ack, Read, Fetch, Fetched,
         CreateLog, Call, Mark, CommandFails, DeliveryCountUnknown, DispatchFails, Disconnect, database
<1>2. refresh \in [Instance -> Status \cup {"no", "asked"}] /\ cache \in [Instance -> CacheEntry \cup {None}]
  BY DEF DeliverInv, CacheTypes
<1>3. ASSUME NEW j \in Instance, refresh'[j] \in Status PROVE refresh'[j] = refresh[j]
  <2>1. \A l : Process(i, s, l) => refresh' = refresh \/ refresh' = [refresh EXCEPT ![i] = "asked"]
    BY DEF Process, Revalidate
  <2>2. refresh' = refresh \/ refresh' = [refresh EXCEPT ![i] = "asked"]
    BY <2>1, Zenon
       DEF LoopActs, LoopStep, EnsureConsumerGroup, Autoclaim, DeliveryCount, Bury, Ack, Read, Fetch, Fetched,
           CreateLog, Call, Mark, CommandFails, DeliveryCountUnknown, DispatchFails, Disconnect
  <2>3. QED
    BY <1>2, <1>3, <2>2 DEF Status
<1>4. ASSUME NEW j \in Instance
      PROVE  \/ cache'[j] = cache[j]
             \/ loop[i][s].pc = "fetched" /\ cache'[j] = Entry(loop[i][s].data)
  <2>1. CASE Fetched(i, s)
    BY <1>2, <2>1 DEF Fetched
  <2>2. CASE ~Fetched(i, s)
    BY <2>2
       DEF LoopActs, LoopStep, EnsureConsumerGroup, Autoclaim, DeliveryCount, Bury, Ack, Read, Fetch,
           CreateLog, Call, Mark, CommandFails, DeliveryCountUnknown, DispatchFails, Disconnect
  <2>3. QED
    BY <2>1, <2>2
<1>5. QED
  BY <1>1, <1>3, <1>4

\* A step that asks the database nothing and stores no answer.
LEMMA CacheRests ==
  ASSUME DeliverInv, CacheOK, Others,
         \/ status' = status /\ changed' = changed
         \/ changed' = 0,
         \A j \in Instance : refresh'[j] \in Status => refresh'[j] = refresh[j],
         \A j \in Instance : cache'[j] # None =>
           /\ cache[j] # None
           /\ cache'[j].data = cache[j].data /\ cache'[j].age = cache[j].age
  PROVE  CacheOK'
<1>1. cache \in [Instance -> CacheEntry \cup {None}]
  BY DEF DeliverInv, CacheTypes
<1>2. \A j \in Instance : cache[j] # None => cache[j].age \in Nat
  BY <1>1, Constants DEF CacheEntry
<1>3. ASSUME NEW i \in Instance, NEW s \in Slot, loop'[i][s].pc = "fetched"
      PROVE  loop[i][s].pc = "fetched" /\ loop'[i][s].data = loop[i][s].data
  BY <1>3 DEF Others, Stands, Rests
<1>4. CASE status' = status /\ changed' = changed
  <2>1. \A i \in Instance : refresh'[i] \in Status /\ refresh'[i] # status' => changed' = 0
    BY <1>4 DEF CacheOK
  <2>2. ASSUME NEW i \in Instance, NEW s \in Slot, loop'[i][s].pc = "fetched", loop'[i][s].data # status'
        PROVE  changed' = 0
    BY <1>3, <1>4, <2>2 DEF CacheOK
  <2>3. ASSUME NEW i \in Instance, cache'[i] # None, cache'[i].data # status'
        PROVE  changed' <= cache'[i].age
    BY <1>4, <2>3 DEF CacheOK
  <2>4. QED
    BY <2>1, <2>2, <2>3 DEF CacheOK
<1>5. CASE changed' = 0
  <2>1. ASSUME NEW i \in Instance, cache'[i] # None PROVE changed' <= cache'[i].age
    BY <1>2, <1>5, <2>1
  <2>2. QED
    BY <1>5, <2>1 DEF CacheOK
<1>6. QED
  BY <1>4, <1>5

LEMMA CacheTicks ==
  ASSUME DeliverInv, CacheOK, Tick
  PROVE  CacheOK'
<1>1. /\ cache \in [Instance -> CacheEntry \cup {None}] /\ changed \in 0 .. CacheTtl + 1
      /\ CacheTtl \in Nat
  BY Constants DEF DeliverInv, CacheTypes, HistoryTypes
<1>2. /\ status' = status /\ changed' = Older(changed, CacheTtl + 1) /\ refresh' = refresh
      /\ \A j \in Instance : refresh[j] = "no"
      /\ \A j \in Instance, t \in Slot : loop[j][t].pc \notin {"fetch", "fetched"}
  BY DEF Tick
<1>3. \A i \in Instance : refresh'[i] \notin Status
  BY <1>2 DEF Status
<1>4. \A i \in Instance, s \in Slot : loop'[i][s].pc # "fetched"
  BY <1>2, TickMoves DEF Stands
<1>5. ASSUME NEW i \in Instance, cache'[i] # None, cache'[i].data # status'
      PROVE  changed' <= cache'[i].age
  <2>1. PICK c : c = cache[i]
    OBVIOUS
  <2>2. cache'[i] = IF c = None THEN None ELSE [c EXCEPT !.age = Older(c.age, CacheTtl + 1)]
    BY <2>1 DEF Tick
  <2>3. c # None /\ c \in CacheEntry
    BY <1>1, <1>5, <2>1, <2>2
  <2>4. /\ cache'[i].data = c.data /\ cache'[i].age = Older(c.age, CacheTtl + 1)
        /\ c.age \in 0 .. CacheTtl + 1
    BY <2>2, <2>3 DEF CacheEntry
  <2>5. changed <= c.age
    BY <1>2, <1>5, <2>1, <2>3, <2>4 DEF CacheOK
  <2>6. QED
    BY <1>1, <1>2, <2>4, <2>5 DEF Older
<1>6. QED
  BY <1>3, <1>4, <1>5 DEF CacheOK

\* An answer arrives.
LEMMA CacheLearns ==
  ASSUME DeliverInv, CacheOK, NEW i \in Instance, RefreshRead(i) \/ Refreshed(i)
  PROVE  CacheOK'
<1>1. /\ cache \in [Instance -> CacheEntry \cup {None}]
      /\ refresh \in [Instance -> Status \cup {"no", "asked"}]
      /\ changed \in Nat
  BY Constants DEF DeliverInv, CacheTypes, HistoryTypes
<1>2. status' = status /\ changed' = changed /\ loop' = loop
  BY DEF RefreshRead, Refreshed, database
<1>3. \A j \in Instance, s \in Slot :
        loop'[j][s].pc = "fetched" /\ loop'[j][s].data # status' => changed' = 0
  BY <1>2 DEF CacheOK
<1>4. CASE RefreshRead(i)
  <2>1. refresh' = [refresh EXCEPT ![i] = status] /\ cache' = cache
    BY <1>4 DEF RefreshRead
  <2>2. \A j \in Instance : refresh'[j] \in Status /\ refresh'[j] # status' => changed' = 0
    BY <1>1, <1>2, <2>1 DEF CacheOK
  <2>3. \A j \in Instance : cache'[j] # None /\ cache'[j].data # status' => changed' <= cache'[j].age
    BY <1>2, <2>1 DEF CacheOK
  <2>4. QED
    BY <1>3, <2>2, <2>3 DEF CacheOK
<1>5. CASE Refreshed(i)
  <2>1. PICK answer : answer = refresh[i]
    OBVIOUS
  <2>2. /\ answer \in Status
        /\ cache' = [cache EXCEPT ![i] = IF answer = "gone" THEN None ELSE Entry(answer)]
        /\ refresh' = [refresh EXCEPT ![i] = "no"]
    BY <1>5, <2>1 DEF Refreshed
  <2>3. \A j \in Instance : refresh'[j] \in Status /\ refresh'[j] # status' => changed' = 0
    BY <1>1, <1>2, <2>2 DEF CacheOK, Status
  <2>4. Entry(answer).data = answer /\ Entry(answer).age = 0
    BY DEF Entry
  <2>5. ASSUME NEW j \in Instance, cache'[j] # None, cache'[j].data # status'
        PROVE  changed' <= cache'[j].age
    <3>1. CASE j = i
      <4>1. cache'[j] = Entry(answer)
        BY <1>1, <2>2, <2>5, <3>1
      <4>2. changed = 0
        BY <1>2, <2>1, <2>2, <2>4, <2>5, <3>1, <4>1 DEF CacheOK
      <4>3. QED
        BY <1>2, <2>4, <4>1, <4>2
    <3>2. CASE j # i
      BY <1>1, <1>2, <2>2, <2>5, <3>2 DEF CacheOK
    <3>3. QED
      BY <3>1, <3>2
  <2>6. QED
    BY <1>3, <2>3, <2>5 DEF CacheOK
<1>6. QED
  BY <1>4, <1>5

LEMMA CacheKept == DeliverInv /\ CacheOK /\ [Next]_vars => CacheOK'
<1> SUFFICES ASSUME DeliverInv, CacheOK, [Next]_vars PROVE CacheOK'
  OBVIOUS
<1>1. /\ cache \in [Instance -> CacheEntry \cup {None}]
      /\ refresh \in [Instance -> Status \cup {"no", "asked"}]
  BY DEF DeliverInv, CacheTypes
<1>2. ASSUME NEW i \in Instance, NEW s \in Slot, LoopActs(i, s) PROVE CacheOK'
  <2>1. PICK l : l = loop[i][s]
    OBVIOUS
  <2>2. PICK k : Put(i, s, k) /\ (k.pc = "fetched" => k.data = status)
    BY <1>2, LoopGoesOn
  <2>3. /\ status' = status /\ changed' = changed
        /\ \A j \in Instance : refresh'[j] \in Status => refresh'[j] = refresh[j]
        /\ \A j \in Instance : \/ cache'[j] = cache[j]
                               \/ l.pc = "fetched" /\ cache'[j] = Entry(l.data)
    BY <1>2, <2>1, LoopCaches
  <2>4. /\ loop'[i][s] = k
        /\ \A j \in Instance, t \in Slot : <<j, t>> # <<i, s>> => loop'[j][t] = loop[j][t]
    BY <2>2, PutLoop DEF DeliverInv
  <2>5. \A j \in Instance : refresh'[j] \in Status /\ refresh'[j] # status' => changed' = 0
    BY <2>3 DEF CacheOK
  <2>6. ASSUME NEW j \in Instance, NEW t \in Slot, loop'[j][t].pc = "fetched", loop'[j][t].data # status'
        PROVE  changed' = 0
    BY <2>2, <2>3, <2>4, <2>6 DEF CacheOK
  <2>7. ASSUME NEW j \in Instance, cache'[j] # None, cache'[j].data # status'
        PROVE  changed' <= cache'[j].age
    <3>1. CASE cache'[j] = cache[j]
      BY <2>3, <2>7, <3>1 DEF CacheOK
    <3>2. CASE l.pc = "fetched" /\ cache'[j] = Entry(l.data)
      <4>1. Entry(l.data).data = l.data /\ Entry(l.data).age = 0
        BY DEF Entry
      <4>2. changed = 0
        BY <2>1, <2>3, <2>7, <3>2, <4>1 DEF CacheOK
      <4>3. QED
        BY <2>3, <3>2, <4>1, <4>2
    <3>3. QED
      BY <2>3, <3>1, <3>2
  <2>8. QED
    BY <2>5, <2>6, <2>7 DEF CacheOK
<1>3. CASE Tick
  BY <1>3, CacheTicks
<1>4. ASSUME NEW i \in Instance, RefreshRead(i) \/ Refreshed(i) PROVE CacheOK'
  BY <1>4, CacheLearns
<1>5. CASE /\ ~\E i \in Instance, s \in Slot : LoopActs(i, s)
           /\ ~Tick
           /\ ~\E i \in Instance : RefreshRead(i) \/ Refreshed(i)
  <2>1. Others
    BY <1>5, StepMoves
  <2>2. (status' = status /\ changed' = changed) \/ changed' = 0
    BY <1>5
       DEF Next, LoopActs, InstanceStep, InvalidateCache, DeleteConsumer, Started, StartConsumer, Fault,
           StopConsumer, Crash, RefreshFails, GrowOld, Maintenance, Trim, EmergencyTrim, Inspect, Platform,
           Publish, PublishMalformed, RetryLog, Signal, ChangeSilently, SetStatus, database, vars
  <2>3. ASSUME NEW j \in Instance
        PROVE  /\ refresh'[j] \in Status => refresh'[j] = refresh[j]
               /\ cache'[j] # None =>
                    /\ cache[j] # None
                    /\ cache'[j].data = cache[j].data /\ cache'[j].age = cache[j].age
    <3>1. CASE UNCHANGED <<refresh, cache>>
      BY <3>1
    <3>2. CASE \E i \in Instance : InvalidateCache(i)
      <4>1. PICK i \in Instance : InvalidateCache(i)
        BY <3>2
      <4>2. /\ refresh' = refresh
            /\ cache' = IF cache[i] = None THEN cache ELSE [cache EXCEPT ![i].stale = TRUE]
        BY <4>1 DEF InvalidateCache
      <4>3. CASE j = i /\ cache[i] # None
        <5>1. PICK c : c = cache[i]
          OBVIOUS
        <5>2. c \in CacheEntry /\ cache'[j] = [c EXCEPT !.stale = TRUE]
          BY <1>1, <4>2, <4>3, <5>1
        <5>3. QED
          BY <4>2, <4>3, <5>1, <5>2 DEF CacheEntry
      <4>4. CASE ~(j = i /\ cache[i] # None)
        BY <1>1, <4>2, <4>4
      <4>5. QED
        BY <4>3, <4>4
    <3>3. CASE \E i \in Instance : Crash(i) \/ RefreshFails(i)
      <4>1. PICK i \in Instance : Crash(i) \/ RefreshFails(i)
        BY <3>3
      <4>2. /\ refresh' = [refresh EXCEPT ![i] = "no"]
            /\ cache' = cache \/ cache' = [cache EXCEPT ![i] = None]
        BY <4>1 DEF Crash, RefreshFails
      <4>3. QED
        BY <1>1, <4>2 DEF Status
    <3>4. CASE /\ ~\E i \in Instance : InvalidateCache(i)
               /\ ~\E i \in Instance : Crash(i) \/ RefreshFails(i)
      <4>1. UNCHANGED <<refresh, cache>>
        BY <1>5, <3>4
           DEF Next, LoopActs, InstanceStep, DeleteConsumer, Started, StartConsumer, Fault,
               StopConsumer, GrowOld, Maintenance, Trim, EmergencyTrim, Inspect, Platform,
               Publish, PublishMalformed, RetryLog, Signal, ChangeSilently, SetStatus, instance, vars
      <4>2. QED
        BY <3>1, <4>1
    <3>5. QED
      BY <3>2, <3>3, <3>4
  <2>4. QED
    BY <2>1, <2>2, <2>3, CacheRests
<1>6. QED
  BY <1>2, <1>3, <1>4, <1>5

\* What an instance uses without asking again is the state of the subscription, or was
\* until CacheTtl ago: also when the signal is lost, a revalidation fails, or an answer
\* that is older than the signal undoes its invalidation
\* (DispatcherService.getSubscriptionCached).
THEOREM StaleUseBounded == Spec => []StaleUseIsBounded
<1>1. Init => CacheOK
  <2>1. Off.pc = "off"
    BY DEF Off
  <2>2. QED
    BY <2>1 DEF Init, CacheOK, Status
<1>2. DeliverInv /\ CacheOK => StaleUseIsBounded
  <2> SUFFICES ASSUME DeliverInv, CacheOK, NEW i \in Instance,
                      cache[i] # None, IsFresh(cache[i]), cache[i].data # status
               PROVE  changed <= CacheTtl
    BY DEF StaleUseIsBounded
  <2>1. cache[i] \in CacheEntry /\ changed \in 0 .. CacheTtl + 1 /\ CacheTtl \in Nat
    BY Constants DEF DeliverInv, CacheTypes, HistoryTypes
  <2>2. cache[i].age \in Nat
    BY <2>1 DEF CacheEntry
  <2>3. QED
    BY <2>1, <2>2 DEF CacheOK, IsFresh
<1>3. QED
  BY <1>1, <1>2, CacheKept, Invariant, PTL DEF Spec

-----------------------------------------------------------------------------
(* First dispatches are alone                                               *)

\* No dispatch outlasts a tick, and an entry may be claimed when it is older than that.
Prompt == "slow" \notin Disturbance /\ MinIdle >= 2

\* Loop s of i has nothing to do with what loop t of j dispatches for the first time.
Apart(l, m) == m \notin l.batch /\ l.msg # m

LEMMA FirstIsApart ==
  ASSUME FirstOK, NEW i \in Instance, NEW s \in Slot, FirstDispatch(loop[i][s]),
         NEW j \in Instance, NEW t \in Slot, <<j, t>> # <<i, s>>
  PROVE  Apart(loop[j][t], loop[i][s].msg)
BY DEF FirstOK, Apart

LEMMA FirstIntro ==
  ASSUME \A i \in Instance, s \in Slot : FirstDispatch(loop'[i][s]) =>
           (pel'[loop'[i][s].msg] # None => pel'[loop'[i][s].msg].idle <= loop'[i][s].spent),
         \A i, j \in Instance, s, t \in Slot :
           FirstDispatch(loop'[i][s]) /\ <<j, t>> # <<i, s>> => Apart(loop'[j][t], loop'[i][s].msg)
  PROVE  FirstOK'
BY DEF FirstOK, FirstDispatch, Apart

\* An entry is young when a loop has just got it, and ages only with the clock.
LEMMA LoopPendsYoung ==
  ASSUME DeliverInv, NEW i \in Instance, NEW s \in Slot, LoopActs(i, s), NEW m \in Message, pel'[m] # None
  PROVE  pel'[m].idle = 0 \/ (pel[m] # None /\ pel'[m] = pel[m])
<1>1. pel \in [Message -> PelEntry \cup {None}]
  BY DEF DeliverInv, RedisTypes
<1>2. \/ pel' = pel
      \/ pel' = Autoclaimed(i, loop[i][s].cursor)
      \/ pel' = [pel EXCEPT ![loop[i][s].msg] = None]
      \/ Unread # {} /\ Deliverable(i, First(Unread))
  BY LoopsPend DEF LoopActs
<1>3. CASE pel' = Autoclaimed(i, loop[i][s].cursor)
  BY <1>3 DEF Autoclaimed, Pending
<1>4. CASE pel' = [pel EXCEPT ![loop[i][s].msg] = None]
  BY <1>1, <1>4
<1>5. CASE Unread # {} /\ Deliverable(i, First(Unread))
  <2>1. pel' = [pel EXCEPT ![First(Unread)] = [by |-> i, idle |-> 0, count |-> 1]]
    BY <1>5 DEF Deliverable
  <2>2. QED
    BY <1>1, <2>1
<1>6. QED
  BY <1>2, <1>3, <1>4, <1>5

LEMMA FirstLoopKeeps ==
  ASSUME Prompt, DeliverInv, DeliverInv', FirstOK, NEW i \in Instance, NEW s \in Slot, LoopActs(i, s)
  PROVE  FirstOK'
<1>1. PICK l : l = loop[i][s]
  OBVIOUS
<1>2. PICK k : Put(i, s, k) /\ (Carries(l, k) \/ Claims(i, l, k) \/ Reads(i, l, k))
  BY <1>1, LoopGoesOn
<1>3. /\ loop'[i][s] = k
      /\ \A j \in Instance, t \in Slot : <<j, t>> # <<i, s>> => loop'[j][t] = loop[j][t]
  BY <1>2, PutLoop DEF DeliverInv
<1>4. \A j \in Instance, t \in Slot :
        /\ loop[j][t].spent \in {0, 1} /\ loop[j][t].msg \in Nat
        /\ loop[j][t].msg <= lastRead /\ \A m \in loop[j][t].batch : m <= lastRead
        /\ FirstDispatch(loop[j][t]) => loop[j][t].msg \in Message
  BY TheLoop DEF LoopOK, LoopRecord, FirstDispatch, Resting, DispatchStep
<1>5. pel \in [Message -> PelEntry \cup {None}] /\ lastRead \in Nat /\ MinIdle \in Nat
  BY Constants DEF DeliverInv, RedisTypes
<1>6. Reads(i, l, k) => First(Unread) \in Message /\ First(Unread) > lastRead
  BY DeliverableMoves DEF Reads
<1>7. ASSUME NEW j \in Instance, NEW t \in Slot, FirstDispatch(loop[j][t])
      PROVE  /\ pel'[loop[j][t].msg] # None => pel'[loop[j][t].msg].idle <= loop[j][t].spent
             /\ <<j, t>> # <<i, s>> => Apart(k, loop[j][t].msg)
  <2>1. PICK m \in Message : m = loop[j][t].msg
    BY <1>4, <1>7
  <2>2. pel[m] # None => pel[m].idle <= loop[j][t].spent
    BY <1>7, <2>1 DEF FirstOK
  <2>3. pel'[m] # None => pel'[m].idle <= loop[j][t].spent
    BY <1>4, <2>2, LoopPendsYoung
  <2>4. ASSUME <<j, t>> # <<i, s>> PROVE Apart(k, m)
    <3>1. Apart(l, m)
      BY <1>1, <1>7, <2>1, <2>4, FirstIsApart
    <3>2. m # 0 /\ m <= lastRead
      BY <1>4, <2>1 DEF Message
    <3>3. CASE Carries(l, k)
      BY <3>1, <3>2, <3>3 DEF Carries, Apart
    <3>4. CASE Claims(i, l, k)
      <4>1. m \notin Taken(l.cursor)
        <5>1. ASSUME m \in Taken(l.cursor) PROVE FALSE
          <6>1. pel[m] # None /\ pel[m].idle >= MinIdle
            BY <1>1, <5>1, AutoclaimedType
          <6>2. pel[m].idle \in Nat
            BY <1>5, <6>1, Constants DEF PelEntry
          <6>3. QED
            BY <1>4, <1>5, <2>2, <6>1, <6>2 DEF Prompt
        <5>2. QED
          BY <5>1
      <4>2. QED
        BY <3>2, <3>4, <4>1 DEF Claims, Apart
    <3>5. CASE Reads(i, l, k)
      BY <1>5, <1>6, <3>2, <3>5 DEF Reads, Apart, Message
    <3>6. QED
      BY <1>2, <3>3, <3>4, <3>5
  <2>5. QED
    BY <2>1, <2>3, <2>4
<1>8. ASSUME FirstDispatch(k)
      PROVE  /\ pel'[k.msg] # None => pel'[k.msg].idle <= k.spent
             /\ \A j \in Instance, t \in Slot : <<j, t>> # <<i, s>> => Apart(loop[j][t], k.msg)
  <2>1. CASE Carries(l, k)
    <3>1. FirstDispatch(l) /\ k.msg = l.msg /\ k.spent = l.spent
      BY <1>8, <2>1 DEF Carries
    <3>2. QED
      BY <1>1, <1>7, <3>1, FirstIsApart
  <2>2. CASE Claims(i, l, k)
    BY <1>8, <2>2 DEF Claims
  <2>3. CASE Reads(i, l, k)
    <3>1. PICK n \in Message : n = First(Unread) /\ n > lastRead
      BY <1>6, <2>3
    <3>2. k.msg = n
      <4>1. LoopOK(k)'
        BY <1>3 DEF DeliverInv, LoopsOK
      <4>2. QED
        BY <1>8, <2>3, <3>1, <4>1 DEF Reads, LoopOK, Shape, FirstDispatch, Resting, DispatchStep
    <3>3. pel'[n] = [by |-> i, idle |-> 0, count |-> 1]
      BY <1>5, <2>3, <3>1 DEF Reads, Deliverable
    <3>4. k.spent \in {0, 1}
      BY <1>3 DEF DeliverInv, LoopTypes, LoopRecord
    <3>5. \A j \in Instance, t \in Slot : Apart(loop[j][t], n)
      BY <1>4, <1>5, <3>1 DEF Apart, Message
    <3>6. QED
      BY <3>2, <3>3, <3>4, <3>5
  <2>4. QED
    BY <1>2, <2>1, <2>2, <2>3
<1>9. ASSUME NEW j \in Instance, NEW t \in Slot, FirstDispatch(loop'[j][t])
      PROVE  /\ pel'[loop'[j][t].msg] # None => pel'[loop'[j][t].msg].idle <= loop'[j][t].spent
             /\ \A h \in Instance, u \in Slot :
                  <<h, u>> # <<j, t>> => Apart(loop'[h][u], loop'[j][t].msg)
  <2>1. CASE <<j, t>> = <<i, s>>
    BY <1>3, <1>8, <1>9, <2>1
  <2>2. CASE <<j, t>> # <<i, s>>
    <3>1. loop'[j][t] = loop[j][t] /\ FirstDispatch(loop[j][t])
      BY <1>3, <1>9, <2>2
    <3>2. /\ pel'[loop[j][t].msg] # None => pel'[loop[j][t].msg].idle <= loop[j][t].spent
          /\ Apart(k, loop[j][t].msg)
      BY <1>7, <2>2, <3>1
    <3>3. ASSUME NEW h \in Instance, NEW u \in Slot, <<h, u>> # <<j, t>>
          PROVE  Apart(loop'[h][u], loop[j][t].msg)
      <4>1. CASE <<h, u>> = <<i, s>>
        BY <1>3, <3>2, <4>1
      <4>2. CASE <<h, u>> # <<i, s>>
        BY <1>3, <3>1, <3>3, <4>2, FirstIsApart
      <4>3. QED
        BY <4>1, <4>2
    <3>4. QED
      BY <3>1, <3>2, <3>3
  <2>3. QED
    BY <2>1, <2>2
<1>10. QED
  BY <1>9, FirstIntro

LEMMA FirstKept == ASSUME Prompt PROVE DeliverInv /\ DeliverInv' /\ FirstOK /\ [Next]_vars => FirstOK'
<1> SUFFICES ASSUME DeliverInv, DeliverInv', FirstOK, [Next]_vars PROVE FirstOK'
  OBVIOUS
<1>1. /\ pel \in [Message -> PelEntry \cup {None}] /\ MinIdle \in Nat
      /\ \A j \in Instance, t \in Slot :
           /\ loop[j][t].spent \in {0, 1}
           /\ FirstDispatch(loop[j][t]) => loop[j][t].msg \in Message
  BY TheLoop, Constants DEF DeliverInv, RedisTypes, LoopRecord, FirstDispatch, Resting, DispatchStep
<1>2. ASSUME \A i \in Instance, s \in Slot : Stands(loop[i][s], loop'[i][s]) \/ Rests(loop'[i][s]),
             \A i \in Instance, s \in Slot : FirstDispatch(loop[i][s]) /\ FirstDispatch(loop'[i][s]) =>
               (pel'[loop[i][s].msg] # None => pel'[loop[i][s].msg].idle <= loop'[i][s].spent)
      PROVE  FirstOK'
  <2>1. ASSUME NEW i \in Instance, NEW s \in Slot, FirstDispatch(loop'[i][s])
        PROVE  FirstDispatch(loop[i][s]) /\ loop'[i][s].msg = loop[i][s].msg
    BY <1>2, <2>1 DEF Stands, Rests, FirstDispatch, DispatchStep
  <2>2. ASSUME NEW i \in Instance, NEW j \in Instance, NEW s \in Slot, NEW t \in Slot,
               FirstDispatch(loop'[i][s]), <<j, t>> # <<i, s>>
        PROVE  Apart(loop'[j][t], loop'[i][s].msg)
    <3>1. PICK m \in Message : m = loop[i][s].msg
      BY <1>1, <2>1, <2>2
    <3>2. Apart(loop[j][t], m) /\ loop'[i][s].msg = m
      BY <2>1, <2>2, <3>1, FirstIsApart
    <3>3. m # 0
      BY <3>1 DEF Message
    <3>4. QED
      BY <1>2, <3>2, <3>3 DEF Stands, Rests, Apart
  <2>3. QED
    BY <1>2, <2>1, <2>2, FirstIntro
<1>3. ASSUME NEW i \in Instance, NEW s \in Slot, LoopActs(i, s) PROVE FirstOK'
  BY <1>3, FirstLoopKeeps
<1>4. CASE Tick
  <2>1. ASSUME NEW i \in Instance, NEW s \in Slot, FirstDispatch(loop[i][s]),
               pel'[loop[i][s].msg] # None
        PROVE  pel'[loop[i][s].msg].idle <= loop'[i][s].spent
    <3>1. PICK m \in Message : m = loop[i][s].msg
      BY <1>1, <2>1
    <3>2. PICK e : e = pel[m]
      OBVIOUS
    <3>3. pel'[m] = IF e = None THEN None ELSE [e EXCEPT !.idle = Older(e.idle, MinIdle)]
      BY <1>4, <3>2 DEF Tick
    <3>4. e # None /\ e \in PelEntry
      BY <1>1, <2>1, <3>1, <3>2, <3>3
    <3>5. pel'[m].idle = Older(e.idle, MinIdle) /\ e.idle \in Nat
      BY <1>1, <3>3, <3>4 DEF PelEntry
    <3>6. loop[i][s].spent = 0 /\ loop'[i][s].spent = 1
      <4>1. loop[i][s].pc \in DispatchStep
        BY <2>1 DEF FirstDispatch
      <4>2. loop'[i][s].spent = 1
        BY <1>4, <4>1, TickMoves
      <4>3. loop[i][s].spent = 0 \/ "slow" \in Disturbance
        BY <1>4 DEF Tick
      <4>4. QED
        BY <4>2, <4>3 DEF Prompt
    <3>7. e.idle = 0
      BY <2>1, <3>1, <3>2, <3>4, <3>5, <3>6 DEF FirstOK
    <3>8. QED
      BY <1>1, <3>1, <3>5, <3>6, <3>7 DEF Older
  <2>2. QED
    BY <1>2, <1>4, <2>1, TickMoves
<1>5. CASE Others
  <2>1. ASSUME NEW i \in Instance, NEW s \in Slot, FirstDispatch(loop[i][s]), FirstDispatch(loop'[i][s]),
               pel'[loop[i][s].msg] # None
        PROVE  pel'[loop[i][s].msg].idle <= loop'[i][s].spent
    <3>1. PICK m \in Message : m = loop[i][s].msg
      BY <1>1, <2>1
    <3>2. pel'[m] = pel[m] /\ loop'[i][s].spent = loop[i][s].spent
      BY <1>5, <2>1, <3>1 DEF Others, Rests, FirstDispatch, DispatchStep
    <3>3. QED
      BY <2>1, <3>1, <3>2 DEF FirstOK
  <2>2. QED
    BY <1>2, <1>5, <2>1 DEF Others
<1>6. QED
  BY <1>3, <1>4, <1>5, StepMoves

\* When no dispatch outlasts the time after which an entry may be claimed, two loops
\* that dispatch one message at once have both got it from XAUTOCLAIM: a message that
\* XREADGROUP gives for the first time is dispatched by one loop only
\* (QueueConsumerService.consumeLoop, recoverPendingMessages).
THEOREM FirstDispatchesAlone == ASSUME Prompt PROVE Spec => []FirstDispatchAlone
<1>1. Init => FirstOK
  <2>1. Off.pc = "off"
    BY DEF Off
  <2>2. ASSUME Init, NEW i \in Instance, NEW s \in Slot PROVE ~FirstDispatch(loop[i][s])
    BY <2>1, <2>2 DEF Init, FirstDispatch, DispatchStep
  <2>3. QED
    BY <2>2 DEF FirstOK
<1>2. FirstOK => FirstDispatchAlone
  <2> SUFFICES ASSUME FirstOK, NEW i \in Instance, NEW j \in Instance, NEW s \in Slot, NEW t \in Slot,
                      NEW m \in Message, Dispatching(i, s, m), Dispatching(j, t, m), <<i, s>> # <<j, t>>
               PROVE  loop[i][s].redo /\ loop[j][t].redo
    BY DEF FirstDispatchAlone
  <2>1. loop[i][s].msg = m /\ loop[j][t].msg = m
    BY DEF Dispatching
  <2>2. ~FirstDispatch(loop[i][s]) /\ ~FirstDispatch(loop[j][t])
    BY <2>1, FirstIsApart DEF Apart
  <2>3. QED
    BY <2>2 DEF Dispatching, FirstDispatch
<1>3. DeliverInv /\ DeliverInv' /\ FirstOK /\ [Next]_vars => FirstOK'
  BY FirstKept
<1>4. QED
  BY <1>1, <1>2, <1>3, Invariant, PTL DEF Spec
=============================================================================
