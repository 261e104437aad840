--------------------------- MODULE DeadLetterProofs ---------------------------
(***************************************************************************)
(* Theorems about Deliver: a message that is a dead letter was dispatched  *)
(* as often as maxDeliveryCount says, but for the deliveries that          *)
(* disturbances used up.                                                   *)
(***************************************************************************)
EXTENDS DispatchProofs

-----------------------------------------------------------------------------
(* What the delivery counts are made of                                     *)

\* A loop that was stopped while Redis has yet to execute its XAUTOCLAIM or XREADGROUP:
\* the deliveries are counted, and nobody dispatches them.
Closing(l) == ~l.running /\ l.pc \in {"autoclaim", "read"}
Late == {p \in Instance \X Slot : Closing(loop[p[1]][p[2]])}

\* The disturbances that have cost a delivery already, or never will.
Spare == disturbed - Cardinality(Late)

\* A loop has been given m, and has yet to dispatch it (or to acknowledge that nobody
\* can read it).
Owes(l, m) ==
  /\ l.running
  /\ m \in l.batch \/ (l.msg = m /\ (l.pc = "count" \/ (l.pc = "ack" /\ m \in bad)))
Owed(m)  == \E i \in Instance, s \in Slot : Owes(loop[i][s], m)
Owing(m) == IF Owed(m) THEN 1 ELSE 0

Tried(m) == tries[m] + disturbed >= MaxDeliveryCount

\* Every delivery of m was a dispatch, a disturbance, or is owed.
CountFits(m) == pel[m] # None => Tried(m) \/ pel[m].count <= tries[m] + Spare + Owing(m)

OneConsumer == \A i, j \in Instance : consumers[i] # None /\ consumers[j] # None => i = j

BuriesTried ==
  \A i \in Instance, s \in Slot : loop[i][s].pc \in {"bury", "buried"} => Tried(loop[i][s].msg)

TriesInv ==
  /\ OneConsumer /\ Spare >= 0
  /\ \A m \in Message : CountFits(m)
  /\ BuriesTried /\ DeadLettersWereTried

\* No recovery ends at maxRecoveryPerCycle with claimed messages left.
Uncut ==
  \A i \in Instance, s \in Slot :
    loop[i][s].batch # {} => loop[i][s].handled + 1 < MaxRecovery

LEMMA LateFinite ==
  /\ IsFiniteSet(Late) /\ Cardinality(Late) \in Nat
  /\ IsFiniteSet(Late') /\ Cardinality(Late') \in Nat
<1>1. IsFiniteSet(Instance) /\ IsFiniteSet(Slot)
  BY DeliverAssumption
<1>2. IsFiniteSet(Instance \X Slot)
  BY <1>1, FS_Product
<1>3. Late \subseteq Instance \X Slot /\ Late' \subseteq Instance \X Slot
  BY DEF Late
<1>4. QED
  BY <1>2, <1>3, FS_Subset, FS_CardinalityType

\* Types of what the counts are made of.
LEMMA CountTypes ==
  ASSUME DeliverInv
  PROVE  /\ disturbed \in Nat /\ Spare \in Int /\ Spare <= disturbed
         /\ \A m \in Message : tries[m] \in Nat /\ letters[m] \in Nat
         /\ \A m \in Message : pel[m] # None => pel[m].count \in Nat /\ pel[m].count >= 1
<1>1. disturbed \in Nat
  BY Constants DEF DeliverInv, HistoryTypes
<1>2. \A m \in Message : tries[m] \in Nat /\ letters[m] \in Nat
  BY Constants DEF DeliverInv, HistoryTypes, RedisTypes
<1>3. ASSUME NEW m \in Message, pel[m] # None
      PROVE  pel[m].count \in Nat /\ pel[m].count >= 1
  <2>1. pel[m] \in PelEntry
    BY <1>3 DEF DeliverInv, RedisTypes
  <2>2. QED
    BY <2>1, Constants DEF PelEntry
<1>4. QED
  BY <1>1, <1>2, <1>3, LateFinite DEF Spare

LEMMA NextCountTypes ==
  ASSUME DeliverInv'
  PROVE  /\ disturbed' \in Nat /\ Spare' \in Int /\ Spare' <= disturbed'
         /\ \A m \in Message : tries'[m] \in Nat /\ letters'[m] \in Nat
         /\ \A m \in Message : pel'[m] # None => pel'[m].count \in Nat /\ pel'[m].count >= 1
<1>1. disturbed' \in Nat
  BY Constants DEF DeliverInv, HistoryTypes
<1>2. \A m \in Message : tries'[m] \in Nat /\ letters'[m] \in Nat
  BY Constants DEF DeliverInv, HistoryTypes, RedisTypes
<1>3. ASSUME NEW m \in Message, pel'[m] # None
      PROVE  pel'[m].count \in Nat /\ pel'[m].count >= 1
  <2>1. pel'[m] \in PelEntry
    BY <1>3 DEF DeliverInv, RedisTypes
  <2>2. QED
    BY <2>1, Constants DEF PelEntry
<1>4. QED
  BY <1>1, <1>2, <1>3, LateFinite DEF Spare

\* Only the loop of one consumer is running.
LEMMA OneRuns ==
  ASSUME DeliverInv, OneConsumer, NEW i \in Instance, NEW s \in Slot, NEW j \in Instance, NEW t \in Slot,
         loop[i][s].running, loop[j][t].running
  PROVE  i = j /\ s = t
<1>1. consumers[i] = s /\ consumers[j] = t
  BY DEF DeliverInv, LoopTypes
<1>2. QED
  BY <1>1, Constants DEF OneConsumer

\* An entry that was delivered more often than is allowed was tried as often.
LEMMA Overdue ==
  ASSUME DeliverInv, NEW m \in Message, CountFits(m), pel[m] # None, pel[m].count > MaxDeliveryCount
  PROVE  Tried(m)
<1>1. Owing(m) \in {0, 1}
  BY DEF Owing
<1>2. tries[m] \in Nat /\ disturbed \in Nat /\ Spare \in Int /\ Spare <= disturbed /\ pel[m].count \in Nat
  BY CountTypes
<1>3. QED
  BY <1>1, <1>2, Constants DEF CountFits, Tried

-----------------------------------------------------------------------------
(* Where a loop goes on                                                     *)

\* A loop that asks for messages is running.
Alert(k) == k.pc \in {"autoclaim", "read"} => k.running

LEMMA Alerts ==
  ASSUME NEW l \in LoopRecord
  PROVE  Alert(Top(l)) /\ Alert(RecoveryDone(l)) /\ Alert(NextClaimed(l)) /\ Alert(Off)
<1>1. Off.pc = "off"
  BY DEF Off
<1>2. Alert(Top(l))
  BY <1>1, TopShape DEF Top, Alert
<1>3. Alert(RecoveryDone(l))
  BY <1>1, RecoveryDoneShape DEF RecoveryDone, Alert
<1>4. Alert(NextClaimed(l))
  <2>1. CASE ~l.running \/ l.handled >= MaxRecovery
    BY <1>3, <2>1 DEF NextClaimed
  <2>2. CASE l.running /\ ~(l.handled >= MaxRecovery)
    <3>1. PICK m : m = First(l.batch)
      OBVIOUS
    <3>2. PICK k : k = At([l EXCEPT !.msg = m, !.batch = l.batch \ {m}], "count")
      OBVIOUS
    <3>3. k.pc = "count"
      BY <3>2 DEF At, LoopRecord
    <3>4. At(l, "autoclaim").running
      BY <2>2 DEF At, LoopRecord
    <3>5. NextClaimed(l) = k \/ NextClaimed(l) = At(l, "autoclaim") \/ NextClaimed(l) = RecoveryDone(l)
      BY <2>2, <3>1, <3>2 DEF NextClaimed
    <3>6. QED
      BY <1>3, <3>3, <3>4, <3>5 DEF Alert
  <2>3. QED
    BY <2>1, <2>2
<1>5. QED
  BY <1>1, <1>2, <1>3, <1>4 DEF Alert

\* A recovery goes on with the messages it has claimed.
LEMMA GoesThrough ==
  ASSUME NEW l, Between(l), l.running, l.handled < MaxRecovery, NEW m \in l.batch
  PROVE  Owes(NextClaimed(l), m)
<1>1. PICK n : n = First(l.batch)
  OBVIOUS
<1>2. PICK k : k = [l EXCEPT !.pc = "count", !.msg = n, !.batch = l.batch \ {n}]
  OBVIOUS
<1>3. l \in LoopRecord /\ l.handled \in Nat
  BY DEF Between, LoopRecord
<1>4. NextClaimed(l) = k
  <2>1. ~(~l.running \/ l.handled >= MaxRecovery) /\ l.batch # {}
    BY <1>3, Constants
  <2>2. k = At([l EXCEPT !.msg = n, !.batch = @ \ {n}], "count")
    BY <1>2, <1>3 DEF At, LoopRecord
  <2>3. QED
    BY <1>1, <2>1, <2>2, Zenon DEF NextClaimed
<1>5. k.pc = "count" /\ k.msg = n /\ k.batch = l.batch \ {n} /\ k.running
  BY <1>2, <1>3 DEF LoopRecord
<1>6. Owes(k, m)
  BY <1>5 DEF Owes
<1>7. QED
  BY <1>4, <1>6

LEMMA DoneGoesThrough ==
  ASSUME NEW l, Shape(l), l.msg # 0
  PROVE  /\ Alert(MessageDone(l)) /\ MessageDone(l).pc \notin {"bury", "buried"}
         /\ l.running /\ (l.batch # {} => l.handled + 1 < MaxRecovery) =>
              \A m \in l.batch : Owes(MessageDone(l), m)
<1> DEFINE done == [l EXCEPT !.msg = 0, !.attempt = 0, !.data = "gone", !.spent = 0]
           next == [done EXCEPT !.handled = @ + 1]
<1>1. l \in LoopRecord /\ l.msg \in Nat /\ l.handled \in Nat
  BY DEF Shape, Scan, LoopRecord
<1>2. /\ 0 \in 0 .. MaxMessage /\ 0 \in 0 .. MaxRetries + 1 /\ "gone" \in Status /\ 0 \in {0, 1}
      /\ l.handled + 1 \in Nat
  BY <1>1, Constants DEF Status
<1>3. done \in LoopRecord
  BY <1>1, <1>2 DEF LoopRecord
<1>4. done.handled = l.handled
  BY <1>1 DEF LoopRecord
<1>5. MessageDone(l) = IF l.redo THEN NextClaimed(next) ELSE Top(done)
  BY DEF MessageDone
<1>6. next \in LoopRecord
  <2> HIDE DEF done
  <2>1. QED
    BY <1>2, <1>3, <1>4 DEF LoopRecord
<1>7. /\ next.msg = 0 /\ next.handled = l.handled + 1 /\ (next.redo <=> l.redo)
      /\ next.batch = l.batch /\ next.cursor = l.cursor /\ (next.running <=> l.running)
  BY <1>1 DEF LoopRecord
<1> HIDE DEF done, next
<1>8. Alert(MessageDone(l))
  BY <1>3, <1>5, <1>6, Alerts
<1>9. MessageDone(l).pc \notin {"bury", "buried"}
  BY MessageDoneShape
<1>10. ASSUME l.running, l.handled + 1 < MaxRecovery, NEW m \in l.batch
       PROVE  Owes(MessageDone(l), m)
  <2>1. l.redo
    BY <1>10 DEF Shape, Scan
  <2>2. Between(next)
    BY <1>1, <1>6, <1>7, <2>1 DEF Between, Shape, Scan, LoopRecord, Message
  <2>3. Owes(NextClaimed(next), m)
    BY <1>7, <1>10, <2>2, GoesThrough
  <2>4. QED
    BY <1>5, <2>1, <2>3
<1>11. QED
  BY <1>8, <1>9, <1>10

\* processMessage dispatches the message, or goes on to acknowledge it, and keeps what
\* else has been claimed.
LEMMA ProcessPays ==
  ASSUME DeliverInv, NEW i \in Instance, NEW s \in Slot, NEW h, Held(h), h.msg \in Message, Process(i, s, h)
  PROVE  /\ \E k : /\ Put(i, s, k) /\ Alert(k) /\ k.pc \notin {"bury", "buried"}
                   /\ h.running => \A m \in h.batch : Owes(k, m)
                   /\ h.running /\ h.msg \in bad => Owes(k, h.msg)
         /\ \A m \in Message : tries[m] <= tries'[m]
         /\ h.msg \notin bad => tries'[h.msg] > tries[h.msg] \/ tries'[h.msg] >= MaxDeliveryCount
<1>1. PICK k : /\ Put(i, s, k)
               /\ \/ k = Acknowledge(h)
                  \/ h.msg \notin bad /\ k = At(h, "fetch")
                  \/ h.msg \notin bad /\ k = Judge(h, cache[i].data)
  BY DEF Process
<1>2. PICK data : data = cache[i].data
  OBVIOUS
<1>3. /\ k.running <=> h.running
      /\ \/ k.pc \in {"fetch", "log", "ack"} /\ k.msg = h.msg /\ k.batch = h.batch
         \/ k = Off /\ ~h.running
      /\ k.pc = "ack" \/ h.msg \notin bad \/ ~h.running
  <2>1. CASE k = Acknowledge(h)
    BY <2>1, AcknowledgeShape
  <2>2. CASE h.msg \notin bad /\ k = At(h, "fetch")
    BY <2>2, AtShape
  <2>3. CASE h.msg \notin bad /\ k = Judge(h, data)
    BY <2>3, JudgeShape, OffShape
  <2>4. QED
    BY <1>1, <1>2, <2>1, <2>2, <2>3
<1>4. Alert(k) /\ k.pc \notin {"bury", "buried"}
  BY <1>3, OffShape DEF Alert
<1>5. /\ h.running => \A m \in h.batch : Owes(k, m)
      /\ h.running /\ h.msg \in bad => Owes(k, h.msg)
  BY <1>3 DEF Owes
<1>6. /\ tries \in [Message -> 0 .. MaxDeliveryCount]
      /\ \/ h.msg \in bad /\ tries' = tries
         \/ h.msg \notin bad /\ tries' = [tries EXCEPT ![h.msg] = IF @ < MaxDeliveryCount THEN @ + 1 ELSE @]
  BY DEF Process, DeliverInv, HistoryTypes
<1>7. /\ \A m \in Message : tries[m] <= tries'[m]
      /\ h.msg \notin bad => tries'[h.msg] > tries[h.msg] \/ tries'[h.msg] >= MaxDeliveryCount
  BY <1>6, Constants
<1>8. QED
  BY <1>1, <1>4, <1>5, <1>7

-----------------------------------------------------------------------------
(* What a step of a loop does to the counts                                 *)

\* m is owed by the loop that is now k, was dispatched, or is nobody's any more; or it
\* was delivered too often.
Served(k, m) ==
  \/ Owes(k, m)
  \/ tries'[m] > tries[m] \/ tries'[m] >= MaxDeliveryCount
  \/ pel'[m] = None
  \/ pel[m] # None /\ pel[m].count > MaxDeliveryCount

Redelivered(l, m) ==
  \/ l.pc = "autoclaim" /\ pel[m] # None /\ pel'[m].count <= pel[m].count + 1
  \/ l.pc = "read" /\ pel'[m].count = 1

\* A step of the loop l makes it k.
Goes(l, k) ==
  /\ Alert(k)
  /\ k.pc \in {"bury", "buried"} =>
       /\ k.msg = l.msg
       /\ l.pc = "bury" \/ (l.pc = "count" /\ pel[l.msg] # None /\ pel[l.msg].count > MaxDeliveryCount)
  /\ UNCHANGED <<bad, consumers>>
  /\ \A m \in Message : tries[m] <= tries'[m]
  /\ \A m \in Message : letters'[m] = letters[m] \/ (l.pc = "bury" /\ m = l.msg)
  /\ \A m \in Message : pel'[m] = None \/ pel'[m] = pel[m] \/ Redelivered(l, m)
  /\ \/ disturbed' = disturbed + 1
     \/ /\ disturbed' = disturbed
        /\ l.running => \A m \in Message :
             Owes(l, m) \/ (pel'[m] # None /\ pel'[m] # pel[m]) => Served(k, m)

LEMMA AutoclaimRedelivers ==
  ASSUME DeliverInv, NEW i \in Instance, NEW l, l.pc = "autoclaim", pel' = Autoclaimed(i, l.cursor),
         NEW m \in Message
  PROVE  /\ pel'[m] = None \/ pel'[m] = pel[m] \/ Redelivered(l, m)
         /\ pel'[m] # None /\ pel'[m] # pel[m] => m \in Taken(l.cursor)
<1>1. CASE m \in Taken(l.cursor)
  <2>1. pel'[m] = Pending(i, m) /\ pel[m] # None
    BY <1>1, AutoclaimedType DEF Autoclaimed
  <2>2. pel[m].count \in Nat
    BY <2>1, CountTypes
  <2>3. Pending(i, m).count <= pel[m].count + 1
    BY <2>1, <2>2 DEF Pending
  <2>4. QED
    BY <1>1, <2>1, <2>3 DEF Redelivered
<1>2. CASE m \notin Taken(l.cursor)
  BY <1>2 DEF Autoclaimed
<1>3. QED
  BY <1>1, <1>2

LEMMA StepGoes ==
  ASSUME DeliverInv, Uncut, NEW i \in Instance, NEW s \in Slot, LoopActs(i, s)
  PROVE  \E k : Put(i, s, k) /\ Goes(loop[i][s], k)
<1>1. PICK l : l = loop[i][s]
  OBVIOUS
<1>2. /\ Shape(l) /\ l \in LoopRecord /\ l.batch \subseteq Message
      /\ l.pc \notin Resting => Held(l) /\ l.msg # 0 /\ l.msg \in Message
  BY <1>1, TheLoop DEF Held
<1>3. /\ l.batch # {} => l.handled + 1 < MaxRecovery
      /\ l.pc \in Resting => l.msg = 0 /\ l.batch = {}
  BY <1>1, <1>2 DEF Uncut, Shape, Scan, Resting
<1>4. /\ disturbed \in Nat
      /\ \A m \in Message : tries[m] \in Nat
      /\ 0 \notin Message
  BY CountTypes DEF Message
<1> DEFINE Goal == \E k : Put(i, s, k) /\ Goes(l, k)
<1> SUFFICES Goal
  BY <1>1
\* Steps that give nobody a message and dispatch none.
<1>5. ASSUME NEW k, Put(i, s, k), Alert(k), k.pc \notin {"bury", "buried"},
             UNCHANGED <<bad, consumers, tries, letters>>,
             \A m \in Message : pel'[m] = None \/ pel'[m] = pel[m],
             \/ disturbed' = disturbed + 1
             \/ disturbed' = disturbed /\ (l.running => \A m \in Message : Owes(l, m) => Served(k, m))
      PROVE  Goal
  <2>1. Goes(l, k)
    BY <1>4, <1>5 DEF Goes
  <2>2. QED
    BY <1>5, <2>1
<1> HIDE DEF Goal
<1>6. l.pc \in Resting => \A m \in Message : ~Owes(l, m)
  BY <1>3, <1>4 DEF Owes, Resting
<1>7. l.pc \notin {"count", "ack"} => \A m \in Message : Owes(l, m) => m \in l.batch
  BY DEF Owes
\* The loop keeps its messages.
<1>8. ASSUME NEW k, k.batch = l.batch, k.running <=> l.running, NEW m \in l.batch, l.running
      PROVE  Served(k, m)
  BY <1>8 DEF Owes, Served
<1>9. /\ Alert(MessageDone(l)) \/ l.msg = 0
      /\ MessageDone(l).pc \notin {"bury", "buried"} \/ l.msg = 0
      /\ l.msg # 0 /\ l.running => \A m \in l.batch : Owes(MessageDone(l), m)
  BY <1>2, <1>3, DoneGoesThrough
<1>10. /\ Alert(Top(l)) /\ Alert(RecoveryDone(l)) /\ Alert(Off)
       /\ Top(l).pc \notin {"bury", "buried"} /\ RecoveryDone(l).pc \notin {"bury", "buried"}
       /\ Off.pc \notin {"bury", "buried"}
  BY <1>2, Alerts, TopShape, RecoveryDoneShape, OffShape
<1>11. CASE EnsureConsumerGroup(i, s)
  <2>1. /\ Put(i, s, Top(l)) /\ l.pc = "group"
        /\ UNCHANGED <<bad, consumers, tries, letters, pel, disturbed>>
    BY <1>1, <1>11 DEF EnsureConsumerGroup, redis, history
  <2>2. QED
    BY <1>5, <1>6, <1>10, <2>1 DEF Resting
<1>12. CASE Disconnect(i, s)
  <2>1. Put(i, s, Off) /\ UNCHANGED <<bad, consumers, tries, letters, pel>> /\ disturbed' = disturbed + 1
    BY <1>12 DEF Disconnect, redis, history, Disturb
  <2>2. QED
    BY <1>5, <1>10, <2>1
<1>13. CASE DispatchFails(i, s)
  <2>1. /\ Put(i, s, MessageDone(l)) /\ l.pc \in DispatchStep
        /\ UNCHANGED <<bad, consumers, tries, letters, pel>> /\ disturbed' = disturbed + 1
    BY <1>1, <1>13 DEF DispatchFails, redis, history, Disturb
  <2>2. l.msg # 0
    BY <1>2, <2>1 DEF Resting, DispatchStep
  <2>3. QED
    BY <1>5, <1>9, <2>1, <2>2
<1>14. CASE Autoclaim(i, s)
  <2>1. PICK taken : taken = Taken(l.cursor)
    OBVIOUS
  <2>2. PICK b : b = [l EXCEPT !.batch = Taken(l.cursor), !.cursor = NextCursor(l.cursor)]
    OBVIOUS
  <2>3. PICK k : k = IF taken = {} THEN RecoveryDone(l) ELSE NextClaimed(b)
    OBVIOUS
  <2>4. /\ l.pc = "autoclaim" /\ pel' = Autoclaimed(i, l.cursor) /\ Put(i, s, k)
        /\ UNCHANGED <<bad, consumers, tries, letters, disturbed>>
    BY <1>1, <1>14, <2>1, <2>2, <2>3 DEF Autoclaim, history
  <2>5. Between(b) /\ b.batch = taken /\ (b.running <=> l.running)
    BY <1>2, <2>1, <2>2, <2>4, ClaimedBetween
  <2>6. b \in LoopRecord /\ b.handled < MaxRecovery
    BY <1>2, <2>2, <2>5 DEF Between, Shape, Scan, LoopRecord
  <2>7. Alert(k) /\ k.pc \notin {"bury", "buried"}
    BY <1>10, <2>3, <2>5, <2>6, Alerts, NextClaimedShape
  <2>8. ASSUME l.running, NEW m \in taken PROVE Owes(k, m)
    BY <2>3, <2>5, <2>6, <2>8, GoesThrough
  <2>9. ASSUME NEW m \in Message
        PROVE  /\ pel'[m] = None \/ pel'[m] = pel[m] \/ Redelivered(l, m)
               /\ pel'[m] # None /\ pel'[m] # pel[m] => m \in taken
    BY <2>1, <2>4, AutoclaimRedelivers
  <2>10. ASSUME l.running, NEW m \in Message, Owes(l, m) \/ (pel'[m] # None /\ pel'[m] # pel[m])
         PROVE  Served(k, m)
    BY <1>6, <2>4, <2>8, <2>9, <2>10 DEF Served, Resting
  <2>11. Goes(l, k)
    BY <1>4, <2>4, <2>7, <2>9, <2>10 DEF Goes
  <2>12. QED
    BY <2>4, <2>11 DEF Goal
<1>15. CASE l.pc = "count" /\ (DeliveryCount(i, s) \/ DeliveryCountUnknown(i, s)) /\ Process(i, s, l)
  <2>1. /\ Held(l) /\ l.msg \in Message
        /\ UNCHANGED <<bad, consumers, letters, pel>>
        /\ disturbed' = disturbed \/ disturbed' = disturbed + 1
    BY <1>2, <1>15 DEF DeliveryCount, DeliveryCountUnknown, redis, Disturb, Resting
  <2>2. /\ \E k : /\ Put(i, s, k) /\ Alert(k) /\ k.pc \notin {"bury", "buried"}
                  /\ l.running => \A m \in l.batch : Owes(k, m)
                  /\ l.running /\ l.msg \in bad => Owes(k, l.msg)
        /\ \A m \in Message : tries[m] <= tries'[m]
        /\ l.msg \notin bad => tries'[l.msg] > tries[l.msg] \/ tries'[l.msg] >= MaxDeliveryCount
    BY <1>15, <2>1, ProcessPays
  <2>3. PICK k : /\ Put(i, s, k) /\ Alert(k) /\ k.pc \notin {"bury", "buried"}
                 /\ l.running => \A m \in l.batch : Owes(k, m)
                 /\ l.running /\ l.msg \in bad => Owes(k, l.msg)
    BY <2>2
  <2>4. ASSUME l.running, NEW m \in Message, Owes(l, m) PROVE Served(k, m)
    <3>1. m \in l.batch \/ m = l.msg
      BY <2>4 DEF Owes
    <3>2. QED
      BY <2>2, <2>3, <2>4, <3>1 DEF Served
  <2>5. Goes(l, k)
    BY <2>1, <2>2, <2>3, <2>4 DEF Goes
  <2>6. QED
    BY <2>3, <2>5 DEF Goal
<1>16. CASE DeliveryCount(i, s) /\ ~Process(i, s, l)
  <2>1. PICK k : k = IF l.running THEN At(l, "bury") ELSE Off
    OBVIOUS
  <2>2. /\ l.pc = "count" /\ Put(i, s, k) /\ pel[l.msg] # None /\ pel[l.msg].count > MaxDeliveryCount
        /\ UNCHANGED <<bad, consumers, tries, letters, pel, disturbed>>
    BY <1>1, <1>16, <2>1 DEF DeliveryCount, redis
  <2>3. Held(l) /\ l.redo
    BY <1>2, <2>2 DEF Shape, Resting
  <2>4. CASE ~l.running
    BY <1>5, <1>10, <2>1, <2>2, <2>4
  <2>5. CASE l.running
    <3>1. k.pc = "bury" /\ k.msg = l.msg /\ k.batch = l.batch /\ k.running
      BY <2>1, <2>3, <2>5, AtShape
    <3>2. ASSUME NEW m \in Message, Owes(l, m) PROVE Served(k, m)
      <4>1. m \in l.batch \/ m = l.msg
        BY <3>2 DEF Owes
      <4>2. QED
        BY <1>8, <2>2, <2>5, <3>1, <4>1 DEF Served
    <3>3. Goes(l, k)
      BY <1>4, <2>2, <3>1, <3>2 DEF Goes, Alert
    <3>4. QED
      BY <2>2, <3>3 DEF Goal
  <2>6. QED
    BY <2>4, <2>5
<1>17. CASE Bury(i, s)
  <2>1. PICK k : k = IF l.running THEN At(l, "buried") ELSE Off
    OBVIOUS
  <2>2. /\ l.pc = "bury" /\ Put(i, s, k) /\ letters' = [letters EXCEPT ![l.msg] = @ + 1]
        /\ UNCHANGED <<bad, consumers, tries, pel, disturbed>>
    BY <1>1, <1>17, <2>1 DEF Bury, history
  <2>3. Held(l) /\ l.redo
    BY <1>2, <2>2 DEF Shape, Resting
  <2>4. \A m \in Message : letters'[m] = letters[m] \/ m = l.msg
    BY <2>2 DEF DeliverInv, RedisTypes
  <2>5. /\ Alert(k) /\ (k.pc \in {"bury", "buried"} => k.msg = l.msg)
        /\ l.running => k.batch = l.batch /\ k.running
    BY <1>10, <2>1, <2>3, AtShape DEF Alert
  <2>6. ASSUME l.running, NEW m \in Message, Owes(l, m) PROVE Served(k, m)
    BY <1>7, <1>8, <2>2, <2>5, <2>6
  <2>7. Goes(l, k)
    BY <1>4, <2>2, <2>4, <2>5, <2>6 DEF Goes
  <2>8. QED
    BY <2>2, <2>7 DEF Goal
<1>18. CASE Ack(i, s)
  <2>1. /\ Put(i, s, MessageDone(l)) /\ l.pc \in {"ack", "buried"} /\ pel' = [pel EXCEPT ![l.msg] = None]
        /\ UNCHANGED <<bad, consumers, tries, letters, disturbed>>
    BY <1>1, <1>18 DEF Ack, history
  <2>2. l.msg # 0 /\ l.msg \in Message
    BY <1>2, <2>1 DEF Resting
  <2>3. pel'[l.msg] = None /\ \A m \in Message : pel'[m] = None \/ pel'[m] = pel[m]
    BY <2>1, <2>2 DEF DeliverInv, RedisTypes
  <2>4. ASSUME l.running, NEW m \in Message, Owes(l, m) PROVE Served(MessageDone(l), m)
    <3>1. m \in l.batch \/ m = l.msg
      BY <2>4 DEF Owes
    <3>2. QED
      BY <1>9, <2>2, <2>3, <2>4, <3>1 DEF Served
  <2>5. QED
    BY <1>5, <1>9, <2>1, <2>2, <2>3, <2>4
<1>19. CASE Read(i, s) /\ Unread = {}
  <2>1. /\ Put(i, s, Top(l)) /\ l.pc = "read"
        /\ UNCHANGED <<bad, consumers, tries, letters, pel, disturbed>>
    BY <1>1, <1>19 DEF Read, redis
  <2>2. QED
    BY <1>5, <1>6, <1>10, <2>1 DEF Resting
<1>20. CASE Read(i, s) /\ Unread # {}
  <2>1. PICK n : n = First(Unread)
    OBVIOUS
  <2>2. PICK h : h = [l EXCEPT !.msg = n]
    OBVIOUS
  <2>3. /\ l.pc = "read" /\ Deliverable(i, First(Unread)) /\ Process(i, s, h)
        /\ UNCHANGED <<consumers, disturbed>>
    BY <1>1, <1>20, <2>1, <2>2 DEF Read
  <2>4. /\ n \in Message /\ UNCHANGED <<bad, letters>>
        /\ pel' = [pel EXCEPT ![n] = [by |-> i, idle |-> 0, count |-> 1]]
    BY <1>20, <2>1, <2>3, DeliverableMoves
  <2>5. Held(h) /\ h.msg = n /\ h.batch = {} /\ (h.running <=> l.running)
    BY <1>2, <2>2, <2>3, <2>4, ReadShape
  <2>6. /\ \E k : /\ Put(i, s, k) /\ Alert(k) /\ k.pc \notin {"bury", "buried"}
                  /\ h.running => \A m \in h.batch : Owes(k, m)
                  /\ h.running /\ h.msg \in bad => Owes(k, h.msg)
        /\ \A m \in Message : tries[m] <= tries'[m]
        /\ h.msg \notin bad => tries'[h.msg] > tries[h.msg] \/ tries'[h.msg] >= MaxDeliveryCount
    BY <2>3, <2>4, <2>5, ProcessPays
  <2>7. PICK k : /\ Put(i, s, k) /\ Alert(k) /\ k.pc \notin {"bury", "buried"}
                 /\ l.running /\ n \in bad => Owes(k, n)
    BY <2>5, <2>6
  <2>8. /\ \A m \in Message : m # n => pel'[m] = pel[m]
        /\ pel'[n].count = 1
    BY <2>4 DEF DeliverInv, RedisTypes
  <2>9. ASSUME l.running, NEW m \in Message, Owes(l, m) \/ (pel'[m] # None /\ pel'[m] # pel[m])
        PROVE  Served(k, m)
    <3>1. m = n
      BY <1>6, <2>3, <2>8, <2>9 DEF Resting
    <3>2. QED
      BY <2>5, <2>6, <2>7, <2>9, <3>1 DEF Served
  <2>10. \A m \in Message : pel'[m] = None \/ pel'[m] = pel[m] \/ Redelivered(l, m)
    BY <2>3, <2>8 DEF Redelivered
  <2>11. Goes(l, k)
    BY <2>3, <2>4, <2>6, <2>7, <2>9, <2>10 DEF Goes
  <2>12. QED
    BY <2>7, <2>11 DEF Goal
<1>21. CASE CommandFails(i, s)
  <2>1. UNCHANGED <<consumers, tries>> /\ disturbed' = disturbed + 1
    BY <1>21 DEF CommandFails, Disturb, history
  <2>2. PICK k : /\ Put(i, s, k)
                 /\ \/ k = RecoveryDone(l) \/ k = Top(l)
                    \/ l.pc = "ack" /\ k = MessageDone(l)
    BY <1>1, <1>21 DEF CommandFails
  <2>3. Alert(k) /\ k.pc \notin {"bury", "buried"}
    BY <1>2, <1>9, <1>10, <2>2 DEF Resting
  <2>4. /\ bad' = bad
        /\ letters' = letters \/ (l.pc = "bury" /\ letters' = [letters EXCEPT ![l.msg] = @ + 1])
    BY <1>1, <1>21, DeliverableMoves DEF CommandFails
  <2>5. \A m \in Message : letters'[m] = letters[m] \/ (l.pc = "bury" /\ m = l.msg)
    BY <2>4 DEF DeliverInv, RedisTypes
  <2>6. \/ pel' = pel
        \/ l.pc = "autoclaim" /\ pel' = Autoclaimed(i, l.cursor)
        \/ l.pc = "read" /\ Unread # {} /\ Deliverable(i, First(Unread))
        \/ l.pc = "ack" /\ pel' = [pel EXCEPT ![l.msg] = None]
    BY <1>1, <1>21 DEF CommandFails
  <2>7. ASSUME NEW m \in Message
        PROVE  pel'[m] = None \/ pel'[m] = pel[m] \/ Redelivered(l, m)
    <3>1. CASE l.pc = "autoclaim" /\ pel' = Autoclaimed(i, l.cursor)
      BY <3>1, AutoclaimRedelivers
    <3>2. CASE l.pc = "read" /\ Unread # {} /\ Deliverable(i, First(Unread))
      <4>1. PICK n \in Message : pel' = [pel EXCEPT ![n] = [by |-> i, idle |-> 0, count |-> 1]]
        BY <3>2, DeliverableMoves
      <4>2. QED
        BY <3>2, <4>1 DEF Redelivered, DeliverInv, RedisTypes
    <3>3. CASE l.pc = "ack" /\ pel' = [pel EXCEPT ![l.msg] = None]
      BY <3>3 DEF DeliverInv, RedisTypes
    <3>4. QED
      BY <2>6, <3>1, <3>2, <3>3
  <2>8. Goes(l, k)
    BY <1>4, <2>1, <2>3, <2>4, <2>5, <2>7 DEF Goes
  <2>9. QED
    BY <2>2, <2>8 DEF Goal
\* The steps of dispatch().
<1>22. ASSUME NEW k, Put(i, s, k), l.pc \in DispatchStep, UNCHANGED <<bad, consumers, tries, letters, pel, disturbed>>,
              \/ /\ k.pc \in DispatchStep \cup {"ack"} /\ k.batch = l.batch /\ (k.running <=> l.running)
              \/ k = Off /\ ~l.running
       PROVE  Goal
  <2>1. Alert(k) /\ k.pc \notin {"bury", "buried"}
    BY <1>10, <1>22 DEF Alert, DispatchStep
  <2>2. ASSUME l.running, NEW m \in Message, Owes(l, m) PROVE Served(k, m)
    <3>1. m \in l.batch
      BY <1>7, <1>22, <2>2 DEF DispatchStep
    <3>2. k.batch = l.batch /\ k.running
      BY <1>22, <2>2
    <3>3. QED
      BY <1>8, <2>2, <3>1, <3>2
  <2>3. QED
    BY <1>5, <1>22, <2>1, <2>2
<1>23. CASE Fetch(i, s)
  <2>1. PICK k : k = [l EXCEPT !.pc = "fetched", !.data = status]
    OBVIOUS
  <2>2. Put(i, s, k) /\ l.pc = "fetch" /\ UNCHANGED <<bad, consumers, tries, letters, pel, disturbed>>
    BY <1>1, <1>23, <2>1 DEF Fetch, redis, history
  <2>3. k.pc = "fetched" /\ k.batch = l.batch /\ (k.running <=> l.running)
    BY <1>2, <2>1 DEF LoopRecord
  <2>4. QED
    BY <1>22, <2>2, <2>3 DEF DispatchStep
<1>24. CASE Fetched(i, s)
  <2>1. PICK data : data = l.data
    OBVIOUS
  <2>2. PICK k : k = Judge(l, data)
    OBVIOUS
  <2>3. /\ Put(i, s, k) /\ l.pc = "fetched" /\ Held(l)
        /\ UNCHANGED <<bad, consumers, tries, letters, pel, disturbed>>
    BY <1>1, <1>2, <1>24, <2>1, <2>2 DEF Fetched, Resting, redis
  <2>4. /\ \/ k.pc \in {"log", "ack"} /\ k.batch = l.batch
           \/ k = Off /\ ~l.running
        /\ k.running <=> l.running
    BY <2>2, <2>3, JudgeShape, OffShape
  <2>5. QED
    BY <1>22, <2>3, <2>4 DEF DispatchStep
<1>25. CASE CreateLog(i, s)
  <2>1. PICK k : k = [l EXCEPT !.pc = "call", !.attempt = 1]
    OBVIOUS
  <2>2. Put(i, s, k) /\ l.pc = "log" /\ UNCHANGED <<bad, consumers, tries, letters, pel, disturbed>>
    BY <1>1, <1>25, <2>1 DEF CreateLog, redis, history
  <2>3. k.pc = "call" /\ k.batch = l.batch /\ (k.running <=> l.running)
    BY <1>2, <2>1 DEF LoopRecord
  <2>4. QED
    BY <1>22, <2>2, <2>3 DEF DispatchStep
<1>26. CASE Call(i, s)
  <2>1. PICK accepts \in BOOLEAN, heard \in BOOLEAN :
           Put(i, s, IF accepts /\ heard
                     THEN [l EXCEPT !.pc = "mark", !.attempt = 0, !.data = "active"]
                   ELSE IF l.attempt <= MaxRetries THEN [l EXCEPT !.attempt = @ + 1]
                   ELSE [l EXCEPT !.pc = "mark", !.attempt = 0])
    BY <1>1, <1>26 DEF Call
  <2>2. PICK k : k = IF accepts /\ heard
                     THEN [l EXCEPT !.pc = "mark", !.attempt = 0, !.data = "active"]
                   ELSE IF l.attempt <= MaxRetries THEN [l EXCEPT !.attempt = @ + 1]
                   ELSE [l EXCEPT !.pc = "mark", !.attempt = 0]
    OBVIOUS
  <2>3. /\ Put(i, s, k) /\ l.pc = "call"
        /\ UNCHANGED <<bad, consumers, tries, letters, pel, disturbed>>
    BY <1>1, <1>26, <2>1, <2>2 DEF Call, redis
  <2>4. k.pc \in {"call", "mark"} /\ k.batch = l.batch /\ (k.running <=> l.running)
    BY <1>2, <2>2, <2>3 DEF LoopRecord
  <2>5. QED
    BY <1>22, <2>3, <2>4 DEF DispatchStep
<1>27. CASE Mark(i, s)
  <2>1. PICK g : g = [l EXCEPT !.data = "gone"]
    OBVIOUS
  <2>2. /\ l.pc = "mark" /\ l.msg # 0 /\ Held(l)
        /\ Put(i, s, IF l.data = "active" THEN Acknowledge(g) ELSE MessageDone(l))
        /\ UNCHANGED <<bad, consumers, tries, letters, pel, disturbed>>
    BY <1>1, <1>2, <1>27, <2>1 DEF Mark, Resting, redis, history
  <2>3. CASE l.data = "active"
    <3>1. /\ g \in LoopRecord /\ g.msg = l.msg /\ g.batch = l.batch /\ (g.redo <=> l.redo)
          /\ g.cursor = l.cursor /\ g.handled = l.handled /\ (g.running <=> l.running)
      BY <1>2, <2>1 DEF LoopRecord, Status
    <3>2. Held(g)
      BY <2>2, <3>1 DEF Held, Scan
    <3>3. PICK k : k = Acknowledge(g)
      OBVIOUS
    <3>4. /\ \/ k = Off /\ ~g.running
             \/ k.pc = "ack" /\ k.batch = g.batch
          /\ k.running <=> g.running
      BY <3>2, <3>3, AcknowledgeShape
    <3>5. QED
      BY <1>22, <2>2, <2>3, <3>1, <3>3, <3>4 DEF DispatchStep
  <2>4. CASE l.data # "active"
    <3>1. ASSUME l.running, NEW m \in Message, Owes(l, m) PROVE Served(MessageDone(l), m)
      BY <1>7, <1>9, <2>2, <3>1 DEF Served
    <3>2. QED
      BY <1>5, <1>9, <2>2, <2>4, <3>1
  <2>5. QED
    BY <2>3, <2>4
<1>28. CASE DeliveryCount(i, s) \/ DeliveryCountUnknown(i, s)
  <2>1. l.pc = "count" /\ (DeliveryCountUnknown(i, s) => Process(i, s, l))
    BY <1>1, <1>28 DEF DeliveryCount, DeliveryCountUnknown
  <2>2. QED
    BY <1>15, <1>16, <1>28, <2>1
<1>29. QED
  BY <1>11, <1>12, <1>13, <1>14, <1>17, <1>18, <1>19, <1>20, <1>21, <1>23, <1>24, <1>25, <1>26, <1>27, <1>28
     DEF LoopStep, LoopActs

-----------------------------------------------------------------------------
(* Every delivery is accounted for                                          *)

\* A step of the loop (i, s) takes it out of those that close.
LEMMA LateLeaves ==
  ASSUME DeliverInv, NEW i \in Instance, NEW s \in Slot, NEW k, Put(i, s, k), Alert(k)
  PROVE  /\ Late' = Late \ {<<i, s>>}
         /\ Cardinality(Late') = Cardinality(Late) - (IF Closing(loop[i][s]) THEN 1 ELSE 0)
<1>1. /\ loop'[i][s] = k
      /\ \A j \in Instance, t \in Slot : <<j, t>> # <<i, s>> => loop'[j][t] = loop[j][t]
  BY PutLoop DEF DeliverInv
<1>2. ASSUME NEW j \in Instance, NEW t \in Slot
      PROVE  Closing(loop'[j][t]) <=> (<<j, t>> # <<i, s>> /\ Closing(loop[j][t]))
  BY <1>1 DEF Closing, Alert
<1>3. Late' = {p \in Instance \X Slot : Closing(loop'[p[1]][p[2]])}
  BY DEF Late, Closing
<1>4. Late' = Late \ {<<i, s>>}
  BY <1>2, <1>3 DEF Late
<1>5. <<i, s>> \in Late <=> Closing(loop[i][s])
  BY DEF Late
<1>6. Cardinality(Late') = Cardinality(Late) - (IF <<i, s>> \in Late THEN 1 ELSE 0)
  <2>1. PICK S : S = Late
    OBVIOUS
  <2>2. IsFiniteSet(S) /\ Cardinality(S) \in Nat
    BY <2>1, LateFinite
  <2>3. Cardinality(S \ {<<i, s>>}) = IF <<i, s>> \in S THEN Cardinality(S) - 1 ELSE Cardinality(S)
    BY <2>2, FS_RemoveElement
  <2>4. QED
    BY <1>4, <2>1, <2>2, <2>3
<1>7. QED
  BY <1>4, <1>5, <1>6

\* While (i, s) is running, what another loop owes stays owed; and when it owes nothing
\* itself, nobody does.
LEMMA OthersOwe ==
  ASSUME DeliverInv, OneConsumer, NEW i \in Instance, NEW s \in Slot, NEW k, Put(i, s, k), bad' = bad,
         NEW m \in Message
  PROVE  /\ Owed(m) /\ ~Owes(loop[i][s], m) => ~loop[i][s].running /\ Owed(m)'
         /\ Owes(k, m) => Owed(m)'
<1>1. /\ loop'[i][s] = k
      /\ \A j \in Instance, t \in Slot : <<j, t>> # <<i, s>> => loop'[j][t] = loop[j][t]
  BY PutLoop DEF DeliverInv
<1>2. Owed(m)' <=> \E j \in Instance, t \in Slot : Owes(loop'[j][t], m)
  BY DEF Owed, Owes
<1>3. ASSUME Owed(m), ~Owes(loop[i][s], m)
      PROVE  ~loop[i][s].running /\ Owed(m)'
  <2>1. PICK j \in Instance, t \in Slot : Owes(loop[j][t], m)
    BY <1>3 DEF Owed
  <2>2. <<j, t>> # <<i, s>> /\ loop[j][t].running
    BY <1>3, <2>1 DEF Owes
  <2>3. ~loop[i][s].running
    BY <2>2, OneRuns
  <2>4. QED
    BY <1>1, <1>2, <2>1, <2>2, <2>3
<1>4. QED
  BY <1>1, <1>2, <1>3

LEMMA LoopKeepsTries ==
  ASSUME DeliverInv, DeliverInv', TriesInv, NEW i \in Instance, NEW s \in Slot, NEW k, Put(i, s, k),
         Goes(loop[i][s], k)
  PROVE  TriesInv'
<1>1. PICK l : l = loop[i][s]
  OBVIOUS
<1>2. /\ loop'[i][s] = k /\ Goes(l, k)
      /\ \A j \in Instance, t \in Slot : <<j, t>> # <<i, s>> => loop'[j][t] = loop[j][t]
  BY <1>1, PutLoop DEF DeliverInv
<1>3. /\ OneConsumer /\ Spare >= 0 /\ BuriesTried /\ DeadLettersWereTried
      /\ \A m \in Message : CountFits(m)
  BY DEF TriesInv
<1>4. /\ disturbed \in Nat /\ Spare \in Int /\ Spare <= disturbed
      /\ disturbed' \in Nat /\ Spare' \in Int /\ Spare' <= disturbed'
      /\ \A m \in Message : tries[m] \in Nat /\ tries'[m] \in Nat
      /\ \A m \in Message : letters[m] \in Nat /\ letters'[m] \in Nat
      /\ \A m \in Message : pel[m] # None => pel[m].count \in Nat
      /\ \A m \in Message : pel'[m] # None => pel'[m].count \in Nat
  <2>1. /\ disturbed \in Nat /\ Spare \in Int /\ Spare <= disturbed
        /\ \A m \in Message : tries[m] \in Nat /\ letters[m] \in Nat
        /\ \A m \in Message : pel[m] # None => pel[m].count \in Nat
    BY CountTypes
  <2>2. /\ disturbed' \in Nat /\ Spare' \in Int /\ Spare' <= disturbed'
        /\ \A m \in Message : tries'[m] \in Nat /\ letters'[m] \in Nat
        /\ \A m \in Message : pel'[m] # None => pel'[m].count \in Nat
    BY NextCountTypes
  <2>3. QED
    BY <2>1, <2>2
<1>5. /\ Spare' = disturbed' - Cardinality(Late')
      /\ Cardinality(Late') = Cardinality(Late) - (IF Closing(l) THEN 1 ELSE 0)
      /\ Cardinality(Late) \in Nat
  BY <1>1, <1>2, LateLeaves, LateFinite DEF Spare, Goes
<1>6. /\ disturbed' = disturbed \/ disturbed' = disturbed + 1
      /\ Spare' >= Spare /\ (Closing(l) => Spare' >= Spare + 1)
      /\ disturbed' = disturbed + 1 => Spare' >= Spare + 1 /\ (Closing(l) => Spare' >= Spare + 2)
      /\ disturbed' = disturbed /\ ~Closing(l) => Spare' = Spare
  <2>1. disturbed' = disturbed \/ disturbed' = disturbed + 1
    BY <1>2 DEF Goes
  <2>2. PICK c \in {0, 1} : c = IF Closing(l) THEN 1 ELSE 0
    OBVIOUS
  <2>3. /\ disturbed \in Nat /\ disturbed' \in Nat /\ Spare \in Int /\ Spare' \in Int
        /\ Cardinality(Late) \in Nat
    BY <1>4, <1>5
  <2>4. Spare' = Spare + (disturbed' - disturbed) + c
    BY <1>5, <2>2, <2>3 DEF Spare
  <2>5. PICK a \in Int, b \in Int, d \in Nat, e \in Nat :
          a = Spare /\ b = Spare' /\ d = disturbed /\ e = disturbed'
    BY <2>3
  <2>6. (e = d \/ e = d + 1) /\ b = a + (e - d) + c
    BY <2>1, <2>4, <2>5
  <2>7. /\ b >= a /\ (c = 1 => b >= a + 1)
        /\ e = d + 1 => b >= a + 1 /\ (c = 1 => b >= a + 2)
        /\ e = d /\ c = 0 => b = a
    BY <2>6
  <2>8. QED
    BY <2>1, <2>2, <2>5, <2>7
<1>7. ASSUME NEW m \in Message, Tried(m) PROVE Tried(m)'
  <2>1. tries[m] <= tries'[m]
    BY <1>2 DEF Goes
  <2>2. QED
    BY <1>4, <1>6, <1>7, <2>1, Constants DEF Tried
<1>8. ASSUME NEW m \in Message, tries'[m] >= MaxDeliveryCount PROVE Tried(m)'
  BY <1>4, <1>8, Constants DEF Tried
<1>9. ASSUME NEW m \in Message, pel[m] # None, pel[m].count > MaxDeliveryCount PROVE Tried(m)
  BY <1>3, <1>9, Overdue
\* A loop that awaits messages, and runs, owes none; so does everybody.
<1>10. ASSUME l.pc \in {"autoclaim", "read"}, l.running, NEW m \in Message PROVE ~Owed(m)
  <2>1. l.msg = 0 /\ l.batch = {}
    BY <1>1, <1>10, TheLoop DEF Shape, Scan, Resting
  <2>2. ~Owes(l, m)
    BY <1>10, <2>1 DEF Owes
  <2>3. QED
    BY <1>1, <1>2, <1>3, <1>10, <2>2, OthersOwe DEF Goes
<1>11. ASSUME NEW m \in Message PROVE CountFits(m)'
  <2>1. /\ Owing(m) = IF Owed(m) THEN 1 ELSE 0
        /\ Owing(m)' = IF Owed(m)' THEN 1 ELSE 0
    BY DEF Owing
  <2>2. tries[m] <= tries'[m] /\ (pel'[m] = None \/ pel'[m] = pel[m] \/ Redelivered(l, m))
    BY <1>2 DEF Goes
  <2>3. CountFits(m)
    BY <1>3
  <2> SUFFICES ASSUME pel'[m] # None, ~Tried(m)'
               PROVE  pel'[m].count <= tries'[m] + Spare' + Owing(m)'
    BY DEF CountFits
  <2>4. ~Tried(m) /\ (pel[m] # None => pel[m].count <= tries[m] + Spare + Owing(m))
    BY <1>7, <2>3 DEF CountFits
  <2>5. /\ Spare \in Int /\ Spare' \in Int /\ tries[m] \in Nat /\ tries'[m] \in Nat
         /\ Owing(m) \in {0, 1} /\ Owing(m)' \in {0, 1}
         /\ pel'[m].count \in Nat /\ (pel[m] # None => pel[m].count \in Nat)
    BY <1>4, <2>1
  <2>6. Owed(m) /\ ~Owed(m)' => Owes(l, m) /\ l.running
    BY <1>1, <1>2, <1>3, OthersOwe DEF Goes, Owes
  <2>7. CASE disturbed' = disturbed + 1
    <3>1. Spare' >= Spare + 1 /\ (Closing(l) => Spare' >= Spare + 2)
      BY <1>6, <2>7
    <3>2. CASE pel'[m] = pel[m]
      BY <2>5, <2>1, <2>2, <2>4, <3>1, <3>2
    <3>3. CASE l.pc = "read" /\ pel'[m].count = 1
      BY <1>3, <2>5, <2>1, <2>2, <3>1, <3>3
    <3>4. CASE l.pc = "autoclaim" /\ pel[m] # None /\ pel'[m].count <= pel[m].count + 1
      <4>1. CASE l.running
        BY <2>5, <1>10, <2>1, <2>2, <2>4, <3>1, <3>4, <4>1
      <4>2. CASE ~l.running
        BY <2>5, <2>1, <2>2, <2>4, <3>1, <3>4, <4>2 DEF Closing
      <4>3. QED
        BY <4>1, <4>2
    <3>5. QED
      BY <2>2, <3>2, <3>3, <3>4 DEF Redelivered
  <2>8. CASE ~l.running
    <3>1. Owed(m) => Owed(m)'
      BY <2>6, <2>8
    <3>2. Spare' >= Spare /\ (Closing(l) => Spare' >= Spare + 1)
      BY <1>6
    <3>3. CASE pel'[m] = pel[m]
      BY <2>5, <2>1, <2>2, <2>4, <3>1, <3>2, <3>3
    <3>4. CASE l.pc = "read" /\ pel'[m].count = 1
      BY <1>3, <2>5, <2>1, <2>2, <2>8, <3>2, <3>4 DEF Closing
    <3>5. CASE l.pc = "autoclaim" /\ pel[m] # None /\ pel'[m].count <= pel[m].count + 1
      BY <2>5, <2>1, <2>2, <2>4, <2>8, <3>1, <3>2, <3>5 DEF Closing
    <3>6. QED
      BY <2>2, <3>3, <3>4, <3>5 DEF Redelivered
  <2>9. CASE disturbed' = disturbed /\ l.running
    <3>1. Spare' = Spare
      BY <1>6, <2>9 DEF Closing
    <3>2. Owes(l, m) \/ pel'[m] # pel[m] => Served(k, m)
      BY <1>2, <1>4, <2>9 DEF Goes
    <3>3. Served(k, m) => Owed(m)' \/ tries'[m] > tries[m]
      <4>1. Owes(k, m) => Owed(m)'
        BY <1>1, <1>2, <1>3, OthersOwe DEF Goes
      <4>2. QED
        BY <1>7, <1>8, <1>9, <4>1 DEF Served
    <3>4. CASE pel'[m] = pel[m]
      BY <2>5, <2>1, <2>2, <2>4, <2>6, <3>1, <3>2, <3>3, <3>4
    <3>5. CASE pel'[m] # pel[m] /\ l.pc = "read" /\ pel'[m].count = 1
      BY <1>3, <2>5, <2>1, <2>2, <3>1, <3>2, <3>3, <3>5
    <3>6. CASE pel'[m] # pel[m] /\ l.pc = "autoclaim" /\ pel[m] # None /\ pel'[m].count <= pel[m].count + 1
      <4>1. ~Owed(m)
        BY <1>10, <2>9, <3>6
      <4>2. QED
        BY <2>5, <2>1, <2>2, <2>4, <3>1, <3>2, <3>3, <3>6, <4>1
    <3>7. QED
      BY <2>2, <3>4, <3>5, <3>6 DEF Redelivered
  <2>10. QED
    BY <1>6, <2>7, <2>8, <2>9
<1>12. Spare' >= 0
  <2>1. Spare \in Int /\ Spare' \in Int
    BY <1>4
  <2>2. QED
    BY <1>3, <1>6, <2>1
<1>13. OneConsumer'
  BY <1>2, <1>3 DEF OneConsumer, Goes
<1>14. l.pc = "bury" => l.msg \in Message /\ Tried(l.msg)
  BY <1>1, <1>3, TheLoop DEF BuriesTried, Resting
<1>15. BuriesTried'
  <2>1. ASSUME NEW j \in Instance, NEW t \in Slot, loop'[j][t].pc \in {"bury", "buried"}
        PROVE  tries'[loop'[j][t].msg] + disturbed' >= MaxDeliveryCount
    <3>1. CASE <<j, t>> # <<i, s>>
      <4>1. loop'[j][t] = loop[j][t]
        BY <1>2, <3>1
      <4>2. Tried(loop[j][t].msg) /\ loop[j][t].msg \in Message
        BY <1>3, <2>1, <4>1, TheLoop DEF BuriesTried, Resting
      <4>3. PICK m \in Message : m = loop[j][t].msg
        BY <4>2
      <4>4. Tried(m)'
        BY <1>7, <4>2, <4>3
      <4>5. QED
        BY <4>1, <4>3, <4>4 DEF Tried
    <3>2. CASE <<j, t>> = <<i, s>>
      <4>1. k.pc \in {"bury", "buried"} /\ loop'[j][t] = k
        BY <1>2, <2>1, <3>2
      <4>2. /\ k.msg = l.msg
            /\ l.pc = "bury" \/ (l.pc = "count" /\ pel[l.msg] # None /\ pel[l.msg].count > MaxDeliveryCount)
        BY <1>2, <4>1 DEF Goes
      <4>3. l.msg \in Message
        BY <1>1, <4>2, TheLoop DEF Resting
      <4>4. PICK m \in Message : m = l.msg
        BY <4>3
      <4>5. Tried(m)'
        BY <1>7, <1>9, <1>14, <4>2, <4>4
      <4>6. QED
        BY <4>1, <4>2, <4>4, <4>5 DEF Tried
    <3>3. QED
      BY <3>1, <3>2
  <2>2. QED
    BY <2>1 DEF BuriesTried, Tried
<1>16. DeadLettersWereTried'
  <2>1. ASSUME NEW m \in Message, letters'[m] > 0
        PROVE  Tried(m)'
    <3>1. letters'[m] = letters[m] \/ (l.pc = "bury" /\ m = l.msg)
      BY <1>2 DEF Goes
    <3>2. Tried(m)
      BY <1>3, <1>14, <2>1, <3>1 DEF DeadLettersWereTried, Dead, Tried
    <3>3. QED
      BY <1>7, <3>2
  <2>2. QED
    BY <2>1 DEF DeadLettersWereTried, Dead, Tried
<1>17. QED
  BY <1>11, <1>12, <1>13, <1>15, <1>16 DEF TriesInv

LEMMA Pays ==
  ASSUME NEW x \in Int, NEW y \in Int, NEW a \in {0, 1}, NEW b \in {0, 1}, x <= y,
         a <= b \/ x + 1 <= y
  PROVE  x + a <= y + b
OBVIOUS

\* Any other step: what it leaves undispatched, it has paid for with a disturbance.
LEMMA RestKeepsTries ==
  ASSUME DeliverInv, DeliverInv', TriesInv, OneConsumer', UNCHANGED <<tries, letters>>,
         disturbed <= disturbed', Spare <= Spare',
         Spare + 1 <= Spare' \/ \A m \in Message : Owed(m) => Owed(m)',
         \A m \in Message : pel'[m] = None \/ (pel[m] # None /\ pel'[m].count = pel[m].count),
         \A i \in Instance, s \in Slot : loop'[i][s].pc \in {"bury", "buried"} =>
           loop'[i][s].pc = loop[i][s].pc /\ loop'[i][s].msg = loop[i][s].msg
  PROVE  TriesInv'
<1>1. /\ Spare >= 0 /\ BuriesTried /\ DeadLettersWereTried
      /\ \A m \in Message : CountFits(m)
  BY DEF TriesInv
<1>2. /\ disturbed \in Nat /\ Spare \in Int
      /\ \A m \in Message : tries[m] \in Nat
      /\ \A m \in Message : pel[m] # None => pel[m].count \in Nat
  BY CountTypes
<1>3. disturbed' \in Nat /\ Spare' \in Int
  BY NextCountTypes
<1>4. ASSUME NEW m \in Message, Tried(m) PROVE Tried(m)'
  BY <1>2, <1>3, <1>4, Constants DEF Tried
<1>5. ASSUME NEW m \in Message PROVE CountFits(m)'
  <2> SUFFICES ASSUME pel'[m] # None, ~Tried(m)'
               PROVE  pel'[m].count <= tries'[m] + Spare' + Owing(m)'
    BY DEF CountFits
  <2>1. /\ Owing(m) = IF Owed(m) THEN 1 ELSE 0
        /\ Owing(m)' = IF Owed(m)' THEN 1 ELSE 0
    BY DEF Owing
  <2>2. pel[m] # None /\ pel[m].count <= tries[m] + Spare + Owing(m)
    BY <1>1, <1>4 DEF CountFits
  <2>3. Spare + Owing(m) <= Spare' + Owing(m)'
    <3>1. PICK a \in {0, 1} : a = Owing(m)
      BY <2>1
    <3>2. PICK b \in {0, 1} : b = Owing(m)'
      BY <2>1
    <3>3. a <= b \/ Spare + 1 <= Spare'
      <4>1. (Owed(m) => Owed(m)') \/ Spare + 1 <= Spare'
        OBVIOUS
      <4>2. CASE Owed(m) => Owed(m)'
        BY <2>1, <3>1, <3>2, <4>2
      <4>3. QED
        BY <4>1, <4>2
    <3>4. Spare + a <= Spare' + b
      BY <1>2, <1>3, <3>3, Pays
    <3>5. QED
      BY <3>1, <3>2, <3>4
  <2>4. pel'[m].count = pel[m].count /\ tries'[m] = tries[m] /\ Owing(m) \in Nat /\ Owing(m)' \in Nat
    BY <2>1
  <2>5. pel[m].count \in Nat /\ tries[m] \in Nat
    BY <1>2, <2>2
  <2>6. QED
    BY <1>2, <1>3, <2>2, <2>3, <2>4, <2>5
<1>6. BuriesTried'
  <2>1. ASSUME NEW j \in Instance, NEW t \in Slot, loop'[j][t].pc \in {"bury", "buried"}
        PROVE  tries'[loop'[j][t].msg] + disturbed' >= MaxDeliveryCount
    <3>1. PICK m \in Message : m = loop[j][t].msg
      BY <2>1, TheLoop DEF Resting
    <3>2. Tried(m)
      BY <1>1, <2>1, <3>1 DEF BuriesTried
    <3>3. Tried(m)'
      BY <1>4, <3>2
    <3>4. QED
      BY <2>1, <3>1, <3>3 DEF Tried
  <2>2. QED
    BY <2>1 DEF BuriesTried, Tried
<1>7. DeadLettersWereTried'
  <2>1. ASSUME NEW m \in Message, letters'[m] > 0 PROVE Tried(m)'
    BY <1>1, <1>4, <2>1 DEF DeadLettersWereTried, Dead, Tried
  <2>2. QED
    BY <2>1 DEF DeadLettersWereTried, Dead, Tried
<1>8. Spare' >= 0
  BY <1>1, <1>2, <1>3
<1>9. QED
  BY <1>5, <1>6, <1>7, <1>8 DEF TriesInv

\* Loops that stay where they are close, and owe, as before.
LEMMA StillKeepsTries ==
  ASSUME DeliverInv, DeliverInv', TriesInv, UNCHANGED <<consumers, tries, letters>>,
         bad \subseteq bad', disturbed <= disturbed',
         \A m \in Message : pel'[m] = None \/ (pel[m] # None /\ pel'[m].count = pel[m].count),
         \A i \in Instance, s \in Slot :
           Stands(loop[i][s], loop'[i][s]) /\ (loop'[i][s].running <=> loop[i][s].running)
  PROVE  TriesInv'
<1>1. Late' = Late
  BY DEF Late, Closing, Stands
<1>2. Spare <= Spare'
  <2>1. /\ Spare = disturbed - Cardinality(Late) /\ Spare' = disturbed' - Cardinality(Late)
        /\ Cardinality(Late) \in Nat
    BY <1>1, LateFinite DEF Spare
  <2>2. disturbed \in Nat /\ disturbed' \in Nat
    BY CountTypes, NextCountTypes
  <2>3. QED
    BY <2>1, <2>2
<1>3. ASSUME NEW m \in Message, Owed(m) PROVE Owed(m)'
  <2>1. PICK i \in Instance, s \in Slot : Owes(loop[i][s], m)
    BY <1>3 DEF Owed
  <2>2. \E j \in Instance, t \in Slot :
          /\ loop'[j][t].running
          /\ \/ m \in loop'[j][t].batch
             \/ /\ loop'[j][t].msg = m
                /\ loop'[j][t].pc = "count" \/ (loop'[j][t].pc = "ack" /\ m \in bad')
    BY <2>1 DEF Owes, Stands
  <2>3. QED
    BY <2>2 DEF Owed, Owes
<1>4. OneConsumer'
  BY DEF TriesInv, OneConsumer
<1>5. \A i \in Instance, s \in Slot : loop'[i][s].pc \in {"bury", "buried"} =>
        loop'[i][s].pc = loop[i][s].pc /\ loop'[i][s].msg = loop[i][s].msg
  BY DEF Stands
<1>6. QED
  BY <1>2, <1>3, <1>4, <1>5, RestKeepsTries

LEMMA StartKeepsTries ==
  ASSUME "overlap" \notin Disturbance,
         DeliverInv, DeliverInv', TriesInv, NEW i \in Instance, NEW s \in Slot, StartConsumer(i, s)
  PROVE  TriesInv'
<1>1. PICK k : k = [Off EXCEPT !.pc = "group", !.running = TRUE, !.due = TRUE]
  OBVIOUS
<1>2. /\ Put(i, s, k) /\ loop[i][s].pc = "off"
      /\ UNCHANGED <<pel, bad, tries, letters, disturbed>>
      /\ \A j \in Instance : consumers[j] = None
      /\ consumers' = [consumers EXCEPT ![i] = s]
  BY <1>1 DEF StartConsumer, redis, history
<1>3. k.pc = "group"
  BY <1>1 DEF Off
<1>4. /\ loop'[i][s] = k
      /\ \A j \in Instance, t \in Slot : <<j, t>> # <<i, s>> => loop'[j][t] = loop[j][t]
  BY <1>2, PutLoop DEF DeliverInv
<1>5. Spare' = Spare
  <2>1. Alert(k) /\ ~Closing(loop[i][s])
    BY <1>2, <1>3 DEF Alert, Closing
  <2>2. Cardinality(Late') = Cardinality(Late)
    BY <1>2, <2>1, LateLeaves, LateFinite
  <2>3. QED
    BY <1>2, <2>2 DEF Spare
<1>6. ASSUME NEW m \in Message, Owed(m) PROVE Owed(m)'
  <2>1. loop[i][s].msg = 0 /\ loop[i][s].batch = {} /\ m # 0
    BY <1>2, TheLoop DEF Shape, Scan, Resting, Message
  <2>2. ~Owes(loop[i][s], m)
    BY <2>1 DEF Owes
  <2>3. QED
    BY <1>2, <1>6, <2>2, OthersOwe DEF TriesInv
<1>7. OneConsumer'
  BY <1>2 DEF DeliverInv, LoopTypes, OneConsumer
<1>8. \A j \in Instance, t \in Slot : loop'[j][t].pc \in {"bury", "buried"} =>
        loop'[j][t].pc = loop[j][t].pc /\ loop'[j][t].msg = loop[j][t].msg
  BY <1>3, <1>4
<1>9. Spare <= Spare' /\ disturbed <= disturbed'
  BY <1>2, <1>5, CountTypes
<1>10. QED
  BY <1>2, <1>6, <1>7, <1>8, <1>9, RestKeepsTries

\* A stop: the loop that awaits messages closes, any other gives up what it owes.
LEMMA StopKeepsTries ==
  ASSUME DeliverInv, DeliverInv', TriesInv, NEW i \in Instance, StopConsumer(i)
  PROVE  TriesInv'
<1>1. PICK s \in Slot : s = consumers[i]
  BY DEF StopConsumer, DeliverInv, LoopTypes
<1>2. PICK l : l = loop[i][s]
  OBVIOUS
<1>3. PICK k : k = [l EXCEPT !.running = FALSE]
  OBVIOUS
<1>4. /\ Put(i, s, k) /\ disturbed' = disturbed + 1
      /\ UNCHANGED <<pel, bad, tries, letters>>
      /\ consumers' = [consumers EXCEPT ![i] = None]
  BY <1>1, <1>2, <1>3 DEF StopConsumer, Put, Disturb, redis, history
<1>5. /\ loop'[i][s] = k
      /\ \A j \in Instance, t \in Slot : <<j, t>> # <<i, s>> => loop'[j][t] = loop[j][t]
  BY <1>4, PutLoop DEF DeliverInv
<1>6. k.pc = l.pc /\ k.msg = l.msg /\ k.batch = l.batch /\ ~k.running
  BY <1>2, <1>3, TheLoop DEF LoopRecord
<1>7. disturbed \in Nat /\ Cardinality(Late) \in Nat /\ Cardinality(Late') \in Nat
  BY CountTypes, LateFinite
<1>8. OneConsumer'
  BY <1>4 DEF DeliverInv, LoopTypes, TriesInv, OneConsumer
<1>9. \A j \in Instance, t \in Slot : loop'[j][t].pc \in {"bury", "buried"} =>
        loop'[j][t].pc = loop[j][t].pc /\ loop'[j][t].msg = loop[j][t].msg
  BY <1>2, <1>5, <1>6
<1>10. CASE l.pc \in {"autoclaim", "read"}
  <2>1. Late' \subseteq Late \cup {<<i, s>>}
    BY <1>5 DEF Late, Closing
  <2>2. Cardinality(Late') <= Cardinality(Late) + 1
    <3>1. PICK S : S = Late
      OBVIOUS
    <3>2. IsFiniteSet(S) /\ Cardinality(S) \in Nat
      BY <3>1, LateFinite
    <3>3. /\ IsFiniteSet(S \cup {<<i, s>>})
          /\ Cardinality(S \cup {<<i, s>>}) = IF <<i, s>> \in S THEN Cardinality(S) ELSE Cardinality(S) + 1
      BY <3>2, FS_AddElement
    <3>4. Cardinality(Late') <= Cardinality(S \cup {<<i, s>>})
      BY <2>1, <3>1, <3>3, FS_Subset
    <3>5. QED
      BY <1>7, <3>1, <3>2, <3>3, <3>4
  <2>3. Spare <= Spare'
    BY <1>4, <1>7, <2>2 DEF Spare
  <2>4. ASSUME NEW m \in Message, Owed(m) PROVE Owed(m)'
    <3>1. l.msg = 0 /\ l.batch = {} /\ m # 0
      BY <1>2, <1>10, TheLoop DEF Shape, Scan, Resting, Message
    <3>2. ~Owes(l, m)
      BY <3>1 DEF Owes
    <3>3. QED
      BY <1>2, <1>4, <2>4, <3>2, OthersOwe DEF TriesInv
  <2>5. disturbed <= disturbed'
    BY <1>4, <1>7
  <2>6. QED
    BY <1>4, <1>8, <1>9, <2>3, <2>4, <2>5, RestKeepsTries
<1>11. CASE l.pc \notin {"autoclaim", "read"}
  <2>1. Late' = Late
    BY <1>2, <1>5, <1>6, <1>11 DEF Late, Closing
  <2>2. Spare + 1 <= Spare' /\ Spare <= Spare' /\ disturbed <= disturbed'
    BY <1>4, <1>7, <2>1 DEF Spare
  <2>3. QED
    BY <1>4, <1>8, <1>9, <2>2, RestKeepsTries
<1>12. QED
  BY <1>10, <1>11

LEMMA CrashKeepsTries ==
  ASSUME DeliverInv, DeliverInv', TriesInv, NEW i \in Instance, Crash(i)
  PROVE  TriesInv'
<1>1. /\ loop' = [loop EXCEPT ![i] = [s \in Slot |-> Off]] /\ disturbed' = disturbed + 1
      /\ UNCHANGED <<pel, tries, letters>> /\ LoopTypes
      /\ consumers' = [consumers EXCEPT ![i] = None]
  BY DEF Crash, Disturb, redis, history, DeliverInv
<1>2. Off.pc = "off"
  BY DEF Off
<1>3. ASSUME NEW j \in Instance, NEW t \in Slot
      PROVE  loop'[j][t] = IF j = i THEN Off ELSE loop[j][t]
  BY <1>1 DEF LoopTypes
<1>4. Late' \subseteq Late
  BY <1>2, <1>3 DEF Late, Closing
<1>5. Cardinality(Late') <= Cardinality(Late)
  <2>1. PICK S : S = Late
    OBVIOUS
  <2>2. IsFiniteSet(S)
    BY <2>1, LateFinite
  <2>3. QED
    BY <1>4, <2>1, <2>2, FS_Subset
<1>6. disturbed \in Nat /\ Cardinality(Late) \in Nat /\ Cardinality(Late') \in Nat
  BY CountTypes, LateFinite
<1>7. Spare + 1 <= Spare' /\ Spare <= Spare' /\ disturbed <= disturbed'
  BY <1>1, <1>5, <1>6 DEF Spare
<1>8. OneConsumer'
  BY <1>1 DEF LoopTypes, TriesInv, OneConsumer
<1>9. \A j \in Instance, t \in Slot : loop'[j][t].pc \in {"bury", "buried"} =>
        loop'[j][t].pc = loop[j][t].pc /\ loop'[j][t].msg = loop[j][t].msg
  BY <1>2, <1>3
<1>10. QED
  BY <1>1, <1>7, <1>8, <1>9, RestKeepsTries

\* The clock changes no count and stops nobody.
LEMMA TickKeepsTries ==
  ASSUME DeliverInv, DeliverInv', TriesInv, Tick
  PROVE  TriesInv'
<1>1. UNCHANGED <<consumers, tries, letters, bad, disturbed>>
  BY DEF Tick, history
<1>2. ASSUME NEW i \in Instance, NEW s \in Slot
      PROVE  Stands(loop[i][s], loop'[i][s]) /\ (loop'[i][s].running <=> loop[i][s].running)
  <2>1. PICK l \in LoopRecord : l = loop[i][s]
    BY TheLoop
  <2>2. loop'[i][s] = [l EXCEPT !.due = l.pc # "off",
                                !.spent = IF l.pc \in DispatchStep THEN 1 ELSE 0]
    BY <2>1 DEF Tick
  <2>3. loop'[i][s].running <=> l.running
    BY <2>2 DEF LoopRecord
  <2>4. QED
    BY <2>1, <2>3, TickMoves
<1>3. ASSUME NEW m \in Message
      PROVE  pel'[m] = None \/ (pel[m] # None /\ pel'[m].count = pel[m].count)
  <2>1. CASE pel[m] = None
    BY <2>1 DEF Tick
  <2>2. CASE pel[m] # None
    <3>1. PICK e \in PelEntry : e = pel[m]
      BY <2>2 DEF DeliverInv, RedisTypes
    <3>2. pel'[m] = [e EXCEPT !.idle = Older(e.idle, MinIdle)]
      BY <2>2, <3>1 DEF Tick
    <3>3. pel'[m].count = e.count
      BY <3>2 DEF PelEntry
    <3>4. QED
      BY <2>2, <3>1, <3>3
  <2>3. QED
    BY <2>1, <2>2
<1>4. disturbed <= disturbed'
  BY <1>1, CountTypes
<1>5. QED
  BY <1>1, <1>2, <1>3, <1>4, StillKeepsTries

\* The rest leaves the loops, their consumers and the counts alone.
LEMMA IdleKeepsTries ==
  ASSUME DeliverInv, DeliverInv', TriesInv, UNCHANGED <<loop, consumers, tries, letters>>,
         bad \subseteq bad', disturbed' = disturbed \/ disturbed' = disturbed + 1,
         \A m \in Message : pel'[m] = None \/ pel'[m] = pel[m]
  PROVE  TriesInv'
<1>1. disturbed <= disturbed'
  <2>1. disturbed \in Nat
    BY CountTypes
  <2>2. QED
    BY <2>1
<1>2. \A m \in Message : pel'[m] = None \/ (pel[m] # None /\ pel'[m].count = pel[m].count)
  OBVIOUS
<1>3. \A i \in Instance, s \in Slot :
        Stands(loop[i][s], loop'[i][s]) /\ (loop'[i][s].running <=> loop[i][s].running)
  BY DEF Stands
<1>4. QED
  BY <1>1, <1>2, <1>3, StillKeepsTries

LEMMA TriesKept ==
  ASSUME "overlap" \notin Disturbance
  PROVE  DeliverInv /\ DeliverInv' /\ Uncut /\ TriesInv /\ [Next]_vars => TriesInv'
<1> SUFFICES ASSUME DeliverInv, DeliverInv', Uncut, TriesInv, [Next]_vars PROVE TriesInv'
  OBVIOUS
<1>1. ASSUME NEW i \in Instance, NEW s \in Slot, LoopActs(i, s) PROVE TriesInv'
  <2>1. PICK k : Put(i, s, k) /\ Goes(loop[i][s], k)
    BY <1>1, StepGoes
  <2>2. QED
    BY <2>1, LoopKeepsTries
<1>2. CASE Tick
  BY <1>2, TickKeepsTries
<1>3. CASE Started
  BY <1>3, StartKeepsTries DEF Started
<1>4. ASSUME NEW i \in Instance, StopConsumer(i) \/ Crash(i) PROVE TriesInv'
  BY <1>4, StopKeepsTries, CrashKeepsTries
<1>5. CASE UNCHANGED <<loop, consumers, tries, letters>> /\ bad \subseteq bad'
           /\ (disturbed' = disturbed \/ disturbed' = disturbed + 1)
           /\ (\A m \in Message : pel'[m] = None \/ pel'[m] = pel[m])
  BY <1>5, IdleKeepsTries
<1>6. ASSUME NEW i \in Instance, InstanceStep(i) PROVE TriesInv'
  <2>1. CASE DeleteConsumer(i)
    <3>1. \A m \in Message : pel'[m] = None \/ pel'[m] = pel[m]
      BY <2>1 DEF DeleteConsumer
    <3>2. QED
      BY <1>5, <2>1, <3>1 DEF DeleteConsumer, history
  <2>2. CASE RefreshRead(i) \/ Refreshed(i) \/ InvalidateCache(i)
    BY <1>5, <2>2 DEF RefreshRead, Refreshed, InvalidateCache, redis, history
  <2>3. QED
    BY <1>6, <2>1, <2>2 DEF InstanceStep
<1>7. ASSUME NEW i \in Instance, RefreshFails(i) PROVE TriesInv'
  BY <1>5, <1>7 DEF RefreshFails, Disturb, redis, history
<1>8. ASSUME NEW m \in Message, GrowOld(m) PROVE TriesInv'
  BY <1>5, <1>8 DEF GrowOld, Disturb, instance, history
<1>9. CASE Maintenance
  <2>1. UNCHANGED <<loop, consumers, tries, letters, bad, pel>>
    BY <1>9 DEF Maintenance, Trim, EmergencyTrim, Inspect, instance, redis, history
  <2>2. disturbed' = disturbed \/ disturbed' = disturbed + 1
    BY <1>9 DEF Maintenance, Trim, EmergencyTrim, Inspect, Disturb
  <2>3. QED
    BY <1>5, <2>1, <2>2
<1>10. CASE Platform
  <2>1. UNCHANGED <<loop, consumers, tries, letters, pel>> /\ bad \subseteq bad'
    BY <1>10 DEF Platform, Publish, PublishMalformed, RetryLog, Signal, ChangeSilently, SetStatus,
                 redis, instance, history
  <2>2. disturbed' = disturbed \/ disturbed' = disturbed + 1
    BY <1>10 DEF Platform, Publish, PublishMalformed, RetryLog, Signal, ChangeSilently, Disturb
  <2>3. QED
    BY <1>5, <2>1, <2>2
<1>11. CASE UNCHANGED vars
  BY <1>5, <1>11 DEF vars, redis, instance, history
<1>12. QED
  BY <1>1, <1>2, <1>3, <1>4, <1>6, <1>7, <1>8, <1>9, <1>10, <1>11 DEF Next, Fault, LoopActs

LEMMA InitTries == Init => TriesInv
<1> SUFFICES ASSUME Init PROVE TriesInv
  OBVIOUS
<1>1. Off.pc = "off"
  BY DEF Off
<1>2. \A i \in Instance, s \in Slot : loop[i][s].pc = "off"
  BY <1>1 DEF Init
<1>3. Late = {}
  BY <1>2 DEF Late, Closing
<1>4. Spare = 0
  BY <1>3, FS_EmptySet DEF Init, Spare
<1>5. \A m \in Message : CountFits(m)
  BY DEF Init, CountFits
<1>6. OneConsumer /\ BuriesTried /\ DeadLettersWereTried
  BY <1>2 DEF Init, OneConsumer, BuriesTried, DeadLettersWereTried, Dead
<1>7. QED
  BY <1>4, <1>5, <1>6 DEF TriesInv

\* A message goes to the dead letters only after it was dispatched as often as
\* maxDeliveryCount says, or for every dispatch that is missing something was disturbed:
\* a loop stopped or crashed with what it had claimed, a command failed
\* (QueueConsumerService.recoverPendingMessages, moveToDlq).  So it is as long as no
\* recovery drops messages because it has handled maxRecoveryPerCycle of them.
THEOREM DeadLettersTriedIfUncut ==
  ASSUME "overlap" \notin Disturbance
  PROVE  Spec /\ []Uncut => []DeadLettersWereTried
<1>1. DeliverInv /\ DeliverInv' /\ Uncut /\ TriesInv /\ [Next]_vars => TriesInv'
  BY TriesKept
<1>2. TriesInv => DeadLettersWereTried
  BY DEF TriesInv
<1>3. QED
  BY <1>1, <1>2, InitTries, Invariant, PTL DEF Spec

\* No recovery does, when it can handle as many messages as there are.
LEMMA NoneCut == ASSUME MaxMessage <= MaxRecovery PROVE DeliverInv => Uncut
<1> SUFFICES ASSUME DeliverInv, NEW i \in Instance, NEW s \in Slot, loop[i][s].batch # {}
             PROVE  loop[i][s].handled + 1 < MaxRecovery
  BY DEF Uncut
<1>1. PICK l : l = loop[i][s]
  OBVIOUS
<1>2. Shape(l) /\ l \in LoopRecord /\ l.batch # {}
  BY <1>1, TheLoop
<1>3. PICK m \in l.batch : l.msg < m /\ m <= MaxMessage /\ m \in Nat
  BY <1>2, Constants DEF Shape, Scan, LoopRecord, Message
<1>4. l.handled < l.msg /\ l.handled \in Nat /\ l.msg \in Nat
  BY <1>2, Constants DEF Shape, Scan, LoopRecord, Resting
<1>5. QED
  BY <1>1, <1>3, <1>4, Constants

\* The same, for every history, where a recovery has room for all the messages.
THEOREM DeadLettersTried ==
  ASSUME "overlap" \notin Disturbance, MaxMessage <= MaxRecovery
  PROVE  Spec => []DeadLettersWereTried
<1>1. DeliverInv => Uncut
  BY NoneCut
<1>2. QED
  BY <1>1, DeadLettersTriedIfUncut, Invariant, PTL
=============================================================================
