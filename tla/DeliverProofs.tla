----------------------------- MODULE DeliverProofs -----------------------------
(***************************************************************************)
(* Theorems about Deliver, for any instances, loops, messages, limits and  *)
(* disturbances: that the dispatcher implements Delivery, and the          *)
(* invariants of its loops, dead letters, logs and cache.                  *)
(***************************************************************************)
EXTENDS Deliver, FiniteSetTheorems, WellFoundedInduction, TLAPS

-----------------------------------------------------------------------------
(* The invariant                                                            *)

Resting == {"off", "group", "autoclaim", "read"}

\* What waits in a batch comes behind the message a loop has, what XAUTOCLAIM is
\* asked for next comes behind the batch; and a recovery has handled fewer messages
\* than there are in front of the one it is at.
Scan(l) ==
  /\ l \in LoopRecord
  /\ ~l.redo => l.batch = {} /\ l.cursor = 0 /\ l.handled = 0
  /\ l.handled < MaxRecovery
  /\ l.msg # 0 => l.handled < l.msg
  /\ \A m \in l.batch : l.msg < m
  /\ l.cursor # 0 => l.handled < l.cursor /\ l.msg < l.cursor /\ \A m \in l.batch : m < l.cursor

\* What a loop can look like: whether it has a message depends on where it is.
Shape(l) ==
  /\ Scan(l)
  /\ l.msg = 0 <=> l.pc \in Resting
  /\ l.pc \in {"off", "group", "read"} => ~l.redo
  /\ l.pc \in {"count", "bury", "buried"} => l.redo
  /\ l.pc = "autoclaim" => l.redo /\ l.batch = {} /\ (l.cursor = 0 => l.handled = 0)

\* Messages are numbered as they are appended and grow old in that order; the group
\* has read none that is not there; what is not in the stream was let go of as too old.
StreamOK ==
  /\ appended = 1 .. Cardinality(appended)
  /\ lastRead <= Cardinality(appended)
  /\ \A n \in old : 1 .. n \subseteq old
  /\ appended \ stream \subseteq Expired

\* A loop only has messages that were read, and acknowledges none without a reason.
LoopOK(l) ==
  /\ Shape(l)
  /\ l.msg <= lastRead /\ \A m \in l.batch : m <= lastRead
  /\ l.pc \in {"log", "call"} => l.data = "gone"
  /\ l.pc = "mark" /\ l.data = "active" => l.msg \in accepted
  /\ l.pc = "ack" => l.msg \in refused \/ (l.msg \in accepted /\ "SUCCESS" \in logs[l.msg])
  /\ l.pc = "buried" => l.msg \in Dead

LoopsOK == \A i \in Instance, s \in Slot : LoopOK(loop[i][s])

\* The invariant, in parts that few actions disturb together: Redis, the loops, and
\* the rest.
RedisTypes ==
  /\ stream \subseteq appended /\ appended \subseteq Message
  /\ old \subseteq appended /\ bad \subseteq appended
  /\ lastRead \in 0 .. MaxMessage
  /\ pel \in [Message -> PelEntry \cup {None}]
  /\ \A m \in Message : pel[m] # None => m <= lastRead
  /\ letters \in [Message -> Nat]

LoopTypes ==
  /\ consumers \in [Instance -> Slot \cup {None}]
  /\ loop \in [Instance -> [Slot -> LoopRecord]]
  /\ \A i \in Instance, s \in Slot : loop[i][s].running => consumers[i] = s

CacheTypes ==
  /\ cache \in [Instance -> CacheEntry \cup {None}]
  /\ refresh \in [Instance -> Status \cup {"no", "asked"}]
  /\ sweep \in [Instance -> SUBSET Instance]
  /\ status \in Status /\ signal \in [Instance -> BOOLEAN]

HistoryTypes ==
  /\ logs \in [Message -> SUBSET {"SUCCESS", "FAILED"}]
  /\ disturbed \in 0 .. MaxDisturbances /\ changes \in 0 .. MaxChanges
  /\ changed \in 0 .. CacheTtl + 1
  /\ tries \in [Message -> 0 .. MaxDeliveryCount]
  /\ accepted \subseteq appended /\ refused \subseteq appended

DeliverInv ==
  /\ RedisTypes /\ StreamOK
  /\ LoopTypes /\ LoopsOK
  /\ CacheTypes /\ HistoryTypes

\* Consumers that were found idle stay idle until they are deleted.
SweepOK ==
  \A i \in Instance : \A j \in sweep[i] :
    /\ \A s \in Slot : loop[j][s].pc = "off"
    /\ \A m \in Message : pel[m] # None => pel[m].by # j

Unraced == "race" \notin Disturbance


FirstDispatch(l) == ~l.redo /\ l.pc \in DispatchStep

\* While a message is dispatched for the first time, its entry has not been idle for
\* longer than the dispatch takes, and no other loop has it.
FirstOK ==
  \A i \in Instance, s \in Slot : FirstDispatch(loop[i][s]) =>
    LET m == loop[i][s].msg
    IN  /\ pel[m] # None => pel[m].idle <= loop[i][s].spent
        /\ \A j \in Instance, t \in Slot :
             <<j, t>> # <<i, s>> => m \notin loop[j][t].batch /\ loop[j][t].msg # m

\* An answer that is not right any more was right until the last tick, and an entry
\* until it was stored.
CacheOK ==
  /\ \A i \in Instance : refresh[i] \in Status /\ refresh[i] # status => changed = 0
  /\ \A i \in Instance, s \in Slot :
       loop[i][s].pc = "fetched" /\ loop[i][s].data # status => changed = 0
  /\ \A i \in Instance : cache[i] # None /\ cache[i].data # status => changed <= cache[i].age

-----------------------------------------------------------------------------
(* The operators of the loops                                               *)

LEMMA Constants ==
  /\ MaxMessage \in Nat /\ MaxDeliveryCount \in Nat /\ MaxRetries \in Nat
  /\ MaxChanges \in Nat /\ MaxDisturbances \in Nat
  /\ MinIdle \in Nat /\ MinIdle > 0 /\ Batch \in Nat /\ Batch > 0
  /\ MaxRecovery \in Nat /\ MaxRecovery > 0 /\ CacheTtl \in Nat /\ CacheTtl > 0
  /\ MaxLen \in Nat /\ MaxLen > 0
  /\ None \notin Slot /\ None \notin Instance /\ None \notin PelEntry
<1>1. PelEntry \subseteq [by : Instance, idle : Nat, count : Nat]
  BY DeliverAssumption DEF PelEntry
<1>2. QED
  BY <1>1, DeliverAssumption

Below == {p \in Nat \X Nat : p[1] < p[2]}

LEMMA BelowWellFounded == IsWellFoundedOn(Below, Nat)
<1>1. OpToRel(<, Nat) = Below
  BY Zenon DEF OpToRel, Below
<1>2. QED
  BY <1>1, NatLessThanWellFounded, Zenon

LEMMA FirstIsLeast ==
  ASSUME NEW ms \in SUBSET Nat, ms # {}
  PROVE  First(ms) \in ms /\ \A m \in ms : First(ms) <= m
<1>1. PICK x \in ms : \A y \in ms : ~(<<y, x>> \in Below)
  BY BelowWellFounded, WFMin
<1>2. ASSUME NEW y \in ms, ~(x <= y) PROVE FALSE
  <2>1. y \in Nat /\ x \in Nat /\ y < x
    BY <1>2
  <2>2. <<y, x>> \in Below
    BY <2>1 DEF Below
  <2>3. QED
    BY <1>1, <2>2
<1>3. QED
  BY <1>2 DEF First

LEMMA OffShape ==
  Shape(Off) /\ ~Off.running /\ Off.pc = "off" /\ Off.msg = 0 /\ Off.batch = {} /\ ~Off.redo
BY Constants DEF Off, Shape, Scan, LoopRecord, Resting, RedisStep, DispatchStep, Status

\* A loop starts over.
LEMMA TopShape ==
  ASSUME NEW l \in LoopRecord
  PROVE  /\ Shape(Top(l))
         /\ Top(l).pc \in {"off", "autoclaim", "read"}
         /\ Top(l).msg = 0 /\ Top(l).batch = {}
         /\ Top(l).running <=> l.running
<1> DEFINE fresh(pc, due, redo) ==
             [pc |-> pc, running |-> TRUE, due |-> due, msg |-> 0, redo |-> redo, batch |-> {},
              cursor |-> 0, handled |-> 0, attempt |-> 0, data |-> "gone", spent |-> 0]
<1>1. l.running \in BOOLEAN /\ l.due \in BOOLEAN
  BY DEF LoopRecord
<1>2. CASE ~l.running
  <2>1. Top(l) = Off
    BY <1>2 DEF Top
  <2>2. QED
    BY <1>2, <2>1, OffShape DEF Off
<1>3. CASE l.running /\ l.due
  <2>1. Top(l) = fresh("autoclaim", TRUE, TRUE)
    BY <1>1, <1>3 DEF Top, At, Off
  <2>2. fresh("autoclaim", TRUE, TRUE) \in LoopRecord
    BY Constants DEF LoopRecord, RedisStep, Status
  <2>3. Shape(fresh("autoclaim", TRUE, TRUE))
    BY <2>2, Constants DEF Shape, Scan, Resting
  <2>4. QED
    BY <1>3, <2>1, <2>3
<1>4. CASE l.running /\ ~l.due
  <2>1. Top(l) = fresh("read", FALSE, FALSE)
    BY <1>1, <1>4 DEF Top, At, Off
  <2>2. fresh("read", FALSE, FALSE) \in LoopRecord
    BY Constants DEF LoopRecord, RedisStep, Status
  <2>3. Shape(fresh("read", FALSE, FALSE))
    BY <2>2, Constants DEF Shape, Scan, Resting
  <2>4. QED
    BY <1>4, <2>1, <2>3
<1>5. QED
  BY <1>2, <1>3, <1>4

LEMMA RecoveryDoneShape ==
  ASSUME NEW l \in LoopRecord
  PROVE  /\ Shape(RecoveryDone(l))
         /\ RecoveryDone(l).pc \in {"off", "read"}
         /\ RecoveryDone(l).msg = 0 /\ RecoveryDone(l).batch = {}
         /\ RecoveryDone(l).running <=> l.running
<1> DEFINE k == [l EXCEPT !.due = FALSE]
<1>1. k \in LoopRecord /\ k.due = FALSE /\ (k.running <=> l.running) /\ l.running \in BOOLEAN
  BY DEF LoopRecord
<1>2. l.running => RecoveryDone(l) = Top(k)
  BY DEF RecoveryDone
<1> HIDE DEF k
<1>3. CASE l.running
  <2>1. Top(k).pc = "read"
    BY <1>1, <1>3 DEF Top, At, Off
  <2>2. QED
    BY <1>1, <1>2, <1>3, <2>1, TopShape
<1>4. CASE ~l.running
  <2>1. RecoveryDone(l) = Off
    BY <1>4 DEF RecoveryDone
  <2>2. QED
    BY <1>4, <2>1, OffShape DEF Off
<1>5. QED
  BY <1>3, <1>4

\* What a recovery may be at between two messages.
Between(l) ==
  /\ l \in LoopRecord
  /\ l.redo /\ l.msg = 0
  /\ \A m \in l.batch : l.handled < m
  /\ l.cursor # 0 => l.handled < l.cursor /\ \A m \in l.batch : m < l.cursor

LEMMA NextClaimedShape ==
  ASSUME NEW l, Between(l)
  PROVE  /\ Shape(NextClaimed(l))
         /\ NextClaimed(l).pc \in {"off", "autoclaim", "read", "count"}
         /\ NextClaimed(l).running <=> l.running
         /\ NextClaimed(l).batch \subseteq l.batch
         /\ NextClaimed(l).msg # 0 => NextClaimed(l).msg \in l.batch
<1>1. l \in LoopRecord /\ l.batch \subseteq Nat /\ l.batch \subseteq Message
  BY DEF Between, LoopRecord, Message
<1>2. CASE ~l.running \/ l.handled >= MaxRecovery
  BY <1>1, <1>2, RecoveryDoneShape DEF NextClaimed
<1>3. CASE l.running /\ ~(l.handled >= MaxRecovery) /\ l.batch # {}
  <2> DEFINE m == First(l.batch)
             k == [l EXCEPT !.pc = "count", !.msg = m, !.batch = l.batch \ {m}]
  <2>1. m \in l.batch /\ \A n \in l.batch : m <= n
    BY <1>1, <1>3, FirstIsLeast
  <2>2. NextClaimed(l) = k
    BY <1>1, <1>3 DEF NextClaimed, At, LoopRecord
  <2>3. /\ k.pc = "count" /\ k.msg = m /\ k.batch = l.batch \ {m}
        /\ (k.running <=> l.running) /\ (k.redo <=> l.redo)
        /\ k.cursor = l.cursor /\ k.handled = l.handled
    BY <1>1 DEF LoopRecord
  <2>4. k \in LoopRecord
    <3>1. m \in 0 .. MaxMessage /\ l.batch \ {m} \in SUBSET Message /\ "count" \in RedisStep
      BY <1>1, <2>1 DEF Message, RedisStep
    <3> HIDE DEF m
    <3>2. QED
      BY <1>1, <3>1 DEF LoopRecord
  <2>5. m \in Nat /\ m # 0 /\ l.handled < m /\ \A n \in l.batch \ {m} : m < n
    BY <1>1, <2>1 DEF Between, LoopRecord, Message
  <2> HIDE DEF m, k
  <2>6. Shape(k)
    BY <1>1, <1>3, <2>1, <2>3, <2>4, <2>5, Constants DEF Shape, Scan, Between, LoopRecord, Resting
  <2>7. QED
    BY <2>1, <2>2, <2>3, <2>6
<1>4. CASE l.running /\ ~(l.handled >= MaxRecovery) /\ l.batch = {} /\ l.cursor # 0
  BY <1>1, <1>4, Constants DEF NextClaimed, At, Shape, Scan, Between, LoopRecord, Resting, RedisStep
<1>5. CASE l.running /\ ~(l.handled >= MaxRecovery) /\ l.batch = {} /\ l.cursor = 0
  BY <1>1, <1>5, RecoveryDoneShape DEF NextClaimed
<1>6. QED
  BY <1>2, <1>3, <1>4, <1>5

LEMMA MessageDoneShape ==
  ASSUME NEW l, Shape(l), l.msg # 0
  PROVE  /\ Shape(MessageDone(l))
         /\ MessageDone(l).pc \in {"off", "autoclaim", "read", "count"}
         /\ MessageDone(l).running <=> l.running
         /\ MessageDone(l).batch \subseteq l.batch
         /\ MessageDone(l).msg # 0 => MessageDone(l).msg \in l.batch
<1> DEFINE done == [l EXCEPT !.msg = 0, !.attempt = 0, !.data = "gone", !.spent = 0]
           next == [done EXCEPT !.handled = @ + 1]
<1>1. l \in LoopRecord /\ l.msg \in Nat /\ l.handled \in Nat
  BY DEF Shape, Scan, LoopRecord
<1>2. /\ 0 \in 0 .. MaxMessage /\ 0 \in 0 .. MaxRetries + 1 /\ "gone" \in Status /\ 0 \in {0, 1}
      /\ l.handled + 1 \in Nat
  BY <1>1, Constants DEF Status
<1>3. done \in LoopRecord
  BY <1>1, <1>2 DEF LoopRecord
<1>4. (done.running <=> l.running) /\ done.handled = l.handled /\ done.batch = l.batch
  BY <1>1 DEF LoopRecord
<1>5. MessageDone(l) = IF l.redo THEN NextClaimed(next) ELSE Top(done)
  BY DEF MessageDone
<1>6. next \in LoopRecord
  <2> HIDE DEF done
  <2>1. QED
    BY <1>2, <1>3, <1>4 DEF LoopRecord
<1>7. /\ next.msg = 0 /\ next.handled = l.handled + 1 /\ (next.redo <=> l.redo)
      /\ next.batch = l.batch /\ next.cursor = l.cursor /\ (next.running <=> l.running)
  BY <1>1 DEF LoopRecord
<1> HIDE DEF done, next
<1>8. CASE l.redo
  <2>1. Between(next)
    BY <1>1, <1>6, <1>7, <1>8 DEF Between, Shape, Scan, LoopRecord, Message
  <2>2. QED
    BY <1>5, <1>7, <1>8, <2>1, NextClaimedShape
<1>9. CASE ~l.redo
  BY <1>3, <1>4, <1>5, <1>9, TopShape
<1>10. QED
  BY <1>8, <1>9

\* A loop with a message that it has yet to look at, or has looked at.
Held(l) == Scan(l) /\ l.msg # 0

\* Where a loop goes on with a message: at the step pc, as it was otherwise.
LEMMA AtShape ==
  ASSUME NEW l, Held(l), NEW pc \in {"fetch", "log", "bury", "buried"},
         pc \in {"bury", "buried"} => l.redo
  PROVE  /\ Shape(At(l, pc))
         /\ At(l, pc) = [l EXCEPT !.pc = pc] /\ At(l, pc).pc = pc
         /\ At(l, pc).msg = l.msg /\ At(l, pc).batch = l.batch
         /\ (At(l, pc).running <=> l.running) /\ (At(l, pc).redo <=> l.redo)
         /\ At(l, pc).data = l.data /\ At(l, pc).spent = l.spent
<1> DEFINE k == [l EXCEPT !.pc = pc]
<1>1. l \in LoopRecord
  BY DEF Held, Scan
<1>2. /\ k \in LoopRecord /\ k.pc = pc /\ k.msg = l.msg /\ k.batch = l.batch
      /\ (k.running <=> l.running) /\ (k.redo <=> l.redo) /\ k.data = l.data /\ k.spent = l.spent
      /\ k.cursor = l.cursor /\ k.handled = l.handled
  BY <1>1 DEF LoopRecord, RedisStep, DispatchStep
<1>3. At(l, pc) = k
  BY DEF At
<1> HIDE DEF k
<1>4. Shape(k)
  BY <1>2 DEF Held, Shape, Scan, Resting
<1>5. QED
  BY <1>2, <1>3, <1>4 DEF k

LEMMA AcknowledgeShape ==
  ASSUME NEW l, Held(l)
  PROVE  LET k == Acknowledge(l)
         IN  /\ Shape(k)
             /\ k.running <=> l.running
             /\ \/ k = Off /\ ~l.running
                \/ k.pc = "ack" /\ k.msg = l.msg /\ k.batch = l.batch /\ (k.redo <=> l.redo)
<1> DEFINE k == [l EXCEPT !.pc = "ack", !.spent = 0]
<1>1. l \in LoopRecord /\ l.running \in BOOLEAN
  BY DEF Held, Scan, LoopRecord
<1>2. /\ k \in LoopRecord /\ k.pc = "ack" /\ k.msg = l.msg /\ k.batch = l.batch
      /\ (k.running <=> l.running) /\ (k.redo <=> l.redo)
      /\ k.cursor = l.cursor /\ k.handled = l.handled
  BY <1>1 DEF LoopRecord, RedisStep, DispatchStep
<1>3. Acknowledge(l) = IF l.running THEN k ELSE Off
  BY <1>1 DEF Acknowledge, At, LoopRecord
<1> HIDE DEF k
<1>4. Shape(k)
  BY <1>2 DEF Held, Shape, Scan, Resting
<1>5. QED
  BY <1>1, <1>2, <1>3, <1>4, OffShape

LEMMA JudgeShape ==
  ASSUME NEW l, Held(l), NEW data
  PROVE  LET k == Judge(l, data)
         IN  /\ Shape(k)
             /\ k.running <=> l.running
             /\ \/ k.pc = "log" /\ data = "active" /\ k.data = "gone"
                \/ k.pc = "ack" /\ data # "active"
                \/ k = Off /\ ~l.running /\ data # "active"
             /\ k = Off \/ (k.msg = l.msg /\ k.batch = l.batch /\ (k.redo <=> l.redo))
             /\ k.pc = "log" => k.spent = l.spent
<1> DEFINE g == [l EXCEPT !.data = "gone"]
<1>1. l \in LoopRecord
  BY DEF Held, Scan
<1>2. /\ g \in LoopRecord /\ g.msg = l.msg /\ g.batch = l.batch /\ g.data = "gone" /\ g.spent = l.spent
      /\ (g.running <=> l.running) /\ (g.redo <=> l.redo)
      /\ g.cursor = l.cursor /\ g.handled = l.handled
  BY <1>1 DEF LoopRecord, Status
<1>3. Judge(l, data) = IF data = "active" THEN At(g, "log") ELSE Acknowledge(l)
  BY DEF Judge
<1> HIDE DEF g
<1>4. Held(g)
  BY <1>2 DEF Held, Scan
<1>5. PICK k : k = Judge(l, data)
  OBVIOUS
<1>6. CASE data = "active"
  <2>1. k = At(g, "log")
    BY <1>3, <1>5, <1>6
  <2>2. /\ Shape(k) /\ k.pc = "log" /\ k.msg = g.msg /\ k.batch = g.batch
        /\ (k.running <=> g.running) /\ (k.redo <=> g.redo)
        /\ k.data = g.data /\ k.spent = g.spent
    BY <1>4, <2>1, AtShape
  <2>3. QED
    BY <1>2, <1>5, <1>6, <2>2
<1>7. CASE data # "active"
  <2>1. k = Acknowledge(l)
    BY <1>3, <1>5, <1>7
  <2>2. /\ Shape(k) /\ (k.running <=> l.running)
        /\ \/ k = Off /\ ~l.running
           \/ k.pc = "ack" /\ k.msg = l.msg /\ k.batch = l.batch /\ (k.redo <=> l.redo)
    BY <2>1, AcknowledgeShape
  <2>3. k = Off => k.pc = "off"
    BY DEF Off
  <2>4. QED
    BY <1>5, <1>7, <2>2, <2>3
<1>8. QED
  BY <1>6, <1>7

-----------------------------------------------------------------------------
(* One loop moves                                                           *)

LEMMA DeliverTypes == DeliverInv => TypeOK
<1> SUFFICES ASSUME DeliverInv PROVE TypeOK
  OBVIOUS
<1>1. RedisTypes /\ LoopTypes /\ LoopsOK /\ CacheTypes /\ HistoryTypes
  BY DEF DeliverInv
<1>2. ASSUME NEW i \in Instance, NEW s \in Slot
      PROVE  /\ loop[i][s].running => consumers[i] = s
             /\ \A m \in loop[i][s].batch : loop[i][s].msg < m
             /\ loop[i][s].handled <= MaxRecovery
  <2>1. Scan(loop[i][s])
    BY <1>1 DEF LoopsOK, LoopOK, Shape
  <2>2. loop[i][s].handled \in Nat
    BY <2>1 DEF Scan, LoopRecord
  <2>3. QED
    BY <1>1, <2>1, <2>2, Constants DEF LoopTypes, Scan
<1>3. QED
  BY <1>1, <1>2, Zenon DEF TypeOK, RedisTypes, LoopTypes, CacheTypes, HistoryTypes

LEMMA PutLoop ==
  ASSUME LoopTypes, NEW i \in Instance, NEW s \in Slot, NEW k, Put(i, s, k)
  PROVE  /\ loop'[i][s] = k
         /\ \A j \in Instance, t \in Slot : <<j, t>> # <<i, s>> => loop'[j][t] = loop[j][t]
         /\ k \in LoopRecord => loop' \in [Instance -> [Slot -> LoopRecord]]
BY DEF LoopTypes, Put

\* What only ever grows.
Grows ==
  /\ lastRead <= lastRead'
  /\ accepted \subseteq accepted' /\ refused \subseteq refused'
  /\ \A m \in Message : logs[m] \subseteq logs'[m] /\ letters[m] <= letters'[m]

LEMMA GrowsKeeps ==
  ASSUME DeliverInv, lastRead' \in Nat, letters' \in [Message -> Nat], Grows, NEW l, LoopOK(l)
  PROVE  LoopOK(l)'
<1>1. /\ lastRead \in Nat /\ letters \in [Message -> Nat] /\ l \in LoopRecord
      /\ l.msg \in Nat /\ l.batch \subseteq Nat /\ (l.msg # 0 => l.msg \in Message)
  <2>1. lastRead \in Nat /\ letters \in [Message -> Nat]
    BY Constants DEF DeliverInv, RedisTypes
  <2>2. l \in LoopRecord
    BY DEF LoopOK, Shape, Scan
  <2>3. l.msg \in 0 .. MaxMessage /\ l.batch \subseteq Message
    BY <2>2 DEF LoopRecord
  <2>4. QED
    BY <2>1, <2>2, <2>3, Constants DEF Message
<1>2. Shape(l)'
  BY DEF LoopOK
<1>3. l.msg <= lastRead' /\ \A m \in l.batch : m <= lastRead'
  BY <1>1 DEF LoopOK, Grows
<1>4. /\ l.pc \in {"log", "call"} => l.data = "gone"
      /\ l.pc = "mark" /\ l.data = "active" => l.msg \in accepted'
  BY DEF LoopOK, Grows
<1>5. l.pc \in {"ack", "buried"} => l.msg \in Message
  BY <1>1 DEF LoopOK, Shape, Resting
<1>6. l.pc = "ack" => l.msg \in refused' \/ (l.msg \in accepted' /\ "SUCCESS" \in logs'[l.msg])
  BY <1>5 DEF LoopOK, Grows
<1>7. l.pc = "buried" => l.msg \in Dead'
  BY <1>1, <1>5 DEF LoopOK, Grows, Dead
<1>8. QED
  BY <1>2, <1>3, <1>4, <1>6, <1>7 DEF LoopOK

\* What a step of one loop has to show.
LEMMA LoopMoves ==
  ASSUME DeliverInv, NEW i \in Instance, NEW s \in Slot, NEW k, Put(i, s, k),
         LoopOK(k)', k.running => loop[i][s].running, consumers' = consumers,
         lastRead' \in Nat, letters' \in [Message -> Nat], Grows
  PROVE  LoopTypes' /\ LoopsOK'
<1>1. LoopTypes /\ LoopsOK
  BY DEF DeliverInv
<1>2. /\ loop'[i][s] = k
      /\ \A j \in Instance, t \in Slot : <<j, t>> # <<i, s>> => loop'[j][t] = loop[j][t]
      /\ k \in LoopRecord => loop' \in [Instance -> [Slot -> LoopRecord]]
  BY <1>1, PutLoop
<1>3. k \in LoopRecord
  BY DEF LoopOK, Shape, Scan
<1>4. LoopTypes'
  BY <1>1, <1>2, <1>3 DEF LoopTypes
<1>5. ASSUME NEW j \in Instance, NEW t \in Slot, NEW x, x = loop'[j][t] PROVE LoopOK(x)'
  <2>1. CASE <<j, t>> = <<i, s>>
    BY <1>2, <1>5, <2>1
  <2>2. CASE <<j, t>> # <<i, s>>
    <3>1. x = loop[j][t]
      BY <1>2, <1>5, <2>2
    <3>2. LoopOK(x)
      BY <1>1, <3>1 DEF LoopsOK
    <3>3. QED
      BY <3>2, GrowsKeeps
  <2>3. QED
    BY <2>1, <2>2
<1>6. LoopsOK'
  BY <1>5 DEF LoopsOK, LoopOK
<1>7. QED
  BY <1>4, <1>6

\* Redis is left alone.
LEMMA RedisKept ==
  ASSUME DeliverInv, UNCHANGED redis
  PROVE  /\ RedisTypes' /\ StreamOK'
         /\ lastRead' \in Nat /\ letters' \in [Message -> Nat]
         /\ lastRead <= lastRead' /\ \A m \in Message : letters[m] <= letters'[m]
BY Constants DEF DeliverInv, RedisTypes, StreamOK, Expired, redis

\* A loop cannot have a message that was not appended.
LEMMA ReadIsAppended ==
  ASSUME DeliverInv, NEW m \in Nat, m <= lastRead, m # 0
  PROVE  m \in appended /\ m \in Message
<1>1. Cardinality(appended) \in Nat
  <2>1. IsFiniteSet(Message)
    BY Constants, FS_Interval DEF Message
  <2>2. QED
    BY <2>1, FS_Subset, FS_CardinalityType DEF DeliverInv, RedisTypes
<1>2. m \in appended
  BY <1>1, Constants DEF DeliverInv, RedisTypes, StreamOK
<1>3. QED
  BY <1>2 DEF DeliverInv, RedisTypes

LEMMA ProcessMoves ==
  ASSUME DeliverInv, NEW i \in Instance, NEW s \in Slot, NEW l, Held(l), Process(i, s, l),
         lastRead' \in Nat, l.msg <= lastRead', \A m \in l.batch : m <= lastRead',
         l.msg \in appended
  PROVE  /\ \E k : /\ Put(i, s, k) /\ LoopOK(k)'
                   /\ k.running => l.running
                   /\ \/ k = Off /\ ~l.running
                      \/ /\ k.msg = l.msg /\ k.batch = l.batch /\ (k.redo <=> l.redo)
                         /\ k.pc \in {"fetch", "log"} \/ (k.pc = "ack" /\ l.msg \in refused')
         /\ refused' = refused \/ refused' = refused \cup {l.msg}
         /\ refresh' \in [Instance -> Status \cup {"no", "asked"}]
         /\ \/ l.msg \in bad /\ tries' = tries
            \/ /\ l.msg \notin bad
               /\ tries' = [tries EXCEPT ![l.msg] = IF @ < MaxDeliveryCount THEN @ + 1 ELSE @]
<1>1. /\ refresh \in [Instance -> Status \cup {"no", "asked"}]
      /\ cache[i] # None => cache[i].data \in Status
  BY DEF DeliverInv, CacheTypes, CacheEntry
<1>2. ASSUME NEW k, Shape(k), k.msg = l.msg, k.batch = l.batch,
             \/ k.pc = "fetch" \/ (k.pc = "log" /\ k.data = "gone")
             \/ k.pc = "ack" /\ l.msg \in refused'
      PROVE  LoopOK(k)'
  <2>1. Shape(k)'
    BY <1>2
  <2>2. QED
    BY <1>2, <2>1 DEF LoopOK
<1>3. LoopOK(Off)'
  <2>1. Shape(Off)'
    BY OffShape
  <2>2. Off.msg = 0 /\ Off.batch = {} /\ Off.pc = "off"
    BY DEF Off
  <2>3. QED
    BY <2>1, <2>2 DEF LoopOK
<1>4. CASE l.msg \in bad
  <2> DEFINE k == Acknowledge(l)
  <2>1. Put(i, s, k) /\ refused' = refused \cup {l.msg} /\ refresh' = refresh /\ tries' = tries
    BY <1>4 DEF Process
  <2>2. /\ Shape(k) /\ (k.running <=> l.running)
        /\ \/ k = Off /\ ~l.running
           \/ k.pc = "ack" /\ k.msg = l.msg /\ k.batch = l.batch /\ (k.redo <=> l.redo)
    BY AcknowledgeShape
  <2> HIDE DEF k
  <2>3. LoopOK(k)'
    BY <1>2, <1>3, <2>1, <2>2
  <2>4. QED
    BY <1>1, <1>4, <2>1, <2>2, <2>3
<1>5. CASE l.msg \notin bad /\ cache[i] = None
  <2> DEFINE k == At(l, "fetch")
  <2>1. /\ Put(i, s, k) /\ refused' = refused /\ refresh' = refresh
        /\ tries' = [tries EXCEPT ![l.msg] = IF @ < MaxDeliveryCount THEN @ + 1 ELSE @]
    BY <1>5 DEF Process
  <2>2. /\ Shape(k) /\ (k.running <=> l.running)
        /\ k.pc = "fetch" /\ k.msg = l.msg /\ k.batch = l.batch /\ (k.redo <=> l.redo)
    BY AtShape
  <2> HIDE DEF k
  <2>3. LoopOK(k)'
    BY <1>2, <2>2
  <2>4. QED
    BY <1>1, <1>5, <2>1, <2>2, <2>3
<1>6. CASE l.msg \notin bad /\ cache[i] # None
  <2> DEFINE data == cache[i].data
  <2>1. PICK k : k = Judge(l, data)
    OBVIOUS
  <2>2. /\ Put(i, s, k) /\ refused' = refused \cup Give({l.msg}, data)
        /\ refresh' = IF IsFresh(cache[i]) THEN refresh ELSE Revalidate(i)
        /\ tries' = [tries EXCEPT ![l.msg] = IF @ < MaxDeliveryCount THEN @ + 1 ELSE @]
    BY <1>6, <2>1 DEF Process
  <2>3. refresh' \in [Instance -> Status \cup {"no", "asked"}]
    BY <1>1, <2>2 DEF Revalidate
  <2>4. /\ Shape(k) /\ (k.running <=> l.running)
        /\ \/ k.pc = "log" /\ data = "active" /\ k.data = "gone"
           \/ k.pc = "ack" /\ data # "active"
           \/ k = Off /\ ~l.running /\ data # "active"
        /\ k = Off \/ (k.msg = l.msg /\ k.batch = l.batch /\ (k.redo <=> l.redo))
    BY <2>1, JudgeShape
  <2>5. /\ data # "active" => refused' = refused \cup {l.msg}
        /\ data = "active" => refused' = refused
    BY <2>2 DEF Give
  <2> HIDE DEF data
  <2>6. Off.pc = "off"
    BY DEF Off
  <2>7. LoopOK(k)'
    BY <1>2, <1>3, <2>4, <2>5
  <2>8. QED
    BY <1>6, <2>2, <2>3, <2>4, <2>5, <2>6, <2>7
<1>7. QED
  BY <1>4, <1>5, <1>6

-----------------------------------------------------------------------------
(* The invariant is kept                                                    *)

LEMMA InitKeeps == Init => DeliverInv
<1> SUFFICES ASSUME Init PROVE DeliverInv
  OBVIOUS
<1>1. LoopOK(Off)
  BY OffShape DEF LoopOK, Init
<1>2. LoopTypes /\ LoopsOK
  <2>1. \A i \in Instance, s \in Slot : loop[i][s] = Off
    BY DEF Init
  <2>2. Off \in LoopRecord
    BY OffShape DEF Shape, Scan
  <2>3. LoopTypes
    BY <2>1, <2>2, OffShape DEF Init, LoopTypes
  <2>4. LoopsOK
    BY <1>1, <2>1 DEF LoopsOK
  <2>5. QED
    BY <2>3, <2>4
<1>3. RedisTypes
  BY Constants DEF Init, RedisTypes, Message
<1>4. StreamOK
  BY FS_EmptySet DEF Init, StreamOK
<1>5. CacheTypes
  BY DEF Init, CacheTypes, Status
<1>6. HistoryTypes
  BY Constants DEF Init, HistoryTypes
<1>7. QED
  BY <1>2, <1>3, <1>4, <1>5, <1>6 DEF DeliverInv

\* A loop moves, and so do the history and the logs.
LEMMA LoopStays ==
  ASSUME DeliverInv, NEW i \in Instance, NEW s \in Slot, NEW k, Put(i, s, k), LoopOK(k)',
         k.running => loop[i][s].running, UNCHANGED <<redis, consumers>>,
         accepted \subseteq accepted', refused \subseteq refused',
         \A m \in Message : logs[m] \subseteq logs'[m]
  PROVE  RedisTypes' /\ StreamOK' /\ LoopTypes' /\ LoopsOK'
<1>1. /\ RedisTypes' /\ StreamOK' /\ lastRead' \in Nat /\ letters' \in [Message -> Nat]
      /\ lastRead <= lastRead' /\ \A m \in Message : letters[m] <= letters'[m]
  BY RedisKept
<1>2. Grows
  BY <1>1 DEF Grows
<1>3. QED
  BY <1>1, <1>2, LoopMoves

\* Where a loop may go on without a message of its own.
LEMMA IdleOK ==
  ASSUME NEW k, Shape(k), k.msg = 0, lastRead' \in Nat, \A m \in k.batch : m <= lastRead'
  PROVE  LoopOK(k)'
<1>1. Shape(k)' /\ k.pc \in Resting
  BY DEF Shape
<1>2. QED
  BY <1>1 DEF LoopOK, Resting

\* The loop that a step is about.
LEMMA TheLoop ==
  ASSUME DeliverInv, NEW i \in Instance, NEW s \in Slot
  PROVE  /\ LoopOK(loop[i][s]) /\ Shape(loop[i][s]) /\ loop[i][s] \in LoopRecord
         /\ loop[i][s].msg \in Nat /\ loop[i][s].batch \subseteq Message
         /\ loop[i][s].pc \notin Resting =>
              /\ Held(loop[i][s])
              /\ loop[i][s].msg \in Message /\ loop[i][s].msg \in appended
<1>1. LoopOK(loop[i][s]) /\ Shape(loop[i][s]) /\ loop[i][s] \in LoopRecord
  BY DEF DeliverInv, LoopsOK, LoopOK, Shape, Scan
<1>2. loop[i][s].msg \in Nat /\ loop[i][s].batch \subseteq Message
  BY <1>1 DEF LoopRecord
<1>3. ASSUME loop[i][s].pc \notin Resting
      PROVE  /\ Held(loop[i][s])
             /\ loop[i][s].msg \in Message /\ loop[i][s].msg \in appended
  BY <1>1, <1>2, <1>3, ReadIsAppended DEF LoopOK, Shape, Held
<1>4. QED
  BY <1>1, <1>2, <1>3

LEMMA EnsureConsumerGroupKeeps ==
  ASSUME DeliverInv, NEW i \in Instance, NEW s \in Slot, EnsureConsumerGroup(i, s)
  PROVE  DeliverInv'
<1>1. PICK k : k = Top(loop[i][s])
  OBVIOUS
<1>2. /\ Put(i, s, k)
      /\ UNCHANGED <<redis, consumers, cache, refresh, sweep, database, history, disturbed>>
  BY <1>1 DEF EnsureConsumerGroup
<1>3. Shape(k) /\ k.msg = 0 /\ k.batch = {} /\ (k.running <=> loop[i][s].running)
  BY <1>1, TheLoop, TopShape
<1>4. lastRead' \in Nat
  BY <1>2, RedisKept
<1>5. LoopOK(k)'
  BY <1>3, <1>4, IdleOK
<1>6. RedisTypes' /\ StreamOK' /\ LoopTypes' /\ LoopsOK'
  BY <1>2, <1>3, <1>5, LoopStays DEF history, database
<1>7. CacheTypes' /\ HistoryTypes'
  BY <1>2 DEF DeliverInv, CacheTypes, HistoryTypes, history, database, redis
<1>8. QED
  BY <1>6, <1>7 DEF DeliverInv

\* A step of a loop that neither the cache nor the logs nor the history notices.
LEMMA RestKept ==
  ASSUME DeliverInv, appended \subseteq appended',
         UNCHANGED <<cache, refresh, sweep, database, history, disturbed>>
  PROVE  CacheTypes' /\ HistoryTypes'
BY DEF DeliverInv, CacheTypes, HistoryTypes, history, database

\* The pending list changes; nothing that was not read gets into it.
LEMMA PelMoves ==
  ASSUME DeliverInv, pel' \in [Message -> PelEntry \cup {None}],
         \A m \in Message : pel'[m] # None => m <= lastRead,
         UNCHANGED <<stream, appended, lastRead, letters, old, bad>>
  PROVE  /\ RedisTypes' /\ StreamOK'
         /\ lastRead' \in Nat /\ letters' \in [Message -> Nat]
         /\ lastRead <= lastRead' /\ \A m \in Message : letters[m] <= letters'[m]
<1>1. RedisTypes'
  BY DEF DeliverInv, RedisTypes
<1>2. QED
  BY <1>1, Constants DEF DeliverInv, RedisTypes, StreamOK, Expired

LEMMA PendingType ==
  ASSUME DeliverInv, NEW i \in Instance, NEW m \in Message
  PROVE  Pending(i, m) \in PelEntry
BY Constants DEF DeliverInv, RedisTypes, Pending, PelEntry

LEMMA AutoclaimedType ==
  ASSUME DeliverInv, NEW i \in Instance, NEW c
  PROVE  /\ Taken(c) \subseteq Message \cap stream
         /\ \A m \in Taken(c) : m >= c /\ pel[m] # None /\ pel[m].idle >= MinIdle
         /\ Autoclaimed(i, c) \in [Message -> PelEntry \cup {None}]
         /\ \A m \in Message : Autoclaimed(i, c)[m] # None => pel[m] # None
         /\ \A m \in Message :
              pel[m] # None /\ Autoclaimed(i, c)[m] = None => m \in Lost(c)
<1>1. /\ Taken(c) \subseteq Message \cap stream
      /\ \A m \in Taken(c) : m >= c /\ pel[m] # None /\ pel[m].idle >= MinIdle
  BY DEF Taken, FirstOf, Idlers
<1>2. \A m \in Message : Pending(i, m) \in PelEntry /\ Pending(i, m) # None
  <2>1. \A m \in Message : Pending(i, m) \in PelEntry
    BY PendingType
  <2>2. QED
    BY <2>1, Constants
<1>3. pel \in [Message -> PelEntry \cup {None}]
  BY DEF DeliverInv, RedisTypes
<1>4. QED
  BY <1>1, <1>2, <1>3 DEF Autoclaimed

LEMMA NextCursorType ==
  ASSUME NEW c
  PROVE  /\ NextCursor(c) \in 0 .. MaxMessage
         /\ NextCursor(c) # 0 => NextCursor(c) > c /\ \A k \in Taken(c) : k < NextCursor(c)
<1> DEFINE later == {m \in Message : pel[m] # None /\ m > c /\ \A k \in Taken(c) : k < m}
<1>1. CASE later = {}
  BY <1>1, Constants DEF NextCursor
<1>2. CASE later # {}
  <2>1. NextCursor(c) = First(later)
    BY <1>2 DEF NextCursor
  <2>2. later \in SUBSET Nat
    BY Constants DEF Message
  <2>3. First(later) \in later
    <3> HIDE DEF later
    <3>1. QED
      BY <1>2, <2>2, FirstIsLeast
  <2>4. QED
    BY <2>1, <2>3, Constants DEF Message
<1>3. QED
  BY <1>1, <1>2

\* A recovery between XAUTOCLAIM and the first message it gave.
LEMMA ClaimedBetween ==
  ASSUME DeliverInv, NEW l, Shape(l), l.pc = "autoclaim",
         NEW b, b = [l EXCEPT !.batch = Taken(l.cursor), !.cursor = NextCursor(l.cursor)]
  PROVE  Between(b) /\ b.batch = Taken(l.cursor) /\ (b.running <=> l.running)
<1> DEFINE taken  == Taken(l.cursor)
           cursor == NextCursor(l.cursor)
<1>1. /\ taken \subseteq Message
      /\ \A m \in taken : m >= l.cursor
  BY DEF Taken, FirstOf, Idlers
<1>2. /\ cursor \in 0 .. MaxMessage
      /\ cursor # 0 => cursor > l.cursor /\ \A m \in taken : m < cursor
  BY NextCursorType
<1>3. l \in LoopRecord
  BY DEF Shape, Scan
<1> HIDE DEF taken, cursor
<1>4. /\ b \in LoopRecord /\ b.batch = taken /\ b.cursor = cursor /\ b.handled = l.handled
      /\ b.msg = l.msg /\ (b.redo <=> l.redo) /\ (b.running <=> l.running)
  BY <1>1, <1>2, <1>3 DEF LoopRecord, taken, cursor
<1>5. l.handled \in Nat /\ l.cursor \in Nat /\ l.msg = 0 /\ l.redo
  BY <1>3 DEF LoopRecord, Shape, Resting
<1>6. /\ \A m \in taken : l.handled < m
      /\ cursor # 0 => l.handled < cursor
  <2>1. CASE l.cursor = 0
    BY <1>1, <1>2, <2>1 DEF Shape, Message
  <2>2. CASE l.cursor # 0
    BY <1>1, <1>2, <1>5, <2>2 DEF Shape, Scan, Message
  <2>3. QED
    BY <2>1, <2>2
<1>7. Between(b)
  BY <1>2, <1>4, <1>5, <1>6 DEF Between
<1>8. QED
  BY <1>4, <1>7 DEF taken

LEMMA AutoclaimKeeps ==
  ASSUME DeliverInv, NEW i \in Instance, NEW s \in Slot, Autoclaim(i, s)
  PROVE  DeliverInv'
<1>1. PICK l : l = loop[i][s]
  OBVIOUS
<1>2. LoopOK(l) /\ Shape(l) /\ l \in LoopRecord
  BY <1>1, TheLoop
<1>3. PICK taken : taken = Taken(l.cursor)
  OBVIOUS
<1>4. PICK cursor : cursor = NextCursor(l.cursor)
  OBVIOUS
<1> DEFINE next == [l EXCEPT !.batch = taken, !.cursor = cursor]
<1>5. PICK k : k = IF taken = {} THEN RecoveryDone(l) ELSE NextClaimed(next)
  OBVIOUS
<1>6. /\ l.pc = "autoclaim" /\ pel' = Autoclaimed(i, l.cursor) /\ Put(i, s, k)
      /\ UNCHANGED <<stream, appended, lastRead, letters, old, bad, consumers>>
      /\ UNCHANGED <<cache, refresh, sweep, database, history, disturbed>>
  BY <1>1, <1>3, <1>4, <1>5 DEF Autoclaim
<1>7. /\ taken \subseteq Message
      /\ \A m \in taken : m >= l.cursor /\ m <= lastRead
  BY <1>3, AutoclaimedType DEF DeliverInv, RedisTypes
<1>8. /\ cursor \in 0 .. MaxMessage
      /\ cursor # 0 => cursor > l.cursor /\ \A m \in taken : m < cursor
  BY <1>3, <1>4, NextCursorType
<1>9. /\ RedisTypes' /\ StreamOK'
      /\ lastRead' \in Nat /\ letters' \in [Message -> Nat]
      /\ lastRead <= lastRead' /\ \A m \in Message : letters[m] <= letters'[m]
  <2>1. pel' \in [Message -> PelEntry \cup {None}]
    BY <1>6, AutoclaimedType
  <2>2. \A m \in Message : pel'[m] # None => m <= lastRead
    BY <1>6, AutoclaimedType DEF DeliverInv, RedisTypes
  <2>3. QED
    BY <1>6, <2>1, <2>2, PelMoves
<1>10. Shape(k) /\ (k.running <=> l.running) /\ k.batch \subseteq taken
       /\ (k.msg # 0 => k.msg \in taken) /\ k.pc \in {"off", "autoclaim", "read", "count"}
  <2>1. CASE taken = {}
    BY <1>2, <1>5, <2>1, RecoveryDoneShape
  <2>2. CASE taken # {}
    <3>1. PICK b : b = next
      OBVIOUS
    <3>2. b = [l EXCEPT !.batch = Taken(l.cursor), !.cursor = NextCursor(l.cursor)]
      BY <1>3, <1>4, <3>1
    <3>3. k = NextClaimed(b)
      BY <1>5, <2>2, <3>1
    <3> HIDE DEF next
    <3>4. Between(b) /\ b.batch = taken /\ (b.running <=> l.running)
      BY <1>2, <1>3, <1>6, <3>2, ClaimedBetween
    <3>5. QED
      BY <3>3, <3>4, NextClaimedShape
  <2>3. QED
    BY <2>1, <2>2
<1>11. LoopOK(k)'
  <2>1. Shape(k)'
    BY <1>10
  <2>2. k.msg <= lastRead' /\ \A m \in k.batch : m <= lastRead'
    BY <1>6, <1>7, <1>9, <1>10
  <2>3. QED
    BY <1>10, <2>1, <2>2 DEF LoopOK
<1>12. Grows
  BY <1>6, <1>9 DEF Grows, history, database
<1>13. LoopTypes' /\ LoopsOK'
  BY <1>1, <1>6, <1>9, <1>10, <1>11, <1>12, LoopMoves
<1>14. QED
  BY <1>6, <1>9, <1>13, RestKept DEF DeliverInv

\* Where nothing has to be true of the message but that it was read.
LEMMA PlainOK ==
  ASSUME NEW k, Shape(k), k.pc \notin {"log", "call", "mark", "ack", "buried"},
         k.msg <= lastRead', \A m \in k.batch : m <= lastRead'
  PROVE  LoopOK(k)'
<1>1. Shape(k)'
  OBVIOUS
<1>2. QED
  BY <1>1 DEF LoopOK

\* A loop is done with its message.
LEMMA DoneOK ==
  ASSUME DeliverInv, NEW l, LoopOK(l), l.msg # 0, lastRead' \in Nat, lastRead <= lastRead'
  PROVE  /\ LoopOK(MessageDone(l))' /\ (MessageDone(l).running <=> l.running)
         /\ LoopOK(RecoveryDone(l))' /\ (RecoveryDone(l).running <=> l.running)
         /\ LoopOK(Top(l))' /\ (Top(l).running <=> l.running)
         /\ LoopOK(Off)' /\ ~Off.running
<1>1. /\ Shape(l) /\ l \in LoopRecord /\ l.batch \subseteq Nat /\ lastRead \in Nat
      /\ \A m \in l.batch : m <= lastRead
  BY DEF LoopOK, Shape, Scan, LoopRecord, Message, DeliverInv, RedisTypes
<1>2. \A m \in l.batch : m <= lastRead'
  BY <1>1
<1>3. PICK k : k = MessageDone(l)
  OBVIOUS
<1>4. /\ Shape(k) /\ k.pc \notin {"log", "call", "mark", "ack", "buried"} /\ (k.running <=> l.running)
      /\ k.batch \subseteq l.batch /\ (k.msg # 0 => k.msg \in l.batch)
  BY <1>1, <1>3, MessageDoneShape
<1>5. LoopOK(k)'
  BY <1>2, <1>4, PlainOK
<1>6. LoopOK(MessageDone(l))' /\ (MessageDone(l).running <=> l.running)
  BY <1>3, <1>4, <1>5
<1>7. LoopOK(RecoveryDone(l))' /\ (RecoveryDone(l).running <=> l.running)
  BY <1>1, RecoveryDoneShape, PlainOK
<1>8. LoopOK(Top(l))' /\ (Top(l).running <=> l.running)
  BY <1>1, TopShape, PlainOK
<1>9. LoopOK(Off)' /\ ~Off.running
  BY OffShape, PlainOK
<1>10. QED
  BY <1>6, <1>7, <1>8, <1>9

\* A message that was claimed is looked at, or given up without a dispatch.
LEMMA LookKeeps ==
  ASSUME DeliverInv, NEW i \in Instance, NEW s \in Slot, loop[i][s].pc = "count",
         Process(i, s, loop[i][s]),
         UNCHANGED <<redis, consumers, cache, sweep, database, accepted>>,
         disturbed' \in 0 .. MaxDisturbances
  PROVE  DeliverInv'
<1>1. PICK l : l = loop[i][s]
  OBVIOUS
<1>2. /\ LoopOK(l) /\ Held(l) /\ l.msg \in Message /\ l.msg \in appended
  BY <1>1, TheLoop DEF Resting
<1>3. lastRead' \in Nat /\ l.msg <= lastRead' /\ \A m \in l.batch : m <= lastRead'
  BY <1>2, RedisKept DEF LoopOK, redis
<1>4. PICK k : Put(i, s, k) /\ LoopOK(k)' /\ (k.running => l.running)
  BY <1>1, <1>2, <1>3, ProcessMoves, OffShape
<1>5. /\ refused' = refused \/ refused' = refused \cup {l.msg}
      /\ refresh' \in [Instance -> Status \cup {"no", "asked"}]
      /\ \/ tries' = tries
         \/ tries' = [tries EXCEPT ![l.msg] = IF @ < MaxDeliveryCount THEN @ + 1 ELSE @]
  BY <1>1, <1>2, <1>3, ProcessMoves
<1>6. RedisTypes' /\ StreamOK' /\ LoopTypes' /\ LoopsOK'
  BY <1>1, <1>4, <1>5, LoopStays DEF database
<1>7. CacheTypes'
  BY <1>5 DEF DeliverInv, CacheTypes, database
<1>8. HistoryTypes'
  BY <1>2, <1>5, Constants DEF DeliverInv, HistoryTypes, database, redis
<1>9. QED
  BY <1>6, <1>7, <1>8 DEF DeliverInv

LEMMA DisturbType ==
  ASSUME DeliverInv, NEW what, Disturb(what)
  PROVE  disturbed' \in 0 .. MaxDisturbances /\ disturbed' = disturbed + 1
BY Constants DEF DeliverInv, HistoryTypes, Disturb

LEMMA DeliveryCountKeeps ==
  ASSUME DeliverInv, NEW i \in Instance, NEW s \in Slot,
         DeliveryCount(i, s) \/ DeliveryCountUnknown(i, s)
  PROVE  DeliverInv'
<1>1. PICK l : l = loop[i][s]
  OBVIOUS
<1>2. l.pc = "count" /\ UNCHANGED <<redis, consumers, cache, sweep, database, accepted>>
  BY <1>1 DEF DeliveryCount, DeliveryCountUnknown
<1>3. disturbed' \in 0 .. MaxDisturbances
  BY DisturbType DEF DeliveryCount, DeliveryCountUnknown, DeliverInv, HistoryTypes
<1>4. CASE Process(i, s, l)
  BY <1>1, <1>2, <1>3, <1>4, LookKeeps
<1>5. CASE ~Process(i, s, l)
  <2>1. PICK k : k = IF l.running THEN At(l, "bury") ELSE Off
    OBVIOUS
  <2>2. /\ Put(i, s, k) /\ UNCHANGED <<refresh, tries, refused, disturbed>>
    BY <1>1, <1>5, <2>1 DEF DeliveryCount, DeliveryCountUnknown
  <2>3. /\ LoopOK(l) /\ Held(l) /\ l.redo /\ lastRead' = lastRead
        /\ lastRead' \in Nat
    BY <1>1, <1>2, TheLoop, RedisKept DEF Resting, Shape, redis
  <2>4. LoopOK(k)' /\ (k.running => l.running)
    <3>1. CASE l.running
      BY <2>1, <2>3, <3>1, AtShape, PlainOK DEF LoopOK
    <3>2. CASE ~l.running
      BY <2>1, <2>3, <3>2, OffShape, PlainOK
    <3>3. QED
      BY <3>1, <3>2
  <2>5. RedisTypes' /\ StreamOK' /\ LoopTypes' /\ LoopsOK'
    BY <1>1, <1>2, <2>2, <2>4, LoopStays DEF database
  <2>6. QED
    BY <1>2, <2>2, <2>5, RestKept DEF DeliverInv, redis, history
<1>6. QED
  BY <1>4, <1>5

LEMMA BuryKeeps ==
  ASSUME DeliverInv, NEW i \in Instance, NEW s \in Slot, Bury(i, s)
  PROVE  DeliverInv'
<1>1. PICK l : l = loop[i][s]
  OBVIOUS
<1>2. PICK k : k = IF l.running THEN At(l, "buried") ELSE Off
  OBVIOUS
<1>3. /\ l.pc = "bury" /\ letters' = [letters EXCEPT ![l.msg] = @ + 1] /\ Put(i, s, k)
      /\ UNCHANGED <<stream, appended, lastRead, pel, old, bad, consumers>>
      /\ UNCHANGED <<cache, refresh, sweep, database, history, disturbed>>
  BY <1>1, <1>2 DEF Bury
<1>4. LoopOK(l) /\ Held(l) /\ l.redo /\ l.msg \in Message
  BY <1>1, <1>3, TheLoop DEF Resting, Shape
<1>5. /\ letters' \in [Message -> Nat] /\ \A m \in Message : letters[m] <= letters'[m]
      /\ l.msg \in Dead' /\ lastRead' \in Nat /\ lastRead <= lastRead'
  BY <1>3, <1>4, Constants DEF DeliverInv, RedisTypes, Dead
<1>6. RedisTypes' /\ StreamOK'
  BY <1>3, <1>5 DEF DeliverInv, RedisTypes, StreamOK, Expired
<1>7. LoopOK(k)' /\ (k.running => l.running)
  <2>1. CASE l.running
    <3>1. /\ Shape(k) /\ k.pc = "buried" /\ k.msg = l.msg /\ k.batch = l.batch
      BY <1>2, <1>4, <2>1, AtShape
    <3>2. Shape(k)'
      BY <3>1
    <3>3. k.msg <= lastRead' /\ \A m \in k.batch : m <= lastRead'
      BY <1>3, <1>4, <3>1 DEF LoopOK
    <3>4. QED
      BY <1>5, <2>1, <3>1, <3>2, <3>3 DEF LoopOK
  <2>2. CASE ~l.running
    BY <1>2, <1>5, <2>2, OffShape, PlainOK
  <2>3. QED
    BY <2>1, <2>2
<1>8. Grows
  BY <1>3, <1>5 DEF Grows, history, database
<1>9. QED
  BY <1>1, <1>3, <1>5, <1>6, <1>7, <1>8, LoopMoves, RestKept DEF DeliverInv

LEMMA AckKeeps ==
  ASSUME DeliverInv, NEW i \in Instance, NEW s \in Slot, Ack(i, s)
  PROVE  DeliverInv'
<1>1. PICK l : l = loop[i][s]
  OBVIOUS
<1>2. PICK k : k = MessageDone(l)
  OBVIOUS
<1>3. /\ l.pc \in {"ack", "buried"} /\ pel' = [pel EXCEPT ![l.msg] = None] /\ Put(i, s, k)
      /\ UNCHANGED <<stream, appended, lastRead, letters, old, bad, consumers>>
      /\ UNCHANGED <<cache, refresh, sweep, database, history, disturbed>>
  BY <1>1, <1>2 DEF Ack
<1>4. LoopOK(l) /\ l.msg # 0
  BY <1>1, <1>3, TheLoop DEF Resting, Held
<1>5. /\ RedisTypes' /\ StreamOK'
      /\ lastRead' \in Nat /\ letters' \in [Message -> Nat]
      /\ lastRead <= lastRead' /\ \A m \in Message : letters[m] <= letters'[m]
  <2>1. pel' \in [Message -> PelEntry \cup {None}]
    BY <1>3 DEF DeliverInv, RedisTypes
  <2>2. \A m \in Message : pel'[m] # None => m <= lastRead
    BY <1>3 DEF DeliverInv, RedisTypes
  <2>3. QED
    BY <1>3, <2>1, <2>2, PelMoves
<1>6. LoopOK(k)' /\ (k.running => l.running)
  BY <1>2, <1>4, <1>5, DoneOK
<1>7. Grows
  BY <1>3, <1>5 DEF Grows, history, database
<1>8. QED
  BY <1>1, <1>3, <1>5, <1>6, <1>7, LoopMoves, RestKept DEF DeliverInv

\* XREADGROUP hands a message on that nobody has read.
LEMMA DeliverableMoves ==
  ASSUME DeliverInv, NEW i \in Instance, Unread # {}, Deliverable(i, First(Unread))
  PROVE  /\ First(Unread) \in stream /\ First(Unread) \in appended
         /\ First(Unread) \in Message /\ First(Unread) > lastRead
         /\ \A m \in stream : m > lastRead => First(Unread) <= m
         /\ lastRead' = First(Unread)
         /\ pel' = [pel EXCEPT ![First(Unread)] = [by |-> i, idle |-> 0, count |-> 1]]
         /\ [by |-> i, idle |-> 0, count |-> 1] \in PelEntry
         /\ UNCHANGED <<stream, appended, letters, old, bad>>
         /\ RedisTypes' /\ StreamOK'
         /\ lastRead' \in Nat /\ lastRead <= lastRead'
<1>1. PICK n : n = First(Unread)
  OBVIOUS
<1>2. Unread \in SUBSET Nat
  <2>1. stream \subseteq Message /\ Message \subseteq Nat
    BY Constants DEF DeliverInv, RedisTypes, Message
  <2>2. QED
    BY <2>1 DEF Unread
<1>3. n \in Unread /\ \A m \in Unread : n <= m
  BY <1>1, <1>2, FirstIsLeast
<1>4. /\ n \in stream /\ n \in appended /\ n \in Message /\ n > lastRead
      /\ \A m \in stream : m > lastRead => n <= m
      /\ lastRead \in Nat
  BY <1>3 DEF DeliverInv, RedisTypes, Unread
<1>5. /\ lastRead' = n
      /\ pel' = [pel EXCEPT ![n] = [by |-> i, idle |-> 0, count |-> 1]]
      /\ UNCHANGED <<stream, appended, letters, old, bad>>
  BY <1>1 DEF Deliverable
<1>6. [by |-> i, idle |-> 0, count |-> 1] \in PelEntry
  BY Constants DEF PelEntry
<1>7. n \in Nat /\ lastRead <= n /\ n \in 0 .. MaxMessage
  BY <1>4, Constants DEF Message
<1>8. RedisTypes'
  <2>1. pel' \in [Message -> PelEntry \cup {None}]
    BY <1>4, <1>5, <1>6 DEF DeliverInv, RedisTypes
  <2>2. \A m \in Message : pel'[m] # None => m <= lastRead'
    <3>1. ASSUME NEW m \in Message, pel'[m] # None PROVE m <= n
      <4>1. m \in Nat /\ (m # n => m <= lastRead)
        BY <1>4, <1>5, <3>1, Constants DEF DeliverInv, RedisTypes, Message
      <4>2. QED
        BY <1>4, <1>7, <4>1
    <3>2. QED
      BY <1>5, <3>1
  <2>3. QED
    BY <1>5, <1>7, <2>1, <2>2 DEF DeliverInv, RedisTypes
<1>9. StreamOK'
  <2>1. n <= Cardinality(appended)
    <3>1. Cardinality(appended) \in Nat
      <4>1. IsFiniteSet(Message)
        BY Constants, FS_Interval DEF Message
      <4>2. QED
        BY <4>1, FS_Subset, FS_CardinalityType DEF DeliverInv, RedisTypes
    <3>2. QED
      BY <1>4, <3>1 DEF DeliverInv, StreamOK
  <2>2. QED
    BY <1>5, <2>1 DEF DeliverInv, StreamOK, Expired
<1>10. QED
  BY <1>1, <1>4, <1>5, <1>6, <1>7, <1>8, <1>9

\* A loop that reads has the message that it reads.
LEMMA ReadShape ==
  ASSUME NEW l, Shape(l), l.pc = "read", NEW n \in Message
  PROVE  LET h == [l EXCEPT !.msg = n]
         IN  Held(h) /\ h.msg = n /\ h.batch = {} /\ ~h.redo /\ (h.running <=> l.running)
<1> DEFINE h == [l EXCEPT !.msg = n]
<1>1. l \in LoopRecord /\ ~l.redo /\ l.batch = {} /\ l.cursor = 0 /\ l.handled = 0
  BY DEF Shape, Scan
<1>2. n \in 0 .. MaxMessage /\ n > 0
  BY Constants DEF Message
<1>3. /\ h \in LoopRecord /\ h.msg = n /\ h.batch = {} /\ ~h.redo /\ h.cursor = 0
      /\ h.handled = 0 /\ (h.running <=> l.running)
  BY <1>1, <1>2 DEF LoopRecord
<1> HIDE DEF h
<1>4. Held(h)
  BY <1>2, <1>3, Constants DEF Held, Scan
<1>5. QED
  BY <1>3, <1>4 DEF h

LEMMA ReadKeeps ==
  ASSUME DeliverInv, NEW i \in Instance, NEW s \in Slot, Read(i, s)
  PROVE  DeliverInv'
<1>1. PICK l : l = loop[i][s]
  OBVIOUS
<1>2. /\ l.pc = "read" /\ LoopOK(l) /\ Shape(l) /\ l \in LoopRecord
      /\ UNCHANGED <<consumers, cache, sweep, database, accepted, disturbed>>
  BY <1>1, TheLoop DEF Read
<1>3. CASE Unread # {}
  <2>1. PICK n : n = First(Unread)
    OBVIOUS
  <2>2. PICK h : h = [l EXCEPT !.msg = n]
    OBVIOUS
  <2>3. Deliverable(i, First(Unread)) /\ Process(i, s, h)
    BY <1>1, <1>3, <2>1, <2>2 DEF Read
  <2>4. /\ n \in appended /\ n \in Message /\ lastRead' = n
        /\ UNCHANGED <<appended, letters>>
        /\ RedisTypes' /\ StreamOK'
        /\ lastRead' \in Nat /\ lastRead <= lastRead'
    BY <1>3, <2>1, <2>3, DeliverableMoves
  <2>5. Held(h) /\ h.msg = n /\ h.batch = {} /\ (h.running <=> l.running)
    BY <1>2, <2>2, <2>4, ReadShape
  <2>6. h.msg <= lastRead' /\ (\A m \in h.batch : m <= lastRead') /\ h.msg \in appended
    BY <2>4, <2>5
  <2>7. PICK k : Put(i, s, k) /\ LoopOK(k)' /\ (k.running => l.running)
    BY <2>3, <2>4, <2>5, <2>6, ProcessMoves, OffShape
  <2>8. /\ refused' = refused \/ refused' = refused \cup {n}
        /\ refresh' \in [Instance -> Status \cup {"no", "asked"}]
        /\ \/ tries' = tries
           \/ tries' = [tries EXCEPT ![n] = IF @ < MaxDeliveryCount THEN @ + 1 ELSE @]
    BY <2>3, <2>4, <2>5, <2>6, ProcessMoves
  <2>9. letters' \in [Message -> Nat]
    BY <2>4 DEF RedisTypes
  <2>10. Grows
    BY <1>2, <2>4, <2>8, <2>9 DEF Grows, database
  <2>11. LoopTypes' /\ LoopsOK'
    BY <1>1, <1>2, <2>4, <2>7, <2>9, <2>10, LoopMoves
  <2>12. CacheTypes'
    <3>1. cache' = cache /\ sweep' = sweep /\ status' = status /\ signal' = signal
      BY <1>2 DEF database
    <3>2. QED
      BY <2>8, <3>1 DEF DeliverInv, CacheTypes
  <2>13. HistoryTypes'
    <3>1. tries' \in [Message -> 0 .. MaxDeliveryCount]
      BY <2>4, <2>8, Constants DEF DeliverInv, HistoryTypes
    <3>2. /\ logs' = logs /\ disturbed' = disturbed /\ changes' = changes /\ changed' = changed
          /\ accepted' = accepted
      BY <1>2 DEF database
    <3>3. accepted' \subseteq appended' /\ refused' \subseteq appended'
      BY <2>4, <2>8, <3>2 DEF DeliverInv, HistoryTypes
    <3>4. QED
      BY <3>1, <3>2, <3>3 DEF DeliverInv, HistoryTypes
  <2>14. QED
    BY <2>4, <2>11, <2>12, <2>13 DEF DeliverInv
<1>4. CASE Unread = {}
  <2>1. PICK k : k = Top(l)
    OBVIOUS
  <2>2. Put(i, s, k) /\ UNCHANGED <<redis, refresh, tries, refused>>
    BY <1>1, <1>4, <2>1 DEF Read
  <2>3. lastRead' \in Nat /\ lastRead <= lastRead'
    BY <2>2, RedisKept
  <2>4. LoopOK(k)' /\ (k.running => l.running)
    BY <1>2, <2>1, <2>3, TopShape, PlainOK
  <2>5. RedisTypes' /\ StreamOK' /\ LoopTypes' /\ LoopsOK'
    BY <1>1, <1>2, <2>2, <2>4, LoopStays DEF database
  <2>6. QED
    BY <1>2, <2>2, <2>5, RestKept DEF DeliverInv, redis, history
<1>5. QED
  BY <1>3, <1>4

\* The steps of dispatch() that leave the message with its loop.
LEMMA StillHeld ==
  ASSUME NEW l, Shape(l), l.msg # 0, NEW k \in LoopRecord, k.pc \in DispatchStep,
         k.msg = l.msg, k.batch = l.batch, k.redo <=> l.redo, k.cursor = l.cursor,
         k.handled = l.handled
  PROVE  Shape(k)
<1>1. k.pc \notin Resting /\ k.pc \notin {"count", "bury", "buried"}
  BY DEF DispatchStep, Resting
<1>2. Scan(k)
  BY DEF Scan, Shape
<1>3. QED
  BY <1>1, <1>2 DEF Shape, Resting

\* A step of dispatch() that leaves Redis and the consumers alone.
LEMMA DispatchMoves ==
  ASSUME DeliverInv, NEW i \in Instance, NEW s \in Slot, NEW k, Put(i, s, k), LoopOK(k)',
         k.running => loop[i][s].running, UNCHANGED <<redis, consumers, refresh, sweep, tries>>,
         UNCHANGED <<status, signal, changes, changed>>,
         cache' \in [Instance -> CacheEntry \cup {None}],
         accepted \subseteq accepted' /\ accepted' \subseteq appended,
         refused \subseteq refused' /\ refused' \subseteq appended,
         logs' \in [Message -> SUBSET {"SUCCESS", "FAILED"}],
         \A m \in Message : logs[m] \subseteq logs'[m],
         disturbed' \in 0 .. MaxDisturbances
  PROVE  DeliverInv'
<1>1. RedisTypes' /\ StreamOK' /\ LoopTypes' /\ LoopsOK'
  BY LoopStays
<1>2. CacheTypes'
  BY DEF DeliverInv, CacheTypes
<1>3. appended' = appended
  BY DEF redis
<1>4. HistoryTypes'
  BY <1>3 DEF DeliverInv, HistoryTypes
<1>5. QED
  BY <1>1, <1>2, <1>4 DEF DeliverInv

\* A loop that stays with its message and has nothing to show for it yet.
LEMMA HeldOK ==
  ASSUME DeliverInv, NEW l, LoopOK(l), NEW k, Shape(k), k.msg = l.msg, k.batch = l.batch,
         lastRead' = lastRead,
         k.pc \in {"log", "call"} => k.data = "gone",
         k.pc = "mark" /\ k.data = "active" => l.msg \in accepted',
         k.pc = "ack" => l.msg \in refused' \/ (l.msg \in accepted' /\ "SUCCESS" \in logs'[l.msg]),
         k.pc # "buried"
  PROVE  LoopOK(k)'
<1>1. Shape(k)'
  OBVIOUS
<1>2. k.msg <= lastRead' /\ \A m \in k.batch : m <= lastRead'
  BY DEF LoopOK
<1>3. QED
  BY <1>1, <1>2 DEF LoopOK

LEMMA FetchKeeps ==
  ASSUME DeliverInv, NEW i \in Instance, NEW s \in Slot, Fetch(i, s)
  PROVE  DeliverInv'
<1>1. PICK l : l = loop[i][s]
  OBVIOUS
<1>2. PICK k : k = [l EXCEPT !.pc = "fetched", !.data = status]
  OBVIOUS
<1>3. /\ l.pc = "fetch" /\ Put(i, s, k)
      /\ UNCHANGED <<redis, consumers, cache, refresh, sweep, database, history, disturbed>>
  BY <1>1, <1>2 DEF Fetch
<1>4. LoopOK(l) /\ Shape(l) /\ l.msg # 0 /\ l \in LoopRecord
  BY <1>1, <1>3, TheLoop DEF Resting, Held
<1>5. status \in Status
  BY DEF DeliverInv, CacheTypes
<1>6. /\ k \in LoopRecord /\ k.pc = "fetched" /\ k.msg = l.msg /\ k.batch = l.batch
      /\ (k.running <=> l.running) /\ (k.redo <=> l.redo)
      /\ k.cursor = l.cursor /\ k.handled = l.handled
  BY <1>2, <1>4, <1>5 DEF LoopRecord, DispatchStep
<1>7. Shape(k)
  BY <1>4, <1>6, StillHeld DEF DispatchStep
<1>8. LoopOK(k)'
  BY <1>3, <1>4, <1>6, <1>7, HeldOK DEF redis
<1>9. RedisTypes' /\ StreamOK' /\ LoopTypes' /\ LoopsOK'
  BY <1>1, <1>3, <1>6, <1>8, LoopStays DEF database, history
<1>10. QED
  BY <1>3, <1>9, RestKept DEF DeliverInv, redis

LEMMA FetchedKeeps ==
  ASSUME DeliverInv, NEW i \in Instance, NEW s \in Slot, Fetched(i, s)
  PROVE  DeliverInv'
<1>1. PICK l : l = loop[i][s]
  OBVIOUS
<1>2. PICK k : k = Judge(l, l.data)
  OBVIOUS
<1>3. /\ l.pc = "fetched" /\ Put(i, s, k)
      /\ cache' = IF l.data = "gone" THEN cache ELSE [cache EXCEPT ![i] = Entry(l.data)]
      /\ refused' = refused \cup Give({l.msg}, l.data)
      /\ UNCHANGED <<redis, consumers, refresh, sweep, database, tries, accepted, disturbed>>
  BY <1>1, <1>2 DEF Fetched
<1>4. /\ LoopOK(l) /\ Held(l) /\ l \in LoopRecord /\ l.data \in Status
      /\ l.msg \in appended
  BY <1>1, <1>3, TheLoop DEF Resting, LoopRecord
<1>5. /\ Shape(k) /\ (k.running <=> l.running)
      /\ \/ k.pc = "log" /\ k.data = "gone"
         \/ k.pc = "ack" /\ l.data # "active"
         \/ k = Off
      /\ k = Off \/ (k.msg = l.msg /\ k.batch = l.batch)
  BY <1>2, <1>4, JudgeShape
<1>6. /\ refused \subseteq refused' /\ refused' \subseteq appended
      /\ l.data # "active" => l.msg \in refused'
  BY <1>3, <1>4 DEF Give, DeliverInv, HistoryTypes
<1>7. LoopOK(k)'
  <2>1. CASE k = Off
    BY <1>3, <2>1, RedisKept, OffShape, PlainOK DEF redis
  <2>2. CASE k # Off
    BY <1>3, <1>4, <1>5, <1>6, <2>2, HeldOK DEF redis
  <2>3. QED
    BY <2>1, <2>2
<1>8. cache' \in [Instance -> CacheEntry \cup {None}]
  <2>1. l.data # "gone" => Entry(l.data) \in CacheEntry
    BY <1>4, Constants DEF Entry, CacheEntry
  <2>2. QED
    BY <1>3, <2>1 DEF DeliverInv, CacheTypes
<1>9. /\ logs' \in [Message -> SUBSET {"SUCCESS", "FAILED"}] /\ logs' = logs
      /\ accepted' = accepted /\ accepted' \subseteq appended
      /\ disturbed' \in 0 .. MaxDisturbances
      /\ UNCHANGED <<status, signal, changes, changed>>
  BY <1>3 DEF DeliverInv, HistoryTypes, database
<1>10. QED
  BY <1>1, <1>3, <1>5, <1>6, <1>7, <1>8, <1>9, DispatchMoves

LEMMA CreateLogKeeps ==
  ASSUME DeliverInv, NEW i \in Instance, NEW s \in Slot, CreateLog(i, s)
  PROVE  DeliverInv'
<1>1. PICK l : l = loop[i][s]
  OBVIOUS
<1>2. PICK k : k = [l EXCEPT !.pc = "call", !.attempt = 1]
  OBVIOUS
<1>3. /\ l.pc = "log" /\ Put(i, s, k)
      /\ UNCHANGED <<redis, consumers, cache, refresh, sweep, database, history, disturbed>>
  BY <1>1, <1>2 DEF CreateLog
<1>4. LoopOK(l) /\ Shape(l) /\ l.msg # 0 /\ l \in LoopRecord
  BY <1>1, <1>3, TheLoop DEF Resting, Held
<1>5. 1 \in 0 .. MaxRetries + 1 /\ l.data = "gone"
  BY <1>3, <1>4, Constants DEF LoopOK
<1>6. /\ k \in LoopRecord /\ k.pc = "call" /\ k.msg = l.msg /\ k.batch = l.batch
      /\ k.data = "gone" /\ (k.running <=> l.running) /\ (k.redo <=> l.redo)
      /\ k.cursor = l.cursor /\ k.handled = l.handled
  BY <1>2, <1>4, <1>5 DEF LoopRecord, DispatchStep
<1>7. Shape(k)
  BY <1>4, <1>6, StillHeld DEF DispatchStep
<1>8. LoopOK(k)'
  BY <1>3, <1>4, <1>6, <1>7, HeldOK DEF redis
<1>9. RedisTypes' /\ StreamOK' /\ LoopTypes' /\ LoopsOK'
  BY <1>1, <1>3, <1>6, <1>8, LoopStays DEF database, history
<1>10. QED
  BY <1>3, <1>9, RestKept DEF DeliverInv, redis

LEMMA StillPlaces ==
  /\ 0 \in 0 .. MaxRetries + 1 /\ "active" \in Status /\ "gone" \in Status
  /\ "mark" \in DispatchStep /\ "mark" # "call" /\ "gone" # "active"
BY Constants DEF DispatchStep, Status

LEMMA CallKeeps ==
  ASSUME DeliverInv, NEW i \in Instance, NEW s \in Slot, Call(i, s)
  PROVE  DeliverInv'
<1>1. PICK l : l = loop[i][s]
  OBVIOUS
<1>2. PICK accepts \in BOOLEAN, heard \in BOOLEAN :
        /\ accepted' = IF accepts THEN accepted \cup {l.msg} ELSE accepted
        /\ Put(i, s, IF accepts /\ heard
                       THEN [l EXCEPT !.pc = "mark", !.attempt = 0, !.data = "active"]
                     ELSE IF l.attempt <= MaxRetries THEN [l EXCEPT !.attempt = @ + 1]
                     ELSE [l EXCEPT !.pc = "mark", !.attempt = 0])
  BY <1>1 DEF Call
<1>3. PICK k : k = IF accepts /\ heard
                     THEN [l EXCEPT !.pc = "mark", !.attempt = 0, !.data = "active"]
                   ELSE IF l.attempt <= MaxRetries THEN [l EXCEPT !.attempt = @ + 1]
                   ELSE [l EXCEPT !.pc = "mark", !.attempt = 0]
  OBVIOUS
<1>4. /\ l.pc = "call" /\ Put(i, s, k)
      /\ UNCHANGED <<redis, consumers, cache, refresh, sweep, database, tries, refused, disturbed>>
  BY <1>1, <1>2, <1>3 DEF Call
<1>5. /\ LoopOK(l) /\ Shape(l) /\ l.msg # 0 /\ l \in LoopRecord
      /\ l.msg \in appended
  BY <1>1, <1>4, TheLoop DEF Resting, Held
<1>6. l.attempt \in 0 .. MaxRetries + 1 /\ l.data = "gone"
  BY <1>4, <1>5 DEF LoopOK, LoopRecord
<1>7. /\ k \in LoopRecord /\ k.pc \in {"call", "mark"} /\ k.msg = l.msg /\ k.batch = l.batch
      /\ (k.running <=> l.running) /\ (k.redo <=> l.redo)
      /\ k.cursor = l.cursor /\ k.handled = l.handled
      /\ k.pc = "call" => k.data = "gone"
      /\ k.pc = "mark" /\ k.data = "active" => accepts
  <2>1. CASE accepts /\ heard
    <3>1. k = [l EXCEPT !.pc = "mark", !.attempt = 0, !.data = "active"]
      BY <1>3, <2>1
    <3>2. QED
      BY <1>5, <2>1, <3>1, StillPlaces DEF LoopRecord
  <2>2. CASE ~(accepts /\ heard) /\ l.attempt <= MaxRetries
    <3>1. k = [l EXCEPT !.attempt = l.attempt + 1]
      BY <1>3, <2>2
    <3>2. l.attempt + 1 \in 0 .. MaxRetries + 1
      BY <1>6, <2>2, Constants
    <3>3. QED
      BY <1>4, <1>5, <1>6, <3>1, <3>2 DEF LoopRecord
  <2>3. CASE ~(accepts /\ heard) /\ ~(l.attempt <= MaxRetries)
    <3>1. k = [l EXCEPT !.pc = "mark", !.attempt = 0]
      BY <1>3, <2>3
    <3>2. QED
      BY <1>5, <1>6, <3>1, StillPlaces DEF LoopRecord
  <2>4. QED
    BY <2>1, <2>2, <2>3
<1>8. Shape(k)
  BY <1>5, <1>7, StillHeld DEF DispatchStep
<1>9. /\ accepted \subseteq accepted' /\ accepted' \subseteq appended
      /\ accepts => l.msg \in accepted'
  BY <1>2, <1>5 DEF DeliverInv, HistoryTypes
<1>10. LoopOK(k)'
  BY <1>4, <1>5, <1>7, <1>8, <1>9, HeldOK DEF redis
<1>11. /\ logs' \in [Message -> SUBSET {"SUCCESS", "FAILED"}] /\ logs' = logs
       /\ refused' = refused /\ refused' \subseteq appended
       /\ disturbed' \in 0 .. MaxDisturbances
       /\ UNCHANGED <<status, signal, changes, changed>>
       /\ cache' \in [Instance -> CacheEntry \cup {None}]
  BY <1>4 DEF DeliverInv, HistoryTypes, CacheTypes, database
<1>12. QED
  BY <1>1, <1>4, <1>7, <1>9, <1>10, <1>11, DispatchMoves

LEMMA MarkKeeps ==
  ASSUME DeliverInv, NEW i \in Instance, NEW s \in Slot, Mark(i, s)
  PROVE  DeliverInv'
<1>1. PICK l : l = loop[i][s]
  OBVIOUS
<1>2. PICK g : g = [l EXCEPT !.data = "gone"]
  OBVIOUS
<1>3. PICK k : k = IF l.data = "active" THEN Acknowledge(g) ELSE MessageDone(l)
  OBVIOUS
<1>4. /\ l.pc = "mark" /\ Put(i, s, k)
      /\ logs' = [logs EXCEPT ![l.msg] = @ \cup {IF l.data = "active" THEN "SUCCESS" ELSE "FAILED"}]
      /\ UNCHANGED <<redis, consumers, cache, refresh, sweep, status, signal, changes, changed,
                     history, disturbed>>
  BY <1>1, <1>2, <1>3 DEF Mark
<1>5. /\ LoopOK(l) /\ Shape(l) /\ Held(l) /\ l.msg # 0 /\ l \in LoopRecord
      /\ l.msg \in Message
  BY <1>1, <1>4, TheLoop DEF Resting, Held
<1>6. /\ logs' \in [Message -> SUBSET {"SUCCESS", "FAILED"}]
      /\ \A m \in Message : logs[m] \subseteq logs'[m]
      /\ l.data = "active" => "SUCCESS" \in logs'[l.msg]
  BY <1>4, <1>5 DEF DeliverInv, HistoryTypes
<1>7. lastRead' = lastRead /\ lastRead' \in Nat /\ lastRead <= lastRead'
  BY <1>4, RedisKept DEF redis
<1>8. LoopOK(k)' /\ (k.running => l.running)
  <2>1. CASE l.data = "active"
    <3>1. /\ g \in LoopRecord /\ g.msg = l.msg /\ g.batch = l.batch
          /\ (g.running <=> l.running) /\ (g.redo <=> l.redo)
          /\ g.cursor = l.cursor /\ g.handled = l.handled
      BY <1>2, <1>5 DEF LoopRecord, Status
    <3>2. Held(g)
      BY <1>5, <3>1 DEF Held, Scan
    <3>3. /\ Shape(k) /\ (k.running <=> g.running)
          /\ \/ k = Off
             \/ k.pc = "ack" /\ k.msg = g.msg /\ k.batch = g.batch
      BY <1>3, <2>1, <3>2, AcknowledgeShape
    <3>4. CASE k = Off
      BY <1>7, <3>3, <3>4, OffShape, PlainOK
    <3>5. CASE k # Off
      <4>1. l.msg \in accepted'
        BY <1>4, <1>5, <2>1 DEF LoopOK, history
      <4>2. QED
        BY <1>5, <1>6, <1>7, <2>1, <3>1, <3>3, <3>5, <4>1, HeldOK
    <3>6. QED
      BY <3>1, <3>3, <3>4, <3>5, OffShape
  <2>2. CASE l.data # "active"
    BY <1>3, <1>5, <1>7, <2>2, DoneOK
  <2>3. QED
    BY <2>1, <2>2
<1>9. /\ accepted' = accepted /\ refused' = refused /\ tries' = tries
      /\ accepted' \subseteq appended /\ refused' \subseteq appended
      /\ disturbed' \in 0 .. MaxDisturbances
      /\ cache' \in [Instance -> CacheEntry \cup {None}]
  BY <1>4 DEF DeliverInv, HistoryTypes, CacheTypes, history
<1>10. QED
  BY <1>1, <1>4, <1>6, <1>8, <1>9, DispatchMoves

LEMMA CommandFailsKeeps ==
  ASSUME DeliverInv, NEW i \in Instance, NEW s \in Slot, CommandFails(i, s)
  PROVE  DeliverInv'
<1>1. PICK l : l = loop[i][s]
  OBVIOUS
<1>2. /\ UNCHANGED <<consumers, cache, refresh, sweep, database, history>>
      /\ disturbed' \in 0 .. MaxDisturbances
  BY DisturbType DEF CommandFails
<1>3. LoopOK(l) /\ Shape(l) /\ l \in LoopRecord
  BY <1>1, TheLoop
<1>4. ASSUME RedisTypes', StreamOK', lastRead' \in Nat, letters' \in [Message -> Nat],
             appended' = appended,
             lastRead <= lastRead', \A m \in Message : letters[m] <= letters'[m],
             NEW k, Put(i, s, k), LoopOK(k)', k.running => l.running
      PROVE  DeliverInv'
  <2>1. Grows
    BY <1>2, <1>4 DEF Grows, history, database
  <2>2. LoopTypes' /\ LoopsOK'
    BY <1>1, <1>2, <1>4, <2>1, LoopMoves
  <2>3. CacheTypes' /\ HistoryTypes'
    BY <1>2, <1>4 DEF DeliverInv, CacheTypes, HistoryTypes, database, history
  <2>4. QED
    BY <1>4, <2>2, <2>3 DEF DeliverInv
<1>5. CASE UNCHANGED redis /\ l.pc # "read"
  <2>1. /\ RedisTypes' /\ StreamOK' /\ lastRead' \in Nat /\ letters' \in [Message -> Nat]
        /\ lastRead <= lastRead' /\ \A m \in Message : letters[m] <= letters'[m]
        /\ appended' = appended
    BY <1>5, RedisKept DEF redis
  <2>2. CASE Put(i, s, RecoveryDone(l))
    <3>1. PICK k : k = RecoveryDone(l)
      OBVIOUS
    <3>2. LoopOK(k)' /\ (k.running => l.running)
      BY <1>3, <2>1, <3>1, RecoveryDoneShape, PlainOK
    <3>3. QED
      BY <1>4, <2>1, <2>2, <3>1, <3>2
  <2>3. CASE l.pc = "ack" /\ Put(i, s, MessageDone(l))
    <3>1. PICK k : k = MessageDone(l)
      OBVIOUS
    <3>2. LoopOK(k)' /\ (k.running => l.running)
      BY <1>3, <2>1, <2>3, <3>1, DoneOK DEF Shape, Resting
    <3>3. QED
      BY <1>4, <2>1, <2>3, <3>1, <3>2
  <2>4. QED
    BY <1>1, <1>5, <2>2, <2>3 DEF CommandFails
<1>6. CASE /\ l.pc \in {"autoclaim", "ack"}
           /\ pel' = Autoclaimed(i, l.cursor) \/ pel' = [pel EXCEPT ![l.msg] = None]
           /\ UNCHANGED <<stream, appended, lastRead, letters, old, bad>>
  <2>1. /\ pel' \in [Message -> PelEntry \cup {None}]
        /\ \A m \in Message : pel'[m] # None => m <= lastRead
    <3>1. CASE pel' = Autoclaimed(i, l.cursor)
      BY <3>1, AutoclaimedType DEF DeliverInv, RedisTypes
    <3>2. CASE pel' = [pel EXCEPT ![l.msg] = None]
      BY <3>2 DEF DeliverInv, RedisTypes
    <3>3. QED
      BY <1>6, <3>1, <3>2
  <2>2. /\ RedisTypes' /\ StreamOK' /\ lastRead' \in Nat /\ letters' \in [Message -> Nat]
        /\ lastRead <= lastRead' /\ \A m \in Message : letters[m] <= letters'[m]
    BY <1>6, <2>1, PelMoves
  <2>3. PICK k : /\ k = RecoveryDone(l) \/ (l.pc = "ack" /\ k = MessageDone(l))
                 /\ Put(i, s, k)
    BY <1>1, <1>6 DEF CommandFails
  <2>4. LoopOK(k)' /\ (k.running => l.running)
    <3>1. CASE k = RecoveryDone(l)
      BY <1>3, <2>2, <3>1, RecoveryDoneShape, PlainOK
    <3>2. CASE l.pc = "ack" /\ k = MessageDone(l)
      BY <1>3, <2>2, <3>2, DoneOK DEF Shape, Resting
    <3>3. QED
      BY <2>3, <3>1, <3>2
  <2>5. QED
    BY <1>4, <1>6, <2>2, <2>3, <2>4
<1>7. CASE l.pc = "read"
  <2>1. Unread # {} /\ Deliverable(i, First(Unread)) /\ Put(i, s, Top(l))
    BY <1>1, <1>7 DEF CommandFails
  <2>2. /\ RedisTypes' /\ StreamOK' /\ lastRead' \in Nat /\ lastRead <= lastRead'
        /\ UNCHANGED <<appended, letters>>
    BY <2>1, DeliverableMoves
  <2>3. /\ letters' \in [Message -> Nat]
        /\ \A m \in Message : letters[m] <= letters'[m]
    BY <2>2 DEF DeliverInv, RedisTypes
  <2>4. PICK k : k = Top(l)
    OBVIOUS
  <2>5. LoopOK(k)' /\ (k.running => l.running)
    BY <1>3, <2>2, <2>4, TopShape, PlainOK
  <2>6. QED
    BY <1>4, <2>1, <2>2, <2>3, <2>4, <2>5
<1>8. CASE /\ l.pc = "bury"
           /\ letters' = [letters EXCEPT ![l.msg] = @ + 1]
           /\ UNCHANGED <<stream, appended, lastRead, pel, old, bad>>
  <2>1. l.msg \in Message
    BY <1>1, <1>8, TheLoop DEF Resting
  <2>2. /\ letters' \in [Message -> Nat] /\ \A m \in Message : letters[m] <= letters'[m]
        /\ lastRead' \in Nat /\ lastRead <= lastRead'
    BY <1>8, <2>1, Constants DEF DeliverInv, RedisTypes
  <2>3. RedisTypes' /\ StreamOK'
    BY <1>8, <2>2 DEF DeliverInv, RedisTypes, StreamOK, Expired
  <2>4. PICK k : k = RecoveryDone(l) /\ Put(i, s, k)
    BY <1>1, <1>8 DEF CommandFails
  <2>5. LoopOK(k)' /\ (k.running => l.running)
    BY <1>3, <2>2, <2>4, RecoveryDoneShape, PlainOK
  <2>6. QED
    BY <1>4, <1>8, <2>2, <2>3, <2>4, <2>5
<1>9. QED
  BY <1>1, <1>5, <1>6, <1>7, <1>8 DEF CommandFails, redis

LEMMA DispatchFailsKeeps ==
  ASSUME DeliverInv, NEW i \in Instance, NEW s \in Slot,
         DispatchFails(i, s) \/ Disconnect(i, s)
  PROVE  DeliverInv'
<1>1. PICK l : l = loop[i][s]
  OBVIOUS
<1>2. /\ UNCHANGED <<redis, consumers, cache, refresh, sweep, database, history>>
      /\ disturbed' \in 0 .. MaxDisturbances
  BY DisturbType DEF DispatchFails, Disconnect
<1>3. LoopOK(l)
  BY <1>1, TheLoop
<1>4. lastRead' \in Nat /\ lastRead <= lastRead'
  BY <1>2, RedisKept
<1>5. PICK k : /\ Put(i, s, k)
               /\ k = Off \/ (k = MessageDone(l) /\ l.pc \in DispatchStep)
  BY <1>1 DEF DispatchFails, Disconnect
<1>6. LoopOK(k)' /\ (k.running => l.running)
  <2>1. CASE k = Off
    BY <1>4, <2>1, OffShape, PlainOK
  <2>2. CASE k = MessageDone(l) /\ l.pc \in DispatchStep
    <3>1. l.msg # 0
      BY <1>3, <2>2 DEF LoopOK, Shape, Resting, DispatchStep
    <3>2. QED
      BY <1>3, <1>4, <2>2, <3>1, DoneOK
  <2>3. QED
    BY <1>5, <2>1, <2>2
<1>7. RedisTypes' /\ StreamOK' /\ LoopTypes' /\ LoopsOK'
  BY <1>1, <1>2, <1>5, <1>6, LoopStays DEF database, history
<1>8. CacheTypes' /\ HistoryTypes'
  BY <1>2 DEF DeliverInv, CacheTypes, HistoryTypes, database, history, redis
<1>9. QED
  BY <1>7, <1>8 DEF DeliverInv

\* A loop that is only stopped, or notices that time passes.
LEMMA FlagsOK ==
  ASSUME DeliverInv, NEW l, LoopOK(l), NEW k \in LoopRecord,
         UNCHANGED <<lastRead, accepted, refused, logs, letters>>,
         k.pc = l.pc, k.msg = l.msg, k.redo <=> l.redo, k.batch = l.batch,
         k.cursor = l.cursor, k.handled = l.handled, k.data = l.data
  PROVE  LoopOK(k)'
<1>1. Shape(k)
  BY DEF LoopOK, Shape, Scan
<1>2. Shape(k)'
  BY <1>1
<1>3. QED
  BY <1>2 DEF LoopOK, Dead

\* Loops whose records are all known.
LEMMA LoopsMove ==
  ASSUME \A i \in Instance, s \in Slot : \E k : k = loop'[i][s] /\ LoopOK(k)'
  PROVE  LoopsOK'
BY DEF LoopsOK, LoopOK

LEMMA StartConsumerKeeps ==
  ASSUME DeliverInv, NEW i \in Instance, NEW s \in Slot, StartConsumer(i, s)
  PROVE  DeliverInv'
<1>1. PICK k : k = [Off EXCEPT !.pc = "group", !.running = TRUE, !.due = TRUE]
  OBVIOUS
<1>2. /\ consumers[i] = None /\ consumers' = [consumers EXCEPT ![i] = s] /\ Put(i, s, k)
      /\ UNCHANGED <<redis, cache, refresh, sweep, database, history, disturbed>>
  BY <1>1 DEF StartConsumer
<1>3. /\ RedisTypes' /\ StreamOK' /\ lastRead' \in Nat /\ letters' \in [Message -> Nat]
      /\ lastRead <= lastRead' /\ \A m \in Message : letters[m] <= letters'[m]
  BY <1>2, RedisKept
<1>4. Grows
  BY <1>2, <1>3 DEF Grows, history, database
<1>5. /\ k \in LoopRecord /\ k.msg = 0 /\ k.pc = "group" /\ ~k.redo /\ k.batch = {}
      /\ k.cursor = 0 /\ k.handled = 0
  BY <1>1, OffShape DEF Off, LoopRecord, RedisStep, Shape, Scan
<1>6. Shape(k)
  BY <1>5, Constants DEF Shape, Scan, Resting
<1>7. LoopOK(k)'
  BY <1>3, <1>5, <1>6, PlainOK
<1>8. LoopTypes
  BY DEF DeliverInv
<1>9. /\ loop'[i][s] = k
      /\ \A j \in Instance, t \in Slot : <<j, t>> # <<i, s>> => loop'[j][t] = loop[j][t]
      /\ loop' \in [Instance -> [Slot -> LoopRecord]]
  BY <1>2, <1>5, <1>8, PutLoop
<1>10. LoopTypes'
  <2>1. consumers' \in [Instance -> Slot \cup {None}]
    BY <1>2, <1>8 DEF LoopTypes
  <2>2. ASSUME NEW j \in Instance, NEW t \in Slot, loop'[j][t].running PROVE consumers'[j] = t
    <3>1. CASE <<j, t>> = <<i, s>>
      BY <1>2, <1>8, <3>1 DEF LoopTypes
    <3>2. CASE <<j, t>> # <<i, s>>
      BY <1>2, <1>8, <1>9, <2>2, <3>2, Constants DEF LoopTypes
    <3>3. QED
      BY <3>1, <3>2
  <2>3. QED
    BY <1>9, <2>1, <2>2 DEF LoopTypes
<1>11. LoopsOK'
  <2>1. ASSUME NEW j \in Instance, NEW t \in Slot
        PROVE  \E x : x = loop'[j][t] /\ LoopOK(x)'
    <3>1. CASE <<j, t>> = <<i, s>>
      BY <1>7, <1>9, <3>1
    <3>2. CASE <<j, t>> # <<i, s>>
      <4>1. PICK x : x = loop[j][t]
        OBVIOUS
      <4>2. LoopOK(x)
        BY <4>1, TheLoop
      <4>3. LoopOK(x)'
        BY <1>3, <1>4, <4>2, GrowsKeeps
      <4>4. QED
        BY <1>9, <3>2, <4>1, <4>3
    <3>3. QED
      BY <3>1, <3>2
  <2>2. QED
    BY <2>1, LoopsMove
<1>12. QED
  BY <1>2, <1>3, <1>10, <1>11, RestKept DEF DeliverInv, redis

LEMMA StopConsumerKeeps ==
  ASSUME DeliverInv, NEW i \in Instance, StopConsumer(i)
  PROVE  DeliverInv'
<1>1. PICK s : s = consumers[i]
  OBVIOUS
<1>2. /\ s # None /\ loop' = [loop EXCEPT ![i][s].running = FALSE]
      /\ consumers' = [consumers EXCEPT ![i] = None]
      /\ UNCHANGED <<redis, cache, refresh, sweep, database, history>>
      /\ disturbed' \in 0 .. MaxDisturbances
  BY <1>1, DisturbType DEF StopConsumer
<1>3. LoopTypes /\ s \in Slot
  BY <1>1, <1>2 DEF DeliverInv, LoopTypes
<1>4. RedisTypes' /\ StreamOK' /\ UNCHANGED <<lastRead, accepted, refused, logs, letters>>
  BY <1>2, RedisKept DEF redis, database, history
<1>5. PICK k : k = [loop[i][s] EXCEPT !.running = FALSE]
  OBVIOUS
<1>6. /\ loop'[i][s] = k
      /\ \A j \in Instance, t \in Slot : <<j, t>> # <<i, s>> => loop'[j][t] = loop[j][t]
  BY <1>2, <1>3, <1>5 DEF LoopTypes
<1>7. /\ k \in LoopRecord /\ ~k.running
      /\ LoopOK(k)'
  <2>1. PICK l : l = loop[i][s]
    OBVIOUS
  <2>2. LoopOK(l) /\ l \in LoopRecord
    BY <1>3, <2>1, TheLoop
  <2>3. /\ k \in LoopRecord /\ ~k.running
        /\ k.pc = l.pc /\ k.msg = l.msg /\ (k.redo <=> l.redo) /\ k.batch = l.batch
        /\ k.cursor = l.cursor /\ k.handled = l.handled /\ k.data = l.data
    BY <1>5, <2>1, <2>2 DEF LoopRecord
  <2>4. QED
    BY <1>4, <2>2, <2>3, FlagsOK
<1>8. LoopTypes'
  <2>1. loop' \in [Instance -> [Slot -> LoopRecord]]
    BY <1>2, <1>3, <1>5, <1>7 DEF LoopTypes
  <2>2. consumers' \in [Instance -> Slot \cup {None}]
    BY <1>2, <1>3 DEF LoopTypes
  <2>3. ASSUME NEW j \in Instance, NEW t \in Slot, loop'[j][t].running PROVE consumers'[j] = t
    <3>1. <<j, t>> # <<i, s>> /\ loop[j][t].running
      BY <1>6, <1>7, <2>3
    <3>2. consumers[j] = t
      BY <1>3, <3>1 DEF LoopTypes
    <3>3. j # i
      BY <1>1, <3>1, <3>2
    <3>4. QED
      BY <1>2, <1>3, <3>2, <3>3 DEF LoopTypes
  <2>4. QED
    BY <2>1, <2>2, <2>3 DEF LoopTypes
<1>9. LoopsOK'
  <2>1. ASSUME NEW j \in Instance, NEW t \in Slot
        PROVE  \E x : x = loop'[j][t] /\ LoopOK(x)'
    <3>1. CASE <<j, t>> = <<i, s>>
      BY <1>6, <1>7, <3>1
    <3>2. CASE <<j, t>> # <<i, s>>
      <4>1. PICK x : x = loop[j][t]
        OBVIOUS
      <4>2. LoopOK(x) /\ x \in LoopRecord
        BY <4>1, TheLoop
      <4>3. LoopOK(x)'
        BY <1>4, <4>2, FlagsOK
      <4>4. QED
        BY <1>6, <3>2, <4>1, <4>3
    <3>3. QED
      BY <3>1, <3>2
  <2>2. QED
    BY <2>1, LoopsMove
<1>10. CacheTypes' /\ HistoryTypes'
  BY <1>2 DEF DeliverInv, CacheTypes, HistoryTypes, database, history, redis
<1>11. QED
  BY <1>4, <1>8, <1>9, <1>10 DEF DeliverInv

LEMMA CrashKeeps ==
  ASSUME DeliverInv, NEW i \in Instance, Crash(i)
  PROVE  DeliverInv'
<1>1. /\ loop' = [loop EXCEPT ![i] = [s \in Slot |-> Off]]
      /\ consumers' = [consumers EXCEPT ![i] = None]
      /\ cache' = [cache EXCEPT ![i] = None]
      /\ refresh' = [refresh EXCEPT ![i] = "no"]
      /\ signal' = [signal EXCEPT ![i] = FALSE]
      /\ sweep' = [sweep EXCEPT ![i] = {}]
      /\ UNCHANGED <<redis, status, logs, changes, changed, history>>
      /\ disturbed' \in 0 .. MaxDisturbances
  BY DisturbType DEF Crash
<1>2. LoopTypes
  BY DEF DeliverInv
<1>3. /\ RedisTypes' /\ StreamOK' /\ UNCHANGED <<lastRead, accepted, refused, logs, letters>>
      /\ lastRead' \in Nat
  BY <1>1, RedisKept DEF redis, history
<1>4. /\ Off \in LoopRecord /\ ~Off.running
      /\ LoopOK(Off)'
  BY <1>3, OffShape, PlainOK DEF Shape, Scan
<1>5. ASSUME NEW j \in Instance, NEW t \in Slot
      PROVE  loop'[j][t] = IF j = i THEN Off ELSE loop[j][t]
  BY <1>1, <1>2 DEF LoopTypes
<1>6. LoopTypes'
  <2>1. loop' \in [Instance -> [Slot -> LoopRecord]]
    BY <1>1, <1>2, <1>4 DEF LoopTypes
  <2>2. QED
    BY <1>1, <1>2, <1>4, <1>5, <2>1 DEF LoopTypes
<1>7. LoopsOK'
  <2>1. ASSUME NEW j \in Instance, NEW t \in Slot
        PROVE  \E x : x = loop'[j][t] /\ LoopOK(x)'
    <3>1. CASE j = i
      BY <1>4, <1>5, <3>1
    <3>2. CASE j # i
      <4>1. PICK x : x = loop[j][t]
        OBVIOUS
      <4>2. LoopOK(x) /\ x \in LoopRecord
        BY <4>1, TheLoop
      <4>3. LoopOK(x)'
        BY <1>3, <4>2, FlagsOK
      <4>4. QED
        BY <1>5, <3>2, <4>1, <4>3
    <3>3. QED
      BY <3>1, <3>2
  <2>2. QED
    BY <2>1, LoopsMove
<1>8. CacheTypes'
  BY <1>1 DEF DeliverInv, CacheTypes
<1>9. HistoryTypes'
  BY <1>1 DEF DeliverInv, HistoryTypes, history, redis
<1>10. QED
  BY <1>3, <1>6, <1>7, <1>8, <1>9 DEF DeliverInv

LEMMA TickKeeps ==
  ASSUME DeliverInv, Tick
  PROVE  DeliverInv'
<1> DEFINE aged(l) == [l EXCEPT !.due = l.pc # "off",
                                !.spent = IF l.pc \in DispatchStep THEN 1 ELSE 0]
<1>1. /\ pel' = [m \in Message |-> IF pel[m] = None THEN None
                                  ELSE [pel[m] EXCEPT !.idle = Older(@, MinIdle)]]
      /\ loop' = [i \in Instance |-> [s \in Slot |-> aged(loop[i][s])]]
      /\ cache' = [i \in Instance |-> IF cache[i] = None THEN None
                                      ELSE [cache[i] EXCEPT !.age = Older(@, CacheTtl + 1)]]
      /\ changed' = Older(changed, CacheTtl + 1)
      /\ UNCHANGED <<stream, appended, lastRead, letters, old, bad, consumers, refresh, sweep,
                     status, signal, logs, changes, history, disturbed>>
  BY DEF Tick
<1>2. LoopTypes
  BY DEF DeliverInv
<1>3. \A n \in Nat, limit \in Nat : n <= limit => Older(n, limit) \in Nat /\ Older(n, limit) <= limit
  BY DEF Older
<1>4. RedisTypes' /\ StreamOK'
  <2>1. ASSUME NEW m \in Message, pel[m] # None
        PROVE  [pel[m] EXCEPT !.idle = Older(@, MinIdle)] \in PelEntry
    <3>1. pel[m] \in PelEntry
      BY <2>1 DEF DeliverInv, RedisTypes
    <3>2. Older(pel[m].idle, MinIdle) \in 0 .. MinIdle
      BY <1>3, <3>1, Constants DEF PelEntry
    <3>3. QED
      BY <3>1, <3>2 DEF PelEntry
  <2>2. pel' \in [Message -> PelEntry \cup {None}]
    BY <1>1, <2>1
  <2>3. \A m \in Message : pel'[m] # None => m <= lastRead
    BY <1>1 DEF DeliverInv, RedisTypes
  <2>4. QED
    BY <1>1, <2>2, <2>3, PelMoves
<1>5. ASSUME NEW l \in LoopRecord
      PROVE  /\ aged(l) \in LoopRecord /\ (aged(l).running <=> l.running)
             /\ aged(l).pc = l.pc /\ aged(l).msg = l.msg /\ (aged(l).redo <=> l.redo)
             /\ aged(l).batch = l.batch /\ aged(l).cursor = l.cursor
             /\ aged(l).handled = l.handled /\ aged(l).data = l.data
  BY DEF LoopRecord
<1>6. \A i \in Instance, s \in Slot : loop[i][s] \in LoopRecord /\ loop'[i][s] = aged(loop[i][s])
  BY <1>1, <1>2 DEF LoopTypes
<1> HIDE DEF aged
<1>7. LoopTypes'
  <2>1. loop' \in [Instance -> [Slot -> LoopRecord]]
    BY <1>1, <1>5, <1>6
  <2>2. \A i \in Instance, s \in Slot : loop'[i][s].running => consumers[i] = s
    BY <1>2, <1>5, <1>6 DEF LoopTypes
  <2>3. QED
    BY <1>1, <1>2, <2>1, <2>2 DEF LoopTypes
<1>8. LoopsOK'
  <2>1. ASSUME NEW i \in Instance, NEW s \in Slot
        PROVE  \E x : x = loop'[i][s] /\ LoopOK(x)'
    <3>1. PICK l : l = loop[i][s]
      OBVIOUS
    <3>2. PICK x : x = aged(l)
      OBVIOUS
    <3>3. /\ LoopOK(l) /\ l \in LoopRecord
      BY <3>1, TheLoop
    <3>4. LoopOK(x)'
      BY <1>1, <1>5, <3>2, <3>3, FlagsOK DEF history
    <3>5. QED
      BY <1>6, <3>1, <3>2, <3>4
  <2>2. QED
    BY <2>1, LoopsMove
<1>9. CacheTypes'
  <2>1. ASSUME NEW i \in Instance, cache[i] # None
        PROVE  [cache[i] EXCEPT !.age = Older(@, CacheTtl + 1)] \in CacheEntry
    <3>1. cache[i] \in CacheEntry
      BY <2>1 DEF DeliverInv, CacheTypes
    <3>2. Older(cache[i].age, CacheTtl + 1) \in 0 .. CacheTtl + 1
      BY <1>3, <3>1, Constants DEF CacheEntry
    <3>3. QED
      BY <3>1, <3>2 DEF CacheEntry
  <2>2. QED
    BY <1>1, <2>1 DEF DeliverInv, CacheTypes
<1>10. HistoryTypes'
  <2>1. changed' \in 0 .. CacheTtl + 1
    BY <1>1, <1>3, Constants DEF DeliverInv, HistoryTypes
  <2>2. QED
    BY <1>1, <2>1 DEF DeliverInv, HistoryTypes, history
<1>11. QED
  BY <1>4, <1>7, <1>8, <1>9, <1>10 DEF DeliverInv

\* The loops are left alone.
LEMMA LoopsStay ==
  ASSUME DeliverInv, UNCHANGED <<consumers, loop, lastRead, letters, accepted, refused, logs>>
  PROVE  LoopTypes' /\ LoopsOK'
<1>1. LoopTypes'
  BY DEF DeliverInv, LoopTypes
<1>2. ASSUME NEW i \in Instance, NEW s \in Slot
      PROVE  \E x : x = loop'[i][s] /\ LoopOK(x)'
  <2>1. PICK x : x = loop[i][s]
    OBVIOUS
  <2>2. LoopOK(x) /\ x \in LoopRecord
    BY <2>1, TheLoop
  <2>3. LoopOK(x)'
    BY <2>2, FlagsOK
  <2>4. QED
    BY <2>1, <2>3
<1>3. QED
  BY <1>1, <1>2, LoopsMove

LEMMA CacheStepKeeps ==
  ASSUME DeliverInv, NEW i,
         \/ RefreshRead(i) \/ Refreshed(i) \/ InvalidateCache(i) \/ RefreshFails(i)
         \/ Inspect(i) \/ (\E st \in Status : Signal(st) \/ ChangeSilently(st))
  PROVE  DeliverInv'
<1>1. UNCHANGED <<redis, consumers, loop, accepted, refused, tries, logs>>
  BY Zenon DEF RefreshRead, Refreshed, InvalidateCache, RefreshFails, Inspect, Signal, ChangeSilently,
               SetStatus, instance, database, history
<1>2. RedisTypes' /\ StreamOK' /\ LoopTypes' /\ LoopsOK'
  BY <1>1, RedisKept, LoopsStay DEF redis
<1>3. disturbed' \in 0 .. MaxDisturbances
  BY DisturbType DEF RefreshRead, Refreshed, InvalidateCache, RefreshFails, Inspect, Signal,
                     ChangeSilently, DeliverInv, HistoryTypes
<1>4. changes' \in 0 .. MaxChanges /\ changed' \in 0 .. CacheTtl + 1
  BY Constants DEF RefreshRead, Refreshed, InvalidateCache, RefreshFails, Inspect, Signal,
                   ChangeSilently, SetStatus, database, DeliverInv, HistoryTypes
<1>5. HistoryTypes'
  BY <1>1, <1>3, <1>4 DEF DeliverInv, HistoryTypes, redis
<1>6. CacheTypes'
  <2> USE DEF CacheTypes
  <2>1. CacheTypes
    BY DEF DeliverInv
  <2>2. CASE RefreshRead(i)
    BY <2>1, <2>2 DEF RefreshRead, database
  <2>3. CASE Refreshed(i)
    <3>1. /\ cache' = [cache EXCEPT ![i] = IF refresh[i] = "gone" THEN None ELSE Entry(refresh[i])]
          /\ refresh' = [refresh EXCEPT ![i] = "no"] /\ refresh[i] \in Status
          /\ UNCHANGED <<sweep, status, signal>>
      BY <2>3 DEF Refreshed, database
    <3>2. refresh[i] # "gone" => Entry(refresh[i]) \in CacheEntry
      BY <3>1, Constants DEF Entry, CacheEntry
    <3>3. refresh[i] \in Status \cup {"no", "asked"} /\ "no" \in Status \cup {"no", "asked"}
      BY <3>1
    <3>4. cache' \in [Instance -> CacheEntry \cup {None}]
      BY <2>1, <3>1, <3>2
    <3>5. refresh' \in [Instance -> Status \cup {"no", "asked"}]
      BY <2>1, <3>1, <3>3
    <3>6. QED
      BY <2>1, <3>1, <3>4, <3>5
  <2>4. CASE InvalidateCache(i)
    <3>1. /\ cache' = IF cache[i] = None THEN cache ELSE [cache EXCEPT ![i].stale = TRUE]
          /\ signal' = [signal EXCEPT ![i] = FALSE]
          /\ UNCHANGED <<refresh, sweep, status>>
      BY <2>4 DEF InvalidateCache
    <3>2. cache' \in [Instance -> CacheEntry \cup {None}]
      <4>1. ASSUME i \in Instance, cache[i] # None PROVE [cache[i] EXCEPT !.stale = TRUE] \in CacheEntry
        BY <2>1, <4>1 DEF CacheEntry
      <4>2. QED
        BY <2>1, <3>1, <4>1
    <3>3. signal' \in [Instance -> BOOLEAN]
      BY <2>1, <3>1
    <3>4. QED
      BY <2>1, <3>1, <3>2, <3>3
  <2>5. CASE RefreshFails(i)
    BY <2>1, <2>5 DEF RefreshFails, database
  <2>6. CASE Inspect(i)
    <3>1. \E idle \in SUBSET Instance : sweep' = [sweep EXCEPT ![i] = idle]
      BY <2>6 DEF Inspect
    <3>2. UNCHANGED <<cache, refresh, status, signal>>
      BY <2>6 DEF Inspect, database
    <3>3. QED
      BY <2>1, <3>1, <3>2
  <2>7. CASE \E st \in Status : Signal(st) \/ ChangeSilently(st)
    BY <2>1, <2>7 DEF Signal, ChangeSilently, SetStatus, instance
  <2>8. QED
    BY <2>2, <2>3, <2>4, <2>5, <2>6, <2>7
<1>7. QED
  BY <1>2, <1>5, <1>6 DEF DeliverInv

-----------------------------------------------------------------------------
(* The stream grows and is trimmed                                          *)

LEMMA MessagesFinite ==
  ASSUME RedisTypes
  PROVE  /\ Message \subseteq Nat /\ IsFiniteSet(Message)
         /\ IsFiniteSet(appended) /\ Cardinality(appended) \in Nat
         /\ IsFiniteSet(stream) /\ Cardinality(stream) \in Nat
<1>1. Message \subseteq Nat /\ IsFiniteSet(Message)
  BY Constants, FS_Interval DEF Message
<1>2. appended \subseteq Message /\ stream \subseteq Message
  BY DEF RedisTypes
<1>3. QED
  BY <1>1, <1>2, FS_Subset, FS_CardinalityType

\* Expired entries stay expired.
LEMMA ExpiredGrows ==
  ASSUME RedisTypes, appended \subseteq appended', IsFiniteSet(appended'), old \subseteq old'
  PROVE  Expired \subseteq Expired'
<1>1. ASSUME NEW m \in appended, Cardinality({k \in appended : k > m}) >= MaxLen
      PROVE  Cardinality({k \in appended' : k > m}) >= MaxLen
  <2>1. {k \in appended : k > m} \subseteq {k \in appended' : k > m}
    OBVIOUS
  <2>2. IsFiniteSet({k \in appended' : k > m})
    BY FS_Subset
  <2>3. Cardinality({k \in appended : k > m}) <= Cardinality({k \in appended' : k > m})
    BY <2>1, <2>2, FS_Subset
  <2>4. Cardinality({k \in appended : k > m}) \in Nat /\ Cardinality({k \in appended' : k > m}) \in Nat
    BY <2>1, <2>2, FS_Subset, FS_CardinalityType
  <2>5. QED
    BY <1>1, <2>3, <2>4, Constants
<1>2. QED
  BY <1>1 DEF Expired

\* The next message is the one behind all others.
LEMMA AddAppends ==
  ASSUME DeliverInv, Add(NextId)
  PROVE  /\ NextId \in Message /\ NextId \notin appended
         /\ stream' = stream \cup {NextId} /\ appended' = appended \cup {NextId}
         /\ \A m \in appended : m < NextId
         /\ IsFiniteSet(appended') /\ Cardinality(appended') = Cardinality(appended) + 1
         /\ appended' = 1 .. Cardinality(appended')
<1>1. PICK n : n = NextId
  OBVIOUS
<1>2. /\ IsFiniteSet(appended) /\ Cardinality(appended) \in Nat /\ n = Cardinality(appended) + 1
      /\ appended = 1 .. Cardinality(appended)
  BY <1>1, MessagesFinite DEF DeliverInv, StreamOK, NextId
<1>3. n \in Message /\ stream' = stream \cup {n} /\ appended' = appended \cup {n}
  BY <1>1 DEF Add
<1>4. n \notin appended /\ \A m \in appended : m < n
  BY <1>2
<1>5. IsFiniteSet(appended') /\ Cardinality(appended') = Cardinality(appended) + 1
  BY <1>2, <1>3, <1>4, FS_AddElement
<1>6. appended' = 1 .. Cardinality(appended')
  BY <1>2, <1>3, <1>5
<1>7. QED
  BY <1>1, <1>3, <1>4, <1>5, <1>6

LEMMA AppendKeeps ==
  ASSUME DeliverInv, Publish \/ PublishMalformed \/ \E m \in Message : RetryLog(m)
  PROVE  DeliverInv'
<1>1. /\ Add(NextId)
      /\ UNCHANGED <<lastRead, pel, letters, old, instance, database, history>>
      /\ bad \subseteq bad' /\ bad' \subseteq bad \cup {NextId}
      /\ disturbed' \in 0 .. MaxDisturbances
  BY DisturbType DEF Publish, PublishMalformed, RetryLog, DeliverInv, HistoryTypes
<1>2. PICK n : n = NextId
  OBVIOUS
<1>3. /\ n \in Message
      /\ stream' = stream \cup {n} /\ appended' = appended \cup {n}
      /\ IsFiniteSet(appended') /\ Cardinality(appended') = Cardinality(appended) + 1
      /\ appended' = 1 .. Cardinality(appended')
  BY <1>1, <1>2, AddAppends
<1>4. RedisTypes'
  BY <1>1, <1>2, <1>3 DEF DeliverInv, RedisTypes
<1>5. StreamOK'
  <2>1. Cardinality(appended) \in Nat /\ lastRead \in Nat
    BY MessagesFinite DEF DeliverInv, RedisTypes
  <2>2. lastRead' <= Cardinality(appended')
    BY <1>1, <1>3, <2>1 DEF DeliverInv, StreamOK
  <2>3. Expired \subseteq Expired'
    BY <1>1, <1>3, ExpiredGrows DEF DeliverInv
  <2>4. appended' \ stream' \subseteq Expired'
    BY <1>3, <2>3 DEF DeliverInv, StreamOK
  <2>5. \A m \in old' : 1 .. m \subseteq old'
    BY <1>1 DEF DeliverInv, StreamOK
  <2>6. QED
    BY <1>3, <2>2, <2>4, <2>5 DEF StreamOK
<1>6. LoopTypes' /\ LoopsOK'
  BY <1>1, LoopsStay DEF instance, database, history
<1>7. CacheTypes'
  BY <1>1 DEF DeliverInv, CacheTypes, instance, database
<1>8. HistoryTypes'
  BY <1>1, <1>3 DEF DeliverInv, HistoryTypes, database, history
<1>9. QED
  BY <1>4, <1>5, <1>6, <1>7, <1>8 DEF DeliverInv

LEMMA TrimKeeps ==
  ASSUME DeliverInv, NEW i \in Instance, Trim(i) \/ EmergencyTrim(i)
  PROVE  DeliverInv'
<1>1. UNCHANGED <<appended, lastRead, pel, letters, old, bad, instance, database, history, disturbed>>
  BY DEF Trim, EmergencyTrim
<1>2. RedisTypes /\ StreamOK /\ stream \subseteq Nat /\ IsFiniteSet(appended) /\ IsFiniteSet(stream)
  BY MessagesFinite DEF DeliverInv, RedisTypes
<1>3. stream' \subseteq stream /\ stream \ stream' \subseteq Expired
  <2>1. CASE Trim(i)
    <3>1. PICK n \in old \cap stream : stream' = {m \in stream : m > n}
      BY <2>1 DEF Trim
    <3>2. 1 .. n \subseteq old /\ n \in Nat /\ \A m \in stream : m \in Nat /\ m > 0
      BY <1>2 DEF StreamOK, RedisTypes, Message
    <3>3. \A m \in stream : ~(m > n) => m \in old
      BY <3>2
    <3>4. QED
      BY <3>1, <3>3 DEF Expired
  <2>2. CASE EmergencyTrim(i)
    <3>1. stream' = {m \in stream : Cardinality({k \in stream : k > m}) < MaxLen}
      BY <2>2 DEF EmergencyTrim
    <3>2. ASSUME NEW m \in stream, ~(Cardinality({k \in stream : k > m}) < MaxLen)
          PROVE  m \in Expired
      <4>1. {k \in stream : k > m} \subseteq {k \in appended : k > m}
        BY <1>2 DEF RedisTypes
      <4>2. IsFiniteSet({k \in appended : k > m})
        BY <1>2, FS_Subset
      <4>3. /\ Cardinality({k \in stream : k > m}) <= Cardinality({k \in appended : k > m})
            /\ Cardinality({k \in stream : k > m}) \in Nat
            /\ Cardinality({k \in appended : k > m}) \in Nat
        BY <4>1, <4>2, FS_Subset, FS_CardinalityType
      <4>4. Cardinality({k \in appended : k > m}) >= MaxLen /\ m \in appended
        BY <1>2, <3>2, <4>3, Constants DEF RedisTypes
      <4>5. QED
        BY <4>4 DEF Expired
    <3>3. QED
      BY <3>1, <3>2
  <2>3. QED
    BY <2>1, <2>2
<1>4. RedisTypes'
  BY <1>1, <1>2, <1>3 DEF RedisTypes
<1>5. StreamOK'
  BY <1>1, <1>2, <1>3 DEF StreamOK, Expired
<1>6. LoopTypes' /\ LoopsOK'
  BY <1>1, LoopsStay DEF instance, database, history
<1>7. QED
  BY <1>1, <1>4, <1>5, <1>6, RestKept DEF DeliverInv, instance

LEMMA GrowOldKeeps ==
  ASSUME DeliverInv, NEW n \in Message, GrowOld(n)
  PROVE  DeliverInv'
<1>1. /\ n \in appended /\ old' = old \cup (1 .. n)
      /\ UNCHANGED <<stream, appended, lastRead, pel, letters, bad, instance, database, history>>
      /\ disturbed' \in 0 .. MaxDisturbances
  BY DisturbType DEF GrowOld
<1>2. 1 .. n \subseteq appended
  <2>1. appended = 1 .. Cardinality(appended) /\ Cardinality(appended) \in Nat
    BY MessagesFinite DEF DeliverInv, StreamOK
  <2>2. QED
    BY <1>1, <2>1
<1>3. RedisTypes'
  BY <1>1, <1>2 DEF DeliverInv, RedisTypes
<1>4. StreamOK'
  <2>1. Expired \subseteq Expired'
    BY <1>1, MessagesFinite, ExpiredGrows DEF DeliverInv
  <2>2. \A m \in old' : 1 .. m \subseteq old'
    <3>1. \A m \in 1 .. n : 1 .. m \subseteq 1 .. n
      BY DEF Message
    <3>2. QED
      BY <1>1, <3>1 DEF DeliverInv, StreamOK
  <2>3. QED
    BY <1>1, <2>1, <2>2 DEF DeliverInv, StreamOK
<1>5. LoopTypes' /\ LoopsOK'
  BY <1>1, LoopsStay DEF instance, database, history
<1>6. CacheTypes' /\ HistoryTypes'
  BY <1>1 DEF DeliverInv, CacheTypes, HistoryTypes, instance, database, history
<1>7. QED
  BY <1>3, <1>4, <1>5, <1>6 DEF DeliverInv

LEMMA DeleteConsumerKeeps ==
  ASSUME DeliverInv, NEW i \in Instance, DeleteConsumer(i)
  PROVE  DeliverInv'
<1>1. PICK j \in sweep[i] :
        /\ pel' = [m \in Message |-> IF pel[m] # None /\ pel[m].by = j THEN None ELSE pel[m]]
        /\ sweep' = [sweep EXCEPT ![i] = @ \ {j}]
  BY DEF DeleteConsumer
<1>2. UNCHANGED <<stream, appended, lastRead, letters, old, bad, consumers, loop, cache, refresh,
                  database, history, disturbed>>
  BY DEF DeleteConsumer
<1>3. RedisTypes' /\ StreamOK'
  <2>1. pel' \in [Message -> PelEntry \cup {None}]
    BY <1>1 DEF DeliverInv, RedisTypes
  <2>2. \A m \in Message : pel'[m] # None => m <= lastRead
    BY <1>1 DEF DeliverInv, RedisTypes
  <2>3. QED
    BY <1>2, <2>1, <2>2, PelMoves
<1>4. LoopTypes' /\ LoopsOK'
  BY <1>2, LoopsStay DEF database, history
<1>5. CacheTypes'
  BY <1>1, <1>2 DEF DeliverInv, CacheTypes, database
<1>6. HistoryTypes'
  BY <1>2 DEF DeliverInv, HistoryTypes, database, history
<1>7. QED
  BY <1>3, <1>4, <1>5, <1>6 DEF DeliverInv

-----------------------------------------------------------------------------
(* Types                                                                    *)

LEMMA StutterKeeps ==
  ASSUME DeliverInv, UNCHANGED vars
  PROVE  DeliverInv'
<1>1. /\ UNCHANGED redis /\ UNCHANGED <<consumers, loop, cache, refresh, sweep>>
      /\ UNCHANGED database /\ UNCHANGED history /\ UNCHANGED disturbed
  BY DEF vars, instance
<1>2. UNCHANGED <<lastRead, letters, accepted, refused, logs, appended>>
  BY <1>1 DEF redis, database, history
<1>3. QED
  BY <1>1, <1>2, RedisKept, LoopsStay, RestKept DEF DeliverInv

LEMMA StepKeeps == DeliverInv /\ [Next]_vars => DeliverInv'
<1> SUFFICES ASSUME DeliverInv, [Next]_vars PROVE DeliverInv'
  OBVIOUS
<1>1. ASSUME NEW i \in Instance, NEW s \in Slot, LoopStep(i, s) PROVE DeliverInv'
  BY <1>1, EnsureConsumerGroupKeeps, AutoclaimKeeps, DeliveryCountKeeps, BuryKeeps, AckKeeps, ReadKeeps,
     FetchKeeps, FetchedKeeps, CreateLogKeeps, CallKeeps, MarkKeeps DEF LoopStep
<1>2. ASSUME NEW i \in Instance, InstanceStep(i) PROVE DeliverInv'
  BY <1>2, CacheStepKeeps, DeleteConsumerKeeps DEF InstanceStep
<1>3. CASE Started
  BY <1>3, StartConsumerKeeps DEF Started
<1>4. CASE Fault
  BY <1>4, CommandFailsKeeps, DeliveryCountKeeps, DispatchFailsKeeps, StopConsumerKeeps, CrashKeeps,
     CacheStepKeeps, GrowOldKeeps DEF Fault
<1>5. CASE Maintenance
  BY <1>5, TrimKeeps, CacheStepKeeps DEF Maintenance
<1>6. CASE Platform
  <2>1. CASE \E st \in Status : Signal(st) \/ ChangeSilently(st)
    BY <2>1, CacheStepKeeps
  <2>2. QED
    BY <1>6, <2>1, AppendKeeps DEF Platform
<1>7. CASE Tick
  BY <1>7, TickKeeps
<1>8. CASE UNCHANGED vars
  BY <1>8, StutterKeeps
<1>9. QED
  BY <1>1, <1>2, <1>3, <1>4, <1>5, <1>6, <1>7, <1>8 DEF Next

LEMMA Invariant == Spec => []DeliverInv
BY InitKeeps, StepKeeps, PTL DEF Spec

\* The types of the dispatcher's state hold whatever its constants are: also that a
\* recovery never handles more than it may, only the loop in the map runs, and nothing
\* is pending that was not read (QueueConsumerService).
THEOREM TypeCorrect == Spec => []TypeOK
BY Invariant, DeliverTypes, PTL

-----------------------------------------------------------------------------
(* Idle consumers                                                           *)

\* Instance i moves, which nobody has found idle; entries go to it or stay where they are.
LEMMA SweepMoves ==
  ASSUME SweepOK, NEW i, \A j \in Instance : i \notin sweep[j],
         \A j \in Instance : sweep'[j] \subseteq sweep[j] /\ sweep[j] \subseteq Instance,
         \A j \in Instance, s \in Slot : j # i /\ loop[j][s].pc = "off" => loop'[j][s].pc = "off",
         \A m \in Message : pel'[m] # None =>
            pel'[m].by = i \/ (pel[m] # None /\ pel'[m].by = pel[m].by)
  PROVE  SweepOK'
<1>1. ASSUME NEW j \in Instance, NEW k \in sweep'[j]
      PROVE  /\ \A s \in Slot : loop'[k][s].pc = "off"
             /\ \A m \in Message : pel'[m] # None => pel'[m].by # k
  <2>1. k \in sweep[j] /\ k \in Instance /\ k # i
    BY <1>1
  <2>2. QED
    BY <2>1 DEF SweepOK
<1>2. QED
  BY <1>1 DEF SweepOK

\* Nobody begins anything.
LEMMA SweepRests ==
  ASSUME SweepOK, \A j \in Instance : sweep'[j] \subseteq sweep[j] /\ sweep[j] \subseteq Instance,
         \A j \in Instance, s \in Slot : loop[j][s].pc = "off" => loop'[j][s].pc = "off",
         \A m \in Message : pel'[m] # None => pel[m] # None /\ pel'[m].by = pel[m].by
  PROVE  SweepOK'
<1>1. ASSUME NEW j \in Instance, NEW k \in sweep'[j]
      PROVE  /\ \A s \in Slot : loop'[k][s].pc = "off"
             /\ \A m \in Message : pel'[m] # None => pel'[m].by # k
  <2>1. k \in sweep[j] /\ k \in Instance
    BY <1>1
  <2>2. QED
    BY <2>1 DEF SweepOK
<1>2. QED
  BY <1>1 DEF SweepOK

LEMMA EntryAges ==
  ASSUME NEW entry \in PelEntry
  PROVE  /\ [entry EXCEPT !.idle = Older(@, MinIdle)] \in PelEntry
         /\ [entry EXCEPT !.idle = Older(@, MinIdle)].by = entry.by
         /\ [entry EXCEPT !.idle = Older(@, MinIdle)].count = entry.count
<1>1. Older(entry.idle, MinIdle) \in 0 .. MinIdle
  BY Constants DEF PelEntry, Older
<1>2. QED
  BY <1>1 DEF PelEntry

\* What the loops do to the pending list.
LEMMA LoopsPend ==
  ASSUME DeliverInv, NEW i \in Instance, NEW s \in Slot,
         \/ LoopStep(i, s) \/ CommandFails(i, s) \/ DeliveryCountUnknown(i, s)
         \/ DispatchFails(i, s) \/ Disconnect(i, s)
  PROVE  /\ loop[i][s].pc # "off" /\ sweep' = sweep
         /\ \E k : Put(i, s, k)
         /\ \/ pel' = pel
            \/ pel' = Autoclaimed(i, loop[i][s].cursor)
            \/ /\ pel' = [pel EXCEPT ![loop[i][s].msg] = None]
               /\ loop[i][s].pc \in {"ack", "buried"}
            \/ Unread # {} /\ Deliverable(i, First(Unread))
         /\ \A m \in Message : pel'[m] # None =>
              pel'[m].by = i \/ (pel[m] # None /\ pel'[m].by = pel[m].by)
<1>1. loop[i][s].pc # "off" /\ sweep' = sweep
  BY DEF LoopStep, EnsureConsumerGroup, Autoclaim, DeliveryCount, Bury, Ack, Read, Fetch, Fetched,
         CreateLog, Call, Mark, CommandFails, DeliveryCountUnknown, DispatchFails, Disconnect,
         RedisStep, DispatchStep
<1>2. \E k : Put(i, s, k)
  <2>1. \A l : Process(i, s, l) => \E k : Put(i, s, k)
    BY DEF Process
  <2>2. CASE LoopStep(i, s)
    BY <2>1, <2>2, Zenon DEF LoopStep, EnsureConsumerGroup, Autoclaim, DeliveryCount, Bury, Ack, Read, Fetch,
           Fetched, CreateLog, Call, Mark
  <2>3. CASE \/ CommandFails(i, s) \/ DeliveryCountUnknown(i, s)
             \/ DispatchFails(i, s) \/ Disconnect(i, s)
    BY <2>1, <2>3, Zenon DEF CommandFails, DeliveryCountUnknown, DispatchFails, Disconnect
  <2>4. QED
    BY <2>2, <2>3
<1>3. \/ pel' = pel
      \/ pel' = Autoclaimed(i, loop[i][s].cursor)
      \/ /\ pel' = [pel EXCEPT ![loop[i][s].msg] = None]
         /\ loop[i][s].pc \in {"ack", "buried"}
      \/ Unread # {} /\ Deliverable(i, First(Unread))
  <2>1. CASE LoopStep(i, s)
    BY <2>1, Zenon DEF LoopStep, EnsureConsumerGroup, Autoclaim, DeliveryCount, Bury, Ack, Read, Fetch, Fetched,
           CreateLog, Call, Mark, redis
  <2>2. CASE \/ CommandFails(i, s) \/ DeliveryCountUnknown(i, s)
             \/ DispatchFails(i, s) \/ Disconnect(i, s)
    BY <2>2, Zenon DEF CommandFails, DeliveryCountUnknown, DispatchFails, Disconnect, redis
  <2>3. QED
    BY <2>1, <2>2
<1>4. ASSUME NEW m \in Message, pel'[m] # None
      PROVE  pel'[m].by = i \/ (pel[m] # None /\ pel'[m].by = pel[m].by)
  <2>1. pel \in [Message -> PelEntry \cup {None}]
    BY DEF DeliverInv, RedisTypes
  <2>2. CASE pel' = Autoclaimed(i, loop[i][s].cursor)
    <3>1. CASE m \in Taken(loop[i][s].cursor)
      BY <2>2, <3>1 DEF Autoclaimed, Pending
    <3>2. CASE m \notin Taken(loop[i][s].cursor)
      BY <1>4, <2>2, <3>2 DEF Autoclaimed
    <3>3. QED
      BY <3>1, <3>2
  <2>3. CASE pel' = [pel EXCEPT ![loop[i][s].msg] = None]
    BY <1>4, <2>1, <2>3
  <2>4. CASE Unread # {} /\ Deliverable(i, First(Unread))
    <3>1. /\ pel' = [pel EXCEPT ![First(Unread)] = [by |-> i, idle |-> 0, count |-> 1]]
          /\ First(Unread) \in Message
      BY <2>4, DeliverableMoves
    <3>2. QED
      BY <1>4, <2>1, <3>1
  <2>5. QED
    BY <1>3, <1>4, <2>2, <2>3, <2>4
<1>5. QED
  BY <1>1, <1>2, <1>3, <1>4

LEMMA SweepKept == ASSUME Unraced PROVE DeliverInv /\ SweepOK /\ [Next]_vars => SweepOK'
<1> SUFFICES ASSUME DeliverInv, SweepOK, [Next]_vars PROVE SweepOK'
  OBVIOUS
<1>1. /\ \A j \in Instance : sweep[j] \subseteq Instance
      /\ sweep \in [Instance -> SUBSET Instance]
      /\ LoopTypes
  BY DEF DeliverInv, CacheTypes
<1>2. ASSUME NEW i \in Instance, NEW s \in Slot,
             \/ LoopStep(i, s) \/ CommandFails(i, s) \/ DeliveryCountUnknown(i, s)
             \/ DispatchFails(i, s) \/ Disconnect(i, s)
      PROVE  SweepOK'
  <2>1. PICK k : Put(i, s, k)
    BY <1>2, LoopsPend
  <2>2. /\ loop[i][s].pc # "off" /\ sweep' = sweep
        /\ \A m \in Message : pel'[m] # None =>
              pel'[m].by = i \/ (pel[m] # None /\ pel'[m].by = pel[m].by)
    BY <1>2, LoopsPend
  <2>3. \A j \in Instance, t \in Slot : j # i => loop'[j][t] = loop[j][t]
    BY <1>1, <2>1, PutLoop
  <2>4. \A j \in Instance : i \notin sweep[j]
    BY <2>2 DEF SweepOK
  <2>5. QED
    BY <1>1, <2>2, <2>3, <2>4, SweepMoves
<1>3. CASE Started
  <2>1. PICK i \in Instance, s \in Slot : StartConsumer(i, s)
    BY <1>3 DEF Started
  <2>2. PICK k : Put(i, s, k)
    BY <2>1 DEF StartConsumer
  <2>3. \A j \in Instance : i \notin sweep[j]
    BY <2>1 DEF StartConsumer, Unraced
  <2>4. sweep' = sweep /\ pel' = pel
    BY <2>1 DEF StartConsumer, redis
  <2>5. \A j \in Instance, t \in Slot : j # i => loop'[j][t] = loop[j][t]
    BY <1>1, <2>2, PutLoop
  <2>6. QED
    BY <1>1, <2>3, <2>4, <2>5, SweepMoves
<1>4. ASSUME sweep' = sweep, loop' = loop,
             \A m \in Message : pel'[m] # None => pel[m] # None /\ pel'[m].by = pel[m].by
      PROVE  SweepOK'
  BY <1>1, <1>4, SweepRests
<1>5. ASSUME NEW i \in Instance, InstanceStep(i) PROVE SweepOK'
  <2>1. CASE DeleteConsumer(i)
    <3>1. PICK j \in sweep[i] :
            /\ pel' = [m \in Message |-> IF pel[m] # None /\ pel[m].by = j THEN None ELSE pel[m]]
            /\ sweep' = [sweep EXCEPT ![i] = @ \ {j}]
            /\ loop' = loop
      BY <2>1 DEF DeleteConsumer
    <3>2. \A m \in Message : pel'[m] # None => pel[m] # None /\ pel'[m].by = pel[m].by
      BY <3>1
    <3>3. \A k \in Instance : sweep'[k] \subseteq sweep[k]
      BY <1>1, <3>1
    <3>4. QED
      BY <1>1, <3>1, <3>2, <3>3, SweepRests
  <2>2. CASE RefreshRead(i) \/ Refreshed(i) \/ InvalidateCache(i)
    BY <1>4, <2>2 DEF RefreshRead, Refreshed, InvalidateCache, redis
  <2>3. QED
    BY <1>5, <2>1, <2>2 DEF InstanceStep
<1>6. ASSUME NEW i \in Instance, StopConsumer(i) \/ Crash(i) \/ RefreshFails(i) PROVE SweepOK'
  <2>1. CASE StopConsumer(i)
    <3>1. /\ loop' = [loop EXCEPT ![i][consumers[i]].running = FALSE]
          /\ consumers[i] \in Slot
          /\ sweep' = sweep /\ pel' = pel
      BY <1>1, <2>1 DEF StopConsumer, redis, LoopTypes
    <3>2. PICK k : k = [loop[i][consumers[i]] EXCEPT !.running = FALSE]
      OBVIOUS
    <3>3. k.pc = loop[i][consumers[i]].pc
      BY <1>1, <3>1, <3>2 DEF LoopTypes, LoopRecord
    <3>4. /\ loop'[i][consumers[i]] = k
          /\ \A j \in Instance, s \in Slot :
               <<j, s>> # <<i, consumers[i]>> => loop'[j][s] = loop[j][s]
      BY <1>1, <3>1, <3>2 DEF LoopTypes
    <3>5. \A j \in Instance, s \in Slot : loop'[j][s].pc = loop[j][s].pc
      BY <3>3, <3>4
    <3>6. QED
      BY <1>1, <3>1, <3>5, SweepRests
  <2>2. CASE Crash(i)
    <3>1. /\ loop' = [loop EXCEPT ![i] = [s \in Slot |-> Off]]
          /\ sweep' = [sweep EXCEPT ![i] = {}] /\ pel' = pel
      BY <2>2 DEF Crash, redis
    <3>2. \A j \in Instance, s \in Slot : loop[j][s].pc = "off" => loop'[j][s].pc = "off"
      BY <1>1, <3>1, OffShape DEF LoopTypes
    <3>3. \A j \in Instance : sweep'[j] \subseteq sweep[j]
      BY <1>1, <3>1
    <3>4. QED
      BY <1>1, <3>1, <3>2, <3>3, SweepRests
  <2>3. CASE RefreshFails(i)
    BY <1>4, <2>3 DEF RefreshFails, redis
  <2>4. QED
    BY <1>6, <2>1, <2>2, <2>3
<1>7. ASSUME NEW i \in Instance, Trim(i) \/ EmergencyTrim(i) \/ Inspect(i) PROVE SweepOK'
  <2>1. CASE Inspect(i)
    <3>1. PICK idle : /\ sweep' = [sweep EXCEPT ![i] = idle]
                      /\ \A j \in idle : /\ \A s \in Slot : loop[j][s].pc = "off"
                                         /\ \A m \in Message : pel[m] # None => pel[m].by # j
      BY <2>1 DEF Inspect
    <3>2. loop' = loop /\ pel' = pel
      BY <2>1 DEF Inspect, redis
    <3>3. \A j \in Instance : sweep'[j] = IF j = i THEN idle ELSE sweep[j]
      BY <1>1, <3>1
    <3>4. QED
      BY <3>1, <3>2, <3>3 DEF SweepOK
  <2>2. CASE Trim(i) \/ EmergencyTrim(i)
    BY <1>4, <2>2 DEF Trim, EmergencyTrim, instance
  <2>3. QED
    BY <1>7, <2>1, <2>2
<1>8. CASE Platform \/ (\E m \in Message : GrowOld(m))
  <2>1. sweep' = sweep /\ loop' = loop /\ pel' = pel
    BY <1>8 DEF Platform, Publish, PublishMalformed, RetryLog, Signal, ChangeSilently, SetStatus,
                GrowOld, redis, instance
  <2>2. QED
    BY <1>4, <2>1
<1>9. CASE Tick
  <2>1. ASSUME NEW j \in Instance, NEW s \in Slot PROVE loop'[j][s].pc = loop[j][s].pc
    <3>1. PICK l : l = loop[j][s]
      OBVIOUS
    <3>2. loop'[j][s] = [l EXCEPT !.due = l.pc # "off",
                                  !.spent = IF l.pc \in DispatchStep THEN 1 ELSE 0]
      BY <1>9, <3>1 DEF Tick
    <3>3. l \in LoopRecord
      BY <1>1, <3>1 DEF LoopTypes
    <3>4. QED
      BY <3>1, <3>2, <3>3 DEF LoopRecord
  <2>2. \A m \in Message : pel'[m] # None => pel[m] # None /\ pel'[m].by = pel[m].by
    BY <1>9, EntryAges DEF Tick, DeliverInv, RedisTypes
  <2>3. sweep' = sweep
    BY <1>9 DEF Tick
  <2>4. QED
    BY <1>1, <2>1, <2>2, <2>3, SweepRests
<1>10. CASE UNCHANGED vars
  BY <1>4, <1>10 DEF vars, redis, instance
<1>11. QED
  BY <1>2, <1>3, <1>5, <1>6, <1>7, <1>8, <1>9, <1>10 DEF Next, Fault, Maintenance

-----------------------------------------------------------------------------
(* Every step keeps the promise                                             *)

LEMMA SettledSame ==
  ASSUME DeliverInv, UNCHANGED <<stream, appended, lastRead>>,
         \A m \in Message : pel'[m] = None <=> pel[m] = None
  PROVE  Settled' = Settled
<1>1. appended \subseteq Message
  BY DEF DeliverInv, RedisTypes
<1>2. QED
  BY <1>1 DEF Settled

LEMMA RedisSame ==
  ASSUME UNCHANGED redis
  PROVE  Settled' = Settled /\ Dead' = Dead /\ Expired' = Expired /\ appended' = appended
BY DEF redis, Settled, Dead, Expired

\* A message is refused, or it is not.
LEMMA RefuseServes ==
  ASSUME Settled' = Settled, Dead' = Dead, Expired' = Expired, appended' = appended,
         accepted' = accepted, NEW m \in Message, m \in appended,
         refused' = refused \/ refused' = refused \cup {m}
  PROVE  [Promise!Next]_Promise!vars
<1>1. CASE refused' = refused
  BY <1>1 DEF Promise!vars
<1>2. CASE refused' = refused \cup {m}
  <2>1. Promise!Refuse(m)
    BY <1>2 DEF Promise!Refuse
  <2>2. QED
    BY <2>1 DEF Promise!Next
<1>3. QED
  BY <1>1, <1>2

LEMMA StutterServes ==
  ASSUME Settled' = Settled, Dead' = Dead, Expired' = Expired, appended' = appended,
         accepted' = accepted, refused' = refused
  PROVE  [Promise!Next]_Promise!vars
BY DEF Promise!vars

\* Messages are let go of for a reason.
LEMMA SettleServes ==
  ASSUME Dead' = Dead, Expired' = Expired, appended' = appended, accepted' = accepted,
         refused' = refused, NEW ms \in SUBSET Message,
         ms \subseteq appended \ Settled, Settled' = Settled \cup ms,
         \A m \in ms : m \in accepted \/ m \in refused \/ m \in Dead \/ m \in Expired
  PROVE  [Promise!Next]_Promise!vars
<1>1. Promise!Settle(ms)
  BY DEF Promise!Settle, Promise!open
<1>2. QED
  BY <1>1 DEF Promise!Next

LEMMA ProcessServes ==
  ASSUME DeliverInv, NEW i \in Instance, NEW s \in Slot, NEW l, Process(i, s, l)
  PROVE  refused' = refused \/ refused' = refused \cup {l.msg}
BY DEF Process, Give

\* XACK.
LEMMA AckServes ==
  ASSUME DeliverInv, NEW i \in Instance, NEW s \in Slot, loop[i][s].pc \in {"ack", "buried"},
         pel' = [pel EXCEPT ![loop[i][s].msg] = None],
         UNCHANGED <<stream, appended, lastRead, letters, old, bad, history>>
  PROVE  [Promise!Next]_Promise!vars
<1>1. PICK m : m = loop[i][s].msg
  OBVIOUS
<1>2. /\ LoopOK(loop[i][s]) /\ m \in Message /\ m \in appended /\ m <= lastRead
  BY <1>1, TheLoop DEF Resting, LoopOK
<1>3. m \in accepted \/ m \in refused \/ m \in Dead
  BY <1>1, <1>2 DEF LoopOK
<1>4. /\ appended' = appended /\ accepted' = accepted /\ refused' = refused
      /\ Dead' = Dead /\ Expired' = Expired
  BY DEF history, Dead, Expired
<1>5. pel \in [Message -> PelEntry \cup {None}]
  BY DEF DeliverInv, RedisTypes
<1>6. CASE pel[m] = None
  <2>1. Settled' = Settled
    BY <1>1, <1>2, <1>5, <1>6, SettledSame
  <2>2. QED
    BY <1>4, <2>1, StutterServes
<1>7. CASE pel[m] # None
  <2>1. Settled' = Settled \cup {m} /\ m \notin Settled
    BY <1>1, <1>2, <1>5, <1>7 DEF Settled, DeliverInv, RedisTypes
  <2>2. {m} \in SUBSET Message /\ {m} \subseteq appended \ Settled
    BY <1>2, <2>1
  <2>3. \A k \in {m} : k \in accepted \/ k \in refused \/ k \in Dead \/ k \in Expired
    BY <1>3
  <2>4. QED
    BY <1>4, <2>1, <2>2, <2>3, SettleServes
<1>8. QED
  BY <1>6, <1>7

\* XAUTOCLAIM drops what is not in the stream any more.
LEMMA AutoclaimServes ==
  ASSUME DeliverInv, NEW i \in Instance, NEW c, pel' = Autoclaimed(i, c),
         UNCHANGED <<stream, appended, lastRead, letters, old, bad, history>>
  PROVE  [Promise!Next]_Promise!vars
<1>1. /\ appended' = appended /\ accepted' = accepted /\ refused' = refused
      /\ Dead' = Dead /\ Expired' = Expired
  BY DEF history, Dead, Expired
<1>2. pel \in [Message -> PelEntry \cup {None}] /\ appended \subseteq Message
  BY DEF DeliverInv, RedisTypes
<1>3. ASSUME NEW m \in Lost(c)
      PROVE  /\ m \in Message /\ pel[m] # None /\ m <= lastRead
             /\ m \in appended /\ m \notin stream /\ m \in Expired
  <2>1. m \in Message /\ pel[m] # None /\ m \notin stream
    BY DEF Lost, Idlers
  <2>2. m <= lastRead /\ m \in Nat /\ m # 0
    BY <2>1, Constants DEF DeliverInv, RedisTypes, Message
  <2>3. m \in appended
    BY <2>2, ReadIsAppended
  <2>4. QED
    BY <2>1, <2>2, <2>3 DEF DeliverInv, StreamOK
<1>4. ASSUME NEW m \in Message
      PROVE  pel'[m] = None <=> pel[m] = None \/ m \in Lost(c)
  <2>1. Pending(i, m) # None
    BY PendingType, Constants
  <2>2. m \in Taken(c) => pel[m] # None /\ m \in stream
    BY AutoclaimedType
  <2>3. m \in Lost(c) => m \notin Taken(c)
    BY <1>3, <2>2
  <2>4. QED
    BY <2>1, <2>2, <2>3 DEF Autoclaimed
<1>5. Settled' = Settled \cup Lost(c)
  BY <1>2, <1>3, <1>4 DEF Settled
<1>6. Lost(c) \subseteq appended \ Settled
  BY <1>3 DEF Settled
<1>7. QED
  BY <1>1, <1>2, <1>3, <1>5, <1>6, SettleServes

\* XREADGROUP.
LEMMA DeliverableSettles ==
  ASSUME DeliverInv, NEW i \in Instance, Unread # {}, Deliverable(i, First(Unread))
  PROVE  Settled' = Settled /\ Dead' = Dead /\ Expired' = Expired /\ appended' = appended
<1>1. PICK n : n = First(Unread)
  OBVIOUS
<1>2. /\ n \in stream /\ n \in appended /\ n \in Message /\ n > lastRead
      /\ \A m \in stream : m > lastRead => n <= m
      /\ lastRead' = n
      /\ pel' = [pel EXCEPT ![n] = [by |-> i, idle |-> 0, count |-> 1]]
      /\ [by |-> i, idle |-> 0, count |-> 1] \in PelEntry
      /\ UNCHANGED <<stream, appended, letters, old, bad>>
  BY <1>1, DeliverableMoves
<1>3. /\ pel \in [Message -> PelEntry \cup {None}] /\ appended \subseteq Message
      /\ \A m \in Message : m \in Nat
      /\ lastRead \in Nat
      /\ \A m \in Message : pel[m] # None => m <= lastRead
  BY Constants DEF DeliverInv, RedisTypes, Message
<1>4. pel'[n] # None /\ pel[n] = None
  BY <1>2, <1>3, Constants
<1>5. ASSUME NEW m \in appended, m # n
      PROVE  /\ pel'[m] = pel[m]
             /\ (m <= n \/ m \notin stream) <=> (m <= lastRead \/ m \notin stream)
  BY <1>2, <1>3, <1>5
<1>6. Settled' = Settled
  BY <1>2, <1>3, <1>4, <1>5 DEF Settled
<1>7. QED
  BY <1>2, <1>6 DEF Dead, Expired

LEMMA BuryServes ==
  ASSUME DeliverInv, NEW i \in Instance, NEW s \in Slot, loop[i][s].pc = "bury",
         letters' = [letters EXCEPT ![loop[i][s].msg] = @ + 1],
         UNCHANGED <<stream, appended, lastRead, pel, old, bad, history>>
  PROVE  [Promise!Next]_Promise!vars
<1>1. PICK m : m = loop[i][s].msg
  OBVIOUS
<1>2. m \in Message /\ m \in appended
  BY <1>1, TheLoop DEF Resting
<1>3. letters \in [Message -> Nat]
  BY DEF DeliverInv, RedisTypes
<1>4. Dead' = Dead \cup {m}
  BY <1>1, <1>2, <1>3 DEF Dead
<1>5. Settled' = Settled /\ Expired' = Expired /\ appended' = appended
  BY DEF Settled, Expired
<1>6. Promise!Bury(m)
  BY <1>2, <1>4, <1>5 DEF Promise!Bury, history
<1>7. QED
  BY <1>2, <1>6 DEF Promise!Next

LEMMA LoopStepServes ==
  ASSUME DeliverInv, NEW i \in Instance, NEW s \in Slot,
         LoopStep(i, s) \/ DeliveryCountUnknown(i, s)
  PROVE  [Promise!Next]_Promise!vars
<1>1. CASE \/ EnsureConsumerGroup(i, s) \/ Fetch(i, s) \/ CreateLog(i, s) \/ Mark(i, s)
  <2>1. UNCHANGED redis /\ accepted' = accepted /\ refused' = refused
    BY <1>1 DEF EnsureConsumerGroup, Fetch, CreateLog, Mark, history
  <2>2. QED
    BY <2>1, RedisSame, StutterServes
<1>2. CASE Autoclaim(i, s)
  BY <1>2, AutoclaimServes DEF Autoclaim
<1>3. CASE DeliveryCount(i, s) \/ DeliveryCountUnknown(i, s)
  <2>1. /\ UNCHANGED redis /\ accepted' = accepted /\ loop[i][s].pc = "count"
        /\ refused' = refused \/ Process(i, s, loop[i][s])
    BY <1>3 DEF DeliveryCount, DeliveryCountUnknown
  <2>2. loop[i][s].msg \in Message /\ loop[i][s].msg \in appended
    BY <2>1, TheLoop DEF Resting
  <2>3. QED
    BY <2>1, <2>2, RedisSame, ProcessServes, RefuseServes
<1>4. CASE Bury(i, s)
  BY <1>4, BuryServes DEF Bury
<1>5. CASE Ack(i, s)
  BY <1>5, AckServes DEF Ack
<1>6. CASE Read(i, s)
  <2>1. accepted' = accepted
    BY <1>6 DEF Read
  <2>2. CASE Unread # {}
    <3>1. PICK n : n = First(Unread)
      OBVIOUS
    <3>2. PICK h : h = [loop[i][s] EXCEPT !.msg = n]
      OBVIOUS
    <3>3. Deliverable(i, n) /\ Process(i, s, h) /\ loop[i][s] \in LoopRecord
      BY <1>6, <2>2, <3>1, <3>2, TheLoop DEF Read
    <3>4. n \in Message /\ n \in appended
      BY <2>2, <3>1, <3>3, DeliverableMoves
    <3>5. h.msg = n
      BY <3>2, <3>3 DEF LoopRecord
    <3>6. refused' = refused \/ refused' = refused \cup {n}
      BY <3>3, <3>5, ProcessServes
    <3>7. QED
      BY <2>1, <2>2, <3>1, <3>3, <3>4, <3>6, DeliverableSettles, RefuseServes
  <2>3. CASE Unread = {}
    <3>1. UNCHANGED redis /\ refused' = refused
      BY <1>6, <2>3 DEF Read
    <3>2. QED
      BY <2>1, <3>1, RedisSame, StutterServes
  <2>4. QED
    BY <2>2, <2>3
<1>7. CASE Fetched(i, s)
  <2>1. /\ UNCHANGED redis /\ accepted' = accepted /\ loop[i][s].pc = "fetched"
        /\ refused' = refused \/ refused' = refused \cup {loop[i][s].msg}
    BY <1>7 DEF Fetched, Give
  <2>2. loop[i][s].msg \in Message /\ loop[i][s].msg \in appended
    BY <2>1, TheLoop DEF Resting
  <2>3. QED
    BY <2>1, <2>2, RedisSame, RefuseServes
<1>8. CASE Call(i, s)
  <2>1. /\ UNCHANGED redis /\ refused' = refused /\ loop[i][s].pc = "call"
        /\ accepted' = accepted \/ accepted' = accepted \cup {loop[i][s].msg}
    BY <1>8 DEF Call
  <2>2. PICK m : m = loop[i][s].msg
    OBVIOUS
  <2>3. m \in Message /\ m \in appended
    BY <2>1, <2>2, TheLoop DEF Resting
  <2>4. Settled' = Settled /\ Dead' = Dead /\ Expired' = Expired /\ appended' = appended
    BY <2>1, RedisSame
  <2>5. CASE accepted' = accepted
    BY <2>1, <2>4, <2>5, StutterServes
  <2>6. CASE accepted' = accepted \cup {m}
    <3>1. Promise!Accept(m)
      BY <2>1, <2>3, <2>4, <2>6 DEF Promise!Accept
    <3>2. QED
      BY <2>3, <3>1 DEF Promise!Next
  <2>7. QED
    BY <2>1, <2>2, <2>5, <2>6
<1>9. QED
  BY <1>1, <1>2, <1>3, <1>4, <1>5, <1>6, <1>7, <1>8 DEF LoopStep

LEMMA FaultServes ==
  ASSUME DeliverInv, Fault
  PROVE  [Promise!Next]_Promise!vars
<1>1. ASSUME NEW i \in Instance, NEW s \in Slot, DispatchFails(i, s) \/ Disconnect(i, s)
      PROVE  [Promise!Next]_Promise!vars
  BY <1>1, RedisSame, StutterServes DEF DispatchFails, Disconnect, history
<1>2. ASSUME NEW i \in Instance, StopConsumer(i) \/ Crash(i) \/ RefreshFails(i)
      PROVE  [Promise!Next]_Promise!vars
  BY <1>2, RedisSame, StutterServes DEF StopConsumer, Crash, RefreshFails, history
<1>3. ASSUME NEW i \in Instance, NEW s \in Slot, CommandFails(i, s)
      PROVE  [Promise!Next]_Promise!vars
  <2>1. UNCHANGED history
    BY <1>3 DEF CommandFails
  <2>2. CASE UNCHANGED redis
    BY <2>1, <2>2, RedisSame, StutterServes DEF history
  <2>3. CASE /\ pel' = Autoclaimed(i, loop[i][s].cursor)
             /\ UNCHANGED <<stream, appended, lastRead, letters, old, bad>>
    BY <2>1, <2>3, AutoclaimServes
  <2>4. CASE Unread # {} /\ Deliverable(i, First(Unread))
    BY <2>1, <2>4, DeliverableSettles, StutterServes DEF history
  <2>5. CASE /\ loop[i][s].pc = "ack" /\ pel' = [pel EXCEPT ![loop[i][s].msg] = None]
             /\ UNCHANGED <<stream, appended, lastRead, letters, old, bad>>
    BY <2>1, <2>5, AckServes
  <2>6. CASE /\ loop[i][s].pc = "bury" /\ letters' = [letters EXCEPT ![loop[i][s].msg] = @ + 1]
             /\ UNCHANGED <<stream, appended, lastRead, pel, old, bad>>
    BY <2>1, <2>6, BuryServes
  <2>7. QED
    BY <1>3, <2>2, <2>3, <2>4, <2>5, <2>6, Zenon DEF CommandFails, redis
<1>4. ASSUME NEW n \in Message, GrowOld(n)
      PROVE  [Promise!Next]_Promise!vars
  <2>1. /\ n \in appended /\ old' = old \cup (1 .. n)
        /\ UNCHANGED <<stream, appended, lastRead, pel, letters, bad, history>>
    BY <1>4 DEF GrowOld
  <2>2. 1 .. n \subseteq appended /\ appended \subseteq Message
    <3>1. appended = 1 .. Cardinality(appended) /\ Cardinality(appended) \in Nat
      BY MessagesFinite DEF DeliverInv, StreamOK
    <3>2. QED
      BY <2>1, <3>1 DEF DeliverInv, RedisTypes
  <2>3. Expired' = Expired \cup (1 .. n) /\ Dead' = Dead /\ Settled' = Settled
    BY <2>1 DEF Expired, Dead, Settled
  <2>4. Promise!Expire(1 .. n)
    BY <2>1, <2>2, <2>3 DEF Promise!Expire, history
  <2>5. 1 .. n \in SUBSET Message
    BY <2>2
  <2>6. QED
    BY <2>4, <2>5 DEF Promise!Next
<1>5. ASSUME NEW i \in Instance, NEW s \in Slot, DeliveryCountUnknown(i, s)
      PROVE  [Promise!Next]_Promise!vars
  BY <1>5, LoopStepServes
<1>6. QED
  BY <1>1, <1>2, <1>3, <1>4, <1>5 DEF Fault

LEMMA TrimServes ==
  ASSUME DeliverInv, DeliverInv', NEW i \in Instance, Trim(i) \/ EmergencyTrim(i)
  PROVE  [Promise!Next]_Promise!vars
<1>1. /\ stream' \subseteq stream
      /\ UNCHANGED <<appended, lastRead, pel, letters, old, bad, instance, database, history, disturbed>>
  BY DEF Trim, EmergencyTrim
<1>2. Dead' = Dead /\ Expired' = Expired /\ accepted' = accepted /\ refused' = refused
  BY <1>1 DEF Dead, Expired, history
<1>3. PICK ms : ms = Settled' \ Settled
  OBVIOUS
<1>4. Settled \subseteq Settled' /\ Settled' \subseteq appended
  BY <1>1 DEF Settled
<1>5. ms \subseteq appended /\ \A m \in ms : m \notin stream'
  BY <1>1, <1>3, <1>4 DEF Settled
<1>6. \A m \in ms : m \in Expired
  <2>1. appended' \ stream' \subseteq Expired'
    BY DEF DeliverInv, StreamOK
  <2>2. QED
    BY <1>1, <1>2, <1>5, <2>1
<1>7. ms \in SUBSET Message
  BY <1>5 DEF DeliverInv, RedisTypes
<1>8. Settled' = Settled \cup ms /\ ms \subseteq appended \ Settled
  BY <1>3, <1>4, <1>5
<1>9. QED
  BY <1>1, <1>2, <1>6, <1>7, <1>8, SettleServes

LEMMA AppendServes ==
  ASSUME DeliverInv, Publish \/ PublishMalformed \/ \E m \in Message : RetryLog(m)
  PROVE  [Promise!Next]_Promise!vars
<1>1. /\ Add(NextId)
      /\ UNCHANGED <<lastRead, pel, letters, old, history>>
  BY DEF Publish, PublishMalformed, RetryLog
<1>2. PICK n : n = NextId
  OBVIOUS
<1>3. /\ n \in Message /\ n \notin appended
      /\ stream' = stream \cup {n} /\ appended' = appended \cup {n}
      /\ \A m \in appended : m < n
      /\ IsFiniteSet(appended')
  BY <1>1, <1>2, AddAppends
<1>4. RedisTypes /\ StreamOK /\ appended \subseteq Message /\ Message \subseteq Nat
  BY MessagesFinite DEF DeliverInv, RedisTypes
<1>5. Expired \subseteq Expired'
  BY <1>1, <1>3, <1>4, ExpiredGrows
<1>6. Expired' \subseteq appended
  <2>1. {k \in appended' : k > n} = {}
    <3>1. ASSUME NEW k \in appended' PROVE ~(k > n)
      <4>1. n \in Nat /\ (k # n => k \in Nat /\ k < n)
        BY <1>3, <1>4
      <4>2. QED
        BY <4>1
    <3>2. QED
      BY <3>1
  <2>2. ~(Cardinality({k \in appended' : k > n}) >= MaxLen)
    BY <2>1, FS_EmptySet, Constants
  <2>3. n \notin old
    BY <1>3, <1>4 DEF RedisTypes
  <2>4. QED
    BY <1>1, <1>3, <1>4, <2>2, <2>3 DEF Expired, RedisTypes
<1>7. Settled' = Settled
  <2>1. lastRead < n
    <3>1. Cardinality(appended) \in Nat /\ n = Cardinality(appended) + 1 /\ lastRead \in Nat
      BY <1>2, MessagesFinite DEF DeliverInv, RedisTypes, NextId
    <3>2. QED
      BY <1>4, <3>1 DEF StreamOK
  <2>2. n \notin Settled'
    BY <1>1, <1>3, <1>4, <2>1 DEF Settled, RedisTypes
  <2>3. \A m \in appended : m \in stream' <=> m \in stream
    BY <1>3
  <2>4. QED
    BY <1>1, <1>3, <2>2, <2>3 DEF Settled
<1>8. Promise!Append(n, Expired')
  BY <1>1, <1>3, <1>5, <1>6, <1>7 DEF Promise!Append, Dead, history
<1>9. Expired' \in SUBSET Message
  BY <1>4, <1>6
<1>10. QED
  BY <1>3, <1>8, <1>9 DEF Promise!Next

\* Every step lets a message go for a reason, or lets none go.
LEMMA StepServes ==
  DeliverInv /\ DeliverInv' /\ SweepOK /\ [Next]_vars => [Promise!Next]_Promise!vars
<1> SUFFICES ASSUME DeliverInv, DeliverInv', SweepOK, [Next]_vars
             PROVE  [Promise!Next]_Promise!vars
  OBVIOUS
<1>1. CASE \E i \in Instance, s \in Slot : LoopStep(i, s)
  BY <1>1, LoopStepServes
<1>2. CASE \E i \in Instance : InstanceStep(i)
  <2>1. PICK i \in Instance : InstanceStep(i)
    BY <1>2
  <2>2. CASE DeleteConsumer(i)
    <3>1. PICK j \in sweep[i] :
            pel' = [m \in Message |-> IF pel[m] # None /\ pel[m].by = j THEN None ELSE pel[m]]
      BY <2>2 DEF DeleteConsumer
    <3>2. \A m \in Message : pel'[m] = pel[m]
      BY <3>1 DEF SweepOK
    <3>3. /\ UNCHANGED <<stream, appended, lastRead, letters, old>>
          /\ accepted' = accepted /\ refused' = refused
      BY <2>2 DEF DeleteConsumer, history
    <3>4. Settled' = Settled /\ Dead' = Dead /\ Expired' = Expired
      BY <3>2, <3>3, SettledSame DEF Dead, Expired
    <3>5. QED
      BY <3>3, <3>4, StutterServes
  <2>3. CASE RefreshRead(i) \/ Refreshed(i) \/ InvalidateCache(i)
    BY <2>3, RedisSame, StutterServes DEF RefreshRead, Refreshed, InvalidateCache, history
  <2>4. QED
    BY <2>1, <2>2, <2>3 DEF InstanceStep
<1>3. CASE Started
  BY <1>3, RedisSame, StutterServes DEF Started, StartConsumer, history
<1>4. CASE Fault
  BY <1>4, FaultServes
<1>5. CASE Maintenance
  <2>1. PICK i \in Instance : Trim(i) \/ EmergencyTrim(i) \/ Inspect(i)
    BY <1>5 DEF Maintenance
  <2>2. CASE Inspect(i)
    BY <2>2, RedisSame, StutterServes DEF Inspect, history
  <2>3. QED
    BY <2>1, <2>2, TrimServes
<1>6. CASE Platform
  <2>1. CASE \E st \in Status : Signal(st) \/ ChangeSilently(st)
    BY <2>1, RedisSame, StutterServes DEF Signal, ChangeSilently, SetStatus, history
  <2>2. QED
    BY <1>6, <2>1, AppendServes DEF Platform
<1>7. CASE Tick
  <2>1. /\ UNCHANGED <<stream, appended, lastRead, letters, old, history>>
        /\ pel' = [m \in Message |-> IF pel[m] = None THEN None
                                     ELSE [pel[m] EXCEPT !.idle = Older(@, MinIdle)]]
    BY <1>7 DEF Tick
  <2>2. \A m \in Message : pel'[m] = None <=> pel[m] = None
    BY <2>1, EntryAges, Constants DEF DeliverInv, RedisTypes
  <2>3. Settled' = Settled /\ Dead' = Dead /\ Expired' = Expired
    BY <2>1, <2>2, SettledSame DEF Dead, Expired
  <2>4. QED
    BY <2>1, <2>3, StutterServes DEF history
<1>8. CASE UNCHANGED vars
  BY <1>8, RedisSame, StutterServes DEF vars, history
<1>9. QED
  BY <1>1, <1>2, <1>3, <1>4, <1>5, <1>6, <1>7, <1>8 DEF Next

LEMMA SafeInvariant == ASSUME Unraced PROVE Spec => []SweepOK
<1>1. Init => SweepOK
  BY DEF Init, SweepOK
<1>2. DeliverInv /\ SweepOK /\ [Next]_vars => SweepOK'
  BY SweepKept
<1>3. QED
  BY <1>1, <1>2, Invariant, PTL DEF Spec

\* The dispatcher implements Delivery: a message leaves the pending list, or the
\* stream unread, only when the endpoint accepted it, there was nobody to deliver it to,
\* it is among the dead letters, or it was too old, whatever is stopped, crashes or is
\* rejected on the way.  Only the removal of a consumer that starts to read meanwhile
\* (StreamMaintenanceService, "race") breaks that.
THEOREM ImplementsDelivery == ASSUME Unraced PROVE Spec => DeliverySpec
<1>1. Init => Promise!Init
  <2> SUFFICES ASSUME Init PROVE Promise!Init
    OBVIOUS
  <2>1. appended = {} /\ old = {} /\ accepted = {} /\ refused = {} /\ \A m \in Message : letters[m] = 0
    BY DEF Init
  <2>2. Dead = {} /\ Expired = {} /\ Settled = {}
    BY <2>1 DEF Dead, Expired, Settled
  <2>3. QED
    BY <2>1, <2>2 DEF Promise!Init
<1>2. DeliverInv /\ DeliverInv' /\ SweepOK /\ [Next]_vars => [Promise!Next]_Promise!vars
  BY StepServes
<1>3. QED
  BY <1>1, <1>2, Invariant, SafeInvariant, PTL DEF Spec, DeliverySpec, Promise!Spec

-----------------------------------------------------------------------------
(* What was delivered is logged                                             *)

LEMMA LogsGrow ==
  ASSUME DeliverInv, [Next]_vars
  PROVE  \A m \in Message : logs[m] \subseteq logs'[m]
<1>1. ASSUME NEW i \in Instance, NEW s \in Slot, Mark(i, s)
      PROVE  \A m \in Message : logs[m] \subseteq logs'[m]
  <2>1. loop[i][s].msg \in Message
    BY <1>1, TheLoop DEF Mark, Resting
  <2>2. QED
    BY <1>1, <2>1 DEF Mark, DeliverInv, HistoryTypes
<1>2. CASE logs' = logs
  BY <1>2
<1>3. ASSUME NEW i \in Instance, NEW s \in Slot, LoopStep(i, s), ~Mark(i, s)
      PROVE  logs' = logs
  BY <1>3 DEF LoopStep, EnsureConsumerGroup, Autoclaim, DeliveryCount, Bury, Ack, Read, Fetch,
          Fetched, CreateLog, Call, database
<1>4. Fault => logs' = logs
  BY DEF Fault, CommandFails, DeliveryCountUnknown, DispatchFails, Disconnect, StopConsumer, Crash,
         RefreshFails, GrowOld, database
<1>5. Started \/ Maintenance \/ Tick \/ UNCHANGED vars \/ (\E i \in Instance : InstanceStep(i))
        => logs' = logs
  BY DEF Started, StartConsumer, Maintenance, Trim, EmergencyTrim, Inspect, Tick, vars, InstanceStep,
         RefreshRead, Refreshed, InvalidateCache, DeleteConsumer, database
<1>6. Platform => logs' = logs
  BY DEF Platform, Publish, PublishMalformed, RetryLog, Signal, ChangeSilently, SetStatus, database
<1>7. QED
  BY <1>1, <1>2, <1>3, <1>4, <1>5, <1>6 DEF Next

\* The group's list, and what it has read.
LEMMA ReadMoves ==
  ASSUME DeliverInv, SweepOK, [Next]_vars, NEW m \in Message, m \in stream'
  PROVE  /\ pel[m] # None /\ pel'[m] = None =>
              \E i \in Instance, s \in Slot :
                 loop[i][s].pc \in {"ack", "buried"} /\ loop[i][s].msg = m
         /\ m <= lastRead' => m \in stream
         /\ m > lastRead /\ m <= lastRead' => pel'[m] # None
<1> DEFINE Loses == pel[m] # None /\ pel'[m] = None =>
                      \E i \in Instance, s \in Slot :
                        loop[i][s].pc \in {"ack", "buried"} /\ loop[i][s].msg = m
<1>1. /\ pel \in [Message -> PelEntry \cup {None}] /\ lastRead \in Nat /\ m \in Nat
  BY Constants DEF DeliverInv, RedisTypes, Message
<1>2. ASSUME NEW i \in Instance, NEW s \in Slot,
             \/ LoopStep(i, s) \/ CommandFails(i, s) \/ DeliveryCountUnknown(i, s)
             \/ DispatchFails(i, s) \/ Disconnect(i, s)
      PROVE  /\ Loses /\ m \in stream
             /\ m > lastRead /\ m <= lastRead' => pel'[m] # None
  <2>1. stream' = stream
    BY <1>2 DEF LoopStep, EnsureConsumerGroup, Autoclaim, DeliveryCount, Bury, Ack, Read, Deliverable,
            Fetch, Fetched, CreateLog, Call, Mark, CommandFails, DeliveryCountUnknown, DispatchFails,
            Disconnect, redis
  <2>2. lastRead' = lastRead \/ (Unread # {} /\ Deliverable(i, First(Unread)))
    BY <1>2, Zenon DEF LoopStep, EnsureConsumerGroup, Autoclaim, DeliveryCount, Bury, Ack, Read, Fetch,
            Fetched, CreateLog, Call, Mark, CommandFails, DeliveryCountUnknown, DispatchFails,
            Disconnect, redis
  <2>3. \/ pel' = pel
        \/ pel' = Autoclaimed(i, loop[i][s].cursor)
        \/ /\ pel' = [pel EXCEPT ![loop[i][s].msg] = None]
           /\ loop[i][s].pc \in {"ack", "buried"}
        \/ Unread # {} /\ Deliverable(i, First(Unread))
    BY <1>2, LoopsPend
  <2>4. ASSUME Unread # {}, Deliverable(i, First(Unread))
        PROVE  Loses /\ (m > lastRead /\ m <= lastRead' => pel'[m] # None)
    <3>1. PICK n : n = First(Unread)
      OBVIOUS
    <3>2. /\ n \in Message /\ n > lastRead
          /\ \A k \in stream : k > lastRead => n <= k
          /\ lastRead' = n
          /\ pel' = [pel EXCEPT ![n] = [by |-> i, idle |-> 0, count |-> 1]]
          /\ [by |-> i, idle |-> 0, count |-> 1] \in PelEntry
      BY <2>4, <3>1, DeliverableMoves
    <3>3. pel'[n] # None /\ (m # n => pel'[m] = pel[m])
      BY <1>1, <3>2, Constants
    <3>4. m > lastRead /\ m <= n => m = n
      BY <1>1, <2>1, <3>2, Constants DEF Message
    <3>5. QED
      BY <3>2, <3>3, <3>4
  <2>5. ASSUME pel' = Autoclaimed(i, loop[i][s].cursor) PROVE Loses
    <3>1. pel[m] # None /\ pel'[m] = None => m \in Lost(loop[i][s].cursor)
      BY <2>5, AutoclaimedType
    <3>2. QED
      BY <2>1, <3>1 DEF Lost
  <2>6. ASSUME pel' = [pel EXCEPT ![loop[i][s].msg] = None], loop[i][s].pc \in {"ack", "buried"}
        PROVE  Loses
    BY <1>1, <2>6
  <2>7. Loses
    BY <2>3, <2>4, <2>5, <2>6
  <2>8. m > lastRead /\ m <= lastRead' => pel'[m] # None
    <3>1. lastRead' = lastRead => ~(m > lastRead /\ m <= lastRead')
      BY <1>1
    <3>2. QED
      BY <2>2, <2>4, <3>1
  <2>9. QED
    BY <2>1, <2>7, <2>8
<1>3. ASSUME lastRead' = lastRead, pel'[m] = None => pel[m] = None, m \notin stream => m > lastRead
      PROVE  Loses /\ (m <= lastRead' => m \in stream)
             /\ (m > lastRead /\ m <= lastRead' => pel'[m] # None)
  BY <1>1, <1>3
<1>4. ASSUME NEW i \in Instance, InstanceStep(i)
      PROVE  lastRead' = lastRead /\ stream' = stream /\ (pel'[m] = None => pel[m] = None)
  <2>1. CASE DeleteConsumer(i)
    <3>1. PICK j \in sweep[i] :
            pel' = [k \in Message |-> IF pel[k] # None /\ pel[k].by = j THEN None ELSE pel[k]]
      BY <2>1 DEF DeleteConsumer
    <3>2. pel'[m] = pel[m]
      BY <3>1 DEF SweepOK
    <3>3. QED
      BY <2>1, <3>2 DEF DeleteConsumer
  <2>2. CASE RefreshRead(i) \/ Refreshed(i) \/ InvalidateCache(i)
    BY <2>2 DEF RefreshRead, Refreshed, InvalidateCache, redis
  <2>3. QED
    BY <1>4, <2>1, <2>2 DEF InstanceStep
<1>5. CASE Started \/ UNCHANGED vars \/ (\E i \in Instance : StopConsumer(i) \/ Crash(i) \/ RefreshFails(i))
           \/ (\E n \in Message : GrowOld(n)) \/ (\E st \in Status : Signal(st) \/ ChangeSilently(st))
  <2>1. lastRead' = lastRead /\ pel' = pel /\ stream' = stream
    BY <1>5 DEF Started, StartConsumer, vars, StopConsumer, Crash, RefreshFails, GrowOld, Signal,
                ChangeSilently, SetStatus, redis
  <2>2. QED
    BY <1>3, <2>1
<1>6. CASE Maintenance
  <2>1. lastRead' = lastRead /\ pel' = pel /\ stream' \subseteq stream
    BY <1>6 DEF Maintenance, Trim, EmergencyTrim, Inspect, redis
  <2>2. QED
    BY <1>3, <2>1
<1>7. CASE Publish \/ PublishMalformed \/ \E k \in Message : RetryLog(k)
  <2>1. lastRead' = lastRead /\ pel' = pel /\ Add(NextId)
    BY <1>7 DEF Publish, PublishMalformed, RetryLog
  <2>2. stream' = stream \cup {NextId} /\ NextId > lastRead
    <3>1. Cardinality(appended) \in Nat
      BY MessagesFinite DEF DeliverInv
    <3>2. QED
      BY <1>1, <2>1, <3>1 DEF Add, NextId, DeliverInv, StreamOK
  <2>3. QED
    BY <1>3, <2>1, <2>2
<1>8. CASE Tick
  <2>1. lastRead' = lastRead /\ stream' = stream
        /\ pel' = [k \in Message |-> IF pel[k] = None THEN None
                                     ELSE [pel[k] EXCEPT !.idle = Older(@, MinIdle)]]
    BY <1>8 DEF Tick
  <2>2. pel'[m] = None => pel[m] = None
    BY <1>1, <2>1, EntryAges, Constants
  <2>3. QED
    BY <1>3, <2>1, <2>2
<1>9. ASSUME NEW i \in Instance, InstanceStep(i)
      PROVE  Loses /\ (m <= lastRead' => m \in stream)
             /\ (m > lastRead /\ m <= lastRead' => pel'[m] # None)
  BY <1>3, <1>4, <1>9
<1>10. QED
  BY <1>2, <1>5, <1>6, <1>7, <1>8, <1>9 DEF Next, Fault, Platform

LEMMA LoggedKept ==
  DeliverInv /\ DeliverInv' /\ SweepOK /\ DeliveredIsLogged /\ [Next]_vars => DeliveredIsLogged'
<1> SUFFICES ASSUME DeliverInv, DeliverInv', SweepOK, DeliveredIsLogged, [Next]_vars,
                    NEW m \in Settled', m \notin refused', m \notin Dead', m \notin Expired'
             PROVE  "SUCCESS" \in logs'[m]
  BY DEF DeliveredIsLogged
<1>1. [Promise!Next]_Promise!vars
  BY StepServes
<1>2. refused \subseteq refused' /\ Dead \subseteq Dead' /\ Expired \subseteq Expired'
  BY <1>1 DEF Promise!Next, Promise!vars, Promise!Append, Promise!Accept, Promise!Refuse,
              Promise!Bury, Promise!Expire, Promise!Settle
<1>3. m \in Message /\ m \in appended' /\ pel'[m] = None
  BY DEF Settled, DeliverInv, RedisTypes
<1>4. CASE m \in Settled
  BY <1>2, <1>3, <1>4, LogsGrow DEF DeliveredIsLogged
<1>5. CASE m \notin Settled
  <2>1. m \in stream'
    BY <1>3 DEF DeliverInv, StreamOK
  <2>2. m <= lastRead'
    BY <2>1 DEF Settled
  <2>3. /\ pel[m] # None => \E i \in Instance, s \in Slot :
                loop[i][s].pc \in {"ack", "buried"} /\ loop[i][s].msg = m
        /\ m \in stream
        /\ m > lastRead => pel'[m] # None
    BY <1>3, <2>1, <2>2, ReadMoves
  <2>4. m <= lastRead /\ m \in appended
    BY <1>3, <2>3, Constants DEF DeliverInv, RedisTypes, Message
  <2>5. PICK i \in Instance, s \in Slot : loop[i][s].pc \in {"ack", "buried"} /\ loop[i][s].msg = m
    BY <1>5, <2>3, <2>4 DEF Settled
  <2>6. LoopOK(loop[i][s])
    BY TheLoop
  <2>7. m \in refused \/ m \in Dead \/ "SUCCESS" \in logs[m]
    BY <2>5, <2>6 DEF LoopOK
  <2>8. QED
    BY <1>2, <1>3, <2>7, LogsGrow
<1>6. QED
  BY <1>4, <1>5

\* A message that was let go because the endpoint accepted it has a log that says so
\* (WebhookCallerService marks the log before QueueConsumerService acknowledges).
THEOREM DeliveriesAreLogged == ASSUME Unraced PROVE Spec => []DeliveredIsLogged
<1>1. Init => DeliveredIsLogged
  BY DEF Init, DeliveredIsLogged, Settled
<1>2. DeliverInv /\ DeliverInv' /\ SweepOK /\ DeliveredIsLogged /\ [Next]_vars => DeliveredIsLogged'
  BY LoggedKept
<1>3. QED
  BY <1>1, <1>2, Invariant, SafeInvariant, PTL DEF Spec
=============================================================================
