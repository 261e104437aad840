----------------------------- MODULE IngestProofs -----------------------------
(***************************************************************************)
(* Theorems about Ingest, for any instances, applications, pollers and     *)
(* blocks: its types; that a poller which is stopped ends, and that it is  *)
(* the only one that is not in the map; and that no event is skipped, by   *)
(* an invariant about what a poller, a batch on its way and a handler that *)
(* catches up have behind them.                                            *)
(***************************************************************************)
EXTENDS Ingest, FiniteSetTheorems, WellFoundedInduction, TLAPS

-----------------------------------------------------------------------------
(* The invariants                                                           *)

BatchRecord == [events : SUBSET (App \X Block), apps : SUBSET App]

AnswerRecord  == [apps : SUBSET App, chain : 0 .. MaxChanges + 1]
RefreshRecord == [type : {"subscriptions", "chains"}, data : AnswerRecord \cup {None}]

SharedOK ==
  /\ head \in Block /\ active \subseteq App /\ enabled \in BOOLEAN
  /\ changes \in 0 .. MaxChanges /\ chain \in 1 .. changes + 1
  /\ disturbed \in 0 .. MaxDisturbances
  /\ holder \in [App -> Instance \cup {None}]
  /\ progress \in [App -> (0 .. head) \cup {None}]
  /\ origin \in [App -> (0 .. head) \cup {None}]
  /\ published \subseteq App \X (1 .. head) /\ failed \subseteq App \X (1 .. head)
  /\ passed \in [App -> SUBSET (1 .. head)] /\ leapt \in [App -> SUBSET (1 .. head)]

\* A poller has nothing of what it does not await, and is behind what it asks for;
\* n is the head.
PollerFits(l, n) ==
  /\ l \in PollerRecord
  /\ l.pc = "off" => l = Off
  /\ l.pc \in {"start", "min"} => l.last = 0
  /\ l.pc # "pipe" => l.batch = Off.batch
  /\ l.pc \in {"logs", "pipe"} => l.last < l.to
  /\ l.batch.events \subseteq App \X (1 .. l.to)
  /\ l.last <= n /\ l.to <= l.target /\ l.target <= n

HandlerFits(h, n) ==
  /\ h \in HandlerRecord
  /\ h.pc # "no" => h.app \in App
  /\ h.pc \in {"set", "logs", "pipe", "starting"} => h.poller \in Slot
  /\ h.pc \in {"logs", "pipe"} => 1 <= h.from /\ h.from <= h.to
  /\ h.to <= n

InstancesOK ==
  /\ manager \in [Instance -> ManagerRecord]
  /\ poller \in [Instance -> [Slot -> PollerRecord]]
  /\ handler \in [Instance -> HandlerRecord]
  /\ request \in [Instance -> RefreshRecord \cup {None}]
  /\ \A i \in Instance, p \in Slot : PollerFits(poller[i][p], head)
  /\ \A i \in Instance : HandlerFits(handler[i], head)

TypesOK == SharedOK /\ InstancesOK

Orig(a) == IF origin[a] = None THEN 0 ELSE origin[a]

Excused(a, b) == b \in Silent \cup passed[a] \cup leapt[a] \/ <<a, b>> \in published \cup failed

\* Nothing of a is skipped up to n.
Covered(a, n) == \A b \in Block : Orig(a) < b /\ b <= n => Excused(a, b)

\* What is written has no gaps.
WrittenOK ==
  \A a \in App : (progress[a] = None => origin[a] = None) /\ Covered(a, Position(a))

\* What a poller has behind it; what it has asked for without an application that
\* has joined meanwhile; and its batch, which covers what it has asked for.
PollerCovers(l) ==
  /\ \A a \in l.subs \cup l.batch.apps : progress[a] # None => Covered(a, l.last)
  /\ l.pc = "logs" => \A a \in l.subs \ l.filter : Covered(a, l.to)
  /\ l.pc = "pipe" => \A a \in l.subs \cup l.batch.apps, b \in Block :
       (Orig(a) < b /\ l.last < b /\ b <= l.to) => Excused(a, b) \/ <<a, b>> \in l.batch.events

HandlerCovers(h) ==
  h.pc \in {"logs", "pipe"} => progress[h.app] # None /\ Covered(h.app, h.from - 1)

PollersCover  == \A i \in Instance, p \in Slot : PollerCovers(poller[i][p])
HandlersCover == \A i \in Instance : HandlerCovers(handler[i])

CoverInv == WrittenOK /\ PollersCover /\ HandlersCover

Busy(l) == l.running \/ l.pc \in {"start", "min"}

\* The poller in the map is the only one that starts or runs, ...
BusyInMap == \A i \in Instance, p \in Slot : Busy(poller[i][p]) => manager[i].current = p

\* ... and a process that is not up has none, and awaits nothing.
DownRests ==
  \A i \in Instance :
    ~manager[i].up => manager[i].current = None /\ handler[i].pc = "no" /\ request[i] = None

MapOK == BusyInMap /\ DownRests

-----------------------------------------------------------------------------
(* Pollers                                                                  *)

LEMMA Bounds ==
  /\ MaxBlock \in Nat /\ MaxBlock >= 1 /\ MaxChanges \in Nat /\ MaxDisturbances \in Nat
  /\ Batch \in Nat /\ Batch >= 1
  /\ None \notin Instance /\ None \notin Slot /\ None \notin Nat
BY IngestAssumption

LEMMA Heads ==
  ASSUME SharedOK
  PROVE  head \in Nat /\ 1 <= head /\ head <= MaxBlock /\ head \in 0 .. MaxBlock
BY Bounds DEF SharedOK, Block

LEMMA OffFits ==
  ASSUME NEW n \in Nat
  PROVE  PollerFits(Off, n) /\ Off \in PollerRecord
<1>1. [a \in App |-> 0] \in [App -> 0 .. MaxBlock]
  BY Bounds
<1>2. Off \in PollerRecord
  BY <1>1, Bounds DEF Off, PollerRecord
<1>3. QED
  BY <1>2 DEF PollerFits, Off

LEMMA RestFits ==
  ASSUME NEW n \in Nat, NEW l \in PollerRecord, l.last <= n
  PROVE  PollerFits(Rest(l), n)
<1>1. CASE ~l.running
  BY <1>1, OffFits DEF Rest
<1>2. CASE l.running
  <2>1. PICK k : k = [l EXCEPT !.pc = "idle", !.to = 0, !.target = 0, !.filter = {}, !.batch = Off.batch]
    OBVIOUS
  <2>2. 0 \in 0 .. MaxBlock /\ Off.batch \in [events : SUBSET (App \X Block), apps : SUBSET App]
    BY Bounds DEF Off
  <2>3. /\ k.pc = "idle" /\ k.running = l.running /\ k.subs = l.subs /\ k.last = l.last /\ k.to = 0
        /\ k.target = 0 /\ k.filter = {} /\ k.batch = Off.batch /\ k.written = l.written
        /\ k \in PollerRecord
    BY <2>1, <2>2 DEF PollerRecord
  <2>4. PollerFits(k, n)
    BY <2>3 DEF PollerFits, Off
  <2>5. QED
    BY <1>2, <2>1, <2>4 DEF Rest
<1>3. QED
  BY <1>1, <1>2 DEF PollerRecord

LEMMA NextBatchFits ==
  ASSUME NEW n \in Nat, NEW l \in PollerRecord, l.last <= n, l.target <= n
  PROVE  PollerFits(NextBatch(l), n)
<1>1. CASE ~l.running \/ l.target <= l.last
  BY <1>1, RestFits DEF NextBatch
<1>2. CASE l.running /\ ~(l.target <= l.last)
  <2>1. PICK k : k = [l EXCEPT !.pc = "logs", !.to = Lesser(l.last + Batch, l.target), !.filter = l.subs,
                               !.batch = Off.batch]
    OBVIOUS
  <2>2. l.last \in Nat /\ l.target \in 0 .. MaxBlock /\ l.subs \subseteq App
    BY DEF PollerRecord
  <2>3. PICK to : to = Lesser(l.last + Batch, l.target)
    OBVIOUS
  <2>4. to \in 0 .. MaxBlock /\ l.last < to /\ to <= l.target
    BY <1>2, <2>2, <2>3, Bounds DEF Lesser
  <2>5. /\ k.pc = "logs" /\ k.running = l.running /\ k.subs = l.subs /\ k.last = l.last /\ k.to = to
        /\ k.target = l.target /\ k.filter = l.subs /\ k.batch = Off.batch /\ k.written = l.written
        /\ k \in PollerRecord
    BY <2>1, <2>2, <2>3, <2>4 DEF PollerRecord, Off
  <2>6. PollerFits(k, n)
    BY <2>4, <2>5 DEF PollerFits, Off
  <2>7. QED
    BY <1>2, <2>1, <2>6 DEF NextBatch
<1>3. QED
  BY <1>1, <1>2 DEF PollerRecord

\* How the pollers look when one of them goes on as k.
LEMMA PutMoves ==
  ASSUME InstancesOK, NEW i \in Instance, NEW p \in Slot, NEW k, PollerFits(k, head), Put(i, p, k)
  PROVE  /\ poller' \in [Instance -> [Slot -> PollerRecord]] /\ poller'[i][p] = k
         /\ \A j \in Instance, q \in Slot : <<j, q>> # <<i, p>> => poller'[j][q] = poller[j][q]
         /\ \A j \in Instance, q \in Slot : PollerFits(poller'[j][q], head)
<1>1. poller \in [Instance -> [Slot -> PollerRecord]] /\ k \in PollerRecord
  BY DEF InstancesOK, PollerFits
<1>2. /\ poller' \in [Instance -> [Slot -> PollerRecord]] /\ poller'[i][p] = k
      /\ \A j \in Instance, q \in Slot : <<j, q>> # <<i, p>> => poller'[j][q] = poller[j][q]
  BY <1>1 DEF Put
<1>3. QED
  BY <1>2 DEF InstancesOK

LEMMA ListedFits ==
  ASSUME NEW n \in Nat, NEW l, PollerFits(l, n), NEW subs \in SUBSET App
  PROVE  PollerFits(Listed(l, subs), n)
<1>1. CASE l.pc = "off"
  BY <1>1 DEF Listed
<1>2. CASE l.pc # "off"
  <2>1. PICK k : k = [l EXCEPT !.subs = subs]
    OBVIOUS
  <2>2. /\ k.pc = l.pc /\ k.running = l.running /\ k.subs = subs /\ k.last = l.last /\ k.to = l.to
        /\ k.target = l.target /\ k.filter = l.filter /\ k.batch = l.batch /\ k.written = l.written
        /\ k \in PollerRecord
    BY <2>1 DEF PollerFits, PollerRecord
  <2>3. PollerFits(k, n)
    BY <1>2, <2>2 DEF PollerFits
  <2>4. QED
    BY <1>2, <2>1, <2>3 DEF Listed
<1>3. QED
  BY <1>1, <1>2

LEMMA StoppedFits ==
  ASSUME NEW n \in Nat, NEW l, PollerFits(l, n)
  PROVE  PollerFits(Stopped(l), n)
<1>1. CASE l.pc \in {"off", "idle"}
  BY <1>1, OffFits DEF Stopped
<1>2. CASE l.pc \notin {"off", "idle"}
  <2>1. PICK k : k = [l EXCEPT !.running = FALSE]
    OBVIOUS
  <2>2. /\ k.pc = l.pc /\ k.running = FALSE /\ k.subs = l.subs /\ k.last = l.last /\ k.to = l.to
        /\ k.target = l.target /\ k.filter = l.filter /\ k.batch = l.batch /\ k.written = l.written
        /\ k \in PollerRecord
    BY <2>1 DEF PollerFits, PollerRecord
  <2>3. PollerFits(k, n)
    BY <1>2, <2>2 DEF PollerFits
  <2>4. QED
    BY <1>2, <2>1, <2>3 DEF Stopped
<1>3. QED
  BY <1>1, <1>2

LEMMA FreshFits ==
  ASSUME NEW n \in Nat, NEW subs \in SUBSET App
  PROVE  PollerFits(Fresh(subs), n)
<1>1. PICK k : k = Fresh(subs)
  OBVIOUS
<1>2. /\ k.pc = "start" /\ k.running = TRUE /\ k.subs = subs /\ k.last = 0 /\ k.to = 0 /\ k.target = 0
      /\ k.filter = {} /\ k.batch = Off.batch /\ k.written = Off.written /\ k \in PollerRecord
  BY <1>1, OffFits DEF Fresh, Off, PollerRecord
<1>3. QED
  BY <1>1, <1>2 DEF PollerFits, Off

Below == {p \in Nat \X Nat : p[1] < p[2]}

LEMMA BelowWellFounded == IsWellFoundedOn(Below, Nat)
<1>1. OpToRel(<, Nat) = Below
  BY Zenon DEF OpToRel, Below
<1>2. QED
  BY <1>1, NatLessThanWellFounded, Zenon

LEMMA LeastOf ==
  ASSUME NEW S \in SUBSET Nat, S # {}
  PROVE  \E n \in S : \A m \in S : n <= m
<1>1. PICK n \in S : \A m \in S : ~(<<m, n>> \in Below)
  BY BelowWellFounded, WFMin
<1>2. ASSUME NEW m \in S, ~(n <= m) PROVE FALSE
  <2>1. n \in Nat /\ m \in Nat /\ m < n
    BY <1>2
  <2>2. <<m, n>> \in Below
    BY <2>1 DEF Below
  <2>3. QED
    BY <1>1, <2>2
<1>3. QED
  BY <1>2

\* Where a poller starts: at the least progress, or at the head.
LEMMA StartBlockIsLeast ==
  ASSUME TypesOK, NEW i \in Instance, NEW p \in Slot, NEW l, l = poller[i][p]
  PROVE  /\ StartBlock(l) \in 0 .. head
         /\ \A a \in l.filter : progress[a] # None => StartBlock(l) <= progress[a]
<1>1. PICK known : known = {progress[a] : a \in {b \in l.filter : progress[b] # None}}
  OBVIOUS
<1>2. l.filter \subseteq App /\ l.target \in Nat /\ l.target <= head
  BY DEF TypesOK, InstancesOK, PollerFits, PollerRecord
<1>3. progress \in [App -> (0 .. head) \cup {None}] /\ head \in Nat
  BY Heads DEF TypesOK, SharedOK
<1>4. known \subseteq 0 .. head
  BY <1>1, <1>2, <1>3
<1>5. CASE known = {}
  BY <1>1, <1>2, <1>3, <1>5 DEF StartBlock
<1>6. CASE known # {}
  <2>1. known \in SUBSET Nat
    BY <1>3, <1>4
  <2>2. \E n \in known : \A m \in known : n <= m
    BY <1>6, <2>1, LeastOf
  <2>3. PICK n : n = CHOOSE k \in known : \A m \in known : k <= m
    OBVIOUS
  <2>4. n \in known /\ \A m \in known : n <= m
    BY <2>2, <2>3
  <2>5. StartBlock(l) = n
    BY <1>1, <1>6, <2>3 DEF StartBlock
  <2>6. QED
    BY <1>1, <1>4, <2>4, <2>5
<1>7. QED
  BY <1>5, <1>6

-----------------------------------------------------------------------------
(* Types                                                                    *)

LEMMA LeapTypes ==
  ASSUME TypesOK, NEW apps, NEW block \in 0 .. head
  PROVE  Leap(apps, block) \in [App -> SUBSET (1 .. head)]
<1>1. ASSUME NEW a \in App, NEW b \in Block, NEW c \in Serving(a), b <= poller[c[1]][c[2]].last
      PROVE  b \in 1 .. head
  <2>1. c[1] \in Instance /\ c[2] \in Slot
    BY DEF Serving
  <2>2. PollerFits(poller[c[1]][c[2]], head)
    BY <2>1 DEF TypesOK, InstancesOK
  <2>3. poller[c[1]][c[2]].last \in Nat /\ poller[c[1]][c[2]].last <= head
    BY <2>2 DEF PollerFits, PollerRecord
  <2>4. QED
    BY <1>1, <2>3, Heads, Bounds DEF TypesOK, Block
<1>2. leapt \in [App -> SUBSET (1 .. head)]
  BY DEF TypesOK, SharedOK
<1>3. QED
  BY <1>1, <1>2 DEF Leap

LEMMA PassTypes ==
  ASSUME TypesOK, NEW apps, NEW block \in 0 .. head
  PROVE  Pass(apps, block) \in [App -> SUBSET (1 .. head)]
<1>1. passed \in [App -> SUBSET (1 .. head)] /\ progress \in [App -> (0 .. head) \cup {None}] /\ head \in Nat
  BY Heads DEF TypesOK, SharedOK
<1>2. \A a \in App : Position(a) \in Nat
  BY <1>1 DEF Position
<1>3. \A a \in App : (Position(a) + 1 .. block) \subseteq 1 .. head
  BY <1>1, <1>2
<1>4. QED
  BY <1>1, <1>3 DEF Pass

LEMMA EventsTypes ==
  ASSUME TypesOK, NEW apps \in SUBSET App, NEW from \in Nat, NEW to \in Nat, 1 <= from, to <= head
  PROVE  /\ Events(apps, from, to) \subseteq App \X (1 .. to)
         /\ Events(apps, from, to) \subseteq App \X (1 .. head)
         /\ Events(apps, from, to) \subseteq App \X Block
<1>1. head \in Nat /\ head <= MaxBlock /\ MaxBlock \in Nat
  BY Heads, Bounds DEF TypesOK
<1>2. PICK B : B = (from .. to) \ Silent
  OBVIOUS
<1>3. B \subseteq 1 .. to /\ B \subseteq 1 .. head /\ B \subseteq 1 .. MaxBlock
  BY <1>1, <1>2
<1>4. Events(apps, from, to) = apps \X B
  BY <1>2 DEF Events
<1>5. QED
  BY <1>3, <1>4 DEF Block

LEMMA PublishTypes ==
  ASSUME TypesOK, NEW events, events \subseteq App \X (1 .. head), NEW apps,
         NEW to \in 0 .. head, NEW before \in 0 .. head, Publish(events, apps, to, before)
  PROVE  /\ published' \subseteq App \X (1 .. head)
         /\ progress' \in [App -> (0 .. head) \cup {None}]
         /\ origin' \in [App -> (0 .. head) \cup {None}]
         /\ leapt' \in [App -> SUBSET (1 .. head)]
<1>1. /\ progress \in [App -> (0 .. head) \cup {None}] /\ origin \in [App -> (0 .. head) \cup {None}]
      /\ published \subseteq App \X (1 .. head)
  BY DEF TypesOK, SharedOK
<1>2. QED
  BY <1>1, LeapTypes DEF Publish, Progressed, Begin

LEMMA DisturbTypes ==
  ASSUME SharedOK, NEW what, Disturb(what)
  PROVE  disturbed' \in 0 .. MaxDisturbances
BY Bounds DEF SharedOK, Disturb

LEMMA RpcFailsTypes ==
  ASSUME SharedOK, NEW l, RpcFails(l)
  PROVE  disturbed' \in 0 .. MaxDisturbances
BY DisturbTypes DEF SharedOK, RpcFails

\* What holds of a poller whatever it does.
LEMMA PollerFacts ==
  ASSUME TypesOK, NEW i \in Instance, NEW p \in Slot, NEW l, l = poller[i][p]
  PROVE  /\ l \in PollerRecord /\ PollerFits(l, head)
         /\ l.subs \in SUBSET App /\ l.filter \in SUBSET App /\ l.batch \in BatchRecord
         /\ l.last \in Nat /\ l.to \in Nat /\ l.target \in Nat
         /\ l.last \in 0 .. MaxBlock /\ l.to \in 0 .. MaxBlock /\ l.target \in 0 .. MaxBlock
         /\ l.last \in 0 .. head /\ l.to \in 0 .. head /\ l.target \in 0 .. head
         /\ l.batch.events \subseteq App \X (1 .. head) /\ l.batch.apps \subseteq App
         /\ Reached(l) \in 0 .. head
<1>1. PollerFits(l, head)
  BY DEF TypesOK, InstancesOK
<1>2. QED
  BY <1>1, Heads DEF PollerFits, PollerRecord, BatchRecord, TypesOK, Reached

LEMMA HandlerFacts ==
  ASSUME TypesOK, NEW i \in Instance, NEW h, h = handler[i]
  PROVE  /\ h \in HandlerRecord /\ HandlerFits(h, head)
         /\ h.from \in Nat /\ h.to \in Nat /\ h.to \in 0 .. head /\ h.from \in 0 .. MaxBlock
         /\ h.pc # "no" => h.app \in App
<1>1. HandlerFits(h, head) /\ h \in HandlerRecord
  BY DEF TypesOK, InstancesOK
<1>2. QED
  BY <1>1, Heads DEF HandlerFits, HandlerRecord, TypesOK

LEMMA IdleFits == ASSUME NEW n \in Nat PROVE HandlerFits(Idle, n)
BY Bounds DEF Idle, HandlerFits, HandlerRecord

LEMMA AwaitedFits ==
  ASSUME TypesOK, NEW i \in Instance, NEW p \in Slot, handler' = Awaited(i, p)
  PROVE  handler' \in [Instance -> HandlerRecord] /\ \A j \in Instance : HandlerFits(handler'[j], head)
<1>1. handler \in [Instance -> HandlerRecord] /\ \A j \in Instance : HandlerFits(handler[j], head)
  BY DEF TypesOK, InstancesOK
<1>2. HandlerFits(Idle, head) /\ Idle \in HandlerRecord
  BY Heads, IdleFits DEF TypesOK, HandlerFits
<1>3. QED
  BY <1>1, <1>2 DEF Awaited

\* A step of a poller keeps the types, when its new state and what it shares do.
LEMMA PollerTypes ==
  ASSUME TypesOK, NEW i \in Instance, NEW p \in Slot, NEW k, PollerFits(k, head), Put(i, p, k),
         head' = head, SharedOK', manager' \in [Instance -> ManagerRecord], request' = request,
         handler' = handler \/ handler' = Awaited(i, p)
  PROVE  TypesOK'
<1>1. poller' \in [Instance -> [Slot -> PollerRecord]]
      /\ \A j \in Instance, q \in Slot : PollerFits(poller'[j][q], head)
  BY PutMoves DEF TypesOK
<1>2. handler' \in [Instance -> HandlerRecord] /\ \A j \in Instance : HandlerFits(handler'[j], head)
  BY AwaitedFits DEF TypesOK, InstancesOK
<1>3. request \in [Instance -> RefreshRecord \cup {None}]
  BY DEF TypesOK, InstancesOK
<1>4. QED
  BY <1>1, <1>2, <1>3 DEF TypesOK, InstancesOK

LEMMA StartTargetTypes ==
  ASSUME TypesOK, NEW i \in Instance, NEW p \in Slot, StartTarget(i, p)
  PROVE  TypesOK'
<1>1. PICK l : l = poller[i][p]
  OBVIOUS
<1>2. PICK k : k = [l EXCEPT !.pc = "min", !.target = head, !.filter = l.subs]
  OBVIOUS
<1>3. l \in PollerRecord /\ PollerFits(l, head) /\ l.subs \in SUBSET App /\ l.pc = "start"
  BY <1>1, PollerFacts DEF StartTarget
<1>4. /\ k.pc = "min" /\ k.running = l.running /\ k.subs = l.subs /\ k.last = l.last /\ k.to = l.to
      /\ k.target = head /\ k.filter = l.subs /\ k.batch = l.batch /\ k.written = l.written
      /\ k \in PollerRecord
  BY <1>2, <1>3, Heads DEF PollerRecord, TypesOK
<1>5. PollerFits(k, head)
  BY <1>3, <1>4, Heads DEF PollerFits, PollerRecord, TypesOK
<1>6. Put(i, p, k) /\ UNCHANGED <<head, database, redis, manager, handler, request, history, disturbed>>
  BY <1>1, <1>2 DEF StartTarget
<1>7. SharedOK'
  BY <1>6 DEF TypesOK, SharedOK, database, redis, history
<1>8. manager' \in [Instance -> ManagerRecord]
  BY <1>6 DEF TypesOK, InstancesOK
<1>9. QED
  BY <1>5, <1>6, <1>7, <1>8, PollerTypes

LEMMA StartMinTypes ==
  ASSUME TypesOK, NEW i \in Instance, NEW p \in Slot, StartMin(i, p)
  PROVE  TypesOK'
<1>1. PICK l : l = poller[i][p]
  OBVIOUS
<1>2. PICK n : n = StartBlock(l)
  OBVIOUS
<1>3. PICK k : k = [l EXCEPT !.last = n]
  OBVIOUS
<1>4. l \in PollerRecord /\ n \in 0 .. head /\ head \in Nat /\ head <= MaxBlock
  BY <1>1, <1>2, PollerFacts, StartBlockIsLeast, Heads DEF TypesOK
<1>5. k \in PollerRecord /\ k.last <= head
  BY <1>3, <1>4, Bounds DEF PollerRecord
<1>6. PollerFits(Rest(k), head)
  BY <1>4, <1>5, RestFits
<1>7. /\ Put(i, p, Rest(k)) /\ handler' = Awaited(i, p) /\ passed' = Pass(l.subs \ l.filter, n)
      /\ UNCHANGED <<head, database, redis, manager, request, origin, leapt, failed, disturbed>>
  BY <1>1, <1>2, <1>3 DEF StartMin
<1>8. passed' \in [App -> SUBSET (1 .. head)]
  BY <1>4, <1>7, PassTypes
<1>9. SharedOK'
  BY <1>7, <1>8 DEF TypesOK, SharedOK, database, redis
<1>10. manager' \in [Instance -> ManagerRecord]
  BY <1>7 DEF TypesOK, InstancesOK
<1>11. QED
  BY <1>6, <1>7, <1>9, <1>10, PollerTypes

LEMMA StartFailsTypes ==
  ASSUME TypesOK, NEW i \in Instance, NEW p \in Slot, StartFails(i, p)
  PROVE  TypesOK'
<1>1. /\ Put(i, p, Off) /\ handler' = Awaited(i, p)
      /\ manager' = [manager EXCEPT ![i].current = None]
      /\ UNCHANGED <<head, database, redis, request, history>>
  BY DEF StartFails
<1>2. disturbed' \in 0 .. MaxDisturbances
  BY RpcFailsTypes, DisturbTypes DEF StartFails, TypesOK
<1>3. SharedOK'
  BY <1>1, <1>2 DEF TypesOK, SharedOK, database, redis, history
<1>4. manager' \in [Instance -> ManagerRecord]
  BY <1>1 DEF TypesOK, InstancesOK, ManagerRecord
<1>5. PollerFits(Off, head)
  BY OffFits, Heads DEF TypesOK
<1>6. QED
  BY <1>1, <1>3, <1>4, <1>5, PollerTypes

LEMMA PollTypes ==
  ASSUME TypesOK, NEW i \in Instance, NEW p \in Slot, Poll(i, p)
  PROVE  TypesOK'
<1>1. PICK l : l = poller[i][p]
  OBVIOUS
<1>2. PICK k : k = [l EXCEPT !.target = head]
  OBVIOUS
<1>3. l \in PollerRecord /\ l.last \in 0 .. head /\ head \in 0 .. MaxBlock /\ head \in Nat
  BY <1>1, PollerFacts, Heads DEF TypesOK
<1>4. k \in PollerRecord /\ k.last <= head /\ k.target <= head
  BY <1>2, <1>3 DEF PollerRecord
<1>5. PollerFits(NextBatch(k), head)
  BY <1>3, <1>4, NextBatchFits
<1>6. /\ Put(i, p, NextBatch(k))
      /\ UNCHANGED <<head, database, redis, manager, handler, request, history, disturbed>>
  BY <1>1, <1>2 DEF Poll
<1>7. SharedOK'
  BY <1>6 DEF TypesOK, SharedOK, database, redis, history
<1>8. manager' \in [Instance -> ManagerRecord]
  BY <1>6 DEF TypesOK, InstancesOK
<1>9. QED
  BY <1>5, <1>6, <1>7, <1>8, PollerTypes

LEMMA AdvanceFits ==
  ASSUME TypesOK, NEW i \in Instance, NEW p \in Slot, NEW l, l = poller[i][p]
  PROVE  PollerFits(NextBatch([l EXCEPT !.last = l.to]), head)
<1>1. PICK k : k = [l EXCEPT !.last = l.to]
  OBVIOUS
<1>2. l \in PollerRecord /\ l.to \in 0 .. head /\ l.target \in 0 .. head /\ l.to \in 0 .. MaxBlock /\ head \in Nat
  BY PollerFacts, Heads DEF TypesOK
<1>3. k \in PollerRecord /\ k.last <= head /\ k.target <= head
  BY <1>1, <1>2 DEF PollerRecord
<1>4. QED
  BY <1>1, <1>2, <1>3, NextBatchFits

\* ProcessLogs, with its pipeline.
Piped(l, events, apps) ==
  [l EXCEPT !.pc = "pipe", !.batch = [events |-> events, apps |-> apps],
            !.written = [a \in App |-> IF a \in apps THEN l.to ELSE @[a]]]

LEMMA PipedFields ==
  ASSUME NEW l \in PollerRecord, NEW events, NEW apps, NEW k, k = Piped(l, events, apps),
         events \subseteq App \X Block, apps \subseteq App
  PROVE  /\ k.pc = "pipe" /\ k.running = l.running /\ k.subs = l.subs /\ k.last = l.last /\ k.to = l.to
         /\ k.target = l.target /\ k.filter = l.filter /\ k \in PollerRecord
         /\ k.batch.events = events /\ k.batch.apps = apps
<1>1. l.written \in [App -> 0 .. MaxBlock] /\ l.to \in 0 .. MaxBlock
  BY DEF PollerRecord
<1>2. PICK written : written = [a \in App |-> IF a \in apps THEN l.to ELSE l.written[a]]
  OBVIOUS
<1>3. written \in [App -> 0 .. MaxBlock]
  BY <1>1, <1>2
<1>4. k = [l EXCEPT !.pc = "pipe", !.batch = [events |-> events, apps |-> apps], !.written = written]
  BY <1>2 DEF Piped, PollerRecord
<1>5. PICK batch : batch = [events |-> events, apps |-> apps]
  OBVIOUS
<1>6. batch \in [events : SUBSET (App \X Block), apps : SUBSET App]
      /\ batch.events = events /\ batch.apps = apps
  BY <1>5
<1>7. k = [l EXCEPT !.pc = "pipe", !.batch = batch, !.written = written]
  BY <1>4, <1>5
<1>8. QED
  BY <1>3, <1>6, <1>7 DEF PollerRecord

LEMMA ProcessLogsTypes ==
  ASSUME TypesOK, NEW i \in Instance, NEW p \in Slot, ProcessLogs(i, p)
  PROVE  TypesOK'
<1>1. PICK l : l = poller[i][p]
  OBVIOUS
<1>2. PICK events : events = Events(l.filter \cap l.subs, l.last + 1, l.to)
  OBVIOUS
<1>3. PICK apps : apps = {a \in l.subs : l.written[a] # l.to}
  OBVIOUS
<1>4. /\ l.pc = "logs"
      /\ Put(i, p, IF events = {} /\ apps = {} THEN NextBatch([l EXCEPT !.last = l.to])
                                              ELSE Piped(l, events, apps))
      /\ UNCHANGED <<head, database, redis, manager, handler, request, history, disturbed>>
  BY <1>1, <1>2, <1>3 DEF ProcessLogs, Piped
<1>5. /\ l \in PollerRecord /\ PollerFits(l, head) /\ l.last \in Nat /\ l.to \in Nat /\ l.to <= head
      /\ l.filter \in SUBSET App /\ l.subs \in SUBSET App /\ head \in Nat
  BY <1>1, PollerFacts, Heads DEF TypesOK
<1>6. events \subseteq App \X (1 .. l.to) /\ events \subseteq App \X Block /\ apps \subseteq App
  BY <1>2, <1>3, <1>5, EventsTypes
<1>7. PICK k : k = Piped(l, events, apps)
  OBVIOUS
<1>8. /\ k.pc = "pipe" /\ k.running = l.running /\ k.subs = l.subs /\ k.last = l.last /\ k.to = l.to
      /\ k.target = l.target /\ k.filter = l.filter /\ k \in PollerRecord
      /\ k.batch.events = events /\ k.batch.apps = apps
  BY <1>5, <1>6, <1>7, PipedFields
<1>9. PollerFits(k, head)
  BY <1>4, <1>5, <1>6, <1>8 DEF PollerFits
<1>10. PollerFits(NextBatch([l EXCEPT !.last = l.to]), head)
  BY <1>1, AdvanceFits
<1>11. SharedOK'
  BY <1>4 DEF TypesOK, SharedOK, database, redis, history
<1>12. manager' \in [Instance -> ManagerRecord]
  BY <1>4 DEF TypesOK, InstancesOK
<1>13. QED
  BY <1>4, <1>7, <1>9, <1>10, <1>11, <1>12, PollerTypes

LEMMA PublishEventsTypes ==
  ASSUME TypesOK, NEW i \in Instance, NEW p \in Slot,
         PublishEventsWithProgress(i, p) \/ CommandsFail(i, p) \/ PollFails(i, p)
  PROVE  TypesOK'
<1>1. PICK l : l = poller[i][p]
  OBVIOUS
<1>2. PICK k : k = [l EXCEPT !.last = l.to]
  OBVIOUS
<1>3. /\ l \in PollerRecord /\ l.last \in 0 .. head /\ l.to \in 0 .. head
      /\ l.batch.events \subseteq App \X (1 .. head) /\ l.last <= head /\ head \in Nat
  BY <1>1, PollerFacts, Heads DEF TypesOK
<1>4. PollerFits(NextBatch(k), head) /\ PollerFits(Rest(l), head)
  BY <1>1, <1>2, <1>3, AdvanceFits, RestFits
<1>5. /\ Put(i, p, NextBatch(k)) \/ Put(i, p, Rest(l))
      /\ UNCHANGED <<head, database, holder, manager, handler, request, passed>>
  BY <1>1, <1>2 DEF PublishEventsWithProgress, CommandsFail, PollFails
<1>6. \/ \E events, apps : events \subseteq App \X (1 .. head) /\ Publish(events, apps, l.to, l.last)
      \/ UNCHANGED <<progress, published, origin, leapt>>
  <2>1. CASE PublishEventsWithProgress(i, p)
    BY <1>1, <1>3, <2>1 DEF PublishEventsWithProgress
  <2>2. CASE CommandsFail(i, p)
    <3>1. \E apps : Publish({}, apps, l.to, l.last)
      BY <1>1, <2>2 DEF CommandsFail
    <3>2. QED
      BY <3>1
  <2>3. CASE PollFails(i, p)
    BY <1>1, <1>3, <2>3 DEF PollFails
  <2>4. QED
    BY <2>1, <2>2, <2>3
<1>7. /\ published' \subseteq App \X (1 .. head)
      /\ progress' \in [App -> (0 .. head) \cup {None}]
      /\ origin' \in [App -> (0 .. head) \cup {None}]
      /\ leapt' \in [App -> SUBSET (1 .. head)]
  <2>1. CASE UNCHANGED <<progress, published, origin, leapt>>
    BY <2>1 DEF TypesOK, SharedOK
  <2>2. ASSUME NEW events, NEW apps, events \subseteq App \X (1 .. head), Publish(events, apps, l.to, l.last)
        PROVE  <1>7
    BY <1>3, <2>2, PublishTypes
  <2>3. QED
    BY <1>6, <2>1, <2>2
<1>8. failed' \subseteq App \X (1 .. head)
  <2>1. failed \subseteq App \X (1 .. head)
    BY DEF TypesOK, SharedOK
  <2>2. failed' = failed \/ failed' = failed \cup (l.batch.events \ published)
    BY <1>1 DEF PublishEventsWithProgress, CommandsFail, PollFails
  <2>3. QED
    BY <1>3, <2>1, <2>2
<1>9. disturbed' \in 0 .. MaxDisturbances
  BY RpcFailsTypes, DisturbTypes DEF PublishEventsWithProgress, CommandsFail, PollFails, TypesOK, SharedOK
<1>10. SharedOK'
  BY <1>5, <1>7, <1>8, <1>9 DEF TypesOK, SharedOK, database
<1>11. manager' \in [Instance -> ManagerRecord]
  BY <1>5 DEF TypesOK, InstancesOK
<1>12. QED
  BY <1>4, <1>5, <1>10, <1>11, PollerTypes

PollersOK(n) ==
  /\ poller \in [Instance -> [Slot -> PollerRecord]]
  /\ \A j \in Instance, q \in Slot : PollerFits(poller[j][q], n)

HandlersOK(n) ==
  /\ handler \in [Instance -> HandlerRecord]
  /\ \A j \in Instance : HandlerFits(handler[j], n)

LEMMA PartsFit ==
  ASSUME TypesOK
  PROVE  /\ PollersOK(head) /\ HandlersOK(head) /\ head \in Nat
         /\ manager \in [Instance -> ManagerRecord]
         /\ request \in [Instance -> RefreshRecord \cup {None}]
BY Heads DEF TypesOK, InstancesOK, PollersOK, HandlersOK

LEMMA TypesFromParts ==
  ASSUME SharedOK', PollersOK(head)', HandlersOK(head)', manager' \in [Instance -> ManagerRecord],
         request' \in [Instance -> RefreshRecord \cup {None}]
  PROVE  TypesOK'
BY DEF TypesOK, InstancesOK, PollersOK, HandlersOK

LEMMA PollersPut ==
  ASSUME TypesOK, NEW i \in Instance, NEW p \in Slot, NEW k, PollerFits(k, head), Put(i, p, k), head' = head
  PROVE  PollersOK(head)'
BY PutMoves DEF TypesOK, PollersOK

LEMMA PollersStay ==
  ASSUME TypesOK, poller' = poller, head' = head
  PROVE  PollersOK(head)'
BY DEF TypesOK, InstancesOK, PollersOK

LEMMA HandlerMoves ==
  ASSUME TypesOK, NEW i \in Instance, NEW h, HandlerFits(h, head), handler' = [handler EXCEPT ![i] = h],
         head' = head
  PROVE  HandlersOK(head)'
<1>1. handler \in [Instance -> HandlerRecord] /\ \A j \in Instance : HandlerFits(handler[j], head)
  BY DEF TypesOK, InstancesOK
<1>2. h \in HandlerRecord
  BY DEF HandlerFits
<1>3. QED
  BY <1>1, <1>2 DEF HandlersOK

LEMMA HandlersStay ==
  ASSUME TypesOK, handler' = handler, head' = head
  PROVE  HandlersOK(head)'
BY DEF TypesOK, InstancesOK, HandlersOK

LEMMA SharedStays ==
  ASSUME TypesOK, UNCHANGED <<head, active, chain, enabled, changes, holder, progress, published, origin,
                              passed, leapt, failed, disturbed>>
  PROVE  SharedOK'
BY DEF TypesOK, SharedOK

LEMMA AnswerTypes ==
  ASSUME SharedOK
  PROVE  Answer \in AnswerRecord /\ Answer.apps \subseteq App /\ Answer.chain \in 0 .. MaxChanges + 1
<1>1. /\ (IF enabled THEN active ELSE {}) \subseteq App
      /\ (IF enabled THEN chain ELSE 0) \in 0 .. MaxChanges + 1
  BY Bounds DEF SharedOK
<1>2. QED
  BY <1>1 DEF Answer, AnswerRecord

LEMMA DownTypes == Down \in ManagerRecord
BY Bounds DEF Down, ManagerRecord

LEMMA InitializeTypes ==
  ASSUME TypesOK, NEW i \in Instance, Initialize(i)
  PROVE  TypesOK'
<1>1. /\ manager' = [manager EXCEPT ![i] = [Down EXCEPT !.up = TRUE, !.known = Answer.apps,
                                                        !.chain = Answer.chain]]
      /\ UNCHANGED <<head, database, redis, poller, handler, request, history, disturbed>>
  BY DEF Initialize
<1>2. Answer.apps \subseteq App /\ Answer.chain \in 0 .. MaxChanges + 1
  BY AnswerTypes DEF TypesOK
<1>3. manager' \in [Instance -> ManagerRecord]
  BY <1>1, <1>2, PartsFit, DownTypes DEF ManagerRecord
<1>4. SharedOK'
  BY <1>1, SharedStays DEF database, redis, history
<1>5. QED
  BY <1>1, <1>3, <1>4, PartsFit, PollersStay, HandlersStay, TypesFromParts

LEMMA ClaimTypes ==
  ASSUME TypesOK, NEW i \in Instance, NEW a \in App, Claim(i, a)
  PROVE  TypesOK'
<1>1. /\ manager' = [manager EXCEPT ![i].claimed = @ \cup {a}]
      /\ holder' = [holder EXCEPT ![a] = i]
      /\ UNCHANGED <<head, database, progress, published, poller, request, history, disturbed>>
  BY DEF Claim
<1>2. manager' \in [Instance -> ManagerRecord]
  BY <1>1, PartsFit DEF ManagerRecord
<1>3. PICK h : h = [Idle EXCEPT !.pc = "progress", !.app = a]
  OBVIOUS
<1>4. HandlerFits(h, head)
  <2>1. HandlerFits(Idle, head) /\ Idle \in HandlerRecord /\ Idle.to = 0
    BY PartsFit, IdleFits DEF HandlerFits, Idle
  <2>2. h \in HandlerRecord /\ h.pc = "progress" /\ h.app = a /\ h.to = 0
    BY <1>3, <2>1 DEF HandlerRecord
  <2>3. QED
    BY <2>2, PartsFit DEF HandlerFits
<1>5. handler' = handler \/ handler' = [handler EXCEPT ![i] = h]
  BY <1>3 DEF Claim
<1>6. HandlersOK(head)'
  BY <1>1, <1>4, <1>5, HandlerMoves, HandlersStay
<1>7. SharedOK'
  BY <1>1 DEF TypesOK, SharedOK, database, history
<1>8. QED
  BY <1>1, <1>2, <1>6, <1>7, PartsFit, PollersStay, TypesFromParts

LEMMA JoinByStartTypes ==
  ASSUME TypesOK, NEW i \in Instance, JoinByStart(i)
  PROVE  TypesOK'
<1>1. PICK subs : subs = manager[i].stored \cup {handler[i].app}
  OBVIOUS
<1>2. PICK p \in Slot :
           /\ manager' = [manager EXCEPT ![i].stored = subs, ![i].current = p]
           /\ Put(i, p, Fresh(subs))
           /\ handler' = [handler EXCEPT ![i].pc = "starting", ![i].poller = p]
  BY <1>1 DEF JoinByStart
<1>3. UNCHANGED <<head, database, redis, request, history, disturbed>>
  BY DEF JoinByStart
<1>4. PICK h : h = [handler[i] EXCEPT !.pc = "starting", !.poller = p]
  OBVIOUS
<1>5. HandlerFits(handler[i], head) /\ handler[i] \in HandlerRecord /\ handler[i].app \in App
  BY HandlerFacts DEF JoinByStart
<1>6. h.pc = "starting" /\ h.poller = p /\ h.app = handler[i].app /\ h.to = handler[i].to /\ h \in HandlerRecord
  BY <1>4, <1>5 DEF HandlerRecord
<1>7. HandlerFits(h, head)
  BY <1>5, <1>6 DEF HandlerFits
<1>8. handler' = [handler EXCEPT ![i] = h]
  BY <1>2, <1>4, PartsFit DEF HandlersOK
<1>9. subs \in SUBSET App
  BY <1>1, <1>5, PartsFit DEF ManagerRecord
<1>10. manager' \in [Instance -> ManagerRecord]
  <2>1. PICK m : m = [manager[i] EXCEPT !.stored = subs, !.current = p]
    OBVIOUS
  <2>2. m \in ManagerRecord
    BY <1>9, <2>1, PartsFit DEF ManagerRecord
  <2>3. manager' = [manager EXCEPT ![i] = m]
    BY <1>2, <2>1, PartsFit
  <2>4. QED
    BY <2>2, <2>3, PartsFit
<1>11. PollerFits(Fresh(subs), head)
  BY <1>9, PartsFit, FreshFits
<1>12. SharedOK'
  BY <1>3, SharedStays DEF database, redis, history
<1>13. PollersOK(head)' /\ HandlersOK(head)'
  BY <1>2, <1>3, <1>7, <1>8, <1>11, PollersPut, HandlerMoves
<1>14. QED
  BY <1>3, <1>10, <1>12, <1>13, PartsFit, TypesFromParts

LEMMA JoinPollerTypes ==
  ASSUME TypesOK, NEW i \in Instance, JoinPoller(i)
  PROVE  TypesOK'
<1>1. PICK h0 : h0 = handler[i]
  OBVIOUS
<1>2. PICK p : p = manager[i].current
  OBVIOUS
<1>3. p \in Slot
  BY <1>2, PartsFit DEF JoinPoller, ManagerRecord
<1>4. PICK l : l = poller[i][p]
  OBVIOUS
<1>5. /\ l.last \in 0 .. head /\ l.last \in 0 .. MaxBlock /\ PollerFits(l, head) /\ l.subs \in SUBSET App
      /\ Reached(l) \in 0 .. head
  BY <1>3, <1>4, PollerFacts
<1>6. HandlerFits(h0, head) /\ h0 \in HandlerRecord /\ h0.pc = "progress" /\ h0.app \in App
  BY <1>1, HandlerFacts DEF JoinPoller
<1>7. UNCHANGED <<head, database, redis, manager, request, origin, leapt, failed, disturbed>>
  BY DEF JoinPoller
<1>8. CASE /\ progress[h0.app] = None
           /\ handler' = [handler EXCEPT ![i] = [@ EXCEPT !.pc = "set", !.poller = p, !.to = l.last]]
           /\ UNCHANGED <<poller, passed>>
  <2>1. PICK h : h = [h0 EXCEPT !.pc = "set", !.poller = p, !.to = l.last]
    OBVIOUS
  <2>2. handler' = [handler EXCEPT ![i] = h]
    BY <1>1, <1>8, <2>1, PartsFit DEF HandlersOK
  <2>3. h \in HandlerRecord /\ h.pc = "set" /\ h.poller = p /\ h.to = l.last /\ h.app = h0.app
    BY <1>3, <1>5, <1>6, <2>1 DEF HandlerRecord
  <2>4. HandlerFits(h, head)
    BY <1>3, <1>5, <1>6, <2>3 DEF HandlerFits
  <2>5. SharedOK'
    BY <1>7, <1>8, SharedStays DEF database, redis
  <2>6. QED
    BY <1>7, <1>8, <2>2, <2>4, <2>5, PartsFit, HandlerMoves, PollersStay, TypesFromParts
<1>9. CASE /\ progress[h0.app] # None /\ progress[h0.app] < l.last
           /\ handler' = [handler EXCEPT ![i] = [@ EXCEPT !.pc = "logs", !.poller = p,
                                                          !.from = progress[h0.app] + 1, !.to = l.last]]
           /\ UNCHANGED <<poller, passed>>
  <2>1. PICK from : from = progress[h0.app] + 1
    OBVIOUS
  <2>2. PICK h : h = [h0 EXCEPT !.pc = "logs", !.poller = p, !.from = from, !.to = l.last]
    OBVIOUS
  <2>3. handler' = [handler EXCEPT ![i] = h]
    BY <1>1, <1>9, <2>1, <2>2, PartsFit DEF HandlersOK
  <2>4. from \in 0 .. MaxBlock /\ 1 <= from /\ from <= l.last
    BY <1>5, <1>6, <1>9, <2>1, Bounds, PartsFit DEF TypesOK, SharedOK
  <2>5. h \in HandlerRecord /\ h.pc = "logs" /\ h.poller = p /\ h.to = l.last /\ h.app = h0.app /\ h.from = from
    BY <1>3, <1>5, <1>6, <2>2, <2>4 DEF HandlerRecord
  <2>6. HandlerFits(h, head)
    BY <1>3, <1>5, <1>6, <2>4, <2>5 DEF HandlerFits
  <2>7. SharedOK'
    BY <1>7, <1>9, SharedStays DEF database, redis
  <2>8. QED
    BY <1>7, <1>9, <2>3, <2>6, <2>7, PartsFit, HandlerMoves, PollersStay, TypesFromParts
<1>10. CASE /\ Put(i, p, Listed(l, l.subs \cup {h0.app}))
            /\ passed' = Joined(l, l.subs \cup {h0.app})
            /\ handler' = [handler EXCEPT ![i] = Idle]
  <2>1. PollerFits(Listed(l, l.subs \cup {h0.app}), head)
    BY <1>5, <1>6, PartsFit, ListedFits
  <2>2. HandlerFits(Idle, head)
    BY PartsFit, IdleFits
  <2>3. passed' \in [App -> SUBSET (1 .. head)]
    BY <1>5, <1>10, PassTypes DEF Joined
  <2>4. SharedOK'
    BY <1>7, <2>3 DEF TypesOK, SharedOK, database, redis
  <2>5. PollersOK(head)' /\ HandlersOK(head)'
    BY <1>3, <1>7, <1>10, <2>1, <2>2, PollersPut, HandlerMoves
  <2>6. QED
    BY <1>7, <2>4, <2>5, PartsFit, TypesFromParts
<1>11. QED
  BY <1>1, <1>2, <1>4, <1>8, <1>9, <1>10 DEF JoinPoller

LEMMA SetProgressTypes ==
  ASSUME TypesOK, NEW i \in Instance, SetProgress(i)
  PROVE  TypesOK'
<1>1. PICK h : h = handler[i]
  OBVIOUS
<1>2. PICK l : l = poller[i][h.poller]
  OBVIOUS
<1>3. /\ h.to \in 0 .. head /\ h.app \in App /\ h.poller \in Slot
  BY <1>1, HandlerFacts DEF SetProgress, HandlerFits
<1>4. PollerFits(l, head) /\ l.subs \in SUBSET App /\ Reached(l) \in 0 .. head
  BY <1>2, <1>3, PollerFacts
<1>5. /\ progress' = Progressed({h.app}, h.to)
      /\ leapt' = Leap({h.app}, h.to)
      /\ origin' = IF h.to = 0 \/ holder[h.app] # i THEN origin ELSE Begin({h.app}, h.to)
      /\ passed' = Pass({h.app}, IF Reached(l) > h.to THEN Reached(l) ELSE h.to)
      /\ Put(i, h.poller, Listed(l, l.subs \cup {h.app}))
      /\ handler' = [handler EXCEPT ![i] = Idle]
      /\ UNCHANGED <<head, database, holder, published, manager, request, failed, disturbed>>
  BY <1>1, <1>2 DEF SetProgress
<1>6. progress' \in [App -> (0 .. head) \cup {None}]
  BY <1>3, <1>5 DEF Progressed, TypesOK, SharedOK
<1>7. origin' \in [App -> (0 .. head) \cup {None}]
  BY <1>3, <1>5 DEF Begin, TypesOK, SharedOK
<1>8. leapt' \in [App -> SUBSET (1 .. head)]
  BY <1>3, <1>5, LeapTypes
<1>9. passed' \in [App -> SUBSET (1 .. head)]
  BY <1>3, <1>4, <1>5, PassTypes
<1>10. SharedOK'
  BY <1>5, <1>6, <1>7, <1>8, <1>9 DEF TypesOK, SharedOK, database
<1>11. PollerFits(Listed(l, l.subs \cup {h.app}), head) /\ HandlerFits(Idle, head)
  BY <1>3, <1>4, PartsFit, ListedFits, IdleFits
<1>12. PollersOK(head)' /\ HandlersOK(head)'
  BY <1>3, <1>5, <1>11, PollersPut, HandlerMoves
<1>13. QED
  BY <1>5, <1>10, <1>12, PartsFit, TypesFromParts

LEMMA CatchUpLogsTypes ==
  ASSUME TypesOK, NEW i \in Instance, CatchUpLogs(i)
  PROVE  TypesOK'
<1>1. PICK h0 : h0 = handler[i]
  OBVIOUS
<1>2. PICK h : h = [h0 EXCEPT !.pc = "pipe"]
  OBVIOUS
<1>3. HandlerFits(h0, head) /\ h0 \in HandlerRecord /\ h0.pc = "logs"
  BY <1>1, HandlerFacts DEF CatchUpLogs
<1>4. /\ h \in HandlerRecord /\ h.pc = "pipe" /\ h.app = h0.app /\ h.poller = h0.poller
      /\ h.from = h0.from /\ h.to = h0.to
  BY <1>2, <1>3 DEF HandlerRecord
<1>5. HandlerFits(h, head)
  BY <1>3, <1>4 DEF HandlerFits
<1>6. /\ handler' = [handler EXCEPT ![i] = h]
      /\ UNCHANGED <<head, database, redis, manager, poller, request, history, disturbed>>
  BY <1>1, <1>2, PartsFit DEF CatchUpLogs, HandlersOK
<1>7. SharedOK'
  BY <1>6, SharedStays DEF database, redis, history
<1>8. QED
  BY <1>5, <1>6, <1>7, PartsFit, HandlerMoves, PollersStay, TypesFromParts

\* Where a batch of the catch-up ends.
LEMMA CatchUpEnds ==
  ASSUME TypesOK, NEW i \in Instance, NEW h, h = handler[i], h.pc = "pipe"
  PROVE  /\ h.from \in Nat /\ 1 <= h.from /\ h.to \in 0 .. head /\ h.app \in App /\ h.poller \in Slot
         /\ CatchUpEnd(h) \in Nat /\ h.from <= CatchUpEnd(h) /\ CatchUpEnd(h) <= h.to
         /\ CatchUpEnd(h) \in 0 .. head
<1>1. /\ h.from \in Nat /\ 1 <= h.from /\ h.to \in Nat /\ h.to \in 0 .. head /\ h.app \in App /\ h.poller \in Slot
      /\ h.from <= h.to /\ head \in Nat
  BY HandlerFacts, PartsFit DEF HandlerFits
<1>2. QED
  BY <1>1, Bounds DEF CatchUpEnd, Lesser

LEMMA CatchUpPipelineTypes ==
  ASSUME TypesOK, NEW i \in Instance, CatchUpPipeline(i)
  PROVE  TypesOK'
<1>1. PICK h0 : h0 = handler[i]
  OBVIOUS
<1>2. PICK end : end = CatchUpEnd(h0)
  OBVIOUS
<1>3. PICK l : l = poller[i][h0.poller]
  OBVIOUS
<1>4. /\ h0.from \in Nat /\ 1 <= h0.from /\ h0.to \in 0 .. head /\ h0.app \in App /\ h0.poller \in Slot
      /\ end \in Nat /\ end <= h0.to /\ end \in 0 .. head /\ end <= head
      /\ HandlerFits(h0, head) /\ h0 \in HandlerRecord /\ h0.pc = "pipe"
  BY <1>1, <1>2, CatchUpEnds, HandlerFacts, PartsFit DEF CatchUpPipeline
<1>5. PollerFits(l, head) /\ l.subs \in SUBSET App /\ Reached(l) \in 0 .. head
  BY <1>3, <1>4, PollerFacts
<1>6. /\ Publish(Events({h0.app}, h0.from, end), {h0.app}, end, end)
      /\ UNCHANGED <<head, database, holder, manager, request, failed, disturbed>>
  BY <1>1, <1>2 DEF CatchUpPipeline
<1>7. Events({h0.app}, h0.from, end) \subseteq App \X (1 .. head)
  BY <1>4, EventsTypes
<1>8. /\ published' \subseteq App \X (1 .. head)
      /\ progress' \in [App -> (0 .. head) \cup {None}]
      /\ origin' \in [App -> (0 .. head) \cup {None}]
      /\ leapt' \in [App -> SUBSET (1 .. head)]
  BY <1>4, <1>6, <1>7, PublishTypes
<1>9. CASE end < h0.to
  <2>1. PICK h : h = [h0 EXCEPT !.pc = "logs", !.from = end + 1]
    OBVIOUS
  <2>2. end + 1 \in 0 .. MaxBlock
    BY <1>4, <1>9, Bounds, Heads DEF TypesOK
  <2>3. /\ h \in HandlerRecord /\ h.pc = "logs" /\ h.app = h0.app /\ h.poller = h0.poller
        /\ h.from = end + 1 /\ h.to = h0.to
    BY <1>4, <2>1, <2>2 DEF HandlerRecord
  <2>4. HandlerFits(h, head)
    BY <1>4, <1>9, <2>3 DEF HandlerFits
  <2>5. UNCHANGED <<poller, passed>> /\ handler' = [handler EXCEPT ![i] = h]
    BY <1>1, <1>2, <1>9, <2>1, PartsFit DEF CatchUpPipeline, HandlersOK
  <2>6. SharedOK'
    BY <1>6, <1>8, <2>5 DEF TypesOK, SharedOK, database
  <2>7. QED
    BY <1>6, <2>4, <2>5, <2>6, PartsFit, HandlerMoves, PollersStay, TypesFromParts
<1>10. CASE ~(end < h0.to)
  <2>1. /\ handler' = [handler EXCEPT ![i] = Idle]
        /\ Put(i, h0.poller, Listed(l, l.subs \cup {h0.app}))
        /\ passed' = [passed EXCEPT ![h0.app] = @ \cup (end + 1 .. Reached(l))]
    BY <1>1, <1>2, <1>3, <1>10 DEF CatchUpPipeline
  <2>2. (end + 1 .. Reached(l)) \subseteq 1 .. head
    BY <1>4, <1>5, PartsFit
  <2>3. passed' \in [App -> SUBSET (1 .. head)]
    BY <2>1, <2>2 DEF TypesOK, SharedOK
  <2>4. SharedOK'
    BY <1>6, <1>8, <2>3 DEF TypesOK, SharedOK, database
  <2>5. PollerFits(Listed(l, l.subs \cup {h0.app}), head) /\ HandlerFits(Idle, head)
    BY <1>4, <1>5, PartsFit, ListedFits, IdleFits
  <2>6. PollersOK(head)' /\ HandlersOK(head)'
    BY <1>4, <1>6, <2>1, <2>5, PollersPut, HandlerMoves
  <2>7. QED
    BY <1>6, <2>4, <2>6, PartsFit, TypesFromParts
<1>11. QED
  BY <1>9, <1>10

LEMMA HandlerFailsTypes ==
  ASSUME TypesOK, NEW i \in Instance, HandlerFails(i)
  PROVE  TypesOK'
<1>1. /\ handler' = [handler EXCEPT ![i] = Idle]
      /\ UNCHANGED <<head, database, redis, manager, poller, request, history>>
  BY DEF HandlerFails
<1>2. disturbed' \in 0 .. MaxDisturbances
  BY DisturbTypes, RpcFailsTypes DEF HandlerFails, TypesOK
<1>3. SharedOK'
  BY <1>1, <1>2 DEF TypesOK, SharedOK, database, redis, history
<1>4. QED
  BY <1>1, <1>3, PartsFit, IdleFits, HandlerMoves, PollersStay, TypesFromParts

LEMMA HandleAppReleasedTypes ==
  ASSUME TypesOK, NEW i \in Instance, NEW a \in App, HandleAppReleased(i, a)
  PROVE  TypesOK'
<1>1. PICK m : m = manager[i]
  OBVIOUS
<1>2. m \in ManagerRecord
  BY <1>1, PartsFit
<1>3. UNCHANGED <<head, database, redis, handler, request, history, disturbed>>
  BY DEF HandleAppReleased
<1>4. SharedOK'
  BY <1>3, SharedStays DEF database, redis, history
<1>5. CASE m.current = None
  <2>1. manager' = [manager EXCEPT ![i].claimed = @ \ {a}] /\ UNCHANGED poller
    BY <1>1, <1>5 DEF HandleAppReleased
  <2>2. manager' \in [Instance -> ManagerRecord]
    BY <2>1, PartsFit DEF ManagerRecord
  <2>3. QED
    BY <1>3, <1>4, <2>1, <2>2, PartsFit, HandlersStay, PollersStay, TypesFromParts
<1>6. CASE m.current # None
  <2>1. PICK p : p = m.current
    OBVIOUS
  <2>2. p \in Slot
    BY <1>2, <1>6, <2>1 DEF ManagerRecord
  <2>3. PICK l : l = poller[i][p]
    OBVIOUS
  <2>4. PICK subs : subs = l.subs \ {a}
    OBVIOUS
  <2>5. PICK n : n = [m EXCEPT !.claimed = @ \ {a}, !.stored = @ \ {a},
                               !.current = IF subs = {} THEN None ELSE p]
    OBVIOUS
  <2>6. /\ manager' = [manager EXCEPT ![i] = n]
        /\ Put(i, p, IF subs = {} THEN Stopped(Listed(l, {})) ELSE Listed(l, subs))
    BY <1>1, <1>6, <2>1, <2>3, <2>4, <2>5 DEF HandleAppReleased
  <2>7. n \in ManagerRecord
    BY <1>2, <2>2, <2>5 DEF ManagerRecord
  <2>8. manager' \in [Instance -> ManagerRecord]
    BY <2>6, <2>7, PartsFit
  <2>9. PollerFits(l, head) /\ subs \in SUBSET App
    BY <2>2, <2>3, <2>4, PollerFacts
  <2>10. PollerFits(Listed(l, subs), head) /\ PollerFits(Stopped(Listed(l, {})), head)
    BY <2>9, PartsFit, ListedFits, StoppedFits
  <2>11. PollersOK(head)'
    BY <1>3, <2>2, <2>6, <2>10, PollersPut
  <2>12. QED
    BY <1>3, <1>4, <2>8, <2>11, PartsFit, HandlersStay, TypesFromParts
<1>7. QED
  BY <1>5, <1>6

LEMMA ReadRefreshTypes ==
  ASSUME TypesOK, NEW i \in Instance, ReadRefresh(i) \/ RefreshFails(i)
  PROVE  TypesOK'
<1>1. UNCHANGED <<head, database, redis, manager, poller, handler, history>>
  BY DEF ReadRefresh, RefreshFails
<1>2. disturbed' \in 0 .. MaxDisturbances
  BY DisturbTypes DEF ReadRefresh, RefreshFails, TypesOK, SharedOK
<1>3. SharedOK'
  BY <1>1, <1>2 DEF TypesOK, SharedOK, database, redis, history
<1>4. request' \in [Instance -> RefreshRecord \cup {None}]
  <2>1. CASE RefreshFails(i)
    BY <2>1, PartsFit DEF RefreshFails
  <2>2. CASE ReadRefresh(i)
    <3>1. PICK answer : answer = Answer
      OBVIOUS
    <3>2. PICK r : r = [request[i] EXCEPT !.data = answer]
      OBVIOUS
    <3>3. request[i] \in RefreshRecord /\ answer \in AnswerRecord
      BY <2>2, <3>1, PartsFit, AnswerTypes DEF ReadRefresh, TypesOK
    <3>4. r \in RefreshRecord
      BY <3>2, <3>3 DEF RefreshRecord
    <3>5. request' = [request EXCEPT ![i] = r]
      BY <2>2, <3>1, <3>2, PartsFit DEF ReadRefresh
    <3>6. QED
      BY <3>4, <3>5, PartsFit
  <2>3. QED
    BY <2>1, <2>2
<1>5. QED
  BY <1>1, <1>3, <1>4, PartsFit, HandlersStay, PollersStay, TypesFromParts

\* What a refresh has been answered.
LEMMA AnsweredTypes ==
  ASSUME TypesOK, NEW i \in Instance, NEW type, Answered(i, type), NEW data, data = request[i].data
  PROVE  data \in AnswerRecord /\ data.apps \in SUBSET App /\ data.chain \in 0 .. MaxChanges + 1
<1>1. request[i] \in RefreshRecord /\ data # None
  BY PartsFit DEF Answered
<1>2. data \in AnswerRecord
  BY <1>1 DEF RefreshRecord
<1>3. QED
  BY <1>2 DEF AnswerRecord

LEMMA RequestEnds ==
  ASSUME TypesOK, NEW i \in Instance, request' = [request EXCEPT ![i] = None]
  PROVE  request' \in [Instance -> RefreshRecord \cup {None}]
BY PartsFit

LEMMA RefreshSubscriptionsTypes ==
  ASSUME TypesOK, NEW i \in Instance, RefreshSubscriptions(i)
  PROVE  TypesOK'
<1>1. PICK m : m = manager[i]
  OBVIOUS
<1>2. PICK data : data = request[i].data
  OBVIOUS
<1>3. PICK subs : subs = data.apps \cap m.claimed
  OBVIOUS
<1>4. PICK p : p = m.current
  OBVIOUS
<1>5. PICK n : n = [m EXCEPT !.known = data.apps,
                             !.stored = IF subs = {} /\ m.chain = 0 THEN @ ELSE subs]
  OBVIOUS
<1>6. m \in ManagerRecord /\ data.apps \in SUBSET App /\ subs \in SUBSET App
  BY <1>1, <1>2, <1>3, PartsFit, AnsweredTypes DEF RefreshSubscriptions
<1>7. n \in ManagerRecord
  BY <1>5, <1>6 DEF ManagerRecord
<1>8. /\ manager' = [manager EXCEPT ![i] = n]
      /\ request' = [request EXCEPT ![i] = None]
      /\ UNCHANGED <<head, database, redis, handler, origin, leapt, failed, disturbed>>
  BY <1>1, <1>2, <1>3, <1>5 DEF RefreshSubscriptions
<1>9. /\ manager' \in [Instance -> ManagerRecord]
      /\ request' \in [Instance -> RefreshRecord \cup {None}]
  BY <1>7, <1>8, PartsFit, RequestEnds
<1>10. CASE UNCHANGED <<poller, passed>>
  <2>1. SharedOK'
    BY <1>8, <1>10, SharedStays DEF database, redis
  <2>2. QED
    BY <1>8, <1>9, <1>10, <2>1, HandlersStay, PollersStay, TypesFromParts
<1>11. CASE /\ p # None
            /\ Put(i, p, Listed(poller[i][p], subs))
            /\ passed' = Joined(poller[i][p], subs)
  <2>1. p \in Slot
    BY <1>4, <1>6, <1>11 DEF ManagerRecord
  <2>2. PICK l : l = poller[i][p]
    OBVIOUS
  <2>3. PollerFits(l, head) /\ Reached(l) \in 0 .. head
    BY <2>1, <2>2, PollerFacts
  <2>4. PollerFits(Listed(l, subs), head)
    BY <1>6, <2>3, PartsFit, ListedFits
  <2>5. passed' \in [App -> SUBSET (1 .. head)]
    BY <1>11, <2>2, <2>3, PassTypes DEF Joined
  <2>6. SharedOK'
    BY <1>8, <2>5 DEF TypesOK, SharedOK, database, redis
  <2>7. PollersOK(head)'
    BY <1>8, <1>11, <2>1, <2>2, <2>4, PollersPut
  <2>8. QED
    BY <1>8, <1>9, <2>6, <2>7, HandlersStay, TypesFromParts
<1>12. QED
  BY <1>1, <1>2, <1>3, <1>4, <1>10, <1>11 DEF RefreshSubscriptions

\* The pollers of an instance whose poller in the map, if there is one, is stopped.
LEMMA StoppedTypes ==
  ASSUME TypesOK, NEW i \in Instance, NEW c, c = manager[i].current, NEW rest,
         rest = (IF c = None THEN poller[i] ELSE [poller[i] EXCEPT ![c] = Stopped(@)])
  PROVE  rest \in [Slot -> PollerRecord] /\ \A q \in Slot : PollerFits(rest[q], head)
<1>1. poller[i] \in [Slot -> PollerRecord] /\ \A q \in Slot : PollerFits(poller[i][q], head)
  BY PartsFit DEF PollersOK
<1>2. CASE c = None
  BY <1>1, <1>2
<1>3. CASE c # None
  <2>1. c \in Slot
    BY <1>3, PartsFit DEF ManagerRecord
  <2>2. PICK k : k = Stopped(poller[i][c])
    OBVIOUS
  <2>3. PollerFits(k, head) /\ k \in PollerRecord
    BY <1>1, <2>1, <2>2, PartsFit, StoppedFits DEF PollerFits
  <2>4. rest = [poller[i] EXCEPT ![c] = k]
    BY <1>3, <2>2
  <2>5. QED
    BY <1>1, <2>1, <2>3, <2>4
<1>4. QED
  BY <1>2, <1>3

LEMMA PollersOfOne ==
  ASSUME TypesOK, NEW i \in Instance, NEW rest \in [Slot -> PollerRecord],
         \A q \in Slot : PollerFits(rest[q], head), poller' = [poller EXCEPT ![i] = rest], head' = head
  PROVE  PollersOK(head)'
<1>1. poller \in [Instance -> [Slot -> PollerRecord]]
      /\ \A j \in Instance, q \in Slot : PollerFits(poller[j][q], head)
  BY PartsFit DEF PollersOK
<1>2. poller' \in [Instance -> [Slot -> PollerRecord]]
      /\ \A j \in Instance, q \in Slot : PollerFits(poller'[j][q], head)
  BY <1>1
<1>3. QED
  BY <1>2 DEF PollersOK

LEMMA RefreshChainsTypes ==
  ASSUME TypesOK, NEW i \in Instance, RefreshChains(i)
  PROVE  TypesOK'
<1>1. PICK m : m = manager[i]
  OBVIOUS
<1>2. PICK data : data = request[i].data
  OBVIOUS
<1>3. PICK subs : subs = data.apps \cap m.claimed
  OBVIOUS
<1>4. PICK rest : rest = IF m.current = None THEN poller[i]
                         ELSE [poller[i] EXCEPT ![m.current] = Stopped(@)]
  OBVIOUS
<1>5. /\ m \in ManagerRecord /\ data.apps \in SUBSET App /\ data.chain \in 0 .. MaxChanges + 1
      /\ subs \in SUBSET App
  BY <1>1, <1>2, <1>3, PartsFit, AnsweredTypes DEF RefreshChains, ManagerRecord
<1>6. rest \in [Slot -> PollerRecord] /\ \A q \in Slot : PollerFits(rest[q], head)
  BY <1>1, <1>4, StoppedTypes
<1>7. /\ request' = [request EXCEPT ![i] = None]
      /\ UNCHANGED <<head, database, redis, handler, history, disturbed>>
  BY DEF RefreshChains
<1>8. SharedOK' /\ HandlersOK(head)' /\ request' \in [Instance -> RefreshRecord \cup {None}]
  BY <1>7, SharedStays, HandlersStay, RequestEnds DEF database, redis, history
<1>9. CASE /\ manager' = [manager EXCEPT ![i].known = data.apps]
           /\ UNCHANGED poller
  <2>1. PICK n : n = [m EXCEPT !.known = data.apps]
    OBVIOUS
  <2>2. n \in ManagerRecord
    BY <1>5, <2>1 DEF ManagerRecord
  <2>3. manager' \in [Instance -> ManagerRecord]
    BY <1>1, <1>9, <2>1, <2>2, PartsFit
  <2>4. QED
    BY <1>7, <1>8, <1>9, <2>3, PollersStay, TypesFromParts
<1>10. CASE /\ manager' = [manager EXCEPT ![i] =
                 [m EXCEPT !.known = data.apps, !.chain = 0, !.stored = {}, !.current = None]]
            /\ poller' = [poller EXCEPT ![i] = rest]
  <2>1. PICK n : n = [m EXCEPT !.known = data.apps, !.chain = 0, !.stored = {}, !.current = None]
    OBVIOUS
  <2>2. 0 \in 0 .. MaxChanges + 1
    BY Bounds
  <2>3. n \in ManagerRecord
    BY <1>5, <2>1, <2>2 DEF ManagerRecord
  <2>4. manager' \in [Instance -> ManagerRecord]
    BY <1>10, <2>1, <2>3, PartsFit
  <2>5. QED
    BY <1>6, <1>7, <1>8, <1>10, <2>4, PollersOfOne, TypesFromParts
<1>11. CASE \E p \in Slot :
              /\ manager' = [manager EXCEPT ![i] =
                   [m EXCEPT !.known = data.apps, !.chain = data.chain, !.stored = subs, !.current = p]]
              /\ poller' = [poller EXCEPT ![i] = [rest EXCEPT ![p] = Fresh(subs)]]
  <2>1. PICK p \in Slot :
              /\ manager' = [manager EXCEPT ![i] =
                   [m EXCEPT !.known = data.apps, !.chain = data.chain, !.stored = subs, !.current = p]]
              /\ poller' = [poller EXCEPT ![i] = [rest EXCEPT ![p] = Fresh(subs)]]
    BY <1>11
  <2>2. PICK n : n = [m EXCEPT !.known = data.apps, !.chain = data.chain, !.stored = subs, !.current = p]
    OBVIOUS
  <2>3. n \in ManagerRecord
    BY <1>5, <2>2 DEF ManagerRecord
  <2>4. manager' \in [Instance -> ManagerRecord]
    BY <2>1, <2>2, <2>3, PartsFit
  <2>5. PICK k : k = Fresh(subs)
    OBVIOUS
  <2>6. PollerFits(k, head) /\ k \in PollerRecord
    BY <1>5, <2>5, PartsFit, FreshFits DEF PollerFits
  <2>7. PICK all : all = [rest EXCEPT ![p] = k]
    OBVIOUS
  <2>8. all \in [Slot -> PollerRecord] /\ \A q \in Slot : PollerFits(all[q], head)
    BY <1>6, <2>6, <2>7
  <2>9. PollersOK(head)'
    BY <1>7, <2>1, <2>5, <2>7, <2>8, PollersOfOne
  <2>10. QED
    BY <1>8, <2>4, <2>9, TypesFromParts
<1>12. QED
  BY <1>1, <1>2, <1>3, <1>4, <1>9, <1>10, <1>11 DEF RefreshChains

LEMMA FullRefreshTypes ==
  ASSUME TypesOK, NEW i \in Instance, FullRefresh(i)
  PROVE  TypesOK'
<1>1. PICK m : m = manager[i]
  OBVIOUS
<1>2. PICK answer : answer = Answer
  OBVIOUS
<1>3. PICK n : n = [m EXCEPT !.known = answer.apps, !.chain = answer.chain, !.stored = {}, !.current = None]
  OBVIOUS
<1>4. /\ manager' = [manager EXCEPT ![i] = n]
      /\ poller' = IF m.current = None THEN poller ELSE [poller EXCEPT ![i][m.current] = Stopped(@)]
      /\ UNCHANGED <<head, database, redis, handler, request, history>>
  BY <1>1, <1>2, <1>3 DEF FullRefresh
<1>5. n \in ManagerRecord
  BY <1>1, <1>2, <1>3, PartsFit, AnswerTypes DEF ManagerRecord, TypesOK
<1>6. manager' \in [Instance -> ManagerRecord]
  BY <1>4, <1>5, PartsFit
<1>7. disturbed' \in 0 .. MaxDisturbances
  BY DisturbTypes DEF FullRefresh, TypesOK
<1>8. SharedOK'
  BY <1>4, <1>7 DEF TypesOK, SharedOK, database, redis, history
<1>9. PICK rest : rest = IF m.current = None THEN poller[i]
                         ELSE [poller[i] EXCEPT ![m.current] = Stopped(@)]
  OBVIOUS
<1>10. rest \in [Slot -> PollerRecord] /\ \A q \in Slot : PollerFits(rest[q], head)
  BY <1>1, <1>9, StoppedTypes
<1>11. poller' = [poller EXCEPT ![i] = rest]
  BY <1>4, <1>9, PartsFit DEF PollersOK
<1>12. QED
  BY <1>4, <1>6, <1>8, <1>10, <1>11, PartsFit, PollersOfOne, HandlersStay, TypesFromParts

LEMMA MineTypes ==
  ASSUME TypesOK, Mine
  PROVE  TypesOK'
<1>1. /\ head < MaxBlock /\ head' = head + 1
      /\ UNCHANGED <<database, redis, manager, poller, handler, request, history, disturbed>>
  BY DEF Mine
<1>2. head \in Nat /\ 1 <= head /\ MaxBlock \in Nat
  BY Heads, Bounds DEF TypesOK
<1>3. /\ head' \in Block /\ 1 .. head \subseteq 1 .. head' /\ 0 .. head \subseteq 0 .. head'
      /\ head <= head' /\ head' \in Nat
  BY <1>1, <1>2 DEF Block
<1>4. SharedOK'
  BY <1>1, <1>3 DEF TypesOK, SharedOK, database, redis, history
<1>5. \A l : PollerFits(l, head) => PollerFits(l, head')
  BY <1>2, <1>3 DEF PollerFits, PollerRecord
<1>6. PollersOK(head)'
  BY <1>1, <1>5, PartsFit DEF PollersOK
<1>7. \A h : HandlerFits(h, head) => HandlerFits(h, head')
  BY <1>2, <1>3 DEF HandlerFits, HandlerRecord
<1>8. HandlersOK(head)'
  BY <1>1, <1>7, PartsFit DEF HandlersOK
<1>9. QED
  BY <1>1, <1>4, <1>6, <1>8, PartsFit, TypesFromParts

LEMMA ChangeTypes ==
  ASSUME TypesOK, ChangeChain \/ \E a \in App : ChangeSubscription(a)
  PROVE  TypesOK'
<1>1. PICK type \in {"subscriptions", "chains"} : Signal(type)
  BY DEF ChangeChain, ChangeSubscription
<1>2. /\ active' \subseteq App /\ enabled' \in BOOLEAN /\ chain' \in {chain, chain + 1}
  BY DEF ChangeChain, ChangeSubscription, TypesOK, SharedOK
<1>3. /\ changes < MaxChanges /\ changes' = changes + 1
      /\ UNCHANGED <<head, redis, manager, poller, handler, history, disturbed>>
  BY <1>1 DEF Signal
<1>4. PICK heard \in SUBSET Instance :
        request' = [i \in Instance |-> IF i \in heard THEN [type |-> type, data |-> None] ELSE None]
  BY <1>1 DEF Signal
<1>5. PICK r : r = [type |-> type, data |-> None]
  OBVIOUS
<1>6. r \in RefreshRecord
  BY <1>5 DEF RefreshRecord
<1>7. request' \in [Instance -> RefreshRecord \cup {None}]
  BY <1>4, <1>5, <1>6
<1>8. changes' \in 0 .. MaxChanges /\ chain' \in 1 .. changes' + 1
  BY <1>2, <1>3, Bounds DEF TypesOK, SharedOK
<1>9. SharedOK'
  BY <1>2, <1>3, <1>8 DEF TypesOK, SharedOK, redis, history
<1>10. QED
  BY <1>3, <1>7, <1>9, PartsFit, HandlersStay, PollersStay, TypesFromParts

LEMMA LoseClaimTypes ==
  ASSUME TypesOK, NEW a \in App, LoseClaim(a)
  PROVE  TypesOK'
<1>1. /\ holder' = [holder EXCEPT ![a] = None]
      /\ UNCHANGED <<head, database, progress, published, manager, poller, handler, request, history>>
  BY DEF LoseClaim
<1>2. disturbed' \in 0 .. MaxDisturbances
  BY DisturbTypes DEF LoseClaim, TypesOK
<1>3. SharedOK'
  BY <1>1, <1>2 DEF TypesOK, SharedOK, database, history
<1>4. QED
  BY <1>1, <1>3, PartsFit, HandlersStay, PollersStay, TypesFromParts

LEMMA CrashTypes ==
  ASSUME TypesOK, NEW i \in Instance, Crash(i)
  PROVE  TypesOK'
<1>1. /\ holder' = [a \in App |-> IF holder[a] = i THEN None ELSE holder[a]]
      /\ manager' = [manager EXCEPT ![i] = Down]
      /\ poller' = [poller EXCEPT ![i] = [p \in Slot |-> Off]]
      /\ handler' = [handler EXCEPT ![i] = Idle]
      /\ request' = [request EXCEPT ![i] = None]
      /\ UNCHANGED <<head, database, progress, published, history>>
  BY DEF Crash
<1>2. disturbed' \in 0 .. MaxDisturbances
  BY DisturbTypes DEF Crash, TypesOK
<1>3. holder' \in [App -> Instance \cup {None}]
  BY <1>1 DEF TypesOK, SharedOK
<1>4. SharedOK'
  BY <1>1, <1>2, <1>3 DEF TypesOK, SharedOK, database, history
<1>5. manager' \in [Instance -> ManagerRecord] /\ request' \in [Instance -> RefreshRecord \cup {None}]
  BY <1>1, PartsFit, DownTypes
<1>6. PICK rest : rest = [p \in Slot |-> Off]
  OBVIOUS
<1>7. rest \in [Slot -> PollerRecord] /\ \A q \in Slot : PollerFits(rest[q], head)
  BY <1>6, PartsFit, OffFits
<1>8. PollersOK(head)' /\ HandlersOK(head)'
  BY <1>1, <1>6, <1>7, PartsFit, IdleFits, PollersOfOne, HandlerMoves
<1>9. QED
  BY <1>4, <1>5, <1>8, TypesFromParts

LEMMA TypesInit == ASSUME Init PROVE TypesOK
<1>1. head = 1 /\ head \in Nat /\ None \notin Nat
  BY Bounds DEF Init
<1>2. SharedOK
  BY <1>1, Bounds DEF Init, SharedOK, Block
<1>3. PollerFits(Off, head) /\ Off \in PollerRecord /\ HandlerFits(Idle, head) /\ Idle \in HandlerRecord
  BY <1>1, OffFits, IdleFits DEF HandlerFits
<1>4. InstancesOK
  BY <1>3, DownTypes DEF Init, InstancesOK
<1>5. QED
  BY <1>2, <1>4 DEF TypesOK

LEMMA TypesStep ==
  ASSUME TypesOK, [Next]_vars
  PROVE  TypesOK'
<1>1. ASSUME NEW i \in Instance, NEW p \in Slot,
             PollerStep(i, p) \/ StartFails(i, p) \/ CommandsFail(i, p) \/ PollFails(i, p)
      PROVE  TypesOK'
  BY <1>1, StartTargetTypes, StartMinTypes, PollTypes, ProcessLogsTypes, PublishEventsTypes, StartFailsTypes
     DEF PollerStep
<1>2. ASSUME NEW i \in Instance, Initialize(i) \/ HandlerStep(i) \/ RefreshStep(i)
      PROVE  TypesOK'
  BY <1>2, InitializeTypes, JoinByStartTypes, JoinPollerTypes, SetProgressTypes, CatchUpLogsTypes,
     CatchUpPipelineTypes, ReadRefreshTypes, RefreshSubscriptionsTypes, RefreshChainsTypes
     DEF HandlerStep, RefreshStep
<1>3. ASSUME NEW i \in Instance, HandlerFails(i) \/ RefreshFails(i) \/ FullRefresh(i) \/ Crash(i)
      PROVE  TypesOK'
  BY <1>3, HandlerFailsTypes, ReadRefreshTypes, FullRefreshTypes, CrashTypes
<1>4. ASSUME NEW i \in Instance, NEW a \in App, ClaimStep(i, a)
      PROVE  TypesOK'
  BY <1>4, ClaimTypes, HandleAppReleasedTypes DEF ClaimStep
<1>5. CASE UNCHANGED vars
  <2>1. UNCHANGED <<head, database, redis, manager, poller, handler, request, history, disturbed>>
    BY <1>5 DEF vars
  <2>2. SharedOK'
    BY <2>1, SharedStays DEF database, redis, history
  <2>3. QED
    BY <2>1, <2>2, PartsFit, HandlersStay, PollersStay, TypesFromParts
<1>6. QED
  BY <1>1, <1>2, <1>3, <1>4, <1>5, MineTypes, ChangeTypes, LoseClaimTypes DEF Next, Fault

LEMMA TypesHold == Spec => []TypesOK
<1>1. QED
  BY TypesInit, TypesStep, PTL DEF Spec

LEMMA TypesSay == ASSUME TypesOK PROVE TypeOK
<1>1. chain \in Nat
  BY Bounds DEF TypesOK, SharedOK
<1>2. \A i \in Instance, p \in Slot :
        LET l == poller[i][p]
        IN  l.last <= head /\ l.to <= l.target /\ l.target <= head
  BY DEF TypesOK, InstancesOK, PollerFits
<1>3. \A i \in Instance : handler[i].to <= head
  BY DEF TypesOK, InstancesOK, HandlerFits
<1>4. QED
  BY <1>1, <1>2, <1>3 DEF TypesOK, SharedOK, InstancesOK, TypeOK

\* Whatever the instances, applications and blocks: every variable has its type, and
\* nothing is published, asked for or written that has not been mined.  Models the
\* state of ChainManagerService, BlockPollerService and AppProgressService.
THEOREM TypeCorrect == Spec => []TypeOK
BY TypesHold, TypesSay, PTL

-----------------------------------------------------------------------------
(* Stopped pollers end                                                      *)

LEMMA RestEnds ==
  ASSUME NEW l, ~l.running
  PROVE  Rest(l) = Off /\ NextBatch(l) = Off
BY DEF Rest, NextBatch

\* A poller that goes on as k, after it was stopped.
EndsAs(l, k) == ~k.running /\ (k.pc # "off" => k.last = l.last)

LEMMA OffEnds == ASSUME NEW l PROVE EndsAs(l, Off)
BY DEF EndsAs, Off

LEMMA EndsOthers ==
  ASSUME TypesOK, poller' = poller, NEW i \in Instance, NEW p \in Slot, Ended(poller[i][p])
  PROVE  EndsAs(poller[i][p], poller'[i][p])
BY DEF Ended, EndsAs
LEMMA EndsListed ==
  ASSUME NEW l, PollerFits(l, head), Ended(l), NEW subs \in SUBSET App
  PROVE  /\ EndsAs(l, l) /\ EndsAs(l, Off) /\ EndsAs(l, Listed(l, subs)) /\ EndsAs(l, Stopped(l))
         /\ EndsAs(l, Stopped(Listed(l, subs)))
<1>1. l \in PollerRecord /\ l.pc # "off" /\ ~l.running
  BY DEF Ended, PollerFits
<1>2. EndsAs(l, l) /\ EndsAs(l, Off)
  BY <1>1 DEF EndsAs, Off
<1>3. PICK k : k = Listed(l, subs)
  OBVIOUS
<1>4. k.running = l.running /\ k.last = l.last /\ k.pc = l.pc /\ k \in PollerRecord
  BY <1>1, <1>3 DEF Listed, PollerRecord
<1>5. EndsAs(l, k) /\ EndsAs(l, Stopped(k)) /\ EndsAs(l, Stopped(l))
  BY <1>1, <1>2, <1>4 DEF EndsAs, Stopped, PollerRecord
<1>6. QED
  BY <1>2, <1>3, <1>5

\* What becomes of poller p of i when poller q of j goes on as k.
LEMMA EndsPut ==
  ASSUME TypesOK, NEW j \in Instance, NEW q \in Slot, NEW k, Put(j, q, k),
         NEW i \in Instance, NEW p \in Slot, Ended(poller[i][p]),
         (Ended(poller[j][q]) => EndsAs(poller[j][q], k))
  PROVE  EndsAs(poller[i][p], poller'[i][p])
<1>1. poller \in [Instance -> [Slot -> PollerRecord]]
  BY DEF TypesOK, InstancesOK
<1>2. CASE i = j /\ p = q
  <2>1. poller'[i][p] = k
    BY <1>1, <1>2 DEF Put
  <2>2. QED
    BY <1>2, <2>1
<1>3. CASE ~(i = j /\ p = q)
  <2>1. poller'[i][p] = poller[i][p]
    BY <1>1, <1>3 DEF Put
  <2>2. QED
    BY <2>1 DEF Ended, EndsAs
<1>4. QED
  BY <1>2, <1>3

LEMMA PollerEnds ==
  ASSUME TypesOK, NEW j \in Instance, NEW q \in Slot,
         PollerStep(j, q) \/ StartFails(j, q) \/ CommandsFail(j, q) \/ PollFails(j, q),
         NEW i \in Instance, NEW p \in Slot, Ended(poller[i][p])
  PROVE  EndsAs(poller[i][p], poller'[i][p])
<1>1. PICK l : l = poller[j][q]
  OBVIOUS
<1>2. PollerFits(l, head) /\ l \in PollerRecord
  BY <1>1, PollerFacts
<1>3. CASE StartTarget(j, q)
  <2>1. PICK k : k = [l EXCEPT !.pc = "min", !.target = head, !.filter = l.subs]
    OBVIOUS
  <2>2. Put(j, q, k)
    BY <1>1, <1>3, <2>1 DEF StartTarget
  <2>3. k.running = l.running /\ k.last = l.last
    BY <1>2, <2>1 DEF PollerRecord
  <2>4. QED
    BY <1>1, <2>2, <2>3, EndsPut DEF Ended, EndsAs
<1>4. CASE StartMin(j, q)
  <2>1. PICK k : k = [l EXCEPT !.last = StartBlock(l)]
    OBVIOUS
  <2>2. Put(j, q, Rest(k)) /\ k.running = l.running
    BY <1>1, <1>2, <1>4, <2>1 DEF StartMin, PollerRecord
  <2>3. Ended(l) => EndsAs(l, Rest(k))
    BY <2>2, RestEnds, OffEnds DEF Ended
  <2>4. QED
    BY <1>1, <2>2, <2>3, EndsPut
<1>5. CASE StartFails(j, q)
  <2>1. Put(j, q, Off)
    BY <1>5 DEF StartFails
  <2>2. QED
    BY <2>1, EndsPut, OffEnds
<1>6. CASE Poll(j, q)
  <2>1. PICK k : k = [l EXCEPT !.target = head]
    OBVIOUS
  <2>2. Put(j, q, NextBatch(k)) /\ k.running = l.running
    BY <1>1, <1>2, <1>6, <2>1 DEF Poll, PollerRecord
  <2>3. Ended(l) => EndsAs(l, NextBatch(k))
    BY <2>2, RestEnds, OffEnds DEF Ended
  <2>4. QED
    BY <1>1, <2>2, <2>3, EndsPut
<1>7. PICK k : k = [l EXCEPT !.last = l.to]
  OBVIOUS
<1>8. Ended(l) => EndsAs(l, NextBatch(k)) /\ EndsAs(l, Rest(l))
  <2>1. k.running = l.running
    BY <1>2, <1>7 DEF PollerRecord
  <2>2. QED
    BY <2>1, RestEnds, OffEnds DEF Ended
<1>9. CASE ProcessLogs(j, q)
  <2>1. PICK events : events = Events(l.filter \cap l.subs, l.last + 1, l.to)
    OBVIOUS
  <2>2. PICK apps : apps = {a \in l.subs : l.written[a] # l.to}
    OBVIOUS
  <2>3. Put(j, q, IF events = {} /\ apps = {} THEN NextBatch(k) ELSE Piped(l, events, apps))
    BY <1>1, <1>7, <1>9, <2>1, <2>2 DEF ProcessLogs, Piped
  <2>4. PICK m : m = Piped(l, events, apps)
    OBVIOUS
  <2>5. m.running = l.running /\ m.last = l.last
    BY <1>2, <2>4 DEF Piped, PollerRecord
  <2>6. Ended(l) => EndsAs(l, m)
    BY <2>5 DEF Ended, EndsAs
  <2>7. QED
    BY <1>1, <1>8, <2>3, <2>4, <2>6, EndsPut
<1>10. CASE PublishEventsWithProgress(j, q) \/ CommandsFail(j, q) \/ PollFails(j, q)
  <2>1. Put(j, q, NextBatch(k)) \/ Put(j, q, Rest(l))
    BY <1>1, <1>7, <1>10 DEF PublishEventsWithProgress, CommandsFail, PollFails
  <2>2. QED
    BY <1>1, <1>8, <2>1, EndsPut
<1>11. QED
  BY <1>3, <1>4, <1>5, <1>6, <1>9, <1>10 DEF PollerStep

LEMMA ListedEnds ==
  ASSUME TypesOK, NEW j \in Instance, NEW q \in Slot, NEW subs \in SUBSET App,
         NEW k \in {Listed(poller[j][q], subs), Stopped(Listed(poller[j][q], subs))}, Put(j, q, k),
         NEW i \in Instance, NEW p \in Slot, Ended(poller[i][p])
  PROVE  EndsAs(poller[i][p], poller'[i][p])
<1>1. PollerFits(poller[j][q], head)
  BY PollerFacts
<1>2. QED
  BY <1>1, EndsListed, EndsPut

LEMMA HandlerEnds ==
  ASSUME TypesOK, NEW j \in Instance, HandlerStep(j),
         NEW i \in Instance, NEW p \in Slot, Ended(poller[i][p])
  PROVE  EndsAs(poller[i][p], poller'[i][p])
<1>1. CASE poller' = poller
  BY <1>1, EndsOthers
<1>2. CASE JoinByStart(j)
  <2>1. PICK q \in Slot : Vacant(j, q) /\ Put(j, q, Fresh(manager[j].stored \cup {handler[j].app}))
    BY <1>2 DEF JoinByStart
  <2>2. poller[j][q].pc = "off"
    BY <2>1 DEF Vacant
  <2>3. QED
    BY <2>1, <2>2, EndsPut DEF Ended
<1>3. CASE JoinPoller(j)
  <2>1. PICK q : q = manager[j].current
    OBVIOUS
  <2>2. q \in Slot
    BY <1>3, <2>1, PartsFit DEF JoinPoller, ManagerRecord
  <2>3. PICK subs : subs = poller[j][q].subs \cup {handler[j].app}
    OBVIOUS
  <2>4. handler[j].app \in App /\ poller[j][q].subs \in SUBSET App
    BY <1>3, <2>2, HandlerFacts, PollerFacts DEF JoinPoller
  <2>5. poller' = poller \/ Put(j, q, Listed(poller[j][q], subs))
    BY <1>3, <2>1, <2>3 DEF JoinPoller
  <2>6. QED
    BY <1>1, <2>2, <2>3, <2>4, <2>5, ListedEnds
<1>4. CASE SetProgress(j) \/ CatchUpPipeline(j)
  <2>1. PICK q : q = handler[j].poller
    OBVIOUS
  <2>2. q \in Slot /\ handler[j].app \in App
    BY <1>4, <2>1, HandlerFacts DEF SetProgress, CatchUpPipeline, HandlerFits
  <2>3. PICK subs : subs = poller[j][q].subs \cup {handler[j].app}
    OBVIOUS
  <2>4. subs \in SUBSET App
    BY <2>2, <2>3, PollerFacts
  <2>5. poller' = poller \/ Put(j, q, Listed(poller[j][q], subs))
    BY <1>4, <2>1, <2>3 DEF SetProgress, CatchUpPipeline
  <2>6. QED
    BY <1>1, <2>2, <2>4, <2>5, ListedEnds
<1>5. CASE CatchUpLogs(j)
  BY <1>1, <1>5 DEF CatchUpLogs
<1>6. QED
  BY <1>2, <1>3, <1>4, <1>5 DEF HandlerStep

LEMMA RefreshEnds ==
  ASSUME TypesOK, NEW j \in Instance, RefreshStep(j) \/ FullRefresh(j),
         NEW i \in Instance, NEW p \in Slot, Ended(poller[i][p])
  PROVE  EndsAs(poller[i][p], poller'[i][p])
<1>1. CASE poller' = poller
  BY <1>1, EndsOthers
<1>2. CASE RefreshSubscriptions(j)
  <2>1. PICK q : q = manager[j].current
    OBVIOUS
  <2>2. PICK subs : subs = request[j].data.apps \cap manager[j].claimed
    OBVIOUS
  <2>3. subs \in SUBSET App
    BY <1>2, <2>2, AnsweredTypes DEF RefreshSubscriptions
  <2>4. poller' = poller \/ (q # None /\ Put(j, q, Listed(poller[j][q], subs)))
    BY <1>2, <2>1, <2>2 DEF RefreshSubscriptions
  <2>5. q = None \/ q \in Slot
    BY <2>1, PartsFit DEF ManagerRecord
  <2>6. QED
    BY <1>1, <2>3, <2>4, <2>5, ListedEnds
<1>3. PICK c : c = manager[j].current
  OBVIOUS
<1>4. PICK rest : rest = IF c = None THEN poller[j] ELSE [poller[j] EXCEPT ![c] = Stopped(@)]
  OBVIOUS
<1>5. /\ rest \in [Slot -> PollerRecord] /\ c \in Slot \cup {None}
      /\ \A q \in Slot : rest[q] = poller[j][q] \/ rest[q] = Stopped(poller[j][q])
  BY <1>3, <1>4, StoppedTypes, PartsFit DEF PollersOK, ManagerRecord
<1>6. poller \in [Instance -> [Slot -> PollerRecord]] /\ PollerFits(poller[i][p], head)
  BY PartsFit DEF PollersOK
<1>7. CASE poller' = [poller EXCEPT ![j] = rest]
  <2>1. poller'[i][p] = poller[i][p] \/ poller'[i][p] = Stopped(poller[i][p])
    BY <1>5, <1>6, <1>7
  <2>2. QED
    BY <1>6, <2>1, EndsListed
<1>8. CASE RefreshChains(j)
  <2>1. ASSUME NEW q \in Slot, NEW k, Vacant(j, q), poller' = [poller EXCEPT ![j] = [rest EXCEPT ![q] = k]]
        PROVE  EndsAs(poller[i][p], poller'[i][p])
    <3>1. Vacant(j, q) /\ poller' = [poller EXCEPT ![j] = [rest EXCEPT ![q] = k]]
      BY <2>1
    <3>2. poller[j][q].pc = "off"
      BY <3>1 DEF Vacant
    <3>3. ~(i = j /\ p = q)
      BY <3>2 DEF Ended
    <3>4. poller'[i][p] = poller[i][p] \/ poller'[i][p] = Stopped(poller[i][p])
      BY <1>5, <1>6, <3>1, <3>3
    <3>5. QED
      BY <1>6, <3>4, EndsListed
  <2>2. poller' = poller \/ poller' = [poller EXCEPT ![j] = rest]
        \/ \E q \in Slot : \E k : Vacant(j, q) /\ poller' = [poller EXCEPT ![j] = [rest EXCEPT ![q] = k]]
    BY <1>3, <1>4, <1>8 DEF RefreshChains
  <2>3. QED
    BY <1>1, <1>7, <2>1, <2>2
<1>9. CASE FullRefresh(j)
  <2>1. poller' = IF c = None THEN poller ELSE [poller EXCEPT ![j][c] = Stopped(@)]
    BY <1>3, <1>9 DEF FullRefresh
  <2>2. poller' = [poller EXCEPT ![j] = rest]
    BY <1>4, <1>5, <1>6, <2>1
  <2>3. QED
    BY <1>7, <2>2
<1>10. CASE ReadRefresh(j)
  BY <1>1, <1>10 DEF ReadRefresh
<1>11. QED
  BY <1>2, <1>8, <1>9, <1>10 DEF RefreshStep

LEMMA StepEnds ==
  ASSUME TypesOK, [Next]_vars, NEW i \in Instance, NEW p \in Slot, Ended(poller[i][p])
  PROVE  EndsAs(poller[i][p], poller'[i][p])
<1>1. CASE poller' = poller
  BY <1>1, EndsOthers
<1>2. ASSUME NEW j \in Instance, NEW a \in App, HandleAppReleased(j, a)
      PROVE  EndsAs(poller[i][p], poller'[i][p])
  <2>1. PICK q : q = manager[j].current
    OBVIOUS
  <2>2. PICK subs : subs = poller[j][q].subs \ {a}
    OBVIOUS
  <2>3. \/ poller' = poller
        \/ q # None /\ (\/ subs = {} /\ Put(j, q, Stopped(Listed(poller[j][q], {})))
                        \/ Put(j, q, Listed(poller[j][q], subs)))
    BY <1>2, <2>1, <2>2 DEF HandleAppReleased
  <2>4. q = None \/ q \in Slot
    BY <2>1, PartsFit DEF ManagerRecord
  <2>5. CASE poller' # poller
    <3>1. q \in Slot
      BY <2>3, <2>4, <2>5
    <3>2. subs \in SUBSET App /\ {} \in SUBSET App
      BY <2>2, <3>1, PollerFacts
    <3>3. QED
      BY <2>3, <2>5, <3>1, <3>2, ListedEnds
  <2>6. QED
    BY <1>1, <2>5
<1>3. ASSUME NEW j \in Instance, Crash(j)
      PROVE  EndsAs(poller[i][p], poller'[i][p])
  <2>1. poller'[i][p] = poller[i][p] \/ poller'[i][p] = Off
    BY <1>3, PartsFit DEF Crash, PollersOK
  <2>2. QED
    BY <2>1, OffEnds DEF Ended, EndsAs
<1>4. ASSUME NEW j \in Instance, NEW a \in App, ClaimStep(j, a)
      PROVE  EndsAs(poller[i][p], poller'[i][p])
  BY <1>1, <1>2, <1>4 DEF ClaimStep, Claim
<1>5. ASSUME NEW j \in Instance, Initialize(j) \/ HandlerStep(j) \/ RefreshStep(j)
      PROVE  EndsAs(poller[i][p], poller'[i][p])
  BY <1>1, <1>5, HandlerEnds, RefreshEnds DEF Initialize
<1>6. CASE Mine \/ ChangeChain \/ \E a \in App : ChangeSubscription(a)
  BY <1>1, <1>6 DEF Mine, ChangeChain, ChangeSubscription, Signal
<1>7. CASE Fault
  <2>1. CASE \E j \in Instance, q \in Slot : StartFails(j, q) \/ CommandsFail(j, q) \/ PollFails(j, q)
    BY <2>1, PollerEnds
  <2>2. CASE \E j \in Instance : HandlerFails(j) \/ RefreshFails(j) \/ FullRefresh(j) \/ Crash(j)
    BY <1>1, <1>3, <2>2, RefreshEnds DEF HandlerFails, RefreshFails
  <2>3. CASE \E a \in App : LoseClaim(a)
    BY <1>1, <2>3 DEF LoseClaim
  <2>4. QED
    BY <1>7, <2>1, <2>2, <2>3 DEF Fault
<1>8. CASE UNCHANGED vars
  BY <1>1, <1>8 DEF vars
<1>9. QED
  BY <1>4, <1>5, <1>6, <1>7, <1>8, PollerEnds DEF Next

LEMMA StepEndsAll ==
  ASSUME TypesOK, [Next]_vars
  PROVE  [\A i \in Instance, p \in Slot :
            Ended(poller[i][p]) =>
              /\ ~poller'[i][p].running
              /\ poller'[i][p].pc # "off" => poller'[i][p].last = poller[i][p].last]_vars
BY StepEnds DEF EndsAs

\* A poller that stop() was called for begins no other batch, and its position stays
\* where it is, whatever it still awaits: poll() looks at isRunning before each batch.
THEOREM StoppedEnd == Spec => StoppedPollersEnd
BY TypesHold, StepEndsAll, PTL DEF Spec, StoppedPollersEnd

-----------------------------------------------------------------------------
(* One poller                                                               *)

\* No poller is stopped while it is starting: without this its failure would delete
\* its successor from the map.
Unhasty == "hasty" \notin Disturbance

LEMMA BusyRests ==
  ASSUME NEW l \in PollerRecord, NEW k \in PollerRecord, k.running = l.running
  PROVE  /\ ~Busy(Off)
         /\ Busy(Rest(k)) => Busy(l)
         /\ Busy(NextBatch(k)) => Busy(l)
<1>1. ~Busy(Off)
  BY DEF Busy, Off
<1>2. CASE ~k.running
  BY <1>1, <1>2, RestEnds
<1>3. CASE k.running
  BY <1>1, <1>3 DEF Busy
<1>4. QED
  BY <1>2, <1>3 DEF PollerRecord

LEMMA BusyListed ==
  ASSUME NEW l \in PollerRecord, NEW subs \in SUBSET App
  PROVE  Busy(Listed(l, subs)) => Busy(l)
<1>1. PICK k : k = Listed(l, subs)
  OBVIOUS
<1>2. k.running = l.running /\ k.pc = l.pc
  BY <1>1 DEF Listed, PollerRecord
<1>3. QED
  BY <1>1, <1>2 DEF Busy

LEMMA BusyStopped ==
  ASSUME NEW l \in PollerRecord, l.pc \notin {"start", "min"}
  PROVE  ~Busy(Stopped(l))
BY DEF Busy, Stopped, Off, PollerRecord

\* One poller goes on as k, and is not started by that.
LEMMA BusyPut ==
  ASSUME TypesOK, BusyInMap, NEW i \in Instance, NEW p \in Slot, NEW k, Put(i, p, k),
         Busy(k) => Busy(poller[i][p]), \A j \in Instance : manager'[j].current = manager[j].current
  PROVE  BusyInMap'
<1>1. poller \in [Instance -> [Slot -> PollerRecord]]
  BY PartsFit DEF PollersOK
<1>2. \A j \in Instance, q \in Slot : Busy(poller'[j][q]) => Busy(poller[j][q])
  BY <1>1 DEF Put
<1>3. SUFFICES ASSUME NEW j \in Instance, NEW q \in Slot, Busy(poller'[j][q])
               PROVE  manager'[j].current = q
  BY DEF BusyInMap, Busy
<1>4. QED
  BY <1>2, <1>3 DEF BusyInMap

LEMMA BusyStays ==
  ASSUME BusyInMap, poller' = poller, \A j \in Instance : manager'[j].current = manager[j].current
  PROVE  BusyInMap'
BY DEF BusyInMap, Busy

\* The pollers of one instance change, and then the only one that is busy is in the map.
LEMMA BusyOfOne ==
  ASSUME TypesOK, BusyInMap, NEW i \in Instance, NEW all, poller' = [poller EXCEPT ![i] = all],
         NEW n, manager' = [manager EXCEPT ![i] = n],
         \A q \in Slot : Busy(all[q]) => n.current = q
  PROVE  BusyInMap'
<1>1. poller \in [Instance -> [Slot -> PollerRecord]] /\ manager \in [Instance -> ManagerRecord]
  BY PartsFit DEF PollersOK
<1>2. SUFFICES ASSUME NEW j \in Instance, NEW q \in Slot, Busy(poller'[j][q])
               PROVE  manager'[j].current = q
  BY DEF BusyInMap, Busy
<1>3. CASE j = i
  BY <1>1, <1>2, <1>3
<1>4. CASE j # i
  BY <1>1, <1>2, <1>4 DEF BusyInMap
<1>5. QED
  BY <1>3, <1>4

LEMMA BusyPoller ==
  ASSUME TypesOK, BusyInMap, NEW i \in Instance, NEW p \in Slot,
         PollerStep(i, p) \/ CommandsFail(i, p) \/ PollFails(i, p)
  PROVE  BusyInMap'
<1>1. PICK l : l = poller[i][p]
  OBVIOUS
<1>2. PollerFits(l, head) /\ l \in PollerRecord /\ head \in 0 .. MaxBlock
      /\ l.to \in 0 .. MaxBlock /\ l.subs \in SUBSET App
  BY <1>1, PollerFacts, Heads DEF TypesOK
<1>3. manager' = manager
  BY DEF PollerStep, StartTarget, StartMin, Poll, ProcessLogs, PublishEventsWithProgress, CommandsFail, PollFails
<1>4. CASE StartTarget(i, p)
  <2>1. PICK k : k = [l EXCEPT !.pc = "min", !.target = head, !.filter = l.subs]
    OBVIOUS
  <2>2. Put(i, p, k) /\ l.pc = "start"
    BY <1>1, <1>4, <2>1 DEF StartTarget
  <2>3. Busy(l)
    BY <2>2 DEF Busy
  <2>4. QED
    BY <1>1, <1>3, <2>2, <2>3, BusyPut
<1>5. CASE StartMin(i, p)
  <2>1. PICK k : k = [l EXCEPT !.last = StartBlock(l)]
    OBVIOUS
  <2>2. Put(i, p, Rest(k)) /\ l.pc = "min"
    BY <1>1, <1>5, <2>1 DEF StartMin
  <2>3. Busy(l)
    BY <2>2 DEF Busy
  <2>4. QED
    BY <1>1, <1>3, <2>2, <2>3, BusyPut
<1>6. CASE Poll(i, p)
  <2>1. PICK k : k = [l EXCEPT !.target = head]
    OBVIOUS
  <2>2. Put(i, p, NextBatch(k))
    BY <1>1, <1>6, <2>1 DEF Poll
  <2>3. k \in PollerRecord /\ k.running = l.running
    BY <1>2, <2>1 DEF PollerRecord
  <2>4. QED
    BY <1>1, <1>2, <1>3, <2>2, <2>3, BusyRests, BusyPut
<1>7. PICK k : k = [l EXCEPT !.last = l.to]
  OBVIOUS
<1>8. k \in PollerRecord /\ k.running = l.running
  BY <1>2, <1>7 DEF PollerRecord
<1>9. (Busy(NextBatch(k)) => Busy(l)) /\ (Busy(Rest(l)) => Busy(l))
  BY <1>2, <1>8, BusyRests
<1>10. CASE ProcessLogs(i, p)
  <2>1. PICK events : events = Events(l.filter \cap l.subs, l.last + 1, l.to)
    OBVIOUS
  <2>2. PICK apps : apps = {a \in l.subs : l.written[a] # l.to}
    OBVIOUS
  <2>3. Put(i, p, IF events = {} /\ apps = {} THEN NextBatch(k) ELSE Piped(l, events, apps))
    BY <1>1, <1>7, <1>10, <2>1, <2>2 DEF ProcessLogs, Piped
  <2>4. PICK m : m = Piped(l, events, apps)
    OBVIOUS
  <2>5. m.running = l.running /\ m.pc = "pipe"
    BY <1>2, <2>4 DEF Piped, PollerRecord
  <2>6. Busy(m) => Busy(l)
    BY <2>5 DEF Busy
  <2>7. QED
    BY <1>1, <1>3, <1>9, <2>3, <2>4, <2>6, BusyPut
<1>11. CASE PublishEventsWithProgress(i, p) \/ CommandsFail(i, p) \/ PollFails(i, p)
  <2>1. Put(i, p, NextBatch(k)) \/ Put(i, p, Rest(l))
    BY <1>1, <1>7, <1>11 DEF PublishEventsWithProgress, CommandsFail, PollFails
  <2>2. QED
    BY <1>1, <1>3, <1>9, <2>1, BusyPut
<1>12. QED
  BY <1>4, <1>5, <1>6, <1>10, <1>11 DEF PollerStep

LEMMA BusyStartFails ==
  ASSUME TypesOK, BusyInMap, NEW i \in Instance, NEW p \in Slot, StartFails(i, p)
  PROVE  BusyInMap'
<1>1. PICK n : n = [manager[i] EXCEPT !.current = None]
  OBVIOUS
<1>2. PICK all : all = [poller[i] EXCEPT ![p] = Off]
  OBVIOUS
<1>3. manager' = [manager EXCEPT ![i] = n] /\ poller' = [poller EXCEPT ![i] = all]
  BY <1>1, <1>2, PartsFit DEF StartFails, Put, PollersOK
<1>4. Busy(poller[i][p]) /\ ~Busy(Off)
  BY DEF StartFails, Busy, Off
<1>5. \A q \in Slot : ~Busy(all[q])
  BY <1>2, <1>4, PartsFit DEF BusyInMap, PollersOK
<1>6. QED
  BY <1>3, <1>5, BusyOfOne

LEMMA BusyHandler ==
  ASSUME TypesOK, BusyInMap, NEW i \in Instance, HandlerStep(i)
  PROVE  BusyInMap'
<1>1. CASE JoinByStart(i)
  <2>1. PICK subs : subs = manager[i].stored \cup {handler[i].app}
    OBVIOUS
  <2>2. PICK p \in Slot : /\ manager' = [manager EXCEPT ![i].stored = subs, ![i].current = p]
                          /\ Put(i, p, Fresh(subs))
    BY <1>1, <2>1 DEF JoinByStart
  <2>3. PICK n : n = [manager[i] EXCEPT !.stored = subs, !.current = p]
    OBVIOUS
  <2>4. PICK all : all = [poller[i] EXCEPT ![p] = Fresh(subs)]
    OBVIOUS
  <2>5. manager' = [manager EXCEPT ![i] = n] /\ poller' = [poller EXCEPT ![i] = all]
    BY <2>2, <2>3, <2>4, PartsFit DEF Put, PollersOK
  <2>6. n.current = p
    BY <2>3, PartsFit DEF ManagerRecord
  <2>7. ASSUME NEW q \in Slot, q # p PROVE ~Busy(all[q])
    <3>1. all[q] = poller[i][q]
      BY <2>4, <2>7, PartsFit DEF PollersOK
    <3>2. manager[i].current = None /\ None \notin Slot
      BY <1>1, Bounds DEF JoinByStart
    <3>3. QED
      BY <3>1, <3>2 DEF BusyInMap
  <2>8. QED
    BY <2>5, <2>6, <2>7, BusyOfOne
<1>2. CASE JoinPoller(i)
  <2>1. PICK p : p = manager[i].current
    OBVIOUS
  <2>2. p \in Slot
    BY <1>2, <2>1, PartsFit DEF JoinPoller, ManagerRecord
  <2>3. PICK subs : subs = poller[i][p].subs \cup {handler[i].app}
    OBVIOUS
  <2>4. handler[i].app \in App /\ poller[i][p].subs \in SUBSET App /\ poller[i][p] \in PollerRecord
    BY <1>2, <2>2, HandlerFacts, PollerFacts DEF JoinPoller
  <2>5. manager' = manager /\ (poller' = poller \/ Put(i, p, Listed(poller[i][p], subs)))
    BY <1>2, <2>1, <2>3 DEF JoinPoller
  <2>6. QED
    BY <2>2, <2>3, <2>4, <2>5, BusyListed, BusyPut, BusyStays
<1>3. CASE SetProgress(i) \/ CatchUpPipeline(i)
  <2>1. PICK p : p = handler[i].poller
    OBVIOUS
  <2>2. p \in Slot /\ handler[i].app \in App
    BY <1>3, <2>1, HandlerFacts DEF SetProgress, CatchUpPipeline, HandlerFits
  <2>3. PICK subs : subs = poller[i][p].subs \cup {handler[i].app}
    OBVIOUS
  <2>4. subs \in SUBSET App /\ poller[i][p] \in PollerRecord
    BY <2>2, <2>3, PollerFacts
  <2>5. manager' = manager /\ (poller' = poller \/ Put(i, p, Listed(poller[i][p], subs)))
    BY <1>3, <2>1, <2>3 DEF SetProgress, CatchUpPipeline
  <2>6. QED
    BY <2>2, <2>4, <2>5, BusyListed, BusyPut, BusyStays
<1>4. CASE CatchUpLogs(i)
  BY <1>4, BusyStays DEF CatchUpLogs
<1>5. QED
  BY <1>1, <1>2, <1>3, <1>4 DEF HandlerStep

\* What is stopped is not starting, so nobody is left that is busy.
LEMMA BusyStop ==
  ASSUME TypesOK, BusyInMap, Unhasty, NEW i \in Instance, MayStop(i), NEW c, c = manager[i].current, NEW rest,
         rest = (IF c = None THEN poller[i] ELSE [poller[i] EXCEPT ![c] = Stopped(@)])
  PROVE  \A q \in Slot : ~Busy(rest[q])
<1>1. poller[i] \in [Slot -> PollerRecord] /\ c \in Slot \cup {None} /\ None \notin Slot
  BY PartsFit, Bounds DEF PollersOK, ManagerRecord
<1>2. SUFFICES ASSUME NEW q \in Slot PROVE ~Busy(rest[q])
  OBVIOUS
<1>3. CASE q # c
  <2>1. rest[q] = poller[i][q]
    BY <1>1, <1>3
  <2>2. QED
    BY <1>3, <2>1 DEF BusyInMap
<1>4. CASE q = c
  <2>1. rest[q] = Stopped(poller[i][q])
    BY <1>1, <1>4
  <2>2. poller[i][q].pc \notin {"start", "min"}
    BY <1>4 DEF MayStop, Unhasty
  <2>3. QED
    BY <1>1, <2>1, <2>2, BusyStopped
<1>5. QED
  BY <1>3, <1>4

LEMMA BusyReleased ==
  ASSUME TypesOK, BusyInMap, Unhasty, NEW i \in Instance, NEW a \in App, HandleAppReleased(i, a)
  PROVE  BusyInMap'
<1>1. PICK m : m = manager[i]
  OBVIOUS
<1>2. CASE m.current = None
  <2>1. manager' = [manager EXCEPT ![i].claimed = @ \ {a}] /\ UNCHANGED poller
    BY <1>1, <1>2 DEF HandleAppReleased
  <2>2. \A j \in Instance : manager'[j].current = manager[j].current
    BY <2>1, PartsFit DEF ManagerRecord
  <2>3. QED
    BY <2>1, <2>2, BusyStays
<1>3. CASE m.current # None
  <2>1. PICK p : p = m.current
    OBVIOUS
  <2>2. p \in Slot /\ m \in ManagerRecord
    BY <1>1, <1>3, <2>1, PartsFit DEF ManagerRecord
  <2>3. PICK l : l = poller[i][p]
    OBVIOUS
  <2>4. PICK subs : subs = l.subs \ {a}
    OBVIOUS
  <2>5. PICK n : n = [m EXCEPT !.claimed = @ \ {a}, !.stored = @ \ {a},
                               !.current = IF subs = {} THEN None ELSE p]
    OBVIOUS
  <2>6. PICK k : k = IF subs = {} THEN Stopped(Listed(l, {})) ELSE Listed(l, subs)
    OBVIOUS
  <2>7. manager' = [manager EXCEPT ![i] = n] /\ Put(i, p, k)
    BY <1>1, <1>3, <2>1, <2>3, <2>4, <2>5, <2>6 DEF HandleAppReleased
  <2>8. PICK all : all = [poller[i] EXCEPT ![p] = k]
    OBVIOUS
  <2>9. poller' = [poller EXCEPT ![i] = all]
    BY <2>7, <2>8, PartsFit DEF Put, PollersOK
  <2>10. n.current = IF subs = {} THEN None ELSE p
    BY <2>2, <2>5 DEF ManagerRecord
  <2>11. ASSUME NEW q \in Slot, q # p PROVE ~Busy(all[q])
    <3>1. all[q] = poller[i][q]
      BY <2>8, <2>11, PartsFit DEF PollersOK
    <3>2. QED
      BY <1>1, <2>1, <2>11, <3>1 DEF BusyInMap
  <2>12. CASE subs = {}
    <3>1. l \in PollerRecord /\ PollerFits(l, head) /\ head \in Nat
      BY <2>2, <2>3, PollerFacts, PartsFit
    <3>2. PICK e : e = Listed(l, {})
      OBVIOUS
    <3>3. e \in PollerRecord /\ e.pc = l.pc
      BY <3>1, <3>2 DEF Listed, PollerRecord
    <3>4. l.pc \notin {"start", "min"}
      BY <1>1, <2>1, <2>2, <2>3 DEF HandleAppReleased, MayStop, Unhasty
    <3>5. ~Busy(k)
      BY <2>6, <2>12, <3>2, <3>3, <3>4, BusyStopped
    <3>6. all[p] = k
      BY <2>2, <2>8, PartsFit DEF PollersOK
    <3>7. \A q \in Slot : ~Busy(all[q])
      BY <2>11, <3>5, <3>6
    <3>8. QED
      BY <2>7, <2>9, <3>7, BusyOfOne
  <2>13. CASE subs # {}
    BY <2>7, <2>9, <2>10, <2>11, <2>13, BusyOfOne
  <2>14. QED
    BY <2>12, <2>13
<1>4. QED
  BY <1>2, <1>3

LEMMA BusyRefresh ==
  ASSUME TypesOK, BusyInMap, Unhasty, NEW i \in Instance, RefreshStep(i) \/ FullRefresh(i)
  PROVE  BusyInMap'
<1>1. PICK m : m = manager[i]
  OBVIOUS
<1>2. PICK data : data = request[i].data
  OBVIOUS
<1>3. PICK subs : subs = data.apps \cap m.claimed
  OBVIOUS
<1>4. PICK rest : rest = IF m.current = None THEN poller[i]
                         ELSE [poller[i] EXCEPT ![m.current] = Stopped(@)]
  OBVIOUS
<1>5. m \in ManagerRecord
  BY <1>1, PartsFit
<1>6. MayStop(i) => \A q \in Slot : ~Busy(rest[q])
  BY <1>1, <1>4, BusyStop
<1>7. CASE RefreshSubscriptions(i)
  <2>1. PICK p : p = m.current
    OBVIOUS
  <2>2. subs \in SUBSET App
    BY <1>2, <1>3, <1>7, AnsweredTypes DEF RefreshSubscriptions
  <2>3. poller' = poller \/ (p # None /\ Put(i, p, Listed(poller[i][p], subs)))
    BY <1>1, <1>2, <1>3, <1>7, <2>1 DEF RefreshSubscriptions
  <2>4. PICK n : n = [m EXCEPT !.known = data.apps,
                               !.stored = IF subs = {} /\ m.chain = 0 THEN @ ELSE subs]
    OBVIOUS
  <2>5. manager' = [manager EXCEPT ![i] = n]
    BY <1>1, <1>2, <1>3, <1>7, <2>4 DEF RefreshSubscriptions
  <2>6. n.current = m.current
    BY <1>5, <2>4 DEF ManagerRecord
  <2>7. \A j \in Instance : manager'[j].current = manager[j].current
    BY <1>1, <2>5, <2>6, PartsFit
  <2>8. p = None \/ (p \in Slot /\ poller[i][p] \in PollerRecord)
    BY <1>5, <2>1, PartsFit DEF ManagerRecord, PollersOK
  <2>9. QED
    BY <2>2, <2>3, <2>7, <2>8, BusyListed, BusyPut, BusyStays
<1>8. CASE RefreshChains(i)
  <2>1. CASE /\ manager' = [manager EXCEPT ![i].known = data.apps]
             /\ UNCHANGED poller
    <3>1. \A j \in Instance : manager'[j].current = manager[j].current
      BY <2>1, PartsFit DEF ManagerRecord
    <3>2. QED
      BY <2>1, <3>1, BusyStays
  <2>2. CASE /\ MayStop(i)
             /\ manager' = [manager EXCEPT ![i] =
                  [m EXCEPT !.known = data.apps, !.chain = 0, !.stored = {}, !.current = None]]
             /\ poller' = [poller EXCEPT ![i] = rest]
    <3>1. PICK n : n = [m EXCEPT !.known = data.apps, !.chain = 0, !.stored = {}, !.current = None]
      OBVIOUS
    <3>2. QED
      BY <1>6, <2>2, <3>1, BusyOfOne
  <2>3. CASE /\ MayStop(i)
             /\ \E p \in Slot :
               /\ manager' = [manager EXCEPT ![i] =
                    [m EXCEPT !.known = data.apps, !.chain = data.chain, !.stored = subs, !.current = p]]
               /\ poller' = [poller EXCEPT ![i] = [rest EXCEPT ![p] = Fresh(subs)]]
    <3>1. PICK p \in Slot :
               /\ manager' = [manager EXCEPT ![i] =
                    [m EXCEPT !.known = data.apps, !.chain = data.chain, !.stored = subs, !.current = p]]
               /\ poller' = [poller EXCEPT ![i] = [rest EXCEPT ![p] = Fresh(subs)]]
      BY <2>3
    <3>2. PICK n : n = [m EXCEPT !.known = data.apps, !.chain = data.chain, !.stored = subs, !.current = p]
      OBVIOUS
    <3>3. PICK all : all = [rest EXCEPT ![p] = Fresh(subs)]
      OBVIOUS
    <3>4. n.current = p
      BY <1>5, <3>2 DEF ManagerRecord
    <3>5. rest \in [Slot -> PollerRecord]
      BY <1>1, <1>4, StoppedTypes
    <3>6. \A q \in Slot : Busy(all[q]) => q = p
      BY <1>6, <2>3, <3>3, <3>5
    <3>7. QED
      BY <3>1, <3>2, <3>3, <3>4, <3>6, BusyOfOne
  <2>4. QED
    BY <1>1, <1>2, <1>3, <1>4, <1>8, <2>1, <2>2, <2>3 DEF RefreshChains
<1>9. CASE FullRefresh(i)
  <2>1. PICK answer : answer = Answer
    OBVIOUS
  <2>2. PICK n : n = [m EXCEPT !.known = answer.apps, !.chain = answer.chain, !.stored = {}, !.current = None]
    OBVIOUS
  <2>3. /\ MayStop(i) /\ manager' = [manager EXCEPT ![i] = n]
        /\ poller' = IF m.current = None THEN poller ELSE [poller EXCEPT ![i][m.current] = Stopped(@)]
    BY <1>1, <1>9, <2>1, <2>2 DEF FullRefresh
  <2>4. poller' = [poller EXCEPT ![i] = rest]
    BY <1>4, <2>3, PartsFit DEF PollersOK
  <2>5. QED
    BY <1>6, <2>3, <2>4, BusyOfOne
<1>10. CASE ReadRefresh(i)
  BY <1>10, BusyStays DEF ReadRefresh
<1>11. QED
  BY <1>7, <1>8, <1>9, <1>10 DEF RefreshStep

LEMMA BusyUpAndDown ==
  ASSUME TypesOK, BusyInMap, DownRests, NEW i \in Instance, Initialize(i) \/ Crash(i)
  PROVE  BusyInMap'
<1>1. CASE Crash(i)
  <2>1. PICK all : all = [p \in Slot |-> Off]
    OBVIOUS
  <2>2. PICK n : n = Down
    OBVIOUS
  <2>3. manager' = [manager EXCEPT ![i] = n] /\ poller' = [poller EXCEPT ![i] = all]
    BY <1>1, <2>1, <2>2 DEF Crash
  <2>4. ~Busy(Off)
    BY DEF Busy, Off
  <2>5. \A q \in Slot : ~Busy(all[q])
    BY <2>1, <2>4
  <2>6. QED
    BY <2>3, <2>5, BusyOfOne
<1>2. CASE Initialize(i)
  <2>1. PICK answer : answer = Answer
    OBVIOUS
  <2>2. PICK n : n = [Down EXCEPT !.up = TRUE, !.known = answer.apps, !.chain = answer.chain]
    OBVIOUS
  <2>3. manager' = [manager EXCEPT ![i] = n] /\ poller' = poller /\ ~manager[i].up
    BY <1>2, <2>1, <2>2 DEF Initialize
  <2>4. n.current = None /\ manager[i].current = None
    BY <2>2, <2>3 DEF Down, DownRests
  <2>5. \A j \in Instance : manager'[j].current = manager[j].current
    BY <2>3, <2>4, PartsFit
  <2>6. QED
    BY <2>3, <2>5, BusyStays
<1>3. QED
  BY <1>1, <1>2

LEMMA BusyStep ==
  ASSUME TypesOK, MapOK, Unhasty, [Next]_vars
  PROVE  BusyInMap'
<1>1. BusyInMap /\ DownRests
  BY DEF MapOK
<1>2. ASSUME UNCHANGED <<poller, manager>> PROVE BusyInMap'
  BY <1>1, <1>2, BusyStays
<1>3. ASSUME NEW i \in Instance, NEW a \in App, ClaimStep(i, a)
      PROVE  BusyInMap'
  <2>1. CASE Claim(i, a)
    <3>1. poller' = poller /\ manager' = [manager EXCEPT ![i].claimed = @ \cup {a}]
      BY <2>1 DEF Claim
    <3>2. \A j \in Instance : manager'[j].current = manager[j].current
      BY <3>1, PartsFit DEF ManagerRecord
    <3>3. QED
      BY <1>1, <3>1, <3>2, BusyStays
  <2>2. QED
    BY <1>1, <1>3, <2>1, BusyReleased DEF ClaimStep
<1>4. ASSUME NEW i \in Instance, Initialize(i) \/ HandlerStep(i) \/ RefreshStep(i)
      PROVE  BusyInMap'
  BY <1>1, <1>4, BusyUpAndDown, BusyHandler, BusyRefresh
<1>5. CASE Mine \/ ChangeChain \/ \E a \in App : ChangeSubscription(a)
  BY <1>2, <1>5 DEF Mine, ChangeChain, ChangeSubscription, Signal
<1>6. CASE Fault
  <2>1. CASE \E i \in Instance, p \in Slot : StartFails(i, p) \/ CommandsFail(i, p) \/ PollFails(i, p)
    BY <1>1, <2>1, BusyStartFails, BusyPoller
  <2>2. CASE \E i \in Instance : HandlerFails(i) \/ RefreshFails(i) \/ FullRefresh(i) \/ Crash(i)
    BY <1>1, <1>2, <2>2, BusyRefresh, BusyUpAndDown DEF HandlerFails, RefreshFails
  <2>3. CASE \E a \in App : LoseClaim(a)
    BY <1>2, <2>3 DEF LoseClaim
  <2>4. QED
    BY <1>6, <2>1, <2>2, <2>3 DEF Fault
<1>7. CASE UNCHANGED vars
  BY <1>2, <1>7 DEF vars
<1>8. ASSUME NEW i \in Instance, NEW p \in Slot, PollerStep(i, p) PROVE BusyInMap'
  BY <1>1, <1>8, BusyPoller
<1>9. QED
  BY <1>3, <1>4, <1>5, <1>6, <1>7, <1>8 DEF Next

\* A step of an instance that is up, and stays so.
LEMMA DownBeside ==
  ASSUME DownRests, NEW i \in Instance, manager'[i].up,
         \A j \in Instance \ {i} :
           manager'[j] = manager[j] /\ handler'[j] = handler[j] /\ request'[j] = request[j]
  PROVE  DownRests'
BY DEF DownRests

\* A step that begins nothing.
LEMMA DownEases ==
  ASSUME DownRests,
         \A j \in Instance :
           /\ manager'[j].up = manager[j].up /\ manager'[j].current \in {None, manager[j].current}
           /\ handler'[j].pc \in {"no", handler[j].pc} /\ request'[j] \in {None, request[j]}
  PROVE  DownRests'
BY DEF DownRests

LEMMA DownPoller ==
  ASSUME TypesOK, DownRests, NEW i \in Instance, NEW p \in Slot,
         PollerStep(i, p) \/ StartFails(i, p) \/ CommandsFail(i, p) \/ PollFails(i, p)
  PROVE  DownRests'
<1>1. request' = request
  BY DEF PollerStep, StartTarget, StartMin, Poll, ProcessLogs, PublishEventsWithProgress, StartFails,
         CommandsFail, PollFails
<1>2. \A j \in Instance : manager'[j].up = manager[j].up /\ manager'[j].current \in {None, manager[j].current}
  <2>1. manager' = manager \/ manager' = [manager EXCEPT ![i].current = None]
    BY DEF PollerStep, StartTarget, StartMin, Poll, ProcessLogs, PublishEventsWithProgress, StartFails,
           CommandsFail, PollFails
  <2>2. QED
    BY <2>1, PartsFit DEF ManagerRecord
<1>3. \A j \in Instance : handler'[j].pc \in {"no", handler[j].pc}
  <2>1. handler' = handler \/ handler' = Awaited(i, p)
    BY DEF PollerStep, StartTarget, StartMin, Poll, ProcessLogs, PublishEventsWithProgress, StartFails,
           CommandsFail, PollFails
  <2>2. Idle.pc = "no"
    BY DEF Idle
  <2>3. QED
    BY <2>1, <2>2, PartsFit DEF Awaited, HandlersOK
<1>4. QED
  BY <1>1, <1>2, <1>3, DownEases

LEMMA DownHandler ==
  ASSUME TypesOK, DownRests, NEW i \in Instance, HandlerStep(i) \/ HandlerFails(i)
  PROVE  DownRests'
<1>1. handler[i].pc # "no"
  BY DEF HandlerStep, HandlerFails, JoinByStart, JoinPoller, SetProgress, CatchUpLogs, CatchUpPipeline
<1>2. manager[i].up
  BY <1>1 DEF DownRests
<1>3. request' = request
  BY DEF HandlerStep, HandlerFails, JoinByStart, JoinPoller, SetProgress, CatchUpLogs, CatchUpPipeline
<1>4. \A j \in Instance \ {i} : handler'[j] = handler[j]
  BY PartsFit
     DEF HandlersOK, HandlerStep, HandlerFails, JoinByStart, JoinPoller, SetProgress, CatchUpLogs, CatchUpPipeline
<1>5. manager' = manager
      \/ \E p \in Slot : \E s : manager' = [manager EXCEPT ![i].stored = s, ![i].current = p]
  BY DEF HandlerStep, HandlerFails, JoinByStart, JoinPoller, SetProgress, CatchUpLogs, CatchUpPipeline
<1>6. manager'[i].up /\ \A j \in Instance \ {i} : manager'[j] = manager[j]
  BY <1>2, <1>5, PartsFit DEF ManagerRecord
<1>7. QED
  BY <1>3, <1>4, <1>6, DownBeside

LEMMA DownClaim ==
  ASSUME TypesOK, DownRests, NEW i \in Instance, NEW a \in App, ClaimStep(i, a)
  PROVE  DownRests'
<1>1. CASE Claim(i, a)
  <2>1. /\ manager[i].up /\ request' = request /\ manager' = [manager EXCEPT ![i].claimed = @ \cup {a}]
        /\ \A j \in Instance \ {i} : handler'[j] = handler[j]
    BY <1>1, PartsFit DEF Claim, HandlersOK
  <2>2. manager'[i].up /\ \A j \in Instance \ {i} : manager'[j] = manager[j]
    BY <2>1, PartsFit DEF ManagerRecord
  <2>3. QED
    BY <2>1, <2>2, DownBeside
<1>2. CASE HandleAppReleased(i, a)
  <2>1. UNCHANGED <<handler, request>>
    BY <1>2 DEF HandleAppReleased
  <2>2. PICK subs : subs = poller[i][manager[i].current].subs \ {a}
    OBVIOUS
  <2>3. PICK m : m = manager[i]
    OBVIOUS
  <2>4. PICK n : n = [m EXCEPT !.claimed = @ \ {a}, !.stored = @ \ {a},
                               !.current = IF subs = {} THEN None ELSE m.current]
    OBVIOUS
  <2>5. manager' = [manager EXCEPT ![i].claimed = @ \ {a}] \/ manager' = [manager EXCEPT ![i] = n]
    BY <1>2, <2>2, <2>3, <2>4 DEF HandleAppReleased
  <2>6. n.up = m.up /\ n.current \in {None, m.current}
    BY <2>3, <2>4, PartsFit DEF ManagerRecord
  <2>7. \A j \in Instance : manager'[j].up = manager[j].up /\ manager'[j].current \in {None, manager[j].current}
    BY <2>3, <2>5, <2>6, PartsFit DEF ManagerRecord
  <2>8. QED
    BY <2>1, <2>7, DownEases
<1>3. QED
  BY <1>1, <1>2 DEF ClaimStep

LEMMA DownRefresh ==
  ASSUME TypesOK, DownRests, NEW i \in Instance, RefreshStep(i) \/ RefreshFails(i) \/ FullRefresh(i)
  PROVE  DownRests'
<1>1. manager[i].up
  <2>1. request[i] # None \/ manager[i].up
    BY DEF RefreshStep, RefreshFails, FullRefresh, ReadRefresh, RefreshSubscriptions, RefreshChains, Answered
  <2>2. QED
    BY <2>1 DEF DownRests
<1>2. handler' = handler
  BY DEF RefreshStep, RefreshFails, FullRefresh, ReadRefresh, RefreshSubscriptions, RefreshChains
<1>3. \A j \in Instance \ {i} : request'[j] = request[j]
  <2>1. \/ request' = request \/ request' = [request EXCEPT ![i] = None]
        \/ request' = [request EXCEPT ![i].data = Answer]
    BY DEF RefreshStep, RefreshFails, FullRefresh, ReadRefresh, RefreshSubscriptions, RefreshChains
  <2>2. QED
    BY <2>1, PartsFit
<1>4. PICK m : m = manager[i]
  OBVIOUS
<1>5. m \in ManagerRecord
  BY <1>4, PartsFit
<1>6. manager' = manager \/ \E n : n.up = m.up /\ manager' = [manager EXCEPT ![i] = n]
  <2>1. PICK data : data = request[i].data
    OBVIOUS
  <2>2. CASE ReadRefresh(i) \/ RefreshFails(i)
    BY <2>2 DEF ReadRefresh, RefreshFails
  <2>3. CASE RefreshSubscriptions(i)
    <3>1. PICK subs : subs = IF data.apps \cap m.claimed = {} /\ m.chain = 0 THEN m.stored
                             ELSE data.apps \cap m.claimed
      OBVIOUS
    <3>2. PICK n : n = [m EXCEPT !.known = data.apps, !.stored = subs]
      OBVIOUS
    <3>3. manager' = [manager EXCEPT ![i] = n]
      BY <1>4, <2>1, <2>3, <3>1, <3>2 DEF RefreshSubscriptions
    <3>4. n.up = m.up
      BY <1>5, <3>2 DEF ManagerRecord
    <3>5. QED
      BY <3>3, <3>4
  <2>4. ASSUME NEW chain0, NEW subs, NEW p,
               manager' = [manager EXCEPT ![i] =
                 [m EXCEPT !.known = data.apps, !.chain = chain0, !.stored = subs, !.current = p]]
        PROVE  <1>6
    <3>1. PICK n : n = [m EXCEPT !.known = data.apps, !.chain = chain0, !.stored = subs, !.current = p]
      OBVIOUS
    <3>2. n.up = m.up
      BY <1>5, <3>1 DEF ManagerRecord
    <3>3. QED
      BY <2>4, <3>1, <3>2
  <2>5. CASE RefreshChains(i)
    <3>1. PICK subs : subs = data.apps \cap m.claimed
      OBVIOUS
    <3>2. CASE manager' = [manager EXCEPT ![i].known = data.apps]
      <4>1. PICK n : n = [m EXCEPT !.known = data.apps]
        OBVIOUS
      <4>2. n.up = m.up /\ manager' = [manager EXCEPT ![i] = n]
        BY <1>4, <1>5, <3>2, <4>1 DEF ManagerRecord
      <4>3. QED
        BY <4>2
    <3>3. \/ manager' = [manager EXCEPT ![i].known = data.apps]
          \/ manager' = [manager EXCEPT ![i] =
               [m EXCEPT !.known = data.apps, !.chain = 0, !.stored = {}, !.current = None]]
          \/ \E p \in Slot : manager' = [manager EXCEPT ![i] =
               [m EXCEPT !.known = data.apps, !.chain = data.chain, !.stored = subs, !.current = p]]
      BY <1>4, <2>1, <2>5, <3>1 DEF RefreshChains
    <3>4. QED
      BY <2>4, <3>2, <3>3
  <2>6. CASE FullRefresh(i)
    <3>1. PICK answer : answer = Answer
      OBVIOUS
    <3>2. PICK n : n = [m EXCEPT !.known = answer.apps, !.chain = answer.chain, !.stored = {}, !.current = None]
      OBVIOUS
    <3>3. manager' = [manager EXCEPT ![i] = n]
      BY <1>4, <2>6, <3>1, <3>2 DEF FullRefresh
    <3>4. n.up = m.up
      BY <1>5, <3>2 DEF ManagerRecord
    <3>5. QED
      BY <3>3, <3>4
  <2>7. QED
    BY <2>2, <2>3, <2>5, <2>6 DEF RefreshStep
<1>7. manager'[i].up /\ \A j \in Instance \ {i} : manager'[j] = manager[j]
  BY <1>1, <1>4, <1>6, PartsFit
<1>8. QED
  BY <1>2, <1>3, <1>7, DownBeside

LEMMA DownUpAndDown ==
  ASSUME TypesOK, DownRests, NEW i \in Instance, Initialize(i) \/ Crash(i)
  PROVE  DownRests'
<1>1. CASE Crash(i)
  <2>1. /\ manager' = [manager EXCEPT ![i] = Down] /\ handler' = [handler EXCEPT ![i] = Idle]
        /\ request' = [request EXCEPT ![i] = None]
    BY <1>1 DEF Crash
  <2>2. Down.current = None /\ Idle.pc = "no"
    BY DEF Down, Idle
  <2>3. \A j \in Instance \ {i} :
          manager'[j] = manager[j] /\ handler'[j] = handler[j] /\ request'[j] = request[j]
    BY <2>1, PartsFit DEF HandlersOK
  <2>4. manager'[i].current = None /\ handler'[i].pc = "no" /\ request'[i] = None
    BY <2>1, <2>2, PartsFit DEF HandlersOK
  <2>5. QED
    BY <2>3, <2>4 DEF DownRests
<1>2. CASE Initialize(i)
  <2>1. PICK answer : answer = Answer
    OBVIOUS
  <2>2. PICK n : n = [Down EXCEPT !.up = TRUE, !.known = answer.apps, !.chain = answer.chain]
    OBVIOUS
  <2>3. manager' = [manager EXCEPT ![i] = n] /\ UNCHANGED <<handler, request>>
    BY <1>2, <2>1, <2>2 DEF Initialize
  <2>4. n.up
    BY <2>2 DEF Down
  <2>5. QED
    BY <2>3, <2>4, PartsFit, DownBeside
<1>3. QED
  BY <1>1, <1>2

LEMMA DownStep ==
  ASSUME TypesOK, DownRests, [Next]_vars
  PROVE  DownRests'
<1>1. ASSUME UNCHANGED <<manager, handler, request>> PROVE DownRests'
  BY <1>1 DEF DownRests
<1>2. CASE ChangeChain \/ \E a \in App : ChangeSubscription(a)
  <2>1. PICK type : Signal(type)
    BY <1>2 DEF ChangeChain, ChangeSubscription
  <2>2. PICK heard \in SUBSET {i \in Instance : manager[i].up} :
          request' = [i \in Instance |-> IF i \in heard THEN [type |-> type, data |-> None] ELSE None]
    BY <2>1 DEF Signal
  <2>3. \A i \in Instance : ~manager[i].up => request'[i] = None
    BY <2>2
  <2>4. UNCHANGED <<manager, handler>>
    BY <2>1 DEF Signal
  <2>5. QED
    BY <2>3, <2>4 DEF DownRests
<1>3. CASE Fault
  <2>1. CASE \E i \in Instance, p \in Slot : StartFails(i, p) \/ CommandsFail(i, p) \/ PollFails(i, p)
    BY <2>1, DownPoller
  <2>2. CASE \E i \in Instance : HandlerFails(i) \/ RefreshFails(i) \/ FullRefresh(i) \/ Crash(i)
    BY <2>2, DownHandler, DownRefresh, DownUpAndDown
  <2>3. CASE \E a \in App : LoseClaim(a)
    BY <1>1, <2>3 DEF LoseClaim
  <2>4. QED
    BY <1>3, <2>1, <2>2, <2>3 DEF Fault
<1>4. ASSUME NEW i \in Instance, Initialize(i) \/ HandlerStep(i) \/ RefreshStep(i)
      PROVE  DownRests'
  BY <1>4, DownUpAndDown, DownHandler, DownRefresh
<1>5. CASE Mine
  BY <1>1, <1>5 DEF Mine
<1>6. CASE UNCHANGED vars
  BY <1>1, <1>6 DEF vars
<1>7. ASSUME NEW i \in Instance, NEW p \in Slot, PollerStep(i, p) PROVE DownRests'
  BY <1>7, DownPoller
<1>8. ASSUME NEW i \in Instance, NEW a \in App, ClaimStep(i, a) PROVE DownRests'
  BY <1>8, DownClaim
<1>9. QED
  BY <1>2, <1>3, <1>4, <1>5, <1>6, <1>7, <1>8 DEF Next

LEMMA MapInit == ASSUME Init PROVE MapOK
BY DEF Init, MapOK, BusyInMap, DownRests, Busy, Off, Down, Idle

LEMMA MapStep ==
  ASSUME TypesOK, MapOK, Unhasty, [Next]_vars
  PROVE  MapOK'
BY BusyStep, DownStep DEF MapOK

LEMMA MapSays == ASSUME MapOK PROVE OnlyThePollerInTheMapRuns
BY DEF MapOK, BusyInMap, Busy, OnlyThePollerInTheMapRuns

\* However chains are refreshed, claimed and released, calls fail and processes die: a
\* chain has one poller that runs, and it is the one ChainManagerService can stop;
\* unless a poller is stopped while it is starting.
THEOREM OnePoller ==
  ASSUME Unhasty
  PROVE  Spec => []OnlyThePollerInTheMapRuns
<1>1. Init => MapOK
  BY MapInit
<1>2. TypesOK /\ MapOK /\ [Next]_vars => MapOK'
  BY MapStep
<1>3. QED
  BY <1>1, <1>2, TypesHold, MapSays, PTL DEF Spec

-----------------------------------------------------------------------------
(* Nothing is skipped                                                       *)

\* What is excused stays so, an origin stays where it is, and progress, once written,
\* is never none again.
Grows ==
  /\ \A a \in App : /\ passed[a] \subseteq passed'[a] /\ leapt[a] \subseteq leapt'[a]
                    /\ origin[a] # None => origin'[a] = origin[a]
                    /\ progress[a] # None => progress'[a] # None
  /\ published \subseteq published' /\ failed \subseteq failed'

LEMMA ProgressTypes ==
  ASSUME TypesOK, NEW a \in App
  PROVE  /\ Orig(a) \in Nat /\ Position(a) \in Nat /\ Position(a) <= head
         /\ progress[a] \in (0 .. head) \cup {None} /\ origin[a] \in (0 .. head) \cup {None}
         /\ head \in Nat /\ head <= MaxBlock /\ None \notin Nat
BY Bounds, Heads DEF TypesOK, SharedOK, Orig, Position

LEMMA ExcusedKept ==
  ASSUME Grows, NEW a \in App, NEW b, Excused(a, b)
  PROVE  Excused(a, b)'
BY DEF Grows, Excused

LEMMA OrigGrows ==
  ASSUME TypesOK, TypesOK', Grows, NEW a \in App
  PROVE  Orig(a) \in Nat /\ Orig(a)' \in Nat /\ Orig(a) <= Orig(a)'
<1>1. Orig(a) \in Nat
  BY ProgressTypes
<1>2. Orig(a)' \in Nat
  BY Bounds, Heads DEF TypesOK, SharedOK, Orig
<1>3. CASE origin[a] = None
  BY <1>1, <1>2, <1>3 DEF Orig
<1>4. CASE origin[a] # None
  BY <1>1, <1>2, <1>4 DEF Orig, Grows
<1>5. QED
  BY <1>1, <1>2, <1>3, <1>4

LEMMA CoveredKept ==
  ASSUME TypesOK, TypesOK', Grows, NEW a \in App, NEW n, Covered(a, n)
  PROVE  Covered(a, n)'
<1>1. SUFFICES ASSUME NEW b \in Block, Orig(a)' < b, b <= n PROVE Excused(a, b)'
  BY DEF Covered
<1>2. Orig(a) < b
  BY <1>1, OrigGrows, Bounds DEF Block
<1>3. QED
  BY <1>1, <1>2, ExcusedKept DEF Covered

LEMMA CoveredLess ==
  ASSUME NEW a, NEW n \in Nat, NEW m \in Nat, m <= n, Covered(a, n)'
  PROVE  Covered(a, m)'
<1>1. SUFFICES ASSUME NEW b \in Block, Orig(a)' < b, b <= m PROVE Excused(a, b)'
  BY DEF Covered
<1>2. b <= n
  BY <1>1, Bounds DEF Block
<1>3. QED
  BY <1>1, <1>2 DEF Covered

LEMMA CoveredAtNone == ASSUME TypesOK', NEW a \in App PROVE Covered(a, 0)'
<1>1. Orig(a)' \in Nat
  BY Bounds, Heads DEF TypesOK, SharedOK, Orig
<1>2. QED
  BY <1>1, Bounds DEF Covered, Block

\* Applications that are passed up to block have nothing skipped up to there.
LEMMA PassCovers ==
  ASSUME TypesOK, TypesOK', Grows, WrittenOK, NEW a \in App, NEW block \in Nat,
         \A b \in Position(a) + 1 .. block : b \in passed'[a]
  PROVE  Covered(a, block)'
<1>1. PICK n : n = Position(a)
  OBVIOUS
<1>2. Covered(a, n)'
  BY <1>1, CoveredKept DEF WrittenOK
<1>3. SUFFICES ASSUME NEW b \in Block, Orig(a)' < b, b <= block PROVE Excused(a, b)'
  BY DEF Covered
<1>4. b \in Nat /\ n \in Nat
  BY <1>1, ProgressTypes, Bounds DEF Block
<1>5. CASE b <= n
  BY <1>2, <1>3, <1>5 DEF Covered
<1>6. CASE ~(b <= n)
  BY <1>1, <1>3, <1>4, <1>6 DEF Excused
<1>7. QED
  BY <1>5, <1>6
\* The blocks a poller leaps over when an application it has gets its first progress.
LEMMA LeapCovers ==
  ASSUME TypesOK, TypesOK', NEW apps, NEW block \in Nat, leapt' = Leap(apps, block),
         NEW a \in App, a \in apps, progress[a] = None, Covered(a, block)',
         NEW i \in Instance, NEW p \in Slot, a \in poller[i][p].subs \cup poller[i][p].batch.apps,
         NEW last, last = poller[i][p].last
  PROVE  Covered(a, last)'
<1>1. last \in Nat
  BY PollerFacts
<1>2. <<i, p>> \in Serving(a)
  BY DEF Serving
<1>3. SUFFICES ASSUME NEW b \in Block, Orig(a)' < b, b <= last PROVE Excused(a, b)'
  BY DEF Covered
<1>4. b \in Nat
  BY Bounds DEF Block
<1>5. CASE b <= block
  BY <1>3, <1>5 DEF Covered
<1>6. CASE b > block
  <2>1. b \in leapt'[a]
    BY <1>2, <1>3, <1>6 DEF Leap
  <2>2. QED
    BY <2>1 DEF Excused
<1>7. QED
  BY <1>4, <1>5, <1>6

\* Whoever has an application that gets its first progress has nothing of it skipped.
FirstCovered ==
  \A i \in Instance, p \in Slot, a \in App, n \in Nat :
    (/\ a \in poller[i][p].subs \cup poller[i][p].batch.apps /\ n = poller[i][p].last
     /\ progress[a] = None /\ progress'[a] # None) => Covered(a, n)'

LEMMA PollerKept ==
  ASSUME TypesOK, TypesOK', Grows, FirstCovered, NEW i \in Instance, NEW p \in Slot,
         NEW l, l = poller[i][p], PollerCovers(l)
  PROVE  PollerCovers(l)'
<1>1. l.subs \subseteq App /\ l.batch.apps \subseteq App /\ l.last \in Nat /\ l.to \in Nat
  BY PollerFacts
<1>2. ASSUME NEW a \in l.subs \cup l.batch.apps, progress'[a] # None
      PROVE  Covered(a, l.last)'
  <2>1. a \in App
    BY <1>1
  <2>2. CASE progress[a] = None
    BY <1>1, <1>2, <2>1, <2>2 DEF FirstCovered
  <2>3. CASE progress[a] # None
    <3>1. Covered(a, l.last)
      BY <2>3 DEF PollerCovers
    <3>2. QED
      BY <2>1, <3>1, CoveredKept
  <2>4. QED
    BY <2>2, <2>3
<1>3. ASSUME l.pc = "logs", NEW a \in l.subs \ l.filter
      PROVE  Covered(a, l.to)'
  <2>1. a \in App /\ Covered(a, l.to)
    BY <1>1, <1>3 DEF PollerCovers
  <2>2. QED
    BY <2>1, CoveredKept
<1>4. ASSUME l.pc = "pipe", NEW a \in l.subs \cup l.batch.apps, NEW b \in Block,
             Orig(a)' < b, l.last < b, b <= l.to
      PROVE  Excused(a, b)' \/ <<a, b>> \in l.batch.events
  <2>1. a \in App /\ b \in Nat
    BY <1>1, Bounds DEF Block
  <2>2. Orig(a) < b
    BY <1>4, <2>1, OrigGrows
  <2>3. Excused(a, b) \/ <<a, b>> \in l.batch.events
    BY <1>4, <2>2 DEF PollerCovers
  <2>4. QED
    BY <2>1, <2>3, ExcusedKept
<1>5. QED
  BY <1>2, <1>3, <1>4 DEF PollerCovers

LEMMA HandlerKept ==
  ASSUME TypesOK, TypesOK', Grows, NEW i \in Instance, NEW h, h = handler[i], HandlerCovers(h)
  PROVE  HandlerCovers(h)'
<1>1. CASE h.pc \in {"logs", "pipe"}
  <2>1. h.app \in App /\ progress[h.app] # None /\ Covered(h.app, h.from - 1)
    BY <1>1, HandlerFacts DEF HandlerCovers
  <2>2. PICK n : n = h.from - 1
    OBVIOUS
  <2>3. Covered(h.app, n)' /\ progress'[h.app] # None
    BY <2>1, <2>2, CoveredKept DEF Grows
  <2>4. QED
    BY <2>2, <2>3 DEF HandlerCovers
<1>2. CASE h.pc \notin {"logs", "pipe"}
  BY <1>2 DEF HandlerCovers
<1>3. QED
  BY <1>1, <1>2

LEMMA HandlersKept ==
  ASSUME TypesOK, TypesOK', Grows, CoverInv, handler' = handler
  PROVE  HandlersCover'
<1>1. SUFFICES ASSUME NEW i \in Instance, NEW h, h = handler[i] PROVE HandlerCovers(h)'
  BY DEF HandlersCover, HandlerCovers
<1>2. QED
  BY <1>1, HandlerKept DEF CoverInv, HandlersCover

LEMMA HandlersMove ==
  ASSUME TypesOK, TypesOK', Grows, CoverInv, NEW i \in Instance, NEW k, HandlerCovers(k)',
         handler' = [handler EXCEPT ![i] = k]
  PROVE  HandlersCover'
<1>1. ASSUME NEW j \in Instance, NEW h, h = handler'[j] PROVE HandlerCovers(h)'
  <2>1. CASE j = i
    BY <1>1, <2>1, PartsFit DEF HandlersOK
  <2>2. CASE j # i
    <3>1. h = handler[j]
      BY <1>1, <2>2, PartsFit DEF HandlersOK
    <3>2. QED
      BY <3>1, HandlerKept DEF CoverInv, HandlersCover
  <2>3. QED
    BY <2>1, <2>2
<1>2. QED
  BY <1>1 DEF HandlersCover, HandlerCovers

LEMMA PollersKept ==
  ASSUME TypesOK, TypesOK', Grows, FirstCovered, CoverInv, poller' = poller
  PROVE  PollersCover'
<1>1. ASSUME NEW j \in Instance, NEW q \in Slot, NEW l, l = poller[j][q] PROVE PollerCovers(l)'
  BY <1>1, PollerKept DEF CoverInv, PollersCover
<1>2. QED
  BY <1>1 DEF PollersCover, PollerCovers

LEMMA PollersMove ==
  ASSUME TypesOK, TypesOK', Grows, FirstCovered, CoverInv, NEW i \in Instance, NEW p \in Slot,
         NEW k, PollerCovers(k)', Put(i, p, k)
  PROVE  PollersCover'
<1>1. ASSUME NEW j \in Instance, NEW q \in Slot, NEW l, l = poller'[j][q] PROVE PollerCovers(l)'
  <2>1. CASE <<j, q>> = <<i, p>>
    BY <1>1, <2>1, PartsFit DEF PollersOK, Put
  <2>2. CASE <<j, q>> # <<i, p>>
    <3>1. l = poller[j][q]
      BY <1>1, <2>2, PartsFit DEF PollersOK, Put
    <3>2. QED
      BY <3>1, PollerKept DEF CoverInv, PollersCover
  <2>3. QED
    BY <2>1, <2>2
<1>2. QED
  BY <1>1 DEF PollersCover, PollerCovers
LEMMA WrittenKept ==
  ASSUME TypesOK, TypesOK', Grows, CoverInv, UNCHANGED <<progress, origin>>
  PROVE  WrittenOK'
<1>1. ASSUME NEW a \in App, NEW n, n = Position(a) PROVE Covered(a, n)'
  BY <1>1, CoveredKept DEF CoverInv, WrittenOK
<1>2. \A a \in App : progress'[a] = None => origin'[a] = None
  BY DEF CoverInv, WrittenOK
<1>3. \A a \in App : \A n : n = Position(a)' => Covered(a, n)'
  BY <1>1 DEF Position
<1>4. QED
  BY <1>2, <1>3 DEF WrittenOK, Covered

LEMMA NoneFirst == ASSUME progress' = progress PROVE FirstCovered
BY DEF FirstCovered

LEMMA GrowsQuietly == ASSUME UNCHANGED <<progress, published, origin, leapt, failed>>,
                             \A a \in App : passed[a] \subseteq passed'[a]
                      PROVE  Grows
BY DEF Grows

\* A poller that has nothing on its way.
LEMMA RestingCovers ==
  ASSUME NEW l, l.pc \notin {"logs", "pipe"}, l.batch.apps = {},
         \A a \in l.subs : progress'[a] # None => Covered(a, l.last)'
  PROVE  PollerCovers(l)'
BY DEF PollerCovers

LEMMA OffCovers == PollerCovers(Off)'
<1>1. PICK l : l = Off
  OBVIOUS
<1>2. l.pc = "off" /\ l.batch.apps = {} /\ l.subs = {}
  BY <1>1 DEF Off
<1>3. PollerCovers(l)'
  BY <1>2, RestingCovers
<1>4. QED
  BY <1>1, <1>3

LEMMA FreshCovers ==
  ASSUME TypesOK', NEW subs \in SUBSET App, NEW k, k = Fresh(subs)
  PROVE  PollerCovers(k)'
<1>1. k.pc = "start" /\ k.batch.apps = {} /\ k.subs = subs /\ k.last = 0
  BY DEF Fresh, Off
<1>2. QED
  BY <1>1, CoveredAtNone, RestingCovers

LEMMA RestCovers ==
  ASSUME NEW l \in PollerRecord, NEW k, k = Rest(l),
         \A a \in l.subs : progress'[a] # None => Covered(a, l.last)'
  PROVE  PollerCovers(k)'
<1>1. CASE ~l.running
  BY <1>1, OffCovers DEF Rest
<1>2. CASE l.running
  <2>1. k.pc = "idle" /\ k.batch.apps = {} /\ k.subs = l.subs /\ k.last = l.last
    BY <1>2 DEF Rest, Off, PollerRecord
  <2>2. QED
    BY <2>1, RestingCovers
<1>3. QED
  BY <1>1, <1>2

LEMMA NextCovers ==
  ASSUME NEW l \in PollerRecord, NEW k, k = NextBatch(l),
         \A a \in l.subs : progress'[a] # None => Covered(a, l.last)'
  PROVE  PollerCovers(k)'
<1>1. CASE ~l.running \/ l.target <= l.last
  BY <1>1, RestCovers DEF NextBatch
<1>2. CASE l.running /\ ~(l.target <= l.last)
  <2>1. k.pc = "logs" /\ k.batch.apps = {} /\ k.subs = l.subs /\ k.last = l.last /\ k.filter = l.subs
    BY <1>2 DEF NextBatch, Off, PollerRecord
  <2>2. QED
    BY <2>1 DEF PollerCovers
<1>3. QED
  BY <1>1, <1>2

LEMMA StoppedCovers ==
  ASSUME NEW l \in PollerRecord, NEW k, k = Stopped(l), PollerCovers(l)'
  PROVE  PollerCovers(k)'
<1>1. CASE l.pc \in {"off", "idle"}
  BY <1>1, OffCovers DEF Stopped
<1>2. CASE l.pc \notin {"off", "idle"}
  <2>1. /\ k.pc = l.pc /\ k.batch = l.batch /\ k.subs = l.subs /\ k.last = l.last
        /\ k.to = l.to /\ k.filter = l.filter
    BY <1>2 DEF Stopped, PollerRecord
  <2>2. QED
    BY <2>1 DEF PollerCovers
<1>3. QED
  BY <1>1, <1>2

\* Applications may leave a list; those that join it must have nothing skipped up to
\* where the poller has got.
LEMMA ListedCovers ==
  ASSUME NEW l \in PollerRecord, NEW n, PollerFits(l, n), NEW subs, NEW k, k = Listed(l, subs),
         PollerCovers(l)', \A a \in subs \ l.subs : Covered(a, Reached(l))'
  PROVE  PollerCovers(k)'
<1>1. CASE l.pc = "off"
  BY <1>1 DEF Listed
<1>2. CASE l.pc # "off"
  <2>1. /\ k.pc = l.pc /\ k.batch = l.batch /\ k.subs = subs /\ k.last = l.last
        /\ k.to = l.to /\ k.filter = l.filter
    BY <1>2 DEF Listed, PollerRecord
  <2>2. l.last \in Nat /\ l.to \in Nat /\ (l.pc \in {"logs", "pipe"} => l.last <= l.to)
    BY DEF PollerFits, PollerRecord
  <2>3. \A a \in subs \ l.subs : Covered(a, l.last)'
    BY <2>2, CoveredLess DEF Reached
  <2>4. l.pc \in {"logs", "pipe"} => \A a \in subs \ l.subs : Covered(a, l.to)'
    BY DEF Reached
  <2>5. \A a \in k.subs \cup k.batch.apps : progress'[a] # None => Covered(a, k.last)'
    BY <2>1, <2>3 DEF PollerCovers
  <2>6. k.pc = "logs" => \A a \in k.subs \ k.filter : Covered(a, k.to)'
    BY <2>1, <2>4 DEF PollerCovers
  <2>7. ASSUME k.pc = "pipe", NEW a \in k.subs \cup k.batch.apps, NEW b \in Block,
               Orig(a)' < b, k.last < b, b <= k.to
        PROVE  Excused(a, b)' \/ <<a, b>> \in k.batch.events
    <3>1. CASE a \in l.subs \cup l.batch.apps
      BY <2>1, <2>7, <3>1 DEF PollerCovers
    <3>2. CASE a \in subs \ l.subs
      BY <2>1, <2>4, <2>7, <3>2 DEF Covered
    <3>3. QED
      BY <2>1, <2>7, <3>1, <3>2
  <2>8. QED
    BY <2>5, <2>6, <2>7 DEF PollerCovers
<1>3. QED
  BY <1>1, <1>2
-----------------------------------------------------------------------------
(* Nothing is skipped by a poller, ...                                      *)

\* Steps that publish nothing.
LEMMA QuietCovers ==
  ASSUME TypesOK, TypesOK', CoverInv, UNCHANGED <<progress, published, origin, leapt, failed>>,
         \A a \in App : passed[a] \subseteq passed'[a],
         \/ poller' = poller
         \/ \E i \in Instance, p \in Slot : \E k : Put(i, p, k) /\ PollerCovers(k)',
         \/ handler' = handler
         \/ \E i \in Instance : \E h : handler' = [handler EXCEPT ![i] = h] /\ HandlerCovers(h)'
  PROVE  CoverInv'
<1>1. Grows /\ FirstCovered
  BY GrowsQuietly, NoneFirst
<1>2. PollersCover'
  BY <1>1, PollersKept, PollersMove
<1>3. HandlersCover'
  BY <1>1, HandlersKept, HandlersMove
<1>4. WrittenOK'
  BY <1>1, WrittenKept
<1>5. QED
  BY <1>2, <1>3, <1>4 DEF CoverInv

LEMMA IdleCovers == HandlerCovers(Idle)'
<1>1. PICK h : h = Idle
  OBVIOUS
<1>2. h.pc = "no"
  BY <1>1 DEF Idle
<1>3. HandlerCovers(h)'
  BY <1>2 DEF HandlerCovers
<1>4. QED
  BY <1>1, <1>3

LEMMA AwaitedCovers ==
  ASSUME NEW i \in Instance, NEW p \in Slot, handler' = Awaited(i, p)
  PROVE  \/ handler' = handler
         \/ \E j \in Instance : \E h : handler' = [handler EXCEPT ![j] = h] /\ HandlerCovers(h)'
BY IdleCovers DEF Awaited

LEMMA StartTargetCovers ==
  ASSUME TypesOK, TypesOK', CoverInv, NEW i \in Instance, NEW p \in Slot, StartTarget(i, p)
  PROVE  CoverInv'
<1>1. PICK l : l = poller[i][p]
  OBVIOUS
<1>2. PICK k : k = [l EXCEPT !.pc = "min", !.target = head, !.filter = l.subs]
  OBVIOUS
<1>3. /\ l \in PollerRecord /\ l.subs \in SUBSET App /\ l.pc = "start" /\ l.last = 0
      /\ l.batch = Off.batch
  BY <1>1, PollerFacts DEF StartTarget, PollerFits
<1>4. k.pc = "min" /\ k.subs = l.subs /\ k.last = 0 /\ k.batch.apps = {}
  BY <1>2, <1>3 DEF PollerRecord, Off
<1>5. PollerCovers(k)'
  BY <1>3, <1>4, CoveredAtNone, RestingCovers
<1>6. /\ Put(i, p, k)
      /\ UNCHANGED <<progress, published, origin, passed, leapt, failed, handler>>
  BY <1>1, <1>2 DEF StartTarget, redis, history
<1>7. QED
  BY <1>5, <1>6, QuietCovers

LEMMA PassGrows ==
  ASSUME TypesOK, NEW apps, NEW block, passed' = Pass(apps, block)
  PROVE  \A a \in App : passed[a] \subseteq passed'[a]
BY DEF Pass

\* A poller starts behind the least progress of the applications it has asked for, and
\* passes those that have come into its list since.
LEMMA StartMinCovers ==
  ASSUME TypesOK, TypesOK', CoverInv, NEW i \in Instance, NEW p \in Slot, StartMin(i, p)
  PROVE  CoverInv'
<1>1. PICK l : l = poller[i][p]
  OBVIOUS
<1>2. PICK n : n = StartBlock(l)
  OBVIOUS
<1>3. PICK l1 : l1 = [l EXCEPT !.last = n]
  OBVIOUS
<1>4. PICK k : k = Rest(l1)
  OBVIOUS
<1>5. /\ l \in PollerRecord /\ l.subs \in SUBSET App /\ n \in 0 .. head /\ n \in Nat /\ n \in 0 .. MaxBlock
      /\ \A a \in l.filter : progress[a] # None => n <= progress[a]
  <2>1. l \in PollerRecord /\ l.subs \in SUBSET App
    BY <1>1, PollerFacts
  <2>2. /\ n \in 0 .. head
        /\ \A a \in l.filter : progress[a] # None => n <= progress[a]
    BY <1>1, <1>2, StartBlockIsLeast
  <2>3. head \in Nat /\ head <= MaxBlock /\ MaxBlock \in Nat
    BY Heads, Bounds DEF TypesOK
  <2>4. QED
    BY <2>1, <2>2, <2>3
<1>6. l1 \in PollerRecord /\ l1.subs = l.subs /\ l1.last = n
  BY <1>3, <1>5 DEF PollerRecord
<1>7. /\ Put(i, p, k) /\ handler' = Awaited(i, p) /\ passed' = Pass(l.subs \ l.filter, n)
      /\ UNCHANGED <<progress, published, origin, leapt, failed>>
  BY <1>1, <1>2, <1>3, <1>4 DEF StartMin, redis
<1>8. Grows /\ \A a \in App : passed[a] \subseteq passed'[a]
  BY <1>7, PassGrows, GrowsQuietly
<1>9. ASSUME NEW a \in l.subs, progress'[a] # None
      PROVE  Covered(a, n)'
  <2>1. a \in App /\ progress[a] # None
    BY <1>5, <1>7, <1>9
  <2>2. CASE a \in l.filter
    <3>1. PICK m : m = Position(a)
      OBVIOUS
    <3>2. m \in Nat /\ n <= m
      BY <1>5, <2>1, <2>2, <3>1, ProgressTypes DEF Position
    <3>3. Covered(a, m)'
      BY <1>8, <2>1, <3>1, CoveredKept DEF CoverInv, WrittenOK
    <3>4. QED
      BY <1>5, <3>2, <3>3, CoveredLess
  <2>3. CASE a \notin l.filter
    <3>1. \A b \in Position(a) + 1 .. n : b \in passed'[a]
      BY <1>7, <2>1, <2>3 DEF Pass
    <3>2. QED
      BY <1>5, <1>8, <2>1, <3>1, PassCovers DEF CoverInv
  <2>4. QED
    BY <2>2, <2>3
<1>10. PollerCovers(k)'
  BY <1>4, <1>6, <1>9, RestCovers
<1>11. QED
  BY <1>7, <1>8, <1>10, AwaitedCovers, QuietCovers

LEMMA StartFailsCovers ==
  ASSUME TypesOK, TypesOK', CoverInv, NEW i \in Instance, NEW p \in Slot, StartFails(i, p)
  PROVE  CoverInv'
<1>1. /\ Put(i, p, Off) /\ handler' = Awaited(i, p)
      /\ UNCHANGED <<progress, published, origin, passed, leapt, failed>>
  BY DEF StartFails, redis, history
<1>2. QED
  BY <1>1, OffCovers, AwaitedCovers, QuietCovers

LEMMA PollCovers ==
  ASSUME TypesOK, TypesOK', CoverInv, NEW i \in Instance, NEW p \in Slot, Poll(i, p)
  PROVE  CoverInv'
<1>1. PICK l : l = poller[i][p]
  OBVIOUS
<1>2. PICK l1 : l1 = [l EXCEPT !.target = head]
  OBVIOUS
<1>3. PICK k : k = NextBatch(l1)
  OBVIOUS
<1>4. l \in PollerRecord /\ head \in 0 .. MaxBlock
  BY <1>1, PollerFacts, Heads DEF TypesOK
<1>5. l1 \in PollerRecord /\ l1.subs = l.subs /\ l1.last = l.last
  BY <1>2, <1>4 DEF PollerRecord
<1>6. Put(i, p, k) /\ UNCHANGED <<progress, published, origin, passed, leapt, failed, handler>>
  BY <1>1, <1>2, <1>3 DEF Poll, redis, history
<1>7. PollerCovers(l)'
  BY <1>1, <1>6, PollerKept, GrowsQuietly, NoneFirst DEF CoverInv, PollersCover
<1>8. \A a \in l1.subs : progress'[a] # None => Covered(a, l1.last)'
  BY <1>5, <1>7 DEF PollerCovers
<1>9. PollerCovers(k)'
  BY <1>3, <1>5, <1>8, NextCovers
<1>10. QED
  BY <1>6, <1>9, QuietCovers
\* What is matched with the logs, and what has joined the list since they were asked
\* for: one has its events in the batch, the other has been passed.
LEMMA ProcessLogsCovers ==
  ASSUME TypesOK, TypesOK', CoverInv, NEW i \in Instance, NEW p \in Slot, ProcessLogs(i, p)
  PROVE  CoverInv'
<1>1. PICK l : l = poller[i][p]
  OBVIOUS
<1>2. PICK events : events = Events(l.filter \cap l.subs, l.last + 1, l.to)
  OBVIOUS
<1>3. PICK apps : apps = {a \in l.subs : l.written[a] # l.to}
  OBVIOUS
<1>4. PICK l1 : l1 = [l EXCEPT !.last = l.to]
  OBVIOUS
<1>5. PICK k : k = IF events = {} /\ apps = {} THEN NextBatch(l1) ELSE Piped(l, events, apps)
  OBVIOUS
<1>6. /\ l.pc = "logs" /\ Put(i, p, k)
      /\ UNCHANGED <<progress, published, origin, passed, leapt, failed, handler>>
  BY <1>1, <1>2, <1>3, <1>4, <1>5 DEF ProcessLogs, Piped, redis, history
<1>7. /\ l \in PollerRecord /\ l.last \in Nat /\ l.to \in Nat /\ l.to <= head /\ l.to \in 0 .. MaxBlock
      /\ l.filter \in SUBSET App /\ l.subs \in SUBSET App /\ head \in Nat
  BY <1>1, PollerFacts, Heads DEF TypesOK
<1>8. PollerCovers(l)'
  BY <1>1, <1>6, PollerKept, GrowsQuietly, NoneFirst DEF CoverInv, PollersCover
<1>9. ASSUME NEW a \in l.subs, NEW b \in Block, Orig(a)' < b, l.last < b, b <= l.to
      PROVE  Excused(a, b)' \/ <<a, b>> \in events
  <2>1. b \in Nat /\ a \in App
    BY <1>7, Bounds DEF Block
  <2>2. CASE a \notin l.filter
    BY <1>6, <1>8, <1>9, <2>2 DEF PollerCovers, Covered
  <2>3. CASE a \in l.filter /\ b \notin Silent
    BY <1>2, <1>7, <1>9, <2>1, <2>3 DEF Events
  <2>4. CASE b \in Silent
    BY <2>4 DEF Excused
  <2>5. QED
    BY <2>2, <2>3, <2>4
<1>10. CASE events = {} /\ apps = {}
  <2>1. l1 \in PollerRecord /\ l1.subs = l.subs /\ l1.last = l.to
    BY <1>4, <1>7 DEF PollerRecord
  <2>2. ASSUME NEW a \in l.subs, progress'[a] # None PROVE Covered(a, l.to)'
    <3>1. Covered(a, l.last)'
      BY <1>8, <2>2 DEF PollerCovers
    <3>2. \A b \in Block : b \in Nat
      BY Bounds DEF Block
    <3>3. QED
      BY <1>7, <1>9, <1>10, <3>1, <3>2 DEF Covered
  <2>3. k = NextBatch(l1)
    BY <1>5, <1>10
  <2>4. PollerCovers(k)'
    BY <2>1, <2>2, <2>3, NextCovers
  <2>5. QED
    BY <1>6, <2>4, QuietCovers
<1>11. CASE ~(events = {} /\ apps = {})
  <2>1. k = Piped(l, events, apps)
    BY <1>5, <1>11
  <2>2. events \subseteq App \X Block /\ apps \subseteq App /\ apps \subseteq l.subs
    BY <1>2, <1>3, <1>7, EventsTypes
  <2>3. /\ k.pc = "pipe" /\ k.subs = l.subs /\ k.last = l.last /\ k.to = l.to
        /\ k.batch.events = events /\ k.batch.apps = apps
    BY <1>7, <2>1, <2>2, PipedFields
  <2>4. \A a \in k.subs \cup k.batch.apps : progress'[a] # None => Covered(a, k.last)'
    BY <1>8, <2>2, <2>3 DEF PollerCovers
  <2>5. \A a \in k.subs \cup k.batch.apps, b \in Block :
          (Orig(a)' < b /\ k.last < b /\ b <= k.to) => Excused(a, b)' \/ <<a, b>> \in k.batch.events
    BY <1>9, <2>2, <2>3
  <2>6. PollerCovers(k)'
    BY <2>3, <2>4, <2>5 DEF PollerCovers
  <2>7. QED
    BY <1>6, <2>6, QuietCovers
<1>12. QED
  BY <1>10, <1>11

LEMMA PublishGrows ==
  ASSUME TypesOK, NEW events, NEW apps, NEW to \in Nat, NEW before, Publish(events, apps, to, before),
         passed' = passed, failed \subseteq failed'
  PROVE  Grows
<1>1. \A a \in App : leapt[a] \subseteq leapt'[a] /\ (origin[a] # None => origin'[a] = origin[a])
  BY DEF Publish, Leap, Begin
<1>2. \A a \in App : progress[a] # None => progress'[a] # None
  BY Bounds DEF Publish, Progressed
<1>3. published \subseteq published'
  BY DEF Publish
<1>4. \A a \in App : passed[a] \subseteq passed'[a]
  OBVIOUS
<1>5. QED
  BY <1>1, <1>2, <1>3, <1>4 DEF Grows

\* When a batch has been written, or its XADD have failed, its applications have
\* nothing skipped up to where it ends.
LEMMA BatchCovers ==
  ASSUME TypesOK, TypesOK', Grows, NEW i \in Instance, NEW p \in Slot, NEW l, l = poller[i][p],
         l.pc = "pipe", PollerCovers(l), l.batch.events \subseteq published' \cup failed',
         NEW a \in l.subs \cup l.batch.apps, progress[a] # None \/ origin'[a] = l.last
  PROVE  Covered(a, l.to)'
<1>1. a \in App /\ l.last \in Nat /\ l.to \in Nat
  BY PollerFacts
<1>2. SUFFICES ASSUME NEW b \in Block, Orig(a)' < b, b <= l.to PROVE Excused(a, b)'
  BY DEF Covered
<1>3. b \in Nat
  BY Bounds DEF Block
<1>4. CASE l.last < b
  <2>1. Orig(a) < b
    BY <1>1, <1>2, <1>3, OrigGrows
  <2>2. Excused(a, b) \/ <<a, b>> \in l.batch.events
    BY <1>2, <1>4, <2>1 DEF PollerCovers
  <2>3. QED
    BY <1>1, <2>2, ExcusedKept DEF Excused
<1>5. CASE ~(l.last < b)
  <2>1. progress[a] # None
    BY <1>1, <1>2, <1>3, <1>5, Bounds DEF Orig
  <2>2. Covered(a, l.last)
    BY <2>1 DEF PollerCovers
  <2>3. Covered(a, l.last)'
    BY <1>1, <2>2, CoveredKept
  <2>4. QED
    BY <1>1, <1>2, <1>3, <1>5, <2>3 DEF Covered
<1>6. QED
  BY <1>4, <1>5
\* How the invariant gets over a step that writes progress: the first progress of an
\* application leaves the pollers ahead of it a leap.
LEMMA FirstLeaps ==
  ASSUME TypesOK, TypesOK', NEW apps \in SUBSET App, NEW to \in Nat, progress' = Progressed(apps, to),
         leapt' = Leap(apps, to), \A a \in apps : progress[a] = None => Covered(a, to)'
  PROVE  FirstCovered
<1>1. SUFFICES ASSUME NEW i \in Instance, NEW p \in Slot, NEW a \in App, NEW n \in Nat,
                      a \in poller[i][p].subs \cup poller[i][p].batch.apps, n = poller[i][p].last,
                      progress[a] = None, progress'[a] # None
               PROVE  Covered(a, n)'
  BY DEF FirstCovered
<1>2. a \in apps
  BY <1>1 DEF Progressed
<1>3. Covered(a, to)'
  BY <1>1, <1>2
<1>4. QED
  BY <1>1, <1>2, <1>3, LeapCovers

LEMMA WrittenMoves ==
  ASSUME TypesOK, TypesOK', Grows, CoverInv, NEW apps \in SUBSET App, NEW to \in Nat,
         progress' = Progressed(apps, to), \A a \in apps : Covered(a, to)',
         \A a \in App \ apps : origin'[a] = origin[a]
  PROVE  WrittenOK'
<1>1. ASSUME NEW a \in App
      PROVE  (progress'[a] = None => origin'[a] = None) /\ \A n : n = Position(a)' => Covered(a, n)'
  <2>1. CASE a \in apps
    <3>1. progress'[a] = to /\ to # None
      BY <2>1, Bounds DEF Progressed
    <3>2. QED
      BY <2>1, <3>1 DEF Position
  <2>2. CASE a \notin apps
    <3>1. progress'[a] = progress[a] /\ origin'[a] = origin[a]
      BY <2>2 DEF Progressed
    <3>2. PICK m : m = Position(a)
      OBVIOUS
    <3>3. Position(a)' = m
      BY <3>1, <3>2 DEF Position
    <3>4. Covered(a, m)'
      BY <3>2, CoveredKept DEF CoverInv, WrittenOK
    <3>5. QED
      BY <3>1, <3>3, <3>4 DEF CoverInv, WrittenOK
  <2>3. QED
    BY <2>1, <2>2
<1>2. QED
  BY <1>1 DEF WrittenOK, Covered

LEMMA PublishCovers ==
  ASSUME TypesOK, TypesOK', CoverInv, NEW i \in Instance, NEW p \in Slot, NEW l, l = poller[i][p],
         l.pc = "pipe", NEW events, NEW apps, apps \in {{}, l.batch.apps},
         Publish(events, apps, l.to, l.last),
         passed' = passed, failed \subseteq failed', l.batch.events \subseteq published' \cup failed',
         handler' = handler, NEW k, k = Rest(l) \/ k = NextBatch([l EXCEPT !.last = l.to]), Put(i, p, k)
  PROVE  CoverInv'
<1>1. /\ l \in PollerRecord /\ l.last \in Nat /\ l.to \in Nat /\ l.to \in 0 .. MaxBlock
      /\ l.batch.apps \subseteq App /\ l.subs \subseteq App /\ l.last <= l.to
  BY PollerFacts DEF PollerFits
<1>2. Grows
  BY <1>1, PublishGrows
<1>3. PollerCovers(l)
  BY DEF CoverInv, PollersCover
<1>4. apps \in SUBSET App /\ apps \subseteq l.batch.apps
  BY <1>1
<1>5. /\ progress' = Progressed(apps, l.to) /\ leapt' = Leap(apps, l.to)
      /\ origin' = Begin(apps, l.last)
  BY DEF Publish
<1>6. ASSUME NEW a \in l.subs \cup l.batch.apps, progress[a] # None \/ a \in apps
      PROVE  Covered(a, l.to)'
  <2>1. a \in App
    BY <1>1
  <2>2. progress[a] # None \/ origin'[a] = l.last
    BY <1>5, <1>6, <2>1 DEF Begin, CoverInv, WrittenOK
  <2>3. QED
    BY <1>2, <1>3, <2>2, BatchCovers
<1>7. FirstCovered
  BY <1>1, <1>4, <1>5, <1>6, FirstLeaps
<1>8. WrittenOK'
  <2>1. \A a \in apps : Covered(a, l.to)'
    BY <1>4, <1>6
  <2>2. \A a \in App \ apps : origin'[a] = origin[a]
    BY <1>5 DEF Begin
  <2>3. QED
    BY <1>1, <1>2, <1>4, <1>5, <2>1, <2>2, WrittenMoves
<1>9. ASSUME NEW a \in l.subs, progress'[a] # None
      PROVE  Covered(a, l.to)'
  <2>1. progress[a] # None \/ a \in apps
    BY <1>1, <1>5, <1>9 DEF Progressed
  <2>2. QED
    BY <1>6, <2>1
<1>10. PollerCovers(k)'
  <2>1. CASE k = Rest(l)
    <3>1. \A a \in l.subs : progress'[a] # None => Covered(a, l.last)'
      BY <1>1, <1>9, CoveredLess
    <3>2. QED
      BY <1>1, <2>1, <3>1, RestCovers
  <2>2. CASE k = NextBatch([l EXCEPT !.last = l.to])
    <3>1. PICK l1 : l1 = [l EXCEPT !.last = l.to]
      OBVIOUS
    <3>2. l1 \in PollerRecord /\ l1.subs = l.subs /\ l1.last = l.to
      BY <1>1, <3>1 DEF PollerRecord
    <3>3. QED
      BY <1>9, <2>2, <3>1, <3>2, NextCovers
  <2>3. QED
    BY <2>1, <2>2
<1>11. PollersCover' /\ HandlersCover'
  BY <1>2, <1>7, <1>10, PollersMove, HandlersKept
<1>12. QED
  BY <1>8, <1>11 DEF CoverInv

LEMMA BatchEndsCovers ==
  ASSUME TypesOK, TypesOK', CoverInv, NEW i \in Instance, NEW p \in Slot,
         PublishEventsWithProgress(i, p) \/ CommandsFail(i, p) \/ PollFails(i, p)
  PROVE  CoverInv'
<1>1. PICK l : l = poller[i][p]
  OBVIOUS
<1>2. handler' = handler /\ passed' = passed
  BY DEF PublishEventsWithProgress, CommandsFail, PollFails
<1>3. CASE PublishEventsWithProgress(i, p)
  <2>1. /\ l.pc = "pipe" /\ Publish(l.batch.events, l.batch.apps, l.to, l.last)
        /\ Put(i, p, NextBatch([l EXCEPT !.last = l.to])) /\ failed' = failed
    BY <1>1, <1>3 DEF PublishEventsWithProgress
  <2>2. l.batch.events \subseteq published'
    BY <2>1 DEF Publish
  <2>3. QED
    BY <1>1, <1>2, <2>1, <2>2, PublishCovers
<1>4. CASE CommandsFail(i, p)
  <2>1. PICK apps \in {{}, l.batch.apps} :
          /\ Publish({}, apps, l.to, l.last) /\ failed' = failed \cup (l.batch.events \ published)
    BY <1>1, <1>4 DEF CommandsFail
  <2>2. l.pc = "pipe" /\ Put(i, p, NextBatch([l EXCEPT !.last = l.to]))
    BY <1>1, <1>4 DEF CommandsFail
  <2>3. published' = published
    BY <2>1 DEF Publish
  <2>4. l.batch.events \subseteq published' \cup failed' /\ failed \subseteq failed'
    BY <2>1, <2>3
  <2>5. QED
    BY <1>1, <1>2, <2>1, <2>2, <2>4, PublishCovers
<1>5. CASE PollFails(i, p)
  <2>1. Put(i, p, Rest(l)) /\ failed' = failed
    BY <1>1, <1>5 DEF PollFails
  <2>2. CASE l.pc = "pipe" /\ Publish(l.batch.events, l.batch.apps, l.to, l.last)
    <3>1. l.batch.events \subseteq published'
      BY <2>2 DEF Publish
    <3>2. QED
      BY <1>1, <1>2, <2>1, <2>2, <3>1, PublishCovers
  <2>3. CASE UNCHANGED <<progress, published, origin, leapt>>
    <3>1. PollerCovers(l)'
      BY <1>1, <1>2, <2>1, <2>3, PollerKept, GrowsQuietly, NoneFirst DEF CoverInv, PollersCover
    <3>2. l \in PollerRecord /\ \A a \in l.subs : progress'[a] # None => Covered(a, l.last)'
      BY <1>1, <3>1, PollerFacts DEF PollerCovers
    <3>3. PICK k : k = Rest(l)
      OBVIOUS
    <3>4. PollerCovers(k)'
      BY <3>2, <3>3, RestCovers
    <3>5. QED
      BY <1>2, <2>1, <2>3, <3>3, <3>4, QuietCovers
  <2>4. QED
    BY <1>1, <1>5, <2>2, <2>3 DEF PollFails
<1>6. QED
  BY <1>3, <1>4, <1>5
-----------------------------------------------------------------------------
(* ... by a claim handler, ...                                              *)

LEMMA JoinByStartCovers ==
  ASSUME TypesOK, TypesOK', CoverInv, NEW i \in Instance, JoinByStart(i)
  PROVE  CoverInv'
<1>1. PICK subs : subs = manager[i].stored \cup {handler[i].app}
  OBVIOUS
<1>2. PICK p \in Slot :
           Put(i, p, Fresh(subs)) /\ handler' = [handler EXCEPT ![i].pc = "starting", ![i].poller = p]
  BY <1>1 DEF JoinByStart
<1>3. UNCHANGED <<progress, published, origin, passed, leapt, failed>>
  BY DEF JoinByStart, redis, history
<1>4. PICK h : h = [handler[i] EXCEPT !.pc = "starting", !.poller = p]
  OBVIOUS
<1>5. handler[i] \in HandlerRecord /\ handler[i].app \in App
  BY HandlerFacts DEF JoinByStart
<1>6. h.pc = "starting" /\ handler' = [handler EXCEPT ![i] = h]
  BY <1>2, <1>4, <1>5, PartsFit DEF HandlersOK, HandlerRecord
<1>7. HandlerCovers(h)'
  BY <1>6 DEF HandlerCovers
<1>8. subs \in SUBSET App
  BY <1>1, <1>5, PartsFit DEF ManagerRecord
<1>9. PICK k : k = Fresh(subs)
  OBVIOUS
<1>10. PollerCovers(k)'
  BY <1>8, <1>9, FreshCovers
<1>11. QED
  BY <1>2, <1>3, <1>6, <1>7, <1>9, <1>10, QuietCovers

\* Applications that join the list of a poller pass the blocks up to where it has got.
LEMMA JoinedCovers ==
  ASSUME TypesOK, TypesOK', CoverInv, NEW i \in Instance, NEW p \in Slot, NEW l, l = poller[i][p],
         NEW subs \in SUBSET App, passed' = Joined(l, subs),
         UNCHANGED <<progress, published, origin, leapt, failed>>, NEW k, k = Listed(l, subs)
  PROVE  PollerCovers(k)' /\ \A a \in App : passed[a] \subseteq passed'[a]
<1>1. l \in PollerRecord /\ PollerFits(l, head) /\ Reached(l) \in 0 .. head /\ Reached(l) \in Nat
  BY PollerFacts
<1>2. \A a \in App : passed[a] \subseteq passed'[a]
  BY PassGrows DEF Joined
<1>3. Grows
  BY <1>2, GrowsQuietly
<1>4. PollerCovers(l)'
  BY <1>3, PollerKept, NoneFirst DEF CoverInv, PollersCover
<1>5. PICK n : n = Reached(l)
  OBVIOUS
<1>6. ASSUME NEW a \in subs \ l.subs PROVE Covered(a, n)'
  <2>1. \A b \in Position(a) + 1 .. n : b \in passed'[a]
    BY <1>5, <1>6 DEF Joined, Pass
  <2>2. QED
    BY <1>1, <1>3, <1>5, <1>6, <2>1, PassCovers DEF CoverInv
<1>7. \A a \in subs \ l.subs : Covered(a, Reached(l))'
  BY <1>5, <1>6 DEF Reached
<1>8. QED
  BY <1>1, <1>2, <1>4, <1>7, ListedCovers

LEMMA JoinPollerCovers ==
  ASSUME TypesOK, TypesOK', CoverInv, NEW i \in Instance, JoinPoller(i)
  PROVE  CoverInv'
<1>1. PICK h0 : h0 = handler[i]
  OBVIOUS
<1>2. PICK p : p = manager[i].current
  OBVIOUS
<1>3. p \in Slot
  BY <1>2, PartsFit DEF JoinPoller, ManagerRecord
<1>4. PICK l : l = poller[i][p]
  OBVIOUS
<1>5. l.subs \in SUBSET App /\ l.last \in 0 .. MaxBlock
  BY <1>3, <1>4, PollerFacts
<1>6. h0 \in HandlerRecord /\ h0.app \in App
  BY <1>1, HandlerFacts DEF JoinPoller
<1>7. UNCHANGED <<progress, published, origin, leapt, failed>>
  BY DEF JoinPoller, redis
<1>8. CASE /\ progress[h0.app] = None
           /\ handler' = [handler EXCEPT ![i] = [@ EXCEPT !.pc = "set", !.poller = p, !.to = l.last]]
           /\ UNCHANGED <<poller, passed>>
  <2>1. PICK h : h = [h0 EXCEPT !.pc = "set", !.poller = p, !.to = l.last]
    OBVIOUS
  <2>2. h.pc = "set" /\ handler' = [handler EXCEPT ![i] = h]
    BY <1>1, <1>6, <1>8, <2>1, PartsFit DEF HandlersOK, HandlerRecord
  <2>3. HandlerCovers(h)'
    BY <2>2 DEF HandlerCovers
  <2>4. QED
    BY <1>7, <1>8, <2>2, <2>3, QuietCovers
<1>9. CASE /\ progress[h0.app] # None /\ progress[h0.app] < l.last
           /\ handler' = [handler EXCEPT ![i] = [@ EXCEPT !.pc = "logs", !.poller = p,
                                                          !.from = progress[h0.app] + 1, !.to = l.last]]
           /\ UNCHANGED <<poller, passed>>
  <2>1. PICK n : n = progress[h0.app]
    OBVIOUS
  <2>2. PICK from : from = n + 1
    OBVIOUS
  <2>3. PICK h : h = [h0 EXCEPT !.pc = "logs", !.poller = p, !.from = from, !.to = l.last]
    OBVIOUS
  <2>4. h.from = from /\ h.app = h0.app /\ handler' = [handler EXCEPT ![i] = h]
    BY <1>1, <1>6, <1>9, <2>1, <2>2, <2>3, PartsFit DEF HandlersOK, HandlerRecord
  <2>5. n \in Nat /\ Position(h0.app) = n
    BY <1>6, <1>9, <2>1, ProgressTypes DEF Position
  <2>6. Covered(h0.app, n)'
    BY <1>6, <1>7, <1>9, <2>5, CoveredKept, GrowsQuietly DEF CoverInv, WrittenOK
  <2>7. from - 1 = n
    BY <2>2, <2>5
  <2>8. HandlerCovers(h)'
    BY <1>7, <1>9, <2>4, <2>6, <2>7 DEF HandlerCovers
  <2>9. QED
    BY <1>7, <1>9, <2>4, <2>8, QuietCovers
<1>10. CASE /\ Put(i, p, Listed(l, l.subs \cup {h0.app}))
            /\ passed' = Joined(l, l.subs \cup {h0.app})
            /\ handler' = [handler EXCEPT ![i] = Idle]
  <2>1. PICK subs : subs = l.subs \cup {h0.app}
    OBVIOUS
  <2>2. PICK k : k = Listed(l, subs)
    OBVIOUS
  <2>3. subs \in SUBSET App /\ passed' = Joined(l, subs) /\ Put(i, p, k)
    BY <1>5, <1>6, <1>10, <2>1, <2>2
  <2>4. PollerCovers(k)' /\ \A a \in App : passed[a] \subseteq passed'[a]
    BY <1>3, <1>4, <1>7, <2>2, <2>3, JoinedCovers
  <2>5. QED
    BY <1>3, <1>7, <1>10, <2>3, <2>4, IdleCovers, QuietCovers
<1>11. QED
  BY <1>1, <1>2, <1>4, <1>8, <1>9, <1>10 DEF JoinPoller

\* What is written for an application that is new, and what it passes.
LEMMA SetProgressCovers ==
  ASSUME TypesOK, TypesOK', CoverInv, NEW i \in Instance, SetProgress(i)
  PROVE  CoverInv'
<1>1. PICK h : h = handler[i]
  OBVIOUS
<1>2. PICK a : a = h.app
  OBVIOUS
<1>3. PICK p : p = h.poller
  OBVIOUS
<1>4. h.to \in Nat /\ a \in App /\ p \in Slot
  BY <1>1, <1>2, <1>3, HandlerFacts DEF SetProgress, HandlerFits
<1>5. PICK l : l = poller[i][p]
  OBVIOUS
<1>6. PICK r : r = Reached(l)
  OBVIOUS
<1>7. PICK n : n = IF r > h.to THEN r ELSE h.to
  OBVIOUS
<1>8. PICK k : k = Listed(l, l.subs \cup {a})
  OBVIOUS
<1>9. /\ progress' = Progressed({a}, h.to) /\ leapt' = Leap({a}, h.to)
      /\ origin' = (IF h.to = 0 \/ holder[a] # i THEN origin ELSE Begin({a}, h.to))
      /\ passed' = Pass({a}, n) /\ Put(i, p, k)
      /\ handler' = [handler EXCEPT ![i] = Idle]
      /\ UNCHANGED <<published, failed>>
  BY <1>1, <1>2, <1>3, <1>5, <1>6, <1>7, <1>8 DEF SetProgress
<1>10. l \in PollerRecord /\ PollerFits(l, head) /\ r \in Nat /\ n \in Nat /\ r <= n /\ h.to <= n
  BY <1>4, <1>5, <1>6, <1>7, PollerFacts
<1>11. Grows
  <2>1. \A b \in App : /\ passed[b] \subseteq passed'[b] /\ leapt[b] \subseteq leapt'[b]
                       /\ origin[b] # None => origin'[b] = origin[b]
    BY <1>9, PassGrows DEF Leap, Begin
  <2>2. \A b \in App : progress[b] # None => progress'[b] # None
    BY <1>4, <1>9, Bounds DEF Progressed
  <2>3. QED
    BY <1>9, <2>1, <2>2 DEF Grows
<1>12. Covered(a, h.to)' /\ Covered(a, r)'
  <2>1. \A b \in Position(a) + 1 .. n : b \in passed'[a]
    BY <1>4, <1>9 DEF Pass
  <2>2. Covered(a, n)'
    BY <1>4, <1>10, <1>11, <2>1, PassCovers DEF CoverInv
  <2>3. QED
    BY <1>4, <1>10, <2>2, CoveredLess
<1>13. FirstCovered
  BY <1>4, <1>9, <1>12, FirstLeaps
<1>14. WrittenOK'
  <2>1. \A b \in App \ {a} : origin'[b] = origin[b]
    BY <1>9 DEF Begin
  <2>2. QED
    BY <1>4, <1>9, <1>11, <1>12, <2>1, WrittenMoves
<1>15. PollerCovers(k)'
  <2>1. PollerCovers(l)'
    BY <1>4, <1>5, <1>11, <1>13, PollerKept DEF CoverInv, PollersCover
  <2>2. \A b \in (l.subs \cup {a}) \ l.subs : Covered(b, Reached(l))'
    BY <1>6, <1>12 DEF Reached
  <2>3. QED
    BY <1>8, <1>10, <2>1, <2>2, ListedCovers
<1>16. PollersCover' /\ HandlersCover'
  BY <1>4, <1>9, <1>11, <1>13, <1>15, IdleCovers, PollersMove, HandlersMove
<1>17. QED
  BY <1>14, <1>16 DEF CoverInv
LEMMA CatchUpLogsCovers ==
  ASSUME TypesOK, TypesOK', CoverInv, NEW i \in Instance, CatchUpLogs(i)
  PROVE  CoverInv'
<1>1. PICK h0 : h0 = handler[i]
  OBVIOUS
<1>2. PICK h : h = [h0 EXCEPT !.pc = "pipe"]
  OBVIOUS
<1>3. h0 \in HandlerRecord /\ h0.pc = "logs"
  BY <1>1, HandlerFacts DEF CatchUpLogs
<1>4. h.app = h0.app /\ h.from = h0.from
  BY <1>2, <1>3 DEF HandlerRecord
<1>5. /\ handler' = [handler EXCEPT ![i] = h]
      /\ UNCHANGED <<progress, published, origin, passed, leapt, failed, poller>>
  BY <1>1, <1>2, PartsFit DEF CatchUpLogs, HandlersOK, redis, history
<1>6. HandlerCovers(h0)'
  BY <1>1, <1>5, HandlerKept, GrowsQuietly DEF CoverInv, HandlersCover
<1>7. HandlerCovers(h)'
  BY <1>3, <1>4, <1>6 DEF HandlerCovers
<1>8. QED
  BY <1>5, <1>7, QuietCovers

\* A batch of the catch-up closes up to what is behind it; with the last one the
\* application passes what its poller has got ahead meanwhile.
LEMMA CatchUpPipelineCovers ==
  ASSUME TypesOK, TypesOK', CoverInv, NEW i \in Instance, CatchUpPipeline(i)
  PROVE  CoverInv'
<1>1. PICK h : h = handler[i]
  OBVIOUS
<1>2. PICK a : a = h.app
  OBVIOUS
<1>3. PICK p : p = h.poller
  OBVIOUS
<1>4. PICK end : end = CatchUpEnd(h)
  OBVIOUS
<1>5. h.pc = "pipe" /\ h \in HandlerRecord
  BY <1>1, HandlerFacts DEF CatchUpPipeline
<1>6. h.from \in Nat /\ 1 <= h.from /\ a \in App /\ p \in Slot /\ end \in Nat /\ h.from <= end
  BY <1>1, <1>2, <1>3, <1>4, <1>5, CatchUpEnds
<1>7. PICK l : l = poller[i][p]
  OBVIOUS
<1>8. PICK r : r = Reached(l)
  OBVIOUS
<1>9. l \in PollerRecord /\ PollerFits(l, head) /\ r \in Nat
  BY <1>6, <1>7, <1>8, PollerFacts
<1>10. /\ published' = published \cup Events({a}, h.from, end)
       /\ progress' = Progressed({a}, end) /\ leapt' = Leap({a}, end) /\ origin' = Begin({a}, end)
       /\ failed' = failed
  BY <1>1, <1>2, <1>4 DEF CatchUpPipeline, Publish
<1>11. \/ /\ end < h.to /\ handler' = [handler EXCEPT ![i].pc = "logs", ![i].from = end + 1]
          /\ UNCHANGED <<poller, passed>>
       \/ /\ handler' = [handler EXCEPT ![i] = Idle]
          /\ Put(i, p, Listed(l, l.subs \cup {a}))
          /\ passed' = [passed EXCEPT ![a] = @ \cup (end + 1 .. r)]
  BY <1>1, <1>2, <1>3, <1>4, <1>7, <1>8 DEF CatchUpPipeline
<1>12. Grows
  <2>1. passed \in [App -> SUBSET (1 .. head)]
    BY DEF TypesOK, SharedOK
  <2>2. \A b \in App : /\ passed[b] \subseteq passed'[b] /\ leapt[b] \subseteq leapt'[b]
                       /\ origin[b] # None => origin'[b] = origin[b]
    BY <1>10, <1>11, <2>1 DEF Leap, Begin
  <2>3. \A b \in App : progress[b] # None => progress'[b] # None
    BY <1>6, <1>10, Bounds DEF Progressed
  <2>4. QED
    BY <1>10, <2>2, <2>3 DEF Grows
<1>13. PICK m : m = h.from - 1
  OBVIOUS
<1>14. progress[a] # None /\ Covered(a, m)
  BY <1>1, <1>2, <1>5, <1>13 DEF CoverInv, HandlersCover, HandlerCovers
<1>15. Covered(a, end)'
  <2>1. SUFFICES ASSUME NEW b \in Block, Orig(a)' < b, b <= end PROVE Excused(a, b)'
    BY DEF Covered
  <2>2. b \in Nat
    BY Bounds DEF Block
  <2>3. CASE b <= m
    <3>1. Covered(a, m)'
      BY <1>6, <1>12, <1>14, CoveredKept
    <3>2. QED
      BY <2>1, <2>3, <3>1 DEF Covered
  <2>4. CASE h.from <= b /\ b \notin Silent
    BY <1>6, <1>10, <2>1, <2>2, <2>4 DEF Events, Excused
  <2>5. CASE b \in Silent
    BY <2>5 DEF Excused
  <2>6. QED
    BY <1>6, <1>13, <2>2, <2>3, <2>4, <2>5
<1>16. FirstCovered
  BY <1>6, <1>10, <1>14, FirstLeaps
<1>17. WrittenOK'
  <2>1. \A b \in App \ {a} : origin'[b] = origin[b]
    BY <1>10 DEF Begin
  <2>2. QED
    BY <1>6, <1>10, <1>12, <1>15, <2>1, WrittenMoves
<1>18. CASE /\ end < h.to /\ handler' = [handler EXCEPT ![i].pc = "logs", ![i].from = end + 1]
            /\ UNCHANGED <<poller, passed>>
  <2>1. PICK from : from = end + 1
    OBVIOUS
  <2>2. PICK g : g = [h EXCEPT !.pc = "logs", !.from = from]
    OBVIOUS
  <2>3. g.app = a /\ g.from = from /\ handler' = [handler EXCEPT ![i] = g]
    BY <1>1, <1>2, <1>5, <1>18, <2>1, <2>2, PartsFit DEF HandlersOK, HandlerRecord
  <2>4. from - 1 = end
    BY <1>6, <2>1
  <2>5. progress'[a] # None
    BY <1>6, <1>10, Bounds DEF Progressed
  <2>6. HandlerCovers(g)'
    BY <1>15, <2>3, <2>4, <2>5 DEF HandlerCovers
  <2>7. HandlersCover'
    BY <1>12, <2>3, <2>6, HandlersMove
  <2>8. PollersCover'
    BY <1>12, <1>16, <1>18, PollersKept
  <2>9. QED
    BY <1>17, <2>7, <2>8 DEF CoverInv
<1>19. CASE /\ handler' = [handler EXCEPT ![i] = Idle]
            /\ Put(i, p, Listed(l, l.subs \cup {a}))
            /\ passed' = [passed EXCEPT ![a] = @ \cup (end + 1 .. r)]
  <2>1. PICK k : k = Listed(l, l.subs \cup {a})
    OBVIOUS
  <2>2. (end + 1 .. r) \subseteq passed'[a]
    BY <1>6, <1>19 DEF TypesOK, SharedOK
  <2>3. Covered(a, r)'
    <3>1. SUFFICES ASSUME NEW b \in Block, Orig(a)' < b, b <= r PROVE Excused(a, b)'
      BY DEF Covered
    <3>2. b \in Nat
      BY Bounds DEF Block
    <3>3. CASE b <= end
      BY <1>15, <3>1, <3>3 DEF Covered
    <3>4. CASE ~(b <= end)
      BY <1>6, <1>9, <2>2, <3>1, <3>2, <3>4 DEF Excused
    <3>5. QED
      BY <3>3, <3>4
  <2>4. PollerCovers(l)'
    BY <1>6, <1>7, <1>12, <1>16, PollerKept DEF CoverInv, PollersCover
  <2>5. \A b \in (l.subs \cup {a}) \ l.subs : Covered(b, Reached(l))'
    BY <1>8, <2>3 DEF Reached
  <2>6. PollerCovers(k)'
    BY <1>9, <2>1, <2>4, <2>5, ListedCovers
  <2>7. PollersCover' /\ HandlersCover'
    BY <1>6, <1>12, <1>16, <1>19, <2>1, <2>6, IdleCovers, PollersMove, HandlersMove
  <2>8. QED
    BY <1>17, <2>7 DEF CoverInv
<1>20. QED
  BY <1>11, <1>18, <1>19

LEMMA HandlerFailsCovers ==
  ASSUME TypesOK, TypesOK', CoverInv, NEW i \in Instance, HandlerFails(i)
  PROVE  CoverInv'
<1>1. /\ handler' = [handler EXCEPT ![i] = Idle]
      /\ UNCHANGED <<progress, published, origin, passed, leapt, failed, poller>>
  BY DEF HandlerFails, redis, history
<1>2. QED
  BY <1>1, IdleCovers, QuietCovers

-----------------------------------------------------------------------------
(* ... and by claims, releases and refreshes                                *)

LEMMA ClaimCovers ==
  ASSUME TypesOK, TypesOK', CoverInv, NEW i \in Instance, NEW a \in App, Claim(i, a)
  PROVE  CoverInv'
<1>1. PICK h : h = [Idle EXCEPT !.pc = "progress", !.app = a]
  OBVIOUS
<1>2. h.pc = "progress"
  BY <1>1 DEF Idle
<1>3. HandlerCovers(h)'
  BY <1>2 DEF HandlerCovers
<1>4. /\ handler' = handler \/ handler' = [handler EXCEPT ![i] = h]
      /\ UNCHANGED <<progress, published, origin, passed, leapt, failed, poller>>
  BY <1>1 DEF Claim, history
<1>5. QED
  BY <1>3, <1>4, QuietCovers

LEMMA HandleAppReleasedCovers ==
  ASSUME TypesOK, TypesOK', CoverInv, NEW i \in Instance, NEW a \in App, HandleAppReleased(i, a)
  PROVE  CoverInv'
<1>1. PICK p : p = manager[i].current
  OBVIOUS
<1>2. UNCHANGED <<progress, published, origin, passed, leapt, failed, handler>>
  BY DEF HandleAppReleased, redis, history
<1>3. CASE p = None
  <2>1. poller' = poller
    BY <1>1, <1>3 DEF HandleAppReleased
  <2>2. QED
    BY <1>2, <2>1, QuietCovers
<1>4. CASE p # None
  <2>1. p \in Slot
    BY <1>1, <1>4, PartsFit DEF ManagerRecord
  <2>2. PICK l : l = poller[i][p]
    OBVIOUS
  <2>3. PICK subs : subs = l.subs \ {a}
    OBVIOUS
  <2>4. PICK k1 : k1 = Listed(l, subs)
    OBVIOUS
  <2>5. PICK k : k = IF subs = {} THEN Stopped(k1) ELSE k1
    OBVIOUS
  <2>6. Put(i, p, k)
    BY <1>1, <1>4, <2>2, <2>3, <2>4, <2>5 DEF HandleAppReleased
  <2>7. PollerCovers(l)'
    BY <1>2, <2>1, <2>2, PollerKept, GrowsQuietly, NoneFirst DEF CoverInv, PollersCover
  <2>8. l \in PollerRecord /\ PollerFits(l, head) /\ l.subs \in SUBSET App
    BY <2>1, <2>2, PollerFacts
  <2>9. PollerCovers(k1)'
    <3>1. subs \ l.subs = {}
      BY <2>3
    <3>2. QED
      BY <2>4, <2>7, <2>8, <3>1, ListedCovers
  <2>10. k1 \in PollerRecord
    <3>1. subs \in SUBSET App /\ head \in Nat
      BY <2>3, <2>8, PartsFit
    <3>2. QED
      BY <2>4, <2>8, <3>1, ListedFits DEF PollerFits
  <2>11. PollerCovers(k)'
    BY <2>5, <2>9, <2>10, StoppedCovers
  <2>12. QED
    BY <1>2, <2>1, <2>6, <2>11, QuietCovers
<1>5. QED
  BY <1>3, <1>4
LEMMA RefreshSubscriptionsCovers ==
  ASSUME TypesOK, TypesOK', CoverInv, NEW i \in Instance, RefreshSubscriptions(i)
  PROVE  CoverInv'
<1>1. PICK p : p = manager[i].current
  OBVIOUS
<1>2. PICK subs : subs = request[i].data.apps \cap manager[i].claimed
  OBVIOUS
<1>3. UNCHANGED <<progress, published, origin, leapt, failed, handler>>
  BY DEF RefreshSubscriptions, redis
<1>4. CASE UNCHANGED <<poller, passed>>
  BY <1>3, <1>4, QuietCovers
<1>5. CASE /\ p # None
           /\ Put(i, p, Listed(poller[i][p], subs))
           /\ passed' = Joined(poller[i][p], subs)
  <2>1. p \in Slot /\ subs \in SUBSET App
    BY <1>1, <1>2, <1>5, PartsFit DEF ManagerRecord
  <2>2. PICK l : l = poller[i][p]
    OBVIOUS
  <2>3. PICK k : k = Listed(l, subs)
    OBVIOUS
  <2>4. PollerCovers(k)' /\ \A a \in App : passed[a] \subseteq passed'[a]
    BY <1>3, <1>5, <2>1, <2>2, <2>3, JoinedCovers
  <2>5. QED
    BY <1>3, <1>5, <2>1, <2>2, <2>3, <2>4, QuietCovers
<1>6. QED
  BY <1>1, <1>2, <1>4, <1>5 DEF RefreshSubscriptions

\* Steps that change several pollers of an instance, or all of them.
LEMMA OfOneCovers ==
  ASSUME TypesOK, TypesOK', CoverInv, NEW i \in Instance, NEW rest,
         \A q \in Slot : \A k : k = rest[q] => PollerCovers(k)', poller' = [poller EXCEPT ![i] = rest],
         handler' = handler \/ handler' = [handler EXCEPT ![i] = Idle],
         UNCHANGED <<progress, published, origin, passed, leapt, failed>>
  PROVE  CoverInv'
<1>1. Grows /\ FirstCovered
  BY GrowsQuietly, NoneFirst
<1>2. ASSUME NEW j \in Instance, NEW q \in Slot, NEW l, l = poller'[j][q] PROVE PollerCovers(l)'
  <2>1. CASE j = i
    BY <1>2, <2>1, PartsFit DEF PollersOK
  <2>2. CASE j # i
    <3>1. l = poller[j][q]
      BY <1>2, <2>2, PartsFit DEF PollersOK
    <3>2. QED
      BY <1>1, <3>1, PollerKept DEF CoverInv, PollersCover
  <2>3. QED
    BY <2>1, <2>2
<1>3. PollersCover'
  BY <1>2 DEF PollersCover, PollerCovers
<1>4. HandlersCover'
  BY <1>1, IdleCovers, HandlersKept, HandlersMove
<1>5. WrittenOK'
  BY <1>1, WrittenKept
<1>6. QED
  BY <1>3, <1>4, <1>5 DEF CoverInv

LEMMA StoppedOneCovers ==
  ASSUME TypesOK, TypesOK', CoverInv, NEW i \in Instance, NEW c, c = manager[i].current, NEW rest,
         rest = (IF c = None THEN poller[i] ELSE [poller[i] EXCEPT ![c] = Stopped(@)]),
         UNCHANGED <<progress, published, origin, passed, leapt, failed>>
  PROVE  \A q \in Slot : \A k : k = rest[q] => PollerCovers(k)'
<1>1. SUFFICES ASSUME NEW q \in Slot, NEW k, k = rest[q] PROVE PollerCovers(k)'
  OBVIOUS
<1>2. PICK l : l = poller[i][q]
  OBVIOUS
<1>3. PollerCovers(l)'
  BY <1>2, PollerKept, GrowsQuietly, NoneFirst DEF CoverInv, PollersCover
<1>4. l \in PollerRecord
  BY <1>2, PollerFacts
<1>5. k = l \/ k = Stopped(l)
  BY <1>1, <1>2, PartsFit DEF PollersOK
<1>6. QED
  BY <1>3, <1>4, <1>5, StoppedCovers

LEMMA RefreshChainsCovers ==
  ASSUME TypesOK, TypesOK', CoverInv, NEW i \in Instance, RefreshChains(i)
  PROVE  CoverInv'
<1>1. PICK c : c = manager[i].current
  OBVIOUS
<1>2. PICK rest : rest = IF c = None THEN poller[i] ELSE [poller[i] EXCEPT ![c] = Stopped(@)]
  OBVIOUS
<1>3. PICK data : data = request[i].data
  OBVIOUS
<1>4. PICK subs : subs = data.apps \cap manager[i].claimed
  OBVIOUS
<1>5. UNCHANGED <<progress, published, origin, passed, leapt, failed, handler>>
  BY DEF RefreshChains, redis, history
<1>6. \A q \in Slot : \A k : k = rest[q] => PollerCovers(k)'
  BY <1>1, <1>2, <1>5, StoppedOneCovers
<1>7. CASE poller' = poller
  BY <1>5, <1>7, QuietCovers
<1>8. CASE poller' = [poller EXCEPT ![i] = rest]
  BY <1>5, <1>6, <1>8, OfOneCovers
<1>9. ASSUME NEW p \in Slot, poller' = [poller EXCEPT ![i] = [rest EXCEPT ![p] = Fresh(subs)]]
      PROVE  CoverInv'
  <2>1. subs \in SUBSET App
    BY <1>4, PartsFit DEF ManagerRecord
  <2>2. PICK fresh : fresh = Fresh(subs)
    OBVIOUS
  <2>3. PollerCovers(fresh)'
    BY <2>1, <2>2, FreshCovers
  <2>4. rest \in [Slot -> PollerRecord]
    BY <1>1, <1>2, StoppedTypes
  <2>5. PICK all : all = [rest EXCEPT ![p] = fresh]
    OBVIOUS
  <2>6. \A q \in Slot : \A k : k = all[q] => PollerCovers(k)'
    BY <1>6, <2>3, <2>4, <2>5
  <2>7. QED
    BY <1>5, <1>9, <2>2, <2>5, <2>6, OfOneCovers
<1>10. \/ poller' = poller \/ poller' = [poller EXCEPT ![i] = rest]
       \/ \E p \in Slot : poller' = [poller EXCEPT ![i] = [rest EXCEPT ![p] = Fresh(subs)]]
  BY <1>1, <1>2, <1>3, <1>4 DEF RefreshChains
<1>11. QED
  BY <1>7, <1>8, <1>9, <1>10

LEMMA FullRefreshCovers ==
  ASSUME TypesOK, TypesOK', CoverInv, NEW i \in Instance, FullRefresh(i)
  PROVE  CoverInv'
<1>1. PICK c : c = manager[i].current
  OBVIOUS
<1>2. UNCHANGED <<progress, published, origin, passed, leapt, failed, handler>>
  BY DEF FullRefresh, redis, history
<1>3. CASE c = None
  BY <1>1, <1>2, <1>3, QuietCovers DEF FullRefresh
<1>4. CASE c # None
  <2>1. PICK k : k = Stopped(poller[i][c])
    OBVIOUS
  <2>2. c \in Slot
    BY <1>1, <1>4, PartsFit DEF ManagerRecord
  <2>3. Put(i, c, k)
    BY <1>1, <1>4, <2>1, <2>2, PartsFit DEF FullRefresh, Put, PollersOK
  <2>4. PICK rest : rest = [poller[i] EXCEPT ![c] = Stopped(@)]
    OBVIOUS
  <2>5. \A q \in Slot : \A n : n = rest[q] => PollerCovers(n)'
    BY <1>1, <1>2, <1>4, <2>4, StoppedOneCovers
  <2>6. k = rest[c]
    BY <2>1, <2>2, <2>4, PartsFit DEF PollersOK
  <2>7. QED
    BY <1>2, <2>2, <2>3, <2>5, <2>6, QuietCovers
<1>5. QED
  BY <1>3, <1>4

LEMMA CrashCovers ==
  ASSUME TypesOK, TypesOK', CoverInv, NEW i \in Instance, Crash(i)
  PROVE  CoverInv'
<1>1. PICK rest : rest = [p \in Slot |-> Off]
  OBVIOUS
<1>2. \A q \in Slot : \A k : k = rest[q] => PollerCovers(k)'
  BY <1>1, OffCovers
<1>3. /\ poller' = [poller EXCEPT ![i] = rest] /\ handler' = [handler EXCEPT ![i] = Idle]
      /\ UNCHANGED <<progress, published, origin, passed, leapt, failed>>
  BY <1>1 DEF Crash, history
<1>4. QED
  BY <1>2, <1>3, OfOneCovers

LEMMA CoverStep ==
  ASSUME TypesOK, TypesOK', CoverInv, [Next]_vars
  PROVE  CoverInv'
<1>1. ASSUME UNCHANGED <<progress, published, origin, passed, leapt, failed, poller, handler>>
      PROVE  CoverInv'
  BY <1>1, QuietCovers
<1>2. ASSUME NEW i \in Instance, NEW p \in Slot, PollerStep(i, p)
      PROVE  CoverInv'
  BY <1>2, StartTargetCovers, StartMinCovers, PollCovers, ProcessLogsCovers, BatchEndsCovers DEF PollerStep
<1>3. ASSUME NEW i \in Instance, HandlerStep(i)
      PROVE  CoverInv'
  BY <1>3, JoinByStartCovers, JoinPollerCovers, SetProgressCovers, CatchUpLogsCovers, CatchUpPipelineCovers
     DEF HandlerStep
<1>4. ASSUME NEW i \in Instance, RefreshStep(i)
      PROVE  CoverInv'
  <2>1. CASE ReadRefresh(i)
    BY <1>1, <2>1 DEF ReadRefresh, redis, history
  <2>2. QED
    BY <1>4, <2>1, RefreshSubscriptionsCovers, RefreshChainsCovers DEF RefreshStep
<1>5. ASSUME NEW i \in Instance, NEW a \in App, ClaimStep(i, a)
      PROVE  CoverInv'
  BY <1>5, ClaimCovers, HandleAppReleasedCovers DEF ClaimStep
<1>6. CASE Fault
  <2>1. ASSUME NEW a \in App, LoseClaim(a) PROVE CoverInv'
    BY <1>1, <2>1 DEF LoseClaim, history
  <2>2. ASSUME NEW i \in Instance, RefreshFails(i) PROVE CoverInv'
    BY <1>1, <2>2 DEF RefreshFails, redis, history
  <2>3. QED
    BY <1>6, <2>1, <2>2, StartFailsCovers, BatchEndsCovers, HandlerFailsCovers, FullRefreshCovers, CrashCovers
       DEF Fault
<1>7. ASSUME NEW i \in Instance, Initialize(i) PROVE CoverInv'
  BY <1>1, <1>7 DEF Initialize, redis, history
<1>8. CASE Mine
  BY <1>1, <1>8 DEF Mine, redis, history
<1>9. CASE ChangeChain \/ \E a \in App : ChangeSubscription(a)
  BY <1>1, <1>9 DEF ChangeChain, ChangeSubscription, Signal, redis, history
<1>10. CASE UNCHANGED vars
  BY <1>1, <1>10 DEF vars, redis, history
<1>11. QED
  BY <1>2, <1>3, <1>4, <1>5, <1>6, <1>7, <1>8, <1>9, <1>10 DEF Next

LEMMA CoverInit == ASSUME Init PROVE CoverInv
<1>1. \A a \in App : progress[a] = None /\ origin[a] = None
  BY DEF Init
<1>2. \A a \in App : Covered(a, 0)
  BY Bounds DEF Covered, Block, Orig, Init
<1>3. WrittenOK
  BY <1>1, <1>2 DEF WrittenOK, Position
<1>4. PollersCover
  BY DEF Init, PollersCover, PollerCovers, Off
<1>5. HandlersCover
  BY DEF Init, HandlersCover, HandlerCovers, Idle
<1>6. QED
  BY <1>3, <1>4, <1>5 DEF CoverInv

LEMMA CoverSays == ASSUME CoverInv PROVE NothingSkipped
BY DEF CoverInv, WrittenOK, Covered, Excused, Orig, Position, NothingSkipped, Skipped

\* Whatever fails, dies, restarts, is claimed by another instance or is written late:
\* where the progress of an application has got beyond an event that is not in its
\* stream, the block was passed when the application joined a poller, or leapt over by
\* its first progress, or Redis has refused the event within a pipeline.
THEOREM NothingIsSkipped == Spec => []NothingSkipped
<1>1. Init => CoverInv
  BY CoverInit
<1>2. TypesOK /\ TypesOK' /\ CoverInv /\ [Next]_vars => CoverInv'
  BY CoverStep
<1>3. QED
  BY <1>1, <1>2, TypesHold, CoverSays, PTL DEF Spec
=============================================================================
