--------------------------- MODULE MCAgents_proofs ---------------------------
(***************************************************************************)
(* Parts of MCAgents, for any values of its constants: the agent pool      *)
(* keeps OneTaskAtATime, the message bus keeps SubscribersServed, the      *)
(* coordinator and the scheduler of the central brain keep BrainSound,     *)
(* workflows with their instances and their recovery keep WorkflowSound,   *)
(* and the entropy governance with its books keeps EntropySound.           *)
(***************************************************************************)
EXTENDS MCAgents, FiniteSetTheorems, WellFoundedInduction, TLAPS

Snapshots == [state : Pool!States, task : Jobs \cup {NoAgent}] \cup {Pool!NoSnapshot}
Fields == {"state", "task", "snapshot", "rested"}

(* What the proof needs of the types.                                      *)
PoolTypes ==
    /\ agents \subseteq Workers /\ IsFiniteSet(agents) /\ Cardinality(agents) <= MaxWorkers
    /\ todo \subseteq Jobs
    /\ DOMAIN agent = Workers /\ DOMAIN open = Workers
    /\ \A w \in Workers :
          /\ DOMAIN agent[w] = Fields
          /\ agent[w].state \in Pool!States
          /\ agent[w].task \in Jobs \cup {NoAgent}
          /\ agent[w].snapshot \in Snapshots

(* An agent that nobody interrupted holds the task it shows and no other;  *)
(* it shows one while it runs and none while it is free, and what it could *)
(* be rolled back to is a state in which it was free.                      *)
InOrder(w) ==
    /\ open[w] = {agent[w].task} \ {NoAgent}
    /\ agent[w].state = "running" => agent[w].task # NoAgent
    /\ agent[w].state \in {"idle", "learning", "failed"} => agent[w].task = NoAgent
    /\ agent[w].snapshot.task = NoAgent
    /\ agent[w].snapshot.state \in {"none", "idle", "learning"}

PoolInOrder == \A w \in agents \ interrupted : InOrder(w)

PoolInv == part = "pool" => PoolTypes /\ PoolInOrder

-----------------------------------------------------------------------------
(* The message bus *)

Walk == {"on", "next", "got", "were", "twice"}

BusTypes ==
    /\ order \in Seq(Subscriptions)
    /\ subscribed = {order[i] : i \in DOMAIN order}
    /\ \A i, j \in DOMAIN order : order[i] = order[j] => i = j
    /\ history \in Seq(Nat) /\ Len(history) <= Kept /\ published \in Nat
    /\ DOMAIN publish = Senders
    /\ \A p \in Senders :
          /\ DOMAIN publish[p] = Walk
          /\ publish[p].next \in 1 .. Cardinality(Subscriptions) + 1

(* While a sender walks and nothing is removed, the message was given to   *)
(* the entries before its place and to no others.                          *)
Served(p) ==
    /\ ~ publish[p].twice
    /\ ~ publish[p].on => publish[p].were \subseteq publish[p].got
    /\ publish[p].on =>
          /\ publish[p].next <= Len(order) + 1
          /\ publish[p].were \subseteq subscribed
          /\ publish[p].got = {order[i] : i \in 1 .. publish[p].next - 1}

BusInv == part = "bus" => BusTypes /\ \A p \in Senders \ removed : Served(p)

-----------------------------------------------------------------------------
(* The cardinality an instance of a module counts with.                    *)
LEMMA PoolCardinality == \A S : Pool!Cardinality(S) = Cardinality(S)
    BY DEF Pool!Cardinality, Cardinality

LEMMA PoolInit == MCInit => PoolInv
<1> SUFFICES ASSUME MCInit PROVE PoolTypes /\ PoolInOrder
    BY DEF PoolInv
<1>1. Cardinality(agents) = 0 /\ IsFiniteSet(agents)
    BY FS_EmptySet DEF MCInit, Pool!Init
<1>2. PoolTypes
  <2>1. agents \subseteq Workers /\ Cardinality(agents) <= MaxWorkers
      BY <1>1, PoolAssumption DEF MCInit, Pool!Init
  <2> QED
      BY <1>1, <2>1 DEF MCInit, Pool!Init, PoolTypes, Pool!Fresh, Pool!NoSnapshot, Pool!States,
                        Snapshots, Fields
<1> QED
    BY <1>2 DEF MCInit, Pool!Init, PoolInOrder

(* An agent registers with nothing to do.                                  *)
LEMMA Registered ==
    ASSUME PoolTypes, PoolInOrder, NEW w \in Workers, Pool!Register(w)
    PROVE  PoolTypes' /\ PoolInOrder'
<1>1. /\ agents' = agents \cup {w} /\ Cardinality(agents) < MaxWorkers /\ w \notin agents
      /\ agent' = [agent EXCEPT ![w] = Pool!Fresh]
      /\ open' = [open EXCEPT ![w] = {}] /\ interrupted' = interrupted \ {w} /\ todo' = todo
    BY PoolCardinality DEF Pool!Register
<1>2. IsFiniteSet(agents') /\ Cardinality(agents') <= MaxWorkers
  <2>1. Cardinality(agents') = Cardinality(agents) + 1 /\ IsFiniteSet(agents')
      BY <1>1, FS_AddElement DEF PoolTypes
  <2> QED
      BY <1>1, <2>1, FS_CardinalityType, PoolAssumption DEF PoolTypes
<1>3. agent'[w] = Pool!Fresh /\ open'[w] = {}
    BY <1>1 DEF PoolTypes
<1>4. \A v \in Workers \ {w} : agent'[v] = agent[v] /\ open'[v] = open[v]
    BY <1>1 DEF PoolTypes
<1>5. PoolTypes'
    BY <1>1, <1>2, <1>3, <1>4
       DEF PoolTypes, Pool!Fresh, Pool!NoSnapshot, Pool!States, Snapshots, Fields
<1>6. InOrder(w)'
    BY <1>3 DEF InOrder, Pool!Fresh, Pool!NoSnapshot
<1>7. \A v \in (agents' \ interrupted') \ {w} : InOrder(v)'
    BY <1>1, <1>4 DEF InOrder, PoolInOrder, PoolTypes
<1> QED
    BY <1>5, <1>6, <1>7 DEF PoolInOrder

(* What a step does to one agent leaves the others as they were.           *)
LEMMA OthersKeep ==
    ASSUME PoolTypes, PoolInOrder, NEW w \in Workers,
           agents' = agents, todo' \subseteq Jobs,
           DOMAIN agent' = Workers, DOMAIN open' = Workers,
           \A v \in Workers \ {w} : agent'[v] = agent[v] /\ open'[v] = open[v],
           interrupted \subseteq interrupted',
           DOMAIN agent'[w] = Fields, agent'[w].state \in Pool!States,
           agent'[w].task \in Jobs \cup {NoAgent}, agent'[w].snapshot \in Snapshots,
           w \notin interrupted' => InOrder(w)'
    PROVE  PoolTypes' /\ PoolInOrder'
<1>1. PoolTypes'
    BY DEF PoolTypes
<1>2. \A v \in agents \ interrupted' : v # w => InOrder(v)'
    BY DEF PoolInOrder, InOrder, PoolTypes
<1> QED
    BY <1>1, <1>2 DEF PoolInOrder

LEMMA Assigned ==
    ASSUME PoolTypes, PoolInOrder, NEW t \in Jobs, Pool!Dispatch(t)
    PROVE  PoolTypes' /\ PoolInOrder'
<1>1. PICK w \in agents : Pool!Free(w) /\ Pool!Assign(w, t)
    BY DEF Pool!Dispatch
<1> DEFINE was == [state |-> agent[w].state, task |-> agent[w].task]
<1>2. /\ agents' = agents /\ interrupted' = interrupted /\ todo' \subseteq Jobs
      /\ w \in Workers
    BY <1>1 DEF Pool!Dispatch, PoolTypes
<1>3. /\ DOMAIN agent' = Workers /\ DOMAIN open' = Workers
      /\ \A v \in Workers \ {w} : agent'[v] = agent[v] /\ open'[v] = open[v]
      /\ open'[w] = open[w] \cup {t}
    BY <1>1, <1>2 DEF Pool!Assign, PoolTypes
<1>4. /\ DOMAIN agent'[w] = Fields
      /\ agent'[w].state = "running" /\ agent'[w].task = t /\ agent'[w].snapshot = was
    BY <1>1, <1>2 DEF Pool!Assign, PoolTypes, Fields
<1>5. was \in Snapshots
    BY <1>2 DEF PoolTypes, Snapshots
<1>6. t # NoAgent
    BY PoolAssumption
<1>7. w \notin interrupted => InOrder(w)'
    BY <1>1, <1>2, <1>3, <1>4, <1>6 DEF PoolInOrder, InOrder, Pool!Free
<1> QED
    BY <1>2, <1>3, <1>4, <1>5, <1>7, OthersKeep DEF Pool!States

LEMMA Finished ==
    ASSUME PoolTypes, PoolInOrder, NEW w \in Workers, NEW t \in Jobs,
           Pool!CompleteTask(w, t)
    PROVE  PoolTypes' /\ PoolInOrder'
<1>1. /\ agents' = agents /\ todo' = todo /\ w \in agents
      /\ interrupted \subseteq interrupted'
      /\ w \notin interrupted' => open[w] \subseteq {t} /\ w \notin interrupted
    BY DEF Pool!CompleteTask
<1>2. /\ DOMAIN agent' = Workers /\ DOMAIN open' = Workers
      /\ \A v \in Workers \ {w} : agent'[v] = agent[v] /\ open'[v] = open[v]
      /\ open'[w] = open[w] \ {t}
    BY DEF Pool!CompleteTask, PoolTypes
<1>3. /\ DOMAIN agent'[w] = Fields
      /\ agent'[w].state = "idle" /\ agent'[w].task = NoAgent
      /\ agent'[w].snapshot = agent[w].snapshot
    BY DEF Pool!CompleteTask, PoolTypes, Fields
<1>4. w \notin interrupted' => InOrder(w)'
    BY <1>1, <1>2, <1>3 DEF PoolInOrder, InOrder
<1> QED
    BY <1>1, <1>2, <1>3, <1>4, OthersKeep DEF Pool!States, PoolTypes

(* Fail, Unblock and Rollback mark an agent with a task as interrupted.    *)
LEMMA Interrupted ==
    ASSUME PoolTypes, PoolInOrder, NEW w \in Workers,
           Pool!Fail(w) \/ Pool!Unblock(w) \/ Pool!Rollback(w)
    PROVE  PoolTypes' /\ PoolInOrder'
<1>1. /\ agents' = agents /\ todo' = todo /\ open' = open /\ w \in agents
      /\ interrupted \subseteq interrupted'
      /\ w \notin interrupted' => open[w] = {} /\ w \notin interrupted
    BY DEF Pool!Fail, Pool!Unblock, Pool!Rollback, Pool!Interrupt
<1>2. /\ DOMAIN agent' = Workers
      /\ \A v \in Workers \ {w} : agent'[v] = agent[v]
    BY DEF Pool!Fail, Pool!Unblock, Pool!Rollback, PoolTypes
<1>3. w \notin interrupted' => InOrder(w) /\ agent[w].task = NoAgent
  <2> SUFFICES ASSUME w \notin interrupted' PROVE InOrder(w) /\ agent[w].task = NoAgent
      OBVIOUS
  <2>1. InOrder(w) /\ open[w] = {}
      BY <1>1 DEF PoolInOrder
  <2> QED
      BY <2>1 DEF InOrder
<1>4. CASE Pool!Fail(w)
  <2>1. /\ DOMAIN agent'[w] = Fields /\ agent'[w].state = "failed"
        /\ agent'[w].task = agent[w].task /\ agent'[w].snapshot = agent[w].snapshot
      BY <1>4 DEF Pool!Fail, PoolTypes, Fields
  <2>2. w \notin interrupted' => InOrder(w)'
      BY <1>1, <1>3, <2>1 DEF InOrder
  <2> QED
      BY <1>1, <1>2, <2>1, <2>2, OthersKeep DEF Pool!States, PoolTypes
<1>5. CASE Pool!Unblock(w)
  <2>1. /\ DOMAIN agent'[w] = Fields /\ agent'[w].state = "idle"
        /\ agent'[w].task = agent[w].task /\ agent'[w].snapshot = agent[w].snapshot
      BY <1>5 DEF Pool!Unblock, PoolTypes, Fields
  <2>2. w \notin interrupted' => InOrder(w)'
      BY <1>1, <1>3, <2>1 DEF InOrder
  <2> QED
      BY <1>1, <1>2, <2>1, <2>2, OthersKeep DEF Pool!States, PoolTypes
<1>6. CASE Pool!Rollback(w)
  <2>1. /\ DOMAIN agent'[w] = Fields /\ agent'[w].state = agent[w].snapshot.state
        /\ agent'[w].task = agent[w].snapshot.task
        /\ agent'[w].snapshot = agent[w].snapshot
        /\ agent[w].snapshot # Pool!NoSnapshot /\ agent[w].snapshot \in Snapshots
      BY <1>6 DEF Pool!Rollback, PoolTypes, Fields
  <2>2. w \notin interrupted' => InOrder(w)'
      BY <1>1, <1>3, <2>1 DEF InOrder, Snapshots, Pool!NoSnapshot
  <2> QED
      BY <1>1, <1>2, <2>1, <2>2, OthersKeep DEF Pool!States, PoolTypes, Snapshots
<1> QED
    BY <1>4, <1>5, <1>6

LEMMA Ticked ==
    ASSUME PoolTypes, PoolInOrder, Pool!Tick
    PROVE  PoolTypes' /\ PoolInOrder'
<1>1. UNCHANGED <<agents, todo, open, interrupted>> /\ DOMAIN agent' = Workers
    BY DEF Pool!Tick
<1>2. \A w \in Workers :
         \/ agent'[w] = agent[w]
         \/ /\ DOMAIN agent'[w] = Fields
            /\ agent[w].state = "idle" /\ agent'[w].state = "learning"
            /\ agent'[w].task = agent[w].task /\ agent'[w].snapshot = agent[w].snapshot
  <2> TAKE w \in Workers
  <2>1. \/ agent'[w] = agent[w]
        \/ agent[w].state = "idle" /\ agent'[w] = [agent[w] EXCEPT !.state = "learning"]
      BY DEF Pool!Tick
  <2> QED
      BY <2>1 DEF PoolTypes, Fields
<1>3. PoolTypes'
    BY <1>1, <1>2 DEF PoolTypes, Pool!States
<1>4. PoolInOrder'
  <2> SUFFICES ASSUME NEW w \in agents \ interrupted PROVE InOrder(w)'
      BY <1>1 DEF PoolInOrder
  <2>1. w \in Workers /\ InOrder(w)
      BY DEF PoolTypes, PoolInOrder
  <2> QED
      BY <1>1, <1>2, <2>1 DEF InOrder
<1> QED
    BY <1>3, <1>4

LEMMA PoolNext ==
    ASSUME PoolTypes, PoolInOrder, Pool!Next
    PROVE  PoolTypes' /\ PoolInOrder'
<1>1. ASSUME NEW w \in Workers, Pool!Unregister(w) PROVE PoolTypes' /\ PoolInOrder'
  <2>1. /\ agents' = agents \ {w} /\ w \in agents
        /\ UNCHANGED <<agent, todo, open, interrupted>>
      BY <1>1 DEF Pool!Unregister
  <2>2. IsFiniteSet(agents') /\ Cardinality(agents') <= MaxWorkers
    <3>1. Cardinality(agents') = Cardinality(agents) - 1 /\ IsFiniteSet(agents')
        BY <2>1, FS_RemoveElement DEF PoolTypes
    <3> QED
        BY <3>1, FS_CardinalityType, PoolAssumption DEF PoolTypes
  <2>3. PoolTypes'
      BY <2>1, <2>2 DEF PoolTypes
  <2> QED
      BY <2>1, <2>3 DEF PoolInOrder, InOrder
<1>2. ASSUME NEW w \in Workers, Pool!Block(w) PROVE PoolTypes' /\ PoolInOrder'
  <2>1. /\ UNCHANGED <<agents, todo, open, interrupted>> /\ w \in agents
        /\ DOMAIN agent' = Workers /\ \A v \in Workers \ {w} : agent'[v] = agent[v]
        /\ DOMAIN agent'[w] = Fields /\ agent'[w].state = "blocked"
        /\ agent'[w].task = agent[w].task /\ agent'[w].snapshot = agent[w].snapshot
      BY <1>2 DEF Pool!Block, PoolTypes, Fields
  <2>2. w \notin interrupted => InOrder(w)'
      BY <2>1 DEF PoolInOrder, InOrder
  <2> QED
      BY <2>1, <2>2, OthersKeep DEF Pool!States, PoolTypes
<1>3. ASSUME NEW w \in Workers, Pool!Rest(w) PROVE PoolTypes' /\ PoolInOrder'
  <2>1. /\ UNCHANGED <<agents, todo, open, interrupted>>
        /\ DOMAIN agent' = Workers /\ \A v \in Workers \ {w} : agent'[v] = agent[v]
        /\ DOMAIN agent'[w] = Fields /\ agent'[w].state = agent[w].state
        /\ agent'[w].task = agent[w].task /\ agent'[w].snapshot = agent[w].snapshot
      BY <1>3 DEF Pool!Rest, PoolTypes, Fields
  <2>2. PoolTypes'
      BY <2>1 DEF PoolTypes
  <2>3. \A v \in agents \ interrupted : InOrder(v)'
      BY <2>1 DEF PoolInOrder, InOrder, PoolTypes
  <2> QED
      BY <2>1, <2>2, <2>3 DEF PoolInOrder
<1>4. ASSUME NEW w \in Workers, Pool!CompleteLearning(w) PROVE PoolTypes' /\ PoolInOrder'
  <2>1. /\ UNCHANGED <<agents, todo, open, interrupted>> /\ w \in agents
        /\ DOMAIN agent' = Workers /\ \A v \in Workers \ {w} : agent'[v] = agent[v]
        /\ DOMAIN agent'[w] = Fields /\ agent'[w].state = "idle"
        /\ agent[w].state = "learning"
        /\ agent'[w].task = agent[w].task /\ agent'[w].snapshot = agent[w].snapshot
      BY <1>4 DEF Pool!CompleteLearning, PoolTypes, Fields
  <2>2. w \notin interrupted => InOrder(w)'
      BY <2>1 DEF PoolInOrder, InOrder
  <2> QED
      BY <2>1, <2>2, OthersKeep DEF Pool!States, PoolTypes
<1> QED
    BY <1>1, <1>2, <1>3, <1>4, Registered, Assigned, Finished, Interrupted, Ticked DEF Pool!Next

LEMMA PoolInvariance == PoolInv /\ [MCNext]_allVars => PoolInv'
<1> SUFFICES ASSUME PoolInv, [MCNext]_allVars, part' = "pool" PROVE PoolTypes' /\ PoolInOrder'
    BY DEF PoolInv
<1>1. CASE MCNext
  <2>1. part = "pool" /\ PoolTypes /\ PoolInOrder
      BY <1>1 DEF MCNext, PoolInv
  <2>2. Pool!Next
      BY <1>1, <2>1 DEF MCNext, Work, Govern
  <2> QED
      BY <2>1, <2>2, PoolNext
<1>2. CASE UNCHANGED allVars
  <2>1. part = "pool" /\ UNCHANGED poolVars
      BY <1>2 DEF allVars, agentVars
  <2> QED
      BY <2>1 DEF PoolInv, PoolTypes, PoolInOrder, InOrder, poolVars
<1> QED
    BY <1>1, <1>2

(* An agent works on one task at a time, the one it shows, unless it was   *)
(* failed, unblocked, rolled back or told of the end of another task in    *)
(* the middle of it.                                                       *)
THEOREM PoolKeepsOne == MCSpec => []OneTaskAtATime
<1>1. PoolInv => OneTaskAtATime
  <2> SUFFICES ASSUME PoolTypes, PoolInOrder PROVE Pool!TypeOK /\ Pool!OneTaskAtATime
      BY DEF PoolInv, OneTaskAtATime
  <2>1. Pool!TypeOK
      BY PoolCardinality DEF PoolTypes, Pool!TypeOK
  <2>2. ASSUME NEW w \in agents \ interrupted
        PROVE  /\ Cardinality(open[w]) <= 1
               /\ open[w] = {agent[w].task} \ {NoAgent}
               /\ agent[w].state = "running" => open[w] # {}
    <3>1. InOrder(w)
        BY DEF PoolInOrder
    <3>2. open[w] = {} \/ open[w] = {agent[w].task}
        BY <3>1 DEF InOrder
    <3>3. Cardinality(open[w]) <= 1
      <4>1. Cardinality({}) = 0 /\ Cardinality({agent[w].task}) = 1
          BY FS_EmptySet, FS_Singleton
      <4> QED
          BY <3>2, <4>1
    <3> QED
        BY <3>1, <3>3 DEF InOrder
  <2> QED
      BY <2>1, <2>2, PoolCardinality DEF Pool!OneTaskAtATime
<1> QED
    BY <1>1, PoolInit, PoolInvariance, PTL DEF MCSpec
-----------------------------------------------------------------------------
(* The message bus *)

LEMMA BusCardinality == \A S : Bus!Cardinality(S) = Cardinality(S)
    BY DEF Bus!Cardinality, Cardinality

(* What the model's operators on sequences are.                            *)
LEMMA BusSequences ==
    /\ Bus!ToSet(order) = {order[i] : i \in DOMAIN order}
    /\ Bus!IsInjective(order) <=> \A i, j \in DOMAIN order : order[i] = order[j] => i = j
    BY DEF Bus!ToSet, Bus!IsInjective

(* A list without repetitions is no longer than there are subscriptions.   *)
LEMMA ListIsShort ==
    ASSUME NEW list \in Seq(Subscriptions),
           \A i, j \in DOMAIN list : list[i] = list[j] => i = j
    PROVE  Len(list) <= Cardinality(Subscriptions) /\ Cardinality(Subscriptions) \in Nat
<1>1. list \in Injection(1 .. Len(list), Subscriptions)
    BY DEF Injection, IsInjective
<1>2. Len(list) \in Nat
    OBVIOUS
<1>3. \A n \in Nat : Cardinality(1 .. n) = n
    BY FS_Interval
<1>4. Cardinality(1 .. Len(list)) = Len(list)
    BY <1>2, <1>3
<1>5. Cardinality(1 .. Len(list)) <= Cardinality(Subscriptions)
    BY <1>1, FS_Injection, BusAssumption
<1> QED
    BY <1>4, <1>5, FS_CardinalityType, BusAssumption

LEMMA BusInit == MCInit => BusInv
<1> SUFFICES ASSUME MCInit PROVE BusTypes /\ \A p \in Senders \ removed : Served(p)
    BY DEF BusInv
<1>1. Cardinality(Subscriptions) \in Nat
    BY FS_CardinalityType, BusAssumption
<1>2. order = <<>> /\ subscribed = {} /\ history = <<>> /\ published = 0
    BY DEF MCInit, Bus!Init
<1>3. publish = [p \in Senders |-> Bus!Quiet]
    BY DEF MCInit, Bus!Init
<1>4. BusTypes
    BY <1>1, <1>2, <1>3, BusAssumption DEF BusTypes, Bus!Quiet, Walk
<1>5. \A p \in Senders : Served(p)
    BY <1>3 DEF Served, Bus!Quiet
<1> QED
    BY <1>4, <1>5

(* The list grows at its end, behind every sender.                         *)
LEMMA Subscribed ==
    ASSUME BusTypes, NEW s \in Subscriptions, Bus!Subscribe(s)
    PROVE  BusTypes' /\ \A p \in Senders \ removed : Served(p) => Served(p)'
<1>1. /\ s \notin subscribed /\ order' = Append(order, s)
      /\ subscribed' = subscribed \cup {s}
      /\ UNCHANGED <<publish, history, published, removed>>
    BY DEF Bus!Subscribe
<1>2. /\ order' \in Seq(Subscriptions) /\ Len(order') = Len(order) + 1
      /\ Len(order) \in Nat
      /\ \A i \in 1 .. Len(order) : order'[i] = order[i]
      /\ order'[Len(order) + 1] = s
      /\ DOMAIN order = 1 .. Len(order) /\ DOMAIN order' = 1 .. Len(order) + 1
    BY <1>1 DEF BusTypes
<1>3. \A i \in 1 .. Len(order) : order[i] # s
    BY <1>1, <1>2 DEF BusTypes
<1>4. subscribed' = {order'[i] : i \in DOMAIN order'}
  <2>1. ASSUME NEW x \in subscribed' PROVE \E i \in DOMAIN order' : order'[i] = x
    <3>1. CASE x = s
        BY <1>2, <3>1
    <3>2. CASE x # s
      <4>1. PICK i \in 1 .. Len(order) : order[i] = x
          BY <1>1, <1>2, <2>1, <3>2 DEF BusTypes
      <4> QED
          BY <1>2, <4>1
    <3> QED
        BY <3>1, <3>2
  <2>2. ASSUME NEW i \in DOMAIN order' PROVE order'[i] \in subscribed'
    <3>1. CASE i = Len(order) + 1
        BY <1>1, <1>2, <3>1
    <3>2. CASE i \in 1 .. Len(order)
        BY <1>1, <1>2, <3>2 DEF BusTypes
    <3> QED
        BY <1>2, <2>2, <3>1, <3>2
  <2> QED
      BY <2>1, <2>2
<1>5. \A i, j \in DOMAIN order' : order'[i] = order'[j] => i = j
    BY <1>2, <1>3 DEF BusTypes
<1>6. BusTypes'
    BY <1>1, <1>2, <1>4, <1>5 DEF BusTypes
<1>7. ASSUME NEW p \in Senders \ removed, Served(p) PROVE Served(p)'
  <2>1. publish[p].on => \A i \in 1 .. publish[p].next - 1 : i \in 1 .. Len(order)
      BY <1>2, <1>7 DEF BusTypes, Served
  <2>2. publish[p].on => {order'[i] : i \in 1 .. publish[p].next - 1}
                            = {order[i] : i \in 1 .. publish[p].next - 1}
      BY <1>2, <2>1
  <2> QED
      BY <1>1, <1>2, <1>7, <2>2 DEF Served, BusTypes
<1> QED
    BY <1>6, <1>7

(* A removed entry is one; every walk under way is a disturbed one.        *)
LEMMA Unsubscribed ==
    ASSUME BusTypes, NEW s \in Subscriptions, Bus!Unsubscribe(s),
           \A p \in Senders \ removed : Served(p)
    PROVE  BusTypes' /\ \A p \in Senders \ removed' : Served(p)'
<1>1. PICK k \in DOMAIN order : order[k] = s /\ order' = Bus!Without(k)
    BY DEF Bus!Unsubscribe
<1>2. /\ subscribed' = subscribed \ {s} /\ UNCHANGED <<history, published>>
      /\ removed' = removed \cup {p \in Senders : publish[p].on}
      /\ publish' = [p \in Senders |-> [publish[p] EXCEPT !.were = @ \ {s}]]
    BY DEF Bus!Unsubscribe
<1>3. /\ Len(order) \in Nat \ {0} /\ DOMAIN order = 1 .. Len(order) /\ k \in 1 .. Len(order)
      /\ order \in [1 .. Len(order) -> Subscriptions]
    BY <1>1 DEF BusTypes
<1>4. order' = [j \in 1 .. Len(order) - 1 |-> order[IF j < k THEN j ELSE j + 1]]
    BY <1>1 DEF Bus!Without
<1>5. /\ order' \in Seq(Subscriptions) /\ DOMAIN order' = 1 .. Len(order) - 1
      /\ \A j \in 1 .. Len(order) - 1 : j < k => order'[j] = order[j]
      /\ \A j \in 1 .. Len(order) - 1 : ~ j < k => order'[j] = order[j + 1]
  <2>1. ASSUME NEW j \in 1 .. Len(order) - 1
        PROVE  (IF j < k THEN j ELSE j + 1) \in 1 .. Len(order)
      BY <1>3
  <2>2. order' \in [1 .. Len(order) - 1 -> Subscriptions]
      BY <1>3, <1>4, <2>1
  <2>3. Len(order) - 1 \in Nat
      BY <1>3
  <2> QED
      BY <1>4, <2>2, <2>3
<1>6. \A i, j \in DOMAIN order' : order'[i] = order'[j] => i = j
  <2>1. \A i, j \in 1 .. Len(order) : order[i] = order[j] => i = j
      BY <1>3 DEF BusTypes
  <2> QED
      BY <1>3, <1>5, <2>1
<1>7. subscribed' = {order'[i] : i \in DOMAIN order'}
  <2>1. \A i \in 1 .. Len(order) : order[i] = s => i = k
      BY <1>1, <1>3 DEF BusTypes
  <2>2. subscribed = {order[i] : i \in 1 .. Len(order)}
      BY <1>3 DEF BusTypes
  <2>3. ASSUME NEW x \in subscribed' PROVE \E i \in DOMAIN order' : order'[i] = x
    <3>1. PICK i \in 1 .. Len(order) : order[i] = x /\ i # k
        BY <1>1, <1>2, <2>2, <2>3
    <3>2. CASE i < k
      <4>1. i \in 1 .. Len(order) - 1 /\ order'[i] = x
          BY <1>3, <1>5, <3>1, <3>2
      <4> QED
          BY <1>5, <4>1
    <3>3. CASE i > k
      <4>1. i - 1 \in 1 .. Len(order) - 1 /\ order'[i - 1] = x
          BY <1>3, <1>5, <3>1, <3>3
      <4> QED
          BY <1>5, <4>1
    <3> QED
        BY <1>3, <3>1, <3>2, <3>3
  <2>4. ASSUME NEW i \in DOMAIN order' PROVE order'[i] \in subscribed'
    <3>1. PICK j \in 1 .. Len(order) : order'[i] = order[j] /\ j # k
      <4>1. CASE i < k
          BY <1>3, <1>5, <2>4, <4>1
      <4>2. CASE ~ i < k
        <5>1. i + 1 \in 1 .. Len(order) /\ i + 1 # k /\ order'[i] = order[i + 1]
            BY <1>3, <1>5, <2>4, <4>2
        <5> QED
            BY <5>1
      <4> QED
          BY <4>1, <4>2
    <3> QED
        BY <1>2, <2>1, <2>2, <3>1
  <2> QED
      BY <2>3, <2>4
<1>8. \A p \in Senders :
          /\ DOMAIN publish'[p] = Walk
          /\ publish'[p].next = publish[p].next /\ publish'[p].got = publish[p].got
          /\ publish'[p].on = publish[p].on /\ publish'[p].twice = publish[p].twice
          /\ publish'[p].were \subseteq publish[p].were
    BY <1>2 DEF BusTypes, Walk
<1>9. BusTypes'
    BY <1>2, <1>5, <1>6, <1>7, <1>8 DEF BusTypes
<1>10. ASSUME NEW p \in Senders \ removed' PROVE Served(p)'
  <2>1. p \notin removed /\ ~ publish[p].on
      BY <1>2, <1>10
  <2> QED
      BY <1>8, <2>1 DEF Served
<1> QED
    BY <1>9, <1>10

(* A message is kept, the oldest ones are dropped.                         *)
LEMMA HistoryKept ==
    ASSUME NEW seq \in Seq(Nat)
    PROVE  Bus!LastN(seq, Kept) \in Seq(Nat) /\ Len(Bus!LastN(seq, Kept)) <= Kept
<1>1. Len(seq) \in Nat /\ Kept \in Nat
    BY BusAssumption
<1>2. CASE Len(seq) > Kept
  <2>1. Bus!LastN(seq, Kept) = SubSeq(seq, Len(seq) - Kept + 1, Len(seq))
      BY <1>2 DEF Bus!LastN
  <2>2. Len(seq) - Kept + 1 \in 1 .. Len(seq) + 1
      BY <1>1, <1>2
  <2> QED
      BY <1>1, <1>2, <2>1, <2>2
<1>3. CASE ~ Len(seq) > Kept
    BY <1>1, <1>3 DEF Bus!LastN
<1> QED
    BY <1>2, <1>3

(* The steps of one sender leave the other walks alone.                    *)
LEMMA OtherWalks ==
    ASSUME BusTypes, NEW p \in Senders,
           UNCHANGED <<order, subscribed>>, removed' \subseteq removed,
           removed \ {p} \subseteq removed',
           history' \in Seq(Nat), Len(history') <= Kept, published' \in Nat,
           DOMAIN publish' = Senders, DOMAIN publish'[p] = Walk,
           \A q \in Senders \ {p} : publish'[q] = publish[q],
           publish'[p].next \in 1 .. Cardinality(Subscriptions) + 1,
           \A q \in Senders \ removed : Served(q),
           p \notin removed' => Served(p)'
    PROVE  BusTypes' /\ \A q \in Senders \ removed' : Served(q)'
<1>1. BusTypes'
    BY DEF BusTypes
<1>2. ASSUME NEW q \in Senders \ removed', q # p PROVE Served(q)'
  <2>1. Served(q) /\ publish'[q] = publish[q]
      BY <1>2
  <2> QED
      BY <2>1 DEF Served
<1> QED
    BY <1>1, <1>2

LEMMA Begun ==
    ASSUME BusTypes, NEW p \in Senders, Bus!BeginPublish(p),
           \A q \in Senders \ removed : Served(q)
    PROVE  BusTypes' /\ \A q \in Senders \ removed' : Served(q)'
<1>1. /\ UNCHANGED <<order, subscribed>> /\ removed' = removed \ {p}
      /\ published' = published + 1
      /\ history' = Bus!LastN(Append(history, published + 1), Kept)
      /\ publish' = [publish EXCEPT ![p] = [Bus!Quiet EXCEPT !.on = order # <<>>,
                                                            !.were = subscribed]]
    BY DEF Bus!BeginPublish
<1>2. history' \in Seq(Nat) /\ Len(history') <= Kept /\ published' \in Nat
  <2>1. Append(history, published + 1) \in Seq(Nat) /\ published + 1 \in Nat
      BY DEF BusTypes
  <2> QED
      BY <1>1, <2>1, HistoryKept
<1>3. /\ DOMAIN publish' = Senders /\ DOMAIN publish'[p] = Walk
      /\ \A q \in Senders \ {p} : publish'[q] = publish[q]
      /\ publish'[p].next = 1 /\ publish'[p].got = {} /\ ~ publish'[p].twice
      /\ publish'[p].on = (order # <<>>) /\ publish'[p].were = subscribed
    BY <1>1 DEF BusTypes, Bus!Quiet, Walk
<1>4. Cardinality(Subscriptions) \in Nat
    BY FS_CardinalityType, BusAssumption
<1>5. Served(p)'
  <2>1. Len(order) \in Nat
      BY DEF BusTypes
  <2>2. order = <<>> => subscribed = {}
      BY DEF BusTypes
  <2>3. ~ publish'[p].on => publish'[p].were = {}
      BY <1>3, <2>2
  <2>4. publish'[p].got = {order'[i] : i \in 1 .. publish'[p].next - 1}
      BY <1>3
  <2>5. publish'[p].next <= Len(order') + 1 /\ publish'[p].were \subseteq subscribed'
      BY <1>1, <1>3, <2>1
  <2> QED
      BY <1>3, <2>3, <2>4, <2>5 DEF Served
<1> QED
    BY <1>1, <1>2, <1>3, <1>4, <1>5, OtherWalks

(* The entry at the place of the walk is new to it.                        *)
LEMMA Delivered ==
    ASSUME BusTypes, NEW p \in Senders, Bus!Deliver(p),
           \A q \in Senders \ removed : Served(q)
    PROVE  BusTypes' /\ \A q \in Senders \ removed' : Served(q)'
<1>1. /\ publish[p].on /\ publish[p].next <= Len(order)
      /\ UNCHANGED <<order, subscribed, history, published, removed>>
    BY DEF Bus!Deliver
<1>2. PICK n, s : n = publish[p].next /\ s = order[publish[p].next]
    OBVIOUS
<1>3. PICK again \in BOOLEAN : again = (publish[p].twice \/ s \in publish[p].got)
    OBVIOUS
<1>4. publish' = [publish EXCEPT ![p].next = n + 1, ![p].got = publish[p].got \cup {s},
                                 ![p].twice = again]
    BY <1>2, <1>3 DEF Bus!Deliver, Bus!Step, BusTypes, Walk
<1>5. /\ DOMAIN publish' = Senders /\ DOMAIN publish'[p] = Walk
      /\ \A q \in Senders \ {p} : publish'[q] = publish[q]
      /\ publish'[p].next = n + 1 /\ publish'[p].got = publish[p].got \cup {s}
      /\ publish'[p].twice = again
      /\ publish'[p].on = publish[p].on /\ publish'[p].were = publish[p].were
    BY <1>4 DEF BusTypes, Walk
<1>6. /\ Len(order) \in Nat /\ n \in 1 .. Len(order) /\ DOMAIN order = 1 .. Len(order)
      /\ Len(order) <= Cardinality(Subscriptions) /\ Cardinality(Subscriptions) \in Nat
  <2>1. Len(order) <= Cardinality(Subscriptions) /\ Cardinality(Subscriptions) \in Nat
      BY ListIsShort DEF BusTypes
  <2>2. publish[p].next \in 1 .. Cardinality(Subscriptions) + 1 /\ Len(order) \in Nat
      BY DEF BusTypes
  <2> QED
      BY <1>1, <1>2, <2>1, <2>2 DEF BusTypes
<1>7. publish'[p].next \in 1 .. Cardinality(Subscriptions) + 1
    BY <1>5, <1>6
<1>8. ASSUME p \notin removed PROVE Served(p)'
  <2>1. /\ ~ publish[p].twice /\ publish[p].were \subseteq subscribed
        /\ publish[p].got = {order[i] : i \in 1 .. n - 1}
      BY <1>1, <1>2, <1>8 DEF Served
  <2>2. s \notin publish[p].got
    <3>1. \A i \in 1 .. n - 1 : i \in 1 .. Len(order) /\ i # n
        BY <1>6
    <3>2. \A i, j \in 1 .. Len(order) : order[i] = order[j] => i = j
        BY <1>6 DEF BusTypes
    <3> QED
        BY <1>2, <1>6, <2>1, <3>1, <3>2, SMTT(30)
  <2>3. publish'[p].got = {order[i] : i \in 1 .. (n + 1) - 1}
    <3>1. 1 .. (n + 1) - 1 = (1 .. n - 1) \cup {n}
        BY <1>6
    <3>2. s = order[n]
        BY <1>2
    <3> QED
        BY <1>5, <2>1, <3>1, <3>2
  <2>4. ~ publish'[p].twice /\ publish'[p].on
      BY <1>1, <1>3, <1>5, <2>1, <2>2
  <2>5. publish'[p].got = {order'[i] : i \in 1 .. publish'[p].next - 1}
      BY <1>1, <1>5, <2>3
  <2>6. publish'[p].next <= Len(order') + 1 /\ publish'[p].were \subseteq subscribed'
      BY <1>1, <1>5, <1>6, <2>1
  <2> QED
      BY <2>4, <2>5, <2>6 DEF Served
<1>9. history' \in Seq(Nat) /\ Len(history') <= Kept /\ published' \in Nat
    BY <1>1 DEF BusTypes
<1> QED
    BY <1>1, <1>5, <1>7, <1>8, <1>9, OtherWalks

(* A walk that came to the end of the list gave the message to all of it.  *)
LEMMA Returned ==
    ASSUME BusTypes, NEW p \in Senders, Bus!EndPublish(p),
           \A q \in Senders \ removed : Served(q)
    PROVE  BusTypes' /\ \A q \in Senders \ removed' : Served(q)'
<1>1. /\ publish[p].on /\ publish[p].next > Len(order)
      /\ publish' = [publish EXCEPT ![p].on = FALSE]
      /\ UNCHANGED <<order, subscribed, history, published, removed>>
    BY DEF Bus!EndPublish
<1>2. /\ DOMAIN publish' = Senders /\ DOMAIN publish'[p] = Walk
      /\ \A q \in Senders \ {p} : publish'[q] = publish[q]
      /\ publish'[p].next = publish[p].next /\ publish'[p].got = publish[p].got
      /\ publish'[p].twice = publish[p].twice /\ ~ publish'[p].on
      /\ publish'[p].were = publish[p].were
    BY <1>1 DEF BusTypes, Walk
<1>3. ASSUME p \notin removed PROVE Served(p)'
  <2>1. /\ ~ publish[p].twice /\ publish[p].were \subseteq subscribed
        /\ publish[p].next <= Len(order) + 1
        /\ publish[p].got = {order[i] : i \in 1 .. publish[p].next - 1}
      BY <1>1, <1>3 DEF Served
  <2>2. publish[p].next - 1 = Len(order)
      BY <1>1, <2>1 DEF BusTypes
  <2>3. subscribed = {order[i] : i \in 1 .. Len(order)}
      BY DEF BusTypes
  <2> QED
      BY <1>2, <2>1, <2>2, <2>3 DEF Served
<1>4. /\ history' \in Seq(Nat) /\ Len(history') <= Kept /\ published' \in Nat
      /\ publish'[p].next \in 1 .. Cardinality(Subscriptions) + 1
    BY <1>1, <1>2 DEF BusTypes
<1> QED
    BY <1>1, <1>2, <1>3, <1>4, OtherWalks

(* Nobody is subscribed any more.                                          *)
LEMMA ShutDown ==
    ASSUME BusTypes, Bus!Shutdown, \A q \in Senders \ removed : Served(q)
    PROVE  BusTypes' /\ \A q \in Senders \ removed' : Served(q)'
<1>1. /\ subscribed' = {} /\ order' = <<>> /\ UNCHANGED <<history, published, removed>>
      /\ publish' = [p \in Senders |-> [publish[p] EXCEPT !.on = FALSE, !.were = {}]]
    BY DEF Bus!Shutdown
<1>2. \A p \in Senders :
          /\ DOMAIN publish'[p] = Walk /\ publish'[p].next = publish[p].next
          /\ publish'[p].got = publish[p].got /\ publish'[p].twice = publish[p].twice
          /\ ~ publish'[p].on /\ publish'[p].were = {}
    BY <1>1 DEF BusTypes, Walk
<1>3. BusTypes'
  <2>1. /\ DOMAIN order' = {} /\ order' \in Seq(Subscriptions)
        /\ subscribed' = {order'[i] : i \in DOMAIN order'}
    <3>1. order' = <<>> /\ subscribed' = {}
        BY <1>1
    <3>2. order' \in Seq(Subscriptions) /\ DOMAIN order' = {}
        BY <3>1
    <3> QED
        BY <3>1, <3>2
  <2>2. DOMAIN publish' = Senders
      BY <1>1
  <2>3. \A i, j \in DOMAIN order' : order'[i] = order'[j] => i = j
      BY <2>1
  <2>4. \A p \in Senders : DOMAIN publish'[p] = Walk
                            /\ publish'[p].next \in 1 .. Cardinality(Subscriptions) + 1
      BY <1>2 DEF BusTypes
  <2>5. history' \in Seq(Nat) /\ Len(history') <= Kept /\ published' \in Nat
      BY <1>1 DEF BusTypes
  <2> QED
      BY <2>1, <2>2, <2>3, <2>4, <2>5 DEF BusTypes
<1>4. \A p \in Senders \ removed : Served(p)'
    BY <1>2 DEF Served
<1> QED
    BY <1>1, <1>3, <1>4

LEMMA BusInvariance == BusInv /\ [MCNext]_allVars => BusInv'
<1> SUFFICES ASSUME BusInv, [MCNext]_allVars, part' = "bus"
             PROVE  BusTypes' /\ \A p \in Senders \ removed' : Served(p)'
    BY DEF BusInv
<1>1. CASE MCNext
  <2>1. part = "bus" /\ BusTypes /\ \A p \in Senders \ removed : Served(p)
      BY <1>1 DEF MCNext, BusInv
  <2>2. Bus!Next
      BY <1>1, <2>1 DEF MCNext, Work, Govern
  <2>3. ASSUME NEW s \in Subscriptions, Bus!Subscribe(s)
        PROVE  BusTypes' /\ \A p \in Senders \ removed' : Served(p)'
    <3>1. removed' = removed
        BY <2>3 DEF Bus!Subscribe
    <3> QED
        BY <2>1, <2>3, <3>1, Subscribed
  <2> QED
      BY <2>1, <2>2, <2>3, Unsubscribed, Begun, Delivered, Returned, ShutDown DEF Bus!Next
<1>2. CASE UNCHANGED allVars
  <2>1. part = "bus" /\ UNCHANGED busVars
      BY <1>2 DEF allVars, agentVars
  <2> QED
      BY <2>1 DEF BusInv, BusTypes, Served, busVars
<1> QED
    BY <1>1, <1>2

(* A publish reaches, once, every subscription that was there all the      *)
(* time, unless another was removed while its handlers were awaited.       *)
THEOREM BusServesAll == MCSpec => []SubscribersServed
<1>1. BusInv => SubscribersServed
  <2> SUFFICES ASSUME BusTypes, \A p \in Senders \ removed : Served(p)
               PROVE  Bus!TypeOK /\ Bus!SubscribersServed
      BY DEF BusInv, SubscribersServed
  <2>1. Bus!TypeOK
      BY BusCardinality, BusSequences DEF BusTypes, Bus!TypeOK
  <2>2. Bus!SubscribersServed
      BY DEF Served, Bus!SubscribersServed
  <2> QED
      BY <2>1, <2>2
<1> QED
    BY <1>1, BusInit, BusInvariance, PTL DEF MCSpec
-----------------------------------------------------------------------------
(* The coordinator and the scheduler of the central brain *)

TaskRecords == [status : {"pending", "running", "completed", "failed"},
                priority : Priorities, retries : 0 .. RetryAttempts]

CoordinatorTypes ==
    /\ tasks \in Seq(TaskRecords) /\ Len(tasks) <= MaxTasks
    /\ pending \in Seq(Nat) /\ \A i \in DOMAIN pending : pending[i] \in Task
    /\ running \in [1 .. MaxTasks -> Agents \cup {NoAgent}]
    /\ \A t \in Task : tasks[t].status = "running" <=> running[t] \in Agents
    /\ \A t \in (1 .. MaxTasks) \ Task : running[t] = NoAgent

(* Where the order of the queue lets task x stand before task y.           *)
Before(list, x, y) ==
    \/ list[y].retries > 0
    \/ list[x].priority > list[y].priority
    \/ list[x].priority = list[y].priority /\ (x < y \/ list[x].retries > 0)

QueueInOrder ==
    \A i, j \in DOMAIN pending : i < j /\ pending[i] # pending[j] => Before(tasks, pending[i], pending[j])

(* A schedule that fired is due again a period later, or after that.       *)
Spacing(policy) == IF policy.type = "cron" THEN CronStep ELSE policy.arg

ScheduleRecords == [policy : Policies, enabled : BOOLEAN, live : BOOLEAN, next : Int, last : Nat]

ScheduleTypes == now \in Nat \ {0} /\ schedules \in Seq(ScheduleRecords)

FiredBefore ==
    \A s \in DOMAIN schedules :
        schedules[s].policy.type \notin {"immediate", "once"} /\ schedules[s].last > 0
            => schedules[s].next >= schedules[s].last + Spacing(schedules[s].policy)

BrainInv ==
    /\ CoordinatorTypes
    /\ QueueInOrder
    /\ ScheduleTypes
    /\ FiredBefore

-----------------------------------------------------------------------------
(* A set of naturals has a least one.                                      *)
LEMMA SmallestOf == \A S \in SUBSET Nat : S # {} => \E x \in S : \A y \in S : x <= y
<1> SUFFICES ASSUME NEW S \in SUBSET Nat, S # {} PROVE \E x \in S : \A y \in S : x <= y
    OBVIOUS
<1>1. PICK x \in S : \A y \in S : ~ (<<y, x>> \in OpToRel(<, Nat))
    BY NatLessThanWellFounded, WFMin
<1>2. \A y \in S : ~ (y < x)
    BY <1>1 DEF OpToRel
<1>3. x \in Nat /\ \A y \in S : y \in Nat
    OBVIOUS
<1>4. \A y \in S : x <= y
    BY <1>2, <1>3
<1> QED
    BY <1>4

(* Two lists, one after the other.                                         *)
LEMMA Joined ==
    ASSUME NEW S, NEW p \in Seq(S), NEW q \in Seq(S)
    PROVE  /\ p \o q \in Seq(S) /\ Len(p \o q) = Len(p) + Len(q)
           /\ \A i \in 1 .. Len(p) + Len(q) : (p \o q)[i] = IF i <= Len(p) THEN p[i] ELSE q[i - Len(p)]
    OBVIOUS

(* List r is list s with some entries left out.                            *)
LeftOf(r, s) ==
    \E f \in [DOMAIN r -> DOMAIN s] :
        /\ \A i, j \in DOMAIN r : i < j => f[i] < f[j]
        /\ \A i \in DOMAIN r : r[i] = s[f[i]]

(* What is left of a list from its m-th entry on.                          *)
LEMMA RestOf ==
    ASSUME NEW s \in Seq(Nat), NEW m \in Nat, m # 0, NEW j \in 1 .. Len(s) - (m - 1)
    PROVE  SubSeq(s, m, Len(s))[j] = s[m + j - 1]
    OBVIOUS

(* The list r is s without its entry at k, which is t.                     *)
Without(r, s, t, k) ==
    /\ s[k] = t /\ Len(r) = Len(s) - 1
    /\ \A i \in 1 .. Len(s) - 1 : r[i] = IF i < k THEN s[i] ELSE s[i + 1]

(* The first t of a list is taken out.                                     *)
LEMMA FirstTaken ==
    ASSUME NEW s \in Seq(Nat), NEW t, \E i \in 1 .. Len(s) : s[i] = t
    PROVE  RemoveFirst(s, t) \in Seq(Nat) /\ \E k \in 1 .. Len(s) : Without(RemoveFirst(s, t), s, t, k)
<1> DEFINE r == RemoveFirst(s, t)
           k == SelectInSeq(s, LAMBDA v : v = t)
<1>1. r = RemoveAt(s, k)
    BY DEF RemoveFirst
<1>2. k \in 1 .. Len(s) /\ s[k] = t
  <2> DEFINE I == {i \in 1 .. Len(s) : s[i] = t}
  <2>1. I # {} /\ I \subseteq Nat
      BY DEF RemoveFirst
  <2>2. k = Min(I)
      BY <2>1 DEF SelectInSeq
  <2>3. \E x \in I : \A y \in I : x <= y
      BY <2>1, SmallestOf
  <2>4. k \in I
      BY <2>2, <2>3 DEF Min
  <2> HIDE DEF k
  <2> QED
      BY <2>4
<1>3. /\ r \in Seq(Nat) /\ Len(r) = Len(s) - 1
      /\ \A i \in 1 .. Len(s) - 1 : r[i] = IF i < k THEN s[i] ELSE s[i + 1]
  <2> HIDE DEF k, r
  <2>1. SubSeq(s, 1, k - 1) \in Seq(Nat) /\ Len(SubSeq(s, 1, k - 1)) = k - 1
      BY <1>2
  <2>2. SubSeq(s, k + 1, Len(s)) \in Seq(Nat) /\ Len(SubSeq(s, k + 1, Len(s))) = Len(s) - k
      BY <1>2
  <2>3. r = SubSeq(s, 1, k - 1) \o SubSeq(s, k + 1, Len(s))
      BY <1>1 DEF RemoveAt
  <2>4. /\ r \in Seq(Nat) /\ Len(r) = Len(s) - 1
        /\ \A i \in 1 .. Len(s) - 1 :
              r[i] = IF i <= k - 1 THEN SubSeq(s, 1, k - 1)[i] ELSE SubSeq(s, k + 1, Len(s))[i - (k - 1)]
    <3> DEFINE p == SubSeq(s, 1, k - 1)
               q == SubSeq(s, k + 1, Len(s))
    <3>1. p \in Seq(Nat) /\ q \in Seq(Nat) /\ Len(p) = k - 1 /\ Len(q) = Len(s) - k /\ r = p \o q
        BY <2>1, <2>2, <2>3
    <3> HIDE DEF p, q
    <3>2. Len(p) + Len(q) = Len(s) - 1
        BY <1>2, <3>1
    <3>3. /\ r \in Seq(Nat) /\ Len(r) = Len(s) - 1
          /\ \A i \in 1 .. Len(s) - 1 : r[i] = IF i <= k - 1 THEN p[i] ELSE q[i - (k - 1)]
      <4>1. p \o q \in Seq(Nat) /\ Len(p \o q) = Len(p) + Len(q)
          BY <3>1, Joined
      <4>2. \A i \in 1 .. Len(p) + Len(q) :
                (p \o q)[i] = IF i <= Len(p) THEN p[i] ELSE q[i - Len(p)]
          BY <3>1, Joined
      <4> QED
          BY <3>1, <3>2, <4>1, <4>2
    <3> QED
        BY <3>3 DEF p, q
  <2>5. ASSUME NEW i \in 1 .. Len(s) - 1 PROVE r[i] = IF i < k THEN s[i] ELSE s[i + 1]
    <3>1. CASE i < k
        BY <1>2, <2>4, <3>1
    <3>2. CASE i >= k
      <4>1. r[i] = SubSeq(s, k + 1, Len(s))[i - (k - 1)]
          BY <1>2, <2>4, <3>2
      <4>2. i - (k - 1) \in 1 .. Len(s) - k
          BY <1>2, <3>2
      <4>3. SubSeq(s, k + 1, Len(s))[i - (k - 1)] = s[i + 1]
        <5>1. SubSeq(s, k + 1, Len(s))[i - (k - 1)] = s[(k + 1) + (i - (k - 1)) - 1]
            BY <1>2, <4>2, RestOf
        <5>2. (k + 1) + (i - (k - 1)) - 1 = i + 1
            BY <1>2, <3>2
        <5> QED
            BY <5>1, <5>2
      <4>4. ~ (i < k)
          BY <1>2, <3>2
      <4> QED
          BY <4>1, <4>3, <4>4
    <3> QED
        BY <1>2, <3>1, <3>2
  <2> QED
      BY <2>4, <2>5
<1>4. RemoveFirst(s, t) = r
    OBVIOUS
<1> HIDE DEF k, r
<1>5. Without(r, s, t, k)
    BY <1>2, <1>3 DEF Without
<1> QED
    BY <1>2, <1>3, <1>4, <1>5

(* What is left when the first t is taken from a list keeps its order.     *)
LEMMA FirstRemoved ==
    ASSUME NEW s \in Seq(Nat), NEW t
    PROVE  RemoveFirst(s, t) \in Seq(Nat) /\ LeftOf(RemoveFirst(s, t), s)
<1> DEFINE r == RemoveFirst(s, t)
<1>1. CASE ~ \E i \in 1 .. Len(s) : s[i] = t
  <2>1. r = s
      BY <1>1 DEF RemoveFirst
  <2> DEFINE f == [i \in DOMAIN s |-> i]
  <2>2. f \in [DOMAIN r -> DOMAIN s] /\ \A i \in DOMAIN r : f[i] = i
      BY <2>1
  <2> HIDE DEF f
  <2>3. r \in Seq(Nat) /\ (\A i, j \in DOMAIN r : i < j => f[i] < f[j])
        /\ \A i \in DOMAIN r : r[i] = s[f[i]]
      BY <2>1, <2>2
  <2> QED
      BY <2>2, <2>3 DEF LeftOf
<1>2. CASE \E i \in 1 .. Len(s) : s[i] = t
  <2>1. PICK k \in 1 .. Len(s) : r \in Seq(Nat) /\ Without(r, s, t, k)
      BY <1>2, FirstTaken
  <2>2. k \in 1 .. Len(s)
      OBVIOUS
  <2>3. /\ r \in Seq(Nat) /\ Len(r) = Len(s) - 1
        /\ \A i \in 1 .. Len(s) - 1 : r[i] = IF i < k THEN s[i] ELSE s[i + 1]
      BY <2>1 DEF Without
  <2> DEFINE f == [i \in DOMAIN r |-> IF i < k THEN i ELSE i + 1]
  <2> HIDE DEF r
  <2>4. f \in [DOMAIN r -> DOMAIN s]
      BY <2>2, <2>3
  <2>5. /\ \A i, j \in DOMAIN r : i < j => f[i] < f[j]
        /\ \A i \in DOMAIN r : r[i] = s[f[i]]
    <3>1. DOMAIN r = 1 .. Len(s) - 1
        BY <2>3
    <3>2. \A i \in DOMAIN r : f[i] = IF i < k THEN i ELSE i + 1
        OBVIOUS
    <3> HIDE DEF f
    <3>3. \A i, j \in DOMAIN r : i < j => f[i] < f[j]
        BY <2>2, <3>1, <3>2
    <3>4. \A i \in DOMAIN r : r[i] = s[f[i]]
        BY <2>2, <2>3, <3>1, <3>2
    <3> QED
        BY <3>3, <3>4
  <2> QED
      BY <2>3, <2>4, <2>5 DEF r, LeftOf
<1> QED
    BY <1>1, <1>2

(* A number put into a list at place k.                                    *)
LEMMA Inserted ==
    ASSUME NEW s \in Seq(Nat), NEW k \in 1 .. Len(s) + 1, NEW e \in Nat
    PROVE  \E r \in Seq(Nat) :
              /\ r = InsertAt(s, k, e) /\ Len(r) = Len(s) + 1
              /\ \A i \in 1 .. k - 1 : r[i] = s[i]
              /\ r[k] = e
              /\ \A i \in k + 1 .. Len(s) + 1 : r[i] = s[i - 1]
<1> DEFINE p == SubSeq(s, 1, k - 1)
           q == SubSeq(s, k, Len(s))
           h == p \o <<e>>
           r == InsertAt(s, k, e)
<1>1. p \in Seq(Nat) /\ Len(p) = k - 1 /\ \A i \in 1 .. k - 1 : p[i] = s[i]
    OBVIOUS
<1>2. /\ q \in Seq(Nat) /\ Len(q) = Len(s) - (k - 1)
      /\ \A i \in 1 .. Len(s) - (k - 1) : q[i] = s[i + k - 1]
    OBVIOUS
<1>3. r = h \o q
    BY DEF InsertAt
<1> HIDE DEF p, q, r
<1>4. <<e>> \in Seq(Nat) /\ Len(<<e>>) = 1 /\ <<e>>[1] = e
    OBVIOUS
<1>5. /\ h \in Seq(Nat) /\ Len(h) = k
      /\ \A i \in 1 .. k : h[i] = IF i < k THEN s[i] ELSE e
  <2>1. h \in Seq(Nat) /\ Len(h) = Len(p) + 1
      BY <1>1, <1>4, Joined
  <2>2. \A i \in 1 .. Len(p) + Len(<<e>>) : h[i] = IF i <= Len(p) THEN p[i] ELSE <<e>>[i - Len(p)]
      BY <1>1, <1>4, Joined
  <2> HIDE DEF h
  <2>3. ASSUME NEW i \in 1 .. k PROVE h[i] = IF i < k THEN s[i] ELSE e
    <3>1. CASE i < k
        BY <1>1, <1>4, <2>2, <3>1
    <3>2. CASE i = k
      <4>1. i \in 1 .. Len(p) + Len(<<e>>) /\ ~ i <= Len(p) /\ i - Len(p) = 1
          BY <1>1, <1>4, <3>2
      <4>2. h[i] = <<e>>[i - Len(p)]
          BY <2>2, <4>1
      <4> QED
          BY <1>4, <3>2, <4>1, <4>2
    <3> QED
        BY <3>1, <3>2
  <2>4. Len(h) = k
      BY <1>1, <2>1
  <2> QED
      BY <2>1, <2>3, <2>4
<1> HIDE DEF h
<1>6. r \in Seq(Nat) /\ Len(r) = Len(s) + 1
  <2>1. r \in Seq(Nat) /\ Len(r) = Len(h) + Len(q)
      BY <1>2, <1>3, <1>5, Joined
  <2> QED
      BY <1>2, <1>5, <2>1
<1>7. ASSUME NEW i \in 1 .. Len(s) + 1
      PROVE  r[i] = IF i < k THEN s[i] ELSE IF i = k THEN e ELSE s[i - 1]
  <2>1. \A j \in 1 .. Len(h) + Len(q) : r[j] = IF j <= Len(h) THEN h[j] ELSE q[j - Len(h)]
      BY <1>2, <1>3, <1>5, Joined
  <2>2. r[i] = IF i <= k THEN h[i] ELSE q[i - k]
      BY <1>2, <1>5, <2>1
  <2>3. CASE i <= k
      BY <1>5, <2>2, <2>3
  <2>4. CASE i > k
    <3>1. i - k \in 1 .. Len(s) - (k - 1) /\ (i - k) + k - 1 = i - 1
        BY <2>4
    <3> QED
        BY <1>2, <2>2, <2>4, <3>1
  <2> QED
      BY <2>3, <2>4
<1>8. \A i \in 1 .. k - 1 : r[i] = s[i]
    BY <1>7
<1>9. r[k] = e
    BY <1>7
<1>10. \A i \in k + 1 .. Len(s) + 1 : r[i] = s[i - 1]
    BY <1>7
<1> QED
    BY <1>6, <1>8, <1>9, <1>10 DEF r

LEMMA BrainInit == MCInit => BrainInv
<1> SUFFICES ASSUME Init PROVE BrainInv
    BY DEF MCInit
<1>1. tasks = <<>> /\ pending = <<>> /\ schedules = <<>> /\ now = 1
    BY DEF Init
<1>2. /\ <<>> \in Seq(TaskRecords) /\ <<>> \in Seq(Nat)
      /\ Len(<<>>) = 0 /\ DOMAIN <<>> = {}
    OBVIOUS
<1>3. Task = {}
    BY <1>1, <1>2 DEF Task
<1>4. CoordinatorTypes
    BY <1>1, <1>2, <1>3, BrainAssumption DEF Init, CoordinatorTypes
<1>5. QueueInOrder /\ FiredBefore
    BY <1>1, <1>2 DEF QueueInOrder, FiredBefore
<1>6. ScheduleTypes
  <2>1. <<>> \in Seq(ScheduleRecords)
      OBVIOUS
  <2> QED
      BY <1>1, <2>1 DEF ScheduleTypes
<1> QED
    BY <1>4, <1>5, <1>6 DEF BrainInv

LEMMA TaskNumbers == \A r \in TaskRecords : r.retries \in Nat /\ r.priority \in Int
<1> SUFFICES ASSUME NEW r \in TaskRecords PROVE r.retries \in Nat /\ r.priority \in Int
    OBVIOUS
<1>1. r.retries \in 0 .. RetryAttempts /\ r.priority \in Priorities
    BY DEF TaskRecords
<1>2. RetryAttempts \in Nat /\ Priorities \subseteq Int
    BY BrainAssumption
<1>3. r.retries \in Nat
    BY <1>1, <1>2
<1>4. r.priority \in Int
    BY <1>1, <1>2
<1> QED
    BY <1>3, <1>4

(* The urgency of the tasks stays; they may only have failed once more.    *)
LEMMA OrderKept ==
    ASSUME CoordinatorTypes, CoordinatorTypes', NEW x \in Task, NEW y \in Task, Before(tasks, x, y),
           \A t \in Task : /\ t \in Task' /\ tasks'[t].priority = tasks[t].priority
                           /\ tasks'[t].retries >= tasks[t].retries
    PROVE  Before(tasks', x, y)
<1>1. \A t \in Task : tasks[t] \in TaskRecords /\ tasks'[t] \in TaskRecords
    BY DEF CoordinatorTypes, Task
<1>2. /\ tasks[x].retries \in Nat /\ tasks'[x].retries \in Nat
      /\ tasks[y].retries \in Nat /\ tasks'[y].retries \in Nat
      /\ tasks[x].priority \in Int /\ tasks[y].priority \in Int
    BY <1>1, TaskNumbers
<1> QED
    BY <1>2 DEF Before

(* A new task stands behind the tasks that are as urgent, or more.         *)
LEMMA Submitted ==
    ASSUME BrainInv, NEW p \in Priorities, SubmitTask(p)
    PROVE  BrainInv'
<1> DEFINE t == Len(tasks) + 1
           k == IF Places(p) = {} THEN Len(pending) + 1
                ELSE CHOOSE i \in Places(p) : \A j \in Places(p) : i <= j
<1>1. /\ Len(tasks) < MaxTasks
      /\ tasks' = Append(tasks, [status |-> "pending", priority |-> p, retries |-> 0])
      /\ pending' = InsertAt(pending, k, t) /\ UNCHANGED <<running, schedules, now>>
    BY DEF SubmitTask, scheduleVars
<1>2. /\ tasks \in Seq(TaskRecords) /\ pending \in Seq(Nat)
      /\ Len(tasks) \in Nat /\ Len(pending) \in Nat
      /\ \A i \in DOMAIN pending : pending[i] \in Task
    BY DEF BrainInv, CoordinatorTypes
<1>3. /\ k \in 1 .. Len(pending) + 1
      /\ \A i \in 1 .. k - 1 : ~ tasks[pending[i]].priority < p
      /\ k <= Len(pending) => tasks[pending[k]].priority < p
  <2>1. Places(p) \subseteq Nat /\ Places(p) \subseteq 1 .. Len(pending)
      BY <1>2 DEF Places
  <2>2. CASE Places(p) = {}
    <3>1. k = Len(pending) + 1
        BY <2>2
    <3> QED
        BY <1>2, <2>2, <3>1 DEF Places
  <2>3. CASE Places(p) # {}
    <3>1. \E i \in Places(p) : \A j \in Places(p) : i <= j
        BY <2>1, <2>3, SmallestOf
    <3>2. k \in Places(p) /\ \A j \in Places(p) : k <= j
        BY <2>3, <3>1
    <3> HIDE DEF k
    <3>3. k \in 1 .. Len(pending) /\ tasks[pending[k]].priority < p
        BY <1>2, <3>2 DEF Places
    <3>4. ASSUME NEW i \in 1 .. k - 1, tasks[pending[i]].priority < p PROVE FALSE
      <4>1. i \in Places(p)
          BY <1>2, <3>3, <3>4 DEF Places
      <4> QED
          BY <3>2, <3>3, <4>1
    <3> QED
        BY <1>2, <3>3, <3>4
  <2> QED
      BY <2>2, <2>3
<1> HIDE DEF k
<1>4. /\ pending' \in Seq(Nat) /\ Len(pending') = Len(pending) + 1
      /\ \A i \in 1 .. Len(pending) + 1 :
            pending'[i] = IF i < k THEN pending[i] ELSE IF i = k THEN t ELSE pending[i - 1]
  <2>1. t \in Nat
      BY <1>2
  <2>2. pending' = InsertAt(pending, k, t) /\ k \in 1 .. Len(pending) + 1 /\ pending \in Seq(Nat)
      BY <1>1, <1>2, <1>3
  <2> HIDE DEF t
  <2>3. PICK r \in Seq(Nat) :
           /\ r = InsertAt(pending, k, t) /\ Len(r) = Len(pending) + 1
           /\ \A i \in 1 .. k - 1 : r[i] = pending[i]
           /\ r[k] = t
           /\ \A i \in k + 1 .. Len(pending) + 1 : r[i] = pending[i - 1]
      BY <2>1, <2>2, Inserted
  <2>4. pending' = r
      BY <2>2, <2>3
  <2>5. ASSUME NEW i \in 1 .. Len(pending) + 1
        PROVE  pending'[i] = IF i < k THEN pending[i] ELSE IF i = k THEN t ELSE pending[i - 1]
      BY <1>2, <2>2, <2>3, <2>4
  <2> QED
      BY <2>3, <2>4, <2>5
<1>5. /\ tasks' \in Seq(TaskRecords) /\ Len(tasks') = t
      /\ \A u \in Task : tasks'[u] = tasks[u]
      /\ tasks'[t] = [status |-> "pending", priority |-> p, retries |-> 0]
  <2>1. [status |-> "pending", priority |-> p, retries |-> 0] \in TaskRecords
      BY BrainAssumption DEF TaskRecords
  <2> QED
      BY <1>1, <1>2, <2>1 DEF Task
<1>6. Task' = Task \cup {t} /\ t \notin Task
    BY <1>2, <1>5 DEF Task
<1>7. \A i \in 1 .. Len(pending) : pending[i] \in Task
    BY <1>2
<1>8. CoordinatorTypes'
  <2>1. \A i \in DOMAIN pending' : pending'[i] \in Task'
    <3> SUFFICES ASSUME NEW i \in 1 .. Len(pending) + 1 PROVE pending'[i] \in Task'
        BY <1>4
    <3>1. CASE i < k
        BY <1>3, <1>4, <1>6, <1>7, <3>1
    <3>2. CASE i = k
        BY <1>4, <1>6, <3>2
    <3>3. CASE i > k
      <4>1. pending'[i] = pending[i - 1] /\ i - 1 \in 1 .. Len(pending)
          BY <1>2, <1>3, <1>4, <3>3
      <4> QED
          BY <1>6, <1>7, <4>1
    <3> QED
        BY <1>3, <3>1, <3>2, <3>3
  <2>2. t \in 1 .. MaxTasks /\ running[t] = NoAgent
      BY <1>1, <1>2, <1>6, BrainAssumption DEF BrainInv, CoordinatorTypes
  <2>3. \A u \in Task' : tasks'[u].status = "running" <=> running'[u] \in Agents
    <3>1. tasks'[t].status # "running" /\ running'[t] \notin Agents
        BY <1>1, <1>5, <2>2, BrainAssumption
    <3> QED
        BY <1>1, <1>5, <1>6, <3>1 DEF BrainInv, CoordinatorTypes
  <2>4. \A u \in (1 .. MaxTasks) \ Task' : running'[u] = NoAgent
      BY <1>1, <1>6 DEF BrainInv, CoordinatorTypes
  <2>5. running' \in [1 .. MaxTasks -> Agents \cup {NoAgent}]
      BY <1>1 DEF BrainInv, CoordinatorTypes
  <2>6. Len(tasks') <= MaxTasks
      BY <1>1, <1>2, <1>5, BrainAssumption
  <2> QED
      BY <1>4, <1>5, <2>1, <2>3, <2>4, <2>5, <2>6 DEF CoordinatorTypes
<1>9. QueueInOrder'
  <2>1. \A u \in Task : u \in Task' /\ tasks'[u] = tasks[u] /\ tasks[u] \in TaskRecords
      BY <1>2, <1>5, <1>6 DEF Task
  <2>2. \A u \in Task : tasks[u].priority \in Int /\ tasks[u].retries \in Nat /\ u < t
    <3>1. \A u \in Task : u < t
        BY <1>2 DEF Task
    <3> QED
        BY <2>1, <3>1, TaskNumbers
  <2>3. ASSUME NEW x \in Task, NEW y \in Task, Before(tasks, x, y) PROVE Before(tasks', x, y)
      BY <2>1, <2>2, <2>3 DEF Before
  <2>4. ASSUME NEW i \in 1 .. Len(pending), NEW j \in 1 .. Len(pending), i < j, pending[i] # pending[j]
        PROVE  Before(tasks, pending[i], pending[j])
      BY <2>4 DEF BrainInv, QueueInOrder
  <2>5. ASSUME NEW x \in Task, tasks[x].priority >= p PROVE Before(tasks', x, t)
    <3>1. tasks'[x].priority >= p /\ tasks'[t].priority = p /\ x < t /\ p \in Int
        BY <1>5, <2>2, <2>5, BrainAssumption
    <3>2. tasks'[x].priority \in Int
        BY <2>1, <2>2
    <3>3. tasks'[x].priority > tasks'[t].priority \/ tasks'[x].priority = tasks'[t].priority
        BY <3>1, <3>2
    <3> QED
        BY <3>1, <3>3 DEF Before
  <2>6. ASSUME NEW y \in Task, tasks[y].priority < p \/ tasks[y].retries > 0 PROVE Before(tasks', t, y)
    <3>1. tasks'[y] = tasks[y] /\ tasks'[t].priority = p
        BY <1>5
    <3>2. tasks'[y].retries > 0 \/ tasks'[t].priority > tasks'[y].priority
        BY <2>2, <2>6, <3>1, BrainAssumption
    <3> QED
        BY <3>2 DEF Before
  <2>7. ASSUME NEW j \in k .. Len(pending)
        PROVE  tasks[pending[j]].priority < p \/ tasks[pending[j]].retries > 0
    <3>1. k \in 1 .. Len(pending) /\ j \in 1 .. Len(pending) /\ tasks[pending[k]].priority < p
        BY <1>3, <2>7
    <3>2. pending[k] \in Task /\ pending[j] \in Task
        BY <1>7, <3>1
    <3>3. CASE pending[k] = pending[j]
        BY <3>1, <3>3
    <3>4. CASE pending[k] # pending[j]
      <4>1. Before(tasks, pending[k], pending[j])
          BY <2>4, <3>1, <3>4
      <4> QED
          BY <2>2, <3>1, <3>2, <4>1, BrainAssumption DEF Before
    <3> QED
        BY <3>3, <3>4
  <2> SUFFICES ASSUME NEW i \in 1 .. Len(pending) + 1, NEW j \in 1 .. Len(pending) + 1,
                      i < j, pending'[i] # pending'[j]
               PROVE  Before(tasks', pending'[i], pending'[j])
      BY <1>4 DEF QueueInOrder
  <2>8. CASE j < k
    <3>1. pending'[i] = pending[i] /\ pending'[j] = pending[j] /\ i \in 1 .. Len(pending) /\ j \in 1 .. Len(pending)
        BY <1>3, <1>4, <2>8
    <3> QED
        BY <1>7, <2>3, <2>4, <3>1
  <2>9. CASE j = k
    <3>1. pending'[i] = pending[i] /\ pending'[j] = t /\ i \in 1 .. k - 1 /\ i \in 1 .. Len(pending)
      <4>1. i < k /\ i \in 1 .. k - 1 /\ i \in 1 .. Len(pending) /\ k \in 1 .. Len(pending) + 1
          BY <1>2, <1>3, <2>9
      <4>2. pending'[i] = pending[i]
          BY <1>4, <4>1
      <4>3. pending'[k] = t
          BY <1>4, <4>1
      <4> QED
          BY <2>9, <4>1, <4>2, <4>3
    <3>2. pending[i] \in Task /\ tasks[pending[i]].priority >= p
        BY <1>3, <1>7, <2>2, <3>1, BrainAssumption
    <3> QED
        BY <2>5, <3>1, <3>2
  <2>10. CASE j > k /\ i = k
    <3>1. pending'[i] = t /\ pending'[j] = pending[j - 1] /\ j - 1 \in k .. Len(pending)
        BY <1>3, <1>4, <2>10
    <3>2. pending[j - 1] \in Task
        BY <1>3, <1>7, <3>1
    <3> QED
        BY <2>6, <2>7, <3>1, <3>2
  <2>11. CASE j > k /\ i < k
    <3>1. /\ pending'[i] = pending[i] /\ pending'[j] = pending[j - 1]
          /\ i \in 1 .. Len(pending) /\ j - 1 \in 1 .. Len(pending) /\ i < j - 1
      <4>1. Len(pending) \in Nat /\ k \in 1 .. Len(pending) + 1
          BY <1>2, <1>3
      <4>2. i \in 1 .. Len(pending) /\ j - 1 \in 1 .. Len(pending) /\ i < j - 1
          BY <2>11, <4>1
      <4>3. pending'[i] = pending[i]
          BY <1>4, <2>11, <4>1
      <4>4. pending'[j] = pending[j - 1]
          BY <1>4, <2>11, <4>1
      <4> QED
          BY <4>2, <4>3, <4>4
    <3> QED
        BY <1>7, <2>3, <2>4, <3>1
  <2>12. CASE j > k /\ i > k
    <3>1. /\ pending'[i] = pending[i - 1] /\ pending'[j] = pending[j - 1]
          /\ i - 1 \in 1 .. Len(pending) /\ j - 1 \in 1 .. Len(pending) /\ i - 1 < j - 1
      <4>1. Len(pending) \in Nat /\ k \in 1 .. Len(pending) + 1
          BY <1>2, <1>3
      <4>2. i - 1 \in 1 .. Len(pending) /\ j - 1 \in 1 .. Len(pending) /\ i - 1 < j - 1
          BY <2>12, <4>1
      <4>3. pending'[i] = pending[i - 1]
          BY <1>4, <2>12, <4>1
      <4>4. pending'[j] = pending[j - 1]
          BY <1>4, <2>12, <4>1
      <4> QED
          BY <4>2, <4>3, <4>4
    <3> QED
        BY <1>7, <2>3, <2>4, <3>1
  <2> QED
      BY <1>3, <2>8, <2>9, <2>10, <2>11, <2>12
<1>10. ScheduleTypes' /\ FiredBefore'
    BY <1>1 DEF BrainInv, ScheduleTypes, FiredBefore, Spacing
<1> QED
    BY <1>8, <1>9, <1>10 DEF BrainInv

(* A step that changes what is known of a task leaves the queue in order,  *)
(* when what it queues, at the end, has failed.                            *)
LEMMA QueueKept ==
    ASSUME CoordinatorTypes, CoordinatorTypes', QueueInOrder, Task' = Task,
           \A u \in Task : /\ tasks'[u].priority = tasks[u].priority
                           /\ tasks'[u].retries >= tasks[u].retries,
           \/ pending' = pending
           \/ \E t \in Task : pending' = RemoveFirst(pending, t)
           \/ \E t \in Task : pending' = Append(pending, t) /\ tasks'[t].retries > 0
    PROVE  QueueInOrder'
<1>1. pending \in Seq(Nat) /\ Len(pending) \in Nat /\ \A i \in DOMAIN pending : pending[i] \in Task
    BY DEF CoordinatorTypes
<1>2. ASSUME NEW i \in DOMAIN pending, NEW j \in DOMAIN pending, i < j, pending[i] # pending[j]
      PROVE  Before(tasks', pending[i], pending[j])
  <2>1. Before(tasks, pending[i], pending[j])
      BY <1>2 DEF QueueInOrder
  <2> QED
      BY <1>1, <2>1, OrderKept
<1>3. CASE pending' = pending
    BY <1>2, <1>3 DEF QueueInOrder
<1>4. ASSUME NEW t \in Task, pending' = RemoveFirst(pending, t) PROVE QueueInOrder'
  <2>1. PICK r : r = RemoveFirst(pending, t) /\ LeftOf(r, pending)
      BY <1>1, FirstRemoved
  <2>2. PICK f \in [DOMAIN r -> DOMAIN pending] :
           /\ \A i, j \in DOMAIN r : i < j => f[i] < f[j]
           /\ \A i \in DOMAIN r : r[i] = pending[f[i]]
      BY <2>1 DEF LeftOf
  <2>3. pending' = r
      BY <1>4, <2>1
  <2> SUFFICES ASSUME NEW i \in DOMAIN r, NEW j \in DOMAIN r, i < j, r[i] # r[j]
               PROVE  Before(tasks', r[i], r[j])
      BY <2>3 DEF QueueInOrder
  <2>4. f[i] \in DOMAIN pending /\ f[j] \in DOMAIN pending /\ f[i] < f[j]
      BY <2>2
  <2>5. r[i] = pending[f[i]] /\ r[j] = pending[f[j]]
      BY <2>2
  <2> QED
      BY <1>2, <2>4, <2>5
<1>5. ASSUME NEW t \in Task, pending' = Append(pending, t), tasks'[t].retries > 0
      PROVE  QueueInOrder'
  <2>1. /\ DOMAIN pending' = 1 .. Len(pending) + 1 /\ DOMAIN pending = 1 .. Len(pending)
        /\ \A i \in 1 .. Len(pending) : pending'[i] = pending[i]
        /\ pending'[Len(pending) + 1] = t
    <3>1. t \in Nat
        BY DEF Task
    <3> QED
        BY <1>1, <1>5, <3>1
  <2> SUFFICES ASSUME NEW i \in 1 .. Len(pending) + 1, NEW j \in 1 .. Len(pending) + 1,
                      i < j, pending'[i] # pending'[j]
               PROVE  Before(tasks', pending'[i], pending'[j])
      BY <2>1 DEF QueueInOrder
  <2>2. CASE j = Len(pending) + 1
      BY <1>5, <2>1, <2>2 DEF Before
  <2>3. CASE j \in 1 .. Len(pending)
    <3>1. i \in 1 .. Len(pending)
        BY <1>1, <2>3
    <3> QED
        BY <1>2, <2>1, <2>3, <3>1
  <2> QED
      BY <1>1, <2>2, <2>3
<1> QED
    BY <1>3, <1>4, <1>5

(* What a dispatch and a report do to one task.                            *)
LEMMA TaskChanged ==
    ASSUME CoordinatorTypes, NEW t \in Task, NEW rec \in TaskRecords, NEW holder \in Agents \cup {NoAgent},
           tasks' = [tasks EXCEPT ![t] = rec], running' = [running EXCEPT ![t] = holder],
           rec.status = "running" <=> holder \in Agents,
           pending' \in Seq(Nat), \A i \in DOMAIN pending' : pending'[i] \in Task
    PROVE  /\ CoordinatorTypes' /\ Task' = Task /\ tasks'[t] = rec
           /\ \A u \in Task \ {t} : tasks'[u] = tasks[u]
<1>1. /\ tasks \in Seq(TaskRecords) /\ Task = DOMAIN tasks /\ Len(tasks) \in Nat /\ Len(tasks) <= MaxTasks
      /\ running \in [1 .. MaxTasks -> Agents \cup {NoAgent}]
    BY DEF CoordinatorTypes, Task
<1>2. tasks' \in Seq(TaskRecords) /\ Len(tasks') = Len(tasks)
    BY <1>1
<1>3. tasks'[t] = rec /\ \A u \in Task \ {t} : tasks'[u] = tasks[u]
    BY <1>1
<1>4. Task' = Task
    BY <1>2 DEF Task
<1>5. t \in 1 .. MaxTasks
    BY <1>1, BrainAssumption DEF Task
<1>6. /\ running' \in [1 .. MaxTasks -> Agents \cup {NoAgent}] /\ running'[t] = holder
      /\ \A u \in (1 .. MaxTasks) \ {t} : running'[u] = running[u]
    BY <1>1, <1>5
<1>7. Task \subseteq 1 .. MaxTasks
    BY <1>1, BrainAssumption DEF Task
<1>8. \A u \in Task' : tasks'[u].status = "running" <=> running'[u] \in Agents
    BY <1>3, <1>4, <1>6, <1>7 DEF CoordinatorTypes
<1>9. \A u \in (1 .. MaxTasks) \ Task' : running'[u] = NoAgent
    BY <1>4, <1>6 DEF CoordinatorTypes
<1>10. CoordinatorTypes'
    BY <1>1, <1>2, <1>4, <1>6, <1>8, <1>9 DEF CoordinatorTypes
<1> QED
    BY <1>3, <1>4, <1>10

LEMMA Remaining ==
    ASSUME CoordinatorTypes, NEW t \in Task
    PROVE  /\ RemoveFirst(pending, t) \in Seq(Nat)
           /\ \A i \in DOMAIN RemoveFirst(pending, t) : RemoveFirst(pending, t)[i] \in Task
<1>1. pending \in Seq(Nat) /\ \A i \in DOMAIN pending : pending[i] \in Task
    BY DEF CoordinatorTypes
<1>2. RemoveFirst(pending, t) \in Seq(Nat) /\ LeftOf(RemoveFirst(pending, t), pending)
    BY <1>1, FirstRemoved
<1> QED
    BY <1>1, <1>2 DEF LeftOf

LEMMA Dispatched ==
    ASSUME BrainInv, NEW t \in Task, NEW w \in Agents, DispatchTask(t, w)
    PROVE  BrainInv'
<1>1. /\ tasks' = [tasks EXCEPT ![t].status = "running"] /\ pending' = RemoveFirst(pending, t)
      /\ running' = [running EXCEPT ![t] = w] /\ UNCHANGED <<schedules, now>>
    BY DEF DispatchTask, scheduleVars
<1>2. /\ tasks \in Seq(TaskRecords) /\ pending \in Seq(Nat) /\ tasks[t] \in TaskRecords
      /\ \A i \in DOMAIN pending : pending[i] \in Task
    BY DEF BrainInv, CoordinatorTypes, Task
<1> DEFINE rec == [tasks[t] EXCEPT !.status = "running"]
<1>3. /\ rec \in TaskRecords /\ rec.status = "running" /\ rec.priority = tasks[t].priority
      /\ rec.retries = tasks[t].retries /\ tasks' = [tasks EXCEPT ![t] = rec]
    BY <1>1, <1>2 DEF TaskRecords
<1> HIDE DEF rec
<1>4. pending' \in Seq(Nat) /\ \A i \in DOMAIN pending' : pending'[i] \in Task
    BY <1>1, Remaining DEF BrainInv
<1>6. /\ CoordinatorTypes' /\ Task' = Task /\ tasks'[t] = rec
      /\ \A u \in Task \ {t} : tasks'[u] = tasks[u]
    BY <1>1, <1>3, <1>4, TaskChanged DEF BrainInv
<1>7. \A u \in Task : tasks[u].retries \in Nat
    BY <1>2, TaskNumbers DEF Task
<1>8. QueueInOrder'
    BY <1>1, <1>3, <1>6, <1>7, QueueKept DEF BrainInv
<1> QED
    BY <1>1, <1>6, <1>8 DEF BrainInv, ScheduleTypes, FiredBefore, Spacing

(* A report of success, or of the last failure, leaves the queue alone.    *)
LEMMA Settled ==
    ASSUME BrainInv, NEW t \in Task, NEW end \in {"completed", "failed"}, Settle(t, end)
    PROVE  BrainInv'
<1>1. /\ tasks' = [tasks EXCEPT ![t].status = end] /\ pending' = pending
      /\ running' = [running EXCEPT ![t] = NoAgent] /\ UNCHANGED <<schedules, now>>
    BY DEF Settle, scheduleVars
<1>2. /\ tasks \in Seq(TaskRecords) /\ pending \in Seq(Nat) /\ tasks[t] \in TaskRecords
      /\ \A i \in DOMAIN pending : pending[i] \in Task
    BY DEF BrainInv, CoordinatorTypes, Task
<1> DEFINE rec == [tasks[t] EXCEPT !.status = end]
<1>3. /\ rec \in TaskRecords /\ rec.status # "running" /\ rec.priority = tasks[t].priority
      /\ rec.retries = tasks[t].retries /\ tasks' = [tasks EXCEPT ![t] = rec]
    BY <1>1, <1>2 DEF TaskRecords
<1> HIDE DEF rec
<1>4. /\ CoordinatorTypes' /\ Task' = Task /\ tasks'[t] = rec
      /\ \A u \in Task \ {t} : tasks'[u] = tasks[u]
  <2>1. rec.status = "running" <=> NoAgent \in Agents
      BY <1>3, BrainAssumption
  <2> QED
      BY <1>1, <1>2, <1>3, <2>1, TaskChanged DEF BrainInv
<1>5. \A u \in Task : tasks[u].retries \in Nat
    BY <1>2, TaskNumbers DEF Task
<1>6. QueueInOrder'
    BY <1>1, <1>3, <1>4, <1>5, QueueKept DEF BrainInv
<1> QED
    BY <1>1, <1>4, <1>6 DEF BrainInv, ScheduleTypes, FiredBefore, Spacing

(* A failed task goes to the end of the queue.                             *)
LEMMA Retried ==
    ASSUME BrainInv, NEW t \in Task, tasks[t].retries < RetryAttempts,
           tasks' = [tasks EXCEPT ![t].retries = @ + 1, ![t].status = "pending"],
           pending' = Append(pending, t), running' = [running EXCEPT ![t] = NoAgent],
           UNCHANGED <<schedules, now>>
    PROVE  BrainInv'
<1>1. /\ tasks \in Seq(TaskRecords) /\ pending \in Seq(Nat) /\ tasks[t] \in TaskRecords
      /\ \A i \in DOMAIN pending : pending[i] \in Task
    BY DEF BrainInv, CoordinatorTypes, Task
<1> DEFINE rec == [tasks[t] EXCEPT !.retries = @ + 1, !.status = "pending"]
<1>2. tasks[t].retries \in Nat /\ tasks[t].retries + 1 \in 0 .. RetryAttempts
    BY <1>1, TaskNumbers, BrainAssumption
<1>3. /\ rec \in TaskRecords /\ rec.status # "running" /\ rec.priority = tasks[t].priority
      /\ rec.retries = tasks[t].retries + 1
    BY <1>1, <1>2 DEF TaskRecords
<1>4. tasks' = [tasks EXCEPT ![t] = rec]
    BY <1>1
<1> HIDE DEF rec
<1>5. pending' \in Seq(Nat) /\ \A i \in DOMAIN pending' : pending'[i] \in Task
  <2>1. t \in Nat
      BY DEF Task
  <2>2. /\ pending' \in Seq(Nat) /\ DOMAIN pending' = 1 .. Len(pending) + 1
        /\ \A i \in 1 .. Len(pending) : pending'[i] = pending[i] /\ i \in DOMAIN pending
        /\ pending'[Len(pending) + 1] = t
      BY <1>1, <2>1
  <2>3. \A i \in 1 .. Len(pending) + 1 : i \in 1 .. Len(pending) \/ i = Len(pending) + 1
      BY <1>1
  <2> QED
      BY <1>1, <2>2, <2>3
<1>6. /\ CoordinatorTypes' /\ Task' = Task /\ tasks'[t] = rec
      /\ \A u \in Task \ {t} : tasks'[u] = tasks[u]
  <2>1. rec.status = "running" <=> NoAgent \in Agents
      BY <1>3, BrainAssumption
  <2> QED
      BY <1>3, <1>4, <1>5, <2>1, TaskChanged DEF BrainInv
<1>7. \A u \in Task : tasks[u].retries \in Nat
    BY <1>1, TaskNumbers DEF Task
<1>8. /\ \A u \in Task : tasks'[u].priority = tasks[u].priority /\ tasks'[u].retries >= tasks[u].retries
      /\ tasks'[t].retries > 0
  <2>1. tasks'[t].priority = tasks[t].priority /\ tasks'[t].retries = tasks[t].retries + 1
      BY <1>3, <1>6
  <2>2. tasks'[t].retries >= tasks[t].retries /\ tasks'[t].retries > 0
      BY <1>2, <2>1
  <2>3. ASSUME NEW u \in Task \ {t} PROVE tasks'[u].retries >= tasks[u].retries
    <3>1. tasks'[u] = tasks[u] /\ tasks[u].retries \in Nat
        BY <1>6, <1>7
    <3> QED
        BY <3>1
  <2> QED
      BY <1>6, <2>1, <2>2, <2>3
<1>9. QueueInOrder'
    BY <1>6, <1>8, QueueKept DEF BrainInv
<1> QED
    BY <1>6, <1>9 DEF BrainInv, ScheduleTypes, FiredBefore, Spacing

(* A schedule is created, cancelled, switched, or fired by a tick.         *)
LEMMA NextDue ==
    ASSUME NEW policy \in Policies, NEW due \in Int, NEW base \in Int
    PROVE  /\ NextFire(policy, due, base) \in Int
           /\ policy.type \notin {"immediate", "once"} =>
                 NextFire(policy, due, base) = base + Spacing(policy)
<1>1. /\ policy.type \in {"immediate", "delayed", "interval", "cron", "once"} /\ policy.arg \in Int
    BY BrainAssumption
<1> QED
    BY <1>1 DEF NextFire, Spacing, CronStep

ScheduleInv == ScheduleTypes /\ FiredBefore

LEMMA Created ==
    ASSUME ScheduleInv, NEW policy \in Policies, CreateSchedule(policy)
    PROVE  ScheduleInv' /\ FiresSpaced
<1> DEFINE rec == [policy |-> policy, enabled |-> TRUE, live |-> TRUE,
                   next |-> NextFire(policy, now, now), last |-> 0]
<1>1. schedules' = Append(schedules, rec) /\ now' = now
    BY DEF CreateSchedule
<1>2. now \in Nat \ {0} /\ schedules \in Seq(ScheduleRecords)
    BY DEF ScheduleInv, ScheduleTypes
<1>3. rec \in ScheduleRecords /\ rec.last = 0
  <2>1. NextFire(policy, now, now) \in Int
      BY <1>2, NextDue
  <2> QED
      BY <2>1 DEF ScheduleRecords
<1> HIDE DEF rec
<1>4. /\ schedules' \in Seq(ScheduleRecords) /\ Len(schedules') = Len(schedules) + 1
      /\ \A s \in DOMAIN schedules : schedules'[s] = schedules[s]
      /\ schedules'[Len(schedules) + 1] = rec
    BY <1>1, <1>2, <1>3
<1>5. \A s \in DOMAIN schedules' : s \in DOMAIN schedules \/ schedules'[s] = rec
    BY <1>2, <1>4
<1>6. FiredBefore'
    BY <1>3, <1>4, <1>5 DEF ScheduleInv, FiredBefore, Spacing
<1>7. FiresSpaced
    BY <1>4 DEF FiresSpaced
<1> QED
    BY <1>1, <1>2, <1>4, <1>6, <1>7 DEF ScheduleInv, ScheduleTypes

(* A schedule that is cancelled or switched keeps its times.               *)
LEMMA Switched ==
    ASSUME ScheduleInv, NEW s \in DOMAIN schedules,
           \/ CancelSchedule(s)
           \/ \E e \in BOOLEAN : EnableSchedule(s, e)
    PROVE  ScheduleInv' /\ FiresSpaced
<1>1. now \in Nat \ {0} /\ schedules \in Seq(ScheduleRecords) /\ schedules[s] \in ScheduleRecords
    BY DEF ScheduleInv, ScheduleTypes
<1>2. PICK rec \in ScheduleRecords :
         /\ schedules' = [schedules EXCEPT ![s] = rec] /\ now' = now
         /\ rec.policy = schedules[s].policy /\ rec.next = schedules[s].next
         /\ rec.last = schedules[s].last
  <2>1. CASE CancelSchedule(s)
    <3> DEFINE r == [schedules[s] EXCEPT !.live = FALSE]
    <3>1. schedules' = [schedules EXCEPT ![s] = r] /\ now' = now
        BY <2>1 DEF CancelSchedule
    <3>2. r \in ScheduleRecords /\ r.policy = schedules[s].policy /\ r.next = schedules[s].next
          /\ r.last = schedules[s].last
        BY <1>1 DEF ScheduleRecords
    <3> QED
        BY <3>1, <3>2
  <2>2. ASSUME NEW e \in BOOLEAN, EnableSchedule(s, e)
        PROVE  \E rec \in ScheduleRecords :
                  /\ schedules' = [schedules EXCEPT ![s] = rec] /\ now' = now
                  /\ rec.policy = schedules[s].policy /\ rec.next = schedules[s].next
                  /\ rec.last = schedules[s].last
    <3> DEFINE r == [schedules[s] EXCEPT !.enabled = e]
    <3>1. schedules' = [schedules EXCEPT ![s] = r] /\ now' = now
        BY <2>2 DEF EnableSchedule
    <3>2. r \in ScheduleRecords /\ r.policy = schedules[s].policy /\ r.next = schedules[s].next
          /\ r.last = schedules[s].last
        BY <1>1 DEF ScheduleRecords
    <3> QED
        BY <3>1, <3>2
  <2> QED
      BY <2>1, <2>2
<1>3. /\ schedules' \in Seq(ScheduleRecords) /\ DOMAIN schedules' = DOMAIN schedules
      /\ schedules'[s] = rec /\ \A u \in DOMAIN schedules \ {s} : schedules'[u] = schedules[u]
    BY <1>1, <1>2
<1>4. FiredBefore'
    BY <1>2, <1>3 DEF ScheduleInv, FiredBefore, Spacing
<1>5. FiresSpaced
    BY <1>2, <1>3 DEF FiresSpaced
<1> QED
    BY <1>1, <1>2, <1>3, <1>4, <1>5 DEF ScheduleInv, ScheduleTypes

(* A tick fires what is due, a period after its last fire at least.        *)
LEMMA TickFires ==
    ASSUME ScheduleInv, Tick PROVE ScheduleInv' /\ FiresSpaced
<1>1. now \in Nat \ {0} /\ schedules \in Seq(ScheduleRecords) /\ now' = now
    BY DEF ScheduleInv, ScheduleTypes, Tick
<1> DEFINE Fired(s) == [schedules[s] EXCEPT !.last = now, !.next = NextFire(schedules[s].policy, @, now)]
<1>2. /\ DOMAIN schedules' = DOMAIN schedules
      /\ \A s \in DOMAIN schedules : schedules'[s] = IF Due(s) THEN Fired(s) ELSE schedules[s]
    BY DEF Tick
<1>3. ASSUME NEW s \in DOMAIN schedules
      PROVE  /\ schedules[s] \in ScheduleRecords /\ Fired(s) \in ScheduleRecords
             /\ Fired(s).policy = schedules[s].policy /\ Fired(s).last = now
             /\ schedules[s].policy.type \notin {"immediate", "once"} =>
                   Fired(s).next = now + Spacing(schedules[s].policy)
             /\ schedules[s].next \in Int /\ schedules[s].last \in Nat
             /\ Spacing(schedules[s].policy) \in Int
  <2>1. schedules[s] \in ScheduleRecords
      BY <1>1
  <2>2. schedules[s].policy \in Policies /\ schedules[s].next \in Int /\ schedules[s].last \in Nat
      BY <2>1 DEF ScheduleRecords
  <2> DEFINE due == NextFire(schedules[s].policy, schedules[s].next, now)
  <2>3. /\ due \in Int
        /\ schedules[s].policy.type \notin {"immediate", "once"} =>
              due = now + Spacing(schedules[s].policy)
      BY <1>1, <2>2, NextDue
  <2>4. Fired(s) = [schedules[s] EXCEPT !.last = now, !.next = due]
      OBVIOUS
  <2> HIDE DEF due
  <2>5. /\ Fired(s) \in ScheduleRecords /\ Fired(s).policy = schedules[s].policy
        /\ Fired(s).last = now /\ Fired(s).next = due
      BY <1>1, <2>1, <2>3, <2>4 DEF ScheduleRecords
  <2>6. Spacing(schedules[s].policy) \in Int
      BY <2>2, BrainAssumption DEF Spacing, CronStep
  <2> QED
      BY <2>1, <2>2, <2>3, <2>5, <2>6
<1> HIDE DEF Fired
<1>4. schedules' \in Seq(ScheduleRecords)
  <2>1. \A s \in DOMAIN schedules : schedules'[s] \in ScheduleRecords
      BY <1>2, <1>3
  <2>2. schedules' = [s \in 1 .. Len(schedules) |-> schedules'[s]] /\ Len(schedules) \in Nat
    <3>1. DOMAIN schedules = 1 .. Len(schedules) /\ Len(schedules) \in Nat
        BY <1>1
    <3>2. schedules' = [s \in DOMAIN schedules |-> schedules'[s]]
      <4> DEFINE E(s) == IF Due(s)
                         THEN [schedules[s] EXCEPT !.last = now, !.next = NextFire(schedules[s].policy, @, now)]
                         ELSE schedules[s]
      <4>1. schedules' = [s \in DOMAIN schedules |-> E(s)]
          BY DEF Tick
      <4> HIDE DEF E
      <4> QED
          BY <4>1
    <3> QED
        BY <3>1, <3>2
  <2> QED
      BY <1>1, <1>2, <2>1, <2>2
<1>5. FiredBefore'
  <2> SUFFICES ASSUME NEW s \in DOMAIN schedules,
                      schedules'[s].policy.type \notin {"immediate", "once"}, schedules'[s].last > 0
               PROVE  schedules'[s].next >= schedules'[s].last + Spacing(schedules'[s].policy)
      BY <1>2 DEF FiredBefore, Spacing
  <2>1. CASE Due(s)
    <3>1. /\ schedules'[s] = Fired(s) /\ Fired(s).policy = schedules[s].policy /\ Fired(s).last = now
          /\ Fired(s).next = now + Spacing(schedules[s].policy)
        BY <1>2, <1>3, <2>1
    <3>2. now + Spacing(schedules[s].policy) \in Int
        BY <1>1, <1>3
    <3> QED
        BY <3>1, <3>2
  <2>2. CASE ~ Due(s)
      BY <1>2, <2>2 DEF ScheduleInv, FiredBefore
  <2> QED
      BY <2>1, <2>2
<1>6. FiresSpaced
  <2> SUFFICES ASSUME NEW s \in DOMAIN schedules,
                      schedules[s].policy.type \notin {"immediate", "once"}, schedules[s].last > 0,
                      schedules'[s].last # schedules[s].last
               PROVE  schedules'[s].last - schedules[s].last >= Spacing(schedules[s].policy)
      BY DEF FiresSpaced, Spacing
  <2>1. Due(s) /\ schedules'[s] = Fired(s)
      BY <1>2
  <2>2. schedules'[s].last = now /\ schedules[s].next <= now
      BY <1>3, <2>1 DEF Due
  <2>3. schedules[s].next >= schedules[s].last + Spacing(schedules[s].policy)
      BY DEF ScheduleInv, FiredBefore
  <2>4. /\ schedules[s].next \in Int /\ schedules[s].last \in Int /\ now \in Int
        /\ Spacing(schedules[s].policy) \in Int
      BY <1>1, <1>3
  <2> QED
      BY <2>2, <2>3, <2>4
<1> QED
    BY <1>1, <1>4, <1>5, <1>6 DEF ScheduleInv, ScheduleTypes

LEMMA Scheduled ==
    ASSUME ScheduleInv, Schedule
    PROVE  ScheduleInv' /\ FiresSpaced /\ UNCHANGED <<tasks, pending, running>>
<1>1. UNCHANGED <<tasks, pending, running>>
    BY DEF Schedule, CreateSchedule, CancelSchedule, EnableSchedule, Tick, TimePasses, taskVars
<1>2. CASE TimePasses
  <2>1. schedules' = schedules /\ now' = now + 1 /\ now \in Nat
      BY <1>2 DEF TimePasses, ScheduleInv, ScheduleTypes
  <2> QED
      BY <1>1, <2>1 DEF ScheduleInv, ScheduleTypes, FiredBefore, Spacing, FiresSpaced
<1> QED
    BY <1>1, <1>2, Created, Switched, TickFires DEF Schedule

LEMMA Coordinated == ASSUME BrainInv, Coordinate PROVE BrainInv'
<1>1. ASSUME NEW t \in Task, FailTask(t) PROVE BrainInv'
  <2>1. CASE tasks[t].retries < RetryAttempts /\ ~ Settle(t, "failed")
      BY <1>1, <2>1, Retried DEF FailTask, scheduleVars
  <2>2. CASE Settle(t, "failed")
      BY <2>2, Settled
  <2> QED
      BY <1>1, <2>1, <2>2 DEF FailTask
<1>2. ASSUME NEW t \in Task, CompleteTask(t) PROVE BrainInv'
    BY <1>2, Settled DEF CompleteTask
<1> QED
    BY <1>1, <1>2, Submitted, Dispatched DEF Coordinate

(* Its steps are those of the two parts, and of no other.                  *)
LEMMA BrainInvariance ==
    ASSUME BrainInv, [MCNext]_allVars
    PROVE  BrainInv' /\ (part = "schedules" => FiresSpaced)
<1>1. CASE Coordinate /\ part = "tasks"
    BY <1>1, Coordinated
<1>2. CASE Schedule /\ part = "schedules"
  <2>1. ScheduleInv' /\ FiresSpaced /\ UNCHANGED <<tasks, pending, running>>
      BY <1>2, Scheduled DEF BrainInv, ScheduleInv
  <2>2. CoordinatorTypes' /\ QueueInOrder'
      BY <2>1 DEF BrainInv, CoordinatorTypes, QueueInOrder, Task, Before
  <2> QED
      BY <2>1, <2>2 DEF BrainInv, ScheduleInv
<1>3. CASE UNCHANGED brainVars
  <2>1. UNCHANGED <<tasks, pending, running, schedules, now>>
      BY <1>3 DEF brainVars, vars
  <2>2. BrainInv'
      BY <2>1 DEF BrainInv, CoordinatorTypes, QueueInOrder, Task, Before, ScheduleTypes, FiredBefore, Spacing
  <2> QED
      BY <2>1, <2>2 DEF FiresSpaced
<1> QED
    BY <1>1, <1>2, <1>3 DEF MCNext, Work, Govern, allVars, agentVars

(* The queue of the coordinator stays in order of urgency but for tasks    *)
(* that failed; two fires of a schedule are a period apart, however late   *)
(* the ticks come.                                                         *)
THEOREM BrainKeepsOrder == MCSpec => BrainSound
<1>1. BrainInv => TypeOK /\ UrgentFirst
  <2> SUFFICES ASSUME BrainInv PROVE TypeOK /\ UrgentFirst
      OBVIOUS
  <2>1. \A t \in Task : tasks[t] \in TaskRecords
      BY DEF BrainInv, CoordinatorTypes, Task
  <2>2. ToSet(pending) \subseteq Task
      BY DEF BrainInv, CoordinatorTypes, ToSet
  <2>3. TypeOK
      BY <2>1, <2>2 DEF TypeOK, BrainInv, CoordinatorTypes, TaskRecords
  <2>4. UrgentFirst
      BY DEF BrainInv, QueueInOrder, UrgentFirst, Before
  <2> QED
      BY <2>3, <2>4
<1>2. MCSpec => []BrainInv
    BY BrainInit, BrainInvariance, PTL DEF MCSpec
<1>3. MCSpec => [](part \in {"tasks", "schedules"} => TypeOK)
  <2>1. BrainInv => (part \in {"tasks", "schedules"} => TypeOK)
      BY <1>1
  <2> QED
      BY <1>2, <2>1, PTL
<1>4. MCSpec => [](part = "tasks" => UrgentFirst)
  <2>1. BrainInv => (part = "tasks" => UrgentFirst)
      BY <1>1
  <2> QED
      BY <1>2, <2>1, PTL
<1>5. MCSpec => [][part = "schedules" => FiresSpaced]_allVars
  <2>1. BrainInv /\ [MCNext]_allVars => [part = "schedules" => FiresSpaced]_allVars
      BY BrainInvariance
  <2> QED
      BY <1>2, <2>1, PTL DEF MCSpec
<1> QED
    BY <1>3, <1>4, <1>5, PTL DEF BrainSound

-----------------------------------------------------------------------------
(* The workflows *)

(* The operators of the instance are those of the module.                  *)
LEMMA SameRemoval == \A s, t : Workflow!RemoveFirst(s, t) = RemoveFirst(s, t)
    BY DEF Workflow!RemoveFirst, RemoveFirst, Workflow!SelectInSeq, SelectInSeq, Workflow!RemoveAt,
        RemoveAt, Workflow!Min, Min



Chores == Steps \X Nat
Hand == [status : {"none", "INITIALIZING", "READY", "IDLE", "BUSY", "ERROR", "gone"},
         tasks : SUBSET Chores, given : {0, Ration}]

(* Who has resources; and who is in the index and watched, the living.     *)
Holders == {i \in Hands : instance[i].given # 0}
Counted ==
    /\ available \in Nat /\ leaked \in Nat
    /\ available + leaked + Ration * Cardinality(Holders) = Supply

Indexed ==
    /\ index \in Seq(Hands) /\ healthy = Workflow!Live
    /\ {index[k] : k \in DOMAIN index} = Workflow!Live
    /\ \A j, k \in DOMAIN index : index[j] = index[k] => j = k
    /\ Len(index) = Cardinality(Workflow!Live)

HandsKept ==
    /\ instance \in [Hands -> Hand]
    /\ \A i \in Hands : instance[i].given # 0 <=> instance[i].status \notin {"none", "gone"}
    /\ Counted /\ Indexed

StageRecord == [status : {"none", "WAITING", "RUNNING", "COMPLETED", "FAILED"}, at : Hands \cup {NoHand}]
Finish == [rest : Seq(Steps), starting : Hands \cup {0}, on : BOOLEAN]

(* A call that waits for an instance has a stage to start on it.           *)
CallsKept(calls) ==
    /\ calls \in [Finishers -> Finish]
    /\ \A f \in Finishers : calls[f].starting # 0 => calls[f].rest # <<>>

(* A stage that is COMPLETED was completed with success; so were the       *)
(* sources of one that was started.                                        *)
StagesKept(stages, done) ==
    /\ stages \in [Steps -> StageRecord]
    /\ \A s \in Steps : stages[s].status = "COMPLETED" => s \in done

StepsKept ==
    /\ status \in {"RUNNING", "COMPLETED", "FAILED", "CANCELLED"}
    /\ StagesKept(stage, completed) /\ CallsKept(call)
    /\ starts \in [Steps -> Nat] /\ current \subseteq Steps /\ completed \subseteq Steps
    /\ Workflow!InputsReady

WorkflowInv == part = "workflow" => HandsKept /\ StepsKept

-----------------------------------------------------------------------------
(* Workflows: the instances *)

LEMMA WorkflowCardinality == \A S : Workflow!Cardinality(S) = Cardinality(S)
    BY DEF Workflow!Cardinality, Cardinality

(* The living and the holders are finitely many.                           *)
LEMMA FewHands == \A S : S \subseteq Hands => IsFiniteSet(S) /\ Cardinality(S) \in Nat
<1> SUFFICES ASSUME NEW S, S \subseteq Hands PROVE IsFiniteSet(S) /\ Cardinality(S) \in Nat
    OBVIOUS
<1>1. IsFiniteSet(S)
    BY FS_Subset, WorkflowAssumption
<1> QED
    BY <1>1, FS_CardinalityType

LEMMA HandLists == \A s \in Seq(Hands) : s \in Seq(Nat)
<1>1. Hands \subseteq Nat
    BY WorkflowAssumption
<1>2. ASSUME NEW s \in Seq(Hands) PROVE s \in Seq(Nat)
  <2>1. \A j \in 1 .. Len(s) : s[j] \in Hands
      OBVIOUS
  <2>2. Len(s) \in Nat /\ s = [j \in 1 .. Len(s) |-> s[j]]
      OBVIOUS
  <2>3. s \in [1 .. Len(s) -> Nat]
    <3>1. \A j \in 1 .. Len(s) : s[j] \in Nat
        BY <1>1, <2>1
    <3> QED
        BY <2>2, <3>1
  <2> QED
      BY <2>2, <2>3
<1> QED
    BY <1>2

LEMMA OneMore == \A S, x : S \subseteq Hands /\ x \in Hands \ S => Cardinality(S \cup {x}) = Cardinality(S) + 1
    BY FewHands, FS_AddElement

LEMMA OneLess == \A S, x : S \subseteq Hands /\ x \in S => Cardinality(S \ {x}) = Cardinality(S) - 1
    BY FewHands, FS_RemoveElement

Alive(h) == h.status \notin {"none", "INITIALIZING", "gone"}

LEMMA LiveIs == Workflow!Live = {i \in Hands : Alive(instance[i])}
    BY DEF Workflow!Live, Alive

LEMMA HandsInit == MCInit => HandsKept
<1> SUFFICES ASSUME MCInit PROVE HandsKept
    OBVIOUS
<1>1. /\ instance = [i \in Hands |-> Workflow!Nothing] /\ index = <<>> /\ healthy = {}
      /\ available = Supply /\ leaked = 0
    BY DEF MCInit, Workflow!Init, Workflow!InstancesInit
<1>2. Workflow!Nothing \in Hand /\ Workflow!Nothing.status = "none" /\ Workflow!Nothing.given = 0
    BY DEF Workflow!Nothing, Hand
<1>3. \A i \in Hands : instance[i] = Workflow!Nothing
    BY <1>1
<1>4. Holders = {} /\ Workflow!Live = {}
    BY <1>2, <1>3 DEF Holders, Workflow!Live
<1>5. Cardinality({}) = 0
    BY FS_EmptySet
<1>6. Counted
    BY <1>1, <1>4, <1>5, WorkflowAssumption DEF Counted
<1>7. index \in Seq(Hands) /\ DOMAIN index = {} /\ Len(index) = 0
  <2>1. <<>> \in Seq(Hands) /\ DOMAIN <<>> = {} /\ Len(<<>>) = 0
      OBVIOUS
  <2> QED
      BY <1>1, <2>1
<1>8. Indexed
    BY <1>1, <1>4, <1>5, <1>7 DEF Indexed
<1>9. instance \in [Hands -> Hand]
    BY <1>1, <1>2
<1> QED
    BY <1>2, <1>3, <1>6, <1>8, <1>9 DEF HandsKept

(* A step that changes one instance, but not whether it lives, and gives   *)
(* and takes nothing.                                                      *)
LEMMA SameBooks ==
    ASSUME HandsKept, NEW i \in Hands, NEW x \in Hand, instance' = [instance EXCEPT ![i] = x],
           x.given = instance[i].given, Alive(x) <=> Alive(instance[i]),
           x.given # 0 <=> x.status \notin {"none", "gone"},
           UNCHANGED <<index, healthy, available, leaked>>
    PROVE  HandsKept'
<1>1. instance \in [Hands -> Hand]
    BY DEF HandsKept
<1>2. instance' \in [Hands -> Hand] /\ \A j \in Hands : instance'[j] = IF j = i THEN x ELSE instance[j]
    BY <1>1
<1>3. Holders' = Holders
    BY <1>2 DEF Holders
<1>4. Workflow!Live' = Workflow!Live
  <2>1. Workflow!Live = {j \in Hands : Alive(instance[j])}
      BY LiveIs
  <2>2. Workflow!Live' = {j \in Hands : Alive(instance'[j])}
      BY DEF Workflow!Live, Alive
  <2>3. \A j \in Hands : Alive(instance'[j]) <=> Alive(instance[j])
      BY <1>2
  <2> QED
      BY <2>1, <2>2, <2>3
<1>5. \A j \in Hands : instance'[j].given # 0 <=> instance'[j].status \notin {"none", "gone"}
    BY <1>2 DEF HandsKept
<1>6. Counted' /\ Indexed'
    BY <1>3, <1>4 DEF HandsKept, Counted, Indexed
<1> QED
    BY <1>2, <1>5, <1>6 DEF HandsKept

LEMMA HandBegun ==
    ASSUME HandsKept, NEW i \in Hands, Workflow!BeginCreate(i)
    PROVE  HandsKept'
<1> DEFINE x == [status |-> "INITIALIZING", tasks |-> {}, given |-> Ration]
<1>1. /\ instance[i].status = "none" /\ available >= Ration /\ available' = available - Ration
      /\ instance' = [instance EXCEPT ![i] = x] /\ UNCHANGED <<index, healthy, leaked>>
    BY DEF Workflow!BeginCreate
<1>2. x \in Hand /\ x.given = Ration /\ x.status = "INITIALIZING"
    BY DEF Hand
<1> HIDE DEF x
<1>3. instance \in [Hands -> Hand] /\ instance[i].given = 0
    BY <1>1 DEF HandsKept
<1>4. instance' \in [Hands -> Hand] /\ \A j \in Hands : instance'[j] = IF j = i THEN x ELSE instance[j]
    BY <1>1, <1>2, <1>3
<1>5. Ration \in Nat /\ Ration # 0 /\ Supply \in Nat
    BY WorkflowAssumption
<1>6. Holders' = Holders \cup {i} /\ i \in Hands \ Holders /\ Holders \subseteq Hands
    BY <1>2, <1>3, <1>4, <1>5 DEF Holders
<1>7. Cardinality(Holders') = Cardinality(Holders) + 1 /\ Cardinality(Holders) \in Nat
    BY <1>6, OneMore, FewHands
<1>8. Counted'
  <2>1. available \in Nat /\ leaked \in Nat /\ available + leaked + Ration * Cardinality(Holders) = Supply
      BY DEF HandsKept, Counted
  <2>2. available' \in Nat
      BY <1>1, <1>5, <2>1
  <2>3. Ration * (Cardinality(Holders) + 1) = Ration * Cardinality(Holders) + Ration
      BY <1>5, <1>7
  <2>4. Ration * Cardinality(Holders) \in Nat
      BY <1>5, <1>7
  <2>5. available' + leaked + Ration * Cardinality(Holders') = Supply
      BY <1>1, <1>5, <1>7, <2>1, <2>3, <2>4
  <2> QED
      BY <1>1, <2>1, <2>2, <2>5 DEF Counted
<1>9. Workflow!Live' = Workflow!Live
    BY <1>1, <1>2, <1>4 DEF Workflow!Live
<1>10. \A j \in Hands : instance'[j].given # 0 <=> instance'[j].status \notin {"none", "gone"}
    BY <1>2, <1>4, <1>5 DEF HandsKept
<1>11. Indexed'
    BY <1>1, <1>9 DEF HandsKept, Indexed
<1> QED
    BY <1>4, <1>8, <1>10, <1>11 DEF HandsKept

(* A new instance is the last of the index.                                *)
LEMMA HandReady ==
    ASSUME HandsKept, NEW i \in Hands, NEW todos \in SUBSET Chores, Workflow!EndCreate(i, todos)
    PROVE  HandsKept'
<1> DEFINE x == [instance[i] EXCEPT !.status = IF todos = {} THEN "READY" ELSE "BUSY", !.tasks = todos]
<1>1. /\ instance[i].status = "INITIALIZING" /\ index' = Append(index, i) /\ healthy' = healthy \cup {i}
      /\ UNCHANGED <<available, leaked>> /\ instance \in [Hands -> Hand]
    BY DEF Workflow!EndCreate, HandsKept
<1>2. instance' = [instance EXCEPT ![i] = x]
    BY <1>1 DEF Workflow!EndCreate
<1>3. x \in Hand /\ x.given = instance[i].given /\ x.status \in {"READY", "BUSY"}
    BY <1>1 DEF Hand
<1> HIDE DEF x
<1>4. instance' \in [Hands -> Hand] /\ \A j \in Hands : instance'[j] = IF j = i THEN x ELSE instance[j]
    BY <1>1, <1>2, <1>3
<1>5. Holders' = Holders
    BY <1>3, <1>4 DEF Holders
<1>6. Workflow!Live' = Workflow!Live \cup {i} /\ i \notin Workflow!Live /\ Workflow!Live \subseteq Hands
    BY <1>1, <1>3, <1>4 DEF Workflow!Live
<1>7. Cardinality(Workflow!Live') = Cardinality(Workflow!Live) + 1
    BY <1>6, OneMore
<1>8. /\ index \in Seq(Hands) /\ healthy = Workflow!Live /\ Len(index) \in Nat
      /\ DOMAIN index = 1 .. Len(index)
      /\ {index[k] : k \in DOMAIN index} = Workflow!Live
      /\ \A j, k \in DOMAIN index : index[j] = index[k] => j = k
      /\ Len(index) = Cardinality(Workflow!Live)
    BY DEF HandsKept, Indexed
<1>9. /\ index' \in Seq(Hands) /\ Len(index') = Len(index) + 1
      /\ DOMAIN index' = DOMAIN index \cup {Len(index) + 1}
      /\ index'[Len(index) + 1] = i /\ \A k \in DOMAIN index : index'[k] = index[k]
    BY <1>1, <1>8
<1>10. \A k \in DOMAIN index : index[k] # i
    BY <1>6, <1>8
<1>11. \A j, k \in DOMAIN index' : index'[j] = index'[k] => j = k
    BY <1>8, <1>9, <1>10
<1>12. {index'[k] : k \in DOMAIN index'} = Workflow!Live'
    BY <1>6, <1>8, <1>9
<1>13. Indexed'
    BY <1>1, <1>6, <1>7, <1>8, <1>9, <1>11, <1>12 DEF Indexed
<1>14. Counted'
    BY <1>1, <1>5 DEF HandsKept, Counted
<1>15. \A j \in Hands : instance'[j].given # 0 <=> instance'[j].status \notin {"none", "gone"}
    BY <1>1, <1>3, <1>4 DEF HandsKept
<1> QED
    BY <1>4, <1>13, <1>14, <1>15 DEF HandsKept

(* What a start that was cancelled held is lost.                           *)
LEMMA HandLost ==
    ASSUME HandsKept, NEW i \in Hands, Workflow!CancelCreate(i)
    PROVE  HandsKept'
<1> DEFINE x == [status |-> "gone", tasks |-> {}, given |-> 0]
<1>1. /\ instance[i].status = "INITIALIZING" /\ instance' = [instance EXCEPT ![i] = x]
      /\ leaked' = leaked + instance[i].given /\ UNCHANGED <<index, healthy, available>>
    BY DEF Workflow!CancelCreate
<1>2. x \in Hand /\ x.given = 0 /\ x.status = "gone"
    BY DEF Hand
<1> HIDE DEF x
<1>3. instance \in [Hands -> Hand] /\ instance[i] \in Hand /\ instance[i].given # 0
    BY <1>1 DEF HandsKept
<1>4. instance[i].given = Ration
    BY <1>3 DEF Hand
<1>5. instance' \in [Hands -> Hand] /\ \A j \in Hands : instance'[j] = IF j = i THEN x ELSE instance[j]
    BY <1>1, <1>2, <1>3
<1>6. Holders' = Holders \ {i} /\ i \in Holders /\ Holders \subseteq Hands
    BY <1>2, <1>3, <1>5 DEF Holders
<1>7. Cardinality(Holders') = Cardinality(Holders) - 1 /\ Cardinality(Holders) \in Nat
      /\ Cardinality(Holders') \in Nat
    BY <1>6, OneLess, FewHands
<1>8. Counted'
  <2>1. available \in Nat /\ leaked \in Nat /\ available + leaked + Ration * Cardinality(Holders) = Supply
        /\ Ration \in Nat
      BY WorkflowAssumption DEF HandsKept, Counted
  <2>2. Ration * (Cardinality(Holders') + 1) = Ration * Cardinality(Holders') + Ration
        /\ Ration * Cardinality(Holders') \in Nat
      BY <1>7, <2>1
  <2>3. Cardinality(Holders) = Cardinality(Holders') + 1
      BY <1>7
  <2>4. leaked' \in Nat /\ available + leaked' + Ration * Cardinality(Holders') = Supply
      BY <1>1, <1>4, <2>1, <2>2, <2>3
  <2> QED
      BY <1>1, <2>1, <2>4 DEF Counted
<1>9. Workflow!Live' = Workflow!Live
    BY <1>1, <1>2, <1>5 DEF Workflow!Live
<1>10. Indexed'
    BY <1>1, <1>9 DEF HandsKept, Indexed
<1>11. \A j \in Hands : instance'[j].given # 0 <=> instance'[j].status \notin {"none", "gone"}
    BY <1>2, <1>5 DEF HandsKept
<1> QED
    BY <1>5, <1>8, <1>10, <1>11 DEF HandsKept

(* What is taken from a list of different entries.                         *)
Different(s) == \A i, j \in DOMAIN s : s[i] = s[j] => i = j

LEMMA WithoutOne ==
    ASSUME NEW s \in Seq(Nat), NEW r \in Seq(Nat), NEW e, NEW k \in 1 .. Len(s),
           Without(r, s, e, k), Different(s)
    PROVE  /\ {r[i] : i \in DOMAIN r} = {s[i] : i \in DOMAIN s} \ {e}
           /\ Different(r)
<1>1. /\ Len(s) \in Nat /\ DOMAIN s = 1 .. Len(s) /\ DOMAIN r = 1 .. Len(s) - 1
      /\ DOMAIN s \subseteq Nat /\ DOMAIN r \subseteq Nat /\ k \in Nat /\ k \in DOMAIN s
    BY DEF Without
<1>2. ASSUME NEW i \in DOMAIN r
      PROVE  \E m \in DOMAIN s : m # k /\ r[i] = s[m] /\ m = IF i < k THEN i ELSE i + 1
  <2>1. CASE i < k
    <3>1. i \in DOMAIN s /\ i # k
        BY <1>1, <2>1
    <3> QED
        BY <1>1, <2>1, <3>1 DEF Without
  <2>2. CASE ~ (i < k)
    <3>1. i + 1 \in DOMAIN s /\ i + 1 # k
        BY <1>1, <2>2
    <3> QED
        BY <1>1, <2>2, <3>1 DEF Without
  <2> QED
      BY <2>1, <2>2
<1>3. ASSUME NEW m \in DOMAIN s, m # k PROVE \E i \in DOMAIN r : r[i] = s[m]
  <2>1. CASE m < k
    <3>1. m \in DOMAIN r
        BY <1>1, <2>1
    <3> QED
        BY <1>1, <2>1, <3>1 DEF Without
  <2>2. CASE m > k
    <3>1. m - 1 \in DOMAIN r /\ ~ (m - 1 < k) /\ (m - 1) + 1 = m
        BY <1>1, <2>2
    <3> QED
        BY <1>1, <3>1 DEF Without
  <2> QED
      BY <1>1, <1>3, <2>1, <2>2
<1>4. \A m \in DOMAIN s : s[m] # e <=> m # k
    BY <1>1 DEF Without, Different
<1>5. {r[i] : i \in DOMAIN r} = {s[i] : i \in DOMAIN s} \ {e}
    BY <1>2, <1>3, <1>4
<1>6. ASSUME NEW i \in DOMAIN r, NEW j \in DOMAIN r, r[i] = r[j] PROVE i = j
  <2>1. PICK m \in DOMAIN s : r[i] = s[m] /\ m = IF i < k THEN i ELSE i + 1
      BY <1>2
  <2>2. PICK n \in DOMAIN s : r[j] = s[n] /\ n = IF j < k THEN j ELSE j + 1
      BY <1>2
  <2>3. m = n
      BY <1>6, <2>1, <2>2 DEF Different
  <2>4. i \in Nat /\ j \in Nat /\ k \in Nat
      BY <1>1
  <2> QED
      BY <2>1, <2>2, <2>3, <2>4
<1> QED
    BY <1>5, <1>6 DEF Different

LEMMA HandDestroyed ==
    ASSUME HandsKept, NEW i \in Hands, Workflow!Destroy(i)
    PROVE  HandsKept'
<1> DEFINE x == [status |-> "gone", tasks |-> {}, given |-> 0]
<1>1. /\ i \in Workflow!Live /\ instance' = [instance EXCEPT ![i] = x]
      /\ available' = available + instance[i].given /\ healthy' = healthy \ {i}
      /\ index' = Workflow!RemoveFirst(index, i) /\ UNCHANGED leaked
    BY DEF Workflow!Destroy, Workflow!Release
<1>2. x \in Hand /\ x.given = 0 /\ x.status = "gone"
    BY DEF Hand
<1> HIDE DEF x
<1>3. instance \in [Hands -> Hand] /\ instance[i] \in Hand /\ instance[i].given # 0
    BY <1>1 DEF HandsKept, Workflow!Live
<1>4. instance[i].given = Ration
    BY <1>3 DEF Hand
<1>5. instance' \in [Hands -> Hand] /\ \A j \in Hands : instance'[j] = IF j = i THEN x ELSE instance[j]
    BY <1>1, <1>2, <1>3
<1>6. Holders' = Holders \ {i} /\ i \in Holders /\ Holders \subseteq Hands
    BY <1>2, <1>3, <1>5 DEF Holders
<1>7. Cardinality(Holders') = Cardinality(Holders) - 1 /\ Cardinality(Holders) \in Nat
      /\ Cardinality(Holders') \in Nat
    BY <1>6, OneLess, FewHands
<1>8. Counted'
  <2>1. available \in Nat /\ leaked \in Nat /\ available + leaked + Ration * Cardinality(Holders) = Supply
        /\ Ration \in Nat
      BY WorkflowAssumption DEF HandsKept, Counted
  <2>2. Ration * (Cardinality(Holders') + 1) = Ration * Cardinality(Holders') + Ration
        /\ Ration * Cardinality(Holders') \in Nat
      BY <1>7, <2>1
  <2>3. Cardinality(Holders) = Cardinality(Holders') + 1
      BY <1>7
  <2>4. available' \in Nat /\ available' + leaked + Ration * Cardinality(Holders') = Supply
      BY <1>1, <1>4, <2>1, <2>2, <2>3
  <2> QED
      BY <1>1, <2>1, <2>4 DEF Counted
<1>9. Workflow!Live' = Workflow!Live \ {i} /\ Workflow!Live \subseteq Hands
    BY <1>2, <1>5 DEF Workflow!Live
<1>10. Cardinality(Workflow!Live') = Cardinality(Workflow!Live) - 1
    BY <1>1, <1>9, OneLess
<1>11. /\ index \in Seq(Hands) /\ healthy = Workflow!Live /\ Len(index) \in Nat
       /\ DOMAIN index = 1 .. Len(index)
       /\ {index[k] : k \in DOMAIN index} = Workflow!Live
       /\ \A j, k \in DOMAIN index : index[j] = index[k] => j = k
       /\ Len(index) = Cardinality(Workflow!Live)
    BY DEF HandsKept, Indexed
<1>12. index \in Seq(Nat)
    BY <1>11, HandLists
<1>13. PICK k \in 1 .. Len(index) : index' \in Seq(Nat) /\ Without(index', index, i, k)
  <2>1. \E j \in 1 .. Len(index) : index[j] = i
      BY <1>1, <1>11
  <2> QED
      BY <1>1, <1>12, <2>1, FirstTaken, SameRemoval
<1>14. /\ {index'[j] : j \in DOMAIN index'} = Workflow!Live \ {i}
       /\ Different(index') /\ Len(index') = Len(index) - 1
  <2>1. Different(index)
      BY <1>11 DEF Different
  <2>2. /\ {index'[j] : j \in DOMAIN index'} = {index[j] : j \in DOMAIN index} \ {i}
        /\ Different(index')
      BY <1>12, <1>13, <2>1, WithoutOne
  <2>3. Len(index') = Len(index) - 1
      BY <1>13 DEF Without
  <2> QED
      BY <1>11, <2>2, <2>3
<1>15. index' \in Seq(Hands)
  <2>1. \A j \in DOMAIN index' : index'[j] \in Hands
      BY <1>9, <1>14
  <2> QED
      BY <1>13, <2>1
<1>16. Indexed'
    BY <1>1, <1>9, <1>10, <1>11, <1>14, <1>15 DEF Indexed, Different
<1>17. \A j \in Hands : instance'[j].given # 0 <=> instance'[j].status \notin {"none", "gone"}
    BY <1>2, <1>5 DEF HandsKept
<1> QED
    BY <1>5, <1>8, <1>16, <1>17 DEF HandsKept

LEMMA ChoreGiven ==
    ASSUME HandsKept, NEW i \in Hands, NEW t \in Chores, Workflow!AssignTask(i, t)
    PROVE  HandsKept'
<1>1. UNCHANGED <<index, healthy, available, leaked>> /\ instance \in [Hands -> Hand]
    BY DEF Workflow!AssignTask, HandsKept
<1>2. CASE i \in Workflow!Live /\ Workflow!IsAvailable(i)
  <2> DEFINE x == [instance[i] EXCEPT !.tasks = instance[i].tasks \cup {t}, !.status = "BUSY"]
  <2>1. instance' = [instance EXCEPT ![i] = x]
      BY <1>1, <1>2 DEF Workflow!AssignTask
  <2>2. x \in Hand /\ x.given = instance[i].given /\ x.status = "BUSY"
      BY <1>1 DEF Hand
  <2>3. instance[i].given # 0 /\ Alive(instance[i])
      BY <1>2 DEF HandsKept, Workflow!Live, Alive
  <2> HIDE DEF x
  <2> QED
      BY <1>1, <2>1, <2>2, <2>3, SameBooks DEF Alive
<1>3. CASE ~ (i \in Workflow!Live /\ Workflow!IsAvailable(i))
  <2>1. instance' = instance
      BY <1>3 DEF Workflow!AssignTask
  <2> QED
      BY <1>1, <2>1 DEF HandsKept, Counted, Holders, Indexed, Workflow!Live
<1> QED
    BY <1>2, <1>3

LEMMA ChoreDone ==
    ASSUME HandsKept, NEW i \in Hands, NEW t, Workflow!CompleteTask(i, t)
    PROVE  HandsKept'
<1>1. UNCHANGED <<index, healthy, available, leaked>> /\ instance \in [Hands -> Hand]
    BY DEF Workflow!CompleteTask, HandsKept
<1>2. CASE i \in Workflow!Live
  <2> DEFINE fresh == IF instance[i].tasks \ {t} = {} THEN "READY" ELSE "IDLE"
             x == [instance[i] EXCEPT !.tasks = instance[i].tasks \ {t}, !.status = fresh]
  <2>1. instance' = [instance EXCEPT ![i] = x]
      BY <1>1, <1>2 DEF Workflow!CompleteTask
  <2>2. x \in Hand /\ x.given = instance[i].given /\ x.status \in {"READY", "IDLE"}
      BY <1>1 DEF Hand
  <2>3. instance[i].given # 0 /\ Alive(instance[i])
      BY <1>2 DEF HandsKept, Workflow!Live, Alive
  <2> HIDE DEF x
  <2> QED
      BY <1>1, <2>1, <2>2, <2>3, SameBooks DEF Alive
<1>3. CASE i \notin Workflow!Live
  <2>1. instance' = instance
      BY <1>3 DEF Workflow!CompleteTask
  <2> QED
      BY <1>1, <2>1 DEF HandsKept, Counted, Holders, Indexed, Workflow!Live
<1> QED
    BY <1>2, <1>3

LEMMA HandMarked ==
    ASSUME HandsKept, NEW i \in Hands, Workflow!SetStatus(i, "ERROR")
    PROVE  HandsKept'
<1> DEFINE x == [instance[i] EXCEPT !.status = "ERROR"]
<1>1. /\ UNCHANGED <<index, healthy, available, leaked>> /\ instance \in [Hands -> Hand]
      /\ i \in Workflow!Live
    BY DEF Workflow!SetStatus, HandsKept
<1>2. instance' = [instance EXCEPT ![i] = x]
    BY <1>1 DEF Workflow!SetStatus
<1>3. x \in Hand /\ x.given = instance[i].given /\ x.status = "ERROR"
    BY <1>1 DEF Hand
<1>4. instance[i].given # 0 /\ Alive(instance[i])
    BY <1>1 DEF HandsKept, Workflow!Live, Alive
<1> HIDE DEF x
<1> QED
    BY <1>1, <1>2, <1>3, <1>4, SameBooks DEF Alive

LEMMA HandsLeft ==
    ASSUME HandsKept, UNCHANGED Workflow!instanceVars
    PROVE  HandsKept'
    BY DEF Workflow!instanceVars, HandsKept, Counted, Holders, Indexed, Workflow!Live


-----------------------------------------------------------------------------
(* Workflows: the stages *)

LEMMA StepsInit == MCInit => StepsKept
<1> SUFFICES ASSUME MCInit PROVE StepsKept
    OBVIOUS
<1>1. /\ status = "RUNNING" /\ current = {FirstStep} /\ completed = {}
      /\ stage = [s \in Steps |-> IF s = FirstStep THEN Workflow!Waiting ELSE Workflow!NotYet]
      /\ call = [f \in Finishers |-> Workflow!Idle] /\ starts = [s \in Steps |-> 0]
    BY DEF MCInit, Workflow!Init
<1>2. /\ Workflow!Waiting \in StageRecord /\ Workflow!NotYet \in StageRecord
      /\ Workflow!Waiting.status = "WAITING" /\ Workflow!NotYet.status = "none"
    BY DEF Workflow!Waiting, Workflow!NotYet, StageRecord
<1>3. Workflow!Idle \in Finish /\ Workflow!Idle.starting = 0
  <2>1. <<>> \in Seq(Steps)
      OBVIOUS
  <2> QED
      BY <2>1 DEF Workflow!Idle, Finish
<1>4. \A f \in Finishers : call[f] = Workflow!Idle
    BY <1>1
<1>5. /\ stage \in [Steps -> StageRecord]
      /\ \A s \in Steps : stage[s].status # "COMPLETED"
    BY <1>1, <1>2
<1>6. /\ call \in [Finishers -> Finish]
      /\ \A f \in Finishers : call[f].starting = 0
    BY <1>1, <1>3, <1>4
<1>7. /\ starts \in [Steps -> Nat]
      /\ \A s \in Steps : starts[s] = 0
    BY <1>1
<1>8. Workflow!InputsReady
    BY <1>7 DEF Workflow!InputsReady
<1>9. current \subseteq Steps
    BY <1>1, WorkflowAssumption
<1> QED
    BY <1>1, <1>5, <1>6, <1>7, <1>8, <1>9 DEF StepsKept, StagesKept, CallsKept

LEMMA CallMoves ==
    ASSUME CallsKept(call), NEW f \in Finishers, NEW x \in Finish, x.starting # 0 => x.rest # <<>>
    PROVE  CallsKept([call EXCEPT ![f] = x])
<1> DEFINE calls == [call EXCEPT ![f] = x]
<1>1. calls \in [Finishers -> Finish] /\ \A g \in Finishers : calls[g] = IF g = f THEN x ELSE call[g]
    BY DEF CallsKept
<1>2. CallsKept(calls)
    BY <1>1 DEF CallsKept
<1> QED
    BY <1>2

LEMMA StageMoves ==
    ASSUME NEW done, StagesKept(stage, completed), completed \subseteq done, NEW s \in Steps,
           NEW x \in StageRecord, x.status = "COMPLETED" => s \in done
    PROVE  StagesKept([stage EXCEPT ![s] = x], done)
<1> DEFINE stages == [stage EXCEPT ![s] = x]
<1>1. stages \in [Steps -> StageRecord] /\ \A t \in Steps : stages[t] = IF t = s THEN x ELSE stage[t]
    BY DEF StagesKept
<1> HIDE DEF stages
<1>2. StagesKept(stages, done)
    BY <1>1 DEF StagesKept
<1> QED
    BY <1>2 DEF stages

LEMMA OldestLives ==
    ASSUME HandsKept, Workflow!Candidates # {}
    PROVE  Workflow!Oldest \in Hands
<1> DEFINE C == Workflow!Candidates
<1>1. index \in Seq(Hands) /\ DOMAIN index \subseteq Nat /\ C \subseteq DOMAIN index
    BY DEF HandsKept, Indexed, Workflow!Candidates
<1>2. PICK x \in C : \A y \in C : x <= y
    BY <1>1, SmallestOf
<1>3. Workflow!Min(C) \in C
    BY <1>2 DEF Workflow!Min
<1> QED
    BY <1>1, <1>3 DEF Workflow!Oldest

(* A call is completed with success or not; the instance of the stage is   *)
(* told.                                                                   *)
LEMMA StageCompleted ==
    ASSUME HandsKept, StepsKept, NEW f \in Finishers, NEW s \in Steps, NEW success \in BOOLEAN,
           Workflow!CompleteStage(f, s, success)
    PROVE  HandsKept' /\ StepsKept'
<1>1. stage[s] \in StageRecord
    BY DEF StepsKept, StagesKept
<1>2. HandsKept'
  <2>1. CASE stage[s].at # NoHand
    <3>1. stage[s].at \in Hands
        BY <1>1, <2>1 DEF StageRecord
    <3>2. Workflow!CompleteTask(stage[s].at, s)
        BY <2>1 DEF Workflow!CompleteStage
    <3> QED
        BY <3>1, <3>2, ChoreDone
  <2>2. CASE stage[s].at = NoHand
      BY <2>2, HandsLeft DEF Workflow!CompleteStage
  <2> QED
      BY <2>1, <2>2
<1> DEFINE x == [stage[s] EXCEPT !.status = IF success THEN "COMPLETED" ELSE "FAILED"]
<1>3. x \in StageRecord /\ (x.status = "COMPLETED" => success)
    BY <1>1 DEF StageRecord
<1>4. stage' = [stage EXCEPT ![s] = x]
    BY DEF Workflow!CompleteStage, StepsKept, StagesKept
<1> HIDE DEF x
<1>5. current' = current \ {s} /\ UNCHANGED starts
    BY DEF Workflow!CompleteStage
<1>6. CASE success
  <2>1. /\ call' = [call EXCEPT ![f] = [rest |-> StepsAfter[s], starting |-> 0, on |-> TRUE]]
        /\ completed' = completed \cup {s} /\ UNCHANGED status
      BY <1>6 DEF Workflow!CompleteStage
  <2> DEFINE y == [rest |-> StepsAfter[s], starting |-> 0, on |-> TRUE]
  <2>2. y \in Finish /\ y.starting = 0
      BY WorkflowAssumption DEF Finish
  <2>3. CallsKept(call')
    <3> HIDE DEF y
    <3> QED
        BY <2>1, <2>2, CallMoves DEF StepsKept, y
  <2>4. StagesKept(stage', completed')
      BY <1>3, <1>4, <2>1, StageMoves DEF StepsKept
  <2>5. Workflow!InputsReady'
      BY <1>5, <2>1 DEF StepsKept, Workflow!InputsReady
  <2> QED
      BY <1>2, <1>5, <2>1, <2>3, <2>4, <2>5 DEF StepsKept
<1>7. CASE ~ success
  <2>1. status' = "FAILED" /\ UNCHANGED <<call, completed>>
      BY <1>7 DEF Workflow!CompleteStage
  <2>2. StagesKept(stage', completed')
      BY <1>3, <1>4, <1>7, <2>1, StageMoves DEF StepsKept
  <2>3. Workflow!InputsReady'
      BY <1>5, <2>1 DEF StepsKept, Workflow!InputsReady
  <2> QED
      BY <1>2, <1>5, <2>1, <2>2, <2>3 DEF StepsKept
<1> QED
    BY <1>6, <1>7

(* The sources of a stage that is started are completed.                   *)
LEMMA SourcesDone ==
    ASSUME StepsKept, NEW s \in Steps, Workflow!DependenciesComplete(s)
    PROVE  InputsOf[s] \subseteq completed
<1>1. InputsOf[s] \subseteq Steps
    BY WorkflowAssumption
<1> QED
    BY <1>1 DEF StepsKept, StagesKept, Workflow!DependenciesComplete

LEMMA CallIs ==
    ASSUME StepsKept, NEW f \in Finishers
    PROVE  /\ call[f] \in Finish
           /\ call[f].starting # 0 => call[f].starting \in Hands /\ call[f].rest # <<>>
           /\ call[f].rest # <<>> =>
                 Head(call[f].rest) \in Steps /\ Tail(call[f].rest) \in Seq(Steps)
<1>1. call[f] \in Finish /\ (call[f].starting # 0 => call[f].rest # <<>>)
    BY DEF StepsKept, CallsKept
<1>2. call[f].rest \in Seq(Steps) /\ call[f].starting \in Hands \cup {0}
    BY <1>1 DEF Finish
<1>3. \A r \in Seq(Steps) : r # <<>> => Head(r) \in Steps /\ Tail(r) \in Seq(Steps)
    OBVIOUS
<1> QED
    BY <1>1, <1>2, <1>3

LEMMA CallIdle ==
    ASSUME StepsKept, NEW f \in Finishers, call' = [call EXCEPT ![f] = Workflow!Idle]
    PROVE  CallsKept(call')
<1>1. Workflow!Idle \in Finish /\ Workflow!Idle.starting = 0
  <2>1. <<>> \in Seq(Steps)
      OBVIOUS
  <2> QED
      BY <2>1 DEF Workflow!Idle, Finish
<1> QED
    BY <1>1, CallMoves DEF StepsKept

(* The call goes on to the stage after the next.                           *)
LEMMA CallAdvances ==
    ASSUME StepsKept, NEW f \in Finishers, call[f].rest # <<>>,
           \/ call[f].starting = 0 /\ call' = [call EXCEPT ![f].rest = Tail(@)]
           \/ call' = [call EXCEPT ![f].rest = Tail(@), ![f].starting = 0]
    PROVE  CallsKept(call')
<1>1. call[f] \in Finish /\ Tail(call[f].rest) \in Seq(Steps)
    BY CallIs
<1>2. CASE call[f].starting = 0 /\ call' = [call EXCEPT ![f].rest = Tail(@)]
  <2> DEFINE x == [call[f] EXCEPT !.rest = Tail(call[f].rest)]
  <2>1. x \in Finish /\ x.starting = 0
      BY <1>1, <1>2 DEF Finish
  <2>2. call' = [call EXCEPT ![f] = x]
      BY <1>2 DEF StepsKept, CallsKept
  <2> HIDE DEF x
  <2> QED
      BY <2>1, <2>2, CallMoves DEF StepsKept
<1>3. CASE call' = [call EXCEPT ![f].rest = Tail(@), ![f].starting = 0]
  <2> DEFINE x == [call[f] EXCEPT !.rest = Tail(call[f].rest), !.starting = 0]
  <2>1. x \in Finish /\ x.starting = 0
      BY <1>1 DEF Finish
  <2>2. call' = [call EXCEPT ![f] = x]
      BY <1>3 DEF StepsKept, CallsKept
  <2> HIDE DEF x
  <2> QED
      BY <2>1, <2>2, CallMoves DEF StepsKept
<1> QED
    BY <1>2, <1>3

LEMMA StageStarted ==
    ASSUME HandsKept, StepsKept, NEW f \in Finishers, Workflow!NextStage(f)
    PROVE  HandsKept' /\ StepsKept'
<1> DEFINE s == Head(call[f].rest)
<1>1. /\ call[f].on /\ call[f].rest # <<>> /\ call[f].starting = 0
      /\ UNCHANGED <<status, current, completed>>
    BY DEF Workflow!NextStage
<1>2. s \in Steps
    BY <1>1, CallIs
<1>3. CASE ~ Workflow!DependenciesComplete(s)
  <2>1. call' = [call EXCEPT ![f].rest = Tail(@)] /\ UNCHANGED <<Workflow!instanceVars, stage, starts>>
      BY <1>3 DEF Workflow!NextStage
  <2>3. CallsKept(call')
      BY <1>1, <2>1, CallAdvances
  <2>4. HandsKept'
      BY <2>1, HandsLeft
  <2> QED
      BY <1>1, <2>1, <2>3, <2>4 DEF StepsKept, Workflow!InputsReady
<1>4. CASE Workflow!DependenciesComplete(s)
  <2>1. starts' = [starts EXCEPT ![s] = @ + 1]
      BY <1>4 DEF Workflow!NextStage
  <2>2. starts' \in [Steps -> Nat] /\ Workflow!InputsReady'
    <3>1. InputsOf[s] \subseteq completed
        BY <1>2, <1>4, SourcesDone
    <3>2. /\ starts' \in [Steps -> Nat]
          /\ \A t \in Steps : t # s => starts'[t] = starts[t]
        BY <1>2, <2>1 DEF StepsKept
    <3> HIDE DEF s
    <3> QED
        BY <1>1, <3>1, <3>2 DEF StepsKept, Workflow!InputsReady
  <2>3. CASE Workflow!Candidates # {}
    <3>1. /\ Workflow!AssignTask(Workflow!Oldest, Workflow!Task(s))
          /\ stage' = [stage EXCEPT ![s] = [status |-> "RUNNING", at |-> Workflow!Oldest]]
          /\ call' = [call EXCEPT ![f].rest = Tail(@)]
        BY <1>4, <2>3 DEF Workflow!NextStage
    <3>2. Workflow!Oldest \in Hands /\ Workflow!Task(s) \in Chores
      <4>1. starts[s] + 1 \in Nat
          BY <1>2 DEF StepsKept
      <4> QED
          BY <1>2, <2>3, <4>1, OldestLives DEF Workflow!Task, Chores
    <3>3. HandsKept'
        BY <3>1, <3>2, ChoreGiven
    <3> DEFINE x == [status |-> "RUNNING", at |-> Workflow!Oldest]
    <3>4. x \in StageRecord /\ x.status # "COMPLETED"
        BY <3>2 DEF StageRecord
    <3>5. StagesKept(stage', completed')
      <4>1. stage' = [stage EXCEPT ![s] = x]
          BY <3>1
      <4> HIDE DEF x
      <4> QED
          BY <1>1, <1>2, <3>4, <4>1, StageMoves DEF StepsKept
    <3>7. CallsKept(call')
        BY <1>1, <3>1, CallAdvances
    <3> QED
        BY <1>1, <2>2, <3>3, <3>5, <3>7 DEF StepsKept
  <2>4. CASE ~ Workflow!Candidates # {}
    <3> DEFINE x == [stage[s] EXCEPT !.status = "RUNNING"]
    <3>1. x \in StageRecord /\ x.status # "COMPLETED"
      <4>1. stage[s] \in StageRecord
          BY <1>2 DEF StepsKept, StagesKept
      <4> QED
          BY <4>1 DEF StageRecord
    <3>2. stage' = [stage EXCEPT ![s] = x]
        BY <1>4, <2>4 DEF Workflow!NextStage, StepsKept, StagesKept
    <3>3. StagesKept(stage', completed')
      <4> HIDE DEF x
      <4> QED
          BY <1>1, <1>2, <3>1, <3>2, StageMoves DEF StepsKept
    <3>4. HandsKept' /\ CallsKept(call')
      <4>1. CASE \E i \in Hands : /\ Workflow!BeginCreate(i)
                                  /\ call' = [call EXCEPT ![f].starting = i]
        <5>1. PICK i \in Hands : /\ Workflow!BeginCreate(i)
                                 /\ call' = [call EXCEPT ![f].starting = i]
            BY <4>1
        <5> DEFINE y == [call[f] EXCEPT !.starting = i]
        <5>2. y \in Finish /\ y.rest # <<>>
          <6>1. call[f] \in Finish
              BY CallIs
          <6> QED
              BY <1>1, <6>1 DEF Finish
        <5>3. CallsKept(call')
          <6>1. call' = [call EXCEPT ![f] = y]
              BY <5>1 DEF StepsKept, CallsKept
          <6> HIDE DEF y
          <6> QED
              BY <5>2, <6>1, CallMoves DEF StepsKept
        <5> QED
            BY <5>1, <5>3, HandBegun
      <4>2. CASE call' = [call EXCEPT ![f] = Workflow!Idle] /\ UNCHANGED Workflow!instanceVars
          BY <4>2, CallIdle, HandsLeft
      <4> QED
          BY <1>4, <2>4, <4>1, <4>2 DEF Workflow!NextStage
    <3> QED
        BY <1>1, <2>2, <3>3, <3>4 DEF StepsKept
  <2> QED
      BY <2>3, <2>4
<1> QED
    BY <1>3, <1>4

LEMMA StartEnded ==
    ASSUME HandsKept, StepsKept, NEW f \in Finishers, Workflow!InstanceStarted(f)
    PROVE  HandsKept' /\ StepsKept'
<1> DEFINE s == Head(call[f].rest)
           i == call[f].starting
           x == [stage[s] EXCEPT !.at = i]
<1>1. /\ i # 0 /\ Workflow!EndCreate(i, {<<s, starts[s]>>})
      /\ stage' = [stage EXCEPT ![s].at = i]
      /\ call' = [call EXCEPT ![f].rest = Tail(@), ![f].starting = 0]
      /\ UNCHANGED <<status, current, starts, completed>>
    BY DEF Workflow!InstanceStarted
<1>2. i \in Hands /\ call[f].rest # <<>> /\ s \in Steps
    BY <1>1, CallIs
<1>3. {<<s, starts[s]>>} \in SUBSET Chores
    BY <1>2 DEF StepsKept, Chores
<1>4. HandsKept'
    BY <1>1, <1>2, <1>3, HandReady
<1>5. x \in StageRecord /\ (x.status = "COMPLETED" => s \in completed)
    BY <1>2 DEF StepsKept, StagesKept, StageRecord
<1>6. stage' = [stage EXCEPT ![s] = x]
    BY <1>1 DEF StepsKept, StagesKept
<1>7. StagesKept(stage', completed')
  <2>1. completed' = completed /\ StagesKept(stage, completed)
      BY <1>1 DEF StepsKept
  <2> HIDE DEF x, s, i
  <2> QED
      BY <1>2, <1>5, <1>6, <2>1, StageMoves
<1>9. CallsKept(call')
    BY <1>1, <1>2, CallAdvances
<1> QED
    BY <1>1, <1>4, <1>7, <1>9 DEF StepsKept, Workflow!InputsReady

LEMMA StartCancelled ==
    ASSUME HandsKept, StepsKept, NEW f \in Finishers, Workflow!CallCancelled(f)
    PROVE  HandsKept' /\ StepsKept'
<1>1. /\ call[f].starting # 0 /\ Workflow!CancelCreate(call[f].starting)
      /\ call' = [call EXCEPT ![f] = Workflow!Idle]
      /\ UNCHANGED <<status, stage, current, starts, completed>>
    BY DEF Workflow!CallCancelled
<1>2. call[f].starting \in Hands
    BY <1>1, CallIs
<1>3. HandsKept'
    BY <1>1, <1>2, HandLost
<1>4. CallsKept(call')
    BY <1>1, CallIdle
<1> QED
    BY <1>1, <1>3, <1>4 DEF StepsKept, Workflow!InputsReady

LEMMA StageReturned ==
    ASSUME HandsKept, StepsKept, NEW f \in Finishers, Workflow!CallReturns(f)
    PROVE  HandsKept' /\ StepsKept'
<1>1. /\ status' \in {"COMPLETED", status} /\ call' = [call EXCEPT ![f] = Workflow!Idle]
      /\ UNCHANGED <<Workflow!instanceVars, stage, current, starts, completed>>
    BY DEF Workflow!CallReturns
<1>2. CallsKept(call')
    BY <1>1, CallIdle
<1>3. HandsKept'
    BY <1>1, HandsLeft
<1> QED
    BY <1>1, <1>2, <1>3 DEF StepsKept, Workflow!InputsReady

LEMMA StepsLeft ==
    ASSUME StepsKept, UNCHANGED Workflow!orchestratorVars
    PROVE  StepsKept'
    BY DEF StepsKept, StagesKept, CallsKept, Workflow!orchestratorVars, Workflow!InputsReady

LEMMA WorkflowStep ==
    ASSUME HandsKept, StepsKept, Workflow!Next
    PROVE  HandsKept' /\ StepsKept'
<1>1. CASE \E f \in Finishers :
              \/ \E s \in Steps, success \in BOOLEAN : Workflow!CompleteStage(f, s, success)
              \/ Workflow!NextStage(f) \/ Workflow!InstanceStarted(f)
              \/ Workflow!CallCancelled(f) \/ Workflow!CallReturns(f)
    BY <1>1, StageCompleted, StageStarted, StartEnded, StartCancelled, StageReturned
<1>2. CASE Workflow!CancelExecution
  <2>1. HandsKept'
      BY <1>2, HandsLeft DEF Workflow!CancelExecution
  <2> QED
      BY <1>2, <2>1 DEF Workflow!CancelExecution, StepsKept, StagesKept, CallsKept, Workflow!InputsReady
<1>3. CASE \E i \in Hands : Workflow!DestroyInstance(i) \/ Workflow!UpdateStatus(i)
    BY <1>3, HandDestroyed, HandMarked, StepsLeft DEF Workflow!DestroyInstance, Workflow!UpdateStatus
<1> QED
    BY <1>1, <1>2, <1>3 DEF Workflow!Next

LEMMA WorkflowInit == MCInit => WorkflowInv
    BY HandsInit, StepsInit DEF WorkflowInv

LEMMA WorkflowInvariance == WorkflowInv /\ [MCNext]_allVars => WorkflowInv'
<1> SUFFICES ASSUME WorkflowInv, [MCNext]_allVars, part' = "workflow" PROVE HandsKept' /\ StepsKept'
    BY DEF WorkflowInv
<1>1. CASE MCNext
  <2>1. part = "workflow" /\ HandsKept /\ StepsKept
      BY <1>1 DEF MCNext, WorkflowInv
  <2>2. Workflow!Next
      BY <1>1, <2>1 DEF MCNext, Work, Govern
  <2> QED
      BY <2>1, <2>2, WorkflowStep
<1>2. CASE UNCHANGED allVars
  <2>1. part = "workflow" /\ UNCHANGED workflowVars
      BY <1>2 DEF allVars, agentVars
  <2>2. HandsKept /\ StepsKept
      BY <2>1 DEF WorkflowInv
  <2>3. UNCHANGED Workflow!instanceVars /\ UNCHANGED Workflow!orchestratorVars
      BY <2>1 DEF workflowVars, Workflow!instanceVars, Workflow!orchestratorVars
  <2> QED
      BY <2>2, <2>3, HandsLeft, StepsLeft
<1> QED
    BY <1>1, <1>2

(* What is claimed of the instances and the stages.                        *)
LEMMA WorkflowClaims ==
    ASSUME HandsKept, StepsKept
    PROVE  Workflow!TypeOK /\ Workflow!InputsReady /\ Workflow!ResourcesAccounted
<1>1. /\ available \in Nat /\ leaked \in Nat
      /\ available + leaked + Ration * Cardinality(Holders) = Supply
    BY DEF HandsKept, Counted
<1>2. Cardinality(Holders) \in Nat /\ Ration \in Nat /\ Supply \in Nat
    BY FewHands, WorkflowAssumption DEF Holders
<1>3. Ration * Cardinality(Holders) \in Nat
    BY <1>2
<1>4. available \in 0 .. Supply
    BY <1>1, <1>2, <1>3
<1>5. Workflow!TypeOK
    BY <1>4 DEF Workflow!TypeOK, StepsKept, StagesKept, StageRecord
<1>6. \A i \in Hands : instance[i].given \in {0, Ration}
    BY DEF HandsKept, Hand
<1>7. available + leaked + Ration * Workflow!Cardinality({i \in Hands : instance[i].given # 0}) = Supply
    BY <1>1, WorkflowCardinality DEF Holders
<1>8. Workflow!ToSet(index) = Workflow!Live
    BY DEF HandsKept, Indexed, Workflow!ToSet
<1>9. healthy = Workflow!Live /\ Len(index) = Workflow!Cardinality(Workflow!Live)
    BY WorkflowCardinality DEF HandsKept, Indexed
<1>10. Workflow!ResourcesAccounted
    BY <1>6, <1>7, <1>8, <1>9 DEF Workflow!ResourcesAccounted
<1> QED
    BY <1>5, <1>10 DEF StepsKept
-----------------------------------------------------------------------------
(* Recovery *)

(* A call that sleeps has an attempt left.                                 *)
Attempts == {r \in [op : Acts, attempt : 1 .. MaxTries, asleep : BOOLEAN] :
                 r.asleep => r.attempt < MaxTries}
Everybody == Askers \cup {Conductor}

(* Of an operation that nobody cleared and that never ran twice at a time  *)
(* one call is under way and no answer known, or all answers are the one   *)
(* in the cache.                                                           *)
AnsweredOnce(o) ==
    /\ \A x, y \in Everybody : (/\ asking[x] # NoAgent /\ asking[x].op = o
                                /\ asking[y] # NoAgent /\ asking[y].op = o) => x = y
    /\ cache[o] = NoAgent => answers[o] = {}
    /\ cache[o] # NoAgent => /\ answers[o] = {cache[o]}
                             /\ \A x \in Everybody : asking[x] # NoAgent => asking[x].op # o

Answering ==
    /\ asking \in [Everybody -> Attempts \cup {NoAgent}]
    /\ cache \in [Acts -> Nat \cup {NoAgent}] /\ DOMAIN answers = Acts /\ made \in Nat
    /\ \A o \in Acts \ shared : AnsweredOnce(o)

(* What is said of one checkpoint.                                         *)
LineageOf(ctx) ==
    /\ \A s \in Acts : ctx.outputs[s] # NoAgent => \A f \in Yields[s] : ctx.sources[f] # NoAgent
    /\ \A f \in Findings : ctx.sources[f] # NoAgent =>
          ctx.outputs[ctx.sources[f]] # NoAgent /\ f \in Yields[ctx.sources[f]]
FiledIn(ctx) == \A s \in Acts : ctx.outputs[s] \in {NoAgent, s}
Covers(x, y) == \A s \in Acts : y.outputs[s] # NoAgent => x.outputs[s] # NoAgent

Aligned ==
    aligned => /\ transfer # NoAgent => transfer.ctx.stage = transfer.next /\ ~ transfer.lost
               /\ local # NoAgent /\ transfer = NoAgent => exec.stage = local.stage

Covering ==
    ~ restored => /\ exec # NoAgent => \A ctx \in kept : Covers(exec.ctx, ctx)
                  /\ transfer # NoAgent => Covers(transfer.ctx, exec.ctx) /\ ~ transfer.lost

(* The driver's own context is at the stage the service believes in, while *)
(* every output named the next, or will be when the transfer returns.      *)
Believed ==
    /\ local \in Contexts \cup {NoAgent} /\ exec \in Executions \cup {NoAgent}
    /\ transfer \in Transfers \cup {NoAgent}
    /\ files \subseteq Contexts /\ kept \subseteq files
    /\ local # NoAgent => exec # NoAgent
    /\ transfer # NoAgent => local # NoAgent /\ transfer.ctx \in files
    /\ exec # NoAgent => exec.ctx \in files
    /\ \A ctx \in files : LineageOf(ctx) /\ (aligned => FiledIn(ctx))
    /\ Aligned /\ Covering

(* The driver runs the stage of its own context.                           *)
DriverInStep ==
    asking[Conductor] # NoAgent =>
        /\ local # NoAgent /\ transfer = NoAgent
        /\ local.status # "completed" /\ asking[Conductor].op = local.stage

LogKept ==
    /\ log \in [attempted : Nat, success : Nat, failed : Nat]
    /\ log.success + log.failed = log.attempted

RecoveryKept == Answering /\ Believed /\ DriverInStep /\ LogKept

RecoveryInv == part = "recover" => RecoveryKept

-----------------------------------------------------------------------------
(* Recovery: the answers *)

LEMMA SafeCardinality == \A S : Safe!Cardinality(S) = Cardinality(S)
    BY DEF Safe!Cardinality, Cardinality

LEMMA EverybodyIs == Safe!Everyone = Everybody
    BY DEF Safe!Everyone, Everybody

(* One call changes, to work for an operation that is asked for already or *)
(* by nobody.                                                              *)
LEMMA AnswersEnded ==
    ASSUME Answering, NEW x \in Everybody, NEW y \in Attempts \cup {NoAgent},
           y # NoAgent => asking[x] # NoAgent /\ y.op = asking[x].op,
           asking' = [asking EXCEPT ![x] = y], UNCHANGED <<cache, answers, shared, made>>
    PROVE  Answering'
<1>1. /\ asking' \in [Everybody -> Attempts \cup {NoAgent}]
      /\ \A z \in Everybody : asking'[z] = IF z = x THEN y ELSE asking[z]
    BY DEF Answering
<1>2. \A z \in Everybody : asking'[z] # NoAgent => asking[z] # NoAgent /\ asking'[z].op = asking[z].op
    BY <1>1
<1>3. ASSUME NEW o \in Acts \ shared PROVE AnsweredOnce(o)'
  <2>1. AnsweredOnce(o)
      BY DEF Answering
  <2> QED
      BY <1>2, <2>1 DEF AnsweredOnce
<1> QED
    BY <1>1, <1>3 DEF Answering

(* A first attempt: others that run the operation are marked.              *)
LEMMA AnswersBegun ==
    ASSUME Answering, NEW x \in Everybody, NEW o \in Acts, asking[x] = NoAgent, cache[o] = NoAgent,
           Safe!Begin(x, o), UNCHANGED <<cache, answers, made>>
    PROVE  Answering'
<1> DEFINE y == [op |-> o, attempt |-> 1, asleep |-> FALSE]
<1>1. y \in Attempts /\ y.op = o
  <2>1. 1 \in 1 .. MaxTries
      BY RecoveryAssumption
  <2> QED
      BY <2>1 DEF Attempts
<1>2. asking' = [asking EXCEPT ![x] = y]
    BY DEF Safe!Begin
<1> HIDE DEF y
<1>3. /\ asking' \in [Everybody -> Attempts \cup {NoAgent}]
      /\ \A z \in Everybody : asking'[z] = IF z = x THEN y ELSE asking[z]
    BY <1>1, <1>2 DEF Answering
<1>4. shared \subseteq shared' /\ (Safe!Running(o) # {} => o \in shared')
    BY DEF Safe!Begin
<1>5. ASSUME NEW p \in Acts \ shared' PROVE AnsweredOnce(p)'
  <2>1. AnsweredOnce(p)
      BY <1>4 DEF Answering
  <2>2. CASE p = o
    <3>1. \A z \in Everybody : ~ (asking[z] # NoAgent /\ asking[z].op = o)
        BY <1>4, <2>2, EverybodyIs DEF Safe!Running
    <3>2. \A z \in Everybody : asking'[z] # NoAgent /\ asking'[z].op = o => z = x
        BY <1>3, <3>1
    <3> QED
        BY <2>1, <2>2, <3>2 DEF AnsweredOnce
  <2>3. CASE p # o
    <3>1. \A z \in Everybody : asking'[z] # NoAgent /\ asking'[z].op = p =>
              asking[z] # NoAgent /\ asking[z].op = p
        BY <1>1, <1>3, <2>3
    <3> QED
        BY <2>1, <3>1 DEF AnsweredOnce
  <2> QED
      BY <2>2, <2>3
<1> QED
    BY <1>3, <1>5 DEF Answering

(* The answer of the only call is the first and is kept.                   *)
LEMMA AnswersKept ==
    ASSUME Answering, NEW x \in Everybody, Safe!Succeeds(x), UNCHANGED shared
    PROVE  Answering'
<1> DEFINE o == asking[x].op
           r == made + 1
<1>1. /\ asking[x] # NoAgent /\ made' = r /\ cache' = [cache EXCEPT ![o] = r]
      /\ answers' = [answers EXCEPT ![o] = @ \cup {r}] /\ asking' = [asking EXCEPT ![x] = NoAgent]
    BY DEF Safe!Succeeds, Safe!Keeps, Safe!Answered
<1>2. o \in Acts /\ r \in Nat /\ r # NoAgent
  <2>1. asking[x] \in Attempts
      BY <1>1 DEF Answering
  <2>2. r \in Nat
      BY DEF Answering
  <2> QED
      BY <2>1, <2>2, RecoveryAssumption DEF Attempts
<1> HIDE DEF r
<1>3. /\ cache' \in [Acts -> Nat \cup {NoAgent}] /\ cache'[o] = r
      /\ \A p \in Acts : p # o => cache'[p] = cache[p]
    BY <1>1, <1>2 DEF Answering
<1>4. /\ DOMAIN answers' = Acts /\ answers'[o] = answers[o] \cup {r}
      /\ \A p \in Acts : p # o => answers'[p] = answers[p]
    BY <1>1, <1>2 DEF Answering
<1>5. /\ asking' \in [Everybody -> Attempts \cup {NoAgent}]
      /\ \A z \in Everybody : asking'[z] = IF z = x THEN NoAgent ELSE asking[z]
    BY <1>1 DEF Answering
<1>6. ASSUME NEW p \in Acts \ shared' PROVE AnsweredOnce(p)'
  <2>1. AnsweredOnce(p)
      BY DEF Answering
  <2>2. CASE p = o
    <3>1. \A z \in Everybody : asking[z] # NoAgent /\ asking[z].op = o => z = x
        BY <1>1, <2>1, <2>2 DEF AnsweredOnce
    <3>2. cache[o] = NoAgent /\ answers[o] = {}
        BY <1>1, <2>1, <2>2 DEF AnsweredOnce
    <3>3. answers'[o] = {cache'[o]} /\ cache'[o] # NoAgent
        BY <1>2, <1>3, <1>4, <3>2
    <3>4. \A z \in Everybody : asking'[z] # NoAgent => asking'[z].op # o
        BY <1>5, <3>1
    <3> HIDE DEF o
    <3> QED
        BY <2>2, <3>3, <3>4 DEF AnsweredOnce
  <2>3. CASE p # o
    <3>1. \A z \in Everybody : asking'[z] # NoAgent => asking[z] = asking'[z]
        BY <1>5
    <3>2. cache'[p] = cache[p] /\ answers'[p] = answers[p]
        BY <1>3, <1>4, <2>3
    <3> QED
        BY <2>1, <3>1, <3>2 DEF AnsweredOnce
  <2> QED
      BY <2>2, <2>3
<1> QED
    BY <1>1, <1>2, <1>3, <1>4, <1>5, <1>6 DEF Answering

LEMMA AnswersGiven ==
    ASSUME Answering, NEW o \in Acts, cache[o] # NoAgent, Safe!Answered(o, cache[o]),
           UNCHANGED <<asking, cache, shared, made>>
    PROVE  Answering'
<1>1. /\ DOMAIN answers' = Acts /\ answers'[o] = answers[o] \cup {cache[o]}
      /\ \A p \in Acts : p # o => answers'[p] = answers[p]
    BY DEF Safe!Answered, Answering
<1>2. ASSUME NEW p \in Acts \ shared PROVE AnsweredOnce(p)'
  <2>1. AnsweredOnce(p)
      BY DEF Answering
  <2>2. answers'[p] = answers[p]
      BY <1>1, <2>1 DEF AnsweredOnce
  <2> QED
      BY <2>1, <2>2 DEF AnsweredOnce
<1> QED
    BY <1>1, <1>2 DEF Answering

LEMMA AnswersCleared ==
    ASSUME Answering, NEW o \in Acts, Safe!Clear(o)
    PROVE  Answering'
<1>1. /\ cache' = [cache EXCEPT ![o] = NoAgent] /\ shared' = shared \cup {o}
      /\ UNCHANGED <<asking, answers, made>>
    BY DEF Safe!Clear
<1>2. /\ cache' \in [Acts -> Nat \cup {NoAgent}]
      /\ \A p \in Acts : p # o => cache'[p] = cache[p]
    BY <1>1 DEF Answering
<1>3. ASSUME NEW p \in Acts \ shared' PROVE AnsweredOnce(p)'
    BY <1>1, <1>2 DEF AnsweredOnce, Answering
<1> QED
    BY <1>1, <1>2, <1>3 DEF Answering

LEMMA AnswersLeft ==
    ASSUME Answering, UNCHANGED <<asking, cache, answers, shared, made>>
    PROVE  Answering'
    BY DEF Answering, AnsweredOnce

(* A call that fails sleeps and tries again; what it runs stays the same.  *)
LEMMA CallSleeps ==
    ASSUME Answering, NEW x \in Everybody, Safe!FailsOnce(x) \/ Safe!Retries(x)
    PROVE  /\ Answering'
           /\ \A z \in Everybody : asking'[z] # NoAgent =>
                 asking[z] # NoAgent /\ asking'[z].op = asking[z].op
<1>1. asking[x] \in Attempts /\ UNCHANGED <<cache, answers, shared, made>>
    BY DEF Answering, Safe!FailsOnce, Safe!Retries, Safe!hist
<1>2. /\ asking[x].op \in Acts /\ asking[x].attempt \in 1 .. MaxTries /\ asking[x].asleep \in BOOLEAN
      /\ asking[x].asleep => asking[x].attempt < MaxTries
    BY <1>1 DEF Attempts
<1>3. \E y \in Attempts : y.op = asking[x].op /\ asking' = [asking EXCEPT ![x] = y]
  <2>1. CASE Safe!FailsOnce(x)
    <3> DEFINE y == [asking[x] EXCEPT !.asleep = TRUE]
    <3>1. asking' = [asking EXCEPT ![x] = y] /\ asking[x].attempt < MaxTries
        BY <2>1 DEF Safe!FailsOnce, Answering
    <3>2. y \in Attempts /\ y.op = asking[x].op
        BY <1>1, <3>1 DEF Attempts
    <3> QED
        BY <3>1, <3>2
  <2>2. CASE Safe!Retries(x)
    <3> DEFINE y == [asking[x] EXCEPT !.asleep = FALSE, !.attempt = asking[x].attempt + 1]
    <3>1. asking' = [asking EXCEPT ![x] = y] /\ asking[x].asleep
        BY <2>2 DEF Safe!Retries, Answering
    <3>2. asking[x].attempt + 1 \in 1 .. MaxTries
        BY <1>2, <3>1, RecoveryAssumption
    <3>3. y \in Attempts /\ y.op = asking[x].op
        BY <1>1, <3>2 DEF Attempts
    <3> QED
        BY <3>1, <3>3
  <2> QED
      BY <2>1, <2>2
<1>4. PICK y \in Attempts : y.op = asking[x].op /\ asking' = [asking EXCEPT ![x] = y]
    BY <1>3
<1>5. asking[x] # NoAgent
    BY DEF Safe!FailsOnce, Safe!Retries
<1>6. \A z \in Everybody : asking'[z] = IF z = x THEN y ELSE asking[z]
    BY <1>4 DEF Answering
<1>7. Answering'
    BY <1>1, <1>4, <1>5, AnswersEnded
<1> QED
    BY <1>4, <1>5, <1>6, <1>7

-----------------------------------------------------------------------------
(* Recovery: the contexts *)

LEMMA MergeKeeps ==
    ASSUME NEW ctx \in Contexts, NEW at \in Acts, NEW done \in Acts, NEW out \in Safe!Outputs,
           LineageOf(ctx)
    PROVE  /\ Safe!Merge(ctx, at, done, out) \in Contexts
           /\ LineageOf(Safe!Merge(ctx, at, done, out))
           /\ Covers(Safe!Merge(ctx, at, done, out), ctx)
           /\ Safe!Names(out) => Safe!Merge(ctx, at, done, out).stage = out.next
           /\ done = at /\ FiledIn(ctx) => FiledIn(Safe!Merge(ctx, at, done, out))
<1> DEFINE new == Safe!Merge(ctx, at, done, out)
<1>1. /\ ctx.stage \in Acts /\ ctx.status \in {"running", "completed"}
      /\ ctx.outputs \in [Acts -> Acts \cup {NoAgent}] /\ ctx.sources \in [Findings -> Acts \cup {NoAgent}]
    BY DEF Contexts
<1>2. /\ out.next \in Acts
      /\ out.updated # NoAgent => /\ out.updated.stage \in Acts
                                  /\ out.updated.status \in {"running", "completed"}
    BY DEF Safe!Outputs, Safe!Updates
<1>3. /\ new.stage = IF out.updated = NoAgent THEN ctx.stage ELSE out.updated.stage
      /\ new.outputs = [ctx.outputs EXCEPT ![at] = done]
      /\ new.sources = Safe!Sources(ctx, at)
    BY DEF Safe!Merge
<1>4. /\ new.outputs \in [Acts -> Acts \cup {NoAgent}]
      /\ \A s \in Acts : new.outputs[s] = IF s = at THEN done ELSE ctx.outputs[s]
    BY <1>1, <1>3
<1>5. /\ new.sources \in [Findings -> Acts \cup {NoAgent}]
      /\ \A f \in Findings : new.sources[f] = IF f \in Yields[at] THEN at ELSE ctx.sources[f]
    BY <1>1, <1>3 DEF Safe!Sources
<1>6. new \in Contexts
  <2> DEFINE st == IF out.updated = NoAgent THEN ctx.stage ELSE out.updated.stage
             su == IF out.updated = NoAgent THEN ctx.status ELSE out.updated.status
             os == [ctx.outputs EXCEPT ![at] = done]
             so == Safe!Sources(ctx, at)
  <2>1. st \in Acts /\ su \in {"running", "completed"}
      BY <1>1, <1>2
  <2>2. os \in [Acts -> Acts \cup {NoAgent}] /\ so \in [Findings -> Acts \cup {NoAgent}]
      BY <1>3, <1>4, <1>5
  <2>3. new = [stage |-> st, status |-> su, outputs |-> os, sources |-> so]
      BY DEF Safe!Merge
  <2> HIDE DEF st, su, os, so, new
  <2> QED
      BY <2>1, <2>2, <2>3 DEF Contexts
<1> HIDE DEF new
<1>7. at # NoAgent /\ done # NoAgent
    BY RecoveryAssumption
<1>8. \A s \in Acts : ctx.outputs[s] # NoAgent => new.outputs[s] # NoAgent
    BY <1>4, <1>7
<1>9. LineageOf(new)
  <2>1. ASSUME NEW s \in Acts, new.outputs[s] # NoAgent, NEW f \in Yields[s]
        PROVE  new.sources[f] # NoAgent
    <3>1. f \in Findings
        BY RecoveryAssumption
    <3>2. CASE f \in Yields[at]
        BY <1>5, <1>7, <3>1, <3>2
    <3>3. CASE f \notin Yields[at]
      <4>1. s # at /\ ctx.outputs[s] # NoAgent
          BY <1>4, <2>1, <3>3
      <4>2. ctx.sources[f] # NoAgent
          BY <4>1 DEF LineageOf
      <4> QED
          BY <1>5, <3>1, <3>3, <4>2
    <3> QED
        BY <3>2, <3>3
  <2>2. ASSUME NEW f \in Findings, new.sources[f] # NoAgent
        PROVE  new.outputs[new.sources[f]] # NoAgent /\ f \in Yields[new.sources[f]]
    <3>1. CASE f \in Yields[at]
        BY <1>4, <1>5, <1>7, <3>1
    <3>2. CASE f \notin Yields[at]
      <4>1. new.sources[f] = ctx.sources[f] /\ ctx.sources[f] \in Acts
          BY <1>1, <1>5, <2>2, <3>2
      <4>2. ctx.outputs[ctx.sources[f]] # NoAgent /\ f \in Yields[ctx.sources[f]]
          BY <2>2, <4>1 DEF LineageOf
      <4> QED
          BY <1>8, <4>1, <4>2
    <3> QED
        BY <3>1, <3>2
  <2> QED
      BY <2>1, <2>2 DEF LineageOf
<1>10. done = at /\ FiledIn(ctx) => FiledIn(new)
    BY <1>4 DEF FiledIn
<1>11. Covers(new, ctx)
    BY <1>8 DEF Covers
<1>12. Safe!Names(out) => new.stage = out.next
    BY <1>3 DEF Safe!Names
<1> QED
    BY <1>6, <1>9, <1>10, <1>11, <1>12 DEF new

LEMMA CoversAll == \A x, y, z : Covers(x, y) /\ Covers(y, z) => Covers(x, z)
    BY DEF Covers

LEMMA CoversSelf == \A x : Covers(x, x)
    BY DEF Covers

(* What an execution is.                                                   *)
LEMMA ExecutionIs ==
    ASSUME Believed, exec # NoAgent
    PROVE  exec \in Executions /\ exec.ctx \in files /\ exec.ctx \in Contexts /\ exec.stage \in Acts
<1>1. exec \in Executions /\ exec.ctx \in files /\ files \subseteq Contexts
    BY DEF Believed
<1> QED
    BY <1>1 DEF Executions

LEMMA TransferIs ==
    ASSUME Believed, transfer # NoAgent
    PROVE  /\ transfer \in Transfers /\ transfer.ctx \in files /\ transfer.ctx \in Contexts
           /\ transfer.next \in Acts
<1>1. transfer \in Transfers /\ transfer.ctx \in files
    BY DEF Believed
<1> QED
    BY <1>1 DEF Transfers

(* An output is merged and its context handed to a save.                   *)
LEMMA TransferBegun ==
    ASSUME Believed, local # NoAgent, transfer = NoAgent, NEW out \in Safe!Outputs,
           Safe!BeginTransfer(local.stage, out), UNCHANGED <<local, exec, kept, restored>>
    PROVE  Believed'
<1> DEFINE new == Safe!Merge(exec.ctx, exec.stage, local.stage, out)
           t == [ctx |-> new, next |-> out.next, lost |-> FALSE]
<1>1. transfer' = t /\ files' = files \cup {new} /\ aligned' = (aligned /\ Safe!Names(out))
    BY DEF Safe!BeginTransfer
<1>2. exec # NoAgent /\ local \in Contexts /\ files \subseteq Contexts /\ kept \subseteq files
    BY DEF Believed
<1>3. exec \in Executions /\ exec.ctx \in files /\ exec.ctx \in Contexts /\ exec.stage \in Acts
    BY <1>2, ExecutionIs
<1>4. local.stage \in Acts /\ out.next \in Acts
    BY <1>2 DEF Contexts, Safe!Outputs
<1>5. \A ctx \in files : LineageOf(ctx) /\ (aligned => FiledIn(ctx))
    BY DEF Believed
<1>6. /\ new \in Contexts /\ LineageOf(new) /\ Covers(new, exec.ctx)
      /\ Safe!Names(out) => new.stage = out.next
      /\ local.stage = exec.stage /\ FiledIn(exec.ctx) => FiledIn(new)
    BY <1>3, <1>4, <1>5, MergeKeeps
<1> HIDE DEF new
<1>7. /\ t \in Transfers /\ t.ctx = new /\ t.next = out.next /\ ~ t.lost
      /\ t # NoAgent
  <2>1. t \in Transfers
      BY <1>4, <1>6 DEF Transfers
  <2>2. t # NoAgent
    <3> HIDE DEF t
    <3> QED
        BY <2>1, RecoveryAssumption
  <2> QED
      BY <2>1, <2>2
<1> HIDE DEF t
<1>8. aligned' => aligned /\ Safe!Names(out)
    BY <1>1
<1>9. aligned => exec.stage = local.stage
    BY DEF Believed, Aligned
<1>10. \A ctx \in files' : LineageOf(ctx) /\ (aligned' => FiledIn(ctx))
    BY <1>1, <1>3, <1>5, <1>6, <1>8, <1>9
<1>11. Aligned'
    BY <1>1, <1>6, <1>7, <1>8 DEF Aligned
<1>12. Covering'
    BY <1>1, <1>2, <1>6, <1>7 DEF Believed, Covering
<1> QED
    BY <1>1, <1>2, <1>3, <1>6, <1>7, <1>10, <1>11, <1>12 DEF Believed

(* The save returns: the context is the service's, unless it was replaced  *)
(* meanwhile.                                                              *)
LEMMA TransferReturned ==
    ASSUME Believed, Safe!TransferReturns
    PROVE  Believed'
<1>1. /\ transfer # NoAgent /\ transfer' = NoAgent /\ UNCHANGED <<files, aligned, restored>>
      /\ kept' = kept \cup {transfer.ctx} /\ local' = transfer.ctx
    BY DEF Safe!TransferReturns, Safe!hist
<1>2. /\ transfer.ctx \in files /\ transfer.ctx \in Contexts /\ transfer.next \in Acts
    BY <1>1, TransferIs
<1>3. exec # NoAgent
    BY <1>1 DEF Believed
<1>4. /\ exec \in Executions /\ exec.ctx \in files
    BY <1>3, ExecutionIs
<1>5. ~ transfer.lost => /\ exec' \in Executions
                         /\ exec'.ctx = transfer.ctx /\ exec'.stage = transfer.next
    BY <1>2, <1>4 DEF Safe!TransferReturns, Executions
<1>6. transfer.lost => exec' = exec
    BY DEF Safe!TransferReturns
<1>7. exec' \in Executions /\ exec'.ctx \in files /\ exec' # NoAgent
    BY <1>2, <1>4, <1>5, <1>6, RecoveryAssumption
<1>8. Aligned'
    BY <1>1, <1>5 DEF Believed, Aligned
<1>9. Covering'
  <2> SUFFICES ASSUME ~ restored', NEW ctx \in kept' PROVE Covers(exec'.ctx, ctx)
      BY <1>1 DEF Covering
  <2>1. exec'.ctx = transfer.ctx /\ Covers(transfer.ctx, exec.ctx)
      BY <1>1, <1>5 DEF Believed, Covering
  <2>2. CASE ctx \in kept
    <3>1. Covers(exec.ctx, ctx)
        BY <1>1, <1>3, <2>2 DEF Believed, Covering
    <3> QED
        BY <2>1, <3>1, CoversAll
  <2>3. CASE ctx = transfer.ctx
      BY <2>1, <2>3, CoversSelf
  <2> QED
      BY <1>1, <2>2, <2>3
<1> QED
    BY <1>1, <1>2, <1>7, <1>8, <1>9 DEF Believed

(* The execution fails, waits or is completed; its driver may be done.     *)
LEMMA ExecutionMarked ==
    ASSUME Believed, exec # NoAgent, NEW mark \in {"running", "recovering", "failed", "completed"},
           exec' = [exec EXCEPT !.status = mark],
           \/ UNCHANGED <<local, transfer>>
           \/ local' = NoAgent /\ transfer' = NoAgent,
           UNCHANGED <<files, kept, aligned, restored>>
    PROVE  Believed'
<1>1. exec \in Executions
    BY ExecutionIs
<1>2. exec' \in Executions /\ exec'.ctx = exec.ctx /\ exec'.stage = exec.stage
    BY <1>1 DEF Executions
<1>3. exec' # NoAgent
    BY <1>2, RecoveryAssumption
<1>4. Aligned' /\ Covering'
    BY <1>2 DEF Believed, Aligned, Covering
<1> QED
    BY <1>2, <1>3, <1>4 DEF Believed

(* It goes on from a checkpoint.                                           *)
LEMMA ExecutionRestored ==
    ASSUME Believed, exec # NoAgent, NEW ctx \in files,
           exec' = [exec EXCEPT !.ctx = ctx, !.status = "running"], restored' = TRUE,
           UNCHANGED <<local, transfer, files, kept, aligned>>
    PROVE  Believed'
<1>1. exec \in Executions /\ ctx \in Contexts
    BY ExecutionIs DEF Believed
<1>2. exec' \in Executions /\ exec'.ctx = ctx /\ exec'.stage = exec.stage
    BY <1>1 DEF Executions
<1>3. exec' # NoAgent
    BY <1>2, RecoveryAssumption
<1>4. Aligned' /\ Covering'
    BY <1>2 DEF Believed, Aligned, Covering
<1> QED
    BY <1>2, <1>3, <1>4 DEF Believed

LEMMA ExecutionReplaced ==
    ASSUME Believed, Safe!RestoreExecution
    PROVE  Believed'
<1>1. /\ exec # NoAgent /\ restored' = TRUE /\ aligned' = FALSE
      /\ transfer' = IF transfer = NoAgent THEN NoAgent ELSE [transfer EXCEPT !.lost = TRUE]
      /\ UNCHANGED <<local, files, kept>>
    BY DEF Safe!RestoreExecution
<1>2. PICK ctx \in files : exec' = [ctx |-> ctx, stage |-> ctx.stage, status |-> "running"]
    BY DEF Safe!RestoreExecution
<1>3. ctx \in Contexts /\ ctx.stage \in Acts
    BY DEF Believed, Contexts
<1>4. exec' \in Executions /\ exec'.ctx = ctx
    BY <1>2, <1>3 DEF Executions
<1>5. exec' # NoAgent
    BY <1>4, RecoveryAssumption
<1>6. transfer # NoAgent => transfer' \in Transfers /\ transfer'.ctx = transfer.ctx
    BY <1>1, TransferIs DEF Transfers
<1>7. transfer' \in Transfers \cup {NoAgent} /\ (transfer' # NoAgent => transfer # NoAgent)
    BY <1>1, <1>6
<1>8. Aligned' /\ Covering'
    BY <1>1 DEF Aligned, Covering
<1> QED
    BY <1>1, <1>4, <1>5, <1>6, <1>7, <1>8 DEF Believed

LEMMA FreshIs ==
    /\ Safe!Fresh \in Contexts /\ Safe!Fresh.stage = FirstAct
    /\ LineageOf(Safe!Fresh) /\ FiledIn(Safe!Fresh)
<1>1. Safe!Fresh \in Contexts /\ Safe!Fresh.stage = FirstAct
  <2>1. /\ [s \in Acts |-> NoAgent] \in [Acts -> Acts \cup {NoAgent}]
        /\ [f \in Findings |-> NoAgent] \in [Findings -> Acts \cup {NoAgent}]
      OBVIOUS
  <2> QED
      BY <2>1, RecoveryAssumption DEF Safe!Fresh, Contexts
<1>2. /\ \A s \in Acts : Safe!Fresh.outputs[s] = NoAgent
      /\ \A f \in Findings : Safe!Fresh.sources[f] = NoAgent
    BY DEF Safe!Fresh
<1> QED
    BY <1>1, <1>2 DEF LineageOf, FiledIn

LEMMA ExecutionStarted ==
    ASSUME Believed, Safe!StartExecution
    PROVE  Believed'
<1> DEFINE fresh == Safe!Fresh
<1>1. /\ local = NoAgent /\ local' = fresh /\ files' = {fresh} /\ kept' = {fresh}
      /\ UNCHANGED <<transfer, aligned, restored>>
      /\ exec' = [ctx |-> fresh, stage |-> FirstAct, status |-> "running"]
    BY DEF Safe!StartExecution, Safe!hist
<1>2. fresh \in Contexts /\ fresh.stage = FirstAct /\ LineageOf(fresh) /\ FiledIn(fresh)
    BY FreshIs
<1> HIDE DEF fresh
<1>3. exec' \in Executions /\ exec'.ctx = fresh /\ exec'.stage = FirstAct
    BY <1>1, <1>2, RecoveryAssumption DEF Executions
<1>4. exec' # NoAgent
    BY <1>3, RecoveryAssumption
<1>5. transfer' = NoAgent
    BY <1>1 DEF Believed
<1>6. Aligned' /\ Covering'
    BY <1>1, <1>2, <1>3, <1>5, CoversSelf DEF Aligned, Covering
<1> QED
    BY <1>1, <1>2, <1>3, <1>4, <1>5, <1>6 DEF Believed

LEMMA BelievedLeft ==
    ASSUME Believed, UNCHANGED <<local, exec, transfer, files, kept, aligned, restored>>
    PROVE  Believed'
    BY DEF Believed, Aligned, Covering

-----------------------------------------------------------------------------
(* Recovery: the steps *)

LEMMA LogGrows ==
    ASSUME LogKept, NEW outcome \in {"success", "failed"}, Safe!Recorded(outcome)
    PROVE  LogKept'
<1>1. log \in [attempted : Nat, success : Nat, failed : Nat] /\ log.success + log.failed = log.attempted
    BY DEF LogKept
<1>2. log' = [log EXCEPT !.attempted = @ + 1, ![outcome] = @ + 1]
    BY DEF Safe!Recorded
<1>3. CASE outcome = "success"
  <2> DEFINE all == log.attempted + 1
             one == log.success + 1
  <2>1. log' = [log EXCEPT !.attempted = all, !.success = one]
      BY <1>1, <1>2, <1>3
  <2>2. log.attempted \in Nat /\ log.success \in Nat /\ log.failed \in Nat
      BY <1>1
  <2>3. all \in Nat /\ one \in Nat
      BY <2>2
  <2>4. one + log.failed = all
      BY <1>1, <2>2
  <2> HIDE DEF all, one
  <2>5. /\ log' \in [attempted : Nat, success : Nat, failed : Nat]
        /\ log'.attempted = all /\ log'.success = one /\ log'.failed = log.failed
      BY <1>1, <2>1, <2>3
  <2>6. log'.success + log'.failed = log'.attempted
      BY <2>2, <2>3, <2>4, <2>5
  <2> QED
      BY <2>5, <2>6 DEF LogKept
<1>4. CASE outcome = "failed"
  <2> DEFINE all == log.attempted + 1
             one == log.failed + 1
  <2>1. log' = [log EXCEPT !.attempted = all, !.failed = one]
      BY <1>1, <1>2, <1>4
  <2>2. log.attempted \in Nat /\ log.success \in Nat /\ log.failed \in Nat
      BY <1>1
  <2>3. all \in Nat /\ one \in Nat
      BY <2>2
  <2>4. one + log.success = all
      BY <1>1, <2>2
  <2> HIDE DEF all, one
  <2>5. /\ log' \in [attempted : Nat, success : Nat, failed : Nat]
        /\ log'.attempted = all /\ log'.failed = one /\ log'.success = log.success
      BY <1>1, <2>1, <2>3
  <2>6. log'.success + log'.failed = log'.attempted
      BY <2>2, <2>3, <2>4, <2>5
  <2> QED
      BY <2>5, <2>6 DEF LogKept
<1> QED
    BY <1>3, <1>4

(* The call of x changes; the driver's, if it is another's.                *)
LEMMA OneAsks ==
    ASSUME Answering, NEW x \in Everybody, NEW y, asking' = [asking EXCEPT ![x] = y]
    PROVE  asking'[x] = y /\ \A z \in Everybody : z # x => asking'[z] = asking[z]
    BY DEF Answering

LEMMA ConductorIs == Conductor \in Everybody /\ \A x \in Askers : x \in Everybody /\ x # Conductor
    BY RecoveryAssumption DEF Everybody

LEMMA CallEnds ==
    ASSUME Answering, NEW x \in Everybody, asking' = [asking EXCEPT ![x] = NoAgent],
           UNCHANGED <<cache, answers, shared, made>>
    PROVE  Answering'
    BY AnswersEnded

(* The steps of the calls of others.                                       *)
LEMMA OthersCall ==
    ASSUME RecoveryKept, NEW x \in Askers,
           Safe!AskSucceeds(x) \/ Safe!AskFails(x) \/ \E o \in Acts : Safe!Ask(x, o)
    PROVE  RecoveryKept'
<1>1. x \in Everybody /\ x # Conductor /\ Conductor \in Everybody
    BY ConductorIs
<1>2. Answering /\ Believed /\ DriverInStep /\ LogKept
    BY DEF RecoveryKept
<1>3. UNCHANGED <<local, exec, transfer, files, kept, aligned, restored, log>>
    BY DEF Safe!AskSucceeds, Safe!AskFails, Safe!Ask, Safe!hist, Safe!books
<1>4. Believed' /\ LogKept'
    BY <1>2, <1>3, BelievedLeft DEF LogKept
<1>5. CASE Safe!AskSucceeds(x)
  <2>1. Safe!Succeeds(x) /\ UNCHANGED shared /\ asking' = [asking EXCEPT ![x] = NoAgent]
      BY <1>5 DEF Safe!AskSucceeds, Safe!Succeeds
  <2>2. Answering'
      BY <1>1, <1>2, <2>1, AnswersKept
  <2>3. asking'[Conductor] = asking[Conductor]
      BY <1>1, <1>2, <2>1, OneAsks
  <2> QED
      BY <1>2, <1>3, <1>4, <2>2, <2>3 DEF RecoveryKept, DriverInStep
<1>6. CASE Safe!AskFails(x)
  <2>1. asking' = [asking EXCEPT ![x] = NoAgent] /\ UNCHANGED <<cache, answers, shared, made>>
      BY <1>6 DEF Safe!AskFails, Safe!GivesUp, Safe!hist
  <2>2. Answering'
      BY <1>1, <1>2, <2>1, CallEnds
  <2>3. asking'[Conductor] = asking[Conductor]
      BY <1>1, <1>2, <2>1, OneAsks
  <2> QED
      BY <1>2, <1>3, <1>4, <2>2, <2>3 DEF RecoveryKept, DriverInStep
<1>7. ASSUME NEW o \in Acts, Safe!Ask(x, o) PROVE RecoveryKept'
  <2>1. asking[x] = NoAgent /\ UNCHANGED <<cache, made>>
      BY <1>7 DEF Safe!Ask
  <2>2. Answering' /\ asking'[Conductor] = asking[Conductor]
    <3>1. CASE cache[o] # NoAgent /\ Safe!Answered(o, cache[o]) /\ UNCHANGED <<asking, shared>>
        BY <1>2, <2>1, <3>1, AnswersGiven
    <3>2. CASE cache[o] = NoAgent /\ Safe!Begin(x, o) /\ UNCHANGED answers
      <4>1. Answering'
          BY <1>1, <1>2, <2>1, <3>2, AnswersBegun
      <4>2. asking'[Conductor] = asking[Conductor]
        <5>1. \E y : asking' = [asking EXCEPT ![x] = y]
            BY <3>2 DEF Safe!Begin
        <5> QED
            BY <1>1, <1>2, <5>1, OneAsks
      <4> QED
          BY <4>1, <4>2
    <3> QED
        BY <1>7, <3>1, <3>2 DEF Safe!Ask
  <2> QED
      BY <1>2, <1>3, <1>4, <2>2 DEF RecoveryKept, DriverInStep
<1> QED
    BY <1>5, <1>6, <1>7

LEMMA SomeoneSleeps ==
    ASSUME RecoveryKept, NEW x \in Everybody, Safe!FailsOnce(x) \/ Safe!Retries(x)
    PROVE  RecoveryKept'
<1>1. Answering /\ Believed /\ DriverInStep /\ LogKept
    BY DEF RecoveryKept
<1>2. UNCHANGED <<local, exec, transfer, files, kept, aligned, restored, log>>
    BY DEF Safe!FailsOnce, Safe!Retries, Safe!hist, Safe!books
<1>3. Believed' /\ LogKept'
    BY <1>1, <1>2, BelievedLeft DEF LogKept
<1>4. /\ Answering'
      /\ asking'[Conductor] # NoAgent =>
            asking[Conductor] # NoAgent /\ asking'[Conductor].op = asking[Conductor].op
    BY <1>1, CallSleeps, ConductorIs
<1> QED
    BY <1>1, <1>2, <1>3, <1>4 DEF RecoveryKept, DriverInStep

LEMMA CacheCleared ==
    ASSUME RecoveryKept, NEW o \in Acts, Safe!Clear(o)
    PROVE  RecoveryKept'
<1>1. UNCHANGED <<local, exec, transfer, files, kept, aligned, restored, log, asking>>
    BY DEF Safe!Clear, Safe!books
<1>2. Answering'
    BY AnswersCleared DEF RecoveryKept
<1>3. Believed'
    BY <1>1, BelievedLeft DEF RecoveryKept
<1> QED
    BY <1>1, <1>2, <1>3 DEF RecoveryKept, DriverInStep, LogKept

(* The failure that another coroutine reports.                             *)
LEMMA FailureHandled ==
    ASSUME RecoveryKept, NEW kind \in {"instance_crash", "timeout", "storage_error"},
           Safe!HandleFailure(kind)
    PROVE  RecoveryKept'
<1>1. Answering /\ Believed /\ DriverInStep /\ LogKept
    BY DEF RecoveryKept
<1>2. exec # NoAgent
      /\ UNCHANGED <<local, transfer, files, kept, cache, asking, answers, shared, aligned, made>>
    BY DEF Safe!HandleFailure
<1>3. Answering' /\ DriverInStep'
    BY <1>1, <1>2, AnswersLeft DEF DriverInStep
<1>4. \E outcome \in {"success", "failed"} : Safe!Recorded(outcome)
    BY DEF Safe!HandleFailure, Safe!Strategy
<1>5. LogKept'
    BY <1>1, <1>4, LogGrows
<1>6. Safe!Restored \/ Safe!Goes("failed") \/ Safe!Goes("recovering")
    BY DEF Safe!HandleFailure, Safe!Strategy
<1>7. CASE Safe!Restored
  <2>1. restored' = TRUE /\ \E ctx \in files : exec' = [exec EXCEPT !.ctx = ctx, !.status = "running"]
      BY <1>7 DEF Safe!Restored
  <2> QED
      BY <1>1, <1>2, <1>3, <1>5, <2>1, ExecutionRestored DEF RecoveryKept
<1>8. CASE Safe!Goes("failed") \/ Safe!Goes("recovering")
  <2>1. \E mark \in {"recovering", "failed"} : exec' = [exec EXCEPT !.status = mark]
      BY <1>8 DEF Safe!Goes
  <2>2. UNCHANGED restored
      BY <1>8 DEF Safe!Goes
  <2>3. Believed'
      BY <1>1, <1>2, <2>1, <2>2, ExecutionMarked
  <2> QED
      BY <1>1, <1>3, <1>5, <2>3 DEF RecoveryKept
<1> QED
    BY <1>6, <1>7, <1>8

(* restore_execution replaces the context of the service.                  *)
LEMMA ServiceRestored ==
    ASSUME RecoveryKept, Safe!RestoreExecution
    PROVE  RecoveryKept'
<1>1. Answering /\ Believed /\ DriverInStep /\ LogKept
    BY DEF RecoveryKept
<1>2. /\ UNCHANGED <<local, cache, asking, log, answers, shared, made>>
      /\ transfer = NoAgent => transfer' = NoAgent
    BY DEF Safe!RestoreExecution
<1>3. Answering' /\ DriverInStep' /\ LogKept'
    BY <1>1, <1>2, AnswersLeft DEF DriverInStep, LogKept
<1> QED
    BY <1>1, <1>3, ExecutionReplaced DEF RecoveryKept

(* The stage of the driver is answered, by the cache or by its call.       *)
LEMMA DriverAnswered ==
    ASSUME RecoveryKept, Safe!Replays \/ Safe!Succeeds(Conductor), UNCHANGED shared
    PROVE  /\ Answering' /\ asking'[Conductor] = NoAgent
           /\ local # NoAgent /\ transfer = NoAgent
<1>1. Answering /\ Believed /\ DriverInStep
    BY DEF RecoveryKept
<1>2. CASE Safe!Replays
  <2>1. /\ local # NoAgent /\ asking[Conductor] = NoAgent /\ transfer = NoAgent
        /\ cache[local.stage] # NoAgent /\ Safe!Answered(local.stage, cache[local.stage])
        /\ UNCHANGED <<cache, asking, made>>
      BY <1>2 DEF Safe!Replays, Safe!Looping
  <2>2. local.stage \in Acts
      BY <1>1, <2>1 DEF Believed, Contexts
  <2> QED
      BY <1>1, <2>1, <2>2, AnswersGiven
<1>3. CASE Safe!Succeeds(Conductor)
  <2>1. asking[Conductor] # NoAgent /\ asking' = [asking EXCEPT ![Conductor] = NoAgent]
      BY <1>3 DEF Safe!Succeeds
  <2>2. Answering'
      BY <1>1, <1>3, AnswersKept, ConductorIs
  <2>3. asking'[Conductor] = NoAgent
      BY <1>1, <2>1, OneAsks, ConductorIs
  <2> QED
      BY <1>1, <2>1, <2>2, <2>3 DEF DriverInStep
<1> QED
    BY <1>2, <1>3

(* The driver runs a stage, from the cache or by a call of its own.        *)
LEMMA DriverRuns ==
    ASSUME RecoveryKept, Safe!StageAnswers \/ Safe!BeginStage \/ Safe!TransferReturns
    PROVE  RecoveryKept'
<1>1. Answering /\ Believed /\ DriverInStep /\ LogKept
    BY DEF RecoveryKept
<1>2. local # NoAgent => local.stage \in Acts
    BY <1>1 DEF Believed, Contexts
<1>3. CASE Safe!StageAnswers
  <2>1. (Safe!Replays \/ Safe!Succeeds(Conductor)) /\ UNCHANGED <<local, exec, kept, log, shared, restored>>
      BY <1>3 DEF Safe!StageAnswers
  <2>2. PICK out \in Safe!Outputs : Safe!BeginTransfer(local.stage, out)
      BY <1>3 DEF Safe!StageAnswers
  <2>3. Answering' /\ asking'[Conductor] = NoAgent /\ local # NoAgent /\ transfer = NoAgent
      BY <2>1, DriverAnswered
  <2>4. Believed'
      BY <1>1, <2>1, <2>2, <2>3, TransferBegun
  <2> QED
      BY <1>1, <2>1, <2>3, <2>4 DEF RecoveryKept, DriverInStep, LogKept
<1>4. CASE Safe!BeginStage
  <2>1. /\ local # NoAgent /\ local.status # "completed"
        /\ asking[Conductor] = NoAgent /\ cache[local.stage] = NoAgent
        /\ Safe!Begin(Conductor, local.stage)
        /\ transfer = NoAgent
        /\ UNCHANGED <<local, exec, transfer, files, kept, cache, log, answers, aligned, restored, made>>
      BY <1>4 DEF Safe!BeginStage, Safe!Looping, Safe!books
  <2>2. Answering'
      BY <1>1, <1>2, <2>1, AnswersBegun, ConductorIs
  <2>3. asking'[Conductor] = [op |-> local.stage, attempt |-> 1, asleep |-> FALSE]
    <3>1. asking' = [asking EXCEPT ![Conductor] = [op |-> local.stage, attempt |-> 1, asleep |-> FALSE]]
        BY <2>1 DEF Safe!Begin
    <3> QED
        BY <1>1, <3>1, OneAsks, ConductorIs
  <2>4. Believed'
      BY <1>1, <2>1, BelievedLeft
  <2>5. DriverInStep'
    <3>1. asking'[Conductor].op = local.stage
        BY <2>3
    <3> QED
        BY <2>1, <3>1 DEF DriverInStep
  <2> QED
      BY <1>1, <2>1, <2>2, <2>4, <2>5 DEF RecoveryKept, LogKept
<1>5. CASE Safe!TransferReturns
  <2>1. transfer # NoAgent /\ UNCHANGED <<cache, asking, log, answers, shared, made>>
      BY <1>5 DEF Safe!TransferReturns, Safe!hist
  <2>2. Believed' /\ Answering'
      BY <1>1, <1>5, <2>1, TransferReturned, AnswersLeft
  <2> QED
      BY <1>1, <2>1, <2>2 DEF RecoveryKept, DriverInStep, LogKept
<1> QED
    BY <1>3, <1>4, <1>5

(* It begins, and ends in one of four ways.                                *)
LEMMA DriverStarts ==
    ASSUME RecoveryKept, Safe!StartExecution
    PROVE  RecoveryKept'
<1>1. Answering /\ Believed /\ DriverInStep /\ LogKept
    BY DEF RecoveryKept
<1>2. local = NoAgent /\ UNCHANGED <<cache, asking, log, answers, shared, made>>
    BY DEF Safe!StartExecution, Safe!hist
<1>3. asking'[Conductor] = NoAgent
    BY <1>1, <1>2 DEF DriverInStep
<1>4. Answering' /\ Believed'
    BY <1>1, <1>2, AnswersLeft, ExecutionStarted
<1> QED
    BY <1>1, <1>2, <1>3, <1>4 DEF RecoveryKept, DriverInStep, LogKept

LEMMA DriverLost ==
    ASSUME RecoveryKept, Safe!OutputUnfit \/ Safe!SaveFails \/ Safe!StageFails
    PROVE  RecoveryKept'
<1>1. Answering /\ Believed /\ DriverInStep /\ LogKept
    BY DEF RecoveryKept
<1>2. /\ Safe!Recorded("success") /\ exec' = [exec EXCEPT !.status = "failed"] /\ local' = NoAgent
      /\ UNCHANGED <<files, kept, shared, aligned, restored>>
    BY DEF Safe!OutputUnfit, Safe!SaveFails, Safe!StageFails, Safe!StageLost, Safe!hist
<1>3. Answering' /\ asking'[Conductor] = NoAgent /\ transfer' = NoAgent /\ local # NoAgent
  <2>1. CASE Safe!OutputUnfit
      BY <1>2, <2>1, DriverAnswered DEF Safe!OutputUnfit
  <2>2. CASE Safe!SaveFails
    <3>1. /\ transfer # NoAgent /\ transfer' = NoAgent
          /\ UNCHANGED <<cache, asking, answers, shared, made>>
        BY <2>2 DEF Safe!SaveFails, Safe!hist
    <3>2. local # NoAgent
        BY <1>1, <3>1 DEF Believed
    <3>3. asking'[Conductor] = NoAgent
        BY <1>1, <3>1 DEF DriverInStep
    <3> QED
        BY <1>1, <3>1, <3>2, <3>3, AnswersLeft
  <2>3. CASE Safe!StageFails
    <3>1. /\ asking[Conductor] # NoAgent /\ asking' = [asking EXCEPT ![Conductor] = NoAgent]
          /\ UNCHANGED <<transfer, cache, answers, shared, made>>
        BY <2>3 DEF Safe!StageFails, Safe!GivesUp, Safe!hist
    <3>2. local # NoAgent /\ transfer = NoAgent
        BY <1>1, <3>1 DEF DriverInStep
    <3> QED
        BY <1>1, <3>1, <3>2, CallEnds, OneAsks, ConductorIs
  <2> QED
      BY <2>1, <2>2, <2>3
<1>4. exec # NoAgent
    BY <1>1, <1>3 DEF Believed
<1>5. Believed'
    BY <1>1, <1>2, <1>3, <1>4, ExecutionMarked
<1> QED
    BY <1>1, <1>2, <1>3, <1>5, LogGrows DEF RecoveryKept, DriverInStep

LEMMA DriverDone ==
    ASSUME RecoveryKept, Safe!Complete
    PROVE  RecoveryKept'
<1>1. Answering /\ Believed /\ DriverInStep /\ LogKept
    BY DEF RecoveryKept
<1>2. /\ local # NoAgent /\ local.status = "completed" /\ transfer = NoAgent /\ local' = NoAgent
      /\ UNCHANGED <<transfer, files, kept, aligned, restored, cache, asking, log, answers, shared, made>>
    BY DEF Safe!Complete, Safe!hist
<1>3. \E mark \in {"completed", "failed"} : exec' = [exec EXCEPT !.status = mark]
    BY DEF Safe!Complete
<1>4. exec # NoAgent
    BY <1>1, <1>2 DEF Believed
<1>5. Believed'
    BY <1>1, <1>2, <1>3, <1>4, ExecutionMarked
<1>6. Answering' /\ asking'[Conductor] = NoAgent
    BY <1>1, <1>2, AnswersLeft DEF DriverInStep
<1> QED
    BY <1>1, <1>2, <1>5, <1>6 DEF RecoveryKept, DriverInStep, LogKept

LEMMA RecoveryStep ==
    ASSUME RecoveryKept, Safe!Next
    PROVE  RecoveryKept'
    BY OthersCall, SomeoneSleeps, CacheCleared, FailureHandled, ServiceRestored, DriverStarts, DriverRuns,
        DriverLost, DriverDone, EverybodyIs DEF Safe!Next, Safe!Ops

LEMMA RecoveryInit == MCInit => RecoveryInv
<1> SUFFICES ASSUME MCInit PROVE RecoveryKept
    BY DEF RecoveryInv
<1>1. /\ local = NoAgent /\ exec = NoAgent /\ kept = {} /\ made = 0
      /\ transfer = NoAgent /\ files = {}
      /\ cache = [o \in Acts |-> NoAgent] /\ asking = [x \in Everybody |-> NoAgent]
      /\ answers = [o \in Acts |-> {}] /\ log = [attempted |-> 0, success |-> 0, failed |-> 0]
    BY EverybodyIs DEF MCInit, Safe!Init, Safe!Ops
<1>2. \A x \in Everybody : asking[x] = NoAgent
    BY <1>1
<1>3. \A o \in Acts : cache[o] = NoAgent /\ answers[o] = {}
    BY <1>1
<1>4. \A o \in Acts : AnsweredOnce(o)
    BY <1>2, <1>3 DEF AnsweredOnce
<1>5. Answering
    BY <1>1, <1>4 DEF Answering
<1>6. Believed
    BY <1>1 DEF Believed, Aligned, Covering
<1>7. DriverInStep
    BY <1>2, ConductorIs DEF DriverInStep
<1>8. LogKept
    BY <1>1 DEF LogKept
<1> QED
    BY <1>5, <1>6, <1>7, <1>8 DEF RecoveryKept

LEMMA RecoveryInvariance == RecoveryInv /\ [MCNext]_allVars => RecoveryInv'
<1> SUFFICES ASSUME RecoveryInv, [MCNext]_allVars, part' = "recover" PROVE RecoveryKept'
    BY DEF RecoveryInv
<1>1. CASE MCNext
  <2>1. part = "recover" /\ RecoveryKept
      BY <1>1 DEF MCNext, RecoveryInv
  <2>2. Safe!Next
      BY <1>1, <2>1 DEF MCNext, Work, Govern
  <2> QED
      BY <2>1, <2>2, RecoveryStep
<1>2. CASE UNCHANGED allVars
  <2>1. part = "recover" /\ UNCHANGED recoverVars
      BY <1>2 DEF allVars, agentVars
  <2>2. Answering /\ Believed /\ DriverInStep /\ LogKept
      BY <2>1 DEF RecoveryInv, RecoveryKept
  <2>3. Answering' /\ Believed'
      BY <2>1, <2>2, AnswersLeft, BelievedLeft DEF recoverVars
  <2> QED
      BY <2>1, <2>2, <2>3 DEF RecoveryKept, DriverInStep, LogKept, recoverVars
<1> QED
    BY <1>1, <1>2

(* What is claimed of the recovery.                                        *)
LEMMA RecoveryClaims ==
    ASSUME RecoveryKept
    PROVE  Safe!TypeOK /\ Safe!OneAnswer /\ Safe!FiledWhereRun /\ Safe!LineageSound /\ Safe!NothingFiledLost
<1>1. Answering /\ Believed /\ LogKept
    BY DEF RecoveryKept
<1>2. Safe!TypeOK
  <2>1. \A x \in Everybody : asking[x] # NoAgent => asking[x] \in Attempts
      BY <1>1 DEF Answering
  <2>2. \A x \in Everybody : asking[x] # NoAgent =>
            asking[x].op \in Acts /\ asking[x].attempt \in 1 .. MaxTries
      BY <2>1 DEF Attempts
  <2>3. exec # NoAgent => exec.ctx \in files /\ exec.stage \in Acts
      BY <1>1, ExecutionIs
  <2>4. Safe!RetryCount = 2 * log.attempted
    <3>1. log.attempted \in Nat /\ log.success \in Nat /\ log.failed \in Nat
          /\ log.success + log.failed = log.attempted
        BY <1>1 DEF LogKept
    <3> QED
        BY <3>1 DEF Safe!RetryCount
  <2>5. local # NoAgent => exec # NoAgent
      BY <1>1 DEF Believed
  <2> QED
      BY <2>2, <2>3, <2>4, <2>5, EverybodyIs DEF Safe!TypeOK, Safe!Ops
<1>3. Safe!OneAnswer
  <2> SUFFICES ASSUME NEW o \in Acts \ shared PROVE Safe!Cardinality(answers[o]) <= 1
      BY DEF Safe!OneAnswer, Safe!Ops
  <2>1. AnsweredOnce(o)
      BY <1>1 DEF Answering
  <2>2. answers[o] = {} \/ answers[o] = {cache[o]}
      BY <2>1 DEF AnsweredOnce
  <2>3. Cardinality({}) = 0 /\ Cardinality({cache[o]}) = 1
      BY FS_EmptySet, FS_Singleton
  <2>4. Cardinality(answers[o]) <= 1
      BY <2>2, <2>3
  <2> QED
      BY <2>4, SafeCardinality
<1>4. Safe!FiledWhereRun
    BY <1>1 DEF Believed, FiledIn, Safe!FiledWhereRun
<1>5. Safe!LineageSound
    BY <1>1 DEF Believed, LineageOf, Safe!LineageSound, Safe!LineageComplete
<1>6. Safe!NothingFiledLost
    BY <1>1 DEF Believed, Covering, Covers, Safe!NothingFiledLost
<1> QED
    BY <1>2, <1>3, <1>4, <1>5, <1>6

(* A stage starts only after every stage its inputs come from succeeded,   *)
(* and instances and quotas are given back but for those of starts that    *)
(* were cancelled; an operation that is not run by two calls at once has   *)
(* one answer, and what an execution merged is filed where it was run, has *)
(* its lineage and is not lost.                                            *)
THEOREM WorkflowsAreSound == MCSpec => []WorkflowSound
<1>1. WorkflowInv /\ RecoveryInv => WorkflowSound
    BY WorkflowClaims, RecoveryClaims DEF WorkflowInv, RecoveryInv, WorkflowSound
<1>2. MCSpec => []WorkflowInv
    BY WorkflowInit, WorkflowInvariance, PTL DEF MCSpec
<1>3. MCSpec => []RecoveryInv
    BY RecoveryInit, RecoveryInvariance, PTL DEF MCSpec
<1> QED
    BY <1>1, <1>2, <1>3, PTL

-----------------------------------------------------------------------------
(* The entropy governance: sweeps *)

Batches == [at : {"next", "run", "record"}, todo : Seq(Cleanups), batch : Seq(Cleanups),
            saves : BOOLEAN]
Savings == [at : {"save"}, todo : Seq(Cleanups)]
Sweepers == {Engine!Idle} \cup Batches \cup Savings

(* A thread that is past the check has an action at hand.                  *)
SweepTypes ==
    /\ sweepStatus \in [Cleanups -> {"unplanned", "pending", "running", "completed", "failed"}]
    /\ sweeping \subseteq Cleanups
    /\ sweeper \in [Minders -> Sweepers]
    /\ \A t \in Minders : sweeper[t].at \in {"run", "record", "save"} => sweeper[t].todo # <<>>

(* Two threads that execute have different actions, and the actions they   *)
(* have are those that are entered and marked as running.                  *)
Executes(t) == sweeper[t].at = "run"
HandsApart ==
    /\ \A t, u \in Minders : Executes(t) /\ Executes(u) /\ t # u =>
          Engine!Current(t) # Engine!Current(u)
    /\ \A x \in Cleanups : x \in sweeping <=> \E t \in Minders : Executes(t) /\ x = Engine!Current(t)
    /\ \A x \in Cleanups : sweepStatus[x] = "running" <=> x \in sweeping

SweepInv == SweepTypes /\ HandsApart

-----------------------------------------------------------------------------
(* Its alerts *)

Rings == [rule : Alarms, at : Nat]
Notes == [rule : Alarms, at : Nat, ack : BOOLEAN]
Loops == {Engine!Idle} \cup [at : {"top", "sleep"}] \cup [at : {"check"}, now : Nat]
            \cup [at : {"save"}, left : Seq(Rings)]
Among(x, list) == \E i \in DOMAIN list : list[i] = x
Rung(x) == Among(x, raised)

WatchTypes ==
    /\ hour \in Nat
    /\ lastFired \in [Alarms -> Nat \cup {NoAgent}]
    /\ alerts \in Seq(Notes) /\ Len(alerts) <= Shown
    /\ raised \in Seq(Rings)
    /\ looping \in [Minders -> Loops]

(* What is saved or waits for it has been raised; the last alert of a rule *)
(* is the one its cooldown is counted from.                                *)
Spaced ==
    /\ \A x \in alertRows : Rung(x)
    /\ \A t \in Minders : looping[t].at = "save" =>
          \A i \in DOMAIN looping[t].left : Rung(looping[t].left[i])
    /\ \A i \in DOMAIN raised :
          lastFired[raised[i].rule] # NoAgent /\ raised[i].at <= lastFired[raised[i].rule]
    /\ \A i, j \in DOMAIN raised : i < j /\ raised[i].rule = raised[j].rule =>
          raised[j].at - raised[i].at >= Pause

WatchInv == WatchTypes /\ Spaced

-----------------------------------------------------------------------------
(* Its samples and thresholds *)

Samples == [made : Nat, at : Nat]
Adders == {Engine!Idle} \cup [at : {"save"}, sample : Samples]
             \cup [at : {"load"}, left : Seq(Samples)]

Pending(x) == \E t \in Minders : adding[t] = Engine!ToSave(x)
Awaited(x) == \E t \in Minders : adding[t].at = "load" /\ Among(x, adding[t].left)
Known(x) == x \in rows \/ Among(x, samples) \/ Pending(x) \/ Awaited(x)
Full(R, x) == Cardinality(R) = Table /\ \A y \in R : x.at <= y.at
Filed(x) == x \in rows \/ Full(rows, x)

SampleTypes ==
    /\ samples \in Seq(Samples) /\ Len(samples) <= Window
    /\ rows \subseteq Samples /\ IsFiniteSet(rows)
    /\ adding \in [Minders -> Adders]
    /\ \A n \in taken : n \in Nat /\ n <= hour

(* The latest sample that is known was made by now, and without the times  *)
(* of callers a sample has the time it was made at.                        *)
KnownSound == \A x : Known(x) => x.made <= hour /\ (~ dated => x.at = x.made)

(* Until something is loaded the samples are in order, and what is known   *)
(* and newer than one of them was made since the start.                    *)
SamplesOrdered ==
    ~ loaded =>
        /\ \A t \in Minders : adding[t].at # "load"
        /\ \A i, j \in DOMAIN samples : i < j => samples[i].made < samples[j].made
        /\ ~ dated => \A x : Known(x) => \A i \in DOMAIN samples :
              x.made > samples[i].made => x.made \in taken
        /\ ~ dated => \A n \in taken :
              \/ \E i \in DOMAIN samples : samples[i].made = n
              \/ samples # <<>> /\ \A i \in DOMAIN samples : n < samples[i].made

(* A sample is in the table, or on its way to it, or crowded out of it.    *)
Held(x) == \/ x \in rows \cup unsaved \/ Pending(x)
           \/ (loaded \/ dated) /\ Full(rows, x)
SamplesSaved ==
    /\ \A x : Among(x, samples) => Held(x)
    /\ \A x : Awaited(x) => Filed(x)

SamplesKept == SampleTypes /\ KnownSound /\ SamplesOrdered /\ SamplesSaved

(* The warning stays below what it is adapted to at most, the emergency    *)
(* above what it is adapted to at least, so that between them there is     *)
(* room for the critical level.                                            *)
Highest(base) == base + (10000 - base) \div 20 + 500
Lowest(base) == base - base \div 10
LevelsApart ==
    /\ threshold \in [warning : Nat, critical : Nat, emergency : Nat]
    /\ 0 < threshold.warning /\ threshold.warning <= Highest(Levels.warning)
    /\ threshold.warning < threshold.critical
    /\ threshold.critical < threshold.emergency
    /\ Lowest(Levels.emergency) <= threshold.emergency /\ threshold.emergency <= 10000

AdaptInv == hour \in Nat /\ SamplesKept /\ LevelsApart

-----------------------------------------------------------------------------
(* Its books *)

Records == [topic : Themes, truth : BOOLEAN, indexed : BOOLEAN]
CardRecords == [status : {"draft", "doing", "done"}, path : BOOLEAN,
                deliverable : BOOLEAN, adrs : SUBSET Decrees]

BooksKept ==
    /\ cards \in [Cases -> CardRecords \cup {NoAgent}]
    /\ outputs \in [Results -> Records \cup {NoAgent}]
    /\ topics \in [Themes -> SUBSET Results]
    /\ \A p \in Themes : \A o \in topics[p] : outputs[o] # NoAgent
    /\ \A o \in Results : outputs[o] # NoAgent => o \in topics[outputs[o].topic]

GovernanceInv == SweepInv /\ WatchInv /\ AdaptInv /\ BooksKept

-----------------------------------------------------------------------------
(* A step of the other parts leaves the books and the state of the others  *)
(* in the governance alone; the clock only goes on.                        *)
LEMMA GovernanceMoves ==
    ASSUME [MCNext]_allVars
    PROVE  /\ UNCHANGED bookVars \/ Books!BooksNext
           /\ UNCHANGED Engine!sweepVars \/ Engine!Sweep
           /\ UNCHANGED <<Engine!alertVars, hour>> \/ Engine!Watch
                \/ (UNCHANGED Engine!alertVars /\ (Engine!Collect \/ Engine!Adapt))
           /\ UNCHANGED <<Engine!sampleVars, hour>> \/ Engine!Collect \/ Engine!Adapt
                \/ (UNCHANGED Engine!sampleVars /\ Engine!Watch)
<1>1. UNCHANGED bookVars \/ Books!BooksNext
  BY DEF MCNext, Work, Govern, allVars
<1>2. \/ UNCHANGED engineVars
      \/ Engine!Sweep \/ Engine!Watch \/ Engine!Collect \/ Engine!Adapt
  BY DEF MCNext, Work, Govern, allVars
<1>3. ASSUME UNCHANGED engineVars
      PROVE  UNCHANGED <<Engine!sweepVars, Engine!alertVars, Engine!sampleVars, hour>>
  BY <1>3 DEF engineVars, Engine!sweepVars, Engine!alertVars, Engine!sampleVars,
              Engine!levelVars, Engine!recordVars
<1>4. Engine!Sweep => UNCHANGED <<Engine!alertVars, Engine!sampleVars, hour>>
  BY DEF Engine!Sweep
<1>5. Engine!Watch => UNCHANGED <<Engine!sweepVars, Engine!sampleVars>>
  BY DEF Engine!Watch
<1>6. Engine!Collect \/ Engine!Adapt => UNCHANGED <<Engine!sweepVars, Engine!alertVars>>
  BY DEF Engine!Collect, Engine!Adapt
<1> QED
  BY <1>1, <1>2, <1>3, <1>4, <1>5, <1>6

LEMMA BooksInit == MCInit => BooksKept
<1> SUFFICES ASSUME MCInit PROVE BooksKept
  OBVIOUS
<1> QED
  BY DEF MCInit, Books!BooksInit, BooksKept

(* An entry of the books is none or a record.                              *)
LEMMA EntryIs ==
    ASSUME BooksKept
    PROVE  /\ \A t \in Cases : cards[t] # NoAgent => cards[t] \in CardRecords
           /\ \A o \in Results : outputs[o] # NoAgent => outputs[o] \in Records
  BY DEF BooksKept

LEMMA CardWritten ==
    ASSUME BooksKept, NEW t \in Cases, NEW x \in CardRecords,
           cards' = [cards EXCEPT ![t] = x], UNCHANGED <<outputs, topics>>
    PROVE  BooksKept'
  BY DEF BooksKept

LEMMA ResultWritten ==
    ASSUME BooksKept, NEW o \in Results, NEW x \in Records,
           outputs' = [outputs EXCEPT ![o] = x], UNCHANGED cards,
           \/ UNCHANGED topics /\ outputs[o] # NoAgent /\ x.topic = outputs[o].topic
           \/ topics' = [topics EXCEPT ![x.topic] = @ \cup {o}]
    PROVE  BooksKept'
<1>1. x # NoAgent /\ x.topic \in Themes
  BY BooksAssumption DEF Records
<1>2. outputs' \in [Results -> Records \cup {NoAgent}] /\ topics' \in [Themes -> SUBSET Results]
  BY <1>1 DEF BooksKept
<1>3. ASSUME NEW p \in Themes, NEW y \in topics'[p]
      PROVE  outputs'[y] # NoAgent
  BY <1>1, <1>3 DEF BooksKept
<1>4. ASSUME NEW y \in Results, outputs'[y] # NoAgent
      PROVE  y \in topics'[outputs'[y].topic]
  <2>1. CASE y = o
    BY <1>1, <1>2, <2>1 DEF BooksKept
  <2>2. CASE y # o
    <3>1. outputs'[y] = outputs[y] /\ outputs[y].topic \in Themes
      BY <1>4, <2>2, EntryIs DEF BooksKept, Records
    <3>2. y \in topics[outputs[y].topic]
      BY <1>4, <3>1 DEF BooksKept
    <3> QED
      BY <3>1, <3>2, <1>1 DEF BooksKept
  <2> QED
    BY <2>1, <2>2
<1>5. UNCHANGED cards
  OBVIOUS
<1> QED
  BY <1>2, <1>3, <1>4, <1>5 DEF BooksKept

LEMMA BooksStep == ASSUME BooksKept, Books!BooksNext PROVE BooksKept'
<1>1. ASSUME NEW t \in Cases, NEW path \in BOOLEAN, Books!RegisterTask(t, path)
      PROVE  BooksKept'
  <2> DEFINE x == [status |-> "draft", path |-> path, deliverable |-> FALSE, adrs |-> {}]
  <2>1. x \in CardRecords
    BY DEF CardRecords
  <2>2. cards' = [cards EXCEPT ![t] = x] /\ UNCHANGED <<outputs, topics>>
    BY <1>1 DEF Books!RegisterTask
  <2> HIDE DEF x
  <2> QED
    BY <2>1, <2>2, CardWritten
<1>2. ASSUME NEW t \in Cases, NEW path \in BOOLEAN, Books!AttachDeliverable(t, path)
      PROVE  BooksKept'
  <2> DEFINE x == [cards[t] EXCEPT !.deliverable = TRUE, !.path = IF path THEN TRUE ELSE @]
  <2>1. x \in CardRecords
    BY <1>2, EntryIs DEF Books!AttachDeliverable, CardRecords
  <2>2. cards' = [cards EXCEPT ![t] = x] /\ UNCHANGED <<outputs, topics>>
    BY <1>2 DEF Books!AttachDeliverable, BooksKept
  <2> HIDE DEF x
  <2> QED
    BY <2>1, <2>2, CardWritten
<1>3. ASSUME NEW t \in Cases, NEW s \in {"doing", "done"}, Books!UpdateStatus(t, s)
      PROVE  BooksKept'
  <2> DEFINE x == [cards[t] EXCEPT !.status = s]
  <2>1. x \in CardRecords
    BY <1>3, EntryIs DEF Books!UpdateStatus, CardRecords
  <2>2. cards' = [cards EXCEPT ![t] = x] /\ UNCHANGED <<outputs, topics>>
    BY <1>3 DEF Books!UpdateStatus, BooksKept
  <2> HIDE DEF x
  <2> QED
    BY <2>1, <2>2, CardWritten
<1>4. ASSUME NEW t \in Cases, NEW x0 \in Decrees, Books!AddAdr(t, x0)
      PROVE  BooksKept'
  <2> DEFINE x == [cards[t] EXCEPT !.adrs = @ \cup {x0}]
  <2>1. x \in CardRecords
    BY <1>4, EntryIs DEF Books!AddAdr, CardRecords
  <2>2. cards' = [cards EXCEPT ![t] = x] /\ UNCHANGED <<outputs, topics>>
    BY <1>4 DEF Books!AddAdr, BooksKept
  <2> HIDE DEF x
  <2> QED
    BY <2>1, <2>2, CardWritten
<1>5. ASSUME NEW o \in Results, NEW p \in Themes, Books!RegisterOutput(o, p)
      PROVE  BooksKept'
  <2> DEFINE x == [topic |-> p, truth |-> TRUE, indexed |-> FALSE]
  <2>1. x \in Records /\ x.topic = p
    BY DEF Records
  <2>2. /\ outputs' = [outputs EXCEPT ![o] = x] /\ UNCHANGED cards
        /\ topics' = [topics EXCEPT ![p] = @ \cup {o}]
    BY <1>5 DEF Books!RegisterOutput, Books!Indexed
  <2> HIDE DEF x
  <2> QED
    BY <2>1, <2>2, ResultWritten
<1>6. ASSUME NEW o \in Results, NEW v \in BOOLEAN, Books!MarkOutputIndexed(o, v)
      PROVE  BooksKept'
  <2> DEFINE x == [outputs[o] EXCEPT !.indexed = v]
  <2>1. x \in Records /\ x.topic = outputs[o].topic /\ outputs[o] # NoAgent
    BY <1>6, EntryIs DEF Books!MarkOutputIndexed, Records
  <2>2. outputs' = [outputs EXCEPT ![o] = x] /\ UNCHANGED <<cards, topics>>
    BY <1>6 DEF Books!MarkOutputIndexed, BooksKept
  <2> HIDE DEF x
  <2> QED
    BY <2>1, <2>2, ResultWritten
<1>7. ASSUME NEW o \in Results, Books!SupersedeOutput(o)
      PROVE  BooksKept'
  <2> DEFINE x == [outputs[o] EXCEPT !.truth = FALSE]
  <2>1. x \in Records /\ x.topic = outputs[o].topic /\ outputs[o] # NoAgent
    BY <1>7, EntryIs DEF Books!SupersedeOutput, Records
  <2>2. outputs' = [outputs EXCEPT ![o] = x] /\ UNCHANGED <<cards, topics>>
    BY <1>7 DEF Books!SupersedeOutput, BooksKept
  <2> HIDE DEF x
  <2> QED
    BY <2>1, <2>2, ResultWritten
<1>8. ASSUME UNCHANGED <<cards, outputs, topics>>
      PROVE  BooksKept'
  BY <1>8 DEF BooksKept
<1>9. ASSUME NEW i \in Papers, Books!RegisterInboxItem(i) \/ Books!ResolveInboxItem(i)
      PROVE  BooksKept'
  BY <1>8, <1>9 DEF Books!RegisterInboxItem, Books!ResolveInboxItem
<1>10. ASSUME Books!RecordRework \/ Books!DayPasses
       PROVE  BooksKept'
  BY <1>8, <1>10 DEF Books!RecordRework, Books!DayPasses
<1> QED
  BY <1>1, <1>2, <1>3, <1>4, <1>5, <1>6, <1>7, <1>9, <1>10 DEF Books!BooksNext

(* What the books are kept for: two truths of one topic stand in one entry *)
(* of the index, which a plan then merges.                                 *)
LEMMA BooksCardinality == \A S : Books!Cardinality(S) = Cardinality(S)
  BY DEF Books!Cardinality, Cardinality

LEMMA BooksClaims == BooksKept => Books!BooksTypeOK /\ Books!SweepMissesNothing
<1> SUFFICES ASSUME BooksKept PROVE Books!BooksTypeOK /\ Books!SweepMissesNothing
  OBVIOUS
<1>1. Books!BooksTypeOK
  BY EntryIs DEF Books!BooksTypeOK, BooksKept, CardRecords
<1>2. ASSUME NEW o \in Results, NEW q \in Results, o # q,
             outputs[o] # NoAgent, outputs[q] # NoAgent,
             outputs[o].topic = outputs[q].topic, outputs[o].truth, outputs[q].truth
      PROVE  "merge" \in Books!Plan
  <2> DEFINE p == outputs[o].topic
             true == {x \in topics[p] : outputs[x].truth}
             twice == {y \in Themes : Books!Cardinality({x \in topics[y] : outputs[x].truth}) > 1}
  <2>1. p \in Themes /\ topics[p] \subseteq Results /\ o \in topics[p] /\ q \in topics[p]
    BY <1>2, EntryIs DEF BooksKept, Records
  <2>2. IsFiniteSet(true)
    BY <2>1, FS_Subset, BooksAssumption
  <2>3. {o, q} \subseteq true
    BY <1>2, <2>1
  <2>4. Cardinality({o, q}) = 2
    <3>1. IsFiniteSet({o}) /\ Cardinality({o}) = 1
      BY FS_Singleton
    <3>2. {o, q} = {o} \cup {q} /\ q \notin {o}
      BY <1>2
    <3> QED
      BY <3>1, <3>2, FS_AddElement
  <2>5. Cardinality(true) >= 2
    BY <2>2, <2>3, <2>4, FS_Subset
  <2>6. Cardinality(true) \in Nat
    BY <2>2, FS_CardinalityType
  <2>7. p \in twice
    <3>1. Books!Cardinality(true) > 1
      BY <2>5, <2>6, BooksCardinality
    <3> QED
      BY <2>1, <3>1
  <2>8. IsFiniteSet(twice) /\ twice # {}
    BY <2>7, FS_Subset, BooksAssumption
  <2>9. Cardinality(twice) \in Nat /\ Cardinality(twice) # 0
    BY <2>8, FS_CardinalityType, FS_EmptySet
  <2>10. Books!Metrics.duplicates = Cardinality(twice)
    BY BooksCardinality DEF Books!Metrics
  <2>11. Books!Metrics.duplicates > 0
    BY <2>9, <2>10
  <2> QED
    BY <2>11 DEF Books!Plan
<1> QED
  BY <1>1, <1>2 DEF Books!SweepMissesNothing

-----------------------------------------------------------------------------
(* Numbers divided by 10, 20 and 100.                                      *)
LEMMA Shares ==
    \A n \in Nat :
        /\ n \div 10 \in Nat /\ 10 * (n \div 10) <= n /\ n < 10 * (n \div 10) + 10
        /\ n \div 20 \in Nat /\ 20 * (n \div 20) <= n /\ n < 20 * (n \div 20) + 20
        /\ n \div 100 \in Nat /\ 100 * (n \div 100) <= n /\ n < 100 * (n \div 100) + 100
  OBVIOUS

LEMMA Smaller == \A x, y \in Int : /\ Engine!Least2(x, y) \in {x, y}
                                   /\ Engine!Least2(x, y) <= x /\ Engine!Least2(x, y) <= y
                                   /\ Engine!Most2(x, y) \in {x, y}
                                   /\ Engine!Most2(x, y) >= x /\ Engine!Most2(x, y) >= y
  BY DEF Engine!Least2, Engine!Most2

(* A level is between 0.1 and 1.                                           *)
Base10(base) == 1000 <= base /\ base <= 10000

(* The reaches of a level, without the divisions.                          *)
LEMMA ReachIs ==
    ASSUME NEW base \in Nat, Base10(base)
    PROVE  /\ Highest(base) \in Nat /\ Lowest(base) \in Nat
           /\ base <= Highest(base) /\ Lowest(base) <= base
           /\ 10000 - base < 20 * (Highest(base) - base - 500) + 20
           /\ base < 10 * (base - Lowest(base)) + 10
<1> DEFINE e == (10000 - base) \div 20
           f == base \div 10
<1>1. base \in Nat /\ 10000 - base \in Nat
  BY DEF Base10
<1>2. /\ e \in Nat /\ 10000 - base < 20 * e + 20
      /\ f \in Nat /\ 10 * f <= base /\ base < 10 * f + 10
  BY <1>1, Shares
<1>3. Highest(base) = base + e + 500 /\ Lowest(base) = base - f
  BY DEF Highest, Lowest
<1> HIDE DEF e, f
<1> QED
  BY <1>1, <1>2, <1>3

(* What a level is adapted to lies between its reaches.                    *)
LEMMA AdaptiveIs ==
    ASSUME NEW base \in Nat, Base10(base), NEW mean \in Nat, mean <= 10000,
           NEW dev \in Nat, dev <= 5000
    PROVE  /\ Engine!Adaptive(base, mean, dev) \in Nat
           /\ Engine!Adaptive(base, mean, dev) <= 10000
           /\ Engine!Adaptive(base, mean, dev) <= Highest(base)
           /\ Lowest(base) <= Engine!Adaptive(base, mean, dev)
<1> DEFINE x == Engine!Adaptive(base, mean, dev)
           high == Highest(base)
           low == Lowest(base)
<1>1. /\ base \in Nat /\ mean \in Nat /\ dev \in Nat
      /\ 1000 <= base /\ base <= 10000 /\ mean <= 10000 /\ dev <= 5000
  BY DEF Base10
<1>2. /\ high \in Nat /\ low \in Nat /\ base <= high /\ low <= base
      /\ 10000 - base < 20 * (high - base - 500) + 20
      /\ base < 10 * (base - low) + 10
  BY ReachIs
<1> HIDE DEF high, low
<1>3. ASSUME mean < base
      PROVE  x \in Nat /\ x <= 10000 /\ x <= high /\ low <= x
  <2> DEFINE e == (base - mean) \div 10
  <2>1. base - mean \in Nat
    BY <1>1, <1>3
  <2>2. e \in Nat /\ 10 * e <= base - mean
    BY <2>1, Shares
  <2>3. x = Engine!Most2(1000, base - e)
    BY <1>1, <1>3 DEF Engine!Adaptive
  <2> HIDE DEF e
  <2>4. x \in {1000, base - e} /\ x >= 1000 /\ x >= base - e
    BY <2>2, <2>3, <1>1, Smaller
  <2> HIDE DEF x
  <2>5. low <= base - e
    BY <1>1, <1>2, <2>2
  <2> QED
    BY <1>1, <1>2, <2>2, <2>4, <2>5
<1>4. ASSUME mean > base
      PROVE  x \in Nat /\ x <= 10000 /\ x <= high /\ low <= x
  <2> DEFINE e == (mean - base) \div 20
             f == dev \div 10
  <2>1. mean - base \in Nat
    BY <1>1, <1>4
  <2>2. e \in Nat /\ 20 * e <= mean - base /\ f \in Nat /\ 10 * f <= dev
    BY <2>1, <1>1, Shares
  <2>3. x = Engine!Least2(10000, base + e + f)
    BY <1>1, <1>4 DEF Engine!Adaptive
  <2> HIDE DEF e, f
  <2>4. x \in {10000, base + e + f} /\ x <= 10000 /\ x <= base + e + f
    BY <2>2, <2>3, <1>1, Smaller
  <2> HIDE DEF x
  <2>5. base + e + f <= high
    BY <2>2, <1>1, <1>2
  <2> QED
    BY <1>1, <1>2, <2>2, <2>4, <2>5
<1>5. ASSUME mean = base
      PROVE  x \in Nat /\ x <= 10000 /\ x <= high /\ low <= x
  <2>1. x = base
    BY <1>1, <1>5 DEF Engine!Adaptive
  <2> HIDE DEF x
  <2> QED
    BY <1>1, <1>2, <2>1
<1>6. mean < base \/ mean > base \/ mean = base
  BY <1>1
<1>7. x \in Nat /\ x <= 10000 /\ x <= high /\ low <= x
  BY <1>3, <1>4, <1>5, <1>6
<1> QED
  BY <1>7 DEF x, high, low

(* A clamped level lies between the old and the new one, and above 70 % of *)
(* the old one.                                                            *)
Between(x, old, new) ==
    x \in Nat /\ 10 * x >= 7 * old /\ (x <= old \/ x <= new) /\ (x >= old \/ x >= new)

LEMMA ClampedIs ==
    ASSUME NEW old \in Nat, NEW new \in Nat PROVE Between(Engine!Clamped(old, new), old, new)
<1> DEFINE e == (old * 3) \div 10
           x == Engine!Clamped(old, new)
           y == Engine!Least2(old + e, new)
<1>1. old * 3 \in Nat /\ e \in Nat /\ 10 * e <= old * 3
  BY Shares
<1>2. x = Engine!Most2(old - e, y)
  BY DEF Engine!Clamped
<1> HIDE DEF e
<1>3. y \in {old + e, new} /\ y <= old + e /\ y <= new
  BY <1>1, Smaller
<1> HIDE DEF y, x
<1>4. x \in {old - e, y} /\ x >= old - e /\ x >= y
  BY <1>1, <1>2, <1>3, Smaller
<1>5. Between(x, old, new)
  BY <1>1, <1>3, <1>4 DEF Between
<1> QED
  BY <1>5 DEF x

(* An adaptation of one level from an old to a new value.                  *)
Moved(new, old, base) ==
    /\ new \in Nat /\ 10 * new >= 7 * old
    /\ new <= old \/ (new <= Highest(base) /\ new <= 10000)
    /\ new >= old \/ new >= Lowest(base)

LEMMA LevelMoves ==
    ASSUME NEW base \in Nat, Base10(base), NEW mean \in Nat, mean <= 10000,
           NEW dev \in Nat, dev <= 5000,
           NEW old \in Nat
    PROVE  Moved(Engine!Clamped(old, Engine!Adaptive(base, mean, dev)), old, base)
<1> DEFINE x == Engine!Adaptive(base, mean, dev)
<1>1. x \in Nat /\ x <= 10000 /\ x <= Highest(base) /\ Lowest(base) <= x
  BY AdaptiveIs
<1> HIDE DEF x
<1>2. x \in Nat
  BY <1>1
<1> DEFINE y == Engine!Clamped(old, x)
<1>3. y \in Nat /\ 10 * y >= 7 * old /\ (y <= old \/ y <= x) /\ (y >= old \/ y >= x)
  <2>1. Between(y, old, x)
    BY <1>2, ClampedIs
  <2> QED
    BY <2>1 DEF Between
<1> HIDE DEF y
<1>4. Highest(base) \in Nat /\ Lowest(base) \in Nat
  BY ReachIs
<1>5. Moved(y, old, base)
  BY <1>1, <1>3, <1>4 DEF Moved
<1> QED
  BY <1>5 DEF x, y

HasRoom == Highest(Levels.warning) \in Nat /\ Lowest(Levels.emergency) \in Nat
        /\ Highest(Levels.warning) < (Lowest(Levels.emergency) * 95) \div 100

LEMMA ThereIsRoom ==
    /\ HasRoom /\ Levels.warning \in Nat /\ Levels.critical \in Nat /\ Levels.emergency \in Nat
    /\ Base10(Levels.warning) /\ Base10(Levels.critical) /\ Base10(Levels.emergency)
<1>1. /\ Levels.warning \in Nat /\ Levels.critical \in Nat /\ Levels.emergency \in Nat
      /\ Base10(Levels.warning) /\ Base10(Levels.critical) /\ Base10(Levels.emergency)
  BY EntropyAssumption DEF Base10
<1>2. Highest(Levels.warning) \in Nat /\ Lowest(Levels.emergency) \in Nat
  BY <1>1, ReachIs
<1>3. Highest(Levels.warning) < (Lowest(Levels.emergency) * 95) \div 100
  BY EntropyAssumption DEF Highest, Lowest
<1> QED
  BY <1>1, <1>2, <1>3 DEF HasRoom

(* The levels to start from are apart.                                     *)
LevelsAt(x) ==
    /\ x \in [warning : Nat, critical : Nat, emergency : Nat]
    /\ 0 < x.warning /\ x.warning <= Highest(Levels.warning)
    /\ x.warning < x.critical /\ x.critical < x.emergency
    /\ Lowest(Levels.emergency) <= x.emergency /\ x.emergency <= 10000

LEMMA LevelsInit == LevelsAt(Levels)
<1>1. Levels \in [warning : Nat, critical : Nat, emergency : Nat]
  BY EntropyAssumption
<1>2. Levels.warning <= Highest(Levels.warning) /\ Lowest(Levels.emergency) <= Levels.emergency
  BY ThereIsRoom, ReachIs
<1> QED
  BY <1>1, <1>2, ThereIsRoom, EntropyAssumption DEF LevelsAt, Base10

LEMMA LevelsSet == ASSUME threshold' = Levels PROVE LevelsApart'
  BY LevelsInit DEF LevelsAt, LevelsApart

LEMMA LevelsAdapted ==
    ASSUME LevelsApart, NEW mean \in Averages, NEW dev \in Spreads,
           threshold' = Engine!Adapted(mean, dev)
    PROVE  LevelsApart'
<1> DEFINE w == threshold.warning
           k == threshold.critical
           e == threshold.emergency
           nw == Engine!Clamped(w, Engine!Adaptive(Levels.warning, mean, dev))
           nk == Engine!Clamped(k, Engine!Adaptive(Levels.critical, mean, dev))
           ne == Engine!Clamped(e, Engine!Adaptive(Levels.emergency, mean, dev))
           u == Engine!Least2(nw, (nk * 9) \div 10)
           v == Engine!Least2(nk, (ne * 95) \div 100)
           high == Highest(Levels.warning)
           low == Lowest(Levels.emergency)
<1>1. w \in Nat /\ k \in Nat /\ e \in Nat /\ mean \in Nat /\ mean <= 10000
      /\ dev \in Nat /\ dev <= 5000
  BY EntropyAssumption DEF LevelsApart
<1>2. threshold' = [warning |-> u, critical |-> v, emergency |-> ne]
  BY DEF Engine!Adapted
<1>3. /\ Moved(nw, w, Levels.warning) /\ Moved(nk, k, Levels.critical)
      /\ Moved(ne, e, Levels.emergency)
  BY <1>1, LevelMoves, ThereIsRoom
<1>4. /\ 0 < w /\ w <= high /\ w < k /\ low <= e /\ e <= 10000
      /\ high \in Nat /\ low \in Nat /\ high < (low * 95) \div 100
  BY ThereIsRoom DEF LevelsApart, HasRoom
<1>5. /\ nw \in Nat /\ nk \in Nat /\ ne \in Nat
      /\ 10 * nw >= 7 * w /\ 10 * nk >= 7 * k /\ (nw <= w \/ nw <= high)
      /\ (ne <= e \/ ne <= 10000) /\ (ne >= e \/ ne >= low)
  BY <1>3 DEF Moved
<1> HIDE DEF w, k, e, nw, nk, ne, high, low
<1> DEFINE p == (nk * 9) \div 10
           q == (ne * 95) \div 100
           r == (low * 95) \div 100
<1>6. /\ p \in Nat /\ 10 * p <= nk * 9 /\ nk * 9 < 10 * p + 10
      /\ q \in Nat /\ 100 * q <= ne * 95 /\ ne * 95 < 100 * q + 100
      /\ r \in Nat /\ 100 * r <= low * 95
  <2>1. nk * 9 \in Nat /\ ne * 95 \in Nat /\ low * 95 \in Nat
    BY <1>4, <1>5
  <2> QED
    BY <2>1, Shares
<1>7. high < r /\ u = Engine!Least2(nw, p) /\ v = Engine!Least2(nk, q)
  BY <1>4
<1> HIDE DEF p, q, r, u, v
<1>8. u \in {nw, p} /\ u <= nw /\ u <= p /\ v \in {nk, q} /\ v <= nk /\ v <= q
  BY <1>5, <1>6, <1>7, Smaller
<1>9. low <= ne /\ ne <= 10000
  BY <1>1, <1>4, <1>5
<1>10. nw <= high /\ 0 < nw /\ nk >= 2 /\ low > 0 /\ ne > 0
  BY <1>1, <1>4, <1>5, <1>6, <1>7, <1>9
<1>11. q >= r /\ q < ne /\ p < nk /\ p > 0
  BY <1>4, <1>5, <1>6, <1>9, <1>10
<1>12. u \in Nat /\ v \in Nat /\ 0 < u /\ u <= high /\ u < v /\ v < ne
  BY <1>4, <1>5, <1>6, <1>7, <1>8, <1>10, <1>11
<1> QED
  BY <1>2, <1>5, <1>9, <1>12 DEF LevelsApart, high, low

-----------------------------------------------------------------------------
(* The list r is what comes after the first m entries of s, n at most.     *)
LastPart(r, s, n, m) ==
    /\ Len(r) = Len(s) - m /\ Len(r) <= n /\ (n > 0 /\ Len(s) > 0 => m < Len(s))
    /\ \A i \in 1 .. Len(r) : r[i] = s[i + m]

LEMMA LastOfIs ==
    ASSUME NEW S, NEW s \in Seq(S), NEW n \in Nat
    PROVE  /\ Engine!LastOf(s, n) \in Seq(S)
           /\ \E m \in 0 .. Len(s) : LastPart(Engine!LastOf(s, n), s, n, m)
<1> DEFINE m == IF Len(s) > n THEN Len(s) - n ELSE 0
<1>1. Len(s) \in Nat
  OBVIOUS
<1>2. /\ m \in 0 .. Len(s) /\ m \in Nat /\ m <= Len(s) /\ Len(s) - m <= n
      /\ (n > 0 /\ Len(s) > 0 => m < Len(s))
  BY <1>1
<1>3. Engine!LastOf(s, n) = SubSeq(s, m + 1, Len(s))
  BY <1>1 DEF Engine!LastOf
<1> HIDE DEF m
<1>4. SubSeq(s, m + 1, Len(s)) \in Seq(S) /\ Len(SubSeq(s, m + 1, Len(s))) = Len(s) - m
  BY <1>1, <1>2
<1>5. ASSUME NEW i \in 1 .. Len(s) - m PROVE SubSeq(s, m + 1, Len(s))[i] = s[i + m]
  BY <1>1, <1>2
<1>6. LastPart(Engine!LastOf(s, n), s, n, m)
  BY <1>2, <1>3, <1>4, <1>5 DEF LastPart
<1> QED
  BY <1>2, <1>3, <1>4, <1>6

LEMMA SampleCardinality == \A S : Engine!Cardinality(S) = Cardinality(S)
  BY DEF Engine!Cardinality, Cardinality

(* What is found behind the i-th place of a list is no more than that.     *)
LEMMA FewBehind ==
    ASSUME NEW S, NEW r \in Seq(S), NEW i \in 1 .. Len(r), NEW X,
           \A x \in X : \E k \in i + 1 .. Len(r) : r[k] = x
    PROVE  IsFiniteSet(X) /\ Cardinality(X) <= Len(r) - i /\ Cardinality(X) \in Nat
<1> DEFINE D == i + 1 .. Len(r)
           T == {r[k] : k \in D}
           f == [k \in D |-> r[k]]
<1>1. Len(r) \in Nat /\ i \in Nat /\ i <= Len(r)
  OBVIOUS
<1>2. IsFiniteSet(D) /\ Cardinality(D) <= Len(r) - i
  <2>1. i + 1 \in Int /\ Len(r) \in Int
    BY <1>1
  <2>2. /\ IsFiniteSet(D)
        /\ Cardinality(D) = IF i + 1 > Len(r) THEN 0 ELSE Len(r) - (i + 1) + 1
    BY <2>1, FS_Interval
  <2> HIDE DEF D
  <2> QED
    BY <1>1, <2>2
<1>3. f \in Surjection(D, T)
  BY DEF Surjection
<1> HIDE DEF D, f
<1>4. IsFiniteSet(T) /\ Cardinality(T) <= Cardinality(D)
  BY <1>2, <1>3, FS_Surjection
<1>5. X \subseteq T
  BY DEF D
<1> HIDE DEF T
<1>6. IsFiniteSet(X) /\ Cardinality(X) <= Cardinality(T)
  BY <1>4, <1>5, FS_Subset
<1>7. Cardinality(X) \in Nat /\ Cardinality(T) \in Nat /\ Cardinality(D) \in Nat
  BY <1>2, <1>4, <1>6, FS_CardinalityType
<1> QED
  BY <1>1, <1>2, <1>4, <1>6, <1>7

(* The list r is list with its entries at the places g, all those from     *)
(* some place on but for older ones.                                       *)
Thinned(r, list, g) ==
    /\ g \in [1 .. Len(r) -> 1 .. Len(list)]
    /\ \A i \in 1 .. Len(r) : r[i] = list[g[i]]
    /\ \A i, j \in 1 .. Len(r) : i < j => g[i] < g[j]
    /\ \A i \in 1 .. Len(r), j \in 1 .. Len(list) :
          j > g[i] /\ list[j].at >= list[g[i]].at => \E k \in 1 .. Len(r) : g[k] = j

LEMMA PrunedIs ==
    ASSUME NEW S, \A x \in S : x.at \in Int, NEW list \in Seq(S), NEW most \in Nat,
           NEW cutoff \in Int, NEW r \in Engine!Pruned(list, most, cutoff)
    PROVE  /\ r \in Seq(S) /\ Len(r) <= most
           /\ \E g : Thinned(r, list, g)
           /\ most > 0 /\ list # <<>> /\ list[Len(list)].at >= cutoff => r # <<>>
<1>0. /\ Len(list) \in Nat /\ DOMAIN list = 1 .. Len(list)
      /\ \A i \in 1 .. Len(list) : list[i] \in S /\ list[i].at \in Int
  OBVIOUS
<1>1. CASE Len(list) <= most
  <2>1. r = list
    BY <1>1 DEF Engine!Pruned
  <2> DEFINE g == [i \in 1 .. Len(list) |-> i]
  <2>2. Thinned(list, list, g)
    BY <1>0 DEF Thinned
  <2> QED
    BY <1>1, <2>1, <2>2
<1>2. CASE ~ (Len(list) <= most)
  <2> DEFINE recent == {i \in DOMAIN list : list[i].at >= cutoff}
             n == Engine!Cardinality(recent)
  <2>1. PICK f \in Engine!Ascending(recent) :
           r = Engine!LastOf([i \in DOMAIN f |-> list[f[i]]], most)
    BY <1>2 DEF Engine!Pruned
  <2>2. IsFiniteSet(DOMAIN list)
    <3>1. 1 \in Int /\ Len(list) \in Int
      BY <1>0
    <3> QED
      BY <1>0, <3>1, FS_Interval
  <2>3. IsFiniteSet(recent)
    BY <2>2, FS_Subset
  <2>4. n \in Nat /\ n = Cardinality(recent)
    BY <2>3, FS_CardinalityType, SampleCardinality
  <2>5. f \in [1 .. n -> recent] /\ \A i, j \in 1 .. n : i < j => f[i] < f[j]
    BY <2>1 DEF Engine!Ascending
  <2>6. recent \subseteq 1 .. Len(list) /\ \A i \in 1 .. Len(list) : i \in recent <=> list[i].at >= cutoff
    BY <1>0
  <2> HIDE DEF n, recent
  <2>7. \A j \in recent : \E i \in 1 .. n : f[i] = j
    <3>1. \A i, j \in 1 .. n : f[i] = f[j] => i = j
      <4>1. ASSUME NEW i \in 1 .. n, NEW j \in 1 .. n, i # j PROVE f[i] # f[j]
        <5>1. f[i] \in Int /\ f[j] \in Int
          <6>1. f[i] \in recent /\ f[j] \in recent
            BY <2>5
          <6>2. f[i] \in 1 .. Len(list) /\ f[j] \in 1 .. Len(list)
            BY <2>6, <6>1
          <6> QED
            BY <6>2
        <5>2. i < j \/ j < i
          BY <2>4, <4>1
        <5> QED
          BY <2>5, <5>1, <5>2
      <4> QED
        BY <4>1
    <3>2. f \in Injection(1 .. n, recent)
      BY <2>5, <3>1 DEF Injection, IsInjective
    <3>3. Cardinality(1 .. n) = n
      <4>1. 1 \in Int /\ n \in Int
        BY <2>4
      <4>2. Cardinality(1 .. n) = IF 1 > n THEN 0 ELSE n - 1 + 1
        BY <4>1, FS_Interval
      <4> QED
        BY <2>4, <4>2
    <3>4. f \in Surjection(1 .. n, recent)
      BY <2>3, <2>4, <3>2, <3>3, FS_Injection
    <3> QED
      BY <3>4 DEF Surjection
  <2> DEFINE h == [i \in 1 .. n |-> list[f[i]]]
  <2>8. h \in [1 .. n -> S] /\ h \in Seq(S) /\ Len(h) = n
    <3>1. h \in [1 .. n -> S]
      BY <1>0, <2>5, <2>6
    <3> HIDE DEF h
    <3> QED
      BY <2>4, <3>1
  <2>9. r = Engine!LastOf(h, most) /\ \A i \in 1 .. n : h[i] = list[f[i]]
    BY <2>1, <2>5
  <2> HIDE DEF h
  <2>10. r \in Seq(S) /\ \E m \in 0 .. Len(h) : LastPart(r, h, most, m)
    BY <2>8, <2>9, LastOfIs
  <2>11. PICK m \in 0 .. Len(h) : LastPart(r, h, most, m)
    BY <2>10
  <2>12. /\ Len(r) = n - m /\ Len(r) <= most /\ m \in Nat /\ Len(r) \in Nat
         /\ \A i \in 1 .. Len(r) : r[i] = h[i + m]
         /\ (most > 0 /\ n > 0 => m < n)
    <3>1. Len(r) \in Nat /\ m \in Nat
      BY <2>8, <2>10
    <3> QED
      BY <2>8, <2>11, <3>1 DEF LastPart
  <2>13. \A i \in 1 .. Len(r) : i + m \in 1 .. n
    BY <2>4, <2>12
  <2> DEFINE g == [i \in 1 .. Len(r) |-> f[i + m]]
  <2>14. g \in [1 .. Len(r) -> 1 .. Len(list)] /\ \A i \in 1 .. Len(r) : r[i] = list[g[i]]
    BY <2>5, <2>6, <2>9, <2>12, <2>13
  <2>15. ASSUME NEW i \in 1 .. Len(r), NEW j \in 1 .. Len(r), i < j PROVE g[i] < g[j]
    <3>1. i + m \in 1 .. n /\ j + m \in 1 .. n /\ i + m < j + m
      BY <2>12, <2>13, <2>15
    <3> QED
      BY <2>5, <3>1
  <2>16. ASSUME NEW i \in 1 .. Len(r), NEW j \in 1 .. Len(list),
                j > g[i], list[j].at >= list[g[i]].at
         PROVE  \E k \in 1 .. Len(r) : g[k] = j
    <3>1. i + m \in 1 .. n /\ g[i] = f[i + m] /\ g[i] \in recent
      BY <2>5, <2>13
    <3>2. j \in recent
      <4>1. list[g[i]].at >= cutoff /\ list[g[i]].at \in Int /\ list[j].at \in Int
        BY <1>0, <2>6, <3>1
      <4> QED
        BY <2>6, <2>16, <4>1
    <3>3. PICK k \in 1 .. n : f[k] = j
      BY <2>7, <3>2
    <3>4. ~ (k <= i + m)
      <4>1. SUFFICES ASSUME k <= i + m PROVE FALSE
        OBVIOUS
      <4>2. f[k] \in Int /\ f[i + m] \in Int
        <5>1. f[k] \in recent /\ f[i + m] \in recent
          BY <2>5, <3>1
        <5>2. f[k] \in 1 .. Len(list) /\ f[i + m] \in 1 .. Len(list)
          BY <2>6, <5>1
        <5> QED
          BY <5>2
      <4>3. k = i + m \/ k < i + m
        BY <2>12, <4>1
      <4>4. f[k] <= f[i + m]
        BY <2>5, <3>1, <4>2, <4>3
      <4> QED
        BY <2>16, <3>1, <3>3, <4>2, <4>4
    <3>5. k - m \in 1 .. Len(r) /\ (k - m) + m = k
      BY <2>4, <2>12, <3>4
    <3>6. g[k - m] = j
      BY <3>3, <3>5
    <3> QED
      BY <3>5, <3>6
  <2> HIDE DEF g
  <2>17. Thinned(r, list, g)
    BY <2>14, <2>15, <2>16 DEF Thinned
  <2>18. ASSUME most > 0, list # <<>>, list[Len(list)].at >= cutoff PROVE r # <<>>
    <3>1. Len(list) \in 1 .. Len(list)
      BY <1>0, <2>18
    <3>2. Len(list) \in recent
      BY <2>6, <2>18, <3>1
    <3>3. n > 0
      BY <2>4, <2>7, <3>2
    <3>4. Len(r) > 0
      BY <2>4, <2>12, <2>18, <3>3
    <3>5. Len(<<>>) = 0
      OBVIOUS
    <3> QED
      BY <3>4, <3>5
  <2> QED
    BY <2>10, <2>12, <2>17, <2>18
<1> QED
  BY <1>1, <1>2

(* What the prune leaves after a new sample was appended.                  *)
LEMMA CollectedIs ==
    ASSUME SampleTypes, NEW s \in Samples, NEW time \in Nat, NEW r \in Engine!Collected(s, time)
    PROVE  /\ r \in Seq(Samples) /\ Len(r) <= Window
           /\ \E g : Thinned(r, Append(samples, s), g)
           /\ s.at >= time - Lasting => r # <<>>
           /\ \A x : Among(x, r) => Among(x, samples) \/ x = s
<1> DEFINE list == Append(samples, s)
<1>1. samples \in Seq(Samples) /\ Len(samples) \in Nat
  BY DEF SampleTypes
<1>2. /\ list \in Seq(Samples) /\ Len(list) = Len(samples) + 1 /\ list[Len(list)] = s
      /\ \A i \in 1 .. Len(samples) : list[i] = samples[i]
  BY <1>1
<1>3. Window \in Nat /\ Window > 0 /\ Lasting \in Nat /\ time - Lasting \in Int
  BY EntropyAssumption
<1>4. \A x \in Samples : x.at \in Int
  BY DEF Samples
<1>5. r \in Engine!Pruned(list, Window, time - Lasting)
  BY DEF Engine!Collected
<1>6. list # <<>>
  <2>1. Len(<<>>) = 0 /\ Len(list) # 0
    BY <1>1, <1>2
  <2> QED
    BY <2>1
<1> HIDE DEF list
<1>7. /\ r \in Seq(Samples) /\ Len(r) <= Window /\ \E g : Thinned(r, list, g)
      /\ (Window > 0 /\ list # <<>> /\ list[Len(list)].at >= time - Lasting => r # <<>>)
  BY <1>2, <1>3, <1>4, <1>5, PrunedIs
<1>8. PICK g : Thinned(r, list, g)
  BY <1>7
<1>9. ASSUME NEW x, Among(x, r) PROVE Among(x, samples) \/ x = s
  <2>1. PICK i \in 1 .. Len(r) : r[i] = x
    BY <1>7, <1>9 DEF Among
  <2>2. g[i] \in 1 .. Len(list) /\ list[g[i]] = x
    BY <1>8, <2>1 DEF Thinned
  <2>3. CASE g[i] \in 1 .. Len(samples)
    <3>1. samples[g[i]] = x
      BY <1>2, <2>2, <2>3
    <3> QED
      BY <1>1, <2>3, <3>1 DEF Among
  <2>4. CASE g[i] = Len(samples) + 1
    BY <1>2, <2>2, <2>4
  <2> QED
    BY <1>1, <1>2, <2>2, <2>3, <2>4
<1> QED
  BY <1>2, <1>3, <1>6, <1>7, <1>9 DEF list

LEMMA AdaptInit == MCInit => hour \in Nat /\ SamplesKept /\ LevelsApart
<1> SUFFICES ASSUME MCInit PROVE hour \in Nat /\ SamplesKept /\ LevelsApart
  OBVIOUS
<1>1. /\ hour = 0 /\ samples = <<>> /\ rows = {} /\ threshold = Levels
      /\ adding = [t \in Minders |-> Engine!Idle] /\ taken = {}
  BY DEF MCInit, Engine!Init
<1>2. LevelsApart
  BY <1>1, LevelsInit DEF LevelsAt, LevelsApart
<1>3. <<>> \in Seq(Samples) /\ Len(<<>>) = 0 /\ DOMAIN <<>> = {}
  OBVIOUS
<1>4. Window \in Nat /\ IsFiniteSet({})
  BY EntropyAssumption, FS_EmptySet
<1>5. Engine!Idle \in Adders /\ Engine!Idle.at = "idle"
  BY DEF Adders, Engine!Idle
<1>6. SampleTypes
  BY <1>1, <1>3, <1>4, <1>5 DEF SampleTypes
<1>7. \A x : ~ Known(x) /\ ~ Among(x, samples) /\ ~ Awaited(x)
  <2>1. \A x : ~ Pending(x)
    BY <1>1, <1>5 DEF Pending, Engine!ToSave
  <2> QED
    BY <1>1, <1>3, <1>5, <2>1 DEF Known, Awaited, Among
<1>8. KnownSound /\ SamplesSaved
  BY <1>7 DEF KnownSound, SamplesSaved
<1>9. SamplesOrdered
  BY <1>1, <1>3, <1>5 DEF SamplesOrdered
<1> QED
  BY <1>1, <1>2, <1>6, <1>8, <1>9 DEF SamplesKept

(* A known sample is a sample, and an adder is one of three.               *)
LEMMA KnownIs == ASSUME SampleTypes PROVE \A x : Known(x) => x \in Samples
<1> SUFFICES ASSUME NEW x, Known(x) PROVE x \in Samples
  OBVIOUS
<1>1. CASE x \in rows
  BY <1>1 DEF SampleTypes
<1>2. CASE Among(x, samples)
  BY <1>2 DEF Among, SampleTypes
<1>3. CASE Pending(x)
  <2>1. PICK t \in Minders : adding[t] = Engine!ToSave(x)
    BY <1>3 DEF Pending
  <2>2. adding[t] \in Adders /\ adding[t].at = "save" /\ adding[t].sample = x
    BY <2>1 DEF SampleTypes, Engine!ToSave
  <2> QED
    BY <2>2 DEF Adders, Engine!Idle
<1>4. CASE Awaited(x)
  <2>1. PICK t \in Minders : adding[t].at = "load" /\ Among(x, adding[t].left)
    BY <1>4 DEF Awaited
  <2>2. adding[t].left \in Seq(Samples)
    BY <2>1 DEF SampleTypes, Adders, Engine!Idle
  <2> QED
    BY <2>1, <2>2 DEF Among
<1> QED
  BY <1>1, <1>2, <1>3, <1>4 DEF Known

LEMMA SamplesLeft ==
    ASSUME AdaptInv, UNCHANGED Engine!recordVars, hour' \in {hour, hour + 1}
    PROVE  hour' \in Nat /\ SamplesKept'
<1>1. hour \in Nat /\ hour' \in Nat /\ hour <= hour'
  BY DEF AdaptInv
<1>2. UNCHANGED <<samples, rows, adding, taken, unsaved, loaded, dated>>
  BY DEF Engine!recordVars
<1>3. \A x : (Known(x)' <=> Known(x)) /\ (Awaited(x)' <=> Awaited(x)) /\ (Pending(x)' <=> Pending(x))
  BY <1>2 DEF Known, Awaited, Pending, Among
<1>4. SampleTypes'
  BY <1>1, <1>2 DEF AdaptInv, SamplesKept, SampleTypes
<1>5. KnownSound'
  <2>1. ASSUME NEW x, Known(x) PROVE x.made <= hour'
    <3>1. x.made \in Nat /\ x.made <= hour
      BY <2>1, KnownIs DEF AdaptInv, SamplesKept, KnownSound, Samples
    <3> QED
      BY <1>1, <3>1
  <2> QED
    BY <1>2, <1>3, <2>1 DEF AdaptInv, SamplesKept, KnownSound
<1>6. SamplesOrdered'
  BY <1>2, <1>3 DEF AdaptInv, SamplesKept, SamplesOrdered
<1>7. SamplesSaved'
  BY <1>2, <1>3 DEF AdaptInv, SamplesKept, SamplesSaved, Held, Filed, Full, Among
<1> QED
  BY <1>1, <1>4, <1>5, <1>6, <1>7 DEF SamplesKept

(* Of what is not newer than the clock, what is left in order, and without *)
(* a gap, when a new sample is appended.                                   *)
LEMMA SampleOrderKept ==
    ASSUME AdaptInv, NEW s \in Samples, s.made = hour', hour' = hour + 1, ~ loaded,
           samples' \in Engine!Collected(s, hour')
    PROVE  /\ \A i, j \in DOMAIN samples' : i < j => samples'[i].made < samples'[j].made
           /\ ~ dated /\ s.at = hour' => \A n \in taken \cup {hour'} :
                \/ \E i \in DOMAIN samples' : samples'[i].made = n
                \/ samples' # <<>> /\ \A i \in DOMAIN samples' : n < samples'[i].made
<1> DEFINE list == Append(samples, s)
           r == samples'
<1>1. /\ SampleTypes /\ hour \in Nat /\ hour' \in Nat /\ s.made \in Nat /\ s.at \in Nat
      /\ samples \in Seq(Samples) /\ Len(samples) \in Nat
  BY DEF AdaptInv, SamplesKept, SampleTypes, Samples
<1>2. /\ Len(list) = Len(samples) + 1 /\ list[Len(samples) + 1] = s
      /\ \A i \in 1 .. Len(samples) : list[i] = samples[i]
  BY <1>1
<1>3. \A i \in 1 .. Len(samples) :
         /\ samples[i] \in Samples /\ Known(samples[i]) /\ samples[i].made \in Nat
         /\ samples[i].at \in Nat /\ samples[i].made <= hour
  <2>1. ASSUME NEW i \in 1 .. Len(samples) PROVE samples[i] \in Samples /\ Known(samples[i])
    BY <1>1, <2>1 DEF Known, Among
  <2> QED
    BY <2>1 DEF AdaptInv, SamplesKept, KnownSound, Samples
<1>4. \A i, j \in 1 .. Len(samples) : i < j => samples[i].made < samples[j].made
  BY <1>1 DEF AdaptInv, SamplesKept, SamplesOrdered
<1>5. \A i \in 1 .. Len(list) : i \in 1 .. Len(samples) \/ i = Len(samples) + 1
  BY <1>1, <1>2
<1>6. ASSUME NEW i \in 1 .. Len(list), NEW j \in 1 .. Len(list), i < j
      PROVE  list[i].made < list[j].made
  <2>1. CASE j \in 1 .. Len(samples)
    <3>1. i \in 1 .. Len(samples)
      BY <1>1, <1>5, <1>6, <2>1
    <3> QED
      BY <1>2, <1>4, <1>6, <2>1, <3>1
  <2>2. CASE j = Len(samples) + 1
    <3>1. i \in 1 .. Len(samples)
      BY <1>1, <1>5, <1>6, <2>2
    <3> QED
      BY <1>1, <1>2, <1>3, <2>2, <3>1
  <2> QED
    BY <1>5, <2>1, <2>2
<1>7. /\ r \in Seq(Samples) /\ \E g : Thinned(r, list, g)
      /\ (s.at >= hour' - Lasting => r # <<>>)
  BY <1>1, CollectedIs
<1> HIDE DEF list, r
<1>8. PICK g : Thinned(r, list, g)
  BY <1>7
<1>9. /\ DOMAIN r = 1 .. Len(r) /\ Len(r) \in Nat
      /\ \A i \in 1 .. Len(r) : g[i] \in 1 .. Len(list) /\ r[i] = list[g[i]]
      /\ \A i, j \in 1 .. Len(r) : i < j => g[i] < g[j]
  BY <1>7, <1>8 DEF Thinned
<1>10. ASSUME NEW i \in DOMAIN r, NEW j \in DOMAIN r, i < j PROVE r[i].made < r[j].made
  BY <1>6, <1>9, <1>10
<1>11. ASSUME ~ dated, s.at = hour', NEW n \in taken \cup {hour'}
       PROVE  \/ \E i \in DOMAIN r : r[i].made = n
              \/ r # <<>> /\ \A i \in DOMAIN r : n < r[i].made
  <2>1. r # <<>>
    <3>1. Lasting \in Nat
      BY EntropyAssumption
    <3> QED
      BY <1>1, <1>7, <1>11, <3>1
  <2>2. \A i \in 1 .. Len(list) : list[i].at = list[i].made /\ list[i].made \in Nat
    <3>1. \A i \in 1 .. Len(samples) : samples[i].at = samples[i].made
      BY <1>3, <1>11 DEF AdaptInv, SamplesKept, KnownSound
    <3> QED
      BY <1>1, <1>2, <1>3, <1>5, <1>11, <3>1
  <2>3. n \in Nat /\ n <= hour'
    BY <1>1 DEF SampleTypes
  <2>4. CASE \E j \in 1 .. Len(list) : list[j].made = n
    <3>1. PICK j \in 1 .. Len(list) : list[j].made = n
      BY <2>4
    <3>2. SUFFICES ASSUME NEW i \in DOMAIN r, ~ (n < r[i].made)
                   PROVE  \E k \in DOMAIN r : r[k].made = n
      BY <2>1
    <3>3. /\ i \in 1 .. Len(r) /\ g[i] \in 1 .. Len(list) /\ r[i] = list[g[i]]
          /\ g[i] \in Nat /\ j \in Nat
      BY <1>9
    <3>4. list[g[i]].made <= list[j].made
      BY <2>2, <2>3, <3>1, <3>2, <3>3
    <3>5. CASE g[i] = j
      BY <3>1, <3>3, <3>5
    <3>6. CASE g[i] < j
      <4>1. list[j].at >= list[g[i]].at
        BY <2>2, <3>3, <3>4
      <4>2. PICK k \in 1 .. Len(r) : g[k] = j
        BY <1>8, <3>3, <3>6, <4>1 DEF Thinned
      <4> QED
        BY <1>9, <3>1, <4>2
    <3>7. CASE j < g[i]
      <4>1. list[j].made < list[g[i]].made
        BY <1>6, <3>3, <3>7
      <4> QED
        BY <2>2, <3>3, <3>4, <4>1
    <3> QED
      BY <3>3, <3>5, <3>6, <3>7
  <2>5. CASE ~ \E j \in 1 .. Len(list) : list[j].made = n
    <3>1. Len(samples) + 1 \in 1 .. Len(list) /\ n # hour'
      BY <1>1, <1>2, <2>5
    <3>2. n \in taken /\ n <= hour
      BY <1>1, <3>1 DEF SampleTypes
    <3>3. ~ \E i \in DOMAIN samples : samples[i].made = n
      <4>1. DOMAIN samples = 1 .. Len(samples) /\ \A i \in 1 .. Len(samples) : i \in 1 .. Len(list)
        BY <1>1, <1>2
      <4> QED
        BY <1>2, <2>5, <4>1
    <3>4. \A i \in DOMAIN samples : n < samples[i].made
      BY <1>11, <3>2, <3>3 DEF AdaptInv, SamplesKept, SamplesOrdered
    <3>5. \A i \in 1 .. Len(list) : n < list[i].made
      <4>1. DOMAIN samples = 1 .. Len(samples)
        BY <1>1
      <4>2. n < s.made
        BY <1>1, <2>3, <3>2
      <4> QED
        BY <1>2, <1>5, <3>4, <4>1, <4>2
    <3> QED
      BY <1>9, <2>1, <3>5
  <2> QED
    BY <2>4, <2>5
<1> QED
  BY <1>10, <1>11 DEF r

LEMMA SampleRecorded ==
    ASSUME AdaptInv, NEW t \in Minders, NEW given \in {NoAgent} \cup 0 .. MaxHours,
           Engine!Record(t, given)
    PROVE  SamplesKept' /\ hour' \in Nat
<1> DEFINE s == [made |-> hour', at |-> IF given = NoAgent THEN hour' ELSE given]
<1>1. /\ adding[t] = Engine!Idle /\ hour' = hour + 1 /\ hour \in Nat /\ hour' \in Nat
      /\ samples' \in Engine!Collected(s, hour') /\ taken' = taken \cup {hour'}
      /\ adding' = [adding EXCEPT ![t] = Engine!ToSave(s)]
      /\ dated' = (dated \/ given # NoAgent) /\ UNCHANGED <<rows, unsaved, loaded>>
  BY DEF Engine!Record, Engine!Tick, AdaptInv
<1>2. s \in Samples /\ s.made = hour' /\ (~ dated' => ~ dated /\ s.at = hour')
  <2>1. given = NoAgent \/ given \in Nat
    BY EntropyAssumption
  <2> QED
    BY <1>1, <2>1 DEF Samples
<1> HIDE DEF s
<1>3. SampleTypes /\ samples \in Seq(Samples) /\ adding \in [Minders -> Adders]
  BY DEF AdaptInv, SamplesKept, SampleTypes
<1>4. /\ samples' \in Seq(Samples) /\ Len(samples') <= Window
      /\ \A x : Among(x, samples') => Among(x, samples) \/ x = s
  BY <1>1, <1>2, <1>3, CollectedIs
<1>5. Engine!ToSave(s) \in Adders /\ Engine!ToSave(s).at = "save"
  BY <1>2 DEF Adders, Engine!ToSave
<1>6. /\ adding' \in [Minders -> Adders] /\ adding'[t] = Engine!ToSave(s)
      /\ \A u \in Minders : u # t => adding'[u] = adding[u]
  BY <1>1, <1>3, <1>5
<1>7. \A x : (Awaited(x)' => Awaited(x)) /\ (Pending(x)' => Pending(x) \/ x = s)
  <2>1. ASSUME NEW x, Awaited(x)' PROVE Awaited(x)
    BY <1>5, <1>6, <2>1 DEF Awaited
  <2>2. ASSUME NEW x, Pending(x)' PROVE Pending(x) \/ x = s
    BY <1>6, <2>2 DEF Pending, Engine!ToSave
  <2> QED
    BY <2>1, <2>2
<1>8. \A x : Pending(x) \/ x = s => Pending(x)'
  <2>1. Engine!Idle.at = "idle"
    BY DEF Engine!Idle
  <2>2. ASSUME NEW x, Pending(x) PROVE Pending(x)'
    <3>1. PICK u \in Minders : adding[u] = Engine!ToSave(x)
      BY <2>2 DEF Pending
    <3>2. u # t
      BY <1>1, <2>1, <3>1 DEF Engine!ToSave
    <3> QED
      BY <1>6, <3>1, <3>2 DEF Pending
  <2> QED
    BY <1>6, <2>2 DEF Pending
<1>9. \A x : Known(x)' => Known(x) \/ x = s
  BY <1>1, <1>4, <1>7 DEF Known
<1>10. \A x : Known(x) => x \in Samples /\ x.made \in Nat /\ x.made <= hour
  BY <1>3, KnownIs DEF AdaptInv, SamplesKept, KnownSound, Samples
<1>11. SampleTypes'
  <2>1. \A n \in taken' : n \in Nat /\ n <= hour'
    BY <1>1, <1>3 DEF SampleTypes
  <2> QED
    BY <1>1, <1>3, <1>4, <1>6, <2>1 DEF SampleTypes
<1>12. KnownSound'
  <2>1. ASSUME NEW x, Known(x)' PROVE x.made <= hour' /\ (~ dated' => x.at = x.made)
    <3>1. CASE x = s
      BY <1>1, <1>2, <3>1
    <3>2. CASE Known(x)
      <4>1. x.made <= hour'
        BY <1>1, <1>10, <3>2
      <4> QED
        BY <1>2, <3>2, <4>1 DEF AdaptInv, SamplesKept, KnownSound
    <3> QED
      BY <1>9, <2>1, <3>1, <3>2
  <2> QED
    BY <2>1 DEF KnownSound
<1>13. SamplesOrdered'
  <2> SUFFICES ASSUME ~ loaded PROVE SamplesOrdered'
    BY <1>1 DEF SamplesOrdered
  <2>1. \A u \in Minders : adding'[u].at # "load"
    BY <1>5, <1>6 DEF AdaptInv, SamplesKept, SamplesOrdered
  <2>2. /\ \A i, j \in DOMAIN samples' : i < j => samples'[i].made < samples'[j].made
        /\ ~ dated' => \A n \in taken' :
             \/ \E i \in DOMAIN samples' : samples'[i].made = n
             \/ samples' # <<>> /\ \A i \in DOMAIN samples' : n < samples'[i].made
    BY <1>1, <1>2, SampleOrderKept
  <2>3. ASSUME ~ dated', NEW x, Known(x)', NEW i \in DOMAIN samples', x.made > samples'[i].made
        PROVE  x.made \in taken'
    <3>1. CASE x = s
      BY <1>1, <1>2, <3>1
    <3>2. CASE x # s
      <4>1. Known(x) /\ x.made \in Nat /\ x.made <= hour
        BY <1>9, <1>10, <2>3, <3>2
      <4>2. Among(samples'[i], samples) \/ samples'[i] = s
        BY <1>4 DEF Among
      <4>3. samples'[i] # s
        BY <1>1, <1>2, <2>3, <4>1
      <4>4. PICK j \in DOMAIN samples : samples[j] = samples'[i]
        BY <4>2, <4>3 DEF Among
      <4> QED
        BY <1>1, <1>2, <2>3, <4>1, <4>4 DEF AdaptInv, SamplesKept, SamplesOrdered
    <3> QED
      BY <3>1, <3>2
  <2> QED
    BY <2>1, <2>2, <2>3 DEF SamplesOrdered
<1>14. SamplesSaved'
  <2>1. ASSUME NEW x, Among(x, samples') PROVE Held(x)'
    <3>1. CASE x = s
      BY <1>8, <3>1 DEF Held
    <3>2. CASE Among(x, samples)
      <4>1. Held(x)
        BY <3>2 DEF AdaptInv, SamplesKept, SamplesSaved
      <4>2. Full(rows, x)' <=> Full(rows, x)
        BY <1>1 DEF Full
      <4>3. dated => dated'
        BY <1>1
      <4>4. Pending(x) => Pending(x)'
        BY <1>8
      <4> QED
        BY <1>1, <4>1, <4>2, <4>3, <4>4 DEF Held
    <3> QED
      BY <1>4, <2>1, <3>1, <3>2
  <2>2. ASSUME NEW x, Awaited(x)' PROVE Filed(x)'
    BY <1>1, <1>7, <2>2 DEF AdaptInv, SamplesKept, SamplesSaved, Filed, Full
  <2> QED
    BY <2>1, <2>2 DEF SamplesSaved
<1> QED
  BY <1>1, <1>11, <1>12, <1>13, <1>14 DEF SamplesKept

(* What had its row, or the new sample, has its row or is crowded out.     *)
LEMMA RowsStored ==
    ASSUME SampleTypes, NEW s \in Samples, NEW R \in Engine!Stored(s)
    PROVE  /\ R \subseteq rows \cup {s} /\ R \subseteq Samples /\ IsFiniteSet(R)
           /\ \A x \in Samples : Filed(x) \/ x = s => x \in R \/ Full(R, x)
<1> DEFINE all == rows \cup {s}
<1>1. IsFiniteSet(rows) /\ rows \subseteq Samples /\ IsFiniteSet(all)
  BY FS_AddElement DEF SampleTypes
<1>2. R \subseteq all
  BY DEF Engine!Stored
<1>3. R \subseteq Samples /\ IsFiniteSet(R)
  BY <1>1, <1>2, FS_Subset
<1>4. \A x \in Samples : x.at \in Nat
  BY DEF Samples
<1>5. ASSUME NEW x \in Samples, Filed(x) \/ x = s, x \notin R PROVE Full(R, x)
  <2>1. CASE R = all
    <3>1. Full(rows, x)
      BY <1>5, <2>1 DEF Filed
    <3>2. Cardinality(all) <= Table
      <4>1. CASE Engine!Cardinality(all) <= Table
        BY <4>1, SampleCardinality
      <4>2. CASE ~ (Engine!Cardinality(all) <= Table)
        <5>1. Cardinality(R) = Table
          BY <4>2, SampleCardinality DEF Engine!Stored
        <5> QED
          BY <2>1, <4>2, <5>1, SampleCardinality, EntropyAssumption
      <4> QED
        BY <4>1, <4>2
    <3>3. /\ Cardinality(rows) <= Cardinality(all)
          /\ (Cardinality(rows) = Cardinality(all) => rows = all)
      BY <1>1, FS_Subset
    <3>4. Cardinality(rows) \in Nat /\ Cardinality(all) \in Nat
      BY <1>1, FS_CardinalityType
    <3>5. rows = all
      BY <3>1, <3>2, <3>3, <3>4 DEF Full
    <3> QED
      BY <2>1, <3>1, <3>5
  <2>2. CASE R # all
    <3>1. ~ (Engine!Cardinality(all) <= Table)
      BY <2>2 DEF Engine!Stored
    <3>2. Cardinality(R) = Table /\ \A gone \in all \ R, y \in R : gone.at <= y.at
      BY <3>1, SampleCardinality DEF Engine!Stored
    <3>3. CASE x \in all
      BY <1>5, <3>2, <3>3 DEF Full
    <3>4. CASE x \notin all
      <4>1. Full(rows, x)
        BY <1>5, <3>4 DEF Filed
      <4>2. PICK gone \in all : gone \notin R
        BY <1>2, <2>2
      <4>3. ASSUME NEW y \in R PROVE x.at <= y.at
        <5>1. CASE y \in rows
          BY <4>1, <5>1 DEF Full
        <5>2. CASE y \notin rows
          <6>1. y = s
            BY <1>2, <5>2
          <6>2. gone \in rows
            BY <4>2, <6>1
          <6>3. x.at <= gone.at /\ gone.at <= y.at /\ x.at \in Nat /\ gone.at \in Nat /\ y.at \in Nat
            BY <1>1, <1>3, <1>4, <3>2, <4>1, <4>2, <6>2 DEF Full
          <6> QED
            BY <6>3
        <5> QED
          BY <5>1, <5>2
      <4> QED
        BY <3>2, <4>3 DEF Full
    <3> QED
      BY <3>3, <3>4
  <2> QED
    BY <2>1, <2>2
<1> QED
  BY <1>2, <1>3, <1>5

(* Without loads and callers' times a sample of the list is not crowded    *)
(* out: there are too few that are newer.                                  *)
LEMMA NotCrowded ==
    ASSUME SampleTypes, KnownSound, SamplesOrdered, ~ loaded, ~ dated,
           NEW x, Among(x, samples), NEW R, \A y \in R : Known(y), Full(R, x)
    PROVE  x \in R
<1> SUFFICES ASSUME x \notin R PROVE FALSE
  OBVIOUS
<1>1. samples \in Seq(Samples) /\ Len(samples) \in Nat /\ DOMAIN samples = 1 .. Len(samples)
  BY DEF SampleTypes
<1>2. PICK i \in 1 .. Len(samples) : samples[i] = x
  BY <1>1 DEF Among
<1>3. \A y : Known(y) => y \in Samples /\ y.at = y.made
  BY KnownIs DEF KnownSound
<1>4. Known(x)
  BY DEF Known
<1>5. ASSUME NEW y \in R PROVE \E k \in i + 1 .. Len(samples) : samples[k] = y
  <2>1. y \in Samples /\ x \in Samples /\ y.at = y.made /\ x.at = x.made /\ x.at <= y.at /\ y # x
    BY <1>3, <1>4, <1>5 DEF Full
  <2>2. y.made # x.made
    BY <2>1 DEF Samples
  <2>3. y.made > x.made
    BY <2>1, <2>2 DEF Samples
  <2>4. y.made \in taken
    BY <1>1, <1>2, <1>5, <2>3 DEF SamplesOrdered
  <2>5. ~ (y.made < samples[i].made)
    BY <1>2, <2>1, <2>3 DEF Samples
  <2>6. PICK k \in 1 .. Len(samples) : samples[k].made = y.made
    BY <1>1, <2>4, <2>5 DEF SamplesOrdered
  <2>7. samples[k] = y
    <3>1. Known(samples[k])
      BY <1>1 DEF Known, Among
    <3>2. samples[k] \in Samples /\ samples[k].at = samples[k].made
      BY <1>3, <3>1
    <3> QED
      BY <2>1, <2>6, <3>2 DEF Samples
  <2>8. k > i
    <3>1. CASE k = i
      BY <1>2, <2>1, <2>7, <3>1
    <3>2. CASE k < i
      <4>1. samples[k].made < samples[i].made
        BY <1>1, <3>2 DEF SamplesOrdered
      <4> QED
        BY <2>5, <2>6, <4>1
    <3> QED
      BY <1>1, <3>1, <3>2
  <2> QED
    BY <1>1, <2>7, <2>8
<1>6. Cardinality(R) <= Len(samples) - i /\ Cardinality(R) \in Nat
  BY <1>1, <1>5, FewBehind
<1>7. Window \in Nat /\ Table \in Nat /\ Window <= Table /\ Len(samples) <= Window /\ Cardinality(R) = Table
  BY EntropyAssumption DEF SampleTypes, Full
<1> QED
  BY <1>1, <1>6, <1>7

LEMMA SampleSaved ==
    ASSUME AdaptInv, NEW t \in Minders, Engine!SaveSample(t)
    PROVE  SamplesKept'
<1>0. PICK s \in Samples : adding[t] = Engine!ToSave(s) /\ s = adding[t].sample
  <2>1. adding[t] \in Adders /\ adding[t].at = "save"
    BY DEF AdaptInv, SamplesKept, SampleTypes, Engine!SaveSample
  <2>2. adding[t] \in [at : {"save"}, sample : Samples]
    BY <2>1 DEF Adders, Engine!Idle
  <2> QED
    BY <2>2 DEF Engine!ToSave
<1>1. /\ adding[t].at = "save" /\ UNCHANGED <<samples, taken, loaded, dated, hour>>
      /\ adding' = [adding EXCEPT ![t] = Engine!Idle]
      /\ \/ rows' \in Engine!Stored(s) /\ UNCHANGED unsaved
         \/ unsaved' = unsaved \cup {s} /\ UNCHANGED rows
  BY <1>0 DEF Engine!SaveSample
<1>2. /\ SampleTypes /\ KnownSound /\ SamplesOrdered /\ SamplesSaved
      /\ adding \in [Minders -> Adders] /\ samples \in Seq(Samples)
  BY DEF AdaptInv, SamplesKept, SampleTypes
<1>3. s \in Samples /\ adding[t] = Engine!ToSave(s)
  BY <1>0
<1>4. Pending(s) /\ Known(s)
  BY <1>3 DEF Pending, Known
<1>5. Engine!Idle \in Adders /\ Engine!Idle.at = "idle"
  BY DEF Adders, Engine!Idle
<1>6. /\ adding' \in [Minders -> Adders] /\ adding'[t] = Engine!Idle
      /\ \A u \in Minders : u # t => adding'[u] = adding[u]
  BY <1>1, <1>2, <1>5
<1>7. /\ rows' \subseteq rows \cup {s} /\ rows' \subseteq Samples /\ IsFiniteSet(rows')
      /\ \A x \in Samples : Filed(x) => Filed(x)'
      /\ unsaved \subseteq unsaved' /\ (Filed(s)' \/ s \in unsaved')
  <2>1. CASE rows' \in Engine!Stored(s) /\ UNCHANGED unsaved
    <3>1. /\ rows' \subseteq rows \cup {s} /\ rows' \subseteq Samples /\ IsFiniteSet(rows')
          /\ \A x \in Samples : Filed(x) \/ x = s => x \in rows' \/ Full(rows', x)
      BY <1>2, <1>3, <2>1, RowsStored
    <3>2. ASSUME NEW x \in Samples, Filed(x) \/ x = s PROVE Filed(x)'
      <4>1. x \in rows' \/ Full(rows', x)
        BY <3>1, <3>2
      <4> QED
        BY <4>1 DEF Filed, Full
    <3>3. Filed(s)'
      <4>1. s \in rows' \/ Full(rows', s)
        BY <1>3, <3>1
      <4> QED
        BY <4>1 DEF Filed, Full
    <3> QED
      BY <2>1, <3>1, <3>2, <3>3
  <2>2. CASE unsaved' = unsaved \cup {s} /\ UNCHANGED rows
    BY <1>2, <2>2 DEF SampleTypes, Filed, Full
  <2> QED
    BY <1>1, <2>1, <2>2
<1>8. \A x : (Awaited(x)' => Awaited(x)) /\ (Pending(x)' => Pending(x))
              /\ (Pending(x) => Pending(x)' \/ x = s)
  <2>1. ASSUME NEW x, Awaited(x)' PROVE Awaited(x)
    BY <1>5, <1>6, <2>1 DEF Awaited
  <2>2. ASSUME NEW x, Pending(x)' PROVE Pending(x)
    BY <1>5, <1>6, <2>2 DEF Pending, Engine!ToSave
  <2>3. ASSUME NEW x, Pending(x) PROVE Pending(x)' \/ x = s
    BY <1>3, <1>6, <2>3 DEF Pending, Engine!ToSave
  <2> QED
    BY <2>1, <2>2, <2>3
<1>9. \A x : Known(x)' => Known(x)
  BY <1>1, <1>4, <1>7, <1>8 DEF Known, Among
<1>10. SampleTypes'
  BY <1>1, <1>2, <1>6, <1>7 DEF SampleTypes
<1>11. KnownSound'
  BY <1>1, <1>2, <1>9 DEF KnownSound
<1>12. SamplesOrdered'
  <2> SUFFICES ASSUME ~ loaded PROVE SamplesOrdered'
    BY <1>1 DEF SamplesOrdered
  <2>1. \A u \in Minders : adding'[u].at # "load"
    BY <1>2, <1>5, <1>6 DEF SamplesOrdered
  <2> QED
    BY <1>1, <1>2, <1>9, <2>1 DEF SamplesOrdered
<1>13. SamplesSaved'
  <2>1. ASSUME NEW x, Among(x, samples') PROVE Held(x)'
    <3>1. Among(x, samples) /\ Known(x) /\ x \in Samples
      BY <1>1, <1>2, <2>1, KnownIs DEF Known, Among
    <3>2. Held(x)
      BY <1>2, <3>1 DEF SamplesSaved
    <3>3. CASE Filed(x)'
      <4>1. x \in rows' \/ Full(rows', x)
        BY <3>3 DEF Filed, Full
      <4>2. CASE loaded \/ dated
        BY <1>1, <4>1, <4>2 DEF Held, Full
      <4>3. CASE ~ loaded /\ ~ dated
        <5>1. \A y \in rows' : Known(y)
          BY <1>4, <1>7 DEF Known
        <5>2. x \in rows'
          BY <1>2, <3>1, <4>1, <4>3, <5>1, NotCrowded
        <5> QED
          BY <5>2 DEF Held
      <4> QED
        BY <4>2, <4>3
    <3>4. CASE x \in unsaved'
      BY <3>4 DEF Held
    <3>5. CASE Pending(x)'
      BY <3>5 DEF Held
    <3>6. Filed(x)' \/ x \in unsaved' \/ Pending(x)'
      <4>1. CASE Filed(x)
        BY <1>7, <3>1, <4>1
      <4>2. CASE x \in unsaved
        BY <1>7, <4>2
      <4>3. CASE Pending(x)
        <5>1. CASE x = s
          <6>1. s \in rows' \/ Full(rows', s) \/ s \in unsaved'
            BY <1>7 DEF Filed, Full
          <6> QED
            BY <5>1, <6>1 DEF Filed, Full
        <5>2. CASE x # s
          BY <1>8, <4>3, <5>2
        <5> QED
          BY <5>1, <5>2
      <4> QED
        BY <3>2, <4>1, <4>2, <4>3 DEF Held, Filed
    <3> QED
      BY <3>3, <3>4, <3>5, <3>6
  <2>2. ASSUME NEW x, Awaited(x)' PROVE Filed(x)'
    <3>1. Awaited(x) /\ x \in Samples
      BY <1>2, <1>8, <2>2, KnownIs DEF Known
    <3> QED
      BY <1>2, <1>7, <3>1 DEF SamplesSaved
  <2> QED
    BY <2>1, <2>2 DEF SamplesSaved
<1> QED
  BY <1>10, <1>11, <1>12, <1>13 DEF SamplesKept

(* The thread t goes from one state to another that saves nothing; what    *)
(* the list gets has been known and filed.                                 *)
LEMMA LoadMoves ==
    ASSUME AdaptInv, NEW t \in Minders, adding[t].at # "save",
           NEW q \in Adders, q.at # "save", adding' = [adding EXCEPT ![t] = q],
           q.at = "load" => \A x : Among(x, q.left) => x \in rows \/ Awaited(x),
           samples' \in Seq(Samples), Len(samples') <= Window,
           \A x : Among(x, samples') => Among(x, samples) \/ Awaited(x),
           q.at = "load" \/ samples' # samples \/ loaded' # loaded => loaded',
           loaded => loaded', UNCHANGED <<rows, taken, unsaved, dated, hour>>
    PROVE  SamplesKept'
<1>1. /\ SampleTypes /\ KnownSound /\ SamplesOrdered /\ SamplesSaved
      /\ adding \in [Minders -> Adders]
  BY DEF AdaptInv, SamplesKept, SampleTypes
<1>2. /\ adding' \in [Minders -> Adders] /\ adding'[t] = q
      /\ \A u \in Minders : u # t => adding'[u] = adding[u]
  BY <1>1
<1>3. \A x : Pending(x)' <=> Pending(x)
  BY <1>2 DEF Pending, Engine!ToSave
<1>4. \A x : Awaited(x)' => x \in rows \/ Awaited(x)
  BY <1>2 DEF Awaited
<1>5. \A x : Known(x)' => Known(x)
  BY <1>3, <1>4 DEF Known
<1>6. SampleTypes'
  BY <1>1, <1>2 DEF SampleTypes
<1>7. KnownSound'
  BY <1>1, <1>5 DEF KnownSound
<1>8. SamplesOrdered'
  <2> SUFFICES ASSUME ~ loaded' PROVE SamplesOrdered'
    BY DEF SamplesOrdered
  <2>1. ~ loaded /\ q.at # "load" /\ samples' = samples
    OBVIOUS
  <2>2. \A u \in Minders : adding'[u].at # "load"
    BY <1>1, <1>2, <2>1 DEF SamplesOrdered
  <2> QED
    BY <1>1, <1>5, <2>1, <2>2 DEF SamplesOrdered
<1>9. SamplesSaved'
  <2>1. \A x : Filed(x)' <=> Filed(x)
    BY DEF Filed, Full
  <2>2. ASSUME NEW x, Among(x, samples') PROVE Held(x)'
    <3>1. CASE Among(x, samples)
      <4>1. Held(x)
        BY <1>1, <3>1 DEF SamplesSaved
      <4> QED
        BY <1>3, <4>1 DEF Held, Full
    <3>2. CASE ~ Among(x, samples)
      <4>1. Awaited(x) /\ samples' # samples
        BY <2>2, <3>2
      <4>2. Filed(x) /\ loaded'
        BY <1>1, <4>1 DEF SamplesSaved
      <4> QED
        BY <4>2 DEF Held, Filed, Full
    <3> QED
      BY <3>1, <3>2
  <2>3. ASSUME NEW x, Awaited(x)' PROVE Filed(x)'
    BY <1>1, <1>4, <2>1, <2>3 DEF SamplesSaved, Filed
  <2> QED
    BY <2>2, <2>3 DEF SamplesSaved
<1> QED
  BY <1>6, <1>7, <1>8, <1>9 DEF SamplesKept

LEMMA SamplesLoaded ==
    ASSUME AdaptInv, NEW t \in Minders,
           Engine!LoadState(t) \/ Engine!LoadSample(t) \/ Engine!StateLoaded(t)
    PROVE  SamplesKept' /\ hour' = hour
<1>1. /\ SampleTypes /\ adding \in [Minders -> Adders] /\ adding[t] \in Adders
      /\ samples \in Seq(Samples) /\ Len(samples) <= Window /\ IsFiniteSet(rows)
      /\ rows \subseteq Samples /\ hour \in Nat
  BY DEF AdaptInv, SamplesKept, SampleTypes
<1>2. Engine!Idle \in Adders /\ Engine!Idle.at = "idle"
  BY DEF Adders, Engine!Idle
<1>3. ASSUME Engine!LoadState(t) PROVE SamplesKept' /\ hour' = hour
  <2>1. PICK q \in Engine!LoadedSamples : adding' = [adding EXCEPT ![t] = [at |-> "load", left |-> q]]
    BY <1>3 DEF Engine!LoadState
  <2>2. adding[t] = Engine!Idle /\ loaded' /\ UNCHANGED <<samples, rows, taken, unsaved, dated, hour>>
    BY <1>3 DEF Engine!LoadState
  <2> DEFINE n == Engine!Least2(Engine!Cardinality(rows), Reload)
  <2>3. n \in Nat
    <3>1. Engine!Cardinality(rows) \in Nat
      BY <1>1, FS_CardinalityType, SampleCardinality
    <3>2. Reload \in Nat
      BY EntropyAssumption
    <3> QED
      BY <3>1, <3>2 DEF Engine!Least2
  <2>4. q \in [1 .. n -> rows]
    BY DEF Engine!LoadedSamples
  <2> HIDE DEF n
  <2>5. q \in Seq(Samples) /\ \A x : Among(x, q) => x \in rows
    <3>1. q \in [1 .. n -> Samples]
      BY <1>1, <2>4
    <3>2. DOMAIN q = 1 .. n
      BY <2>4
    <3> QED
      BY <2>3, <2>4, <3>1, <3>2 DEF Among
  <2> DEFINE y == [at |-> "load", left |-> q]
  <2>6. y \in Adders /\ y.at = "load" /\ y.left = q /\ adding' = [adding EXCEPT ![t] = y]
    BY <2>1, <2>5 DEF Adders
  <2> HIDE DEF y
  <2> QED
    BY <1>1, <1>2, <2>2, <2>5, <2>6, LoadMoves
<1>4. ASSUME Engine!LoadSample(t) PROVE SamplesKept' /\ hour' = hour
  <2> DEFINE q == adding[t].left
             y == [adding[t] EXCEPT !.left = Tail(q)]
  <2>1. /\ adding[t].at = "load" /\ q # <<>>
        /\ samples' \in Engine!Collected(Head(q), hour)
        /\ adding' = [adding EXCEPT ![t] = y]
        /\ UNCHANGED <<rows, taken, unsaved, loaded, dated, hour>>
    BY <1>1, <1>4 DEF Engine!LoadSample
  <2>2. adding[t] \in [at : {"load"}, left : Seq(Samples)] /\ q \in Seq(Samples)
    BY <1>1, <2>1 DEF Adders, Engine!Idle
  <2>3. /\ Tail(q) \in Seq(Samples) /\ Head(q) \in Samples /\ Among(Head(q), q)
        /\ \A x : Among(x, Tail(q)) => Among(x, q)
    <3>1. Head(q) = q[1] /\ 1 \in DOMAIN q /\ q[1] \in Samples /\ Tail(q) \in Seq(Samples)
      BY <2>1, <2>2
    <3>2. ASSUME NEW i \in DOMAIN Tail(q) PROVE i + 1 \in DOMAIN q /\ Tail(q)[i] = q[i + 1]
      BY <2>1, <2>2
    <3> QED
      BY <3>1, <3>2 DEF Among
  <2>4. y \in [at : {"load"}, left : Seq(Samples)] /\ y.left = Tail(q)
    BY <2>2, <2>3
  <2>5. y \in Adders /\ y.at = "load"
    BY <2>4 DEF Adders
  <2>6. \A x : Among(x, q) => Awaited(x)
    BY <2>1 DEF Awaited
  <2> HIDE DEF q, y
  <2>7. /\ samples' \in Seq(Samples) /\ Len(samples') <= Window
        /\ \A x : Among(x, samples') => Among(x, samples) \/ x = Head(q)
    BY <1>1, <2>1, <2>3, CollectedIs
  <2>8. \A x : Among(x, samples') => Among(x, samples) \/ Awaited(x)
    BY <2>3, <2>6, <2>7
  <2>9. \A x : Among(x, y.left) => x \in rows \/ Awaited(x)
    BY <2>3, <2>4, <2>6
  <2>10. loaded
    BY <2>1 DEF AdaptInv, SamplesKept, SamplesOrdered
  <2> QED
    BY <2>1, <2>5, <2>7, <2>8, <2>9, <2>10, LoadMoves
<1>5. ASSUME Engine!StateLoaded(t) PROVE SamplesKept' /\ hour' = hour
  <2>1. /\ adding[t].at = "load" /\ adding' = [adding EXCEPT ![t] = Engine!Idle]
        /\ UNCHANGED <<samples, rows, taken, unsaved, loaded, dated, hour>>
    BY <1>5 DEF Engine!StateLoaded
  <2> QED
    BY <1>1, <1>2, <2>1, LoadMoves
<1> QED
  BY <1>3, <1>4, <1>5

LEMMA Restarted == ASSUME AdaptInv, Engine!Restart PROVE SamplesKept' /\ hour' = hour
<1>1. /\ samples' = <<>> /\ adding' = [t \in Minders |-> Engine!Idle] /\ taken' = {}
      /\ UNCHANGED <<rows, dated, hour>>
  BY DEF Engine!Restart
<1>2. <<>> \in Seq(Samples) /\ Len(<<>>) = 0 /\ DOMAIN <<>> = {} /\ Window \in Nat
  BY EntropyAssumption
<1>3. Engine!Idle \in Adders /\ Engine!Idle.at = "idle"
  BY DEF Adders, Engine!Idle
<1>4. SampleTypes'
  BY <1>1, <1>2, <1>3 DEF AdaptInv, SamplesKept, SampleTypes
<1>5. \A x : ~ Among(x, samples') /\ ~ Awaited(x)' /\ ~ Pending(x)'
  BY <1>1, <1>2, <1>3 DEF Awaited, Among, Pending, Engine!ToSave
<1>6. \A x : Known(x)' => Known(x)
  BY <1>1, <1>5 DEF Known
<1>7. KnownSound'
  BY <1>1, <1>6 DEF AdaptInv, SamplesKept, KnownSound
<1>8. SamplesOrdered'
  BY <1>1, <1>2, <1>3 DEF SamplesOrdered
<1>9. SamplesSaved'
  BY <1>5 DEF SamplesSaved
<1> QED
  BY <1>1, <1>4, <1>7, <1>8, <1>9 DEF SamplesKept

LEMMA AdaptStep == ASSUME AdaptInv, Engine!Collect \/ Engine!Adapt PROVE AdaptInv'
<1>1. ASSUME UNCHANGED threshold PROVE LevelsApart'
  BY <1>1 DEF AdaptInv, LevelsApart
<1>2. ASSUME NEW t \in Minders, NEW given \in {NoAgent} \cup 0 .. MaxHours, Engine!Record(t, given)
      PROVE  AdaptInv'
  <2>1. UNCHANGED threshold
    BY <1>2 DEF Engine!Record, Engine!levelVars
  <2> QED
    BY <1>1, <1>2, <2>1, SampleRecorded DEF AdaptInv
<1>3. ASSUME NEW t \in Minders, Engine!SaveSample(t) PROVE AdaptInv'
  <2>1. UNCHANGED <<threshold, hour>>
    BY <1>3 DEF Engine!SaveSample, Engine!levelVars
  <2> QED
    BY <1>1, <1>3, <2>1, SampleSaved DEF AdaptInv
<1>4. ASSUME NEW t \in Minders,
             Engine!LoadState(t) \/ Engine!LoadSample(t) \/ Engine!StateLoaded(t)
      PROVE  AdaptInv'
  <2>1. UNCHANGED threshold
    BY <1>4 DEF Engine!LoadState, Engine!LoadSample, Engine!StateLoaded, Engine!levelVars
  <2> QED
    BY <1>1, <1>4, <2>1, SamplesLoaded DEF AdaptInv
<1>5. ASSUME Engine!Restart PROVE AdaptInv'
  <2>1. threshold' = Levels
    BY <1>5 DEF Engine!Restart
  <2> QED
    BY <1>5, <2>1, LevelsSet, Restarted DEF AdaptInv
<1>6. ASSUME UNCHANGED Engine!recordVars, hour' \in {hour, hour + 1}, LevelsApart'
      PROVE  AdaptInv'
  BY <1>6, SamplesLeft DEF AdaptInv
<1>7. ASSUME Engine!SetLevels, UNCHANGED Engine!recordVars, UNCHANGED hour PROVE AdaptInv'
  <2>1. ASSUME Engine!RecordBaseline PROVE AdaptInv'
    BY <1>1, <1>6, <1>7, <2>1 DEF Engine!RecordBaseline
  <2>2. ASSUME Engine!ResetToBaseline PROVE AdaptInv'
    <3>1. threshold' = Levels
      BY <2>2 DEF Engine!ResetToBaseline
    <3> QED
      BY <1>6, <1>7, <3>1, LevelsSet
  <2>3. ASSUME NEW mean \in Averages, NEW dev \in Spreads, Engine!AdaptThreshold(mean, dev)
        PROVE  AdaptInv'
    <3>1. threshold' = Engine!Adapted(mean, dev)
      BY <2>3 DEF Engine!AdaptThreshold
    <3>2. LevelsApart'
      BY <3>1, LevelsAdapted DEF AdaptInv
    <3> QED
      BY <1>6, <1>7, <3>2
  <2> QED
    BY <1>7, <2>1, <2>2, <2>3 DEF Engine!SetLevels
<1>8. ASSUME UNCHANGED Engine!sampleVars, UNCHANGED hour \/ Engine!Tick PROVE AdaptInv'
  BY <1>1, <1>6, <1>8 DEF Engine!Tick, Engine!sampleVars, Engine!levelVars
<1> QED
  BY <1>2, <1>3, <1>4, <1>5, <1>7, <1>8 DEF Engine!Collect, Engine!Adapt

LEMMA AdaptClaims == AdaptInv => Engine!ThresholdsOrdered /\ Engine!NewestKept
<1> SUFFICES ASSUME AdaptInv PROVE Engine!ThresholdsOrdered /\ Engine!NewestKept
  OBVIOUS
<1>1. Engine!ThresholdsOrdered
  BY DEF AdaptInv, LevelsApart, Engine!ThresholdsOrdered
<1>2. samples \in Seq(Samples)
  BY DEF AdaptInv, SamplesKept, SampleTypes
<1> DEFINE instants == {samples[i].made : i \in DOMAIN samples}
<1>3. ASSUME ~ loaded, ~ dated, NEW n \in taken
      PROVE  n \in instants \/ (instants # {} /\ \A k \in instants : n < k)
  <2>1. CASE \E i \in DOMAIN samples : samples[i].made = n
    BY <2>1
  <2>2. CASE samples # <<>> /\ \A i \in DOMAIN samples : n < samples[i].made
    <3>1. 1 \in DOMAIN samples
      BY <1>2, <2>2
    <3> QED
      BY <2>2, <3>1
  <2> QED
    BY <1>3, <2>1, <2>2 DEF AdaptInv, SamplesKept, SamplesOrdered
<1>4. ASSUME NEW i \in DOMAIN samples
      PROVE  \/ samples[i] \in rows \cup unsaved
             \/ \E t \in Minders : adding[t] = Engine!ToSave(samples[i])
             \/ (loaded \/ dated) /\ Engine!Crowded(samples[i])
  <2>1. Held(samples[i])
    BY DEF AdaptInv, SamplesKept, SamplesSaved, Among
  <2>2. Full(rows, samples[i]) => Engine!Crowded(samples[i])
    BY SampleCardinality DEF Full, Engine!Crowded
  <2> QED
    BY <2>1, <2>2 DEF Held, Pending
<1>5. ~ loaded => \A i, j \in DOMAIN samples : i < j => samples[i].made < samples[j].made
  BY DEF AdaptInv, SamplesKept, SamplesOrdered
<1>6. Engine!NewestKept
  BY <1>3, <1>4, <1>5 DEF Engine!NewestKept
<1> QED
  BY <1>1, <1>6

-----------------------------------------------------------------------------
LEMMA SweepInit == MCInit => SweepInv
<1> SUFFICES ASSUME MCInit PROVE SweepInv
  OBVIOUS
<1>1. /\ sweepStatus = [x \in Cleanups |-> "unplanned"] /\ sweeping = {}
      /\ sweeper = [t \in Minders |-> Engine!Idle]
  BY DEF MCInit, Engine!Init
<1>2. Engine!Idle.at = "idle" /\ Engine!Idle \in Sweepers
  BY DEF Engine!Idle, Sweepers
<1>3. SweepTypes
  BY <1>1, <1>2 DEF SweepTypes
<1>4. \A t \in Minders : ~ Executes(t)
  BY <1>1, <1>2 DEF Executes
<1>5. HandsApart
  BY <1>1, <1>4 DEF HandsApart
<1> QED
  BY <1>3, <1>5 DEF SweepInv

(* What a thread keeps, by where it is.                                    *)
LEMMA SweeperIs ==
    ASSUME SweepInv, NEW t \in Minders
    PROVE  /\ sweeper[t] \in Sweepers
           /\ sweeper[t].at \in {"idle", "next", "run", "record", "save"}
           /\ sweeper[t].at \in {"next", "run", "record"} =>
                 sweeper[t] \in Batches /\ sweeper[t].todo \in Seq(Cleanups)
           /\ sweeper[t].at = "save" =>
                 sweeper[t] \in Savings /\ sweeper[t].todo \in Seq(Cleanups)
           /\ sweeper[t].at \in {"run", "record", "save"} => sweeper[t].todo # <<>>
<1>1. sweeper[t] \in Sweepers
  BY DEF SweepInv, SweepTypes
<1>2. Engine!Idle.at = "idle"
  BY DEF Engine!Idle
<1>3. CASE sweeper[t] = Engine!Idle
  BY <1>1, <1>2, <1>3 DEF SweepInv, SweepTypes
<1>4. CASE sweeper[t] \in Batches
  BY <1>1, <1>4 DEF SweepInv, SweepTypes, Batches
<1>5. CASE sweeper[t] \in Savings
  BY <1>1, <1>5 DEF SweepInv, SweepTypes, Savings
<1> QED
  BY <1>1, <1>3, <1>4, <1>5 DEF Sweepers

(* The action at hand is one, and what follows it are some.                *)
LEMMA CurrentIs ==
    ASSUME NEW q \in Seq(Cleanups), q # <<>>
    PROVE  Head(q) \in Cleanups /\ Tail(q) \in Seq(Cleanups) /\ Len(q) \in Nat /\ Len(q) >= 1
           /\ Len(Tail(q)) = Len(q) - 1
  OBVIOUS

AtHand(x) == x.at \in {"run", "record", "save"} => x.todo # <<>>

(* A thread that neither begins nor ends an execution.                     *)
LEMMA SweeperSet ==
    ASSUME SweepInv, NEW t \in Minders, NEW x \in Sweepers, AtHand(x),
           sweeper' = [sweeper EXCEPT ![t] = x], x.at # "run", sweeper[t].at # "run",
           sweeping' = sweeping,
           sweepStatus' \in [Cleanups -> {"unplanned", "pending", "running", "completed", "failed"}],
           \A y \in Cleanups : sweepStatus'[y] = "running" <=> sweepStatus[y] = "running"
    PROVE  SweepInv'
<1>1. sweeper \in [Minders -> Sweepers] /\ sweeper' \in [Minders -> Sweepers]
  BY DEF SweepInv, SweepTypes
<1>2. sweeper'[t] = x /\ \A u \in Minders : u # t => sweeper'[u] = sweeper[u]
  BY <1>1
<1>3. SweepTypes'
  BY <1>1, <1>2 DEF SweepInv, SweepTypes, AtHand
<1>4. \A u \in Minders : (Executes(u)' <=> Executes(u)) /\ (Executes(u) => Engine!Current(u)' = Engine!Current(u))
  BY <1>2 DEF Executes, Engine!Current
<1>5. HandsApart'
  BY <1>4 DEF SweepInv, HandsApart
<1> QED
  BY <1>3, <1>5 DEF SweepInv

LEMMA Planned ==
    ASSUME SweepInv, NEW t \in Minders, NEW g \in SUBSET Cleanups, NEW k \in BOOLEAN,
           Engine!PlanSweep(t, g, k)
    PROVE  SweepInv'
<1> DEFINE planned == {x \in g : sweepStatus[x] = "unplanned"}
<1>1. PICK q \in Engine!Prioritized(planned) :
         sweeper' = [sweeper EXCEPT ![t] = Engine!Batch(q, k)]
  BY DEF Engine!PlanSweep
<1>2. /\ sweeper[t] = Engine!Idle /\ sweeping' = sweeping
      /\ sweepStatus' = [x \in Cleanups |-> IF x \in planned THEN "pending" ELSE sweepStatus[x]]
  BY DEF Engine!PlanSweep
<1>3. q \in Seq(Cleanups)
  <2> DEFINE n == Engine!Least2(Engine!Cardinality(planned), Effort)
  <2>1. PICK best \in Engine!kSubset(n, planned) : q \in Engine!SetToSeqs(best)
    BY <1>1 DEF Engine!Prioritized
  <2>2. best \subseteq Cleanups
    BY <2>1 DEF Engine!kSubset
  <2>3. Engine!Cardinality(best) \in Nat
    <3>1. IsFiniteSet(best)
      BY <2>2, EntropyAssumption, FS_Subset
    <3> QED
      BY <3>1, FS_CardinalityType, SampleCardinality
  <2>4. q \in [1 .. Engine!Cardinality(best) -> best]
    BY <2>1 DEF Engine!SetToSeqs
  <2> QED
    BY <2>2, <2>3, <2>4
<1> DEFINE x == Engine!Batch(q, k)
<1>4. x \in Batches /\ x.at = "next"
  BY <1>3 DEF Engine!Batch, Batches
<1>5. sweeper' = [sweeper EXCEPT ![t] = x]
  BY <1>1
<1> HIDE DEF x
<1>6. x \in Sweepers /\ AtHand(x) /\ x.at # "run"
  BY <1>4 DEF Sweepers, AtHand
<1>7. sweeper[t].at # "run"
  BY <1>2 DEF Engine!Idle
<1>8. sweepStatus \in [Cleanups -> {"unplanned", "pending", "running", "completed", "failed"}]
  BY DEF SweepInv, SweepTypes
<1>9. /\ sweepStatus' \in [Cleanups -> {"unplanned", "pending", "running", "completed", "failed"}]
      /\ \A y \in Cleanups : sweepStatus'[y] = "running" <=> sweepStatus[y] = "running"
  BY <1>2, <1>8
<1> QED
  BY <1>2, <1>5, <1>6, <1>7, <1>9, SweeperSet

(* A step of one thread that leaves what is planned and what runs alone.   *)
LEMMA SweeperAlone ==
    ASSUME SweepInv, NEW t \in Minders, NEW x \in Sweepers, AtHand(x),
           sweeper' = [sweeper EXCEPT ![t] = x], x.at # "run", sweeper[t].at # "run",
           UNCHANGED <<sweepStatus, sweeping>>
    PROVE  SweepInv'
<1>1. sweepStatus' \in [Cleanups -> {"unplanned", "pending", "running", "completed", "failed"}]
  BY DEF SweepInv, SweepTypes
<1> QED
  BY <1>1, SweeperSet

LEMMA GivenExecuted ==
    ASSUME SweepInv, NEW t \in Minders, NEW y \in Cleanups, NEW k \in BOOLEAN,
           Engine!ExecuteGiven(t, y, k)
    PROVE  SweepInv'
<1> DEFINE x == Engine!Batch(<<y>>, k)
<1>1. /\ sweeper' = [sweeper EXCEPT ![t] = x] /\ sweeper[t] = Engine!Idle
      /\ UNCHANGED <<sweepStatus, sweeping>>
  BY DEF Engine!ExecuteGiven
<1>2. <<y>> \in Seq(Cleanups)
  OBVIOUS
<1>3. x \in Batches /\ x.at = "next"
  BY <1>2 DEF Engine!Batch, Batches
<1> HIDE DEF x
<1>4. x \in Sweepers /\ AtHand(x) /\ x.at # "run" /\ sweeper[t].at # "run"
  BY <1>1, <1>3 DEF Sweepers, AtHand, Engine!Idle
<1> QED
  BY <1>1, <1>4, SweeperAlone

(* The next action of a batch.                                             *)
LEMMA NextTaken ==
    ASSUME SweepInv, NEW t \in Minders, sweeper[t].at \in {"next", "record"},
           sweeper[t].todo # <<>>, sweeper' = Engine!Next1(t), UNCHANGED <<sweepStatus, sweeping>>
    PROVE  SweepInv'
<1> DEFINE x == [sweeper[t] EXCEPT !.at = "next", !.todo = Tail(@)]
<1>1. sweeper[t] \in Batches /\ sweeper[t].todo \in Seq(Cleanups)
  BY SweeperIs
<1>2. Tail(sweeper[t].todo) \in Seq(Cleanups)
  BY <1>1, CurrentIs
<1>3. x \in Batches /\ x.at = "next"
  BY <1>1, <1>2 DEF Batches
<1>4. sweeper' = [sweeper EXCEPT ![t] = x]
  BY DEF Engine!Next1, SweepInv, SweepTypes
<1> HIDE DEF x
<1>5. x \in Sweepers /\ AtHand(x) /\ x.at # "run"
  BY <1>3 DEF Sweepers, AtHand
<1> QED
  BY <1>4, <1>5, SweeperAlone

LEMMA BatchEnded ==
    ASSUME SweepInv, NEW t \in Minders, Engine!EndBatch(t)
    PROVE  SweepInv'
<1> DEFINE x == IF sweeper[t].saves /\ sweeper[t].batch # <<>>
                THEN [at |-> "save", todo |-> sweeper[t].batch] ELSE Engine!Idle
<1>1. sweeper[t].at = "next" /\ UNCHANGED <<sweepStatus, sweeping>>
  BY DEF Engine!EndBatch
<1>2. sweeper' = [sweeper EXCEPT ![t] = x]
  BY DEF Engine!EndBatch, SweepInv, SweepTypes
<1>3. sweeper[t] \in Batches
  BY <1>1, SweeperIs
<1>4. sweeper[t].batch \in Seq(Cleanups)
  BY <1>3 DEF Batches
<1>5. CASE sweeper[t].saves /\ sweeper[t].batch # <<>>
  <2>1. x \in Savings /\ x.at = "save" /\ x.todo # <<>>
    BY <1>4, <1>5 DEF Savings
  <2> HIDE DEF x
  <2>2. x \in Sweepers /\ AtHand(x) /\ x.at # "run"
    BY <2>1 DEF Sweepers, AtHand
  <2> QED
    BY <1>1, <1>2, <2>2, SweeperAlone
<1>6. CASE ~ (sweeper[t].saves /\ sweeper[t].batch # <<>>)
  <2>1. x = Engine!Idle
    BY <1>6
  <2> HIDE DEF x
  <2>2. x \in Sweepers /\ AtHand(x) /\ x.at # "run"
    BY <2>1 DEF Sweepers, AtHand, Engine!Idle
  <2> QED
    BY <1>1, <1>2, <2>2, SweeperAlone
<1> QED
  BY <1>5, <1>6

LEMMA ActionSaved ==
    ASSUME SweepInv, NEW t \in Minders, Engine!SaveAction(t)
    PROVE  SweepInv'
<1> DEFINE q == sweeper[t].todo
           x == IF Len(q) = 1 \/ ~ dbOpen THEN Engine!Idle ELSE [at |-> "save", todo |-> Tail(q)]
<1>1. sweeper[t].at = "save" /\ UNCHANGED <<sweepStatus, sweeping>>
  BY DEF Engine!SaveAction
<1>2. sweeper' = [sweeper EXCEPT ![t] = x]
  BY DEF Engine!SaveAction
<1>3. sweeper[t] \in Savings /\ q \in Seq(Cleanups) /\ q # <<>>
  BY <1>1, SweeperIs
<1>4. Tail(q) \in Seq(Cleanups) /\ Len(q) \in Nat /\ Len(q) >= 1 /\ Len(Tail(q)) = Len(q) - 1
  BY <1>3, CurrentIs
<1>5. CASE Len(q) = 1 \/ ~ dbOpen
  <2>1. x = Engine!Idle
    BY <1>5
  <2> HIDE DEF x
  <2>2. x \in Sweepers /\ AtHand(x) /\ x.at # "run"
    BY <2>1 DEF Sweepers, AtHand, Engine!Idle
  <2> QED
    BY <1>1, <1>2, <2>2, SweeperAlone
<1>6. CASE ~ (Len(q) = 1 \/ ~ dbOpen)
  <2>1. Tail(q) # <<>>
    <3>1. Len(Tail(q)) \in Nat /\ Len(Tail(q)) # 0
      BY <1>4, <1>6
    <3>2. Len(<<>>) = 0
      OBVIOUS
    <3> QED
      BY <3>1, <3>2
  <2>2. x \in Savings /\ x.at = "save" /\ x.todo = Tail(q)
    BY <1>3, <1>4, <1>6 DEF Savings
  <2> HIDE DEF x
  <2>3. x \in Sweepers /\ AtHand(x) /\ x.at # "run"
    BY <2>1, <2>2 DEF Sweepers, AtHand
  <2> QED
    BY <1>1, <1>2, <2>3, SweeperAlone
<1> QED
  BY <1>5, <1>6

LEMMA ActionStarted ==
    ASSUME SweepInv, NEW t \in Minders, Engine!StartAction(t)
    PROVE  SweepInv'
<1> DEFINE x == [sweeper[t] EXCEPT !.at = "run"]
           y == Engine!Current(t)
<1>1. /\ sweeper[t].at = "next" /\ sweeper[t].todo # <<>> /\ y \notin sweeping
      /\ sweeping' = sweeping \cup {y} /\ sweepStatus' = [sweepStatus EXCEPT ![y] = "running"]
      /\ sweeper' = [sweeper EXCEPT ![t].at = "run"]
  BY DEF Engine!StartAction
<1>2. sweeper[t] \in Batches /\ sweeper[t].todo \in Seq(Cleanups)
  BY <1>1, SweeperIs
<1>3. y \in Cleanups
  BY <1>1, <1>2, CurrentIs DEF Engine!Current
<1>4. x \in Batches /\ x.at = "run" /\ x.todo = sweeper[t].todo
  BY <1>2 DEF Batches
<1>5. sweeper \in [Minders -> Sweepers] /\ x \in Sweepers
  BY <1>4 DEF SweepInv, SweepTypes, Sweepers
<1>6. /\ sweeper' \in [Minders -> Sweepers] /\ sweeper'[t] = x
      /\ \A u \in Minders : u # t => sweeper'[u] = sweeper[u]
  BY <1>1, <1>5
<1> HIDE DEF x
<1>7. /\ Executes(t)' /\ Engine!Current(t)' = y /\ ~ Executes(t)
      /\ \A u \in Minders : u # t =>
            (Executes(u)' <=> Executes(u)) /\ (Executes(u) => Engine!Current(u)' = Engine!Current(u))
  BY <1>1, <1>4, <1>6 DEF Executes, Engine!Current
<1> HIDE DEF y
<1>8. SweepTypes'
  <2>1. sweepStatus' \in [Cleanups -> {"unplanned", "pending", "running", "completed", "failed"}]
    BY <1>1, <1>3 DEF SweepInv, SweepTypes
  <2>2. sweeping' \subseteq Cleanups
    BY <1>1, <1>3 DEF SweepInv, SweepTypes
  <2>3. \A u \in Minders : sweeper'[u].at \in {"run", "record", "save"} => sweeper'[u].todo # <<>>
    BY <1>1, <1>4, <1>6 DEF SweepInv, SweepTypes
  <2> QED
    BY <1>6, <2>1, <2>2, <2>3 DEF SweepTypes
<1>9. HandsApart'
  <2>1. \A u \in Minders : Executes(u) => Engine!Current(u) \in sweeping
    <3>1. ASSUME NEW u \in Minders, Executes(u) PROVE Engine!Current(u) \in sweeping
      <4>1. Engine!Current(u) \in Cleanups
        BY <3>1, SweeperIs, CurrentIs DEF Executes, Engine!Current
      <4> QED
        BY <3>1, <4>1 DEF SweepInv, HandsApart
    <3> QED
      BY <3>1
  <2>2. ASSUME NEW u \in Minders, NEW v \in Minders, Executes(u)', Executes(v)', u # v
        PROVE  Engine!Current(u)' # Engine!Current(v)'
    BY <1>1, <1>7, <2>1, <2>2 DEF SweepInv, HandsApart
  <2>3. ASSUME NEW z \in Cleanups
        PROVE  z \in sweeping' <=> \E u \in Minders : Executes(u)' /\ z = Engine!Current(u)'
    <3>1. z \in sweeping <=> \E u \in Minders : Executes(u) /\ z = Engine!Current(u)
      BY DEF SweepInv, HandsApart
    <3> QED
      BY <1>1, <1>7, <3>1
  <2>4. ASSUME NEW z \in Cleanups PROVE sweepStatus'[z] = "running" <=> z \in sweeping'
    BY <1>1, <1>3 DEF SweepInv, SweepTypes, HandsApart
  <2> QED
    BY <2>2, <2>3, <2>4 DEF HandsApart
<1> QED
  BY <1>8, <1>9 DEF SweepInv

LEMMA ActionFinished ==
    ASSUME SweepInv, NEW t \in Minders, NEW ok \in BOOLEAN, Engine!FinishAction(t, ok)
    PROVE  SweepInv'
<1> DEFINE x == [sweeper[t] EXCEPT !.at = "record"]
           y == Engine!Current(t)
           end == IF ok THEN "completed" ELSE "failed"
<1>1. /\ sweeper[t].at = "run" /\ sweeping' = sweeping \ {y}
      /\ sweepStatus' = [sweepStatus EXCEPT ![y] = end]
      /\ sweeper' = [sweeper EXCEPT ![t].at = "record"]
  BY DEF Engine!FinishAction
<1>2. sweeper[t] \in Batches /\ sweeper[t].todo \in Seq(Cleanups) /\ sweeper[t].todo # <<>>
  BY <1>1, SweeperIs
<1>3. y \in Cleanups /\ end \in {"completed", "failed"}
  BY <1>1, <1>2, CurrentIs DEF Engine!Current
<1>4. x \in Batches /\ x.at = "record" /\ x.todo = sweeper[t].todo
  BY <1>2 DEF Batches
<1>5. sweeper \in [Minders -> Sweepers] /\ x \in Sweepers
  BY <1>4 DEF SweepInv, SweepTypes, Sweepers
<1>6. /\ sweeper' \in [Minders -> Sweepers] /\ sweeper'[t] = x
      /\ \A u \in Minders : u # t => sweeper'[u] = sweeper[u]
  BY <1>1, <1>5
<1> HIDE DEF x, end
<1>7. /\ ~ Executes(t)' /\ Executes(t)
      /\ \A u \in Minders : u # t =>
            (Executes(u)' <=> Executes(u)) /\ (Executes(u) => Engine!Current(u)' = Engine!Current(u))
  BY <1>1, <1>4, <1>6 DEF Executes, Engine!Current
<1>8. \A u \in Minders : u # t /\ Executes(u) => Engine!Current(u) # y
  BY <1>7 DEF SweepInv, HandsApart
<1> HIDE DEF y
<1>9. SweepTypes'
  <2>1. sweepStatus' \in [Cleanups -> {"unplanned", "pending", "running", "completed", "failed"}]
    BY <1>1, <1>3 DEF SweepInv, SweepTypes
  <2>2. sweeping' \subseteq Cleanups
    BY <1>1, <1>3 DEF SweepInv, SweepTypes
  <2>3. \A u \in Minders : sweeper'[u].at \in {"run", "record", "save"} => sweeper'[u].todo # <<>>
    BY <1>2, <1>4, <1>6 DEF SweepInv, SweepTypes
  <2> QED
    BY <1>6, <2>1, <2>2, <2>3 DEF SweepTypes
<1>10. HandsApart'
  <2>1. ASSUME NEW u \in Minders, NEW v \in Minders, Executes(u)', Executes(v)', u # v
        PROVE  Engine!Current(u)' # Engine!Current(v)'
    BY <1>7, <2>1 DEF SweepInv, HandsApart
  <2>2. ASSUME NEW z \in Cleanups
        PROVE  z \in sweeping' <=> \E u \in Minders : Executes(u)' /\ z = Engine!Current(u)'
    <3>1. z \in sweeping <=> \E u \in Minders : Executes(u) /\ z = Engine!Current(u)
      BY DEF SweepInv, HandsApart
    <3>2. Engine!Current(t) = y
      BY DEF y
    <3> QED
      BY <1>1, <1>7, <1>8, <3>1, <3>2
  <2>3. ASSUME NEW z \in Cleanups PROVE sweepStatus'[z] = "running" <=> z \in sweeping'
    BY <1>1, <1>3 DEF SweepInv, SweepTypes, HandsApart
  <2> QED
    BY <2>1, <2>2, <2>3 DEF HandsApart
<1> QED
  BY <1>9, <1>10 DEF SweepInv

LEMMA SweepLeft == ASSUME SweepInv, UNCHANGED Engine!sweepVars PROVE SweepInv'
<1>1. UNCHANGED <<sweepStatus, sweeping, sweeper>>
  BY DEF Engine!sweepVars
<1> QED
  BY <1>1 DEF SweepInv, SweepTypes, HandsApart, Executes, Engine!Current

LEMMA SweepStep == ASSUME SweepInv, Engine!Sweep PROVE SweepInv'
<1>1. ASSUME NEW t \in Minders,
             \/ \E g \in SUBSET Cleanups, k \in BOOLEAN : Engine!PlanSweep(t, g, k)
             \/ \E y \in Cleanups, k \in BOOLEAN : Engine!ExecuteGiven(t, y, k)
             \/ Engine!RefuseRunning(t) \/ Engine!StartAction(t)
             \/ \E ok \in BOOLEAN : Engine!FinishAction(t, ok)
             \/ Engine!RecordResult(t) \/ Engine!EndBatch(t) \/ Engine!SaveAction(t)
      PROVE  SweepInv'
  <2>1. Engine!RefuseRunning(t) => SweepInv'
    BY NextTaken DEF Engine!RefuseRunning
  <2>2. Engine!RecordResult(t) => SweepInv'
    BY NextTaken, SweeperIs DEF Engine!RecordResult
  <2> QED
    BY <1>1, <2>1, <2>2, Planned, GivenExecuted, ActionStarted, ActionFinished, BatchEnded, ActionSaved
<1> QED
  BY <1>1, SweepLeft DEF Engine!Sweep

(* Threads that execute have as many actions as they are.                  *)
LEMMA SweepClaims == SweepInv => Engine!SweepsDisjoint
<1> SUFFICES ASSUME SweepInv PROVE Engine!SweepsDisjoint
  OBVIOUS
<1> DEFINE T == {t \in Minders : Executes(t)}
           f == [t \in T |-> Engine!Current(t)]
<1>1. ASSUME NEW t \in T PROVE Engine!Current(t) \in sweeping
  <2>1. Engine!Current(t) \in Cleanups
    BY SweeperIs, CurrentIs DEF Executes, Engine!Current
  <2> QED
    BY <2>1 DEF SweepInv, HandsApart
<1>2. ASSUME NEW x \in sweeping PROVE \E t \in T : x = Engine!Current(t)
  BY DEF SweepInv, SweepTypes, HandsApart
<1>3. f \in [T -> sweeping]
  BY <1>1
<1>4. \A t, u \in T : f[t] = f[u] => t = u
  BY DEF SweepInv, HandsApart
<1>5. \A x \in sweeping : \E t \in T : f[t] = x
  BY <1>2
<1>6. f \in Bijection(T, sweeping)
  BY <1>3, <1>4, <1>5 DEF Bijection, Injection, Surjection, IsInjective
<1>7. IsFiniteSet(T)
  BY EntropyAssumption, FS_Subset
<1>8. Cardinality(sweeping) = Cardinality(T)
  BY <1>6, <1>7, FS_Bijection DEF ExistsBijection
<1>9. sweeping = {Engine!Current(t) : t \in T}
  BY <1>1, <1>2
<1>10. \A x \in Cleanups : sweepStatus[x] = "running" <=> x \in sweeping
  BY DEF SweepInv, HandsApart
<1> QED
  BY <1>8, <1>9, <1>10, SampleCardinality DEF Engine!SweepsDisjoint, Executes

-----------------------------------------------------------------------------
LEMMA WatchInit == MCInit => WatchInv
<1> SUFFICES ASSUME MCInit PROVE WatchInv
  OBVIOUS
<1>1. /\ hour = 0 /\ lastFired = [r \in Alarms |-> NoAgent] /\ alerts = <<>> /\ raised = <<>>
      /\ alertRows = {} /\ looping = [t \in Minders |-> Engine!Idle]
  BY DEF MCInit, Engine!Init
<1>2. <<>> \in Seq(Notes) /\ <<>> \in Seq(Rings) /\ Len(<<>>) = 0 /\ Shown \in Nat
  BY EntropyAssumption
<1>3. Engine!Idle \in Loops /\ Engine!Idle.at = "idle"
  BY DEF Loops, Engine!Idle
<1>4. WatchTypes
  BY <1>1, <1>2, <1>3 DEF WatchTypes
<1>5. Spaced
  BY <1>1, <1>2, <1>3 DEF Spaced
<1> QED
  BY <1>4, <1>5 DEF WatchInv

(* Where a loop is, by what it keeps.                                      *)
LEMMA LoopIs ==
    ASSUME WatchInv, NEW t \in Minders
    PROVE  /\ looping[t] \in Loops
           /\ looping[t].at = "check" => looping[t] \in [at : {"check"}, now : Nat]
           /\ looping[t].at = "save" => looping[t] \in [at : {"save"}, left : Seq(Rings)]
<1>1. looping[t] \in Loops
  BY DEF WatchInv, WatchTypes
<1>2. CASE looping[t] = Engine!Idle
  BY <1>1, <1>2 DEF Engine!Idle
<1>3. CASE looping[t] \in [at : {"top", "sleep"}]
  BY <1>1, <1>3
<1>4. CASE looping[t] \in [at : {"check"}, now : Nat]
  BY <1>1, <1>4
<1>5. CASE looping[t] \in [at : {"save"}, left : Seq(Rings)]
  BY <1>1, <1>5
<1> QED
  BY <1>1, <1>2, <1>3, <1>4, <1>5 DEF Loops

(* A loop that goes on with what was raised.                               *)
Waiting(x) == x.at = "save" => \A i \in DOMAIN x.left : Rung(x.left[i])

LEMMA LoopSet ==
    ASSUME WatchInv, NEW t \in Minders, NEW x \in Loops, Waiting(x),
           looping' = [looping EXCEPT ![t] = x], UNCHANGED <<lastFired, alerts, raised, hour>>,
           \A y \in alertRows' : Rung(y)
    PROVE  WatchInv'
<1>1. looping' \in [Minders -> Loops]
  BY DEF WatchInv, WatchTypes
<1>2. looping'[t] = x /\ \A u \in Minders : u # t => looping'[u] = looping[u]
  BY DEF WatchInv, WatchTypes
<1>3. WatchTypes'
  BY <1>1 DEF WatchInv, WatchTypes
<1>4. \A y : Rung(y)' <=> Rung(y)
  BY DEF Rung
<1>5. \A u \in Minders : looping'[u].at = "save" =>
         \A i \in DOMAIN looping'[u].left : Rung(looping'[u].left[i])
  BY <1>2 DEF WatchInv, Spaced, Waiting
<1>6. Spaced'
  BY <1>4, <1>5 DEF WatchInv, Spaced
<1> QED
  BY <1>3, <1>6 DEF WatchInv

LEMMA LoopLeft ==
    ASSUME WatchInv, NEW t \in Minders, NEW x \in Loops, Waiting(x),
           looping' = [looping EXCEPT ![t] = x],
           UNCHANGED <<lastFired, alerts, raised, hour, alertRows>>
    PROVE  WatchInv'
<1>1. \A y \in alertRows' : Rung(y)
  BY DEF WatchInv, Spaced
<1> QED
  BY <1>1, LoopSet

LEMMA LoopMoves ==
    ASSUME WatchInv, NEW t \in Minders,
           Engine!Start(t) \/ Engine!ReadClock(t) \/ Engine!Wake(t)
    PROVE  WatchInv'
<1>1. CASE Engine!Start(t) \/ Engine!Wake(t)
  <2> DEFINE x == [at |-> "top"]
  <2>1. /\ looping' = [looping EXCEPT ![t] = x]
        /\ UNCHANGED <<lastFired, alerts, raised, hour, alertRows>>
    BY <1>1 DEF Engine!Start, Engine!Wake
  <2>2. x \in Loops /\ Waiting(x)
    BY DEF Loops, Waiting
  <2> HIDE DEF x
  <2> QED
    BY <2>1, <2>2, LoopLeft
<1>2. CASE Engine!ReadClock(t)
  <2> DEFINE x == IF engine = "running" THEN [at |-> "check", now |-> hour] ELSE Engine!Idle
  <2>1. /\ looping' = [looping EXCEPT ![t] = x]
        /\ UNCHANGED <<lastFired, alerts, raised, hour, alertRows>>
    BY <1>2 DEF Engine!ReadClock
  <2>2. hour \in Nat
    BY DEF WatchInv, WatchTypes
  <2>3. CASE engine = "running"
    <3>1. x = [at |-> "check", now |-> hour]
      BY <2>3
    <3> HIDE DEF x
    <3>2. x \in Loops /\ Waiting(x)
      BY <2>2, <3>1 DEF Loops, Waiting
    <3> QED
      BY <2>1, <3>2, LoopLeft
  <2>4. CASE engine # "running"
    <3>1. x = Engine!Idle
      BY <2>4
    <3> HIDE DEF x
    <3>2. x \in Loops /\ Waiting(x)
      BY <3>1 DEF Loops, Waiting, Engine!Idle
    <3> QED
      BY <2>1, <3>2, LoopLeft
  <2> QED
    BY <2>3, <2>4
<1> QED
  BY <1>1, <1>2

LEMMA AlertSaved ==
    ASSUME WatchInv, NEW t \in Minders, Engine!SaveAlert(t)
    PROVE  WatchInv'
<1> DEFINE q == looping[t].left
<1>1. looping[t].at = "save" /\ UNCHANGED <<lastFired, alerts, raised, hour>>
  BY DEF Engine!SaveAlert
<1>2. looping[t] \in [at : {"save"}, left : Seq(Rings)] /\ q \in Seq(Rings)
  BY <1>1, LoopIs
<1>3. \A i \in DOMAIN q : Rung(q[i])
  BY <1>1 DEF WatchInv, Spaced
<1>4. \A y \in alertRows : Rung(y)
  BY DEF WatchInv, Spaced
<1>5. CASE q = <<>> \/ ~ dbOpen
  <2> DEFINE x == [at |-> "sleep"]
  <2>1. looping' = [looping EXCEPT ![t] = x] /\ UNCHANGED alertRows
    BY <1>5 DEF Engine!SaveAlert
  <2>2. x \in Loops /\ Waiting(x)
    BY DEF Loops, Waiting
  <2> HIDE DEF x
  <2> QED
    BY <1>1, <2>1, <2>2, LoopLeft
<1>6. CASE ~ (q = <<>> \/ ~ dbOpen)
  <2> DEFINE x == [looping[t] EXCEPT !.left = Tail(q)]
  <2>1. looping' = [looping EXCEPT ![t].left = Tail(@)] /\ alertRows' = alertRows \cup {Head(q)}
    BY <1>6 DEF Engine!SaveAlert, Engine!SavedAlert
  <2>2. looping' = [looping EXCEPT ![t] = x]
    BY <2>1 DEF WatchInv, WatchTypes
  <2>3. Tail(q) \in Seq(Rings) /\ Head(q) = q[1] /\ 1 \in DOMAIN q
    BY <1>2, <1>6
  <2>4. ASSUME NEW i \in DOMAIN Tail(q) PROVE Rung(Tail(q)[i])
    <3>1. i + 1 \in DOMAIN q /\ Tail(q)[i] = q[i + 1]
      BY <1>2, <1>6
    <3> QED
      BY <1>3, <3>1
  <2>5. x \in [at : {"save"}, left : Seq(Rings)] /\ x.left = Tail(q)
    BY <1>2, <2>3
  <2> HIDE DEF x
  <2>6. x \in Loops /\ Waiting(x)
    BY <2>4, <2>5 DEF Loops, Waiting
  <2>7. \A y \in alertRows' : Rung(y)
    BY <1>3, <1>4, <2>1, <2>3
  <2> QED
    BY <1>1, <2>2, <2>6, <2>7, LoopSet
<1> QED
  BY <1>5, <1>6

LEMMA AlertAcknowledged ==
    ASSUME WatchInv, NEW i, Engine!AcknowledgeAlert(i)
    PROVE  WatchInv'
<1> DEFINE x == [alerts[i] EXCEPT !.ack = TRUE]
<1>1. /\ i \in DOMAIN alerts /\ alerts' = [alerts EXCEPT ![i].ack = TRUE]
      /\ UNCHANGED <<lastFired, raised, hour, alertRows, looping>>
  BY DEF Engine!AcknowledgeAlert
<1>2. alerts \in Seq(Notes) /\ Len(alerts) <= Shown
  BY DEF WatchInv, WatchTypes
<1>3. alerts[i] \in Notes
  BY <1>1, <1>2
<1>4. x \in Notes
  BY <1>3 DEF Notes
<1>5. alerts' = [alerts EXCEPT ![i] = x]
  BY <1>1, <1>2
<1> HIDE DEF x
<1>6. alerts' \in Seq(Notes) /\ Len(alerts') = Len(alerts)
  <2>1. alerts \in [1 .. Len(alerts) -> Notes] /\ Len(alerts) \in Nat
    BY <1>2
  <2>2. alerts' \in [1 .. Len(alerts) -> Notes]
    BY <1>4, <1>5, <2>1
  <2> QED
    BY <2>1, <2>2
<1>7. WatchTypes'
  BY <1>1, <1>2, <1>6 DEF WatchInv, WatchTypes
<1>8. \A y : Rung(y)' <=> Rung(y)
  BY <1>1 DEF Rung
<1>9. Spaced'
  BY <1>1, <1>8 DEF WatchInv, Spaced
<1> QED
  BY <1>7, <1>9 DEF WatchInv

LEMMA AlertsRaised ==
    ASSUME WatchInv, NEW t \in Minders, NEW held \in SUBSET Alarms, Engine!CheckAndAlert(t, held)
    PROVE  WatchInv'
<1> DEFINE time == looping[t].now
           due == {r \in held : Engine!CooledDown(r, time)}
           new == {[rule |-> r, at |-> time] : r \in due}
<1>1. PICK q \in Engine!SetToSeqs(new) :
         /\ raised' = raised \o q
         /\ alerts' \in Engine!Pruned(alerts \o [i \in DOMAIN q |-> Engine!NewAlert(q[i].rule, time)],
                                     Shown, hour - Expiry)
         /\ looping' = [looping EXCEPT ![t] = [at |-> "save", left |-> q]]
  BY DEF Engine!CheckAndAlert
<1>2. /\ looping[t].at = "check" /\ UNCHANGED <<alertRows, hour>>
      /\ lastFired' = [r \in Alarms |-> IF r \in due THEN time ELSE lastFired[r]]
  BY DEF Engine!CheckAndAlert
<1>3. time \in Nat
  BY <1>2, LoopIs
<1>4. /\ due \subseteq Alarms
      /\ \A r \in due : lastFired[r] # NoAgent => time - lastFired[r] >= Pause
  BY DEF Engine!CooledDown
<1>5. Pause \in Nat /\ Shown \in Nat
  BY EntropyAssumption
<1> HIDE DEF time, due
<1>6. IsFiniteSet(new)
  <2> DEFINE f == [r \in due |-> [rule |-> r, at |-> time]]
  <2>1. f \in Surjection(due, new)
    BY DEF Surjection
  <2>2. IsFiniteSet(due)
    BY <1>4, EntropyAssumption, FS_Subset
  <2> HIDE DEF f
  <2> QED
    BY <2>1, <2>2, FS_Surjection
<1>7. Engine!Cardinality(new) \in Nat
  BY <1>6, FS_CardinalityType, SampleCardinality
<1>8. /\ q \in [1 .. Engine!Cardinality(new) -> new]
      /\ \A i, j \in 1 .. Engine!Cardinality(new) : i # j => q[i] # q[j]
  BY <1>1 DEF Engine!SetToSeqs
<1>9. new \subseteq Rings
  BY <1>3, <1>4 DEF Rings
<1>10. \A x \in new : x = [rule |-> x.rule, at |-> time] /\ x.rule \in due /\ x.at = time
  OBVIOUS
<1> HIDE DEF new
<1>11. q \in Seq(new) /\ q \in Seq(Rings) /\ DOMAIN q = 1 .. Len(q) /\ Len(q) \in Nat
  <2>1. q \in Seq(new)
    BY <1>7, <1>8
  <2>2. q \in [1 .. Engine!Cardinality(new) -> Rings]
    BY <1>8, <1>9
  <2> QED
    BY <1>7, <2>1, <2>2
<1>12. \A i, j \in 1 .. Len(q) : i # j => q[i] # q[j]
  BY <1>7, <1>8, <1>11
<1>13. \A i \in 1 .. Len(q) : q[i] \in new
  BY <1>11
<1> DEFINE n == Len(raised)
<1>14. raised \in Seq(Rings) /\ n \in Nat
  BY DEF WatchInv, WatchTypes
<1>15. /\ raised' \in Seq(Rings) /\ Len(raised') = n + Len(q)
       /\ \A i \in 1 .. n + Len(q) : raised'[i] = IF i <= n THEN raised[i] ELSE q[i - n]
  BY <1>1, <1>11, <1>14, Joined
<1>16. ASSUME NEW i \in 1 .. n
       PROVE  i \in 1 .. Len(raised') /\ raised'[i] = raised[i] /\ raised[i] \in Rings
  BY <1>11, <1>14, <1>15
<1>17. ASSUME NEW i \in 1 .. Len(raised'), ~ (i <= n)
       PROVE  i - n \in 1 .. Len(q) /\ raised'[i] = q[i - n] /\ raised'[i] \in new
  <2>1. i - n \in 1 .. Len(q) /\ raised'[i] = q[i - n]
    BY <1>11, <1>14, <1>15, <1>17
  <2> QED
    BY <1>13, <2>1
<1> HIDE DEF n
<1>18. \A r \in Alarms : lastFired[r] \in Nat \cup {NoAgent}
  BY DEF WatchInv, WatchTypes
<1>19. ASSUME NEW i \in 1 .. n
       PROVE  /\ raised[i].rule \in Alarms /\ raised[i].at \in Nat
              /\ lastFired[raised[i].rule] \in Nat /\ raised[i].at <= lastFired[raised[i].rule]
              /\ lastFired[raised[i].rule] # NoAgent
  <2>1. raised[i].rule \in Alarms /\ raised[i].at \in Nat
    BY <1>16 DEF Rings
  <2>2. i \in DOMAIN raised
    BY <1>14 DEF n
  <2> QED
    BY <1>18, <2>1, <2>2 DEF WatchInv, Spaced
<1>20. ASSUME NEW i \in 1 .. Len(raised')
       PROVE  /\ lastFired'[raised'[i].rule] # NoAgent
              /\ raised'[i].at <= lastFired'[raised'[i].rule]
  <2>1. CASE i <= n
    <3>1. i \in 1 .. n
      BY <1>14, <1>15, <2>1
    <3>2. CASE raised[i].rule \in due
      <4>1. lastFired'[raised[i].rule] = time
        BY <1>2, <1>19, <3>1, <3>2
      <4>2. time - lastFired[raised[i].rule] >= Pause
        BY <1>4, <1>19, <3>1, <3>2
      <4>3. raised[i].at <= time
        BY <1>3, <1>5, <1>19, <3>1, <4>2
      <4> QED
        BY <1>3, <1>16, <3>1, <4>1, <4>3, RecoveryAssumption
    <3>3. CASE raised[i].rule \notin due
      <4>1. lastFired'[raised[i].rule] = lastFired[raised[i].rule]
        BY <1>2, <1>19, <3>1, <3>3
      <4> QED
        BY <1>16, <1>19, <3>1, <4>1
    <3> QED
      BY <3>2, <3>3
  <2>2. CASE ~ (i <= n)
    <3>1. raised'[i].rule \in due /\ raised'[i].at = time
      BY <1>10, <1>17, <2>2
    <3>2. lastFired'[raised'[i].rule] = time
      BY <1>2, <1>4, <3>1
    <3> QED
      BY <1>3, <3>1, <3>2, RecoveryAssumption
  <2> QED
    BY <2>1, <2>2
<1>21. ASSUME NEW i \in 1 .. Len(raised'), NEW j \in 1 .. Len(raised'), i < j,
              raised'[i].rule = raised'[j].rule
       PROVE  raised'[j].at - raised'[i].at >= Pause
  <2>1. CASE j <= n
    <3>1. i \in 1 .. n /\ j \in 1 .. n
      BY <1>14, <1>15, <1>21, <2>1
    <3>2. i \in DOMAIN raised /\ j \in DOMAIN raised
      BY <1>14, <3>1 DEF n
    <3>3. raised'[i] = raised[i] /\ raised'[j] = raised[j]
      BY <1>16, <3>1
    <3> QED
      BY <1>21, <3>2, <3>3 DEF WatchInv, Spaced
  <2>2. CASE i <= n /\ ~ (j <= n)
    <3>1. i \in 1 .. n
      BY <1>14, <2>2
    <3>2. raised'[j].rule \in due /\ raised'[j].at = time
      BY <1>10, <1>17, <2>2
    <3>3. raised'[i] = raised[i] /\ raised[i].rule \in due
      BY <1>16, <1>21, <3>1, <3>2
    <3>4. time - lastFired[raised[i].rule] >= Pause
      BY <1>4, <1>19, <3>1, <3>3
    <3> QED
      BY <1>3, <1>5, <1>19, <3>1, <3>2, <3>3, <3>4
  <2>3. CASE ~ (i <= n) /\ ~ (j <= n)
    <3>1. raised'[i] = q[i - n] /\ raised'[j] = q[j - n] /\ raised'[i] \in new /\ raised'[j] \in new
          /\ i - n \in 1 .. Len(q) /\ j - n \in 1 .. Len(q)
      BY <1>17, <2>3
    <3>2. i - n # j - n
      BY <1>14, <1>21
    <3>3. raised'[i] # raised'[j]
      BY <1>12, <3>1, <3>2
    <3> QED
      BY <1>10, <1>21, <3>1, <3>3
  <2>4. (j <= n) \/ (i <= n /\ ~ (j <= n)) \/ (~ (i <= n) /\ ~ (j <= n))
    OBVIOUS
  <2> QED
    BY <2>1, <2>2, <2>3, <2>4
<1>22. \A x : Rung(x) => Among(x, raised')
  <2>1. ASSUME NEW x, Rung(x) PROVE \E i \in DOMAIN raised' : raised'[i] = x
    <3>1. PICK i \in 1 .. n : raised[i] = x
      BY <1>14, <2>1 DEF Rung, Among, n
    <3>2. i \in DOMAIN raised'
      BY <1>15, <1>16
    <3> QED
      BY <1>16, <3>1, <3>2
  <2> QED
    BY <2>1 DEF Among
<1>23. \A i \in 1 .. Len(q) : Among(q[i], raised')
  <2>1. ASSUME NEW i \in 1 .. Len(q) PROVE \E k \in DOMAIN raised' : raised'[k] = q[i]
    <3>1. n + i \in 1 .. n + Len(q) /\ ~ (n + i <= n) /\ (n + i) - n = i
      BY <1>11, <1>14
    <3>2. raised'[n + i] = q[i] /\ n + i \in DOMAIN raised'
      BY <1>15, <3>1
    <3> QED
      BY <3>2
  <2> QED
    BY <2>1 DEF Among
<1> DEFINE x == [at |-> "save", left |-> q]
<1>24. looping' \in [Minders -> Loops]
  <2>1. x \in Loops
    BY <1>11 DEF Loops
  <2>2. looping' = [looping EXCEPT ![t] = x]
    BY <1>1
  <2> HIDE DEF x
  <2> QED
    BY <2>1, <2>2 DEF WatchInv, WatchTypes
<1>25. ASSUME NEW u \in Minders, looping'[u].at = "save", NEW i \in DOMAIN looping'[u].left
       PROVE  Among(looping'[u].left[i], raised')
  <2>1. CASE u = t
    <3>1. looping'[u] = x
      BY <1>1, <2>1 DEF WatchInv, WatchTypes
    <3> QED
      BY <1>11, <1>23, <1>25, <3>1
  <2>2. CASE u # t
    <3>1. looping'[u] = looping[u]
      BY <1>1, <2>2 DEF WatchInv, WatchTypes
    <3>2. Rung(looping[u].left[i])
      BY <1>25, <3>1 DEF WatchInv, Spaced
    <3> QED
      BY <1>22, <3>1, <3>2
  <2> QED
    BY <2>1, <2>2
<1>26. alerts' \in Seq(Notes) /\ Len(alerts') <= Shown
  <2> DEFINE notes == [i \in DOMAIN q |-> Engine!NewAlert(q[i].rule, time)]
  <2>1. ASSUME NEW i \in 1 .. Len(q) PROVE Engine!NewAlert(q[i].rule, time) \in Notes
    <3>1. q[i].rule \in Alarms
      BY <1>4, <1>10, <1>13
    <3> QED
      BY <1>3, <3>1 DEF Engine!NewAlert, Notes
  <2>2. notes \in [1 .. Len(q) -> Notes]
    BY <1>11, <2>1
  <2>3. notes \in Seq(Notes)
    BY <1>11, <2>2
  <2>4. alerts' \in Engine!Pruned(alerts \o notes, Shown, hour - Expiry)
    BY <1>1
  <2> HIDE DEF notes
  <2>5. alerts \o notes \in Seq(Notes)
    BY <2>3 DEF WatchInv, WatchTypes
  <2>6. Shown \in Nat /\ hour - Expiry \in Int /\ \A w \in Notes : w.at \in Int
    <3>1. Shown \in Nat /\ Expiry \in Nat
      BY EntropyAssumption
    <3>2. hour \in Nat
      BY DEF WatchInv, WatchTypes
    <3> QED
      BY <3>1, <3>2 DEF Notes
  <2> QED
    BY <2>4, <2>5, <2>6, PrunedIs
<1>27. lastFired' \in [Alarms -> Nat \cup {NoAgent}]
  BY <1>2, <1>3, <1>18
<1>28. WatchTypes'
  BY <1>2, <1>15, <1>24, <1>26, <1>27 DEF WatchInv, WatchTypes
<1>29. \A y \in alertRows' : Among(y, raised')
  BY <1>2, <1>22 DEF WatchInv, Spaced
<1>30. DOMAIN raised' = 1 .. Len(raised')
  BY <1>15
<1>31. Spaced'
  BY <1>20, <1>21, <1>25, <1>29, <1>30 DEF Spaced, Rung
<1> QED
  BY <1>28, <1>31 DEF WatchInv

LEMMA WatchLeft ==
    ASSUME WatchInv, UNCHANGED <<lastFired, alerts, raised, alertRows, looping>>, hour' \in Nat
    PROVE  WatchInv'
<1>1. \A x : Rung(x)' <=> Rung(x)
  BY DEF Rung
<1> QED
  BY <1>1 DEF WatchInv, WatchTypes, Spaced

LEMMA WatchStep == ASSUME WatchInv, Engine!Watch PROVE WatchInv'
<1>1. hour \in Nat
  BY DEF WatchInv, WatchTypes
<1>2. ASSUME UNCHANGED Engine!alertVars, UNCHANGED hour PROVE WatchInv'
  BY <1>1, <1>2, WatchLeft DEF Engine!alertVars
<1>3. ASSUME Engine!Tick /\ UNCHANGED Engine!alertVars PROVE WatchInv'
  BY <1>1, <1>3, WatchLeft DEF Engine!Tick, Engine!alertVars
<1>4. ASSUME NEW t \in Minders,
             \/ Engine!Start(t) \/ Engine!ReadClock(t) \/ Engine!SaveAlert(t) \/ Engine!Wake(t)
             \/ \E h \in SUBSET Alarms : Engine!CheckAndAlert(t, h)
      PROVE  WatchInv'
  BY <1>4, LoopMoves, AlertSaved, AlertsRaised
<1>5. ASSUME NEW i \in 1 .. Shown, Engine!AcknowledgeAlert(i) PROVE WatchInv'
  BY <1>5, AlertAcknowledged
<1> QED
  BY <1>2, <1>3, <1>4, <1>5 DEF Engine!Watch

LEMMA WatchClaims == WatchInv => Engine!AlertsSpaced
<1> SUFFICES ASSUME WatchInv PROVE Engine!AlertsSpaced
  OBVIOUS
<1>1. ASSUME NEW x \in alertRows PROVE x \in {raised[i] : i \in DOMAIN raised}
  BY DEF WatchInv, Spaced, Rung, Among
<1> QED
  BY <1>1 DEF WatchInv, Spaced, Engine!AlertsSpaced

-----------------------------------------------------------------------------
LEMMA GovernanceInit == MCInit => GovernanceInv
  BY SweepInit, WatchInit, AdaptInit, BooksInit DEF GovernanceInv, AdaptInv

LEMMA GovernanceInvariance == GovernanceInv /\ [MCNext]_allVars => GovernanceInv'
<1> SUFFICES ASSUME GovernanceInv, [MCNext]_allVars PROVE GovernanceInv'
  OBVIOUS
<1>1. BooksKept'
  <2>1. CASE Books!BooksNext
    BY <2>1, BooksStep DEF GovernanceInv
  <2>2. CASE UNCHANGED bookVars
    BY <2>2 DEF GovernanceInv, bookVars, BooksKept
  <2> QED
    BY <2>1, <2>2, GovernanceMoves
<1>2. SweepInv'
  <2>1. CASE Engine!Sweep
    BY <2>1, SweepStep DEF GovernanceInv
  <2>2. CASE UNCHANGED Engine!sweepVars
    BY <2>2, SweepLeft DEF GovernanceInv
  <2> QED
    BY <2>1, <2>2, GovernanceMoves
<1>3. hour \in Nat
  BY DEF GovernanceInv, AdaptInv
<1>4. Engine!Collect \/ Engine!Adapt => hour' \in Nat
  BY AdaptStep DEF GovernanceInv, AdaptInv
<1>5. WatchInv'
  <2>1. CASE Engine!Watch
    BY <2>1, WatchStep DEF GovernanceInv
  <2>2. ASSUME UNCHANGED Engine!alertVars, hour' \in Nat PROVE WatchInv'
    BY <2>2, WatchLeft DEF GovernanceInv, Engine!alertVars
  <2> QED
    BY <1>3, <1>4, <2>1, <2>2, GovernanceMoves
<1>6. AdaptInv'
  <2>1. CASE Engine!Collect \/ Engine!Adapt
    BY <2>1, AdaptStep DEF GovernanceInv
  <2>2. ASSUME UNCHANGED Engine!sampleVars, hour' \in {hour, hour + 1} PROVE AdaptInv'
    <3>1. UNCHANGED Engine!recordVars /\ UNCHANGED threshold
      BY <2>2 DEF Engine!sampleVars, Engine!levelVars
    <3>2. hour' \in Nat /\ SamplesKept'
      BY <2>2, <3>1, SamplesLeft DEF GovernanceInv
    <3> QED
      BY <3>1, <3>2 DEF GovernanceInv, AdaptInv, LevelsApart
  <2>3. Engine!Watch => hour' \in {hour, hour + 1}
    BY DEF Engine!Watch, Engine!Start, Engine!ReadClock, Engine!SaveAlert, Engine!Wake,
           Engine!CheckAndAlert, Engine!Stop, Engine!AcknowledgeAlert, Engine!Tick
  <2> QED
    BY <2>1, <2>2, <2>3, GovernanceMoves
<1> QED
  BY <1>1, <1>2, <1>5, <1>6 DEF GovernanceInv

(* No action of the entropy governance is in the hands of two executors,   *)
(* whatever sweeps meet (execute_action); alerts of a rule are a cooldown  *)
(* apart, however many loops run (check_and_alert); the levels of a        *)
(* category stay in order through any adaptations (adapt_threshold); until *)
(* samples are loaded the newest are kept in their order, and each sample  *)
(* is in the table, to be saved, refused or crowded out (record, _prune);  *)
(* and a plan of a sweep merges the outputs that claim one topic.          *)
THEOREM GovernanceIsSound == MCSpec => []EntropySound
<1>1. MCSpec => []GovernanceInv
  BY GovernanceInit, GovernanceInvariance, PTL DEF MCSpec
<1>2. GovernanceInv => EntropySound
  <2> SUFFICES ASSUME GovernanceInv PROVE EntropySound
    OBVIOUS
  <2>1. Engine!TypeOK
    <3>1. \A t \in Minders : sweeper[t].at \in {"idle", "next", "run", "record", "save"}
      BY SweeperIs DEF GovernanceInv
    <3>2. sweepStatus \in [Cleanups -> {"unplanned", "pending", "running", "completed", "failed"}]
      BY DEF GovernanceInv, SweepInv, SweepTypes
    <3>3. Len(alerts) <= Shown /\ Len(samples) <= Window
      BY DEF GovernanceInv, WatchInv, WatchTypes, AdaptInv, SamplesKept, SampleTypes
    <3> QED
      BY <3>1, <3>2, <3>3 DEF Engine!TypeOK
  <2> QED
    BY <2>1, SweepClaims, WatchClaims, AdaptClaims, BooksClaims DEF GovernanceInv, EntropySound
<1> QED
  BY <1>1, <1>2, PTL
=============================================================================
