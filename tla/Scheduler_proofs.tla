--------------------------- MODULE Scheduler_proofs --------------------------
(***************************************************************************)
(* Proofs about Scheduler, for any schedules, policies and request threads,*)
(* any length of the day and any bounds.                                   *)
(***************************************************************************)
EXTENDS Scheduler, TLAPS

-----------------------------------------------------------------------------
\* What is counted stays within the bound.
LEMMA CountType ==
    ASSUME NEW n \in 0..MaxCount
    PROVE  Lesser(n + 1, MaxCount) \in 0..MaxCount
BY SchedulerAssumption DEF Lesser

\* ... and so do the tables of counters.
LEMMA OneMore ==
    ASSUME NEW count \in [Schedules -> [Times -> 0..MaxCount]],
           NEW s \in Schedules, NEW f \in Times
    PROVE  [count EXCEPT ![s][f] = Lesser(@ + 1, MaxCount)]
               \in [Schedules -> [Times -> 0..MaxCount]]
<1>1. count[s][f] \in 0..MaxCount
  OBVIOUS
<1>2. Lesser(count[s][f] + 1, MaxCount) \in 0..MaxCount
  BY <1>1, CountType
<1>3. QED
  BY <1>2

\* The day of t begins at some time, whatever division yields.
LEMMA BoundType ==
    ASSUME NEW p \in WindowPolicy, NEW b \in Nat, NEW t \in Nat
    PROVE  Bound(p, b, t) \in Nat
<1> USE SchedulerAssumption
<1>1. DayLength \in Nat /\ DayLength > 0
  OBVIOUS
<1>2. t \div DayLength \in Nat
  BY <1>1
<1>3. \A q \in Nat : q * DayLength + b \in Nat
  BY <1>1
<1>4. QED
  BY <1>2, <1>3 DEF Bound

\* What compute answers for a window: bounds that are times, the second after the
\* first, and for an advancing policy less than a day after it.
LEMMA WindowBounds ==
    ASSUME NEW p \in Policies, p.type = "window", NEW t \in Nat
    PROVE  /\ p \in WindowPolicy
           /\ WindowStart(p, t) \in Nat /\ WindowEnd(p, t) \in Nat
           /\ Advancing(p) => WindowEnd(p, t) < WindowStart(p, t) + DayLength
<1> USE SchedulerAssumption
<1>1. p \in WindowPolicy
  BY DEF AtPolicy, IntervalPolicy, UnreadablePolicy, RaisingPolicy
<1>2. p.start \in Nat /\ p.end \in Nat /\ p.daily \in BOOLEAN
  BY <1>1 DEF WindowPolicy
<1>3. WindowStart(p, t) \in Nat /\ Bound(p, p.end, t) \in Nat
  BY <1>1, <1>2, BoundType DEF WindowStart
<1>4. WindowEnd(p, t) \in Nat
  BY <1>3 DEF WindowEnd
<1>5. Advancing(p) => Bound(p, p.end, t) < WindowStart(p, t) + DayLength
  <2>1. CASE p.daily
    <3>1. p.start \in Nat /\ p.end < DayLength
      BY <1>2, <2>1 DEF WithinTheDay
    <3>2. \A day \in Nat : day + p.end < (day + p.start) + DayLength
      BY <1>2, <3>1
    <3>3. (t \div DayLength) * DayLength + 0 \in Nat
      BY <1>1, <2>1, BoundType DEF Bound
    <3>4. (t \div DayLength) * DayLength \in Nat
      BY <3>3
    <3>5. QED
      BY <2>1, <3>2, <3>4 DEF Bound, WindowStart
  <2>2. CASE ~p.daily
    BY <1>2, <2>2 DEF Bound, WindowStart, Advancing
  <2>3. QED
    BY <1>2, <2>1, <2>2
<1>6. QED
  BY <1>1, <1>3, <1>4, <1>5 DEF WindowEnd

\* The fields of a decision.
LEMMA DecisionFields ==
    ASSUME NEW f, NEW n
    PROVE  /\ Due(f, n).fireAt = f /\ Due(f, n).next = n
           /\ NotDue(n).fireAt = 0 /\ NotDue(n).next = n
BY DEF Due, NotDue

\* The type of a decision; a due one is never due later than the tick.
LEMMA ComputeType ==
    ASSUME NEW p \in Policies, NEW t \in Nat, NEW c \in Nat, NEW d \in Compute(p, t, c)
    PROVE  d.fireAt \in 0..t /\ d.next \in Nat
<1> SUFFICES \/ \E f \in 0..t, n \in Nat : d = Due(f, n)
             \/ \E n \in Nat : d = NotDue(n)
  <2>1. ASSUME NEW f \in 0..t, NEW n \in Nat, d = Due(f, n)
        PROVE  d.fireAt \in 0..t /\ d.next \in Nat
    BY <2>1, DecisionFields
  <2>2. ASSUME NEW n \in Nat, d = NotDue(n)
        PROVE  d.fireAt \in 0..t /\ d.next \in Nat
    <3>1. d.fireAt = 0 /\ d.next = n
      BY <2>2, DecisionFields
    <3>2. QED
      BY <3>1
  <2>3. QED
    BY <2>1, <2>2
<1>2. \/ p \in AtPolicy \/ p \in IntervalPolicy \/ p \in WindowPolicy
      \/ p \in UnreadablePolicy \/ p \in RaisingPolicy
  BY SchedulerAssumption
<1>3. CASE p \in AtPolicy
  <2>1. p.at \in Nat /\ p.type = "at"
    BY <1>3 DEF AtPolicy
  <2>2. QED
    BY <2>1 DEF Compute, ComputeAt
<1>4. CASE p \in IntervalPolicy
  <2>1. p.every \in Nat /\ p.jitter \in Nat /\ p.type = "interval"
    BY <1>4 DEF IntervalPolicy
  <2>2. \A j \in 0..p.jitter : t + p.every + j \in Nat
    BY <2>1
  <2>3. QED
    BY <2>1, <2>2 DEF Compute, ComputeInterval
<1>5. CASE p \in WindowPolicy
  <2>1. p.type = "window" /\ p.interval \in Nat /\ DayLength \in Nat
    BY <1>5, SchedulerAssumption DEF WindowPolicy
  <2>2. WindowStart(p, t) \in Nat /\ WindowEnd(p, t) \in Nat
    BY <2>1, WindowBounds
  <2> DEFINE first == IF c <= 0 THEN Greater(t, WindowStart(p, t)) ELSE c
             after == IF t + p.interval > WindowEnd(p, t)
                      THEN WindowStart(p, t) + DayLength ELSE t + p.interval
  <2>3. first \in Nat /\ after \in Nat /\ WindowStart(p, t) + DayLength \in Nat
    BY <2>1, <2>2 DEF Greater
  <2>4. \/ first <= t /\ d = Due(first, after)
        \/ d = NotDue(WindowStart(p, t) + DayLength)
        \/ d = NotDue(first)
    BY <2>1 DEF Compute, ComputeWindow
  <2> HIDE DEF first, after
  <2>5. QED
    BY <2>3, <2>4
<1>6. CASE p \in UnreadablePolicy
  BY <1>6 DEF UnreadablePolicy, Compute
<1>7. CASE p \in RaisingPolicy
  BY <1>7 DEF RaisingPolicy, Compute
<1>8. QED
  BY <1>2, <1>3, <1>4, <1>5, <1>6, <1>7

\* Under an advancing policy, a schedule that has a next_fire_at fires at it and
\* gets a later one, every_sec later at least under an interval policy.
LEMMA ComputeAdvances ==
    ASSUME NEW p \in Policies, Advancing(p), NEW t \in Nat, NEW c \in Nat,
           NEW d \in Compute(p, t, c), d.due
    PROVE  /\ c = 0 => d.next > 0
           /\ c > 0 => d.fireAt = c /\ d.next > c
           /\ c > 0 /\ p.type = "interval" => d.next >= c + p.every
<1> USE SchedulerAssumption
<1>1. CASE p.type = "interval"
  <2>1. p.every \in Nat \ {0} /\ p.jitter \in Nat
    BY <1>1 DEF AtPolicy, IntervalPolicy, WindowPolicy, UnreadablePolicy, RaisingPolicy
  <2>2. QED
    BY <1>1, <2>1 DEF Compute, ComputeInterval, Due, NotDue
<1>2. CASE p.type = "window"
  <2>1. /\ p.interval \in Nat \ {0}
        /\ WindowStart(p, t) \in Nat /\ WindowEnd(p, t) \in Nat
        /\ WindowEnd(p, t) < WindowStart(p, t) + DayLength
    BY <1>2, WindowBounds DEF WindowPolicy
  <2> DEFINE first == IF c <= 0 THEN Greater(t, WindowStart(p, t)) ELSE c
             after == IF t + p.interval > WindowEnd(p, t)
                      THEN WindowStart(p, t) + DayLength ELSE t + p.interval
  <2>2. first <= t /\ t <= WindowEnd(p, t) /\ d = Due(first, after)
    BY <1>2 DEF Compute, ComputeWindow, NotDue
  <2>3. after > t
    BY <2>1, <2>2
  <2>4. d.fireAt = first /\ d.next = after
    BY <2>2 DEF Due
  <2>5. QED
    BY <1>2, <2>1, <2>2, <2>3, <2>4
<1>3. QED
  BY <1>1, <1>2 DEF Advancing

-----------------------------------------------------------------------------
\* The place in tick() and what is in hand: while rows are handled there is at
\* most one row of a schedule, and a decision is in hand between the run it
\* upserted and the next_fire_at it will write.
InHand ==
    /\ ts <= now
    /\ pc \in {"idle", "down"} => todo = {}
    /\ firing # None <=> pc \in {"trigger", "advance"}
    /\ firing # None => firing.fireAt <= ts
    /\ \A row, other \in todo : row.id = other.id => row = other

\* TypeOK needs InHand: what AddTrigger and Advance write is taken from the
\* decision in hand.
TypeInv == TypeOK /\ InHand

Row == [id : Schedules, policy : Policies, next : Nat]

\* A row is handled with a decision, in one of three ways.
TakesAs(row, d) ==
    /\ row \in Row
    /\ todo' = todo \ {row}
    /\ d.fireAt \in 0..ts /\ d.next \in Nat
    /\ SetFirst(row, d) \/ PassOver(row, d) \/ StartFiring(row, d)

\* Every step that takes a row takes it in one of these ways.
LEMMA TakeEffect ==
    ASSUME TypeInv, Take
    PROVE  \E row \in todo : \E d \in Compute(row.policy, ts, row.next) :
               TakesAs(row, d)
<1> USE SchedulerAssumption DEF TypeInv, TypeOK
<1>1. PICK row \in todo :
          /\ todo' = todo \ {row}
          /\ \E d \in Compute(row.policy, ts, row.next) :
                SetFirst(row, d) \/ PassOver(row, d) \/ StartFiring(row, d)
  BY DEF Take
<1>2. PICK d \in Compute(row.policy, ts, row.next) :
          SetFirst(row, d) \/ PassOver(row, d) \/ StartFiring(row, d)
  BY <1>1
<1>3. row \in Row /\ row.policy \in Policies /\ row.next \in Nat /\ ts \in Nat
  BY DEF Times, Row
<1>4. d.fireAt \in 0..ts /\ d.next \in Nat
  BY <1>3, ComputeType
<1>5. QED
  BY <1>1, <1>2, <1>3, <1>4 DEF TakesAs

\* Every commit and every step of the tick keeps the types.
LEMMA TypeInvariance == Spec => []TypeInv
<1> USE SchedulerAssumption DEF Times, Enabled, None, Decision
<1>1. Init => TypeInv
  BY DEF Init, TypeInv, TypeOK, InHand
<1>2. TypeInv /\ [Next]_vars => TypeInv'
  <2> SUFFICES ASSUME TypeInv, [Next]_vars PROVE TypeInv'
    OBVIOUS
  <2> USE DEF TypeInv, TypeOK, InHand
  <2>1. CASE ClockTick
    <3>1. now' \in Times /\ ts <= now'
      BY <2>1 DEF ClockTick
    <3>2. QED
      BY <2>1, <3>1 DEF ClockTick, schedules, local, counters
  <2>2. ASSUME NEW s \in Schedules, NEW on \in Enabled, CreateSchedule(s, on)
        PROVE  TypeInv'
    BY <2>2 DEF CreateSchedule, local, counters
  <2>3. ASSUME NEW h \in Handlers, NEW s \in Schedules, NEW on \in Enabled,
               NEW p \in Policies, PatchSelect(h, s, on, p)
        PROVE  TypeInv'
    BY <2>3 DEF PatchSelect, schedules, local
  <2>4. ASSUME NEW h \in Handlers, PatchUpdate(h) PROVE TypeInv'
    BY <2>4 DEF PatchUpdate, local, counters
  <2>5. CASE Poll
    <3>1. PICK ids \in SUBSET DueSchedules :
              todo' = {[id |-> s, policy |-> policy[s], next |-> nextFireAt[s]] : s \in ids}
      BY <2>5 DEF Poll
    <3>2. \A s \in ids : s \in Schedules
      BY DEF DueSchedules
    <3>3. todo' \subseteq [id : Schedules, policy : Policies, next : Nat]
      BY <3>1, <3>2
    <3>4. \A row, other \in todo' : row.id = other.id => row = other
      BY <3>1
    <3>5. pc' \in {"idle", "take"} /\ (pc' = "idle" => todo' = {})
      BY <2>5 DEF Poll
    <3>6. TypeOK'
      BY <2>5, <3>3, <3>5 DEF Poll, schedules, counters
    <3>7. InHand'
      BY <2>5, <3>4, <3>5 DEF Poll
    <3>8. QED
      BY <3>6, <3>7
  <2>6. CASE Take
    <3>. PICK row \in todo : \E d \in Compute(row.policy, ts, row.next) :
               TakesAs(row, d)
      BY <2>6, TakeEffect
    <3>. PICK d \in Compute(row.policy, ts, row.next) : TakesAs(row, d)
      OBVIOUS
    <3>1. /\ row \in Row
          /\ todo' = todo \ {row}
          /\ d.fireAt \in 0..ts /\ d.next \in Nat
          /\ SetFirst(row, d) \/ PassOver(row, d) \/ StartFiring(row, d)
      BY DEF TakesAs
    <3>2. row.id \in Schedules /\ d.fireAt \in Times /\ ts \in Nat /\ now \in Nat
      BY <3>1 DEF Row
    <3>3. CASE SetFirst(row, d)
      BY <2>6, <3>1, <3>2, <3>3 DEF Take, SetFirst, Afterwards, counters
    <3>4. CASE PassOver(row, d)
      BY <2>6, <3>1, <3>2, <3>4 DEF Take, PassOver, Afterwards, counters
    <3>5. CASE StartFiring(row, d)
      <4>1. runs' \in [Schedules -> [Times -> 0..MaxCount]]
        <5>1. PICK s \in Schedules, f \in Times : s = row.id /\ f = d.fireAt
          BY <3>2
        <5>2. runs' = [runs EXCEPT ![s][f] = Lesser(@ + 1, MaxCount)]
          BY <3>5, <5>1 DEF StartFiring
        <5>3. QED
          BY <5>2, OneMore
      <4>2. /\ firing' = [id |-> row.id, fireAt |-> d.fireAt, next |-> d.next]
            /\ firing' \in Decision
        BY <3>1, <3>2, <3>5 DEF StartFiring
      <4>3. firing' # None /\ firing'.fireAt <= ts
        <5>1. d.fireAt <= ts
          BY <3>1, <3>2
        <5>2. firing'.fireAt = d.fireAt
          BY <4>2
        <5>3. firing' # None
          BY <4>2
        <5>4. QED
          BY <5>1, <5>2, <5>3
      <4>4. pc' = "trigger" /\ nextFireAt' = nextFireAt
        BY <3>5 DEF StartFiring
      <4>5. todo' \subseteq todo
        BY <3>1
      <4>6. TypeOK'
        BY <2>6, <4>1, <4>2, <4>4, <4>5 DEF Take, counters
      <4>7. InHand'
        BY <2>6, <4>3, <4>4, <4>5 DEF Take
      <4>8. QED
        BY <4>6, <4>7
    <3>6. QED
      BY <3>1, <3>3, <3>4, <3>5
  <2>7. CASE AddTrigger
    <3>1. PICK s \in Schedules, f \in Times : s = firing.id /\ f = firing.fireAt
      BY <2>7 DEF AddTrigger
    <3>2. triggers' \in [Schedules -> [Times -> 0..MaxCount]]
      <4>1. triggers' = [triggers EXCEPT ![s][f] = Lesser(@ + 1, MaxCount)]
        BY <2>7, <3>1 DEF AddTrigger
      <4>2. QED
        BY <4>1, OneMore
    <3>3. QED
      BY <2>7, <3>2 DEF AddTrigger, schedules, local, counters
  <2>8. CASE Advance
    BY <2>8 DEF Advance, Afterwards, counters
  <2>9. CASE Crash
    <3>1. pc' = "down" /\ todo' = {} /\ firing' = None /\ ts' = ts /\ now' = now
      BY <2>9 DEF Crash
    <3>2. crashes' \in 0..MaxCrashes
      BY <2>9 DEF Crash
    <3>3. QED
      BY <2>9, <3>1, <3>2 DEF Crash, schedules
  <2>10. CASE Restart
    BY <2>10 DEF Restart, schedules, local, counters
  <2>11. CASE UNCHANGED vars
    BY <2>11 DEF vars, schedules, local, counters
  <2>12. CASE Raise
    BY <2>12 DEF Raise, schedules, counters
  <2> HIDE DEF TypeInv, TypeOK, InHand
  <2>13. QED
    BY <2>1, <2>2, <2>3, <2>4, <2>5, <2>6, <2>7, <2>8, <2>9, <2>10, <2>11, <2>12
       DEF Next, SchedulerStep
<1>3. QED
  BY <1>1, <1>2, PTL DEF Spec

\* The tables and local variables of the scheduler service keep their types in
\* every tick, request and crash.
THEOREM TypeCorrect == Spec => []TypeOK
<1>1. TypeInv => TypeOK
  BY DEF TypeInv
<1>2. QED
  BY <1>1, TypeInvariance, PTL

-----------------------------------------------------------------------------
\* A run is upserted before its trigger is added.
RunFirstInv ==
    /\ NeverEarly
    /\ TriggersHaveRuns
    /\ pc = "trigger" =>
          \/ triggers[firing.id][firing.fireAt] < runs[firing.id][firing.fireAt]
          \/ runs[firing.id][firing.fireAt] = MaxCount

\* What a firing upserts has come, and its trigger follows the run.
LEMMA RunFirstInvariance == Spec => []RunFirstInv
<1> USE SchedulerAssumption
<1>1. Init => RunFirstInv
  BY DEF Init, RunFirstInv, NeverEarly, Fired, TriggersHaveRuns
<1>2. TypeInv /\ RunFirstInv /\ [Next]_vars => RunFirstInv'
  <2> SUFFICES ASSUME TypeInv, RunFirstInv, [Next]_vars PROVE RunFirstInv'
    OBVIOUS
  <2>0. /\ \A s \in Schedules, f \in Times :
              /\ runs[s][f] \in 0..MaxCount /\ triggers[s][f] \in 0..MaxCount
              /\ triggers[s][f] <= runs[s][f]
              /\ runs[s][f] > 0 => f <= now
        /\ now \in Nat /\ ts \in Nat /\ ts <= now
    BY DEF TypeInv, TypeOK, InHand, RunFirstInv, NeverEarly, Fired, TriggersHaveRuns, Times
  <2>1. CASE UNCHANGED <<runs, triggers>> /\ pc' # "trigger" /\ now' = now
    BY <2>1 DEF RunFirstInv, NeverEarly, Fired, TriggersHaveRuns
  <2>2. CASE UNCHANGED <<runs, triggers, pc, firing>> /\ (now' = now \/ now' = now + 1)
    <3>1. NeverEarly'
      BY <2>0, <2>2 DEF NeverEarly, Fired, Times
    <3>2. QED
      BY <2>2, <3>1 DEF RunFirstInv, TriggersHaveRuns
  <2>3. CASE Take
    <3>. PICK row \in todo : \E d \in Compute(row.policy, ts, row.next) :
               TakesAs(row, d)
      BY <2>3, TakeEffect
    <3>. PICK d \in Compute(row.policy, ts, row.next) : TakesAs(row, d)
      OBVIOUS
    <3>1. CASE SetFirst(row, d) \/ PassOver(row, d)
      BY <2>1, <2>3, <3>1 DEF Take, SetFirst, PassOver, Afterwards
    <3>2. CASE StartFiring(row, d)
      <4>1. PICK s \in Schedules, f \in Times : s = row.id /\ f = d.fireAt
        BY <2>0 DEF TakesAs, Row, Times, TypeInv, TypeOK
      <4>2. /\ runs' = [runs EXCEPT ![s][f] = Lesser(@ + 1, MaxCount)]
            /\ firing' = [id |-> s, fireAt |-> f, next |-> d.next]
            /\ UNCHANGED <<now, triggers>> /\ f <= now
        BY <2>0, <2>3, <3>2, <4>1 DEF StartFiring, Take, TakesAs
      <4>3. \A u \in Schedules, g \in Times :
               runs'[u][g] = IF u = s /\ g = f THEN Lesser(runs[s][f] + 1, MaxCount)
                             ELSE runs[u][g]
        BY <4>2 DEF TypeInv, TypeOK
      <4>4. \/ triggers[s][f] < Lesser(runs[s][f] + 1, MaxCount)
            \/ Lesser(runs[s][f] + 1, MaxCount) = MaxCount
        BY <2>0 DEF Lesser
      <4>5. triggers[s][f] <= Lesser(runs[s][f] + 1, MaxCount)
        BY <2>0 DEF Lesser
      <4>6. NeverEarly'
        BY <2>0, <4>2, <4>3 DEF NeverEarly, Fired
      <4>7. TriggersHaveRuns'
        BY <2>0, <4>2, <4>3, <4>5 DEF TriggersHaveRuns
      <4>8. firing'.id = s /\ firing'.fireAt = f
        BY <4>2
      <4>9. \/ triggers'[s][f] < runs'[s][f]
            \/ runs'[s][f] = MaxCount
        BY <4>2, <4>3, <4>4
      <4>10. QED
        BY <4>6, <4>7, <4>8, <4>9 DEF RunFirstInv
    <3>3. QED
      BY <3>1, <3>2 DEF TakesAs
  <2>4. CASE AddTrigger
    <3>1. PICK s \in Schedules, f \in Times : s = firing.id /\ f = firing.fireAt
      BY <2>4 DEF AddTrigger, TypeInv, TypeOK, InHand, Decision, None
    <3>2. triggers' = [triggers EXCEPT ![s][f] = Lesser(@ + 1, MaxCount)]
      BY <2>4, <3>1 DEF AddTrigger
    <3>3. \A u \in Schedules, g \in Times :
             triggers'[u][g] = IF u = s /\ g = f THEN Lesser(triggers[s][f] + 1, MaxCount)
                               ELSE triggers[u][g]
      BY <3>2 DEF TypeInv, TypeOK
    <3>4. triggers[s][f] < runs[s][f] \/ runs[s][f] = MaxCount
      BY <2>4, <3>1 DEF AddTrigger, RunFirstInv
    <3>5. Lesser(triggers[s][f] + 1, MaxCount) <= runs[s][f]
      BY <2>0, <3>4 DEF Lesser
    <3>6. TriggersHaveRuns'
      BY <2>0, <2>4, <3>3, <3>5 DEF TriggersHaveRuns, AddTrigger
    <3>7. NeverEarly'
      BY <2>4 DEF AddTrigger, NeverEarly, Fired, RunFirstInv
    <3>8. QED
      BY <2>4, <3>6, <3>7 DEF RunFirstInv, AddTrigger
  <2>5. QED
    BY <2>1, <2>2, <2>3, <2>4 DEF Next, vars, local, ClockTick, CreateSchedule, PatchSelect,
       PatchUpdate, SchedulerStep, Poll, Raise, Advance, Afterwards, Crash, Restart
<1>3. QED
  BY <1>1, <1>2, TypeInvariance, PTL DEF Spec

-----------------------------------------------------------------------------
\* As long as nobody replaces the policy of a schedule, the table, the rows of a
\* tick and the request threads agree on it.
PolicyInv ==
    \A s \in Schedules \ patched :
        /\ policy[s] = PolicyOf[s]
        /\ \A h \in Handlers :
              patching[h] # None /\ patching[h].id = s => patching[h].policy = PolicyOf[s]
        /\ \A row \in todo : row.id = s => row.policy = PolicyOf[s]

\* A PATCH that read the policy before another one wrote it writes back an old
\* policy, never a new one.
LEMMA PolicyInvariance == Spec => []PolicyInv
<1> USE SchedulerAssumption
<1>1. Init => PolicyInv
  BY DEF Init, PolicyInv
<1>2. TypeInv /\ PolicyInv /\ [Next]_vars => PolicyInv'
  <2> SUFFICES ASSUME TypeInv, PolicyInv, [Next]_vars, NEW s \in Schedules \ patched'
               PROVE  /\ policy'[s] = PolicyOf[s]
                      /\ \A h \in Handlers : patching'[h] # None /\ patching'[h].id = s
                                                 => patching'[h].policy = PolicyOf[s]
                      /\ \A row \in todo' : row.id = s => row.policy = PolicyOf[s]
    BY DEF PolicyInv
  <2>1. s \in Schedules \ patched
    BY DEF Next, vars, ClockTick, CreateSchedule, PatchSelect, PatchUpdate, SchedulerStep, Poll,
           Take, Raise, AddTrigger, Advance, Crash, Restart
  <2>2. /\ policy[s] = PolicyOf[s]
        /\ \A h \in Handlers :
              patching[h] # None /\ patching[h].id = s => patching[h].policy = PolicyOf[s]
        /\ \A row \in todo : row.id = s => row.policy = PolicyOf[s]
    BY <2>1 DEF PolicyInv
  <2>3. CASE UNCHANGED <<policy, patching>> /\ todo' \subseteq todo
    BY <2>2, <2>3
  <2>4. ASSUME NEW h \in Handlers, NEW u \in Schedules, NEW on \in Enabled,
               NEW p \in Policies, PatchSelect(h, u, on, p)
        PROVE  /\ UNCHANGED <<policy, todo>>
               /\ \A k \in Handlers : patching'[k] # None /\ patching'[k].id = s
                                          => patching'[k].policy = PolicyOf[s]
    <3>1. u = s => p = PolicyOf[s]
      BY <2>2, <2>4 DEF PatchSelect
    <3>2. patching' = [patching EXCEPT ![h] = [id |-> u, enabled |-> on, policy |-> p]]
      BY <2>4 DEF PatchSelect
    <3>3. \A k \in Handlers : k # h => patching'[k] = patching[k]
      BY <3>2 DEF TypeInv, TypeOK
    <3>4. patching'[h].id = u /\ patching'[h].policy = p
      BY <3>2 DEF TypeInv, TypeOK
    <3>5. QED
      BY <2>2, <2>4, <3>1, <3>3, <3>4 DEF PatchSelect, schedules, local
  <2>5. ASSUME NEW h \in Handlers, PatchUpdate(h)
        PROVE  /\ policy'[s] = PolicyOf[s] /\ UNCHANGED todo
               /\ \A k \in Handlers : patching'[k] # None => patching'[k] = patching[k]
    BY <2>1, <2>2, <2>5 DEF PatchUpdate, local, TypeInv, TypeOK
  <2>6. CASE Poll
    <3>1. \A row \in todo' : row.policy = policy[row.id]
      BY <2>6 DEF Poll
    <3>2. QED
      BY <2>2, <2>6, <3>1 DEF Poll, schedules
  <2>7. QED
    BY <2>2, <2>3, <2>4, <2>5, <2>6 DEF Next, vars, schedules, local, ClockTick, CreateSchedule,
       SchedulerStep, Take, Raise, AddTrigger, Advance, Crash, Restart
<1>3. QED
  BY <1>1, <1>2, TypeInvariance, PTL DEF Spec

-----------------------------------------------------------------------------
\* What the times of one schedule have to do with each other under an advancing
\* policy: the rows of the tick are as in the table and not being fired, a firing
\* takes place at next_fire_at and has a later one in hand, no run is younger than
\* next_fire_at, and the run due next was upserted by crashed firings only.
Firing(s) == firing # None /\ firing.id = s

Interval(s) == PolicyOf[s].type = "interval"

RowsAgree(s) == \A row \in todo : row.id = s => row.next = nextFireAt[s] /\ ~Firing(s)

FiringAdvances(s) ==
    Firing(s) => /\ firing.fireAt = nextFireAt[s]
                 /\ firing.fireAt < firing.next
                 /\ Interval(s) => firing.fireAt + PolicyOf[s].every <= firing.next

RunsBehind(s) ==
    \A f \in Fired(s) :
        /\ 0 < f /\ f <= nextFireAt[s]
        /\ Interval(s) => f = nextFireAt[s] \/ f + PolicyOf[s].every <= nextFireAt[s]

NextCounted(s) ==
    \A f \in Times : f = nextFireAt[s] => runs[s][f] <= crashes + (IF Firing(s) THEN 1 ELSE 0)

Counted(s) == \A f \in Times : runs[s][f] <= 1 + crashes

Spaced(s) ==
    Interval(s) => \A f, g \in Fired(s) : f < g => g - f >= PolicyOf[s].every

Steady(s) ==
    RowsAgree(s) /\ FiringAdvances(s) /\ RunsBehind(s) /\ NextCounted(s) /\ Counted(s) /\ Spaced(s)

SteadyInv == \A s \in Schedules \ patched : Advancing(PolicyOf[s]) => Steady(s)

\* Nothing that Steady speaks of is touched for s.
Untouched(s) ==
    /\ nextFireAt'[s] = nextFireAt[s] /\ runs'[s] = runs[s] /\ crashes' = crashes
    /\ firing' = firing \/ (~Firing(s) /\ ~Firing(s)')
    /\ \A row \in todo' : row.id = s => row \in todo

LEMMA UntouchedStaysSteady ==
    ASSUME NEW s \in Schedules, Steady(s), Untouched(s)
    PROVE  Steady(s)'
<1> USE DEF Untouched
<1>1. Firing(s)' <=> Firing(s)
  BY DEF Firing
<1>2. RowsAgree(s)'
  BY <1>1 DEF Steady, RowsAgree
<1>3. FiringAdvances(s)'
  BY <1>1 DEF Steady, FiringAdvances, Interval, Firing
<1>4. RunsBehind(s)'
  BY DEF Steady, RunsBehind, Fired, Interval
<1>5. NextCounted(s)'
  BY <1>1 DEF Steady, NextCounted
<1>6. Counted(s)' /\ Spaced(s)'
  BY DEF Steady, Counted, Spaced, Fired, Interval
<1>7. QED
  BY <1>2, <1>3, <1>4, <1>5, <1>6 DEF Steady

\* The types that the steps of one schedule need.
LEMMA ScheduleTypes ==
    ASSUME TypeInv, NEW s \in Schedules
    PROVE  /\ nextFireAt[s] \in Nat /\ crashes \in Nat /\ ts \in Nat
           /\ \A f \in Times : runs[s][f] \in 0..MaxCount
           /\ Times \subseteq Nat /\ MaxCount \in Nat \ {0}
           /\ PolicyOf[s] \in Policies
           /\ Interval(s) => PolicyOf[s].every \in Nat \ {0}
<1>1. PolicyOf[s] \in Policies
  BY SchedulerAssumption
<1>2. Interval(s) => PolicyOf[s] \in IntervalPolicy
  BY <1>1, SchedulerAssumption
     DEF Interval, AtPolicy, WindowPolicy, IntervalPolicy, UnreadablePolicy, RaisingPolicy
<1>3. QED
  BY <1>1, <1>2, SchedulerAssumption DEF TypeInv, TypeOK, Times, IntervalPolicy

\* The first next_fire_at of a schedule: it has never fired.
LEMMA FirstIsSteady ==
    ASSUME TypeInv, NEW s \in Schedules, Steady(s), NEW row \in todo, NEW d,
           TakesAs(row, d), SetFirst(row, d), row.id = s, crashes' = crashes
    PROVE  Steady(s)'
<1>1. nextFireAt[s] \in Nat /\ crashes \in Nat /\ Times \subseteq Nat /\ d.next \in Nat
      /\ \A f \in Times : runs[s][f] \in 0..MaxCount
  BY ScheduleTypes DEF TakesAs
<1>2. row.next = nextFireAt[s] /\ ~Firing(s)
  BY DEF Steady, RowsAgree
<1>3. nextFireAt[s] = 0
  BY <1>1, <1>2 DEF SetFirst
<1>4. \A f \in Times : runs[s][f] = 0
  <2>1. \A f \in Fired(s) : 0 < f /\ f <= nextFireAt[s]
    BY DEF Steady, RunsBehind
  <2>2. ASSUME NEW f \in Times, runs[s][f] # 0 PROVE FALSE
    <3>1. f \in Fired(s)
      BY <1>1, <2>2 DEF Fired
    <3>2. QED
      BY <1>1, <1>3, <2>1, <3>1
  <2>3. QED
    BY <2>2
<1>5. Fired(s)' = {} /\ \A f \in Times : runs'[s][f] = 0
  BY <1>4 DEF Fired, SetFirst
<1>6. ~Firing(s)'
  BY <1>2 DEF SetFirst, Firing
<1>7. \A other \in todo' : other.id # s
  BY DEF TakesAs, TypeInv, InHand
<1>8. RowsAgree(s)' /\ FiringAdvances(s)' /\ RunsBehind(s)' /\ Spaced(s)'
  BY <1>5, <1>6, <1>7 DEF RowsAgree, FiringAdvances, RunsBehind, Spaced
<1>9. NextCounted(s)' /\ Counted(s)'
  BY <1>1, <1>5, <1>6 DEF NextCounted, Counted
<1>10. QED
  BY <1>8, <1>9 DEF Steady

\* A firing of an unpatched schedule takes place at its next_fire_at.
LEMMA FiringIsSteady ==
    ASSUME TypeInv, NEW s \in Schedules, Steady(s), Advancing(PolicyOf[s]),
           NEW row \in todo, NEW d \in Compute(row.policy, ts, row.next),
           TakesAs(row, d), StartFiring(row, d), row.id = s, row.policy = PolicyOf[s],
           crashes' = crashes
    PROVE  Steady(s)'
<1> DEFINE at == nextFireAt[s]
<1>1. /\ at \in Nat /\ crashes \in Nat /\ ts \in Nat /\ Times \subseteq Nat
      /\ d.next \in Nat /\ PolicyOf[s] \in Policies
      /\ \A f \in Times : runs[s][f] \in 0..MaxCount
      /\ MaxCount \in Nat
      /\ Interval(s) => PolicyOf[s].every \in Nat \ {0}
  BY ScheduleTypes DEF TakesAs
<1>2. row.next = at /\ ~Firing(s)
  BY DEF Steady, RowsAgree
<1>3. d.due /\ ~(row.next <= 0 /\ d.next > 0)
  BY DEF StartFiring
<1>4. /\ at = 0 => d.next > 0
      /\ at > 0 => d.fireAt = at /\ d.next > at
      /\ at > 0 /\ PolicyOf[s].type = "interval" => d.next >= at + PolicyOf[s].every
  BY <1>1, <1>2, <1>3, ComputeAdvances
<1>5. at > 0 /\ d.fireAt = at /\ d.next > at
  BY <1>1, <1>2, <1>3, <1>4
<1>6. /\ firing' = [id |-> s, fireAt |-> at, next |-> d.next]
      /\ nextFireAt' = nextFireAt
  BY <1>5 DEF StartFiring
<1>7. firing'.id = s /\ firing'.fireAt = at /\ firing'.next = d.next /\ firing' # None
  BY <1>6 DEF None
<1>8. at \in Times
  <2>1. at \in 0..ts /\ ts \in Times
    BY <1>5 DEF TakesAs, TypeInv, TypeOK
  <2>2. QED
    BY <1>1, <2>1, SchedulerAssumption DEF Times
<1>9. runs' = [runs EXCEPT ![s][at] = Lesser(@ + 1, MaxCount)]
  BY <1>5 DEF StartFiring
<1>10. \A f \in Times :
          runs'[s][f] = IF f = at THEN Lesser(runs[s][at] + 1, MaxCount) ELSE runs[s][f]
  BY <1>9 DEF TypeInv, TypeOK
<1>11. Lesser(runs[s][at] + 1, MaxCount) <= runs[s][at] + 1
  BY <1>1, <1>8 DEF Lesser
<1>12. runs[s][at] <= crashes
  BY <1>1, <1>2, <1>8 DEF Steady, NextCounted
<1>13. \A f \in Fired(s)' : f = at \/ f \in Fired(s)
  BY <1>10 DEF Fired
<1>14. \A other \in todo' : other.id # s
  BY DEF TakesAs, TypeInv, InHand
<1>15. RowsAgree(s)'
  BY <1>14 DEF RowsAgree
<1>16. FiringAdvances(s)'
  BY <1>4, <1>5, <1>6, <1>7 DEF FiringAdvances, Interval
<1>17. RunsBehind(s)'
  BY <1>1, <1>5, <1>6, <1>13 DEF RunsBehind, Steady, Interval
<1>18. Firing(s)'
  BY <1>7 DEF Firing
<1>19. NextCounted(s)' /\ Counted(s)'
  <2>1. runs'[s][at] <= crashes + 1
    BY <1>1, <1>8, <1>10, <1>11, <1>12, SchedulerAssumption DEF Lesser
  <2>2. \A f \in Times : f # at => runs'[s][f] <= 1 + crashes
    BY <1>10 DEF Steady, Counted
  <2>3. QED
    BY <1>1, <1>6, <1>18, <2>1, <2>2 DEF NextCounted, Counted
<1>20. Spaced(s)'
  <2>1. Interval(s) => \A f \in Fired(s) : f = at \/ f + PolicyOf[s].every <= at
    BY DEF Steady, RunsBehind
  <2>2. \A f \in Fired(s)' : f \in Nat
    BY <1>1 DEF Fired
  <2>3. \A f \in Fired(s) : f \in Nat /\ f <= at
    BY <1>1 DEF Fired, Steady, RunsBehind
  <2>4. QED
    BY <1>1, <1>13, <2>1, <2>2, <2>3 DEF Steady, Spaced, Interval
<1>21. QED
  BY <1>15, <1>16, <1>17, <1>19, <1>20 DEF Steady

\* Advancing next_fire_at leaves every run of the schedule behind.
LEMMA AdvanceIsSteady ==
    ASSUME TypeInv, NEW s \in Schedules, Steady(s), Advance, firing.id = s
    PROVE  Steady(s)' /\ nextFireAt'[s] > nextFireAt[s]
<1> DEFINE at == nextFireAt[s]
<1>1. /\ at \in Nat /\ crashes \in Nat /\ Times \subseteq Nat /\ firing.next \in Nat
      /\ \A f \in Times : runs[s][f] \in 0..MaxCount
      /\ Interval(s) => PolicyOf[s].every \in Nat \ {0}
      /\ firing # None
  BY ScheduleTypes DEF Advance, TypeInv, TypeOK, InHand, Decision
<1>2. Firing(s)
  BY <1>1 DEF Firing
<1>3. /\ firing.fireAt = at /\ at < firing.next
      /\ Interval(s) => at + PolicyOf[s].every <= firing.next
  BY <1>2 DEF Steady, FiringAdvances
<1>4. nextFireAt'[s] = firing.next /\ firing' = None /\ UNCHANGED <<runs, todo, crashes>>
  BY DEF Advance, TypeInv, TypeOK, counters
<1>5. \A f \in Fired(s) : 0 < f /\ f <= at /\ f \in Nat
  BY <1>1 DEF Steady, RunsBehind, Fired
<1>6. ~Firing(s)'
  BY <1>4 DEF Firing
<1>7. RowsAgree(s)'
  BY <1>2, <1>4 DEF Steady, RowsAgree
<1>8. FiringAdvances(s)'
  BY <1>6 DEF FiringAdvances
<1>9. Fired(s)' = Fired(s)
  BY <1>4 DEF Fired
<1>10. RunsBehind(s)'
  BY <1>1, <1>3, <1>4, <1>5, <1>9 DEF RunsBehind, Interval
<1>11. NextCounted(s)'
  <2>1. \A f \in Times : f = firing.next => f \notin Fired(s)
    BY <1>1, <1>3, <1>5
  <2>2. QED
    BY <1>1, <1>4, <1>6, <2>1 DEF NextCounted, Fired
<1>12. Counted(s)' /\ Spaced(s)'
  BY <1>4, <1>9 DEF Steady, Counted, Spaced, Interval
<1>13. QED
  BY <1>1, <1>3, <1>4, <1>7, <1>8, <1>10, <1>11, <1>12 DEF Steady

\* A crash forgets the firing; its run may be upserted once more.
LEMMA CrashIsSteady ==
    ASSUME TypeInv, NEW s \in Schedules, Steady(s), Crash
    PROVE  Steady(s)'
<1>1. /\ crashes \in Nat /\ \A f \in Times : runs[s][f] \in 0..MaxCount
      /\ crashes' = crashes + 1 /\ firing' = None /\ todo' = {}
      /\ UNCHANGED <<runs, nextFireAt>> /\ MaxCount \in Nat
  BY ScheduleTypes DEF Crash, schedules
<1>2. ~Firing(s)' /\ Fired(s)' = Fired(s)
  BY <1>1 DEF Firing, Fired
<1>3. RowsAgree(s)' /\ FiringAdvances(s)' /\ RunsBehind(s)' /\ Spaced(s)'
  BY <1>1, <1>2 DEF RowsAgree, FiringAdvances, RunsBehind, Spaced, Steady, Interval
<1>4. NextCounted(s)' /\ Counted(s)'
  BY <1>1, <1>2 DEF NextCounted, Counted, Steady
<1>5. QED
  BY <1>3, <1>4 DEF Steady

\* A tick reads the rows between two firings.
LEMMA PollIsSteady ==
    ASSUME TypeInv, NEW s \in Schedules, Steady(s), Poll
    PROVE  Steady(s)'
<1>1. \A row \in todo' : row.next = nextFireAt[row.id]
  BY DEF Poll
<1>2. /\ UNCHANGED <<runs, nextFireAt, firing, crashes>>
      /\ firing = None
  BY DEF Poll, schedules, counters, TypeInv, InHand
<1>3. RowsAgree(s)'
  BY <1>1, <1>2 DEF RowsAgree, Firing
<1>4. FiringAdvances(s)' /\ RunsBehind(s)' /\ NextCounted(s)' /\ Counted(s)' /\ Spaced(s)'
  BY <1>2 DEF Steady, FiringAdvances, RunsBehind, NextCounted, Counted, Spaced, Firing, Fired,
              Interval
<1>5. QED
  BY <1>3, <1>4 DEF Steady

\* What a step does to one schedule whose policy was never replaced.
LEMMA StepsAreSteady ==
    ASSUME TypeInv, PolicyInv, [Next]_vars, NEW s \in Schedules \ patched,
           Advancing(PolicyOf[s]), Steady(s)
    PROVE  Steady(s)' /\ nextFireAt'[s] >= nextFireAt[s]
<1>1. nextFireAt[s] \in Nat
  BY ScheduleTypes
<1>2. ASSUME Untouched(s) PROVE Steady(s)' /\ nextFireAt'[s] >= nextFireAt[s]
  BY <1>1, <1>2, UntouchedStaysSteady DEF Untouched
<1>3. CASE Poll
  BY <1>1, <1>3, PollIsSteady DEF Poll, schedules
<1>4. CASE Take
  <2>. PICK row \in todo : \E d \in Compute(row.policy, ts, row.next) :
             TakesAs(row, d)
    BY <1>4, TakeEffect
  <2>. PICK d \in Compute(row.policy, ts, row.next) : TakesAs(row, d)
    OBVIOUS
  <2>1. crashes' = crashes /\ firing = None /\ todo' = todo \ {row} /\ d.next \in Nat
    BY <1>4 DEF Take, TakesAs, TypeInv, InHand, counters
  <2>2. row.id = s => row.policy = PolicyOf[s]
    BY DEF PolicyInv
  <2>3. CASE row.id # s
    <3>1. nextFireAt'[s] = nextFireAt[s] /\ runs'[s] = runs[s]
      BY <2>3 DEF TakesAs, SetFirst, PassOver, StartFiring, TypeInv, TypeOK
    <3>2. firing' = firing \/ (~Firing(s) /\ ~Firing(s)')
      BY <2>1, <2>3 DEF TakesAs, SetFirst, PassOver, StartFiring, Firing
    <3>3. QED
      BY <1>2, <2>1, <3>1, <3>2 DEF Untouched
  <2>4. CASE row.id = s /\ SetFirst(row, d)
    <3>1. Steady(s)'
      BY <2>1, <2>4, FirstIsSteady
    <3>2. row.next = nextFireAt[s]
      BY <2>4 DEF Steady, RowsAgree
    <3>3. nextFireAt'[s] = d.next
      BY <2>4 DEF SetFirst, TypeInv, TypeOK
    <3>4. QED
      BY <1>1, <2>1, <2>4, <3>1, <3>2, <3>3 DEF SetFirst
  <2>5. CASE row.id = s /\ StartFiring(row, d)
    <3>1. row.policy = PolicyOf[s] /\ crashes' = crashes
      BY <2>1, <2>2, <2>5
    <3>2. Steady(s)'
      BY <2>5, <3>1, FiringIsSteady
    <3>3. nextFireAt' = nextFireAt
      BY <2>5 DEF StartFiring
    <3>4. QED
      BY <1>1, <3>2, <3>3
  <2>6. CASE PassOver(row, d)
    <3>1. Untouched(s)
      BY <2>1, <2>6 DEF Untouched, PassOver
    <3>2. QED
      BY <1>2, <3>1
  <2>7. QED
    BY <2>3, <2>4, <2>5, <2>6 DEF TakesAs
<1>5. CASE Advance
  <2>1. CASE firing.id = s
    BY <1>1, <1>5, <2>1, AdvanceIsSteady DEF TypeInv, TypeOK, Advance, InHand, Decision
  <2>2. CASE firing.id # s
    <3>1. Untouched(s)
      BY <1>5, <2>2 DEF Untouched, Advance, Firing, TypeInv, TypeOK, counters
    <3>2. QED
      BY <1>2, <3>1
  <2>3. QED
    BY <2>1, <2>2
<1>6. CASE Crash
  BY <1>1, <1>6, CrashIsSteady DEF Crash, schedules
<1>7. CASE ClockTick \/ (\E u \in Schedules, on \in Enabled : CreateSchedule(u, on))
           \/ (\E h \in Handlers, u \in Schedules, on \in Enabled, p \in Policies :
                  PatchSelect(h, u, on, p))
           \/ (\E h \in Handlers : PatchUpdate(h))
           \/ AddTrigger \/ Restart \/ UNCHANGED vars
  <2>1. UNCHANGED <<nextFireAt, runs, firing, todo, crashes>>
    BY <1>7 DEF ClockTick, CreateSchedule, PatchSelect, PatchUpdate, AddTrigger, Restart, vars,
                schedules, local, counters
  <2>2. QED
    BY <1>2, <2>1 DEF Untouched
<1>8. CASE Raise
  <2>1. todo' = {} /\ UNCHANGED <<nextFireAt, runs, firing, crashes>>
    BY <1>8 DEF Raise, schedules, counters
  <2>2. QED
    BY <1>2, <2>1 DEF Untouched
<1>9. QED
  BY <1>3, <1>4, <1>5, <1>6, <1>7, <1>8 DEF Next, SchedulerStep

\* No step takes a schedule back among those that were never patched.
LEMMA PatchedStays ==
    ASSUME [Next]_vars
    PROVE  patched \subseteq patched'
BY DEF Next, vars, ClockTick, CreateSchedule, PatchSelect, PatchUpdate, SchedulerStep, Poll,
       Take, Raise, AddTrigger, Advance, Crash, Restart

\* Every schedule whose policy was never replaced stays steady.
LEMMA SteadyInvariance == Spec => []SteadyInv
<1>1. Init => SteadyInv
  <2> SUFFICES ASSUME Init, NEW s \in Schedules PROVE Steady(s)
    BY DEF SteadyInv
  <2>1. ~Firing(s) /\ Fired(s) = {} /\ todo = {} /\ crashes = 0
        /\ \A f \in Times : runs[s][f] = 0
    BY DEF Init, Firing, Fired
  <2>2. QED
    BY <2>1 DEF Steady, RowsAgree, FiringAdvances, RunsBehind, NextCounted, Counted, Spaced
<1>2. TypeInv /\ PolicyInv /\ SteadyInv /\ [Next]_vars => SteadyInv'
  BY StepsAreSteady, PatchedStays DEF SteadyInv
<1>3. QED
  BY <1>1, <1>2, TypeInvariance, PolicyInvariance, PTL DEF Spec

\* However late the ticks, wherever the crashes and whatever the patches of other
\* schedules: the runs of an interval schedule lie every_sec apart, no run comes
\* early, an upsert is repeated by crashes only and a trigger follows its run.
THEOREM TicksAreSound == Spec => []TicksSound
<1>1. TypeInv /\ RunFirstInv /\ SteadyInv => TicksSound
  <2> SUFFICES ASSUME TypeInv, RunFirstInv, SteadyInv PROVE TicksSound
    OBVIOUS
  <2>1. TypeOK /\ NeverEarly /\ TriggersHaveRuns
    BY DEF TypeInv, RunFirstInv
  <2>2. IntervalSpacing
    BY DEF SteadyInv, Steady, Spaced, Interval, IntervalSpacing, Advancing
  <2>3. OneUpsertPerCrash
    BY DEF SteadyInv, Steady, Counted, OneUpsertPerCrash
  <2>4. QED
    BY <2>1, <2>2, <2>3 DEF TicksSound
<1>2. QED
  BY <1>1, TypeInvariance, RunFirstInvariance, SteadyInvariance, PTL

\* next_fire_at of a schedule with an advancing policy never goes back, although
\* the tick writes what it computed from a row read before other commits.
THEOREM NextNeverGoesBack == Spec => NextNeverBack
<1>1. TypeInv /\ PolicyInv /\ SteadyInv /\ [Next]_vars =>
        [\A s \in Schedules \ patched' :
            Advancing(PolicyOf[s]) => nextFireAt'[s] >= nextFireAt[s]]_vars
  BY StepsAreSteady, PatchedStays DEF SteadyInv
<1>2. QED
  BY <1>1, TypeInvariance, PolicyInvariance, SteadyInvariance, PTL DEF Spec, NextNeverBack
=============================================================================
