--------------------------- MODULE PresenceProofs ---------------------------
(***************************************************************************)
(* The reaper is neither early nor late by more than a wait for the lock,  *)
(* for any thresholds, any agents and any number of concurrent events.     *)
(***************************************************************************)
EXTENDS Presence, TLAPS

\* How far the entry of an agent may be from what was recorded last: lastSeen
\* lags by at most one wait for the lock; a dead agent had been idle for the
\* threshold when it was marked, and silent since.
InStep(a) ==
  /\ actors[a].idle <= newest[a] + MaxWait
  /\ actors[a].idle <= heard[a] + MaxWait
  /\ actors[a].reaped =>
       /\ heard[a] >= actors[a].deadFor
       /\ actors[a].idle > DeadThreshold + actors[a].deadFor \/ actors[a].idle = Cap

IInv == TypeOK /\ \A a \in Actor : Present(a) => InStep(a)

-----------------------------------------------------------------------------
LEMMA CapFacts ==
  /\ Cap \in Nat /\ Cap > DeadThreshold + EvictAfter + MaxWait
  /\ Cap > DeadThreshold + EvictEphemeral + MaxWait
  /\ MaxWait \in Age /\ 0 \in Age /\ 0 \in Wait /\ Wait \subseteq Age
  BY PresenceAssumption DEF Cap, Age, Wait

\* Ages grow by at most one and stay within Cap.
LEMMA OlderType ==
  ASSUME NEW n \in Age
  PROVE  /\ Older(n) \in Age /\ Older(n) >= n
         /\ Older(n) = IF n = Cap THEN Cap ELSE n + 1
  BY CapFacts DEF Older, Age

\* The age order of two readings survives a tick.
LEMMA OlderMonotone ==
  ASSUME NEW m \in Age, NEW n \in Age, NEW k \in Nat, m <= n + k
  PROVE  Older(m) <= Older(n) + k
  BY CapFacts DEF Older, Age

LEMMA EvictType ==
  ASSUME NEW entry
  PROVE  /\ EvictThreshold(entry) \in Nat
         /\ EvictThreshold(entry) = EvictEphemeral \/ EvictThreshold(entry) = EvictAfter
  BY PresenceAssumption DEF EvictThreshold

-----------------------------------------------------------------------------
LEMMA InitIInv == Init => IInv
  BY CapFacts DEF Init, IInv, TypeOK, Present, Age

\* The entry a recorded event leaves.
NewEntry(e) == [idle |-> emit[e].age, eventCount |-> EventCount(emit[e].actor),
                reaped |-> FALSE, deadFor |-> 0]

LEMMA RecordEntry ==
  ASSUME IInv, NEW e \in Emitter, emit[e] # Absent
  PROVE  emit[e].actor \in Actor /\ emit[e].age \in Wait /\ NewEntry(e) \in Entry
<1> DEFINE a == emit[e].actor
<1>1. emit[e] \in HookEvent /\ a \in Actor /\ emit[e].age \in Wait /\ emit[e].age \in Age
  BY CapFacts DEF IInv, TypeOK, HookEvent
<1>2. EventCount(a) \in 1..Ephemeral
  <2>1. CASE Present(a)
    <3>1. actors[a].eventCount \in 1..Ephemeral
      BY <1>1, <2>1 DEF IInv, TypeOK, Present, Entry
    <3> QED
      BY <2>1, <3>1, PresenceAssumption DEF EventCount, Counted
  <2>2. CASE ~Present(a)
    BY <2>2, PresenceAssumption DEF EventCount
  <2> QED
    BY <2>1, <2>2
<1> QED
  BY <1>1, <1>2, CapFacts DEF NewEntry, Entry

\* It is in step with the history.
LEMMA RecordStep ==
  ASSUME IInv, NEW e \in Emitter, RecordHookEvent(e)
  PROVE  IInv'
<1> DEFINE a == emit[e].actor
           new == NewEntry(e)
<1>1. a \in Actor /\ emit[e].age \in Wait /\ emit[e].age \in Age
  BY RecordEntry, CapFacts DEF RecordHookEvent
<1>2. new \in Entry /\ new # Absent
  BY RecordEntry, PresenceAssumption DEF RecordHookEvent
<1>3. new.idle = emit[e].age /\ ~new.reaped /\ new.deadFor = 0
  BY DEF NewEntry
<1> HIDE DEF new
<1>4. /\ actors' = [actors EXCEPT ![a] = new]
      /\ emit' = [emit EXCEPT ![e] = Absent]
      /\ heard' = [heard EXCEPT ![a] = 0]
      /\ newest' = [newest EXCEPT ![a] = IF newest[a] < emit[e].age THEN newest[a] ELSE emit[e].age]
      /\ UNCHANGED <<pc, sweepAge, newlyDead>>
  BY DEF RecordHookEvent, Recorded, NewEntry, new
<1>5. TypeOK'
  <2>1. actors' \in [Actor -> Entry \cup {Absent}]
    BY <1>1, <1>2, <1>4 DEF IInv, TypeOK
  <2>2. emit' \in [Emitter -> HookEvent \cup {Absent}]
    BY <1>4 DEF IInv, TypeOK
  <2>3. heard' \in [Actor -> Age] /\ newest' \in [Actor -> Age]
    BY <1>1, <1>4, CapFacts DEF IInv, TypeOK
  <2>4. \A b \in Actor : actors'[b] # Absent /\ ~actors'[b].reaped => actors'[b].deadFor = 0
    BY <1>1, <1>4, <1>3 DEF IInv, TypeOK, Present
  <2> QED
    BY <1>4, <2>1, <2>2, <2>3, <2>4 DEF IInv, TypeOK, Present
<1>6. ASSUME NEW b \in Actor, Present(b)' PROVE InStep(b)'
  <2>1. CASE b = a
    <3>1. actors'[b] = new /\ heard'[b] = 0 /\ newest'[b] \in Age
      BY <1>1, <1>4, <1>5, <2>1 DEF IInv, TypeOK
    <3>2. new.idle \in Nat /\ new.idle <= MaxWait
      BY <1>1, <1>3, PresenceAssumption DEF Wait
    <3> QED
      BY <1>3, <3>1, <3>2, CapFacts, PresenceAssumption DEF InStep, Age
  <2>2. CASE b # a
    <3>1. actors'[b] = actors[b] /\ heard'[b] = heard[b] /\ newest'[b] = newest[b]
      BY <1>1, <1>4, <2>2 DEF IInv, TypeOK
    <3> QED
      BY <1>6, <3>1 DEF IInv, InStep, Present
  <2> QED
    BY <2>1, <2>2
<1> QED
  BY <1>5, <1>6 DEF IInv

\* Entries keep in step when the reaper marks and evicts.
LEMMA SweepStep ==
  ASSUME IInv, Sweep
  PROVE  IInv'
<1>1. sweepAge \in Wait /\ sweepAge \in Age
  BY CapFacts DEF IInv, TypeOK
<1>2. ASSUME NEW a \in Actor, Present(a)'
      PROVE  /\ actors'[a] \in Entry /\ InStep(a)'
             /\ ~actors'[a].reaped => actors'[a].deadFor = 0
  <2>1. a \notin Expired /\ Present(a) /\ actors[a] \in Entry
    BY <1>2 DEF Sweep, Silent, Present, IInv, TypeOK
  <2>2. heard'[a] = heard[a] /\ newest'[a] = newest[a]
    BY DEF Sweep, history
  <2>3. CASE a \in Silent
    <3>1. actors'[a] = [actors[a] EXCEPT !.reaped = TRUE, !.deadFor = sweepAge]
      BY <2>1, <2>3 DEF Sweep
    <3>2. /\ actors'[a] \in Entry /\ actors'[a].reaped /\ actors'[a].deadFor = sweepAge
          /\ actors'[a].idle = actors[a].idle
      BY <1>1, <2>1, <3>1 DEF Entry
    <3>3. actors[a].idle > DeadThreshold + sweepAge
      BY <2>3 DEF Silent
    <3>4. /\ actors[a].idle <= heard[a] + MaxWait /\ actors[a].idle <= newest[a] + MaxWait
          /\ heard[a] \in Nat /\ actors[a].idle \in Nat
      BY <2>1, CapFacts DEF IInv, TypeOK, InStep, Entry, Age
    <3>5. heard[a] >= sweepAge
      BY <1>1, <3>3, <3>4, PresenceAssumption DEF Wait
    <3> QED
      BY <2>2, <3>2, <3>3, <3>4, <3>5 DEF InStep
  <2>4. CASE a \notin Silent
    <3>1. actors'[a] = actors[a]
      BY <2>1, <2>4 DEF Sweep
    <3> QED
      BY <2>1, <2>2, <3>1 DEF IInv, TypeOK, InStep, Present
  <2> QED
    BY <2>3, <2>4
<1>3. TypeOK'
  <2>1. actors' \in [Actor -> Entry \cup {Absent}]
    <3>1. actors' = [a \in Actor |-> actors'[a]]
      BY DEF Sweep
    <3> QED
      BY <1>2, <3>1 DEF Present
  <2>2. newlyDead' \subseteq Actor /\ sweepAge' \in Wait
    BY CapFacts DEF Sweep, Silent
  <2> QED
    BY <1>2, <2>1, <2>2 DEF IInv, TypeOK, Sweep, history, Present
<1> QED
  BY <1>2, <1>3 DEF IInv

\* Everything ages by the same amount.
LEMMA TickStep ==
  ASSUME IInv, Tick
  PROVE  IInv'
<1>1. ASSUME NEW a \in Actor, Present(a)'
      PROVE  /\ actors'[a] \in Entry /\ InStep(a)'
             /\ ~actors'[a].reaped => actors'[a].deadFor = 0
  <2>1. Present(a) /\ actors[a] \in Entry
    BY <1>1 DEF Tick, Present, IInv, TypeOK
  <2>2. /\ actors[a].idle \in Age /\ actors[a].deadFor \in Age
        /\ heard[a] \in Age /\ newest[a] \in Age
    BY <2>1 DEF Entry, IInv, TypeOK
  <2>3. actors'[a] = [actors[a] EXCEPT !.idle = Older(@),
                        !.deadFor = IF actors[a].reaped THEN Older(@) ELSE @]
    BY <2>1 DEF Tick
  <2>4. /\ actors'[a].idle = Older(actors[a].idle)
        /\ actors'[a].reaped = actors[a].reaped
        /\ actors'[a].deadFor = IF actors[a].reaped THEN Older(actors[a].deadFor)
                                ELSE actors[a].deadFor
        /\ actors'[a] \in Entry
    BY <2>1, <2>2, <2>3, OlderType DEF Entry
  <2>5. heard'[a] = Older(heard[a]) /\ newest'[a] = Older(newest[a])
    BY DEF Tick
  <2>6. InStep(a)
    BY <2>1 DEF IInv
  <2>7. /\ actors'[a].idle <= newest'[a] + MaxWait
        /\ actors'[a].idle <= heard'[a] + MaxWait
    BY <2>2, <2>4, <2>5, <2>6, OlderMonotone, PresenceAssumption DEF InStep
  <2>8. ASSUME actors[a].reaped
        PROVE  /\ heard'[a] >= actors'[a].deadFor
               /\ \/ actors'[a].idle > DeadThreshold + actors'[a].deadFor
                  \/ actors'[a].idle = Cap
    <3>1. /\ heard[a] >= actors[a].deadFor
          /\ actors[a].idle > DeadThreshold + actors[a].deadFor \/ actors[a].idle = Cap
      BY <2>6, <2>8 DEF InStep
    <3> QED
      BY <2>2, <2>4, <2>5, <2>8, <3>1, CapFacts, PresenceAssumption DEF Older, Age
  <2>9. ~actors'[a].reaped => actors'[a].deadFor = 0
    BY <2>1, <2>4 DEF IInv, TypeOK, Present
  <2> QED
    BY <2>4, <2>7, <2>8, <2>9 DEF InStep
<1>2. actors' \in [Actor -> Entry \cup {Absent}]
  <2>1. actors' = [a \in Actor |-> actors'[a]]
    BY DEF Tick
  <2> QED
    BY <1>1, <2>1 DEF Present
<1>3. emit' \in [Emitter -> HookEvent \cup {Absent}]
  <2>1. ASSUME NEW e \in Emitter, emit[e] # Absent
        PROVE  [emit[e] EXCEPT !.age = @ + 1] \in HookEvent
    <3>1. emit[e] \in HookEvent /\ emit[e].age < MaxWait
      BY <2>1 DEF Tick, IInv, TypeOK
    <3> QED
      BY <3>1, PresenceAssumption DEF HookEvent, Wait
  <2> QED
    BY <2>1 DEF Tick
<1>4. heard' \in [Actor -> Age] /\ newest' \in [Actor -> Age]
  BY OlderType DEF Tick, IInv, TypeOK
<1>5. sweepAge' \in Wait
  <2>1. /\ pc = "lock" => sweepAge < MaxWait
        /\ sweepAge' = IF pc = "lock" THEN sweepAge + 1 ELSE 0
    BY DEF Tick
  <2>2. sweepAge \in Wait
    BY DEF IInv, TypeOK
  <2> QED
    BY <2>1, <2>2, PresenceAssumption DEF Wait
<1>6. TypeOK'
  BY <1>1, <1>2, <1>3, <1>4, <1>5 DEF Tick, IInv, TypeOK, Present
<1> QED
  BY <1>1, <1>6 DEF IInv

LEMMA NextIInv == IInv /\ [Next]_vars => IInv'
<1> SUFFICES ASSUME IInv, [Next]_vars PROVE IInv'
  OBVIOUS
<1>1. ASSUME NEW e \in Emitter, ReadClock(e) PROVE IInv'
  <2>1. emit' \in [Emitter -> HookEvent \cup {Absent}]
    BY <1>1, CapFacts DEF ReadClock, IInv, TypeOK, HookEvent
  <2> QED
    BY <1>1, <2>1 DEF ReadClock, history, IInv, TypeOK, Present, InStep
<1>2. CASE TickerFires
  BY <1>2, CapFacts DEF TickerFires, history, IInv, TypeOK, Present, InStep
<1>3. CASE OnDead
  BY <1>3 DEF OnDead, history, IInv, TypeOK, Present, InStep
<1>4. CASE EndSweep
  BY <1>4 DEF EndSweep, history, IInv, TypeOK, Present, InStep
<1>5. CASE UNCHANGED vars
  BY <1>5 DEF vars, history, IInv, TypeOK, Present, InStep
<1> QED
  BY <1>1, <1>2, <1>3, <1>4, <1>5, RecordStep, SweepStep, TickStep DEF Next, Reap

\* Only the sweep marks and only the sweep evicts, and then both thresholds have
\* passed since the last event, but for one wait for the lock.
LEMMA MarkedAndEvicted ==
  ASSUME IInv, [Next]_vars, NEW a \in Actor
  PROVE  /\ Marked(a) => newest[a] > DeadThreshold - MaxWait
         /\ Present(a) /\ ~Present(a)' =>
              heard[a] > DeadThreshold + EvictThreshold(actors[a]) - MaxWait
<1>1. CASE Sweep
  <2>1. sweepAge \in Nat /\ newest[a] \in Nat /\ heard[a] \in Nat
    BY CapFacts DEF IInv, TypeOK, Wait, Age
  <2>2. ASSUME Marked(a) PROVE newest[a] > DeadThreshold - MaxWait
    <3>1. a \in Silent /\ Present(a) /\ actors[a] \in Entry
      BY <1>1, <2>2 DEF Marked, Sweep, Present, IInv, TypeOK
    <3>2. /\ actors[a].idle > DeadThreshold + sweepAge
          /\ actors[a].idle <= newest[a] + MaxWait /\ actors[a].idle \in Nat
      BY <3>1, CapFacts DEF Silent, IInv, InStep, Entry, Age
    <3> QED
      BY <2>1, <3>2, PresenceAssumption
  <2>3. ASSUME Present(a), ~Present(a)'
        PROVE  heard[a] > DeadThreshold + EvictThreshold(actors[a]) - MaxWait
    <3> DEFINE t == EvictThreshold(actors[a])
    <3>1. actors[a] \in Entry /\ [actors[a] EXCEPT !.reaped = TRUE, !.deadFor = sweepAge] \in Entry
      BY <2>3, CapFacts DEF IInv, TypeOK, Present, Entry
    <3>2. a \in Expired
      BY <1>1, <2>3, <3>1, PresenceAssumption DEF Sweep, Present
    <3>3. /\ actors[a].deadFor > t + sweepAge
          /\ actors[a].idle > DeadThreshold + actors[a].deadFor \/ actors[a].idle = Cap
          /\ actors[a].idle <= heard[a] + MaxWait
          /\ actors[a].idle \in Nat /\ actors[a].deadFor \in Nat
      BY <3>1, <3>2, CapFacts DEF Expired, IInv, InStep, Entry, Age
    <3>4. t \in Nat /\ (t = EvictEphemeral \/ t = EvictAfter)
      BY EvictType
    <3>5. actors[a].idle > DeadThreshold + t
      BY <2>1, <3>3, <3>4, CapFacts, PresenceAssumption
    <3> QED
      BY <2>1, <3>3, <3>4, <3>5, PresenceAssumption
  <2> QED
    BY <2>2, <2>3
<1>2. ASSUME NEW e \in Emitter, RecordHookEvent(e)
      PROVE  ~Marked(a) /\ (Present(a) => Present(a)')
  <2>1. a = emit[e].actor => actors'[a] \in Entry /\ ~actors'[a].reaped
    BY <1>2, RecordEntry DEF RecordHookEvent, NewEntry, IInv, TypeOK
  <2>2. a # emit[e].actor => actors'[a] = actors[a]
    BY <1>2 DEF RecordHookEvent, IInv, TypeOK
  <2> QED
    BY <2>1, <2>2, PresenceAssumption DEF Present, Marked
<1>3. CASE Tick
  <2>1. Present(a) => actors[a] \in Entry /\ actors'[a] \in Entry /\ actors'[a].reaped = actors[a].reaped
    <3>1. ASSUME Present(a)
          PROVE  actors[a] \in Entry
                 /\ actors'[a] = [actors[a] EXCEPT !.idle = Older(@),
                                    !.deadFor = IF actors[a].reaped THEN Older(@) ELSE @]
      BY <1>3, <3>1 DEF Tick, IInv, TypeOK, Present
    <3> QED
      BY <3>1, OlderType DEF Entry
  <2> QED
    BY <2>1, PresenceAssumption DEF Present, Marked
<1>4. CASE UNCHANGED actors
  BY <1>4 DEF Present, Marked
<1>5. Sweep \/ (\E e \in Emitter : RecordHookEvent(e)) \/ Tick \/ UNCHANGED actors
  BY DEF Next, Reap, ReadClock, TickerFires, OnDead, EndSweep, vars
<1> QED
  BY <1>1, <1>2, <1>3, <1>4, <1>5

-----------------------------------------------------------------------------
THEOREM PresenceInvariant == Spec => []IInv
  BY InitIInv, NextIInv, PTL DEF Spec

\* The roster holds what its types allow; reapedAt is zero unless reaped.
THEOREM PresenceTypeCorrect == Spec => []TypeOK
<1>1. IInv => TypeOK
  BY DEF IInv
<1> QED
  BY <1>1, PresenceInvariant, PTL

\* No event of a dead agent has been recorded since it was marked.
THEOREM PresenceDeadMeansSilent == Spec => []DeadMeansSilent
<1>1. IInv => DeadMeansSilent
  BY DEF IInv, InStep, DeadMeansSilent
<1> QED
  BY <1>1, PresenceInvariant, PTL

\* The reaper marks nobody dead whose last event is younger than the threshold,
\* but for the wait of a call for the lock.
THEOREM PresenceNotMarkedEarly == Spec => NotMarkedEarly
<1>1. IInv /\ [Next]_vars =>
        [\A a \in Actor : Marked(a) => newest[a] > DeadThreshold - MaxWait]_vars
  BY MarkedAndEvicted
<1> QED
  BY <1>1, PresenceInvariant, PTL DEF Spec, NotMarkedEarly

\* Nobody is evicted before both thresholds have passed, but for the same wait.
THEOREM PresenceNotForgottenEarly == Spec => NotForgottenEarly
<1>1. IInv /\ [Next]_vars =>
        [\A a \in Actor : Present(a) /\ ~Present(a)' =>
           heard[a] > DeadThreshold + EvictThreshold(actors[a]) - MaxWait]_vars
  BY MarkedAndEvicted
<1> QED
  BY <1>1, PresenceInvariant, PTL DEF Spec, NotForgottenEarly

\* The list of calls is empty but while they are made.
CallsMade == pc # "calls" => newlyDead = {}

\* A sweep reports exactly the agents it marks, and nothing else reports or marks one:
\* each death is told once, whatever comes between the sweep and its calls.
THEOREM PresenceReportedOncePerDeath == Spec => ReportedOncePerDeath
<1>1. Init => CallsMade
  BY DEF Init, CallsMade
<1>2. CallsMade /\ [Next]_vars => CallsMade'
  BY DEF CallsMade, Next, Reap, ReadClock, RecordHookEvent, Recorded, TickerFires, Sweep, OnDead, EndSweep, Tick, vars
<1>3. ASSUME IInv, CallsMade, [Next]_vars, NEW a \in Actor
      PROVE  a \in newlyDead' \ newlyDead <=> Marked(a)
  <2>1. CASE Sweep
    <3>1. newlyDead = {} /\ newlyDead' = Silent
      BY <1>3, <2>1 DEF Sweep, CallsMade
    <3>2. /\ actors'[a] = IF a \in Expired THEN Absent
                          ELSE IF a \in Silent THEN [actors[a] EXCEPT !.reaped = TRUE, !.deadFor = sweepAge]
                          ELSE actors[a]
          /\ a \in Silent => ~actors[a].reaped /\ Present(a) /\ a \notin Expired
      BY <2>1 DEF Sweep, Silent, Expired
    <3>3. Present(a) => actors[a] \in Entry
      BY <1>3 DEF IInv, TypeOK, Present
    <3>4. a \in Silent => actors'[a].reaped /\ actors'[a] \in Entry
      BY <1>3, <3>2, <3>3, CapFacts DEF Entry, IInv, TypeOK
    <3> QED
      BY <3>1, <3>2, <3>4, PresenceAssumption DEF Marked, Present
  <2>2. ASSUME NEW e \in Emitter, RecordHookEvent(e) PROVE newlyDead' = newlyDead /\ ~Marked(a)
    <3>1. emit[e] # Absent /\ newlyDead' = newlyDead
      BY <2>2 DEF RecordHookEvent, Recorded
    <3>2. a = emit[e].actor => ~actors'[a].reaped
      BY <1>3, <2>2, RecordEntry DEF RecordHookEvent, NewEntry, IInv, TypeOK
    <3>3. a # emit[e].actor => actors'[a] = actors[a]
      BY <1>3, <2>2 DEF RecordHookEvent, IInv, TypeOK
    <3> QED
      BY <3>1, <3>2, <3>3 DEF Present, Marked
  <2>3. CASE Tick
    <3>1. Present(a) => actors'[a].reaped = actors[a].reaped
      <4>1. ASSUME Present(a)
            PROVE  actors[a] \in Entry
                   /\ actors'[a] = [actors[a] EXCEPT !.idle = Older(@),
                                      !.deadFor = IF actors[a].reaped THEN Older(@) ELSE @]
        BY <1>3, <2>3, <4>1 DEF Tick, IInv, TypeOK, Present
      <4> QED
        BY <4>1 DEF Entry
    <3> QED
      BY <2>3, <3>1 DEF Tick, Present, Marked
  <2>4. ASSUME UNCHANGED actors, newlyDead' \subseteq newlyDead PROVE a \notin newlyDead' \ newlyDead /\ ~Marked(a)
    BY <2>4 DEF Marked, Present
  <2> QED
    BY <1>3, <2>1, <2>2, <2>3, <2>4 DEF Next, Reap, ReadClock, TickerFires, OnDead, EndSweep, vars
<1>4. IInv /\ CallsMade /\ [Next]_vars =>
        [\A a \in Actor : (a \in newlyDead' \ newlyDead) <=> Marked(a)]_vars
  BY <1>3
<1> QED
  BY <1>1, <1>2, <1>4, PresenceInvariant, PTL DEF Spec, ReportedOncePerDeath
=============================================================================
