------------------------------ MODULE Presence ------------------------------
(***************************************************************************)
(* The presence tracker: hook events keep an actor in the roster, the      *)
(* reaper marks silent actors dead, reports them, and later evicts them.   *)
(*                                                                         *)
(* Both RecordHookEvent and sweep read the clock before they take the      *)
(* lock.  Points in time are represented by their age, which Tick          *)
(* advances, so that the clock needs no bound; ages are counted up to Cap, *)
(* beyond all thresholds.  What an entry remembers for display (first      *)
(* event, tool, session, directory) is left out.                           *)
(***************************************************************************)
EXTENDS Naturals

CONSTANTS
  Actor,
  Emitter,          \* concurrent calls of RecordHookEvent
  DeadThreshold,    \* idle for longer: marked dead
  EvictAfter,       \* dead for longer: evicted
  EvictEphemeral,   \* the same for actors of few events (5 minutes)
  Ephemeral,        \* events that make an actor more than ephemeral (10)
  MaxWait,          \* bound: wait for the lock after reading the clock
  Absent            \* no entry, no call under way

Cap == DeadThreshold + EvictAfter + EvictEphemeral + MaxWait + 1
Age == 0..Cap
Wait == 0..MaxWait

\* deadFor is the age of reapedAt; eventCount is counted up to Ephemeral.
Entry == [idle: Age, eventCount: 1..Ephemeral, reaped: BOOLEAN, deadFor: Age]
HookEvent == [actor: Actor, age: Wait]

ASSUME PresenceAssumption ==
  /\ DeadThreshold \in Nat /\ EvictAfter \in Nat /\ EvictEphemeral \in Nat
  /\ Ephemeral \in Nat \ {0} /\ MaxWait \in Nat
  /\ MaxWait < DeadThreshold
  /\ Absent \notin Entry \cup HookEvent

VARIABLES
  actors,     \* the map
  emit,       \* per call of RecordHookEvent: its event, and how old its clock reading is
  pc,         \* the reaper: at its ticker, waiting for the lock, calling OnDead
  sweepAge,   \* the age of the reaper's clock reading
  newlyDead,  \* actors left to report
  heard,      \* history: age of the last call recorded, per actor
  newest      \* history: age of the newest clock reading recorded, per actor

history == <<heard, newest>>
vars == <<actors, emit, pc, sweepAge, newlyDead, history>>

Present(a) == actors[a] # Absent

-----------------------------------------------------------------------------
(* RecordHookEvent.                                                        *)

ReadClock(e) ==
  /\ emit[e] = Absent
  /\ \E a \in Actor : emit' = [emit EXCEPT ![e] = [actor |-> a, age |-> 0]]
  /\ UNCHANGED <<actors, pc, sweepAge, newlyDead, history>>

Counted(n) == IF n < Ephemeral THEN n + 1 ELSE n
EventCount(a) == IF Present(a) THEN Counted(actors[a].eventCount) ELSE 1

Recorded(e) ==
  LET a == emit[e].actor
  IN /\ emit' = [emit EXCEPT ![e] = Absent]
     /\ heard' = [heard EXCEPT ![a] = 0]
     /\ newest' = [newest EXCEPT ![a] = IF @ < emit[e].age THEN @ ELSE emit[e].age]
     /\ UNCHANGED <<pc, sweepAge, newlyDead>>

\* (fault) an actor that was marked dead stays so
RecordUnresurrected(e) ==
  /\ emit[e] # Absent
  /\ LET a == emit[e].actor
     IN actors' = [actors EXCEPT ![a] =
          [idle |-> emit[e].age, eventCount |-> EventCount(a),
           reaped |-> Present(a) /\ actors[a].reaped,
           deadFor |-> IF Present(a) THEN actors[a].deadFor ELSE 0]]
  /\ Recorded(e)

\* (fault) lastSeen is set for new entries only
RecordFirstSeen(e) ==
  /\ emit[e] # Absent
  /\ LET a == emit[e].actor
     IN actors' = [actors EXCEPT ![a] =
          [idle |-> IF Present(a) THEN actors[a].idle ELSE emit[e].age,
           eventCount |-> EventCount(a), reaped |-> FALSE, deadFor |-> 0]]
  /\ Recorded(e)

\* Under the lock: a new entry, or the old one brought back to life and up to date.
RecordHookEvent(e) ==
  /\ emit[e] # Absent
  /\ LET a == emit[e].actor
     IN actors' = [actors EXCEPT ![a] =
          [idle |-> emit[e].age, eventCount |-> EventCount(a), reaped |-> FALSE, deadFor |-> 0]]
  /\ Recorded(e)

-----------------------------------------------------------------------------
(* The reaper.                                                             *)

TickerFires ==
  /\ pc = "ticker"
  /\ pc' = "lock" /\ sweepAge' = 0
  /\ UNCHANGED <<actors, emit, newlyDead, history>>

EvictThreshold(entry) ==
  IF entry.eventCount < Ephemeral THEN EvictEphemeral ELSE EvictAfter

\* (fault) the age of an entry's last event decides on its eviction
ExpiredByIdle == {a \in Actor : Present(a) /\ actors[a].reaped
                    /\ actors[a].idle > EvictThreshold(actors[a]) + sweepAge}
\* (fault) actors already marked dead are marked again
SilentAgain == {a \in Actor : Present(a) /\ actors[a].idle > DeadThreshold + sweepAge}
\* (fault) entries of few events are never evicted
ExpiredFrequent == {a \in Actor : Present(a) /\ actors[a].reaped
                      /\ actors[a].eventCount = Ephemeral
                      /\ actors[a].deadFor > EvictAfter + sweepAge}

\* Actors that were idle for too long, and entries that were dead for too long,
\* when the reaper read the clock.
Silent == {a \in Actor : Present(a) /\ ~actors[a].reaped
                           /\ actors[a].idle > DeadThreshold + sweepAge}
Expired == {a \in Actor : Present(a) /\ actors[a].reaped
                            /\ actors[a].deadFor > EvictThreshold(actors[a]) + sweepAge}

\* Under the lock.
Sweep ==
  /\ pc = "lock"
  /\ actors' = [a \in Actor |->
       IF a \in Expired THEN Absent
       ELSE IF a \in Silent THEN [actors[a] EXCEPT !.reaped = TRUE, !.deadFor = sweepAge]
       ELSE actors[a]]
  /\ newlyDead' = Silent
  /\ pc' = "calls" /\ sweepAge' = 0
  /\ UNCHANGED <<emit, history>>

\* Outside the lock, in the order the map was walked: any.
OnDead ==
  /\ pc = "calls"
  /\ \E a \in newlyDead : newlyDead' = newlyDead \ {a}
  /\ UNCHANGED <<actors, emit, pc, sweepAge, history>>

EndSweep ==
  /\ pc = "calls" /\ newlyDead = {}
  /\ pc' = "ticker"
  /\ UNCHANGED <<actors, emit, sweepAge, newlyDead, history>>

-----------------------------------------------------------------------------
(* Time.                                                                   *)

Older(age) == IF age < Cap THEN age + 1 ELSE Cap

Tick ==
  /\ \A e \in Emitter : emit[e] # Absent => emit[e].age < MaxWait
  /\ pc = "lock" => sweepAge < MaxWait
  /\ actors' = [a \in Actor |->
       IF Present(a)
       THEN [actors[a] EXCEPT !.idle = Older(@), !.deadFor = IF actors[a].reaped THEN Older(@) ELSE @]
       ELSE Absent]
  /\ emit' = [e \in Emitter |-> IF emit[e] = Absent THEN Absent ELSE [emit[e] EXCEPT !.age = @ + 1]]
  /\ sweepAge' = IF pc = "lock" THEN sweepAge + 1 ELSE 0
  /\ heard' = [a \in Actor |-> Older(heard[a])]
  /\ newest' = [a \in Actor |-> Older(newest[a])]
  /\ UNCHANGED <<pc, newlyDead>>

-----------------------------------------------------------------------------
Init ==
  /\ actors = [a \in Actor |-> Absent]
  /\ emit = [e \in Emitter |-> Absent]
  /\ pc = "ticker" /\ sweepAge = 0 /\ newlyDead = {}
  /\ heard = [a \in Actor |-> Cap] /\ newest = [a \in Actor |-> Cap]

Reap == TickerFires \/ Sweep \/ OnDead \/ EndSweep

Next ==
  \/ \E e \in Emitter : ReadClock(e) \/ RecordHookEvent(e)
  \/ Reap \/ Tick

Spec == Init /\ [][Next]_vars

\* Time passes, the ticker fires, a goroutine that can get the lock gets it, and
\* OnDead returns.
Fairness ==
  /\ WF_vars(Tick) /\ WF_vars(Reap)
  /\ \A e \in Emitter : WF_vars(RecordHookEvent(e))
FairSpec == Spec /\ Fairness

-----------------------------------------------------------------------------
(* Properties.                                                             *)

\* Types; an entry has a reapedAt only while it is reaped.
TypeOK ==
  /\ actors \in [Actor -> Entry \cup {Absent}]
  /\ emit \in [Emitter -> HookEvent \cup {Absent}]
  /\ pc \in {"ticker", "lock", "calls"}
  /\ sweepAge \in Wait /\ newlyDead \subseteq Actor
  /\ heard \in [Actor -> Age] /\ newest \in [Actor -> Age]
  /\ \A a \in Actor : Present(a) /\ ~actors[a].reaped => actors[a].deadFor = 0

\* "Resurrect reaped agents that come back to life": no event has been recorded
\* for an agent shown as dead since it died, whatever clock the event carried
\* and whenever the sweep that was waiting for the lock read its own.
DeadMeansSilent ==
  \A a \in Actor : Present(a) /\ actors[a].reaped => heard[a] >= actors[a].deadFor

\* "A background reaper goroutine marks idle agents as dead after a configurable
\* threshold", and not sooner.  Two calls for one agent may get the lock in the
\* other order than they read the clock, so that lastSeen goes back by what
\* they waited for it, and no more.
Marked(a) == Present(a) /\ ~actors[a].reaped /\ Present(a)' /\ actors'[a].reaped
NotMarkedEarly ==
  [][\A a \in Actor : Marked(a) => newest[a] > DeadThreshold - MaxWait]_vars

\* "OnDead is called for each agent newly marked as dead": an agent enters the
\* list of calls when it turns from alive to dead, at no other time.
ReportedOncePerDeath ==
  [][\A a \in Actor : (a \in newlyDead' \ newlyDead) <=> Marked(a)]_vars

\* An agent leaves the roster's map only after both thresholds have passed
\* since its last event.
NotForgottenEarly ==
  [][\A a \in Actor : Present(a) /\ ~Present(a)' =>
       heard[a] > DeadThreshold + EvictThreshold(actors[a]) - MaxWait]_vars

\* "Prevents unbounded growth from ephemeral agents": an agent that stays silent
\* is evicted.
SilentIsEvicted ==
  \A a \in Actor : (Present(a) /\ heard[a] = Cap) ~> (~Present(a) \/ heard[a] < Cap)
=============================================================================
