-------------------------------- MODULE Jacks --------------------------------
(***************************************************************************)
(* A jack, the permit for a temporary change, and the kd jack commands on  *)
(* it: up, log, extend, down, check --auto-escalate.  Each command reads   *)
(* the bead, changes its copy of the fields, and writes all of them back,  *)
(* so that it undoes what others wrote in between.                         *)
(*                                                                         *)
(* Commands on other jacks touch other rows: one jack is enough.  Remote   *)
(* calls are steps, and may fail before they had an effect or lose their   *)
(* answer after.  Durations are counted in units, and jack_expires_at by   *)
(* what is left until then.  What the fields say about target, reason and  *)
(* closing is left out, and so are comments and the bead it may block.     *)
(***************************************************************************)
EXTENDS Naturals, FiniteSets

CONSTANTS
  Runner,         \* processes running kd jack commands
  Change,         \* change records
  MaxChanges,     \* JackMaxChanges (500)
  MaxExtensions,  \* JackMaxExtensions (5)
  MaxTTL,         \* JackMaxTTL, JackMaxCumulativeTTL (7 days)
  MaxSingle,      \* JackMaxSingleExtension (24 hours)
  TTL,            \* durations asked for
  NoJack, Resting

VARIABLES
  jack,       \* the bead: its status and its jack_ fields
  run,        \* per runner: its command, and the copy it read
  logged,     \* history: changes written by log commands, until a stale write undid them
  granted,    \* history: number of extensions written, until a race
  grantedTTL, \* history: sum of the durations written
  raced       \* history: a command wrote back a stale copy

jackHistory == <<logged, granted, grantedTTL, raced>>
jackVars == <<jack, run, jackHistory>>

Fields == [changes : SUBSET Change, count : 0..MaxExtensions, cumulative : 0..MaxTTL,
           escalated : BOOLEAN, left : 0..MaxTTL]
JackBead == [status : {"open", "in_progress", "closed"}, fields : Fields]

\* A command between two calls; a copy is fresh until someone else writes the jack.
Writing == [op : {"log", "extend", "down", "check"}, new : Fields, ttl : TTL, fresh : BOOLEAN]
Running == Writing \cup [op : {"activate", "close"}]

ASSUME JacksAssumption ==
  /\ MaxTTL \in Nat /\ MaxExtensions \in Nat
  /\ TTL \subseteq Nat /\ TTL # {}
  /\ Resting \notin Running /\ NoJack \notin JackBead

-----------------------------------------------------------------------------
(* Calls.                                                                  *)

Rests(r) == run' = [run EXCEPT ![r] = Resting]

\* The jack is written by r, which goes on with next: the copies of the others
\* are stale.
Stored(r, bead, next) ==
  /\ jack' = bead
  /\ run' = [q \in Runner |->
       IF q = r THEN next
       ELSE IF run[q] \in Writing THEN [run[q] EXCEPT !.fresh = FALSE] ELSE run[q]]

-----------------------------------------------------------------------------
(* jack up                                                                 *)

NewFields(ttl) ==
  [changes |-> {}, count |-> 0, cumulative |-> ttl,
   escalated |-> FALSE, left |-> ttl]

\* (fault) the duration is not limited
UpUnlimited(r, ttl) ==
  /\ jack = NoJack /\ run[r] = Resting
  /\ jack' = [status |-> "open", fields |-> NewFields(ttl)]
  /\ \/ run' = [run EXCEPT ![r] = [op |-> "activate"]]
     \/ UNCHANGED run
  /\ grantedTTL' = ttl
  /\ UNCHANGED <<logged, granted, raced>>

\* CreateBead; the answer may get lost, and with it the rest of the command.
Up(r, ttl) ==
  /\ jack = NoJack /\ run[r] = Resting /\ ttl <= MaxTTL
  /\ jack' = [status |-> "open", fields |-> NewFields(ttl)]
  /\ \/ run' = [run EXCEPT ![r] = [op |-> "activate"]]
     \/ UNCHANGED run
  /\ grantedTTL' = ttl
  /\ UNCHANGED <<logged, granted, raced>>

\* UpdateBead of the status; a failure is a warning.
Activate(r) ==
  /\ run[r] = [op |-> "activate"]
  /\ \/ Stored(r, [jack EXCEPT !.status = "in_progress"], Resting)
     \/ Rests(r) /\ UNCHANGED jack
  /\ UNCHANGED jackHistory

-----------------------------------------------------------------------------
(* The commands on an existing jack: GetBead and checks, then UpdateBead   *)
(* with all fields.                                                        *)

Reads(r, op, new, ttl) ==
  /\ run[r] = Resting
  /\ run' = [run EXCEPT ![r] = [op |-> op, new |-> new, ttl |-> ttl, fresh |-> TRUE]]
  /\ UNCHANGED <<jack, jackHistory>>

JackExists == jack # NoJack
NotClosed == JackExists /\ jack.status # "closed"
ZeroTTL == CHOOSE t \in TTL : TRUE  \* unused by commands other than extend

\* (fault) the log is started afresh
LogFromScratch(r, c) ==
  /\ NotClosed
  /\ Cardinality(jack.fields.changes) < MaxChanges /\ c \notin jack.fields.changes
  /\ Reads(r, "log", [jack.fields EXCEPT !.changes = {c}], ZeroTTL)

Log(r, c) ==
  /\ NotClosed
  /\ Cardinality(jack.fields.changes) < MaxChanges /\ c \notin jack.fields.changes
  /\ Reads(r, "log", [jack.fields EXCEPT !.changes = @ \cup {c}], ZeroTTL)

\* The time runs from now; the first duration is kept in jack_original_ttl.
Extend(r, ttl) ==
  /\ NotClosed
  /\ ttl <= MaxSingle
  /\ jack.fields.count < MaxExtensions
  /\ jack.fields.cumulative + ttl <= MaxTTL
  /\ Reads(r, "extend", [jack.fields EXCEPT !.left = ttl, !.count = @ + 1, !.cumulative = @ + ttl], ttl)

Down(r) ==
  /\ JackExists
  /\ Reads(r, "down", jack.fields, ZeroTTL)

\* The list shows jacks in progress; those past their time are marked once.
Check(r) ==
  /\ JackExists /\ jack.status = "in_progress"
  /\ jack.fields.left = 0 /\ ~jack.fields.escalated
  /\ Reads(r, "check", [jack.fields EXCEPT !.escalated = TRUE], ZeroTTL)

\* What a write makes of the history.
Noted(w) ==
  /\ raced' = (raced \/ ~w.fresh)
  /\ logged' = IF w.fresh THEN IF w.op = "log" THEN logged \cup (w.new.changes \ jack.fields.changes)
                               ELSE logged
               ELSE logged \cap w.new.changes
  /\ granted' = IF raced' THEN 0 ELSE IF w.op = "extend" THEN granted + 1 ELSE granted
  /\ grantedTTL' = IF raced' THEN 0 ELSE IF w.op = "extend" THEN grantedTTL + w.ttl ELSE grantedTTL

\* UpdateBead; down goes on to close the bead, unless it got no answer.
WriteFields(r) ==
  /\ run[r] \in Writing
  /\ \E next \in IF run[r].op = "down" THEN {[op |-> "close"], Resting} ELSE {Resting} :
       Stored(r, [jack EXCEPT !.fields = run[r].new], next)
  /\ Noted(run[r])

CallFails(r) ==
  /\ run[r] \in Writing
  /\ Rests(r) /\ UNCHANGED <<jack, jackHistory>>

CloseJack(r) ==
  /\ run[r] = [op |-> "close"]
  /\ \/ Stored(r, [jack EXCEPT !.status = "closed"], Resting)
     \/ Rests(r) /\ UNCHANGED jack
  /\ UNCHANGED jackHistory

\* Time passes for the jack and for the copies of it.
Sooner(left) == IF left = 0 THEN 0 ELSE left - 1
JackTick ==
  /\ JackExists /\ jack.fields.left > 0
  /\ jack' = [jack EXCEPT !.fields.left = Sooner(@)]
  /\ run' = [r \in Runner |->
       IF run[r] \in Writing THEN [run[r] EXCEPT !.new.left = Sooner(@)] ELSE run[r]]
  /\ UNCHANGED jackHistory

-----------------------------------------------------------------------------
JacksInit ==
  /\ jack = NoJack /\ run = [r \in Runner |-> Resting]
  /\ logged = {} /\ granted = 0 /\ grantedTTL = 0 /\ raced = FALSE

JacksNext ==
  \/ \E r \in Runner :
       \/ Activate(r) \/ CallFails(r) \/ CloseJack(r) \/ Check(r) \/ Down(r)
       \/ WriteFields(r)
       \/ \E ttl \in TTL : Up(r, ttl) \/ Extend(r, ttl)
       \/ \E c \in Change : Log(r, c)
  \/ JackTick

JacksSpec == JacksInit /\ [][JacksNext]_jackVars

-----------------------------------------------------------------------------
JacksTypeOK ==
  /\ jack \in JackBead \cup {NoJack}
  /\ run \in [Runner -> Running \cup {Resting}]
  /\ logged \subseteq Change /\ granted \in Nat /\ grantedTTL \in Nat /\ raced \in BOOLEAN

\* As long as no command writes back a copy it read before, "Record a change made
\* under a jack": a change stays in the log through all later commands; and
\* "Maximum number of extensions", "Maximum cumulative TTL": the limits hold for
\* the extensions that were given, not only for what the fields say of them.
JackKeepsRecord ==
  /\ logged \subseteq (IF JackExists THEN jack.fields.changes ELSE {})
  /\ ~raced => granted <= MaxExtensions /\ grantedTTL <= MaxTTL
=============================================================================
