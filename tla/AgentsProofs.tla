---------------------------- MODULE AgentsProofs ----------------------------
(***************************************************************************)
(* What holds of the clients' work for every set of agents, sessions,      *)
(* beads, configs and formulas: claims, jacks, decisions, configs, formula *)
(* edits and remotes. In each case several commands, each of several calls,*)
(* work on the same rows, and the invariant says what a command may rely on*)
(* between two of its calls whatever the others do. Requests for a list    *)
(* are about encodings instead. The last part is about all of them, the    *)
(* molecules of MoleculesProofs included.                                  *)
(***************************************************************************)
EXTENDS MCAgents, MoleculesProofs, Integers, FiniteSetTheorems, SequenceTheorems, TLAPS

(* Claims.                                                                 *)

AtMostOne(S) == \A x, y \in S : x = y

\* A claim that was checked, and that nobody raced, is of an agent without an issue;
\* done and orphans have seen their beads, and nothing deletes beads.
CommandsHold ==
  \A s \in Session : cmd[s] # Idle =>
    /\ cmd[s].op = "claim" /\ cmd[s].checked /\ cmd[s].alone => Claimed(Actor[s]) = {}
    /\ cmd[s].op = "done" => Exists(cmd[s].bead)
    /\ cmd[s].op = "orphans" => \A b \in cmd[s].todo : Exists(b)

\* What carries the single claim: types, what the commands under way rely on, and
\* the claim itself for every agent that is not excused.
ClaimsIInv == ClaimsTypeOK /\ CommandsHold /\ \A a \in Agent \ excused : AtMostOne(Claimed(a))

\* A count of at most one, said without counting.
LEMMA OneMeansOne ==
  ASSUME NEW S, IsFiniteSet(S)
  PROVE  Cardinality(S) <= 1 <=> AtMostOne(S)
<1>1. CASE S = {}
  BY <1>1, FS_EmptySet DEF AtMostOne
<1>2. ASSUME NEW x \in S PROVE Cardinality(S) <= 1 <=> AtMostOne(S)
  <2>1. IsFiniteSet(S \ {x}) /\ Cardinality(S \ {x}) = Cardinality(S) - 1
    BY <1>2, FS_RemoveElement
  <2>2. Cardinality(S \ {x}) \in Nat /\ Cardinality(S) \in Nat
    BY <2>1, FS_CardinalityType
  <2>3. Cardinality(S \ {x}) = 0 <=> S \ {x} = {}
    BY <2>1, FS_EmptySet
  <2> QED
    BY <1>2, <2>1, <2>2, <2>3 DEF AtMostOne
<1> QED
  BY <1>1, <1>2

\* The issues of an agent can be counted.
LEMMA ClaimedFinite == \A a : IsFiniteSet(Claimed(a)) /\ IsFiniteSet(InProgress(a))
BY ClaimsAssumption, FS_Subset DEF Claimed, InProgress

\* At the start no command runs, and no agent has two issues.
LEMMA ClaimsInitIInv == ClaimsInit => ClaimsIInv
<1> SUFFICES ASSUME ClaimsInit PROVE ClaimsIInv
  OBVIOUS
<1>1. PICK holder \in [Initial -> Agent \cup {NoAgent}] :
        rows = [b \in Bead |-> IF b \in Initial
                               THEN [status |-> Held(holder[b]), assignee |-> holder[b], project |-> NoProject]
                               ELSE NoRow]
  BY DEF ClaimsInit
<1>2. rows \in [Bead -> ClaimRow \cup {NoRow}]
  BY <1>1 DEF ClaimRow, Held
<1>3. \A a \in Agent : AtMostOne(Claimed(a))
  BY ClaimedFinite, OneMeansOne DEF ClaimsInit
<1>4. \A s \in Session : cmd[s] = Idle
  BY DEF ClaimsInit
<1> QED
  BY <1>2, <1>3, <1>4, ClaimsAssumption DEF ClaimsInit, ClaimsIInv, ClaimsTypeOK, CommandsHold

-----------------------------------------------------------------------------
\* The step gives the agent an issue.
Gains(a) == Claimed(a)' \ Claimed(a) # {}

\* What a write leaves: commands hold what they did, and only who gains an issue
\* may have more than one.
LEMMA ClaimsWriteKeeps ==
  ASSUME ClaimsIInv, NEW s \in Session, NEW b \in Bead, NEW row \in ClaimRow,
         NEW next \in Command \cup {Idle}, Write(s, b, row, next),
         next # Idle => next.op = "orphans" /\ \A c \in next.todo : Exists(c),
         \A a \in Agent : Gains(a) => a \in excused' \/ AtMostOne(Claimed(a)'),
         excused \subseteq excused', excused' \subseteq Agent, commands' \in 0..MaxCommands
  PROVE  ClaimsIInv'
<1>1. rows' \in [Bead -> ClaimRow \cup {NoRow}] /\ \A c \in Bead : Exists(c) => Exists(c)'
  BY ClaimsAssumption DEF Write, ClaimsIInv, ClaimsTypeOK, Exists
<1> DEFINE gained == {a \in Agent : Gains(a)}
<1>2. cmd' = [t \in Session |-> IF t = s THEN next ELSE Raced(s, t, gained)]
  BY DEF Write, Gains
<1>3. ASSUME NEW t \in Session, t # s
      PROVE  /\ cmd'[t] \in Command \cup {Idle}
             /\ cmd'[t] # Idle =>
                  /\ cmd'[t].op = "claim" /\ cmd'[t].checked /\ cmd'[t].alone => (Claimed(Actor[t]) = {})'
                  /\ cmd'[t].op = "done" => Exists(cmd'[t].bead)
                  /\ cmd'[t].op = "orphans" => \A c \in cmd'[t].todo : Exists(c)
  <2>1. cmd[t] \in Command \cup {Idle}
    BY DEF ClaimsIInv, ClaimsTypeOK
  <2>2. CASE cmd[t] # Idle /\ cmd[t].op = "claim" /\ Actor[t] \in gained
    <3>1. cmd'[t] = [cmd[t] EXCEPT !.alone = FALSE]
      BY <1>2, <1>3, <2>2 DEF Raced
    <3>2. cmd'[t] \in Command /\ cmd'[t].alone = FALSE /\ cmd'[t].op = "claim"
      BY <2>1, <2>2, <3>1 DEF Command
    <3> QED
      BY <3>2
  <2>3. CASE ~(cmd[t] # Idle /\ cmd[t].op = "claim" /\ Actor[t] \in gained)
    <3>1. cmd'[t] = cmd[t]
      BY <1>2, <1>3, <2>3 DEF Raced
    <3>2. Actor[t] \notin gained => Claimed(Actor[t])' \subseteq Claimed(Actor[t])
      BY ClaimsAssumption DEF Gains
    <3> QED
      BY <2>1, <2>3, <3>1, <3>2 DEF ClaimsIInv, CommandsHold
  <2> QED
    BY <2>2, <2>3
<1> HIDE DEF gained
<1>4. cmd' \in [Session -> Command \cup {Idle}]
  BY <1>2, <1>3
<1>5. cmd'[s] = next
  BY <1>2
<1>6. CommandsHold'
  <2> SUFFICES ASSUME NEW t \in Session, cmd'[t] # Idle
               PROVE  /\ cmd'[t].op = "claim" /\ cmd'[t].checked /\ cmd'[t].alone => (Claimed(Actor[t]) = {})'
                      /\ cmd'[t].op = "done" => Exists(cmd[t].bead)'
                      /\ cmd'[t].op = "orphans" => \A c \in cmd'[t].todo : Exists(c)'
    BY DEF CommandsHold
  <2>1. /\ cmd'[t].op = "done" => cmd'[t].bead \in Bead
        /\ cmd'[t].op = "orphans" => cmd'[t].todo \subseteq Bead
    BY <1>4 DEF Command
  <2>2. (cmd'[t].op = "done" => Exists(cmd'[t].bead)) /\ (cmd'[t].op = "orphans" => \A c \in cmd'[t].todo : Exists(c))
    BY <1>3, <1>5
  <2>3. cmd'[t].op = "claim" /\ cmd'[t].checked /\ cmd'[t].alone => (Claimed(Actor[t]) = {})'
    BY <1>3, <1>5
  <2> QED
    BY <1>1, <2>1, <2>2, <2>3 DEF Exists
<1>7. ASSUME NEW a \in Agent \ excused' PROVE AtMostOne(Claimed(a)')
  BY <1>7 DEF Gains, ClaimsIInv, AtMostOne
<1> QED
  BY <1>1, <1>4, <1>6, <1>7 DEF ClaimsIInv, ClaimsTypeOK

\* A step of s that writes nothing keeps what the others hold.
LEMMA GoesKeeps ==
  ASSUME ClaimsIInv, NEW s \in Session, NEW next \in Command \cup {Idle}, Goes(s, next),
         next # Idle =>
           /\ next.op = "claim" /\ next.checked /\ next.alone => Claimed(Actor[s]) = {}
           /\ next.op = "done" => Exists(next.bead)
           /\ next.op = "orphans" => \A b \in next.todo : Exists(b),
         UNCHANGED excused, commands' \in 0..MaxCommands
  PROVE  ClaimsIInv'
<1>1. UNCHANGED rows /\ cmd' = [cmd EXCEPT ![s] = next]
  BY DEF Goes
<1>2. \A a : Claimed(a)' = Claimed(a)
  BY <1>1 DEF Claimed, Exists
<1>3. ClaimsTypeOK'
  BY <1>1 DEF ClaimsIInv, ClaimsTypeOK
<1>4. CommandsHold'
  BY <1>1, <1>2 DEF ClaimsIInv, ClaimsTypeOK, CommandsHold, Exists
<1>5. ASSUME NEW a \in Agent \ excused' PROVE AtMostOne(Claimed(a)')
  BY <1>2, <1>5 DEF ClaimsIInv
<1> QED
  BY <1>3, <1>4, <1>5 DEF ClaimsIInv

\* A row gains its assignee nothing unless it is in progress afterwards.
LEMMA NoGain ==
  ASSUME ClaimsIInv, NEW b \in Bead, NEW row \in ClaimRow, rows' = [rows EXCEPT ![b] = row],
         \/ row.status # "in_progress"
         \/ Exists(b) /\ row.status = rows[b].status /\ row.assignee = rows[b].assignee
  PROVE  \A a \in Agent : ~Gains(a)
BY ClaimsAssumption DEF ClaimsIInv, ClaimsTypeOK, Gains, Claimed, Exists

\* Only the bead written can be gained.
LEMMA GainOne ==
  ASSUME ClaimsIInv, NEW b \in Bead, NEW row \in ClaimRow, rows' = [rows EXCEPT ![b] = row], NEW a
  PROVE  /\ Claimed(a)' \subseteq Claimed(a) \cup {b}
         /\ row.assignee # a => ~Gains(a)
BY ClaimsAssumption DEF ClaimsIInv, ClaimsTypeOK, Gains, Claimed, Exists

\* UpdateBead turns a row into a row, with the status and the assignee given.
LEMMA PatchedType ==
  ASSUME NEW row \in ClaimRow, NEW st \in {"open", "in_progress", "deferred", "closed", Keep},
         NEW assignee \in Agent \cup {NoAgent, Keep}
  PROVE  /\ Patched(row, st, assignee) \in ClaimRow
         /\ st # Keep => Patched(row, st, assignee).status = st
         /\ assignee # Keep => Patched(row, st, assignee).assignee = assignee
BY DEF Patched, ClaimRow

-----------------------------------------------------------------------------
\* A bead that exists has a row.
LEMMA RowOf ==
  ASSUME ClaimsIInv, NEW b \in Bead, Exists(b)
  PROVE  rows[b] \in ClaimRow
BY DEF ClaimsIInv, ClaimsTypeOK, Exists

\* A call after which only excused agents have gained an issue keeps the invariant.
LEMMA CallKeeps ==
  ASSUME ClaimsIInv, NEW s \in Session, NEW b \in Bead, NEW row \in ClaimRow, Call(s, b, row),
         excused \subseteq excused', excused' \subseteq Agent, \A a \in Agent : Gains(a) => a \in excused'
  PROVE  ClaimsIInv'
<1>1. commands' \in 0..MaxCommands /\ Write(s, b, row, Idle)
  BY ClaimsAssumption DEF Call, ClaimsIInv, ClaimsTypeOK
<1> QED
  BY <1>1, ClaimsWriteKeeps

\* So do the commands that are one call: unclaim, close, reopen, defer, update,
\* label and create either give nobody an issue or excuse who got one.
LEMMA OneCallKeeps ==
  ASSUME ClaimsIInv, NEW s \in Session, NEW b \in Bead,
         \/ Unclaim(s, b) \/ Close(s, b) \/ Reopen(s, b) \/ Defer(s, b)
         \/ \E st \in {"open", "in_progress", Keep}, assignee \in Agent \cup {NoAgent, Keep} :
              Update(s, b, st, assignee)
         \/ \E project \in Project \cup {NoProject} : Label(s, b, project)
         \/ \E project \in Project \cup {NoProject}, assignee \in Agent \cup {NoAgent}, force \in BOOLEAN :
              Create(s, b, project, assignee, force)
  PROVE  ClaimsIInv'
<1>0. excused \subseteq Agent
  BY DEF ClaimsIInv, ClaimsTypeOK
<1>1. ASSUME NEW st \in {"open", "deferred", "closed"}, NEW assignee \in {NoAgent, Keep},
             Exists(b), Call(s, b, Patched(rows[b], st, assignee)), UNCHANGED excused
      PROVE  ClaimsIInv'
  <2>1. Patched(rows[b], st, assignee) \in ClaimRow /\ Patched(rows[b], st, assignee).status = st
    <3>1. rows[b] \in ClaimRow
      BY <1>1, RowOf
    <3>2. st \in {"open", "in_progress", "deferred", "closed", Keep} /\ st # Keep
      BY DEF Keep
    <3> QED
      BY <3>1, <3>2, PatchedType
  <2>2. rows' = [rows EXCEPT ![b] = Patched(rows[b], st, assignee)]
    BY <1>1 DEF Call, Write
  <2>3. \A a \in Agent : ~Gains(a)
    BY <2>1, <2>2, NoGain
  <2> QED
    BY <1>0, <1>1, <2>1, <2>3, CallKeeps
<1>2. CASE Unclaim(s, b) \/ Close(s, b) \/ Reopen(s, b) \/ Defer(s, b)
  BY <1>1, <1>2 DEF Unclaim, Close, Reopen, Defer
<1>3. ASSUME NEW st \in {"open", "in_progress", Keep}, NEW assignee \in Agent \cup {NoAgent, Keep},
             Update(s, b, st, assignee)
      PROVE  ClaimsIInv'
  <2>1. Patched(rows[b], st, assignee) \in ClaimRow
    BY <1>3, RowOf, PatchedType DEF Update
  <2>2. \A a \in Agent : Gains(a) => a \in excused'
    BY <1>3 DEF Update, Gains
  <2>3. excused \subseteq excused' /\ excused' \subseteq Agent
    BY <1>0, <1>3 DEF Update
  <2> QED
    BY <1>3, <2>1, <2>2, <2>3, CallKeeps DEF Update
<1>4. ASSUME NEW project \in Project \cup {NoProject}, Label(s, b, project)
      PROVE  ClaimsIInv'
  <2>1. Exists(b) /\ [rows[b] EXCEPT !.project = project] \in ClaimRow
    BY <1>4, RowOf DEF Label, ClaimRow
  <2>2. rows' = [rows EXCEPT ![b] = [rows[b] EXCEPT !.project = project]]
    BY <1>4 DEF Label, Call, Write
  <2>3. \A a \in Agent : ~Gains(a)
    BY <2>1, <2>2, NoGain, RowOf DEF ClaimRow
  <2> QED
    BY <1>0, <1>4, <2>1, <2>3, CallKeeps DEF Label
<1>5. ASSUME NEW project \in Project \cup {NoProject}, NEW assignee \in Agent \cup {NoAgent}, NEW force \in BOOLEAN,
             Create(s, b, project, assignee, force)
      PROVE  ClaimsIInv'
  <2> DEFINE row == [status |-> "open", assignee |-> assignee, project |-> project]
  <2>1. row \in ClaimRow /\ row.status # "in_progress"
    BY DEF ClaimRow
  <2>2. rows' = [rows EXCEPT ![b] = row]
    BY <1>5 DEF Create, Call, Write
  <2>3. Call(s, b, row) /\ UNCHANGED excused
    BY <1>5 DEF Create
  <2> HIDE DEF row
  <2>4. \A a \in Agent : ~Gains(a)
    BY <2>1, <2>2, NoGain
  <2> QED
    BY <1>0, <2>1, <2>3, <2>4, CallKeeps
<1> QED
  BY <1>2, <1>3, <1>4, <1>5

\* The commands that close what they have seen, whatever became of it since.
LEMMA LateClosesKeep ==
  ASSUME ClaimsIInv, NEW s \in Session, DoneClose(s) \/ CloseOrphan(s)
  PROVE  ClaimsIInv'
<1>0. excused \subseteq Agent /\ commands \in 0..MaxCommands /\ cmd[s] \in Command \cup {Idle}
  BY DEF ClaimsIInv, ClaimsTypeOK
<1>1. ASSUME NEW b \in Bead, Exists(b), NEW next \in Command \cup {Idle},
             next # Idle => next.op = "orphans" /\ \A c \in next.todo : Exists(c),
             Write(s, b, Patched(rows[b], "closed", Keep), next), UNCHANGED <<commands, excused>>
      PROVE  ClaimsIInv'
  <2>1. Patched(rows[b], "closed", Keep) \in ClaimRow /\ Patched(rows[b], "closed", Keep).status = "closed"
    BY <1>1, RowOf, PatchedType DEF Keep
  <2>2. rows' = [rows EXCEPT ![b] = Patched(rows[b], "closed", Keep)]
    BY <1>1 DEF Write
  <2>3. \A a \in Agent : ~Gains(a)
    BY <2>1, <2>2, NoGain
  <2> QED
    BY <1>0, <1>1, <2>1, <2>3, ClaimsWriteKeeps
<1>2. ASSUME DoneClose(s) PROVE ClaimsIInv'
  <2>1. Exists(cmd[s].bead) /\ cmd[s].bead \in Bead
    BY <1>0, <1>2 DEF DoneClose, ClaimsIInv, CommandsHold, Command
  <2>2. CASE Goes(s, Idle)
    BY <1>0, <1>2, <2>2, GoesKeeps DEF DoneClose
  <2> QED
    BY <1>1, <1>2, <2>1, <2>2 DEF DoneClose
<1>3. ASSUME CloseOrphan(s) PROVE ClaimsIInv'
  <2>1. PICK b \in cmd[s].todo :
          LET next == [cmd[s] EXCEPT !.todo = @ \ {b}]
          IN Write(s, b, Patched(rows[b], "closed", Keep), next) \/ Goes(s, next)
    BY <1>3 DEF CloseOrphan
  <2> DEFINE next == [cmd[s] EXCEPT !.todo = @ \ {b}]
  <2>2. cmd[s] # Idle /\ cmd[s].op = "orphans" /\ cmd[s] \in [op : {"orphans"}, todo : SUBSET Bead]
    BY <1>0, <1>3 DEF CloseOrphan, Command
  <2>3. \A c \in cmd[s].todo : Exists(c) /\ c \in Bead
    BY <2>2 DEF ClaimsIInv, CommandsHold
  <2>4. next \in Command /\ next.op = "orphans" /\ \A c \in next.todo : Exists(c)
    BY <2>2, <2>3 DEF Command
  <2>5. Write(s, b, Patched(rows[b], "closed", Keep), next) \/ Goes(s, next)
    BY <2>1
  <2> HIDE DEF next
  <2>6. UNCHANGED <<commands, excused>>
    BY <1>3 DEF CloseOrphan
  <2>7. CASE Goes(s, next)
    BY <1>0, <2>4, <2>6, <2>7, GoesKeeps
  <2> QED
    BY <1>1, <2>1, <2>3, <2>4, <2>5, <2>6, <2>7
<1> QED
  BY <1>2, <1>3

-----------------------------------------------------------------------------
(* claim.                                                                  *)

\* A list that is not cut short shows every issue in progress.
LEMMA ListShowsAll ==
  ASSUME NEW a, NEW L \in Listed(a), ~Crowded(a), \A b \in L : ~IsIssue(b)
  PROVE  Claimed(a) = {}
<1>1. L \subseteq InProgress(a) /\ IsFiniteSet(InProgress(a))
  BY ClaimedFinite DEF Listed
<1>2. Cardinality(InProgress(a)) \in Nat /\ Cardinality(L) = Cardinality(InProgress(a))
  BY <1>1, FS_CardinalityType, ClaimsAssumption DEF Listed, Crowded
<1>3. L = InProgress(a)
  BY <1>1, <1>2, FS_Subset
<1> QED
  BY <1>3 DEF Claimed, InProgress

\* What a claim under way looks like.
LEMMA ClaimCommand ==
  ASSUME ClaimsIInv, NEW s \in Session, cmd[s] # Idle, cmd[s].op = "claim"
  PROVE  cmd[s] \in [op : {"claim"}, bead : Bead, at : {"list", "epic", "project", "update"},
                     checked : BOOLEAN, alone : BOOLEAN]
BY DEF ClaimsIInv, ClaimsTypeOK, Command

\* The three checks of a claim leave it checked only if its agent had no issue.
LEMMA ChecksKeep ==
  ASSUME ClaimsIInv, NEW s \in Session, CheckNoClaimed(s) \/ CheckNotEpic(s) \/ CheckProjectMatch(s)
  PROVE  ClaimsIInv'
<1>0. cmd[s] # Idle /\ cmd[s].op = "claim" /\ UNCHANGED <<commands, excused>> /\ commands \in 0..MaxCommands
  BY DEF CheckNoClaimed, CheckNotEpic, CheckProjectMatch, At, ClaimsIInv, ClaimsTypeOK
<1>1. ASSUME NEW at \in {"epic", "project", "update"}, NEW checked \in BOOLEAN,
             checked /\ cmd[s].alone => Claimed(Actor[s]) = {},
             Goes(s, [cmd[s] EXCEPT !.at = at, !.checked = checked])
      PROVE  ClaimsIInv'
  <2> DEFINE next == [cmd[s] EXCEPT !.at = at, !.checked = checked]
  <2>1. next \in Command /\ next.op = "claim" /\ next.checked = checked /\ next.alone = cmd[s].alone
    BY <1>0, ClaimCommand DEF Command
  <2>2. Goes(s, next)
    BY <1>1
  <2> HIDE DEF next
  <2> QED
    BY <1>0, <1>1, <2>1, <2>2, GoesKeeps
<1>2. ASSUME NEW at \in {"epic", "project", "update"}, Goes(s, [cmd[s] EXCEPT !.at = at]) PROVE ClaimsIInv'
  <2>1. cmd[s].checked \in BOOLEAN /\ (cmd[s].checked /\ cmd[s].alone => Claimed(Actor[s]) = {})
    BY <1>0, ClaimCommand DEF ClaimsIInv, CommandsHold
  <2>2. [cmd[s] EXCEPT !.at = at] = [cmd[s] EXCEPT !.at = at, !.checked = cmd[s].checked]
    BY <1>0, ClaimCommand
  <2> QED
    BY <1>1, <1>2, <2>1, <2>2
<1>3. ASSUME Goes(s, Idle) PROVE ClaimsIInv'
  BY <1>0, <1>3, GoesKeeps
<1>4. ASSUME CheckNoClaimed(s) PROVE ClaimsIInv'
  <2>1. CASE \E L \in Listed(Actor[s]) :
               /\ \A b \in L : ~IsIssue(b)
               /\ Goes(s, [cmd[s] EXCEPT !.at = "epic", !.checked = ~Crowded(Actor[s])])
    <3>1. PICK L \in Listed(Actor[s]) :
               /\ \A b \in L : ~IsIssue(b)
               /\ Goes(s, [cmd[s] EXCEPT !.at = "epic", !.checked = ~Crowded(Actor[s])])
      BY <2>1
    <3>2. ~Crowded(Actor[s]) => Claimed(Actor[s]) = {}
      BY <3>1, ListShowsAll
    <3> QED
      BY <1>1, <3>1, <3>2
  <2> QED
    BY <1>2, <1>3, <1>4, <2>1 DEF CheckNoClaimed
<1>5. ASSUME CheckNotEpic(s) \/ CheckProjectMatch(s) PROVE ClaimsIInv'
  BY <1>2, <1>3, <1>5 DEF CheckNotEpic, CheckProjectMatch
<1> QED
  BY <1>4, <1>5

\* The claim itself: an agent that was checked and not raced gets its only issue.
LEMMA ClaimUpdateKeeps ==
  ASSUME ClaimsIInv, NEW s \in Session, ClaimUpdate(s)
  PROVE  ClaimsIInv'
<1> DEFINE b == cmd[s].bead
           a == Actor[s]
           row == Patched(rows[b], "in_progress", a)
<1>0. /\ cmd[s] # Idle /\ cmd[s].op = "claim" /\ UNCHANGED commands
      /\ commands \in 0..MaxCommands /\ excused \subseteq Agent /\ a \in Agent
  BY ClaimsAssumption DEF ClaimUpdate, At, ClaimsIInv, ClaimsTypeOK
<1>1. CASE Goes(s, Idle) /\ UNCHANGED excused
  BY <1>0, <1>1, GoesKeeps
<1>2. CASE /\ Exists(b) /\ Write(s, b, row, Idle)
           /\ excused' = IF cmd[s].checked /\ cmd[s].alone THEN excused ELSE excused \cup {a}
  <2>1. b \in Bead
    BY <1>0, ClaimCommand
  <2>2. row \in ClaimRow
    BY <1>0, <1>2, <2>1, RowOf, PatchedType
  <2>3. rows' = [rows EXCEPT ![b] = row]
    BY <1>2 DEF Write
  <2>3a. ASSUME NEW c \in Agent
         PROVE  Claimed(c)' \subseteq Claimed(c) \cup {b} /\ (row.assignee # c => ~Gains(c))
    <3> HIDE DEF b, row
    <3> QED
      BY <2>1, <2>2, <2>3, GainOne
  <2>3b. Claimed(a)' \subseteq Claimed(a) \cup {b}
    BY <1>0, <2>3a
  <2>4. ASSUME NEW c \in Agent, Gains(c) PROVE c \in excused' \/ AtMostOne(Claimed(c)')
    <3>1. row.assignee = c
      BY <2>3a, <2>4
    <3>2. c = a
      <4>1. rows[b] \in ClaimRow /\ a # Keep
        BY <1>0, <1>2, <2>1, RowOf, ClaimsAssumption
      <4> DEFINE old == rows[b]
      <4>2. old \in ClaimRow /\ a \in Agent /\ a # Keep
        BY <1>0, <4>1
      <4> HIDE DEF a, old
      <4>3. Patched(old, "in_progress", a).assignee = a
        BY <4>2, PatchedType
      <4> QED
        BY <3>1, <4>3 DEF old
    <3>4. c = a => c \in excused' \/ AtMostOne(Claimed(c)')
      <4>1. CASE cmd[s].checked /\ cmd[s].alone
        BY <1>0, <2>3b, <4>1 DEF ClaimsIInv, CommandsHold, AtMostOne
      <4>2. CASE ~(cmd[s].checked /\ cmd[s].alone)
        BY <1>2, <4>2
      <4> QED
        BY <4>1, <4>2
    <3> QED
      BY <3>2, <3>4
  <2> QED
    BY <1>0, <1>2, <2>1, <2>2, <2>4, ClaimsWriteKeeps
<1> QED
  BY <1>1, <1>2 DEF ClaimUpdate

\* Commands that only begin, or end, leave the beads alone.
LEMMA StartsKeep ==
  ASSUME ClaimsIInv, NEW s \in Session,
         \/ Orphans(s) \/ EndOrphans(s)
         \/ \E b \in Bead : DoneComment(s, b) \/ \E force \in BOOLEAN : Claim(s, b, force)
  PROVE  ClaimsIInv'
<1>0. commands \in 0..MaxCommands /\ (commands < MaxCommands => commands + 1 \in 0..MaxCommands)
  BY ClaimsAssumption DEF ClaimsIInv, ClaimsTypeOK
<1>1. CASE Orphans(s)
  <2>1. [op |-> "orphans", todo |-> {b \in Referenced : Open(b)}] \in Command
    BY ClaimsAssumption DEF Command
  <2> QED
    BY <1>0, <1>1, <2>1, GoesKeeps DEF Orphans, Open
<1>2. CASE EndOrphans(s)
  BY <1>0, <1>2, GoesKeeps DEF EndOrphans
<1>3. ASSUME NEW b \in Bead, DoneComment(s, b) PROVE ClaimsIInv'
  <2>1. [op |-> "done", bead |-> b] \in Command
    BY DEF Command
  <2> QED
    BY <1>0, <1>3, <2>1, GoesKeeps DEF DoneComment
<1>4. ASSUME NEW b \in Bead, NEW force \in BOOLEAN, Claim(s, b, force) PROVE ClaimsIInv'
  <2> DEFINE next == [op |-> "claim", bead |-> b, at |-> IF force THEN "update" ELSE "list",
                      checked |-> FALSE, alone |-> TRUE]
  <2>1. next \in Command /\ next.op = "claim" /\ ~next.checked
    BY DEF Command
  <2>2. Goes(s, next) /\ commands' \in 0..MaxCommands /\ UNCHANGED excused
    BY <1>0, <1>4 DEF Claim
  <2> HIDE DEF next
  <2> QED
    BY <2>1, <2>2, GoesKeeps
<1> QED
  BY <1>1, <1>2, <1>3, <1>4

\* Every step of a command keeps what the commands under way rely on.
LEMMA ClaimsStep == ClaimsIInv /\ [ClaimsNext]_claimVars => ClaimsIInv'
<1>1. ClaimsIInv /\ UNCHANGED claimVars => ClaimsIInv'
  BY DEF claimVars, ClaimsIInv, ClaimsTypeOK, CommandsHold, Claimed, Exists, AtMostOne
<1>2. ClaimsIInv /\ ClaimsNext => ClaimsIInv'
  <2> SUFFICES ASSUME ClaimsIInv, ClaimsNext PROVE ClaimsIInv'
    OBVIOUS
  <2> QED
    BY OneCallKeeps, LateClosesKeep, ChecksKeep, ClaimUpdateKeeps, StartsKeep DEF ClaimsNext
<1> QED
  BY <1>1, <1>2

\* At most one claim, for those that are not excused, is the promise.
LEMMA ClaimsPromise == ClaimsIInv => ClaimsTypeOK /\ OneClaim
BY ClaimedFinite, OneMeansOne DEF ClaimsIInv, OneClaim

\* "Agents should claim at most one actionable bead at a time": whatever commands run at
\* once, an agent that is not excused has at most one issue in progress (claimCmd
\* checks with one call and claims with another).
THEOREM ClaimsOneClaim == ClaimsSpec => []OneClaim
BY ClaimsInitIInv, ClaimsStep, ClaimsPromise, PTL DEF ClaimsSpec

-----------------------------------------------------------------------------
(* Jacks.                                                                  *)

\* A fresh copy differs from the jack by what its command adds.
Follows(w) ==
  /\ jack.fields.changes \subseteq w.new.changes
  /\ w.op = "extend" => w.new.count = jack.fields.count + 1 /\ w.new.cumulative = jack.fields.cumulative + w.ttl
  /\ w.op # "extend" => w.new.count = jack.fields.count /\ w.new.cumulative = jack.fields.cumulative

\* A command between its read and its write holds a copy of a jack that exists.
CopiesFollow ==
  \A r \in Runner : run[r] # Resting =>
    /\ JackExists
    /\ run[r] \in Writing /\ run[r].fresh => Follows(run[r])

\* Without a race the fields count what was given.
FieldsCount ==
  /\ JackExists => /\ logged \subseteq jack.fields.changes
                   /\ ~raced => granted = jack.fields.count /\ grantedTTL = jack.fields.cumulative
  /\ ~JackExists => logged = {} /\ (~raced => granted = 0 /\ grantedTTL = 0)

\* What carries the record: the copies and the history are in step with the jack.
JacksIInv == JacksTypeOK /\ CopiesFollow /\ FieldsCount

\* No jack, no command and an empty history.
LEMMA JacksInitIInv == JacksInit => JacksIInv
<1> SUFFICES ASSUME JacksInit PROVE JacksIInv
  OBVIOUS
<1>1. \A r \in Runner : run[r] = Resting
  BY DEF JacksInit
<1> QED
  BY <1>1 DEF JacksInit, JacksIInv, JacksTypeOK, CopiesFollow, FieldsCount, JackExists

\* The invariant says what the record is to keep.
LEMMA JacksRecorded == JacksIInv => JackKeepsRecord
BY JacksAssumption DEF JacksIInv, JacksTypeOK, FieldsCount, JackKeepsRecord, JackBead, Fields, JackExists

\* What a writing command holds.
LEMMA WritingIs ==
  ASSUME NEW w \in Writing
  PROVE  /\ w.new \in Fields /\ w.ttl \in Nat /\ w.fresh \in BOOLEAN /\ w # Resting
         /\ [w EXCEPT !.fresh = FALSE] \in Writing /\ ~[w EXCEPT !.fresh = FALSE].fresh
BY JacksAssumption DEF Writing, Running

\* kd jack up finds no jack, so that no copy is held by anybody.
LEMMA UpKeeps ==
  ASSUME JacksIInv, NEW r \in Runner, NEW ttl \in TTL, Up(r, ttl)
  PROVE  JacksIInv'
<1>1. NewFields(ttl) \in Fields
  BY JacksAssumption DEF NewFields, Fields, Up
<1>2. jack' \in JackBead /\ jack'.fields = NewFields(ttl)
  BY <1>1 DEF Up, JackBead
<1>3. \A q \in Runner : run[q] = Resting
  BY DEF Up, JacksIInv, CopiesFollow, JackExists
<1>4. run' \in [Runner -> Running \cup {Resting}]
  BY <1>3 DEF Up, JacksIInv, JacksTypeOK, Running
<1>5. \A q \in Runner : run'[q] \notin Writing
  BY <1>3, JacksAssumption DEF Up, JacksIInv, JacksTypeOK, Running, Writing
<1>6. JackExists'
  BY <1>2, JacksAssumption DEF JackExists
<1> QED
  BY <1>1, <1>2, <1>4, <1>5, <1>6, JacksAssumption
  DEF Up, JacksIInv, JacksTypeOK, CopiesFollow, FieldsCount, JackExists, NewFields

\* A write of the jack by r makes every copy of the others stale.
LEMMA JackStored ==
  ASSUME JacksIInv, NEW r \in Runner, JackExists,
         NEW bead \in JackBead, NEW next \in [op : {"activate", "close"}] \cup {Resting}, Stored(r, bead, next)
  PROVE  /\ jack' = bead /\ JackExists'
         /\ run' \in [Runner -> Running \cup {Resting}]
         /\ CopiesFollow'
<1>1. jack' = bead /\ JackExists'
  BY JacksAssumption DEF Stored, JackExists
<1>2. next \in Running \cup {Resting} /\ next \notin Writing
  BY JacksAssumption DEF Running, Writing
<1>3. \A q \in Runner : run'[q] \in Running \cup {Resting} /\ (run'[q] \in Writing => ~run'[q].fresh)
  <2> SUFFICES ASSUME NEW q \in Runner
               PROVE  run'[q] \in Running \cup {Resting} /\ (run'[q] \in Writing => ~run'[q].fresh)
    OBVIOUS
  <2>1. CASE q = r
    BY <2>1, <1>2 DEF Stored
  <2>2. CASE q # r /\ run[q] \in Writing
    BY <2>2, WritingIs DEF Stored, Running
  <2>3. CASE q # r /\ run[q] \notin Writing
    BY <2>3 DEF Stored, JacksIInv, JacksTypeOK
  <2> QED
    BY <2>1, <2>2, <2>3
<1>4. run' \in [Runner -> Running \cup {Resting}]
  BY <1>3 DEF Stored
<1> QED
  BY <1>1, <1>3, <1>4 DEF CopiesFollow

\* Activating and closing write the status only.
LEMMA StatusKeeps ==
  ASSUME JacksIInv, NEW r \in Runner, Activate(r) \/ CloseJack(r)
  PROVE  JacksIInv'
<1>1. JackExists /\ jack \in JackBead /\ UNCHANGED jackHistory
  BY JacksAssumption DEF Activate, CloseJack, JacksIInv, JacksTypeOK, CopiesFollow, JackExists, Running
<1>2. ASSUME Rests(r), UNCHANGED jack PROVE JacksIInv'
  BY <1>1, <1>2, JacksAssumption DEF Rests, JacksIInv, JacksTypeOK, CopiesFollow, FieldsCount, JackExists, Follows, jackHistory
<1>3. ASSUME NEW st \in {"in_progress", "closed"}, Stored(r, [jack EXCEPT !.status = st], Resting) PROVE JacksIInv'
  <2>1. [jack EXCEPT !.status = st] \in JackBead /\ [jack EXCEPT !.status = st].fields = jack.fields
    BY <1>1 DEF JackBead
  <2>2. /\ jack' = [jack EXCEPT !.status = st] /\ JackExists'
        /\ run' \in [Runner -> Running \cup {Resting}] /\ CopiesFollow'
    BY <1>1, <1>3, <2>1, JackStored
  <2> QED
    BY <1>1, <2>1, <2>2 DEF JacksIInv, JacksTypeOK, FieldsCount, jackHistory
<1> QED
  BY <1>2, <1>3 DEF Activate, CloseJack

\* What a command makes of the fields it has read.
LEMMA ReadsKeeps ==
  ASSUME JacksIInv, JackExists, NEW r \in Runner, NEW op \in {"log", "extend", "down", "check"},
         NEW new \in Fields, NEW ttl \in TTL, Reads(r, op, new, ttl),
         Follows([op |-> op, new |-> new, ttl |-> ttl, fresh |-> TRUE])
  PROVE  JacksIInv'
<1> DEFINE w == [op |-> op, new |-> new, ttl |-> ttl, fresh |-> TRUE]
<1>1. w \in Writing
  BY DEF Writing
<1>2. run' = [run EXCEPT ![r] = w] /\ UNCHANGED <<jack, jackHistory>>
  BY DEF Reads
<1> HIDE DEF w
<1>3. Follows(w)
  BY DEF w
<1> QED
  BY <1>1, <1>2, <1>3 DEF JacksIInv, JacksTypeOK, CopiesFollow, FieldsCount, JackExists, Follows, Running, jackHistory

\* log, extend, down and check read the jack and go on with a copy.
LEMMA CommandsKeep ==
  ASSUME JacksIInv, NEW r \in Runner,
         Check(r) \/ Down(r) \/ (\E ttl \in TTL : Extend(r, ttl)) \/ (\E c \in Change : Log(r, c))
  PROVE  JacksIInv'
<1>1. JackExists /\ jack.fields \in Fields /\ ZeroTTL \in TTL
  <2>1. JackExists
    BY DEF Check, Down, Extend, Log, NotClosed
  <2>2. ZeroTTL \in TTL
    BY JacksAssumption DEF ZeroTTL
  <2> QED
    BY <2>1, <2>2 DEF JacksIInv, JacksTypeOK, JackExists, JackBead
<1>2. CASE Check(r)
  <2>1. /\ [jack.fields EXCEPT !.escalated = TRUE] \in Fields
        /\ Follows([op |-> "check", new |-> [jack.fields EXCEPT !.escalated = TRUE], ttl |-> ZeroTTL, fresh |-> TRUE])
    BY <1>1 DEF Fields, Follows
  <2> QED
    BY <1>1, <1>2, <2>1, ReadsKeeps DEF Check
<1>3. CASE Down(r)
  <2>1. Follows([op |-> "down", new |-> jack.fields, ttl |-> ZeroTTL, fresh |-> TRUE])
    BY <1>1 DEF Fields, Follows
  <2> QED
    BY <1>1, <1>3, <2>1, ReadsKeeps DEF Down
<1>4. ASSUME NEW ttl \in TTL, Extend(r, ttl) PROVE JacksIInv'
  <2> DEFINE new == [jack.fields EXCEPT !.left = ttl, !.count = @ + 1, !.cumulative = @ + ttl]
  <2>1. new \in Fields
    <3>1. ttl \in 0..MaxTTL /\ jack.fields.count + 1 \in 0..MaxExtensions /\ jack.fields.cumulative + ttl \in 0..MaxTTL
      <4>1. jack.fields.count < MaxExtensions /\ jack.fields.cumulative + ttl <= MaxTTL
        BY <1>4 DEF Extend
      <4>2. jack.fields.count \in Nat /\ jack.fields.cumulative \in Nat /\ ttl \in Nat
        BY <1>1, JacksAssumption DEF Fields
      <4> QED
        BY <4>1, <4>2, JacksAssumption
    <3> QED
      BY <1>1, <3>1 DEF Fields
  <2>2. Follows([op |-> "extend", new |-> new, ttl |-> ttl, fresh |-> TRUE])
    BY <1>1 DEF Fields, Follows
  <2>3. Reads(r, "extend", new, ttl)
    BY <1>4 DEF Extend
  <2> QED
    BY <1>1, <2>1, <2>2, <2>3, ReadsKeeps
<1>5. ASSUME NEW c \in Change, Log(r, c) PROVE JacksIInv'
  <2>1. /\ [jack.fields EXCEPT !.changes = @ \cup {c}] \in Fields
        /\ Follows([op |-> "log", new |-> [jack.fields EXCEPT !.changes = @ \cup {c}], ttl |-> ZeroTTL, fresh |-> TRUE])
    BY <1>1 DEF Fields, Follows
  <2> QED
    BY <1>1, <1>5, <2>1, ReadsKeeps DEF Log
<1> QED
  BY <1>2, <1>3, <1>4, <1>5

\* Writing a fresh copy adds what the command adds; writing a stale one is a race.
LEMMA WriteFieldsKeeps ==
  ASSUME JacksIInv, NEW r \in Runner, WriteFields(r)
  PROVE  JacksIInv'
<1> DEFINE w == run[r]
<1>1. w \in Writing /\ JackExists /\ (w.fresh => Follows(w)) /\ jack \in JackBead
  BY WritingIs DEF WriteFields, JacksIInv, JacksTypeOK, CopiesFollow, JackExists
<1>2. w.new \in Fields /\ w.ttl \in Nat /\ w.fresh \in BOOLEAN
  BY <1>1, WritingIs
<1>3. [jack EXCEPT !.fields = w.new] \in JackBead
  BY <1>1, <1>2 DEF JackBead
<1>4. PICK next \in [op : {"activate", "close"}] \cup {Resting} : Stored(r, [jack EXCEPT !.fields = w.new], next)
  BY DEF WriteFields
<1>5. /\ jack' = [jack EXCEPT !.fields = w.new] /\ JackExists'
      /\ run' \in [Runner -> Running \cup {Resting}] /\ CopiesFollow'
  BY <1>1, <1>3, <1>4, JackStored
<1>6. jack'.fields = w.new
  BY <1>1, <1>5 DEF JackBead
<1>7. Noted(w)
  BY DEF WriteFields
<1>8. /\ logged' \subseteq w.new.changes /\ logged' \subseteq Change
      /\ raced' \in BOOLEAN /\ granted' \in Nat /\ grantedTTL' \in Nat
      /\ ~raced' => granted' = w.new.count /\ grantedTTL' = w.new.cumulative
  <2> HIDE DEF w
  <2>1. logged \subseteq jack.fields.changes /\ logged \subseteq Change /\ w.new.changes \subseteq Change
    BY <1>1, <1>2 DEF JacksIInv, JacksTypeOK, FieldsCount, Fields
  <2>2. logged' \subseteq w.new.changes /\ logged' \subseteq Change
    BY <1>1, <1>2, <1>7, <2>1 DEF Noted, Follows
  <2>3. raced' \in BOOLEAN /\ raced' = (raced \/ ~w.fresh)
    BY <1>2, <1>7 DEF Noted, JacksIInv, JacksTypeOK
  <2>4. CASE raced'
    BY <2>2, <2>3, <2>4, <1>7 DEF Noted
  <2>5. CASE ~raced'
    <3>1. Follows(w) /\ ~raced
      BY <1>1, <1>2, <2>3, <2>5 DEF JacksIInv, JacksTypeOK
    <3>2. granted = jack.fields.count /\ grantedTTL = jack.fields.cumulative /\ granted \in Nat /\ grantedTTL \in Nat
      BY <1>1, <3>1 DEF JacksIInv, JacksTypeOK, FieldsCount
    <3>3. /\ granted' = IF w.op = "extend" THEN granted + 1 ELSE granted
          /\ grantedTTL' = IF w.op = "extend" THEN grantedTTL + w.ttl ELSE grantedTTL
      BY <1>7, <2>5 DEF Noted
    <3> QED
      BY <1>2, <2>2, <2>3, <3>1, <3>2, <3>3 DEF Follows
  <2> QED
    BY <2>3, <2>4, <2>5
<1> QED
  BY <1>3, <1>5, <1>6, <1>8 DEF JacksIInv, JacksTypeOK, FieldsCount

\* A call that fails ends its command.
LEMMA CallFailsKeeps ==
  ASSUME JacksIInv, NEW r \in Runner, CallFails(r)
  PROVE  JacksIInv'
BY JacksAssumption DEF CallFails, Rests, JacksIInv, JacksTypeOK, CopiesFollow, FieldsCount, JackExists, Follows, jackHistory

\* Time takes from what is left of the jack, and from nothing else.
LEMMA TickKeeps ==
  ASSUME JacksIInv, JackTick
  PROVE  JacksIInv'
<1>1. JackExists /\ jack \in JackBead /\ jack.fields \in Fields
  BY DEF JackTick, JacksIInv, JacksTypeOK, JackExists, JackBead
<1>2. \A n \in 0..MaxTTL : Sooner(n) \in 0..MaxTTL
  BY JacksAssumption DEF Sooner
<1>3. jack' = [jack EXCEPT !.fields = [jack.fields EXCEPT !.left = Sooner(@)]]
  BY <1>1 DEF JackTick, JackBead
<1>4. [jack.fields EXCEPT !.left = Sooner(@)] \in Fields
  BY <1>1, <1>2 DEF Fields
<1>5. /\ jack' \in JackBead /\ JackExists'
      /\ jack'.fields.changes = jack.fields.changes /\ jack'.fields.count = jack.fields.count
      /\ jack'.fields.cumulative = jack.fields.cumulative
  BY <1>1, <1>3, <1>4, JacksAssumption DEF JackBead, Fields, JackExists
<1>6. ASSUME NEW w \in Writing
      PROVE  LET x == [w EXCEPT !.new.left = Sooner(@)]
             IN /\ x \in Writing /\ x.fresh = w.fresh /\ x.op = w.op /\ x.ttl = w.ttl
                /\ x.new.changes = w.new.changes /\ x.new.count = w.new.count /\ x.new.cumulative = w.new.cumulative
  <2>1. w.new \in Fields
    BY DEF Writing
  <2>2. [w.new EXCEPT !.left = Sooner(@)] \in Fields
    BY <1>2, <2>1 DEF Fields
  <2> QED
    BY <2>1, <2>2 DEF Writing, Fields
<1>7. \A q \in Runner :
        /\ run'[q] \in Running \cup {Resting}
        /\ run'[q] # Resting => run[q] # Resting
        /\ (run[q] \in Writing /\ run[q].fresh => Follows(run[q]))'
  <2> SUFFICES ASSUME NEW q \in Runner
               PROVE  /\ run'[q] \in Running \cup {Resting}
                      /\ run'[q] # Resting => run[q] # Resting
                      /\ (run[q] \in Writing /\ run[q].fresh => Follows(run[q]))'
    OBVIOUS
  <2>1. CASE run[q] \in Writing
    <3>1. run'[q] = [run[q] EXCEPT !.new.left = Sooner(@)]
      BY <2>1 DEF JackTick
    <3>2. /\ run'[q] \in Writing /\ run'[q].fresh = run[q].fresh /\ run'[q].op = run[q].op /\ run'[q].ttl = run[q].ttl
          /\ run'[q].new.changes = run[q].new.changes /\ run'[q].new.count = run[q].new.count
          /\ run'[q].new.cumulative = run[q].new.cumulative
      BY <1>6, <2>1, <3>1
    <3>3. run[q] # Resting /\ (run[q].fresh => Follows(run[q]))
      BY <2>1, WritingIs DEF JacksIInv, CopiesFollow
    <3> QED
      BY <1>5, <3>2, <3>3 DEF Follows, Running
  <2>2. CASE run[q] \notin Writing
    BY <2>2 DEF JackTick, JacksIInv, JacksTypeOK
  <2> QED
    BY <2>1, <2>2
<1>8. run' \in [Runner -> Running \cup {Resting}]
  BY <1>7 DEF JackTick
<1> QED
  BY <1>1, <1>5, <1>7, <1>8 DEF JackTick, JacksIInv, JacksTypeOK, CopiesFollow, FieldsCount, JackExists, jackHistory

\* Every step keeps the copies and the history in step with the jack.
LEMMA JacksStep == JacksIInv /\ [JacksNext]_jackVars => JacksIInv'
<1>1. JacksIInv /\ UNCHANGED jackVars => JacksIInv'
  BY DEF jackVars, jackHistory, JacksIInv, JacksTypeOK, CopiesFollow, FieldsCount, JackExists, Follows
<1>2. JacksIInv /\ JacksNext => JacksIInv'
  BY UpKeeps, StatusKeeps, CommandsKeep, WriteFieldsKeeps, CallFailsKeeps, TickKeeps DEF JacksNext
<1> QED
  BY <1>1, <1>2

\* As long as no stale copy is written back, changes stay in the log and the limits of
\* extensions hold for what was really given (kd jack's read-modify-write of the fields).
THEOREM JacksKeepRecord == JacksSpec => []JackKeepsRecord
BY JacksInitIInv, JacksStep, JacksRecorded, PTL DEF JacksSpec

-----------------------------------------------------------------------------
(* Decisions.                                                              *)

\* What a closed row, an answer about to close one and a copy of a closed row
\* have in common: the row shows an outcome, or its want is excused.
DecidedOnceClosed ==
  decision.status = "closed" \/ (\E r \in Responder :
       \/ Is(r, "close") /\ request[r].answers
       \/ (Is(r, "write") \/ Is(r, "put")) /\ request[r].row.status = "closed")
    => Decided(decision) \/ excuse

\* A request that has read the row holds a copy of it.
HoldsRow ==
  \A r \in Responder : Is(r, "write") \/ Is(r, "put") => request[r].row \in DecisionRow

\* What carries it.
DecisionsIInv == DecisionsTypeOK /\ HoldsRow /\ DecidedOnceClosed

\* Each request has the fields of its place.
LEMMA RequestAt ==
  ASSUME DecisionsTypeOK, NEW r \in Responder, request[r] # NoRequest
  PROVE  /\ request[r].at \in {"read", "write"} => request[r] \in Merging
         /\ request[r].at = "close" => request[r] \in Closing
         /\ request[r].at \in {"get", "put"} => request[r] \in Updating
BY DEF DecisionsTypeOK, Request, Merging, Closing, Updating

\* Merging into a row gives a row, which shows the fields set and not cleared.
LEMMA MergedRow ==
  ASSUME NEW row \in DecisionRow, NEW p \in Patches
  PROVE  /\ Merged(row, p) \in DecisionRow
         /\ p.sets \ p.clears # {} => Decided(Merged(row, p))
         /\ Merged(row, p).status = row.status
<1>1. (row.outcome \cup p.sets) \ p.clears \in SUBSET Field
  BY DEF DecisionRow, Patches
<1>2. Merged(row, p) = [status |-> row.status, outcome |-> (row.outcome \cup p.sets) \ p.clears]
  BY DEF Merged, DecisionRow
<1> QED
  BY <1>1, <1>2 DEF DecisionRow, Decided

\* An open decision, and no request.
LEMMA DecisionsInitIInv == DecisionsInit => DecisionsIInv
<1> SUFFICES ASSUME DecisionsInit PROVE DecisionsIInv
  OBVIOUS
<1>1. decision \in DecisionRow /\ decision.status = "open"
  BY DEF DecisionsInit, DecisionRow
<1>2. request \in [Responder -> {NoRequest}] /\ excuse = FALSE
  BY DEF DecisionsInit
<1>3. HoldsRow /\ DecidedOnceClosed
  BY <1>1, <1>2 DEF HoldsRow, DecidedOnceClosed, Is
<1> QED
  BY <1>1, <1>2, <1>3 DEF DecisionsIInv, DecisionsTypeOK

\* A request that begins holds no copy, and no answer is about to close the row.
LEMMA AskKeeps ==
  ASSUME DecisionsIInv, NEW r \in Responder,
         NEW q \in Request, q.at \in {"read", "get"} \/ (q.at = "close" /\ ~q.answers),
         Asks(r, q), UNCHANGED <<decision, excuse>>
  PROVE  DecisionsIInv'
<1>1. request' \in [Responder -> Request \cup {NoRequest}]
  BY DEF Asks, DecisionsIInv, DecisionsTypeOK
<1>2. HoldsRow'
  BY DEF Asks, DecisionsIInv, DecisionsTypeOK, HoldsRow, Is
<1>3. DecidedOnceClosed'
  BY DEF Asks, DecisionsIInv, DecisionsTypeOK, DecidedOnceClosed, Is, Decided
<1> QED
  BY <1>1, <1>2, <1>3 DEF DecisionsIInv, DecisionsTypeOK

\* So do resolve, cancel, close and update.
LEMMA AskDecisionKeeps ==
  ASSUME DecisionsIInv, NEW r \in Responder,
         AskResolve(r) \/ AskCancel(r) \/ AskClose(r) \/ AskUpdate(r)
  PROVE  DecisionsIInv'
<1>1. ASSUME NEW p \in Patches, Merge(r, p), UNCHANGED <<decision, excuse>> PROVE DecisionsIInv'
  <2>1. [at |-> "read", patch |-> p, row |-> Missing] \in Request
    BY DEF Request, Merging
  <2> QED
    BY <1>1, <2>1, AskKeeps DEF Merge
<1>2. CASE AskResolve(r)
  <2>1. PICK given \in SUBSET {"chosen", "response_text"} : Merge(r, [sets |-> given, clears |-> {}])
    BY <1>2 DEF AskResolve
  <2>2. [sets |-> given, clears |-> {}] \in Patches
    BY DEF Patches, Field
  <2> QED
    BY <1>1, <1>2, <2>1, <2>2 DEF AskResolve
<1>3. CASE AskCancel(r)
  <2>1. [sets |-> {"canceled"}, clears |-> {}] \in Patches
    BY DEF Patches, Field
  <2> QED
    BY <1>1, <1>3, <2>1 DEF AskCancel
<1>4. CASE AskClose(r)
  <2>1. [at |-> "close", answers |-> FALSE] \in Request
    BY DEF Request, Closing
  <2>2. CASE Asks(r, [at |-> "close", answers |-> FALSE])
    BY <1>4, <2>1, <2>2, AskKeeps DEF AskClose
  <2>3. CASE \E p \in Patch : Merge(r, p)
    BY <1>1, <1>4, <2>3, PatchAssumption DEF AskClose
  <2> QED
    BY <1>4, <2>2, <2>3 DEF AskClose
<1>5. CASE AskUpdate(r)
  <2>1. PICK p \in Patch \cup {NoPatch}, st \in {"open", "closed", "keep"} :
          Asks(r, [at |-> "get", patch |-> p, status |-> st, row |-> Missing])
    BY <1>5 DEF AskUpdate
  <2>2. p \in Patches
    BY PatchAssumption DEF NoPatch, Patches
  <2>3. [at |-> "get", patch |-> p, status |-> st, row |-> Missing] \in Request
    BY <2>2 DEF Request, Updating
  <2> QED
    BY <1>5, <2>1, <2>3, AskKeeps DEF AskUpdate
<1> QED
  BY <1>2, <1>3, <1>4, <1>5

\* The row is read: the copy is what the row is.
LEMMA ReadDecisionKeeps ==
  ASSUME DecisionsIInv, NEW r \in Responder, ReadDecision(r) \/ GetDecision(r)
  PROVE  DecisionsIInv'
<1>1. request[r] # NoRequest /\ decision \in DecisionRow
  BY DEF ReadDecision, GetDecision, Is, DecisionsIInv, DecisionsTypeOK
<1>2. PICK q \in Request : /\ request' = [request EXCEPT ![r] = q]
                           /\ q.row = decision /\ q.at \in {"write", "put"}
  <2>1. CASE ReadDecision(r)
    <3> DEFINE q == [request[r] EXCEPT !.at = "write", !.row = decision]
    <3>1. q \in Merging /\ q.row = decision /\ q.at = "write"
      BY <1>1, <2>1, RequestAt DEF ReadDecision, Is, Merging, DecisionsIInv
    <3>2. request' = [request EXCEPT ![r] = q]
      BY <1>1, <2>1 DEF ReadDecision, DecisionsIInv, DecisionsTypeOK
    <3> QED
      BY <3>1, <3>2 DEF Request
  <2>2. CASE GetDecision(r)
    <3> DEFINE q == [request[r] EXCEPT !.at = "put", !.row = decision]
    <3>1. q \in Updating /\ q.row = decision /\ q.at = "put"
      BY <1>1, <2>2, RequestAt DEF GetDecision, Is, Updating, DecisionsIInv
    <3>2. request' = [request EXCEPT ![r] = q]
      BY <1>1, <2>2 DEF GetDecision, DecisionsIInv, DecisionsTypeOK
    <3> QED
      BY <3>1, <3>2 DEF Request
  <2> QED
    BY <2>1, <2>2
<1>3. UNCHANGED <<decision, excuse>>
  BY DEF ReadDecision, GetDecision
<1>4. request' \in [Responder -> Request \cup {NoRequest}]
  BY <1>2 DEF DecisionsIInv, DecisionsTypeOK
<1>5. HoldsRow'
  BY <1>1, <1>2, <1>3 DEF DecisionsIInv, DecisionsTypeOK, HoldsRow, Is
<1>6. DecidedOnceClosed'
  BY <1>2, <1>3 DEF DecisionsIInv, DecisionsTypeOK, DecidedOnceClosed, Is, Decided
<1> QED
  BY <1>3, <1>4, <1>5, <1>6 DEF DecisionsIInv, DecisionsTypeOK

\* A request that goes on to close the row, or ends.
LEMMA MovesOn ==
  ASSUME DecisionsIInv, NEW r \in Responder, NEW q \in Closing \cup {NoRequest},
         request' = [request EXCEPT ![r] = q],
         decision' \in DecisionRow, excuse' \in BOOLEAN,
         q # NoRequest => (q.answers => Decided(decision')),
         decision'.status = "closed" => Decided(decision') \/ excuse',
         Decided(decision) \/ excuse => Decided(decision') \/ excuse'
  PROVE  DecisionsIInv'
<1>1. request' \in [Responder -> Request \cup {NoRequest}]
  BY DEF DecisionsIInv, DecisionsTypeOK, Request
<1>2. HoldsRow'
  BY DEF DecisionsIInv, DecisionsTypeOK, HoldsRow, Is, Closing
<1>3. DecidedOnceClosed'
  BY DEF DecisionsIInv, DecisionsTypeOK, DecidedOnceClosed, Is, Closing
<1> QED
  BY <1>1, <1>2, <1>3 DEF DecisionsIInv, DecisionsTypeOK

\* Writing the merged row: whatever was read, an answer's outcome is in it.
LEMMA WriteDecisionKeeps ==
  ASSUME DecisionsIInv, NEW r \in Responder, WriteDecision(r)
  PROVE  DecisionsIInv'
<1>1. request[r].row \in DecisionRow /\ request[r].patch \in Patches
  BY RequestAt DEF WriteDecision, Is, DecisionsIInv, HoldsRow, Merging
<1>2. decision' \in DecisionRow /\ decision'.status = request[r].row.status
  BY <1>1, MergedRow DEF WriteDecision
<1> DEFINE answers == request[r].patch.sets \ request[r].patch.clears # {}
<1>3. answers => Decided(decision')
  BY <1>1, MergedRow DEF WriteDecision
<1>4. [at |-> "close", answers |-> answers] \in Closing
  BY DEF Closing
<1>5. excuse' = (~Decided(decision') /\ (excuse \/ Decided(decision)))
  BY DEF WriteDecision, Excuse
<1>6. decision'.status = "closed" => Decided(decision) \/ excuse
  BY <1>2 DEF WriteDecision, DecisionsIInv, DecidedOnceClosed
<1>7. request' = [request EXCEPT ![r] = [at |-> "close", answers |-> answers]]
  BY DEF WriteDecision, Proceeds
<1> HIDE DEF answers
<1> QED
  BY <1>2, <1>3, <1>4, <1>5, <1>6, <1>7, MovesOn

\* Closing closes what shows an outcome; another's close is excused.
LEMMA CloseDecisionKeeps ==
  ASSUME DecisionsIInv, NEW r \in Responder, CloseDecision(r)
  PROVE  DecisionsIInv'
<1>1. request[r] \in Closing /\ request' = [request EXCEPT ![r] = NoRequest]
  BY RequestAt DEF CloseDecision, Ends, Is, DecisionsIInv
<1>2. CASE UNCHANGED <<decision, excuse>>
  <2>1. decision' \in DecisionRow /\ excuse' \in BOOLEAN /\ UNCHANGED Decided(decision)
    BY <1>2 DEF DecisionsIInv, DecisionsTypeOK, Decided
  <2>2. decision'.status = "closed" => Decided(decision') \/ excuse'
    BY <1>2 DEF DecisionsIInv, DecidedOnceClosed, Decided
  <2> QED
    BY <1>1, <1>2, <2>1, <2>2, MovesOn
<1>3. CASE decision' = [decision EXCEPT !.status = "closed"] /\ Excuse(~request[r].answers)
  <2>1. decision' \in DecisionRow /\ (Decided(decision') <=> Decided(decision))
    BY <1>3 DEF DecisionsIInv, DecisionsTypeOK, DecisionRow, Decided
  <2>2. request[r].answers \in BOOLEAN /\ (request[r].answers => Decided(decision) \/ excuse)
    BY <1>1 DEF CloseDecision, DecisionsIInv, DecidedOnceClosed, Closing
  <2>3. excuse' = (~Decided(decision') /\ (excuse \/ ~request[r].answers \/ Decided(decision)))
    BY <1>3 DEF Excuse
  <2>4. excuse' \in BOOLEAN /\ (decision'.status = "closed" => Decided(decision') \/ excuse')
        /\ (Decided(decision) \/ excuse => Decided(decision') \/ excuse')
    BY <2>1, <2>2, <2>3 DEF DecisionsIInv, DecisionsTypeOK
  <2> QED
    BY <1>1, <2>1, <2>4, MovesOn
<1> QED
  BY <1>2, <1>3 DEF CloseDecision

\* An update that writes its copy back is excused where it takes an outcome away.
LEMMA PutDecisionKeeps ==
  ASSUME DecisionsIInv, NEW r \in Responder, PutDecision(r)
  PROVE  DecisionsIInv'
<1> DEFINE q == request[r]
           row == Merged(q.row, q.patch)
<1>1. q.row \in DecisionRow /\ q \in Updating
  BY RequestAt DEF PutDecision, Is, DecisionsIInv, HoldsRow
<1>2. row \in DecisionRow /\ row.status = q.row.status
  BY <1>1, MergedRow DEF Updating
<1>3. decision' = [row EXCEPT !.status = IF q.status = "keep" THEN @ ELSE q.status]
  BY DEF PutDecision
<1>4. request' = [request EXCEPT ![r] = NoRequest]
  BY DEF PutDecision, Ends
<1>5. excuse' = (~Decided(decision') /\ (excuse \/ q.status = "closed" \/ Decided(decision)))
  BY DEF PutDecision, Excuse
<1>6. q.row.status = "closed" => Decided(decision) \/ excuse
  BY DEF PutDecision, DecisionsIInv, DecidedOnceClosed
<1>7. q.status \in {"open", "closed", "keep"}
  BY <1>1 DEF Updating
<1> HIDE DEF row, q
<1>8. decision' \in DecisionRow /\ (decision'.status = "closed" => q.status = "closed" \/ row.status = "closed")
  BY <1>2, <1>3, <1>7 DEF DecisionRow
<1>9. excuse' \in BOOLEAN /\ (decision'.status = "closed" => Decided(decision') \/ excuse')
      /\ (Decided(decision) \/ excuse => Decided(decision') \/ excuse')
  BY <1>2, <1>5, <1>6, <1>8 DEF DecisionsIInv, DecisionsTypeOK
<1> QED
  BY <1>4, <1>8, <1>9, MovesOn

\* Failed statements: the update ends, the merge is followed by the close.
LEMMA FailuresKeep ==
  ASSUME DecisionsIInv, NEW r \in Responder, MergeFails(r) \/ UpdateFails(r)
  PROVE  DecisionsIInv'
<1> DEFINE closes == [at |-> "close", answers |-> FALSE]
<1>1. closes \in Closing /\ ~closes.answers
  BY DEF Closing
<1>2. decision \in DecisionRow /\ excuse \in BOOLEAN /\ UNCHANGED <<decision, excuse>>
  BY DEF MergeFails, UpdateFails, DecisionsIInv, DecisionsTypeOK
<1>3. UNCHANGED Decided(decision) /\ (decision'.status = "closed" => Decided(decision') \/ excuse')
  BY <1>2 DEF DecisionsIInv, DecidedOnceClosed, Decided
<1>4. request' = [request EXCEPT ![r] = closes] \/ request' = [request EXCEPT ![r] = NoRequest]
  BY DEF MergeFails, Proceeds, UpdateFails, Ends
<1> HIDE DEF closes
<1>5. CASE request' = [request EXCEPT ![r] = closes]
  BY <1>1, <1>2, <1>3, <1>5, MovesOn
<1>6. CASE request' = [request EXCEPT ![r] = NoRequest]
  BY <1>2, <1>3, <1>6, MovesOn
<1> QED
  BY <1>4, <1>5, <1>6

\* Every step of a request keeps it.
LEMMA DecisionsStep == DecisionsIInv /\ [DecisionsNext]_decisionVars => DecisionsIInv'
<1>1. DecisionsIInv /\ UNCHANGED decisionVars => DecisionsIInv'
  BY DEF decisionVars, DecisionsIInv, DecisionsTypeOK, HoldsRow, DecidedOnceClosed, Is, Decided
<1>2. DecisionsIInv /\ DecisionsNext => DecisionsIInv'
  BY AskDecisionKeeps, ReadDecisionKeeps, WriteDecisionKeeps, CloseDecisionKeeps, PutDecisionKeeps,
     FailuresKeep DEF DecisionsNext
<1> QED
  BY <1>1, <1>2

\* A row that is decided once it is closed is what the handlers promise.
LEMMA DecisionsPromise == DecisionsIInv => DecisionsTypeOK /\ ClosedHasOutcome
BY DEF DecisionsIInv, DecidedOnceClosed, ClosedHasOutcome

\* A closed decision shows its outcome, however resolve, cancel, closes and updates of
\* the bead overlap, until a call that is no answer, or whose merge failed, closes it
\* without one or writes over it (handleResolveDecision, updateBead).
THEOREM DecisionsClosedHasOutcome == DecisionsSpec => [](DecisionsTypeOK /\ ClosedHasOutcome)
BY DecisionsInitIInv, DecisionsStep, DecisionsPromise, PTL DEF DecisionsSpec

-----------------------------------------------------------------------------
(* Configs.                                                                *)

\* The fields are what a config among configs, one that can be read, means them to be.
Meant(f, configs) == \E row \in configs \ {Malformed} : Unknown(row) \/ Conforms(f, Resolved(row))

\* The fields of a request under way.
EditRecord(r) == DOMAIN r = {"op", "at", "fields", "seen"}

\* A request has seen the config in force; fields it is about to write conform to
\* one it has seen, unless it is a merge.
EditMeant(e) ==
  edit[e] # NoEdit =>
    /\ EditRecord(edit[e])
    /\ stored \in edit[e].seen
    /\ edit[e].at = "write" /\ edit[e].op # "merge" => Meant(edit[e].fields, edit[e].seen)

\* What carries it: the fields in the bead are meant by a config of their request.
ConfigsIInv ==
  /\ edit = [e \in Editor |-> edit[e]]
  /\ stored \in Override \cup {NotStored}
  /\ \A e \in Editor : EditMeant(e)
  /\ fields # NoBead /\ ~unchecked => Meant(fields, basis)

\* What validateFields accepts conforms.
LEMMA ValidFieldsConform ==
  ASSUME NEW f, NEW defs, ValidateFields(f, defs)
  PROVE  Conforms(f, defs)
BY DEF ValidateFields, Conforms, Names, Absent

\* Fields that conform go on to, whatever other configs are seen.
LEMMA MeantGrows ==
  ASSUME NEW f, NEW configs, NEW more, Meant(f, configs)
  PROVE  Meant(f, configs \cup more)
BY DEF Meant

\* A step of one request leaves the others as they are.
LEMMA OthersMeant ==
  ASSUME NEW e \in Editor, ConfigsIInv, UNCHANGED <<beadType, stored>>,
         \A d \in Editor \ {e} : edit'[d] = edit[d]
  PROVE  \A d \in Editor \ {e} : EditMeant(d)'
BY DEF ConfigsIInv, EditMeant, Meant, Unknown, Resolved, EditRecord

\* A change of the config is seen by all requests under way.
LEMMA ConfigServed ==
  ASSUME ConfigsIInv, NEW row \in Override \cup {NotStored}, Serves(row)
  PROVE  ConfigsIInv'
<1> USE DEF ConfigsIInv
<1>1. UNCHANGED <<beadType, fields, basis, unchecked>> /\ stored' = row
  BY DEF Serves
<1>2. edit' = [e \in Editor |->
         IF edit[e] = NoEdit THEN NoEdit ELSE [edit[e] EXCEPT !.seen = @ \cup {row}]]
  BY DEF Serves
<1>3. ASSUME NEW e \in Editor PROVE EditMeant(e)'
  <2>1. CASE edit[e] = NoEdit
    BY <1>2, <2>1 DEF EditMeant
  <2>2. CASE edit[e] # NoEdit
    <3>1. /\ EditRecord(edit'[e]) /\ edit'[e].op = edit[e].op /\ edit'[e].at = edit[e].at
          /\ edit'[e].fields = edit[e].fields /\ edit'[e].seen = edit[e].seen \cup {row}
          /\ edit[e].at = "write" /\ edit[e].op # "merge" => Meant(edit[e].fields, edit[e].seen)
      BY <1>2, <2>2 DEF EditMeant, EditRecord
    <3>2. edit[e].at = "write" /\ edit[e].op # "merge" => Meant(edit[e].fields, edit[e].seen \cup {row})
      BY <3>1, MeantGrows
    <3> QED
      BY <1>1, <3>1, <3>2 DEF EditMeant, Meant, Unknown, Resolved, EditRecord
  <2> QED
    BY <2>1, <2>2
<1>4. (fields # NoBead /\ ~unchecked => Meant(fields, basis))'
  BY <1>1 DEF Meant, Unknown, Resolved
<1> QED
  BY <1>1, <1>2, <1>3, <1>4

\* A step of one request keeps the invariant if what it goes on with, and what it
\* wrote, is meant.
LEMMA EditStepKept ==
  ASSUME ConfigsIInv, NEW e \in Editor, NEW next,
         EditGoes(e, next), UNCHANGED <<beadType, stored>>,
         next # NoEdit => /\ EditRecord(next) /\ stored \in next.seen
                          /\ next.at = "write" /\ next.op # "merge" => Meant(next.fields, next.seen),
         \/ UNCHANGED <<fields, basis, unchecked>>
         \/ fields' # NoBead /\ ~unchecked' => Meant(fields', basis')
  PROVE  ConfigsIInv'
<1> USE DEF ConfigsIInv
<1>1. edit' = [edit EXCEPT ![e] = next]
  BY DEF EditGoes
<1>2. edit'[e] = next /\ \A d \in Editor \ {e} : edit'[d] = edit[d]
  BY <1>1
<1>3. \A d \in Editor \ {e} : EditMeant(d)'
  BY <1>2, OthersMeant
<1>4. EditMeant(e)'
  BY <1>2 DEF EditMeant, Meant, Unknown, Resolved, EditRecord
<1>5. (fields # NoBead /\ ~unchecked => Meant(fields, basis))'
  BY DEF Meant, Unknown, Resolved
<1> QED
  BY <1>1, <1>3, <1>4, <1>5

\* The steps of updates, creates and merges are such steps.
LEMMA EditorKept ==
  ASSUME ConfigsIInv, NEW e \in Editor,
         BeginEdit(e) \/ ReadFields(e) \/ Validate(e) \/ WriteFieldsBack(e) \/ EditFails(e)
  PROVE  ConfigsIInv'
<1>0. edit[e] # NoEdit =>
        /\ EditRecord(edit[e])
        /\ stored \in edit[e].seen
        /\ edit[e].at = "write" /\ edit[e].op # "merge" => Meant(edit[e].fields, edit[e].seen)
  BY DEF ConfigsIInv, EditMeant
<1>1. CASE BeginEdit(e)
  <2>1. UNCHANGED <<beadType, stored, fields, basis, unchecked>>
    BY <1>1 DEF BeginEdit
  <2>2. ASSUME NEW f, NEW op, NEW at, at # "write",
               EditGoes(e, [op |-> op, at |-> at, fields |-> f, seen |-> {stored}])
        PROVE  ConfigsIInv'
    <3> DEFINE next == [op |-> op, at |-> at, fields |-> f, seen |-> {stored}]
    <3>1. EditRecord(next) /\ stored \in next.seen /\ ~(next.at = "write" /\ next.op # "merge")
      BY <2>2 DEF EditRecord
    <3>2. EditGoes(e, next)
      BY <2>2
    <3> HIDE DEF next
    <3> QED
      BY <2>1, <3>1, <3>2, EditStepKept
  <2> QED
    BY <1>1, <2>2 DEF BeginEdit
<1>2. CASE ReadFields(e)
  <2>1. edit[e] # NoEdit /\ UNCHANGED <<beadType, stored, fields, basis, unchecked>>
    BY <1>2 DEF ReadFields
  <2>2. CASE EditEnds(e)
    BY <2>1, <2>2, EditStepKept DEF EditEnds
  <2>3. CASE ~EditEnds(e)
    <3> DEFINE next == [edit[e] EXCEPT !.fields = PatchFields(fields, @),
                                       !.at = IF edit[e].op = "merge" THEN "write" ELSE "validate"]
    <3>3. EditGoes(e, next)
      BY <1>2, <2>3 DEF ReadFields
    <3>4. EditRecord(next) /\ stored \in next.seen /\ ~(next.at = "write" /\ next.op # "merge")
      BY <1>0, <2>1 DEF EditRecord
    <3> HIDE DEF next
    <3> QED
      BY <2>1, <3>3, <3>4, EditStepKept
  <2> QED
    BY <2>2, <2>3
<1>3. CASE Validate(e)
  <2>1. edit[e] # NoEdit /\ UNCHANGED <<beadType, stored, fields, basis, unchecked>>
    BY <1>3 DEF Validate
  <2>2. CASE EditEnds(e)
    BY <2>1, <2>2, EditStepKept DEF EditEnds
  <2>3. CASE ~EditEnds(e)
    <3> DEFINE next == [edit[e] EXCEPT !.at = "write"]
    <3>3. Valid(e) /\ EditGoes(e, next)
      BY <1>3, <2>3 DEF Validate
    <3>4. stored # Malformed /\ (Unknown(stored) \/ Conforms(edit[e].fields, Resolved(stored)))
      BY <3>3, ValidFieldsConform, ConfigsAssumption DEF Valid, Unknown
    <3>5. Meant(edit[e].fields, edit[e].seen)
      BY <1>0, <2>1, <3>4 DEF Meant
    <3>6. EditRecord(next) /\ stored \in next.seen /\ Meant(next.fields, next.seen)
      BY <1>0, <2>1, <3>5 DEF EditRecord
    <3> HIDE DEF next
    <3> QED
      BY <2>1, <3>3, <3>6, EditStepKept
  <2> QED
    BY <2>2, <2>3
<1>4. CASE WriteFieldsBack(e)
  <2>1. /\ edit[e] # NoEdit /\ edit[e].at = "write"
        /\ fields' = edit[e].fields /\ basis' = edit[e].seen /\ unchecked' = (edit[e].op = "merge")
        /\ EditGoes(e, NoEdit) /\ UNCHANGED <<beadType, stored>>
    BY <1>4 DEF WriteFieldsBack, EditEnds
  <2>2. ~unchecked' => Meant(fields', basis')
    BY <1>0, <2>1
  <2> QED
    BY <2>1, <2>2, EditStepKept
<1>5. CASE EditFails(e)
  BY <1>5, EditStepKept DEF EditFails, EditEnds
<1> QED
  BY <1>1, <1>2, <1>3, <1>4, <1>5

\* No request, no fields, no config.
LEMMA ConfigsInitIInv == ConfigsInit => ConfigsIInv
BY DEF ConfigsInit, ConfigsIInv, EditMeant

\* Every change of the config and every step of a request keeps it.
LEMMA ConfigsStep == ConfigsIInv /\ [ConfigsNext]_configVars => ConfigsIInv'
<1>1. ASSUME ConfigsIInv, ConfigsNext PROVE ConfigsIInv'
  <2>1. CASE \E value \in Override : SetConfig(value)
    BY <1>1, <2>1, ConfigServed DEF SetConfig
  <2>2. CASE DeleteConfig
    BY <1>1, <2>2, ConfigServed DEF DeleteConfig
  <2> QED
    BY <1>1, <2>1, <2>2, EditorKept DEF ConfigsNext
<1>2. ASSUME ConfigsIInv, UNCHANGED configVars PROVE ConfigsIInv'
  BY <1>2 DEF configVars, ConfigsIInv, EditMeant, Meant, Unknown, Resolved, EditRecord
<1> QED
  BY <1>1, <1>2

\* The fields of a request: those given until they are read, JSON values from then on;
\* only a create comes to be validated with something else, and is turned down.
EditTyped(e) ==
  edit[e] # NoEdit =>
    /\ edit[e].op \in {"create", "update", "merge"} /\ edit[e].at \in {"read", "validate", "write"}
    /\ edit[e].seen \subseteq Override \cup {NotStored}
    /\ edit[e].at = "read" => /\ edit[e].fields \in FieldsGiven
                              /\ edit[e].op = "merge" => edit[e].fields # NotAnObject
    /\ edit[e].at = "validate" =>
         AllJSON(edit[e].fields) \/ (edit[e].op = "create" /\ edit[e].fields = NotAnObject)
    /\ edit[e].at = "write" => AllJSON(edit[e].fields)

\* What carries the types, beside the invariant above.
ConfigsTyped ==
  /\ beadType \in Types /\ unchecked \in BOOLEAN
  /\ fields = NoBead \/ AllJSON(fields)
  /\ \A e \in Editor : EditTyped(e)

\* A patch of JSON values with JSON values, or with something ignored.
LEMMA PatchJSON ==
  ASSUME NEW old, NEW new, AllJSON(old), new = NotAnObject \/ AllJSON(new)
  PROVE  AllJSON(PatchFields(old, new))
BY DEF AllJSON, PatchFields

\* A step of one request keeps the types if what it goes on with, and what it wrote, has them.
LEMMA EditStepTyped ==
  ASSUME ConfigsIInv, ConfigsTyped, NEW e \in Editor, NEW next,
         EditGoes(e, next), UNCHANGED beadType,
         next # NoEdit =>
           /\ next.op \in {"create", "update", "merge"} /\ next.at \in {"read", "validate", "write"}
           /\ next.seen \subseteq Override \cup {NotStored}
           /\ next.at = "read" => next.fields \in FieldsGiven /\ (next.op = "merge" => next.fields # NotAnObject)
           /\ next.at = "validate" => AllJSON(next.fields) \/ (next.op = "create" /\ next.fields = NotAnObject)
           /\ next.at = "write" => AllJSON(next.fields),
         \/ UNCHANGED <<fields, unchecked>>
         \/ AllJSON(fields') /\ unchecked' \in BOOLEAN
  PROVE  ConfigsTyped'
<1>1. edit'[e] = next /\ \A d \in Editor \ {e} : edit'[d] = edit[d]
  BY DEF EditGoes, ConfigsIInv
<1>2. \A d \in Editor : EditTyped(d)'
  BY <1>1 DEF EditTyped, ConfigsTyped, AllJSON
<1> QED
  BY <1>2 DEF ConfigsTyped, AllJSON

\* The steps of updates, creates and merges keep the types.
LEMMA EditorTyped ==
  ASSUME ConfigsIInv, ConfigsTyped, NEW e \in Editor,
         BeginEdit(e) \/ ReadFields(e) \/ Validate(e) \/ WriteFieldsBack(e) \/ EditFails(e)
  PROVE  ConfigsTyped'
<1>0. /\ edit[e] # NoEdit => EditRecord(edit[e])
      /\ EditTyped(e) /\ stored \in Override \cup {NotStored}
  BY DEF ConfigsIInv, ConfigsTyped, EditMeant
<1>1. CASE BeginEdit(e)
  <2>1. UNCHANGED <<beadType, fields, unchecked>>
    BY <1>1 DEF BeginEdit
  <2>2. ASSUME NEW f \in FieldsGiven \cup {Empty}, NEW op \in {"create", "update", "merge"},
               NEW at \in {"read", "validate"},
               op = "create" <=> at = "validate", op = "merge" => f # NotAnObject, op # "create" => f \in FieldsGiven,
               EditGoes(e, [op |-> op, at |-> at, fields |-> f, seen |-> {stored}])
        PROVE  ConfigsTyped'
    <3> DEFINE next == [op |-> op, at |-> at, fields |-> f, seen |-> {stored}]
    <3>1. AllJSON(f) \/ f = NotAnObject
      BY ConfigsAssumption DEF AllJSON, Empty
    <3>2. /\ next.op = op /\ next.at = at /\ next.fields = f
          /\ next.seen \subseteq Override \cup {NotStored} /\ EditGoes(e, next)
      BY <1>0, <2>2
    <3> HIDE DEF next
    <3> QED
      BY <2>1, <2>2, <3>1, <3>2, EditStepTyped
  <2>3. ASSUME NEW f \in FieldsGiven \cup {Empty},
               EditGoes(e, [op |-> "create", at |-> "validate", fields |-> f, seen |-> {stored}])
        PROVE  ConfigsTyped'
    BY <2>2, <2>3
  <2>4. ASSUME NEW f \in FieldsGiven,
               EditGoes(e, [op |-> "update", at |-> "read", fields |-> f, seen |-> {stored}])
        PROVE  ConfigsTyped'
    BY <2>2, <2>4
  <2>5. ASSUME NEW f \in FieldsGiven \ {NotAnObject},
               EditGoes(e, [op |-> "merge", at |-> "read", fields |-> f, seen |-> {stored}])
        PROVE  ConfigsTyped'
    BY <2>2, <2>5
  <2> QED
    BY <1>1, <2>3, <2>4, <2>5 DEF BeginEdit
<1>2. CASE ReadFields(e)
  <2>1. edit[e] # NoEdit /\ edit[e].at = "read" /\ UNCHANGED <<beadType, fields, unchecked>>
    BY <1>2 DEF ReadFields
  <2>2. CASE EditEnds(e)
    BY <2>1, <2>2, EditStepTyped DEF EditEnds
  <2>3. CASE ~EditEnds(e)
    <3> DEFINE next == [edit[e] EXCEPT !.fields = PatchFields(fields, @),
                                       !.at = IF edit[e].op = "merge" THEN "write" ELSE "validate"]
    <3>1. EditGoes(e, next) /\ fields # NoBead
      BY <1>2, <2>3 DEF ReadFields
    <3>2. AllJSON(PatchFields(fields, edit[e].fields))
      <4>1. edit[e].fields = NotAnObject \/ AllJSON(edit[e].fields)
        BY <1>0, <2>1, ConfigsAssumption DEF EditTyped
      <4>2. AllJSON(fields)
        BY <3>1 DEF ConfigsTyped
      <4> QED
        BY <4>1, <4>2, PatchJSON
    <3>3. /\ next.op = edit[e].op /\ next.seen = edit[e].seen /\ next.fields = PatchFields(fields, edit[e].fields)
          /\ next.at = (IF edit[e].op = "merge" THEN "write" ELSE "validate")
      BY <1>0, <2>1 DEF EditRecord
    <3>4. next.op \in {"create", "update", "merge"} /\ next.seen \subseteq Override \cup {NotStored}
          /\ next.at \in {"validate", "write"} /\ AllJSON(next.fields)
      BY <1>0, <2>1, <3>2, <3>3 DEF EditTyped
    <3> HIDE DEF next
    <3> QED
      BY <2>1, <3>1, <3>4, EditStepTyped
  <2> QED
    BY <2>2, <2>3
<1>3. CASE Validate(e)
  <2>1. edit[e] # NoEdit /\ edit[e].at = "validate" /\ UNCHANGED <<beadType, fields, unchecked>>
    BY <1>3 DEF Validate
  <2>2. CASE EditEnds(e)
    BY <2>1, <2>2, EditStepTyped DEF EditEnds
  <2>3. CASE ~EditEnds(e)
    <3> DEFINE next == [edit[e] EXCEPT !.at = "write"]
    <3>1. Valid(e) /\ EditGoes(e, next)
      BY <1>3, <2>3 DEF Validate
    <3>2. AllJSON(edit[e].fields)
      BY <1>0, <2>1, <3>1 DEF Valid, EditTyped
    <3>3. /\ next.op = edit[e].op /\ next.seen = edit[e].seen /\ next.fields = edit[e].fields /\ next.at = "write"
      BY <1>0, <2>1 DEF EditRecord
    <3>4. next.op \in {"create", "update", "merge"} /\ next.seen \subseteq Override \cup {NotStored}
      BY <1>0, <2>1, <3>3 DEF EditTyped
    <3> HIDE DEF next
    <3> QED
      BY <2>1, <3>1, <3>2, <3>3, <3>4, EditStepTyped
  <2> QED
    BY <2>2, <2>3
<1>4. CASE WriteFieldsBack(e)
  <2>1. /\ edit[e] # NoEdit /\ edit[e].at = "write" /\ fields' = edit[e].fields
        /\ unchecked' \in BOOLEAN /\ EditGoes(e, NoEdit) /\ UNCHANGED beadType
    BY <1>4 DEF WriteFieldsBack, EditEnds
  <2>2. AllJSON(fields')
    BY <1>0, <2>1 DEF EditTyped
  <2> QED
    BY <2>1, <2>2, EditStepTyped
<1>5. CASE EditFails(e)
  BY <1>5, EditStepTyped DEF EditFails, EditEnds
<1> QED
  BY <1>1, <1>2, <1>3, <1>4, <1>5

\* A change of the config is one more that the requests under way have seen.
LEMMA ServesTyped ==
  ASSUME ConfigsIInv, ConfigsTyped, NEW row \in Override \cup {NotStored}, Serves(row)
  PROVE  ConfigsTyped'
<1>1. UNCHANGED <<beadType, fields, unchecked>>
  BY DEF Serves
<1>2. ASSUME NEW e \in Editor PROVE EditTyped(e)'
  <2>1. CASE edit[e] = NoEdit
    BY <2>1 DEF Serves, EditTyped
  <2>2. CASE edit[e] # NoEdit
    <3>1. /\ edit'[e].op = edit[e].op /\ edit'[e].at = edit[e].at /\ edit'[e].fields = edit[e].fields
          /\ edit'[e].seen = edit[e].seen \cup {row}
      BY <2>2 DEF Serves, ConfigsIInv, EditMeant, EditRecord
    <3>2. EditTyped(e)
      BY DEF ConfigsTyped
    <3> QED
      BY <2>2, <3>1, <3>2 DEF EditTyped, AllJSON
  <2> QED
    BY <2>1, <2>2
<1> QED
  BY <1>1, <1>2 DEF ConfigsTyped, AllJSON

\* Every step keeps the types.
LEMMA ConfigsTypedStep == ConfigsIInv /\ ConfigsTyped /\ [ConfigsNext]_configVars => ConfigsTyped'
<1>1. ASSUME ConfigsIInv, ConfigsTyped, ConfigsNext PROVE ConfigsTyped'
  <2>1. CASE \E value \in Override : SetConfig(value)
    BY <1>1, <2>1, ServesTyped DEF SetConfig
  <2>2. CASE DeleteConfig
    BY <1>1, <2>2, ServesTyped DEF DeleteConfig
  <2> QED
    BY <1>1, <2>1, <2>2, EditorTyped DEF ConfigsNext
<1>2. ASSUME ConfigsTyped, UNCHANGED configVars PROVE ConfigsTyped'
  BY <1>2 DEF configVars, ConfigsTyped, EditTyped, AllJSON
<1> QED
  BY <1>1, <1>2

\* No request and no fields.
LEMMA ConfigsInitTyped == ConfigsInit => ConfigsTyped
BY DEF ConfigsInit, ConfigsTyped, EditTyped

\* The two together are what the types allow.
LEMMA ConfigsTypes == ConfigsIInv /\ ConfigsTyped => ConfigsTypeOK
BY DEF ConfigsIInv, ConfigsTyped, EditTyped, ConfigsTypeOK

\* Fields that are meant conform.
LEMMA ConfigsPromise == ConfigsIInv => FieldsConform
BY DEF ConfigsIInv, Meant, FieldsConform

\* However requests and config changes interleave: fields that an update or a create
\* wrote, over whatever a merge left behind, conform as a whole to a config that was
\* in force during that request (validateFields after mergeFields).
THEOREM ConfigsFieldsConform == ConfigsSpec => []FieldsConform
BY ConfigsInitIInv, ConfigsStep, ConfigsPromise, PTL DEF ConfigsSpec

-----------------------------------------------------------------------------
(* Formulas.                                                               *)

\* Fields whose variables and steps are those of one accepted file.
OneFile(fs) ==
  /\ {"vars", "steps"} \subseteq DOMAIN fs
  /\ \E f \in File : Accepted(f) /\ fs.steps = f.steps /\ fs.vars = f.vars

\* The fields hold what the command was given.
AsGiven(fs, c) ==
  /\ c.given # NoFileGiven => fs.steps = c.given.steps
  /\ c.assign \in Planner => "assigned_agent" \in DOMAIN fs /\ fs.assigned_agent = c.assign

\* What a command holds between its calls: the formula it read or made is whole, and
\* its fields are of one file and as given.
FormulaCommand(t) ==
  LET c == terminal[t]
  IN /\ DOMAIN c = {"pc", "given", "assign", "fields", "alone"}
     /\ c.given \in File \cup {NoFileGiven} /\ c.assign \in Planner \cup {Leave, Clear}
     /\ c.pc \in {"idle", "create", "check", "merge", "store", "done", "failed"}
     /\ c.pc \in {"check", "merge", "store"} => OneFile(formula)
     /\ c.pc \in {"merge", "store"} => OneFile(c.fields) /\ AsGiven(c.fields, c)
     /\ c.pc = "done" /\ c.alone => AsGiven(formula, c)
     /\ c.alone => \A u \in Terminal \ {t} : ~Busy(u)

\* What carries it: the formula in the store, and what every command holds.
FormulasIInv ==
  /\ DOMAIN terminal = Terminal
  /\ formula # NoFormula => OneFile(formula)
  /\ \A t \in Terminal : FormulaCommand(t)

\* Assigning changes the agent and nothing else.
LEMMA AssignedFields ==
  ASSUME NEW fs, NEW assign \in Planner \cup {Leave, Clear}
  PROVE  /\ assign \in Planner => /\ "assigned_agent" \in DOMAIN Assigned(fs, assign)
                                /\ Assigned(fs, assign).assigned_agent = assign
         /\ \A k \in DOMAIN fs \ {"assigned_agent"} :
              k \in DOMAIN Assigned(fs, assign) /\ Assigned(fs, assign)[k] = fs[k]
<1>1. CASE assign = Leave
  BY <1>1, FormulasAssumption DEF Assigned
<1>2. CASE assign # Leave /\ assign = Clear
  BY <1>2, FormulasAssumption DEF Assigned
<1>3. CASE assign \in Planner
  <2>1. Assigned(fs, assign) = Over([assigned_agent |-> assign], fs)
    BY <1>3, FormulasAssumption DEF Assigned
  <2> QED
    BY <2>1 DEF Over
<1> QED
  BY <1>1, <1>2, <1>3

\* So the fields remain those of one file.
LEMMA AssignedOneFile ==
  ASSUME NEW fs, OneFile(fs), NEW assign \in Planner \cup {Leave, Clear}
  PROVE  OneFile(Assigned(fs, assign)) /\ Assigned(fs, assign).steps = fs.steps
BY AssignedFields DEF OneFile

\* The fields made from an accepted file are of one file.
LEMMA FileFieldsOneFile ==
  ASSUME NEW f \in File, Accepted(f)
  PROVE  OneFile(FileFields(f)) /\ FileFields(f).steps = f.steps
BY DEF OneFile, FileFields

\* A formula is created from its file, with the agent given.
LEMMA CreatedAsGiven ==
  ASSUME NEW f \in File, Accepted(f), NEW assign \in Planner \cup {Leave, Clear}
  PROVE  /\ OneFile(Created(f, assign)) /\ Created(f, assign).steps = f.steps
         /\ assign \in Planner => /\ "assigned_agent" \in DOMAIN Created(f, assign)
                                /\ Created(f, assign).assigned_agent = assign
<1> DEFINE all == IF f.roles = <<>> THEN FileFields(f) ELSE Over(FileFields(f), [default_roles |-> f.roles])
<1>1. OneFile(all) /\ all.steps = f.steps
  BY DEF FileFields, OneFile, Over
<1>2. Created(f, assign) = Assigned(all, assign)
  BY DEF Created
<1> HIDE DEF all
<1> QED
  BY <1>1, <1>2, AssignedFields, AssignedOneFile

\* Fields merged key by key over those of any formula remain what they were given.
LEMMA MergedAsGiven ==
  ASSUME NEW new, NEW old, OneFile(new), NEW c
  PROVE  OneFile(Over(new, old)) /\ (AsGiven(new, c) => AsGiven(Over(new, old), c))
BY DEF OneFile, AsGiven, Over

\* One process moves and the others stay where they are.
LEMMA FormulaMoves ==
  ASSUME FormulasIInv, NEW t \in Terminal, NEW next, Busy(t), Moves(t, next),
         DOMAIN next = {"pc", "given", "assign", "fields", "alone"},
         next.given = terminal[t].given, next.assign = terminal[t].assign, next.alone = terminal[t].alone,
         next.pc \in {"idle", "create", "check", "merge", "store", "done", "failed"},
         formula' = formula \/ OneFile(formula'),
         next.pc \in {"check", "merge", "store"} => OneFile(formula'),
         next.pc \in {"merge", "store"} => OneFile(next.fields) /\ AsGiven(next.fields, next),
         next.pc = "done" => AsGiven(formula', next)
  PROVE  FormulasIInv'
<1>1. terminal' = [terminal EXCEPT ![t] = next]
  BY DEF Moves
<1>2. DOMAIN terminal' = Terminal /\ terminal'[t] = next /\ \A u \in Terminal \ {t} : terminal'[u] = terminal[u]
  BY <1>1 DEF FormulasIInv
<1>3. (formula # NoFormula => OneFile(formula))'
  BY DEF FormulasIInv, OneFile
<1>4. FormulaCommand(t)'
  BY <1>2 DEF FormulasIInv, FormulaCommand, OneFile, AsGiven, Busy
<1>5. ASSUME NEW u \in Terminal \ {t} PROVE FormulaCommand(u)'
  <2>1. ~terminal[u].alone
    BY DEF FormulasIInv, FormulaCommand
  <2>2. OneFile(formula) => OneFile(formula')
    OBVIOUS
  <2> QED
    BY <1>2, <2>1, <2>2 DEF FormulasIInv, FormulaCommand, OneFile, AsGiven
<1> QED
  BY <1>2, <1>3, <1>4, <1>5 DEF FormulasIInv

\* A command begins with the file and the agent it was given.
LEMMA FormulaStarts ==
  ASSUME FormulasIInv, NEW t \in Terminal, StartFormula(t)
  PROVE  FormulasIInv'
<1>1. PICK given \in File \cup {NoFileGiven}, assign \in Planner \cup {Leave, Clear} :
        terminal' = [u \in Terminal |->
            IF u = t THEN [pc |-> IF formula = NoFormula THEN "create" ELSE "check", given |-> given, assign |-> assign,
                              fields |-> NoFormula, alone |-> \A x \in Terminal : ~Busy(x)]
            ELSE [terminal[u] EXCEPT !.alone = FALSE]]
  BY DEF StartFormula
<1>2. ~Busy(t) /\ UNCHANGED formula
  BY DEF StartFormula
<1>3. FormulaCommand(t)'
  <2>1. /\ DOMAIN terminal'[t] = {"pc", "given", "assign", "fields", "alone"}
        /\ terminal'[t].given = given /\ terminal'[t].assign = assign
        /\ terminal'[t].pc = IF formula = NoFormula THEN "create" ELSE "check"
        /\ terminal'[t].alone <=> \A x \in Terminal : ~Busy(x)
    BY <1>1
  <2>2. \A u \in Terminal \ {t} : terminal'[u].pc = terminal[u].pc
    BY <1>1 DEF FormulasIInv, FormulaCommand
  <2> QED
    BY <1>2, <2>1, <2>2 DEF FormulasIInv, FormulaCommand, OneFile, Busy
<1>4. ASSUME NEW u \in Terminal \ {t} PROVE FormulaCommand(u)'
  <2>1. terminal'[u] = [terminal[u] EXCEPT !.alone = FALSE]
    BY <1>1
  <2>2. /\ DOMAIN terminal'[u] = {"pc", "given", "assign", "fields", "alone"} /\ ~terminal'[u].alone
        /\ terminal'[u].given = terminal[u].given /\ terminal'[u].assign = terminal[u].assign
        /\ terminal'[u].pc = terminal[u].pc /\ terminal'[u].fields = terminal[u].fields
    BY <2>1 DEF FormulasIInv, FormulaCommand
  <2> QED
    BY <1>2, <2>2 DEF FormulasIInv, FormulaCommand, OneFile, AsGiven
<1> QED
  BY <1>1, <1>2, <1>3, <1>4 DEF FormulasIInv, OneFile

\* Its calls create, read, merge and store, or fail.
LEMMA FormulaWorks ==
  ASSUME FormulasIInv, NEW t \in Terminal,
         CreateFormula(t) \/ ReadFormula(t) \/ MergeIntoRow(t) \/ StoreRow(t) \/ FormulaCallFails(t)
  PROVE  FormulasIInv'
<1> DEFINE c == terminal[t]
<1>0. FormulaCommand(t)
  BY DEF FormulasIInv
<1>1. CASE CreateFormula(t)
  <2>1. Busy(t)
    BY <1>1 DEF CreateFormula, Busy
  <2>2. CASE Moves(t, [c EXCEPT !.pc = "failed"]) /\ UNCHANGED formula
    BY <1>0, <2>1, <2>2, FormulaMoves DEF FormulaCommand
  <2>3. CASE ~(Moves(t, [c EXCEPT !.pc = "failed"]) /\ UNCHANGED formula)
    <3>1. /\ c.given # NoFileGiven /\ Accepted(c.given)
          /\ formula' = Created(c.given, c.assign)
          /\ \E end \in {"done", "failed"} : Moves(t, [c EXCEPT !.pc = end])
      BY <1>1, <2>3 DEF CreateFormula
    <3>2. OneFile(formula') /\ AsGiven(formula', c)
      BY <1>0, <3>1, CreatedAsGiven DEF FormulaCommand, AsGiven
    <3>3. ASSUME NEW end \in {"done", "failed"}, Moves(t, [c EXCEPT !.pc = end]) PROVE FormulasIInv'
      <4> DEFINE next == [c EXCEPT !.pc = end]
      <4>1. /\ DOMAIN next = {"pc", "given", "assign", "fields", "alone"}
            /\ next.given = c.given /\ next.assign = c.assign /\ next.alone = c.alone /\ next.pc = end
        BY <1>0 DEF FormulaCommand
      <4>2. AsGiven(formula', next)
        BY <3>2, <4>1 DEF AsGiven
      <4>3. Moves(t, next)
        BY <3>3
      <4> HIDE DEF next
      <4> QED
        BY <2>1, <3>2, <4>1, <4>2, <4>3, FormulaMoves
    <3> QED
      BY <3>1, <3>3
  <2> QED
    BY <2>2, <2>3
<1>2. CASE ReadFormula(t)
  <2>1. Busy(t) /\ c.pc = "check" /\ UNCHANGED formula /\ OneFile(formula)
    BY <1>0, <1>2 DEF ReadFormula, Busy, FormulaCommand
  <2>2. CASE Moves(t, [c EXCEPT !.pc = "failed"])
    BY <1>0, <2>1, <2>2, FormulaMoves DEF FormulaCommand
  <2>3. CASE ~Moves(t, [c EXCEPT !.pc = "failed"])
    <3> DEFINE base == IF c.given = NoFileGiven THEN formula ELSE FileFields(c.given)
               next == [c EXCEPT !.pc = "merge", !.fields = Assigned(base, c.assign)]
    <3>1. (c.given = NoFileGiven \/ Accepted(c.given)) /\ Moves(t, next)
      BY <1>2, <2>3 DEF ReadFormula
    <3>2. OneFile(base) /\ (c.given # NoFileGiven => base.steps = c.given.steps)
      BY <1>0, <2>1, <3>1, FileFieldsOneFile DEF FormulaCommand
    <3>3. /\ DOMAIN next = {"pc", "given", "assign", "fields", "alone"}
          /\ next.given = c.given /\ next.assign = c.assign /\ next.alone = c.alone
          /\ next.pc = "merge" /\ next.fields = Assigned(base, c.assign)
      BY <1>0 DEF FormulaCommand
    <3> HIDE DEF base, next
    <3>4. OneFile(next.fields) /\ AsGiven(next.fields, next)
      BY <1>0, <3>2, <3>3, AssignedOneFile, AssignedFields DEF FormulaCommand, AsGiven
    <3> QED
      BY <2>1, <3>1, <3>3, <3>4, FormulaMoves
  <2> QED
    BY <2>2, <2>3
<1>3. CASE MergeIntoRow(t)
  <2> DEFINE next == [c EXCEPT !.pc = "store", !.fields = Over(@, formula)]
  <2>1. Busy(t) /\ c.pc = "merge" /\ UNCHANGED formula /\ Moves(t, next)
    BY <1>3 DEF MergeIntoRow, Busy
  <2>2. /\ DOMAIN next = {"pc", "given", "assign", "fields", "alone"}
        /\ next.given = c.given /\ next.assign = c.assign /\ next.alone = c.alone
        /\ next.pc = "store" /\ next.fields = Over(c.fields, formula)
    BY <1>0 DEF FormulaCommand
  <2>3. OneFile(formula) /\ OneFile(c.fields) /\ AsGiven(c.fields, c)
    BY <1>0, <2>1 DEF FormulaCommand
  <2>4. OneFile(Over(c.fields, formula)) /\ AsGiven(Over(c.fields, formula), c)
    BY <2>3, MergedAsGiven
  <2> HIDE DEF next
  <2>5. OneFile(next.fields) /\ AsGiven(next.fields, next)
    BY <2>2, <2>4 DEF AsGiven
  <2> QED
    BY <2>1, <2>2, <2>3, <2>5, FormulaMoves
<1>4. CASE StoreRow(t)
  <2> DEFINE next == [c EXCEPT !.pc = "done"]
  <2>1. Busy(t) /\ formula' = c.fields /\ OneFile(c.fields) /\ AsGiven(c.fields, c) /\ Moves(t, next)
    BY <1>0, <1>4 DEF StoreRow, Busy, FormulaCommand
  <2>2. /\ DOMAIN next = {"pc", "given", "assign", "fields", "alone"}
        /\ next.given = c.given /\ next.assign = c.assign /\ next.alone = c.alone /\ next.pc = "done"
    BY <1>0 DEF FormulaCommand
  <2>3. AsGiven(formula', next)
    BY <2>1, <2>2 DEF AsGiven
  <2> HIDE DEF next
  <2> QED
    BY <2>1, <2>2, <2>3, FormulaMoves
<1>5. CASE FormulaCallFails(t)
  <2> DEFINE next == [c EXCEPT !.pc = "failed"]
  <2>1. Busy(t) /\ Moves(t, next) /\ (formula' = formula \/ OneFile(formula'))
    BY <1>0, <1>5 DEF FormulaCallFails, FormulaCommand
  <2>2. /\ DOMAIN next = {"pc", "given", "assign", "fields", "alone"}
        /\ next.given = c.given /\ next.assign = c.assign /\ next.alone = c.alone /\ next.pc = "failed"
    BY <1>0 DEF FormulaCommand
  <2> HIDE DEF next
  <2> QED
    BY <2>1, <2>2, FormulaMoves
<1> QED
  BY <1>1, <1>2, <1>3, <1>4, <1>5

\* No formula and no command.
LEMMA FormulasInitIInv == FormulasInit => FormulasIInv
BY DEF FormulasInit, FormulasIInv, FormulaCommand, NoCommand

\* Every step of a command keeps it.
LEMMA FormulasStep == FormulasIInv /\ [FormulasNext]_formulaVars => FormulasIInv'
<1>1. ASSUME FormulasIInv, FormulasNext PROVE FormulasIInv'
  BY <1>1, FormulaStarts, FormulaWorks DEF FormulasNext
<1>2. ASSUME FormulasIInv, UNCHANGED formulaVars PROVE FormulasIInv'
  BY <1>2 DEF formulaVars, FormulasIInv, FormulaCommand, OneFile, AsGiven, Busy
<1> QED
  BY <1>1, <1>2

\* A formula of one file that is as its command was given.
LEMMA FormulasPromise == FormulasIInv => FormulaIsOneFile
BY DEF FormulasIInv, FormulaCommand, OneFile, AsGiven, VarsOf, FormulaIsOneFile

\* However edits overlap or fail: the variables and the steps of a formula are those of
\* one accepted file, and a command nobody overlapped leaves the file and the agent it
\* was given (kd formula create and edit, with mergeFields in between).
THEOREM FormulasFormulaIsOneFile == FormulasSpec => []FormulaIsOneFile
BY FormulasInitIInv, FormulasStep, FormulasPromise, PTL DEF FormulasSpec

-----------------------------------------------------------------------------
(* Remotes.                                                                *)

\* A file, or a copy of it, in which every name means one remote of one add and
\* the active one exists.
Whole(cfg) ==
  /\ cfg \in Config
  /\ cfg.active # NoName => Known(cfg, cfg.active)
  /\ \A r \in cfg.remotes : OfOneAdd(r)
  /\ \A r, s \in cfg.remotes : r.name = s.name => r = s

Process ==
  [pc : {"idle", "load", "truncate", "write", "rest", "connect", "done"},
   op : {"add", "remove", "use", "none"}, name : Name \cup {NoName}, version : Nat, cfg : Config,
   torn : BOOLEAN, cached : Remote \cup {NoRemote}]

\* What holds of a process between two of its steps.
Orderly(s) ==
  /\ ~s.torn => Whole(s.cfg)
  /\ s.pc = "load" => s.op \in {"add", "remove", "use"}
  /\ s.pc = "load" /\ s.op = "add" => s.name \in Name /\ s.version \in 1..MaxFileCommands
  /\ s.pc # "done" => s.cached = NoRemote
  /\ s.pc = "connect" => Whole(s.cfg)
  /\ ~s.torn /\ s.cached # NoRemote => OfOneAdd(s.cached)

\* The file may be anything when it is torn, and is whole when it is not.
FileIInv ==
  /\ file = Garbled \/ file \in Config
  /\ torn \in BOOLEAN /\ layers \subseteq Config
  /\ ~torn => Whole(file)
  /\ fileCommands \in 0..MaxFileCommands

RemotesIInv ==
  /\ FileIInv
  /\ shell \in [Shell -> Process]
  /\ \A p \in Shell : Orderly(shell[p])

-----------------------------------------------------------------------------
(* The operations on a copy, and what writing one may leave in the file.   *)

\* A missing or truncated file is whole (loadRemotesConfig of an empty file).
LEMMA NoRemotesWhole == Whole(NoRemotes)
BY DEF Whole, Config, NoRemotes, Remote

\* add replaces what the name meant before.
LEMMA AddedWhole ==
  ASSUME NEW cfg \in Config, NEW n \in Name, NEW ver \in 1..MaxFileCommands, NEW token \in {0, ver}
  PROVE  /\ Added(cfg, n, ver, token) \in Config
         /\ Whole(cfg) => Whole(Added(cfg, n, ver, token))
<1> DEFINE new == [name |-> n, url |-> ver, token |-> token]
           next == Added(cfg, n, ver, token)
<1>1. new \in Remote /\ OfOneAdd(new) /\ new.name = n
  BY RemotesAssumption DEF Remote, Version, OfOneAdd
<1>2. next.active = cfg.active /\ next.remotes = {r \in cfg.remotes : r.name # n} \cup {new}
  BY DEF Added, Config
<1> HIDE DEF new
<1>3. next \in Config
  BY <1>1 DEF Config, Added, new
<1> HIDE DEF next
<1>4. ASSUME Whole(cfg) PROVE Whole(next)
  <2>1. next.active # NoName => Known(next, next.active)
    BY <1>1, <1>2, <1>4 DEF Whole, Known
  <2>2. \A r \in next.remotes : OfOneAdd(r)
    BY <1>1, <1>2, <1>4 DEF Whole
  <2>3. \A r, s \in next.remotes : r.name = s.name => r = s
    BY <1>1, <1>2, <1>4 DEF Whole
  <2> QED
    BY <1>3, <2>1, <2>2, <2>3 DEF Whole
<1> QED
  BY <1>3, <1>4 DEF next

\* remove leaves no remote active when it takes the active one away.
LEMMA RemovedWhole ==
  ASSUME NEW cfg \in Config, NEW n
  PROVE  /\ Removed(cfg, n) \in Config
         /\ Whole(cfg) => Whole(Removed(cfg, n))
BY DEF Whole, Removed, Config, Known

\* use takes a known name, or none.
LEMMA UsedWhole ==
  ASSUME NEW cfg \in Config, NEW n \in Name \cup {NoName}, ~Refused(cfg, "use", n)
  PROVE  /\ Used(cfg, n) \in Config
         /\ Whole(cfg) => Whole(Used(cfg, n))
BY DEF Whole, Used, Config, Known, Refused

\* So each command makes a whole copy of a whole file.
LEMMA ChangedWhole ==
  ASSUME NEW cfg \in Config, NEW s \in Process, Orderly(s), s.pc = "load",
         ~Refused(cfg, s.op, s.name), NEW next \in Changed(cfg, s)
  PROVE  next \in Config /\ (Whole(cfg) => Whole(next))
<1>1. CASE s.op = "add"
  <2>1. s.name \in Name /\ s.version \in 1..MaxFileCommands
    BY <1>1 DEF Orderly
  <2>2. \E token \in {0, s.version} : next = Added(cfg, s.name, s.version, token)
    BY <1>1 DEF Changed
  <2> QED
    BY <2>1, <2>2, AddedWhole
<1>2. CASE s.op = "remove"
  BY <1>2, RemovedWhole DEF Changed
<1>3. CASE s.op = "use"
  BY <1>3, UsedWhole DEF Changed, Process
<1> QED
  BY <1>1, <1>2, <1>3 DEF Orderly

\* Some active name and some remotes are a configuration.
LEMMA ConfigOf ==
  ASSUME NEW actives \in SUBSET (Name \cup {NoName}), NEW all \in SUBSET SUBSET Remote,
         NEW next \in {Garbled} \cup [active : actives, remotes : all]
  PROVE  next = Garbled \/ next \in Config
BY DEF Config

\* The beginning of a text holds remotes of it, or parts of them.
LEMMA BeginningsTyped ==
  ASSUME NEW cfg \in Config, NEW next \in Beginnings(cfg)
  PROVE  next = Garbled \/ next \in Config
<1>1. {cfg.active} \in SUBSET (Name \cup {NoName}) /\ cfg.remotes \in SUBSET Remote
  BY DEF Config
<1>2. \A r \in cfg.remotes : CutShort(r) \subseteq Remote
  BY <1>1, RemotesAssumption DEF CutShort, Remote, Version
<1>3. Cuts(cfg) \subseteq Remote
  BY <1>2 DEF Cuts
<1>4. ASSUME NEW x \in Pieces(cfg) PROVE x \in SUBSET Remote
  <2>1. x \in SUBSET cfg.remotes \/ \E cut \in Cuts(cfg), whole \in SUBSET cfg.remotes : x = whole \cup {cut}
    BY DEF Pieces
  <2> QED
    BY <1>1, <1>3, <2>1
<1>5. Pieces(cfg) \in SUBSET SUBSET Remote
  BY <1>4
<1> QED
  BY <1>1, <1>5, ConfigOf DEF Beginnings

\* Lines of configurations put together are remotes.
LEMMA OverlaidTyped ==
  ASSUME NEW lines \in SUBSET Remote, NEW names \in SUBSET Name, NEW table \in Tables(names, lines)
  PROVE  Overlaid(table) \in SUBSET Remote
<1>1. {0} \cup {r.url : r \in lines} \subseteq Version /\ {0} \cup {r.token : r \in lines} \subseteq Version
  BY RemotesAssumption DEF Remote, Version
<1>2. DOMAIN table = names /\ \A n \in names : table[n].url \in Version /\ table[n].token \in Version
  BY <1>1 DEF Tables
<1>3. \A n \in DOMAIN table : [name |-> n, url |-> table[n].url, token |-> table[n].token] \in Remote
  BY <1>2 DEF Remote
<1> QED
  BY <1>3 DEF Overlaid

\* Texts over each other leave remotes put together from their lines.
LEMMA MixedTyped ==
  ASSUME NEW texts \in SUBSET Config, NEW next \in Mixed(texts)
  PROVE  next = Garbled \/ next \in Config
<1> DEFINE lines == Lines(texts)
           actives == {NoName} \cup {cfg.active : cfg \in texts}
           Under(names) == {Overlaid(table) : table \in Tables(names, lines)}
           all == UNION {Under(names) : names \in SUBSET {r.name : r \in lines}}
<1>1. lines \in SUBSET Remote /\ actives \in SUBSET (Name \cup {NoName})
  BY DEF Config, Lines
<1>2. next \in {Garbled} \cup [active : actives, remotes : all]
  BY DEF Mixed
<1> HIDE DEF lines, actives
<1>3. \A names \in SUBSET Name : Under(names) \in SUBSET SUBSET Remote
  BY <1>1, OverlaidTyped
<1>4. {r.name : r \in lines} \subseteq Name
  BY <1>1 DEF Remote
<1> HIDE DEF Under
<1>5. all \in SUBSET SUBSET Remote
  BY <1>3, <1>4
<1> HIDE DEF all
<1> QED
  BY <1>1, <1>2, <1>5, ConfigOf

-----------------------------------------------------------------------------
(* The invariant.                                                          *)

LEMMA AtPromptOrderly == AtPrompt \in Process /\ Orderly(AtPrompt)
<1>1. NoRemotes \in Config
  BY NoRemotesWhole DEF Whole
<1>2. AtPrompt \in Process
  BY <1>1 DEF AtPrompt, Process
<1>3. Orderly(AtPrompt)
  BY NoRemotesWhole DEF AtPrompt, Orderly
<1> QED
  BY <1>2, <1>3

LEMMA RemotesInitIInv == RemotesInit => RemotesIInv
<1> SUFFICES ASSUME RemotesInit PROVE RemotesIInv
  OBVIOUS
<1>1. file = NoRemotes /\ torn = FALSE /\ layers = {} /\ fileCommands \in 0..MaxFileCommands
  BY RemotesAssumption DEF RemotesInit
<1>2. NoRemotes \in Config
  BY NoRemotesWhole DEF Whole
<1>3. FileIInv
  BY <1>1, <1>2, NoRemotesWhole DEF FileIInv
<1>4. shell \in [Shell -> Process] /\ \A p \in Shell : Orderly(shell[p])
  BY AtPromptOrderly DEF RemotesInit
<1> QED
  BY <1>3, <1>4 DEF RemotesIInv

\* A step that changes one process.
LEMMA OneProcess ==
  ASSUME RemotesIInv, NEW p \in Shell, NEW s \in Process, Orderly(s),
         shell' = [shell EXCEPT ![p] = s], FileIInv'
  PROVE  RemotesIInv'
<1>1. shell' \in [Shell -> Process]
  BY DEF RemotesIInv
<1>2. \A q \in Shell : Orderly(shell'[q])
  BY DEF RemotesIInv
<1> QED
  BY <1>1, <1>2 DEF RemotesIInv, Orderly, Whole, Known, OfOneAdd, Config, Remote, Version

\* A process that ends, with or without an error, or is killed.
LEMMA StopOrderly ==
  ASSUME RemotesIInv, NEW p \in Shell, Stop(p), FileIInv'
  PROVE  RemotesIInv'
BY AtPromptOrderly, OneProcess DEF Stop

\* What no step of a process changes.
LEMMA FileStays ==
  ASSUME RemotesIInv, UNCHANGED <<file, torn, layers>>, fileCommands' \in 0..MaxFileCommands
  PROVE  FileIInv'
BY DEF RemotesIInv, FileIInv, Whole, Known, OfOneAdd, Config, Remote, Version

LEMMA BeginKeeps ==
  ASSUME RemotesIInv, NEW p \in Shell, Begin(p)
  PROVE  RemotesIInv'
<1>1. PICK version \in 1..MaxFileCommands : version = fileCommands'
  BY RemotesAssumption DEF Begin, RemotesIInv, FileIInv
<1>2. PICK op \in {"add", "remove", "use", "none"}, n \in Name \cup {NoName} :
        /\ op \in {"add", "remove"} => n # NoName
        /\ shell' = [shell EXCEPT ![p] = [AtPrompt EXCEPT !.pc = IF op = "none" THEN "connect" ELSE "load",
                                                          !.op = op, !.name = n, !.version = version]]
  BY <1>1 DEF Begin
<1> DEFINE s == [AtPrompt EXCEPT !.pc = IF op = "none" THEN "connect" ELSE "load",
                                 !.op = op, !.name = n, !.version = version]
<1>3. s \in Process
  <2>1. NoRemotes \in Config /\ version \in Nat
    BY <1>1, NoRemotesWhole, RemotesAssumption DEF Whole
  <2> QED
    BY <2>1 DEF Process, AtPrompt
<1>4. Orderly(s)
  BY <1>1, <1>2, NoRemotesWhole DEF Orderly, AtPrompt
<1>5. FileIInv'
  BY <1>1, FileStays DEF Begin
<1> QED
  BY <1>2, <1>3, <1>4, <1>5, OneProcess

\* The copy is whole where the file is.
LEMMA LoadKeeps ==
  ASSUME RemotesIInv, NEW p \in Shell, Load(p)
  PROVE  RemotesIInv'
<1>1. FileIInv'
  BY FileStays DEF Load, RemotesIInv, FileIInv
<1>2. CASE Stop(p)
  BY <1>1, <1>2, StopOrderly
<1>3. CASE ~Stop(p)
  <2>1. /\ ~(file = Garbled \/ Refused(file, shell[p].op, shell[p].name)) /\ shell[p].pc = "load"
        /\ \E cfg \in Changed(file, shell[p]) :
             shell' = [shell EXCEPT ![p].pc = "truncate", ![p].cfg = cfg, ![p].torn = torn]
    BY <1>3 DEF Load
  <2>2. PICK cfg \in Changed(file, shell[p]) :
          shell' = [shell EXCEPT ![p].pc = "truncate", ![p].cfg = cfg, ![p].torn = torn]
    BY <2>1
  <2>3. shell[p] \in Process /\ Orderly(shell[p])
    BY DEF RemotesIInv
  <2>4. file \in Config /\ torn \in BOOLEAN /\ (~torn => Whole(file))
    BY <2>1 DEF RemotesIInv, FileIInv
  <2>5. cfg \in Config /\ (~torn => Whole(cfg))
    BY <2>1, <2>2, <2>3, <2>4, ChangedWhole
  <2> DEFINE s == [shell[p] EXCEPT !.pc = "truncate", !.cfg = cfg, !.torn = torn]
  <2>6. s \in Process
    BY <2>3, <2>4, <2>5 DEF Process
  <2>7. s.cfg = cfg /\ s.torn = torn /\ s.pc = "truncate" /\ s.cached = shell[p].cached
    BY <2>3 DEF Process
  <2>8. shell[p].cached = NoRemote
    BY <2>1, <2>3 DEF Orderly
  <2>9. Orderly(s)
    BY <2>5, <2>7, <2>8 DEF Orderly
  <2>10. shell' = [shell EXCEPT ![p] = s]
    BY <2>2 DEF RemotesIInv
  <2> QED
    BY <1>1, <2>6, <2>9, <2>10, OneProcess
<1> QED
  BY <1>2, <1>3

\* A step that only moves the process's place.
LEMMA PlaceOrderly ==
  ASSUME NEW s \in Process, Orderly(s), s.pc \in {"truncate", "write"}, NEW pc \in {"write", "rest"}
  PROVE  [s EXCEPT !.pc = pc] \in Process /\ Orderly([s EXCEPT !.pc = pc])
BY DEF Process, Orderly

LEMMA TruncateKeeps ==
  ASSUME RemotesIInv, NEW p \in Shell, Truncate(p)
  PROVE  RemotesIInv'
<1>1. FileIInv'
  BY NoRemotesWhole DEF Truncate, RemotesIInv, FileIInv, Whole
<1>2. shell[p] \in Process /\ Orderly(shell[p])
  BY DEF RemotesIInv
<1>3. shell[p].pc = "truncate" /\ shell' = [shell EXCEPT ![p] = [shell[p] EXCEPT !.pc = "write"]]
  BY DEF Truncate, RemotesIInv
<1> QED
  BY <1>1, <1>2, <1>3, PlaceOrderly, OneProcess

\* A part of a text is torn, and so is what several leave together.
LEMMA WriteKeeps ==
  ASSUME RemotesIInv, NEW p \in Shell, WriteBeginning(p) \/ WriteFile(p)
  PROVE  RemotesIInv'
<1> DEFINE cfg == shell[p].cfg
           alone == layers = {cfg} \/ (shell[p].pc = "write" /\ layers = {})
<1>1. cfg \in Config /\ shell[p] \in Process /\ Orderly(shell[p])
  BY DEF RemotesIInv, Process
<1>2. layers \cup {cfg} \in SUBSET Config
  BY <1>1 DEF RemotesIInv, FileIInv
<1>3. layers' = layers \cup {cfg} /\ fileCommands' = fileCommands
  BY DEF WriteBeginning, WriteFile
<1>4. CASE WriteBeginning(p)
  <2>1. file' = Garbled \/ file' \in Config
    BY <1>1, <1>2, <1>4, BeginningsTyped, MixedTyped DEF WriteBeginning
  <2>2. FileIInv'
    BY <1>2, <1>3, <1>4, <2>1 DEF WriteBeginning, RemotesIInv, FileIInv
  <2>3. shell[p].pc = "write" /\ shell' = [shell EXCEPT ![p] = [shell[p] EXCEPT !.pc = "rest"]]
    BY <1>4 DEF WriteBeginning, RemotesIInv
  <2> QED
    BY <1>1, <2>2, <2>3, PlaceOrderly, OneProcess
<1>5. CASE WriteFile(p)
  <2>1. file' \in (IF alone THEN {cfg} ELSE Mixed(layers \cup {cfg})) /\ torn' = (~alone \/ shell[p].torn)
    BY <1>5 DEF WriteFile
  <2> HIDE DEF alone, cfg
  <2>2. file' = Garbled \/ file' \in Config
    BY <1>1, <1>2, <2>1, MixedTyped
  <2>3. torn' \in BOOLEAN /\ (~torn' => file' = cfg /\ ~shell[p].torn)
    BY <1>1, <2>1 DEF Process
  <2>4. ~torn' => Whole(file)'
    BY <1>1, <2>3 DEF Orderly, Whole, Known, OfOneAdd, Config, Remote, Version, cfg
  <2>5. FileIInv'
    BY <1>2, <1>3, <2>2, <2>3, <2>4 DEF RemotesIInv, FileIInv
  <2> QED
    BY <1>5, <2>5, StopOrderly DEF WriteFile
<1> QED
  BY <1>4, <1>5

\* The process takes a remote of the file, whole where the file is.
LEMMA ConnectKeeps ==
  ASSUME RemotesIInv, NEW p \in Shell, LoadActiveOnce(p)
  PROVE  RemotesIInv'
<1>1. FileIInv'
  BY FileStays DEF LoadActiveOnce, RemotesIInv, FileIInv
<1>2. PICK r : /\ r = NoRemote \/ (file # Garbled /\ r \in file.remotes)
               /\ shell' = [shell EXCEPT ![p].cached = r, ![p].torn = torn, ![p].pc = "done"]
  BY DEF LoadActiveOnce
<1>3. r \in Remote \cup {NoRemote} /\ (~torn /\ r # NoRemote => OfOneAdd(r))
  BY <1>2 DEF RemotesIInv, FileIInv, Whole, Config
<1>4. shell[p] \in Process /\ torn \in BOOLEAN /\ Whole(shell[p].cfg)
  BY DEF RemotesIInv, FileIInv, LoadActiveOnce, Orderly
<1> DEFINE s == [shell[p] EXCEPT !.cached = r, !.torn = torn, !.pc = "done"]
<1>5. s \in Process /\ Orderly(s)
  BY <1>3, <1>4 DEF Process, Orderly
<1>6. shell' = [shell EXCEPT ![p] = s]
  BY <1>2 DEF RemotesIInv
<1> QED
  BY <1>1, <1>5, <1>6, OneProcess

LEMMA RemotesStepIInv == RemotesIInv /\ [RemotesNext]_remoteVars => RemotesIInv'
<1> SUFFICES ASSUME RemotesIInv, [RemotesNext]_remoteVars PROVE RemotesIInv'
  OBVIOUS
<1>1. CASE UNCHANGED remoteVars
  BY <1>1 DEF remoteVars, RemotesIInv, FileIInv, Orderly, Whole, Known, OfOneAdd, Config, Remote, Version
<1>2. ASSUME NEW p \in Shell, Cut(p) PROVE RemotesIInv'
  <2>1. FileIInv'
    BY <1>2, FileStays DEF Cut, RemotesIInv, FileIInv
  <2> QED
    BY <1>2, <2>1, StopOrderly DEF Cut
<1> QED
  BY <1>1, <1>2, BeginKeeps, LoadKeeps, TruncateKeeps, WriteKeeps, ConnectKeeps DEF RemotesNext

-----------------------------------------------------------------------------
(* The theorems.                                                           *)

LEMMA RemotesAlwaysIInv == RemotesSpec => []RemotesIInv
BY RemotesInitIInv, RemotesStepIInv, PTL DEF RemotesSpec

\* A file and processes that are whole are what remote.go lets them be.
LEMMA RemotesPromise == RemotesIInv => RemotesTypeOK /\ ActiveIsWhole
<1> SUFFICES ASSUME RemotesIInv PROVE RemotesTypeOK /\ ActiveIsWhole
  OBVIOUS
<1>1. \A p \in Shell : /\ shell[p].cfg \in Config /\ shell[p].cached \in Remote \cup {NoRemote}
                       /\ ~shell[p].torn /\ shell[p].cached # NoRemote => OfOneAdd(shell[p].cached)
  BY DEF RemotesIInv, Process, Orderly
<1>2. RemotesTypeOK
  BY <1>1 DEF RemotesIInv, FileIInv, RemotesTypeOK
<1>3. ~torn => Whole(file) /\ file # Garbled
  BY RemotesAssumption DEF RemotesIInv, FileIInv, Whole
<1> QED
  BY <1>1, <1>2, <1>3 DEF ActiveIsWhole, Whole

\* The file and the processes hold what remote.go lets them hold.
THEOREM RemotesTypeCorrect == RemotesSpec => []RemotesTypeOK
BY RemotesAlwaysIInv, RemotesPromise, PTL

\* However many kd remote commands overlap between load and save, and wherever one is
\* killed before it writes: a file that was not torn, or has been saved since from a
\* copy that was not, can be read, has one remote per name, with URL and token of one
\* add, and an active one that exists; and so has the remote a process connects to.
THEOREM RemotesActiveIsWhole == RemotesSpec => []ActiveIsWhole
BY RemotesAlwaysIInv, RemotesPromise, PTL

-----------------------------------------------------------------------------
(* Requests for a list.                                                    *)

\* A text without a separator is one piece.
LEMMA OnePiece ==
  ASSUME NEW text \in Seq(Piece), Len(text) = 1
  PROVE  text = <<text[1]>> /\ text[1] \in Piece
OBVIOUS

\* What is one piece longer than a text is the text and that piece.
LEMMA OneLonger ==
  ASSUME NEW text \in Seq(Piece), NEW piece \in Seq(Piece), NEW longer \in Seq(Piece),
         Len(piece) = 1, Len(longer) = Len(text) + 1, \A j \in 1..Len(text) : longer[j] = text[j],
         longer[Len(longer)] = piece[1]
  PROVE  longer = text \o piece
<1>1. /\ text \o piece \in Seq(Piece)
      /\ Len(text \o piece) = Len(text) + Len(piece)
      /\ \A j \in 1..Len(text) + Len(piece) : (text \o piece)[j] = IF j <= Len(text) THEN text[j] ELSE piece[j - Len(text)]
  BY ConcatProperties
<1>2. Len(text) \in Nat
  OBVIOUS
<1>3. ASSUME NEW j \in 1..Len(longer) PROVE longer[j] = (text \o piece)[j]
  <2>1. CASE j = Len(longer)
    <3>1. j \in 1..Len(text) + Len(piece) /\ ~ (j <= Len(text)) /\ j - Len(text) = 1
      BY <2>1, <1>2
    <3> QED
      BY <3>1, <2>1, <1>1
  <2>2. CASE j # Len(longer)
    <3>1. j \in 1..Len(text) + Len(piece) /\ j <= Len(text) /\ j \in 1..Len(text)
      BY <2>2, <1>2
    <3> QED
      BY <3>1, <1>1
  <2> QED
    BY <2>1, <2>2
<1> QED
  BY <1>1, <1>3, SeqEqual

\* Joining texts without a comma in them makes one text with a piece for each.
LEMMA JoinOfPlain ==
  ASSUME NEW texts \in Seq(ListText), texts # <<>>, \A i \in DOMAIN texts : Len(texts[i]) = 1
  PROVE  Join(texts) = [i \in 1..Len(texts) |-> texts[i][1]]
<1> DEFINE n == Len(texts)
           joining == [i \in 1..n |-> [j \in 1..i |-> texts[j][1]]]
           Joins(f) == f = [i \in 1..n |-> IF i = 1 THEN texts[i] ELSE f[i-1] \o texts[i]]
<1>1. n \in Nat \ {0} /\ DOMAIN texts = 1..n
  OBVIOUS
<1>2. ASSUME NEW i \in 1..n PROVE texts[i] \in Seq(Piece) /\ Len(texts[i]) = 1 /\ texts[i] = <<texts[i][1]>> /\ texts[i][1] \in Piece
  <2>1. texts[i] \in ListText
    BY ElementOfSeq
  <2>2. texts[i] \in Seq(Piece)
    BY <2>1 DEF ListText
  <2>3. Len(texts[i]) = 1
    BY <1>1
  <2> QED
    BY <2>2, <2>3, OnePiece
<1>3. joining = [i \in 1..n |-> joining[i]] /\ joining[n] = [i \in 1..n |-> texts[i][1]]
  BY <1>1
<1>4. \A i \in 1..n : joining[i] \in Seq(Piece) /\ Len(joining[i]) = i /\ \A j \in 1..i : joining[i][j] = texts[j][1]
  BY <1>1, <1>2
<1>5. joining[1] = texts[1]
  <2>1. joining[1] = <<texts[1][1]>>
    BY <1>1
  <2> QED
    BY <2>1, <1>1, <1>2
<1> HIDE DEF joining
<1>6. ASSUME NEW i \in 2..n PROVE joining[i] = joining[i-1] \o texts[i]
  <2>1. i \in 1..n /\ i-1 \in 1..n
    BY <1>1
  <2>2. joining[i-1] \in Seq(Piece) /\ Len(joining[i-1]) = i-1
    BY <2>1, <1>4
  <2>3. texts[i] \in Seq(Piece) /\ Len(texts[i]) = 1
    BY <2>1, <1>2
  <2>4. joining[i] \in Seq(Piece) /\ Len(joining[i]) = i /\ \A j \in 1..i : joining[i][j] = texts[j][1]
    BY <2>1, <1>4
  <2>5. \A j \in 1..i-1 : joining[i-1][j] = texts[j][1]
    BY <2>1, <1>4
  <2>6. Len(joining[i]) = Len(joining[i-1]) + 1 /\ \A j \in 1..Len(joining[i-1]) : joining[i][j] = joining[i-1][j]
    BY <2>1, <2>2, <2>4, <2>5
  <2>7. joining[i][Len(joining[i])] = texts[i][1]
    BY <2>1, <2>4
  <2> QED
    BY <2>2, <2>3, <2>4, <2>6, <2>7, OneLonger
<1>7. Joins(joining)
  <2>1. \A i \in 1..n : joining[i] = IF i = 1 THEN texts[i] ELSE joining[i-1] \o texts[i]
    <3>1. ASSUME NEW i \in 1..n PROVE joining[i] = IF i = 1 THEN texts[i] ELSE joining[i-1] \o texts[i]
      <4>1. CASE i = 1
        BY <4>1, <1>5
      <4>2. CASE i # 1
        <5>1. i \in 2..n
          BY <4>2, <1>1
        <5> QED
          BY <4>2, <5>1, <1>6
      <4> QED
        BY <4>1, <4>2
    <3> QED
      BY <3>1
  <2> QED
    BY <2>1, <1>3
<1>8. ASSUME NEW f, Joins(f) PROVE f = joining
  <2> DEFINE off == {i \in 1..n : f[i] # joining[i]}
  <2>1. \A i \in 1..n : f[i] = IF i = 1 THEN texts[i] ELSE f[i-1] \o texts[i]
    BY <1>8
  <2>2. ASSUME off # {} PROVE FALSE
    <3>1. off \subseteq Nat
      BY <1>1
    <3> HIDE DEF off
    <3>2. PICK i \in off : \A m \in off : i <= m
      BY <2>2, <3>1, LeastNatural
    <3> USE DEF off
    <3>3. CASE i = 1
      BY <3>2, <3>3, <2>1, <1>5
    <3>4. CASE i # 1
      <4>1. i \in 2..n /\ i-1 \in 1..n /\ i-1 \notin off
        BY <3>2, <3>4, <1>1
      <4>2. f[i] = f[i-1] \o texts[i] /\ f[i-1] = joining[i-1]
        BY <4>1, <3>4, <2>1
      <4> QED
        BY <4>1, <4>2, <1>6
    <3> QED
      BY <3>3, <3>4
  <2>3. f = [i \in 1..n |-> f[i]]
    BY <1>8
  <2> QED
    BY <2>2, <2>3, <1>3
<1>9. FlattenSeq(texts) = (CHOOSE f : Joins(f))[n]
  BY <1>1 DEF FlattenSeq
<1>10. (CHOOSE f : Joins(f)) = joining
  <2> HIDE DEF Joins
  <2> QED
    BY <1>7, <1>8
<1> QED
  BY <1>3, <1>9, <1>10 DEF Join

\* A list parameter of texts without a comma is read back as it was sent.
LEMMA ListCarried ==
  ASSUME NEW texts \in Seq(ListText), \A i \in DOMAIN texts : Len(texts[i]) = 1
  PROVE  (IF ListParam(texts) = NotSet THEN <<>> ELSE Split(ListParam(texts))) = texts
<1>1. CASE texts = <<>>
  BY <1>1 DEF ListParam
<1>2. CASE texts # <<>>
  <2>1. Join(texts) = [i \in 1..Len(texts) |-> texts[i][1]]
    BY <1>2, JoinOfPlain
  <2>2. \A i \in 1..Len(texts) : texts[i] \in Seq(Piece) /\ texts[i] = <<texts[i][1]>> /\ texts[i][1] \in Piece
    BY OnePiece DEF ListText
  <2>3. Join(texts) \in Seq(Piece)
    BY <2>1, <2>2
  <2>4. Split(Join(texts)) = [i \in 1..Len(texts) |-> texts[i]]
    BY <2>1, <2>2 DEF Split
  <2> QED
    BY <1>2, <2>3, <2>4, RequestsAssumption DEF ListParam
<1> QED
  BY <1>1, <1>2

\* A number sent when it is positive is read back as it was.
LEMMA NumberCarried ==
  ASSUME NEW k \in Nat
  PROVE  (IF NumberParam(k) = NotSet THEN 0 ELSE NumberParam(k)) = k
BY RequestsAssumption DEF NumberParam

\* A field's value keeps its = signs: the parameter is cut at the first one.
LEMMA FieldsCarried ==
  ASSUME NEW F \in FieldSet
  PROVE  {<<Head(g), Tail(g)>> : g \in {<<f[1]>> \o f[2] : f \in F}} = F
<1>1. ASSUME NEW f \in F PROVE <<Head(<<f[1]>> \o f[2]), Tail(<<f[1]>> \o f[2])>> = f
  <2>1. f[1] \in Piece /\ f[2] \in Seq(Piece) /\ f = <<f[1], f[2]>>
    BY DEF FieldSet
  <2>2. <<f[1]>> \o f[2] \in Seq(Piece) /\ <<f[1]>> \o f[2] # <<>>
    BY <2>1
  <2>3. Head(<<f[1]>> \o f[2]) = f[1]
    BY <2>1
  <2>4. Tail(<<f[1]>> \o f[2]) = f[2]
    BY <2>1
  <2> QED
    BY <2>1, <2>3, <2>4
<1> QED
  BY <1>1

\* What kd list asks for, from a command line.
LEMMA FlagsAsk == \A f \in Flags : FromFlags(f) \in ListRequest
<1> SUFFICES ASSUME NEW f \in Flags PROVE FromFlags(f) \in ListRequest
  OBVIOUS
<1>1. f \in ListFlags
  BY RequestsAssumption
<1>2. <<"issue">> \in ListText
  <2>1. \A x \in Piece : <<x>> \in Seq(Piece) /\ Len(<<x>>) = 1
    OBVIOUS
  <2> QED
    BY <2>1, RequestsAssumption DEF ListText
<1>3. Issues \in Seq(ListText)
  BY <1>2 DEF Issues
<1>4. (IF f.project # NotSet /\ ~f.allProjects THEN <<f.project>> ELSE <<>>) \o f.labels \in Seq(ListText)
  <2>1. f.labels \in Seq(ListText)
    BY <1>1 DEF ListFlags
  <2>2. f.project # NotSet => <<f.project>> \in Seq(ListText)
    BY <1>1 DEF ListFlags
  <2>3. (IF f.project # NotSet /\ ~f.allProjects THEN <<f.project>> ELSE <<>>) \in Seq(ListText)
    BY <2>2
  <2> QED
    BY <2>1, <2>3, ConcatProperties
<1> QED
  BY <1>1, <1>3, <1>4 DEF FromFlags, ListRequest, ListFlags

\* A type that is no deprecated name stays as it is.
LEMMA PlainTypesStay ==
  ASSUME NEW texts \in Seq(ListText), \A i \in DOMAIN texts : texts[i] \notin DOMAIN Alias
  PROVE  [i \in DOMAIN texts |-> Canonical(texts[i])] = texts
BY DEF Canonical

\* The query string carries a plain request to the server whole.
LEMMA QueryCarries ==
  ASSUME NEW req \in ListRequest, Plain(req)
  PROVE  Parsed(QueryString(req)) = req
<1>1. /\ req.status \in Seq(ListText) /\ req.types \in Seq(ListText) /\ req.kinds \in Seq(ListText)
      /\ req.labels \in Seq(ListText) /\ req.limit \in Nat /\ req.offset \in Nat
      /\ req.fields \in FieldSet
  BY DEF ListRequest
<1>2. \A texts \in {req.status, req.types, req.kinds, req.labels} : \A i \in DOMAIN texts : Len(texts[i]) = 1
  BY DEF Plain
<1> DEFINE read(text) == IF text = NotSet THEN <<>> ELSE Split(text)
           number(n) == IF n = NotSet THEN 0 ELSE n
<1>3. /\ read(ListParam(req.status)) = req.status /\ read(ListParam(req.types)) = req.types
      /\ read(ListParam(req.kinds)) = req.kinds /\ read(ListParam(req.labels)) = req.labels
  BY <1>1, <1>2, ListCarried
<1>4. number(NumberParam(req.limit)) = req.limit /\ number(NumberParam(req.offset)) = req.offset
  BY <1>1, NumberCarried
<1>5. {<<Head(g), Tail(g)>> : g \in {<<f[1]>> \o f[2] : f \in req.fields}} = req.fields
  BY <1>1, FieldsCarried
<1>6. Parsed(QueryString(req)) =
        [status |-> read(ListParam(req.status)), types |-> read(ListParam(req.types)),
         kinds |-> read(ListParam(req.kinds)), labels |-> read(ListParam(req.labels)), assignee |-> req.assignee,
         priority |-> req.priority, noOpenDeps |-> req.noOpenDeps,
         fields |-> {<<Head(g), Tail(g)>> : g \in {<<f[1]>> \o f[2] : f \in req.fields}},
         limit |-> number(NumberParam(req.limit)), offset |-> number(NumberParam(req.offset))]
  BY DEF Parsed, QueryString, PriorityParam
<1>7. Parsed(QueryString(req)) =
        [status |-> req.status, types |-> req.types, kinds |-> req.kinds, labels |-> req.labels,
         assignee |-> req.assignee, priority |-> req.priority, noOpenDeps |-> req.noOpenDeps,
         fields |-> req.fields, limit |-> req.limit, offset |-> req.offset]
  <2> HIDE DEF read, number
  <2> QED
    BY <1>3, <1>4, <1>5, <1>6
<1> QED
  BY <1>7 DEF ListRequest

\* The shim carries a plain request whole when it has none of what the shim leaves out.
LEMMA ConnectCarries ==
  ASSUME NEW req \in ListRequest, req.labels = <<>>, req.priority = NotSet, ~req.noOpenDeps
  PROVE  ConnectQuery(req) = QueryString(req)
<1>1. req.noOpenDeps = FALSE
  BY DEF ListRequest
<1>2. ListParam(req.labels) = NotSet
  BY DEF ListParam
<1>3. QueryString(req).labels = NotSet /\ QueryString(req).priority = NotSet /\ QueryString(req).noOpenDeps = FALSE
  BY <1>1, <1>2 DEF QueryString, PriorityParam
<1> QED
  BY <1>3 DEF ConnectQuery, QueryString

\* The request is one a client makes, and the filter is what its way made of it.
RequestsIInv ==
  /\ asked \in ListRequest
  /\ \/ filter = Nothing
     \/ filter = [way |-> "http", criteria |-> Parsed(QueryString(asked))]
     \/ filter = [way |-> "grpc", criteria |-> Received(Message(asked))]
     \/ filter = [way |-> "connect", criteria |-> Parsed(ConnectQuery(asked))]

\* The invariant says that the criteria are the ones asked for.
LEMMA RequestsPromise == RequestsIInv => FilterAsAsked
<1> SUFFICES ASSUME RequestsIInv, filter # Nothing PROVE FilterAsAsked
  BY DEF FilterAsAsked
<1> DEFINE meant == [asked EXCEPT !.types = [i \in DOMAIN @ |-> Canonical(@[i])]]
<1>1. asked \in ListRequest
  BY DEF RequestsIInv
<1>2. ASSUME Plain(asked) PROVE meant = asked
  <2>1. [i \in DOMAIN asked.types |-> Canonical(asked.types[i])] = asked.types
    <3>1. asked.types \in Seq(ListText) /\ \A i \in DOMAIN asked.types : asked.types[i] \notin DOMAIN Alias
      BY <1>1, <1>2 DEF ListRequest, Plain
    <3> QED
      BY <3>1, PlainTypesStay
  <2> QED
    BY <1>1, <2>1 DEF ListRequest
<1>3. CASE filter = [way |-> "http", criteria |-> Parsed(QueryString(asked))]
  <2>1. filter.way = "http" /\ (Plain(asked) => filter.criteria = meant)
    BY <1>1, <1>2, <1>3, QueryCarries
  <2> QED
    BY <2>1 DEF FilterAsAsked
<1>4. CASE filter = [way |-> "grpc", criteria |-> Received(Message(asked))]
  <2>1. ASSUME asked.fields = {}, ~asked.noOpenDeps PROVE Message(asked) = asked
    <3>1. asked.noOpenDeps = FALSE
      BY <1>1, <2>1 DEF ListRequest
    <3> QED
      BY <1>1, <2>1, <3>1 DEF Message, ListRequest
  <2>2. filter.way = "grpc" /\ (asked.fields = {} /\ ~asked.noOpenDeps => filter.criteria = meant)
    BY <1>4, <2>1 DEF Received
  <2> QED
    BY <2>2 DEF FilterAsAsked
<1>5. CASE filter = [way |-> "connect", criteria |-> Parsed(ConnectQuery(asked))]
  <2>1. filter.way = "connect"
    BY <1>5
  <2>2. ASSUME Plain(asked), asked.labels = <<>>, asked.priority = NotSet, ~asked.noOpenDeps
        PROVE  filter.criteria = meant
    BY <1>1, <1>2, <1>5, <2>2, QueryCarries, ConnectCarries
  <2> QED
    BY <2>1, <2>2 DEF FilterAsAsked
<1> QED
  BY <1>3, <1>4, <1>5 DEF RequestsIInv

\* At the start a client has been handed a request.
LEMMA RequestsInitIInv == RequestsInit => RequestsIInv
BY FlagsAsk, RequestsAssumption DEF RequestsInit, RequestsIInv

\* Each way makes its own filter of the request.
LEMMA RequestsStep == RequestsIInv /\ [RequestsNext]_requestVars => RequestsIInv'
<1> SUFFICES ASSUME RequestsIInv, [RequestsNext]_requestVars PROVE RequestsIInv'
  OBVIOUS
<1>1. asked' = asked
  BY DEF RequestsNext, requestVars
<1>2. /\ Parsed(QueryString(asked))' = Parsed(QueryString(asked))
      /\ Received(Message(asked))' = Received(Message(asked))
      /\ Parsed(ConnectQuery(asked))' = Parsed(ConnectQuery(asked))
  BY <1>1
<1> QED
  BY <1>1 DEF RequestsIInv, RequestsNext, requestVars, ByHTTP, ByGRPC, ByConnect

\* Whatever the request, whatever way it goes, the server queries with the criteria
\* the client was asked for, as far as that way carries them.
THEOREM RequestsFilterAsAsked == RequestsSpec => []FilterAsAsked
<1>1. RequestsSpec => []RequestsIInv
  BY RequestsInitIInv, RequestsStep, PTL DEF RequestsSpec
<1> QED
  BY <1>1, RequestsPromise, PTL

-----------------------------------------------------------------------------
(* All of it: one part at work in each behaviour.                          *)

\* Burn and squash are not what a ready request meets: where they run none is made.
MoleculesInCast ==
  /\ MoleculesIInv
  /\ IF cast = "molecules" THEN query = NoQuery ELSE ReadyIInv

\* The invariants of the parts.
AgentsIInv ==
  /\ ClaimsIInv /\ JacksIInv /\ DecisionsIInv /\ ConfigsIInv /\ ConfigsTyped
  /\ FormulasIInv /\ RemotesIInv /\ RequestsIInv /\ MoleculesInCast

\* A step is one of the part at work, and leaves the others alone.
LEMMA AgentsSteps ==
  [Next]_agentsVars =>
    /\ [ClaimsNext]_claimVars /\ [JacksNext]_jackVars /\ [DecisionsNext]_decisionVars /\ [ConfigsNext]_configVars
    /\ [FormulasNext]_formulaVars /\ [RemotesNext]_remoteVars /\ [RequestsNext]_requestVars
    /\ cast' = cast /\ [MoleculesNext]_moleculeVars
    /\ IF cast = "molecules" THEN UNCHANGED query ELSE [ReadyNext]_readyVars
<1>1. ReadyNext => [MoleculesNext]_moleculeVars
  BY ReadyStepsMolecules
<1>2. UNCHANGED readyVars => UNCHANGED moleculeVars /\ UNCHANGED query
  BY DEF readyVars
<1>3. UNCHANGED agentsVars =>
        UNCHANGED <<cast, claimVars, jackVars, decisionVars, readyVars, configVars, remoteVars, requestVars, formulaVars>>
  BY DEF agentsVars
<1> QED
  BY <1>1, <1>2, <1>3 DEF Next

\* Burn and squash in their cast, ready requests in the others.
LEMMA MoleculesInCastStep ==
  ASSUME MoleculesInCast, cast' = cast, [MoleculesNext]_moleculeVars,
         IF cast = "molecules" THEN UNCHANGED query ELSE [ReadyNext]_readyVars
  PROVE  MoleculesInCast'
<1>1. MoleculesIInv'
  BY MoleculesStep DEF MoleculesInCast
<1>2. CASE cast = "molecules"
  BY <1>1, <1>2 DEF MoleculesInCast, NoQuery
<1>3. CASE cast # "molecules"
  <2>1. ReadyIInv'
    BY <1>3, ReadyStep DEF MoleculesInCast
  <2> QED
    BY <1>1, <1>3, <2>1 DEF MoleculesInCast
<1> QED
  BY <1>2, <1>3

\* What the parts promise about molecules, in either cast.
LEMMA MoleculesInCastPromise ==
  MoleculesInCast => ReadyTypeOK /\ EndedMeansDone /\ ReadyIsExact /\ StepsInOrder
<1> SUFFICES ASSUME MoleculesInCast PROVE ReadyTypeOK /\ EndedMeansDone /\ ReadyIsExact /\ StepsInOrder
  OBVIOUS
<1>1. MoleculesTypeOK /\ EndedMeansDone
  BY MoleculesPromise DEF MoleculesInCast
<1>2. CASE cast = "molecules"
  <2>1. query = NoQuery
    BY <1>2 DEF MoleculesInCast
  <2>2. query \in Query /\ query.at = "idle"
    BY <2>1 DEF Query, NoQuery
  <2> QED
    BY <1>1, <2>2 DEF ReadyTypeOK, ReadyIsExact, StepsInOrder
<1>3. CASE cast # "molecules"
  <2>1. ReadyIInv
    BY <1>3 DEF MoleculesInCast
  <2>2. query \in Query
    BY <2>1 DEF ReadyIInv
  <2> QED
    BY <1>1, <2>1, <2>2, ReadyPromise DEF ReadyTypeOK
<1> QED
  BY <1>2, <1>3

\* The clients together, as the run agents has them: for every set of agents, sessions,
\* beads, formulas, configs, remotes and requests the state holds what the types allow,
\* and every part keeps its promise.
THEOREM AgentsCorrect ==
  Spec => [](/\ TypeOK /\ OneClaim /\ JackKeepsRecord /\ ClosedHasOutcome /\ EndedMeansDone /\ ReadyIsExact
             /\ StepsInOrder /\ FieldsConform /\ ActiveIsWhole /\ FilterAsAsked /\ FormulaIsOneFile)
<1>1. Init => AgentsIInv
  <2> SUFFICES ASSUME Init PROVE AgentsIInv
    OBVIOUS
  <2>1. ClaimsInit /\ JacksInit /\ DecisionsInit /\ ReadyInit /\ ConfigsInit /\ RemotesInit /\ RequestsInit /\ FormulasInit
    BY DEF Init
  <2>2. MoleculesInCast
    BY <2>1, MoleculesInitially, ReadyInitially DEF MoleculesInCast, ReadyInit
  <2> QED
    BY <2>1, <2>2, ClaimsInitIInv, JacksInitIInv, DecisionsInitIInv, ConfigsInitIInv, ConfigsInitTyped,
       FormulasInitIInv, RemotesInitIInv, RequestsInitIInv DEF AgentsIInv
<1>2. AgentsIInv /\ [Next]_agentsVars => AgentsIInv'
  BY AgentsSteps, ClaimsStep, JacksStep, DecisionsStep, ConfigsStep, ConfigsTypedStep, FormulasStep, RemotesStepIInv,
     RequestsStep, MoleculesInCastStep DEF AgentsIInv
<1>3. AgentsIInv => TypeOK
  BY ClaimsPromise, RemotesPromise, ConfigsTypes, MoleculesInCastPromise
     DEF AgentsIInv, TypeOK, JacksIInv, DecisionsIInv
<1>4. AgentsIInv => /\ OneClaim /\ JackKeepsRecord /\ ClosedHasOutcome /\ EndedMeansDone /\ ReadyIsExact
                    /\ StepsInOrder /\ FieldsConform /\ ActiveIsWhole /\ FilterAsAsked /\ FormulaIsOneFile
  BY ClaimsPromise, JacksRecorded, MoleculesInCastPromise, ConfigsPromise, RemotesPromise, RequestsPromise,
     FormulasPromise, DecisionsPromise DEF AgentsIInv
<1> QED
  BY <1>1, <1>2, <1>3, <1>4, PTL DEF Spec
=============================================================================
