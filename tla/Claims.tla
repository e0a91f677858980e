------------------------------- MODULE Claims -------------------------------
(***************************************************************************)
(* The kd commands by which agents take, hand back and finish work: claim  *)
(* with its three checks before the update, unclaim, done, close, reopen,  *)
(* defer, undefer, update, create, label, and orphans --fix.               *)
(*                                                                         *)
(* A session runs one command at a time; two sessions may act for the same *)
(* agent.  A command with several ids is the same command once per id, cut *)
(* short by the first error.  Each remote call is one step: what the       *)
(* server does between its statements is the subject of Beads.  Any call   *)
(* may fail before it had an effect, or lose its answer after.             *)
(***************************************************************************)
EXTENDS Naturals, FiniteSets

CONSTANTS
  Agent, Session,
  Actor,        \* [Session -> Agent], the actor a session acts for
  AgentProject, \* [Agent -> Project \cup {NoProject}], BOAT_PROJECT
  Bead,
  TypeOf,       \* [Bead -> {"task", "epic", "jack"}], what the bead is created as
  Initial,      \* beads that exist at the start
  Project, NoProject,
  ListLimit,    \* the Limit of checkNoClaimed (5)
  MaxCommands,  \* bound: commands started
  Referenced,   \* beads named in a commit message
  NoAgent, NoRow, Idle

VARIABLES
  rows,         \* the beads
  cmd,          \* per session: the command it runs
  commands,     \* number of commands started
  excused       \* history: agents whose single claim was bypassed, raced or not checked

claimVars == <<rows, cmd, commands, excused>>

IsIssue(b) == TypeOf[b] # "jack"   \* kindOf: jacks are data
Exists(b) == rows[b] # NoRow
Claimed(a) == {b \in Bead : /\ Exists(b) /\ IsIssue(b)
                            /\ rows[b].status = "in_progress" /\ rows[b].assignee = a}

ClaimRow == [status : {"open", "in_progress", "deferred", "closed"},
             assignee : Agent \cup {NoAgent}, project : Project \cup {NoProject}]
Command == [op : {"claim"}, bead : Bead, at : {"list", "epic", "project", "update"},
            checked : BOOLEAN, alone : BOOLEAN]
           \cup [op : {"orphans"}, todo : SUBSET Bead]
           \cup [op : {"done"}, bead : Bead]

-----------------------------------------------------------------------------
(* Calls.                                                                  *)

\* UpdateBead with a status, an assignee or both (Keep leaves a field alone).
Keep == "keep"

ASSUME ClaimsAssumption ==
  /\ IsFiniteSet(Bead) /\ Actor \in [Session -> Agent]
  /\ Initial \subseteq Bead /\ Referenced \subseteq Bead
  /\ MaxCommands \in Nat /\ ListLimit \in Nat
  /\ NoRow \notin ClaimRow /\ Keep \notin Agent

Patched(row, status, assignee) ==
  [row EXCEPT !.status = IF status = Keep THEN @ ELSE status,
              !.assignee = IF assignee = Keep THEN @ ELSE assignee]

\* A claim that was checked is raced by whatever else gives its agent an issue.
Raced(s, t, gained) ==
  IF t # s /\ cmd[t] # Idle /\ cmd[t].op = "claim" /\ Actor[t] \in gained
  THEN [cmd[t] EXCEPT !.alone = FALSE] ELSE cmd[t]

\* The row of b becomes row, and session s goes on with next.
Write(s, b, row, next) ==
  /\ rows' = [rows EXCEPT ![b] = row]
  /\ LET gained == {a \in Agent : Claimed(a)' \ Claimed(a) # {}}
     IN cmd' = [t \in Session |-> IF t = s THEN next ELSE Raced(s, t, gained)]

Goes(s, next) == cmd' = [cmd EXCEPT ![s] = next] /\ UNCHANGED rows

\* A command of one call: it takes effect or not.
Call(s, b, row) ==
  /\ cmd[s] = Idle /\ commands < MaxCommands
  /\ commands' = commands + 1
  /\ Write(s, b, row, Idle)

-----------------------------------------------------------------------------
(* claim                                                                   *)

Claim(s, b, force) ==
  /\ cmd[s] = Idle /\ commands < MaxCommands
  /\ commands' = commands + 1
  /\ Goes(s, [op |-> "claim", bead |-> b, at |-> IF force THEN "update" ELSE "list",
              checked |-> FALSE, alone |-> TRUE])
  /\ UNCHANGED excused

At(s, at) == cmd[s] # Idle /\ cmd[s].op = "claim" /\ cmd[s].at = at

\* (fault) the list asks for open beads
ListedOpen(a) ==
  LET mine == {b \in Bead : Exists(b) /\ rows[b].status = "open" /\ rows[b].assignee = a}
  IN {L \in SUBSET mine : Cardinality(L) = IF Cardinality(mine) < ListLimit
                                           THEN Cardinality(mine) ELSE ListLimit}

\* What the list call answers: at most ListLimit beads in progress of the actor,
\* of any kind, whichever come first.
InProgress(a) == {b \in Bead : Exists(b) /\ rows[b].status = "in_progress" /\ rows[b].assignee = a}
Listed(a) ==
  {L \in SUBSET InProgress(a) :
     Cardinality(L) = IF Cardinality(InProgress(a)) < ListLimit
                      THEN Cardinality(InProgress(a)) ELSE ListLimit}

Crowded(a) == Cardinality(InProgress(a)) > ListLimit

\* An issue among them ends the command; a failed list does not.
CheckNoClaimed(s) ==
  /\ At(s, "list")
  /\ \/ \E L \in Listed(Actor[s]) :
          /\ \E b \in L : IsIssue(b)
          /\ Goes(s, Idle)
     \/ \E L \in Listed(Actor[s]) :
          /\ \A b \in L : ~IsIssue(b)
          /\ Goes(s, [cmd[s] EXCEPT !.at = "epic", !.checked = ~Crowded(Actor[s])])
     \/ Goes(s, [cmd[s] EXCEPT !.at = "epic"])
  /\ UNCHANGED <<commands, excused>>

\* GetBead; a failed read lets the claim go on, in this check and the next.
CheckNotEpic(s) ==
  /\ At(s, "epic")
  /\ \/ /\ Exists(cmd[s].bead) /\ TypeOf[cmd[s].bead] = "epic"
        /\ Goes(s, Idle)
     \/ /\ ~Exists(cmd[s].bead) \/ TypeOf[cmd[s].bead] # "epic"
        /\ Goes(s, [cmd[s] EXCEPT !.at = "project"])
     \/ Goes(s, [cmd[s] EXCEPT !.at = "project"])
  /\ UNCHANGED <<commands, excused>>

OtherProject(s) ==
  LET row == rows[cmd[s].bead]
  IN /\ AgentProject[Actor[s]] # NoProject
     /\ row # NoRow /\ row.project \notin {NoProject, AgentProject[Actor[s]]}

CheckProjectMatch(s) ==
  /\ At(s, "project")
  /\ \/ /\ OtherProject(s)
        /\ Goes(s, Idle)
     \/ /\ ~OtherProject(s)
        /\ Goes(s, [cmd[s] EXCEPT !.at = "update"])
     \/ /\ AgentProject[Actor[s]] # NoProject
        /\ Goes(s, [cmd[s] EXCEPT !.at = "update"])
  /\ UNCHANGED <<commands, excused>>

\* The update overwrites the assignee and the status, whatever they are.
ClaimUpdate(s) ==
  /\ At(s, "update")
  /\ \/ /\ Exists(cmd[s].bead)
        /\ Write(s, cmd[s].bead, Patched(rows[cmd[s].bead], "in_progress", Actor[s]), Idle)
        /\ excused' = IF cmd[s].checked /\ cmd[s].alone THEN excused ELSE excused \cup {Actor[s]}
     \/ Goes(s, Idle) /\ UNCHANGED excused
  /\ UNCHANGED commands

-----------------------------------------------------------------------------
(* Commands of one call.                                                   *)

Unclaim(s, b) ==
  /\ Exists(b) /\ Call(s, b, Patched(rows[b], "open", NoAgent))
  /\ UNCHANGED excused

\* close, and done without a comment.
Close(s, b) ==
  /\ Exists(b) /\ Call(s, b, Patched(rows[b], "closed", Keep))
  /\ UNCHANGED excused

\* done -m adds the comment first; when that fails the bead stays open.
DoneComment(s, b) ==
  /\ Exists(b) /\ cmd[s] = Idle /\ commands < MaxCommands
  /\ commands' = commands + 1
  /\ Goes(s, [op |-> "done", bead |-> b])
  /\ UNCHANGED excused
DoneClose(s) ==
  /\ cmd[s] # Idle /\ cmd[s].op = "done"
  /\ \/ Write(s, cmd[s].bead, Patched(rows[cmd[s].bead], "closed", Keep), Idle)
     \/ Goes(s, Idle)
  /\ UNCHANGED <<commands, excused>>

\* reopen, and undefer, which also clears defer_until: the assignee stays.
Reopen(s, b) ==
  /\ Exists(b) /\ Call(s, b, Patched(rows[b], "open", Keep))
  /\ UNCHANGED excused

Defer(s, b) ==
  /\ Exists(b) /\ Call(s, b, Patched(rows[b], "deferred", Keep))
  /\ UNCHANGED excused

\* update takes any status and assignee, and checks no claim.
Update(s, b, status, assignee) ==
  /\ Exists(b) /\ Call(s, b, Patched(rows[b], status, assignee))
  /\ excused' = excused \cup {a \in Agent : Claimed(a)' \ Claimed(a) # {}}

\* create, in the project given or of the environment: not in another than the
\* agent's own unless forced.
Create(s, b, project, assignee, force) ==
  /\ ~Exists(b)
  /\ \/ force \/ project = NoProject \/ AgentProject[Actor[s]] \in {NoProject, project}
  /\ Call(s, b, [status |-> "open", assignee |-> assignee, project |-> project])
  /\ UNCHANGED excused

\* label add and label remove of a project label.
Label(s, b, project) ==
  /\ Exists(b) /\ Call(s, b, [rows[b] EXCEPT !.project = project])
  /\ UNCHANGED excused

-----------------------------------------------------------------------------
(* orphans --fix                                                           *)

Open(b) == Exists(b) /\ rows[b].status \in {"open", "in_progress"}

\* The open beads (at most 500) that a commit names, after the user agreed.
Orphans(s) ==
  /\ cmd[s] = Idle /\ commands < MaxCommands
  /\ commands' = commands + 1
  /\ Goes(s, [op |-> "orphans", todo |-> {b \in Referenced : Open(b)}])
  /\ UNCHANGED excused

\* One after the other, whatever became of them since; a failure is skipped.
CloseOrphan(s) ==
  /\ cmd[s] # Idle /\ cmd[s].op = "orphans"
  /\ \E b \in cmd[s].todo :
       LET next == [cmd[s] EXCEPT !.todo = @ \ {b}]
       IN \/ Write(s, b, Patched(rows[b], "closed", Keep), next)
          \/ Goes(s, next)
  /\ UNCHANGED <<commands, excused>>

EndOrphans(s) ==
  /\ cmd[s] # Idle /\ cmd[s].op = "orphans" /\ cmd[s].todo = {}
  /\ Goes(s, Idle)
  /\ UNCHANGED <<commands, excused>>

-----------------------------------------------------------------------------
Held(a) == IF a = NoAgent THEN "open" ELSE "in_progress"

\* Some beads exist, and agents may already hold one issue each.
ClaimsInit ==
  /\ \E holder \in [Initial -> Agent \cup {NoAgent}] :
       rows = [b \in Bead |-> IF b \in Initial
                              THEN [status |-> Held(holder[b]), assignee |-> holder[b],
                                    project |-> NoProject]
                              ELSE NoRow]
  /\ cmd = [s \in Session |-> Idle]
  /\ commands = 0 /\ excused = {}
  /\ \A a \in Agent : Cardinality(Claimed(a)) <= 1

ClaimsNext ==
  \/ \E s \in Session :
       \/ CheckNoClaimed(s) \/ CheckNotEpic(s) \/ CheckProjectMatch(s) \/ ClaimUpdate(s)
       \/ DoneClose(s) \/ Orphans(s) \/ CloseOrphan(s) \/ EndOrphans(s)
  \/ \E s \in Session, b \in Bead :
       \/ \E force \in BOOLEAN : Claim(s, b, force)
       \/ Unclaim(s, b) \/ Close(s, b) \/ DoneComment(s, b) \/ Reopen(s, b) \/ Defer(s, b)
       \/ \E status \in {"open", "in_progress", Keep}, assignee \in Agent \cup {NoAgent, Keep} :
            Update(s, b, status, assignee)
       \/ \E project \in Project \cup {NoProject} : Label(s, b, project)
       \/ \E project \in Project \cup {NoProject}, assignee \in Agent \cup {NoAgent}, force \in BOOLEAN :
            Create(s, b, project, assignee, force)

ClaimsSpec == ClaimsInit /\ [][ClaimsNext]_claimVars

-----------------------------------------------------------------------------
ClaimsTypeOK ==
  /\ rows \in [Bead -> ClaimRow \cup {NoRow}]
  /\ cmd \in [Session -> Command \cup {Idle}]
  /\ commands \in 0..MaxCommands /\ excused \subseteq Agent

\* "Agents should claim at most one actionable bead at a time": whatever the
\* commands of all agents do in between, an agent has more than one issue in
\* progress only after it forced a claim, someone updated it past the check, two
\* of its claims ran at once, or the list could not show whether it has one
\* (it failed, or other beads filled its limit).
OneClaim == \A a \in Agent \ excused : Cardinality(Claimed(a)) <= 1
=============================================================================
