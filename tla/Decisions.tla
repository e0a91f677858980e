------------------------------ MODULE Decisions ------------------------------
(***************************************************************************)
(* POST /v1/decisions/{id}/resolve and /cancel on one decision bead: merge *)
(* the answer into the fields, then close the bead.  The merge reads the   *)
(* row in one statement and writes all of it back in another; its failure  *)
(* is only logged.  Neither handler looks at the status, so that a         *)
(* decision may be answered again.  Two more calls touch the bead: a close *)
(* of any bead may merge fields of its own first, and an update (kd        *)
(* update, kd reopen) also writes back the whole row that it read.         *)
(***************************************************************************)

CONSTANTS
  Responder,  \* concurrent requests
  Patch,      \* the fields that closes and updates give
  NoRequest, Missing

VARIABLES
  decision,   \* the row: status, and which fields of an outcome it shows
  request,    \* per responder: its request, what it read, and what it does next
  excuse      \* history: the outcome is missing, and not because of the answers

decisionVars == <<decision, request, excuse>>

Field == {"chosen", "response_text", "canceled"}
DecisionRow == [status : {"open", "closed"}, outcome : SUBSET Field]
Decided(row) == row.outcome # {}

\* Fields given a value, and fields given an empty one.
Patches == [sets : SUBSET Field, clears : SUBSET Field]
NoPatch == [sets |-> {}, clears |-> {}]

ASSUME PatchAssumption == Patch \subseteq Patches

Merging == [at : {"read", "write"}, patch : Patches, row : DecisionRow \cup {Missing}]
Closing == [at : {"close"}, answers : BOOLEAN]
Updating == [at : {"get", "put"}, patch : Patches, status : {"open", "closed", "keep"}, row : DecisionRow \cup {Missing}]
Request == Merging \cup Closing \cup Updating

\* mergeBeadFields: given fields replace those of the row.
Merged(row, p) == [row EXCEPT !.outcome = (@ \cup p.sets) \ p.clears]

Is(r, at) == request[r] # NoRequest /\ request[r].at = at
Asks(r, q) == request[r] = NoRequest /\ request' = [request EXCEPT ![r] = q]
Proceeds(r, answers) == request' = [request EXCEPT ![r] = [at |-> "close", answers |-> answers]]
Ends(r) == request' = [request EXCEPT ![r] = NoRequest]

\* A write that is no answer's leaves the row without an outcome, until one is
\* merged again: it closes the row, or writes over an outcome.
Excuse(closes) == excuse' = (~Decided(decision') /\ (excuse \/ closes \/ Decided(decision)))

-----------------------------------------------------------------------------
Merge(r, p) == Asks(r, [at |-> "read", patch |-> p, row |-> Missing])

\* selected_option or response_text is required.
AskResolve(r) ==
  /\ \E given \in SUBSET {"chosen", "response_text"} : given # {} /\ Merge(r, [sets |-> given, clears |-> {}])
  /\ UNCHANGED <<decision, excuse>>

AskCancel(r) ==
  /\ Merge(r, [sets |-> {"canceled"}, clears |-> {}])
  /\ UNCHANGED <<decision, excuse>>

\* kd close: the body's fields are merged first, when there are any.
AskClose(r) ==
  /\ \/ \E p \in Patch : Merge(r, p)
     \/ Asks(r, [at |-> "close", answers |-> FALSE])
  /\ UNCHANGED <<decision, excuse>>

ReadDecision(r) ==
  /\ Is(r, "read")
  /\ request' = [request EXCEPT ![r].at = "write", ![r].row = decision]
  /\ UNCHANGED <<decision, excuse>>

\* (fault) the row is written without the merged fields
WriteUnmerged(r) ==
  /\ Is(r, "write")
  /\ decision' = request[r].row
  /\ Proceeds(r, TRUE)
  /\ UNCHANGED excuse

\* The whole row, status included.
WriteDecision(r) ==
  /\ Is(r, "write")
  /\ decision' = Merged(request[r].row, request[r].patch)
  /\ Proceeds(r, request[r].patch.sets \ request[r].patch.clears # {})
  /\ Excuse(FALSE)

\* A failed statement of the merge is logged.
MergeFails(r) ==
  /\ Is(r, "read") \/ Is(r, "write")
  /\ Proceeds(r, FALSE)
  /\ UNCHANGED <<decision, excuse>>

CloseDecision(r) ==
  /\ Is(r, "close")
  /\ \/ /\ decision' = [decision EXCEPT !.status = "closed"]
        /\ Excuse(~request[r].answers)
     \/ UNCHANGED <<decision, excuse>>
  /\ Ends(r)

-----------------------------------------------------------------------------
(* updateBead on the same bead; "open" stands for every status but closed. *)
AskUpdate(r) ==
  /\ \E p \in Patch \cup {NoPatch}, status \in {"open", "closed", "keep"} :
       Asks(r, [at |-> "get", patch |-> p, status |-> status, row |-> Missing])
  /\ UNCHANGED <<decision, excuse>>

GetDecision(r) ==
  /\ Is(r, "get")
  /\ request' = [request EXCEPT ![r].at = "put", ![r].row = decision]
  /\ UNCHANGED <<decision, excuse>>

\* Also refused by a validation.
UpdateFails(r) ==
  /\ Is(r, "get") \/ Is(r, "put")
  /\ Ends(r)
  /\ UNCHANGED <<decision, excuse>>

PutDecision(r) ==
  /\ Is(r, "put")
  /\ LET q == request[r]
     IN /\ decision' = [Merged(q.row, q.patch) EXCEPT !.status = IF q.status = "keep" THEN @ ELSE q.status]
        /\ Excuse(q.status = "closed")
  /\ Ends(r)

-----------------------------------------------------------------------------
DecisionsInit ==
  /\ decision = [status |-> "open", outcome |-> {}]
  /\ request = [r \in Responder |-> NoRequest] /\ excuse = FALSE

DecisionsNext ==
  \E r \in Responder :
    \/ AskResolve(r) \/ AskCancel(r) \/ AskClose(r)
    \/ ReadDecision(r) \/ WriteDecision(r) \/ MergeFails(r) \/ CloseDecision(r)
    \/ AskUpdate(r) \/ GetDecision(r) \/ PutDecision(r) \/ UpdateFails(r)

DecisionsSpec == DecisionsInit /\ [][DecisionsNext]_decisionVars

-----------------------------------------------------------------------------
DecisionsTypeOK ==
  /\ decision \in DecisionRow /\ excuse \in BOOLEAN
  /\ request \in [Responder -> Request \cup {NoRequest}]

\* "Merges response fields into the bead, then closes it": a closed decision shows
\* what was decided, however requests overlap.  Excused, until an answer is merged
\* again: a call other than an answer, or one whose merge failed, closed a row that
\* shows none, and a row that showed an outcome was written over (an update or a
\* close that cleared it, or an update that had read the row before the answer).
ClosedHasOutcome == decision.status = "closed" /\ ~excuse => Decided(decision)
=============================================================================
