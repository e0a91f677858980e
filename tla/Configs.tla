-------------------------------- MODULE Configs --------------------------------
(***************************************************************************)
(* Type configs and the fields of beads: the configs table over the        *)
(* built-in defaults, changed by PUT and DELETE /v1/configs while requests *)
(* create, update and merge the fields of a bead of one type.  Only create *)
(* and update validate, against the config they read last, in a statement  *)
(* of its own before the one that writes.                                  *)
(***************************************************************************)
EXTENDS FiniteSets

CONSTANTS
  Types,       \* the type of the bead is one of them
  Override,    \* configs PUT for it, Malformed among them
  Definitions, \* [Override \ {Malformed} -> sets of field definitions]
  Malformed,   \* JSON, but no type config
  FieldsGiven, \* fields of requests, NotAnObject among them
  NotAnObject,
  Editor,      \* concurrent requests
  NotStored, NoBead, NoEdit

\* A JSON value says of which kind it is.
AllJSON(f) == \A n \in DOMAIN f : "json" \in DOMAIN f[n]

ASSUME ConfigsAssumption ==
  /\ Malformed \in Override /\ NotStored \notin Override
  /\ \A f \in FieldsGiven \ {NotAnObject} : AllJSON(f)

VARIABLES
  beadType,    \* the type of the bead, once and for all
  stored,      \* the row of the type in the configs table
  fields,      \* fields of the bead: a function from field names to JSON values
  edit,        \* per editor: its request, with history: the configs since it began
  basis,       \* history: the configs during the request that stored the fields
  unchecked    \* history: a merge, which validates nothing, has written them

configVars == <<beadType, stored, fields, edit, basis, unchecked>>

-----------------------------------------------------------------------------
(* Field definitions.                                                      *)

Def(name, type) == [name |-> name, type |-> type, required |-> FALSE, values |-> {}]
Req(name) == [Def(name, "string") EXCEPT !.required = TRUE]
Enum(name, values) == [Def(name, "enum") EXCEPT !.values = values]
All(type, names) == {Def(n, type) : n \in names}

\* Types the server knows without a stored config; all others have no fields.
BuiltinTypes ==
  {"epic", "task", "feature", "chore", "bug", "advice", "jack", "mail", "agent", "decision", "report",
   "role", "rig", "convoy", "config", "event", "gate", "message", "formula", "molecule", "mention",
   "artifact", "runbook"}
BuiltinFields(type) ==
  CASE type = "advice" ->
         {Enum("hook_trigger", {"session-end", "before-commit", "before-push", "before-handoff"}),
          Enum("hook_on_failure", {"block", "warn", "ignore"}),
          Def("hook_command", "string"), Def("hook_timeout", "integer")}
         \cup All("string[]", {"subscriptions", "subscriptions_exclude"})
    [] type = "jack" ->
         {Req(n) : n \in {"jack_target", "jack_reason", "jack_revert_plan"}}
         \cup All("string", {"jack_ttl", "jack_expires_at", "jack_original_ttl", "jack_cumulative_ttl",
                             "jack_closed_reason", "jack_closed_at", "jack_escalated_at", "jack_rig"})
         \cup All("boolean", {"jack_reverted", "jack_escalated"})
         \cup {Def("jack_extension_count", "integer"), Def("jack_changes", "json")}
    [] type = "agent" ->
         {Req(n) : n \in {"agent", "role", "project"}}
         \cup All("string", {"mode", "agent_state", "mock_scenario", "stop_requested", "gate_satisfied_by"})
         \cup All("string[]", {"advice_subscriptions", "advice_subscriptions_exclude"})
    [] type = "decision" ->
         {Req("prompt"), Def("options", "json"),
          Enum("artifact_status", {"pending", "submitted", "accepted"})}
         \cup All("string", {"context", "session", "requested_by", "requesting_agent_bead_id", "chosen",
                             "rationale", "response_text", "responded_by", "responded_at", "required_artifact"})
    [] type = "report" ->
         {Req(n) : n \in {"decision_id", "report_type", "content"}} \cup {Def("format", "string")}
    [] type = "formula" ->
         All("json", {"vars", "steps", "default_roles"}) \cup {Def("assigned_agent", "string")}
    [] type = "molecule" ->
         {Def("formula_id", "string"), Def("applied_vars", "json"), Def("ephemeral", "boolean")}
    [] OTHER -> {}

\* resolveTypeConfig: the stored config, else the built-in one, else none.
Unknown(row) == row = NotStored /\ beadType \notin BuiltinTypes
Resolved(row) == IF row = NotStored THEN BuiltinFields(beadType) ELSE Definitions[row]

-----------------------------------------------------------------------------
(* JSON values, as far as validation looks at them, and validation.        *)

Text(s) == [json |-> "string", text |-> s]
Timestamps == {"2026-01-02T15:04:05Z"}
IsText(v) == v.json = "string"
IsTextIn(v, S) == IsText(v) /\ v.text \in S

\* validateFieldValue
Accepts(d, v) ==
  CASE d.type = "string" -> IsText(v)
    [] d.type = "integer" -> v.json = "number" /\ v.whole
    [] d.type = "float" -> v.json = "number"
    [] d.type = "boolean" -> v.json = "boolean"
    [] d.type = "timestamp" -> IsTextIn(v, Timestamps)
    [] d.type = "enum" -> IsTextIn(v, d.values)
    [] d.type = "string[]" -> v.json = "array" /\ \A e \in v.elems : IsText(e)
    [] d.type = "enum[]" -> v.json = "array" /\ \A e \in v.elems : IsTextIn(e, d.values)
    [] d.type = "json" -> TRUE
    [] OTHER -> FALSE

Names(defs) == {d.name : d \in defs}
Absent(f, name) == name \notin DOMAIN f \/ f[name].json = "null"

\* (fault) keys without a definition pass
ValidateKnown(f, defs) ==
  \A d \in defs : IF Absent(f, d.name) THEN ~d.required ELSE Accepts(d, f[d.name])

ValidateFields(f, defs) ==
  /\ DOMAIN f \subseteq Names(defs)
  /\ \A d \in defs : IF Absent(f, d.name) THEN ~d.required ELSE Accepts(d, f[d.name])

-----------------------------------------------------------------------------
(* Configs.                                                                *)

Serves(row) ==
  /\ stored' = row
  /\ edit' = [e \in Editor |->
       IF edit[e] = NoEdit THEN NoEdit ELSE [edit[e] EXCEPT !.seen = @ \cup {row}]]
  /\ UNCHANGED <<beadType, fields, basis, unchecked>>

SetConfig(value) == Serves(value)
DeleteConfig == stored # NotStored /\ Serves(NotStored)

-----------------------------------------------------------------------------
(* Requests.                                                               *)

Empty == [n \in {} |-> Text("")]
EditGoes(e, next) == edit' = [edit EXCEPT ![e] = next]
EditEnds(e) == EditGoes(e, NoEdit)

\* Given fields replace those of the bead; a patch that is no object is ignored.
PatchFields(old, new) ==
  IF new = NotAnObject THEN old
  ELSE [n \in DOMAIN old \cup DOMAIN new |-> IF n \in DOMAIN new THEN new[n] ELSE old[n]]

BeginEdit(e) ==
  /\ edit[e] = NoEdit
  /\ \/ \E f \in FieldsGiven \cup {Empty} :
          fields = NoBead /\ EditGoes(e, [op |-> "create", at |-> "validate", fields |-> f,
                                       seen |-> {stored}])
     \/ \E f \in FieldsGiven :
          EditGoes(e, [op |-> "update", at |-> "read", fields |-> f, seen |-> {stored}])
     \/ \E f \in FieldsGiven \ {NotAnObject} :
          EditGoes(e, [op |-> "merge", at |-> "read", fields |-> f, seen |-> {stored}])
  /\ UNCHANGED <<beadType, stored, fields, basis, unchecked>>

\* GetBead, and the patch.
ReadFields(e) ==
  /\ edit[e] # NoEdit /\ edit[e].at = "read"
  /\ IF fields = NoBead THEN EditEnds(e)
     ELSE EditGoes(e, [edit[e] EXCEPT !.fields = PatchFields(fields, @),
                                   !.at = IF edit[e].op = "merge" THEN "write" ELSE "validate"])
  /\ UNCHANGED <<beadType, stored, fields, basis, unchecked>>

\* GetConfig, and validation; create rejects an unknown type, update leaves its
\* fields unvalidated.
Valid(e) ==
  IF Unknown(stored) THEN edit[e].op = "update"
  ELSE /\ stored # Malformed /\ edit[e].fields # NotAnObject
       /\ ValidateFields(edit[e].fields, Resolved(stored))

Validate(e) ==
  /\ edit[e] # NoEdit /\ edit[e].at = "validate"
  /\ IF Valid(e) THEN EditGoes(e, [edit[e] EXCEPT !.at = "write"]) ELSE EditEnds(e)
  /\ UNCHANGED <<beadType, stored, fields, basis, unchecked>>

\* CreateBead or UpdateBead.
WriteFieldsBack(e) ==
  /\ edit[e] # NoEdit /\ edit[e].at = "write"
  /\ edit[e].op = "create" => fields = NoBead
  /\ fields' = edit[e].fields
  /\ basis' = edit[e].seen
  /\ unchecked' = (edit[e].op = "merge")
  /\ EditEnds(e)
  /\ UNCHANGED <<beadType, stored>>

EditFails(e) ==
  /\ edit[e] # NoEdit
  /\ EditEnds(e)
  /\ UNCHANGED <<beadType, stored, fields, basis, unchecked>>

-----------------------------------------------------------------------------
ConfigsInit ==
  /\ beadType \in Types /\ stored = NotStored /\ fields = NoBead
  /\ edit = [e \in Editor |-> NoEdit]
  /\ basis = {} /\ unchecked = FALSE

ConfigsNext ==
  \/ \E value \in Override : SetConfig(value)
  \/ DeleteConfig
  \/ \E e \in Editor : BeginEdit(e) \/ ReadFields(e) \/ Validate(e) \/ WriteFieldsBack(e) \/ EditFails(e)

ConfigsSpec == ConfigsInit /\ [][ConfigsNext]_configVars

-----------------------------------------------------------------------------
ConfigsTypeOK ==
  /\ beadType \in Types /\ stored \in Override \cup {NotStored}
  /\ fields = NoBead \/ AllJSON(fields)
  /\ \A e \in Editor : edit[e] = NoEdit \/
       /\ edit[e].op \in {"create", "update", "merge"} /\ edit[e].at \in {"read", "validate", "write"}
       /\ edit[e].seen \subseteq Override \cup {NotStored}
  /\ unchecked \in BOOLEAN

\* What the fields of a type are meant to be.
Conforms(f, defs) ==
  /\ \A n \in DOMAIN f : \E d \in defs : d.name = n
  /\ \A n \in DOMAIN f, d \in defs : d.name = n /\ f[n].json # "null" => Accepts(d, f[n])
  /\ \A d \in defs : d.required => ~Absent(f, d.name)

\* "It rejects unknown keys, validates types, and enforces required constraints":
\* whatever becomes of the config and of the bead meanwhile, fields that an
\* update or a create has written conform as a whole to a config that was in
\* force during that request, even when they were written over fields that a
\* merge left behind.
FieldsConform ==
  fields # NoBead /\ ~unchecked =>
    \E row \in basis \ {Malformed} : Unknown(row) \/ Conforms(fields, Resolved(row))
=============================================================================
