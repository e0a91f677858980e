---------------------------- MODULE ListRequests ----------------------------
(***************************************************************************)
(* A ListBeads request on its way from a command to the filter the server  *)
(* queries with: by HTTP as query parameters, by gRPC as a message, and    *)
(* from beads3d through the Connect shim.  A text is the sequence of the   *)
(* pieces its separators (commas, or the = of a field) cut it into.        *)
(***************************************************************************)
EXTENDS Integers, Sequences, FiniteSets, SequencesExt, TLC

CONSTANTS
  Piece,       \* what texts are cut into
  Flags,       \* command lines of kd list
  Bodies,      \* requests as view, watch and beads3d make them
  Alias,       \* function: a deprecated type, as a text, to its canonical name
  NotSet, Nothing

ListText == Seq(Piece) \ {<<>>}
FieldSet == SUBSET (Piece \X Seq(Piece))

\* A limit or an offset of 0 is none, as the server takes a negative one.
ListRequest ==
  [status : Seq(ListText), types : Seq(ListText), kinds : Seq(ListText), labels : Seq(ListText),
   assignee : ListText \cup {NotSet}, priority : Int \cup {NotSet}, noOpenDeps : BOOLEAN, fields : FieldSet,
   limit : Nat, offset : Nat]

ListFlags ==
  [status : Seq(ListText), types : Seq(ListText), kinds : Seq(ListText), labels : Seq(ListText),
   project : ListText \cup {NotSet}, allProjects : BOOLEAN, allTypes : BOOLEAN, noBlockers : BOOLEAN,
   fields : FieldSet, limit : Nat, offset : Nat]

ASSUME RequestsAssumption ==
  /\ Bodies \subseteq ListRequest /\ Flags \subseteq ListFlags
  /\ "issue" \in Piece /\ NotSet \notin Int \cup Seq(Piece)

VARIABLES
  asked,       \* the request a client was handed
  filter       \* the BeadFilter the server queries with, Nothing before

requestVars == <<asked, filter>>

Issues == <<<<"issue">>>>

Blank ==
  [status |-> <<>>, types |-> <<>>, kinds |-> <<>>, labels |-> <<>>, assignee |-> NotSet, priority |-> NotSet,
   noOpenDeps |-> FALSE, fields |-> {}, limit |-> 0, offset |-> 0]

\* kd list: issues unless a type or kind is named, and the project's label.
FromFlags(f) ==
  [status |-> f.status, types |-> f.types, assignee |-> NotSet, priority |-> NotSet,
   kinds |-> IF ~f.allTypes /\ f.types = <<>> /\ f.kinds = <<>> THEN Issues ELSE f.kinds,
   labels |-> (IF f.project # NotSet /\ ~f.allProjects THEN <<f.project>> ELSE <<>>) \o f.labels,
   noOpenDeps |-> f.noBlockers, fields |-> f.fields, limit |-> f.limit, offset |-> f.offset]

Canonical(type) == IF type \in DOMAIN Alias THEN Alias[type] ELSE type

\* strings.Join and strings.Split
Join(texts) == FlattenSeq(texts)
Split(text) == [i \in DOMAIN text |-> <<text[i]>>]

\* (fault) priority 0, the most urgent, is taken for no priority
PriorityParamIfSet(p) == IF p = 0 THEN NotSet ELSE p

\* A pointer is sent when it is not nil, a number when it is positive.
PriorityParam(p) == p

ListParam(texts) == IF texts = <<>> THEN NotSet ELSE Join(texts)
NumberParam(n) == IF n > 0 THEN n ELSE NotSet

\* The query string of HTTPClient.ListBeads.
QueryString(req) ==
  [status |-> ListParam(req.status), type |-> ListParam(req.types), kind |-> ListParam(req.kinds),
   labels |-> ListParam(req.labels), assignee |-> req.assignee, priority |-> PriorityParam(req.priority),
   noOpenDeps |-> req.noOpenDeps, field |-> {<<f[1]>> \o f[2] : f \in req.fields},
   limit |-> NumberParam(req.limit), offset |-> NumberParam(req.offset)]

\* connectList: labels go under a name, "label", that nobody reads; its body
\* has neither a priority nor no_open_deps.
ConnectQuery(req) ==
  [QueryString(req) EXCEPT !.labels = NotSet, !.priority = NotSet, !.noOpenDeps = FALSE]

\* handleListBeads
Parsed(q) ==
  LET list(text) == IF text = NotSet THEN <<>> ELSE Split(text)
      number(n) == IF n = NotSet THEN 0 ELSE n
  IN [status |-> list(q.status), types |-> list(q.type), kinds |-> list(q.kind), labels |-> list(q.labels),
      assignee |-> q.assignee, priority |-> q.priority, noOpenDeps |-> q.noOpenDeps,
      fields |-> {<<Head(f), Tail(f)>> : f \in q.field}, limit |-> number(q.limit), offset |-> number(q.offset)]

\* GRPCClient.ListBeads sends neither fields nor no_open_deps.
Message(req) == [req EXCEPT !.fields = {}, !.noOpenDeps = FALSE]

\* BeadsServer.ListBeads resolves deprecated type names, the HTTP handler does not.
Received(msg) == [msg EXCEPT !.types = [i \in DOMAIN @ |-> Canonical(@[i])]]

-----------------------------------------------------------------------------
ByHTTP == filter' = [way |-> "http", criteria |-> Parsed(QueryString(asked))]
ByGRPC == filter' = [way |-> "grpc", criteria |-> Received(Message(asked))]
ByConnect == filter' = [way |-> "connect", criteria |-> Parsed(ConnectQuery(asked))]

RequestsInit ==
  /\ asked \in Bodies \cup {FromFlags(f) : f \in Flags}
  /\ filter = Nothing

RequestsNext ==
  /\ filter = Nothing
  /\ ByHTTP \/ ByGRPC \/ ByConnect
  /\ UNCHANGED asked

RequestsSpec == RequestsInit /\ [][RequestsNext]_requestVars

-----------------------------------------------------------------------------
(* Properties.                                                             *)

\* The names a list parameter can carry: no comma in them, no deprecated type.
Plain(req) ==
  /\ \A texts \in {req.status, req.types, req.kinds, req.labels} : \A i \in DOMAIN texts : Len(texts[i]) = 1
  /\ \A i \in DOMAIN req.types : req.types[i] \notin DOMAIN Alias

\* The server queries with the criteria the client was asked for, limit and
\* offset, an urgent priority 0 and a field value with = signs included: by
\* HTTP for every plain request, by gRPC, aliases resolved, for every request
\* without fields and no-blockers, and from beads3d without labels, priority
\* and no-blockers as well.
FilterAsAsked ==
  LET meant == [asked EXCEPT !.types = [i \in DOMAIN @ |-> Canonical(@[i])]]
      carried == CASE filter.way = "http" -> Plain(asked)
                   [] filter.way = "grpc" -> asked.fields = {} /\ ~asked.noOpenDeps
                   [] OTHER -> Plain(asked) /\ asked.labels = <<>> /\ asked.priority = NotSet /\ ~asked.noOpenDeps
  IN filter # Nothing => (carried => filter.criteria = meant)
=============================================================================
