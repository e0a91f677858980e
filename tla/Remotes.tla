------------------------------- MODULE Remotes -------------------------------
(***************************************************************************)
(* kd remote add, remove and use on remotes.toml, by processes that know   *)
(* nothing of each other: each reads the whole file, changes its copy,     *)
(* truncates the file and writes the copy into it, in one write or, when   *)
(* the text is longer than the encoder's buffer, in several.  Other kd     *)
(* processes take their server and token from the active remote.           *)
(***************************************************************************)
EXTENDS Naturals

CONSTANTS
  Name,          \* names of remotes
  Shell,         \* kd processes
  MaxFileCommands,
  NoName, Garbled, NoRemote

VARIABLES
  file,          \* remotes.toml: Garbled, or [active, remotes]
  torn,          \* history: a part of a text was written, or one over another, or a copy of such
  layers,        \* the texts whose writing began since the file was truncated
  shell,         \* what each process does
  fileCommands   \* started so far, bounded

remoteVars == <<file, torn, layers, shell, fileCommands>>

\* The URL and the token that the n-th command gave; 0 for a line that is not there.
Version == 0..MaxFileCommands
Remote == [name : Name, url : Version, token : Version]
Config == [active : Name \cup {NoName}, remotes : SUBSET Remote]

ASSUME RemotesAssumption == MaxFileCommands \in Nat /\ Garbled \notin Config

\* A file that is missing, or truncated and not yet written, holds no remotes.
NoRemotes == [active |-> NoName, remotes |-> {}]
Known(cfg, n) == \E r \in cfg.remotes : r.name = n

AtPrompt == [pc |-> "idle", op |-> "none", name |-> NoName, version |-> 1, cfg |-> NoRemotes, torn |-> FALSE, cached |-> NoRemote]
Stop(p) == shell' = [shell EXCEPT ![p] = AtPrompt]

Begin(p) ==
  /\ shell[p].pc \in {"idle", "done"} /\ fileCommands < MaxFileCommands
  /\ fileCommands' = fileCommands + 1
  /\ \E op \in {"add", "remove", "use", "none"}, n \in Name \cup {NoName} :
       /\ op \in {"add", "remove"} => n # NoName
       /\ shell' = [shell EXCEPT ![p] = [AtPrompt EXCEPT !.pc = IF op = "none" THEN "connect" ELSE "load",
                                                         !.op = op, !.name = n, !.version = fileCommands']]
  /\ UNCHANGED <<file, torn, layers>>

\* kd remote add, or another URL and token for a known name
Added(cfg, n, url, token) ==
  [cfg EXCEPT !.remotes = {r \in @ : r.name # n} \cup {[name |-> n, url |-> url, token |-> token]}]

\* kd remote remove: the active remote ceases to be active
Removed(cfg, n) ==
  [active |-> IF cfg.active = n THEN NoName ELSE cfg.active, remotes |-> {r \in cfg.remotes : r.name # n}]

\* kd remote use, without a name to have none
Used(cfg, n) == [cfg EXCEPT !.active = n]

\* (fault) any name may be used
RefusedToRemove(cfg, op, n) == op = "remove" /\ ~Known(cfg, n)

\* remove and use ask for a known name, use without a name for none.
Refused(cfg, op, n) == op # "add" /\ n # NoName /\ ~Known(cfg, n)

\* What a command makes of the file; --token may be left out.
Changed(cfg, s) ==
  CASE s.op = "add" -> {Added(cfg, s.name, s.version, token) : token \in {0, s.version}}
    [] s.op = "remove" -> {Removed(cfg, s.name)}
    [] s.op = "use" -> {Used(cfg, s.name)}

\* loadRemotesConfig fails on a file it cannot parse.
Load(p) ==
  /\ shell[p].pc = "load"
  /\ IF file = Garbled \/ Refused(file, shell[p].op, shell[p].name) THEN Stop(p)
     ELSE \E cfg \in Changed(file, shell[p]) :
            shell' = [shell EXCEPT ![p].pc = "truncate", ![p].cfg = cfg, ![p].torn = torn]
  /\ UNCHANGED <<file, torn, layers, fileCommands>>

-----------------------------------------------------------------------------
(* saveRemotesConfig: O_TRUNC, and then the encoded copy from the start.   *)
Truncate(p) ==
  /\ shell[p].pc = "truncate"
  /\ file' = NoRemotes /\ torn' = FALSE /\ layers' = {}
  /\ shell' = [shell EXCEPT ![p].pc = "write"]
  /\ UNCHANGED fileCommands

\* The beginning of a text: some of its remotes, one of them perhaps cut short
\* after its name or its URL, or a line in two.
CutShort(r) == [name : {r.name}, url : {0, r.url}, token : {0}]
Cuts(cfg) == UNION {CutShort(r) : r \in cfg.remotes}
Pieces(cfg) == (SUBSET cfg.remotes) \cup UNION {{whole \cup {cut} : whole \in SUBSET cfg.remotes} : cut \in Cuts(cfg)}
Beginnings(cfg) == {Garbled} \cup [active : {cfg.active}, remotes : Pieces(cfg)]

\* Texts written over each other from the start of the file: the end of a longer
\* one stays behind a shorter one.  Which lines of which are read, and under which
\* name, or whether any are, depends on their lengths.
Lines(texts) == UNION {cfg.remotes : cfg \in texts}
Tables(names, lines) == [names -> [url : {0} \cup {r.url : r \in lines}, token : {0} \cup {r.token : r \in lines}]]
Overlaid(table) == {[name |-> n, url |-> table[n].url, token |-> table[n].token] : n \in DOMAIN table}
Mixed(texts) ==
  {Garbled} \cup [active : {NoName} \cup {cfg.active : cfg \in texts}, remotes :
    UNION {{Overlaid(table) : table \in Tables(names, Lines(texts))} : names \in SUBSET {r.name : r \in Lines(texts)}}]

\* More than the buffer holds: a first part is in the file.
WriteBeginning(p) ==
  LET cfg == shell[p].cfg
  IN /\ shell[p].pc = "write"
     /\ file' \in IF layers \subseteq {cfg} THEN Beginnings(cfg) ELSE Mixed(layers \cup {cfg})
     /\ torn' = TRUE /\ layers' = layers \cup {cfg}
     /\ shell' = [shell EXCEPT ![p].pc = "rest"]
     /\ UNCHANGED fileCommands

\* All of it, unless another text came in between, or another truncation.
WriteFile(p) ==
  LET cfg == shell[p].cfg
      alone == layers = {cfg} \/ (shell[p].pc = "write" /\ layers = {})
  IN /\ shell[p].pc \in {"write", "rest"}
     /\ file' \in IF alone THEN {cfg} ELSE Mixed(layers \cup {cfg})
     /\ torn' = (~alone \/ shell[p].torn)
     /\ layers' = layers \cup {cfg}
     /\ Stop(p)
     /\ UNCHANGED fileCommands

\* The process is killed, or the write fails.
Cut(p) ==
  /\ shell[p].pc \in {"truncate", "write", "rest"}
  /\ Stop(p)
  /\ UNCHANGED <<file, torn, layers, fileCommands>>

-----------------------------------------------------------------------------
\* loadActiveRemoteOnce: server and token for the whole run of a command.
LoadActiveOnce(p) ==
  /\ shell[p].pc = "connect"
  /\ LET active == IF file = Garbled THEN {} ELSE {r \in file.remotes : r.name = file.active}
     IN \E r \in IF active = {} THEN {NoRemote} ELSE active :
          shell' = [shell EXCEPT ![p].cached = r, ![p].torn = torn, ![p].pc = "done"]
  /\ UNCHANGED <<file, torn, layers, fileCommands>>

RemotesInit ==
  /\ file = NoRemotes /\ torn = FALSE /\ layers = {}
  /\ shell = [p \in Shell |-> AtPrompt]
  /\ fileCommands = 0

RemotesNext ==
  \E p \in Shell :
    \/ Begin(p) \/ Load(p) \/ Truncate(p) \/ WriteBeginning(p) \/ WriteFile(p) \/ Cut(p) \/ LoadActiveOnce(p)

RemotesSpec == RemotesInit /\ [][RemotesNext]_remoteVars

-----------------------------------------------------------------------------
(* Properties.                                                             *)

RemotesTypeOK ==
  /\ file = Garbled \/ file \in Config
  /\ torn \in BOOLEAN /\ layers \subseteq Config
  /\ \A p \in Shell : shell[p].cfg \in Config /\ shell[p].cached \in Remote \cup {NoRemote}

\* URL and token are one add's.
OfOneAdd(r) == r.url # 0 /\ r.token \in {0, r.url}

\* However commands overlap between a load and the save after it, and wherever one
\* is killed before it writes: the file can be read, has one remote per name and
\* names an active one that exists, and every remote, the one included that a
\* process connects to, has URL and token of one add.  Torn files are excused (two
\* saves at once, or one that needs more than one write and is cut off or read
\* between them), and what was made from them, up to the next save of a copy that
\* is not.
ActiveIsWhole ==
  /\ ~torn =>
       /\ file # Garbled
       /\ file.active # NoName => Known(file, file.active)
       /\ \A r \in file.remotes : OfOneAdd(r) /\ \A s \in file.remotes : r.name = s.name => r = s
  /\ \A p \in Shell : ~shell[p].torn /\ shell[p].cached # NoRemote => OfOneAdd(shell[p].cached)
=============================================================================
