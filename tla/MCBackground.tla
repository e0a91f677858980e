---------------------------- MODULE MCBackground ----------------------------
(***************************************************************************)
(* The server's background goroutines: the presence tracker with its       *)
(* reaper, and the sync scheduler.  They share nothing, so that one of     *)
(* them is at work in each behaviour.                                      *)
(***************************************************************************)
EXTENDS Presence, GitSync

VARIABLE cast

backgroundVars == <<cast, vars, syncVars>>

OnlyPresence == cast = "presence" /\ UNCHANGED <<cast, syncVars>>
OnlyGit == cast = "git" /\ UNCHANGED <<cast, vars>>

BackgroundInit == cast \in {"presence", "git"} /\ Init /\ SyncInit
BackgroundNext == (OnlyPresence /\ Next) \/ (OnlyGit /\ SyncNext)

\* As in Presence!Fairness; a sync may always be cut short.
BackgroundFairness ==
  /\ WF_backgroundVars(OnlyPresence /\ Tick) /\ WF_backgroundVars(OnlyPresence /\ Reap)
  /\ \A e \in Emitter : WF_backgroundVars(OnlyPresence /\ RecordHookEvent(e))

BackgroundSpec == BackgroundInit /\ [][BackgroundNext]_backgroundVars /\ BackgroundFairness
=============================================================================
