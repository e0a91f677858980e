------------------------------- MODULE GitSync -------------------------------
(***************************************************************************)
(* The sync scheduler with an S3 and a git destination.                    *)
(*                                                                         *)
(* One goroutine exports the store and writes the export to each           *)
(* destination in turn, at start and on every tick.  GitDestination.Write  *)
(* is a sequence of git commands; any of them may fail, Stop kills the one *)
(* that runs, and a killed command may leave .git/index.lock behind.       *)
(* Rivals are other clones that push to the same branch, without touching  *)
(* the exported file.  A branch is the sequence of its commits, each with the  *)
(* file as it is in that commit.                                           *)
(***************************************************************************)
EXTENDS Naturals, Sequences, SequencesExt

CONSTANTS
  MaxExports, MaxVersion, MaxRivals, MaxRestarts,  \* bounds
  NoData     \* nothing exported yet

ASSUME GitSyncAssumption == NoData \notin [version : Nat, stamp : Nat]

VARIABLES
  db,        \* version of the store's contents
  syncPc,    \* the scheduler's goroutine: next command
  count,     \* exports so far
  data,      \* the export being written
  bucket,    \* the object in S3
  local, remote,  \* the branch in the clone and at origin
  index,     \* the file as staged in the clone
  locked,    \* .git/index.lock exists
  rivals, restarts,
  calm,      \* the environment has stopped failing, pushing and restarting
  quiet,     \* history: it was calm throughout this sync
  ok         \* history: what the last GitDestination.Write returned

clone == <<local, index, locked>>
env == <<rivals, restarts, calm>>
syncVars == <<db, syncPc, count, data, bucket, clone, remote, env, quiet, ok>>

Commands == {"checkout", "pull", "write", "diff", "commit", "push"}

\* The exported file at the head of a branch.
File(branch) == IF branch = <<>> THEN NoData ELSE Last(branch).file

-----------------------------------------------------------------------------
(* Scheduler.                                                              *)

\* Start of a process, or a tick: syncOnce.
SyncTick ==
  /\ syncPc \in {"off", "idle"} /\ count < MaxExports
  /\ syncPc' = "export"
  /\ quiet' = calm
  /\ UNCHANGED <<db, count, data, bucket, clone, remote, env, ok>>

\* (fault) the header of the export carries no time stamp
ExportUnstamped ==
  /\ syncPc = "export"
  /\ count' = count + 1
  /\ data' = [version |-> db, stamp |-> 1]
  /\ syncPc' = "s3"
  /\ UNCHANGED <<db, bucket, clone, remote, env, quiet, ok>>

\* The header's time stamp makes every export different from all before.
ExportJSONL ==
  /\ syncPc = "export"
  /\ count' = count + 1
  /\ data' = [version |-> db, stamp |-> count + 1]
  /\ syncPc' = "s3"
  /\ UNCHANGED <<db, bucket, clone, remote, env, quiet, ok>>

ExportFails ==
  /\ syncPc = "export" /\ ~calm
  /\ count' = count + 1
  /\ syncPc' = "idle"
  /\ UNCHANGED <<db, data, bucket, clone, remote, env, quiet, ok>>

\* PutObject; its error does not keep the next destination from being written.
PutObject ==
  /\ syncPc = "s3"
  /\ bucket' = data \/ (~calm /\ UNCHANGED bucket)
  /\ syncPc' = "checkout"
  /\ UNCHANGED <<db, count, data, clone, remote, env, quiet, ok>>

\* Stop cancels the context: whatever git command runs is killed, the rest of
\* the sync fails at once, and the process ends.  Killing a command that
\* updates the index may leave the lock.
Stop ==
  /\ syncPc # "off" /\ restarts < MaxRestarts /\ ~calm
  /\ restarts' = restarts + 1
  /\ syncPc' = "off"
  /\ locked' \in IF syncPc \in {"checkout", "write", "commit"} THEN {locked, TRUE} ELSE {locked}
  /\ UNCHANGED <<db, count, data, bucket, local, index, remote, rivals, calm, quiet, ok>>

-----------------------------------------------------------------------------
(* GitDestination.Write.                                                   *)

Return(result) == syncPc' = "idle" /\ ok' = result

\* Switching branches takes the index lock.
Checkout ==
  /\ syncPc = "checkout" /\ ~locked
  /\ syncPc' = "pull"
  /\ UNCHANGED <<db, count, data, bucket, clone, remote, env, quiet, ok>>

\* (fault) the error of the pull is not ignored
PullRequired ==
  /\ syncPc = "pull"
  /\ IF IsPrefix(local, remote) /\ remote # <<>>
     THEN syncPc' = "write" /\ local' = remote /\ UNCHANGED ok
     ELSE Return("error") /\ UNCHANGED local
  /\ UNCHANGED <<db, count, data, bucket, index, locked, remote, env, quiet>>

\* git pull --ff-only, its error ignored: local commits that origin lacks make
\* it a no-op or an error.
Pull ==
  /\ syncPc = "pull"
  /\ \/ IsPrefix(local, remote) /\ local' = remote
     \/ ~(calm /\ IsPrefix(local, remote)) /\ UNCHANGED local
  /\ syncPc' = "write"
  /\ UNCHANGED <<db, count, data, bucket, index, locked, remote, env, quiet, ok>>

\* WriteFile and git add.
Stage ==
  /\ syncPc = "write" /\ ~locked
  /\ index' = data
  /\ syncPc' = "diff"
  /\ UNCHANGED <<db, count, data, bucket, local, locked, remote, env, quiet, ok>>

\* git diff --cached --quiet; an error of the command counts as a difference.
Diff ==
  /\ syncPc = "diff"
  /\ IF index = File(local) THEN Return("nil") ELSE syncPc' = "commit" /\ UNCHANGED ok
  /\ UNCHANGED <<db, count, data, bucket, clone, remote, env, quiet>>

MakeCommit ==
  /\ syncPc = "commit" /\ ~locked
  /\ local' = Append(local, [by |-> "sync", file |-> index])
  /\ syncPc' = "push"
  /\ UNCHANGED <<db, count, data, bucket, index, locked, remote, env, quiet, ok>>

\* (fault) git push --force
PushForce ==
  /\ syncPc = "push"
  /\ remote' = local
  /\ Return("nil")
  /\ UNCHANGED <<db, count, data, bucket, clone, env, quiet>>

\* origin takes only what extends its branch.
Push ==
  /\ syncPc = "push"
  /\ IF IsPrefix(remote, local)
     THEN remote' = local /\ Return("nil")
     ELSE UNCHANGED remote /\ Return("error")
  /\ UNCHANGED <<db, count, data, bucket, clone, env, quiet>>

\* A command fails; a push may have reached origin all the same.
CommandFails ==
  /\ \/ syncPc \in {"checkout", "write", "commit", "push"} /\ ~calm /\ UNCHANGED remote
     \/ syncPc \in {"checkout", "write", "commit"} /\ locked /\ UNCHANGED remote
     \/ syncPc = "push" /\ ~calm /\ IsPrefix(remote, local) /\ remote' = local
  /\ Return("error")
  /\ UNCHANGED <<db, count, data, bucket, clone, env, quiet>>

-----------------------------------------------------------------------------
(* Environment.                                                            *)

StoreChanges ==
  /\ db < MaxVersion
  /\ db' = db + 1
  /\ UNCHANGED <<syncPc, count, data, bucket, clone, remote, env, quiet, ok>>

RivalPushes ==
  /\ rivals < MaxRivals /\ ~calm
  /\ rivals' = rivals + 1
  /\ remote' = Append(remote, [by |-> "rival", file |-> File(remote)])
  /\ UNCHANGED <<db, syncPc, count, data, bucket, clone, restarts, calm, quiet, ok>>

CalmDown ==
  /\ ~calm
  /\ calm' = TRUE
  /\ UNCHANGED <<db, syncPc, count, data, bucket, clone, remote, rivals, restarts, quiet, ok>>

SyncInit ==
  /\ db = 0 /\ syncPc = "off" /\ count = 0 /\ data = NoData /\ bucket = NoData
  /\ local = <<>> /\ remote = <<>> /\ index = NoData /\ locked = FALSE
  /\ rivals = 0 /\ restarts = 0 /\ calm = FALSE /\ quiet = FALSE /\ ok = "nil"

Git == Checkout \/ Pull \/ Stage \/ Diff \/ MakeCommit \/ Push \/ CommandFails
SyncNext ==
  \/ SyncTick \/ ExportJSONL \/ ExportFails \/ PutObject \/ Stop \/ Git
  \/ StoreChanges \/ RivalPushes \/ CalmDown

SyncSpec == SyncInit /\ [][SyncNext]_syncVars

-----------------------------------------------------------------------------
(* Properties.                                                             *)

Returning == syncPc \in Commands /\ syncPc' = "idle"

\* "Write writes data to the configured file, commits, and pushes": when Write
\* returns nil, origin has the file, also when an earlier push failed.
NilMeansPushed ==
  [][Returning /\ ok' = "nil" => File(remote') = data]_syncVars

\* A push never takes a commit of a rival, or of an earlier sync, off origin.
OriginOnlyGrows == [][IsPrefix(remote, remote')]_syncVars

\* A sync during which nothing fails, nobody else pushes and the server is not
\* restarted reaches origin.
CalmSyncSucceeds ==
  [][Returning /\ quiet => ok' = "nil"]_syncVars

\* It does so whatever failed before, while this clone is the only one that ever
\* pushes and no killed command has left its lock.
LoneSyncSucceeds ==
  [][Returning /\ quiet /\ rivals = 0 /\ ~locked => ok' = "nil"]_syncVars
=============================================================================
