---------------------------- MODULE GitSyncProofs ----------------------------
(***************************************************************************)
(* What holds of the git destination for any number of exports, rivals'    *)
(* pushes and failures.  NoData, the mark of a branch without the file, is *)
(* no export; nothing else is assumed.  The last part is about the sync    *)
(* beside the presence tracker.                                            *)
(***************************************************************************)
EXTENDS MCBackground, PresenceProofs, TLAPS

\* What the scheduler writes, and what a branch is made of.
Export == [version : Nat, stamp : Nat]
Contents == Export \cup {NoData}
Commit == [by : {"sync", "rival"}, file : Contents]

\* The types of the clone, the branches and the scheduler.
GitTypeOK ==
  /\ db \in Nat /\ count \in Nat /\ rivals \in Nat
  /\ syncPc \in {"off", "idle", "export", "s3"} \cup Commands
  /\ data \in Contents /\ index \in Contents
  /\ local \in Seq(Commit) /\ remote \in Seq(Commit)
  /\ calm \in BOOLEAN /\ quiet \in BOOLEAN

\* Every file on a branch is from an earlier export than the one with this number.
Before(branch, number) ==
  \A i \in DOMAIN branch : branch[i].file # NoData => branch[i].file.stamp < number

\* The export being written is new to both branches until it is committed.
ExportIsNew ==
  /\ Before(local, count + 1) /\ Before(remote, count + 1)
  /\ syncPc \in {"s3", "checkout", "pull", "write", "diff", "commit"} =>
       /\ Before(local, count) /\ Before(remote, count)
  /\ syncPc \in {"s3"} \cup Commands => data \in Export /\ data.stamp = count
  /\ syncPc \in {"diff", "commit"} => index = data
  /\ syncPc = "push" => local # <<>> /\ File(local) = data

\* As long as this clone alone pushes, origin is never ahead of it.
CloneLeads == rivals = 0 => IsPrefix(remote, local)

\* Exports are numbered: the one being written is newer than every committed one, so an
\* unchanged index after it means that the export itself has been committed before.
GitIInv == GitTypeOK /\ ExportIsNew /\ CloneLeads /\ (quiet => calm)

USE DEF clone, env, syncVars, Commands, Return

\* A branch is a prefix of itself and of what a commit makes of it.
LEMMA PrefixFacts ==
  ASSUME NEW s \in Seq(Commit), NEW t \in Seq(Commit), NEW c \in Commit
  PROVE  /\ IsPrefix(s, s) /\ IsPrefix(s, Append(s, c))
         /\ IsPrefix(s, t) => IsPrefix(s, Append(t, c))
         /\ IsPrefix(<<>>, s)
BY DEF IsPrefix

\* The file a branch holds is the one of its last commit.
LEMMA FileType ==
  ASSUME NEW branch \in Seq(Commit)
  PROVE  /\ File(branch) \in Contents
         /\ \A c \in Commit : Append(branch, c) # <<>> /\ File(Append(branch, c)) = c.file
         /\ \A n : Before(branch, n) /\ File(branch) # NoData => File(branch).stamp < n
<1>1. branch = <<>> \/ Len(branch) \in DOMAIN branch
  OBVIOUS
<1>2. \A i \in DOMAIN branch : branch[i] \in Commit
  OBVIOUS
<1>3. \A c \in Commit : Append(branch, c) # <<>> /\ File(Append(branch, c)) = c.file
  BY DEF File, Last
<1> QED
  BY <1>1, <1>2, <1>3 DEF File, Last, Commit, Before, Contents

\* A commit of an older export adds nothing new.
LEMMA BeforeAppend ==
  ASSUME NEW branch \in Seq(Commit), NEW c \in Commit, NEW n \in Nat, Before(branch, n),
         c.file # NoData => c.file.stamp < n
  PROVE  Before(Append(branch, c), n)
BY DEF Before

\* At the start both branches hold nothing newer than the first export.
LEMMA GitInitIInv == SyncInit => GitIInv
<1> SUFFICES ASSUME SyncInit PROVE GitIInv
  OBVIOUS
<1>1. GitTypeOK
  <2>1. local \in Seq(Commit) /\ remote \in Seq(Commit)
    BY DEF SyncInit
  <2>2. data \in Contents /\ index \in Contents
    BY DEF SyncInit, Contents
  <2> QED
    BY <2>1, <2>2 DEF SyncInit, GitTypeOK
<1>2. ExportIsNew
  BY DEF SyncInit, ExportIsNew, Before
<1>3. CloneLeads
  BY DEF SyncInit, CloneLeads, IsPrefix
<1> QED
  BY <1>1, <1>2, <1>3 DEF SyncInit, GitIInv

\* The scheduler numbers a new export and hands it to its destinations.
LEMMA SchedulerKeeps ==
  ASSUME GitIInv, SyncTick \/ ExportJSONL \/ ExportFails \/ PutObject \/ Stop
  PROVE  GitIInv'
<1>0. \A branch \in Seq(Commit), n \in Nat : Before(branch, n) => Before(branch, n + 1)
  <2> SUFFICES ASSUME NEW branch \in Seq(Commit), NEW n \in Nat, Before(branch, n),
                      NEW i \in DOMAIN branch, branch[i].file # NoData
               PROVE  branch[i].file.stamp < n + 1
    BY DEF Before
  <2>1. branch[i] \in Commit
    OBVIOUS
  <2>2. branch[i].file \in Export
    BY <2>1 DEF Commit, Contents
  <2> QED
    BY <2>2 DEF Before, Export
<1>1. CASE SyncTick
  BY <1>1 DEF SyncTick, GitIInv, GitTypeOK, ExportIsNew, CloneLeads
<1>2. CASE ExportJSONL
  <2>1. data' \in Export /\ data'.stamp = count' /\ count' = count + 1 /\ syncPc' = "s3"
    BY <1>2 DEF ExportJSONL, GitIInv, GitTypeOK, Export
  <2> QED
    BY <1>0, <1>2, <2>1 DEF ExportJSONL, GitIInv, GitTypeOK, Contents, ExportIsNew, CloneLeads
<1>3. CASE ExportFails
  BY <1>0, <1>3 DEF ExportFails, GitIInv, GitTypeOK, ExportIsNew, CloneLeads
<1>4. CASE PutObject
  BY <1>4 DEF PutObject, GitIInv, GitTypeOK, ExportIsNew, CloneLeads
<1>5. CASE Stop
  BY <1>5 DEF Stop, GitIInv, GitTypeOK, ExportIsNew, CloneLeads
<1> QED
  BY <1>1, <1>2, <1>3, <1>4, <1>5

\* Each git command, and one that fails, keeps what the next one relies on.
LEMMA CommandsKeep ==
  ASSUME GitIInv, Git
  PROVE  GitIInv'
<1>1. CASE Checkout
  BY <1>1 DEF Checkout, GitIInv, GitTypeOK, ExportIsNew, CloneLeads
<1>2. CASE Pull
  BY <1>2, PrefixFacts DEF Pull, GitIInv, GitTypeOK, ExportIsNew, CloneLeads
<1>3. CASE Stage
  BY <1>3 DEF Stage, GitIInv, GitTypeOK, ExportIsNew, CloneLeads
<1>4. CASE Diff
  BY <1>4 DEF Diff, GitIInv, GitTypeOK, ExportIsNew, CloneLeads
<1>5. CASE MakeCommit
  <2> DEFINE c == [by |-> "sync", file |-> index]
  <2>1. c \in Commit /\ index = data /\ data.stamp = count /\ local \in Seq(Commit) /\ count \in Nat
    BY <1>5 DEF MakeCommit, GitIInv, GitTypeOK, ExportIsNew, Commit
  <2>2. local' = Append(local, c) /\ syncPc' = "push" /\ syncPc = "commit"
    BY <1>5 DEF MakeCommit
  <2>3. local' \in Seq(Commit) /\ local' # <<>> /\ File(local') = data /\ Before(local', count + 1)
    <3>1. Before(local, count + 1)
      BY DEF GitIInv, ExportIsNew
    <3> HIDE DEF c
    <3>2. c.file = index
      BY DEF c
    <3> QED
      BY <2>1, <2>2, <3>1, <3>2, FileType, BeforeAppend
  <2>4. IsPrefix(remote, local) => IsPrefix(remote, local')
    BY <2>1, <2>2, PrefixFacts DEF GitIInv, GitTypeOK
  <2>5. File(local)' = File(local')
    BY DEF File
  <2> QED
    BY <1>5, <2>2, <2>3, <2>4, <2>5 DEF MakeCommit, GitIInv, GitTypeOK, ExportIsNew, CloneLeads
<1>6. CASE Push
  BY <1>6, PrefixFacts DEF Push, GitIInv, GitTypeOK, ExportIsNew, CloneLeads
<1>7. CASE CommandFails
  BY <1>7, PrefixFacts DEF CommandFails, GitIInv, GitTypeOK, ExportIsNew, CloneLeads
<1> QED
  BY <1>1, <1>2, <1>3, <1>4, <1>5, <1>6, <1>7 DEF Git

\* Other writers of the store and of origin only add what is older than the next export.
LEMMA EnvironmentKeeps ==
  ASSUME GitIInv, StoreChanges \/ RivalPushes \/ CalmDown
  PROVE  GitIInv'
<1>1. CASE StoreChanges
  BY <1>1 DEF StoreChanges, GitIInv, GitTypeOK, ExportIsNew, CloneLeads
<1>2. CASE RivalPushes
  <2> DEFINE c == [by |-> "rival", file |-> File(remote)]
  <2>1. c \in Commit /\ remote' = Append(remote, c) /\ remote \in Seq(Commit)
    BY <1>2, FileType DEF RivalPushes, GitIInv, GitTypeOK, Commit
  <2>2. \A n \in Nat : Before(remote, n) => Before(remote', n)
    <3>1. c.file = File(remote)
      OBVIOUS
    <3> HIDE DEF c
    <3> QED
      BY <2>1, <3>1, FileType, BeforeAppend
  <2>3. remote' \in Seq(Commit) /\ rivals' \in Nat /\ rivals' # 0 /\ count \in Nat
    BY <1>2, <2>1 DEF RivalPushes, GitIInv, GitTypeOK
  <2> QED
    BY <1>2, <2>2, <2>3 DEF RivalPushes, GitIInv, GitTypeOK, ExportIsNew, CloneLeads
<1>3. CASE CalmDown
  BY <1>3 DEF CalmDown, GitIInv, GitTypeOK, ExportIsNew, CloneLeads
<1> QED
  BY <1>1, <1>2, <1>3

\* Every step keeps the invariant.
LEMMA GitStepIInv == GitIInv /\ [SyncNext]_syncVars => GitIInv'
<1>1. ASSUME GitIInv, UNCHANGED syncVars PROVE GitIInv'
  BY <1>1 DEF GitIInv, GitTypeOK, ExportIsNew, CloneLeads, Before, File
<1> QED
  BY <1>1, SchedulerKeeps, CommandsKeep, EnvironmentKeeps DEF SyncNext

\* When Write returns nil the export is what origin holds, however the clone was
\* left by earlier commands that failed (git.go Write).
THEOREM GitNilMeansPushed == SyncSpec => NilMeansPushed
<1>1. ASSUME GitIInv, [SyncNext]_syncVars, Returning, ok' = "nil" PROVE File(remote') = data
  <2>1. CASE Diff
    <3>1. index = File(local) /\ index = data /\ data \in Export /\ data.stamp = count /\ Before(local, count)
          /\ count \in Nat
      BY <1>1, <2>1 DEF Diff, Returning, GitIInv, GitTypeOK, ExportIsNew
    <3>2. data.stamp < count
      BY <1>1, <3>1, FileType, GitSyncAssumption DEF GitIInv, GitTypeOK, Export
    <3> QED
      BY <3>1, <3>2
  <2>2. CASE Push
    BY <1>1, <2>2 DEF Push, GitIInv, ExportIsNew
  <2> QED
    BY <1>1, <2>1, <2>2 DEF Returning, SyncNext, Git, SyncTick, ExportJSONL, ExportFails, PutObject, Stop, Checkout, Pull, Stage,
       MakeCommit, CommandFails, StoreChanges, RivalPushes, CalmDown
<1>2. GitIInv /\ [SyncNext]_syncVars => [Returning /\ ok' = "nil" => File(remote') = data]_syncVars
  BY <1>1
<1> QED
  BY <1>2, GitInitIInv, GitStepIInv, PTL DEF SyncSpec, NilMeansPushed

\* No command ever rewrites what is on origin: a push only adds (git.go: no --force).
THEOREM GitOriginOnlyGrows == SyncSpec => OriginOnlyGrows
<1>1. ASSUME GitIInv, [SyncNext]_syncVars PROVE IsPrefix(remote, remote')
  <2>1. CASE UNCHANGED remote
    BY <1>1, <2>1 DEF GitIInv, GitTypeOK, IsPrefix
  <2>2. CASE Push \/ CommandFails
    BY <1>1, <2>1, <2>2 DEF Push, CommandFails
  <2>3. CASE RivalPushes
    <3>1. [by |-> "rival", file |-> File(remote)] \in Commit /\ remote \in Seq(Commit)
      BY <1>1, FileType DEF GitIInv, GitTypeOK, Commit
    <3> QED
      BY <2>3, <3>1, PrefixFacts DEF RivalPushes
  <2> QED
    BY <1>1, <2>1, <2>2, <2>3 DEF SyncNext, Git, SyncTick, ExportJSONL, ExportFails, PutObject, Stop, Checkout, Pull, Stage, Diff,
       MakeCommit, StoreChanges, CalmDown
<1>2. GitIInv /\ [SyncNext]_syncVars => [IsPrefix(remote, remote')]_syncVars
  BY <1>1
<1> QED
  BY <1>2, GitInitIInv, GitStepIInv, PTL DEF SyncSpec, OriginOnlyGrows

\* With no other writer and no command failing, a sync succeeds, whatever earlier
\* failures have left in the clone.
THEOREM GitLoneSyncSucceeds == SyncSpec => LoneSyncSucceeds
<1>1. ASSUME GitIInv, [SyncNext]_syncVars, Returning, quiet, rivals = 0, ~locked PROVE ok' = "nil"
  BY <1>1 DEF GitIInv, CloneLeads, Returning, SyncNext, Git, SyncTick, ExportJSONL, ExportFails, PutObject, Stop, Checkout, Pull,
     Stage, Diff, MakeCommit, Push, CommandFails, StoreChanges, RivalPushes, CalmDown
<1>2. GitIInv /\ [SyncNext]_syncVars => [Returning /\ quiet /\ rivals = 0 /\ ~locked => ok' = "nil"]_syncVars
  BY <1>1
<1> QED
  BY <1>2, GitInitIInv, GitStepIInv, PTL DEF SyncSpec, LoneSyncSucceeds

-----------------------------------------------------------------------------
(* Both goroutines of the server.                                          *)

\* Whichever is at work, the server's background behaves as the tracker alone and as
\* the scheduler alone: they share nothing (main starts the reaper and the sync).
LEMMA BackgroundImplements == BackgroundSpec => Spec /\ SyncSpec
<1>1. BackgroundInit => Init /\ SyncInit
  BY DEF BackgroundInit
<1>2. [BackgroundNext]_backgroundVars => [Next]_vars /\ [SyncNext]_syncVars
  BY DEF BackgroundNext, backgroundVars, OnlyPresence, OnlyGit
<1> QED
  BY <1>1, <1>2, PTL DEF BackgroundSpec, Spec, SyncSpec

\* The background as the run background has it: the reaper is neither early nor mistaken,
\* each death is told once, and a sync says it succeeded only when origin has its export,
\* without ever rewriting what origin has.
THEOREM BackgroundCorrect ==
  BackgroundSpec =>
    /\ []DeadMeansSilent /\ NotMarkedEarly /\ NotForgottenEarly /\ ReportedOncePerDeath
    /\ NilMeansPushed /\ OriginOnlyGrows /\ LoneSyncSucceeds
BY BackgroundImplements, PresenceDeadMeansSilent, PresenceNotMarkedEarly, PresenceNotForgottenEarly,
   PresenceReportedOncePerDeath, GitNilMeansPushed, GitOriginOnlyGrows, GitLoneSyncSucceeds
=============================================================================
