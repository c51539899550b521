--------------------------- MODULE SemanageStore ---------------------------
(***************************************************************************)
(* The transactional policy store of libsemanage: the directories active,  *)
(* previous and tmp (the sandbox) that semanage_store.c renames into one   *)
(* another, the files it installs under /etc/selinux, its two lock files,  *)
(* and the record databases each handle caches (database_file.c).          *)
(*                                                                         *)
(* A handle is one process with one semanage_handle_t.  A directory is its *)
(* commit number and its local modifications, a set of records; the final  *)
(* files are the set of records they were generated from.  A call that     *)
(* touches shared state in several steps is split at every step another    *)
(* process, a failure or a crash can observe; what a transaction does to   *)
(* its private sandbox is one step.  The store is the one the system runs  *)
(* on and sh->do_reload is set, as semanage_handle_create leaves it, so    *)
(* that every installation ends with a reload.  A call that cannot get a   *)
(* lock at its start returns an error and changes nothing: it is no step.  *)
(***************************************************************************)
EXTENDS Integers, FiniteSets

CONSTANTS
  Handles,      \* the processes, one semanage_handle_t each
  Nobody,       \* no process: the holder of a free lock
  Records,      \* the records of one local database (ports, file contexts...)
  NumFinal,     \* how many final files there are, SEMANAGE_FINAL_PATH_NUM - 1
  MaxCommits,   \* bound: no transaction begins at this commit number
  MaxCrashes,   \* bound: how many times a process dies
  Faults,       \* the operations that may fail
  Creates,      \* the values of sh->create_store among the processes
  SavePrevious, \* sh->conf->save_previous
  Reuse         \* whether a handle is used again after its commit failed

FaultNames == {"sandbox", "cache", "build", "flush", "validate", "flag", "backup",
               "rename", "copy", "reload", "remove"}

\* At least one process, one final file, and known operations that may fail.
ASSUME StoreParameters ==
  /\ Nobody \notin Handles
  /\ NumFinal \in Nat \ {0}
  /\ MaxCommits \in Nat /\ MaxCrashes \in Nat
  /\ Faults \subseteq FaultNames
  /\ Creates \subseteq BOOLEAN /\ {SavePrevious, Reuse} \subseteq BOOLEAN

VARIABLES
  active, previous, sandbox,  \* the three directories of the store
  final_tmp, final,           \* the final files: built, and installed one by one
  loaded,                     \* the records of the policy the kernel has loaded
  trans_lock, active_lock,    \* who holds the flock on each lock file
  sh,                         \* the handles
  crashes,
  base, want,                 \* history: the store a transaction began from, and
                              \* what its own edits make of it
  orphaned                    \* history: a connection made a new active directory
                              \* while the store was in previous
store == <<active, previous, sandbox, final_tmp, final, loaded>>
locks == <<trans_lock, active_lock>>
history == <<base, want, orphaned>>
vars == <<store, locks, sh, crashes, history>>

(***************************************************************************)
(* Directories, caches and handles                                         *)
(***************************************************************************)
NoDir == [serial |-> -1, data |-> {}]
EmptyStore == [serial |-> 0, data |-> {}]
Dirs == [serial : -1 .. MaxCommits, data : SUBSET Records]
Nothing == [i \in 1 .. NumFinal |-> {}]

NoCache == [cache_serial |-> -1, records |-> {}, modified |-> FALSE]
Caches == [cache_serial : -1 .. MaxCommits, records : SUBSET Records, modified : BOOLEAN]

NewHandle ==
  [is_connected |-> FALSE, is_in_transaction |-> FALSE, commit_err |-> FALSE,
   translock |-> FALSE, activelock |-> FALSE, dbase |-> NoCache,
   pc |-> "idle", i |-> 0, retval |-> 0]

\* Where a call is: between calls, in a read, in begin_trans, in commit.
ReadSteps == {"read", "parse", "exit_ro"}
InstallSteps == {"backup", "active", "tmp", "install", "reload", "undo_active",
                 "undo_backup", "undo_install", "save"}
CommitSteps == {"number", "read_lock", "cleanup"} \union InstallSteps
Steps == {"idle", "make_sandbox"} \union ReadSteps \union CommitSteps

At(h, step) == sh[h].pc = step
Ready(h) == sh[h].is_connected /\ At(h, "idle") /\ (Reuse \/ ~sh[h].commit_err)
Set(h, s) == sh' = [sh EXCEPT ![h] = s]
Go(h, step) == Set(h, [sh[h] EXCEPT !.pc = step])
MayFail(fault) == fault \in Faults

\* semanage_direct_get_serial: the number of the directory the handle works on;
\* a missing file counts as 0.
SerialOf(dir) == IF dir = NoDir THEN 0 ELSE dir.serial
WorksOn(h) == IF sh[h].is_in_transaction THEN sandbox ELSE active
semanage_direct_get_serial(h) == SerialOf(WorksOn(h))

\* dbase_llist_needs_resync
needs_resync(h) ==
  \/ sh[h].dbase.cache_serial < 0
  \/ sh[h].dbase.cache_serial # semanage_direct_get_serial(h)

\* Mutant: the cache is read from the sandbox at every call.
CacheAlways(h) ==
  [cache_serial |-> SerialOf(sandbox), records |-> sandbox.data, modified |-> FALSE]

\* dbase_file_cache inside a transaction, where the sandbox is private.
dbase_file_cache(h) ==
  IF needs_resync(h)
  THEN [cache_serial |-> SerialOf(sandbox), records |-> sandbox.data, modified |-> FALSE]
  ELSE sh[h].dbase

(***************************************************************************)
(* Connections                                                             *)
(***************************************************************************)
\* semanage_handle_create in place of a handle whose commit failed; the process
\* keeps whatever lock the old handle had not released.
semanage_handle_create(h) ==
  /\ ~sh[h].is_connected /\ sh[h].commit_err
  /\ Set(h, NewHandle)
  /\ UNCHANGED <<store, locks, crashes, history>>

\* semanage_connect: creates a missing store if asked to, forgets the lock
\* descriptors and starts from empty caches.  It takes no lock, so that active may
\* be missing because a commit is between its renames, or ended there.
semanage_connect(h, create) ==
  /\ ~sh[h].is_connected
  /\ active' = IF create /\ active = NoDir THEN EmptyStore ELSE active
  /\ orphaned' = (orphaned \/ (active' # active /\ previous # NoDir))
  /\ Set(h, [sh[h] EXCEPT !.is_connected = TRUE, !.translock = FALSE,
                          !.activelock = FALSE, !.dbase = NoCache])
  /\ UNCHANGED <<previous, sandbox, final_tmp, final, loaded, locks, crashes, base, want>>

\* semanage_remove_tmps: does nothing once a commit of the handle has failed.
RemoveTmps(commit_err) ==
  /\ sandbox' = IF commit_err THEN sandbox ELSE NoDir
  /\ final_tmp' = IF commit_err THEN final_tmp ELSE Nothing

\* semanage_release_trans_lock, semanage_release_active_lock
ReleaseTrans(h) == trans_lock' = IF sh[h].translock THEN Nobody ELSE trans_lock
ReleaseActive(h) == active_lock' = IF sh[h].activelock THEN Nobody ELSE active_lock

\* semanage_disconnect: an open transaction is given up, its lock released.
semanage_disconnect(h) ==
  /\ sh[h].is_connected /\ At(h, "idle")
  /\ IF sh[h].is_in_transaction
     THEN RemoveTmps(sh[h].commit_err) /\ ReleaseTrans(h)
     ELSE UNCHANGED <<sandbox, final_tmp, trans_lock>>
  /\ Set(h, [sh[h] EXCEPT !.is_connected = FALSE, !.is_in_transaction = FALSE,
                          !.translock = @ /\ ~sh[h].is_in_transaction, !.dbase = NoCache])
  /\ UNCHANGED <<active, previous, final, loaded, active_lock, crashes, history>>

\* The process dies: its descriptors are closed and its locks with them.
Crash(h) ==
  /\ crashes < MaxCrashes /\ sh[h] # NewHandle
  /\ crashes' = crashes + 1
  /\ trans_lock' = IF trans_lock = h THEN Nobody ELSE trans_lock
  /\ active_lock' = IF active_lock = h THEN Nobody ELSE active_lock
  /\ Set(h, NewHandle)
  /\ UNCHANGED <<store, history>>

(***************************************************************************)
(* Reads outside a transaction: enter_ro, the cache, exit_ro               *)
(***************************************************************************)
\* Mutant: a reader does not wait for the active lock.
EnterRoUnlocked(h) ==
  /\ Ready(h) /\ ~sh[h].is_in_transaction
  /\ Go(h, "read")
  /\ UNCHANGED <<store, locks, crashes, history>>

\* enter_ro takes the active lock; a reader that cannot get it in time returns
\* an error and changes nothing.
EnterRo(h) ==
  /\ Ready(h) /\ ~sh[h].is_in_transaction
  /\ sh[h].activelock \/ active_lock = Nobody
  /\ active_lock' = IF sh[h].activelock THEN active_lock ELSE h
  /\ Set(h, [sh[h] EXCEPT !.activelock = TRUE, !.pc = "read"])
  /\ UNCHANGED <<store, trans_lock, crashes, history>>

\* dbase_file_cache reads the commit number, and the file only if it changed.
ReadSerial(h) ==
  /\ At(h, "read")
  /\ IF needs_resync(h)
     THEN Set(h, [sh[h] EXCEPT !.pc = "parse",
                  !.dbase = [NoCache EXCEPT !.cache_serial = semanage_direct_get_serial(h)]])
     ELSE Go(h, "exit_ro")
  /\ UNCHANGED <<store, locks, crashes, history>>

ReadParse(h) ==
  /\ At(h, "parse")
  /\ Set(h, [sh[h] EXCEPT !.pc = "exit_ro", !.dbase.records = active.data])
  /\ UNCHANGED <<store, locks, crashes, history>>

\* A file that does not parse: the cache is dropped, and enter_ro returns
\* without releasing the lock.
ReadParseFails(h) ==
  /\ At(h, "parse") /\ MayFail("cache")
  /\ Set(h, [sh[h] EXCEPT !.pc = "idle", !.dbase = NoCache])
  /\ UNCHANGED <<store, locks, crashes, history>>

ExitRo(h) ==
  /\ At(h, "exit_ro")
  /\ ReleaseActive(h)
  /\ Set(h, [sh[h] EXCEPT !.pc = "idle", !.activelock = FALSE])
  /\ UNCHANGED <<store, trans_lock, crashes, history>>

(***************************************************************************)
(* Transactions                                                            *)
(***************************************************************************)
\* Mutant: a transaction begins whoever has the lock.
BeginUnlocked(h) ==
  /\ Ready(h) /\ ~sh[h].is_in_transaction
  /\ SerialOf(active) < MaxCommits
  /\ trans_lock' = h
  /\ Set(h, [sh[h] EXCEPT !.translock = TRUE, !.pc = "make_sandbox"])
  /\ UNCHANGED <<store, active_lock, crashes, history>>

\* semanage_begin_transaction takes the transaction lock, which the handle may
\* still have from an attempt that failed; one that cannot get it changes nothing.
BeginTransaction(h) ==
  /\ Ready(h) /\ ~sh[h].is_in_transaction
  /\ SerialOf(active) < MaxCommits
  /\ sh[h].translock \/ trans_lock = Nobody
  /\ trans_lock' = IF sh[h].translock THEN trans_lock ELSE h
  /\ Set(h, [sh[h] EXCEPT !.translock = TRUE, !.pc = "make_sandbox"])
  /\ UNCHANGED <<store, active_lock, crashes, history>>

\* semanage_make_sandbox and semanage_make_final: the sandbox starts as a copy of
\* the active directory.
MakeSandbox(h) ==
  /\ At(h, "make_sandbox") /\ active # NoDir
  /\ sandbox' = active
  /\ final_tmp' = Nothing
  /\ Set(h, [sh[h] EXCEPT !.is_in_transaction = TRUE, !.pc = "idle"])
  /\ base' = [base EXCEPT ![h] = active]
  /\ want' = [want EXCEPT ![h] = active.data]
  /\ UNCHANGED <<active, previous, final, loaded, locks, crashes, orphaned>>

\* Either of them fails: the transaction does not begin, and the lock stays held.
MakeSandboxFails(h) ==
  /\ At(h, "make_sandbox")
  /\ active = NoDir \/ MayFail("sandbox")
  /\ sandbox' \in {NoDir, active}
  /\ Go(h, "idle")
  /\ UNCHANGED <<active, previous, final_tmp, final, loaded, locks, crashes, history>>

InTransaction(h) == sh[h].is_connected /\ sh[h].is_in_transaction /\ At(h, "idle")

\* A read inside the transaction synchronises the cache with the sandbox.
QueryOwn(h) ==
  /\ InTransaction(h)
  /\ Set(h, [sh[h] EXCEPT !.dbase = dbase_file_cache(h)])
  /\ UNCHANGED <<store, locks, crashes, history>>

\* dbase_modify and dbase_del after enter_rw; deleting what is not there leaves
\* the database unmodified.
Modify(h, r) ==
  /\ InTransaction(h)
  /\ LET d == dbase_file_cache(h)
     IN  Set(h, [sh[h] EXCEPT !.dbase = [d EXCEPT !.records = @ \union {r}, !.modified = TRUE]])
  /\ want' = [want EXCEPT ![h] = @ \union {r}]
  /\ UNCHANGED <<store, locks, crashes, base, orphaned>>

Del(h, r) ==
  /\ InTransaction(h)
  /\ LET d == dbase_file_cache(h)
     IN  Set(h, [sh[h] EXCEPT !.dbase = [d EXCEPT !.records = @ \ {r},
                                                  !.modified = @ \/ r \in d.records]])
  /\ want' = [want EXCEPT ![h] = @ \ {r}]
  /\ UNCHANGED <<store, locks, crashes, base, orphaned>>

(***************************************************************************)
(* semanage_direct_commit: the sandbox and the final files are built       *)
(***************************************************************************)
\* Mutant: modified records reach the kernel policy but not the sandbox.
CommitNoFlush(h, do_rebuild) ==
  LET d == dbase_file_cache(h)
  IN  /\ InTransaction(h)
      /\ final_tmp' = [i \in 1 .. NumFinal |-> d.records]
      /\ Set(h, [sh[h] EXCEPT !.dbase = [d EXCEPT !.modified = FALSE], !.retval = 0,
           !.pc = IF do_rebuild \/ sh[h].dbase.modified THEN "number" ELSE "cleanup"])
      /\ UNCHANGED <<active, previous, sandbox, final, loaded, locks, crashes, history>>

\* The kernel policy, file 1, is generated from the cached records; modified
\* records are written to the sandbox.  Nothing is installed unless something
\* was modified or a rebuild is due.
CommitBuild(h, do_rebuild) ==
  LET d == dbase_file_cache(h)
      flushed == IF d.modified THEN d.records ELSE sandbox.data
  IN  /\ InTransaction(h)
      /\ sandbox' = [sandbox EXCEPT !.data = flushed]
      /\ final_tmp' = [i \in 1 .. NumFinal |-> IF i = 1 THEN d.records ELSE flushed]
      /\ Set(h, [sh[h] EXCEPT !.dbase = [d EXCEPT !.modified = FALSE], !.retval = 0,
           !.pc = IF do_rebuild \/ sh[h].dbase.modified THEN "number" ELSE "cleanup"])
      /\ UNCHANGED <<active, previous, final, loaded, locks, crashes, history>>

\* Mutant: no failure sets retval.
GiveUpSilently(h, d, retval) ==
  Set(h, [sh[h] EXCEPT !.dbase = d, !.retval = 0, !.pc = "cleanup"])

GiveUp(h, d, retval) ==
  Set(h, [sh[h] EXCEPT !.dbase = d, !.retval = retval, !.pc = "cleanup"])

\* Compiling, merging or validating fails before the databases are written, before
\* or after semanage_base_merge_components has brought the caches up to date.
CommitBuildFails(h) ==
  /\ InTransaction(h) /\ MayFail("build")
  /\ \E d \in {sh[h].dbase, dbase_file_cache(h)} : GiveUp(h, d, -1)
  /\ UNCHANGED <<store, locks, crashes, history>>

\* semanage_commit_components fails: every cache is dropped.
CommitFlushFails(h) ==
  /\ InTransaction(h) /\ MayFail("flush")
  /\ GiveUp(h, NoCache, -1)
  /\ UNCHANGED <<store, locks, crashes, history>>

\* A flag file cannot be written, or a store without modules is to be rebuilt:
\* the function ends with the 0 an earlier call left in retval.
CommitQuits(h) ==
  /\ InTransaction(h) /\ MayFail("flag")
  /\ GiveUp(h, sh[h].dbase, 0)
  /\ UNCHANGED <<store, locks, crashes, history>>

(***************************************************************************)
(* semanage_install_sandbox and semanage_commit_sandbox                    *)
(***************************************************************************)
Fail(h, step) == Set(h, [sh[h] EXCEPT !.retval = -1, !.pc = step])

\* The sandbox gets the next commit number.
CommitNumber(h) ==
  /\ At(h, "number")
  /\ sandbox' = [sandbox EXCEPT !.serial = semanage_direct_get_serial(h) + 1]
  /\ Set(h, [sh[h] EXCEPT !.retval = sandbox'.serial, !.pc = "read_lock"])
  /\ UNCHANGED <<active, previous, final_tmp, final, loaded, locks, crashes, history>>

\* The file contexts do not validate or the number cannot be written.
CommitNumberFails(h) ==
  /\ At(h, "number") /\ MayFail("validate")
  /\ Fail(h, "cleanup")
  /\ UNCHANGED <<store, locks, crashes, history>>

CommitLock(h) ==
  /\ At(h, "read_lock")
  /\ sh[h].activelock \/ active_lock = Nobody
  /\ active_lock' = IF sh[h].activelock THEN active_lock ELSE h
  /\ Set(h, [sh[h] EXCEPT !.activelock = TRUE, !.pc = "backup"])
  /\ UNCHANGED <<store, trans_lock, crashes, history>>

\* Mutant: the lock is waited for without a timeout.
CommitLockWaits(h) ==
  /\ At(h, "read_lock")
  /\ ~sh[h].activelock /\ active_lock # Nobody
  /\ UNCHANGED vars

CommitLockTimeout(h) ==
  /\ At(h, "read_lock")
  /\ ~sh[h].activelock /\ active_lock # Nobody
  /\ Fail(h, "cleanup")
  /\ UNCHANGED <<store, locks, crashes, history>>

\* The end of semanage_commit_sandbox: the active lock is released.
Leave(h, retval) ==
  /\ ReleaseActive(h)
  /\ Set(h, [sh[h] EXCEPT !.retval = retval, !.activelock = FALSE, !.pc = "cleanup"])

RemoveBackup(h) ==
  /\ At(h, "backup")
  /\ previous' = NoDir
  /\ Go(h, "active")
  /\ UNCHANGED <<active, sandbox, final_tmp, final, loaded, locks, crashes, history>>

\* Mutant: the code of semanage_remove_directory is returned as it is.
RemoveBackupRawError(h) ==
  /\ At(h, "backup") /\ MayFail("backup")
  /\ Leave(h, -4)
  /\ UNCHANGED <<store, trans_lock, crashes, history>>

\* A directory that was removed only in part is no store any more.
RemoveBackupFails(h) ==
  /\ At(h, "backup") /\ MayFail("backup")
  /\ previous' \in {previous, NoDir}
  /\ Leave(h, -1)
  /\ UNCHANGED <<active, sandbox, final_tmp, final, loaded, trans_lock, crashes, history>>

\* Mutant: the active directory is removed to make room for the sandbox.
RemoveActive(h) ==
  /\ At(h, "active")
  /\ active' = NoDir
  /\ Go(h, "tmp")
  /\ UNCHANGED <<previous, sandbox, final_tmp, final, loaded, locks, crashes, history>>

RenameActive(h) ==
  /\ At(h, "active")
  /\ previous' = active /\ active' = NoDir
  /\ Go(h, "tmp")
  /\ UNCHANGED <<sandbox, final_tmp, final, loaded, locks, crashes, history>>

RenameActiveFails(h) ==
  /\ At(h, "active") /\ MayFail("rename")
  /\ Leave(h, -1)
  /\ UNCHANGED <<store, trans_lock, crashes, history>>

\* Mutant: the backup goes as soon as the sandbox is in place.
RenameSandboxDropsBackup(h) ==
  /\ At(h, "tmp") /\ active = NoDir
  /\ active' = sandbox /\ sandbox' = NoDir /\ previous' = NoDir
  /\ Set(h, [sh[h] EXCEPT !.i = 1, !.pc = "install"])
  /\ UNCHANGED <<final_tmp, final, loaded, locks, crashes, history>>

\* rename fails with ENOTEMPTY when a connection has made active in the meantime.
RenameSandbox(h) ==
  /\ At(h, "tmp") /\ active = NoDir
  /\ active' = sandbox /\ sandbox' = NoDir
  /\ Set(h, [sh[h] EXCEPT !.i = 1, !.pc = "install"])
  /\ UNCHANGED <<previous, final_tmp, final, loaded, locks, crashes, history>>

\* The old directory is renamed back, which may fail for either reason as well.
RenameSandboxFails(h) ==
  /\ At(h, "tmp")
  /\ active # NoDir \/ MayFail("rename")
  /\ \/ active = NoDir /\ active' = previous /\ previous' = NoDir
     \/ UNCHANGED <<active, previous>>
  /\ Leave(h, -1)
  /\ UNCHANGED <<sandbox, final_tmp, final, loaded, trans_lock, crashes, history>>

\* Mutant: the loop over the final files ends one file early.
InstallFileShort(h) ==
  /\ At(h, "install")
  /\ final' = [final EXCEPT ![sh[h].i] = final_tmp[sh[h].i]]
  /\ Set(h, [sh[h] EXCEPT !.i = 0, !.pc = "reload"])
  /\ UNCHANGED <<active, previous, sandbox, final_tmp, loaded, locks, crashes, history>>

\* semanage_install_final_tmp copies the final files one by one, then reloads.
InstallFile(h) ==
  /\ At(h, "install")
  /\ final' = [final EXCEPT ![sh[h].i] = final_tmp[sh[h].i]]
  /\ Set(h, [sh[h] EXCEPT !.i = (@ + 1) % (NumFinal + 1),
                          !.pc = IF sh[h].i < NumFinal THEN "install" ELSE "reload"])
  /\ UNCHANGED <<active, previous, sandbox, final_tmp, loaded, locks, crashes, history>>

ReloadPolicy(h) ==
  /\ At(h, "reload")
  /\ loaded' = final[1]
  /\ Go(h, "save")
  /\ UNCHANGED <<active, previous, sandbox, final_tmp, final, locks, crashes, history>>

InstallFails(h) ==
  /\ \/ At(h, "install") /\ MayFail("copy")
     \/ At(h, "reload") /\ MayFail("reload")
  /\ Set(h, [sh[h] EXCEPT !.i = 0, !.pc = "undo_active"])
  /\ UNCHANGED <<store, locks, crashes, history>>

\* The rollback: both directories are renamed back, and the final files that are
\* still in the temporary directory are installed once more, whatever comes of it.
UndoActive(h) ==
  /\ At(h, "undo_active")
  /\ sandbox' = active /\ active' = NoDir
  /\ Go(h, "undo_backup")
  /\ UNCHANGED <<previous, final_tmp, final, loaded, locks, crashes, history>>

UndoBackup(h) ==
  /\ At(h, "undo_backup") /\ active = NoDir
  /\ active' = previous /\ previous' = NoDir
  /\ Go(h, "undo_install")
  /\ UNCHANGED <<sandbox, final_tmp, final, loaded, locks, crashes, history>>

UndoInstall(h) ==
  /\ At(h, "undo_install")
  /\ \E n \in 0 .. NumFinal :
       /\ n < NumFinal => MayFail("copy")
       /\ final' = [i \in 1 .. NumFinal |-> IF i <= n THEN final_tmp[i] ELSE final[i]]
       /\ \/ n = NumFinal /\ loaded' = final'[1]
          \/ (n < NumFinal \/ MayFail("reload")) /\ loaded' = loaded
  /\ Leave(h, -1)
  /\ UNCHANGED <<active, previous, sandbox, final_tmp, trans_lock, crashes, history>>

UndoFails(h) ==
  /\ \/ sh[h].pc \in {"undo_active", "undo_backup"} /\ MayFail("rename")
     \/ At(h, "undo_backup") /\ active # NoDir
  /\ Leave(h, -1)
  /\ UNCHANGED <<store, trans_lock, crashes, history>>

\* Without save_previous the backup is removed once the commit is installed.
SaveOrRemovePrevious(h) ==
  /\ At(h, "save")
  /\ previous' = IF SavePrevious THEN previous ELSE NoDir
  /\ Leave(h, sh[h].retval)
  /\ UNCHANGED <<active, sandbox, final_tmp, final, loaded, trans_lock, crashes, history>>

RemovePreviousFails(h) ==
  /\ At(h, "save") /\ ~SavePrevious /\ MayFail("remove")
  /\ previous' \in {previous, NoDir}
  /\ Leave(h, -1)
  /\ UNCHANGED <<active, sandbox, final_tmp, final, loaded, trans_lock, crashes, history>>

\* The end of semanage_direct_commit and semanage_commit: an error is remembered,
\* the temporary files are removed unless there was one, the lock is released.
CommitCleanup(h) ==
  LET failed == sh[h].commit_err \/ sh[h].retval < 0
  IN  /\ At(h, "cleanup")
      /\ RemoveTmps(failed)
      /\ ReleaseTrans(h)
      /\ Set(h, [sh[h] EXCEPT !.commit_err = failed, !.translock = FALSE,
                              !.is_in_transaction = FALSE, !.i = 0, !.pc = "idle"])
      /\ UNCHANGED <<active, previous, final, loaded, active_lock, crashes, history>>

\* The temporary files cannot be removed: an error is returned, after the fact.
CommitCleanupFails(h) ==
  /\ At(h, "cleanup") /\ MayFail("remove")
  /\ ~sh[h].commit_err /\ sh[h].retval >= 0
  /\ ReleaseTrans(h)
  /\ Set(h, [sh[h] EXCEPT !.retval = -1, !.translock = FALSE,
                          !.is_in_transaction = FALSE, !.i = 0, !.pc = "idle"])
  /\ UNCHANGED <<store, active_lock, crashes, history>>

(***************************************************************************)
(* The specification                                                       *)
(***************************************************************************)
\* On a system without a store nothing is installed either.
Init ==
  /\ active \in IF TRUE \in Creates THEN {NoDir, EmptyStore} ELSE {EmptyStore}
  /\ previous = NoDir /\ sandbox = NoDir
  /\ final_tmp = Nothing /\ final = Nothing /\ loaded = {}
  /\ trans_lock = Nobody /\ active_lock = Nobody
  /\ sh = [h \in Handles |-> NewHandle]
  /\ crashes = 0
  /\ base = [h \in Handles |-> NoDir] /\ want = [h \in Handles |-> {}]
  /\ orphaned = FALSE

\* What the application calls ...
Calls(h) ==
  \/ semanage_handle_create(h) \/ semanage_disconnect(h)
  \/ \E create \in Creates : semanage_connect(h, create)
  \/ EnterRo(h) \/ BeginTransaction(h) \/ QueryOwn(h)
  \/ \E r \in Records : Modify(h, r) \/ Del(h, r)
  \/ \E do_rebuild \in BOOLEAN : CommitBuild(h, do_rebuild)
  \/ CommitBuildFails(h) \/ CommitFlushFails(h) \/ CommitQuits(h)

\* ... and the steps a call then takes by itself.
Continues(h) ==
  \/ ReadSerial(h) \/ ReadParse(h) \/ ReadParseFails(h) \/ ExitRo(h)
  \/ MakeSandbox(h) \/ MakeSandboxFails(h)
  \/ CommitNumber(h) \/ CommitNumberFails(h) \/ CommitLock(h) \/ CommitLockTimeout(h)
  \/ RemoveBackup(h) \/ RemoveBackupFails(h) \/ RenameActive(h) \/ RenameActiveFails(h)
  \/ RenameSandbox(h) \/ RenameSandboxFails(h) \/ InstallFile(h) \/ ReloadPolicy(h)
  \/ InstallFails(h) \/ UndoActive(h) \/ UndoBackup(h) \/ UndoInstall(h) \/ UndoFails(h)
  \/ SaveOrRemovePrevious(h) \/ RemovePreviousFails(h)
  \/ CommitCleanup(h) \/ CommitCleanupFails(h)

Next == \E h \in Handles : Calls(h) \/ Continues(h) \/ Crash(h)

\* A process that is inside a call keeps running.
Spec == Init /\ [][Next]_vars /\ \A h \in Handles : WF_vars(Continues(h))

(***************************************************************************)
(* Properties                                                              *)
(***************************************************************************)
\* The types of the store, the locks and the handles.
TypeOK ==
  /\ {active, previous, sandbox} \subseteq Dirs
  /\ final_tmp \in [1 .. NumFinal -> SUBSET Records]
  /\ final \in [1 .. NumFinal -> SUBSET Records]
  /\ loaded \subseteq Records
  /\ {trans_lock, active_lock} \subseteq Handles \union {Nobody}
  /\ sh \in [Handles -> [is_connected : BOOLEAN, is_in_transaction : BOOLEAN,
                         commit_err : BOOLEAN, translock : BOOLEAN, activelock : BOOLEAN,
                         dbase : Caches, pc : Steps, i : 0 .. NumFinal,
                         retval : -1 .. MaxCommits]]
  /\ crashes \in 0 .. MaxCrashes
  /\ base \in [Handles -> Dirs]
  /\ want \in [Handles -> SUBSET Records]
  /\ orphaned \in BOOLEAN

\* A transaction is isolated: from begin_transaction to the rename of its sandbox
\* (semanage_store.c, semanage_commit_sandbox) the active store is the one the
\* transaction began from, so that no commit of another process is overwritten.
Isolated ==
  \A h \in Handles :
    /\ sh[h].is_in_transaction
    /\ sh[h].pc \in {"idle", "number", "read_lock", "backup", "active"}
    => /\ active = base[h]
       /\ At(h, "idle") => sandbox = active

\* The properties below except one: a connection that is to create a missing store
\* takes no lock, and between a commit's two renames (or after a commit that ended
\* there) it finds active missing and makes an empty store next to the one in
\* previous (semanage_store.c:573).  From then on commit numbers start again at 0,
\* cached records may seem current that are not, and the next commit removes
\* previous (semanage_store.c:1778): the store is orphaned and nothing is claimed.

\* What a reader is about to return under the active lock (database.c, exit_ro) is
\* the active store under its own commit number, never the middle of a commit,
\* unless the store is orphaned.
ReadsCommitted ==
  ~orphaned => \A h \in Handles :
    At(h, "exit_ro") =>
      /\ sh[h].dbase.cache_serial = SerialOf(active) /\ sh[h].dbase.records = active.data
      /\ \A g \in Handles : sh[g].pc \notin InstallSteps

\* A transaction reads its own writes: a cache in step with the sandbox holds what
\* the transaction's edits made of the store it began from (database_llist.c),
\* unless the store is orphaned.
ReadsOwnWrites ==
  ~orphaned => \A h \in Handles :
    InTransaction(h) /\ ~needs_resync(h) => sh[h].dbase.records = want[h]

\* What a commit is about to make active is the store the transaction began from
\* with the edits made since then, and no other edits (handle.h, semanage_commit),
\* unless the store is orphaned.
CommitsOwnChanges ==
  ~orphaned => \A h \in Handles :
    At(h, "tmp") => sandbox = [serial |-> base[h].serial + 1, data |-> want[h]]

\* When no commit is being installed, the files under /etc/selinux and the policy
\* the kernel has loaded are those of the active store, unless it is orphaned.
\* This is so as long as nothing fails once a commit has renamed active (see
\* "Upon error move the active directory back to the sandbox", semanage_store.c).
FinalMatchesActive ==
  ~orphaned /\ (\A h \in Handles : sh[h].pc \notin InstallSteps) =>
    /\ \A i \in 1 .. NumFinal : final[i] = active.data
    /\ loaded = active.data

\* semanage_commit returns (direct_api.c, the end of semanage_direct_commit).
Returns(h) == At(h, "cleanup") /\ sh'[h].pc = "idle" /\ sh'[h].is_connected

\* A commit that returns an error leaves a store to go on with, whatever failed in
\* it and whatever connections were made meanwhile: active is the store it began
\* from, or the new one (it could not be moved back, or only the backup or the
\* temporary files could not be removed), or else previous is the store it began
\* from.
FailureIsRecoverable ==
  [][\A h \in Handles :
       Returns(h) /\ sh'[h].retval < 0 =>
         \/ active = base[h]
         \/ active.serial = base[h].serial + 1
         \/ previous = base[h]]_vars

\* A commit that returns no error has made all the edits of its transaction active,
\* unless the store is orphaned.
SuccessIsCommitted ==
  [][\A h \in Handles :
       ~orphaned /\ Returns(h) /\ sh'[h].retval >= 0 => active.data = want[h]]_vars

\* Whatever fails and whenever a process dies, the store a transaction began from
\* survives in active or previous until a later one is complete there: the newest
\* store on disk is never older than one some handle has seen.  The exception is
\* an orphaned store: an empty one was made after a commit died, or failed to
\* rename back, between its renames, and the next commit removes the real one.
NeverLost ==
  ~orphaned => \A h \in Handles : base[h] # NoDir =>
    \E dir \in {active, previous} : dir = base[h] \/ dir.serial > base[h].serial

\* A call that has begun returns, also one that waits for a lock another process
\* never releases (semanage_get_lock gives up after its timeout).
EveryCallReturns ==
  \A h \in Handles : ~At(h, "idle") ~> At(h, "idle")

=============================================================================
