# A TLA+ verification of the SELinux userspace

The repository is the SELinux userspace: the C libraries libselinux, libsemanage
and libsepol, the compilers, and the tools on top of them. This directory holds
TLA+ models of the parts of it that are stateful and concurrent, the TLC
configurations that check them, and TLAPS proofs of the core one. Paths below are
relative to `src/`.

## The system

**Userspace AVC** (`libselinux/src/avc.c`, `avc_internal.c`, `checkAccess.c`). An
object manager (a display server, a database, dbus) asks it whether one context may
do something to another. State: a hash table of entries made of a fixed pool of
nodes, a free list, a reclaim hint, the sequence number of the latest notification,
the enforcing mode and the flag that pins it, and the references applications keep
into the table. Operations: permission queries, `avc_compute_create`, processing of
setenforce and policyload events, the `avc_ss_*` updates, open, init, destroy.

**Status page** (`libselinux/src/sestatus.c`). The kernel publishes mode, policy
generation and `deny_unknown` on a shared page under a seqlock. The library reads it
without a lock and remembers the last number and generation it saw. Without the page it
falls back to a netlink socket (`avc_internal.c`).

**Policy store** (`libsemanage/src/semanage_store.c`, `direct_api.c`, `handle.c`,
`database*.c`). Processes edit record databases and modules in a sandbox directory
and commit it: the sandbox is renamed over the active directory, files are installed
below `/etc/selinux`, and the kernel's policy is reloaded. Two lock files order writers
and readers; caches are kept per handle and validated by the commit number.

**The rest**: SID table, class mapping and class cache, context translation (library
and daemon), file labelling and restorecon with its worker threads, restorecond,
libsepol's policy compiler and CIL, checkpolicy, the command-line tools, the Python
tools. `PROJECT.json` lists each with the reason it is not modelled or with what is
planned.

How they interact: the status page (or the socket) drives the AVC, which every query
first brings up to date; the AVC asks the kernel what it does not know; the kernel's
policy changes when the policy store commits. The first two interactions are
composed in `AvcSystem`; the third is the kernel's `policyload` there and `loaded` in
`SemanageStore`.

What is hard about them: the page changes between any two loads; a cached decision
outlives the policy and the mode it was made in; events are processed in several
critical sections with application callbacks between them; a reference outlives the
entry it points to; a commit is a dozen steps on shared directories, each of which may
fail or be the last one before a crash, and its rollback may fail too; a handle lives
on after a failed commit.

What correctness means: no node of the pool is lost; a reference never yields another
key's decision; what permissive mode forgave is not granted in enforcing mode; a check
is answered by a policy and a mode in force since it began; a read of the page is a
snapshot, and no change is hidden by the bookkeeping; a transaction is isolated and
what it reports as done is done; a commit that fails leaves a store to go on with; no store
is lost by a crash alone; every call returns. Where the code keeps one of these only with an
exception, the property names the exception, and it is listed under "What the runs found".

## The modules

| Module | Models | Source |
|---|---|---|
| `AvcCache` | the AVC, for any kernel answers | `avc.c`, `avc_internal.c`, `checkAccess.c` |
| `AvcCacheProofs` | its inductive invariant and theorems | |
| `StatusPage` | the status page, its fallback, and the kernel that writes it (external) | `sestatus.c`, `avc_internal.c` |
| `AvcSystem` | both together, with the kernel's policy | `avc.c`, `sestatus.c` |
| `SemanageStore` | the policy store and its processes | `semanage_store.c`, `direct_api.c`, `handle.c`, `database*.c` |
| `MC...` | small instances of each for TLC | |

`PROJECT.json` maps every definition to its lines. A comment that begins with "Mutant"
marks an operator that is not part of the specification: it is a wrong version of the
definition below it, with which the named property must fail.

### AvcCache

Variables carry the names of the C globals and of the members of `avc_cache`. An access
vector is a set of permissions, a chain is a sequence of nodes, `Hash` is any function from
keys to slots. The free list is a set: no code depends on its order. `avc_lock` is held
from a query's lookup to its last use of the entry, kernel query included, so a query is
one action; what the kernel answers is any member of `Decisions`. The event thread takes
the lock several times: `ctl` is its place between them, so a query may run after
`avc_process_setenforce` assigns the mode (which it does outside the lock), after the flush, and
before `latest_notif` is raised. `avc_reclaim_node` is given by the positions of its scan and
not by a loop: the victim is the first position, in scan order over two rounds, whose
`used` flag is clear by then. `avc_open` on a stopped AVC, on a running one
(`avc_open_running`) and from `selinux_check_access` (`avc_init_once`) are three actions: the
second and third only assign the mode and its flag. `granted`, `option` and `unflushed` (such an
`avc_open` made a running AVC enforcing and no flush has come since) are history variables.

Left out: audit messages, statistics, and the callbacks' effects other than what a
`TRY_REVOKE` callback retains.

### StatusPage

The kernel's update is a step per store to the page. The client's call is a frame `cl` with
a step per load; unless the build is `ordered`, loads between two barriers of the code may happen
in any order, which is what the C code lets compiler and processor do. Sequence numbers count modulo
`SeqMod` (2^32 in the code) and start two updates below the wrap. Processing an event may fail
(`ok`); in fallback mode a failing reset callback also keeps the event from the fallback's own
callbacks. History variables: `log`, the published states; `avc_policyload`, the policy the AVC
has flushed for, which is not always `last_policyload`; `missed`, the first call after an
open skipped a change; `netlink.lost` and `netlink.skipped`, a message was dropped by the socket,
or a switch to enforcing mode by a failing callback. The client is one thread:
the manual page says the interfaces are not thread-safe.

Left out: the netlink thread of an application that supplies thread callbacks, and
netlink messages that are malformed.

### AvcSystem

One instance of each component; `avc_enforcing` and `avc_setenforce` are the same variables in
both, and the actions of the one that process an event are conjoined with those of the
other. A permission check is `selinux_status_updated` followed by the query, as in
`avc_has_perm_noaudit`; whether the update failed is not looked at, as there. The kernel
decides by `Policy`, a function of its generation. The process opens its AVC once. `Failing` says which of the application's
callbacks may return -1.

### SemanageStore

A directory is its commit number and its set of local records; the final files are the
records each was generated from. `sh` holds the handles under the names of
`semanage_handle_t`, with `pc` for the place inside a call. A commit is split at every
step another process, a failure or a crash can observe: number, lock, removal of
the backup, the two renames, every installed file, the reload, the rollback's renames and
reinstallation, the backup's removal, the cleanup. `Faults` names the operations that may
fail; each failing action does what the code's error path does, also where that path
leaves a lock held or returns 0. Connecting takes no lock and, with `create`, makes an empty
active directory where there is none, also between two renames of another process's commit; a
rename onto such a directory fails. `base`, `want` and `orphaned` (an empty store was made while
the real one was in `previous`) are history variables.

Left out: what a build computes from modules, failing disconnects, the copying fallback of
`semanage_rename` across file systems, a commit to a store that is not the running one,
and more than one record database (one stands for all: each has its own cache and all use
the same code).

## The runs

| Run | Question | Result |
|---|---|---|
| `avc_structure` | nodes, chains, references and reclaim | holds |
| `avc_events` | queries against mode changes, reloads, grants, revocations, restarts | holds |
| `avc_forced` | does a forced mode ignore the system's? | violated |
| `status_page` | seqlock reads in order and reordered; the netlink fallback; termination | holds |
| `status_torn` | is a read a snapshot if the build reorders loads? | violated |
| `system_checks` | is every check answered by the kernel's state of that moment? | holds |
| `system_stale` | also if a setenforce callback fails? | violated |
| `store_commits` | isolation, reads, successful commits, installed files, termination | holds |
| `store_crash` | what is left after crashes, failing renames, copies and reloads | holds |
| `store_rollback` | does the rollback restore the installed files? | violated |
| `store_error_lost` | does a commit that returns 0 commit? | violated |
| `store_retry` | does a transaction commit only its own edits? | violated |

**Bounds.** `avc_structure` has three nodes, three keys and two chains, two keys sharing one:
reclaim from the head, middle and end of a chain, from either chain and with every
combination of `used` flags occurs, and `avc_malloc` may deliver fewer nodes. A decision
that leaves the permission undecided makes duplicate entries of one key possible. `avc_events` has
two nodes and two keys, so that a third insertion (a duplicate or after a flush) reclaims;
of the `avc_control` events it takes those that change what is allowed; no property reads
the audit vectors. The first `selinux_check_access` of a process is in `avc_forced` and not in
`avc_events`: on a running AVC it does what `avc_open` without options does. The status page
runs have two updates, enough for a read that spans one whole update and parts of another,
with the sequence number wrapping in between, and a socket that holds one message, so that the
second may overrun it. The store runs have two processes and two commits, enough for each to meet the
other's commit and then its own; `NumFinal` is two, so that an installation can stop between
files. `store_commits` and `store_crash` follow a behaviour with an orphaned store until no
commit is under way (`OrphanedBriefly`); most properties say nothing of such a store, and
without the bound both configurations pass too, with 1.8 and 15 million states in 7 and 13
minutes. In both a process takes a new handle after a failed commit (`Reuse = FALSE`), so that
`ReadsCommitted` and `ReadsOwnWrites` are not checked on a handle after its failed commit;
`store_retry` is about that handle. Nodes, records and processes are interchangeable, and symmetry is used in the runs
without a liveness property.

`CHECK_DEADLOCK FALSE` is in one configuration, `StatusPage.cfg`: in fallback mode the
process can end by a fault (see below).

**Fairness.** In `StatusPage`, a thread that is inside a call keeps running, and the kernel
finishes an update it has begun (a few stores under a mutex). Nobody is obliged to
make a call or an update. In `SemanageStore`, a process that is inside a call keeps running
unless it dies. Both are weak fairness of the steps inside a call. Termination of the seqlock
loops relies on the bound of the updates: a kernel that updates for ever can starve a reader.

## What the runs found

Six disagreements between the code and what the repository says of it are runs of their
own; `PROJECT.json` quotes the lines.

1. `avc_forced`: `avc_open` clears `avc_setenforce` before it looks whether the AVC runs already, and
   the first `selinux_check_access` calls it, so that an AVC opened with `AVC_OPT_SETENFORCE`
   follows the system's mode from then on.
2. `status_torn`: the barrier of `read_sequence` comes after its load, so that the loads it
   is to protect may be made after the second read of the number. `NoChangeHidden` in
   `status_page`, and `system_checks`, show that the wrong values do not last: the number that
   is remembered makes the next call read again.
3. `system_stale`: a setenforce callback that fails hides a policy reload found in the same
   call from the check that is under way.
4. `store_rollback`: after a failed installation the files of the failed commit are installed
   again instead of those of the restored store.
5. `store_error_lost`: some error paths of `semanage_direct_commit` return the 0 an
   earlier call left in `retval`.
6. `store_retry`: after a failed commit the caches keep the edits and still count as in step.

The exceptions in the properties that hold are behaviours of the code, too:

- `NothingForgivenWhenEnforcing`, `unflushed`: `avc_open` with `AVC_OPT_SETENFORCE` on a running AVC
  assigns the mode and flushes nothing (`avc.c:236`); what permissive mode forgave stays until
  the next flush.
- `UpToDate` and `NoChangeHidden`, `missed`: the first `selinux_status_updated` after an open skips a
  change made since the AVC asked for the mode (`sestatus.c:118`), and an open of a page that was
  closed takes over its policy generation without a flush (`sestatus.c:314`).
- `FallbackCurrent`, `lost` and `skipped`: an overrun of the socket loses messages and nothing asks
  again; a reset callback that fails on a switch to enforcing mode keeps the switch from
  `fallback_enforcing` (`avc_internal.c:66`).
- The store properties other than `Isolated`, `FailureIsRecoverable` and `EveryCallReturns`, `orphaned`:
  a connection that finds no active directory, because a commit is between its renames or
  died there, makes an empty one beside the store in `previous` (`semanage_store.c:573`), which
  the next commit removes.

Others are visible in the models and need no run. In fallback mode `selinux_status_updated` reads
through `MAP_FAILED` once an event has arrived (`sestatus.c:126`; the state `crashed`). A check
whose status update failed is answered as if it had not, while `avc_add_callback.3:163` says it
returns -1 (`avc.c:760`). A commit that has been installed and loaded returns -1 if the
backup cannot be removed (`semanage_store.c:1831`), which is why `FailureIsRecoverable` lets an error
leave the new store active.

## What is proved

`AvcCacheProofs` proves for every pool, number of slots, hash function, set of keys and
permissions and every set of kernel answers:

- `CacheTypes`, `NodesConserved`, `KeysPlaced`, `NothingStaysForgiven`, `ReclaimSucceeds`:
  `Spec => []P` for the properties `TypeOK`, `NodeConservation`, `KeyPlacement`,
  `NothingForgivenWhenEnforcing` (with its exception, `unflushed`) and `ReclaimFindsANode`.

**Assumptions**: `CacheConstants` only (at least one slot, a finite set of nodes, `Hash` maps
keys to slots, the kernel answers decisions, the null values are not values). TLC
evaluates it in the runs of `MCAvcCache`.

**Argument.** None of the properties is inductive alone. `IInv` is their conjunction with
two more facts. `RefsValid` says that references point to allocated nodes also while the AVC
does not run. `Stopped` says that a stopped AVC has all its nodes, without keys, on the
free list; `avc_init_internal` relies on it after a failed attempt. The conjuncts need one another: reclaim unlinks a node from its
chain and pushes it on another, which keeps the count right only because every node is
linked once, and keeps it findable only because it then carries the new key; the flush makes
`NothingForgivenWhenEnforcing` true, and ends its exception, by emptying exactly the chained nodes; a stale reference is
harmless because a free node has no key and a chained one is in its key's chain. The
lemmas before `IInv` are about chains (`PushTable`, `UnlinkTable`) and about the reclaim scan:
`ScanVisits` (the offsets from `lru_hint` reach every slot), `CachedIsScanned`, and
`ReclaimPosition` (the lexicographic minimum of the victims exists, by well-founded
choice of the least natural number in each coordinate). Then there is one lemma per action
(`HasPermStep`, `ComputeCreateStep`, `NotificationStep`, `ControlStep`, `LifecycleStep`), which
`NextInv` combines.

**Only model-checked**: `OneEntryPerKey`; everything about `StatusPage`, `AvcSystem` and
`SemanageStore`; and liveness, which is out of the prover's reach with `ENABLED`, with induction
over data and with `RECURSIVE` operators (there are none here).

## What is not modelled

See the components with status `partly` and `not_modelled` in `PROJECT.json`. In short: the
compilers (libsepol, CIL, checkpolicy) are sequential programs over large linked structures;
the labelling library is regular expressions and parsing; the tools are drivers. The
hazards that no property covers yet have a note there.

## Plan

In this order; the runs of a new component take the place of narrower ones where their
questions can be joined.

1. Worker threads of `selinux_restorecon`: one walk, one mutex, the abort flag, the
   skipped-error count. Properties: every file of the walk is relabelled once, an abort
   stops the others and is reported, the result does not depend on the number of threads.
2. SID table, class mapping and the class cache (`avc_sidtab.c`, `mapping.c`, `stringrep.c`),
   composed with the policy reload of `AvcSystem`: no class value of an old policy is used
   with a new one after the reload was noticed.
3. Context translation: the client's caches against a daemon that reloads or restarts.
4. The module store of libsemanage (priorities, enable and disable) inside the transaction of
   `SemanageStore`.
5. restorecond's event loop and watch list.
6. `ebitmap` and the ordering of file-context specifications as pure algorithms against
   reference definitions.
7. Abstract specifications: an access monitor that answers from the kernel's current state,
   implemented by `AvcSystem`; an atomic store with commit and read, implemented by
   `SemanageStore` without faults.
8. Proofs: `OneEntryPerKey`; `Snapshot`, `NoChangeHidden` and `FieldPublished` of `StatusPage` for
   any number of updates below the wrap; `Isolated`, `CommitsOwnChanges` and `NeverLost` of
   `SemanageStore` for any number of processes.
