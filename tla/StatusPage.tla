----------------------------- MODULE StatusPage -----------------------------
(***************************************************************************)
(* The SELinux status page as libselinux reads it (sestatus.c), and the    *)
(* netlink socket it falls back to (avc_internal.c).                       *)
(*                                                                         *)
(* The kernel writes the page under a seqlock; the client reads it without *)
(* locks, one memory access per step, so the two interleave at every read. *)
(* The client is one thread (the interfaces are documented as not          *)
(* thread-safe) inside at most one call: cl is that call's frame.          *)
(***************************************************************************)
EXTENDS Integers, Sequences

CONSTANTS
  SeqMod,      \* 2^32 in the code: sequence numbers are uint32_t
  FirstSeq,    \* the page's sequence number to begin with
  MaxUpdates,  \* bound on kernel updates
  MaxQueue,    \* netlink messages the socket buffer holds
  Builds,      \* does the build keep the loads between two barriers in order?
  OpensAs      \* what selinux_status_open can get: the page, the socket

ASSUME SequenceNumbers ==
  /\ SeqMod \in Nat /\ SeqMod % 2 = 0
  /\ FirstSeq \in 0 .. SeqMod - 1 /\ FirstSeq % 2 = 0
  /\ MaxUpdates \in Nat /\ 2 * (MaxUpdates + 1) < SeqMod
  /\ MaxQueue \in Nat
  /\ Builds \subseteq BOOLEAN
  /\ OpensAs \subseteq {"mapped", "MAP_FAILED"}

VARIABLES
  kernel,           \* the kernel's own state and its place in an update
  page,             \* struct selinux_status_t, shared
  log,              \* history: the states of the page published so far
  netlink,          \* the client's socket; lost and skipped are history
  selinux_status,   \* "NULL", "MAP_FAILED" (fallback mode) or "mapped"
  last_seqno, last_policyload,
  fallback,         \* fallback_sequence, _enforcing, _policyload
  avc_enforcing, avc_setenforce,
  avc_policyload,   \* history: the policy generation the AVC last flushed for
  missed,           \* history: the first call skipped a change
  ordered,          \* does this build keep the loads in order?
  cl                \* the client's call

kernelVars == <<kernel, page, log>>
statusVars == <<selinux_status, last_seqno, last_policyload, fallback>>
avcVars == <<avc_enforcing, avc_setenforce, avc_policyload>>
vars == <<kernelVars, netlink, statusVars, avcVars, missed, cl, ordered>>

(* Mutant: the cast to uint32_t is missing. *)
NoSeqSigned == -1

NoSeq == SeqMod - 1          \* (uint32_t)(-1), odd
Odd(n) == n % 2 = 1
Inc(n) == (n + 1) % SeqMod

State == [enforcing : BOOLEAN, policyload : 0 .. MaxUpdates, deny_unknown : BOOLEAN]
Fields == {"enforcing", "policyload", "deny_unknown"}
Calls == Fields \cup {"updated", "open"}

(* The sequence number the i-th published state carries. *)
SeqOf(i) == (FirstSeq + 2 * (i - 1)) % SeqMod
Published == log[Len(log)]

-----------------------------------------------------------------------------
(* The kernel changes its state, broadcasts the change, makes the page's   *)
(* sequence number odd, writes the fields that changed, makes it even.     *)

KernelChange(s) ==
  /\ kernel.pc = "idle" /\ Len(log) <= MaxUpdates
  /\ \/ s.enforcing # kernel.now.enforcing
        /\ s.policyload = kernel.now.policyload
        /\ s.deny_unknown = kernel.now.deny_unknown
     \/ s.enforcing = kernel.now.enforcing
        /\ s.policyload = kernel.now.policyload + 1
  /\ kernel' = [pc |-> "notify", now |-> s]
  /\ UNCHANGED <<page, log, netlink, statusVars, avcVars, missed, cl>>

Event == IF kernel.now.enforcing # Published.enforcing
         THEN [type |-> "setenforce", val |-> kernel.now.enforcing]
         ELSE [type |-> "policyload", val |-> kernel.now.policyload]

NoMessages == [queue |-> << >>, overrun |-> FALSE, lost |-> FALSE,
               skipped |-> FALSE]

(* A full socket buffer loses the message, and the next receive fails.     *)
Broadcast ==
  CASE selinux_status # "MAP_FAILED" -> UNCHANGED netlink
    [] Len(netlink.queue) < MaxQueue -> netlink' = [netlink EXCEPT !.queue = Append(@, Event)]
    [] OTHER -> netlink' = [netlink EXCEPT !.overrun = TRUE, !.lost = TRUE]

KernelNotify ==
  /\ kernel.pc = "notify"
  /\ kernel' = [kernel EXCEPT !.pc = "write"]
  /\ Broadcast
  /\ page' = [page EXCEPT !.sequence = Inc(@)]
  /\ UNCHANGED <<log, statusVars, avcVars, missed, cl>>

KernelWrite(f) ==
  /\ kernel.pc = "write" /\ page[f] # kernel.now[f]
  /\ page' = [page EXCEPT ![f] = kernel.now[f]]
  /\ UNCHANGED <<kernel, log, netlink, statusVars, avcVars, missed, cl>>

KernelEnd ==
  /\ kernel.pc = "write" /\ \A f \in Fields : page[f] = kernel.now[f]
  /\ kernel' = [kernel EXCEPT !.pc = "idle"]
  /\ page' = [page EXCEPT !.sequence = Inc(@)]
  /\ log' = Append(log, kernel.now)
  /\ UNCHANGED <<netlink, statusVars, avcVars, missed, cl>>

-----------------------------------------------------------------------------
(* The client's frame: the function it is in (a getter is named after the  *)
(* field it returns; a result of 0 means it returned got), its place, the  *)
(* loads still to be made before the next barrier, what was loaded, and    *)
(* how many states had been published when the call began.                 *)

NoLoads == [enforcing |-> FALSE, policyload |-> 0, deny_unknown |-> FALSE, sequence |-> 0]
IdleCall == [fn |-> "none", pc |-> "idle", todo |-> {}, got |-> NoLoads,
             seqno |-> 0, start |-> 0, result |-> -1]

At(fn, pc) == cl.fn = fn /\ cl.pc = pc
Goto(pc) == cl' = [cl EXCEPT !.pc = pc]
Return(r) == cl' = [cl EXCEPT !.pc = "idle", !.result = r]

(* Any of the functions is called; on an unopened status all but open      *)
(* return an error at once, and an open status is not opened again.        *)
Call(fn) ==
  /\ cl.pc = "idle"
  /\ fn = "open" <=> selinux_status = "NULL"
  /\ cl' = [IdleCall EXCEPT !.fn = fn, !.start = Len(log),
              !.pc = CASE fn = "open" -> "open"
                       [] selinux_status = "mapped" -> "sequence"
                       [] OTHER -> IF fn = "deny_unknown" THEN "syscall" ELSE "check_nb"]
  /\ UNCHANGED <<kernelVars, netlink, statusVars, avcVars, missed>>

ClientStep == UNCHANGED <<kernelVars, netlink>>

(* read_sequence spins while the number is odd; a barrier follows it.      *)
read_sequence == ~Odd(page.sequence)

(* The loads of a seqlock loop, the second read_sequence included.         *)
Loads(fn) == {"sequence"} \cup
             CASE fn = "updated" -> {"enforcing", "policyload"}
               [] fn = "open"    -> {"policyload"}
               [] OTHER          -> {fn}

(* Program order: the sequence number is loaded last.  No barrier keeps it *)
(* there: the one in read_sequence comes after its load.                   *)
Load(x) ==
  /\ cl.pc = "loads" /\ x \in cl.todo
  /\ x = "sequence" => ~ordered \/ cl.todo = {x}
  /\ cl' = [cl EXCEPT !.todo = @ \ {x}, !.got[x] = page[x]]
  /\ ClientStep /\ UNCHANGED <<statusVars, avcVars, missed>>

(* read_sequence found an odd number after the loads: it loads it again.   *)
Spin ==
  /\ cl.pc = "loads" /\ cl.todo = {} /\ Odd(cl.got.sequence)
  /\ cl' = [cl EXCEPT !.todo = {"sequence"}]
  /\ ClientStep /\ UNCHANGED <<statusVars, avcVars, missed>>

Reread == cl.pc = "loads" /\ cl.todo = {} /\ ~Odd(cl.got.sequence)
Stable == cl.got.sequence = cl.seqno

-----------------------------------------------------------------------------
(* The AVC is in the mode of a published state and has flushed for its     *)
(* policy.                                                                 *)
AgreesWith(s) == /\ avc_policyload = s.policyload
                 /\ avc_setenforce \/ avc_enforcing = s.enforcing

(* selinux_status_updated up to its first comparison.  In the first call   *)
(* last_seqno is odd and takes the number just read, whatever has changed  *)
(* since the AVC asked for the mode or was last told of a policy.          *)
Compare(seqno, next) ==
  IF Odd(last_seqno) \/ last_seqno = seqno
  THEN last_seqno' = seqno /\ Return(0)
  ELSE /\ cl' = [cl EXCEPT !.pc = next, !.seqno = seqno, !.todo = Loads(cl.fn)]
       /\ UNCHANGED last_seqno

UpdatedSequence ==
  /\ At("updated", "sequence") /\ read_sequence
  /\ Compare(page.sequence, "loads")
  /\ missed' = IF Odd(last_seqno) THEN ~AgreesWith(Published) ELSE missed
  /\ ClientStep /\ UNCHANGED <<selinux_status, last_policyload, fallback, avcVars>>

(* Mutant: the two numbers are not compared. *)
UpdatedUnchecked ==
  /\ cl.fn = "updated" /\ Reread
  /\ cl' = [cl EXCEPT !.pc = "setenforce", !.seqno = cl.got.sequence]
  /\ ClientStep /\ UNCHANGED <<statusVars, avcVars, missed>>

(* Mutant: tmp_seqno is set once, before the loop. *)
UpdatedStuck ==
  /\ cl.fn = "updated" /\ Reread
  /\ cl' = IF Stable THEN [cl EXCEPT !.pc = "setenforce"]
           ELSE [cl EXCEPT !.todo = Loads("updated")]
  /\ ClientStep /\ UNCHANGED <<statusVars, avcVars, missed>>

UpdatedRecheck ==
  /\ cl.fn = "updated" /\ Reread
  /\ cl' = IF Stable THEN [cl EXCEPT !.pc = "setenforce"]
           ELSE [cl EXCEPT !.seqno = cl.got.sequence, !.todo = Loads("updated")]
  /\ ClientStep /\ UNCHANGED <<statusVars, avcVars, missed>>

(* avc_process_setenforce; ok: no reset or setenforce callback failed.     *)
ProcessSetenforce(ok) ==
  /\ At("updated", "setenforce")
  /\ IF avc_enforcing = cl.got.enforcing
     THEN Goto("load") /\ UNCHANGED avcVars
     ELSE /\ avc_enforcing' = IF avc_setenforce THEN avc_enforcing ELSE cl.got.enforcing
          /\ UNCHANGED <<avc_setenforce, avc_policyload>>
          /\ IF ok THEN Goto("load") ELSE Return(-1)
  /\ ClientStep /\ UNCHANGED <<statusVars, missed>>

(* avc_process_policyload has flushed the cache when a callback fails.     *)
Flushed == avc_policyload' = IF last_policyload = cl.got.policyload THEN avc_policyload
                             ELSE cl.got.policyload

(* Mutant: last_seqno is recorded before the events are processed. *)
ProcessPolicyloadLate(ok) ==
  /\ At("updated", "load")
  /\ last_seqno' = cl.seqno
  /\ IF ok \/ last_policyload = cl.got.policyload
     THEN /\ last_policyload' = cl.got.policyload
          /\ Flushed
          /\ missed' = (missed /\ avc_policyload' # cl.got.policyload)
          /\ Return(1)
     ELSE Return(-1) /\ UNCHANGED <<last_policyload, avc_policyload, missed>>
  /\ ClientStep /\ UNCHANGED <<selinux_status, fallback, avc_enforcing, avc_setenforce>>

(* avc_process_policyload, and the end of selinux_status_updated.          *)
ProcessPolicyload(ok) ==
  /\ At("updated", "load")
  /\ Flushed
  /\ IF ok \/ last_policyload = cl.got.policyload
     THEN /\ last_policyload' = cl.got.policyload
          /\ last_seqno' = cl.seqno
          /\ missed' = (missed /\ avc_policyload' # cl.got.policyload)
          /\ Return(1)
     ELSE Return(-1) /\ UNCHANGED <<last_policyload, last_seqno, missed>>
  /\ ClientStep /\ UNCHANGED <<selinux_status, fallback, avc_enforcing, avc_setenforce>>

-----------------------------------------------------------------------------
(* selinux_status_getenforce, _policyload, _deny_unknown and, once the     *)
(* page is mapped, selinux_status_open: one seqlock loop around one field. *)

ReadSequence ==
  /\ cl.pc = "sequence" /\ cl.fn # "updated" /\ read_sequence
  /\ cl' = [cl EXCEPT !.pc = "loads", !.seqno = page.sequence, !.todo = Loads(cl.fn)]
  /\ ClientStep /\ UNCHANGED <<statusVars, avcVars, missed>>

(* Mutant: the field is returned without a second look at the number. *)
GetUnchecked(f) ==
  /\ cl.fn = f /\ cl.pc = "loads" /\ f \notin cl.todo
  /\ Return(0)
  /\ ClientStep /\ UNCHANGED <<statusVars, avcVars, missed>>

GetRecheck(f) ==
  /\ cl.fn = f /\ Reread
  /\ IF Stable THEN Return(0) ELSE Goto("sequence")
  /\ ClientStep /\ UNCHANGED <<statusVars, avcVars, missed>>

(* selinux_status_open reads neither enforcing nor the sequence number to  *)
(* compare with later.  When it is called for the first time the cache is  *)
(* empty; when the page is opened again the cache is as it was, although   *)
(* last_policyload is the page's.                                          *)
FirstFlush(p) == avc_policyload' = IF avc_policyload = -1 THEN p ELSE avc_policyload

OpenMapped ==
  /\ At("open", "open") /\ "mapped" \in OpensAs
  /\ selinux_status' = "mapped" /\ last_seqno' = NoSeq
  /\ Goto("sequence")
  /\ ClientStep /\ UNCHANGED <<last_policyload, fallback, avcVars, missed>>

OpenRecheck ==
  /\ cl.fn = "open" /\ Reread
  /\ last_policyload' = cl.got.policyload
  /\ IF Stable THEN Return(0) /\ FirstFlush(cl.got.policyload)
     ELSE Goto("sequence") /\ UNCHANGED avc_policyload
  /\ ClientStep
  /\ UNCHANGED <<selinux_status, last_seqno, fallback, avc_enforcing, avc_setenforce, missed>>

(* No page, no fallback wanted (or no socket either).                      *)
OpenFails ==
  /\ At("open", "open")
  /\ Return(-1)
  /\ ClientStep /\ UNCHANGED <<statusVars, avcVars, missed>>

(* Fallback: the socket is bound first, the mode is asked for afterwards.  *)
OpenNetlink ==
  /\ At("open", "open") /\ "MAP_FAILED" \in OpensAs
  /\ netlink' = NoMessages
  /\ selinux_status' = "MAP_FAILED" /\ last_seqno' = NoSeq
  /\ Goto("getenforce")
  /\ UNCHANGED <<kernelVars, last_policyload, fallback, avcVars, missed>>

OpenGetenforce ==
  /\ At("open", "getenforce")
  /\ fallback' = [sequence |-> 0, enforcing |-> kernel.now.enforcing, policyload |-> 0]
  /\ FirstFlush(kernel.now.policyload)
  /\ Return(1)
  /\ ClientStep
  /\ UNCHANGED <<selinux_status, last_seqno, last_policyload, avc_enforcing, avc_setenforce,
                 missed>>

selinux_status_close ==
  /\ cl.pc = "idle" /\ selinux_status # "NULL"
  /\ selinux_status' = "NULL"
  /\ last_seqno' = IF selinux_status = "mapped" THEN NoSeq ELSE last_seqno
  /\ netlink' = NoMessages
  /\ cl' = IdleCall
  /\ missed' = FALSE
  /\ UNCHANGED <<kernelVars, last_policyload, fallback, avcVars>>

-----------------------------------------------------------------------------
(* avc_netlink_check_nb, in fallback mode: every queued message is         *)
(* processed; what processing returns is ignored.  A reset callback of the *)
(* application that fails (~ok) makes avc_process_setenforce and           *)
(* avc_process_policyload return, after the flush, before they call what   *)
(* selinux_status_open registered: the message is gone and the fallback    *)
(* values do not show it.                                                  *)

Receive(type) ==
  /\ cl.pc = "check_nb" /\ ~netlink.overrun /\ netlink.queue # << >>
  /\ Head(netlink.queue).type = type
  /\ UNCHANGED <<kernelVars, selinux_status, last_seqno, last_policyload, avc_setenforce,
                 missed, cl>>

(* fallback_cb_setenforce and fallback_cb_policyload. *)
Fallback(f, val) ==
  fallback' = [fallback EXCEPT !.sequence = (@ + 2) % SeqMod, ![f] = val]

(* Mutant: with the AVC's mode forced, the callback is skipped too. *)
ReceiveSetenforceForced(ok) ==
  /\ Receive("setenforce") /\ ok
  /\ LET val == Head(netlink.queue).val
     IN  IF avc_setenforce THEN UNCHANGED <<avc_enforcing, fallback>>
         ELSE avc_enforcing' = val /\ Fallback("enforcing", val)
  /\ netlink' = [netlink EXCEPT !.queue = Tail(@), !.skipped = FALSE]
  /\ UNCHANGED avc_policyload

ReceiveSetenforce(ok) ==
  LET val == Head(netlink.queue).val
  IN  /\ Receive("setenforce")
      /\ ok \/ (~avc_setenforce /\ val)
      /\ avc_enforcing' = IF avc_setenforce THEN avc_enforcing ELSE val
      /\ IF ok THEN Fallback("enforcing", val) ELSE UNCHANGED fallback
      /\ netlink' = [netlink EXCEPT !.queue = Tail(@), !.skipped = ~ok]
      /\ UNCHANGED avc_policyload

ReceivePolicyload(ok) ==
  LET val == Head(netlink.queue).val
  IN  /\ Receive("policyload")
      /\ avc_policyload' = val
      /\ IF ok THEN Fallback("policyload", val) ELSE UNCHANGED fallback
      /\ netlink' = [netlink EXCEPT !.queue = Tail(@)]
      /\ UNCHANGED avc_enforcing

ReceiveFails ==
  /\ cl.pc = "check_nb" /\ netlink.overrun
  /\ netlink' = [netlink EXCEPT !.overrun = FALSE]
  /\ Return(-1)
  /\ UNCHANGED <<kernelVars, statusVars, avcVars, missed>>

(* The queue is empty: the getters answer, selinux_status_updated compares *)
(* and, if anything arrived, goes on to read the page that is not mapped.  *)
FallbackGet(f) ==
  /\ At(f, "check_nb") /\ ~netlink.overrun /\ netlink.queue = << >>
  /\ cl' = [cl EXCEPT !.pc = "idle", !.result = 0, !.got[f] = fallback[f]]
  /\ ClientStep /\ UNCHANGED <<statusVars, avcVars, missed>>

FallbackDenyUnknown ==
  /\ At("deny_unknown", "syscall")
  /\ cl' = [cl EXCEPT !.pc = "idle", !.result = 0, !.got.deny_unknown = kernel.now.deny_unknown]
  /\ ClientStep /\ UNCHANGED <<statusVars, avcVars, missed>>

FallbackUpdated ==
  /\ At("updated", "check_nb") /\ ~netlink.overrun /\ netlink.queue = << >>
  /\ Compare(fallback.sequence, "crashed")
  /\ ClientStep /\ UNCHANGED <<selinux_status, last_policyload, fallback, avcVars, missed>>

-----------------------------------------------------------------------------
Init ==
  /\ log \in {<<[enforcing |-> b, policyload |-> 0, deny_unknown |-> FALSE]>> : b \in BOOLEAN}
  /\ kernel = [pc |-> "idle", now |-> Published]
  /\ page = [sequence |-> FirstSeq, enforcing |-> Published.enforcing, policyload |-> 0,
             deny_unknown |-> FALSE]
  /\ netlink = NoMessages
  /\ selinux_status = "NULL" /\ last_seqno = 0 /\ last_policyload = 0
  /\ fallback = [sequence |-> 0, enforcing |-> FALSE, policyload |-> 0]
  /\ avc_enforcing = Published.enforcing      \* security_getenforce of avc_init
  /\ avc_setenforce \in BOOLEAN /\ avc_policyload = -1
  /\ ordered \in Builds
  /\ missed = FALSE
  /\ cl = IdleCall

ClientNext ==
  \/ \E fn \in Calls : Call(fn)
  \/ \E x \in Fields \cup {"sequence"} : Load(x)
  \/ Spin \/ ReadSequence
  \/ UpdatedSequence \/ UpdatedRecheck
  \/ \E ok \in BOOLEAN :
       \/ ProcessSetenforce(ok) \/ ProcessPolicyload(ok)
       \/ ReceiveSetenforce(ok) \/ ReceivePolicyload(ok)
  \/ \E f \in Fields : GetRecheck(f)
  \/ OpenMapped \/ OpenRecheck \/ OpenFails \/ OpenNetlink \/ OpenGetenforce
  \/ selinux_status_close
  \/ ReceiveFails
  \/ \E f \in {"enforcing", "policyload"} : FallbackGet(f)
  \/ FallbackDenyUnknown \/ FallbackUpdated

KernelUpdate == KernelNotify \/ KernelEnd \/ \E f \in Fields : KernelWrite(f)

Next == /\ ClientNext \/ KernelUpdate \/ \E s \in State : KernelChange(s)
        /\ UNCHANGED ordered

(* Inside a call the client's thread is scheduled; an update the kernel    *)
(* has begun is finished.  Nobody has to make a call or an update.         *)
InCall == cl.pc # "idle" /\ ClientNext /\ UNCHANGED ordered
Fairness == WF_vars(InCall) /\ WF_vars(KernelUpdate /\ UNCHANGED ordered)

Spec == Init /\ [][Next]_vars /\ Fairness

-----------------------------------------------------------------------------
(* Types of the state: the page, the socket and the client's frame. *)
TypeOK ==
  /\ kernel \in [pc : {"idle", "notify", "write"}, now : State]
  /\ page \in [sequence : 0 .. SeqMod - 1, enforcing : BOOLEAN,
                policyload : 0 .. MaxUpdates, deny_unknown : BOOLEAN]
  /\ log # << >> /\ \A i \in DOMAIN log : log[i] \in State
  /\ Len(netlink.queue) <= MaxQueue /\ {netlink.overrun, netlink.lost, netlink.skipped} \subseteq BOOLEAN
  /\ selinux_status \in {"NULL", "MAP_FAILED", "mapped"}
  /\ last_seqno \in 0 .. SeqMod - 1 /\ last_policyload \in 0 .. MaxUpdates
  /\ fallback \in [sequence : 0 .. SeqMod - 1, enforcing : BOOLEAN, policyload : 0 .. MaxUpdates]
  /\ {avc_enforcing, avc_setenforce, missed, ordered} \subseteq BOOLEAN
  /\ avc_policyload \in -1 .. MaxUpdates
  /\ cl.fn \in Calls \cup {"none"} /\ cl.todo \subseteq Fields \cup {"sequence"}
  /\ cl.seqno \in 0 .. SeqMod - 1 /\ cl.result \in {-1, 0, 1}

UpdatedReturned == /\ At("updated", "idle") /\ selinux_status = "mapped"
                   /\ cl.result \in {0, 1}

(* The values selinux_status_updated acts on were on the page together,    *)
(* in one state published no earlier than the call, and that state has the *)
(* sequence number it will remember: no torn read, whatever the kernel     *)
(* writes meanwhile (the loop "sequence must not be changed during         *)
(* references").                                                           *)
Snapshot ==
  At("updated", "setenforce") =>
    \E i \in cl.start .. Len(log) :
      /\ SeqOf(i) = cl.seqno
      /\ log[i].enforcing = cl.got.enforcing /\ log[i].policyload = cl.got.policyload

(* The same of a build that keeps the loads of the loop in program order;  *)
(* nothing in sestatus.c makes the compiler or the processor do so.        *)
OrderedSnapshot == ordered => Snapshot

(* Built in order, a selinux_status_updated that did not fail leaves the   *)
(* AVC in the mode and with the policy of a state published no earlier     *)
(* than the call.  The exception (missed): the first call after an open    *)
(* takes the page's number as it is (sestatus.c:118), and an open of a     *)
(* page closed before takes its policy generation (sestatus.c:314), so     *)
(* that what changed until then waits for the next change of its kind.     *)
UpToDate ==
  UpdatedReturned /\ ordered /\ ~missed =>
    \E i \in cl.start .. Len(log) : last_seqno = SeqOf(i) /\ AgreesWith(log[i])

(* Whenever selinux_status_updated would answer 0 without looking further  *)
(* (last_seqno is the page's number), the AVC is in the page's mode and    *)
(* has flushed for the page's policy, however the build orders its loads:  *)
(* a callback that fails half-way and an update during the loop never make *)
(* it forget a change.  The exception is that of UpToDate: a change before *)
(* the first call after an open, which both places skip without a flush.   *)
NoChangeHidden ==
  /\ selinux_status = "mapped" /\ cl.pc = "idle" /\ ~missed
  /\ last_seqno = page.sequence /\ ~Odd(last_seqno)
  => AgreesWith(Published)

(* Built in order, a getter returns a value of a state published no        *)
(* earlier than the call and no later than its return, never one still     *)
(* being written.                                                          *)
FieldPublished ==
  /\ cl.fn \in Fields /\ cl.pc = "idle" /\ selinux_status = "mapped" /\ cl.result = 0
  /\ ordered
  => \E i \in cl.start .. Len(log) : log[i][cl.fn] = cl.got[cl.fn]

(* In fallback mode, once the queue is drained and nothing was lost, the   *)
(* mode selinux_status_getenforce reports is the kernel's: binding the     *)
(* socket before asking for the mode leaves no window, and a failing reset *)
(* callback of a policy reload does no harm.  The exception (skipped): a   *)
(* reset callback that fails on the switch to enforcing mode itself        *)
(* (avc_internal.c:66) keeps the switch from fallback_enforcing until the  *)
(* next mode change.                                                       *)
FallbackCurrent ==
  /\ selinux_status = "MAP_FAILED" /\ cl.pc = "idle"
  /\ netlink.queue = << >> /\ ~netlink.lost /\ ~netlink.skipped
  => fallback.enforcing \in {Published.enforcing, kernel.now.enforcing}

(* Every call returns: read_sequence and the seqlock loops terminate once  *)
(* the kernel stops updating.  (The one that reads a page that is not      *)
(* mapped has ended the process.)                                          *)
EveryCallReturns == cl.pc # "idle" ~> cl.pc \in {"idle", "crashed"}
=============================================================================
