------------------------------ MODULE AvcSystem ------------------------------
(***************************************************************************)
(* An object manager's permission checks, end to end: avc_has_perm_noaudit *)
(* with the selinux_status_updated call it begins with (StatusPage), the   *)
(* cache (AvcCache) and the kernel that decides, changes mode and reloads. *)
(*                                                                         *)
(* The two components share avc_enforcing and avc_setenforce, and the      *)
(* events one finds on the page are processed by the other.  The object    *)
(* manager is one thread, as sestatus.c requires; the kernel runs freely.  *)
(***************************************************************************)
EXTENDS Integers, Sequences, FiniteSets

CONSTANTS
  Nodes, MaxNodes, NumSlots, Keys, Hash, Perms, Decisions, Sids, Refs, Seqnos,
  Wild, NoKey, NoNode, NoSid, NoRef,                             \* of AvcCache
  SeqMod, FirstSeq, MaxUpdates, MaxQueue, Builds, OpensAs,     \* of StatusPage
  Policy,      \* what the policy of each generation allows, per key
  Opts,        \* how the AVC may be opened
  Failing      \* the application's callbacks that may return -1

VARIABLES
  avc_running, avc_enforcing, avc_setenforce, option, unflushed, allocated, freelist,
  slots, ae, lru_hint, active_nodes, latest_notif, aeref, ctl, rc, granted,
  kernel, page, log, netlink, selinux_status, last_seqno, last_policyload,
  fallback, avc_policyload, missed, cl, ordered,
  app          \* the check under way or just answered: [pc, key, seqno]

C == INSTANCE AvcCache
S == INSTANCE StatusPage

cacheOnly == <<avc_running, option, unflushed, allocated, freelist, slots, ae,
               lru_hint, active_nodes, latest_notif, aeref, ctl, rc, granted>>
statusOnly == <<kernel, page, log, netlink, selinux_status, last_seqno,
                last_policyload, fallback, avc_policyload, missed, cl>>
vars == <<C!vars, S!vars, app>>

(* The kernel's answer to security_compute_av_flags_raw at this moment.    *)
KernelDecision(k) ==
  [allowed |-> Policy[kernel.now.policyload][k], decided |-> Perms, auditallow |-> {},
   auditdeny |-> {}, seqno |-> kernel.now.policyload, permissive |-> FALSE]

Kernel ==
  /\ \/ \E s \in S!State : ~s.deny_unknown /\ S!KernelChange(s)
     \/ S!KernelUpdate
  /\ UNCHANGED <<cacheOnly, app>>

-----------------------------------------------------------------------------
(* avc_open asks for the mode first and opens the page afterwards.  The    *)
(* object manager opens the AVC once.                                      *)
Open(opt, nodes) ==
  /\ C!avc_open(opt, nodes, kernel.now.enforcing, TRUE)
  /\ UNCHANGED <<statusOnly, app>>

OpenStatus == avc_running /\ S!Call("open") /\ UNCHANGED <<cacheOnly, app>>

(* A check begins with selinux_status_updated ... *)
Check(k) ==
  /\ selinux_status = "mapped" /\ app.pc # "checking"
  /\ S!Call("updated")
  /\ app' = [pc |-> "checking", key |-> k, seqno |-> 0]
  /\ UNCHANGED cacheOnly

ReadPage ==
  /\ ctl = C!Idle
  /\ \/ S!OpenMapped \/ S!OpenRecheck \/ S!ReadSequence
     \/ S!UpdatedSequence \/ S!UpdatedRecheck \/ S!Spin
     \/ \E x \in S!Fields \cup {"sequence"} : S!Load(x)
  /\ UNCHANGED <<cacheOnly, app>>

(* ... which hands a new mode to avc_process_setenforce (with a forced     *)
(* mode only the application's callback runs) ...                          *)
SetenforceEvent(ok) ==
  LET unaffected == avc_enforcing = cl.got.enforcing \/ avc_setenforce
  IN  /\ ctl = C!Idle
      /\ \/ ok
         \/ "setenforce" \in Failing
         \/ "reset" \in Failing /\ ~unaffected /\ cl.got.enforcing
      /\ S!ProcessSetenforce(ok)
      /\ IF unaffected THEN UNCHANGED cacheOnly
         ELSE C!avc_process_setenforce(cl.got.enforcing)
      /\ UNCHANGED app

(* ... and a new generation to avc_process_policyload.                     *)
PolicyloadEvent(ok) ==
  /\ ctl = C!Idle
  /\ ok \/ Failing \cap {"reset", "policyload"} # {}
  /\ S!ProcessPolicyload(ok)
  /\ IF last_policyload = cl.got.policyload THEN UNCHANGED cacheOnly
     ELSE C!ResetOnPolicyload(cl.got.policyload)
  /\ UNCHANGED app

(* The remaining steps of avc_ss_reset, in the same call.                  *)
FinishEvent ==
  /\ C!ResetOnEnforcing \/ C!Notify
  /\ UNCHANGED <<statusOnly, app>>

(* Whatever selinux_status_updated returned, the cache or the kernel       *)
(* answers; seqno is the generation of the decision that did.              *)
AnswerBy(n) == app' = [app EXCEPT !.pc = "answered",
                         !.seqno = IF n = NoNode THEN kernel.now.policyload
                                   ELSE ae[n].avd.seqno]

Answer(r) ==
  /\ app.pc = "checking" /\ cl.pc = "idle" /\ ctl = C!Idle
  /\ \/ C!HasPermByRef(r, app.key, Perms) /\ AnswerBy(aeref[r])
     \/ C!HasPermByLookup(r, app.key, Perms) /\ AnswerBy(C!avc_lookup(app.key, Perms))
     \/ C!HasPermByQuery(r, app.key, Perms, KernelDecision(app.key)) /\ AnswerBy(NoNode)
     \/ C!HasPermNotInserted(r, app.key, Perms, KernelDecision(app.key)) /\ AnswerBy(NoNode)
     \/ C!HasPermQueryFails(r, app.key, Perms, "EINVAL") /\ AnswerBy(NoNode)
  /\ UNCHANGED statusOnly

-----------------------------------------------------------------------------
Init ==
  /\ C!Init
  /\ log \in {<<[enforcing |-> b, policyload |-> 0, deny_unknown |-> FALSE]>> : b \in BOOLEAN}
  /\ kernel = [pc |-> "idle", now |-> log[1]]
  /\ page = [sequence |-> FirstSeq, enforcing |-> log[1].enforcing, policyload |-> 0,
             deny_unknown |-> FALSE]
  /\ netlink = S!NoMessages
  /\ selinux_status = "NULL" /\ last_seqno = 0 /\ last_policyload = 0
  /\ fallback = [sequence |-> 0, enforcing |-> FALSE, policyload |-> 0]
  /\ avc_policyload = -1 /\ missed = FALSE /\ cl = S!IdleCall
  /\ ordered \in Builds
  /\ app \in [pc : {"none"}, key : Keys, seqno : {0}]

Client ==
  \/ \E opt \in Opts, nodes \in SUBSET Nodes : Open(opt, nodes)
  \/ OpenStatus
  \/ \E k \in Keys : Check(k)
  \/ ReadPage
  \/ \E ok \in BOOLEAN : SetenforceEvent(ok) \/ PolicyloadEvent(ok)
  \/ FinishEvent
  \/ \E r \in Refs \cup {NoRef} : Answer(r)

Next == (Kernel \/ Client) /\ UNCHANGED ordered

Spec == Init /\ [][Next]_vars

-----------------------------------------------------------------------------
Answered == app.pc = "answered" /\ rc \in {"0", "EACCES"}

(* A check never uses a decision older than the policy that was in force   *)
(* when the check began: every reload published by then has flushed the    *)
(* cache, also when it arrived before the first check, together with a     *)
(* mode change, or when a callback it ran failed.                          *)
FreshDecision == Answered => app.seqno >= log[cl.start].policyload

(* A check whose status update succeeded gives an answer the kernel itself *)
(* could have given during the check: by a mode and by a policy that were  *)
(* in force since it began.  Nothing forgiven in permissive mode and no    *)
(* entry of an older policy shines through.  The exceptions: a change the  *)
(* first selinux_status_updated skips (missed, sestatus.c:118) shows in    *)
(* the answers until the next one, and with AVC_OPT_SETENFORCE the mode is *)
(* the application's, not the kernel's.  A check whose status update       *)
(* failed is FreshDecision's subject.                                      *)
AnswerOfTheMoment ==
  Answered /\ cl.result # -1 /\ ~missed /\ ~avc_setenforce =>
    \E mode \in {log[i].enforcing : i \in cl.start .. Len(log)} \cup {kernel.now.enforcing},
       p \in log[cl.start].policyload .. kernel.now.policyload :
      rc = "0" <=> (~mode \/ Perms \subseteq Policy[p][app.key])

(* A check is never refused as outdated: no decision the kernel gives is   *)
(* older than the latest notification (avc_insert's EAGAIN).               *)
NeverOutdated == rc # "EAGAIN"
=============================================================================
