------------------------------ MODULE AvcCache ------------------------------
(***************************************************************************)
(* The userspace access vector cache of libselinux (avc.c): a hash table   *)
(* of entries taken from a fixed pool of nodes, a second-chance reclaim    *)
(* when the pool is empty, and the two kinds of caller that work on it.    *)
(*                                                                         *)
(* Query threads run avc_has_perm_noaudit and avc_compute_create; each     *)
(* holds avc_lock from its lookup to its last use of the entry, kernel     *)
(* query included, so each is one step here.  One event thread runs        *)
(* avc_process_setenforce, avc_ss_reset and avc_control; it takes and      *)
(* drops the lock several times, so its work is several steps (ctl).       *)
(*                                                                         *)
(* What the kernel answers to a query is an input: any member of           *)
(* Decisions.  AvcSystem supplies the kernel.                              *)
(***************************************************************************)
EXTENDS Integers, Sequences, FiniteSets

CONSTANTS
  Nodes,       \* every struct avc_node malloc may ever return
  MaxNodes,    \* AVC_CACHE_MAXNODES
  NumSlots,    \* AVC_CACHE_SLOTS
  Keys,        \* records [ssid, tsid, tclass]
  Hash,        \* avc_hash, as a function from Keys to slots
  Perms,       \* permissions of a class; an access vector is a subset
  Decisions,   \* the av_decision values the kernel may answer
  Sids,        \* contexts avc_compute_create may answer
  Refs,        \* the callers' struct avc_entry_ref
  Seqnos,      \* sequence numbers a notification may carry
  Wild,        \* SECSID_WILD
  NoKey, NoNode, NoSid, NoRef   \* the null pointers

Slots == 0 .. NumSlots - 1

(* struct av_decision, with flags reduced to SELINUX_AVD_FLAGS_PERMISSIVE. *)
AvDecision ==
  [allowed : SUBSET Perms, decided : SUBSET Perms, auditallow : SUBSET Perms,
   auditdeny : SUBSET Perms, seqno : Nat, permissive : BOOLEAN]

ASSUME CacheConstants ==
  /\ NumSlots \in Nat \ {0} /\ MaxNodes \in Nat
  /\ IsFiniteSet(Nodes)
  /\ Hash \in [Keys -> Slots]
  /\ Decisions \subseteq AvDecision
  /\ Seqnos \subseteq Nat
  /\ NoKey \notin Keys /\ NoNode \notin Nodes /\ NoSid \notin Sids
  /\ NoRef \notin Refs

VARIABLES
  avc_running,     \* avc_init succeeded and avc_destroy has not run since
  avc_enforcing, avc_setenforce,
  option,          \* history: the option of the application's last avc_open
  unflushed,       \* history: avc_open made a running AVC enforcing, and no flush
                   \* has come since
  allocated,       \* the nodes avc_malloc has handed out
  freelist,        \* avc_node_freelist; its order is not observable
  slots,           \* avc_cache.slots, each chain from head to tail
  ae,              \* node -> struct avc_entry
  lru_hint, active_nodes, latest_notif,   \* the rest of avc_cache
  aeref,           \* caller's reference -> node it points to
  ctl,             \* the event thread: [pc, seqno]
  rc,              \* what the last query returned
  granted          \* history: what the kernel allows each cached entry

vars == <<avc_running, avc_enforcing, avc_setenforce, option, unflushed, allocated,
          freelist, slots, ae, lru_hint, active_nodes, latest_notif, aeref, ctl, rc,
          granted>>

NoDecision == [allowed |-> {}, decided |-> {}, auditallow |-> {},
               auditdeny |-> {}, seqno |-> 0, permissive |-> FALSE]

(* avc_clear_avc_entry: memset to zero. *)
ClearedEntry ==
  [key |-> NoKey, avd |-> NoDecision, create_sid |-> NoSid, used |-> FALSE]

Entry == [key : Keys \cup {NoKey}, avd : AvDecision,
          create_sid : Sids \cup {NoSid}, used : BOOLEAN]

Idle == [pc |-> "idle", seqno |-> 0]

(* The nodes of one chain of a table s, of all its chains, and that no     *)
(* node is linked twice.                                                   *)
ChainNodes(s, h) == {s[h][i] : i \in 1 .. Len(s[h])}
TableNodes(s) == UNION {ChainNodes(s, h) : h \in Slots}
LinkedOnce(s) ==
  \A g, h \in Slots : \A i \in 1 .. Len(s[g]), j \in 1 .. Len(s[h]) :
    s[g][i] = s[h][j] => g = h /\ i = j
Cached == TableNodes(slots)

(* A chain with n pushed at its head, and a chain with its i-th node       *)
(* unlinked.                                                               *)
Push(n, s) == [j \in 1 .. Len(s) + 1 |-> IF j = 1 THEN n ELSE s[j - 1]]
(* Mutant: the victim's chain restarts behind it, as if it were its head.  *)
UnlinkAsHead(s, i) == [j \in 1 .. Len(s) - i |-> s[j + i]]
Unlink(s, i) == [j \in 1 .. Len(s) - 1 |-> IF j < i THEN s[j] ELSE s[j + 1]]

(* The same on chain h of a table s. *)
PushOn(s, h, n) == [s EXCEPT ![h] = Push(n, @)]
UnlinkFrom(s, h, i) == [s EXCEPT ![h] = Unlink(@, i)]

-----------------------------------------------------------------------------
(* avc_search_node: the first node of the key's chain that carries the     *)
(* key.  Finding it marks it used, whatever the caller makes of it.        *)

(* Mutant: only the head of the chain is compared. *)
MatchingHead(k) == {i \in 1 .. 1 : i <= Len(slots[Hash[k]]) /\ ae[slots[Hash[k]][i]].key = k}
Matching(k) ==
  {i \in 1 .. Len(slots[Hash[k]]) : ae[slots[Hash[k]][i]].key = k}

avc_search_node(k) ==
  IF Matching(k) = {} THEN NoNode
  ELSE slots[Hash[k]][CHOOSE i \in Matching(k) : \A j \in Matching(k) : i <= j]

Touch(n) == IF n = NoNode THEN ae ELSE [ae EXCEPT ![n].used = TRUE]

Decided(n, req) == n # NoNode /\ req \subseteq ae[n].avd.decided

avc_lookup(k, req) ==
  IF Decided(avc_search_node(k), req) THEN avc_search_node(k) ELSE NoNode

(* avc_reclaim_node goes twice round the slots from lru_hint on, and down  *)
(* each chain from its head.  It takes the first node whose used flag is   *)
(* clear and clears the flag of those it passes, so that in the second     *)
(* round every flag is clear.  A position is <<round, slots passed, index  *)
(* in the chain>>; e is the entry table the scan reads.                    *)

ScanSlot(v) == (lru_hint + v) % NumSlots
NodeAt(p) == slots[ScanSlot(p[2])][p[3]]
(* Mutant: one round only. *)
OneRound ==
  UNION {{<<0, v, i>> : i \in 1 .. Len(slots[ScanSlot(v)])} : v \in Slots}
ScanPositions ==
  UNION {UNION {{<<try, v, i>> : i \in 1 .. Len(slots[ScanSlot(v)])} : v \in Slots} :
           try \in {0, 1}}
Earlier(p, q) ==
  \/ p[1] < q[1]
  \/ p[1] = q[1] /\ p[2] < q[2]
  \/ p[1] = q[1] /\ p[2] = q[2] /\ p[3] < q[3]
Reclaimable(p, e) == p[1] = 1 \/ ~e[NodeAt(p)].used

Victims(e) == {p \in ScanPositions : Reclaimable(p, e)}
avc_reclaim_node(e) ==
  CHOOSE p \in Victims(e) : \A q \in Victims(e) : ~Earlier(q, p)

Passed(p) == {NodeAt(q) : q \in {x \in ScanPositions : Earlier(x, p)}}

Unmarked(p, e) ==
  [m \in Nodes |-> IF m \in Passed(p) THEN [e[m] EXCEPT !.used = FALSE] ELSE e[m]]

(* avc_claim_node, from the freelist or by reclaim, and the caller's fill  *)
(* of the claimed node n with entry x, all under one hold of avc_lock.     *)

ClaimFree(k, e, n, x) ==
  /\ n \in freelist
  /\ freelist' = freelist \ {n}
  /\ active_nodes' = active_nodes + 1
  /\ slots' = PushOn(slots, Hash[k], n)
  /\ ae' = [e EXCEPT ![n] = x]
  /\ UNCHANGED lru_hint

ClaimReclaimed(k, e, n, x) ==
  /\ freelist = {} /\ Victims(e) # {}
  /\ LET p == avc_reclaim_node(e)
         s == UnlinkFrom(slots, ScanSlot(p[2]), p[3])
     IN  /\ n = NodeAt(p)
         /\ lru_hint' = ScanSlot(p[2])
         /\ slots' = PushOn(s, Hash[k], n)
         /\ ae' = [Unmarked(p, e) EXCEPT ![n] = x]
  /\ UNCHANGED <<freelist, active_nodes>>

avc_claim_node(k, e, n, x) == ClaimFree(k, e, n, x) \/ ClaimReclaimed(k, e, n, x)

NewEntry(k, d) == [key |-> k, avd |-> d, create_sid |-> NoSid, used |-> TRUE]

(* avc_insert: refused (EAGAIN) when the decision is older than the latest *)
(* notification, else claimed; out of nodes is ENOMEM.                     *)
(* Mutant: a decision as old as the notification is refused too. *)
StaleOrEqual(d) == d.seqno <= latest_notif
Stale(d) == d.seqno < latest_notif
OutOfNodes(e) == freelist = {} /\ Victims(e) = {}
InsertError(d) == IF Stale(d) THEN "EAGAIN" ELSE "ENOMEM"

avc_insert(k, d, e, n, x) ==
  /\ ~Stale(d)
  /\ avc_claim_node(k, e, n, x)
  /\ granted' = [granted EXCEPT ![n] = d.allowed]

-----------------------------------------------------------------------------
(* The tail of avc_has_perm_noaudit, on the entry x that answers: a        *)
(* denial (or an empty request) is forgiven in permissive mode or in a     *)
(* permissive domain, and forgiving it is recorded in the entry.           *)

Short(x, req) == req = {} \/ ~(req \subseteq x.avd.allowed)
Forgiven(x) == ~avc_enforcing \/ x.avd.permissive
Answered(x, req) ==
  IF Short(x, req) /\ Forgiven(x) THEN [x EXCEPT !.avd.allowed = @ \cup req] ELSE x
Verdict(x, req) == IF Short(x, req) /\ ~Forgiven(x) THEN "EACCES" ELSE "0"

RefHit(r, k, req) ==
  /\ r # NoRef
  /\ aeref[r] # NoNode
  /\ ae[aeref[r]].key = k
  /\ Decided(aeref[r], req)

SetRef(r, n) == IF r = NoRef THEN aeref ELSE [aeref EXCEPT ![r] = n]

Query == avc_running /\ UNCHANGED <<avc_running, avc_enforcing, avc_setenforce,
                                    option, unflushed, allocated, latest_notif, ctl>>

(* The entry n answers without a new node being claimed. *)
AnswerFrom(n, req) ==
  LET x == [ae[n] EXCEPT !.used = TRUE]
  IN  /\ ae' = [ae EXCEPT ![n] = Answered(x, req)]
      /\ rc' = Verdict(x, req)
      /\ UNCHANGED <<freelist, slots, lru_hint, active_nodes, granted>>

HasPermByRef(r, k, req) ==
  /\ Query
  /\ RefHit(r, k, req)
  /\ AnswerFrom(aeref[r], req)
  /\ UNCHANGED aeref

HasPermByLookup(r, k, req) ==
  /\ Query
  /\ ~RefHit(r, k, req)
  /\ avc_lookup(k, req) # NoNode
  /\ AnswerFrom(avc_lookup(k, req), req)
  /\ aeref' = SetRef(r, avc_lookup(k, req))

Miss(r, k, req) == Query /\ ~RefHit(r, k, req) /\ avc_lookup(k, req) = NoNode

(* A miss marks the entry it found wanting as used, and nothing more, when *)
(* the kernel query or the insertion fails.                                *)
MissOnly(k) ==
  /\ ae' = Touch(avc_search_node(k))
  /\ UNCHANGED <<freelist, slots, lru_hint, active_nodes, granted>>

(* The kernel answers decision d, which is cached and used. *)
HasPermByQuery(r, k, req, d) ==
  /\ Miss(r, k, req)
  /\ \E n \in Nodes :
       /\ avc_insert(k, d, Touch(avc_search_node(k)), n, Answered(NewEntry(k, d), req))
       /\ aeref' = SetRef(r, n)
  /\ rc' = Verdict(NewEntry(k, d), req)

HasPermNotInserted(r, k, req, d) ==
  /\ Miss(r, k, req)
  /\ Stale(d) \/ OutOfNodes(Touch(avc_search_node(k)))
  /\ MissOnly(k)
  /\ rc' = InsertError(d)
  /\ UNCHANGED aeref

(* security_compute_av_flags_raw fails; EINVAL (a context the policy no    *)
(* longer knows) is forgiven in permissive mode.                           *)
HasPermQueryFails(r, k, req, err) ==
  /\ Miss(r, k, req)
  /\ MissOnly(k)
  /\ rc' = IF err = "EINVAL" /\ ~avc_enforcing THEN "0" ELSE err
  /\ UNCHANGED aeref

-----------------------------------------------------------------------------
(* avc_compute_create keeps the kernel's answer s in the key's entry; s is *)
(* NoSid when security_compute_create_raw or the SID table fails, and a    *)
(* saved answer is never asked for again.                                  *)

Saved(x, s) == IF x.create_sid # NoSid THEN x ELSE [x EXCEPT !.create_sid = s]
CreateVerdict(x) == IF x.create_sid = NoSid THEN "fail" ELSE "0"

ComputeCreateByLookup(k, s) ==
  LET n == avc_lookup(k, {})
      x == Saved([ae[n] EXCEPT !.used = TRUE], s)
  IN  /\ Query
      /\ n # NoNode
      /\ ae' = [ae EXCEPT ![n] = x]
      /\ rc' = CreateVerdict(x)
      /\ UNCHANGED <<freelist, slots, lru_hint, active_nodes, granted, aeref>>

ComputeCreateByQuery(k, d, s) ==
  LET x == Saved(NewEntry(k, d), s)
  IN  /\ Miss(NoRef, k, {})
      /\ \E n \in Nodes : avc_insert(k, d, ae, n, x)
      /\ rc' = CreateVerdict(x)
      /\ UNCHANGED aeref

(* Its query of the decision, or the insertion, fails. *)
ComputeCreateQueryFails(k, err) ==
  /\ Miss(NoRef, k, {})
  /\ rc' = err
  /\ UNCHANGED <<freelist, slots, ae, lru_hint, active_nodes, granted, aeref>>

ComputeCreateNotInserted(k, d) ==
  /\ Miss(NoRef, k, {})
  /\ Stale(d) \/ OutOfNodes(ae)
  /\ rc' = InsertError(d)
  /\ UNCHANGED <<freelist, slots, ae, lru_hint, active_nodes, granted, aeref>>

-----------------------------------------------------------------------------
(* The event thread. *)

EventStep == UNCHANGED <<avc_running, avc_setenforce, option, allocated, aeref, rc>>

(* avc_process_setenforce does nothing under AVC_OPT_SETENFORCE, else it   *)
(* assigns avc_enforcing outside avc_lock and, only on a switch to         *)
(* enforcing, goes on to avc_ss_reset(0).                                  *)
(* Mutant: the cache is kept.                                              *)
SetenforceNoReset(enforcing) ==
  /\ ctl = Idle /\ ~avc_setenforce
  /\ avc_enforcing' = enforcing
  /\ EventStep
  /\ UNCHANGED <<ctl, unflushed, freelist, slots, ae, lru_hint, active_nodes,
                 latest_notif, granted>>
avc_process_setenforce(enforcing) ==
  /\ ctl = Idle /\ ~avc_setenforce
  /\ avc_enforcing' = enforcing
  /\ ctl' = IF enforcing THEN [pc |-> "reset", seqno |-> 0] ELSE Idle
  /\ EventStep
  /\ UNCHANGED <<unflushed, freelist, slots, ae, lru_hint, active_nodes, latest_notif,
                 granted>>

(* avc_reset, first half of avc_ss_reset: under one hold of avc_lock every *)
(* cached node is cleared and goes back to the freelist.                   *)
(* Mutants: the entries keep their keys; every node of the pool counts.    *)
FlushKeepsKeys ==
  /\ freelist' = freelist \cup Cached
  /\ active_nodes' = active_nodes - Cardinality(Cached)
  /\ slots' = [h \in Slots |-> << >>]
  /\ lru_hint' = 0
  /\ granted' = [n \in Nodes |-> {}] /\ unflushed' = FALSE
  /\ UNCHANGED ae
FlushCountsPool ==
  /\ freelist' = freelist \cup Cached
  /\ active_nodes' = active_nodes - Cardinality(freelist')
  /\ slots' = [h \in Slots |-> << >>]
  /\ ae' = [n \in Nodes |-> IF n \in Cached THEN ClearedEntry ELSE ae[n]]
  /\ lru_hint' = 0
  /\ granted' = [n \in Nodes |-> {}] /\ unflushed' = FALSE
Flush ==
  /\ freelist' = freelist \cup Cached
  /\ active_nodes' = active_nodes - Cardinality(Cached)
  /\ slots' = [h \in Slots |-> << >>]
  /\ ae' = [n \in Nodes |-> IF n \in Cached THEN ClearedEntry ELSE ae[n]]
  /\ lru_hint' = 0
  /\ granted' = [n \in Nodes |-> {}] /\ unflushed' = FALSE

avc_reset(seqno) ==
  /\ IF avc_running THEN Flush
     ELSE UNCHANGED <<freelist, slots, ae, lru_hint, active_nodes, granted, unflushed>>
  /\ ctl' = [pc |-> "notify", seqno |-> seqno]
  /\ EventStep
  /\ UNCHANGED <<avc_enforcing, latest_notif>>

ResetOnEnforcing == ctl.pc = "reset" /\ avc_reset(ctl.seqno)
(* Mutant: a reload is noted but the cache is kept. *)
PolicyloadNoFlush(seqno) ==
  /\ ctl = Idle
  /\ ctl' = [pc |-> "notify", seqno |-> seqno]
  /\ EventStep
  /\ UNCHANGED <<avc_enforcing, freelist, slots, ae, lru_hint, active_nodes,
                 latest_notif, granted, unflushed>>
ResetOnPolicyload(seqno) == ctl = Idle /\ avc_reset(seqno)

(* The last step of avc_ss_reset and of avc_control. *)
Notify ==
  /\ ctl.pc = "notify"
  /\ latest_notif' = IF ctl.seqno > latest_notif THEN ctl.seqno ELSE latest_notif
  /\ ctl' = Idle
  /\ EventStep
  /\ UNCHANGED <<avc_enforcing, unflushed, freelist, slots, ae, lru_hint, active_nodes,
                 granted>>

(* avc_update_node. *)
Apply(event, avd, perms) ==
  CASE event = "GRANT" -> [avd EXCEPT !.allowed = @ \cup perms]
    [] event \in {"TRY_REVOKE", "REVOKE"} -> [avd EXCEPT !.allowed = @ \ perms]
    [] event = "AUDITALLOW_ENABLE" -> [avd EXCEPT !.auditallow = @ \cup perms]
    [] event = "AUDITALLOW_DISABLE" -> [avd EXCEPT !.auditallow = @ \ perms]
    [] event = "AUDITDENY_ENABLE" -> [avd EXCEPT !.auditdeny = @ \cup perms]
    [] event = "AUDITDENY_DISABLE" -> [avd EXCEPT !.auditdeny = @ \ perms]

avc_sidcmp(x, y) == x = y \/ x = Wild \/ y = Wild

(* avc_update_cache: with a wildcard SID every matching node, else the one *)
(* node avc_search_node finds (and marks used).                            *)
Wildcard(m) == m.ssid = Wild \/ m.tsid = Wild

Updated(m) ==
  IF Wildcard(m)
  THEN {n \in Cached : /\ avc_sidcmp(m.ssid, ae[n].key.ssid)
                       /\ avc_sidcmp(m.tsid, ae[n].key.tsid)
                       /\ m.tclass = ae[n].key.tclass}
  ELSE {avc_search_node(m)} \ {NoNode}

(* The history follows what the security server now grants.                *)
avc_update_cache(event, m, perms) ==
  /\ ae' = [n \in Nodes |->
              IF n \in Updated(m)
              THEN [ae[n] EXCEPT !.avd = Apply(event, @, perms),
                                 !.used = @ \/ ~Wildcard(m)]
              ELSE ae[n]]
  /\ granted' = [n \in Nodes |->
                   IF n \notin Updated(m) THEN granted[n]
                   ELSE IF event = "GRANT" THEN granted[n] \cup perms
                   ELSE IF event \in {"TRY_REVOKE", "REVOKE"} THEN granted[n] \ perms
                   ELSE granted[n]]

(* avc_control up to its last lock: the callbacks may retain permissions   *)
(* of a TRY_REVOKE, which is why that event updates the cache after them.  *)
avc_control(event, m, perms, retained, seqno) ==
  /\ avc_running /\ ctl = Idle
  /\ avc_update_cache(event, m, IF event = "TRY_REVOKE" THEN perms \ retained ELSE perms)
  /\ ctl' = [pc |-> "notify", seqno |-> seqno]
  /\ EventStep
  /\ UNCHANGED <<avc_enforcing, unflushed, freelist, slots, lru_hint, active_nodes,
                 latest_notif>>

-----------------------------------------------------------------------------
(* avc_open and avc_init, with AVC_OPT_SETENFORCE as opt: avc_open without *)
(* the option forgets an earlier one, avc_init has no options at all.      *)
Options == {"enforcing", "permissive", "none", "avc_init"}
Forces(opt) == opt \in {"enforcing", "permissive"}

SetOption(opt) ==
  /\ avc_setenforce' = IF opt = "avc_init" THEN avc_setenforce ELSE Forces(opt)
  /\ option' = IF opt = "avc_init" THEN option ELSE opt

(* avc_init_internal: the nodes S it gets from avc_malloc (all of          *)
(* AVC_CACHE_MAXNODES or fewer) join whatever freelist an earlier failed   *)
(* attempt left behind; if security_getenforce (its answer is kernel below) *)
(* or selinux_status_open fails, the AVC does not run.                     *)
avc_init_internal(S, ok) ==
  /\ S \subseteq Nodes \ allocated /\ Cardinality(S) <= MaxNodes
  /\ slots' = [h \in Slots |-> << >>]
  /\ lru_hint' = 0 /\ active_nodes' = 0 /\ latest_notif' = 0
  /\ allocated' = allocated \cup S
  /\ freelist' = freelist \cup S
  /\ ae' = [n \in Nodes |-> IF n \in S THEN ClearedEntry ELSE ae[n]]
  /\ avc_running' = ok
  /\ rc' = "0" /\ unflushed' = FALSE
  /\ UNCHANGED <<aeref, ctl, granted>>

avc_open(opt, S, kernel, ok) ==
  /\ ~avc_running /\ ctl = Idle
  /\ SetOption(opt)
  /\ avc_enforcing' = IF ~avc_setenforce' THEN kernel
                      ELSE IF Forces(opt) THEN opt = "enforcing" ELSE avc_enforcing
  /\ avc_init_internal(S, ok)

(* avc_open on an AVC that runs: the options are looked at before           *)
(* avc_init_internal finds it running and returns 0, so that the mode may   *)
(* change from here on while the cached entries stay.  avc_init has no      *)
(* options and changes nothing.                                             *)
avc_open_running(opt) ==
  /\ avc_running /\ opt # "avc_init"
  /\ SetOption(opt)
  /\ avc_enforcing' = IF Forces(opt) THEN opt = "enforcing" ELSE avc_enforcing
  /\ unflushed' = (unflushed \/ (opt = "enforcing" /\ ~avc_enforcing))
  /\ UNCHANGED <<avc_running, allocated, freelist, slots, ae, lru_hint, active_nodes,
                 latest_notif, aeref, ctl, rc, granted>>

(* The first selinux_check_access of the process calls avc_open(NULL, 0) by *)
(* itself: on a running AVC that only clears avc_setenforce, and option     *)
(* still says what the application asked for.                               *)
avc_init_once ==
  /\ avc_running
  /\ avc_setenforce' = FALSE
  /\ UNCHANGED <<avc_running, avc_enforcing, option, unflushed, allocated, freelist, slots,
                 ae, lru_hint, active_nodes, latest_notif, aeref, ctl, rc, granted>>

(* avc_destroy frees every node and leaves the chain heads as they are.    *)
(* The entries are freed memory and the callers' references dangle from    *)
(* here on; a correct caller initialises its references again.             *)
(* Mutant: the freelist still points to the nodes it frees. *)
DestroyKeepsFreelist ==
  /\ avc_running /\ ctl = Idle
  /\ allocated' = {}
  /\ aeref' = [r \in Refs |-> NoNode]
  /\ ae' = [n \in Nodes |-> ClearedEntry] /\ granted' = [n \in Nodes |-> {}]
  /\ avc_running' = FALSE
  /\ rc' = "0" /\ unflushed' = FALSE
  /\ UNCHANGED <<avc_enforcing, avc_setenforce, option, freelist, slots, lru_hint,
                 active_nodes, latest_notif, ctl>>
avc_destroy ==
  /\ avc_running /\ ctl = Idle
  /\ allocated' = {} /\ freelist' = {}
  /\ aeref' = [r \in Refs |-> NoNode]
  /\ ae' = [n \in Nodes |-> ClearedEntry] /\ granted' = [n \in Nodes |-> {}]
  /\ avc_running' = FALSE
  /\ rc' = "0" /\ unflushed' = FALSE
  /\ UNCHANGED <<avc_enforcing, avc_setenforce, option, slots, lru_hint, active_nodes,
                 latest_notif, ctl>>

-----------------------------------------------------------------------------
Targets ==
  Keys \cup {[k EXCEPT !.ssid = Wild] : k \in Keys}
       \cup {[k EXCEPT !.tsid = Wild] : k \in Keys}

Events == {"GRANT", "TRY_REVOKE", "REVOKE", "AUDITALLOW_ENABLE",
           "AUDITALLOW_DISABLE", "AUDITDENY_ENABLE", "AUDITDENY_DISABLE"}

Init ==
  /\ avc_running = FALSE /\ avc_enforcing = TRUE
  /\ avc_setenforce = FALSE /\ option = "none" /\ unflushed = FALSE
  /\ allocated = {} /\ freelist = {}
  /\ slots = [h \in Slots |-> << >>]
  /\ ae = [n \in Nodes |-> ClearedEntry]
  /\ lru_hint = 0 /\ active_nodes = 0 /\ latest_notif = 0
  /\ aeref = [r \in Refs |-> NoNode]
  /\ ctl = Idle
  /\ rc = "0"
  /\ granted = [n \in Nodes |-> {}]

HasPerm ==
  \E r \in Refs \cup {NoRef}, k \in Keys, req \in SUBSET Perms :
    \/ HasPermByRef(r, k, req)
    \/ HasPermByLookup(r, k, req)
    \/ \E d \in Decisions : HasPermByQuery(r, k, req, d)
    \/ \E d \in Decisions : HasPermNotInserted(r, k, req, d)
    \/ \E err \in {"EINVAL", "EIO"} : HasPermQueryFails(r, k, req, err)

ComputeCreate ==
  \E k \in Keys :
    \/ \E s \in Sids \cup {NoSid} :
         \/ ComputeCreateByLookup(k, s)
         \/ \E d \in Decisions : ComputeCreateByQuery(k, d, s)
    \/ \E err \in {"EINVAL", "EIO"} : ComputeCreateQueryFails(k, err)
    \/ \E d \in Decisions : ComputeCreateNotInserted(k, d)

Notification ==
  \/ \E b \in BOOLEAN : avc_process_setenforce(b)
  \/ ResetOnEnforcing
  \/ \E s \in Seqnos : ResetOnPolicyload(s)
  \/ Notify

(* The event entry points of avc_internal.h; nothing in the library calls  *)
(* them, an object manager with its own security server would.             *)
Control ==
  \E event \in Events, m \in Targets, perms \in SUBSET Perms, s \in Seqnos :
    \E retained \in SUBSET perms : avc_control(event, m, perms, retained, s)

Lifecycle ==
  \/ \E opt \in Options, S \in SUBSET Nodes, kernel, ok \in BOOLEAN :
       avc_open(opt, S, kernel, ok)
  \/ \E opt \in Options : avc_open_running(opt)
  \/ avc_init_once
  \/ avc_destroy

Next == HasPerm \/ ComputeCreate \/ Notification \/ Control \/ Lifecycle

Spec == Init /\ [][Next]_vars

-----------------------------------------------------------------------------
(* Every variable has its type. *)
TypeOK ==
  /\ avc_running \in BOOLEAN /\ avc_enforcing \in BOOLEAN
  /\ avc_setenforce \in BOOLEAN /\ option \in {"enforcing", "permissive", "none"}
  /\ unflushed \in BOOLEAN
  /\ allocated \in SUBSET Nodes /\ freelist \in SUBSET Nodes
  /\ slots \in [Slots -> Seq(Nodes)]
  /\ ae \in [Nodes -> Entry]
  /\ lru_hint \in Slots /\ active_nodes \in Nat /\ latest_notif \in Nat
  /\ aeref \in [Refs -> Nodes \cup {NoNode}]
  /\ ctl \in [pc : {"idle", "reset", "notify"}, seqno : Nat]
  /\ rc \in {"0", "EACCES", "EAGAIN", "ENOMEM", "EINVAL", "EIO", "fail"}
  /\ granted \in [Nodes -> SUBSET Perms]

(* While the AVC runs, every node avc_malloc gave out is in exactly one    *)
(* place, on the freelist or at one position of one chain, and             *)
(* active_nodes counts the chained ones: claim, reclaim and reset neither  *)
(* lose a node nor link one twice.                                         *)
NodeConservation ==
  avc_running =>
    /\ freelist \cup Cached = allocated
    /\ freelist \cap Cached = {}
    /\ LinkedOnce(slots)
    /\ active_nodes = Cardinality(Cached)

(* A chained node sits in the chain its key hashes to, and a node on the   *)
(* freelist carries no key: a reference an application kept across a flush *)
(* never matches a key, and one kept across a reclaim matches only the key *)
(* the node now serves (the aeref test of avc_has_perm_noaudit).           *)
KeyPlacement ==
  avc_running =>
    /\ \A h \in Slots : \A n \in ChainNodes(slots, h) :
         ae[n].key \in Keys /\ Hash[ae[n].key] = h
    /\ \A n \in freelist : ae[n].key = NoKey
    /\ \A r \in Refs : aeref[r] \in allocated \cup {NoNode}

(* Once a setenforce event to enforcing mode has been processed, no entry   *)
(* outside a permissive domain allows more than the security server grants: *)
(* what avc_has_perm_noaudit forgave and recorded in permissive mode is     *)
(* gone.  The one exception: an avc_open with AVC_OPT_SETENFORCE switches a *)
(* running permissive AVC to enforcing mode and flushes nothing (avc.c:230, *)
(* 156), so that what was forgiven stays until the next flush (unflushed).  *)
NothingForgivenWhenEnforcing ==
  avc_running /\ avc_enforcing /\ ctl.pc # "reset" /\ ~unflushed =>
    \A n \in Cached :
      ~ae[n].avd.permissive => ae[n].avd.allowed \subseteq granted[n]

(* avc_reclaim_node finds a victim whenever the AVC has a node at all: a   *)
(* query fails with ENOMEM only if avc_init got no node from avc_malloc.   *)
ReclaimFindsANode == avc_running /\ rc = "ENOMEM" => allocated = {}

(* A running AVC is in the mode the application's last avc_open asked for   *)
(* with AVC_OPT_SETENFORCE, whatever mode the system is in and whatever else *)
(* the application calls (the text of avc_open.3 on the option).            *)
ForcedMode ==
  avc_running /\ Forces(option) => avc_enforcing = (option = "enforcing")

(* A key has one entry as long as every decision the kernel gives decides  *)
(* every permission: avc_insert runs only after avc_lookup found nothing.  *)
OneEntryPerKey ==
  avc_running /\ (\A d \in Decisions : d.decided = Perms) =>
    \A n, m \in Cached : ae[n].key = ae[m].key => n = m
=============================================================================
