----------------------------- MODULE MCAvcCache -----------------------------
(* Small instances of AvcCache. *)
EXTENDS AvcCache, TLC

CONSTANTS s1, s2, t1, t2, cls, perm

Key(s, t) == [ssid |-> s, tsid |-> t, tclass |-> cls]

(* Two keys share a chain, the third has the other chain to itself. *)
ThreeKeys == {Key(s1, t1), Key(s2, t1), Key(s1, t2)}
TwoKeys == {Key(s1, t1), Key(s2, t1)}
MCHash == [k \in ThreeKeys |-> IF k.tsid = t1 THEN 0 ELSE 1]
OneChain == [k \in TwoKeys |-> 0]

Dec(allowed, decided, seqno, permissive) ==
  [allowed |-> allowed, decided |-> decided, auditallow |-> {}, auditdeny |-> {perm},
   seqno |-> seqno, permissive |-> permissive]

Denial(seqno) == Dec({}, {perm}, seqno, FALSE)
Grant(seqno) == Dec({perm}, {perm}, seqno, FALSE)
(* perm is left undecided: an unknown permission under deny_unknown. *)
Undecided == Dec({}, {}, 1, FALSE)
PermissiveDomain == Dec({}, {perm}, 1, TRUE)

StructureDecisions == {Grant(0), Undecided}
EventDecisions == {Denial(0), Grant(1), PermissiveDomain}

NodeSymmetry == Permutations(Nodes)

(* The table alone: queries and flushes, in enforcing mode. *)
StructureNext ==
  \/ \E S \in SUBSET Nodes : avc_open("none", S, TRUE, TRUE)
  \/ HasPerm
  \/ \E s \in Seqnos : ResetOnPolicyload(s)
  \/ Notify
StructureSpec == Init /\ [][StructureNext]_vars

(* Queries against setenforce and policyload events, updates of what a    *)
(* security server allows, and restarts.                                  *)
ControlAllowed ==
  \E m \in Targets, s \in Seqnos :
    \/ \E event \in {"GRANT", "REVOKE"} : avc_control(event, m, Perms, {}, s)
    \/ avc_control("TRY_REVOKE", m, Perms, Perms, s)

(* avc_init_once is left to ModeNext: it sets the flags as                  *)
(* avc_open_running("none") does.                                          *)
Reopen ==
  \/ \E opt \in Options, S \in SUBSET Nodes, kernel, ok \in BOOLEAN :
       avc_open(opt, S, kernel, ok)
  \/ \E opt \in Options : avc_open_running(opt)
  \/ avc_destroy

EventNext == HasPerm \/ ComputeCreate \/ Notification \/ ControlAllowed \/ Reopen
EventSpec == Init /\ [][EventNext]_vars

(* The mode alone: opening, selinux_check_access and setenforce events.    *)
ModeNext == Lifecycle \/ Notification
ModeSpec == Init /\ [][ModeNext]_vars
=============================================================================
