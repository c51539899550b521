----------------------------- MODULE MCAvcSystem -----------------------------
(* An instance of AvcSystem for TLC: two keys that share the one slot, at  *)
(* most two nodes, and policies that change their mind on both keys.       *)
EXTENDS AvcSystem, TLC

CONSTANTS n1, n2, r1

Key(s) == [ssid |-> s, tsid |-> "t", tclass |-> "file"]
TwoKeys == {Key("a"), Key("b")}
TwoNodes == {n1, n2}
OneSlot == [k \in TwoKeys |-> 0]
OneRef == {r1}
OnePerm == {"read"}
AnyDecision == [allowed : SUBSET OnePerm, decided : {OnePerm}, auditallow : {{}},
                auditdeny : {{}}, seqno : 0 .. MaxUpdates, permissive : {FALSE}]
Alternating == [p \in 0 .. MaxUpdates |-> [k \in TwoKeys |->
                  IF (p % 2 = 0) = (k = Key("a")) THEN OnePerm ELSE {}]]
Generations == 0 .. MaxUpdates
ReorderingBuild == {FALSE}
MapsThePage == {"mapped"}
AnyOption == {"none", "enforcing", "permissive"}
CacheCallbacks == {"reset", "policyload"}
SetenforceCallback == {"setenforce"}
NodeSymmetry == Permutations(TwoNodes)
=============================================================================
