--------------------------- MODULE AvcCacheProofs ---------------------------
(***************************************************************************)
(* Proofs about AvcCache, for every pool of nodes, number of slots, hash   *)
(* function and set of kernel decisions.                                   *)
(***************************************************************************)
EXTENDS AvcCache, FiniteSetTheorems, WellFoundedInduction, TLAPS

-----------------------------------------------------------------------------
(* Chains *)

(* A push yields a chain of nodes with the new one at its head and the     *)
(* others behind it (the last lines of avc_claim_node).                    *)
LEMMA PushType ==
  ASSUME NEW s \in Seq(Nodes), NEW n \in Nodes
  PROVE  /\ Push(n, s) \in Seq(Nodes)
         /\ Len(Push(n, s)) = Len(s) + 1
         /\ Push(n, s)[1] = n
         /\ \A j \in 1 .. Len(s) : Push(n, s)[j + 1] = s[j]
  BY DEF Push

(* The same of an unlink: the nodes before the i-th stay where they are,   *)
(* those behind it move up by one (avc_reclaim_node).                      *)
LEMMA UnlinkType ==
  ASSUME NEW s \in Seq(Nodes), NEW i \in 1 .. Len(s)
  PROVE  /\ Unlink(s, i) \in Seq(Nodes)
         /\ Len(Unlink(s, i)) = Len(s) - 1
         /\ \A j \in 1 .. Len(s) - 1 : Unlink(s, i)[j] = IF j < i THEN s[j] ELSE s[j + 1]
<1>1. Len(s) - 1 \in Nat /\ DOMAIN Unlink(s, i) = 1 .. Len(s) - 1
  BY DEF Unlink
<1>2. \A j \in 1 .. Len(s) - 1 : Unlink(s, i)[j] \in Nodes
  BY DEF Unlink
<1> QED  BY <1>1, <1>2 DEF Unlink

(* Pushing a node that no chain holds adds it to the head of one chain and *)
(* keeps every node linked once (the last lines of avc_claim_node).        *)
LEMMA PushTable ==
  ASSUME NEW s \in [Slots -> Seq(Nodes)], NEW h \in Slots, NEW n \in Nodes,
         n \notin TableNodes(s), LinkedOnce(s),
         NEW t, t = PushOn(s, h, n)
  PROVE  /\ t \in [Slots -> Seq(Nodes)]
         /\ LinkedOnce(t)
         /\ TableNodes(t) = TableNodes(s) \cup {n}
         /\ \A g \in Slots : ChainNodes(t, g) = IF g = h THEN ChainNodes(s, g) \cup {n}
                                                ELSE ChainNodes(s, g)
<1> DEFINE q == Push(n, s[h])
<1>1. /\ q \in Seq(Nodes) /\ Len(q) = Len(s[h]) + 1 /\ q[1] = n
      /\ \A j \in 1 .. Len(s[h]) : q[j + 1] = s[h][j]
  BY PushType
<1> HIDE DEF q
<1>2. t \in [Slots -> Seq(Nodes)] /\ t[h] = q /\ \A g \in Slots : g # h => t[g] = s[g]
  BY <1>1 DEF q, PushOn, UnlinkFrom
<1>3. \A j \in 1 .. Len(q) : j # 1 => j - 1 \in 1 .. Len(s[h]) /\ q[j] = s[h][j - 1]
  BY <1>1
<1>4. ChainNodes(t, h) = ChainNodes(s, h) \cup {n}
  <2>1. ChainNodes(t, h) = {q[j] : j \in 1 .. Len(q)}  BY <1>2 DEF ChainNodes
  <2>2. ASSUME NEW j \in 1 .. Len(q) PROVE q[j] \in ChainNodes(s, h) \cup {n}
    BY <1>1, <1>3 DEF ChainNodes
  <2>3. n \in {q[j] : j \in 1 .. Len(q)}
    <3>1. 1 \in 1 .. Len(q) /\ q[1] = n  BY <1>1
    <3> QED  BY <3>1
  <2>4. ASSUME NEW j \in 1 .. Len(s[h]) PROVE s[h][j] \in {q[i] : i \in 1 .. Len(q)}
    <3>1. j + 1 \in 1 .. Len(q) /\ q[j + 1] = s[h][j]  BY <1>1
    <3> QED  BY <3>1
  <2>5. ChainNodes(s, h) \subseteq ChainNodes(t, h)  BY <2>1, <2>4 DEF ChainNodes
  <2>6. ChainNodes(t, h) \subseteq ChainNodes(s, h) \cup {n}  BY <2>1, <2>2
  <2> QED  BY <2>1, <2>3, <2>5, <2>6
<1>5. \A g \in Slots : g # h => ChainNodes(t, g) = ChainNodes(s, g)
  BY <1>2 DEF ChainNodes
<1>6. TableNodes(t) = TableNodes(s) \cup {n}
  BY <1>4, <1>5 DEF TableNodes
<1>7. \A g \in Slots : \A i \in 1 .. Len(s[g]) : s[g][i] # n
  BY DEF TableNodes, ChainNodes
<1>8. LinkedOnce(t)
  <2> SUFFICES ASSUME NEW f \in Slots, NEW g \in Slots,
                      NEW i \in 1 .. Len(t[f]), NEW j \in 1 .. Len(t[g]),
                      t[f][i] = t[g][j]
               PROVE  f = g /\ i = j
    BY DEF LinkedOnce
  <2>0. \A x \in Slots : \A y \in 1 .. Len(t[x]) :
          \/ x = h /\ y = 1 /\ t[x][y] = n
          \/ x = h /\ y - 1 \in 1 .. Len(s[x]) /\ t[x][y] = s[x][y - 1] /\ t[x][y] # n
          \/ x # h /\ y \in 1 .. Len(s[x]) /\ t[x][y] = s[x][y] /\ t[x][y] # n
    <3> TAKE x \in Slots
    <3> TAKE y \in 1 .. Len(t[x])
    <3>1. CASE x = h /\ y = 1  BY <3>1, <1>1, <1>2
    <3>2. CASE x = h /\ y # 1
      <4>1. y \in 1 .. Len(q) /\ t[x][y] = q[y]  BY <3>2, <1>2
      <4>2. y - 1 \in 1 .. Len(s[h]) /\ q[y] = s[h][y - 1]  BY <4>1, <3>2, <1>3
      <4> QED  BY <4>1, <4>2, <3>2, <1>7
    <3>3. CASE x # h
      <4>1. t[x] = s[x]  BY <3>3, <1>2
      <4> QED  BY <4>1, <3>3, <1>7
    <3> QED  BY <3>1, <3>2, <3>3
  <2>1. CASE t[f][i] = n
    <3>1. f = h /\ i = 1  BY <2>0, <2>1
    <3>2. g = h /\ j = 1  BY <2>0, <2>1
    <3> QED  BY <3>1, <3>2
  <2>2. CASE t[f][i] # n /\ f = h /\ g = h
    <3>1. i - 1 \in 1 .. Len(s[h]) /\ j - 1 \in 1 .. Len(s[h]) /\ s[h][i - 1] = s[h][j - 1]
      BY <2>0, <2>2
    <3>2. i - 1 = j - 1  BY <3>1 DEF LinkedOnce
    <3> QED  BY <3>2, <2>2
  <2>3. CASE t[f][i] # n /\ f = h /\ g # h
    <3>1. i - 1 \in 1 .. Len(s[f]) /\ j \in 1 .. Len(s[g]) /\ s[f][i - 1] = s[g][j]
      BY <2>0, <2>3
    <3> QED  BY <3>1, <2>3 DEF LinkedOnce
  <2>4. CASE t[f][i] # n /\ f # h /\ g = h
    <3>1. i \in 1 .. Len(s[f]) /\ j - 1 \in 1 .. Len(s[g]) /\ s[f][i] = s[g][j - 1]
      BY <2>0, <2>4
    <3> QED  BY <3>1, <2>4 DEF LinkedOnce
  <2>5. CASE t[f][i] # n /\ f # h /\ g # h  BY <2>0, <2>5 DEF LinkedOnce
  <2> QED  BY <2>1, <2>2, <2>3, <2>4, <2>5
<1> QED  BY <1>2, <1>4, <1>5, <1>6, <1>8

(* Unlinking a node takes exactly that node out of the table (the end of   *)
(* avc_reclaim_node).                                                      *)
LEMMA UnlinkTable ==
  ASSUME NEW s \in [Slots -> Seq(Nodes)], NEW h \in Slots, NEW i \in 1 .. Len(s[h]),
         LinkedOnce(s),
         NEW t, t = UnlinkFrom(s, h, i)
  PROVE  /\ t \in [Slots -> Seq(Nodes)]
         /\ LinkedOnce(t)
         /\ TableNodes(t) = TableNodes(s) \ {s[h][i]}
         /\ \A g \in Slots : ChainNodes(t, g) = ChainNodes(s, g) \ {s[h][i]}
<1> DEFINE q == Unlink(s[h], i)
           Old(g, j) == IF g = h /\ j >= i THEN j + 1 ELSE j
<1>1. /\ q \in Seq(Nodes) /\ Len(q) = Len(s[h]) - 1
      /\ \A j \in 1 .. Len(s[h]) - 1 : q[j] = IF j < i THEN s[h][j] ELSE s[h][j + 1]
  BY UnlinkType
<1> HIDE DEF q
<1>2. t \in [Slots -> Seq(Nodes)] /\ t[h] = q /\ \A g \in Slots : g # h => t[g] = s[g]
  BY <1>1 DEF q, PushOn, UnlinkFrom
<1>3. \A g \in Slots : \A j \in 1 .. Len(t[g]) :
        Old(g, j) \in 1 .. Len(s[g]) /\ t[g][j] = s[g][Old(g, j)]
  BY <1>1, <1>2
<1>4. \A g \in Slots : \A j \in 1 .. Len(s[g]) : (g # h \/ j # i) =>
        \E x \in 1 .. Len(t[g]) : t[g][x] = s[g][j]
  <2> SUFFICES ASSUME NEW g \in Slots, NEW j \in 1 .. Len(s[g]), g # h \/ j # i
               PROVE  \E x \in 1 .. Len(t[g]) : t[g][x] = s[g][j]
    OBVIOUS
  <2>1. CASE g # h  BY <2>1, <1>2
  <2>2. CASE g = h /\ j < i
    <3>1. j \in 1 .. Len(t[g]) /\ t[g][j] = s[g][j]  BY <2>2, <1>1, <1>2
    <3> QED  BY <3>1
  <2>3. CASE g = h /\ j > i
    <3>1. j - 1 \in 1 .. Len(t[g]) /\ t[g][j - 1] = s[g][j]  BY <2>3, <1>1, <1>2
    <3> QED  BY <3>1
  <2> QED  BY <2>1, <2>2, <2>3
<1>5. \A g \in Slots : \A j \in 1 .. Len(s[g]) : s[g][j] = s[h][i] <=> g = h /\ j = i
  BY DEF LinkedOnce
<1>6. \A g \in Slots : ChainNodes(t, g) = ChainNodes(s, g) \ {s[h][i]}
  <2> SUFFICES ASSUME NEW g \in Slots
               PROVE  ChainNodes(t, g) = ChainNodes(s, g) \ {s[h][i]}
    OBVIOUS
  <2>1. ASSUME NEW x \in ChainNodes(t, g) PROVE x \in ChainNodes(s, g) \ {s[h][i]}
    <3>1. PICK j \in 1 .. Len(t[g]) : x = t[g][j]  BY DEF ChainNodes
    <3>2. Old(g, j) \in 1 .. Len(s[g]) /\ x = s[g][Old(g, j)]  BY <1>3, <3>1
    <3>3. ~(g = h /\ Old(g, j) = i)  BY <3>1
    <3> QED  BY <3>2, <3>3, <1>5 DEF ChainNodes
  <2>2. ASSUME NEW x \in ChainNodes(s, g), x # s[h][i] PROVE x \in ChainNodes(t, g)
    <3>1. PICK j \in 1 .. Len(s[g]) : x = s[g][j]  BY DEF ChainNodes
    <3>2. PICK y \in 1 .. Len(t[g]) : t[g][y] = x  BY <2>2, <3>1, <1>4
    <3> QED  BY <3>2 DEF ChainNodes
  <2> QED  BY <2>1, <2>2
<1>7. TableNodes(t) = TableNodes(s) \ {s[h][i]}
  <2>1. \A x : x \in TableNodes(t) <=> \E g \in Slots : x \in ChainNodes(t, g)
    BY DEF TableNodes
  <2>2. \A x : x \in TableNodes(s) <=> \E g \in Slots : x \in ChainNodes(s, g)
    BY DEF TableNodes
  <2>3. ASSUME NEW x \in TableNodes(t) PROVE x \in TableNodes(s) \ {s[h][i]}
    <3>1. PICK g \in Slots : x \in ChainNodes(t, g)  BY <2>1
    <3>2. x \in ChainNodes(s, g) /\ x # s[h][i]  BY <3>1, <1>6
    <3> QED  BY <3>2, <2>2
  <2>4. ASSUME NEW x \in TableNodes(s), x # s[h][i] PROVE x \in TableNodes(t)
    <3>1. PICK g \in Slots : x \in ChainNodes(s, g)  BY <2>2
    <3>2. x \in ChainNodes(t, g)  BY <3>1, <2>4, <1>6
    <3> QED  BY <3>2, <2>1
  <2> QED  BY <2>3, <2>4
<1>8. LinkedOnce(t)
  <2> SUFFICES ASSUME NEW f \in Slots, NEW g \in Slots,
                      NEW x \in 1 .. Len(t[f]), NEW y \in 1 .. Len(t[g]),
                      t[f][x] = t[g][y]
               PROVE  f = g /\ x = y
    BY DEF LinkedOnce
  <2>1. /\ Old(f, x) \in 1 .. Len(s[f]) /\ Old(g, y) \in 1 .. Len(s[g])
        /\ s[f][Old(f, x)] = s[g][Old(g, y)]
    BY <1>3
  <2>2. f = g /\ Old(f, x) = Old(g, y)
    <3> HIDE DEF Old
    <3> QED  BY <2>1 DEF LinkedOnce
  <2> QED  BY <2>2
<1> QED  BY <1>2, <1>6, <1>7, <1>8
-----------------------------------------------------------------------------
(* The reclaim scan *)

(* A non-empty set of naturals has a least element. *)
LEMMA LeastNat ==
  ASSUME NEW S, S \subseteq Nat, S # {}
  PROVE  \E x \in S : \A y \in S : x <= y
<1>1. PICK x \in S : \A y \in S : ~(<<y, x>> \in OpToRel(<, Nat))
  BY WFMin, NatLessThanWellFounded, Zenon
<1>2. \A y \in S : <<y, x>> \in OpToRel(<, Nat) <=> y < x
  BY DEF OpToRel
<1>3. \A y \in S : ~(y < x)
  BY <1>1, <1>2, Zenon
<1>4. \A y \in S : x <= y
  BY <1>3
<1> QED  BY <1>4

(* Going round the slots from any starting point visits every slot         *)
(* (the do-while loop of avc_reclaim_node).                                *)
LEMMA ScanVisits ==
  ASSUME NumSlots \in Nat \ {0}, lru_hint \in Slots
  PROVE  /\ \A v \in Slots : ScanSlot(v) \in Slots
         /\ \A h \in Slots : \E v \in Slots : ScanSlot(v) = h
<1>1. \A v \in Slots : ScanSlot(v) \in Slots
  BY DEF ScanSlot, Slots
<1>2. ASSUME NEW h \in Slots PROVE \E v \in Slots : ScanSlot(v) = h
  <2>1. CASE h >= lru_hint
    <3>1. h - lru_hint \in Slots /\ lru_hint + (h - lru_hint) = h  BY <2>1 DEF Slots
    <3>2. h % NumSlots = h  BY DEF Slots
    <3> QED  BY <3>1, <3>2 DEF ScanSlot
  <2>2. CASE h < lru_hint
    <3>1. /\ h + NumSlots - lru_hint \in Slots
          /\ lru_hint + (h + NumSlots - lru_hint) = h + NumSlots
      BY <2>2 DEF Slots
    <3>2. (h + NumSlots) % NumSlots = h  BY DEF Slots
    <3> QED  BY <3>1, <3>2 DEF ScanSlot
  <2> QED  BY <2>1, <2>2 DEF Slots
<1> QED  BY <1>1, <1>2

(* What a scan position is. *)
LEMMA ScanPosition ==
  ASSUME NEW p
  PROVE  p \in ScanPositions <=>
           \E try \in {0, 1}, v \in Slots : \E i \in 1 .. Len(slots[ScanSlot(v)]) :
             p = <<try, v, i>>
  BY DEF ScanPositions

(* If the chains hold a node the scan finds a victim: in its second round  *)
(* every node is one.                                                      *)
LEMMA CachedIsScanned ==
  ASSUME TypeOK, NEW e, Victims(e) = {}
  PROVE  Cached = {}
<1> USE CacheConstants
<1> SUFFICES ASSUME NEW h \in Slots, NEW i \in 1 .. Len(slots[h]) PROVE FALSE
  BY DEF Cached, TableNodes, ChainNodes
<1>1. PICK v \in Slots : ScanSlot(v) = h  BY ScanVisits DEF TypeOK
<1>2. <<1, v, i>> \in ScanPositions  BY <1>1, ScanPosition
<1>3. <<1, v, i>> \in Victims(e)  BY <1>2 DEF Victims, Reclaimable
<1> QED  BY <1>3

(* The scan of avc_reclaim_node ends at the first victim, if there is one: *)
(* the order in which it visits the positions is well-founded.             *)
LEMMA ReclaimPosition ==
  ASSUME TypeOK, NEW e, Victims(e) # {}
  PROVE  avc_reclaim_node(e) \in ScanPositions
<1> USE CacheConstants
<1> DEFINE R == Victims(e)
           R1 == {p[1] : p \in R}
<1>1. \A p \in ScanPositions : p[1] \in Nat /\ p[2] \in Nat /\ p[3] \in Nat
  BY ScanPosition DEF Slots
<1>2. R # {} /\ R \subseteq ScanPositions  BY DEF Victims
<1> HIDE DEF R
<1>3. PICK a \in R1 : \A b \in R1 : a <= b
  <2>1. R1 \subseteq Nat /\ R1 # {}  BY <1>1, <1>2
  <2> HIDE DEF R1
  <2> QED  BY <2>1, LeastNat
<1> DEFINE S == {p \in R : p[1] = a}
           S2 == {p[2] : p \in S}
<1>4. S # {}  BY <1>3
<1>5. PICK c \in S2 : \A b \in S2 : c <= b
  <2>1. S2 \subseteq Nat /\ S2 # {}  BY <1>1, <1>2, <1>4
  <2> HIDE DEF S2
  <2> QED  BY <2>1, LeastNat
<1> DEFINE T == {p \in S : p[2] = c}
           T3 == {p[3] : p \in T}
<1>6. T # {}  BY <1>5
<1>7. PICK d \in T3 : \A b \in T3 : d <= b
  <2>1. T3 \subseteq Nat /\ T3 # {}  BY <1>1, <1>2, <1>6
  <2> HIDE DEF T3
  <2> QED  BY <2>1, LeastNat
<1>8. PICK p \in T : p[3] = d  BY <1>7
<1>9. p \in R  BY <1>8
<1>10. ASSUME NEW q \in R PROVE ~Earlier(q, p)
  <2>1. a <= q[1] /\ p[1] = a  BY <1>3, <1>8
  <2>2. q[1] = a => c <= q[2] /\ p[2] = c  BY <1>5, <1>8
  <2>3. q[1] = a /\ q[2] = c => d <= q[3] /\ p[3] = d  BY <1>7, <1>8
  <2> QED  BY <2>1, <2>2, <2>3, <1>1, <1>2, <1>9 DEF Earlier
<1>11. avc_reclaim_node(e) \in R  BY <1>9, <1>10, Zenon DEF avc_reclaim_node, R
<1> QED  BY <1>2, <1>11
-----------------------------------------------------------------------------
(* The inductive invariant: the four properties, and what the AVC looks    *)
(* like while it does not run (before avc_init, after a failed one, after  *)
(* avc_destroy), which avc_init_internal relies on.                        *)

RefsValid == \A r \in Refs : aeref[r] \in allocated \cup {NoNode}

Stopped ==
  ~avc_running =>
    /\ freelist = allocated
    /\ \A n \in freelist : ae[n].key = NoKey

IInv ==
  /\ TypeOK
  /\ NodeConservation
  /\ KeyPlacement
  /\ NothingForgivenWhenEnforcing
  /\ ReclaimFindsANode
  /\ RefsValid
  /\ Stopped

(* The initial state satisfies the inductive invariant. *)
LEMMA InitInv == Init => IInv
<1> USE CacheConstants
<1> SUFFICES ASSUME Init PROVE IInv  OBVIOUS
<1>1. ClearedEntry \in Entry
  BY DEF ClearedEntry, Entry, NoDecision, AvDecision
<1>2. << >> \in Seq(Nodes) /\ 0 \in Slots  BY DEF Slots
<1>3. TypeOK  BY <1>1, <1>2 DEF Init, TypeOK, Idle
<1>4. QED  BY <1>3 DEF Init, IInv, NodeConservation, KeyPlacement, RefsValid, Stopped,
              NothingForgivenWhenEnforcing, ReclaimFindsANode, ClearedEntry

(* The nodes of a well-typed table are nodes, finitely many. *)
LEMMA CachedFinite ==
  ASSUME TypeOK
  PROVE  Cached \subseteq Nodes /\ IsFiniteSet(Cached) /\ Cardinality(Cached) \in Nat
<1>1. Cached \subseteq Nodes  BY DEF TypeOK, Cached, TableNodes, ChainNodes
<1>2. IsFiniteSet(Cached)  BY <1>1, CacheConstants, FS_Subset
<1> QED  BY <1>1, <1>2, FS_CardinalityType

(* avc_search_node finds a chained node that carries the key, or nothing. *)
LEMMA SearchFinds ==
  ASSUME TypeOK, NEW k \in Keys
  PROVE  \/ avc_search_node(k) = NoNode
         \/ /\ avc_search_node(k) \in Cached
            /\ avc_search_node(k) \in Nodes
            /\ ae[avc_search_node(k)].key = k
<1> USE CacheConstants
<1>1. CASE Matching(k) = {}  BY <1>1 DEF avc_search_node
<1>2. CASE Matching(k) # {}
  <2> DEFINE i == CHOOSE i \in Matching(k) : \A j \in Matching(k) : i <= j
  <2>1. Matching(k) \subseteq Nat  BY DEF Matching
  <2>2. \E x \in Matching(k) : \A y \in Matching(k) : x <= y  BY <2>1, <1>2, LeastNat
  <2>3. i \in Matching(k)  BY <2>2
  <2>4. avc_search_node(k) = slots[Hash[k]][i]  BY <1>2 DEF avc_search_node
  <2>5. Hash[k] \in Slots /\ i \in 1 .. Len(slots[Hash[k]]) /\ ae[slots[Hash[k]][i]].key = k
    BY <2>3 DEF Matching
  <2> HIDE DEF i
  <2>6. slots[Hash[k]][i] \in Cached  BY <2>5 DEF Cached, TableNodes, ChainNodes
  <2> QED  BY <2>4, <2>5, <2>6, CachedFinite
<1> QED  BY <1>1, <1>2
-----------------------------------------------------------------------------
(* Steps that change entries in place *)

(* A clean entry: one that allows no more than the security server grants, *)
(* unless its domain is permissive.                                        *)
Clean(x, g) == ~x.avd.permissive => x.avd.allowed \subseteq g

Strict == avc_enforcing /\ ctl.pc # "reset" /\ ~unflushed

(* A step that leaves the table alone and changes entries without changing *)
(* a key preserves the invariant if, in enforcing mode, it leaves cached   *)
(* entries clean.                                                          *)
LEMMA EntryStep ==
  ASSUME IInv,
         UNCHANGED <<avc_running, allocated, freelist, slots, lru_hint, active_nodes>>,
         avc_enforcing' \in BOOLEAN, avc_setenforce' \in BOOLEAN,
         option' \in {"enforcing", "permissive", "none"}, unflushed' \in BOOLEAN,
         latest_notif' \in Nat,
         ctl' \in [pc : {"idle", "reset", "notify"}, seqno : Nat],
         granted' \in [Nodes -> SUBSET Perms],
         ae' \in [Nodes -> Entry],
         \A n \in Nodes : ae'[n].key = ae[n].key,
         avc_running /\ Strict' => \A n \in Cached : Clean(ae'[n], granted'[n]),
         aeref' \in [Refs -> Nodes \cup {NoNode}],
         RefsValid',
         rc' \in {"0", "EACCES", "EAGAIN", "ENOMEM", "EINVAL", "EIO", "fail"},
         rc' = "ENOMEM" /\ avc_running => allocated = {}
  PROVE  IInv'
<1>1. TypeOK'  BY DEF IInv, TypeOK
<1>2. Cached' = Cached /\ Cached \subseteq Nodes
  BY CachedFinite DEF IInv, Cached, TableNodes, ChainNodes
<1>3. NodeConservation'  BY <1>2 DEF IInv, NodeConservation, LinkedOnce
<1>4. KeyPlacement'
  <2>1. \A h \in Slots : ChainNodes(slots, h) \subseteq Nodes
    BY <1>2 DEF Cached, TableNodes
  <2>2. slots' = slots /\ freelist \subseteq Nodes  BY DEF IInv, TypeOK
  <2>3. ASSUME avc_running, NEW h \in Slots, NEW n \in ChainNodes(slots, h)
        PROVE  ae'[n].key \in Keys /\ Hash[ae'[n].key] = h
    BY <2>1, <2>3 DEF IInv, KeyPlacement
  <2>4. avc_running => \A n \in freelist : ae'[n].key = NoKey
    BY <2>2 DEF IInv, KeyPlacement
  <2> QED  BY <2>2, <2>3, <2>4 DEF KeyPlacement, RefsValid
<1>5. NothingForgivenWhenEnforcing'
  BY <1>2 DEF Strict, Clean, NothingForgivenWhenEnforcing
<1>6. ReclaimFindsANode' /\ RefsValid' /\ Stopped'
  BY DEF IInv, TypeOK, ReclaimFindsANode, Stopped
<1> QED  BY <1>1, <1>3, <1>4, <1>5, <1>6 DEF IInv

(* The answer of avc_has_perm_noaudit leaves a clean entry clean when      *)
(* nothing may be forgiven, and keeps its key.                             *)
LEMMA AnsweredEntry ==
  ASSUME NEW x \in Entry, NEW req \in SUBSET Perms, avc_enforcing \in BOOLEAN
  PROVE  /\ Answered(x, req) \in Entry
         /\ Answered(x, req).key = x.key
         /\ \A g : avc_enforcing /\ Clean(x, g) => Clean(Answered(x, req), g)
         /\ Verdict(x, req) \in {"0", "EACCES"}
  BY DEF Answered, Verdict, Short, Forgiven, Clean, Entry, AvDecision

(* A cached entry that answers a query preserves the invariant. *)
LEMMA AnswerStep ==
  ASSUME IInv, Query, NEW n \in Nodes, NEW req \in SUBSET Perms, AnswerFrom(n, req),
         aeref' \in [Refs -> Nodes \cup {NoNode}], RefsValid'
  PROVE  IInv'
<1> DEFINE x == [ae[n] EXCEPT !.used = TRUE]
<1>1. TypeOK /\ avc_running  BY DEF IInv, Query
<1>2. x \in Entry /\ x.key = ae[n].key /\ x.avd = ae[n].avd  BY <1>1 DEF TypeOK, Entry
<1>3. /\ Answered(x, req) \in Entry
      /\ Answered(x, req).key = x.key
      /\ \A g : avc_enforcing /\ Clean(x, g) => Clean(Answered(x, req), g)
      /\ Verdict(x, req) \in {"0", "EACCES"}
  BY <1>1, <1>2, AnsweredEntry DEF TypeOK
<1>4. /\ ae' = [ae EXCEPT ![n] = Answered(x, req)]
      /\ rc' = Verdict(x, req)
      /\ UNCHANGED <<freelist, slots, lru_hint, active_nodes, granted>>
  BY DEF AnswerFrom
<1> HIDE DEF x
<1>5. ae' \in [Nodes -> Entry] /\ \A m \in Nodes : ae'[m].key = ae[m].key
  BY <1>1, <1>2, <1>3, <1>4 DEF TypeOK
<1>6. Strict' => \A m \in Cached : Clean(ae'[m], granted'[m])
  <2> SUFFICES ASSUME Strict', NEW m \in Cached PROVE Clean(ae'[m], granted[m])
    BY <1>4
  <2>1. avc_enforcing /\ ctl.pc # "reset" /\ ~unflushed  BY DEF Strict, Query
  <2>2. Clean(ae[m], granted[m])  BY <2>1, <1>1 DEF IInv, NothingForgivenWhenEnforcing, Clean
  <2>3. m \in Nodes  BY <1>1, CachedFinite
  <2>4. CASE m = n
    <3>1. Clean(x, granted[m])  BY <2>2, <2>4, <1>2 DEF Clean
    <3> QED  BY <2>4, <3>1, <2>1, <1>3, <1>4, <1>1 DEF TypeOK
  <2>5. CASE m # n  BY <2>2, <2>3, <2>5, <1>4, <1>1 DEF TypeOK
  <2> QED  BY <2>4, <2>5
<1> QED  BY <1>1, <1>3, <1>4, <1>5, <1>6, EntryStep DEF TypeOK, Query
-----------------------------------------------------------------------------
(* Steps that claim a node *)

(* Two entry tables that differ in used flags (and create_sid) only. *)
SameDecisions(e) ==
  /\ e \in [Nodes -> Entry]
  /\ \A m \in Nodes : e[m].key = ae[m].key /\ e[m].avd = ae[m].avd

(* The entry table f is the present one with x in node n, up to those. *)
Refilled(f, n, x) ==
  /\ f \in [Nodes -> Entry] /\ f[n] = x
  /\ \A m \in Nodes \ {n} : f[m].key = ae[m].key /\ f[m].avd = ae[m].avd

(* However the node n is claimed, avc_claim_node amounts to this: n leaves *)
(* wherever it was and is pushed on the key's chain, and no other entry    *)
(* changes its key or its decision.                                        *)
LEMMA ClaimEffect ==
  ASSUME IInv, avc_running, NEW k \in Keys, NEW e, SameDecisions(e),
         NEW n \in Nodes, NEW x \in Entry, avc_claim_node(k, e, n, x)
  PROVE  /\ n \in allocated
         /\ lru_hint' \in Slots
         /\ freelist' = freelist \ {n}
         /\ active_nodes' = Cardinality(Cached \cup {n})
         /\ Refilled(ae', n, x)
         /\ \E u \in [Slots -> Seq(Nodes)] :
              /\ LinkedOnce(u)
              /\ TableNodes(u) = Cached \ {n}
              /\ \A g \in Slots : ChainNodes(u, g) = ChainNodes(slots, g) \ {n}
              /\ slots' = PushOn(u, Hash[k], n)
<1>1. TypeOK /\ NodeConservation  BY DEF IInv
<1>2. Cached \subseteq Nodes /\ IsFiniteSet(Cached) /\ Cardinality(Cached) \in Nat
  BY <1>1, CachedFinite
<1>3. CASE ClaimFree(k, e, n, x)
  <2>1. n \in allocated /\ n \notin Cached  BY <1>1, <1>3 DEF ClaimFree, NodeConservation
  <2>2. active_nodes' = Cardinality(Cached \cup {n})
    BY <1>1, <1>2, <1>3, <2>1, FS_AddElement DEF ClaimFree, NodeConservation
  <2>3. \A g \in Slots : ChainNodes(slots, g) = ChainNodes(slots, g) \ {n}
    BY <2>1 DEF Cached, TableNodes
  <2>4. /\ slots \in [Slots -> Seq(Nodes)] /\ LinkedOnce(slots)
        /\ TableNodes(slots) = Cached \ {n}
    BY <1>1, <2>1 DEF TypeOK, NodeConservation, Cached
  <2>5. /\ freelist' = freelist \ {n} /\ lru_hint' = lru_hint
        /\ slots' = PushOn(slots, Hash[k], n)
        /\ ae' = [e EXCEPT ![n] = x]
    BY <1>3 DEF ClaimFree
  <2>6. Refilled(ae', n, x)  BY <2>5 DEF Refilled, SameDecisions
  <2> QED  BY <2>1, <2>2, <2>3, <2>4, <2>5, <2>6, <1>1 DEF TypeOK
<1>4. CASE ClaimReclaimed(k, e, n, x)
  <2> DEFINE p == avc_reclaim_node(e)
             h == ScanSlot(p[2])
             u == UnlinkFrom(slots, h, p[3])
             f == Unmarked(p, e)
  <2>1. p \in ScanPositions  BY <1>1, <1>4, ReclaimPosition DEF ClaimReclaimed
  <2> HIDE DEF p
  <2>2. h \in Slots /\ p[3] \in 1 .. Len(slots[h])
    <3>1. PICK try \in {0, 1}, v \in Slots : \E i \in 1 .. Len(slots[ScanSlot(v)]) :
            p = <<try, v, i>>
      BY <2>1, ScanPosition
    <3>2. p[2] = v /\ p[3] \in 1 .. Len(slots[ScanSlot(v)])  BY <3>1
    <3>3. ScanSlot(v) \in Slots  BY <1>1, CacheConstants, ScanVisits DEF TypeOK
    <3> QED  BY <3>2, <3>3
  <2>3. /\ freelist = {} /\ freelist' = freelist /\ active_nodes' = active_nodes
        /\ n = slots[h][p[3]] /\ lru_hint' = h
        /\ slots' = PushOn(u, Hash[k], n)
        /\ ae' = [f EXCEPT ![n] = x]
    BY <1>4 DEF ClaimReclaimed, NodeAt, p
  <2> HIDE DEF h, f
  <2>4. n \in Cached  BY <2>2, <2>3 DEF Cached, TableNodes, ChainNodes
  <2>5. n \in allocated /\ Cached \cup {n} = Cached /\ freelist' = freelist \ {n}
    BY <2>3, <2>4, <1>1 DEF NodeConservation
  <2>6. active_nodes' = Cardinality(Cached \cup {n})
    BY <2>3, <2>5, <1>1 DEF NodeConservation
  <2>7. slots \in [Slots -> Seq(Nodes)] /\ LinkedOnce(slots)
    BY <1>1 DEF TypeOK, NodeConservation
  <2>8. /\ u \in [Slots -> Seq(Nodes)] /\ LinkedOnce(u)
        /\ TableNodes(u) = Cached \ {n}
        /\ \A g \in Slots : ChainNodes(u, g) = ChainNodes(slots, g) \ {n}
    <3> DEFINE i == p[3]
    <3>1. i \in 1 .. Len(slots[h]) /\ n = slots[h][i] /\ u = UnlinkFrom(slots, h, i)
      BY <2>2, <2>3
    <3> HIDE DEF i, u
    <3>2. /\ u \in [Slots -> Seq(Nodes)] /\ LinkedOnce(u)
          /\ TableNodes(u) = TableNodes(slots) \ {slots[h][i]}
          /\ \A g \in Slots : ChainNodes(u, g) = ChainNodes(slots, g) \ {slots[h][i]}
      BY <3>1, <2>2, <2>7, UnlinkTable
    <3> QED  BY <3>1, <3>2 DEF Cached
  <2> HIDE DEF u
  <2>9. SameDecisions(f)  BY DEF f, SameDecisions, Unmarked, Entry
  <2>10. Refilled(ae', n, x)  BY <2>3, <2>9 DEF Refilled, SameDecisions
  <2> QED  BY <2>2, <2>3, <2>5, <2>6, <2>8, <2>10
<1> QED  BY <1>3, <1>4 DEF avc_claim_node

(* A query that inserts the kernel's decision d as entry x of node n       *)
(* preserves the invariant, provided x is clean in enforcing mode.         *)
LEMMA InsertStep ==
  ASSUME IInv, Query, NEW k \in Keys, NEW d \in Decisions, NEW e, SameDecisions(e),
         NEW n \in Nodes, NEW x \in Entry, x.key = k,
         avc_enforcing => Clean(x, d.allowed),
         avc_insert(k, d, e, n, x),
         aeref' \in [Refs -> Nodes \cup {NoNode}],
         \A r \in Refs : aeref'[r] \in {aeref[r], n},
         rc' \in {"0", "EACCES", "fail"}
  PROVE  IInv'
<1> USE CacheConstants
<1>1. /\ TypeOK /\ NodeConservation /\ KeyPlacement /\ RefsValid /\ avc_running
      /\ NothingForgivenWhenEnforcing
      /\ UNCHANGED <<avc_running, avc_enforcing, avc_setenforce, option, unflushed,
                     allocated, latest_notif, ctl>>
  BY DEF IInv, Query
<1>2. avc_claim_node(k, e, n, x) /\ granted' = [granted EXCEPT ![n] = d.allowed]
  BY DEF avc_insert
<1>3. /\ n \in allocated /\ lru_hint' \in Slots
      /\ freelist' = freelist \ {n} /\ active_nodes' = Cardinality(Cached \cup {n})
  BY <1>1, <1>2, ClaimEffect
<1>5. PICK u \in [Slots -> Seq(Nodes)] :
        /\ LinkedOnce(u)
        /\ TableNodes(u) = Cached \ {n}
        /\ \A g \in Slots : ChainNodes(u, g) = ChainNodes(slots, g) \ {n}
        /\ slots' = PushOn(u, Hash[k], n)
  BY <1>1, <1>2, ClaimEffect
<1>6. Hash[k] \in Slots /\ n \notin TableNodes(u)  BY <1>5
<1>7. /\ slots' \in [Slots -> Seq(Nodes)] /\ LinkedOnce(slots')
      /\ TableNodes(slots') = TableNodes(u) \cup {n}
      /\ \A g \in Slots : ChainNodes(slots', g) =
            IF g = Hash[k] THEN ChainNodes(u, g) \cup {n} ELSE ChainNodes(u, g)
  BY <1>5, <1>6, PushTable
<1>71. \A g \in Slots : \A m \in ChainNodes(slots', g) :
         IF m = n THEN g = Hash[k] ELSE m \in ChainNodes(slots, g)
  <2> TAKE g \in Slots
  <2>1. CASE g = Hash[k]  BY <2>1, <1>5, <1>7
  <2>2. CASE g # Hash[k]  BY <2>2, <1>5, <1>7
  <2> QED  BY <2>1, <2>2
<1>8. Cached' = Cached \cup {n}  BY <1>5, <1>7 DEF Cached
<1>9. /\ ae' \in [Nodes -> Entry] /\ ae'[n] = x
      /\ \A m \in Nodes \ {n} : ae'[m].key = ae[m].key /\ ae'[m].avd = ae[m].avd
  <2>1. Refilled(ae', n, x)  BY <1>1, <1>2, ClaimEffect
  <2> QED  BY <2>1 DEF Refilled
<1>10. TypeOK'
  <2>1. active_nodes' \in Nat
    BY <1>1, <1>3, CachedFinite, FS_AddElement, FS_CardinalityType
  <2>2. granted' \in [Nodes -> SUBSET Perms]  BY <1>1, <1>2 DEF TypeOK, AvDecision
  <2> QED  BY <2>1, <2>2, <1>1, <1>3, <1>7, <1>9 DEF TypeOK
<1>11. NodeConservation'
  BY <1>1, <1>3, <1>7, <1>8 DEF NodeConservation
<1>12. RefsValid'  BY <1>1, <1>3 DEF RefsValid
<1>13. KeyPlacement'
  <2>1. ASSUME NEW h \in Slots, NEW m \in ChainNodes(slots', h)
        PROVE  ae'[m].key \in Keys /\ Hash[ae'[m].key] = h
    <3>1. CASE m = n  BY <3>1, <1>71, <1>9
    <3>2. CASE m # n
      <4>1. m \in ChainNodes(slots, h)  BY <3>2, <1>71
      <4>2. m \in Nodes  BY <4>1, <1>1, CachedFinite DEF Cached, TableNodes
      <4> QED  BY <4>1, <4>2, <3>2, <1>1, <1>9 DEF KeyPlacement
    <3> QED  BY <3>1, <3>2
  <2>2. \A m \in freelist' : ae'[m].key = NoKey
    BY <1>1, <1>3, <1>9 DEF KeyPlacement, TypeOK
  <2> QED  BY <2>1, <2>2, <1>12 DEF KeyPlacement, RefsValid
<1>14. NothingForgivenWhenEnforcing'
  <2> SUFFICES ASSUME avc_enforcing, ctl.pc # "reset", ~unflushed, NEW m \in Cached \cup {n}
               PROVE  Clean(ae'[m], granted'[m])
    BY <1>1, <1>8 DEF NothingForgivenWhenEnforcing, Clean
  <2>1. CASE m = n  BY <2>1, <1>1, <1>2, <1>9 DEF TypeOK
  <2>2. CASE m # n
    <3>1. m \in Nodes /\ m \in Cached  BY <2>2, <1>1, CachedFinite
    <3>2. Clean(ae[m], granted[m])  BY <3>1, <1>1 DEF NothingForgivenWhenEnforcing, Clean
    <3> QED  BY <3>1, <3>2, <2>2, <1>1, <1>2, <1>9 DEF Clean, TypeOK
  <2> QED  BY <2>1, <2>2
<1> QED  BY <1>1, <1>10, <1>11, <1>12, <1>13, <1>14
         DEF IInv, ReclaimFindsANode, Stopped
-----------------------------------------------------------------------------
(* The actions *)

(* Marking an entry used changes neither its key nor its decision. *)
LEMMA UsedEntry ==
  ASSUME NEW x \in Entry
  PROVE  LET y == [x EXCEPT !.used = TRUE]
         IN  y \in Entry /\ y.key = x.key /\ y.avd = x.avd
  BY DEF Entry

(* Marking any node's entry used changes no decision. *)
LEMMA TouchAny ==
  ASSUME TypeOK, NEW n \in Nodes \cup {NoNode}
  PROVE  SameDecisions(Touch(n))
<1>1. ae \in [Nodes -> Entry]  BY DEF TypeOK
<1>2. CASE n = NoNode
  <2>1. Touch(n) = ae  BY <1>2 DEF Touch
  <2> QED  BY <2>1, <1>1 DEF SameDecisions
<1>3. CASE n \in Nodes
  <2> DEFINE y == [ae[n] EXCEPT !.used = TRUE]
  <2>1. ae[n] \in Entry  BY <1>1, <1>3
  <2>2. y \in Entry /\ y.key = ae[n].key /\ y.avd = ae[n].avd  BY <2>1, UsedEntry
  <2>3. n # NoNode  BY <1>3, CacheConstants
  <2>4. Touch(n) = [ae EXCEPT ![n] = y]  BY <2>3, <1>1, <1>3 DEF Touch
  <2> HIDE DEF y
  <2> QED  BY <2>2, <2>4, <1>1, <1>3 DEF SameDecisions
<1> QED  BY <1>2, <1>3

(* Marking the entry avc_search_node found as used changes no decision. *)
LEMMA TouchSame ==
  ASSUME TypeOK, NEW k \in Keys
  PROVE  SameDecisions(Touch(avc_search_node(k)))
  BY SearchFinds, TouchAny

(* A query step that changes used flags at most, and returns code c. *)
LEMMA NoAnswerStep ==
  ASSUME IInv, Query, SameDecisions(ae'),
         UNCHANGED <<freelist, slots, lru_hint, active_nodes, granted, aeref>>,
         rc' \in {"0", "EACCES", "EAGAIN", "ENOMEM", "EINVAL", "EIO", "fail"},
         rc' = "ENOMEM" => \E e : OutOfNodes(e)
  PROVE  IInv'
<1>1. TypeOK /\ avc_running /\ NodeConservation  BY DEF IInv, Query
<1>2. ASSUME NEW e, OutOfNodes(e) PROVE allocated = {}
  BY <1>1, <1>2, CachedIsScanned DEF OutOfNodes, NodeConservation
<1>3. Strict' => \A n \in Cached : Clean(ae'[n], granted'[n])
  <2> SUFFICES ASSUME Strict', NEW n \in Cached PROVE Clean(ae'[n], granted[n])
    OBVIOUS
  <2>1. Clean(ae[n], granted[n])
    BY <1>1 DEF IInv, NothingForgivenWhenEnforcing, Clean, Strict, Query
  <2>2. n \in Nodes  BY <1>1, CachedFinite
  <2> QED  BY <2>1, <2>2 DEF SameDecisions, Clean
<1>4. RefsValid'  BY DEF IInv, RefsValid, Query
<1>5. ae' \in [Nodes -> Entry] /\ \A n \in Nodes : ae'[n].key = ae[n].key
  BY DEF SameDecisions
<1> QED  BY <1>1, <1>2, <1>3, <1>4, <1>5, EntryStep DEF TypeOK, Query

(* A reference to a node, set as avc_lookup and avc_insert set it. *)
LEMMA RefStep ==
  ASSUME TypeOK, NEW r \in Refs \cup {NoRef}, NEW n \in Nodes
  PROVE  /\ SetRef(r, n) \in [Refs -> Nodes \cup {NoNode}]
         /\ \A q \in Refs : SetRef(r, n)[q] \in {aeref[q], n}
  BY CacheConstants DEF SetRef, TypeOK

(* avc_has_perm_noaudit preserves the invariant. *)
LEMMA HasPermStep ==
  ASSUME IInv, HasPerm
  PROVE  IInv'
<1> USE CacheConstants
<1>1. PICK r \in Refs \cup {NoRef}, k \in Keys, req \in SUBSET Perms :
        \/ HasPermByRef(r, k, req)
        \/ HasPermByLookup(r, k, req)
        \/ \E d \in Decisions : HasPermByQuery(r, k, req, d)
        \/ \E d \in Decisions : HasPermNotInserted(r, k, req, d)
        \/ \E err \in {"EINVAL", "EIO"} : HasPermQueryFails(r, k, req, err)
  BY DEF HasPerm
<1>2. TypeOK /\ RefsValid  BY DEF IInv
<1>3. CASE HasPermByRef(r, k, req)
  <2>1. r \in Refs /\ aeref[r] \in Nodes  BY <1>2, <1>3 DEF HasPermByRef, RefHit, TypeOK
  <2>2. aeref' \in [Refs -> Nodes \cup {NoNode}] /\ RefsValid'
    BY <1>2, <1>3 DEF HasPermByRef, Query, TypeOK, RefsValid
  <2> QED  BY <2>1, <2>2, <1>3, AnswerStep DEF HasPermByRef
<1>4. CASE HasPermByLookup(r, k, req)
  <2> DEFINE n == avc_lookup(k, req)
  <2>1. n \in Cached /\ n \in Nodes
    BY <1>2, <1>4, SearchFinds DEF HasPermByLookup, avc_lookup
  <2>2. aeref' = SetRef(r, n) /\ allocated' = allocated /\ AnswerFrom(n, req) /\ Query
    BY <1>4 DEF HasPermByLookup, Query
  <2>3. n \in allocated  BY <2>1, <2>2 DEF IInv, NodeConservation, Query
  <2> HIDE DEF n
  <2>4. /\ aeref' \in [Refs -> Nodes \cup {NoNode}]
        /\ \A q \in Refs : aeref'[q] \in {aeref[q], n}
    BY <2>1, <2>2, <1>2, RefStep
  <2>5. RefsValid'  BY <2>2, <2>3, <2>4, <1>2 DEF RefsValid
  <2> QED  BY <2>1, <2>2, <2>4, <2>5, AnswerStep
<1>5. ASSUME NEW d \in Decisions, HasPermByQuery(r, k, req, d) PROVE IInv'
  <2> DEFINE x == NewEntry(k, d)
             y == Answered(x, req)
             e == Touch(avc_search_node(k))
  <2>1. x \in Entry /\ x.key = k /\ Clean(x, d.allowed)
    BY DEF NewEntry, Entry, Clean
  <2>2. /\ y \in Entry /\ y.key = k
        /\ avc_enforcing => Clean(y, d.allowed)
        /\ Verdict(x, req) \in {"0", "EACCES"}
    <3> HIDE DEF x
    <3> QED  BY <2>1, <1>2, AnsweredEntry DEF TypeOK
  <2>3. PICK n \in Nodes : avc_insert(k, d, e, n, y) /\ aeref' = SetRef(r, n)
    BY <1>5 DEF HasPermByQuery
  <2>4. Query /\ rc' = Verdict(x, req)  BY <1>5 DEF HasPermByQuery, Miss
  <2>5. SameDecisions(e)  BY <1>2, TouchSame
  <2> HIDE DEF x, y, e
  <2>6. /\ aeref' \in [Refs -> Nodes \cup {NoNode}]
        /\ \A q \in Refs : aeref'[q] \in {aeref[q], n}
    BY <2>3, <1>2, RefStep
  <2> QED  BY <2>2, <2>3, <2>4, <2>5, <2>6, InsertStep
<1>6. ASSUME NEW d \in Decisions, HasPermNotInserted(r, k, req, d) PROVE IInv'
  <2>1. /\ Query /\ ae' = Touch(avc_search_node(k)) /\ rc' = InsertError(d)
        /\ UNCHANGED <<freelist, slots, lru_hint, active_nodes, granted, aeref>>
        /\ Stale(d) \/ OutOfNodes(Touch(avc_search_node(k)))
    BY <1>6 DEF HasPermNotInserted, Miss, MissOnly
  <2>2. SameDecisions(ae')  BY <2>1, <1>2, TouchSame
  <2>3. rc' \in {"EAGAIN", "ENOMEM"} /\ (rc' = "ENOMEM" => \E e : OutOfNodes(e))
    BY <2>1 DEF InsertError
  <2> QED  BY <2>1, <2>2, <2>3, NoAnswerStep
<1>7. ASSUME NEW err \in {"EINVAL", "EIO"}, HasPermQueryFails(r, k, req, err) PROVE IInv'
  <2>1. /\ Query /\ ae' = Touch(avc_search_node(k)) /\ rc' \in {"0", "EINVAL", "EIO"}
        /\ UNCHANGED <<freelist, slots, lru_hint, active_nodes, granted, aeref>>
    BY <1>7 DEF HasPermQueryFails, Miss, MissOnly
  <2>2. SameDecisions(ae')  BY <2>1, <1>2, TouchSame
  <2> QED  BY <2>1, <2>2, NoAnswerStep
<1> QED  BY <1>1, <1>3, <1>4, <1>5, <1>6, <1>7

(* avc_compute_create preserves the invariant. *)
LEMMA ComputeCreateStep ==
  ASSUME IInv, ComputeCreate
  PROVE  IInv'
<1> USE CacheConstants
<1>1. PICK k \in Keys :
        \/ \E s \in Sids \cup {NoSid} :
             \/ ComputeCreateByLookup(k, s)
             \/ \E d \in Decisions : ComputeCreateByQuery(k, d, s)
        \/ \E err \in {"EINVAL", "EIO"} : ComputeCreateQueryFails(k, err)
        \/ \E d \in Decisions : ComputeCreateNotInserted(k, d)
  BY DEF ComputeCreate
<1>2. TypeOK /\ RefsValid  BY DEF IInv
<1>3. ASSUME NEW s \in Sids \cup {NoSid}, ComputeCreateByLookup(k, s) PROVE IInv'
  <2> DEFINE n == avc_lookup(k, {})
             y == [ae[n] EXCEPT !.used = TRUE]
             x == Saved(y, s)
  <2>1. n \in Nodes
    BY <1>2, <1>3, SearchFinds DEF ComputeCreateByLookup, avc_lookup
  <2>2. /\ Query /\ ae' = [ae EXCEPT ![n] = x] /\ rc' \in {"fail", "0"}
        /\ UNCHANGED <<freelist, slots, lru_hint, active_nodes, granted, aeref>>
    BY <1>3 DEF ComputeCreateByLookup, CreateVerdict
  <2> HIDE DEF n
  <2>3. x \in Entry /\ x.key = ae[n].key /\ x.avd = ae[n].avd
    <3>0. ae[n] \in Entry  BY <2>1, <1>2 DEF TypeOK
    <3>1. y \in Entry /\ y.key = ae[n].key /\ y.avd = ae[n].avd
      BY <3>0, UsedEntry
    <3> HIDE DEF y
    <3> QED  BY <3>1 DEF Saved, Entry
  <2> HIDE DEF x
  <2>4. SameDecisions(ae')  BY <2>1, <2>2, <2>3, <1>2 DEF SameDecisions, TypeOK
  <2> QED  BY <2>2, <2>4, NoAnswerStep
<1>4. ASSUME NEW s \in Sids \cup {NoSid}, NEW d \in Decisions,
             ComputeCreateByQuery(k, d, s)
      PROVE  IInv'
  <2> DEFINE x == Saved(NewEntry(k, d), s)
  <2>1. x \in Entry /\ x.key = k /\ Clean(x, d.allowed)
    BY DEF NewEntry, Entry, Clean, Saved
  <2>2. PICK n \in Nodes : avc_insert(k, d, ae, n, x)
    BY <1>4 DEF ComputeCreateByQuery
  <2>3. Query /\ rc' \in {"fail", "0"} /\ aeref' = aeref
    BY <1>4 DEF ComputeCreateByQuery, Miss, CreateVerdict
  <2>4. SameDecisions(ae)  BY <1>2 DEF SameDecisions, TypeOK
  <2>5. /\ aeref' \in [Refs -> Nodes \cup {NoNode}]
        /\ \A q \in Refs : aeref'[q] \in {aeref[q], n}
    BY <2>3, <1>2 DEF TypeOK
  <2> HIDE DEF x
  <2> QED  BY <2>1, <2>2, <2>3, <2>4, <2>5, InsertStep
<1>5. SameDecisions(ae)  BY <1>2 DEF SameDecisions, TypeOK
<1>6. ASSUME NEW err \in {"EINVAL", "EIO"}, ComputeCreateQueryFails(k, err) PROVE IInv'
  <2>1. /\ Query /\ ae' = ae /\ rc' = err
        /\ UNCHANGED <<freelist, slots, lru_hint, active_nodes, granted, aeref>>
    BY <1>6 DEF ComputeCreateQueryFails, Miss
  <2> QED  BY <2>1, <1>5, NoAnswerStep
<1>7. ASSUME NEW d \in Decisions, ComputeCreateNotInserted(k, d) PROVE IInv'
  <2>1. /\ Query /\ ae' = ae /\ rc' \in {"EAGAIN", "ENOMEM"}
        /\ rc' = "ENOMEM" => OutOfNodes(ae)
        /\ UNCHANGED <<freelist, slots, lru_hint, active_nodes, granted, aeref>>
    BY <1>7 DEF ComputeCreateNotInserted, Miss, InsertError
  <2> QED  BY <2>1, <1>5, NoAnswerStep
<1> QED  BY <1>1, <1>3, <1>4, <1>6, <1>7

(* A table of empty chains: what avc_reset and avc_init_internal leave.    *)
LEMMA EmptyTable ==
  ASSUME NEW t, t = [h \in Slots |-> << >>]
  PROVE  /\ t \in [Slots -> Seq(Nodes)]
         /\ TableNodes(t) = {} /\ LinkedOnce(t)
         /\ \A h \in Slots : ChainNodes(t, h) = {}
<1>1. \A h \in Slots : t[h] = << >> /\ ChainNodes(t, h) = {}  BY DEF ChainNodes
<1>2. TableNodes(t) = {}  BY <1>1 DEF TableNodes
<1>3. LinkedOnce(t)  BY <1>1 DEF LinkedOnce
<1> QED  BY <1>1, <1>2, <1>3

(* The cleared entry is an entry, without key and without permissions. *)
LEMMA ClearedType ==
  ClearedEntry \in Entry /\ ClearedEntry.key = NoKey
  BY DEF ClearedEntry, Entry, NoDecision, AvDecision

(* avc_reset preserves the invariant, whichever event it serves: every     *)
(* node is back on the freelist and no entry is left to be stale.          *)
LEMMA ResetStep ==
  ASSUME IInv, NEW seqno \in Nat, avc_reset(seqno)
  PROVE  IInv'
<1> USE CacheConstants
<1>1. /\ TypeOK /\ NodeConservation /\ KeyPlacement /\ RefsValid /\ Stopped
      /\ NothingForgivenWhenEnforcing /\ ReclaimFindsANode
  BY DEF IInv
<1>2. /\ UNCHANGED <<avc_running, avc_setenforce, option, allocated, aeref, rc,
                     avc_enforcing, latest_notif>>
      /\ ctl' = [pc |-> "notify", seqno |-> seqno]
  BY DEF avc_reset, EventStep
<1>3. RefsValid' /\ ReclaimFindsANode'
  BY <1>1, <1>2 DEF RefsValid, ReclaimFindsANode
<1>4. CASE avc_running
  <2>1. Flush  BY <1>4 DEF avc_reset
  <2>2. slots' \in [Slots -> Seq(Nodes)] /\ TableNodes(slots') = {} /\ LinkedOnce(slots')
        /\ \A h \in Slots : ChainNodes(slots', h) = {}
    BY <2>1, EmptyTable DEF Flush
  <2>3. Cached' = {}  BY <2>2 DEF Cached
  <2>4. freelist' = allocated /\ active_nodes' = 0
    <3>1. /\ freelist' = freelist \cup Cached
          /\ active_nodes' = active_nodes - Cardinality(Cached)
      BY <2>1 DEF Flush
    <3>2. freelist \cup Cached = allocated /\ active_nodes = Cardinality(Cached)
      BY <1>1, <1>4 DEF NodeConservation
    <3>3. Cardinality(Cached) \in Nat  BY <1>1, CachedFinite
    <3> QED  BY <3>1, <3>2, <3>3
  <2>5. ae' \in [Nodes -> Entry] /\ \A n \in allocated : ae'[n].key = NoKey
    BY <2>1, <1>1, <1>4, ClearedType DEF Flush, TypeOK, NodeConservation, KeyPlacement
  <2>6. lru_hint' \in Slots /\ granted' \in [Nodes -> SUBSET Perms] /\ unflushed' = FALSE
    BY <2>1 DEF Flush, Slots
  <2>7. TypeOK'  BY <1>1, <1>2, <2>2, <2>4, <2>5, <2>6 DEF TypeOK
  <2>8. NodeConservation'
    BY <1>2, <2>2, <2>3, <2>4, FS_EmptySet DEF NodeConservation
  <2>9. KeyPlacement'  BY <1>2, <1>3, <2>2, <2>4, <2>5 DEF KeyPlacement, RefsValid
  <2>10. NothingForgivenWhenEnforcing'  BY <2>3 DEF NothingForgivenWhenEnforcing
  <2>11. Stopped'  BY <1>2, <1>4 DEF Stopped
  <2> QED  BY <1>3, <2>7, <2>8, <2>9, <2>10, <2>11 DEF IInv
<1>5. CASE ~avc_running
  <2>1. UNCHANGED <<freelist, slots, ae, lru_hint, active_nodes, granted, unflushed>>
    BY <1>5 DEF avc_reset
  <2> QED  BY <2>1, <1>1, <1>2, <1>3, <1>5
           DEF IInv, TypeOK, NodeConservation, KeyPlacement, Stopped,
               NothingForgivenWhenEnforcing
<1> QED  BY <1>4, <1>5

(* setenforce and policyload events preserve the invariant. *)
LEMMA NotificationStep ==
  ASSUME IInv, Notification
  PROVE  IInv'
<1> USE CacheConstants
<1>1. TypeOK /\ RefsValid  BY DEF IInv
<1>2. ASSUME NEW b \in BOOLEAN, avc_process_setenforce(b) PROVE IInv'
  <2>1. /\ UNCHANGED <<avc_running, avc_setenforce, option, allocated, aeref, rc, freelist,
                       slots, ae, lru_hint, active_nodes, latest_notif, granted, unflushed>>
        /\ ~avc_setenforce /\ avc_enforcing' = b
        /\ ctl' = IF b THEN [pc |-> "reset", seqno |-> 0] ELSE Idle
    BY <1>2 DEF avc_process_setenforce, EventStep
  <2>2. ~Strict'  BY <2>1 DEF Strict, Idle
  <2>3. RefsValid'  BY <2>1, <1>1 DEF RefsValid
  <2>4. ctl' \in [pc : {"idle", "reset", "notify"}, seqno : Nat]  BY <2>1 DEF Idle
  <2>5. rc' = "ENOMEM" /\ avc_running => allocated = {}
    BY <2>1 DEF IInv, ReclaimFindsANode
  <2> QED  BY <2>1, <2>2, <2>3, <2>4, <2>5, <1>1, EntryStep DEF TypeOK
<1>3. CASE ResetOnEnforcing
  BY <1>1, <1>3, ResetStep DEF ResetOnEnforcing, TypeOK
<1>4. ASSUME NEW s \in Seqnos, ResetOnPolicyload(s) PROVE IInv'
  BY <1>4, ResetStep DEF ResetOnPolicyload
<1>5. CASE Notify
  <2>1. /\ UNCHANGED <<avc_running, avc_setenforce, option, allocated, aeref, rc, freelist,
                       slots, ae, lru_hint, active_nodes, avc_enforcing, granted, unflushed>>
        /\ ctl.pc = "notify" /\ ctl' = Idle /\ latest_notif' \in {ctl.seqno, latest_notif}
    BY <1>5 DEF Notify, EventStep
  <2>2. avc_running /\ Strict' => \A n \in Cached : Clean(ae'[n], granted'[n])
    BY <2>1 DEF IInv, NothingForgivenWhenEnforcing, Strict, Clean
  <2>3. RefsValid'  BY <2>1, <1>1 DEF RefsValid
  <2>4. ctl' \in [pc : {"idle", "reset", "notify"}, seqno : Nat] /\ latest_notif' \in Nat
    BY <2>1, <1>1 DEF Idle, TypeOK
  <2>5. rc' = "ENOMEM" /\ avc_running => allocated = {}
    BY <2>1 DEF IInv, ReclaimFindsANode
  <2> QED  BY <2>1, <2>2, <2>3, <2>4, <2>5, <1>1, EntryStep DEF TypeOK
<1> QED  BY <1>2, <1>3, <1>4, <1>5 DEF Notification

(* How avc_control changes what the security server grants. *)
Regrant(event, g, perms) ==
  IF event = "GRANT" THEN g \cup perms
  ELSE IF event \in {"TRY_REVOKE", "REVOKE"} THEN g \ perms
  ELSE g

(* What avc_update_node does to a decision and to what the security server *)
(* grants leaves a clean entry clean.                                      *)
LEMMA ApplyClean ==
  ASSUME NEW event \in Events, NEW x \in AvDecision, NEW perms \in SUBSET Perms, NEW g
  PROVE  /\ Apply(event, x, perms) \in AvDecision
         /\ Apply(event, x, perms).permissive = x.permissive
         /\ x.allowed \subseteq g =>
              Apply(event, x, perms).allowed \subseteq Regrant(event, g, perms)
<1>1. CASE event = "GRANT"  BY <1>1 DEF Apply, AvDecision, Regrant
<1>2. CASE event \in {"TRY_REVOKE", "REVOKE"}  BY <1>2 DEF Apply, AvDecision, Regrant
<1>3. CASE event \in {"AUDITALLOW_ENABLE", "AUDITALLOW_DISABLE", "AUDITDENY_ENABLE",
                      "AUDITDENY_DISABLE"}
  BY <1>3 DEF Apply, AvDecision, Regrant
<1> QED  BY <1>1, <1>2, <1>3 DEF Events

(* avc_control preserves the invariant. *)
LEMMA ControlStep ==
  ASSUME IInv, Control
  PROVE  IInv'
<1> USE CacheConstants
<1>1. PICK event \in Events, m \in Targets, perms \in SUBSET Perms, s \in Seqnos :
        \E retained \in SUBSET perms : avc_control(event, m, perms, retained, s)
  BY DEF Control
<1>2. PICK retained \in SUBSET perms : avc_control(event, m, perms, retained, s)
  BY <1>1
<1> DEFINE w == IF event = "TRY_REVOKE" THEN perms \ retained ELSE perms
           U(n) == [ae[n] EXCEPT !.avd = Apply(event, @, w), !.used = @ \/ ~Wildcard(m)]
<1>3. w \in SUBSET Perms  OBVIOUS
<1>4. /\ UNCHANGED <<avc_running, avc_setenforce, option, allocated, aeref, rc, freelist,
                     slots, lru_hint, active_nodes, avc_enforcing, latest_notif, unflushed>>
      /\ ctl = Idle /\ ctl' = [pc |-> "notify", seqno |-> s] /\ avc_running
      /\ avc_update_cache(event, m, w)
  BY <1>2 DEF avc_control, EventStep
<1> HIDE DEF w
<1>5. TypeOK  BY DEF IInv
<1>6. /\ ae' = [n \in Nodes |-> IF n \in Updated(m) THEN U(n) ELSE ae[n]]
      /\ granted' = [n \in Nodes |-> IF n \in Updated(m) THEN Regrant(event, granted[n], w)
                                     ELSE granted[n]]
  BY <1>4 DEF avc_update_cache, Regrant
<1>7. \A n \in Nodes : /\ U(n) \in Entry /\ U(n).key = ae[n].key
                       /\ Clean(ae[n], granted[n]) => Clean(U(n), Regrant(event, granted[n], w))
  <2> TAKE n \in Nodes
  <2>1. ae[n] \in Entry /\ ae[n].avd \in AvDecision  BY <1>5 DEF TypeOK, Entry
  <2> DEFINE a == Apply(event, ae[n].avd, w)
  <2>2. /\ a \in AvDecision /\ a.permissive = ae[n].avd.permissive
        /\ ae[n].avd.allowed \subseteq granted[n] =>
             a.allowed \subseteq Regrant(event, granted[n], w)
    BY <2>1, <1>3, ApplyClean
  <2>3. U(n) \in Entry /\ U(n).key = ae[n].key /\ U(n).avd = a
    <3>1. a \in AvDecision  BY <2>2
    <3> HIDE DEF a
    <3>2. (ae[n].used \/ ~Wildcard(m)) \in BOOLEAN  BY <2>1 DEF Entry
    <3> QED  BY <2>1, <3>1, <3>2 DEF Entry, a
  <2> QED  BY <2>2, <2>3 DEF Clean
<1> HIDE DEF U
<1>8. \A n \in Nodes : Regrant(event, granted[n], w) \in SUBSET Perms
  BY <1>3, <1>5 DEF Regrant, TypeOK
<1>9. ae' \in [Nodes -> Entry] /\ granted' \in [Nodes -> SUBSET Perms]
  BY <1>5, <1>6, <1>7, <1>8 DEF TypeOK
<1>10. \A n \in Nodes : ae'[n].key = ae[n].key  BY <1>6, <1>7
<1>11. avc_running /\ Strict' => \A n \in Cached : Clean(ae'[n], granted'[n])
  <2> SUFFICES ASSUME Strict', NEW n \in Cached PROVE Clean(ae'[n], granted'[n])
    OBVIOUS
  <2>1. n \in Nodes  BY <1>5, CachedFinite
  <2>2. Clean(ae[n], granted[n])
    BY <1>4 DEF IInv, NothingForgivenWhenEnforcing, Clean, Strict, Idle
  <2> QED  BY <2>1, <2>2, <1>6, <1>7
<1>12. RefsValid'  BY <1>4 DEF IInv, RefsValid
<1>13. rc' = "ENOMEM" /\ avc_running => allocated = {}
  BY <1>4 DEF IInv, ReclaimFindsANode
<1>14. ctl' \in [pc : {"idle", "reset", "notify"}, seqno : Nat]  BY <1>4
<1> QED  BY <1>4, <1>5, <1>9, <1>10, <1>11, <1>12, <1>13, <1>14, EntryStep DEF TypeOK

(* avc_open takes its option and keeps the types of what it sets. *)
LEMMA OptionType ==
  ASSUME TypeOK, NEW opt \in Options, SetOption(opt)
  PROVE  avc_setenforce' \in BOOLEAN /\ option' \in {"enforcing", "permissive", "none"}
<1>1. CASE opt = "avc_init"  BY <1>1 DEF SetOption, TypeOK
<1>2. CASE opt \in {"enforcing", "permissive", "none"}
  <2>1. opt # "avc_init" /\ option' = opt  BY <1>2 DEF SetOption
  <2>2. avc_setenforce' = (opt \in {"enforcing", "permissive"})
    BY <2>1, Zenon DEF SetOption, Forces
  <2>3. avc_setenforce' \in BOOLEAN
    <3>1. CASE opt \in {"enforcing", "permissive"}  BY <3>1, <2>2, SMT
    <3>2. CASE opt \notin {"enforcing", "permissive"}  BY <3>2, <2>2, SMT
    <3> QED  BY <3>1, <3>2
  <2> QED  BY <2>1, <2>3, <1>2
<1> QED  BY <1>1, <1>2 DEF Options

(* Opening, reopening and destroying the AVC preserve the invariant: even  *)
(* a failed avc_open leaves nodes that a later one can use.                *)
LEMMA LifecycleStep ==
  ASSUME IInv, Lifecycle
  PROVE  IInv'
<1> USE CacheConstants
<1>1. TypeOK /\ RefsValid /\ Stopped  BY DEF IInv
<1>2. ASSUME NEW opt \in Options, NEW S \in SUBSET Nodes, NEW kernel \in BOOLEAN,
             NEW ok \in BOOLEAN, avc_open(opt, S, kernel, ok)
      PROVE  IInv'
  <2>1. /\ ~avc_running /\ ctl = Idle /\ SetOption(opt)
        /\ avc_init_internal(S, ok)
        /\ avc_enforcing' = IF ~avc_setenforce' THEN kernel
                            ELSE IF Forces(opt) THEN opt = "enforcing" ELSE avc_enforcing
    BY <1>2 DEF avc_open
  <2>2. avc_setenforce' \in BOOLEAN /\ option' \in {"enforcing", "permissive", "none"}
    BY <2>1, <1>1, OptionType
  <2>3. avc_enforcing' \in BOOLEAN  BY <2>1, <1>1 DEF TypeOK
  <2>5. /\ slots' \in [Slots -> Seq(Nodes)] /\ TableNodes(slots') = {} /\ LinkedOnce(slots')
        /\ \A h \in Slots : ChainNodes(slots', h) = {}
    BY <2>1, EmptyTable DEF avc_init_internal
  <2>6. /\ lru_hint' = 0 /\ active_nodes' = 0 /\ latest_notif' = 0 /\ rc' = "0"
        /\ allocated' = allocated \cup S /\ freelist' = freelist \cup S
        /\ ae' = [n \in Nodes |-> IF n \in S THEN ClearedEntry ELSE ae[n]]
        /\ avc_running' = ok /\ unflushed' = FALSE
        /\ UNCHANGED <<aeref, ctl, granted>>
    BY <2>1 DEF avc_init_internal
  <2>7. freelist' = allocated' /\ allocated' \subseteq Nodes
    BY <2>1, <2>6, <1>1 DEF Stopped, TypeOK
  <2>8. ae' \in [Nodes -> Entry] /\ \A n \in freelist' : ae'[n].key = NoKey
    BY <2>1, <2>6, <1>1, ClearedType DEF TypeOK, Stopped
  <2>9. Cached' = {}  BY <2>5 DEF Cached
  <2>10. RefsValid'  BY <2>6, <1>1 DEF RefsValid
  <2>11. TypeOK'
    <3>1. lru_hint' \in Slots  BY <2>6 DEF Slots
    <3>2. freelist' \in SUBSET Nodes /\ allocated' \in SUBSET Nodes  BY <2>7
    <3> QED  BY <3>1, <3>2, <2>2, <2>3, <2>5, <2>6, <2>8, <1>1 DEF TypeOK
  <2>12. NodeConservation'
    BY <2>5, <2>6, <2>7, <2>9, FS_EmptySet DEF NodeConservation
  <2>13. KeyPlacement'  BY <2>5, <2>8, <2>10 DEF KeyPlacement, RefsValid
  <2>14. NothingForgivenWhenEnforcing' /\ ReclaimFindsANode' /\ Stopped'
    BY <2>6, <2>7, <2>8, <2>9 DEF NothingForgivenWhenEnforcing, ReclaimFindsANode, Stopped
  <2> QED  BY <2>10, <2>11, <2>12, <2>13, <2>14 DEF IInv
<1>3. CASE avc_init_once
  <2>1. /\ UNCHANGED <<avc_running, avc_enforcing, option, unflushed, allocated, freelist,
                       slots, ae, lru_hint, active_nodes, latest_notif, aeref, ctl, rc,
                       granted>>
        /\ avc_setenforce' = FALSE
    BY <1>3 DEF avc_init_once
  <2>2. RefsValid'  BY <2>1, <1>1 DEF RefsValid
  <2>3. avc_running /\ Strict' => \A n \in Cached : Clean(ae'[n], granted'[n])
    BY <2>1 DEF IInv, NothingForgivenWhenEnforcing, Strict, Clean
  <2>4. rc' = "ENOMEM" /\ avc_running => allocated = {}
    BY <2>1 DEF IInv, ReclaimFindsANode
  <2> QED  BY <2>1, <2>2, <2>3, <2>4, <1>1, EntryStep DEF TypeOK
<1>4. CASE avc_destroy
  <2>1. /\ allocated' = {} /\ freelist' = {} /\ aeref' = [r \in Refs |-> NoNode]
        /\ ae' = [n \in Nodes |-> ClearedEntry] /\ granted' = [n \in Nodes |-> {}]
        /\ avc_running' = FALSE /\ rc' = "0" /\ unflushed' = FALSE
        /\ UNCHANGED <<avc_enforcing, avc_setenforce, option, slots, lru_hint,
                       active_nodes, latest_notif, ctl>>
    BY <1>4 DEF avc_destroy
  <2>2. TypeOK'  BY <2>1, <1>1, ClearedType DEF TypeOK
  <2>3. RefsValid' /\ Stopped'  BY <2>1, <1>1 DEF RefsValid, Stopped
  <2> QED  BY <2>1, <2>2, <2>3
           DEF IInv, NodeConservation, KeyPlacement, NothingForgivenWhenEnforcing,
               ReclaimFindsANode
<1>5. ASSUME NEW opt \in Options, avc_open_running(opt) PROVE IInv'
  <2>1. /\ UNCHANGED <<avc_running, allocated, freelist, slots, ae, lru_hint,
                       active_nodes, latest_notif, aeref, ctl, rc, granted>>
        /\ SetOption(opt)
        /\ avc_enforcing' = IF Forces(opt) THEN opt = "enforcing" ELSE avc_enforcing
        /\ unflushed' = (unflushed \/ (opt = "enforcing" /\ ~avc_enforcing))
    BY <1>5 DEF avc_open_running
  <2>2. avc_setenforce' \in BOOLEAN /\ option' \in {"enforcing", "permissive", "none"}
    BY <2>1, <1>1, OptionType
  <2>3. avc_enforcing' \in BOOLEAN /\ unflushed' \in BOOLEAN
    BY <2>1, <1>1 DEF TypeOK
  <2>4. Strict' => Strict
    <3>1. CASE opt = "enforcing"  BY <3>1, <2>1, <1>1 DEF Strict, TypeOK
    <3>2. CASE opt # "enforcing"  BY <3>2, <2>1, <1>1 DEF Strict, TypeOK, Forces
    <3> QED  BY <3>1, <3>2
  <2>5. avc_running /\ Strict' => \A n \in Cached : Clean(ae'[n], granted'[n])
    BY <2>1, <2>4 DEF IInv, NothingForgivenWhenEnforcing, Strict, Clean
  <2>6. RefsValid'  BY <2>1, <1>1 DEF RefsValid
  <2>7. rc' = "ENOMEM" /\ avc_running => allocated = {}
    BY <2>1 DEF IInv, ReclaimFindsANode
  <2> QED  BY <2>1, <2>2, <2>3, <2>5, <2>6, <2>7, <1>1, EntryStep DEF TypeOK
<1> QED  BY <1>2, <1>3, <1>4, <1>5 DEF Lifecycle

(* Every step, of a query thread, of the event thread or of the            *)
(* application's start and stop, preserves the inductive invariant.        *)
LEMMA NextInv == IInv /\ [Next]_vars => IInv'
<1> SUFFICES ASSUME IInv, [Next]_vars PROVE IInv'  OBVIOUS
<1>1. CASE HasPerm  BY <1>1, HasPermStep
<1>2. CASE ComputeCreate  BY <1>2, ComputeCreateStep
<1>3. CASE Notification  BY <1>3, NotificationStep
<1>4. CASE Control  BY <1>4, ControlStep
<1>5. CASE Lifecycle  BY <1>5, LifecycleStep
<1>6. CASE UNCHANGED vars
  <2>1. /\ UNCHANGED <<avc_running, avc_enforcing, avc_setenforce, option, allocated>>
        /\ unflushed' = unflushed
        /\ UNCHANGED <<freelist, slots, ae, lru_hint, active_nodes, latest_notif>>
        /\ UNCHANGED <<aeref, ctl, rc, granted>>
    BY <1>6 DEF vars
  <2>2. TypeOK /\ RefsValid  BY DEF IInv
  <2>3. RefsValid'  BY <2>1, <2>2 DEF RefsValid
  <2>4. avc_running /\ Strict' => \A n \in Cached : Clean(ae'[n], granted'[n])
    BY <2>1 DEF IInv, NothingForgivenWhenEnforcing, Strict, Clean
  <2>5. rc' = "ENOMEM" /\ avc_running => allocated = {}
    BY <2>1 DEF IInv, ReclaimFindsANode
  <2> QED  BY <2>1, <2>2, <2>3, <2>4, <2>5, EntryStep DEF TypeOK
<1> QED  BY <1>1, <1>2, <1>3, <1>4, <1>5, <1>6 DEF Next
-----------------------------------------------------------------------------
(* The inductive invariant holds in every state of every behaviour. *)
THEOREM CacheInvariant == Spec => []IInv
  BY InitInv, NextInv, PTL DEF Spec

(* The state of avc.c keeps its types. *)
THEOREM CacheTypes == Spec => []TypeOK
<1>1. IInv => TypeOK  BY DEF IInv
<1> QED  BY <1>1, CacheInvariant, PTL

(* No interleaving of queries, flushes and restarts loses a node or links  *)
(* one twice, and active_nodes stays exact.                                *)
THEOREM NodesConserved == Spec => []NodeConservation
<1>1. IInv => NodeConservation  BY DEF IInv
<1> QED  BY <1>1, CacheInvariant, PTL

(* Every entry is on the chain of its key, and a reference kept by the     *)
(* application never leads to an entry of the freelist that has a key.     *)
THEOREM KeysPlaced == Spec => []KeyPlacement
<1>1. IInv => KeyPlacement  BY DEF IInv
<1> QED  BY <1>1, CacheInvariant, PTL

(* Nothing forgiven in permissive mode survives a setenforce event to       *)
(* enforcing mode, however queries, the event thread and further calls of   *)
(* avc_open interleave; only avc_open(AVC_OPT_SETENFORCE) on a running      *)
(* permissive AVC suspends this, until the next flush.                      *)
THEOREM NothingStaysForgiven == Spec => []NothingForgivenWhenEnforcing
<1>1. IInv => NothingForgivenWhenEnforcing  BY DEF IInv
<1> QED  BY <1>1, CacheInvariant, PTL

(* The reclaim scan always finds a victim, for any number of slots, any    *)
(* hash function and wherever lru_hint points.                             *)
THEOREM ReclaimSucceeds == Spec => []ReclaimFindsANode
<1>1. IInv => ReclaimFindsANode  BY DEF IInv
<1> QED  BY <1>1, CacheInvariant, PTL
=============================================================================
