-------------------------------- MODULE MitProofs --------------------------------
(***************************************************************************)
(* Proofs about the memory encryption and integrity tree, for every depth   *)
(* of the tree, every width of the counters and any number of requests,     *)
(* pulses and false reads: a read that is answered OK returns the last word *)
(* written, no keystream is used twice, and a storage that tells the truth  *)
(* is never taken for a false one.                                          *)
(*                                                                          *)
(* What the root says of the counters is put in terms of paths: a sequence  *)
(* of nodes that leads from a leaf to the root (Bound).                     *)
(***************************************************************************)
EXTENDS MemoryIntegrityTree, FiniteSetTheorems, WellFoundedInduction, TLAPS

-----------------------------------------------------------------------------
(* Powers of two and the indices of a path.                                  *)

LEMMA PowerIsCardinality ==
    ASSUME NEW n \in Nat
    PROVE  /\ IsFiniteSet(SUBSET (1 .. n)) /\ 2 ^ n = Cardinality(SUBSET (1 .. n))
           /\ 2 ^ n \in Nat
<1>1. IsFiniteSet(1 .. n) /\ Cardinality(1 .. n) = n
  BY FS_Interval
<1>2. IsFiniteSet(SUBSET (1 .. n)) /\ Cardinality(SUBSET (1 .. n)) = 2 ^ Cardinality(1 .. n)
  BY <1>1, FS_SUBSET
<1>3. QED
  BY <1>1, <1>2, FS_CardinalityType

LEMMA PowerDoubles ==
    ASSUME NEW n \in Nat
    PROVE  2 ^ (n + 1) = 2 * 2 ^ n
<1> DEFINE S == SUBSET (1 .. n)
           T == {x \cup {n + 1} : x \in S}
           f == [x \in S |-> x \cup {n + 1}]
<1>1. SUBSET (1 .. (n + 1)) = S \cup T
  <2>1. ASSUME NEW x, x \subseteq 1 .. (n + 1) PROVE x \in S \cup T
    <3>1. CASE n + 1 \in x
      <4>1. x \ {n + 1} \subseteq 1 .. n
        BY <2>1
      <4>2. x = (x \ {n + 1}) \cup {n + 1}
        BY <3>1
      <4>3. x \ {n + 1} \in S
        BY <4>1
      <4>4. QED
        BY <4>2, <4>3
    <3>2. CASE n + 1 \notin x
      BY <2>1, <3>2
    <3>3. QED
      BY <3>1, <3>2
  <2>2. ASSUME NEW x \in S \cup T PROVE x \subseteq 1 .. (n + 1)
    BY <2>2
  <2>3. QED
    BY <2>1, <2>2
<1>2. S \cap T = {}
  <2>1. \A x \in S : n + 1 \notin x
    OBVIOUS
  <2>2. \A x \in T : n + 1 \in x
    OBVIOUS
  <2>3. QED
    BY <2>1, <2>2
<1>3. f \in Bijection(S, T)
  <2>1. f \in [S -> T]
    OBVIOUS
  <2>2. ASSUME NEW x \in S, NEW y \in S, f[x] = f[y] PROVE x = y
    <3>1. x = f[x] \ {n + 1} /\ y = f[y] \ {n + 1}
      OBVIOUS
    <3>2. QED
      BY <2>2, <3>1
  <2>3. \A t \in T : \E x \in S : f[x] = t
    OBVIOUS
  <2> HIDE DEF f, S, T
  <2>4. f \in Injection(S, T)
    BY <2>1, <2>2 DEF Injection, IsInjective
  <2>5. f \in Surjection(S, T)
    BY <2>1, <2>3 DEF Surjection
  <2>6. QED
    BY <2>4, <2>5 DEF Bijection
<1>4. IsFiniteSet(S) /\ Cardinality(S) = 2 ^ n /\ 2 ^ n \in Nat
  BY PowerIsCardinality
<1>5. IsFiniteSet(SUBSET (1 .. (n + 1))) /\ Cardinality(SUBSET (1 .. (n + 1))) = 2 ^ (n + 1)
  BY PowerIsCardinality
<1> HIDE DEF S, T, f
<1>6. IsFiniteSet(T) /\ Cardinality(T) = Cardinality(S)
  BY <1>3, <1>4, FS_Bijection DEF ExistsBijection
<1>7. Cardinality(S \cup T) = Cardinality(S) + Cardinality(T) - Cardinality(S \cap T)
  BY <1>4, <1>6, FS_Union
<1>8. Cardinality(S \cap T) = 0
  BY <1>2, FS_EmptySet
<1>9. Cardinality(S \cup T) = 2 ^ (n + 1)
  BY <1>1, <1>5
<1>10. PICK c \in Nat : c = Cardinality(S)
  BY <1>4
<1>11. PICK d : d = Cardinality(S \cup T)
  OBVIOUS
<1>12. d = c + c
  BY <1>6, <1>7, <1>8, <1>10, <1>11
<1>13. 2 ^ n = c /\ 2 ^ (n + 1) = d
  BY <1>4, <1>9, <1>10, <1>11
<1>14. QED
  BY <1>10, <1>12, <1>13

-----------------------------------------------------------------------------
(* The inductive invariant.                                                  *)

In(S) == state_q \in S
Young == {"S_K1T", "S_K1M", "S_BUILD", "S_BUILD_W"}
Building == {"S_BUILD", "S_BUILD_W"}
Pathing == {"S_PATH", "S_PATH_W"}
MacStates == {"S_DMAC", "S_DMAC_W"}
Live == Pathing \cup MacStates \cup {"S_IDLE", "S_COMMIT", "S_RESP"}

\* The first and the second pass over the path.
Pass1 == In(Pathing) /\ ~pass2_q
Pass2 == In(Pathing) /\ pass2_q

\* A write whose path was verified.
Writing == (In(MacStates) /\ op.write) \/ Pass2 \/ state_q = "S_COMMIT"

Idx(b, l) == b \div 2 ^ l
Width(l) == 2 ^ (D - l)

TreeKey == <<tree_key, k1_tree_q>>
MacKey == <<mac_key, k1_mac_q>>
Keystream(b, c) == Aes!Encrypt(enc_key, ks_block(b, c))

\* The node over h, whose index is i, and its sibling s.
Join(k, i, h, s) == IF i % 2 = 1 THEN <<k, <<s, h>>>> ELSE <<k, <<h, s>>>>

OpFields == {"write", "blk", "wdata", "ct", "mac", "ctr", "old_ctr"}
Ctrs == 0 .. CtrMax

Levels ==
    /\ In(Building) => lvl_q \in 1 .. D /\ bj_q \in 0 .. Width(lvl_q) - 1
    /\ In(Pathing) => lvl_q \in 0 .. D - 1
    /\ In(MacStates) => lvl_q = 0 /\ ~pass2_q
    /\ state_q = "S_COMMIT" => lvl_q \in 1 .. D - 1

Shape ==
    /\ state_q \in MitStates
    /\ DOMAIN op = OpFields /\ op.write \in BOOLEAN /\ op.blk \in Blocks
    /\ op.ctr \in Ctrs /\ op.old_ctr \in Ctrs
    /\ pass2_q \in BOOLEAN
    /\ sib_q = [l \in 0 .. D - 1 |-> sib_q[l]]
    /\ newnode_q = [l \in 0 .. D - 1 |-> newnode_q[l]]
    /\ Levels
    /\ reused \in BOOLEAN /\ lies \in Nat
    /\ state_q # "S_EMPTY" => key_q \in loaded

StoreShape ==
    /\ data = [b \in Blocks |-> data[b]]
    /\ \A b \in Blocks : DOMAIN data[b] = {"ct", "mac", "ctr"} /\ data[b].ctr \in Ctrs
    /\ node = [a \in NodeAddrs |-> node[a]]
    /\ \A b \in Blocks : data[b].ct \in seen.ct /\ data[b].mac \in seen.mac
    /\ \A a \in NodeAddrs : node[a] \in seen.node
    /\ Zero \in seen.ct /\ Zero \in seen.mac /\ Zero \in seen.node

\* The CMAC unit.
UnitOK ==
    /\ DOMAIN cmac = {"left", "live", "done", "tag"}
    /\ cmac.left \in Nat /\ cmac.done \in BOOLEAN /\ cmac.live \in BOOLEAN
    /\ cmac.done => cmac.left = 0

\* The counter whose keystream a request needs.
Needed == IF op.write THEN bump(op.old_ctr) ELSE op.old_ctr

\* The keystream of the request is in the core, on its output, or in its register.
Coming ==
    \/ /\ aes_busy /\ ~ks_valid_q /\ aes_work = <<enc_key, ks_block(op.blk, Needed)>>
       /\ Pass1 /\ lvl_q = 0
       /\ state_q = "S_PATH_W" => aes_round + cmac.left >= CmacCycles + 2
    \/ ~aes_busy /\ aes_done /\ ~ks_valid_q /\ aes_out = Keystream(op.blk, Needed)
    \/ ~aes_busy /\ ks_valid_q /\ ks_q = Keystream(op.blk, Needed) /\ ~aes_done

CoreBasic ==
    /\ aes_busy \in BOOLEAN /\ aes_done \in BOOLEAN /\ ks_valid_q \in BOOLEAN
    /\ aes_done => ~aes_busy
    /\ aes_busy => aes_round \in 1 .. Rounds

\* The AES core has ended long before the next request starts it.
CoreOK ==
    /\ CoreBasic
    /\ In(Building \cup Live) /\ ~Pass1 => ~aes_busy
    /\ Pass1 \/ In(MacStates) => Coming
    /\ state_q = "S_DMAC_W" => ks_valid_q

\* The counter a request is at.
CounterOK ==
    /\ Pass1 => op.ctr = op.old_ctr
    /\ Pass2 \/ state_q = "S_COMMIT" => op.write
    /\ In(MacStates) /\ ~op.write => op.ctr = op.old_ctr /\ op.ctr # 0
    /\ Writing =>
          op.old_ctr < CtrMax /\ op.ctr = op.old_ctr + 1

\* What the CMAC unit is at, and the MAC it will be compared with: one that was stored.
TagOK ==
    /\ Pass1 \/ In(MacStates) => op.mac \in seen.mac \cup {Junk}
    /\ state_q = "S_PATH_W" => cmac.tag = Join(TreeKey, Idx(op.blk, lvl_q), h_q, sib_q[lvl_q])
    /\ state_q = "S_DMAC_W" =>
          cmac.tag = <<MacKey, dmac_msg(IF op.write THEN new_ct_q ELSE op.ct, op.blk, op.ctr)>>
    /\ state_q = "S_BUILD_W" =>
          \E x, y : /\ cmac.tag = <<TreeKey, <<x, y>>>>
                    /\ IF lvl_q = 1 THEN x = leaf(2 * bj_q, 0) /\ y = leaf(2 * bj_q + 1, 0)
                       ELSE x \in seen.node \cup {Junk} /\ y \in seen.node \cup {Junk}

\* The block a write will store, and the nodes of its path.
NewBlock == [ct |-> new_ct_q, mac |-> new_mac_q, ctr |-> op.ctr]
NewNode(m) == IF m = 0 THEN leaf(op.blk, op.ctr) ELSE newnode_q[m - 1]

Prepared ==
    /\ Writing /\ state_q # "S_DMAC" =>
          new_ct_q = encrypt(op.wdata, Keystream(op.blk, op.ctr))
    /\ Pass2 \/ state_q = "S_COMMIT" =>
          new_mac_q = <<MacKey, dmac_msg(new_ct_q, op.blk, op.ctr)>>
    /\ Pass2 => /\ h_q = NewNode(lvl_q)
                /\ \A m \in 0 .. lvl_q - 1 :
                      NewNode(m + 1) = Join(TreeKey, Idx(op.blk, m), NewNode(m), sib_q[m])
    /\ state_q = "S_COMMIT" =>
          \A m \in 0 .. D - 1 :
             NewNode(m + 1) = Join(TreeKey, Idx(op.blk, m), NewNode(m), sib_q[m])
    /\ state_q = "S_COMMIT" => root_q = NewNode(D)
    /\ state_q = "S_COMMIT" /\ lvl_q > 1 => data[op.blk] = NewBlock

\* The words in the storage.
Word(b) == IF state_q = "S_COMMIT" /\ b = op.blk /\ data[b] = NewBlock THEN op.wdata ELSE truth[b]

DataOK ==
    /\ truth = [b \in Blocks |-> truth[b]]
    /\ In(Young) => \A b \in Blocks : data[b] = EmptyBlock /\ truth[b] = ZeroWord
    /\ In(Live) =>
          \A b \in Blocks :
             /\ data[b].ctr = 0 => Word(b) = ZeroWord
             /\ data[b].ctr # 0 => /\ data[b].ct = encrypt(Word(b), Keystream(b, data[b].ctr))
                                   /\ data[b].mac = <<MacKey, dmac_msg(data[b].ct, b, data[b].ctr)>>

\* A path from the leaf of block b with counter c over the siblings s, n levels up.
Rises(k, b, c, p, s, n) ==
    /\ p[0] = leaf(b, c)
    /\ \A m \in 0 .. n - 1 : p[m + 1] = Join(k, Idx(b, m), p[m], s[m])

\* The path that was verified, or the part of it that is done.
PathOK ==
    /\ Pass1 => \E p : Rises(TreeKey, op.blk, op.old_ctr, p, sib_q, lvl_q) /\ p[lvl_q] = h_q
    /\ Writing /\ state_q # "S_COMMIT" =>
          \E p : Rises(TreeKey, op.blk, op.old_ctr, p, sib_q, D) /\ p[D] = root_q

\* What was stored, ever.
Known ==
    /\ \A t \in seen.ct : t = Zero \/ \E k \in loaded : \E w, b, c :
          t = encrypt(w, Aes!Encrypt(<<"enc", k>>, ks_block(b, c)))
    /\ \A t \in seen.mac : t = Zero \/ \E k \in loaded : \E x, k1 : t = <<<<<<"mac", k>>, k1>>, x>>
    /\ \A t \in seen.node : t = Zero \/ \E k \in loaded : \E x, k1 : t = <<<<<<"tree", k>>, k1>>, x>>

\* Nothing was made with the keys yet.
NewKeys ==
    /\ \A t \in seen.ct : \A w, b, c : t # encrypt(w, Keystream(b, c))
    /\ \A t \in seen.mac : \A x, k1 : t # <<<<mac_key, k1>>, x>>

\* Every path to a node of the fresh tree, in either order and of any length, is from a
\* leaf with counter 0.
FreshNode(t) ==
    \A n \in Nat \ {0} : \A b, c, p, s :
        /\ p[0] = leaf(b, c) /\ p[n] = t
        /\ \A m \in 0 .. n - 1 : p[m + 1] \in {<<TreeKey, <<p[m], s[m]>>>>, <<TreeKey, <<s[m], p[m]>>>>}
        => c = 0

\* The counter the root stands for: it moves before the storage does.
Counter(b) == IF state_q = "S_COMMIT" /\ b = op.blk THEN op.ctr ELSE data[b].ctr

\* Every path to the root is from a leaf with the counter of its block.
Bound ==
    \A b \in Blocks : \A c, p, s :
        Rises(TreeKey, b, c, p, s, D) /\ p[D] = root_q => c = Counter(b)

\* Of every counter value of a block there is one ciphertext, and the block's own
\* counter is the last one.
Latest ==
    \A b \in Blocks : \A c :
        /\ \A m \in seen.mac : \A t : m = <<MacKey, dmac_msg(t, b, c)>> =>
              c \in 0 .. data[b].ctr /\ (c = data[b].ctr => t = data[b].ct)
        /\ \A t \in seen.ct : \A w : t = encrypt(w, Keystream(b, c)) =>
              c \in 0 .. data[b].ctr /\ (c = data[b].ctr => t = data[b].ct)

\* With keys used for one init only.
Fresh ==
    /\ KeystreamOnce
    /\ In(Young) => NewKeys
    /\ In({"S_K1T", "S_K1M"}) => \A t \in seen.node : \A x, k1 : t # <<<<tree_key, k1>>, x>>
    /\ In(Building) => \A t \in seen.node : FreshNode(t)
    /\ In(Live) => Bound /\ Latest
    /\ In(MacStates) \/ Pass2 => op.old_ctr = data[op.blk].ctr
    /\ state_q = "S_COMMIT" => data[op.blk].ctr = op.old_ctr \/ data[op.blk] = NewBlock
    /\ state_q = "S_RESP" /\ ~op.write /\ rsp_q.status = "OK" => rsp_q.rdata = truth[op.blk]

\* The tree in the storage.
Stored(l, i) == IF l = 0 THEN leaf(i, data[i].ctr) ELSE node[<<l, i>>]
Sound(l, i) == node[<<l, i>>] = <<TreeKey, <<Stored(l - 1, 2 * i), Stored(l - 1, 2 * i + 1)>>>>

\* As long as the storage told the truth.
Honesty ==
    /\ ~tamper_q
    /\ In(Building) =>
          /\ \A l \in 1 .. lvl_q - 1 : \A i \in 0 .. Width(l) - 1 : Sound(l, i)
          /\ lvl_q < D => \A i \in 0 .. bj_q - 1 : Sound(lvl_q, i)
    /\ state_q = "S_BUILD_W" =>
          cmac.tag = <<TreeKey, <<Stored(lvl_q - 1, 2 * bj_q), Stored(lvl_q - 1, 2 * bj_q + 1)>>>>
    /\ In(Live \ {"S_COMMIT"}) =>
          /\ \A l \in 1 .. D - 1 : \A i \in 0 .. Width(l) - 1 : Sound(l, i)
          /\ root_q = <<TreeKey, <<Stored(D - 1, 0), Stored(D - 1, 1)>>>>
    /\ Pass1 => /\ h_q = Stored(lvl_q, Idx(op.blk, lvl_q))
                /\ op.old_ctr = data[op.blk].ctr
                /\ \A m \in 0 .. lvl_q - 1 : sib_q[m] = Stored(m, sibling(Idx(op.blk, m)))
    /\ state_q = "S_PATH_W" => sib_q[lvl_q] = Stored(lvl_q, sibling(Idx(op.blk, lvl_q)))
    /\ (Pass1 \/ In(MacStates)) /\ ~op.write =>
          op.ct = data[op.blk].ct /\ op.mac = data[op.blk].mac /\ op.ctr = data[op.blk].ctr
    /\ Writing =>
          \A m \in 0 .. D - 1 : sib_q[m] = Stored(m, sibling(Idx(op.blk, m)))
    /\ state_q = "S_COMMIT" =>
          /\ \A l \in 1 .. D - 1 : \A i \in 0 .. Width(l) - 1 :
                i # Idx(op.blk, l) => Sound(l, i)
          /\ \A m \in 1 .. lvl_q - 1 : Stored(m, Idx(op.blk, m)) = NewNode(m)

IInv ==
    /\ Shape /\ StoreShape /\ UnitOK /\ CoreOK /\ CounterOK /\ TagOK /\ Prepared /\ DataOK
    /\ PathOK /\ Known
    /\ ~reused => Fresh
    /\ lies = 0 => Honesty

-----------------------------------------------------------------------------
(* The indices of a path.                                                    *)

LEMMA PowerPositive ==
    ASSUME NEW n \in Nat
    PROVE  2 ^ n \in Nat \ {0}
<1>1. IsFiniteSet(SUBSET (1 .. n)) /\ 2 ^ n = Cardinality(SUBSET (1 .. n)) /\ 2 ^ n \in Nat
  BY PowerIsCardinality
<1>2. SUBSET (1 .. n) # {}
  OBVIOUS
<1>3. Cardinality(SUBSET (1 .. n)) # 0
  BY <1>1, <1>2, FS_EmptySet
<1>4. QED
  BY <1>1, <1>3

\* A set of natural numbers has a least one.
LEMMA LeastOf ==
    ASSUME NEW S \in SUBSET Nat, S # {}
    PROVE  \E x \in S : \A y \in S : x <= y
<1>1. \E x \in S : \A y \in S : ~(<<y, x>> \in OpToRel(<, Nat))
  BY WFMin, NatLessThanWellFounded, Zenon
<1>2. PICK x \in S : \A y \in S : ~(<<y, x>> \in OpToRel(<, Nat))
  BY <1>1
<1>3. \A y \in S : ~(y < x)
  BY <1>2 DEF OpToRel
<1>4. QED
  BY <1>3

LEMMA DivideTwice ==
    ASSUME NEW a \in Nat, NEW c \in Nat \ {0}
    PROVE  a \div (2 * c) = (a \div c) \div 2
<1>1. PICK q \in Nat : q = a \div c
  OBVIOUS
<1>2. PICK r \in 0 .. c - 1 : a = q * c + r
  BY <1>1
<1>3. PICK h \in Nat, e \in 0 .. 1 : q = 2 * h + e /\ h = q \div 2
  OBVIOUS
<1>4. PICK d \in Nat \ {0} : d = 2 * c
  OBVIOUS
<1>5. q * c = h * d + e * c
  BY <1>3, <1>4
<1>6. PICK x \in Nat : x = e * c + r /\ x < d
  <2>1. e * c \in {0, c}
    BY <1>3
  <2>2. QED
    BY <1>2, <1>4, <2>1
<1>7. a = h * d + x
  BY <1>2, <1>5, <1>6
<1>8. a \div d = h
  BY <1>6, <1>7
<1>9. QED
  BY <1>1, <1>3, <1>4, <1>8
LEMMA IdxFacts ==
    ASSUME NEW b \in Nat
    PROVE  /\ Idx(b, 0) = b
           /\ \A l \in Nat : Idx(b, l) \in Nat /\ Idx(b, l + 1) = Idx(b, l) \div 2
<1>1. Idx(b, 0) = b
  BY DEF Idx
<1>2. ASSUME NEW l \in Nat PROVE Idx(b, l) \in Nat /\ Idx(b, l + 1) = Idx(b, l) \div 2
  <2>1. PICK c \in Nat \ {0} : c = 2 ^ l
    BY PowerPositive
  <2>2. 2 ^ (l + 1) = 2 * c
    BY <2>1, PowerDoubles
  <2>3. b \div (2 * c) = (b \div c) \div 2
    BY DivideTwice
  <2>4. b \div c \in Nat
    OBVIOUS
  <2>5. QED
    BY <2>1, <2>2, <2>3, <2>4 DEF Idx
<1>3. QED
  BY <1>1, <1>2

LEMMA WidthFacts ==
    /\ D \in Nat /\ D >= 2
    /\ Width(D) = 1 /\ Blocks = 0 .. Width(0) - 1
    /\ \A l \in 0 .. D : Width(l) \in Nat \ {0}
    /\ \A l \in 0 .. D - 1 : Width(l) = 2 * Width(l + 1)
<1>1. D \in Nat /\ D >= 2
  BY MitAssumption
<1>2. Width(D) = 1
  BY <1>1 DEF Width
<1>3. Blocks = 0 .. Width(0) - 1
  BY <1>1 DEF Width, Blocks
<1>4. ASSUME NEW l \in 0 .. D PROVE Width(l) \in Nat \ {0}
  BY <1>1, PowerPositive DEF Width
<1>5. ASSUME NEW l \in 0 .. D - 1 PROVE Width(l) = 2 * Width(l + 1)
  <2>1. PICK n \in Nat : n = D - (l + 1)
    BY <1>1
  <2>2. D - l = n + 1
    BY <1>1, <2>1
  <2>3. QED
    BY <2>1, <2>2, PowerDoubles DEF Width
<1>6. QED
  BY <1>1, <1>2, <1>3, <1>4, <1>5

LEMMA BlockIsNat == Blocks \subseteq Nat
BY WidthFacts

LEMMA IdxRange ==
    ASSUME NEW b \in Blocks, NEW l \in 0 .. D
    PROVE  Idx(b, l) \in 0 .. Width(l) - 1
<1> DEFINE S == {n \in 0 .. D : Idx(b, n) \notin 0 .. Width(n) - 1}
<1>1. b \in Nat
  BY BlockIsNat
<1>2. SUFFICES ASSUME S # {} PROVE FALSE
  OBVIOUS
<1>3. S \in SUBSET Nat
  BY WidthFacts
<1>4. PICK x \in S : \A y \in S : x <= y
  BY <1>2, <1>3, LeastOf
<1>5. x # 0
  BY <1>1, <1>4, IdxFacts, WidthFacts
<1>6. PICK n \in Nat : n \in 0 .. D - 1 /\ x = n + 1
  BY <1>3, <1>4, <1>5, WidthFacts
<1>7. n \notin S
  BY <1>4, <1>6
<1>8. Idx(b, n) \in 0 .. Width(n) - 1
  BY <1>6, <1>7, WidthFacts
<1>9. Idx(b, x) = Idx(b, n) \div 2 /\ Width(n) = 2 * Width(x) /\ Width(x) \in Nat
  BY <1>1, <1>3, <1>6, IdxFacts, WidthFacts
<1>10. Idx(b, x) \in 0 .. Width(x) - 1
  <2>1. PICK v, w, z : v = Idx(b, n) /\ w = Width(x) /\ z = Idx(b, x)
    OBVIOUS
  <2>2. v \in 0 .. 2 * w - 1 /\ w \in Nat /\ z = v \div 2
    BY <1>8, <1>9, <2>1
  <2>3. z \in 0 .. w - 1
    BY <2>2
  <2>4. QED
    BY <2>1, <2>3
<1>11. QED
  BY <1>4, <1>10

LEMMA SiblingFacts ==
    ASSUME NEW i \in Nat
    PROVE  /\ sibling(i) \in Nat /\ sibling(i) # i /\ sibling(i) \div 2 = i \div 2
           /\ i % 2 = 1 => 2 * (i \div 2) = sibling(i) /\ 2 * (i \div 2) + 1 = i
           /\ i % 2 # 1 => 2 * (i \div 2) = i /\ 2 * (i \div 2) + 1 = sibling(i)
BY DEF sibling

LEMMA SiblingRange ==
    ASSUME NEW l \in 0 .. D - 1, NEW i \in 0 .. Width(l) - 1
    PROVE  /\ sibling(i) \in 0 .. Width(l) - 1
           /\ i \div 2 \in 0 .. Width(l + 1) - 1
<1>1. PICK w \in Nat : w = Width(l + 1) /\ Width(l) = 2 * w
  BY WidthFacts
<1>2. QED
  BY <1>1 DEF sibling

LEMMA NodeAddress ==
    ASSUME NEW l, NEW i
    PROVE  <<l, i>> \in NodeAddrs <=> l \in 1 .. D - 1 /\ i \in 0 .. Width(l) - 1
BY DEF NodeAddrs, Width

LEMMA JoinParts ==
    ASSUME NEW k, NEW i, NEW j, NEW h, NEW s, NEW g, NEW t, Join(k, i, h, s) = Join(k, j, g, t)
    PROVE  IF i % 2 = 1 <=> j % 2 = 1 THEN h = g /\ s = t ELSE h = t /\ s = g
BY DEF Join
-----------------------------------------------------------------------------
(* Paths.                                                                    *)

\* Two paths to the same root part at some level, or are the same.  Where path q replaced
\* the path o over the same siblings, another block's path p to the new root gives one to
\* the old root.
LEMMA OtherPaths ==
    ASSUME NEW k, NEW b \in Blocks, NEW e \in Blocks, NEW c, NEW c1, NEW c2,
           NEW o, NEW q, NEW s, NEW p, NEW t,
           Rises(k, b, c, o, s, D), Rises(k, b, c1, q, s, D), Rises(k, e, c2, p, t, D),
           p[D] = q[D]
    PROVE  \/ e = b /\ c2 = c1
           \/ e # b /\ \E p2, t2 : Rises(k, e, c2, p2, t2, D) /\ p2[D] = o[D]
<1> DEFINE A == {n \in 0 .. D : \A m \in n .. D : Idx(e, m) = Idx(b, m) /\ p[m] = q[m]}
<1>1. b \in Nat /\ e \in Nat /\ D \in Nat /\ D >= 2
  BY BlockIsNat, WidthFacts
<1>2. Idx(e, D) = 0 /\ Idx(b, D) = 0
  <2>1. D \in 0 .. D /\ Width(D) = 1
    BY <1>1, WidthFacts
  <2>2. Idx(e, D) \in 0 .. Width(D) - 1 /\ Idx(b, D) \in 0 .. Width(D) - 1
    BY <2>1, IdxRange
  <2>3. QED
    BY <2>1, <2>2
<1>3. D \in A /\ A \in SUBSET Nat
  BY <1>1, <1>2
<1>4. PICK n \in A : \A y \in A : n <= y
  BY <1>3, LeastOf
<1>5. \A m \in n .. D : Idx(e, m) = Idx(b, m) /\ p[m] = q[m]
  BY <1>4
<1>6. CASE n = 0
  <2>1. Idx(e, 0) = Idx(b, 0) /\ p[0] = q[0]
    BY <1>1, <1>5, <1>6
  <2>2. e = b
    BY <1>1, <2>1, IdxFacts
  <2>3. QED
    BY <2>1, <2>2 DEF Rises, leaf
<1>7. CASE n # 0
  <2>1. PICK l \in Nat : l \in 0 .. D - 1 /\ n = l + 1
    BY <1>1, <1>4, <1>7
  <2>2. l \notin A
    BY <1>4, <2>1
  <2>3. Idx(e, l) # Idx(b, l) \/ p[l] # q[l]
    BY <1>1, <1>5, <2>1, <2>2
  <2>4. Join(k, Idx(e, l), p[l], t[l]) = Join(k, Idx(b, l), q[l], s[l])
    BY <1>1, <1>5, <2>1 DEF Rises
  <2>5. Idx(e, l) \div 2 = Idx(b, l) \div 2 /\ Idx(e, l) \in Nat /\ Idx(b, l) \in Nat
    <3>1. n \in n .. D
      BY <1>1, <2>1
    <3>2. Idx(e, l + 1) = Idx(b, l + 1)
      BY <1>5, <2>1, <3>1
    <3>3. /\ Idx(e, l) \in Nat /\ Idx(e, l + 1) = Idx(e, l) \div 2
          /\ Idx(b, l) \in Nat /\ Idx(b, l + 1) = Idx(b, l) \div 2
      BY <1>1, IdxFacts
    <3>4. QED
      BY <3>2, <3>3
  <2>6. ~(Idx(e, l) % 2 = 1 <=> Idx(b, l) % 2 = 1)
    <3>1. SUFFICES ASSUME Idx(e, l) % 2 = 1 <=> Idx(b, l) % 2 = 1 PROVE FALSE
      OBVIOUS
    <3>2. p[l] = q[l]
      BY <2>4, <3>1, JoinParts
    <3>3. Idx(e, l) = Idx(b, l)
      BY <2>5, <3>1
    <3>4. QED
      BY <2>3, <3>2, <3>3
  <2>7. p[l] = s[l] /\ t[l] = q[l]
    BY <2>4, <2>6, JoinParts
  <2>8. e # b
    BY <2>6
  <2> DEFINE p2 == [m \in 0 .. D |-> IF m <= l THEN p[m] ELSE o[m]]
             t2 == [m \in 0 .. D |-> IF m < l THEN t[m] ELSE IF m = l THEN o[l] ELSE s[m]]
  <2>9. p2[0] = leaf(e, c2) /\ p2[D] = o[D]
    BY <1>1, <2>1 DEF Rises
  <2>10. ASSUME NEW m \in 0 .. D - 1 PROVE p2[m + 1] = Join(k, Idx(e, m), p2[m], t2[m])
    <3>1. m \in Nat /\ m + 1 \in 0 .. D /\ m \in 0 .. D
      BY <1>1
    <3>2. CASE m < l
      <4>1. p2[m] = p[m] /\ p2[m + 1] = p[m + 1] /\ t2[m] = t[m]
        BY <2>1, <3>1, <3>2
      <4>2. QED
        BY <4>1 DEF Rises
    <3>3. CASE m = l
      <4>1. p2[m] = s[l] /\ p2[m + 1] = o[l + 1] /\ t2[m] = o[l]
        BY <2>1, <2>7, <3>1, <3>3
      <4>2. o[l + 1] = Join(k, Idx(b, l), o[l], s[l])
        BY <2>1 DEF Rises
      <4>3. QED
        BY <2>6, <3>3, <4>1, <4>2 DEF Join
    <3>4. CASE m > l
      <4>1. p2[m] = o[m] /\ p2[m + 1] = o[m + 1] /\ t2[m] = s[m]
        BY <2>1, <3>1, <3>4
      <4>2. Idx(e, m) = Idx(b, m)
        BY <1>1, <1>5, <2>1, <3>1, <3>4
      <4>3. QED
        BY <4>1, <4>2 DEF Rises
    <3>5. QED
      BY <2>1, <3>1, <3>2, <3>3, <3>4
  <2> HIDE DEF p2, t2
  <2>11. Rises(k, e, c2, p2, t2, D)
    BY <2>9, <2>10 DEF Rises
  <2>12. QED
    BY <2>8, <2>9, <2>11
<1>8. QED
  BY <1>6, <1>7

\* One more level.
LEMMA RiseOn ==
    ASSUME NEW k, NEW b, NEW c, NEW p, NEW s, NEW n \in Nat, NEW t,
           Rises(k, b, c, p, s, n), t = Join(k, Idx(b, n), p[n], s[n])
    PROVE  \E q : Rises(k, b, c, q, s, n + 1) /\ q[n + 1] = t
<1> DEFINE q == [m \in 0 .. n + 1 |-> IF m <= n THEN p[m] ELSE t]
<1>1. q[0] = leaf(b, c) /\ q[n + 1] = t
  BY DEF Rises
<1>2. ASSUME NEW m \in 0 .. n PROVE q[m + 1] = Join(k, Idx(b, m), q[m], s[m])
  <2>1. m \in Nat /\ m <= n /\ q[m] = p[m]
    OBVIOUS
  <2>2. CASE m = n
    BY <1>1, <2>1, <2>2
  <2>3. CASE m # n
    <3>1. m \in 0 .. n - 1 /\ q[m + 1] = p[m + 1]
      BY <2>1, <2>3
    <3>2. QED
      BY <2>1, <3>1 DEF Rises
  <2>4. QED
    BY <2>2, <2>3
<1> HIDE DEF q
<1>3. Rises(k, b, c, q, s, n + 1)
  BY <1>1, <1>2 DEF Rises
<1>4. QED
  BY <1>1, <1>3

\* The siblings above do not matter.
LEMMA RisesSame ==
    ASSUME NEW k, NEW b, NEW c, NEW p, NEW s, NEW t, NEW n \in Nat,
           Rises(k, b, c, p, s, n), \A m \in 0 .. n - 1 : t[m] = s[m]
    PROVE  Rises(k, b, c, p, t, n)
BY DEF Rises
-----------------------------------------------------------------------------
(* The engines.                                                              *)

LEMMA UnitStep ==
    ASSUME UnitOK, NEW start \in BOOLEAN, NEW key, NEW msg, NEW clear \in BOOLEAN,
           Cmac!UnitEdge(start, key, msg, clear)
    PROVE  /\ UnitOK'
           /\ start /\ ~clear /\ ~Cmac!busy_o =>
                 cmac'.tag = <<key, msg>> /\ cmac'.left = CmacCycles
           /\ ~start \/ Cmac!busy_o => cmac'.tag = cmac.tag
           /\ ~clear /\ Cmac!busy_o => cmac'.left = cmac.left - 1
           /\ ~start /\ ~Cmac!busy_o => cmac'.left = cmac.left
<1> USE LatencyAssumption DEF UnitOK, Cmac!busy_o
<1>1. CASE Cmac!TakeStart(start, key, msg, clear)
  BY <1>1 DEF Cmac!TakeStart, Cmac!Mac
<1>2. CASE Cmac!StayIdle(start, clear)
  BY <1>2 DEF Cmac!StayIdle
<1>3. CASE Cmac!Deliver
  <2>1. cmac.left = 1 /\ cmac' = [cmac EXCEPT !.left = 0, !.live = FALSE, !.done = cmac.live]
    BY <1>3 DEF Cmac!Deliver
  <2>2. QED
    BY <2>1
<1>4. CASE Cmac!Compute
  BY <1>4 DEF Cmac!Compute
<1>5. CASE clear /\ Cmac!Abort
  BY <1>5 DEF Cmac!Abort
<1>6. QED
  BY <1>1, <1>2, <1>3, <1>4, <1>5 DEF Cmac!UnitEdge

LEMMA CoreStep ==
    ASSUME CoreBasic, NEW start \in BOOLEAN, NEW key, NEW block, Aes!Edge(start, key, block)
    PROVE  /\ aes_busy' \in BOOLEAN /\ aes_done' \in BOOLEAN
           /\ aes_done' => ~aes_busy'
           /\ aes_busy' => aes_round' \in 1 .. Rounds
           /\ ~aes_busy /\ start => aes_busy' /\ aes_work' = <<key, block>>
           /\ ~aes_busy /\ ~start => ~aes_busy' /\ ~aes_done'
           /\ aes_busy /\ aes_busy' => aes_round' = aes_round + 1 /\ aes_work' = aes_work
           /\ aes_busy /\ ~aes_busy' => /\ aes_done'
                                        /\ aes_out' = Aes!Encrypt(aes_work[1], aes_work[2])
           /\ aes_busy /\ aes_round # Rounds => aes_busy'
<1>1. CASE start /\ Aes!StartRound(key, block)
  <2>1. /\ ~aes_busy /\ aes_busy' = TRUE /\ aes_done' = FALSE /\ aes_round' = 1
        /\ aes_work' = <<key, block>>
    BY <1>1 DEF Aes!StartRound
  <2>2. 1 \in 1 .. Rounds
    BY LatencyAssumption
  <2>3. QED
    BY <1>1, <2>1, <2>2, Zenon
<1>2. CASE ~start /\ Aes!IdleCore
  BY <1>2 DEF Aes!IdleCore, CoreBasic
<1>3. CASE Aes!NextRound
  <2>1. /\ aes_busy /\ aes_busy' = aes_busy /\ aes_done' = FALSE /\ aes_round' = aes_round + 1
        /\ aes_work' = aes_work /\ aes_round # Rounds
    BY <1>3 DEF Aes!NextRound
  <2>2. aes_busy \in BOOLEAN /\ aes_round \in 1 .. Rounds
    BY <2>1 DEF CoreBasic
  <2>3. aes_round + 1 \in 1 .. Rounds
    BY <2>1, <2>2, LatencyAssumption
  <2>4. QED
    BY <2>1, <2>2, <2>3, Zenon
<1>4. CASE Aes!LastRound
  BY <1>4 DEF Aes!LastRound, CoreBasic
<1>5. QED
  BY <1>1, <1>2, <1>3, <1>4 DEF Aes!Edge
-----------------------------------------------------------------------------
(* The write port.                                                           *)

BuildStore ==
    /\ state_q = "S_BUILD_W" /\ cmac.done /\ lvl_q < D
    /\ data' = data /\ node' = [node EXCEPT ![<<lvl_q, bj_q>>] = cmac.tag]
    /\ seen'.ct = seen.ct /\ seen'.mac = seen.mac /\ seen'.node = seen.node \cup {cmac.tag}

CommitStore ==
    /\ state_q = "S_COMMIT"
    /\ data' = [data EXCEPT ![op.blk] = NewBlock]
    /\ node' = [node EXCEPT ![<<lvl_q, Idx(op.blk, lvl_q)>>] = NewNode(lvl_q)]
    /\ seen'.ct = seen.ct \cup {new_ct_q} /\ seen'.mac = seen.mac \cup {new_mac_q}
    /\ seen'.node = seen.node \cup {NewNode(lvl_q)}

LEMMA PortIs ==
    ASSUME IInv, StorePort
    PROVE  \/ state_q # "S_COMMIT" /\ UNCHANGED storeVars
           \/ BuildStore
           \/ CommitStore
<1>1. CASE state_q = "S_BUILD_W" /\ cmac.done /\ lvl_q < D
  <2>1. Store(data, <<lvl_q, bj_q>>, cmac.tag)
    BY <1>1 DEF StorePort
  <2>2. {data[b].ct : b \in Blocks} \subseteq seen.ct /\ {data[b].mac : b \in Blocks} \subseteq seen.mac
    BY DEF IInv, StoreShape
  <2>3. QED
    BY <1>1, <2>1, <2>2 DEF Store, BuildStore
<1>2. CASE state_q = "S_COMMIT"
  <2> DEFINE d == IF lvl_q = 1 THEN [data EXCEPT ![op.blk] = NewBlock] ELSE data
  <2>1. Store(d, commit_addr, newnode_q[lvl_q - 1])
    BY <1>2 DEF StorePort, NewBlock
  <2>2. lvl_q \in 1 .. D - 1 /\ D \in Nat /\ op.blk \in Blocks
    BY <1>2, WidthFacts DEF IInv, Shape, Levels
  <2>3. commit_addr = <<lvl_q, Idx(op.blk, lvl_q)>> /\ newnode_q[lvl_q - 1] = NewNode(lvl_q)
    BY <2>2 DEF commit_addr, Idx, NewNode
  <2>4. d = [data EXCEPT ![op.blk] = NewBlock]
    <3>1. CASE lvl_q = 1
      BY <3>1
    <3>2. CASE lvl_q # 1
      <4>1. data[op.blk] = NewBlock
        BY <1>2, <2>2, <3>2 DEF IInv, Prepared
      <4>2. data = [data EXCEPT ![op.blk] = data[op.blk]]
        BY <2>2 DEF IInv, StoreShape
      <4>3. QED
        BY <3>2, <4>1, <4>2
    <3>3. QED
      BY <3>1, <3>2
  <2>5. \A b \in Blocks : d[b] = IF b = op.blk THEN NewBlock ELSE data[b]
    BY <2>4 DEF IInv, StoreShape
  <2> HIDE DEF d
  <2>6. seen.ct \cup {d[b].ct : b \in Blocks} = seen.ct \cup {new_ct_q}
    BY <2>2, <2>5 DEF IInv, StoreShape, NewBlock
  <2>7. seen.mac \cup {d[b].mac : b \in Blocks} = seen.mac \cup {new_mac_q}
    BY <2>2, <2>5 DEF IInv, StoreShape, NewBlock
  <2>8. /\ data' = d /\ node' = [node EXCEPT ![commit_addr] = newnode_q[lvl_q - 1]]
        /\ seen'.ct = seen.ct \cup {d[b].ct : b \in Blocks}
        /\ seen'.mac = seen.mac \cup {d[b].mac : b \in Blocks}
        /\ seen'.node = seen.node \cup {newnode_q[lvl_q - 1]}
    BY <2>1 DEF Store
  <2>9. QED
    BY <1>2, <2>3, <2>4, <2>6, <2>7, <2>8 DEF CommitStore
<1>3. CASE ~(state_q = "S_BUILD_W" /\ cmac.done /\ lvl_q < D) /\ state_q # "S_COMMIT"
  BY <1>3 DEF StorePort
<1>4. QED
  BY <1>1, <1>2, <1>3

\* The node a write computed is one of the tree.
LEMMA NewNodeIs ==
    ASSUME IInv, state_q = "S_COMMIT", NEW m \in 0 .. D - 1
    PROVE  NewNode(m + 1) = Join(TreeKey, Idx(op.blk, m), NewNode(m), sib_q[m])
BY DEF IInv, Prepared

LEMMA JoinIsNode ==
    ASSUME NEW k, NEW i, NEW h, NEW s
    PROVE  \E x : Join(k, i, h, s) = <<k, x>>
BY DEF Join

LEMMA PortKeeps ==
    ASSUME IInv, StorePort, loaded \subseteq loaded'
    PROVE  StoreShape' /\ Known'
<1>1. op.blk \in Blocks /\ D \in Nat /\ Levels /\ op.ctr \in Ctrs
  BY WidthFacts DEF IInv, Shape
<1>2. CASE UNCHANGED storeVars
  <2>1. data' = data /\ node' = node /\ seen' = seen
    BY <1>2 DEF storeVars
  <2>2. StoreShape'
    BY <2>1 DEF IInv, StoreShape
  <2>3. Known'
    <3>1. seen'.ct = seen.ct /\ seen'.mac = seen.mac /\ seen'.node = seen.node
      BY <2>1
    <3>2. Known
      BY DEF IInv
    <3>3. QED
      BY <3>1, <3>2 DEF Known, encrypt, Aes!Encrypt, ks_block
  <2>4. QED
    BY <2>2, <2>3
<1>3. CASE BuildStore
  <2>1. key_q \in loaded
    BY <1>3 DEF BuildStore, IInv, Shape
  <2>2. \E x : cmac.tag = <<<<<<"tree", key_q>>, k1_tree_q>>, x>>
    BY <1>3 DEF BuildStore, IInv, TagOK, TreeKey, tree_key
  <2>3. Known'
    BY <1>3, <2>1, <2>2 DEF IInv, Known, BuildStore
  <2>4. StoreShape'
    BY <1>3 DEF IInv, StoreShape, BuildStore
  <2>5. QED
    BY <2>3, <2>4
<1>4. CASE CommitStore
  <2>1. key_q \in loaded /\ lvl_q \in 1 .. D - 1
    BY <1>1, <1>4 DEF CommitStore, IInv, Shape, Levels
  <2>2. \E x : NewNode(lvl_q) = <<<<<<"tree", key_q>>, k1_tree_q>>, x>>
    <3>1. PICK m \in 0 .. D - 1 : lvl_q = m + 1
      BY <1>1, <2>1
    <3>2. QED
      BY <1>4, <3>1, NewNodeIs, JoinIsNode DEF CommitStore, TreeKey, tree_key
  <2>3. \E x : new_mac_q = <<<<<<"mac", key_q>>, k1_mac_q>>, x>>
    BY <1>4 DEF CommitStore, IInv, Prepared, MacKey, mac_key
  <2>4. \E w, b, c : new_ct_q = encrypt(w, Aes!Encrypt(<<"enc", key_q>>, ks_block(b, c)))
    BY <1>4 DEF CommitStore, IInv, Prepared, Keystream, enc_key, Writing
  <2>5. Known'
    BY <1>4, <2>1, <2>2, <2>3, <2>4 DEF IInv, Known, CommitStore
  <2>6. NewBlock.ctr = op.ctr /\ NewBlock.ct = new_ct_q /\ NewBlock.mac = new_mac_q
        /\ DOMAIN NewBlock = {"ct", "mac", "ctr"}
    BY DEF NewBlock
  <2>7. \A b \in Blocks : data'[b] = IF b = op.blk THEN NewBlock ELSE data[b]
    BY <1>4 DEF IInv, StoreShape, CommitStore
  <2>8. data' = [b \in Blocks |-> data'[b]] /\ node' = [a \in NodeAddrs |-> node'[a]]
    BY <1>4 DEF IInv, StoreShape, CommitStore
  <2>9. \A a \in NodeAddrs : node'[a] \in seen'.node
    BY <1>4 DEF IInv, StoreShape, CommitStore
  <2>10. StoreShape'
    BY <1>1, <1>4, <2>6, <2>7, <2>8, <2>9 DEF IInv, StoreShape, CommitStore
  <2>11. QED
    BY <2>5, <2>10
<1>5. QED
  BY <1>2, <1>3, <1>4, PortIs
\* No leaf is a node, and what was stored is no leaf.
LEMMA NodesAreNoLeaves ==
    ASSUME IInv, NEW t \in seen.node \cup {Junk}, NEW b, NEW c
    PROVE  t # leaf(b, c)
<1>1. leaf(b, c) = <<"leaf", b, c>>
  BY DEF leaf
<1>2. CASE t = Junk
  BY <1>1, <1>2 DEF Junk
<1>3. CASE t \in seen.node
  <2>1. t = Zero \/ \E k \in loaded : \E x, k1 : t = <<<<<<"tree", k>>, k1>>, x>>
    BY <1>3 DEF IInv, Known
  <2>2. QED
    BY <1>1, <2>1 DEF Zero, Aes!Zero
<1>4. QED
  BY <1>2, <1>3

LEMMA BuiltNodeIsFresh ==
    ASSUME IInv, ~reused, state_q = "S_BUILD_W"
    PROVE  FreshNode(cmac.tag)
<1>1. PICK x, y : /\ cmac.tag = <<TreeKey, <<x, y>>>>
                  /\ IF lvl_q = 1 THEN x = leaf(2 * bj_q, 0) /\ y = leaf(2 * bj_q + 1, 0)
                     ELSE x \in seen.node \cup {Junk} /\ y \in seen.node \cup {Junk}
  BY DEF IInv, TagOK
<1>2. \A t \in seen.node : FreshNode(t)
  BY DEF IInv, Fresh, In, Building
<1>3. SUFFICES
        ASSUME NEW n \in Nat \ {0}, NEW b, NEW c, NEW p, NEW s,
               p[0] = leaf(b, c), p[n] = cmac.tag,
               \A m \in 0 .. n - 1 :
                  p[m + 1] \in {<<TreeKey, <<p[m], s[m]>>>>, <<TreeKey, <<s[m], p[m]>>>>}
        PROVE  c = 0
  BY DEF FreshNode
<1>4. PICK m \in Nat : n = m + 1 /\ m \in 0 .. n - 1
  <2>1. n - 1 \in Nat /\ n = (n - 1) + 1
    OBVIOUS
  <2>2. QED
    BY <2>1
<1>5. p[m] \in {x, y}
  BY <1>1, <1>3, <1>4
<1>6. CASE m = 0
  <2>1. leaf(b, c) \in {x, y}
    BY <1>3, <1>5, <1>6
  <2>2. CASE lvl_q = 1
    BY <1>1, <2>1, <2>2 DEF leaf
  <2>3. CASE lvl_q # 1
    BY <1>1, <2>1, <2>3, NodesAreNoLeaves
  <2>4. QED
    BY <2>2, <2>3
<1>7. CASE m # 0
  <2>1. PICK z : p[m] = <<TreeKey, z>>
    <3>1. PICK j \in Nat : m = j + 1 /\ j \in 0 .. n - 1
      <4>1. m - 1 \in Nat /\ m = (m - 1) + 1
        BY <1>7
      <4>2. QED
        BY <1>4, <4>1
    <3>2. QED
      BY <1>3, <3>1
  <2>2. lvl_q # 1 /\ p[m] # Junk
    BY <1>1, <1>5, <2>1 DEF leaf, Junk
  <2>3. p[m] \in seen.node
    BY <1>1, <1>5, <2>2
  <2>4. FreshNode(p[m])
    BY <1>2, <2>3
  <2>5. m \in Nat \ {0} /\ \A j \in 0 .. m - 1 : j \in 0 .. n - 1
    BY <1>4, <1>7
  <2>6. QED
    BY <1>3, <2>4, <2>5 DEF FreshNode
<1>8. QED
  BY <1>6, <1>7

\* The root of a fresh tree stands for counters of 0.
LEMMA FreshRoot ==
    ASSUME FreshNode(cmac.tag), NEW b \in Blocks, NEW c, NEW p, NEW s,
           Rises(TreeKey, b, c, p, s, D), p[D] = cmac.tag
    PROVE  c = 0
<1>1. D \in Nat \ {0}
  BY WidthFacts
<1>2. \A m \in 0 .. D - 1 :
         p[m + 1] \in {<<TreeKey, <<p[m], s[m]>>>>, <<TreeKey, <<s[m], p[m]>>>>}
  BY DEF Rises, Join
<1>3. p[0] = leaf(b, c)
  BY DEF Rises
<1>4. QED
  BY <1>1, <1>2, <1>3 DEF FreshNode

-----------------------------------------------------------------------------
(* What a write adds to the storage.                                         *)

LEMMA KeptKeys ==
    ASSUME UNCHANGED keyVars
    PROVE  /\ TreeKey' = TreeKey /\ MacKey' = MacKey
           /\ enc_key' = enc_key /\ mac_key' = mac_key /\ tree_key' = tree_key
           /\ \A b, c : Keystream(b, c)' = Keystream(b, c)
BY DEF keyVars, TreeKey, MacKey, enc_key, mac_key, tree_key, Keystream, Aes!Encrypt, ks_block

LEMMA CtParts ==
    ASSUME NEW w, NEW b, NEW c, NEW v, NEW e, NEW d
    PROVE  /\ encrypt(w, Keystream(b, c)) = encrypt(v, Keystream(e, d)) => w = v /\ b = e /\ c = d
           /\ encrypt(w, Keystream(b, c)) # Zero
           /\ encrypt(w, Keystream(b, c))[3] = encrypt(v, Keystream(e, d))[3] => b = e /\ c = d
           /\ decrypt(encrypt(w, Keystream(b, c)), Keystream(b, c)) = w
BY DEF encrypt, decrypt, Keystream, Aes!Encrypt, ks_block, Zero, Aes!Zero

LEMMA CommitKeystreamOnce ==
    ASSUME IInv, ~reused, CommitStore
    PROVE  \A c1, c2 \in seen'.ct \ {Zero} : c1[3] = c2[3] => c1 = c2
<1>1. new_ct_q = encrypt(op.wdata, Keystream(op.blk, op.ctr)) /\ op.blk \in Blocks
  BY DEF CommitStore, IInv, Prepared, Writing, Shape
<1>2. Latest /\ KeystreamOnce /\ op.ctr = op.old_ctr + 1 /\ op.old_ctr \in Nat
      /\ (data[op.blk].ctr = op.old_ctr \/ data[op.blk] = NewBlock)
  BY DEF CommitStore, IInv, Fresh, In, Live, CounterOK, Writing, Shape, Ctrs
<1>3. ASSUME NEW t \in seen.ct \ {Zero}, t[3] = new_ct_q[3] PROVE t = new_ct_q
  <2>1. PICK k \in loaded : \E w, b, c : t = encrypt(w, Aes!Encrypt(<<"enc", k>>, ks_block(b, c)))
    BY DEF IInv, Known
  <2>2. PICK w, b, c : t = encrypt(w, Aes!Encrypt(<<"enc", k>>, ks_block(b, c)))
    BY <2>1
  <2>3. Aes!Encrypt(<<"enc", k>>, ks_block(b, c)) = Keystream(op.blk, op.ctr)
    BY <1>1, <1>3, <2>2 DEF encrypt
  <2>4. t = encrypt(w, Keystream(op.blk, op.ctr))
    BY <2>2, <2>3
  <2>5. op.ctr \in 0 .. data[op.blk].ctr /\ (op.ctr = data[op.blk].ctr => t = data[op.blk].ct)
    BY <1>1, <1>2, <2>4 DEF Latest
  <2>6. data[op.blk] = NewBlock
    BY <1>2, <2>5
  <2>7. QED
    BY <2>5, <2>6 DEF NewBlock
<1>4. seen'.ct = seen.ct \cup {new_ct_q}
  BY DEF CommitStore
<1>5. QED
  BY <1>2, <1>3, <1>4 DEF KeystreamOnce
LEMMA CommitLatest ==
    ASSUME IInv, ~reused, CommitStore, UNCHANGED keyVars
    PROVE  Latest'
<1>1. /\ new_ct_q = encrypt(op.wdata, Keystream(op.blk, op.ctr)) /\ op.blk \in Blocks
      /\ new_mac_q = <<MacKey, dmac_msg(new_ct_q, op.blk, op.ctr)>>
  BY DEF CommitStore, IInv, Prepared, Writing, Shape
<1>2. /\ Latest /\ op.ctr = op.old_ctr + 1 /\ op.old_ctr \in Nat
      /\ data[op.blk].ctr = op.old_ctr \/ data[op.blk] = NewBlock
  BY DEF CommitStore, IInv, Fresh, In, Live, CounterOK, Writing, Shape, Ctrs
<1>3. NewBlock.ct = new_ct_q /\ NewBlock.mac = new_mac_q /\ NewBlock.ctr = op.ctr
  BY DEF NewBlock
<1>4. \A b \in Blocks : data'[b] = IF b = op.blk THEN NewBlock ELSE data[b]
  BY DEF IInv, StoreShape, CommitStore
<1>5. TreeKey' = TreeKey /\ MacKey' = MacKey /\ \A b, c : Keystream(b, c)' = Keystream(b, c)
  BY KeptKeys
<1>6. ASSUME NEW b \in Blocks, NEW c, NEW t, c \in 0 .. data[b].ctr, c = data[b].ctr => t = data[b].ct
      PROVE  c \in 0 .. data'[b].ctr /\ (c = data'[b].ctr => t = data'[b].ct)
  <2>1. CASE b # op.blk
    BY <1>4, <1>6, <2>1
  <2>2. CASE b = op.blk /\ data[b] = NewBlock
    BY <1>4, <1>6, <2>2
  <2>3. CASE b = op.blk /\ data[b].ctr = op.old_ctr
    <3>1. data'[b].ctr = op.old_ctr + 1 /\ c \in 0 .. op.old_ctr
      BY <1>2, <1>3, <1>4, <1>6, <2>3
    <3>2. QED
      BY <1>2, <3>1
  <2>4. QED
    BY <1>2, <2>1, <2>2, <2>3
<1>7. op.ctr \in 0 .. data'[op.blk].ctr /\ data'[op.blk].ct = new_ct_q
  BY <1>1, <1>2, <1>3, <1>4
<1>8. ASSUME NEW b \in Blocks, NEW c, NEW m \in seen'.mac, NEW t, m = <<MacKey, dmac_msg(t, b, c)>>
      PROVE  c \in 0 .. data'[b].ctr /\ (c = data'[b].ctr => t = data'[b].ct)
  <2>1. CASE m \in seen.mac
    BY <1>2, <1>6, <1>8, <2>1 DEF Latest
  <2>2. CASE m = new_mac_q
    BY <1>1, <1>7, <1>8, <2>2 DEF dmac_msg
  <2>3. QED
    BY <2>1, <2>2 DEF CommitStore
<1>9. ASSUME NEW b \in Blocks, NEW c, NEW t \in seen'.ct, NEW w, t = encrypt(w, Keystream(b, c))
      PROVE  c \in 0 .. data'[b].ctr /\ (c = data'[b].ctr => t = data'[b].ct)
  <2>1. CASE t \in seen.ct
    BY <1>2, <1>6, <1>9, <2>1 DEF Latest
  <2>2. CASE t = new_ct_q
    <3>1. b = op.blk /\ c = op.ctr
      BY <1>1, <1>9, <2>2 DEF encrypt, Keystream, Aes!Encrypt, ks_block
    <3>2. QED
      BY <1>7, <2>2, <3>1
  <2>3. QED
    BY <2>1, <2>2 DEF CommitStore
<1>10. QED
  BY <1>5, <1>8, <1>9 DEF Latest, encrypt

\* The words in the storage once the block of a write is stored.
LEMMA CommitWords ==
    ASSUME IInv, CommitStore, NEW b \in Blocks, NEW w, w = IF b = op.blk THEN op.wdata ELSE truth[b]
    PROVE  /\ data'[b].ctr = 0 => w = ZeroWord
           /\ data'[b].ctr # 0 => /\ data'[b].ct = encrypt(w, Keystream(b, data'[b].ctr))
                                  /\ data'[b].mac = <<MacKey, dmac_msg(data'[b].ct, b, data'[b].ctr)>>
<1>1. data'[b] = IF b = op.blk THEN NewBlock ELSE data[b]
  BY DEF IInv, StoreShape, CommitStore
<1>2. CASE b = op.blk
  <2>1. NewBlock.ct = new_ct_q /\ NewBlock.mac = new_mac_q /\ NewBlock.ctr = op.ctr
    BY DEF NewBlock
  <2>2. /\ new_ct_q = encrypt(op.wdata, Keystream(op.blk, op.ctr))
        /\ new_mac_q = <<MacKey, dmac_msg(new_ct_q, op.blk, op.ctr)>>
    BY DEF CommitStore, IInv, Prepared, Writing
  <2>3. op.ctr # 0
    <3>1. op.ctr = op.old_ctr + 1 /\ op.old_ctr \in Nat
      BY DEF CommitStore, IInv, CounterOK, Writing, Shape, Ctrs
    <3>2. QED
      BY <3>1
  <2>4. QED
    BY <1>1, <1>2, <2>1, <2>2, <2>3
<1>3. CASE b # op.blk
  <2>1. w = Word(b)
    BY <1>3 DEF Word
  <2>2. QED
    BY <1>1, <1>3, <2>1 DEF IInv, DataOK, CommitStore, In, Live
<1>4. QED
  BY <1>2, <1>3

\* Where a node of the path and its sibling are, seen from the level above.
LEMMA IdxChildren ==
    ASSUME NEW b \in Blocks, NEW m \in 0 .. D - 1
    PROVE  /\ Idx(b, m) \in Nat /\ sibling(Idx(b, m)) # Idx(b, m)
           /\ Idx(b, m) % 2 = 1 =>
                 2 * Idx(b, m + 1) = sibling(Idx(b, m)) /\ 2 * Idx(b, m + 1) + 1 = Idx(b, m)
           /\ Idx(b, m) % 2 # 1 =>
                 2 * Idx(b, m + 1) = Idx(b, m) /\ 2 * Idx(b, m + 1) + 1 = sibling(Idx(b, m))
<1>1. b \in Nat /\ m \in Nat
  BY BlockIsNat, WidthFacts
<1>2. Idx(b, m) \in Nat /\ Idx(b, m + 1) = Idx(b, m) \div 2
  BY <1>1, IdxFacts
<1>3. QED
  BY <1>2, SiblingFacts

\* Where no node of the path is, seen from the level above.
LEMMA OffPathChildren ==
    ASSUME NEW b \in Blocks, NEW m \in 0 .. D - 1, NEW i \in Nat, i # Idx(b, m + 1)
    PROVE  2 * i # Idx(b, m) /\ 2 * i + 1 # Idx(b, m)
<1>1. b \in Nat /\ m \in Nat
  BY BlockIsNat, WidthFacts
<1>2. PICK x \in Nat : x = Idx(b, m) /\ Idx(b, m + 1) = x \div 2
  BY <1>1, IdxFacts
<1>3. 2 * i # x /\ 2 * i + 1 # x
  BY <1>2
<1>4. QED
  BY <1>2, <1>3
-----------------------------------------------------------------------------
(* The tree in the storage.                                                  *)

\* What is stored where a write stores nothing.
LEMMA CommitElsewhere ==
    ASSUME IInv, CommitStore, NEW l \in 0 .. D - 1, NEW i \in 0 .. Width(l) - 1,
           i # Idx(op.blk, l) \/ (l # lvl_q /\ l # 0)
    PROVE  Stored(l, i)' = Stored(l, i)
<1>1. op.blk \in Blocks /\ D \in Nat /\ lvl_q \in 1 .. D - 1
  BY WidthFacts DEF IInv, Shape, Levels, CommitStore
<1>2. CASE l = 0
  <2>1. i # op.blk /\ i \in Blocks
    BY <1>1, <1>2, IdxFacts, BlockIsNat, WidthFacts
  <2>2. data'[i] = data[i]
    BY <2>1 DEF IInv, StoreShape, CommitStore
  <2>3. QED
    BY <1>2, <2>2 DEF Stored
<1>3. CASE l # 0
  <2>1. <<l, i>> # <<lvl_q, Idx(op.blk, lvl_q)>>
    BY <1>3
  <2>2. <<l, i>> \in NodeAddrs
    BY <1>3, NodeAddress
  <2>3. node'[<<l, i>>] = node[<<l, i>>]
    BY <2>1, <2>2 DEF IInv, StoreShape, CommitStore
  <2>4. QED
    BY <1>3, <2>3 DEF Stored
<1>4. QED
  BY <1>2, <1>3

\* A truthful storage during a write: the siblings of the path, what is off the path, and the
\* nodes of the path that are stored.
LEMMA CommitHonest ==
    ASSUME IInv, lies = 0, CommitStore, UNCHANGED keyVars
    PROVE  /\ \A m \in 0 .. D - 1 : \A i : i = sibling(Idx(op.blk, m)) => Stored(m, i)' = sib_q[m]
           /\ \A l \in 1 .. D - 1 : \A i \in 0 .. Width(l) - 1 : i # Idx(op.blk, l) => Sound(l, i)'
           /\ \A m \in 0 .. lvl_q : \A i : i = Idx(op.blk, m) => Stored(m, i)' = NewNode(m)
<1>1. op.blk \in Blocks /\ D \in Nat /\ lvl_q \in 1 .. D - 1 /\ op.blk \in Nat
  BY WidthFacts, BlockIsNat DEF IInv, Shape, Levels, CommitStore
<1>2. Honesty /\ Writing
  BY DEF IInv, Writing, CommitStore
<1>3. ASSUME NEW m \in 0 .. D - 1, NEW i, i = sibling(Idx(op.blk, m)) PROVE Stored(m, i)' = sib_q[m]
  <2>1. Idx(op.blk, m) \in 0 .. Width(m) - 1
    BY <1>1, IdxRange
  <2>2. sibling(Idx(op.blk, m)) \in 0 .. Width(m) - 1 /\ sibling(Idx(op.blk, m)) # Idx(op.blk, m)
    BY <1>1, <2>1, SiblingRange, IdxChildren
  <2>3. i \in 0 .. Width(m) - 1 /\ i # Idx(op.blk, m)
    BY <1>3, <2>2
  <2>4. Stored(m, i)' = Stored(m, i)
    BY <2>3, CommitElsewhere
  <2>5. sib_q[m] = Stored(m, i)
    BY <1>2, <1>3 DEF Honesty
  <2>6. QED
    BY <2>4, <2>5
<1>4. ASSUME NEW l \in 1 .. D - 1, NEW i \in 0 .. Width(l) - 1, i # Idx(op.blk, l) PROVE Sound(l, i)'
  <2>1. Sound(l, i)
    BY <1>2, <1>4 DEF Honesty, CommitStore
  <2>2. PICK m \in 0 .. D - 1 : l = m + 1 /\ m = l - 1
    BY <1>1
  <2>3. i \in Nat /\ Width(m) = 2 * Width(l) /\ Width(l) \in Nat
    BY <2>2, WidthFacts
  <2>4. 2 * i \in 0 .. Width(m) - 1 /\ 2 * i + 1 \in 0 .. Width(m) - 1
    BY <2>3
  <2>5. 2 * i # Idx(op.blk, m) /\ 2 * i + 1 # Idx(op.blk, m)
    BY <1>1, <1>4, <2>2, <2>3, OffPathChildren
  <2>6. PICK x \in 0 .. Width(m) - 1, y \in 0 .. Width(m) - 1 : x = 2 * i /\ y = 2 * i + 1
    BY <2>4
  <2>7. Stored(m, x)' = Stored(m, x) /\ Stored(m, y)' = Stored(m, y)
    BY <2>5, <2>6, CommitElsewhere
  <2>8. Stored(l, i)' = Stored(l, i)
    BY <1>1, <1>4, CommitElsewhere
  <2>9. node'[<<l, i>>] = node[<<l, i>>]
    BY <2>8 DEF Stored
  <2>10. TreeKey' = TreeKey
    BY KeptKeys
  <2>11. node[<<l, i>>] = <<TreeKey, <<Stored(m, x), Stored(m, y)>>>>
    BY <2>1, <2>2, <2>6 DEF Sound
  <2>12. node'[<<l, i>>] = <<TreeKey', <<Stored(m, x)', Stored(m, y)'>>>>
    BY <2>7, <2>9, <2>10, <2>11
  <2>13. QED
    BY <2>2, <2>6, <2>12 DEF Sound
<1>5. ASSUME NEW m \in 0 .. lvl_q, NEW i, i = Idx(op.blk, m) PROVE Stored(m, i)' = NewNode(m)
  <2>1. i = Idx(op.blk, m)
    BY <1>5
  <2>2. i \in 0 .. Width(m) - 1 /\ m \in 0 .. D - 1
    BY <1>1, <2>1, IdxRange
  <2>3. CASE m = 0
    <3>1. i = op.blk
      BY <1>1, <2>1, <2>3, IdxFacts
    <3>2. data'[i] = NewBlock
      BY <1>1, <3>1 DEF IInv, StoreShape, CommitStore
    <3>3. QED
      BY <2>1, <2>3, <3>1, <3>2 DEF Stored, NewNode, NewBlock
  <2>4. CASE m = lvl_q
    <3>1. node'[<<lvl_q, i>>] = NewNode(lvl_q)
      <4>1. <<lvl_q, i>> \in NodeAddrs
        BY <1>1, <2>2, <2>4, NodeAddress
      <4>2. QED
        BY <2>1, <2>4, <4>1 DEF IInv, StoreShape, CommitStore
    <3>2. QED
      BY <1>1, <2>1, <2>4, <3>1 DEF Stored
  <2>5. CASE m # 0 /\ m # lvl_q
    <3>1. Stored(m, i)' = Stored(m, i)
      BY <2>1, <2>2, <2>5, CommitElsewhere
    <3>2. m \in 1 .. lvl_q - 1
      BY <1>1, <2>5
    <3>3. Stored(m, i) = NewNode(m)
      BY <1>2, <2>1, <3>2 DEF Honesty, CommitStore
    <3>4. QED
      BY <2>1, <3>1, <3>3
  <2>6. QED
    BY <2>3, <2>4, <2>5
<1>6. QED
  BY <1>3, <1>4, <1>5
-----------------------------------------------------------------------------
(* Steps that leave the storage alone.                                       *)

LEMMA TreeFrame ==
    ASSUME UNCHANGED keyVars, data' = data, node' = node
    PROVE  \A l, i : Stored(l, i)' = Stored(l, i) /\ (Sound(l, i)' <=> Sound(l, i))
<1>1. TreeKey' = TreeKey
  BY KeptKeys
<1>2. ASSUME NEW l, NEW i PROVE Stored(l, i)' = Stored(l, i)
  BY DEF Stored
<1>3. ASSUME NEW l, NEW i PROVE Sound(l, i)' <=> Sound(l, i)
  <2>1. /\ Stored(l - 1, 2 * i)' = Stored(l - 1, 2 * i)
        /\ Stored(l - 1, 2 * i + 1)' = Stored(l - 1, 2 * i + 1)
    BY <1>2
  <2>2. QED
    BY <1>1, <2>1 DEF Sound
<1>4. QED
  BY <1>2, <1>3

LEMMA NodeFrame ==
    ASSUME UNCHANGED keyVars
    PROVE  \A t : FreshNode(t) => FreshNode(t)'
<1>1. TreeKey' = TreeKey
  BY KeptKeys
<1>2. QED
  BY <1>1 DEF FreshNode

LEMMA KeysFrame ==
    ASSUME UNCHANGED keyVars, seen'.ct = seen.ct, seen'.mac = seen.mac
    PROVE  NewKeys => NewKeys'
<1>1. mac_key' = mac_key /\ \A b, c : Keystream(b, c)' = Keystream(b, c)
  BY KeptKeys
<1>2. QED
  BY <1>1 DEF NewKeys, encrypt

LEMMA LatestFrame ==
    ASSUME UNCHANGED keyVars, seen'.ct = seen.ct, seen'.mac = seen.mac, data' = data
    PROVE  Latest => Latest'
<1>1. MacKey' = MacKey /\ \A b, c : Keystream(b, c)' = Keystream(b, c)
  BY KeptKeys
<1>2. QED
  BY <1>1 DEF Latest, encrypt

LEMMA OnceFrame ==
    ASSUME reused' = reused, seen'.ct = seen.ct
    PROVE  KeystreamOnce => KeystreamOnce'
BY DEF KeystreamOnce, Zero, Aes!Zero

LEMMA BoundFrame ==
    ASSUME UNCHANGED keyVars, root_q' = root_q, \A b \in Blocks : Counter(b)' = Counter(b)
    PROVE  Bound => Bound'
<1>1. TreeKey' = TreeKey
  BY KeptKeys
<1>2. QED
  BY <1>1 DEF Bound
-----------------------------------------------------------------------------
(* Steps in which the engine holds its registers.                            *)

Held == UNCHANGED <<state_q, keyVars, root_q, tamper_q, opVars, bj_q, rsp_q, truth, reused, loaded>>

LEMMA HeldIs ==
    ASSUME Held
    PROVE  /\ UNCHANGED keyVars /\ key_q' = key_q /\ state_q' = state_q /\ op' = op /\ h_q' = h_q /\ lvl_q' = lvl_q
           /\ pass2_q' = pass2_q /\ sib_q' = sib_q /\ newnode_q' = newnode_q
           /\ new_ct_q' = new_ct_q /\ new_mac_q' = new_mac_q /\ bj_q' = bj_q /\ root_q' = root_q
           /\ tamper_q' = tamper_q /\ rsp_q' = rsp_q /\ truth' = truth /\ reused' = reused
           /\ loaded' = loaded
BY DEF Held, opVars, keyVars

LEMMA HeldParts ==
    ASSUME Held
    PROVE  /\ \A S : In(S)' <=> In(S)
           /\ Pass1' <=> Pass1
           /\ Pass2' <=> Pass2
           /\ Writing' <=> Writing
           /\ \A m : NewNode(m)' = NewNode(m)
           /\ NewBlock' = NewBlock
           /\ Needed' = Needed
BY HeldIs DEF In, Pass1, Pass2, Writing, NewNode, NewBlock, Needed

LEMMA HeldRegs ==
    ASSUME IInv, Held, lies' \in Nat
    PROVE  Shape' /\ CounterOK' /\ PathOK'
<1>1. Shape'
  BY HeldIs DEF IInv, Shape, Levels, In
<1>2. CounterOK'
  BY HeldIs, HeldParts DEF IInv, CounterOK
<1>3. PathOK'
  BY HeldIs, HeldParts, KeptKeys DEF IInv, PathOK
<1>4. QED
  BY <1>1, <1>2, <1>3

LEMMA HeldPrepared ==
    ASSUME IInv, Held, StorePort
    PROVE  Prepared'
<1>1. /\ UNCHANGED keyVars /\ TreeKey' = TreeKey /\ MacKey' = MacKey
      /\ \A b, c : Keystream(b, c)' = Keystream(b, c)
  BY HeldIs, KeptKeys
<1>2. Prepared
  BY DEF IInv
<1>3. state_q = "S_COMMIT" /\ lvl_q > 1 => data'[op.blk] = NewBlock
  <2>1. CASE state_q # "S_COMMIT"
    BY <2>1
  <2>2. CASE CommitStore
    BY <2>2 DEF CommitStore, IInv, Shape, StoreShape
  <2>3. QED
    BY <2>1, <2>2, PortIs DEF BuildStore
<1>4. QED
  BY <1>1, <1>2, <1>3, HeldIs, HeldParts DEF Prepared, encrypt

LEMMA HeldData ==
    ASSUME IInv, Held, StorePort
    PROVE  DataOK'
<1>1. /\ UNCHANGED keyVars /\ TreeKey' = TreeKey /\ MacKey' = MacKey
      /\ \A b, c : Keystream(b, c)' = Keystream(b, c)
  BY HeldIs, KeptKeys
<1>2. DataOK
  BY DEF IInv
<1>3. CASE data' = data
  <2>1. \A b : Word(b)' = Word(b)
    BY <1>3, HeldIs, HeldParts DEF Word
  <2>2. QED
    BY <1>1, <1>2, <1>3, <2>1, HeldIs, HeldParts DEF DataOK, encrypt
<1>4. CASE CommitStore
  <2>1. \A b \in Blocks : Word(b)' = IF b = op.blk THEN op.wdata ELSE truth[b]
    <3>1. data'[op.blk] = NewBlock
      BY <1>4 DEF CommitStore, IInv, StoreShape, Shape
    <3>2. QED
      BY <1>4, <3>1, HeldIs, HeldParts DEF Word, CommitStore
  <2>2. \A b \in Blocks :
           /\ data'[b].ctr = 0 => Word(b)' = ZeroWord
           /\ data'[b].ctr # 0 => /\ data'[b].ct = encrypt(Word(b)', Keystream(b, data'[b].ctr))
                                  /\ data'[b].mac = <<MacKey, dmac_msg(data'[b].ct, b, data'[b].ctr)>>
    BY <1>4, <2>1, CommitWords
  <2>3. ~In(Young)'
    BY <1>4, HeldIs DEF CommitStore, In, Young
  <2>4. QED
    BY <1>1, <1>2, <2>2, <2>3, HeldIs DEF DataOK, encrypt
<1>5. QED
  BY <1>3, <1>4, PortIs DEF BuildStore, storeVars

LEMMA HeldTag ==
    ASSUME IInv, Held, StorePort,
           In({"S_PATH_W", "S_DMAC_W", "S_BUILD_W"}) => cmac'.tag = cmac.tag
    PROVE  TagOK'
<1>1. TreeKey' = TreeKey /\ MacKey' = MacKey
  BY HeldIs, KeptKeys
<1>2. seen.node \subseteq seen'.node /\ seen.mac \subseteq seen'.mac
  BY PortIs DEF BuildStore, CommitStore, storeVars
<1>3. TagOK
  BY DEF IInv
<1>4. CASE ~In({"S_PATH_W", "S_DMAC_W", "S_BUILD_W"})
  <2>1. Pass1' \/ In(MacStates)' => op'.mac \in seen'.mac \cup {Junk}
    BY <1>2, <1>3, HeldIs, HeldParts DEF TagOK
  <2>2. QED
    BY <1>4, <2>1, HeldIs DEF TagOK, In
<1>5. CASE In({"S_PATH_W", "S_DMAC_W", "S_BUILD_W"})
  <2>1. cmac'.tag = cmac.tag
    BY <1>5
  <2>2. QED
    BY <1>1, <1>2, <1>3, <2>1, HeldIs, HeldParts DEF TagOK
<1>6. QED
  BY <1>4, <1>5
LEMMA HeldFresh ==
    ASSUME IInv, ~reused, Held, StorePort
    PROVE  Fresh'
<1>1. Fresh /\ op.blk \in Blocks
  BY DEF IInv, Shape
<1>2. UNCHANGED keyVars /\ TreeKey' = TreeKey /\ tree_key' = tree_key
  BY HeldIs, KeptKeys
<1>3. CASE UNCHANGED storeVars
  <2>1. data' = data /\ node' = node /\ seen' = seen
    BY <1>3 DEF storeVars
  <2>2. \A b \in Blocks : Counter(b)' = Counter(b)
    BY <2>1, HeldIs DEF Counter
  <2>3. /\ KeystreamOnce => KeystreamOnce'
        /\ NewKeys => NewKeys'
        /\ Latest => Latest'
        /\ Bound => Bound'
        /\ \A t : FreshNode(t) => FreshNode(t)'
    BY <1>2, <2>1, <2>2, HeldIs, OnceFrame, KeysFrame, LatestFrame, BoundFrame, NodeFrame
  <2>4. QED
    BY <1>1, <1>2, <2>1, <2>3, HeldIs, HeldParts DEF Fresh
<1>4. CASE BuildStore
  <2>1. seen'.ct = seen.ct /\ seen'.mac = seen.mac
    BY <1>4 DEF BuildStore
  <2>2. KeystreamOnce' /\ NewKeys'
    <3>1. KeystreamOnce /\ NewKeys
      BY <1>1, <1>4 DEF Fresh, BuildStore, In, Young
    <3>2. QED
      BY <1>2, <2>1, <3>1, HeldIs, OnceFrame, KeysFrame
  <2>3. \A t \in seen'.node : FreshNode(t)'
    <3>1. \A t \in seen.node : FreshNode(t)
      BY <1>1, <1>4 DEF Fresh, BuildStore, In, Building
    <3>2. FreshNode(cmac.tag)
      BY <1>4, BuiltNodeIsFresh DEF BuildStore
    <3>3. QED
      BY <1>2, <1>4, <3>1, <3>2, NodeFrame DEF BuildStore
  <2>4. state_q' = "S_BUILD_W"
    BY <1>4, HeldIs DEF BuildStore
  <2>5. QED
    BY <2>2, <2>3, <2>4 DEF Fresh, In, Live, Pathing, MacStates, Pass2
<1>5. CASE CommitStore
  <2>1. state_q = "S_COMMIT" /\ state_q' = "S_COMMIT"
    BY <1>5, HeldIs DEF CommitStore
  <2>2. KeystreamOnce'
    BY <1>5, CommitKeystreamOnce DEF KeystreamOnce, Zero, Aes!Zero
  <2>3. Latest'
    BY <1>2, <1>5, CommitLatest
  <2>4. \A b \in Blocks : data'[b] = IF b = op.blk THEN NewBlock ELSE data[b]
    BY <1>5 DEF IInv, StoreShape, CommitStore
  <2>5. \A b \in Blocks : Counter(b)' = Counter(b)
    BY <2>1, <2>4, HeldIs DEF Counter
  <2>6. Bound'
    BY <1>1, <1>2, <2>1, <2>5, HeldIs, BoundFrame DEF Fresh, In, Live
  <2>7. data'[op'.blk] = NewBlock'
    BY <1>1, <2>4, HeldIs, HeldParts
  <2>8. QED
    BY <2>1, <2>2, <2>3, <2>6, <2>7
       DEF Fresh, In, Young, Building, Live, Pathing, MacStates, Pass2
<1>6. QED
  BY <1>3, <1>4, <1>5, PortIs

\* A node of the fresh tree is stored where none of the nodes below it, or before it, is.
LEMMA BuildElsewhere ==
    ASSUME IInv, BuildStore, NEW l, NEW i, <<l, i>> # <<lvl_q, bj_q>>
    PROVE  Stored(l, i)' = Stored(l, i) /\ node'[<<l, i>>] = node[<<l, i>>]
<1>1. node'[<<l, i>>] = node[<<l, i>>] /\ data' = data
  BY DEF BuildStore, IInv, StoreShape
<1>2. QED
  BY <1>1 DEF Stored

LEMMA BuildHonest ==
    ASSUME IInv, lies = 0, BuildStore, UNCHANGED keyVars
    PROVE  /\ \A l \in 1 .. lvl_q - 1 : \A i \in 0 .. Width(l) - 1 : Sound(l, i)'
           /\ \A l : l = lvl_q => \A i \in 0 .. bj_q : Sound(l, i)'
           /\ \A l \in 0 .. lvl_q - 1 : \A i : Stored(l, i)' = Stored(l, i)
<1>1. /\ D \in Nat /\ lvl_q \in 1 .. D - 1 /\ bj_q \in 0 .. Width(lvl_q) - 1 /\ Width(lvl_q) \in Nat
      /\ Honesty
  BY WidthFacts DEF IInv, Shape, Levels, BuildStore, In, Building
<1>2. TreeKey' = TreeKey
  BY KeptKeys
<1>3. ASSUME NEW l \in 0 .. lvl_q - 1, NEW i PROVE Stored(l, i)' = Stored(l, i)
  <2>1. <<l, i>> # <<lvl_q, bj_q>>
    BY <1>1
  <2>2. QED
    BY <2>1, BuildElsewhere
<1>4. ASSUME NEW l \in 1 .. lvl_q, NEW i \in Nat, Sound(l, i), <<l, i>> # <<lvl_q, bj_q>>
      PROVE  Sound(l, i)'
  <2>1. node'[<<l, i>>] = node[<<l, i>>]
    BY <1>4, BuildElsewhere
  <2>2. l - 1 \in 0 .. lvl_q - 1
    BY <1>1
  <2>3. /\ Stored(l - 1, 2 * i)' = Stored(l - 1, 2 * i)
        /\ Stored(l - 1, 2 * i + 1)' = Stored(l - 1, 2 * i + 1)
    BY <1>3, <2>2
  <2>4. QED
    BY <1>2, <1>4, <2>1, <2>3 DEF Sound
<1>5. ASSUME NEW l \in 1 .. lvl_q - 1, NEW i \in 0 .. Width(l) - 1 PROVE Sound(l, i)'
  <2>1. Sound(l, i)
    BY <1>1 DEF Honesty, BuildStore, In, Building
  <2>2. l \in 1 .. lvl_q /\ l # lvl_q /\ i \in Nat
    BY <1>1
  <2>3. QED
    BY <1>4, <2>1, <2>2
<1>6. ASSUME NEW l, l = lvl_q, NEW i \in 0 .. bj_q, i # bj_q PROVE Sound(l, i)'
  <2>1. i \in 0 .. bj_q - 1 /\ i \in Nat /\ l \in 1 .. lvl_q
    BY <1>1, <1>6
  <2>2. Sound(l, i)
    BY <1>1, <1>6, <2>1 DEF Honesty, BuildStore, In, Building
  <2>3. QED
    BY <1>4, <1>6, <2>1, <2>2
<1>7. ASSUME NEW l, l = lvl_q, NEW j, j = bj_q PROVE Sound(l, j)'
  <2>1. node'[<<l, j>>] = cmac.tag
    <3>1. <<l, j>> \in NodeAddrs
      BY <1>1, <1>7, NodeAddress
    <3>2. QED
      BY <1>7, <3>1 DEF BuildStore, IInv, StoreShape
  <2>2. cmac.tag = <<TreeKey, <<Stored(l - 1, 2 * j), Stored(l - 1, 2 * j + 1)>>>>
    BY <1>1, <1>7 DEF Honesty, BuildStore
  <2>3. l - 1 \in 0 .. lvl_q - 1
    BY <1>1, <1>7
  <2>4. QED
    BY <1>2, <1>3, <2>1, <2>2, <2>3 DEF Sound
<1>8. QED
  BY <1>3, <1>5, <1>6, <1>7
LEMMA HeldHonest ==
    ASSUME IInv, lies = 0, Held, StorePort, state_q = "S_BUILD_W" => cmac'.tag = cmac.tag
    PROVE  Honesty'
<1>1. Honesty /\ op.blk \in Blocks
  BY DEF IInv, Shape
<1>2. UNCHANGED keyVars /\ TreeKey' = TreeKey
  BY HeldIs, KeptKeys
<1>3. CASE UNCHANGED storeVars
  <2>1. data' = data /\ node' = node
    BY <1>3 DEF storeVars
  <2>2. \A l, i : Stored(l, i)' = Stored(l, i) /\ (Sound(l, i)' <=> Sound(l, i))
    BY <1>2, <2>1, TreeFrame
  <2>3. QED
    BY <1>1, <1>2, <2>1, <2>2, HeldIs, HeldParts DEF Honesty
<1>4. CASE BuildStore
  <2>1. state_q' = "S_BUILD_W" /\ state_q = "S_BUILD_W" /\ lvl_q \in 1 .. D /\ D \in Nat
    BY <1>4, WidthFacts, HeldIs DEF BuildStore, IInv, Shape, Levels, In, Building
  <2>2. bj_q \in Nat
    BY <2>1, WidthFacts DEF IInv, Shape, Levels, In, Building
  <2>3. /\ \A l \in 1 .. lvl_q - 1 : \A i \in 0 .. Width(l) - 1 : Sound(l, i)'
        /\ \A l : l = lvl_q => \A i \in 0 .. bj_q : Sound(l, i)'
        /\ \A l \in 0 .. lvl_q - 1 : \A i : Stored(l, i)' = Stored(l, i)
    BY <1>2, <1>4, BuildHonest
  <2>4. PICK l, j : l = lvl_q /\ j = bj_q
    OBVIOUS
  <2>5. cmac'.tag = <<TreeKey, <<Stored(l - 1, 2 * j), Stored(l - 1, 2 * j + 1)>>>>
    BY <1>1, <2>1, <2>4 DEF Honesty
  <2>6. cmac'.tag = <<TreeKey', <<Stored(l - 1, 2 * j)', Stored(l - 1, 2 * j + 1)'>>>>
    <3>1. l - 1 \in 0 .. lvl_q - 1
      BY <2>1, <2>4
    <3>2. QED
      BY <1>2, <2>3, <2>5, <3>1
  <2>7. l = lvl_q' /\ j = bj_q'
    BY <2>4, HeldIs
  <2>8. /\ \A n \in 1 .. l - 1 : \A i \in 0 .. Width(n) - 1 : Sound(n, i)'
        /\ \A i \in 0 .. j - 1 : Sound(l, i)'
    BY <2>2, <2>3, <2>4
  <2>9. ~tamper_q'
    BY <1>1, HeldIs DEF Honesty
  <2>10. QED
    BY <2>1, <2>6, <2>7, <2>8, <2>9
       DEF Honesty, In, Building, Live, Pathing, MacStates, Pass1, Pass2, Writing
<1>5. CASE CommitStore
  <2>1. state_q' = "S_COMMIT" /\ lvl_q \in 1 .. D - 1 /\ D \in Nat
    BY <1>5, WidthFacts, HeldIs DEF CommitStore, IInv, Shape, Levels
  <2>2. /\ \A m \in 0 .. D - 1 : \A i : i = sibling(Idx(op.blk, m)) => Stored(m, i)' = sib_q[m]
        /\ \A l \in 1 .. D - 1 : \A i \in 0 .. Width(l) - 1 : i # Idx(op.blk, l) => Sound(l, i)'
        /\ \A m \in 0 .. lvl_q : \A i : i = Idx(op.blk, m) => Stored(m, i)' = NewNode(m)
    BY <1>2, <1>5, CommitHonest
  <2>3. /\ \A m \in 0 .. D - 1 : sib_q'[m] = Stored(m, sibling(Idx(op.blk, m)))'
        /\ \A m \in 1 .. lvl_q - 1 : Stored(m, Idx(op.blk, m))' = NewNode(m)'
    BY <2>1, <2>2, HeldIs, HeldParts
  <2>4. ~tamper_q'
    BY <1>1, HeldIs DEF Honesty
  <2>5. QED
    BY <2>1, <2>2, <2>3, <2>4, HeldIs
       DEF Honesty, In, Building, Live, Pathing, MacStates, Pass1, Pass2
<1>6. QED
  BY <1>3, <1>4, <1>5, PortIs

\* The AES core where it is not started.
LEMMA CoreQuiet ==
    ASSUME IInv, NEW start \in BOOLEAN, ~start, NEW key, NEW block, Aes!Edge(start, key, block),
           TakeKeystream, ~In({"S_K1T", "S_K1M"}), UNCHANGED keyVars, op'.blk = op.blk,
           Needed' = Needed
    PROVE  /\ CoreBasic'
           /\ ~aes_busy => ~aes_busy'
           /\ ks_valid_q => ks_valid_q'
           /\ Coming => \/ ~aes_busy' /\ Coming'
                        \/ /\ aes_busy /\ aes_busy' /\ ~ks_valid_q' /\ aes_round' = aes_round + 1
                           /\ aes_work' = <<enc_key', ks_block(op'.blk, Needed')>>
                           /\ Pass1 /\ lvl_q = 0
                           /\ state_q = "S_PATH_W" => aes_round + cmac.left >= CmacCycles + 2
<1>1. CoreBasic
  BY DEF IInv, CoreOK
<1>2. /\ aes_busy' \in BOOLEAN /\ aes_done' \in BOOLEAN
      /\ aes_done' => ~aes_busy'
      /\ aes_busy' => aes_round' \in 1 .. Rounds
      /\ ~aes_busy => ~aes_busy' /\ ~aes_done'
      /\ aes_busy /\ aes_busy' => aes_round' = aes_round + 1 /\ aes_work' = aes_work
      /\ aes_busy /\ ~aes_busy' => aes_done' /\ aes_out' = Aes!Encrypt(aes_work[1], aes_work[2])
  BY <1>1, CoreStep
<1>3. /\ ks_valid_q \in BOOLEAN /\ aes_busy \in BOOLEAN /\ aes_done \in BOOLEAN
      /\ aes_done => ~aes_busy
  BY <1>1 DEF CoreBasic
<1>4. /\ aes_done => ks_q' = aes_out /\ ks_valid_q' = TRUE
      /\ ~aes_done => ks_q' = ks_q /\ ks_valid_q' = ks_valid_q
  BY DEF TakeKeystream, In
<1>5. CoreBasic'
  BY <1>2, <1>3, <1>4 DEF CoreBasic
<1>6. ks_valid_q => ks_valid_q'
  BY <1>3, <1>4
<1>7. enc_key' = enc_key /\ \A b, c : Keystream(b, c)' = Keystream(b, c)
  BY KeptKeys
<1>8. Keystream(op.blk, Needed)' = Keystream(op.blk, Needed)
  BY <1>7 DEF Keystream, Aes!Encrypt, ks_block
<1>9. ASSUME aes_busy, ~ks_valid_q, aes_work = <<enc_key, ks_block(op.blk, Needed)>>, Pass1, lvl_q = 0,
             state_q = "S_PATH_W" => aes_round + cmac.left >= CmacCycles + 2
      PROVE  \/ ~aes_busy' /\ Coming'
             \/ /\ aes_busy' /\ ~ks_valid_q' /\ aes_round' = aes_round + 1
                /\ aes_work' = <<enc_key', ks_block(op'.blk, Needed')>>
  <2>1. ~aes_done /\ ~ks_valid_q'
    BY <1>3, <1>4, <1>9
  <2>2. CASE aes_busy'
    BY <1>2, <1>7, <1>9, <2>1, <2>2
  <2>3. CASE ~aes_busy'
    <3>1. aes_done' /\ aes_out' = Keystream(op.blk, Needed)
      BY <1>2, <1>9, <2>3 DEF Keystream
    <3>2. QED
      BY <1>8, <2>1, <2>3, <3>1 DEF Coming
  <2>4. QED
    BY <2>2, <2>3
<1>10. ASSUME ~aes_busy, aes_done, ~ks_valid_q, aes_out = Keystream(op.blk, Needed)
       PROVE  ~aes_busy' /\ Coming'
  BY <1>2, <1>4, <1>8, <1>10 DEF Coming
<1>11. ASSUME ~aes_busy, ks_valid_q, ks_q = Keystream(op.blk, Needed), ~aes_done
       PROVE  ~aes_busy' /\ Coming'
  BY <1>2, <1>3, <1>4, <1>8, <1>11 DEF Coming
<1>12. QED
  BY <1>2, <1>5, <1>6, <1>9, <1>10, <1>11 DEF Coming
LEMMA HeldCore ==
    ASSUME IInv, Held, NEW start \in BOOLEAN, NEW key, NEW block, Aes!Edge(start, key, block),
           start => In({"S_K1T", "S_K1M"}), TakeKeystream, UnitOK',
           state_q = "S_PATH_W" => cmac'.left + 1 >= cmac.left
    PROVE  CoreOK'
<1>1. CASE In({"S_K1T", "S_K1M"})
  <2>1. ks_valid_q' = ks_valid_q /\ CoreBasic
    BY <1>1 DEF TakeKeystream, In, IInv, CoreOK
  <2>2. CoreBasic'
    BY <2>1, CoreStep DEF CoreBasic
  <2>3. QED
    BY <1>1, <2>2, HeldIs DEF CoreOK, In, Building, Live, Pathing, MacStates, Pass1
<1>2. CASE ~In({"S_K1T", "S_K1M"})
  <2>1. UNCHANGED keyVars /\ op'.blk = op.blk /\ Needed' = Needed /\ ~start
    BY <1>2, HeldIs, HeldParts
  <2>2. /\ CoreBasic'
        /\ ~aes_busy => ~aes_busy'
        /\ ks_valid_q => ks_valid_q'
        /\ Coming => \/ ~aes_busy' /\ Coming'
                     \/ /\ aes_busy /\ aes_busy' /\ ~ks_valid_q' /\ aes_round' = aes_round + 1
                        /\ aes_work' = <<enc_key', ks_block(op'.blk, Needed')>>
                        /\ Pass1 /\ lvl_q = 0
                        /\ state_q = "S_PATH_W" => aes_round + cmac.left >= CmacCycles + 2
    BY <1>2, <2>1, CoreQuiet
  <2>3. CoreOK
    BY DEF IInv
  <2>4. Pass1 \/ In(MacStates) => Coming'
    <3>1. SUFFICES ASSUME Pass1 \/ In(MacStates), aes_busy' PROVE Coming'
      BY <2>2, <2>3 DEF CoreOK
    <3>2. /\ aes_busy /\ aes_busy' /\ ~ks_valid_q' /\ aes_round' = aes_round + 1
          /\ aes_work' = <<enc_key', ks_block(op'.blk, Needed')>>
          /\ Pass1 /\ lvl_q = 0
          /\ state_q = "S_PATH_W" => aes_round + cmac.left >= CmacCycles + 2
      BY <2>2, <2>3, <3>1 DEF CoreOK
    <3>3. state_q' = "S_PATH_W" => aes_round' + cmac'.left >= CmacCycles + 2
      <4>1. SUFFICES ASSUME state_q' = "S_PATH_W" PROVE aes_round' + cmac'.left >= CmacCycles + 2
        OBVIOUS
      <4>2. /\ aes_round \in Nat /\ cmac.left \in Nat /\ cmac'.left \in Nat /\ CmacCycles \in Nat
            /\ cmac'.left + 1 >= cmac.left
        BY <3>2, <4>1, LatencyAssumption, HeldIs DEF IInv, UnitOK, CoreOK, CoreBasic
      <4>3. aes_round + cmac.left >= CmacCycles + 2 /\ aes_round' = aes_round + 1
        BY <3>2, <4>1, HeldIs
      <4>4. QED
        BY <4>2, <4>3
    <3>4. QED
      BY <3>2, <3>3, HeldIs, HeldParts DEF Coming, ks_block
  <2>5. QED
    BY <2>2, <2>3, <2>4, HeldIs, HeldParts DEF CoreOK
<1>3. QED
  BY <1>1, <1>2

LEMMA HeldStep ==
    ASSUME IInv, Held, StorePort, lies' \in Nat, lies' = 0 => lies = 0, UnitOK', CoreOK',
           In({"S_PATH_W", "S_DMAC_W", "S_BUILD_W"}) => cmac'.tag = cmac.tag
    PROVE  IInv'
<1>1. Shape' /\ CounterOK' /\ PathOK'
  BY HeldRegs
<1>2. StoreShape' /\ Known'
  BY PortKeeps, HeldIs
<1>3. Prepared' /\ DataOK' /\ TagOK'
  BY HeldPrepared, HeldData, HeldTag
<1>4. ~reused' => Fresh'
  BY HeldFresh, HeldIs
<1>5. lies' = 0 => Honesty'
  BY HeldHonest DEF In
<1>6. QED
  BY <1>1, <1>2, <1>3, <1>4, <1>5 DEF IInv

LEMMA WaitingKeeps ==
    ASSUME IInv, Waiting, TakeKeystream, StorePort
    PROVE  IInv'
<1>1. Held /\ lies' = lies /\ lies \in Nat
  BY DEF Waiting, Hold, Held, ghostVars, IInv, Shape
<1>2. UnitOK' /\ cmac'.tag = cmac.tag /\ cmac'.left + 1 >= cmac.left
  <2>1. UnitOK /\ Cmac!UnitEdge(FALSE, Zero, Zero, FALSE)
    BY DEF Waiting, NoCmac, IInv
  <2>2. /\ UnitOK' /\ cmac'.tag = cmac.tag
        /\ Cmac!busy_o => cmac'.left = cmac.left - 1
        /\ ~Cmac!busy_o => cmac'.left = cmac.left
    BY <2>1, UnitStep
  <2>3. QED
    BY <2>1, <2>2 DEF UnitOK
<1>3. CoreOK'
  <2>1. Aes!Edge(FALSE, Zero, Zero)
    BY DEF Waiting, NoAes
  <2>2. QED
    BY <1>1, <1>2, <2>1, HeldCore
<1>4. QED
  BY <1>1, <1>2, <1>3, HeldStep

LEMMA BusyInitKeeps ==
    ASSUME IInv, BusyInit, TakeKeystream, StorePort
    PROVE  IInv'
<1>1. Held
  BY DEF BusyInit, Held
<1>2. lies' \in Nat /\ (lies' = 0 => lies = 0)
  <2>1. lies \in Nat
    BY DEF IInv, Shape
  <2>2. lies' = lies \/ lies' = lies + 1
    BY DEF BusyInit, BuildStart, PathStart, Honest
  <2>3. QED
    BY <2>1, <2>2
<1>3. \/ Cmac!UnitEdge(FALSE, Zero, Zero, FALSE)
      \/ /\ ~In({"S_PATH_W", "S_DMAC_W", "S_BUILD_W"})
         /\ \E start \in BOOLEAN : \E key, msg : Cmac!UnitEdge(start, key, msg, FALSE)
  <2>1. CASE state_q = "S_BUILD" /\ BuildStart
    BY <2>1 DEF BuildStart, StartCmac, In
  <2>2. CASE state_q = "S_PATH" /\ \E s \in PathSibs : PathStart(s)
    BY <2>2 DEF PathStart, StartCmac, In
  <2>3. CASE state_q = "S_DMAC" /\ DataMacStart
    <3>1. (~Cmac!busy_o) \in BOOLEAN
      BY DEF Cmac!busy_o
    <3>2. QED
      BY <2>3, <3>1 DEF DataMacStart, In
  <2>4. CASE NoCmac
    BY <2>4 DEF NoCmac
  <2>5. QED
    BY <2>1, <2>2, <2>3, <2>4 DEF BusyInit
<1>4. /\ UnitOK'
      /\ In({"S_PATH_W", "S_DMAC_W", "S_BUILD_W"}) => cmac'.tag = cmac.tag /\ cmac'.left + 1 >= cmac.left
  <2>1. UnitOK
    BY DEF IInv
  <2>2. CASE Cmac!UnitEdge(FALSE, Zero, Zero, FALSE)
    <3>1. /\ UnitOK' /\ cmac'.tag = cmac.tag
          /\ Cmac!busy_o => cmac'.left = cmac.left - 1
          /\ ~Cmac!busy_o => cmac'.left = cmac.left
      BY <2>1, <2>2, UnitStep
    <3>2. QED
      BY <2>1, <3>1 DEF UnitOK
  <2>3. CASE /\ ~In({"S_PATH_W", "S_DMAC_W", "S_BUILD_W"})
             /\ \E start \in BOOLEAN : \E key, msg : Cmac!UnitEdge(start, key, msg, FALSE)
    BY <2>1, <2>3, UnitStep
  <2>4. QED
    BY <1>3, <2>2, <2>3
<1>5. CoreOK'
  <2>1. PICK start \in BOOLEAN : start = (state_q \in {"S_K1T", "S_K1M"} /\ ~aes_busy /\ ~aes_done)
    OBVIOUS
  <2>2. \E key : Aes!Edge(start, key, Zero)
    BY <2>1 DEF BusyInit, SubkeyStart
  <2>3. start => In({"S_K1T", "S_K1M"})
    BY <2>1 DEF In
  <2>4. state_q = "S_PATH_W" => cmac'.left + 1 >= cmac.left
    BY <1>4 DEF In
  <2>5. QED
    BY <1>1, <1>4, <2>2, <2>3, <2>4, HeldCore
<1>6. QED
  BY <1>1, <1>2, <1>4, <1>5, HeldStep
-----------------------------------------------------------------------------
(* The subkeys and the fresh tree.                                           *)

\* No request is in flight.
LEMMA NoRequest ==
    ASSUME In(Young \cup {"S_EMPTY"})'
    PROVE  CounterOK' /\ Prepared' /\ PathOK'
<1>1. ~Pass1' /\ ~Pass2' /\ ~Writing' /\ ~In(MacStates)' /\ state_q' # "S_COMMIT"
  BY DEF In, Young, Pass1, Pass2, Writing, Pathing, MacStates
<1>2. QED
  BY <1>1 DEF CounterOK, Prepared, PathOK

LEMMA SubkeysKeeps ==
    ASSUME IInv, Subkeys, TakeKeystream, StorePort
    PROVE  IInv'
<1>1. /\ state_q \in {"S_K1T", "S_K1M"} /\ state_q' \in {"S_K1T", "S_K1M", "S_BUILD"}
      /\ key_q' = key_q /\ op' = op /\ h_q' = h_q /\ pass2_q' = pass2_q /\ sib_q' = sib_q
      /\ newnode_q' = newnode_q /\ tamper_q' = tamper_q /\ truth' = truth /\ reused' = reused
      /\ loaded' = loaded /\ lies' = lies
      /\ state_q' = "S_BUILD" => lvl_q' = 1 /\ bj_q' = 0 /\ aes_done
  BY DEF Subkeys, ghostVars
<1>2. UNCHANGED storeVars
  BY <1>1, PortIs DEF BuildStore, CommitStore
<1>3. data' = data /\ node' = node /\ seen' = seen
  BY <1>2 DEF storeVars
<1>4. D \in Nat /\ D >= 2 /\ Width(1) \in Nat \ {0}
  BY WidthFacts
<1>5. Shape'
  <2>1. Levels'
    BY <1>1, <1>4 DEF Levels, In, Building, Pathing, MacStates
  <2>2. QED
    BY <1>1, <2>1 DEF IInv, Shape, MitStates
<1>6. StoreShape' /\ Known'
  BY <1>1, PortKeeps
<1>7. UnitOK'
  BY UnitStep DEF Subkeys, NoCmac, IInv
<1>8. CoreOK'
  <2>1. PICK start \in BOOLEAN : start = (state_q \in {"S_K1T", "S_K1M"} /\ ~aes_busy /\ ~aes_done)
    OBVIOUS
  <2>2. \E key : Aes!Edge(start, key, Zero)
    BY <2>1 DEF Subkeys, SubkeyStart
  <2>3. CoreBasic /\ ks_valid_q' = ks_valid_q
    BY <1>1 DEF IInv, CoreOK, TakeKeystream
  <2>4. /\ CoreBasic'
        /\ ~aes_busy /\ ~start => ~aes_busy'
    BY <2>2, <2>3, CoreStep DEF CoreBasic
  <2>5. state_q' = "S_BUILD" => ~aes_busy'
    BY <1>1, <2>1, <2>3, <2>4 DEF CoreBasic
  <2>6. QED
    BY <1>1, <2>4, <2>5 DEF CoreOK, In, Building, Live, Pathing, MacStates, Pass1
<1>9. CounterOK' /\ Prepared' /\ PathOK'
  BY <1>1, NoRequest DEF In, Young
<1>10. TagOK'
  BY <1>1 DEF TagOK, In, Pathing, MacStates, Pass1
<1>11. DataOK'
  BY <1>1, <1>3 DEF DataOK, IInv, In, Young, Live, Pathing, MacStates
<1>12. ASSUME ~reused' PROVE Fresh'
  <2>1. /\ Fresh /\ KeystreamOnce /\ NewKeys
        /\ \A t \in seen.node : \A x, k1 : t # <<<<tree_key, k1>>, x>>
    BY <1>1, <1>12 DEF IInv, Fresh, In, Young
  <2>2. KeystreamOnce'
    BY <1>1, <1>3, <2>1, OnceFrame
  <2>3. NewKeys'
    <3>1. mac_key' = mac_key /\ \A b, c : Keystream(b, c)' = Keystream(b, c)
      BY <1>1 DEF mac_key, Keystream, Aes!Encrypt, ks_block, enc_key
    <3>2. QED
      BY <1>3, <2>1, <3>1 DEF NewKeys, encrypt
  <2>4. tree_key' = tree_key
    BY <1>1 DEF tree_key
  <2>5. ASSUME NEW t \in seen'.node PROVE FreshNode(t)'
    <3>1. \A z : t # <<TreeKey', z>>
      BY <1>3, <2>1, <2>4 DEF TreeKey
    <3>2. SUFFICES
            ASSUME NEW n \in Nat \ {0}, NEW p, NEW s, p[n] = t,
                   \A m \in 0 .. n - 1 :
                      p[m + 1] \in {<<TreeKey', <<p[m], s[m]>>>>, <<TreeKey', <<s[m], p[m]>>>>}
            PROVE  FALSE
      BY DEF FreshNode
    <3>3. n - 1 \in 0 .. n - 1 /\ (n - 1) + 1 = n
      OBVIOUS
    <3>4. p[n] \in {<<TreeKey', <<p[n - 1], s[n - 1]>>>>, <<TreeKey', <<s[n - 1], p[n - 1]>>>>}
      BY <3>2, <3>3
    <3>5. QED
      BY <3>1, <3>2, <3>4
  <2>6. QED
    BY <1>1, <1>3, <2>1, <2>2, <2>3, <2>4, <2>5
       DEF Fresh, In, Young, Building, Live, Pathing, MacStates, Pass2
<1>13. ASSUME lies' = 0 PROVE Honesty'
  <2>1. ~tamper_q'
    BY <1>1, <1>13 DEF IInv, Honesty
  <2>2. QED
    BY <1>1, <2>1 DEF Honesty, In, Building, Live, Pathing, MacStates, Pass1, Pass2, Writing
<1>14. QED
  BY <1>5, <1>6, <1>7, <1>8, <1>9, <1>10, <1>11, <1>12, <1>13 DEF IInv
\* The children of a node of the fresh tree.
LEMMA BuildChildren ==
    ASSUME IInv, In(Building)
    PROVE  /\ lvl_q \in 1 .. D /\ D \in Nat /\ bj_q \in Nat /\ lvl_q - 1 \in 0 .. D - 1
           /\ 2 * bj_q \in 0 .. Width(lvl_q - 1) - 1 /\ 2 * bj_q + 1 \in 0 .. Width(lvl_q - 1) - 1
<1>1. lvl_q \in 1 .. D /\ D \in Nat /\ bj_q \in 0 .. Width(lvl_q) - 1 /\ Width(lvl_q) \in Nat
  BY WidthFacts DEF IInv, Shape, Levels
<1>2. PICK l \in 0 .. D - 1 : l = lvl_q - 1 /\ lvl_q = l + 1
  BY <1>1
<1>3. Width(l) = 2 * Width(lvl_q)
  BY <1>2, WidthFacts
<1>4. QED
  BY <1>1, <1>2, <1>3

LEMMA BuildTag ==
    ASSUME IInv, In(Building), BuildStart, ~Cmac!busy_o
    PROVE  /\ UnitOK' /\ lies' \in Nat /\ (lies' = 0 => lies = 0)
           /\ \E x, y : /\ cmac'.tag = <<TreeKey, <<x, y>>>>
                        /\ IF lvl_q = 1 THEN x = leaf(2 * bj_q, 0) /\ y = leaf(2 * bj_q + 1, 0)
                           ELSE x \in seen.node \cup {Junk} /\ y \in seen.node \cup {Junk}
           /\ lies' = 0 =>
                 cmac'.tag = <<TreeKey, <<Stored(lvl_q - 1, 2 * bj_q), Stored(lvl_q - 1, 2 * bj_q + 1)>>>>
<1>1. UnitOK /\ lies \in Nat
  BY DEF IInv, Shape
<1>2. /\ lvl_q \in 1 .. D /\ D \in Nat /\ bj_q \in Nat /\ lvl_q - 1 \in 0 .. D - 1
      /\ 2 * bj_q \in 0 .. Width(lvl_q - 1) - 1 /\ 2 * bj_q + 1 \in 0 .. Width(lvl_q - 1) - 1
  BY BuildChildren
<1>3. CASE lvl_q = 1
  <2>1. StartCmac(tree_key, k1_tree_q, <<leaf(2 * bj_q, 0), leaf(2 * bj_q + 1, 0)>>) /\ lies' = lies
    BY <1>3 DEF BuildStart
  <2>2. UnitOK' /\ cmac'.tag = <<TreeKey, <<leaf(2 * bj_q, 0), leaf(2 * bj_q + 1, 0)>>>>
    BY <1>1, <2>1, UnitStep DEF StartCmac, TreeKey
  <2>3. 2 * bj_q \in Blocks /\ 2 * bj_q + 1 \in Blocks
    BY <1>2, <1>3, WidthFacts
  <2>4. data[2 * bj_q].ctr = 0 /\ data[2 * bj_q + 1].ctr = 0
    BY <2>3 DEF IInv, DataOK, In, Building, Young, EmptyBlock
  <2>5. /\ Stored(lvl_q - 1, 2 * bj_q) = leaf(2 * bj_q, 0)
        /\ Stored(lvl_q - 1, 2 * bj_q + 1) = leaf(2 * bj_q + 1, 0)
    BY <1>3, <2>4 DEF Stored
  <2>6. QED
    BY <1>1, <1>3, <2>1, <2>2, <2>5
<1>4. CASE lvl_q # 1
  <2>1. PICK a, b : a = <<lvl_q - 1, 2 * bj_q>> /\ b = <<lvl_q - 1, 2 * bj_q + 1>>
    OBVIOUS
  <2>2. PICK x \in NodeReads(a), y \in NodeReads(b) :
           /\ StartCmac(tree_key, k1_tree_q, <<x, y>>)
           /\ Honest(<<x, y>>, <<node[a], node[b]>>)
    BY <1>4, <2>1 DEF BuildStart
  <2>3. a \in NodeAddrs /\ b \in NodeAddrs
    <3>1. lvl_q - 1 \in 1 .. D - 1
      BY <1>2, <1>4
    <3>2. QED
      BY <1>2, <2>1, <3>1, NodeAddress
  <2>4. x \in seen.node \cup {Junk} /\ y \in seen.node \cup {Junk}
    BY <2>2, <2>3 DEF NodeReads, IInv, StoreShape
  <2>5. UnitOK' /\ cmac'.tag = <<TreeKey, <<x, y>>>>
    BY <1>1, <2>2, UnitStep DEF StartCmac, TreeKey
  <2>6. lies' = IF <<x, y>> = <<node[a], node[b]>> THEN lies ELSE lies + 1
    BY <2>2 DEF Honest
  <2>7. Stored(lvl_q - 1, 2 * bj_q) = node[a] /\ Stored(lvl_q - 1, 2 * bj_q + 1) = node[b]
    BY <1>2, <1>4, <2>1 DEF Stored
  <2>8. lies' \in Nat /\ (lies' = 0 => lies = 0 /\ <<x, y>> = <<node[a], node[b]>>)
    BY <1>1, <2>6
  <2>9. QED
    BY <1>4, <2>4, <2>5, <2>7, <2>8
<1>5. QED
  BY <1>3, <1>4

LEMMA BuildKeeps ==
    ASSUME IInv, Build, TakeKeystream, StorePort
    PROVE  IInv'
<1>1. /\ state_q = "S_BUILD" /\ state_q' = "S_BUILD_W" /\ ~Cmac!busy_o /\ BuildStart
      /\ UNCHANGED keyVars /\ op' = op /\ lvl_q' = lvl_q /\ bj_q' = bj_q /\ key_q' = key_q
      /\ pass2_q' = pass2_q /\ sib_q' = sib_q /\ newnode_q' = newnode_q /\ tamper_q' = tamper_q
      /\ truth' = truth /\ reused' = reused /\ loaded' = loaded
      /\ Aes!Edge(FALSE, Zero, Zero)
  BY DEF Build, opVars, keyVars, NoAes
<1>2. In(Building)
  BY <1>1 DEF In, Building
<1>3. UNCHANGED storeVars
  BY <1>1, PortIs DEF BuildStore, CommitStore
<1>4. data' = data /\ node' = node /\ seen' = seen
  BY <1>3 DEF storeVars
<1>5. /\ UnitOK' /\ lies' \in Nat /\ (lies' = 0 => lies = 0)
      /\ \E x, y : /\ cmac'.tag = <<TreeKey, <<x, y>>>>
                   /\ IF lvl_q = 1 THEN x = leaf(2 * bj_q, 0) /\ y = leaf(2 * bj_q + 1, 0)
                      ELSE x \in seen.node \cup {Junk} /\ y \in seen.node \cup {Junk}
      /\ lies' = 0 =>
            cmac'.tag = <<TreeKey, <<Stored(lvl_q - 1, 2 * bj_q), Stored(lvl_q - 1, 2 * bj_q + 1)>>>>
  BY <1>1, <1>2, BuildTag
<1>6. Shape'
  BY <1>1, <1>5 DEF IInv, Shape, Levels, MitStates, In, Building, Pathing, MacStates
<1>7. StoreShape' /\ Known'
  BY <1>1, PortKeeps
<1>8. CoreOK'
  <2>1. Needed' = Needed /\ op'.blk = op.blk /\ ~In({"S_K1T", "S_K1M"})
    BY <1>1 DEF Needed, In
  <2>2. CoreBasic' /\ (~aes_busy => ~aes_busy')
    BY <1>1, <2>1, CoreQuiet
  <2>3. ~aes_busy
    BY <1>1 DEF IInv, CoreOK, In, Building, Pass1, Pathing
  <2>4. QED
    BY <1>1, <2>2, <2>3 DEF CoreOK, In, Building, Live, Pathing, MacStates, Pass1
<1>9. CounterOK' /\ Prepared' /\ PathOK'
  BY <1>1, NoRequest DEF In, Young
<1>10. TreeKey' = TreeKey
  BY <1>1, KeptKeys
<1>11. TagOK'
  BY <1>1, <1>4, <1>5, <1>10 DEF TagOK, In, Pathing, MacStates, Pass1
<1>12. DataOK'
  BY <1>1, <1>4 DEF DataOK, IInv, In, Young, Live, Pathing, MacStates
<1>13. ASSUME ~reused' PROVE Fresh'
  <2>1. /\ KeystreamOnce /\ NewKeys
        /\ \A t \in seen.node : FreshNode(t)
    BY <1>1, <1>13 DEF IInv, Fresh, In, Young, Building
  <2>2. KeystreamOnce' /\ NewKeys' /\ \A t \in seen'.node : FreshNode(t)'
    BY <1>1, <1>4, <2>1, OnceFrame, KeysFrame, NodeFrame
  <2>3. QED
    BY <1>1, <2>2 DEF Fresh, In, Young, Building, Live, Pathing, MacStates, Pass2
<1>14. ASSUME lies' = 0 PROVE Honesty'
  <2>1. Honesty /\ \A l, i : Stored(l, i)' = Stored(l, i) /\ (Sound(l, i)' <=> Sound(l, i))
    BY <1>1, <1>4, <1>5, <1>14, TreeFrame DEF IInv
  <2>2. /\ \A l \in 1 .. lvl_q - 1 : \A i \in 0 .. Width(l) - 1 : Sound(l, i)'
        /\ lvl_q < D => \A i \in 0 .. bj_q - 1 : Sound(lvl_q, i)'
    BY <1>1, <1>2, <2>1 DEF Honesty
  <2>3. cmac'.tag = <<TreeKey', <<Stored(lvl_q - 1, 2 * bj_q)', Stored(lvl_q - 1, 2 * bj_q + 1)'>>>>
    BY <1>1, <1>5, <1>10, <1>14, <2>1
  <2>4. QED
    BY <1>1, <2>1, <2>2, <2>3
       DEF Honesty, In, Building, Live, Pathing, MacStates, Pass1, Pass2, Writing
<1>15. QED
  BY <1>5, <1>6, <1>7, <1>8, <1>9, <1>11, <1>12, <1>13, <1>14 DEF IInv
\* The core stays idle and the CMAC unit is not started.
LEMMA EnginesIdle ==
    ASSUME IInv, ~aes_busy, ~In({"S_K1T", "S_K1M"}), NoAes, NoCmac, TakeKeystream,
           UNCHANGED keyVars, op'.blk = op.blk, Needed' = Needed
    PROVE  /\ UnitOK' /\ cmac'.tag = cmac.tag
           /\ CoreBasic' /\ ~aes_busy' /\ (ks_valid_q => ks_valid_q') /\ (Coming => Coming')
<1>1. UnitOK' /\ cmac'.tag = cmac.tag
  BY UnitStep DEF NoCmac, IInv
<1>2. Aes!Edge(FALSE, Zero, Zero)
  BY DEF NoAes
<1>3. /\ CoreBasic' /\ ~aes_busy' /\ (ks_valid_q => ks_valid_q')
      /\ Coming => Coming'
  BY <1>2, CoreQuiet
<1>4. QED
  BY <1>1, <1>3

LEMMA BuiltKeeps ==
    ASSUME IInv, Built, TakeKeystream, StorePort
    PROVE  IInv'
<1>1. /\ state_q = "S_BUILD_W" /\ cmac.done /\ NoAes /\ NoCmac
      /\ UNCHANGED keyVars /\ op' = op /\ key_q' = key_q /\ h_q' = h_q
      /\ pass2_q' = pass2_q /\ sib_q' = sib_q /\ newnode_q' = newnode_q /\ tamper_q' = tamper_q
      /\ truth' = truth /\ reused' = reused /\ loaded' = loaded /\ lies' = lies
  BY DEF Built, keyVars, ghostVars
<1>2. In(Building) /\ In(Young)
  BY <1>1 DEF In, Building, Young
<1>3. lvl_q \in 1 .. D /\ D \in Nat /\ D >= 2 /\ bj_q \in 0 .. Width(lvl_q) - 1
  BY <1>2, WidthFacts DEF IInv, Shape, Levels
<1>4. Needed' = Needed /\ op'.blk = op.blk /\ ~In({"S_K1T", "S_K1M"}) /\ ~aes_busy
  BY <1>1 DEF Needed, In, IInv, CoreOK, Building, Pass1, Pathing
<1>5. UnitOK' /\ CoreBasic' /\ ~aes_busy'
  BY <1>1, <1>4, EnginesIdle
<1>6. StoreShape' /\ Known'
  BY <1>1, PortKeeps
<1>7. TreeKey' = TreeKey
  BY <1>1, KeptKeys
<1>8. data' = data /\ seen'.ct = seen.ct /\ seen'.mac = seen.mac
  BY <1>1, PortIs DEF storeVars, BuildStore, CommitStore
<1>9. CASE lvl_q < D
  <2>1. /\ state_q' = "S_BUILD"
        /\ IF bj_q = Width(lvl_q) - 1
           THEN bj_q' = 0 /\ lvl_q' = lvl_q + 1
           ELSE bj_q' = bj_q + 1 /\ lvl_q' = lvl_q
    BY <1>3, <1>9 DEF Built, last_in_level, Width
  <2>2. BuildStore
    <3>1. Store(data, <<lvl_q, bj_q>>, cmac.tag)
      BY <1>1, <1>9 DEF StorePort
    <3>2. {data[b].ct : b \in Blocks} \subseteq seen.ct /\ {data[b].mac : b \in Blocks} \subseteq seen.mac
      BY DEF IInv, StoreShape
    <3>3. QED
      BY <1>1, <1>9, <3>1, <3>2 DEF Store, BuildStore
  <2>3. lvl_q' \in 1 .. D /\ bj_q' \in 0 .. Width(lvl_q') - 1
    <3>1. CASE bj_q = Width(lvl_q) - 1
      <4>1. bj_q' = 0 /\ lvl_q' = lvl_q + 1 /\ lvl_q + 1 \in 0 .. D
        BY <1>3, <1>9, <2>1, <3>1
      <4>2. Width(lvl_q + 1) \in Nat \ {0}
        BY <4>1, WidthFacts
      <4>3. 0 \in 0 .. Width(lvl_q + 1) - 1
        BY <4>2
      <4>4. lvl_q' \in 1 .. D
        BY <1>3, <4>1
      <4>5. QED
        BY <4>1, <4>3, <4>4
    <3>2. CASE bj_q # Width(lvl_q) - 1
      <4>1. bj_q' = bj_q + 1 /\ lvl_q' = lvl_q
        BY <2>1, <3>2
      <4>2. Width(lvl_q) \in Nat
        BY <1>3, WidthFacts
      <4>3. bj_q + 1 \in 0 .. Width(lvl_q) - 1
        BY <1>3, <3>2, <4>2
      <4>4. QED
        BY <1>3, <4>1, <4>3
    <3>3. QED
      BY <3>1, <3>2
  <2>4. Shape'
    BY <1>1, <2>1, <2>3 DEF IInv, Shape, Levels, MitStates, In, Building, Pathing, MacStates
  <2>5. CoreOK'
    BY <1>5, <2>1 DEF CoreOK, In, Building, Live, Pathing, MacStates, Pass1
  <2>6. CounterOK' /\ Prepared' /\ PathOK'
    BY <2>1, NoRequest DEF In, Young
  <2>7. TagOK'
    BY <2>1 DEF TagOK, In, Pathing, MacStates, Pass1
  <2>8. DataOK'
    BY <1>1, <1>2, <1>8, <2>1 DEF DataOK, IInv, In, Young, Live, Pathing, MacStates
  <2>9. ASSUME ~reused' PROVE Fresh'
    <3>1. KeystreamOnce /\ NewKeys /\ \A t \in seen.node : FreshNode(t)
      BY <1>1, <1>2, <2>9 DEF IInv, Fresh
    <3>2. FreshNode(cmac.tag)
      BY <1>1, <2>9, BuiltNodeIsFresh
    <3>3. KeystreamOnce' /\ NewKeys'
      BY <1>1, <1>8, <3>1, OnceFrame, KeysFrame
    <3>4. \A t \in seen'.node : FreshNode(t)'
      BY <1>1, <2>2, <3>1, <3>2, NodeFrame DEF BuildStore
    <3>5. QED
      BY <2>1, <3>3, <3>4 DEF Fresh, In, Young, Building, Live, Pathing, MacStates, Pass2
  <2>10. ASSUME lies' = 0 PROVE Honesty'
    <3>1. /\ \A l \in 1 .. lvl_q - 1 : \A i \in 0 .. Width(l) - 1 : Sound(l, i)'
          /\ \A l : l = lvl_q => \A i \in 0 .. bj_q : Sound(l, i)'
      BY <1>1, <2>2, <2>10, BuildHonest
    <3>2. ~tamper_q'
      BY <1>1, <2>10 DEF IInv, Honesty
    <3>3. PICK k : k = lvl_q'
      OBVIOUS
    <3>4. /\ \A l \in 1 .. k - 1 : \A i \in 0 .. Width(l) - 1 : Sound(l, i)'
          /\ \A i \in 0 .. bj_q' - 1 : Sound(k, i)'
      <4>1. CASE bj_q = Width(lvl_q) - 1
        <5>1. k = lvl_q + 1 /\ bj_q' = 0
          BY <2>1, <3>3, <4>1
        <5>2. \A i \in 0 .. Width(lvl_q) - 1 : i \in 0 .. bj_q
          BY <4>1
        <5>3. ASSUME NEW l \in 1 .. k - 1 PROVE l = lvl_q \/ l \in 1 .. lvl_q - 1
          BY <1>3, <5>1
        <5>4. QED
          BY <3>1, <5>1, <5>2, <5>3
      <4>2. CASE bj_q # Width(lvl_q) - 1
        <5>1. k = lvl_q /\ bj_q' - 1 = bj_q
          BY <1>3, <2>1, <3>3, <4>2, WidthFacts
        <5>2. QED
          BY <3>1, <5>1
      <4>3. QED
        BY <4>1, <4>2
    <3>5. QED
      BY <2>1, <3>2, <3>3, <3>4
         DEF Honesty, In, Building, Live, Pathing, MacStates, Pass1, Pass2, Writing
  <2>11. QED
    BY <1>5, <1>6, <2>4, <2>5, <2>6, <2>7, <2>8, <2>9, <2>10 DEF IInv
<1>10. CASE lvl_q = D
  <2>1. state_q' = "S_IDLE" /\ root_q' = cmac.tag
    BY <1>3, <1>10 DEF Built
  <2>2. UNCHANGED storeVars
    BY <1>1, <1>3, <1>10, PortIs DEF BuildStore, CommitStore
  <2>3. node' = node
    BY <2>2 DEF storeVars
  <2>4. Shape'
    BY <1>1, <2>1 DEF IInv, Shape, Levels, MitStates, In, Building, Pathing, MacStates
  <2>5. CoreOK'
    BY <1>5, <2>1 DEF CoreOK, In, Building, Live, Pathing, MacStates, Pass1
  <2>6. CounterOK' /\ Prepared' /\ PathOK' /\ TagOK'
    BY <2>1 DEF CounterOK, Prepared, PathOK, TagOK, In, Pathing, MacStates, Pass1, Pass2, Writing
  <2>7. \A b \in Blocks : data[b].ctr = 0 /\ truth[b] = ZeroWord
    BY <1>2 DEF IInv, DataOK, EmptyBlock
  <2>8. DataOK'
    BY <1>1, <1>8, <2>1, <2>7 DEF DataOK, IInv, In, Young, Word
  <2>9. ASSUME ~reused' PROVE Fresh'
    <3>1. KeystreamOnce /\ NewKeys
      BY <1>1, <1>2, <2>9 DEF IInv, Fresh
    <3>2. FreshNode(cmac.tag)
      BY <1>1, <2>9, BuiltNodeIsFresh
    <3>3. KeystreamOnce' /\ NewKeys'
      BY <1>1, <1>8, <3>1, OnceFrame, KeysFrame
    <3>4. Latest'
      BY <3>3 DEF Latest, NewKeys, MacKey
    <3>5. Bound'
      <4>1. \A b \in Blocks : Counter(b)' = 0
        BY <1>8, <2>1, <2>7 DEF Counter
      <4>2. QED
        BY <1>7, <2>1, <3>2, <4>1, FreshRoot DEF Bound
    <3>6. QED
      BY <2>1, <3>3, <3>4, <3>5 DEF Fresh, In, Young, Building, Pathing, MacStates, Pass2
  <2>10. ASSUME lies' = 0 PROVE Honesty'
    <3>1. Honesty /\ \A l, i : Stored(l, i)' = Stored(l, i) /\ (Sound(l, i)' <=> Sound(l, i))
      BY <1>1, <1>8, <2>3, <2>10, TreeFrame DEF IInv
    <3>2. \A l \in 1 .. D - 1 : \A i \in 0 .. Width(l) - 1 : Sound(l, i)'
      BY <1>2, <1>10, <3>1 DEF Honesty
    <3>3. bj_q = 0
      BY <1>3, <1>10, WidthFacts
    <3>4. 2 * bj_q = 0 /\ 2 * bj_q + 1 = 1
      BY <3>3
    <3>5. root_q' = <<TreeKey, <<Stored(D - 1, 0), Stored(D - 1, 1)>>>>
      BY <1>1, <1>10, <2>1, <3>1, <3>4 DEF Honesty
    <3>6. root_q' = <<TreeKey', <<Stored(D - 1, 0)', Stored(D - 1, 1)'>>>>
      BY <1>7, <3>1, <3>5
    <3>7. ~tamper_q'
      BY <1>1, <3>1 DEF Honesty
    <3>8. QED
      BY <2>1, <3>2, <3>6, <3>7 DEF Honesty, In, Building, Pathing, MacStates, Pass1, Pass2, Writing
  <2>11. QED
    BY <1>5, <1>6, <2>4, <2>5, <2>6, <2>8, <2>9, <2>10 DEF IInv
<1>11. QED
  BY <1>3, <1>9, <1>10
-----------------------------------------------------------------------------
(* Steps of a request before its commit: the storage and the root stay.      *)

Quiet == Live \ {"S_COMMIT"}

Flat ==
    /\ In(Quiet) /\ In(Quiet)'
    /\ UNCHANGED <<keyVars, storeVars, root_q, truth, reused, loaded>>

LEMMA FlatIs ==
    ASSUME IInv, In(Quiet)', In(Quiet), StorePort, UNCHANGED <<keyVars, root_q, truth, reused, loaded>>
    PROVE  Flat
BY PortIs DEF Flat, In, Quiet, Live, Pathing, MacStates, BuildStore, CommitStore

LEMMA FlatFacts ==
    ASSUME Flat
    PROVE  /\ UNCHANGED keyVars /\ key_q' = key_q
           /\ data' = data /\ node' = node /\ seen' = seen
           /\ root_q' = root_q /\ truth' = truth /\ reused' = reused /\ loaded' = loaded
           /\ TreeKey' = TreeKey /\ MacKey' = MacKey /\ \A b, c : Keystream(b, c)' = Keystream(b, c)
           /\ In(Live) /\ In(Live)' /\ state_q # "S_COMMIT" /\ state_q' # "S_COMMIT"
           /\ ~In(Young)' /\ ~In(Building)' /\ ~In({"S_K1T", "S_K1M"})
BY KeptKeys
   DEF Flat, In, Quiet, Live, Pathing, MacStates, Young, Building, keyVars, storeVars

LEMMA FlatData ==
    ASSUME IInv, Flat
    PROVE  DataOK'
<1>1. \A b : Word(b)' = Word(b)
  BY FlatFacts DEF Word
<1>2. DataOK
  BY DEF IInv
<1>3. QED
  BY <1>1, <1>2, FlatFacts DEF DataOK, encrypt

LEMMA FlatFresh ==
    ASSUME IInv, Flat, ~reused,
           In(MacStates)' \/ Pass2' => op'.old_ctr = data[op'.blk].ctr,
           state_q' = "S_RESP" /\ ~op'.write /\ rsp_q'.status = "OK" => rsp_q'.rdata = truth[op'.blk]
    PROVE  Fresh'
<1>1. KeystreamOnce /\ Bound /\ Latest
  BY FlatFacts DEF IInv, Fresh
<1>2. \A b \in Blocks : Counter(b)' = Counter(b)
  BY FlatFacts DEF Counter
<1>3. KeystreamOnce' /\ Bound' /\ Latest'
  BY <1>1, <1>2, FlatFacts, OnceFrame, BoundFrame, LatestFrame
<1>4. ~In({"S_K1T", "S_K1M"})'
  BY FlatFacts DEF In, Young
<1>5. QED
  BY <1>3, <1>4, FlatFacts DEF Fresh

LEMMA FlatTree ==
    ASSUME IInv, Flat, lies = 0
    PROVE  /\ \A l, i : Stored(l, i)' = Stored(l, i) /\ (Sound(l, i)' <=> Sound(l, i))
           /\ \A l \in 1 .. D - 1 : \A i \in 0 .. Width(l) - 1 : Sound(l, i) /\ Sound(l, i)'
           /\ root_q = <<TreeKey, <<Stored(D - 1, 0), Stored(D - 1, 1)>>>>
           /\ root_q' = <<TreeKey', <<Stored(D - 1, 0)', Stored(D - 1, 1)'>>>>
<1>1. \A l, i : Stored(l, i)' = Stored(l, i) /\ (Sound(l, i)' <=> Sound(l, i))
  BY FlatFacts, TreeFrame
<1>2. /\ \A l \in 1 .. D - 1 : \A i \in 0 .. Width(l) - 1 : Sound(l, i)
      /\ root_q = <<TreeKey, <<Stored(D - 1, 0), Stored(D - 1, 1)>>>>
  BY DEF Flat, IInv, Honesty, Quiet
<1>3. root_q' = <<TreeKey', <<Stored(D - 1, 0)', Stored(D - 1, 1)'>>>>
  BY <1>1, <1>2, FlatFacts
<1>4. QED
  BY <1>1, <1>2, <1>3

\* The core has ended when the first tag of a path is there.
LEMMA CoreRested ==
    ASSUME IInv, state_q = "S_PATH_W", cmac.done
    PROVE  ~aes_busy
<1>1. CoreOK /\ UnitOK /\ pass2_q \in BOOLEAN
  BY DEF IInv, Shape
<1>2. CASE pass2_q
  BY <1>1, <1>2 DEF CoreOK, In, Pass1, Live, Pathing
<1>3. CASE ~pass2_q
  <2>1. Coming
    BY <1>1, <1>3 DEF CoreOK, In, Pass1, Pathing
  <2>2. SUFFICES ASSUME aes_busy PROVE FALSE
    OBVIOUS
  <2>3. aes_round + cmac.left >= CmacCycles + 2
    BY <2>1, <2>2 DEF Coming
  <2>4. aes_round \in 1 .. Rounds /\ cmac.left = 0
    BY <1>1, <2>2 DEF CoreOK, CoreBasic, UnitOK
  <2>5. QED
    BY <2>3, <2>4, LatencyAssumption
<1>4. QED
  BY <1>1, <1>2, <1>3
-----------------------------------------------------------------------------
(* The path.                                                                 *)

LEMMA PathIndex ==
    ASSUME IInv, In(Pathing)
    PROVE  /\ D \in Nat /\ D >= 2 /\ lvl_q \in 0 .. D - 1 /\ op.blk \in Blocks
           /\ idx_q = Idx(op.blk, lvl_q) /\ sibling(idx_q) \in 0 .. Width(lvl_q) - 1
<1>1. D \in Nat /\ D >= 2 /\ lvl_q \in 0 .. D - 1 /\ op.blk \in Blocks
  BY WidthFacts DEF IInv, Shape, Levels
<1>2. idx_q = Idx(op.blk, lvl_q)
  BY DEF idx_q, Idx
<1>3. Idx(op.blk, lvl_q) \in 0 .. Width(lvl_q) - 1
  BY <1>1, IdxRange
<1>4. QED
  BY <1>1, <1>2, <1>3, SiblingRange

LEMMA PathTag ==
    ASSUME IInv, state_q = "S_PATH", ~Cmac!busy_o, NEW s, PathStart(s)
    PROVE  /\ UnitOK' /\ cmac'.left = CmacCycles /\ lies' \in Nat /\ (lies' = 0 => lies = 0)
           /\ cmac'.tag = Join(TreeKey, Idx(op.blk, lvl_q), h_q, s)
           /\ lies' = 0 => s = StoredSib
<1>1. UnitOK /\ lies \in Nat
  BY DEF IInv, Shape
<1>2. idx_q = Idx(op.blk, lvl_q)
  BY DEF idx_q, Idx
<1>3. PICK msg : msg = (IF idx_q % 2 = 1 THEN <<s, h_q>> ELSE <<h_q, s>>)
  OBVIOUS
<1>4. Cmac!UnitEdge(TRUE, <<tree_key, k1_tree_q>>, msg, FALSE)
  BY <1>3 DEF PathStart, StartCmac
<1>5. UnitOK' /\ cmac'.left = CmacCycles /\ cmac'.tag = <<TreeKey, msg>>
  BY <1>1, <1>4, UnitStep DEF TreeKey
<1>6. cmac'.tag = Join(TreeKey, Idx(op.blk, lvl_q), h_q, s)
  BY <1>2, <1>3, <1>5 DEF Join
<1>7. lies' = IF s = StoredSib THEN lies ELSE lies + 1
  BY DEF PathStart, Honest
<1>8. QED
  BY <1>1, <1>5, <1>6, <1>7

LEMMA StoredSibIs ==
    ASSUME IInv, lies = 0, state_q = "S_PATH"
    PROVE  StoredSib = Stored(lvl_q, sibling(Idx(op.blk, lvl_q)))
<1>1. idx_q = Idx(op.blk, lvl_q) /\ lvl_q \in 0 .. D - 1
  BY PathIndex DEF In, Pathing
<1>2. CASE pass2_q
  <2>1. Writing /\ Honesty
    BY <1>2 DEF Writing, Pass2, In, Pathing, IInv
  <2>2. QED
    BY <1>1, <1>2, <2>1 DEF Honesty, StoredSib
<1>3. CASE ~pass2_q
  BY <1>1, <1>3 DEF StoredSib, Stored
<1>4. QED
  BY <1>2, <1>3

LEMMA PathKeeps ==
    ASSUME IInv, Path, TakeKeystream, StorePort
    PROVE  IInv'
<1>1. PICK s \in PathSibs : PathStart(s) /\ sib_q' = [sib_q EXCEPT ![lvl_q] = s]
  BY DEF Path
<1>2. /\ state_q = "S_PATH" /\ state_q' = "S_PATH_W" /\ ~Cmac!busy_o
      /\ op' = op /\ h_q' = h_q /\ lvl_q' = lvl_q /\ pass2_q' = pass2_q /\ newnode_q' = newnode_q
      /\ new_ct_q' = new_ct_q /\ new_mac_q' = new_mac_q /\ tamper_q' = tamper_q
      /\ UNCHANGED <<keyVars, root_q, truth, reused, loaded>>
      /\ Aes!Edge(FALSE, Zero, Zero)
  BY DEF Path, NoAes
<1>3. Flat
  BY <1>2, FlatIs DEF In, Quiet, Live, Pathing
<1>4. In(Pathing) /\ In(Pathing)' /\ (Pass1' <=> Pass1) /\ (Pass2' <=> Pass2)
      /\ ~In(MacStates) /\ ~In(MacStates)' /\ (Writing' <=> Pass2) /\ (Writing <=> Pass2)
      /\ (Pass1 <=> ~pass2_q) /\ (Pass2 <=> pass2_q)
  BY <1>2 DEF In, Pathing, Pass1, Pass2, MacStates, Writing
<1>5. D \in Nat /\ D >= 2 /\ lvl_q \in 0 .. D - 1 /\ op.blk \in Blocks
  BY <1>4, PathIndex
<1>6. /\ \A m \in 0 .. D - 1 : sib_q'[m] = IF m = lvl_q THEN s ELSE sib_q[m]
      /\ sib_q' = [m \in 0 .. D - 1 |-> sib_q'[m]]
  BY <1>1 DEF IInv, Shape
<1>7. pass2_q => s = sib_q[lvl_q] /\ \A m \in 0 .. D - 1 : sib_q'[m] = sib_q[m]
  BY <1>1, <1>6 DEF PathSibs
<1>8. /\ UnitOK' /\ cmac'.left = CmacCycles /\ lies' \in Nat /\ (lies' = 0 => lies = 0)
      /\ cmac'.tag = Join(TreeKey, Idx(op.blk, lvl_q), h_q, s)
      /\ lies' = 0 => s = StoredSib
  BY <1>1, <1>2, PathTag
<1>9. Shape'
  BY <1>2, <1>3, <1>6, <1>8, FlatFacts
     DEF IInv, Shape, Levels, MitStates, In, Building, Pathing, MacStates
<1>10. StoreShape' /\ Known'
  BY <1>2, PortKeeps
<1>11. CoreOK'
  <2>1. UNCHANGED keyVars /\ Needed' = Needed /\ op'.blk = op.blk /\ ~In({"S_K1T", "S_K1M"})
    BY <1>2 DEF Needed, In
  <2>2. /\ CoreBasic' /\ (~aes_busy => ~aes_busy')
        /\ Coming => \/ ~aes_busy' /\ Coming'
                     \/ /\ aes_busy /\ aes_busy' /\ ~ks_valid_q' /\ aes_round' = aes_round + 1
                        /\ aes_work' = <<enc_key', ks_block(op'.blk, Needed')>>
                        /\ Pass1 /\ lvl_q = 0
    BY <1>2, <2>1, CoreQuiet
  <2>3. CoreOK
    BY DEF IInv
  <2>4. ASSUME Pass1, aes_busy' PROVE Coming'
    <3>1. /\ aes_busy /\ ~ks_valid_q' /\ aes_round' = aes_round + 1 /\ lvl_q = 0
          /\ aes_work' = <<enc_key', ks_block(op'.blk, Needed')>>
      BY <2>2, <2>3, <2>4 DEF CoreOK
    <3>2. aes_round \in 1 .. Rounds
      BY <2>3, <3>1 DEF CoreOK, CoreBasic
    <3>3. aes_round' + cmac'.left >= CmacCycles + 2
      BY <1>8, <3>1, <3>2, LatencyAssumption
    <3>4. QED
      BY <1>2, <1>4, <2>4, <3>1, <3>3 DEF Coming, ks_block
  <2>5. Pass1 => Coming'
    BY <2>2, <2>3, <2>4 DEF CoreOK
  <2>6. ~Pass1 => ~aes_busy'
    BY <1>4, <2>2, <2>3 DEF CoreOK, In, Live
  <2>7. QED
    BY <1>2, <1>4, <2>2, <2>5, <2>6 DEF CoreOK
<1>12. CounterOK'
  BY <1>2, <1>4 DEF IInv, CounterOK
<1>13. TagOK'
  <2>1. Pass1' => op'.mac \in seen'.mac \cup {Junk}
    BY <1>2, <1>3, <1>4, FlatFacts DEF IInv, TagOK
  <2>2. cmac'.tag = Join(TreeKey', Idx(op'.blk, lvl_q'), h_q', sib_q'[lvl_q'])
    BY <1>2, <1>3, <1>5, <1>6, <1>8, FlatFacts
  <2>3. QED
    BY <1>2, <1>4, <2>1, <2>2 DEF TagOK
<1>14. Prepared'
  <2>1. \A m : NewNode(m)' = NewNode(m)
    BY <1>2 DEF NewNode
  <2>2. \A m \in 0 .. lvl_q - 1 : m \in 0 .. D - 1
    BY <1>5
  <2>3. QED
    BY <1>2, <1>3, <1>4, <1>7, <2>1, <2>2, FlatFacts DEF IInv, Prepared, encrypt
<1>15. DataOK'
  BY <1>3, FlatData
<1>16. PathOK'
  <2>1. ASSUME Pass1 PROVE \E p : Rises(TreeKey, op.blk, op.old_ctr, p, sib_q', lvl_q) /\ p[lvl_q] = h_q
    <3>1. PICK p : Rises(TreeKey, op.blk, op.old_ctr, p, sib_q, lvl_q) /\ p[lvl_q] = h_q
      BY <2>1 DEF IInv, PathOK
    <3>2. \A m \in 0 .. lvl_q - 1 : sib_q'[m] = sib_q[m]
      BY <1>5, <1>6
    <3>3. QED
      BY <1>5, <3>1, <3>2, RisesSame
  <2>2. ASSUME Pass2 PROVE \E p : Rises(TreeKey, op.blk, op.old_ctr, p, sib_q', D) /\ p[D] = root_q
    <3>1. PICK p : Rises(TreeKey, op.blk, op.old_ctr, p, sib_q, D) /\ p[D] = root_q
      BY <1>2, <1>4, <2>2 DEF IInv, PathOK
    <3>2. QED
      BY <1>4, <1>5, <1>7, <2>2, <3>1, RisesSame
  <2>3. QED
    BY <1>2, <1>3, <1>4, <2>1, <2>2, FlatFacts DEF PathOK
<1>17. ~reused' => Fresh'
  <2>1. SUFFICES ASSUME ~reused PROVE Fresh'
    BY <1>3, FlatFacts
  <2>2. Pass2' => op'.old_ctr = data[op'.blk].ctr
    BY <1>2, <1>4, <2>1 DEF IInv, Fresh
  <2>3. QED
    BY <1>2, <1>3, <1>4, <2>1, <2>2, FlatFresh
<1>18. ASSUME lies' = 0 PROVE Honesty'
  <2>1. lies = 0 /\ Honesty
    BY <1>8, <1>18 DEF IInv
  <2>2. /\ \A l, i : Stored(l, i)' = Stored(l, i) /\ (Sound(l, i)' <=> Sound(l, i))
        /\ \A l \in 1 .. D - 1 : \A i \in 0 .. Width(l) - 1 : Sound(l, i)'
        /\ root_q' = <<TreeKey', <<Stored(D - 1, 0)', Stored(D - 1, 1)'>>>>
    BY <1>3, <2>1, FlatTree
  <2>3. s = Stored(lvl_q, sibling(Idx(op.blk, lvl_q)))
    BY <1>2, <1>8, <1>18, <2>1, StoredSibIs
  <2>4. \A m \in 0 .. lvl_q - 1 : sib_q'[m] = sib_q[m]
    BY <1>5, <1>6
  <2>5. Pass1 => /\ h_q = Stored(lvl_q, Idx(op.blk, lvl_q)) /\ op.old_ctr = data[op.blk].ctr
                 /\ \A m \in 0 .. lvl_q - 1 : sib_q'[m] = Stored(m, sibling(Idx(op.blk, m)))
                 /\ ~op.write => op.ct = data[op.blk].ct /\ op.mac = data[op.blk].mac
                                 /\ op.ctr = data[op.blk].ctr
    BY <2>1, <2>4 DEF Honesty
  <2>6. sib_q'[lvl_q] = Stored(lvl_q, sibling(Idx(op.blk, lvl_q)))
    BY <1>5, <1>6, <2>3
  <2>7. Pass2 => \A m \in 0 .. D - 1 : sib_q'[m] = Stored(m, sibling(Idx(op.blk, m)))
    BY <1>4, <1>7, <2>1 DEF Honesty
  <2>8. ~tamper_q'
    BY <1>2, <2>1 DEF Honesty
  <2>9. PICK o, n : o = op /\ n = lvl_q
    OBVIOUS
  <2>10. /\ Pass1 => /\ h_q' = Stored(n, Idx(o.blk, n))' /\ op'.old_ctr = data'[op'.blk].ctr
                     /\ \A m \in 0 .. n - 1 : sib_q'[m] = Stored(m, sibling(Idx(o.blk, m)))'
                     /\ ~op'.write => op'.ct = data'[op'.blk].ct /\ op'.mac = data'[op'.blk].mac
                                 /\ op'.ctr = data'[op'.blk].ctr
         /\ sib_q'[n] = Stored(n, sibling(Idx(o.blk, n)))'
         /\ Pass2 => \A m \in 0 .. D - 1 : sib_q'[m] = Stored(m, sibling(Idx(o.blk, m)))'
    BY <1>2, <1>3, <2>2, <2>5, <2>6, <2>7, <2>9, FlatFacts
  <2>11. o = op' /\ n = lvl_q'
    BY <1>2, <2>9
  <2>12. QED
    BY <1>2, <1>3, <1>4, <2>2, <2>8, <2>10, <2>11, FlatFacts DEF Honesty
<1>19. QED
  BY <1>8, <1>9, <1>10, <1>11, <1>12, <1>13, <1>14, <1>15, <1>16, <1>17, <1>18 DEF IInv
\* One more node of the new path.
LEMMA NodesUp ==
    ASSUME IInv, state_q = "S_PATH_W", pass2_q, op'.blk = op.blk, op'.ctr = op.ctr,
           newnode_q' = [newnode_q EXCEPT ![lvl_q] = cmac.tag], NEW n, n = lvl_q + 1
    PROVE  /\ NewNode(n)' = cmac.tag
           /\ \A m \in 0 .. lvl_q :
                 NewNode(m + 1)' = Join(TreeKey, Idx(op.blk, m), NewNode(m)', sib_q[m])
<1>1. D \in Nat /\ lvl_q \in 0 .. D - 1
  BY PathIndex DEF In, Pathing
<1>2. \A m \in 0 .. D - 1 : newnode_q'[m] = IF m = lvl_q THEN cmac.tag ELSE newnode_q[m]
  BY DEF IInv, Shape
<1>3. Pass2
  BY DEF Pass2, In, Pathing
<1>4. ASSUME NEW m \in 0 .. lvl_q PROVE NewNode(m)' = NewNode(m)
  <2>1. CASE m = 0
    BY <2>1 DEF NewNode
  <2>2. CASE m # 0
    <3>1. m - 1 \in 0 .. D - 1 /\ m - 1 # lvl_q
      BY <1>1, <2>2
    <3>2. QED
      BY <1>2, <2>2, <3>1 DEF NewNode
  <2>3. QED
    BY <2>1, <2>2
<1>5. NewNode(n)' = cmac.tag
  <2>1. n # 0 /\ n - 1 = lvl_q
    BY <1>1
  <2>2. QED
    BY <1>1, <1>2, <2>1 DEF NewNode
<1>6. h_q = NewNode(lvl_q)
  BY <1>3 DEF IInv, Prepared
<1>7. cmac.tag = Join(TreeKey, Idx(op.blk, lvl_q), h_q, sib_q[lvl_q])
  BY DEF IInv, TagOK
<1>8. ASSUME NEW m \in 0 .. lvl_q
      PROVE  NewNode(m + 1)' = Join(TreeKey, Idx(op.blk, m), NewNode(m)', sib_q[m])
  <2>1. CASE m = lvl_q
    <3>1. n = m + 1
      BY <2>1
    <3>2. NewNode(m)' = h_q
      BY <1>4, <1>6, <2>1
    <3>3. QED
      BY <1>5, <1>7, <2>1, <3>1, <3>2
  <2>2. CASE m # lvl_q
    <3>1. m \in 0 .. lvl_q - 1 /\ m + 1 \in 0 .. lvl_q
      BY <1>1, <2>2
    <3>2. NewNode(m + 1) = Join(TreeKey, Idx(op.blk, m), NewNode(m), sib_q[m])
      BY <1>3, <3>1 DEF IInv, Prepared
    <3>3. QED
      BY <1>4, <3>1, <3>2
  <2>3. QED
    BY <2>1, <2>2
<1>9. QED
  BY <1>5, <1>8

\* With a truthful storage the tag of the path is the node above.
LEMMA PathAbove ==
    ASSUME IInv, lies = 0, state_q = "S_PATH_W", ~pass2_q, NEW i, i = Idx(op.blk, lvl_q + 1)
    PROVE  cmac.tag = <<TreeKey, <<Stored(lvl_q, 2 * i), Stored(lvl_q, 2 * i + 1)>>>>
<1>1. D \in Nat /\ lvl_q \in 0 .. D - 1 /\ op.blk \in Blocks
  BY PathIndex DEF In, Pathing
<1>2. /\ h_q = Stored(lvl_q, Idx(op.blk, lvl_q))
      /\ sib_q[lvl_q] = Stored(lvl_q, sibling(Idx(op.blk, lvl_q)))
  BY DEF IInv, Honesty, Pass1, In, Pathing
<1>3. cmac.tag = Join(TreeKey, Idx(op.blk, lvl_q), h_q, sib_q[lvl_q])
  BY DEF IInv, TagOK
<1>4. /\ Idx(op.blk, lvl_q) % 2 = 1 =>
            2 * i = sibling(Idx(op.blk, lvl_q)) /\ 2 * i + 1 = Idx(op.blk, lvl_q)
      /\ Idx(op.blk, lvl_q) % 2 # 1 =>
            2 * i = Idx(op.blk, lvl_q) /\ 2 * i + 1 = sibling(Idx(op.blk, lvl_q))
  BY <1>1, IdxChildren
<1>5. CASE Idx(op.blk, lvl_q) % 2 = 1
  BY <1>2, <1>3, <1>4, <1>5 DEF Join
<1>6. CASE Idx(op.blk, lvl_q) % 2 # 1
  BY <1>2, <1>3, <1>4, <1>6 DEF Join
<1>7. QED
  BY <1>5, <1>6

\* The path one level up.
LEMMA PathRises ==
    ASSUME IInv, state_q = "S_PATH_W", ~pass2_q, NEW n, n = lvl_q + 1
    PROVE  \E p : Rises(TreeKey, op.blk, op.old_ctr, p, sib_q, n) /\ p[n] = cmac.tag
<1>1. lvl_q \in Nat
  BY PathIndex DEF In, Pathing
<1>2. PICK p : Rises(TreeKey, op.blk, op.old_ctr, p, sib_q, lvl_q) /\ p[lvl_q] = h_q
  BY DEF IInv, PathOK, Pass1, In, Pathing
<1>3. cmac.tag = Join(TreeKey, Idx(op.blk, lvl_q), p[lvl_q], sib_q[lvl_q])
  BY <1>2 DEF IInv, TagOK
<1>4. QED
  BY <1>1, <1>2, <1>3, RiseOn

LEMMA PathUpKeeps ==
    ASSUME IInv, PathDone, PathUp, TakeKeystream, StorePort
    PROVE  IInv'
<1>1. /\ state_q = "S_PATH_W" /\ state_q' = "S_PATH" /\ cmac.done /\ lvl_q < D - 1 /\ lvl_q' = lvl_q + 1
      /\ op' = op /\ h_q' = cmac.tag /\ pass2_q' = pass2_q /\ sib_q' = sib_q
      /\ newnode_q' = (IF pass2_q THEN [newnode_q EXCEPT ![lvl_q] = cmac.tag] ELSE newnode_q)
      /\ new_ct_q' = new_ct_q /\ new_mac_q' = new_mac_q /\ tamper_q' = tamper_q /\ lies' = lies
      /\ UNCHANGED <<keyVars, root_q, truth, reused, loaded>>
      /\ NoAes /\ NoCmac
  BY DEF PathDone, PathUp, ghostVars
<1>2. Flat
  BY <1>1, FlatIs DEF In, Quiet, Live, Pathing
<1>3. In(Pathing) /\ In(Pathing)' /\ (Pass1' <=> Pass1) /\ (Pass2' <=> Pass2)
      /\ ~In(MacStates) /\ ~In(MacStates)' /\ (Writing' <=> Pass2) /\ (Writing <=> Pass2)
      /\ (Pass1 <=> ~pass2_q) /\ (Pass2 <=> pass2_q)
  BY <1>1 DEF In, Pathing, Pass1, Pass2, MacStates, Writing
<1>4. D \in Nat /\ D >= 2 /\ lvl_q \in 0 .. D - 1 /\ op.blk \in Blocks /\ lvl_q + 1 \in 0 .. D - 1
  BY <1>1, <1>3, PathIndex
<1>5. ~aes_busy
  BY <1>1, CoreRested
<1>6. /\ UnitOK' /\ CoreBasic' /\ ~aes_busy' /\ (Coming => Coming')
  <2>1. UNCHANGED keyVars /\ Needed' = Needed /\ op'.blk = op.blk /\ ~In({"S_K1T", "S_K1M"})
    BY <1>1 DEF Needed, In
  <2>2. QED
    BY <1>1, <1>5, <2>1, EnginesIdle
<1>7. Shape'
  <2>1. newnode_q' = [l \in 0 .. D - 1 |-> newnode_q'[l]]
    BY <1>1 DEF IInv, Shape
  <2>2. Levels'
    BY <1>1, <1>3, <1>4 DEF Levels, In, Building
  <2>3. QED
    BY <1>1, <1>2, <2>1, <2>2, FlatFacts DEF IInv, Shape, MitStates
<1>8. StoreShape' /\ Known'
  BY <1>1, PortKeeps
<1>9. CoreOK'
  BY <1>1, <1>3, <1>6 DEF IInv, CoreOK
<1>10. CounterOK'
  BY <1>1, <1>3 DEF IInv, CounterOK
<1>11. TagOK'
  BY <1>1, <1>2, <1>3, FlatFacts DEF IInv, TagOK
<1>12. Prepared'
  <2>1. CASE ~pass2_q
    BY <1>1, <1>3, <2>1 DEF Prepared
  <2>2. CASE pass2_q
    <3>1. newnode_q' = [newnode_q EXCEPT ![lvl_q] = cmac.tag]
      BY <1>1, <2>2
    <3>2. PICK n : n = lvl_q + 1
      OBVIOUS
    <3>3. /\ NewNode(n)' = cmac.tag
          /\ \A m \in 0 .. lvl_q :
                NewNode(m + 1)' = Join(TreeKey, Idx(op.blk, m), NewNode(m)', sib_q[m])
      BY <1>1, <2>2, <3>1, <3>2, NodesUp
    <3>4. n = lvl_q' /\ \A m \in 0 .. n - 1 : m \in 0 .. lvl_q
      BY <1>1, <1>4, <3>2
    <3>5. /\ h_q' = NewNode(n)'
          /\ \A m \in 0 .. n - 1 :
                NewNode(m + 1)' = Join(TreeKey', Idx(op'.blk, m), NewNode(m)', sib_q'[m])
      BY <1>1, <1>2, <3>3, <3>4, FlatFacts
    <3>6. /\ new_ct_q' = encrypt(op.wdata, Keystream(op.blk, op.ctr))
          /\ new_mac_q' = <<MacKey, dmac_msg(new_ct_q, op.blk, op.ctr)>>
      BY <1>1, <1>3, <2>2 DEF IInv, Prepared
    <3>7. QED
      BY <1>1, <1>2, <1>3, <2>2, <3>4, <3>5, <3>6, FlatFacts DEF Prepared, encrypt
  <2>3. QED
    BY <2>1, <2>2
<1>13. DataOK'
  BY <1>2, FlatData
<1>14. PathOK'
  <2>1. ASSUME Pass1 PROVE \E p : Rises(TreeKey, op.blk, op.old_ctr, p, sib_q, lvl_q') /\ p[lvl_q'] = h_q'
    BY <1>1, <1>3, <2>1, PathRises
  <2>2. QED
    BY <1>1, <1>2, <1>3, <2>1, FlatFacts DEF IInv, PathOK
<1>15. ~reused' => Fresh'
  <2>1. SUFFICES ASSUME ~reused PROVE Fresh'
    BY <1>2, FlatFacts
  <2>2. Pass2' => op'.old_ctr = data[op'.blk].ctr
    BY <1>1, <1>3, <2>1 DEF IInv, Fresh
  <2>3. QED
    BY <1>1, <1>2, <1>3, <2>1, <2>2, FlatFresh
<1>16. ASSUME lies' = 0 PROVE Honesty'
  <2>1. lies = 0 /\ Honesty
    BY <1>1, <1>16 DEF IInv
  <2>2. /\ \A l, i : Stored(l, i)' = Stored(l, i) /\ (Sound(l, i)' <=> Sound(l, i))
        /\ \A l \in 1 .. D - 1 : \A i \in 0 .. Width(l) - 1 : Sound(l, i) /\ Sound(l, i)'
        /\ root_q' = <<TreeKey', <<Stored(D - 1, 0)', Stored(D - 1, 1)'>>>>
    BY <1>2, <2>1, FlatTree
  <2>3. PICK o, n : o = op /\ n = lvl_q + 1
    OBVIOUS
  <2>4. ASSUME Pass1 PROVE h_q' = Stored(n, Idx(o.blk, n))
    <3>1. PICK i : i = Idx(op.blk, n)
      OBVIOUS
    <3>2. cmac.tag = <<TreeKey, <<Stored(lvl_q, 2 * i), Stored(lvl_q, 2 * i + 1)>>>>
      BY <1>1, <1>3, <2>1, <2>3, <2>4, <3>1, PathAbove
    <3>3. n \in 1 .. D - 1 /\ n \in 0 .. D /\ n - 1 = lvl_q /\ n # 0
      BY <1>1, <1>4, <2>3
    <3>4. i \in 0 .. Width(n) - 1
      BY <1>4, <3>1, <3>3, IdxRange
    <3>5. node[<<n, i>>] = cmac.tag
      BY <2>2, <3>2, <3>3, <3>4 DEF Sound
    <3>6. QED
      BY <1>1, <2>3, <3>1, <3>3, <3>5 DEF Stored
  <2>5. Pass1 => /\ op.old_ctr = data[op.blk].ctr
                 /\ \A m \in 0 .. n - 1 : sib_q[m] = Stored(m, sibling(Idx(op.blk, m)))
                 /\ ~op.write => op.ct = data[op.blk].ct /\ op.mac = data[op.blk].mac
                                 /\ op.ctr = data[op.blk].ctr
    <3>1. \A m \in 0 .. n - 1 : m \in 0 .. lvl_q - 1 \/ m = lvl_q
      BY <1>4, <2>3
    <3>2. QED
      BY <1>1, <2>1, <3>1 DEF Honesty
  <2>6. Pass2 => \A m \in 0 .. D - 1 : sib_q[m] = Stored(m, sibling(Idx(op.blk, m)))
    BY <1>3, <2>1 DEF Honesty
  <2>7. ~tamper_q'
    BY <1>1, <2>1 DEF Honesty
  <2>8. /\ Pass1 => /\ h_q' = Stored(n, Idx(o.blk, n))' /\ op'.old_ctr = data'[op'.blk].ctr
                    /\ \A m \in 0 .. n - 1 : sib_q'[m] = Stored(m, sibling(Idx(o.blk, m)))'
                    /\ ~op'.write => op'.ct = data'[op'.blk].ct /\ op'.mac = data'[op'.blk].mac
                                 /\ op'.ctr = data'[op'.blk].ctr
        /\ Pass2 => \A m \in 0 .. D - 1 : sib_q'[m] = Stored(m, sibling(Idx(o.blk, m)))'
    BY <1>1, <1>2, <2>2, <2>3, <2>4, <2>5, <2>6, FlatFacts
  <2>9. o = op' /\ n = lvl_q'
    BY <1>1, <2>3
  <2>10. QED
    BY <1>1, <1>2, <1>3, <2>2, <2>7, <2>8, <2>9, FlatFacts DEF Honesty
<1>17. QED
  BY <1>6, <1>7, <1>8, <1>9, <1>10, <1>11, <1>12, <1>13, <1>14, <1>15, <1>16 DEF IInv
\* A counter that is not at its end is one more after its bump.
LEMMA BumpIs ==
    ASSUME NEW c \in Ctrs, c # CtrMax
    PROVE  bump(c) = c + 1 /\ bump(c) \in Ctrs /\ c < CtrMax
<1>1. CtrMax \in Nat \ {0}
  BY MitAssumption
<1>2. c \in Nat /\ c < CtrMax /\ c + 1 \in 0 .. CtrMax
  BY <1>1 DEF Ctrs
<1>3. PICK a \in Nat, n \in Nat : a = c + 1 /\ n = CtrMax + 1
  BY <1>1, <1>2
<1>4. a % n = a
  BY <1>1, <1>2, <1>3
<1>5. QED
  BY <1>2, <1>3, <1>4 DEF bump, Ctrs

LEMMA PathVerifiedKeeps ==
    ASSUME IInv, PathDone, PathVerified, TakeKeystream, StorePort
    PROVE  IInv'
<1>1. /\ state_q = "S_PATH_W" /\ cmac.done /\ lvl_q = D - 1 /\ ~pass2_q /\ lvl_q' = 0
      /\ h_q' = cmac.tag /\ pass2_q' = pass2_q /\ sib_q' = sib_q /\ newnode_q' = newnode_q
      /\ new_ct_q' = new_ct_q /\ new_mac_q' = new_mac_q /\ lies' = lies
      /\ UNCHANGED <<keyVars, root_q, truth, reused, loaded>>
      /\ NoAes /\ NoCmac
  BY DEF PathDone, PathVerified, ghostVars
<1>2. \/ /\ cmac.tag # root_q /\ state_q' = "S_RESP" /\ op' = op /\ rsp_q'.status = "TAMPER"
      \/ /\ cmac.tag = root_q /\ state_q' = "S_RESP" /\ op' = op /\ tamper_q' = tamper_q
         /\ \/ op.write
            \/ ~op.write /\ op.old_ctr = 0 /\ rsp_q'.rdata = ZeroWord
      \/ /\ cmac.tag = root_q /\ state_q' = "S_DMAC" /\ tamper_q' = tamper_q
         /\ op.write /\ op.old_ctr # CtrMax /\ op' = [op EXCEPT !.ctr = bump(op.old_ctr)]
      \/ /\ cmac.tag = root_q /\ state_q' = "S_DMAC" /\ tamper_q' = tamper_q
         /\ ~op.write /\ op.old_ctr # 0 /\ op' = op
  <2>1. \/ ~path_verified /\ Respond("TAMPER", ZeroWord) /\ UNCHANGED op
        \/ path_verified /\ op.write /\ Respond("EXHAUSTED", ZeroWord) /\ UNCHANGED <<op, tamper_q>>
        \/ /\ path_verified /\ op.write /\ op.old_ctr # CtrMax
           /\ op' = [op EXCEPT !.ctr = bump(op.old_ctr)] /\ state_q' = "S_DMAC"
           /\ UNCHANGED <<tamper_q, rsp_q>>
        \/ /\ path_verified /\ ~op.write /\ op.old_ctr = 0 /\ Respond("OK", ZeroWord)
           /\ UNCHANGED <<op, tamper_q>>
        \/ /\ path_verified /\ ~op.write /\ op.old_ctr # 0 /\ state_q' = "S_DMAC"
           /\ UNCHANGED <<op, tamper_q, rsp_q>>
    BY DEF PathVerified
  <2>2. QED
    BY <2>1 DEF path_verified, Respond
<1>3. /\ DOMAIN op = OpFields /\ op.write \in BOOLEAN /\ op.blk \in Blocks /\ op.ctr \in Ctrs
      /\ op.old_ctr \in Ctrs /\ op.ctr = op.old_ctr /\ D \in Nat /\ D >= 2
  BY <1>1, WidthFacts DEF IInv, Shape, CounterOK, Pass1, In, Pathing
<1>4. /\ DOMAIN op' = OpFields /\ op'.write = op.write /\ op'.blk = op.blk /\ op'.wdata = op.wdata
      /\ op'.ct = op.ct /\ op'.mac = op.mac /\ op'.old_ctr = op.old_ctr /\ op'.ctr \in Ctrs
      /\ ~op.write => op'.ctr = op.ctr
      /\ state_q' = "S_DMAC" /\ op.write =>
            op.old_ctr < CtrMax /\ op'.ctr = op.old_ctr + 1
  <2>1. CASE op' = op /\ ~(state_q' = "S_DMAC" /\ op.write)
    BY <1>3, <2>1
  <2>2. CASE op.old_ctr # CtrMax /\ op.write /\ op' = [op EXCEPT !.ctr = bump(op.old_ctr)]
    <3>1. bump(op.old_ctr) = op.old_ctr + 1 /\ bump(op.old_ctr) \in Ctrs /\ op.old_ctr < CtrMax
      BY <1>3, <2>2, BumpIs
    <3>2. QED
      BY <1>3, <2>2, <3>1 DEF OpFields
  <2>3. QED
    BY <1>2, <2>1, <2>2
<1>5. state_q' \in {"S_RESP", "S_DMAC"}
  BY <1>2
<1>6. Flat
  BY <1>1, <1>5, FlatIs DEF In, Quiet, Live, Pathing, MacStates
<1>7. /\ Pass1 /\ ~Pass1' /\ ~Pass2' /\ (In(MacStates)' <=> state_q' = "S_DMAC") /\ ~In(Pathing)'
      /\ Writing' <=> state_q' = "S_DMAC" /\ op.write
  BY <1>1, <1>4, <1>5 DEF In, Pathing, Pass1, Pass2, MacStates, Writing
<1>8. UnitOK' /\ CoreBasic' /\ ~aes_busy' /\ Coming'
  <2>1. UNCHANGED keyVars /\ Needed' = Needed /\ ~In({"S_K1T", "S_K1M"}) /\ ~aes_busy
    BY <1>1, <1>4, CoreRested DEF Needed, In
  <2>2. Coming
    BY <1>7 DEF IInv, CoreOK
  <2>3. QED
    BY <1>1, <1>4, <2>1, <2>2, EnginesIdle
<1>9. Shape'
  <2>1. Levels'
    BY <1>1, <1>5, <1>7 DEF Levels, In, Building
  <2>2. QED
    BY <1>1, <1>4, <1>5, <1>6, <2>1, FlatFacts DEF IInv, Shape, MitStates
<1>10. StoreShape' /\ Known'
  BY <1>1, PortKeeps
<1>11. CoreOK'
  BY <1>5, <1>8 DEF CoreOK
<1>12. CounterOK'
  <2>1. state_q' = "S_DMAC" /\ ~op.write => op.old_ctr # 0
    BY <1>2
  <2>2. QED
    BY <1>3, <1>4, <1>5, <1>7, <2>1 DEF CounterOK
<1>13. TagOK'
  <2>1. op.mac \in seen.mac \cup {Junk}
    BY <1>7 DEF IInv, TagOK
  <2>2. QED
    BY <1>4, <1>5, <1>6, <2>1, FlatFacts DEF TagOK
<1>14. Prepared'
  BY <1>5, <1>7 DEF Prepared
<1>15. DataOK'
  BY <1>6, FlatData
<1>16. \E p : Rises(TreeKey, op.blk, op.old_ctr, p, sib_q, D) /\ p[D] = cmac.tag
  <2>1. D = lvl_q + 1
    BY <1>1, <1>3
  <2>2. QED
    BY <1>1, <2>1, PathRises
<1>17. PathOK'
  <2>1. state_q' = "S_DMAC" => cmac.tag = root_q
    BY <1>2
  <2>2. QED
    BY <1>1, <1>4, <1>6, <1>7, <1>16, <2>1, FlatFacts DEF PathOK
<1>18. ~reused' => Fresh'
  <2>1. SUFFICES ASSUME ~reused PROVE Fresh'
    BY <1>6, FlatFacts
  <2>2. cmac.tag = root_q => op.old_ctr = data[op.blk].ctr
    <3>1. Bound
      BY <1>6, <2>1, FlatFacts DEF IInv, Fresh
    <3>2. Counter(op.blk) = data[op.blk].ctr
      BY <1>1 DEF Counter
    <3>3. QED
      BY <1>3, <1>16, <3>1, <3>2 DEF Bound
  <2>3. In(MacStates)' => op'.old_ctr = data[op'.blk].ctr
    BY <1>2, <1>4, <1>7, <2>2
  <2>4. ASSUME state_q' = "S_RESP", ~op'.write, rsp_q'.status = "OK" PROVE rsp_q'.rdata = truth[op'.blk]
    <3>1. cmac.tag = root_q /\ op.old_ctr = 0 /\ rsp_q'.rdata = ZeroWord
      BY <1>2, <1>4, <2>4
    <3>2. data[op.blk].ctr = 0
      BY <2>2, <3>1
    <3>3. Word(op.blk) = ZeroWord
      BY <1>3, <1>6, <3>2, FlatFacts DEF IInv, DataOK
    <3>4. QED
      BY <1>1, <1>4, <3>1, <3>3 DEF Word
  <2>5. QED
    BY <1>6, <1>7, <2>1, <2>3, <2>4, FlatFresh
<1>19. ASSUME lies' = 0 PROVE Honesty'
  <2>1. lies = 0 /\ Honesty
    BY <1>1, <1>19 DEF IInv
  <2>2. /\ \A l, i : Stored(l, i)' = Stored(l, i) /\ (Sound(l, i)' <=> Sound(l, i))
        /\ \A l \in 1 .. D - 1 : \A i \in 0 .. Width(l) - 1 : Sound(l, i) /\ Sound(l, i)'
        /\ root_q' = <<TreeKey', <<Stored(D - 1, 0)', Stored(D - 1, 1)'>>>>
        /\ root_q = <<TreeKey, <<Stored(D - 1, 0), Stored(D - 1, 1)>>>>
    BY <1>6, <2>1, FlatTree
  <2>3. cmac.tag = root_q
    <3>1. Idx(op.blk, D) = 0
      <4>1. D \in 0 .. D /\ Width(D) = 1
        BY <1>3, WidthFacts
      <4>2. Idx(op.blk, D) \in 0 .. Width(D) - 1
        BY <1>3, <4>1, IdxRange
      <4>3. QED
        BY <4>1, <4>2
    <3>2. PICK i : i = Idx(op.blk, lvl_q + 1) /\ i = 0
      BY <1>1, <1>3, <3>1
    <3>3. cmac.tag = <<TreeKey, <<Stored(lvl_q, 2 * i), Stored(lvl_q, 2 * i + 1)>>>>
      BY <1>1, <2>1, <3>2, PathAbove
    <3>4. 2 * i = 0 /\ 2 * i + 1 = 1
      BY <3>2
    <3>5. QED
      BY <1>1, <2>2, <3>3, <3>4
  <2>4. ~tamper_q'
    BY <1>2, <2>1, <2>3 DEF Honesty
  <2>5. /\ \A m \in 0 .. D - 1 : sib_q[m] = Stored(m, sibling(Idx(op.blk, m)))
        /\ ~op.write => op.ct = data[op.blk].ct /\ op.mac = data[op.blk].mac
                        /\ op.ctr = data[op.blk].ctr
    <3>1. \A m \in 0 .. D - 1 : m \in 0 .. lvl_q - 1 \/ m = lvl_q
      BY <1>1, <1>3
    <3>2. QED
      BY <1>1, <1>7, <2>1, <3>1 DEF Honesty
  <2>6. PICK b : b = op.blk
    OBVIOUS
  <2>7. /\ \A m \in 0 .. D - 1 : sib_q'[m] = Stored(m, sibling(Idx(b, m)))'
        /\ ~op'.write => op'.ct = data'[op'.blk].ct /\ op'.mac = data'[op'.blk].mac
                         /\ op'.ctr = data'[op'.blk].ctr
    BY <1>1, <1>4, <1>6, <2>2, <2>5, <2>6, FlatFacts
  <2>8. b = op'.blk
    BY <1>4, <2>6
  <2>9. QED
    BY <1>5, <1>6, <1>7, <2>2, <2>4, <2>7, <2>8, FlatFacts DEF Honesty
<1>20. QED
  BY <1>8, <1>9, <1>10, <1>11, <1>12, <1>13, <1>14, <1>15, <1>17, <1>18, <1>19 DEF IInv
\* The root moves: what it says of the other blocks it said before.
LEMMA NewRootBinds ==
    ASSUME IInv, ~reused, state_q = "S_PATH_W", pass2_q, lvl_q = D - 1,
           newnode_q' = [newnode_q EXCEPT ![lvl_q] = cmac.tag], op' = op, root_q' = cmac.tag,
           UNCHANGED keyVars, state_q' = "S_COMMIT", data' = data
    PROVE  Bound'
<1>1. D \in Nat /\ D >= 2 /\ op.blk \in Blocks /\ Pass2
  BY PathIndex DEF In, Pathing, Pass2
<1>2. PICK o : Rises(TreeKey, op.blk, op.old_ctr, o, sib_q, D) /\ o[D] = root_q
  BY <1>1 DEF IInv, PathOK, Writing
<1>3. /\ NewNode(D)' = cmac.tag
      /\ \A m \in 0 .. D - 1 :
            NewNode(m + 1)' = Join(TreeKey, Idx(op.blk, m), NewNode(m)', sib_q[m])
  <2>1. D = lvl_q + 1
    BY <1>1
  <2>2. QED
    BY <2>1, NodesUp
<1> DEFINE q == [m \in 0 .. D |-> NewNode(m)']
<1>4. q[0] = leaf(op.blk, op.ctr) /\ q[D] = cmac.tag
  <2>1. NewNode(0)' = leaf(op.blk, op.ctr)
    BY DEF NewNode
  <2>2. 0 \in 0 .. D /\ D \in 0 .. D
    BY <1>1
  <2>3. QED
    BY <1>3, <2>1, <2>2
<1>5. ASSUME NEW m \in 0 .. D - 1 PROVE q[m + 1] = Join(TreeKey, Idx(op.blk, m), q[m], sib_q[m])
  <2>1. m \in 0 .. D /\ m + 1 \in 0 .. D
    BY <1>1
  <2>2. q[m] = NewNode(m)' /\ q[m + 1] = NewNode(m + 1)'
    BY <2>1
  <2>3. QED
    BY <1>3, <2>2
<1> HIDE DEF q
<1>6. Rises(TreeKey, op.blk, op.ctr, q, sib_q, D)
  BY <1>4, <1>5 DEF Rises
<1>7. Bound
  BY <1>1 DEF IInv, Fresh, In, Live, Pathing
<1>8. ASSUME NEW e \in Blocks, NEW c, NEW p, NEW t, Rises(TreeKey, e, c, p, t, D), p[D] = cmac.tag
      PROVE  c = IF e = op.blk THEN op.ctr ELSE data[e].ctr
  <2>1. \/ e = op.blk /\ c = op.ctr
        \/ e # op.blk /\ \E p2, t2 : Rises(TreeKey, e, c, p2, t2, D) /\ p2[D] = o[D]
    BY <1>1, <1>2, <1>4, <1>6, <1>8, OtherPaths
  <2>2. Counter(e) = data[e].ctr
    BY DEF Counter
  <2>3. QED
    BY <1>2, <1>7, <2>1, <2>2 DEF Bound
<1>9. TreeKey' = TreeKey
  BY KeptKeys
<1>10. \A e \in Blocks : Counter(e)' = IF e = op.blk THEN op.ctr ELSE data[e].ctr
  BY DEF Counter
<1>11. QED
  BY <1>8, <1>9, <1>10 DEF Bound

LEMMA PathRecomputedKeeps ==
    ASSUME IInv, PathDone, PathRecomputed, TakeKeystream, StorePort
    PROVE  IInv'
<1>1. /\ state_q = "S_PATH_W" /\ state_q' = "S_COMMIT" /\ cmac.done /\ lvl_q = D - 1 /\ lvl_q' = 1
      /\ pass2_q /\ root_q' = cmac.tag
      /\ op' = op /\ h_q' = cmac.tag /\ pass2_q' = pass2_q /\ sib_q' = sib_q
      /\ newnode_q' = [newnode_q EXCEPT ![lvl_q] = cmac.tag]
      /\ new_ct_q' = new_ct_q /\ new_mac_q' = new_mac_q /\ tamper_q' = tamper_q /\ lies' = lies
      /\ UNCHANGED keyVars /\ key_q' = key_q /\ truth' = truth /\ reused' = reused /\ loaded' = loaded
      /\ NoAes /\ NoCmac
  BY DEF PathDone, PathRecomputed, ghostVars, keyVars
<1>2. data' = data /\ node' = node /\ seen' = seen
  BY <1>1, PortIs DEF storeVars, BuildStore, CommitStore
<1>3. /\ In(Pathing) /\ Pass2 /\ Writing /\ ~Pass1' /\ ~Pass2' /\ ~In(MacStates)' /\ Writing'
      /\ ~In(Pathing)' /\ ~In(Building)' /\ ~In(Young)' /\ In(Live)' /\ In(Live) /\ In(Live \ {"S_COMMIT"})
      /\ ~In(Live \ {"S_COMMIT"})'
  BY <1>1 DEF In, Pathing, Pass1, Pass2, MacStates, Writing, Building, Young, Live
<1>4. D \in Nat /\ D >= 2 /\ op.blk \in Blocks
  BY <1>3, PathIndex
<1>5. TreeKey' = TreeKey /\ MacKey' = MacKey /\ \A b, c : Keystream(b, c)' = Keystream(b, c)
  BY <1>1, KeptKeys
<1>6. UnitOK' /\ CoreBasic' /\ ~aes_busy'
  <2>1. Needed' = Needed /\ op'.blk = op.blk /\ ~In({"S_K1T", "S_K1M"}) /\ ~aes_busy
    BY <1>1, CoreRested DEF Needed, In
  <2>2. QED
    BY <1>1, <2>1, EnginesIdle
<1>7. Shape'
  <2>1. newnode_q' = [l \in 0 .. D - 1 |-> newnode_q'[l]]
    BY <1>1 DEF IInv, Shape
  <2>2. Levels'
    BY <1>1, <1>3, <1>4 DEF Levels
  <2>3. QED
    BY <1>1, <2>1, <2>2 DEF IInv, Shape, MitStates
<1>8. StoreShape' /\ Known'
  BY <1>1, PortKeeps
<1>9. CoreOK'
  BY <1>1, <1>3, <1>6 DEF CoreOK
<1>10. CounterOK'
  BY <1>1, <1>3 DEF IInv, CounterOK
<1>11. TagOK'
  BY <1>1, <1>3 DEF TagOK
<1>12. /\ new_ct_q = encrypt(op.wdata, Keystream(op.blk, op.ctr))
       /\ new_mac_q = <<MacKey, dmac_msg(new_ct_q, op.blk, op.ctr)>>
       /\ op.ctr = op.old_ctr + 1 /\ op.old_ctr \in Nat
  BY <1>1, <1>3 DEF IInv, Prepared, CounterOK, Shape, Ctrs
<1>13. Prepared'
  <2>1. D = lvl_q + 1 /\ \A m \in 0 .. D - 1 : m \in 0 .. lvl_q
    BY <1>1, <1>4
  <2>2. /\ NewNode(D)' = cmac.tag
        /\ \A m \in 0 .. lvl_q :
              NewNode(m + 1)' = Join(TreeKey, Idx(op.blk, m), NewNode(m)', sib_q[m])
    BY <1>1, <2>1, NodesUp
  <2>3. \A m \in 0 .. D - 1 :
           NewNode(m + 1)' = Join(TreeKey', Idx(op'.blk, m), NewNode(m)', sib_q'[m])
    BY <1>1, <1>5, <2>1, <2>2
  <2>4. ~(lvl_q' > 1)
    BY <1>1
  <2>5. QED
    BY <1>1, <1>3, <1>5, <1>12, <2>2, <2>3, <2>4 DEF Prepared, encrypt
<1>14. DataOK'
  <2>1. DataOK
    BY DEF IInv
  <2>2. NewBlock' = NewBlock
    BY <1>1 DEF NewBlock
  <2>3. ASSUME NEW b \in Blocks
        PROVE  /\ data[b].ctr = 0 => Word(b)' = ZeroWord
               /\ data[b].ctr # 0 =>
                     /\ data[b].ct = encrypt(Word(b)', Keystream(b, data[b].ctr))
                     /\ data[b].mac = <<MacKey, dmac_msg(data[b].ct, b, data[b].ctr)>>
    <3>1. CASE b = op.blk /\ data[b] = NewBlock
      <4>1. Word(b)' = op.wdata
        BY <1>1, <1>2, <2>2, <3>1 DEF Word
      <4>2. data[b].ct = new_ct_q /\ data[b].mac = new_mac_q /\ data[b].ctr = op.ctr
        BY <3>1 DEF NewBlock
      <4>3. op.ctr # 0
        BY <1>12
      <4>4. QED
        BY <1>12, <3>1, <4>1, <4>2, <4>3
    <3>2. CASE ~(b = op.blk /\ data[b] = NewBlock)
      <4>1. Word(b)' = truth[b] /\ Word(b) = truth[b]
        BY <1>1, <1>2, <2>2, <3>2 DEF Word
      <4>2. QED
        BY <1>3, <2>1, <4>1 DEF DataOK
    <3>3. QED
      BY <3>1, <3>2
  <2>4. QED
    BY <1>1, <1>2, <1>3, <1>5, <2>1, <2>3 DEF DataOK, encrypt
<1>15. PathOK'
  BY <1>1, <1>3 DEF PathOK
<1>16. ASSUME ~reused' PROVE Fresh'
  <2>1. KeystreamOnce /\ Latest /\ op.old_ctr = data[op.blk].ctr
    BY <1>1, <1>3, <1>16 DEF IInv, Fresh
  <2>2. KeystreamOnce' /\ Latest'
    BY <1>1, <1>2, <2>1, OnceFrame, LatestFrame
  <2>3. Bound'
    BY <1>1, <1>2, <1>16, NewRootBinds
  <2>4. ~In({"S_K1T", "S_K1M"})'
    BY <1>1 DEF In
  <2>5. QED
    BY <1>1, <1>2, <1>3, <2>1, <2>2, <2>3, <2>4 DEF Fresh
<1>17. ASSUME lies' = 0 PROVE Honesty'
  <2>1. Honesty /\ \A l, i : Stored(l, i)' = Stored(l, i) /\ (Sound(l, i)' <=> Sound(l, i))
    BY <1>1, <1>2, <1>17, TreeFrame DEF IInv
  <2>2. \A l \in 1 .. D - 1 : \A i \in 0 .. Width(l) - 1 : Sound(l, i)'
    BY <1>3, <2>1 DEF Honesty
  <2>3. PICK b : b = op.blk
    OBVIOUS
  <2>4. \A m \in 0 .. D - 1 : sib_q[m] = Stored(m, sibling(Idx(b, m)))
    BY <1>3, <2>1, <2>3 DEF Honesty
  <2>5. \A m \in 0 .. D - 1 : sib_q'[m] = Stored(m, sibling(Idx(b, m)))'
    BY <1>1, <2>1, <2>4
  <2>6. ~tamper_q'
    BY <1>1, <2>1 DEF Honesty
  <2>7. b = op'.blk
    BY <1>1, <2>3
  <2>8. QED
    BY <1>1, <1>3, <2>2, <2>5, <2>6, <2>7 DEF Honesty
<1>18. QED
  BY <1>6, <1>7, <1>8, <1>9, <1>10, <1>11, <1>13, <1>14, <1>15, <1>16, <1>17 DEF IInv
-----------------------------------------------------------------------------
(* The data: its MAC, its commit and the answer.                             *)

\* The keystream of a request in its register.
LEMMA KeystreamThere ==
    ASSUME IInv, In(MacStates), ks_valid_q
    PROVE  ks_q = Keystream(op.blk, op.ctr)
<1>1. ks_q = Keystream(op.blk, Needed)
  BY DEF IInv, CoreOK, Coming
<1>2. Needed = op.ctr
  <2>1. CASE op.write
    <3>1. op.old_ctr < CtrMax /\ op.ctr = op.old_ctr + 1 /\ op.old_ctr \in Ctrs /\ CtrMax \in Nat
      BY <2>1, MitAssumption DEF IInv, CounterOK, Writing, Shape
    <3>2. bump(op.old_ctr) = op.old_ctr + 1
      <4>1. op.old_ctr # CtrMax
        BY <3>1 DEF Ctrs
      <4>2. QED
        BY <3>1, <4>1, BumpIs
    <3>3. QED
      BY <2>1, <3>1, <3>2 DEF Needed
  <2>2. CASE ~op.write
    BY <2>2 DEF Needed, IInv, CounterOK
  <2>3. QED
    BY <2>1, <2>2
<1>3. QED
  BY <1>1, <1>2

LEMMA DataMacKeeps ==
    ASSUME IInv, DataMac, TakeKeystream, StorePort
    PROVE  IInv'
<1>1. /\ state_q = "S_DMAC" /\ DataMacStart
      /\ op' = op /\ h_q' = h_q /\ lvl_q' = lvl_q /\ pass2_q' = pass2_q /\ sib_q' = sib_q
      /\ newnode_q' = newnode_q /\ new_mac_q' = new_mac_q /\ tamper_q' = tamper_q /\ lies' = lies
      /\ UNCHANGED <<keyVars, root_q, truth, reused, loaded>>
      /\ Aes!Edge(FALSE, Zero, Zero)
  BY DEF DataMac, NoAes, ghostVars
<1>2. \/ /\ ~Cmac!busy_o /\ ks_valid_q /\ state_q' = "S_DMAC_W"
         /\ new_ct_q' = (IF op.write THEN DataCt ELSE new_ct_q)
      \/ state_q' = "S_DMAC" /\ new_ct_q' = new_ct_q
  BY DEF DataMac
<1>3. Flat
  BY <1>1, <1>2, FlatIs DEF In, Quiet, Live, MacStates
<1>4. /\ In(MacStates) /\ In(MacStates)' /\ ~In(Pathing)' /\ ~Pass1' /\ ~Pass2' /\ ~Pass1
      /\ (Writing <=> op.write) /\ (Writing' <=> op.write)
  BY <1>1, <1>2 DEF In, MacStates, Pathing, Pass1, Pass2, Writing
<1>5. /\ UnitOK'
      /\ ~Cmac!busy_o => cmac'.tag = <<MacKey, dmac_msg(DataCt, op.blk, op.ctr)>>
  <2>1. PICK start \in BOOLEAN : start = (~Cmac!busy_o)
    BY DEF Cmac!busy_o
  <2>2. Cmac!UnitEdge(start, <<mac_key, k1_mac_q>>, dmac_msg(DataCt, op.blk, op.ctr), FALSE)
    BY <1>1, <2>1 DEF DataMacStart
  <2>3. UnitOK
    BY DEF IInv
  <2>4. QED
    BY <2>1, <2>2, <2>3, UnitStep DEF MacKey
<1>6. CoreBasic' /\ ~aes_busy' /\ Coming' /\ (ks_valid_q => ks_valid_q')
  <2>1. UNCHANGED keyVars /\ Needed' = Needed /\ op'.blk = op.blk /\ ~In({"S_K1T", "S_K1M"})
    BY <1>1 DEF Needed, In
  <2>2. ~aes_busy /\ Coming
    BY <1>4 DEF IInv, CoreOK, In, Live
  <2>3. QED
    BY <1>1, <2>1, <2>2, CoreQuiet
<1>7. Shape'
  BY <1>1, <1>2, <1>3, <1>4, FlatFacts DEF IInv, Shape, Levels, MitStates, In, Building, MacStates
<1>8. StoreShape' /\ Known'
  BY <1>1, PortKeeps
<1>9. CoreOK'
  BY <1>2, <1>4, <1>6 DEF CoreOK
<1>10. CounterOK'
  BY <1>1, <1>2, <1>4 DEF IInv, CounterOK
<1>11. TagOK'
  <2>1. op'.mac \in seen'.mac \cup {Junk}
    BY <1>1, <1>3, <1>4, FlatFacts DEF IInv, TagOK
  <2>2. ASSUME state_q' = "S_DMAC_W"
        PROVE  cmac'.tag = <<MacKey, dmac_msg(IF op.write THEN new_ct_q' ELSE op.ct, op.blk, op.ctr)>>
    BY <1>2, <1>5, <2>2 DEF DataCt
  <2>3. QED
    BY <1>1, <1>2, <1>3, <2>1, <2>2, FlatFacts DEF TagOK
<1>12. Prepared'
  <2>1. ASSUME state_q' = "S_DMAC_W", op.write
        PROVE  new_ct_q' = encrypt(op.wdata, Keystream(op.blk, op.ctr))
    BY <1>2, <1>4, <2>1, KeystreamThere DEF DataCt
  <2>2. QED
    BY <1>1, <1>2, <1>3, <1>4, <2>1, FlatFacts DEF Prepared, encrypt
<1>13. DataOK'
  BY <1>3, FlatData
<1>14. PathOK'
  BY <1>1, <1>2, <1>3, <1>4, FlatFacts DEF IInv, PathOK
<1>15. ~reused' => Fresh'
  <2>1. SUFFICES ASSUME ~reused PROVE Fresh'
    BY <1>3, FlatFacts
  <2>2. op'.old_ctr = data[op'.blk].ctr
    BY <1>1, <1>4, <2>1 DEF IInv, Fresh
  <2>3. state_q' # "S_RESP"
    BY <1>2
  <2>4. QED
    BY <1>3, <2>1, <2>2, <2>3, FlatFresh
<1>16. ASSUME lies' = 0 PROVE Honesty'
  <2>1. lies = 0 /\ Honesty
    BY <1>1, <1>16 DEF IInv
  <2>2. /\ \A l, i : Stored(l, i)' = Stored(l, i) /\ (Sound(l, i)' <=> Sound(l, i))
        /\ \A l \in 1 .. D - 1 : \A i \in 0 .. Width(l) - 1 : Sound(l, i)'
        /\ root_q' = <<TreeKey', <<Stored(D - 1, 0)', Stored(D - 1, 1)'>>>>
    BY <1>3, <2>1, FlatTree
  <2>3. PICK b : b = op.blk
    OBVIOUS
  <2>4. op.write => \A m \in 0 .. D - 1 : sib_q[m] = Stored(m, sibling(Idx(b, m)))
    BY <1>4, <2>1, <2>3 DEF Honesty
  <2>5. op.write => \A m \in 0 .. D - 1 : sib_q'[m] = Stored(m, sibling(Idx(b, m)))'
    BY <1>1, <2>2, <2>4
  <2>6. ~op'.write => op'.ct = data'[op'.blk].ct /\ op'.mac = data'[op'.blk].mac
                      /\ op'.ctr = data'[op'.blk].ctr
    BY <1>1, <1>3, <1>4, <2>1, FlatFacts DEF Honesty
  <2>7. ~tamper_q' /\ b = op'.blk
    BY <1>1, <2>1, <2>3 DEF Honesty
  <2>8. QED
    BY <1>1, <1>2, <1>3, <1>4, <2>2, <2>5, <2>6, <2>7, FlatFacts DEF Honesty
<1>17. QED
  BY <1>5, <1>7, <1>8, <1>9, <1>10, <1>11, <1>12, <1>13, <1>14, <1>15, <1>16 DEF IInv

\* A read whose MAC is the stored one returns the last word written.
LEMMA ReadIsFresh ==
    ASSUME IInv, ~reused, state_q = "S_DMAC_W", ~op.write, cmac.tag = op.mac
    PROVE  decrypt(op.ct, ks_q) = truth[op.blk]
<1>1. In(MacStates) /\ In(Live) /\ op.blk \in Blocks
  BY DEF In, MacStates, Live, IInv, Shape
<1>2. op.mac = <<MacKey, dmac_msg(op.ct, op.blk, op.ctr)>>
  BY DEF IInv, TagOK
<1>3. op.mac \in seen.mac
  <2>1. op.mac \in seen.mac \cup {Junk}
    BY <1>1 DEF IInv, TagOK
  <2>2. op.mac # Junk
    BY <1>2 DEF Junk
  <2>3. QED
    BY <2>1, <2>2
<1>4. op.ctr = data[op.blk].ctr /\ op.ctr # 0
  BY <1>1 DEF IInv, CounterOK, Fresh
<1>5. op.ct = data[op.blk].ct
  BY <1>1, <1>2, <1>3, <1>4 DEF IInv, Fresh, Latest
<1>6. op.ct = encrypt(Word(op.blk), Keystream(op.blk, op.ctr)) /\ Word(op.blk) = truth[op.blk]
  BY <1>1, <1>4, <1>5 DEF IInv, DataOK, Word
<1>7. ks_q = Keystream(op.blk, op.ctr)
  BY <1>1, KeystreamThere DEF IInv, CoreOK
<1>8. QED
  BY <1>6, <1>7, CtParts

LEMMA DataMacDoneKeeps ==
    ASSUME IInv, DataMacDone, TakeKeystream, StorePort
    PROVE  IInv'
<1>1. /\ state_q = "S_DMAC_W" /\ cmac.done /\ op' = op /\ lvl_q' = 0 /\ sib_q' = sib_q
      /\ newnode_q' = newnode_q /\ new_ct_q' = new_ct_q /\ lies' = lies
      /\ UNCHANGED <<keyVars, root_q, truth, reused, loaded>>
      /\ NoAes /\ NoCmac
  BY DEF DataMacDone, ghostVars
<1>2. \/ /\ op.write /\ state_q' = "S_PATH" /\ pass2_q' = TRUE /\ new_mac_q' = cmac.tag
         /\ h_q' = leaf(op.blk, op.ctr) /\ tamper_q' = tamper_q
      \/ /\ ~op.write /\ cmac.tag # op.mac /\ state_q' = "S_RESP" /\ rsp_q'.status = "TAMPER"
         /\ pass2_q' = pass2_q
      \/ /\ ~op.write /\ cmac.tag = op.mac /\ state_q' = "S_RESP" /\ rsp_q'.rdata = decrypt(op.ct, ks_q)
         /\ tamper_q' = tamper_q /\ pass2_q' = pass2_q
  BY DEF DataMacDone, Respond
<1>3. Flat
  BY <1>1, <1>2, FlatIs DEF In, Quiet, Live, MacStates, Pathing
<1>4. /\ In(MacStates) /\ ~In(MacStates)' /\ ~Pass1' /\ ~Pass1 /\ (Writing <=> op.write)
      /\ (op.write <=> Pass2') /\ (op.write <=> Writing') /\ (op.write <=> state_q' = "S_PATH")
      /\ (op.write <=> In(Pathing)')
  BY <1>1, <1>2 DEF In, MacStates, Pathing, Pass1, Pass2, Writing
<1>5. UnitOK' /\ CoreBasic' /\ ~aes_busy'
  <2>1. UNCHANGED keyVars /\ Needed' = Needed /\ op'.blk = op.blk /\ ~In({"S_K1T", "S_K1M"})
    BY <1>1 DEF Needed, In
  <2>2. ~aes_busy
    BY <1>4 DEF IInv, CoreOK, In, Live
  <2>3. QED
    BY <1>1, <2>1, <2>2, EnginesIdle
<1>6. Shape'
  <2>1. pass2_q' \in BOOLEAN
    BY <1>2, Zenon DEF IInv, Shape
  <2>2. 0 \in 0 .. D - 1
    BY WidthFacts
  <2>3. QED
    BY <1>1, <1>2, <1>3, <2>1, <2>2, FlatFacts
       DEF IInv, Shape, Levels, MitStates, In, Building, Pathing, MacStates
<1>7. StoreShape' /\ Known'
  BY <1>1, PortKeeps
<1>8. CoreOK'
  BY <1>2, <1>4, <1>5 DEF CoreOK
<1>9. CounterOK'
  BY <1>1, <1>2, <1>4 DEF IInv, CounterOK
<1>10. TagOK'
  BY <1>2, <1>4 DEF TagOK
<1>11. Prepared'
  <2>1. CASE ~op.write
    BY <1>2, <1>4, <2>1 DEF Prepared
  <2>2. CASE op.write
    <3>1. /\ new_ct_q = encrypt(op.wdata, Keystream(op.blk, op.ctr))
          /\ new_mac_q' = <<MacKey, dmac_msg(new_ct_q, op.blk, op.ctr)>>
      BY <1>1, <1>2, <1>4, <2>2 DEF IInv, Prepared, TagOK
    <3>2. h_q' = NewNode(lvl_q)'
      BY <1>1, <1>2, <2>2 DEF NewNode
    <3>3. state_q' = "S_PATH" /\ \A m \in 0 .. lvl_q' - 1 : FALSE
      BY <1>1, <1>2, <2>2
    <3>4. QED
      BY <1>1, <1>3, <1>4, <3>1, <3>2, <3>3, FlatFacts DEF Prepared, encrypt
  <2>3. QED
    BY <2>1, <2>2
<1>12. DataOK'
  BY <1>3, FlatData
<1>13. PathOK'
  BY <1>1, <1>2, <1>3, <1>4, FlatFacts DEF IInv, PathOK
<1>14. ~reused' => Fresh'
  <2>1. SUFFICES ASSUME ~reused PROVE Fresh'
    BY <1>3, FlatFacts
  <2>2. op'.old_ctr = data[op'.blk].ctr
    BY <1>1, <1>4, <2>1 DEF IInv, Fresh
  <2>3. state_q' = "S_RESP" /\ ~op'.write /\ rsp_q'.status = "OK" => rsp_q'.rdata = truth[op'.blk]
    BY <1>1, <1>2, <2>1, ReadIsFresh
  <2>4. QED
    BY <1>3, <2>1, <2>2, <2>3, FlatFresh
<1>15. ASSUME lies' = 0 PROVE Honesty'
  <2>1. lies = 0 /\ Honesty
    BY <1>1, <1>15 DEF IInv
  <2>2. /\ \A l, i : Stored(l, i)' = Stored(l, i) /\ (Sound(l, i)' <=> Sound(l, i))
        /\ \A l \in 1 .. D - 1 : \A i \in 0 .. Width(l) - 1 : Sound(l, i)'
        /\ root_q' = <<TreeKey', <<Stored(D - 1, 0)', Stored(D - 1, 1)'>>>>
    BY <1>3, <2>1, FlatTree
  <2>3. PICK b : b = op.blk
    OBVIOUS
  <2>4. op.write => \A m \in 0 .. D - 1 : sib_q[m] = Stored(m, sibling(Idx(b, m)))
    BY <1>4, <2>1, <2>3 DEF Honesty
  <2>5. op.write => \A m \in 0 .. D - 1 : sib_q'[m] = Stored(m, sibling(Idx(b, m)))'
    BY <1>1, <2>2, <2>4
  <2>6. ~op.write => cmac.tag = op.mac
    <3>1. SUFFICES ASSUME ~op.write PROVE cmac.tag = op.mac
      OBVIOUS
    <3>2. /\ op.ct = data[op.blk].ct /\ op.mac = data[op.blk].mac /\ op.ctr = data[op.blk].ctr
          /\ op.ctr # 0 /\ op.blk \in Blocks /\ In(Live)
      BY <1>3, <1>4, <2>1, <3>1, FlatFacts DEF Honesty, IInv, CounterOK, Shape
    <3>3. op.mac = <<MacKey, dmac_msg(op.ct, op.blk, op.ctr)>>
      BY <3>2 DEF IInv, DataOK
    <3>4. QED
      BY <1>1, <3>1, <3>3 DEF IInv, TagOK
  <2>7. ~tamper_q'
    BY <1>2, <2>1, <2>6 DEF Honesty
  <2>8. b = op'.blk /\ state_q' # "S_PATH_W"
    BY <1>1, <1>2, <2>3
  <2>9. QED
    BY <1>1, <1>2, <1>3, <1>4, <2>2, <2>5, <2>7, <2>8, FlatFacts DEF Honesty
<1>16. QED
  BY <1>5, <1>6, <1>7, <1>8, <1>9, <1>10, <1>11, <1>12, <1>13, <1>14, <1>15 DEF IInv
\* The last commit of a truthful storage completes the path.
LEMMA CommitSound ==
    ASSUME IInv, lies = 0, CommitStore, UNCHANGED keyVars, lvl_q = D - 1,
           NEW m \in 0 .. D - 1, NEW i, i = Idx(op.blk, m + 1)
    PROVE  NewNode(m + 1) = <<TreeKey, <<Stored(m, 2 * i)', Stored(m, 2 * i + 1)'>>>>
<1>1. state_q = "S_COMMIT" /\ D \in Nat /\ op.blk \in Blocks
  BY WidthFacts DEF CommitStore, IInv, Shape
<1>2. NewNode(m + 1) = Join(TreeKey, Idx(op.blk, m), NewNode(m), sib_q[m])
  BY <1>1, NewNodeIs
<1>3. PICK x, y : x = Idx(op.blk, m) /\ y = sibling(x)
  OBVIOUS
<1>4. Stored(m, x)' = NewNode(m) /\ Stored(m, y)' = sib_q[m]
  BY <1>1, <1>3, CommitHonest
<1>5. /\ x % 2 = 1 => 2 * i = y /\ 2 * i + 1 = x
      /\ x % 2 # 1 => 2 * i = x /\ 2 * i + 1 = y
  BY <1>1, <1>3, IdxChildren
<1>6. CASE x % 2 = 1
  BY <1>2, <1>3, <1>4, <1>5, <1>6 DEF Join
<1>7. CASE x % 2 # 1
  BY <1>2, <1>3, <1>4, <1>5, <1>7 DEF Join
<1>8. QED
  BY <1>6, <1>7

LEMMA CommitKeeps ==
    ASSUME IInv, Commit, TakeKeystream, StorePort
    PROVE  IInv'
<1>1. /\ state_q = "S_COMMIT" /\ op' = op /\ h_q' = h_q /\ pass2_q' = pass2_q /\ sib_q' = sib_q
      /\ newnode_q' = newnode_q /\ new_ct_q' = new_ct_q /\ new_mac_q' = new_mac_q
      /\ tamper_q' = tamper_q /\ root_q' = root_q /\ lies' = lies
      /\ UNCHANGED keyVars /\ key_q' = key_q /\ reused' = reused /\ loaded' = loaded
      /\ NoAes /\ NoCmac
  BY DEF Commit, keyVars
<1>2. \/ lvl_q = D - 1 /\ state_q' = "S_RESP" /\ truth' = [truth EXCEPT ![op.blk] = op.wdata]
      \/ lvl_q < D - 1 /\ lvl_q' = lvl_q + 1 /\ state_q' = state_q /\ truth' = truth
  BY DEF Commit, Respond
<1>3. CommitStore
  BY <1>1, PortIs DEF BuildStore
<1>4. /\ D \in Nat /\ lvl_q \in 1 .. D - 1 /\ op.blk \in Blocks /\ op.write /\ Writing
      /\ In(Live) /\ ~Pass1
  BY <1>1, WidthFacts DEF IInv, Shape, Levels, CounterOK, Writing, In, Live, Pass1, Pathing
<1>5. /\ TreeKey' = TreeKey /\ MacKey' = MacKey /\ \A b, c : Keystream(b, c)' = Keystream(b, c)
      /\ \A m : NewNode(m)' = NewNode(m)
      /\ NewBlock' = NewBlock
  BY <1>1, KeptKeys DEF NewNode, NewBlock
<1>6. \A b \in Blocks : data'[b] = IF b = op.blk THEN NewBlock ELSE data[b]
  BY <1>3 DEF IInv, StoreShape, CommitStore
<1>7. NewBlock.ctr = op.ctr
  BY DEF NewBlock
<1>8. UnitOK' /\ CoreBasic' /\ ~aes_busy'
  <2>1. Needed' = Needed /\ op'.blk = op.blk /\ ~In({"S_K1T", "S_K1M"})
    BY <1>1 DEF Needed, In
  <2>2. ~aes_busy
    BY <1>4 DEF IInv, CoreOK, In
  <2>3. QED
    BY <1>1, <2>1, <2>2, EnginesIdle
<1>9. StoreShape' /\ Known'
  BY <1>1, PortKeeps
<1>10. state_q' \in {"S_RESP", "S_COMMIT"}
  BY <1>1, <1>2
<1>11. /\ ~Pass1' /\ ~Pass2' /\ ~In(MacStates)' /\ ~In(Pathing)' /\ ~In(Building)' /\ ~In(Young)'
       /\ In(Live)' /\ (Writing' <=> state_q' = "S_COMMIT") /\ ~In({"S_K1T", "S_K1M"})'
       /\ In(Live \ {"S_COMMIT"})' <=> state_q' = "S_RESP"
  BY <1>10 DEF In, Pathing, Pass1, Pass2, MacStates, Writing, Building, Young, Live
<1>12. Shape'
  <2>1. Levels'
    BY <1>1, <1>2, <1>4, <1>10, <1>11 DEF Levels
  <2>2. QED
    BY <1>1, <1>10, <2>1 DEF IInv, Shape, MitStates
<1>13. CoreOK'
  BY <1>8, <1>10, <1>11 DEF CoreOK
<1>14. CounterOK'
  BY <1>1, <1>4, <1>11 DEF IInv, CounterOK
<1>15. TagOK'
  BY <1>10, <1>11 DEF TagOK
<1>16. Prepared'
  <2>1. data'[op.blk] = NewBlock
    BY <1>4, <1>6
  <2>2. Prepared
    BY DEF IInv
  <2>3. QED
    BY <1>1, <1>4, <1>5, <1>10, <1>11, <2>1, <2>2 DEF Prepared, encrypt
<1>17. \A b \in Blocks : Word(b)' = IF b = op.blk THEN op.wdata ELSE truth[b]
  <2>1. truth = [b \in Blocks |-> truth[b]]
    BY DEF IInv, DataOK
  <2>2. QED
    BY <1>1, <1>2, <1>4, <1>5, <1>6, <2>1 DEF Word
<1>18. DataOK'
  <2>1. \A b \in Blocks :
           /\ data'[b].ctr = 0 => Word(b)' = ZeroWord
           /\ data'[b].ctr # 0 => /\ data'[b].ct = encrypt(Word(b)', Keystream(b, data'[b].ctr))
                                  /\ data'[b].mac = <<MacKey, dmac_msg(data'[b].ct, b, data'[b].ctr)>>
    BY <1>3, <1>17, CommitWords
  <2>2. truth' = [b \in Blocks |-> truth'[b]]
    BY <1>2 DEF IInv, DataOK
  <2>3. QED
    BY <1>5, <1>11, <2>1, <2>2 DEF DataOK, encrypt
<1>19. PathOK'
  BY <1>11 DEF PathOK
<1>20. ASSUME ~reused' PROVE Fresh'
  <2>1. KeystreamOnce'
    BY <1>1, <1>3, <1>20, CommitKeystreamOnce DEF KeystreamOnce, Zero, Aes!Zero
  <2>2. Latest'
    BY <1>1, <1>3, <1>20, CommitLatest
  <2>3. \A b \in Blocks : Counter(b)' = Counter(b)
    BY <1>1, <1>2, <1>6, <1>7 DEF Counter
  <2>4. Bound'
    BY <1>1, <1>4, <1>20, <2>3, BoundFrame DEF IInv, Fresh
  <2>5. data'[op'.blk] = NewBlock'
    BY <1>1, <1>4, <1>5, <1>6
  <2>6. QED
    BY <1>1, <1>4, <1>11, <2>1, <2>2, <2>4, <2>5 DEF Fresh
<1>21. ASSUME lies' = 0 PROVE Honesty'
  <2>1. lies = 0 /\ ~tamper_q'
    BY <1>1, <1>21 DEF IInv, Honesty
  <2>2. /\ \A m \in 0 .. D - 1 : \A i : i = sibling(Idx(op.blk, m)) => Stored(m, i)' = sib_q[m]
        /\ \A l \in 1 .. D - 1 : \A i \in 0 .. Width(l) - 1 : i # Idx(op.blk, l) => Sound(l, i)'
        /\ \A m \in 0 .. lvl_q : \A i : i = Idx(op.blk, m) => Stored(m, i)' = NewNode(m)
    BY <1>1, <1>3, <2>1, CommitHonest
  <2>3. CASE state_q' = "S_COMMIT"
    <3>1. PICK n : n = lvl_q'
      OBVIOUS
    <3>2. \A m \in 1 .. n - 1 : m \in 0 .. lvl_q
      BY <1>2, <1>4, <2>3, <3>1
    <3>3. PICK b : b = op.blk
      OBVIOUS
    <3>4. /\ \A m \in 0 .. D - 1 : sib_q'[m] = Stored(m, sibling(Idx(b, m)))'
          /\ \A m \in 1 .. n - 1 : Stored(m, Idx(b, m))' = NewNode(m)'
      BY <1>1, <1>5, <2>2, <3>2, <3>3
    <3>5. b = op'.blk
      BY <1>1, <3>3
    <3>6. \A l \in 1 .. D - 1 : \A i \in 0 .. Width(l) - 1 : i # Idx(b, l) => Sound(l, i)'
      BY <2>2, <3>3
    <3>7. QED
      BY <1>11, <2>1, <2>3, <3>1, <3>4, <3>5, <3>6 DEF Honesty
  <2>4. CASE state_q' = "S_RESP"
    <3>1. lvl_q = D - 1
      BY <1>1, <1>2, <2>4
    <3>2. ASSUME NEW l \in 1 .. D - 1, NEW i \in 0 .. Width(l) - 1 PROVE Sound(l, i)'
      <4>1. CASE i # Idx(op.blk, l)
        BY <2>2, <4>1
      <4>2. CASE i = Idx(op.blk, l)
        <5>1. PICK m \in 0 .. D - 1 : l = m + 1 /\ m = l - 1
          BY <1>4
        <5>2. NewNode(m + 1) = <<TreeKey, <<Stored(m, 2 * i)', Stored(m, 2 * i + 1)'>>>>
          BY <1>1, <1>3, <2>1, <3>1, <4>2, <5>1, CommitSound
        <5>3. l \in 0 .. lvl_q /\ l # 0
          BY <1>4, <3>1
        <5>4. Stored(l, i)' = NewNode(l)
          BY <2>2, <4>2, <5>3
        <5>5. node'[<<l, i>>] = NewNode(m + 1)
          BY <5>1, <5>3, <5>4 DEF Stored
        <5>6. QED
          BY <1>5, <5>1, <5>2, <5>5 DEF Sound
      <4>3. QED
        BY <4>1, <4>2
    <3>3. root_q' = <<TreeKey', <<Stored(D - 1, 0)', Stored(D - 1, 1)'>>>>
      <4>1. PICK m \in 0 .. D - 1 : m = D - 1 /\ D = m + 1
        <5>1. D - 1 \in 0 .. D - 1 /\ D = (D - 1) + 1
          BY WidthFacts
        <5>2. QED
          BY <5>1
      <4>2. PICK i : i = Idx(op.blk, m + 1)
        OBVIOUS
      <4>3. i = 0
        <5>1. D \in 0 .. D /\ Width(D) = 1
          BY <1>4, WidthFacts
        <5>2. Idx(op.blk, D) \in 0 .. Width(D) - 1
          BY <1>4, <5>1, IdxRange
        <5>3. QED
          BY <4>1, <4>2, <5>1, <5>2
      <4>4. NewNode(m + 1) = <<TreeKey, <<Stored(m, 2 * i)', Stored(m, 2 * i + 1)'>>>>
        BY <1>1, <1>3, <2>1, <3>1, <4>2, CommitSound
      <4>5. root_q' = NewNode(D)
        BY <1>1 DEF IInv, Prepared
      <4>6. 2 * i = 0 /\ 2 * i + 1 = 1
        BY <4>3
      <4>7. QED
        BY <1>5, <4>1, <4>4, <4>5, <4>6
    <3>4. QED
      BY <1>11, <2>1, <2>4, <3>2, <3>3 DEF Honesty
  <2>5. QED
    BY <1>10, <2>3, <2>4
<1>22. QED
  BY <1>8, <1>9, <1>12, <1>13, <1>14, <1>15, <1>16, <1>18, <1>19, <1>20, <1>21 DEF IInv

LEMMA RespondedKeeps ==
    ASSUME IInv, Responded, TakeKeystream, StorePort
    PROVE  IInv'
<1>1. /\ state_q = "S_RESP" /\ state_q' = "S_IDLE" /\ op' = op /\ lvl_q' = lvl_q
      /\ pass2_q' = pass2_q /\ sib_q' = sib_q /\ newnode_q' = newnode_q
      /\ tamper_q' = tamper_q /\ lies' = lies
      /\ UNCHANGED <<keyVars, root_q, truth, reused, loaded>>
      /\ NoAes /\ NoCmac
  BY DEF Responded, opVars, ghostVars
<1>2. Flat
  BY <1>1, FlatIs DEF In, Quiet, Live
<1>3. ~Pass1' /\ ~Pass2' /\ ~In(MacStates)' /\ ~In(Pathing)' /\ ~Writing'
  BY <1>1 DEF In, Pathing, Pass1, Pass2, MacStates, Writing
<1>4. UnitOK' /\ CoreBasic' /\ ~aes_busy'
  <2>1. UNCHANGED keyVars /\ Needed' = Needed /\ op'.blk = op.blk /\ ~In({"S_K1T", "S_K1M"})
    BY <1>1 DEF Needed, In
  <2>2. ~aes_busy
    BY <1>1 DEF IInv, CoreOK, In, Live, Pass1, Pathing
  <2>3. QED
    BY <1>1, <2>1, <2>2, EnginesIdle
<1>5. Shape'
  BY <1>1, <1>2, <1>3, FlatFacts DEF IInv, Shape, Levels, MitStates
<1>6. StoreShape' /\ Known'
  BY <1>1, PortKeeps
<1>7. CoreOK' /\ CounterOK' /\ TagOK' /\ Prepared' /\ PathOK'
  BY <1>1, <1>3, <1>4 DEF CoreOK, CounterOK, TagOK, Prepared, PathOK
<1>8. DataOK'
  BY <1>2, FlatData
<1>9. ~reused' => Fresh'
  BY <1>1, <1>2, <1>3, FlatFacts, FlatFresh
<1>10. ASSUME lies' = 0 PROVE Honesty'
  <2>1. lies = 0 /\ ~tamper_q'
    BY <1>1, <1>10 DEF IInv, Honesty
  <2>2. /\ \A l \in 1 .. D - 1 : \A i \in 0 .. Width(l) - 1 : Sound(l, i)'
        /\ root_q' = <<TreeKey', <<Stored(D - 1, 0)', Stored(D - 1, 1)'>>>>
    BY <1>2, <2>1, FlatTree
  <2>3. QED
    BY <1>1, <1>2, <1>3, <2>1, <2>2, FlatFacts DEF Honesty
<1>11. QED
  BY <1>4, <1>5, <1>6, <1>7, <1>8, <1>9, <1>10 DEF IInv
-----------------------------------------------------------------------------
(* A request.                                                                *)

LEMMA AcceptKeeps ==
    ASSUME IInv, NEW q \in Requests, Accept(q), StorePort
    PROVE  IInv'
<1>1. PICK d \in BlockReads(q.blk) :
         /\ op' = [write |-> q.write, blk |-> q.blk, wdata |-> q.wdata,
                   ct |-> d.ct, mac |-> d.mac, ctr |-> d.ctr, old_ctr |-> d.ctr]
         /\ h_q' = leaf(q.blk, d.ctr)
         /\ KeystreamStart(q, d.ctr)
         /\ Honest(d, data[q.blk])
  BY DEF Accept
<1>2. /\ state_q = "S_IDLE" /\ state_q' = "S_PATH" /\ lvl_q' = 0 /\ pass2_q' = FALSE
      /\ sib_q' = sib_q /\ newnode_q' = newnode_q /\ tamper_q' = tamper_q
      /\ ks_valid_q' = FALSE /\ NoCmac
      /\ UNCHANGED <<keyVars, root_q, truth, reused, loaded>>
  BY DEF Accept
<1>3. q.write \in BOOLEAN /\ q.blk \in Blocks
  BY MitAssumption DEF Requests
<1>4. d.ctr \in Ctrs /\ d.mac \in seen.mac \cup {Junk}
  BY <1>3 DEF BlockReads, IInv, StoreShape, Ctrs
<1>5. /\ op'.write = q.write /\ op'.blk = q.blk /\ op'.ct = d.ct /\ op'.mac = d.mac
      /\ op'.ctr = d.ctr /\ op'.old_ctr = d.ctr /\ DOMAIN op' = OpFields
  BY <1>1 DEF OpFields
<1>6. Flat
  BY <1>2, FlatIs DEF In, Quiet, Live, Pathing
<1>7. Pass1' /\ ~Pass2' /\ ~In(MacStates)' /\ In(Pathing)' /\ ~Writing'
  BY <1>2 DEF In, Pathing, Pass1, Pass2, MacStates, Writing
<1>8. lies' \in Nat /\ (lies' = 0 => lies = 0 /\ d = data[q.blk])
  <2>1. lies \in Nat
    BY DEF IInv, Shape
  <2>2. lies' = IF d = data[q.blk] THEN lies ELSE lies + 1
    BY <1>1 DEF Honest
  <2>3. QED
    BY <2>1, <2>2
<1>9. UnitOK'
  BY <1>2, UnitStep DEF NoCmac, IInv
<1>10. /\ CoreBasic' /\ aes_busy'
       /\ aes_work' = <<enc_key', ks_block(op'.blk, Needed')>>
  <2>1. CoreBasic /\ ~aes_busy
    BY <1>2 DEF IInv, CoreOK, In, Live, Pass1, Pathing
  <2>2. PICK c : c = (IF q.write THEN bump(d.ctr) ELSE d.ctr)
    OBVIOUS
  <2>3. Aes!Edge(TRUE, enc_key, ks_block(q.blk, c))
    BY <1>1, <2>2 DEF KeystreamStart
  <2>4. /\ aes_busy' \in BOOLEAN /\ aes_done' \in BOOLEAN
        /\ aes_done' => ~aes_busy'
        /\ aes_busy' => aes_round' \in 1 .. Rounds
        /\ aes_busy' /\ aes_work' = <<enc_key, ks_block(q.blk, c)>>
    BY <2>1, <2>3, CoreStep
  <2>5. Needed' = c
    BY <1>5, <2>2 DEF Needed
  <2>6. enc_key' = enc_key
    BY <1>6, FlatFacts, KeptKeys
  <2>7. CoreBasic'
    BY <1>2, <2>4 DEF CoreBasic
  <2>8. QED
    BY <1>5, <2>4, <2>5, <2>6, <2>7
<1>11. D \in Nat /\ 0 \in 0 .. D - 1
  BY WidthFacts
<1>12. Shape'
  <2>1. Levels'
    BY <1>2, <1>7, <1>11 DEF Levels, In, Building
  <2>2. pass2_q' \in BOOLEAN
    BY <1>2
  <2>3. QED
    BY <1>2, <1>3, <1>4, <1>5, <1>6, <1>8, <2>1, <2>2, FlatFacts DEF IInv, Shape, MitStates
<1>13. StoreShape' /\ Known'
  BY <1>2, PortKeeps
<1>14. CoreOK'
  <2>1. Coming'
    BY <1>2, <1>7, <1>10 DEF Coming, ks_block
  <2>2. QED
    BY <1>2, <1>7, <1>10, <2>1 DEF CoreOK
<1>15. CounterOK' /\ TagOK' /\ Prepared'
  BY <1>2, <1>4, <1>5, <1>6, <1>7, FlatFacts DEF CounterOK, TagOK, Prepared
<1>16. DataOK'
  BY <1>6, FlatData
<1>17. PathOK'
  <2>1. PICK p : p = [m \in {0} |-> leaf(q.blk, d.ctr)]
    OBVIOUS
  <2>2. p[0] = leaf(q.blk, d.ctr)
    BY <2>1
  <2>3. \A m \in 0 .. 0 - 1 : FALSE
    OBVIOUS
  <2>4. Rises(TreeKey', q.blk, d.ctr, p, sib_q', 0)
    BY <2>2, <2>3 DEF Rises
  <2>5. QED
    BY <1>1, <1>2, <1>5, <1>7, <2>2, <2>4 DEF PathOK
<1>18. ~reused' => Fresh'
  BY <1>2, <1>6, <1>7, FlatFacts, FlatFresh
<1>19. ASSUME lies' = 0 PROVE Honesty'
  <2>1. lies = 0 /\ d = data[q.blk] /\ ~tamper_q'
    BY <1>2, <1>8, <1>19 DEF IInv, Honesty
  <2>2. /\ \A l, i : Stored(l, i)' = Stored(l, i) /\ (Sound(l, i)' <=> Sound(l, i))
        /\ \A l \in 1 .. D - 1 : \A i \in 0 .. Width(l) - 1 : Sound(l, i)'
        /\ root_q' = <<TreeKey', <<Stored(D - 1, 0)', Stored(D - 1, 1)'>>>>
    BY <1>6, <2>1, FlatTree
  <2>3. Idx(q.blk, 0) = q.blk
    BY <1>3, BlockIsNat, IdxFacts
  <2>4. h_q' = Stored(0, Idx(q.blk, 0))
    BY <1>1, <2>1, <2>3 DEF Stored
  <2>5. h_q' = Stored(lvl_q, Idx(op.blk, lvl_q))'
    BY <1>2, <1>5, <2>2, <2>4
  <2>6. \A m \in 0 .. lvl_q' - 1 : FALSE
    BY <1>2
  <2>7. op'.old_ctr = data'[op'.blk].ctr /\ op'.ctr = data'[op'.blk].ctr
        /\ op'.ct = data'[op'.blk].ct /\ op'.mac = data'[op'.blk].mac
    BY <1>5, <1>6, <2>1, FlatFacts
  <2>8. QED
    BY <1>2, <1>6, <1>7, <2>1, <2>2, <2>5, <2>6, <2>7, FlatFacts DEF Honesty
<1>20. QED
  BY <1>8, <1>9, <1>12, <1>13, <1>14, <1>15, <1>16, <1>17, <1>18, <1>19 DEF IInv
-----------------------------------------------------------------------------
(* The pulses.                                                               *)

LEMMA ClearKeeps ==
    ASSUME IInv, ClearStore, loaded \subseteq loaded'
    PROVE  StoreShape' /\ Known' /\ \A b \in Blocks : data'[b] = EmptyBlock
<1>1. /\ data' = [b \in Blocks |-> EmptyBlock]
      /\ node' = [a \in NodeAddrs |-> Zero]
      /\ seen' = seen
  BY DEF ClearStore
<1>2. /\ EmptyBlock.ct = Zero /\ EmptyBlock.mac = Zero /\ EmptyBlock.ctr = 0 /\ 0 \in Ctrs
      /\ DOMAIN EmptyBlock = {"ct", "mac", "ctr"}
  BY MitAssumption DEF EmptyBlock, Ctrs
<1>3. Zero \in seen.ct /\ Zero \in seen.mac /\ Zero \in seen.node
  BY DEF IInv, StoreShape
<1>4. \A b \in Blocks : data'[b] = EmptyBlock
  BY <1>1
<1>5. \A a \in NodeAddrs : node'[a] = Zero
  BY <1>1
<1>6. data' = [b \in Blocks |-> data'[b]] /\ node' = [a \in NodeAddrs |-> node'[a]]
  BY <1>1
<1>7. StoreShape'
  BY <1>1, <1>2, <1>3, <1>4, <1>5, <1>6 DEF StoreShape, Zero, Aes!Zero
<1>8. Known'
  BY <1>1 DEF IInv, Known, encrypt, Aes!Encrypt, ks_block, Zero, Aes!Zero
<1>9. QED
  BY <1>4, <1>7, <1>8

\* Whatever is started, the core keeps its shape.
LEMMA CoreAnyStep ==
    ASSUME IInv, SubkeyStart \/ LostRequest \/ NoAes, ks_valid_q' \in BOOLEAN
    PROVE  CoreBasic'
<1>1. CoreBasic
  BY DEF IInv, CoreOK
<1>2. \E start \in BOOLEAN : \E key, block : Aes!Edge(start, key, block)
  <2>1. CASE SubkeyStart
    <3>1. PICK start \in BOOLEAN : start = (state_q \in {"S_K1T", "S_K1M"} /\ ~aes_busy /\ ~aes_done)
      OBVIOUS
    <3>2. QED
      BY <2>1, <3>1 DEF SubkeyStart
  <2>2. CASE LostRequest
    BY <2>2 DEF LostRequest, KeystreamStart
  <2>3. CASE NoAes
    BY <2>3 DEF NoAes
  <2>4. QED
    BY <2>1, <2>2, <2>3
<1>3. QED
  BY <1>1, <1>2, CoreStep DEF CoreBasic

\* Keys that were not loaded before made nothing that was ever stored.
LEMMA NewKeysMadeNothing ==
    ASSUME IInv, NEW k, k \notin loaded, key_q' = k, seen' = seen
    PROVE  NewKeys' /\ \A t \in seen'.node : \A x, k1 : t # <<<<tree_key', k1>>, x>>
<1>1. Known
  BY DEF IInv
<1>2. enc_key' = <<"enc", k>> /\ mac_key' = <<"mac", k>> /\ tree_key' = <<"tree", k>>
  BY DEF enc_key, mac_key, tree_key
<1>3. ASSUME NEW t \in seen.ct, NEW w, NEW b, NEW c
      PROVE  t # encrypt(w, Aes!Encrypt(<<"enc", k>>, ks_block(b, c)))
  <2>1. t = Zero \/ \E j \in loaded : \E v, e, d :
           t = encrypt(v, Aes!Encrypt(<<"enc", j>>, ks_block(e, d)))
    BY <1>1 DEF Known
  <2>2. CASE t = Zero
    BY <2>2 DEF Zero, Aes!Zero, encrypt
  <2>3. CASE \E j \in loaded : \E v, e, d : t = encrypt(v, Aes!Encrypt(<<"enc", j>>, ks_block(e, d)))
    BY <2>3 DEF encrypt, Aes!Encrypt
  <2>4. QED
    BY <2>1, <2>2, <2>3
<1>4. ASSUME NEW t \in seen.mac, NEW x, NEW k1 PROVE t # <<<<<<"mac", k>>, k1>>, x>>
  BY <1>1 DEF Known, Zero, Aes!Zero
<1>5. ASSUME NEW t \in seen.node, NEW x, NEW k1 PROVE t # <<<<<<"tree", k>>, k1>>, x>>
  BY <1>1 DEF Known, Zero, Aes!Zero
<1>6. NewKeys'
  <2>1. \A b, c : Keystream(b, c)' = Aes!Encrypt(<<"enc", k>>, ks_block(b, c))
    BY <1>2 DEF Keystream, Aes!Encrypt, ks_block
  <2>2. QED
    BY <1>2, <1>3, <1>4, <2>1 DEF NewKeys, encrypt
<1>7. QED
  BY <1>2, <1>5, <1>6

LEMMA InitPulseKeeps ==
    ASSUME IInv, NEW k \in KeySets, InitPulse(k), TakeKeystream, ClearStore
    PROVE  IInv'
<1>1. /\ state_q \in {"S_EMPTY", "S_IDLE"} /\ state_q' = "S_K1T" /\ key_q' = k /\ tamper_q' = FALSE
      /\ NoAes \/ LostRequest
      /\ NoCmac
      /\ truth' = [b \in Blocks |-> ZeroWord]
      /\ loaded' = loaded \union {k} /\ reused' = (reused \/ k \in loaded)
      /\ op' = op /\ pass2_q' = pass2_q /\ sib_q' = sib_q /\ newnode_q' = newnode_q /\ lies' = lies
  BY DEF InitPulse, opVars
<1>2. StoreShape' /\ Known' /\ \A b \in Blocks : data'[b] = EmptyBlock
  BY <1>1, ClearKeeps
<1>3. Shape'
  <2>1. reused' \in BOOLEAN
    BY <1>1
  <2>2. Levels'
    BY <1>1 DEF Levels, In, Building, Pathing, MacStates
  <2>3. QED
    BY <1>1, <2>1, <2>2 DEF IInv, Shape, MitStates
<1>4. UnitOK'
  BY <1>1, UnitStep DEF NoCmac, IInv
<1>5. CoreOK'
  <2>1. ks_valid_q' \in BOOLEAN
    <3>1. ks_valid_q \in BOOLEAN
      BY DEF IInv, CoreOK, CoreBasic
    <3>2. QED
      BY <3>1 DEF TakeKeystream
  <2>2. CoreBasic'
    BY <1>1, <2>1, CoreAnyStep
  <2>3. QED
    BY <1>1, <2>2 DEF CoreOK, In, Building, Live, Pathing, MacStates, Pass1
<1>6. CounterOK' /\ Prepared' /\ PathOK'
  BY <1>1, NoRequest DEF In, Young
<1>7. TagOK'
  BY <1>1 DEF TagOK, In, Pathing, MacStates, Pass1
<1>8. DataOK'
  BY <1>1, <1>2 DEF DataOK, In, Young, Live, Pathing, MacStates
<1>9. ASSUME ~reused' PROVE Fresh'
  <2>1. ~reused /\ k \notin loaded /\ reused \in BOOLEAN
    BY <1>1, <1>9 DEF IInv, Shape
  <2>2. reused' = reused /\ seen' = seen
    BY <1>1, <2>1 DEF ClearStore
  <2>3. KeystreamOnce'
    BY <2>1, <2>2, OnceFrame DEF IInv, Fresh
  <2>4. NewKeys' /\ \A t \in seen'.node : \A x, k1 : t # <<<<tree_key', k1>>, x>>
    BY <1>1, <2>1, <2>2, NewKeysMadeNothing
  <2>5. QED
    BY <1>1, <2>3, <2>4 DEF Fresh, In, Building, Live, Pathing, MacStates, Pass2
<1>10. Honesty'
  BY <1>1 DEF Honesty, In, Building, Live, Pathing, MacStates, Pass1, Pass2, Writing
<1>11. QED
  BY <1>2, <1>3, <1>4, <1>5, <1>6, <1>7, <1>8, <1>9, <1>10 DEF IInv

LEMMA ZeroizeKeeps ==
    ASSUME IInv, Zeroize, StorePort \/ ClearStore
    PROVE  IInv'
<1>1. /\ state_q' = "S_EMPTY" /\ tamper_q' = FALSE /\ op' = NoOp /\ pass2_q' = FALSE
      /\ sib_q' = [l \in 0 .. D - 1 |-> Zero]
      /\ newnode_q' = [l \in 0 .. D - 1 |-> Zero]
      /\ ks_valid_q' = FALSE /\ (SubkeyStart \/ LostRequest)
      /\ truth' = truth /\ reused' = reused /\ loaded' = loaded /\ lies' = lies
      /\ Cmac!UnitEdge(FALSE, Zero, Zero, TRUE)
  BY DEF Zeroize
<1>2. StoreShape' /\ Known'
  BY <1>1, PortKeeps, ClearKeeps
<1>3. Shape'
  <2>1. Levels'
    BY <1>1 DEF Levels, In, Building, Pathing, MacStates
  <2>2. 0 \in Blocks /\ 0 \in Ctrs
    BY WidthFacts, MitAssumption DEF Ctrs
  <2>3. /\ DOMAIN NoOp = OpFields /\ NoOp.write = FALSE /\ NoOp.blk = 0 /\ NoOp.ctr = 0
        /\ NoOp.old_ctr = 0
    BY DEF NoOp, OpFields
  <2>4. /\ sib_q' = [l \in 0 .. D - 1 |-> sib_q'[l]]
        /\ newnode_q' = [l \in 0 .. D - 1 |-> newnode_q'[l]]
    BY <1>1
  <2>5. pass2_q' \in BOOLEAN /\ op'.write \in BOOLEAN
    BY <1>1, <2>3
  <2>6. QED
    BY <1>1, <2>1, <2>2, <2>3, <2>4, <2>5 DEF IInv, Shape, MitStates
<1>4. UnitOK'
  BY <1>1, UnitStep DEF IInv
<1>5. CoreOK'
  <2>1. CoreBasic'
    BY <1>1, CoreAnyStep
  <2>2. QED
    BY <1>1, <2>1 DEF CoreOK, In, Building, Live, Pathing, MacStates, Pass1
<1>6. CounterOK' /\ Prepared' /\ PathOK'
  BY <1>1, NoRequest DEF In
<1>7. TagOK'
  BY <1>1 DEF TagOK, In, Pathing, MacStates, Pass1
<1>8. DataOK'
  BY <1>1 DEF IInv, DataOK, In, Young, Live, Pathing, MacStates
<1>9. ASSUME ~reused' PROVE Fresh'
  <2>1. KeystreamOnce
    BY <1>1, <1>9 DEF IInv, Fresh
  <2>2. CASE seen'.ct = seen.ct
    BY <1>1, <2>1, <2>2, OnceFrame
       DEF Fresh, In, Young, Building, Live, Pathing, MacStates, Pass2
  <2>3. CASE CommitStore
    <3>1. KeystreamOnce'
      BY <1>1, <1>9, <2>3, CommitKeystreamOnce DEF KeystreamOnce, Zero, Aes!Zero
    <3>2. QED
      BY <1>1, <3>1 DEF Fresh, In, Young, Building, Live, Pathing, MacStates, Pass2
  <2>4. QED
    BY <2>2, <2>3, PortIs DEF BuildStore, storeVars, ClearStore
<1>10. Honesty'
  BY <1>1 DEF Honesty, In, Building, Live, Pathing, MacStates, Pass1, Pass2, Writing
<1>11. QED
  BY <1>2, <1>3, <1>4, <1>5, <1>6, <1>7, <1>8, <1>9, <1>10 DEF IInv
-----------------------------------------------------------------------------
(* The invariant.                                                            *)

LEMMA InitInv == Init => IInv
<1>1. SUFFICES ASSUME Init PROVE IInv
  OBVIOUS
<1>2. state_q = "S_EMPTY" /\ reused = FALSE /\ lies = 0 /\ tamper_q = FALSE
  BY <1>1 DEF Init
<1>3. 0 \in Blocks /\ 0 \in Ctrs
  BY WidthFacts, MitAssumption DEF Ctrs
<1>4. Shape
  <2>1. Levels
    BY <1>2 DEF Levels, In, Building, Pathing, MacStates
  <2>2. /\ DOMAIN NoOp = OpFields /\ NoOp.write = FALSE /\ NoOp.blk = 0 /\ NoOp.ctr = 0
        /\ NoOp.old_ctr = 0
    BY DEF NoOp, OpFields
  <2>3. op = NoOp /\ pass2_q = FALSE /\ sib_q = [l \in 0 .. D - 1 |-> Zero]
        /\ newnode_q = [l \in 0 .. D - 1 |-> Zero]
    BY <1>1 DEF Init
  <2>4. sib_q = [l \in 0 .. D - 1 |-> sib_q[l]] /\ newnode_q = [l \in 0 .. D - 1 |-> newnode_q[l]]
    BY <2>3
  <2>5. pass2_q \in BOOLEAN /\ op.write \in BOOLEAN /\ reused \in BOOLEAN
    BY <1>2, <2>2, <2>3
  <2>6. QED
    BY <1>2, <1>3, <2>1, <2>2, <2>3, <2>4, <2>5 DEF Shape, MitStates
<1>5. seen.ct = {Zero} /\ seen.mac = {Zero} /\ seen.node = {Zero}
  BY <1>1 DEF Init
<1>6. StoreShape
  <2>1. /\ EmptyBlock.ct = Zero /\ EmptyBlock.mac = Zero /\ EmptyBlock.ctr = 0
        /\ DOMAIN EmptyBlock = {"ct", "mac", "ctr"}
    BY DEF EmptyBlock
  <2>2. data = [b \in Blocks |-> EmptyBlock] /\ node = [a \in NodeAddrs |-> Zero]
    BY <1>1 DEF Init
  <2>3. /\ \A b \in Blocks : data[b] = EmptyBlock
        /\ \A a \in NodeAddrs : node[a] = Zero
        /\ data = [b \in Blocks |-> data[b]] /\ node = [a \in NodeAddrs |-> node[a]]
    BY <2>2
  <2>4. QED
    BY <1>3, <1>5, <2>1, <2>3 DEF StoreShape
<1>7. UnitOK
  BY <1>1 DEF Init, Cmac!ResetUnit, UnitOK
<1>8. CoreOK
  <2>1. CoreBasic
    BY <1>1 DEF Init, Aes!ResetCore, CoreBasic
  <2>2. QED
    BY <1>2, <2>1 DEF CoreOK, In, Building, Live, Pathing, MacStates, Pass1
<1>9. CounterOK /\ TagOK /\ Prepared /\ PathOK
  BY <1>2 DEF CounterOK, TagOK, Prepared, PathOK, In, Pathing, MacStates, Pass1, Pass2, Writing
<1>10. DataOK
  BY <1>1, <1>2 DEF Init, DataOK, In, Young, Live, Pathing, MacStates
<1>11. Known
  BY <1>5 DEF Known
<1>12. Fresh
  <2>1. KeystreamOnce
    BY <1>5 DEF KeystreamOnce
  <2>2. QED
    BY <1>2, <2>1 DEF Fresh, In, Young, Building, Live, Pathing, MacStates, Pass2
<1>13. Honesty
  BY <1>2 DEF Honesty, In, Building, Live, Pathing, MacStates, Pass1, Pass2, Writing
<1>14. QED
  BY <1>4, <1>6, <1>7, <1>8, <1>9, <1>10, <1>11, <1>12, <1>13 DEF IInv

LEMMA StutterKeeps ==
    ASSUME IInv, UNCHANGED vars
    PROVE  IInv'
<1>1. /\ Held /\ UNCHANGED storeVars /\ data' = data /\ node' = node /\ seen' = seen
      /\ cmac' = cmac /\ UNCHANGED aesVars /\ ks_q' = ks_q /\ ks_valid_q' = ks_valid_q /\ lies' = lies
  BY DEF vars, Held, storeVars, ghostVars
<1>2. lies' \in Nat
  BY <1>1 DEF IInv, Shape
<1>3. Shape' /\ CounterOK' /\ PathOK'
  BY <1>1, <1>2, HeldRegs
<1>4. UnitOK' /\ StoreShape'
  BY <1>1 DEF IInv, UnitOK, StoreShape, Zero, Aes!Zero
<1>5. /\ UNCHANGED keyVars /\ TreeKey' = TreeKey /\ MacKey' = MacKey /\ enc_key' = enc_key
      /\ tree_key' = tree_key /\ \A b, c : Keystream(b, c)' = Keystream(b, c)
  BY <1>1, HeldIs, KeptKeys
<1>6. CoreOK'
  <2>1. Coming => Coming'
    <3>1. Keystream(op.blk, Needed)' = Keystream(op.blk, Needed)
      BY <1>1, <1>5, HeldIs, HeldParts DEF Keystream, Aes!Encrypt, ks_block
    <3>2. QED
      BY <1>1, <1>5, <3>1, HeldIs, HeldParts DEF Coming, aesVars, ks_block
  <2>2. QED
    BY <1>1, <2>1, HeldIs, HeldParts DEF IInv, CoreOK, CoreBasic, aesVars
<1>7. TagOK'
  BY <1>1, <1>5, HeldIs, HeldParts DEF IInv, TagOK
<1>8. Prepared'
  BY <1>1, <1>5, HeldIs, HeldParts DEF IInv, Prepared, encrypt
<1>9. DataOK'
  <2>1. DataOK /\ \A b : Word(b)' = Word(b)
    BY <1>1, HeldIs, HeldParts DEF IInv, Word
  <2>2. QED
    BY <1>1, <1>5, <2>1, HeldIs, HeldParts DEF DataOK, encrypt
<1>10. Known'
  BY <1>1, HeldIs DEF IInv, Known, encrypt, Aes!Encrypt, ks_block, Zero, Aes!Zero
<1>11. ASSUME ~reused' PROVE Fresh'
  <2>1. Fresh
    BY <1>1, <1>11, HeldIs DEF IInv
  <2>2. \A b \in Blocks : Counter(b)' = Counter(b)
    BY <1>1, HeldIs DEF Counter
  <2>3. /\ KeystreamOnce => KeystreamOnce'
        /\ NewKeys => NewKeys'
        /\ Latest => Latest'
        /\ Bound => Bound'
        /\ \A t : FreshNode(t) => FreshNode(t)'
    BY <1>1, <1>5, <2>2, HeldIs, OnceFrame, KeysFrame, LatestFrame, BoundFrame, NodeFrame
  <2>4. QED
    BY <1>1, <1>5, <2>1, <2>3, HeldIs, HeldParts DEF Fresh
<1>12. ASSUME lies' = 0 PROVE Honesty'
  <2>1. Honesty /\ \A l, i : Stored(l, i)' = Stored(l, i) /\ (Sound(l, i)' <=> Sound(l, i))
    BY <1>1, <1>5, <1>12, TreeFrame DEF IInv
  <2>2. QED
    BY <1>1, <1>5, <2>1, HeldIs, HeldParts DEF Honesty
<1>13. QED
  BY <1>3, <1>4, <1>6, <1>7, <1>8, <1>9, <1>10, <1>11, <1>12 DEF IInv

LEMMA StepInv == IInv /\ [ClockEdge]_vars => IInv'
<1>1. SUFFICES ASSUME IInv, [ClockEdge]_vars PROVE IInv'
  OBVIOUS
<1>2. CASE UNCHANGED vars
  BY <1>1, <1>2, StutterKeeps
<1>3. CASE Step /\ TakeKeystream /\ StorePort
  <2>1. CASE Waiting
    BY <1>1, <1>3, <2>1, WaitingKeeps
  <2>2. CASE Subkeys
    BY <1>1, <1>3, <2>2, SubkeysKeeps
  <2>3. CASE Build
    BY <1>1, <1>3, <2>3, BuildKeeps
  <2>4. CASE Built
    BY <1>1, <1>3, <2>4, BuiltKeeps
  <2>5. CASE Path
    BY <1>1, <1>3, <2>5, PathKeeps
  <2>6. CASE PathDone
    <3>1. CASE PathUp
      BY <1>1, <1>3, <2>6, <3>1, PathUpKeeps
    <3>2. CASE PathVerified
      BY <1>1, <1>3, <2>6, <3>2, PathVerifiedKeeps
    <3>3. CASE PathRecomputed
      BY <1>1, <1>3, <2>6, <3>3, PathRecomputedKeeps
    <3>4. QED
      BY <2>6, <3>1, <3>2, <3>3 DEF PathDone
  <2>7. CASE DataMac
    BY <1>1, <1>3, <2>7, DataMacKeeps
  <2>8. CASE DataMacDone
    BY <1>1, <1>3, <2>8, DataMacDoneKeeps
  <2>9. CASE Commit
    BY <1>1, <1>3, <2>9, CommitKeeps
  <2>10. CASE Responded
    BY <1>1, <1>3, <2>10, RespondedKeeps
  <2>11. QED
    BY <1>1, <1>3, <2>1, <2>2, <2>3, <2>4, <2>5, <2>6, <2>7, <2>8, <2>9, <2>10 DEF Step
<1>4. CASE (\E q \in Requests : Accept(q)) /\ StorePort
  BY <1>1, <1>4, AcceptKeeps
<1>5. CASE (\E k \in KeySets : InitPulse(k)) /\ TakeKeystream /\ ClearStore
  BY <1>1, <1>5, InitPulseKeeps
<1>6. CASE BusyInit /\ TakeKeystream /\ StorePort
  BY <1>1, <1>6, BusyInitKeeps
<1>7. CASE Zeroize /\ (StorePort \/ ClearStore)
  BY <1>1, <1>7, ZeroizeKeeps
<1>8. QED
  BY <1>1, <1>2, <1>3, <1>4, <1>5, <1>6, <1>7 DEF ClockEdge

\* The engine keeps its invariant, for every depth of the tree, every width of the counters
\* and any number of requests, pulses and false reads: what the root says of the counters
\* (Bound), of every counter value one ciphertext (Latest), the keystream that arrives before
\* it is used (CoreOK), and the tree of a truthful storage (Honesty).
THEOREM Invariant == Spec => []IInv
<1>1. Init => IInv
  BY InitInv
<1>2. IInv /\ [ClockEdge]_vars => IInv'
  BY StepInv
<1>3. QED
  BY <1>1, <1>2, PTL DEF Spec

\* A read that the engine answers with OK returns the word last written to its block,
\* whatever the storage answered, as long as no key set is loaded twice.
THEOREM EveryReadIsFresh == Spec => []ReadsAreFresh
<1>1. IInv => ReadsAreFresh
  BY DEF IInv, Fresh, ReadsAreFresh
<1>2. QED
  BY <1>1, Invariant, PTL

\* No keystream makes two ciphertexts: no answer of the storage makes the engine use a
\* counter value of a block again.
THEOREM NoKeystreamTwice == Spec => []KeystreamOnce
<1>1. IInv => KeystreamOnce
  BY DEF IInv, Fresh, KeystreamOnce
<1>2. QED
  BY <1>1, Invariant, PTL

\* While the storage tells the truth the engine never takes it for tampered with, through
\* writes, zeroizes, inits and inits raised while it is busy.
THEOREM TruthIsNoTampering == Spec => []NoFalseTamper
<1>1. IInv => NoFalseTamper
  BY DEF IInv, Honesty, NoFalseTamper
<1>2. QED
  BY <1>1, Invariant, PTL
=============================================================================
