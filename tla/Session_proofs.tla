--------------------------- MODULE Session_proofs ---------------------------
(***************************************************************************)
(* Session for every set of model files, layers, experts and routings.     *)
(*                                                                         *)
(* The invariant has these parts: the types; what the command at work is   *)
(* at; the counts in memory against those on disk; the layout of the       *)
(* experts in the two files against the sidecar, and what a rewrite cut    *)
(* short has left of it; and the invariant of the generation.  What a walk of the graph does to the counts and what the   *)
(* expert order looks like are recursive functions: lemmas show that they  *)
(* exist and what they keep, by Induction of Lists_proofs.                 *)
(***************************************************************************)
EXTENDS Session, Lists_proofs, FiniteSetTheorems, TLAPS

-----------------------------------------------------------------------------
(* A generation by itself.  None of the three properties of the KV cache    *)
(* window is inductive: how much is in the cache depends on how long ago    *)
(* the manager last compacted, and that it compacts the right positions     *)
(* depends on its count being one ahead of the cache when it does.          *)

\* The manager's count against the positions in the cache, phase by phase.
CountAgrees ==
  /\ phase = "idle" => hi = 0 /\ lo = 0 /\ since = 0 /\ pos = 0
  /\ phase = "prompt" => lo = 0 /\ since = 0 /\ pos = 0 /\ hi <= prompt
  /\ phase = "sample" /\ Managed => pos = hi
  /\ phase = "decode" /\ Managed => pos = hi + 1
  /\ ~Managed => lo = 0

\* The cells in use against the tokens since the last compaction.
SinceBounds ==
  /\ lo <= hi
  /\ since < Interval
  /\ Managed /\ Hot > 0 =>
       Cells + (IF phase = "decode" THEN 1 ELSE 0) <= Longer(prompt, Hot) + since

KvInv == KvTypeOK /\ CountAgrees /\ SinceBounds /\ WindowKept /\ FullOnlyBeyond

\* No generation, no cells: the invariant holds at the start.
LEMMA KvInvInit == KvInit => KvInv
  BY KvAssumption, SMT
     DEF KvInit, KvInv, KvTypeOK, CountAgrees, SinceBounds, WindowKept, FullOnlyBeyond,
         Cells, Longer

\* Every step of a generation keeps it.
LEMMA KvInvNext == KvInv /\ [KvNext]_kvVars => KvInv'
<1> SUFFICES ASSUME KvInv, [KvNext]_kvVars PROVE KvInv'
  OBVIOUS
<1> USE KvAssumption
<1> USE DEF KvInv, KvTypeOK, CountAgrees, SinceBounds, WindowKept, FullOnlyBeyond, Cells, Longer, Due
<1>1. CASE \E n \in Prompts : KvStart(n)
  BY <1>1, SMT DEF KvStart
<1>2. CASE DecodeChunk
  <2>1. PICK n \in 1 .. NBatch :
          /\ phase = "prompt" /\ hi + n <= prompt /\ hi' = hi + n
          /\ IF hi' = prompt
             THEN phase' = "sample" /\ pos' = IF Managed THEN prompt ELSE 0
             ELSE phase' = "prompt" /\ pos' = pos
          /\ prompt' = prompt /\ lo' = lo /\ since' = since
    BY <1>2, SMT DEF DecodeChunk
  <2> QED
    BY <2>1, SMT
<1>3. CASE Sample
  <2>1. CASE ~Managed
    BY <1>3, <2>1, SMT DEF Sample
  <2>2. CASE Managed /\ since + 1 < Interval
    BY <1>3, <2>2, SMT DEF Sample
  <2>3. CASE Managed /\ since + 1 >= Interval
    <3>1. pos = hi /\ pos' = hi + 1 /\ since' = 0 /\ lo' = Kept(hi + 1)
      BY <1>3, <2>3, SMT DEF Sample
    <3>2. lo' \in Nat /\ lo' <= Longer(0, hi + 1 - Hot) /\ lo' <= hi
      BY <3>1, SMT DEF Kept
    <3>3. Hot > 0 => hi - lo' + 1 <= Hot
      BY <3>1, SMT DEF Kept
    <3> QED
      BY <1>3, <2>3, <3>1, <3>2, <3>3, SMT DEF Sample
  <2> QED
    BY <2>1, <2>2, <2>3, SMT
<1>4. CASE DecodeToken
  BY <1>4, SMT DEF DecodeToken, Fits
<1>5. CASE NoRoom
  <2>1. CASE phase = "prompt"
    <3>1. PICK n \in 1 .. NBatch : hi + n <= prompt /\ ~ (Cells + n <= NCtx)
      BY <1>5, <2>1, SMT DEF NoRoom, Fits
    <3>2. prompt > NCtx
      BY <2>1, <3>1, SMT
    <3> QED
      BY <1>5, <2>1, <3>2, SMT DEF NoRoom
  <2>2. CASE phase = "decode" /\ ~ (Cells + 1 <= NCtx)
    BY <1>5, <2>2, SMT DEF NoRoom
  <2> QED
    BY <1>5, <2>1, <2>2, SMT DEF NoRoom, Fits
<1>6. CASE Stop
  BY <1>6, SMT DEF Stop
<1>7. CASE Free
  BY <1>7, SMT DEF Free, KvFree
<1>8. CASE UNCHANGED kvVars
  BY <1>8, SMT DEF kvVars
<1> QED
  BY <1>1, <1>2, <1>3, <1>4, <1>5, <1>6, <1>7, <1>8 DEF KvNext

\* Every reachable state of a generation satisfies the invariant.
THEOREM KvInvHolds == KvSpec => []KvInv
<1>1. KvInit => KvInv
  BY KvInvInit
<1>2. KvInv /\ [KvNext]_kvVars => KvInv'
  BY KvInvNext
<1> QED
  BY <1>1, <1>2, PTL DEF KvSpec

\* What the invariant says of the window.
LEMMA KvInvSuffices == KvInv => WindowKept /\ CacheBounded /\ FullOnlyBeyond
  BY KvAssumption, SMT
     DEF KvInv, KvTypeOK, SinceBounds, CacheBounded, Cells, Longer

\* Compaction keeps the hot window: no position of the last Hot tokens is ever
\* removed (KvCacheManager::check_and_compact).
THEOREM HotWindowStays == KvSpec => []WindowKept
  BY KvInvHolds, KvInvSuffices, PTL

\* The cache stays below the longer of prompt and hot window plus an interval
\* (KvCacheManager::advance checks every 256 tokens only).
THEOREM CacheStaysBounded == KvSpec => []CacheBounded
  BY KvInvHolds, KvInvSuffices, PTL

\* With a manager, "KV cache full" needs a context smaller than that
\* (LlamaContext::decode).
THEOREM FullNeedsSmallContext == KvSpec => []FullOnlyBeyond
  BY KvInvHolds, KvInvSuffices, PTL

-----------------------------------------------------------------------------
(* Sets that the counts and the layouts are in. *)

Matrices ==
  [layer_counts: [Layers -> [Pairs -> Nat]],
   cross_layer_counts: [Layers -> [Pairs -> Nat]],
   observation_counts: [Layers -> Nat]]

\* Every expert at exactly one position.
Shuffles == {p \in [Experts -> Experts] : {p[i] : i \in Experts} = Experts}

-----------------------------------------------------------------------------
(* compute_optimal_expert_order gives every expert one position. *)

\* There are NumExperts experts, and 0 is one.
LEMMA ExpertsCount ==
  /\ IsFiniteSet(Experts) /\ Cardinality(Experts) = NumExperts
  /\ NumExperts \in Nat \ {0} /\ 0 \in Experts
<1>1. NumExperts \in Nat \ {0}
  BY CoActivationAssumption
<1>2. IsFiniteSet(Experts) /\ Cardinality(Experts) = IF 0 > NumExperts - 1 THEN 0 ELSE (NumExperts - 1) - 0 + 1
  BY <1>1, FS_Interval DEF Experts
<1> QED
  BY <1>1, <1>2 DEF Experts

\* A finite choice has a largest element: one that has the fewest ahead of it
\* has none.
LEMMA LargestExists ==
  ASSUME NEW S \in SUBSET Experts, S # {}, NEW key \in [Experts -> Nat]
  PROVE  Largest(S, key) \in S
<1> DEFINE Ahead(f, e) == key[f] > key[e] \/ (key[f] = key[e] /\ f > e)
           ahead(e) == {f \in S : Ahead(f, e)}
           sizes == {Cardinality(ahead(e)) : e \in S}
<1>1. \A e \in S : e \in Nat /\ key[e] \in Nat
  BY ExpertsCount DEF Experts
<1>2. IsFiniteSet(S)
  BY ExpertsCount, FS_Subset
<1>3. \A e \in S : IsFiniteSet(ahead(e)) /\ Cardinality(ahead(e)) \in Nat
  <2> TAKE e \in S
  <2>1. ahead(e) \subseteq S
    OBVIOUS
  <2> HIDE DEF ahead
  <2> QED
    BY <1>2, <2>1, FS_Subset, FS_CardinalityType
<1>4. sizes \in SUBSET Nat /\ sizes # {}
  <2> HIDE DEF ahead
  <2> QED
    BY <1>3
<1>5. PICK n \in sizes : \A m \in sizes : n <= m
  <2> HIDE DEF sizes
  <2> QED
    BY <1>4, LeastNumber
<1>6. PICK e \in S : \A f \in S : Cardinality(ahead(e)) <= Cardinality(ahead(f))
  <2> HIDE DEF ahead
  <2>1. PICK e \in S : n = Cardinality(ahead(e))
    BY <1>5
  <2> QED
    BY <1>5, <2>1
<1>7. ASSUME NEW f \in S, Ahead(f, e)
      PROVE  FALSE
  <2>1. \A g \in S : Ahead(g, f) => Ahead(g, e)
    BY <1>1, <1>7
  <2>2. ~Ahead(f, f)
    BY <1>1
  <2>3. ahead(f) \subseteq ahead(e) /\ f \in ahead(e) /\ f \notin ahead(f)
    <3> HIDE DEF Ahead
    <3> QED
      BY <1>7, <2>1, <2>2
  <2>4. Cardinality(ahead(f)) <= Cardinality(ahead(e))
        /\ Cardinality(ahead(f)) # Cardinality(ahead(e))
    <3> HIDE DEF ahead
    <3> QED
      BY <1>3, <2>3, FS_Subset
  <2> HIDE DEF ahead
  <2> QED
    BY <1>3, <1>6, <2>4
<1>8. \A f \in S : key[f] < key[e] \/ (key[f] = key[e] /\ f <= e)
  BY <1>1, <1>7
<1>9. \E d \in S : \A f \in S : key[f] < key[d] \/ (key[f] = key[d] /\ f <= d)
  BY <1>8
<1> QED
  BY <1>9 DEF Largest

\* The orders compute_optimal_expert_order builds, expert by expert, exist.
LEMMA OrderRecursion ==
  ASSUME NEW m, NEW l
  PROVE  \E built :
           /\ built = [n \in 1 .. NumExperts |->
                IF n = 1
                THEN <<Largest(Experts, [e \in Experts |-> m.layer_counts[l][<<e, e>>]])>>
                ELSE Append(built[n - 1],
                            Largest(Unvisited(built[n - 1]),
                                    [e \in Experts |-> m.layer_counts[l][<<Last(built[n - 1]), e>>]]))]
           /\ ExpertOrder(m, l) = built[NumExperts]
<1> DEFINE first == <<Largest(Experts, [e \in Experts |-> m.layer_counts[l][<<e, e>>]])>>
           More(v) == Append(v, Largest(Unvisited(v),
                                        [e \in Experts |-> m.layer_counts[l][<<Last(v), e>>]]))
           Def(g, k) == [n \in 1 .. k |-> IF n = 1 THEN first ELSE More(g[n - 1])]
           S == {k \in Nat : \E g : g = Def(g, k)}
<1>1. 0 \in S
  <2> DEFINE g == [n \in 1 .. 0 |-> first]
  <2> HIDE DEF first, More
  <2>1. g = Def(g, 0)
    OBVIOUS
  <2> QED
    BY <2>1
<1>2. ASSUME NEW k \in Nat, k \in S
      PROVE  k + 1 \in S
  <2> HIDE DEF first, More
  <2>1. PICK g : g = Def(g, k)
    BY <1>2
  <2> DEFINE x == IF k = 0 THEN first ELSE More(g[k])
             h == [n \in 1 .. k + 1 |-> IF n = k + 1 THEN x ELSE g[n]]
  <2>2. h = Def(h, k + 1)
    <3>1. \A n \in 1 .. k + 1 : n # k + 1 => n \in 1 .. k /\ (n # 1 => n - 1 \in 1 .. k /\ n - 1 # k + 1)
      OBVIOUS
    <3>2. ASSUME NEW n \in 1 .. k + 1, n # k + 1
          PROVE  h[n] = Def(h, k + 1)[n]
      <4>1. h[n] = Def(g, k)[n]
        BY <2>1, <3>1, <3>2
      <4>2. n # 1 => h[n - 1] = g[n - 1]
        BY <3>1, <3>2
      <4> QED
        BY <3>1, <3>2, <4>1, <4>2
    <3>3. (k # 0 => h[k] = g[k]) /\ h[k + 1] = x /\ k + 1 \in 1 .. k + 1 /\ (k + 1) - 1 = k
          /\ (k + 1 = 1 <=> k = 0)
      OBVIOUS
    <3>4. h[k + 1] = Def(h, k + 1)[k + 1]
      <4> HIDE DEF h
      <4> QED BY <3>3
    <3> QED
      BY <3>2, <3>4, SMTT(30)
  <2> HIDE DEF Def, h
  <2> QED
    BY <2>2
<1>3. NumExperts \in S
  <2> HIDE DEF S
  <2> QED BY <1>1, <1>2, Induction, ExpertsCount
<1>4. \E g : g = Def(g, NumExperts)
  BY <1>3
<1> DEFINE f == CHOOSE g : g = Def(g, NumExperts)
<1>5. f = Def(f, NumExperts)
  <2> HIDE DEF Def
  <2> QED BY <1>4
<1>6. ExpertOrder(m, l) = f[NumExperts]
  BY DEF ExpertOrder
<1> QED
  BY <1>5, <1>6

\* compute_optimal_expert_order gives every expert exactly one position, whatever
\* was counted.
THEOREM ExpertOrderIsShuffle ==
  ASSUME NEW m \in Matrices, NEW l \in Layers
  PROVE  [i \in Experts |-> ExpertOrder(m, l)[i + 1]] \in Shuffles
<1> DEFINE c == m.layer_counts[l]
<1>1. c \in [Pairs -> Nat]
  BY DEF Matrices
<1>2. PICK built :
           /\ built = [n \in 1 .. NumExperts |->
                IF n = 1
                THEN <<Largest(Experts, [e \in Experts |-> c[<<e, e>>]])>>
                ELSE Append(built[n - 1],
                            Largest(Unvisited(built[n - 1]),
                                    [e \in Experts |-> c[<<Last(built[n - 1]), e>>]]))]
           /\ ExpertOrder(m, l) = built[NumExperts]
  BY OrderRecursion
<1> HIDE DEF c
<1> DEFINE Visits(v, n) == v \in Seq(Experts) /\ Len(v) = n /\ Distinct(v)
           S == {n \in Nat : n + 1 <= NumExperts => Visits(built[n + 1], n + 1)}
<1>3. NumExperts \in Nat \ {0} /\ 1 \in 1 .. NumExperts
  BY ExpertsCount
<1>4. 0 \in S
  <2> DEFINE key == [e \in Experts |-> c[<<e, e>>]]
             big == Largest(Experts, key)
  <2>1. key \in [Experts -> Nat]
    BY <1>1 DEF Pairs
  <2>2. big \in Experts
    <3> HIDE DEF key
    <3> QED BY <2>1, LargestExists, ExpertsCount
  <2>3. built[1] = <<big>>
    BY <1>2, <1>3
  <2> HIDE DEF big
  <2>4. Visits(<<big>>, 1)
    BY <2>2 DEF Distinct
  <2>5. 0 + 1 = 1
    OBVIOUS
  <2>6. Visits(built[0 + 1], 0 + 1)
    BY <2>3, <2>4, <2>5, Zenon
  <2> QED
    BY <2>6
<1>5. ASSUME NEW n \in Nat, n \in S
      PROVE  n + 1 \in S
  <2> SUFFICES ASSUME (n + 1) + 1 <= NumExperts
               PROVE  Visits(built[(n + 1) + 1], (n + 1) + 1)
    OBVIOUS
  <2> DEFINE v == built[n + 1]
             key == [e \in Experts |-> c[<<Last(v), e>>]]
             big == Largest(Unvisited(v), key)
  <2>1. n + 1 <= NumExperts /\ n + 1 < NumExperts /\ (n + 1) + 1 \in 1 .. NumExperts
        /\ (n + 1) + 1 # 1 /\ ((n + 1) + 1) - 1 = n + 1
    BY <1>3
  <2>2. Visits(v, n + 1)
    BY <1>5, <2>1
  <2>3. built[(n + 1) + 1] = Append(v, big)
    BY <1>2, <2>1
  <2> HIDE DEF v
  <2>4. Last(v) \in Experts
    BY <2>2 DEF Last
  <2>5. key \in [Experts -> Nat]
    BY <1>1, <2>4 DEF Pairs
  <2>6. ToSet(v) = Listed(v) /\ Listed(v) \subseteq Experts
    BY <2>2 DEF ToSet, Listed
  <2>7. Cardinality(Listed(v)) = n + 1
    BY <2>2, ListedCount
  <2>8. Unvisited(v) \in SUBSET Experts /\ Unvisited(v) # {} /\ Unvisited(v) \cap Listed(v) = {}
    <3>1. Listed(v) # Experts
      BY <2>1, <2>7, ExpertsCount
    <3> QED
      BY <2>6, <3>1 DEF Unvisited
  <2> HIDE DEF key
  <2>9. big \in Unvisited(v)
    BY <2>5, <2>8, LargestExists
  <2> HIDE DEF big
  <2>10. big \in Experts /\ big \notin Listed(v)
    BY <2>8, <2>9
  <2>11. Visits(Append(v, big), (n + 1) + 1)
    BY <2>2, <2>10, AppendFacts
  <2> QED
    BY <2>3, <2>11
<1>6. NumExperts - 1 \in S
  <2>1. NumExperts - 1 \in Nat
    BY <1>3
  <2> HIDE DEF S
  <2> QED BY <1>4, <1>5, <2>1, Induction
<1> DEFINE v == built[NumExperts]
<1>7. Visits(v, NumExperts)
  BY <1>3, <1>6
<1>8. ExpertOrder(m, l) = v
  BY <1>2
<1> HIDE DEF v
<1>9. Listed(v) = Experts
  <2>1. Listed(v) \subseteq Experts
    BY <1>7 DEF Listed
  <2>2. Cardinality(Listed(v)) = Cardinality(Experts)
    BY <1>7, ListedCount, ExpertsCount
  <2> QED
    BY <2>1, <2>2, ExpertsCount, FS_Subset
<1> DEFINE p == [i \in Experts |-> v[i + 1]]
<1>10. \A i \in Experts : i + 1 \in 1 .. NumExperts
  BY <1>3 DEF Experts
<1>11. \A k \in 1 .. NumExperts : k - 1 \in Experts /\ (k - 1) + 1 = k
  BY <1>3 DEF Experts
<1>12. p \in [Experts -> Experts]
  BY <1>7, <1>10
<1>13. {p[i] : i \in Experts} = Experts
  <2>1. \A e \in Experts : \E i \in Experts : p[i] = e
    BY <1>7, <1>9, <1>11 DEF Listed
  <2> QED
    BY <1>12, <2>1
<1>14. p \in Shuffles
  <2> HIDE DEF p
  <2> QED BY <1>12, <1>13 DEF Shuffles
<1> QED
  BY <1>8, <1>14

-----------------------------------------------------------------------------
(* Counting keeps the counts symmetric and takes nothing back. *)

Memories ==
  [co: Matrices, selected: [Layers -> SUBSET Experts], prev: {<<>>} \cup (Layers \X SUBSET Experts)]

\* n is m and what was counted since.
Grown(n, m) ==
  /\ n \in Matrices
  /\ Extends(n, m)
  /\ Consistent(m) => Consistent(n)

\* Counts include themselves.
LEMMA GrownReflexive == \A m \in Matrices : Grown(m, m)
  BY DEF Grown, Extends, Matrices

\* Counts that include what includes others include those.
LEMMA ExtendsTransitive ==
  ASSUME NEW k \in Matrices, NEW m \in Matrices, NEW n \in Matrices, Extends(m, k), Extends(n, m)
  PROVE  Extends(n, k)
  BY DEF Extends, Matrices

\* What is counted in two goes is counted.
LEMMA GrownTransitive ==
  ASSUME NEW k \in Matrices, NEW m \in Matrices, NEW n \in Matrices, Grown(m, k), Grown(n, m)
  PROVE  Grown(n, k)
  BY ExtendsTransitive DEF Grown

\* Counting adds one for the pairs that fired and takes nothing from the others.
LEMMA BumpedFacts ==
  ASSUME NEW c \in [Pairs -> Nat], NEW pairs
  PROVE  /\ Bumped(c, pairs) \in [Pairs -> Nat]
         /\ \A p \in Pairs : /\ Bumped(c, pairs)[p] >= c[p]
                             /\ p \in pairs => Bumped(c, pairs)[p] = c[p] + 1
                             /\ p \notin pairs => Bumped(c, pairs)[p] = c[p]
  BY DEF Bumped

\* record counts every pair in both directions and each of its experts as often.
LEMMA RecordGrows ==
  ASSUME NEW m \in Matrices, NEW l \in Layers, NEW ids \in SUBSET Experts
  PROVE  Grown(Record(m, l, ids), m)
<1> DEFINE n == Record(m, l, ids)
           b == Bumped(m.layer_counts[l], ids \X ids)
<1>1. /\ m.layer_counts \in [Layers -> [Pairs -> Nat]]
      /\ m.cross_layer_counts \in [Layers -> [Pairs -> Nat]]
      /\ m.observation_counts \in [Layers -> Nat]
  BY DEF Matrices
<1>2. n = [m EXCEPT !.observation_counts = [m.observation_counts EXCEPT ![l] = @ + 1],
                    !.layer_counts = [m.layer_counts EXCEPT ![l] = b]]
  BY DEF Record
<1>3. /\ n.layer_counts = [m.layer_counts EXCEPT ![l] = b]
      /\ n.cross_layer_counts = m.cross_layer_counts
      /\ n.observation_counts = [m.observation_counts EXCEPT ![l] = @ + 1]
      /\ n = [layer_counts |-> n.layer_counts, cross_layer_counts |-> n.cross_layer_counts,
              observation_counts |-> n.observation_counts]
  <2> HIDE DEF b
  <2> QED BY <1>2 DEF Matrices
<1>4. /\ b \in [Pairs -> Nat]
      /\ \A p \in Pairs : /\ b[p] >= m.layer_counts[l][p]
                          /\ p \in ids \X ids => b[p] = m.layer_counts[l][p] + 1
                          /\ p \notin ids \X ids => b[p] = m.layer_counts[l][p]
  BY <1>1, BumpedFacts
<1> HIDE DEF n, b
<1>5. n \in Matrices
  <2>1. /\ n.layer_counts \in [Layers -> [Pairs -> Nat]]
        /\ n.cross_layer_counts \in [Layers -> [Pairs -> Nat]]
        /\ n.observation_counts \in [Layers -> Nat]
    BY <1>1, <1>3, <1>4
  <2> QED
    BY <1>3, <2>1 DEF Matrices
<1>6. \A k \in Layers : /\ k = l => n.layer_counts[k] = b /\ n.observation_counts[k] = m.observation_counts[k] + 1
                        /\ k # l => /\ n.layer_counts[k] = m.layer_counts[k]
                                    /\ n.observation_counts[k] = m.observation_counts[k]
  BY <1>1, <1>3
<1>7. Extends(n, m)
  <2> SUFFICES ASSUME NEW k \in Layers
               PROVE  /\ n.observation_counts[k] >= m.observation_counts[k]
                      /\ \A p \in Pairs : /\ n.layer_counts[k][p] >= m.layer_counts[k][p]
                                          /\ n.cross_layer_counts[k][p] >= m.cross_layer_counts[k][p]
    BY DEF Extends
  <2>1. /\ m.observation_counts[k] \in Nat
        /\ \A p \in Pairs : m.layer_counts[k][p] \in Nat /\ m.cross_layer_counts[k][p] \in Nat
    BY <1>1
  <2> QED
    BY <1>3, <1>4, <1>6, <2>1
<1>8. ASSUME Consistent(m)
      PROVE  Consistent(n)
  <2> SUFFICES ASSUME NEW k \in Layers, NEW x \in Experts, NEW y \in Experts
               PROVE  /\ n.layer_counts[k][<<x, y>>] = n.layer_counts[k][<<y, x>>]
                      /\ n.layer_counts[k][<<x, y>>] <= n.layer_counts[k][<<x, x>>]
                      /\ n.layer_counts[k][<<x, x>>] <= n.observation_counts[k]
    BY DEF Consistent
  <2> DEFINE c == m.layer_counts[k]
  <2>1. /\ c[<<x, y>>] = c[<<y, x>>] /\ c[<<x, y>>] <= c[<<x, x>>]
        /\ c[<<x, x>>] <= m.observation_counts[k]
    BY <1>8 DEF Consistent
  <2>2. c \in [Pairs -> Nat] /\ m.observation_counts[k] \in Nat
        /\ <<x, y>> \in Pairs /\ <<y, x>> \in Pairs /\ <<x, x>> \in Pairs
    BY <1>1 DEF Pairs
  <2>3. CASE k # l
    BY <1>6, <2>1, <2>3
  <2>4. CASE k = l
    <3>1. /\ <<x, y>> \in ids \X ids <=> x \in ids /\ y \in ids
          /\ <<y, x>> \in ids \X ids <=> x \in ids /\ y \in ids
          /\ <<x, x>> \in ids \X ids <=> x \in ids
      OBVIOUS
    <3>2. n.layer_counts[k] = b /\ n.observation_counts[k] = m.observation_counts[k] + 1
      BY <1>6, <2>4
    <3>3. /\ b[<<x, y>>] = IF x \in ids /\ y \in ids THEN c[<<x, y>>] + 1 ELSE c[<<x, y>>]
          /\ b[<<y, x>>] = IF x \in ids /\ y \in ids THEN c[<<y, x>>] + 1 ELSE c[<<y, x>>]
          /\ b[<<x, x>>] = IF x \in ids THEN c[<<x, x>>] + 1 ELSE c[<<x, x>>]
      BY <1>4, <2>2, <2>4, <3>1
    <3>4. c[<<x, y>>] \in Nat /\ c[<<y, x>>] \in Nat /\ c[<<x, x>>] \in Nat
      BY <2>2
    <3> HIDE DEF c
    <3> QED
      BY <2>1, <2>2, <3>2, <3>3, <3>4
  <2> QED
    BY <2>3, <2>4
<1> QED
  BY <1>5, <1>7, <1>8 DEF Grown, n

\* Consistency is about the counts of one layer only.
LEMMA ConsistentByCounts ==
  ASSUME NEW m, NEW n, n.layer_counts = m.layer_counts,
         n.observation_counts = m.observation_counts, Consistent(m)
  PROVE  Consistent(n)
<1> SUFFICES ASSUME NEW k \in Layers, NEW x \in Experts, NEW y \in Experts
             PROVE  /\ n.layer_counts[k][<<x, y>>] = n.layer_counts[k][<<y, x>>]
                    /\ n.layer_counts[k][<<x, y>>] <= n.layer_counts[k][<<x, x>>]
                    /\ n.layer_counts[k][<<x, x>>] <= n.observation_counts[k]
  BY DEF Consistent
<1>1. /\ m.layer_counts[k][<<x, y>>] = m.layer_counts[k][<<y, x>>]
      /\ m.layer_counts[k][<<x, y>>] <= m.layer_counts[k][<<x, x>>]
      /\ m.layer_counts[k][<<x, x>>] <= m.observation_counts[k]
  BY DEF Consistent
<1> QED
  BY <1>1

\* record_cross_layer leaves the counts of one layer alone.
LEMMA RecordCrossGrows ==
  ASSUME NEW m \in Matrices, NEW l \in Layers, NEW before, NEW ids
  PROVE  Grown(RecordCross(m, l, before, ids), m)
<1> DEFINE n == RecordCross(m, l, before, ids)
           b == Bumped(m.cross_layer_counts[l], before \X ids)
<1>1. /\ m.layer_counts \in [Layers -> [Pairs -> Nat]]
      /\ m.cross_layer_counts \in [Layers -> [Pairs -> Nat]]
      /\ m.observation_counts \in [Layers -> Nat]
  BY DEF Matrices
<1>2. n = [m EXCEPT !.cross_layer_counts = [m.cross_layer_counts EXCEPT ![l] = b]]
  BY DEF RecordCross
<1>3. /\ n.layer_counts = m.layer_counts
      /\ n.cross_layer_counts = [m.cross_layer_counts EXCEPT ![l] = b]
      /\ n.observation_counts = m.observation_counts
      /\ n = [layer_counts |-> n.layer_counts, cross_layer_counts |-> n.cross_layer_counts,
              observation_counts |-> n.observation_counts]
  <2> HIDE DEF b
  <2> QED BY <1>2 DEF Matrices
<1>4. b \in [Pairs -> Nat] /\ \A p \in Pairs : b[p] >= m.cross_layer_counts[l][p]
  BY <1>1, BumpedFacts
<1> HIDE DEF n, b
<1>5. n \in Matrices
  <2>1. /\ n.layer_counts \in [Layers -> [Pairs -> Nat]]
        /\ n.cross_layer_counts \in [Layers -> [Pairs -> Nat]]
        /\ n.observation_counts \in [Layers -> Nat]
    BY <1>1, <1>3, <1>4
  <2> QED
    BY <1>3, <2>1 DEF Matrices
<1>6. \A k \in Layers : \A p \in Pairs : n.cross_layer_counts[k][p] >= m.cross_layer_counts[k][p]
  <2> TAKE k \in Layers
  <2>1. CASE k = l
    BY <1>1, <1>3, <1>4, <2>1
  <2>2. CASE k # l
    <3>1. n.cross_layer_counts[k] = m.cross_layer_counts[k]
      BY <1>1, <1>3, <2>2
    <3> QED
      BY <1>1, <3>1
  <2> QED
    BY <2>1, <2>2
<1>7. Extends(n, m)
  BY <1>1, <1>3, <1>6 DEF Extends
<1>8. Consistent(m) => Consistent(n)
  <2>1. n.layer_counts = m.layer_counts /\ n.observation_counts = m.observation_counts
    BY <1>3
  <2> QED
    BY <2>1, ConsistentByCounts
<1> QED
  BY <1>5, <1>7, <1>8 DEF Grown, n

\* What a node, a layer or a decode makes of the memory.
Walked(n, m) == n \in Memories /\ Grown(n.co, m.co)

\* Two parts of a walk are a walk.
LEMMA WalkedTransitive ==
  ASSUME NEW k \in Memories, NEW m, NEW n, Walked(m, k), Walked(n, m)
  PROVE  Walked(n, k)
<1>1. k.co \in Matrices /\ m.co \in Matrices /\ n.co \in Matrices
  BY DEF Walked, Memories
<1> QED
  BY <1>1, GrownTransitive DEF Walked

\* A node of the graph records what its layer has selected, or nothing.
LEMMA AfterNodeWalks ==
  ASSUME NEW m \in Memories, NEW l \in Layers
  PROVE  Walked(AfterNode(m, l), m)
<1> DEFINE ids == m.selected[l]
           co == Record(m.co, l, ids)
           cross == RecordCross(co, m.prev[1], m.prev[2], ids)
           n == AfterNode(m, l)
<1>1. m.co \in Matrices /\ m.selected \in [Layers -> SUBSET Experts] /\ ids \in SUBSET Experts
      /\ m.prev \in {<<>>} \cup (Layers \X SUBSET Experts)
  BY DEF Memories
<1>2. Grown(co, m.co) /\ co \in Matrices
  BY <1>1, RecordGrows DEF Grown
<1>3. CASE ids = {}
  <2>1. n = m
    BY <1>3 DEF AfterNode
  <2> QED
    BY <1>1, <2>1, GrownReflexive DEF Walked
<1>4. ASSUME NEW x \in Matrices, Grown(x, m.co), n = [m EXCEPT !.prev = <<l, ids>>, !.co = x]
      PROVE  Walked(n, m)
  <2>1. n = [co |-> x, selected |-> m.selected, prev |-> <<l, ids>>]
    BY <1>4 DEF Memories
  <2> HIDE DEF n, ids
  <2>2. <<l, ids>> \in Layers \X SUBSET Experts
    BY <1>1
  <2>3. n \in Memories /\ n.co = x
    BY <1>1, <2>1, <2>2 DEF Memories
  <2> QED
    BY <1>4, <2>3 DEF Walked
<1>5. CASE ids # {} /\ m.prev = <<>>
  <2>1. n = [m EXCEPT !.prev = <<l, ids>>, !.co = co]
    <3> HIDE DEF co
    <3> QED BY <1>5 DEF AfterNode, co
  <2> HIDE DEF n, co, ids
  <2>2. Walked(n, m)
    BY <1>2, <1>4, <2>1, Zenon
  <2> QED
    BY <2>2 DEF n
<1>6. CASE ids # {} /\ m.prev # <<>>
  <2>1. n = [m EXCEPT !.prev = <<l, ids>>, !.co = cross]
    <3> HIDE DEF co, cross
    <3> QED BY <1>6 DEF AfterNode, co, cross
  <2>2. m.prev \in Layers \X SUBSET Experts
    BY <1>1, <1>6
  <2>3. m.prev[1] \in Layers
    BY <2>2
  <2> HIDE DEF co
  <2>4. Grown(cross, co)
    BY <1>2, <2>3, RecordCrossGrows
  <2>5. cross \in Matrices
    BY <2>4 DEF Grown
  <2> HIDE DEF cross
  <2>6. Grown(cross, m.co)
    BY <1>1, <1>2, <2>4, <2>5, GrownTransitive
  <2> HIDE DEF n, ids
  <2>7. Walked(n, m)
    BY <1>4, <2>1, <2>5, <2>6, Zenon
  <2> QED
    BY <2>7 DEF n
<1> QED
  BY <1>3, <1>5, <1>6

\* What a number of nodes makes of the memory, one by one, exists.
LEMMA AfterNodesRecursion ==
  ASSUME NEW m, NEW l, NEW n \in Nat
  PROVE  \E after : /\ after = [i \in 0 .. n |-> IF i = 0 THEN m ELSE AfterNode(after[i - 1], l)]
                    /\ AfterNodes(m, l, n) = after[n]
<1> DEFINE Def(g, k) == [i \in 0 .. k |-> IF i = 0 THEN m ELSE AfterNode(g[i - 1], l)]
           S == {k \in Nat : \E g : g = Def(g, k)}
<1> HIDE DEF AfterNode
<1>1. 0 \in S
  <2> DEFINE g == [i \in 0 .. 0 |-> m]
  <2>1. g = Def(g, 0)
    OBVIOUS
  <2> QED
    BY <2>1
<1>2. ASSUME NEW k \in Nat, k \in S
      PROVE  k + 1 \in S
  <2>1. PICK g : g = Def(g, k)
    BY <1>2
  <2> DEFINE x == AfterNode(g[k], l)
             h == [i \in 0 .. k + 1 |-> IF i = k + 1 THEN x ELSE g[i]]
  <2>2. h = Def(h, k + 1)
    <3>1. \A i \in 0 .. k + 1 : i # k + 1 => i \in 0 .. k /\ (i # 0 => i - 1 \in 0 .. k /\ i - 1 # k + 1)
      OBVIOUS
    <3>2. ASSUME NEW i \in 0 .. k + 1, i # k + 1
          PROVE  h[i] = Def(h, k + 1)[i]
      <4>1. h[i] = Def(g, k)[i]
        BY <2>1, <3>1, <3>2
      <4>2. i # 0 => h[i - 1] = g[i - 1]
        BY <3>1, <3>2
      <4> QED
        BY <3>1, <3>2, <4>1, <4>2
    <3>3. h[k] = g[k] /\ h[k + 1] = x /\ k + 1 # 0 /\ (k + 1) - 1 = k
      OBVIOUS
    <3>4. h[k + 1] = Def(h, k + 1)[k + 1]
      <4> HIDE DEF h
      <4> QED BY <3>3
    <3> QED
      BY <3>2, <3>4
  <2> HIDE DEF Def, h
  <2> QED
    BY <2>2
<1>3. n \in S
  <2> HIDE DEF S
  <2> QED BY <1>1, <1>2, Induction
<1>4. \E g : g = Def(g, n)
  BY <1>3
<1> DEFINE f == CHOOSE g : g = Def(g, n)
<1>5. f = Def(f, n)
  <2> HIDE DEF Def
  <2> QED BY <1>4
<1>6. AfterNodes(m, l, n) = f[n]
  BY DEF AfterNodes
<1> QED
  BY <1>5, <1>6

\* Any number of nodes of a layer only add to the counts.
LEMMA AfterNodesWalks ==
  ASSUME NEW m \in Memories, NEW l \in Layers, NEW n \in Nat
  PROVE  Walked(AfterNodes(m, l, n), m)
<1>1. PICK after : /\ after = [i \in 0 .. n |-> IF i = 0 THEN m ELSE AfterNode(after[i - 1], l)]
                   /\ AfterNodes(m, l, n) = after[n]
  BY AfterNodesRecursion
<1> DEFINE S == {i \in Nat : i <= n => Walked(after[i], m)}
<1>2. 0 \in S
  <2>1. after[0] = m
    BY <1>1
  <2>2. Walked(m, m)
    BY GrownReflexive DEF Walked, Memories
  <2> QED
    BY <2>1, <2>2
<1>3. ASSUME NEW i \in Nat, i \in S
      PROVE  i + 1 \in S
  <2> SUFFICES ASSUME i + 1 <= n
               PROVE  Walked(after[i + 1], m)
    OBVIOUS
  <2>1. i <= n /\ i + 1 \in 0 .. n /\ i + 1 # 0 /\ (i + 1) - 1 = i
    OBVIOUS
  <2>2. after[i + 1] = AfterNode(after[i], l)
    BY <1>1, <2>1
  <2>3. Walked(after[i], m)
    BY <1>3, <2>1
  <2>4. after[i] \in Memories
    BY <2>3 DEF Walked
  <2>5. Walked(after[i + 1], after[i])
    BY <2>2, <2>4, AfterNodeWalks
  <2> QED
    BY <2>3, <2>4, <2>5, WalkedTransitive
<1>4. n \in S
  <2> HIDE DEF S
  <2> QED BY <1>2, <1>3, Induction
<1>5. Walked(after[n], m)
  BY <1>4
<1> QED
  BY <1>1, <1>5

\* So does a layer, with its router in the middle.
LEMMA WalkLayerWalks ==
  ASSUME NEW m \in Memories, NEW l \in Layers, NEW routing \in Routings
  PROVE  Walked(WalkLayer(m, l, routing), m)
<1> DEFINE b == AfterNodes(m, l, NodesBefore)
           r == [b EXCEPT !.selected[l] = routing[l]]
<1>1. NodesBefore \in Nat /\ NodesAfter \in Nat /\ routing[l] \in SUBSET Experts
  BY SessionAssumption
<1>2. Walked(b, m) /\ b \in Memories
  BY <1>1, AfterNodesWalks DEF Walked
<1> HIDE DEF b
<1>3. r = [co |-> b.co, selected |-> [b.selected EXCEPT ![l] = routing[l]], prev |-> b.prev]
  BY <1>2 DEF Memories
<1>4. [b.selected EXCEPT ![l] = routing[l]] \in [Layers -> SUBSET Experts]
  BY <1>1, <1>2 DEF Memories
<1> HIDE DEF r
<1>5. r \in Memories /\ r.co = b.co
  BY <1>2, <1>3, <1>4 DEF Memories
<1>6. Walked(AfterNodes(r, l, NodesAfter), r)
  BY <1>1, <1>5, AfterNodesWalks
<1>7. Walked(AfterNodes(r, l, NodesAfter), b)
  BY <1>5, <1>6 DEF Walked
<1>8. WalkLayer(m, l, routing) = AfterNodes(r, l, NodesAfter)
  BY DEF WalkLayer, r, b
<1> QED
  BY <1>2, <1>7, <1>8, WalkedTransitive

\* What the layers make of the memory, one by one, exists.
LEMMA WalkRecursion ==
  ASSUME NEW m, NEW routing, Cardinality(Layers) \in Nat
  PROVE  \E walked :
           /\ walked = [i \in 0 .. Cardinality(Layers) |->
                IF i = 0 THEN m ELSE WalkLayer(walked[i - 1], Ascending(Layers)[i], routing)]
           /\ Walk(m, routing) = walked[Cardinality(Layers)]
<1> DEFINE n == Cardinality(Layers)
           Def(g, k) == [i \in 0 .. k |-> IF i = 0 THEN m ELSE WalkLayer(g[i - 1], Ascending(Layers)[i], routing)]
           S == {k \in Nat : \E g : g = Def(g, k)}
<1>1. 0 \in S
  <2> DEFINE g == [i \in 0 .. 0 |-> m]
  <2>1. g = Def(g, 0)
    OBVIOUS
  <2> QED
    BY <2>1
<1>2. ASSUME NEW k \in Nat, k \in S
      PROVE  k + 1 \in S
  <2>1. PICK g : g = Def(g, k)
    BY <1>2
  <2> DEFINE x == WalkLayer(g[k], Ascending(Layers)[k + 1], routing)
             h == [i \in 0 .. k + 1 |-> IF i = k + 1 THEN x ELSE g[i]]
  <2>2. h = Def(h, k + 1)
    <3>1. \A i \in 0 .. k + 1 : i # k + 1 => i \in 0 .. k /\ (i # 0 => i - 1 \in 0 .. k /\ i - 1 # k + 1)
      OBVIOUS
    <3>2. ASSUME NEW i \in 0 .. k + 1, i # k + 1
          PROVE  h[i] = Def(h, k + 1)[i]
      <4>1. h[i] = Def(g, k)[i]
        BY <2>1, <3>1, <3>2
      <4>2. i # 0 => h[i - 1] = g[i - 1]
        BY <3>1, <3>2
      <4> QED
        BY <3>1, <3>2, <4>1, <4>2
    <3>3. h[k] = g[k] /\ h[k + 1] = x /\ k + 1 # 0 /\ (k + 1) - 1 = k
      OBVIOUS
    <3>4. h[k + 1] = Def(h, k + 1)[k + 1]
      <4> HIDE DEF h
      <4> QED BY <3>3
    <3> QED
      BY <3>2, <3>4
  <2> HIDE DEF Def, h
  <2> QED
    BY <2>2
<1>3. n \in S
  <2> HIDE DEF S
  <2> QED BY <1>1, <1>2, Induction
<1>4. \E g : g = Def(g, n)
  BY <1>3
<1> DEFINE f == CHOOSE g : g = Def(g, n)
<1>5. f = Def(f, n)
  <2> HIDE DEF Def
  <2> QED BY <1>4
<1>6. Walk(m, routing) = f[n]
  BY DEF Walk
<1> QED
  BY <1>5, <1>6

\* A decode, whatever the routers pick.
LEMMA WalkWalks ==
  ASSUME NEW m \in Memories, NEW routing \in Routings
  PROVE  Walked(Walk(m, routing), m)
<1> DEFINE n == Cardinality(Layers)
<1>1. n \in Nat /\ Ascending(Layers) \in Seq(Layers) /\ Len(Ascending(Layers)) = n
  BY CoActivationAssumption, AscendingLists, FS_CardinalityType
<1>2. PICK walked :
           /\ walked = [i \in 0 .. n |->
                IF i = 0 THEN m ELSE WalkLayer(walked[i - 1], Ascending(Layers)[i], routing)]
           /\ Walk(m, routing) = walked[n]
  BY <1>1, WalkRecursion
<1> HIDE DEF n
<1> DEFINE S == {i \in Nat : i <= n => Walked(walked[i], m)}
<1>3. 0 \in S
  <2>1. walked[0] = m
    BY <1>1, <1>2
  <2>2. Walked(m, m)
    BY GrownReflexive DEF Walked, Memories
  <2> QED
    BY <2>1, <2>2
<1>4. ASSUME NEW i \in Nat, i \in S
      PROVE  i + 1 \in S
  <2> SUFFICES ASSUME i + 1 <= n
               PROVE  Walked(walked[i + 1], m)
    OBVIOUS
  <2>1. i <= n /\ i + 1 \in 0 .. n /\ i + 1 # 0 /\ (i + 1) - 1 = i /\ i + 1 \in 1 .. n
    BY <1>1
  <2>2. walked[i + 1] = WalkLayer(walked[i], Ascending(Layers)[i + 1], routing)
    BY <1>2, <2>1
  <2>3. Walked(walked[i], m)
    BY <1>4, <2>1
  <2>4. walked[i] \in Memories /\ Ascending(Layers)[i + 1] \in Layers
    BY <1>1, <2>1, <2>3 DEF Walked
  <2>5. Walked(walked[i + 1], walked[i])
    BY <2>2, <2>4, WalkLayerWalks
  <2> QED
    BY <2>3, <2>4, <2>5, WalkedTransitive
<1>5. n \in S
  <2> HIDE DEF S
  <2> QED BY <1>1, <1>3, <1>4, Induction
<1>6. Walked(walked[n], m)
  BY <1>1, <1>5
<1> QED
  BY <1>2, <1>6

-----------------------------------------------------------------------------
(* The files. *)

FileOf(C) == [is: {"absent", "torn", "whole"}, of: C]

\* What the positions of a tensor may hold.
Layouts == [Experts -> Experts \cup {Cut}]
Contents == [Tensors -> Layouts]
LayerOrders == [Layers -> Shuffles]

SessionTyped ==
  /\ profile \in {"absent", "torn", "stale", "fresh"}
  /\ data \in [Files -> FileOf(Contents)]
  /\ sidecar \in [Files -> FileOf(LayerOrders)]
  /\ counts \in [Files -> FileOf(Matrices)]
  /\ optimized \in SUBSET Files
  /\ cutSaves \in SUBSET Files
  /\ file \in Files
  /\ order \in LayerOrders
  /\ next \in Nat
  /\ reordered \in Layouts
  /\ memory \in Memories

\* What the command at work is at, and what that takes for granted.
Working ==
  /\ cmd \in {"none", "profile", "run", "optimize"}
  /\ step \in {"none", "profile", "saving profile", "load", "generate", "saving counts",
               "prompt", "copying", "reorder", "writing tensor", "saving order"}
  /\ cmd = "none" <=> step = "none"
  /\ step \in {"profile", "saving profile"} => cmd \in {"profile", "run"}
  /\ step \in {"load", "generate", "saving counts", "prompt"} => cmd = "run" /\ profile = "fresh"
  /\ step \in {"copying", "reorder", "writing tensor", "saving order"} =>
       cmd = "optimize" /\ file + 1 \in Files
  /\ step = "writing tensor" => next < Len(Fused)

\* The tensors are listed, each once, and belong to layers with experts.
LEMMA TensorFacts ==
  /\ Tensors = {Fused[k] : k \in 1 .. Len(Fused)}
  /\ Len(Fused) \in Nat
  /\ \A k \in 1 .. Len(Fused) : Fused[k] \in Tensors
  /\ \A t \in Tensors : t[1] \in Layers
  /\ \A i, j \in 1 .. Len(Fused) : Fused[i] = Fused[j] => i = j
<1>1. Fused \in Seq(Layers \X Nat) /\ IsInjective(Fused)
  BY SessionAssumption
<1>2. DOMAIN Fused = 1 .. Len(Fused) /\ Len(Fused) \in Nat
  BY <1>1
<1>5. Tensors = {Fused[k] : k \in 1 .. Len(Fused)}
  BY <1>2, Zenon DEF Tensors, ToSet
<1>3. \A k \in 1 .. Len(Fused) : Fused[k] \in Layers \X Nat
  BY <1>1
<1>4. \A t \in Tensors : t[1] \in Layers
  BY <1>3, <1>5
<1>6. \A i, j \in 1 .. Len(Fused) : Fused[i] = Fused[j] => i = j
  BY <1>1, <1>2 DEF IsInjective
<1>7. \A k \in 1 .. Len(Fused) : Fused[k] \in Tensors
  BY <1>5
<1> QED
  BY <1>2, <1>4, <1>5, <1>6, <1>7

\* What a command or the disk starts with has the types of the files and of the
\* memory.
LEMMA StartValues ==
  /\ Natural \in Shuffles /\ Natural \in Layouts
  /\ InOrder \in Contents
  /\ NoOrder \in LayerOrders
  /\ NewMatrix \in Matrices
  /\ Consistent(NewMatrix)
  /\ Idle \in Memories
  /\ Idle.co = NewMatrix
<1>1. Natural \in Shuffles /\ Natural \in Layouts
  BY DEF Natural, Shuffles, Layouts
<1>2. InOrder \in Contents /\ NoOrder \in LayerOrders
  BY <1>1 DEF InOrder, NoOrder, Contents, LayerOrders
<1>3. NewMatrix \in Matrices
  BY DEF NewMatrix, Matrices
<1>4. \A l \in Layers : \A p \in Pairs : NewMatrix.layer_counts[l][p] = 0 /\ NewMatrix.observation_counts[l] = 0
  BY DEF NewMatrix
<1>5. Consistent(NewMatrix)
  BY <1>4 DEF Consistent, Pairs
<1>6. Idle.co = NewMatrix /\ Idle \in Memories
  BY <1>3 DEF Idle, Memories
<1> QED
  BY <1>1, <1>2, <1>3, <1>5, <1>6

\* Absent, torn and whole files are files.
LEMMA FileValues ==
  ASSUME NEW C
  PROVE  /\ \A c \in C : /\ Absent(c) \in FileOf(C) /\ Torn(c) \in FileOf(C) /\ Whole(c) \in FileOf(C)
         /\ \A f \in FileOf(C) : f.of \in C /\ f.is \in {"absent", "torn", "whole"}
  BY DEF Absent, Torn, Whole, FileOf

\* A tensor reordered in memory.
LEMMA ReorderedFacts ==
  ASSUME NEW old \in Layouts, NEW p \in Shuffles
  PROVE  /\ [i \in Experts |-> old[p[i]]] \in Layouts
         /\ old = Natural => [i \in Experts |-> old[p[i]]] = p
<1>1. p \in [Experts -> Experts]
  BY DEF Shuffles
<1>2. \A i \in Experts : old[p[i]] \in Experts \cup {Cut}
  BY <1>1 DEF Layouts
<1>3. ASSUME old = Natural
      PROVE  [i \in Experts |-> old[p[i]]] = p
  <2>1. \A i \in Experts : old[p[i]] = p[i]
    BY <1>1, <1>3 DEF Natural
  <2> QED
    BY <1>1, <2>1
<1> QED
  BY <1>2, <1>3 DEF Layouts

\* One tensor of a file written.
LEMMA WrittenFacts ==
  ASSUME NEW d \in FileOf(Contents), NEW t \in Tensors, NEW w \in Layouts
  PROVE  /\ [d EXCEPT !.of[t] = w] \in FileOf(Contents)
         /\ [d EXCEPT !.of[t] = w].of = [d.of EXCEPT ![t] = w]
         /\ d.of \in Contents
<1>1. d.of \in Contents /\ d = [is |-> d.is, of |-> d.of] /\ d.is \in {"absent", "torn", "whole"}
  BY DEF FileOf
<1>2. [d.of EXCEPT ![t] = w] \in Contents
  BY <1>1 DEF Contents
<1>3. [d EXCEPT !.of[t] = w] = [is |-> d.is, of |-> [d.of EXCEPT ![t] = w]]
  BY <1>1
<1> QED
  BY <1>1, <1>2, <1>3 DEF FileOf

\* The file that optimize writes, while a tensor is written and when it is.
LEMMA WritingFacts ==
  ASSUME SessionTyped, Working, BeginReorder \/ EndReorder
  PROVE  /\ next + 1 \in 1 .. Len(Fused) /\ Fused[next + 1] \in Tensors
         /\ file \in Files /\ file + 1 \in Files
         /\ reordered' \in Layouts
         /\ \E w \in Layouts :
              /\ data' = [data EXCEPT ![file + 1] = [data[file + 1] EXCEPT !.of[Fused[next + 1]] = w]]
              /\ EndReorder => w = reordered
         /\ data' \in [Files -> FileOf(Contents)]
         /\ BeginReorder => reordered' = [i \in Experts |->
              data[file + 1].of[Fused[next + 1]][order[Fused[next + 1][1]][i]]]
<1> DEFINE t == Fused[next + 1]
           d == data[file + 1]
<1>1. next + 1 \in 1 .. Len(Fused) /\ t \in Tensors /\ t[1] \in Layers
  <2>1. next \in Nat /\ next < Len(Fused) /\ Len(Fused) \in Nat
    BY TensorFacts DEF SessionTyped, Working, BeginReorder, EndReorder
  <2>2. next + 1 \in 1 .. Len(Fused)
    BY <2>1
  <2> QED
    BY <2>2, TensorFacts
<1>2. d \in FileOf(Contents) /\ file \in Files /\ file + 1 \in Files
  BY DEF SessionTyped, Working, BeginReorder, EndReorder
<1>3. d.of[t] \in Layouts /\ order[t[1]] \in Shuffles
  <2>1. d.of \in Contents
    BY <1>2, FileValues
  <2> QED
    BY <1>1, <2>1 DEF Contents, LayerOrders, SessionTyped
<1> DEFINE moved == [i \in Experts |-> d.of[t][order[t[1]][i]]]
<1>4. moved \in Layouts
  BY <1>3, ReorderedFacts
<1>5. CASE BeginReorder
  <2>1. reordered' = moved
    BY <1>5 DEF BeginReorder
  <2>8. PICK k \in Experts : \E at \in {reordered'[k], Cut} :
          data' = [data EXCEPT ![file + 1].of[t] =
                     [i \in Experts |-> IF i < k THEN reordered'[i] ELSE IF i = k THEN at ELSE d.of[t][i]]]
    BY <1>5 DEF BeginReorder
  <2>2. PICK at \in {reordered'[k], Cut} :
          data' = [data EXCEPT ![file + 1].of[t] =
                     [i \in Experts |-> IF i < k THEN reordered'[i] ELSE IF i = k THEN at ELSE d.of[t][i]]]
    BY <2>8
  <2> DEFINE w == [i \in Experts |-> IF i < k THEN reordered'[i] ELSE IF i = k THEN at ELSE d.of[t][i]]
  <2> HIDE DEF moved
  <2>3. w \in Layouts
    <3>1. reordered' \in [Experts -> Experts \cup {Cut}] /\ d.of[t] \in [Experts -> Experts \cup {Cut}]
      BY <1>3, <1>4, <2>1 DEF Layouts
    <3>2. at \in Experts \cup {Cut}
      BY <2>2, <3>1
    <3>3. \A i \in Experts : reordered'[i] \in Experts \cup {Cut} /\ d.of[t][i] \in Experts \cup {Cut}
      BY <3>1
    <3> HIDE DEF t, d
    <3>4. \A i \in Experts : (IF i < k THEN reordered'[i] ELSE IF i = k THEN at ELSE d.of[t][i])
                                  \in Experts \cup {Cut}
      BY <3>2, <3>3
    <3> QED
      BY <3>4 DEF Layouts
  <2>4. data' = [data EXCEPT ![file + 1] = [d EXCEPT !.of[t] = w]]
    BY <2>2
  <2>5. ~ EndReorder
    BY <1>5 DEF BeginReorder, EndReorder
  <2>6. [d EXCEPT !.of[t] = w] \in FileOf(Contents)
    <3> HIDE DEF t, d, w
    <3> QED BY <1>1, <1>2, <2>3, WrittenFacts
  <2>7. data' \in [Files -> FileOf(Contents)]
    <3> DEFINE new == [d EXCEPT !.of[t] = w]
    <3> HIDE DEF new
    <3>1. data' = [data EXCEPT ![file + 1] = new]
      BY <2>4 DEF new
    <3>2. new \in FileOf(Contents)
      BY <2>6 DEF new
    <3> QED
      BY <3>1, <3>2 DEF SessionTyped
  <2> HIDE DEF w
  <2> QED
    BY <1>1, <1>2, <1>4, <2>1, <2>3, <2>4, <2>5, <2>7 DEF moved
<1>6. CASE EndReorder
  <2>1. reordered' = Natural /\ reordered \in Layouts
    BY <1>6 DEF EndReorder, SessionTyped
  <2>2. data' = [data EXCEPT ![file + 1] = [d EXCEPT !.of[t] = reordered]]
    BY <1>6 DEF EndReorder
  <2>3. ~ BeginReorder
    BY <1>6 DEF BeginReorder, EndReorder
  <2>4. data' \in [Files -> FileOf(Contents)]
    <3> DEFINE new == [d EXCEPT !.of[t] = reordered]
    <3>1. new \in FileOf(Contents)
      <4> HIDE DEF t, d
      <4> QED BY <1>1, <1>2, <2>1, WrittenFacts
    <3> HIDE DEF new
    <3>2. data' = [data EXCEPT ![file + 1] = new]
      BY <2>2 DEF new
    <3> QED
      BY <3>1, <3>2 DEF SessionTyped
  <2> QED
    BY <1>1, <1>2, <2>1, <2>2, <2>3, <2>4, StartValues
<1> QED
  BY <1>5, <1>6

\* No command is at work at the start.
LEMMA WorkingInit == Init => Working
  BY DEF Init, Working

\* Every step of a command leads to one of its steps.
LEMMA WorkingNext ==
  ASSUME SessionTyped, Working, [Next]_vars
  PROVE  Working'
<1> USE DEF Working, diskVars, jobVars, orderVars, runVars, Exit
<1>1. CASE Profile
  BY <1>1 DEF Profile
<1>2. CASE BeginProfile
  BY <1>2 DEF BeginProfile
<1>3. CASE EndProfile
  <2>1. CASE cmd = "run"
    BY <1>3, <2>1 DEF EndProfile
  <2>2. CASE cmd # "run"
    BY <1>3, <2>2 DEF EndProfile
  <2> QED
    BY <2>1, <2>2
<1>4. CASE Age
  BY <1>4 DEF Age
<1>5. ASSUME NEW f \in Files, Run(f)
      PROVE  Working'
  <2>1. CASE profile = "fresh"
    BY <1>5, <2>1 DEF Run
  <2>2. CASE profile # "fresh"
    BY <1>5, <2>2 DEF Run
  <2> QED
    BY <2>1, <2>2
<1>6. ASSUME NEW f \in Files, Optimize(f)
      PROVE  Working'
  BY <1>6 DEF Optimize
<1>7. CASE Load
  BY <1>7 DEF Load
<1>8. CASE LoadFails
  BY <1>8 DEF LoadFails
<1>9. CASE Decode
  BY <1>9 DEF Decode
<1>10. CASE Generate
  BY <1>10 DEF Generate
<1>11. CASE BeginSave
  BY <1>11 DEF BeginSave
<1>12. CASE EndSave
  BY <1>12 DEF EndSave, Dropped
<1>13. CASE NoSave
  BY <1>13 DEF NoSave, Dropped
<1>14. CASE Full
  BY <1>14 DEF Full
<1>15. CASE NextLine
  BY <1>15 DEF NextLine
<1>16. CASE Quit
  BY <1>16 DEF Quit
<1>17. CASE Copied
  BY <1>17 DEF Copied
<1>18. CASE BeginReorder
  BY <1>18 DEF BeginReorder
<1>23. CASE EndReorder
  BY <1>23 DEF EndReorder
<1>19. CASE BeginSidecar
  BY <1>19 DEF BeginSidecar
<1>20. CASE EndSidecar
  BY <1>20 DEF EndSidecar
<1>21. CASE Kill
  BY <1>21 DEF Kill
<1>22. CASE UNCHANGED vars
  BY <1>22 DEF vars
<1> QED
  BY <1>1, <1>2, <1>3, <1>4, <1>5, <1>6, <1>7, <1>8, <1>9, <1>10, <1>11, <1>12, <1>13,
     <1>14, <1>15, <1>16, <1>17, <1>18, <1>19, <1>20, <1>21, <1>22, <1>23 DEF Next

-----------------------------------------------------------------------------

\* The first disk has its types.
LEMMA TypedInit == Init => SessionTyped
<1> SUFFICES ASSUME Init PROVE SessionTyped
  OBVIOUS
<1>1. data \in [Files -> FileOf(Contents)]
  <2>1. Whole(InOrder) \in FileOf(Contents) /\ Absent(InOrder) \in FileOf(Contents)
    BY StartValues, FileValues
  <2> QED
    BY <2>1 DEF Init
<1>2. sidecar \in [Files -> FileOf(LayerOrders)]
  <2>1. Absent(NoOrder) \in FileOf(LayerOrders)
    BY StartValues, FileValues
  <2> QED
    BY <2>1 DEF Init
<1>3. counts \in [Files -> FileOf(Matrices)]
  <2>1. Absent(NewMatrix) \in FileOf(Matrices)
    BY StartValues, FileValues
  <2> QED
    BY <2>1 DEF Init
<1> QED
  BY <1>1, <1>2, <1>3, StartValues, SessionAssumption DEF Init, SessionTyped

\* What a generation starts with, counts read or not, is a memory.
LEMMA LoadedFacts ==
  ASSUME SessionTyped, NEW f \in Files
  PROVE  /\ LoadedCounts(f) \in Matrices
         /\ [co |-> LoadedCounts(f), selected |-> [l \in Layers |-> WarmSelection(LoadedCounts(f), l)],
             prev |-> <<>>] \in Memories
<1>1. LoadedCounts(f) \in Matrices
  <2>1. counts[f].of \in Matrices
    BY FileValues DEF SessionTyped
  <2> QED
    BY <2>1, StartValues DEF LoadedCounts
<1>2. \A l \in Layers : WarmSelection(LoadedCounts(f), l) \in SUBSET Experts
  BY DEF WarmSelection
<1> HIDE DEF LoadedCounts, WarmSelection
<1> QED
  BY <1>1, <1>2 DEF Memories

\* Every step writes files of their types; optimize moves experts by a shuffle.
LEMMA TypedNext ==
  ASSUME SessionTyped, Working, [Next]_vars
  PROVE  SessionTyped'
<1> USE DEF diskVars, jobVars, orderVars, runVars
<1>0. ASSUME Exit, profile' \in {"absent", "torn", "stale", "fresh"},
             data' \in [Files -> FileOf(Contents)],
             sidecar' \in [Files -> FileOf(LayerOrders)],
             counts' \in [Files -> FileOf(Matrices)],
             optimized' \in SUBSET Files, cutSaves' \in SUBSET Files
      PROVE  SessionTyped'
  BY <1>0, StartValues, SessionAssumption DEF Exit, SessionTyped
<1>1. CASE Profile
  BY <1>1 DEF Profile, SessionTyped
<1>2. CASE BeginProfile
  BY <1>2 DEF BeginProfile, SessionTyped
<1>3. CASE EndProfile
  <2>1. CASE cmd = "run"
    BY <1>3, <2>1 DEF EndProfile, SessionTyped
  <2>2. CASE cmd # "run"
    BY <1>0, <1>3, <2>2 DEF EndProfile, SessionTyped
  <2> QED
    BY <2>1, <2>2
<1>4. CASE Age
  BY <1>4 DEF Age, SessionTyped
<1>5. ASSUME NEW f \in Files, Run(f)
      PROVE  SessionTyped'
  BY <1>5 DEF Run, SessionTyped
<1>6. ASSUME NEW f \in Files, Optimize(f)
      PROVE  SessionTyped'
  <2>1. f + 1 \in Files /\ counts[f].of \in Matrices
    BY <1>6, FileValues DEF Optimize, SessionTyped
  <2>2. \A l \in Layers : [i \in Experts |-> ExpertOrder(counts[f].of, l)[i + 1]] \in Shuffles
    BY <2>1, ExpertOrderIsShuffle
  <2>3. order' = [l \in Layers |-> [i \in Experts |-> ExpertOrder(counts[f].of, l)[i + 1]]]
    <3> HIDE DEF ExpertOrder
    <3> QED BY <1>6 DEF Optimize
  <2>4. order' \in LayerOrders
    <3> HIDE DEF ExpertOrder
    <3> QED BY <2>2, <2>3 DEF LayerOrders
  <2>5. Torn(InOrder) \in FileOf(Contents)
    BY StartValues, FileValues
  <2>6. data' \in [Files -> FileOf(Contents)]
    BY <1>6, <2>5 DEF Optimize, SessionTyped
  <2> QED
    BY <1>6, <2>4, <2>6 DEF Optimize, SessionTyped
<1>7. CASE Load
  <2>1. memory' \in Memories
    BY <1>7, LoadedFacts DEF Load, SessionTyped
  <2> QED
    BY <1>7, <2>1 DEF Load, SessionTyped
<1>8. CASE LoadFails
  BY <1>0, <1>8 DEF LoadFails, SessionTyped
<1>9. CASE Decode
  <2>1. PICK routing \in Routings : memory' = Walk(memory, routing)
    BY <1>9 DEF Decode
  <2>2. memory' \in Memories
    BY <2>1, WalkWalks DEF SessionTyped, Walked
  <2> QED
    BY <1>9, <2>2 DEF Decode, SessionTyped
<1>10. CASE Generate
  BY <1>10 DEF Generate, SessionTyped
<1>11. CASE BeginSave
  <2>1. counts[file] \in FileOf(Matrices)
    BY DEF SessionTyped
  <2>2. [counts[file] EXCEPT !.is = "torn"] \in FileOf(Matrices)
    BY <2>1 DEF FileOf
  <2>3. counts' \in [Files -> FileOf(Matrices)]
    <3> DEFINE new == [counts[file] EXCEPT !.is = "torn"]
    <3>1. counts' = [counts EXCEPT ![file] = new]
      BY <1>11 DEF BeginSave
    <3> HIDE DEF new
    <3> QED BY <2>2, <3>1 DEF SessionTyped, new
  <2> QED
    BY <1>11, <2>3 DEF BeginSave, SessionTyped
<1>12. CASE EndSave
  <2>1. memory.co \in Matrices
    BY DEF SessionTyped, Memories
  <2>2. Whole(memory.co) \in FileOf(Matrices)
    BY <2>1, FileValues
  <2> QED
    BY <1>12, <2>2, StartValues DEF EndSave, Dropped, SessionTyped
<1>13. CASE NoSave
  BY <1>13, StartValues DEF NoSave, Dropped, SessionTyped
<1>14. CASE Full
  BY <1>0, <1>14 DEF Full, SessionTyped
<1>15. CASE NextLine
  BY <1>15 DEF NextLine, SessionTyped
<1>16. CASE Quit
  BY <1>0, <1>16 DEF Quit, SessionTyped
<1>17. CASE Copied
  BY <1>17 DEF Copied, SessionTyped
<1>18. CASE BeginReorder
  <2>1. data' \in [Files -> FileOf(Contents)] /\ reordered' \in Layouts
    <3> HIDE DEF BeginReorder
    <3> QED BY <1>18, WritingFacts
  <2>2. UNCHANGED <<profile, sidecar, counts, optimized, cutSaves, file, order, next, memory>>
    BY <1>18 DEF BeginReorder
  <2> QED
    BY <2>1, <2>2 DEF SessionTyped
<1>23. CASE EndReorder
  <2>1. data' \in [Files -> FileOf(Contents)] /\ reordered' \in Layouts
    <3> HIDE DEF EndReorder
    <3> QED BY <1>23, WritingFacts
  <2>2. next' = next + 1
        /\ UNCHANGED <<profile, sidecar, counts, optimized, cutSaves, file, order, memory>>
    BY <1>23 DEF EndReorder
  <2> QED
    BY <2>1, <2>2 DEF SessionTyped
<1>19. CASE BeginSidecar
  <2>1. Torn(NoOrder) \in FileOf(LayerOrders)
    BY StartValues, FileValues
  <2> QED
    BY <1>19, <2>1 DEF BeginSidecar, SessionTyped
<1>20. CASE EndSidecar
  <2>1. Whole(order) \in FileOf(LayerOrders)
    BY FileValues DEF SessionTyped
  <2>2. file + 1 \in Files
    BY <1>20 DEF EndSidecar, Working
  <2> QED
    BY <1>0, <1>20, <2>1, <2>2 DEF EndSidecar, SessionTyped
<1>21. CASE Kill
  BY <1>0, <1>21 DEF Kill, SessionTyped
<1>22. CASE UNCHANGED vars
  BY <1>22 DEF vars, SessionTyped
<1> QED
  BY <1>1, <1>2, <1>3, <1>4, <1>5, <1>6, <1>7, <1>8, <1>9, <1>10, <1>11, <1>12, <1>13,
     <1>14, <1>15, <1>16, <1>17, <1>18, <1>19, <1>20, <1>21, <1>22, <1>23 DEF Next

-----------------------------------------------------------------------------

\* The counts are symmetric; those of a generation, up to its save, include those
\* it found; and only a save under way, or one that was killed, leaves a torn file
\* in the place of counts.
CountsKept ==
  /\ Consistent(memory.co)
  /\ \A f \in Files : Consistent(counts[f].of)
  /\ step \in {"generate", "saving counts"} /\ file \notin cutSaves =>
       Extends(memory.co, counts[file].of)
  /\ \A f \in Files \ cutSaves :
       counts[f].is = "whole" \/ counts[f].of = NewMatrix \/ (step = "saving counts" /\ file = f)

\* Nothing is counted at the start.
LEMMA CountsInit == Init => CountsKept
<1> SUFFICES ASSUME Init PROVE CountsKept
  OBVIOUS
<1>1. \A f \in Files : counts[f].of = NewMatrix
  BY DEF Init, Absent
<1>2. memory.co = NewMatrix /\ step = "none"
  BY StartValues DEF Init
<1> QED
  BY <1>1, <1>2, StartValues DEF CountsKept

\* A save begins by tearing the file it replaces.
LEMMA BeginSaveFacts ==
  ASSUME SessionTyped, BeginSave
  PROVE  \A f \in Files : counts'[f].of = counts[f].of /\ (f # file => counts'[f] = counts[f])
<1> DEFINE new == [counts[file] EXCEPT !.is = "torn"]
<1>1. new.of = counts[file].of
  BY DEF SessionTyped, FileOf
<1>2. counts' = [counts EXCEPT ![file] = new] /\ DOMAIN counts = Files
  BY DEF BeginSave, SessionTyped
<1> HIDE DEF new
<1> QED
  BY <1>1, <1>2

\* A step that leaves the counts alone and starts no generation.
LEMMA CountsAlone ==
  ASSUME CountsKept, counts' = counts, cutSaves' = cutSaves, step # "saving counts",
         step' \notin {"generate", "saving counts"},
         memory' = memory \/ memory' = Idle
  PROVE  CountsKept'
<1>1. Consistent(memory'.co)
  BY StartValues DEF CountsKept
<1> QED
  BY <1>1 DEF CountsKept

\* Every step keeps the counts: only a walk and a save change them.
LEMMA CountsNext ==
  ASSUME SessionTyped, Working, CountsKept, [Next]_vars
  PROVE  CountsKept'
<1> USE DEF diskVars, jobVars, orderVars, runVars, Exit
<1>1. CASE Profile
  BY <1>1, CountsAlone DEF Profile, Working
<1>2. CASE BeginProfile
  BY <1>2, CountsAlone DEF BeginProfile
<1>3. CASE EndProfile
  <2>1. CASE cmd = "run"
    BY <1>3, <2>1, CountsAlone DEF EndProfile
  <2>2. CASE cmd # "run"
    BY <1>3, <2>2, CountsAlone DEF EndProfile
  <2> QED
    BY <2>1, <2>2
<1>4. CASE Age
  BY <1>4, CountsAlone DEF Age, Working
<1>5. ASSUME NEW f \in Files, Run(f)
      PROVE  CountsKept'
  <2>1. step' \in {"load", "profile"}
    BY <1>5 DEF Run
  <2> QED
    BY <1>5, <2>1, CountsAlone DEF Run, Working
<1>6. ASSUME NEW f \in Files, Optimize(f)
      PROVE  CountsKept'
  BY <1>6, CountsAlone DEF Optimize, Working
<1>7. CASE Load
  <2>1. /\ memory'.co = LoadedCounts(file) /\ UNCHANGED <<counts, cutSaves, file>>
        /\ step = "load" /\ step' = "generate"
    BY <1>7 DEF Load
  <2>2. Consistent(LoadedCounts(file))
    BY StartValues DEF LoadedCounts, CountsKept, SessionTyped
  <2>3. ASSUME file \notin cutSaves
        PROVE  Extends(LoadedCounts(file), counts[file].of)
    <3>1. LoadedCounts(file) = counts[file].of
      BY <2>1, <2>3 DEF LoadedCounts, CountsKept, SessionTyped
    <3>2. LoadedCounts(file) \in Matrices
      BY LoadedFacts DEF SessionTyped
    <3> QED
      BY <3>1, <3>2, GrownReflexive DEF Grown
  <2> HIDE DEF LoadedCounts
  <2> QED
    BY <2>1, <2>2, <2>3 DEF CountsKept
<1>8. CASE LoadFails
  BY <1>8, CountsAlone DEF LoadFails
<1>9. CASE Decode
  <2>1. PICK routing \in Routings : memory' = Walk(memory, routing)
    BY <1>9 DEF Decode
  <2>2. memory \in Memories /\ Walked(memory', memory)
    BY <2>1, WalkWalks DEF SessionTyped
  <2>3. Grown(memory'.co, memory.co) /\ memory.co \in Matrices /\ memory'.co \in Matrices
    BY <2>2 DEF Walked, Memories
  <2>4. UNCHANGED <<counts, cutSaves, file, step>> /\ step = "generate"
    BY <1>9 DEF Decode
  <2>5. Consistent(memory'.co)
    BY <2>3 DEF CountsKept, Grown
  <2>6. ASSUME file \notin cutSaves
        PROVE  Extends(memory'.co, counts[file].of)
    <3>1. counts[file].of \in Matrices
      BY FileValues DEF SessionTyped
    <3>2. Extends(memory.co, counts[file].of) /\ Extends(memory'.co, memory.co)
      BY <2>3, <2>4, <2>6 DEF CountsKept, Grown
    <3> QED
      BY <2>3, <3>1, <3>2, ExtendsTransitive
  <2> QED
    BY <2>4, <2>5, <2>6 DEF CountsKept
<1>10. CASE Generate
  BY <1>10 DEF Generate, CountsKept
<1>11. CASE BeginSave
  <2>1. \A f \in Files : counts'[f].of = counts[f].of /\ (f # file => counts'[f] = counts[f])
    BY <1>11, BeginSaveFacts
  <2>2. UNCHANGED <<memory, file, cutSaves>> /\ step = "generate" /\ step' = "saving counts"
    BY <1>11 DEF BeginSave
  <2>3. file \in Files
    BY DEF SessionTyped
  <2> QED
    BY <2>1, <2>2, <2>3 DEF CountsKept
<1>12. CASE EndSave
  <2>1. /\ counts'[file] = Whole(memory.co)
        /\ \A f \in Files : f # file => counts'[f] = counts[f]
        /\ cutSaves' = cutSaves \ {file} /\ file' = file
        /\ memory' = Idle /\ step = "saving counts" /\ step' = "prompt"
    BY <1>12 DEF EndSave, Dropped, SessionTyped
  <2>2. Whole(memory.co).of = memory.co /\ Whole(memory.co).is = "whole"
    BY DEF Whole
  <2>3. \A f \in Files : Consistent(counts'[f].of)
    BY <2>1, <2>2 DEF CountsKept
  <2>4. \A f \in Files \ cutSaves' : counts'[f].is = "whole" \/ counts'[f].of = NewMatrix
    BY <2>1, <2>2 DEF CountsKept
  <2> QED
    BY <2>1, <2>3, <2>4, StartValues DEF CountsKept
<1>13. CASE NoSave
  BY <1>13, CountsAlone DEF NoSave, Dropped
<1>14. CASE Full
  BY <1>14, CountsAlone DEF Full
<1>15. CASE NextLine
  BY <1>15, CountsAlone DEF NextLine
<1>16. CASE Quit
  BY <1>16, CountsAlone DEF Quit
<1>17. CASE Copied
  BY <1>17, CountsAlone DEF Copied
<1>18. CASE BeginReorder
  BY <1>18, CountsAlone DEF BeginReorder
<1>23. CASE EndReorder
  BY <1>23, CountsAlone DEF EndReorder
<1>19. CASE BeginSidecar
  BY <1>19, CountsAlone DEF BeginSidecar
<1>20. CASE EndSidecar
  BY <1>20, CountsAlone DEF EndSidecar
<1>21. CASE Kill
  <2>1. CASE step = "saving counts"
    <3>1. /\ cutSaves' = cutSaves \cup {file} /\ counts' = counts
          /\ memory' = Idle /\ step' = "none"
      BY <1>21, <2>1 DEF Kill
    <3> QED
      BY <2>1, <3>1, StartValues DEF CountsKept
  <2>2. CASE step # "saving counts"
    BY <1>21, <2>2, CountsAlone DEF Kill
  <2> QED
    BY <2>1, <2>2
<1>22. CASE UNCHANGED vars
  BY <1>22 DEF vars, CountsKept
<1> QED
  BY <1>1, <1>2, <1>3, <1>4, <1>5, <1>6, <1>7, <1>8, <1>9, <1>10, <1>11, <1>12, <1>13,
     <1>14, <1>15, <1>16, <1>17, <1>18, <1>19, <1>20, <1>21, <1>22, <1>23 DEF Next

-----------------------------------------------------------------------------

\* Which expert is where, in the downloaded model and in its optimized copy.
LayoutKnown ==
  /\ data[0] = Whole(InOrder)
  /\ sidecar[0] = Absent(NoOrder)
  /\ 1 \in optimized => /\ sidecar[1].is = "whole"
                        /\ \A t \in Tensors : data[1].of[t] = sidecar[1].of[t[1]]
  /\ step = "generate" => where = LoadedOrder(file)
  /\ step \in {"copying", "reorder", "writing tensor", "saving order"} /\ file = 0 =>
       1 \notin optimized
  /\ step = "copying" => next = 0
  /\ step \in {"reorder", "writing tensor"} /\ file = 0 =>
       \A k \in 1 .. Len(Fused) : step = "reorder" \/ k # next + 1 =>
         data[1].of[Fused[k]] = IF k <= next THEN order[Fused[k][1]] ELSE Natural
  /\ step = "writing tensor" /\ file = 0 => reordered = order[Fused[next + 1][1]]
  /\ step = "saving order" /\ file = 0 => \A t \in Tensors : data[1].of[t] = order[t[1]]

\* The downloaded model is in order.
LEMMA LayoutInit == Init => LayoutKnown
  BY SessionAssumption DEF Init, LayoutKnown

\* A step that leaves the disk's models alone and is not about to optimize.
LEMMA LayoutAlone ==
  ASSUME LayoutKnown, data' = data, sidecar' = sidecar, optimized' = optimized,
         step' \notin {"generate", "copying", "reorder", "writing tensor", "saving order"}
  PROVE  LayoutKnown'
  BY DEF LayoutKnown

\* Writing one tensor of the copy leaves the others.
LEMMA OthersUnwritten ==
  ASSUME SessionTyped, NEW n \in 1 .. Len(Fused), 1 \in Files,
         NEW w \in Layouts, NEW D,
         D = [data EXCEPT ![1] = [data[1] EXCEPT !.of[Fused[n]] = w]]
  PROVE  /\ D[1].of[Fused[n]] = w
         /\ \A k \in 1 .. Len(Fused) : k # n => D[1].of[Fused[k]] = data[1].of[Fused[k]]
<1>1. data[1] \in FileOf(Contents) /\ \A k \in 1 .. Len(Fused) : Fused[k] \in Tensors
  BY TensorFacts DEF SessionTyped
<1>2. \A k \in 1 .. Len(Fused) : k # n => Fused[k] # Fused[n]
  BY TensorFacts
<1> DEFINE new == [data[1] EXCEPT !.of[Fused[n]] = w]
<1>3. new.of = [data[1].of EXCEPT ![Fused[n]] = w] /\ data[1].of \in Contents
  BY <1>1, WrittenFacts
<1> HIDE DEF new
<1>4. D[1] = new
  BY DEF new, SessionTyped
<1> QED
  BY <1>1, <1>2, <1>3, <1>4 DEF Contents

\* Every step keeps what is known of the two files, if nothing is copied over the
\* downloaded one and the copy is not what optimize starts from.
LEMMA LayoutNext ==
  ASSUME SessionTyped, Working, LayoutKnown, [Next]_vars
  PROVE  LayoutKnown'
<1> USE DEF diskVars, jobVars, orderVars, runVars, Exit
<1>0. 0 \in Files /\ \A f \in Files : f \in Nat /\ f + 1 # 0 /\ (f + 1 = 1 <=> f = 0)
  BY SessionAssumption
<1>1. CASE Profile
  BY <1>1, LayoutAlone DEF Profile
<1>2. CASE BeginProfile
  BY <1>2, LayoutAlone DEF BeginProfile
<1>3. CASE EndProfile
  <2>1. CASE cmd = "run"
    BY <1>3, <2>1, LayoutAlone DEF EndProfile
  <2>2. CASE cmd # "run"
    BY <1>3, <2>2, LayoutAlone DEF EndProfile
  <2> QED
    BY <2>1, <2>2
<1>4. CASE Age
  BY <1>4, LayoutAlone DEF Age, Working
<1>5. ASSUME NEW f \in Files, Run(f)
      PROVE  LayoutKnown'
  <2>1. step' \in {"load", "profile"}
    BY <1>5 DEF Run
  <2> QED
    BY <1>5, <2>1, LayoutAlone DEF Run
<1>6. ASSUME NEW f \in Files, Optimize(f)
      PROVE  LayoutKnown'
  <2>1. /\ f + 1 \in Files /\ file' = f /\ step' = "copying" /\ next' = 0
        /\ data' = [data EXCEPT ![f + 1] = Torn(InOrder)]
        /\ optimized' = optimized \ {f + 1} /\ sidecar' = sidecar
    BY <1>6 DEF Optimize
  <2>2. data'[0] = data[0] /\ (f # 0 => data'[1] = data[1])
    BY <1>0, <2>1 DEF SessionTyped
  <2>3. 1 \in optimized' => 1 \in optimized /\ f # 0
    BY <1>0, <2>1
  <2> QED
    BY <1>0, <2>1, <2>2, <2>3 DEF LayoutKnown
<1>7. CASE Load
  <2>1. /\ step' = "generate" /\ where' = LoadedOrder(file) /\ file' = file
        /\ data' = data /\ sidecar' = sidecar /\ optimized' = optimized
    BY <1>7 DEF Load
  <2>2. LoadedOrder(file)' = LoadedOrder(file)
    BY <2>1 DEF LoadedOrder
  <2> QED
    BY <2>1, <2>2 DEF LayoutKnown
<1>8. CASE LoadFails
  BY <1>8, LayoutAlone DEF LoadFails
<1>9. CASE Decode
  <2>1. UNCHANGED <<data, sidecar, optimized, step, where, file>> /\ step = "generate"
    BY <1>9 DEF Decode
  <2>2. LoadedOrder(file)' = LoadedOrder(file)
    BY <2>1 DEF LoadedOrder
  <2> QED
    BY <2>1, <2>2 DEF LayoutKnown
<1>10. CASE Generate
  <2>1. UNCHANGED <<data, sidecar, optimized, step, where, file>> /\ step = "generate"
    BY <1>10 DEF Generate
  <2>2. LoadedOrder(file)' = LoadedOrder(file)
    BY <2>1 DEF LoadedOrder
  <2> QED
    BY <2>1, <2>2 DEF LayoutKnown
<1>11. CASE BeginSave
  BY <1>11, LayoutAlone DEF BeginSave
<1>12. CASE EndSave
  BY <1>12, LayoutAlone DEF EndSave, Dropped
<1>13. CASE NoSave
  BY <1>13, LayoutAlone DEF NoSave, Dropped
<1>14. CASE Full
  BY <1>14, LayoutAlone DEF Full
<1>15. CASE NextLine
  BY <1>15, LayoutAlone DEF NextLine
<1>16. CASE Quit
  BY <1>16, LayoutAlone DEF Quit
<1>17. CASE Copied
  <2>1. /\ step = "copying" /\ step' = "reorder"
        /\ data' = [data EXCEPT ![file + 1] = data[file]]
        /\ UNCHANGED <<sidecar, optimized, file, order, next>>
        /\ file \in Files /\ file + 1 \in Files
    BY <1>17 DEF Copied, Working, SessionTyped
  <2>2. data'[0] = data[0] /\ (file # 0 => data'[1] = data[1])
    BY <1>0, <2>1 DEF SessionTyped
  <2>3. file = 0 => data'[1].of = InOrder
    BY <1>0, <2>1 DEF SessionTyped, LayoutKnown, Whole
  <2>4. ASSUME file = 0, NEW k \in 1 .. Len(Fused)
        PROVE  data'[1].of[Fused[k]] = IF k <= next THEN order[Fused[k][1]] ELSE Natural
    <3>1. next = 0 /\ Fused[k] \in Tensors
      BY <2>1, TensorFacts DEF LayoutKnown
    <3>2. ~ (k <= next)
      BY <3>1
    <3> QED
      BY <2>3, <2>4, <3>1, <3>2 DEF InOrder
  <2>5. 1 \in optimized => file # 0
    BY <2>1 DEF LayoutKnown
  <2> QED
    BY <2>1, <2>2, <2>4, <2>5 DEF LayoutKnown
<1>18. CASE BeginReorder
  <2> DEFINE u == Fused[next + 1]
             d == data[file + 1]
  <2>1. /\ step = "reorder" /\ step' = "writing tensor"
        /\ UNCHANGED <<sidecar, optimized, file, order, next>>
    BY <1>18 DEF BeginReorder
  <2>2. /\ next + 1 \in 1 .. Len(Fused) /\ u \in Tensors
        /\ file \in Files /\ file + 1 \in Files
        /\ reordered' = [i \in Experts |-> d.of[u][order[u[1]][i]]]
    BY <1>18, WritingFacts
  <2>3. PICK w \in Layouts : data' = [data EXCEPT ![file + 1] = [d EXCEPT !.of[u] = w]]
    BY <1>18, WritingFacts
  <2>4. data'[0] = data[0] /\ (file # 0 => data'[1] = data[1])
    <3> DEFINE new == [d EXCEPT !.of[u] = w]
    <3>1. data' = [data EXCEPT ![file + 1] = new]
      BY <2>3
    <3> HIDE DEF new
    <3> QED BY <1>0, <2>2, <3>1 DEF SessionTyped
  <2>5. ASSUME file = 0, NEW k \in 1 .. Len(Fused), k # next + 1
        PROVE  data'[1].of[Fused[k]] = IF k <= next THEN order[Fused[k][1]] ELSE Natural
    <3>1. data'[1].of[Fused[k]] = data[1].of[Fused[k]]
      BY <1>0, <2>2, <2>3, <2>5, OthersUnwritten
    <3> QED
      BY <2>1, <2>5, <3>1 DEF LayoutKnown
  <2>6. ASSUME file = 0
        PROVE  reordered' = order[u[1]]
    <3>1. d.of[u] = Natural
      <4>1. ~ (next + 1 <= next)
        BY DEF SessionTyped
      <4> QED
        BY <1>0, <2>1, <2>2, <2>6, <4>1 DEF LayoutKnown
    <3>2. order[u[1]] \in Shuffles
      BY <2>2, TensorFacts DEF SessionTyped, LayerOrders
    <3> HIDE DEF u, d
    <3> QED
      BY <2>2, <3>1, <3>2, StartValues, ReorderedFacts
  <2>7. 1 \in optimized => file # 0
    BY <2>1 DEF LayoutKnown
  <2> QED
    BY <2>1, <2>4, <2>5, <2>6, <2>7 DEF LayoutKnown
<1>23. CASE EndReorder
  <2> DEFINE u == Fused[next + 1]
             d == data[file + 1]
  <2>1. /\ step = "writing tensor" /\ step' = "reorder" /\ next' = next + 1
        /\ UNCHANGED <<sidecar, optimized, file, order>>
    BY <1>23 DEF EndReorder
  <2>2. /\ next + 1 \in 1 .. Len(Fused) /\ u \in Tensors
        /\ file \in Files /\ file + 1 \in Files
    BY <1>23, WritingFacts
  <2>3. data' = [data EXCEPT ![file + 1] = [d EXCEPT !.of[u] = reordered]] /\ reordered \in Layouts
    BY <1>23, WritingFacts
  <2>4. data'[0] = data[0] /\ (file # 0 => data'[1] = data[1])
    <3> DEFINE new == [d EXCEPT !.of[u] = reordered]
    <3>1. data' = [data EXCEPT ![file + 1] = new]
      BY <2>3
    <3> HIDE DEF new
    <3> QED BY <1>0, <2>2, <3>1 DEF SessionTyped
  <2>5. ASSUME file = 0, NEW k \in 1 .. Len(Fused)
        PROVE  data'[1].of[Fused[k]] = IF k <= next + 1 THEN order[Fused[k][1]] ELSE Natural
    <3>1. next \in Nat
      BY DEF SessionTyped
    <3>2. CASE k = next + 1
      <4>1. data'[1].of[u] = reordered
        <5> DEFINE new == [d EXCEPT !.of[u] = reordered]
        <5>1. d \in FileOf(Contents)
          BY <2>2 DEF SessionTyped
        <5>2. new.of = [d.of EXCEPT ![u] = reordered] /\ d.of \in Contents
          <6> HIDE DEF u, d
          <6> QED BY <2>2, <2>3, <5>1, WrittenFacts
        <5>3. new.of[u] = reordered
          <6> HIDE DEF u, d, new
          <6> QED BY <2>2, <5>2 DEF Contents
        <5>4. data'[1] = new
          <6> HIDE DEF u, d
          <6>1. data' = [data EXCEPT ![file + 1] = new] /\ file + 1 = 1
            BY <2>3, <2>5
          <6> HIDE DEF new
          <6> QED BY <2>2, <6>1 DEF SessionTyped
        <5> QED
          BY <5>3, <5>4
      <4>2. reordered = order[u[1]]
        BY <2>1, <2>5 DEF LayoutKnown
      <4>3. k <= next + 1
        BY <3>1, <3>2
      <4> QED
        BY <3>2, <4>1, <4>2, <4>3
    <3>3. CASE k # next + 1
      <4>1. data'[1].of[Fused[k]] = data[1].of[Fused[k]]
        BY <1>0, <2>2, <2>3, <2>5, <3>3, OthersUnwritten
      <4>2. k <= next + 1 <=> k <= next
        BY <3>1, <3>3
      <4>3. data[1].of[Fused[k]] = IF k <= next THEN order[Fused[k][1]] ELSE Natural
        BY <2>1, <2>5, <3>3 DEF LayoutKnown
      <4> QED
        BY <4>1, <4>2, <4>3
    <3> QED
      BY <3>2, <3>3
  <2>6. 1 \in optimized => file # 0
    BY <2>1 DEF LayoutKnown
  <2> HIDE DEF u, d
  <2> QED
    BY <2>1, <2>4, <2>5, <2>6 DEF LayoutKnown
<1>19. CASE BeginSidecar
  <2>1. /\ step = "reorder" /\ next = Len(Fused) /\ step' = "saving order"
        /\ sidecar' = [sidecar EXCEPT ![file + 1] = Torn(NoOrder)]
        /\ UNCHANGED <<data, optimized, file, order, next>>
        /\ file \in Files /\ file + 1 \in Files
    BY <1>19 DEF BeginSidecar, Working, SessionTyped
  <2>2. sidecar'[0] = sidecar[0] /\ (file # 0 /\ 1 \in Files => sidecar'[1] = sidecar[1])
    <3> DEFINE new == Torn(NoOrder)
    <3>1. sidecar' = [sidecar EXCEPT ![file + 1] = new] /\ DOMAIN sidecar = Files
      BY <2>1 DEF SessionTyped
    <3>2. 0 # file + 1 /\ (file # 0 => 1 # file + 1)
      BY <1>0, <2>1
    <3> HIDE DEF new
    <3> QED BY <1>0, <3>1, <3>2
  <2>3. ASSUME file = 0, NEW t \in Tensors
        PROVE  data[1].of[t] = order[t[1]]
    <3>1. PICK k \in 1 .. Len(Fused) : Fused[k] = t
      BY TensorFacts
    <3>2. k <= next
      <4>1. next = Len(Fused) /\ Len(Fused) \in Nat
        BY <2>1, TensorFacts
      <4> QED
        BY <4>1
    <3> QED
      BY <2>1, <2>3, <3>1, <3>2 DEF LayoutKnown
  <2>4. 1 \in optimized => file # 0
    BY <2>1 DEF LayoutKnown
  <2>5. 1 \in optimized => 1 \in Files
    BY DEF SessionTyped
  <2> QED
    BY <2>1, <2>2, <2>3, <2>4, <2>5 DEF LayoutKnown
<1>20. CASE EndSidecar
  <2>1. /\ step = "saving order" /\ step' = "none"
        /\ sidecar' = [sidecar EXCEPT ![file + 1] = Whole(order)]
        /\ optimized' = optimized \cup {file + 1}
        /\ data' = data
        /\ file \in Files /\ file + 1 \in Files
    BY <1>20 DEF EndSidecar, Working, SessionTyped
  <2>2. sidecar'[0] = sidecar[0] /\ (file # 0 /\ 1 \in Files => sidecar'[1] = sidecar[1])
    <3> DEFINE new == Whole(order)
    <3>1. sidecar' = [sidecar EXCEPT ![file + 1] = new] /\ DOMAIN sidecar = Files
      BY <2>1 DEF SessionTyped
    <3>2. 0 # file + 1 /\ (file # 0 => 1 # file + 1)
      BY <1>0, <2>1
    <3> HIDE DEF new
    <3> QED BY <1>0, <3>1, <3>2
  <2>3. ASSUME file = 0
        PROVE  sidecar'[1] = Whole(order) /\ \A t \in Tensors : data[1].of[t] = order[t[1]]
    BY <1>0, <2>1, <2>3 DEF SessionTyped, LayoutKnown
  <2>4. Whole(order).is = "whole" /\ Whole(order).of = order
    BY DEF Whole
  <2>5. ASSUME 1 \in optimized'
        PROVE  sidecar'[1].is = "whole" /\ \A t \in Tensors : data'[1].of[t] = sidecar'[1].of[t[1]]
    <3>1. CASE file = 0
      BY <2>1, <2>3, <2>4, <3>1
    <3>2. CASE file # 0
      <4>1. 1 \in optimized /\ 1 \in Files
        BY <1>0, <2>1, <2>5, <3>2 DEF SessionTyped
      <4> QED
        BY <2>1, <2>2, <3>2, <4>1 DEF LayoutKnown
    <3> QED
      BY <3>1, <3>2
  <2> QED
    BY <2>1, <2>2, <2>5 DEF LayoutKnown
<1>21. CASE Kill
  BY <1>21, LayoutAlone DEF Kill
<1>22. CASE UNCHANGED vars
  <2>1. UNCHANGED <<data, sidecar, optimized, step, where, file, order, next, reordered>>
    BY <1>22 DEF vars
  <2>2. LoadedOrder(file)' = LoadedOrder(file)
    BY <2>1 DEF LoadedOrder
  <2> QED
    BY <2>1, <2>2 DEF LayoutKnown
<1> QED
  BY <1>1, <1>2, <1>3, <1>4, <1>5, <1>6, <1>7, <1>8, <1>9, <1>10, <1>11, <1>12, <1>13,
     <1>14, <1>15, <1>16, <1>17, <1>18, <1>19, <1>20, <1>21, <1>22, <1>23 DEF Next

-----------------------------------------------------------------------------

\* The copy lacks experts in one tensor at most.
OneLost == 1 \in Files => \A t, u \in Lost(1) : t = u

\* A tensor in its natural order, or in one of optimize's, has every expert.
LEMMA ShuffledNotLost ==
  ASSUME NEW f \in Files, NEW t \in Tensors, data[f].of[t] \in Shuffles
  PROVE  t \notin Lost(f)
  BY DEF Lost, Shuffles

\* Every step keeps that: a rewrite begins when all tensors are in order, the next
\* one when that one is done, and after a kill optimize starts from the original.
LEMMA OneLostNext ==
  ASSUME SessionTyped, Working, LayoutKnown, LayoutKnown', OneLost, [Next]_vars
  PROVE  OneLost'
<1> SUFFICES ASSUME 1 \in Files PROVE \A t, u \in Lost(1)' : t = u
  BY DEF OneLost
<1> USE DEF diskVars, jobVars, orderVars, runVars
<1>0. 0 \in Files /\ \A f \in Files : f \in Nat /\ (f + 1 = 1 <=> f = 0)
  BY SessionAssumption
<1>1. ASSUME data'[1] = data[1]
      PROVE  \A t, u \in Lost(1)' : t = u
  BY <1>1 DEF OneLost, Lost
<1>2. ASSUME data'[1].of = InOrder
      PROVE  \A t, u \in Lost(1)' : t = u
  <2>1. \A t \in Tensors : {data'[1].of[t][i] : i \in Experts} = Experts
    BY <1>2, StartValues DEF InOrder, Shuffles
  <2> QED
    BY <2>1 DEF Lost
<1>3. ASSUME NEW f \in Files, Optimize(f)
      PROVE  \A t, u \in Lost(1)' : t = u
  <2>1. data' = [data EXCEPT ![f + 1] = Torn(InOrder)] /\ f + 1 \in Files
    BY <1>3 DEF Optimize
  <2>2. CASE f = 0
    BY <1>0, <1>2, <2>1, <2>2 DEF SessionTyped, Torn
  <2>3. CASE f # 0
    <3> DEFINE new == Torn(InOrder)
    <3>1. data' = [data EXCEPT ![f + 1] = new] /\ 1 # f + 1
      BY <1>0, <2>1, <2>3
    <3> HIDE DEF new
    <3> QED BY <1>1, <3>1 DEF SessionTyped
  <2> QED
    BY <2>2, <2>3
<1>4. CASE Copied
  <2>1. data' = [data EXCEPT ![file + 1] = data[file]] /\ file \in Files /\ file + 1 \in Files
    BY <1>4 DEF Copied, Working, SessionTyped
  <2>2. CASE file = 0
    <3>1. data[0] = Whole(InOrder) /\ data'[1] = data[0]
      BY <1>0, <2>1, <2>2 DEF SessionTyped, LayoutKnown
    <3>2. data'[1].of = InOrder
      BY <3>1 DEF Whole
    <3> QED
      BY <1>2, <3>2
  <2>3. CASE file # 0
    BY <1>0, <1>1, <2>1, <2>3 DEF SessionTyped
  <2> QED
    BY <2>2, <2>3
<1>5. CASE BeginReorder \/ EndReorder
  <2> DEFINE n == next + 1
  <2>1. PICK w \in Layouts : data' = [data EXCEPT ![file + 1] = [data[file + 1] EXCEPT !.of[Fused[n]] = w]]
    BY <1>5, WritingFacts
  <2>2. n \in 1 .. Len(Fused) /\ file \in Files /\ file + 1 \in Files
    BY <1>5, WritingFacts
  <2>3. CASE file # 0
    <3> DEFINE new == [data[file + 1] EXCEPT !.of[Fused[n]] = w]
    <3>1. data' = [data EXCEPT ![file + 1] = new] /\ 1 # file + 1
      BY <1>0, <2>1, <2>2, <2>3
    <3> HIDE DEF new
    <3> QED BY <1>1, <3>1 DEF SessionTyped
  <2>4. CASE file = 0
    <3>1. step' \in {"reorder", "writing tensor"} /\ (step' = "writing tensor" => next' = next) /\ file' = 0
      BY <1>5, <2>4 DEF BeginReorder, EndReorder
    <3>2. ASSUME NEW k \in 1 .. Len(Fused), k # n
          PROVE  Fused[k] \notin Lost(1)'
      <4>1. data'[1].of[Fused[k]] = IF k <= next' THEN order'[Fused[k][1]] ELSE Natural
        BY <3>1, <3>2 DEF LayoutKnown
      <4>2. order' \in LayerOrders
        BY <1>5 DEF BeginReorder, EndReorder, SessionTyped
      <4>3. Fused[k] \in Tensors /\ Fused[k][1] \in Layers
        BY TensorFacts
      <4>4. data'[1].of[Fused[k]] \in Shuffles
        BY <4>1, <4>2, <4>3, StartValues DEF LayerOrders
      <4> QED
        BY <4>4 DEF Lost, Shuffles
    <3>3. ASSUME NEW t \in Lost(1)'
          PROVE  t = Fused[n]
      <4>1. t \in Tensors
        BY <3>3 DEF Lost
      <4>2. PICK k \in 1 .. Len(Fused) : Fused[k] = t
        BY <4>1, TensorFacts
      <4> QED
        BY <3>2, <3>3, <4>2
    <3> QED
      BY <3>3
  <2> QED
    BY <2>3, <2>4
<1>6. CASE ~ Copied /\ ~ BeginReorder /\ ~ EndReorder /\ ~ (\E f \in Files : Optimize(f))
  <2>1. data' = data
    <3>1. \A g \in Files : Run(g) => UNCHANGED data
      BY DEF Run
    <3>2. Profile \/ BeginProfile \/ EndProfile \/ Age \/ Load \/ LoadFails \/ Decode \/ Generate
            => UNCHANGED data
      BY DEF Profile, BeginProfile, EndProfile, Age, Load, LoadFails, Decode, Generate
    <3>3. BeginSave \/ EndSave \/ NoSave \/ Full \/ NextLine \/ Quit \/ BeginSidecar \/ EndSidecar \/ Kill
            => UNCHANGED data
      BY DEF BeginSave, EndSave, Dropped, NoSave, Full, NextLine, Quit, BeginSidecar, EndSidecar, Kill
    <3>4. UNCHANGED vars => UNCHANGED data
      BY DEF vars
    <3> QED
      BY <1>6, <3>1, <3>2, <3>3, <3>4, Zenon DEF Next
  <2> QED
    BY <1>1, <2>1
<1> QED
  BY <1>3, <1>4, <1>5, <1>6

-----------------------------------------------------------------------------
(* The generation inside a session. *)

\* Every step of a session is one of the generation, or drops it, or leaves it alone.
LEMMA GenerationStep ==
  ASSUME Working, [Next]_vars
  PROVE  [KvNext]_kvVars \/ KvFree
<1> USE DEF diskVars, jobVars, orderVars, runVars, Exit
<1>1. CASE Profile
  BY <1>1 DEF Profile
<1>2. CASE BeginProfile
  BY <1>2 DEF BeginProfile
<1>3. CASE EndProfile
  BY <1>3 DEF EndProfile
<1>4. CASE Age
  BY <1>4 DEF Age
<1>5. ASSUME NEW f \in Files, Run(f)
      PROVE  kvVars' = kvVars
  BY <1>5 DEF Run
<1>6. ASSUME NEW f \in Files, Optimize(f)
      PROVE  kvVars' = kvVars
  BY <1>6 DEF Optimize
<1>7. CASE Load
  BY <1>7 DEF Load, KvNext
<1>8. CASE LoadFails
  BY <1>8 DEF LoadFails
<1>9. CASE Decode
  BY <1>9 DEF Decode, KvNext
<1>10. CASE Generate
  BY <1>10 DEF Generate, KvNext
<1>11. CASE BeginSave
  BY <1>11 DEF BeginSave
<1>12. CASE EndSave
  BY <1>12 DEF EndSave, Dropped
<1>13. CASE NoSave
  BY <1>13 DEF NoSave, Dropped
<1>14. CASE Full
  BY <1>14 DEF Full
<1>15. CASE NextLine
  BY <1>15 DEF NextLine
<1>16. CASE Quit
  BY <1>16 DEF Quit
<1>17. CASE Copied
  BY <1>17 DEF Copied
<1>18. CASE BeginReorder
  BY <1>18 DEF BeginReorder
<1>23. CASE EndReorder
  BY <1>23 DEF EndReorder
<1>19. CASE BeginSidecar
  BY <1>19 DEF BeginSidecar
<1>20. CASE EndSidecar
  BY <1>20 DEF EndSidecar
<1>21. CASE Kill
  BY <1>21 DEF Kill
<1>22. CASE UNCHANGED vars
  BY <1>22 DEF vars
<1> QED
  BY <1>1, <1>2, <1>3, <1>4, <1>5, <1>6, <1>7, <1>8, <1>9, <1>10, <1>11, <1>12, <1>13,
     <1>14, <1>15, <1>16, <1>17, <1>18, <1>19, <1>20, <1>21, <1>22, <1>23 DEF Next

\* A generation may be dropped at any point.
LEMMA FreeKeepsKvInv ==
  ASSUME KvFree
  PROVE  KvInv'
  BY KvAssumption, SMT
     DEF KvFree, KvInv, KvTypeOK, CountAgrees, SinceBounds, WindowKept, FullOnlyBeyond, Cells, Longer

-----------------------------------------------------------------------------
(* The theorems. *)

SessionInv == SessionTyped /\ Working /\ CountsKept /\ KvInv

\* Every reachable state of a session, whatever is killed and when, satisfies the
\* invariant.
THEOREM SessionInvariant == Spec => []SessionInv
<1>1. Init => SessionInv
  BY TypedInit, WorkingInit, CountsInit, KvInvInit DEF Init, SessionInv
<1>2. SessionInv /\ [Next]_vars => SessionInv'
  <2> SUFFICES ASSUME SessionInv, [Next]_vars PROVE SessionInv'
    OBVIOUS
  <2>1. KvInv'
    BY GenerationStep, FreeKeepsKvInv, KvInvNext DEF SessionInv
  <2> QED
    BY <2>1, TypedNext, WorkingNext, CountsNext DEF SessionInv
<1> QED
  BY <1>1, <1>2, PTL DEF Spec

\* No generation is planned with a profile that is old or half written: cli/run.rs
\* profiles first unless load_cached_profile finds a fresh one.
THEOREM PlansOnFreshProfile == Spec => []PlannedOnFreshProfile
<1>1. SessionInv => PlannedOnFreshProfile
  BY DEF SessionInv, Working, PlannedOnFreshProfile
<1> QED
  BY <1>1, SessionInvariant, PTL

\* The counts stay symmetric, in memory and on disk (CoActivationMatrix::record).
THEOREM CountsStaySymmetric == Spec => []SymmetricCounts
<1>1. SessionInv => SymmetricCounts
  BY DEF SessionInv, CountsKept, SymmetricCounts
<1> QED
  BY <1>1, SessionInvariant, PTL

\* What is saved of a file includes all that was saved before, unless a save of it
\* was killed (PrefetchState::drop, CoActivationMatrix::save).
THEOREM HistoryKept == Spec => KeepsHistory
<1> DEFINE Kept1 == \A f \in Files \ cutSaves : Extends(counts'[f].of, counts[f].of)
<1>1. ASSUME SessionInv, [Next]_vars, NEW f \in Files \ cutSaves
      PROVE  Extends(counts'[f].of, counts[f].of)
  <2> USE DEF diskVars, Exit
  <2>1. ASSUME counts'[f].of = counts[f].of
        PROVE  Extends(counts'[f].of, counts[f].of)
    <3>1. counts[f].of \in Matrices
      BY <1>1, FileValues DEF SessionInv, SessionTyped
    <3> QED
      BY <2>1, <3>1, GrownReflexive DEF Grown
  <2>2. CASE BeginSave
    BY <1>1, <2>1, <2>2, BeginSaveFacts DEF SessionInv
  <2>3. CASE EndSave
    <3>1. /\ counts'[file] = Whole(memory.co) /\ step = "saving counts"
          /\ f # file => counts'[f] = counts[f]
      BY <1>1, <2>3 DEF EndSave, SessionInv, SessionTyped
    <3>2. CASE f = file
      <4>1. Extends(memory.co, counts[f].of)
        BY <1>1, <3>1, <3>2 DEF SessionInv, CountsKept
      <4>2. counts'[f].of = memory.co
        <5>1. \A c : Whole(c).of = c
          BY DEF Whole
        <5>2. counts'[f] = Whole(memory.co)
          BY <3>1, <3>2, Zenon
        <5> HIDE DEF Whole
        <5> QED
          BY <5>1, <5>2
      <4> QED
        BY <4>1, <4>2
    <3>3. CASE f # file
      BY <2>1, <3>1, <3>3
    <3> QED
      BY <3>2, <3>3
  <2>4. CASE ~ BeginSave /\ ~ EndSave
    <3>1. \A g \in Files : Run(g) \/ Optimize(g) => UNCHANGED counts
      BY DEF Run, Optimize
    <3>2. Profile \/ BeginProfile \/ EndProfile \/ Age \/ Load \/ LoadFails \/ Decode \/ Generate
            => UNCHANGED counts
      BY DEF Profile, BeginProfile, EndProfile, Age, Load, LoadFails, Decode, Generate
    <3>3. NoSave \/ Full \/ NextLine \/ Quit \/ Copied \/ BeginReorder \/ EndReorder \/ BeginSidecar
            \/ EndSidecar \/ Kill => UNCHANGED counts
      BY DEF NoSave, Full, NextLine, Quit, Copied, BeginReorder, EndReorder, BeginSidecar, EndSidecar, Kill
    <3>4. UNCHANGED vars => UNCHANGED counts
      BY DEF vars
    <3>5. UNCHANGED counts
      BY <1>1, <2>4, <3>1, <3>2, <3>3, <3>4, Zenon DEF Next
    <3> QED
      BY <2>1, <3>5
  <2> QED
    BY <2>2, <2>3, <2>4
<1>2. SessionInv /\ [Next]_vars => [Kept1]_vars
  BY <1>1
<1> QED
  BY <1>2, SessionInvariant, PTL DEF Spec, KeepsHistory

\* Inside a session, which may drop a generation at any point and start another,
\* the cache keeps its window and its bounds (KvCacheManager::advance).
THEOREM SessionKeepsWindow == Spec => [](WindowKept /\ CacheBounded /\ FullOnlyBeyond)
<1>1. SessionInv => WindowKept /\ CacheBounded /\ FullOnlyBeyond
  BY KvInvSuffices DEF SessionInv
<1> QED
  BY <1>1, SessionInvariant, PTL

\* Where a position that optimize gave an expert is found again.
LEMMA InverseFinds ==
  ASSUME NEW p \in Shuffles, NEW e \in Experts
  PROVE  p[Inverse(p, Experts, Experts)[e]] = e
<1> DEFINE Found(i) == e \in Range(p) => p[i] = e
<1>1. PICK i \in Experts : p[i] = e
  BY DEF Shuffles
<1>2. e \in Range(p)
  BY <1>1 DEF Range, Shuffles
<1>3. Found(CHOOSE j \in Experts : Found(j))
  BY <1>1, Zenon
<1>4. Inverse(p, Experts, Experts)[e] = CHOOSE j \in Experts : Found(j)
  BY DEF Inverse
<1> QED
  BY <1>2, <1>3, <1>4

\* The layout is known at every step, and so is the damage of a killed rewrite.
LEMMA LayoutHolds == Spec => [](LayoutKnown /\ OneLost)
<1>1. Init => LayoutKnown /\ OneLost
  <2>1. ASSUME Init, 1 \in Files
        PROVE  Lost(1) = {}
    <3>1. data[1].of = InOrder
      BY <2>1 DEF Init, Absent
    <3> QED
      BY <3>1, StartValues DEF Lost, InOrder, Shuffles
  <2> QED
    BY <2>1, LayoutInit DEF OneLost
<1>2. SessionInv /\ LayoutKnown /\ OneLost /\ [Next]_vars => LayoutKnown' /\ OneLost'
  BY LayoutNext, OneLostNext DEF SessionInv
<1> QED
  BY <1>1, <1>2, SessionInvariant, PTL DEF Spec

\* With a downloaded model and its optimized copy, a run on a file that optimize
\* completed, or on the download, finds every expert where the sidecar says, after
\* any history of runs, optimizes and kills.  (With a third file the property is
\* false: optimizing an optimized file loses track of the experts.)
THEOREM FindsExperts ==
  ASSUME Files \subseteq {0, 1}
  PROVE  Spec => []ExpertsFound
<1>3. ASSUME SessionInv, LayoutKnown, step = "generate", file \in optimized \cup {0},
             NEW t \in Tensors, NEW e \in Experts
      PROVE  data[file].of[t][where[t[1]][e]] = e
  <2>1. t[1] \in Layers
    BY TensorFacts
  <2>2. where = LoadedOrder(file)
    BY <1>3 DEF LayoutKnown
  <2>3. CASE file = 0
    <3>1. where = NoOrder /\ data[0].of = InOrder
      BY <1>3, <2>2, <2>3 DEF LayoutKnown, LoadedOrder, Absent, Whole
    <3> QED
      BY <2>1, <2>3, <3>1 DEF InOrder, NoOrder, Natural
  <2>4. CASE file # 0
    <3>1. file = 1 /\ 1 \in optimized
      BY <1>3, <2>4 DEF SessionInv, SessionTyped
    <3>2. sidecar[1].is = "whole" /\ data[1].of[t] = sidecar[1].of[t[1]]
      BY <1>3, <3>1 DEF LayoutKnown
    <3>3. sidecar[1].of \in LayerOrders
      BY <1>3, <3>1, FileValues DEF SessionInv, SessionTyped
    <3>4. sidecar[1].of[t[1]] \in Shuffles
      BY <2>1, <3>3 DEF LayerOrders
    <3>5. where[t[1]] = Inverse(sidecar[1].of[t[1]], Experts, Experts)
      BY <2>1, <2>2, <3>1, <3>2 DEF LoadedOrder
    <3> QED
      BY <3>1, <3>2, <3>4, <3>5, InverseFinds
  <2> QED
    BY <2>3, <2>4
<1>4. SessionInv /\ LayoutKnown => ExpertsFound
  BY <1>3 DEF ExpertsFound
<1> QED
  BY <1>4, SessionInvariant, LayoutHolds, PTL

\* With a downloaded model and its optimized copy, the download and a copy that
\* optimize completed have every expert in every tensor, and a copy that it did not
\* lacks experts in the tensor it was writing at most, wherever it was killed
\* (cli/optimize.rs, the tensors rewritten in place one after the other).
THEOREM ExpertsStay ==
  ASSUME Files \subseteq {0, 1}
  PROVE  Spec => []NoExpertLost
<1>1. ASSUME SessionInv, LayoutKnown, OneLost, NEW f \in Files
      PROVE  IF f \in optimized \cup {0} THEN Lost(f) = {} ELSE \A t, u \in Lost(f) : t = u
  <2>1. CASE f = 0
    <3>1. data[0].of = InOrder
      <4>1. data[0] = Whole(InOrder)
        BY <1>1 DEF LayoutKnown
      <4> QED
        BY <4>1 DEF Whole
    <3>2. \A t \in Tensors : data[0].of[t] \in Shuffles
      BY <3>1, StartValues DEF InOrder
    <3> QED
      BY <2>1, <3>2, ShuffledNotLost DEF Lost
  <2>2. CASE f # 0 /\ f \in optimized
    <3>1. f = 1
      BY <2>2
    <3>2. sidecar[1].of \in LayerOrders
      BY <1>1, <3>1, FileValues DEF SessionInv, SessionTyped
    <3>3. \A t \in Tensors : data[1].of[t] \in Shuffles
      BY <1>1, <2>2, <3>1, <3>2, TensorFacts DEF LayoutKnown, LayerOrders
    <3> QED
      BY <2>2, <3>1, <3>3, ShuffledNotLost DEF Lost
  <2>3. CASE f \notin optimized \cup {0}
    BY <1>1, <2>3 DEF OneLost
  <2> QED
    BY <2>1, <2>2, <2>3
<1>2. SessionInv /\ LayoutKnown /\ OneLost => NoExpertLost
  BY <1>1 DEF NoExpertLost
<1> QED
  BY <1>2, SessionInvariant, LayoutHolds, PTL
=============================================================================
