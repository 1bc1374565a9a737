---------------------------- MODULE CoActivation ----------------------------
(***************************************************************************)
(* The co-activation matrix of src/cache/coactivation.rs and what is made  *)
(* of it: the experts a run starts with (warm_cache_from_coactivation) and *)
(* the order hypura optimize lays experts out in.                          *)
(*                                                                         *)
(* Experts are 0 .. NumExperts-1; a selection is a set, as the router's    *)
(* output is sorted and stripped of duplicates.  Counts are naturals: a    *)
(* u32 takes years of tokens to overflow.                                  *)
(***************************************************************************)
EXTENDS Integers, Sequences, FiniteSets, SequencesExt

CONSTANTS
  Layers,       \* layers with experts
  NumExperts,
  ExpertsUsed,  \* experts the router picks for a token
  Enough        \* has_data: more observations than this in some layer (10)

ASSUME CoActivationAssumption ==
  /\ Layers \subseteq Nat /\ IsFiniteSet(Layers)
  /\ NumExperts \in Nat \ {0} /\ {ExpertsUsed, Enough} \subseteq Nat

Experts == 0 .. (NumExperts - 1)
Pairs == Experts \X Experts

NewMatrix ==
  [layer_counts |-> [l \in Layers |-> [p \in Pairs |-> 0]],
   cross_layer_counts |-> [l \in Layers |-> [p \in Pairs |-> 0]],
   observation_counts |-> [l \in Layers |-> 0]]

Bumped(counts, pairs) == [p \in Pairs |-> counts[p] + IF p \in pairs THEN 1 ELSE 0]

\* record
Record(m, l, ids) ==
  [m EXCEPT !.observation_counts[l] = @ + 1, !.layer_counts[l] = Bumped(@, ids \X ids)]

\* record_cross_layer
RecordCross(m, l, before, ids) == [m EXCEPT !.cross_layer_counts[l] = Bumped(@, before \X ids)]

HasData(m) == \E l \in Layers : m.observation_counts[l] > Enough

\* warm_cache_from_coactivation: the layer's most frequent experts, the lower
\* number first among equals.
WarmSelection(m, l) ==
  LET freq(e) == m.layer_counts[l][<<e, e>>]
      ahead(e) == {f \in Experts : freq(f) > freq(e) \/ (freq(f) = freq(e) /\ f < e)}
  IN IF HasData(m)
     THEN {e \in Experts : freq(e) > 0 /\ Cardinality(ahead(e)) < ExpertsUsed}
     ELSE {}

\* max_by_key: the last of the largest.
Largest(S, key) ==
  CHOOSE e \in S : \A f \in S : key[f] < key[e] \/ (key[f] = key[e] /\ f <= e)

Unvisited(visited) == Experts \ ToSet(visited)

\* compute_optimal_expert_order: start with the most frequent expert, go on with
\* the one left that fires most often with the last: old expert by new position.
ExpertOrder(m, l) ==
  LET counts == m.layer_counts[l]
      order[n \in 1 .. NumExperts] ==
        IF n = 1 THEN <<Largest(Experts, [e \in Experts |-> counts[<<e, e>>]])>>
        ELSE LET visited == order[n - 1]
             IN Append(visited, Largest(Unvisited(visited),
                                        [e \in Experts |-> counts[<<Last(visited), e>>]]))
  IN order[NumExperts]

\* Everything counted in m is counted in n.
Extends(n, m) ==
  \A l \in Layers :
    /\ n.observation_counts[l] >= m.observation_counts[l]
    /\ \A p \in Pairs : /\ n.layer_counts[l][p] >= m.layer_counts[l][p]
                        /\ n.cross_layer_counts[l][p] >= m.cross_layer_counts[l][p]

\* "Per-layer symmetric co-activation counts": two experts fire together as often
\* as the other way round, and never more often than either fires.
Consistent(m) ==
  \A l \in Layers, a \in Experts, b \in Experts :
    LET c == m.layer_counts[l]
    IN /\ c[<<a, b>>] = c[<<b, a>>]
       /\ c[<<a, b>>] <= c[<<a, a>>]
       /\ c[<<a, a>>] <= m.observation_counts[l]
=============================================================================
