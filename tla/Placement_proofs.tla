-------------------------- MODULE Placement_proofs --------------------------
(***************************************************************************)
(* Placement for every model, machine and context.                         *)
(*                                                                         *)
(* Three parts.  What a set of tensors weighs: the bytes of disjoint sets  *)
(* add up, and filling the GPU tensor by tensor keeps to the room there    *)
(* is, by induction on the sequence (Fill is a recursive function).  What  *)
(* each strategy promises of the tiers it assigns: PlanOf.  And what the   *)
(* later stages keep of it: PlacementInv, from which the properties        *)
(* follow by arithmetic.                                                   *)
(***************************************************************************)
EXTENDS Placement, Lists_proofs

-----------------------------------------------------------------------------
(* Sizes. *)

\* The file, the machine and the context are what the constants allow.
Given ==
  /\ model \in ModelType
  /\ machine \in [ram : Nat, vram : Nat]
  /\ context \in Nat

Ffn(S) == {t \in S : Streamable(t)}
Attention(S) == {t \in S : t[2] = "attn"}

\* The fields of a model.
LEMMA Fields ==
  ASSUME Given
  PROVE  /\ model.layers \in Nat /\ model.layers # 0 /\ model.experts \in Nat /\ model.experts # 0
         /\ model.used \in Nat /\ model.embd \in Nat /\ model.embd # 0 /\ model.attn \in Nat
         /\ model.ffn \in Nat /\ model.kv \in Nat /\ model.trained \in Nat
         /\ machine.ram \in Nat /\ machine.vram \in Nat /\ context \in Nat
  BY DEF Given, ModelType

\* What a tensor of the file is.
LEMMA TensorCases ==
  ASSUME NEW t \in Tensors
  PROVE  /\ t = Embedding => t[1] = -1 /\ ~Streamable(t) /\ t[2] # "attn"
         /\ t # Embedding => /\ t \in LayerTensors /\ t[1] \in Layers
                             /\ t[2] \in {"attn", "up", "down"} /\ t = <<t[1], t[2]>>
                             /\ Streamable(t) <=> t[2] # "attn"
  BY DEF Tensors, LayerTensors, Embedding, NoLayer, Streamable

\* The file has finitely many tensors.
LEMMA TensorsFinite ==
  ASSUME Given
  PROVE  /\ IsFiniteSet(Tensors)
         /\ \A S \in SUBSET Tensors : IsFiniteSet(S) /\ Cardinality(S) \in Nat
<1>1. IsFiniteSet(Layers)
  <2>1. 0 \in Int /\ model.layers - 1 \in Int
    BY Fields
  <2> QED
    BY <2>1, FS_Interval DEF Layers
<1>2. IsFiniteSet({"attn", "up", "down"})
  <2>1. IsFiniteSet({"attn"}) /\ {"attn"} \cup {"up"} \cup {"down"} = {"attn", "up", "down"}
    BY FS_Singleton
  <2>2. IsFiniteSet({"attn"} \cup {"up"})
    BY <2>1, FS_AddElement
  <2> QED
    BY <2>1, <2>2, FS_AddElement
<1>3. IsFiniteSet(Layers \X {"attn", "up", "down"})
  BY <1>1, <1>2, FS_Product
<1>4. IsFiniteSet(Tensors)
  <2>1. IsFiniteSet((Layers \X {"attn", "up", "down"}) \cup {Embedding})
    BY <1>3, FS_AddElement
  <2>2. Tensors = (Layers \X {"attn", "up", "down"}) \cup {Embedding}
    BY DEF Tensors
  <2> QED BY <2>1, <2>2
<1> QED
  BY <1>4, FS_Subset, FS_CardinalityType

\* The bytes of a set, kind by kind.
LEMMA BytesByKind ==
  ASSUME Given, NEW S \in SUBSET Tensors
  PROVE  /\ Cardinality(Ffn(S)) \in Nat /\ Cardinality(Attention(S)) \in Nat
         /\ Bytes(S) = (IF Embedding \in S THEN model.embd ELSE 0)
                         + Cardinality(Ffn(S)) * model.ffn + Cardinality(Attention(S)) * model.attn
         /\ Bytes(S) \in Nat
<1> DEFINE E == S \cap {Embedding}
           f == Cardinality(Ffn(S))
           a == Cardinality(Attention(S))
           e == IF Embedding \in S THEN 1 ELSE 0
<1>1. Ffn(S) \in SUBSET Tensors /\ Attention(S) \in SUBSET Tensors /\ E \in SUBSET Tensors
  BY DEF Ffn, Attention
<1>2. f \in Nat /\ a \in Nat /\ IsFiniteSet(Ffn(S)) /\ IsFiniteSet(Attention(S)) /\ IsFiniteSet(E)
  BY <1>1, TensorsFinite
<1>3. Cardinality(E) = e
  <2>1. CASE Embedding \in S
    <3>1. E = {Embedding} BY <2>1
    <3> QED BY <2>1, <3>1, FS_Singleton
  <2>2. CASE Embedding \notin S
    <3>1. E = {} BY <2>2
    <3> QED BY <2>2, <3>1, FS_EmptySet
  <2> QED BY <2>1, <2>2
<1>4. Cardinality(S) = f + a + e
  <2>1. S = (Ffn(S) \cup Attention(S)) \cup E
    BY TensorCases DEF Ffn, Attention
  <2>2. Ffn(S) \cap Attention(S) = {} /\ (Ffn(S) \cup Attention(S)) \cap E = {}
    BY TensorCases DEF Ffn, Attention
  <2>3. /\ IsFiniteSet(Ffn(S) \cup Attention(S))
        /\ Cardinality(Ffn(S) \cup Attention(S)) = f + a - Cardinality({})
    BY <1>2, <2>2, FS_Union
  <2>4. Cardinality((Ffn(S) \cup Attention(S)) \cup E)
          = Cardinality(Ffn(S) \cup Attention(S)) + Cardinality(E) - Cardinality({})
    BY <1>2, <2>2, <2>3, FS_Union
  <2>5. Cardinality({}) = 0
    BY FS_EmptySet
  <2>6. Cardinality(S) = Cardinality((Ffn(S) \cup Attention(S)) \cup E)
    BY <2>1
  <2>7. e \in {0, 1}
    OBVIOUS
  <2> HIDE DEF f, a, e, E
  <2> QED
    BY <1>2, <1>3, <2>3, <2>4, <2>5, <2>6, <2>7
<1>5. Bytes(S) = e * model.embd + f * model.ffn + (Cardinality(S) - f - e) * model.attn
  BY DEF Bytes, Ffn
<1>6. e \in {0, 1} /\ Cardinality(S) - f - e = a
  <2>1. e \in {0, 1}
    OBVIOUS
  <2> HIDE DEF f, a, e
  <2> QED
    BY <1>2, <1>4, <2>1
<1>7. e * model.embd = IF Embedding \in S THEN model.embd ELSE 0
  BY Fields
<1>8. \A m, n \in Nat : m * n \in Nat
  OBVIOUS
<1>9. f * model.ffn \in Nat /\ a * model.attn \in Nat
  <2> HIDE DEF f, a
  <2> QED BY <1>2, <1>8, Fields
<1> HIDE DEF e
<1>10. Bytes(S) = (IF Embedding \in S THEN model.embd ELSE 0) + f * model.ffn + a * model.attn
  <2> HIDE DEF f, a
  <2> QED BY <1>5, <1>6, <1>7
<1>11. Bytes(S) \in Nat
  <2> HIDE DEF f, a
  <2> QED BY <1>9, <1>10, Fields
<1> QED
  BY <1>2, <1>10, <1>11

\* The bytes of two sets with no tensor in common add up.
LEMMA BytesUnion ==
  ASSUME Given, NEW S \in SUBSET Tensors, NEW T \in SUBSET Tensors, S \cap T = {}
  PROVE  Bytes(S \cup T) = Bytes(S) + Bytes(T)
<1> DEFINE f == Cardinality(Ffn(S))  a == Cardinality(Attention(S))
           g == Cardinality(Ffn(T))  b == Cardinality(Attention(T))
           e == IF Embedding \in S THEN model.embd ELSE 0
           d == IF Embedding \in T THEN model.embd ELSE 0
<1>1. Ffn(S \cup T) = Ffn(S) \cup Ffn(T) /\ Ffn(S) \cap Ffn(T) = {}
  BY DEF Ffn
<1>2. Attention(S \cup T) = Attention(S) \cup Attention(T) /\ Attention(S) \cap Attention(T) = {}
  BY DEF Attention
<1>3. /\ Ffn(S) \in SUBSET Tensors /\ Ffn(T) \in SUBSET Tensors
      /\ Attention(S) \in SUBSET Tensors /\ Attention(T) \in SUBSET Tensors
  BY DEF Ffn, Attention
<1>4. /\ f \in Nat /\ g \in Nat /\ a \in Nat /\ b \in Nat
      /\ IsFiniteSet(Ffn(S)) /\ IsFiniteSet(Ffn(T))
      /\ IsFiniteSet(Attention(S)) /\ IsFiniteSet(Attention(T))
  BY <1>3, TensorsFinite
<1>5. Cardinality(Ffn(S \cup T)) = f + g
  <2>1. Cardinality(Ffn(S) \cup Ffn(T)) = f + g - Cardinality({})
    BY <1>1, <1>4, FS_Union
  <2>2. Cardinality({}) = 0 /\ Cardinality(Ffn(S \cup T)) = Cardinality(Ffn(S) \cup Ffn(T))
    BY <1>1, FS_EmptySet
  <2> HIDE DEF f, a, g, b
  <2> QED BY <1>4, <2>1, <2>2
<1>6. Cardinality(Attention(S \cup T)) = a + b
  <2>1. Cardinality(Attention(S) \cup Attention(T)) = a + b - Cardinality({})
    BY <1>2, <1>4, FS_Union
  <2>2. Cardinality({}) = 0 /\ Cardinality(Attention(S \cup T)) = Cardinality(Attention(S) \cup Attention(T))
    BY <1>2, FS_EmptySet
  <2> HIDE DEF f, a, g, b
  <2> QED BY <1>4, <2>1, <2>2
<1>7. (IF Embedding \in S \cup T THEN model.embd ELSE 0) = e + d /\ e \in Nat /\ d \in Nat
  BY Fields
<1>8. S \cup T \in SUBSET Tensors
  OBVIOUS
<1>9. /\ Bytes(S \cup T) = (e + d) + (f + g) * model.ffn + (a + b) * model.attn
      /\ Bytes(S) = e + f * model.ffn + a * model.attn
      /\ Bytes(T) = d + g * model.ffn + b * model.attn
  BY <1>5, <1>6, <1>7, <1>8, BytesByKind
<1> HIDE DEF e, d, f, g, a, b
<1>10. (f + g) * model.ffn = f * model.ffn + g * model.ffn
  BY <1>4, Fields
<1>11. (a + b) * model.attn = a * model.attn + b * model.attn
  BY <1>4, Fields
<1> QED
  BY <1>4, <1>7, <1>9, <1>10, <1>11, Fields

\* Fewer tensors have no more bytes.
LEMMA BytesGrow ==
  ASSUME Given, NEW T \in SUBSET Tensors, NEW S \in SUBSET T
  PROVE  Bytes(S) <= Bytes(T)
<1>1. Bytes(S \cup (T \ S)) = Bytes(S) + Bytes(T \ S) /\ S \cup (T \ S) = T
  BY BytesUnion
<1>2. Bytes(S) \in Nat /\ Bytes(T \ S) \in Nat
  BY BytesByKind
<1>3. Bytes(T) = Bytes(S) + Bytes(T \ S)
  BY <1>1
<1> QED
  BY <1>2, <1>3

\* The bytes of one tensor are its size.
LEMMA BytesOfOne ==
  ASSUME Given, NEW t \in Tensors
  PROVE  /\ Bytes({t}) = SizeOf(t) /\ SizeOf(t) \in Nat /\ Bytes({}) = 0
         /\ t = Embedding => SizeOf(t) = model.embd
<1>1. Ffn({}) = {} /\ Attention({}) = {} /\ Cardinality({}) = 0
  BY FS_EmptySet DEF Ffn, Attention
<1>2. \A x : Cardinality({x}) = 1
  BY FS_Singleton
<1>3. Bytes({}) = 0
  <2>1. Bytes({}) = 0 + Cardinality(Ffn({})) * model.ffn + Cardinality(Attention({})) * model.attn
    BY BytesByKind
  <2>2. Cardinality(Ffn({})) = 0 /\ Cardinality(Attention({})) = 0
    BY <1>1
  <2> QED
    BY <2>1, <2>2, Fields
<1>4. Bytes({t}) = (IF Embedding \in {t} THEN model.embd ELSE 0)
                     + Cardinality(Ffn({t})) * model.ffn + Cardinality(Attention({t})) * model.attn
  BY BytesByKind
<1>5. CASE t = Embedding
  <2>1. Ffn({t}) = {} /\ Attention({t}) = {} /\ Embedding \in {t} /\ SizeOf(t) = model.embd
    BY <1>5, TensorCases DEF Ffn, Attention, SizeOf
  <2>2. Bytes({t}) = model.embd + 0 * model.ffn + 0 * model.attn
    BY <1>1, <1>4, <2>1
  <2> QED
    BY <1>3, <2>1, <2>2, Fields
<1>6. CASE t # Embedding /\ t[2] = "attn"
  <2>1. Ffn({t}) = {} /\ Attention({t}) = {t} /\ Embedding \notin {t} /\ SizeOf(t) = model.attn
    BY <1>6, TensorCases DEF Ffn, Attention, SizeOf
  <2>2. Bytes({t}) = 0 + 0 * model.ffn + 1 * model.attn
    BY <1>1, <1>2, <1>4, <2>1
  <2> QED
    BY <1>3, <2>1, <2>2, Fields
<1>7. CASE t # Embedding /\ t[2] # "attn"
  <2>1. Ffn({t}) = {t} /\ Attention({t}) = {} /\ Embedding \notin {t} /\ SizeOf(t) = model.ffn
    BY <1>7, TensorCases DEF Ffn, Attention, SizeOf
  <2>2. Bytes({t}) = 0 + 1 * model.ffn + 0 * model.attn
    BY <1>1, <1>2, <1>4, <2>1
  <2> QED
    BY <1>3, <2>1, <2>2, Fields
<1> QED
  BY <1>5, <1>6, <1>7

\* The embedding adds its size.
LEMMA WithEmbedding ==
  ASSUME Given, NEW S \in SUBSET Tensors, Embedding \notin S
  PROVE  Bytes(S \cup {Embedding}) = Bytes(S) + model.embd
<1>1. Embedding \in Tensors
  BY DEF Tensors
<1>2. Bytes({Embedding}) = model.embd
  BY <1>1, BytesOfOne
<1>3. {Embedding} \in SUBSET Tensors /\ S \cap {Embedding} = {}
  BY <1>1
<1>4. Bytes(S \cup {Embedding}) = Bytes(S) + Bytes({Embedding})
  BY <1>3, BytesUnion
<1> QED
  BY <1>2, <1>4

-----------------------------------------------------------------------------
(* Filling the GPU. *)

\* The room left while the tensors are placed is well defined.
LEMMA FillRecursion ==
  ASSUME NEW q \in Seq(Tensors), NEW room, NEW need
  PROVE  \E left :
           /\ left = [i \in 0 .. Len(q) |->
                IF i = 0 THEN room
                ELSE IF need[q[i]] <= left[i - 1] THEN Less(left[i - 1], SizeOf(q[i]))
                     ELSE left[i - 1]]
           /\ FillWith(q, room, need) = {q[i] : i \in {k \in DOMAIN q : need[q[k]] <= left[k - 1]}}
<1> DEFINE Step(x, i) == IF need[q[i]] <= x THEN Less(x, SizeOf(q[i])) ELSE x
           Def(g, k) == [i \in 0 .. k |-> IF i = 0 THEN room ELSE Step(g[i - 1], i)]
           S == {k \in Nat : \E g : g = Def(g, k)}
<1>1. 0 \in S
  <2> DEFINE g == [i \in 0 .. 0 |-> room]
  <2>1. g = Def(g, 0)
    OBVIOUS
  <2> QED
    BY <2>1
<1> HIDE DEF Step
<1>2. ASSUME NEW k \in Nat, k \in S
      PROVE  k + 1 \in S
  <2>1. PICK g : g = Def(g, k)
    BY <1>2
  <2> DEFINE x == Step(g[k], k + 1)
             h == [i \in 0 .. k + 1 |-> IF i = k + 1 THEN x ELSE g[i]]
  <2>2. h = Def(h, k + 1)
    <3>1. \A i \in 0 .. k + 1 : i # k + 1 => i \in 0 .. k /\ (i # 0 => i - 1 \in 0 .. k /\ i - 1 # k + 1)
      OBVIOUS
    <3>2. ASSUME NEW i \in 0 .. k + 1, i # k + 1
          PROVE  h[i] = Def(h, k + 1)[i]
      <4>1. h[i] = Def(g, k)[i]
        BY <2>1, <3>1, <3>2
      <4>2. i # 0 => h[i - 1] = g[i - 1]
        BY <3>1, <3>2
      <4> QED
        BY <3>1, <3>2, <4>1, <4>2
    <3>3. h[k] = g[k] /\ h[k + 1] = x /\ k + 1 # 0 /\ (k + 1) - 1 = k /\ k + 1 \in 0 .. k + 1
      OBVIOUS
    <3>4. h[k + 1] = Def(h, k + 1)[k + 1]
      <4> HIDE DEF h
      <4> QED BY <3>3
    <3> QED
      BY <3>2, <3>4
  <2> HIDE DEF Def, h
  <2> QED
    BY <2>2
<1>3. Len(q) \in S
  <2>1. Len(q) \in Nat
    OBVIOUS
  <2> HIDE DEF S
  <2> QED BY <1>1, <1>2, <2>1, Induction
<1>4. \E g : g = Def(g, Len(q))
  BY <1>3
<1> DEFINE f == CHOOSE g : g = Def(g, Len(q))
<1>5. f = Def(f, Len(q))
  BY <1>4
<1>6. FillWith(q, room, need) = {q[i] : i \in {k \in DOMAIN q : need[q[k]] <= f[k - 1]}}
  BY DEF FillWith, Step
<1> QED
  BY <1>5, <1>6 DEF Step

\* What goes to the GPU are tensors of the sequence, and they fit.
LEMMA FillFits ==
  ASSUME Given, NEW S \in SUBSET Tensors, NEW q \in Seq(S), NEW room \in Nat
  PROVE  Fill(q, room) \in SUBSET S /\ Bytes(Fill(q, room)) <= room
<1> DEFINE need == [t \in Tensors |-> SizeOf(t)]
<1>1. q \in Seq(Tensors) /\ Len(q) \in Nat /\ DOMAIN q = 1 .. Len(q)
  OBVIOUS
<1>2. PICK left :
        /\ left = [i \in 0 .. Len(q) |->
             IF i = 0 THEN room
             ELSE IF need[q[i]] <= left[i - 1] THEN Less(left[i - 1], SizeOf(q[i]))
                  ELSE left[i - 1]]
        /\ FillWith(q, room, need) = {q[i] : i \in {k \in DOMAIN q : need[q[k]] <= left[k - 1]}}
  BY <1>1, FillRecursion
<1>3. \A i \in 1 .. Len(q) : q[i] \in S /\ q[i] \in Tensors /\ need[q[i]] = SizeOf(q[i])
                             /\ SizeOf(q[i]) \in Nat
  <2>1. \A i \in 1 .. Len(q) : q[i] \in S /\ q[i] \in Tensors
    BY <1>1
  <2>2. \A t \in Tensors : need[t] = SizeOf(t)
    OBVIOUS
  <2>3. \A t \in Tensors : SizeOf(t) \in Nat
    BY BytesOfOne
  <2> HIDE DEF need
  <2> QED
    BY <2>1, <2>2, <2>3
<1>4. /\ left[0] = room
      /\ \A i \in 0 .. Len(q) : i # 0 =>
           left[i] = IF SizeOf(q[i]) <= left[i - 1] THEN Less(left[i - 1], SizeOf(q[i]))
                     ELSE left[i - 1]
  <2> HIDE DEF need
  <2>1. left[0] = room
    BY <1>1, <1>2
  <2>2. ASSUME NEW i \in 0 .. Len(q), i # 0
        PROVE  left[i] = IF SizeOf(q[i]) <= left[i - 1] THEN Less(left[i - 1], SizeOf(q[i]))
                         ELSE left[i - 1]
    <3>1. need[q[i]] = SizeOf(q[i])
      BY <1>1, <1>3, <2>2
    <3>2. left[i] = IF need[q[i]] <= left[i - 1] THEN Less(left[i - 1], SizeOf(q[i]))
                    ELSE left[i - 1]
      BY <1>2, <2>2
    <3> QED
      BY <3>1, <3>2
  <2> QED
    BY <2>1, <2>2
<1>5. Fill(q, room) = {q[i] : i \in {k \in 1 .. Len(q) : SizeOf(q[k]) <= left[k - 1]}}
  <2>1. Fill(q, room) = {q[i] : i \in {k \in DOMAIN q : need[q[k]] <= left[k - 1]}}
    BY <1>2 DEF Fill
  <2> HIDE DEF need
  <2> QED BY <1>1, <1>3, <2>1
<1> DEFINE Chosen(n) == {q[i] : i \in {k \in 1 .. n : SizeOf(q[k]) <= left[k - 1]}}
           P == {n \in Nat : n <= Len(q) => /\ left[n] \in Nat /\ Chosen(n) \in SUBSET S
                                            /\ Bytes(Chosen(n)) + left[n] <= room}
<1>6. 0 \in P
  <2>1. Chosen(0) = {}
    OBVIOUS
  <2>2. Bytes({}) = 0
    <3>1. Embedding \in Tensors BY DEF Tensors
    <3> QED BY <3>1, BytesOfOne
  <2>3. left[0] \in Nat /\ Bytes(Chosen(0)) + left[0] <= room
    <3>1. Bytes(Chosen(0)) = 0
      BY <2>1, <2>2
    <3> HIDE DEF Chosen
    <3> QED BY <1>4, <3>1
  <2> HIDE DEF Chosen
  <2> QED
    BY <2>1, <2>3
<1>7. ASSUME NEW n \in Nat, n \in P
      PROVE  n + 1 \in P
  <2>1. SUFFICES ASSUME n + 1 <= Len(q)
                 PROVE  /\ left[n + 1] \in Nat /\ Chosen(n + 1) \in SUBSET S
                        /\ Bytes(Chosen(n + 1)) + left[n + 1] <= room
    OBVIOUS
  <2>2. n + 1 \in 1 .. Len(q) /\ n + 1 \in 0 .. Len(q) /\ n + 1 # 0 /\ (n + 1) - 1 = n
    BY <2>1, <1>1
  <2>3. left[n] \in Nat /\ Chosen(n) \in SUBSET S /\ Bytes(Chosen(n)) + left[n] <= room
    BY <1>1, <1>7, <2>1
  <2> DEFINE t == q[n + 1]
  <2>4. t \in S /\ t \in Tensors /\ SizeOf(t) \in Nat
    BY <1>3, <2>2
  <2>5. left[n + 1] = IF SizeOf(t) <= left[n] THEN Less(left[n], SizeOf(t)) ELSE left[n]
    BY <1>4, <2>2
  <2>6. Chosen(n + 1) = IF SizeOf(t) <= left[n] THEN Chosen(n) \cup {t} ELSE Chosen(n)
    <3>1. \A k \in 1 .. n + 1 : k \in 1 .. n \/ k = n + 1
      OBVIOUS
    <3>2. 1 .. n \subseteq 1 .. n + 1 /\ n + 1 \in 1 .. n + 1
      OBVIOUS
    <3> QED
      BY <2>2, <3>1, <3>2
  <2>7. Bytes(Chosen(n)) \in Nat
    BY <2>3, BytesByKind
  <2> HIDE DEF Chosen, t, P
  <2>8. CASE SizeOf(t) <= left[n]
    <3>1. left[n + 1] \in Nat /\ left[n + 1] + SizeOf(t) = left[n]
      BY <2>3, <2>4, <2>5, <2>8 DEF Less
    <3>2. Bytes(Chosen(n) \cup {t}) <= Bytes(Chosen(n)) + SizeOf(t)
      <4>1. CASE t \in Chosen(n)
        <5>1. Bytes(Chosen(n) \cup {t}) = Bytes(Chosen(n))
          <6>1. Chosen(n) \cup {t} = Chosen(n)
            BY <4>1
          <6> QED BY <6>1
        <5> QED
          BY <2>4, <2>7, <5>1
      <4>2. CASE t \notin Chosen(n)
        <5>1. Bytes(Chosen(n) \cup {t}) = Bytes(Chosen(n)) + Bytes({t})
          BY <2>3, <2>4, <4>2, BytesUnion
        <5>2. Bytes({t}) = SizeOf(t)
          BY <2>4, BytesOfOne
        <5> QED
          BY <2>4, <2>7, <5>1, <5>2
      <4> QED
        BY <4>1, <4>2
    <3>3. Bytes(Chosen(n + 1)) = Bytes(Chosen(n) \cup {t}) /\ Chosen(n + 1) \in SUBSET S
      BY <2>3, <2>4, <2>6, <2>8
    <3>4. Bytes(Chosen(n) \cup {t}) \in Nat
      <4>1. Chosen(n) \cup {t} \in SUBSET Tensors
        BY <2>3, <2>4
      <4> QED BY <4>1, BytesByKind
    <3> QED
      BY <2>3, <2>4, <2>7, <3>1, <3>2, <3>3, <3>4
  <2>9. CASE ~(SizeOf(t) <= left[n])
    <3>1. left[n + 1] = left[n] /\ Chosen(n + 1) = Chosen(n)
      BY <2>5, <2>6, <2>9
    <3> QED
      BY <2>3, <3>1
  <2> QED
    BY <2>8, <2>9
<1>8. Len(q) \in P
  <2> HIDE DEF P
  <2> QED BY <1>1, <1>6, <1>7, Induction
<1>9. left[Len(q)] \in Nat /\ Chosen(Len(q)) \in SUBSET S /\ Bytes(Chosen(Len(q))) + left[Len(q)] <= room
  BY <1>1, <1>8
<1>10. Bytes(Chosen(Len(q))) \in Nat /\ Fill(q, room) = Chosen(Len(q))
  BY <1>5, <1>9, BytesByKind
<1> HIDE DEF Chosen
<1> QED
  BY <1>9, <1>10

-----------------------------------------------------------------------------
(* The strategies. *)

TierNames == {"gpu", "ram", "nvme"}
TierOf(tr, x) == {t \in Tensors : tr[t] = x}

\* PlanFits of a placement.
TiersFit(tr) ==
  /\ Bytes(TierOf(tr, "gpu")) <= GpuBytes
  /\ Bytes(TierOf(tr, "gpu")) + Bytes(TierOf(tr, "ram")) <= UnifiedLimit

\* The capacities are parts of the machine's memory.
LEMMA Capacities ==
  ASSUME Given
  PROVE  /\ PlanContext \in Nat /\ \A c \in Nat : KvBytes(c) \in Nat
         /\ Headroom \in Nat /\ Usable \in Nat /\ GpuBytes \in Nat /\ UnifiedLimit \in Nat
         /\ GpuBytes > 0 => GpuBytes + 30 + Headroom <= machine.ram
         /\ UnifiedLimit > 0 => UnifiedLimit + 20 + Headroom <= machine.ram
<1>1. \A a, b \in Nat : Less(a, b) \in Nat /\ Least(a, b) \in Nat /\ Most(a, b) \in Nat
  BY DEF Less, Least, Most
<1>2. PlanContext \in Nat
  BY <1>1, Fields DEF PlanContext
<1>3. \A c \in Nat : KvBytes(c) \in Nat
  BY Fields DEF KvBytes
<1>4. Headroom \in Nat
  BY <1>2, <1>3 DEF Headroom
<1>5. Usable \in Nat /\ (Usable > 0 => Usable + 20 = machine.ram)
  BY Fields DEF Usable, Less, OS_OVERHEAD
<1> DEFINE least == Least(machine.vram, Usable)
<1>6. least \in Nat /\ least <= Usable
  BY <1>5, Fields DEF Least
<1> HIDE DEF least
<1>7. GpuBytes = Less(Less(least, Headroom), 10)
  BY DEF GpuBytes, least, GPU_RUNTIME_OVERHEAD
<1>8. GpuBytes \in Nat /\ (GpuBytes > 0 => GpuBytes + 10 + Headroom = least)
  BY <1>4, <1>6, <1>7 DEF Less
<1>9. UnifiedLimit \in Nat /\ (UnifiedLimit > 0 => UnifiedLimit + Headroom = Usable)
  BY <1>4, <1>5 DEF UnifiedLimit, Less
<1>10. GpuBytes > 0 => GpuBytes + 30 + Headroom <= machine.ram
  BY <1>4, <1>5, <1>6, <1>8, Fields
<1>11. UnifiedLimit > 0 => UnifiedLimit + 20 + Headroom <= machine.ram
  BY <1>4, <1>5, <1>9, Fields
<1> QED
  BY <1>2, <1>3, <1>4, <1>5, <1>8, <1>9, <1>10, <1>11

\* The tiers of a split.
LEMMA SplitTiers ==
  ASSUME NEW resident \in SUBSET Tensors, NEW gpu \in SUBSET resident
  PROVE  LET tr == Split(resident, gpu)
         IN /\ tr \in [Tensors -> TierNames]
            /\ TierOf(tr, "gpu") = gpu /\ TierOf(tr, "ram") = resident \ gpu
            /\ TierOf(tr, "nvme") = Tensors \ resident
  BY DEF Split, TierOf, TierNames

\* A split fits if the GPU's part and the whole resident part do.
LEMMA SplitFits ==
  ASSUME Given, NEW resident \in SUBSET Tensors, NEW gpu \in SUBSET resident,
         Bytes(gpu) <= GpuBytes, Bytes(resident) <= UnifiedLimit
  PROVE  TiersFit(Split(resident, gpu))
<1>1. Bytes(gpu \cup (resident \ gpu)) = Bytes(gpu) + Bytes(resident \ gpu)
  BY BytesUnion
<1>2. Bytes(resident) = Bytes(gpu) + Bytes(resident \ gpu)
  <2>1. gpu \cup (resident \ gpu) = resident
    OBVIOUS
  <2> QED BY <1>1, <2>1
<1>3. Bytes(TierOf(Split(resident, gpu), "gpu")) = Bytes(gpu)
  BY SplitTiers
<1>4. Bytes(TierOf(Split(resident, gpu), "ram")) = Bytes(resident \ gpu)
  BY SplitTiers
<1> QED
  BY <1>2, <1>3, <1>4 DEF TiersFit

\* The streaming modes put all but the streamable tensors in memory.
LEMMA StreamingPlan ==
  ASSUME Given, Bytes(Resident) <= UnifiedLimit
  PROVE  /\ StreamingTiers \in [Tensors -> TierNames]
         /\ TiersFit(StreamingTiers)
         /\ TierOf(StreamingTiers, "nvme") = {t \in Tensors : Streamable(t)}
<1> DEFINE attn == [i \in 1 .. model.layers |-> <<i - 1, "attn">>]
<1>1. Resident \in SUBSET Tensors /\ Embedding \in Resident
  BY DEF Resident, Tensors, Embedding, Streamable
<1>2. attn \in Seq(Resident)
  <2>1. \A i \in 1 .. model.layers : <<i - 1, "attn">> \in Resident
    <3> SUFFICES ASSUME NEW i \in 1 .. model.layers
                 PROVE  <<i - 1, "attn">> \in Resident
      OBVIOUS
    <3>1. i - 1 \in Layers
      BY Fields DEF Layers
    <3> QED
      BY <3>1 DEF Resident, Tensors, Streamable
  <2>2. model.layers \in Nat
    BY Fields
  <2> QED
    BY <2>1, <2>2
<1>3. StreamingOrder \in Seq(Resident)
  <2>1. StreamingOrder \in {Append(attn, Embedding), <<Embedding>> \o attn}
    BY DEF StreamingOrder
  <2>2. <<Embedding>> \in Seq(Resident)
    BY <1>1
  <2> HIDE DEF attn
  <2>3. Append(attn, Embedding) \in Seq(Resident) /\ <<Embedding>> \o attn \in Seq(Resident)
    BY <1>1, <1>2, <2>2
  <2> QED
    BY <2>1, <2>3
<1>4. GpuBytes \in Nat
  BY Capacities
<1>5. Fill(StreamingOrder, GpuBytes) \in SUBSET Resident /\ Bytes(Fill(StreamingOrder, GpuBytes)) <= GpuBytes
  BY <1>1, <1>3, <1>4, FillFits
<1>6. TiersFit(StreamingTiers)
  BY <1>1, <1>5, SplitFits DEF StreamingTiers
<1>7. StreamingTiers \in [Tensors -> TierNames] /\ TierOf(StreamingTiers, "nvme") = Tensors \ Resident
  BY <1>1, <1>5, SplitTiers DEF StreamingTiers
<1> QED
  BY <1>6, <1>7 DEF Resident

\* What the solver may return.
LEMMA LpPlan ==
  ASSUME Given, NEW R \in LpResident, NEW G \in LpOnGpu(R), LpFits(R, G)
  PROVE  /\ Split(R, G) \in [Tensors -> TierNames]
         /\ TiersFit(Split(R, G))
<1>1. PICK c \in 0 .. model.layers, E \in {{}, {Embedding}} : R = {t \in LayerTensors : t[1] < c} \cup E
  BY DEF LpResident
<1>2. R \in SUBSET Tensors
  BY <1>1 DEF LayerTensors, Tensors
<1>3. G \in SUBSET R
  BY DEF LpOnGpu
<1>4. TiersFit(Split(R, G))
  BY <1>2, <1>3, SplitFits DEF LpFits
<1>5. Split(R, G) \in [Tensors -> TierNames]
  BY <1>2, <1>3, SplitTiers
<1> QED
  BY <1>4, <1>5

\* What the greedy search may return.
LEMMA GreedyPlan ==
  ASSUME Given, NEW tr \in GreedyTiers
  PROVE  tr \in [Tensors -> TierNames] /\ TiersFit(tr)
<1> DEFINE gpuLeft == GpuBytes - (IF GreedyEmbedding = "gpu" THEN model.embd ELSE 0)
           unifiedLeft == UnifiedLimit - (IF GreedyEmbedding = "nvme" THEN 0 ELSE model.embd)
           Below(k) == {t \in LayerTensors : t[1] < k}
           Order(k) == [i \in 1 .. (3 * k) |-> <<(i - 1) \div 3, LayerOrder[((i - 1) % 3) + 1]>>]
<1>1. PICK c \in 0 .. model.layers :
        /\ Bytes(Below(c)) <= unifiedLeft
        /\ tr = [Split(Below(c), Fill(Order(c), gpuLeft)) EXCEPT ![Embedding] = GreedyEmbedding]
  BY DEF GreedyTiers
<1>2. /\ GreedyEmbedding \in TierNames
      /\ gpuLeft \in Nat /\ unifiedLeft \in Nat
  <2>1. GpuBytes \in Nat /\ UnifiedLimit \in Nat /\ model.embd \in Nat
    BY Capacities, Fields
  <2>2. GreedyEmbedding = "gpu" => model.embd <= GpuBytes
    BY DEF GreedyEmbedding
  <2>3. GreedyEmbedding # "nvme" => model.embd <= UnifiedLimit
    BY <2>1 DEF GreedyEmbedding
  <2> QED
    BY <2>1, <2>2, <2>3 DEF GreedyEmbedding, TierNames
<1> DEFINE R == Below(c)
           G == Fill(Order(c), gpuLeft)
<1>3. R \in SUBSET Tensors /\ Embedding \notin R /\ R \in SUBSET LayerTensors
  BY DEF LayerTensors
<1>4. Order(c) \in Seq(R)
  <2>1. \A i \in 1 .. 3 * c : <<(i - 1) \div 3, LayerOrder[((i - 1) % 3) + 1]>> \in R
    <3> SUFFICES ASSUME NEW i \in 1 .. 3 * c
                 PROVE  <<(i - 1) \div 3, LayerOrder[((i - 1) % 3) + 1]>> \in R
      OBVIOUS
    <3> DEFINE l == (i - 1) \div 3
               k == ((i - 1) % 3) + 1
    <3>1. c \in Nat /\ c <= model.layers
      BY Fields
    <3>2. l \in Nat /\ l < c /\ k \in 1 .. 3
      BY <3>1
    <3> HIDE DEF l, k
    <3>3. l \in Layers
      BY <3>1, <3>2, Fields DEF Layers
    <3>4. LayerOrder[k] \in {"attn", "up", "down"}
      BY <3>2 DEF LayerOrder
    <3>5. <<l, LayerOrder[k]>> \in LayerTensors /\ <<l, LayerOrder[k]>>[1] = l
      BY <3>3, <3>4 DEF LayerTensors, Tensors, Embedding
    <3>6. <<l, LayerOrder[k]>> \in R
      BY <3>2, <3>5
    <3> QED
      BY <3>6 DEF l, k
  <2>2. 3 * c \in Nat
    BY Fields
  <2> HIDE DEF R
  <2> QED
    BY <2>1, <2>2
<1> HIDE DEF gpuLeft, unifiedLeft, Below, Order, R
<1>5. G \in SUBSET R /\ Bytes(G) <= gpuLeft
  BY <1>2, <1>3, <1>4, FillFits
<1>6. Bytes(R) <= unifiedLeft
  BY <1>1 DEF R
<1> HIDE DEF G
<1>7. tr = [Split(R, G) EXCEPT ![Embedding] = GreedyEmbedding]
  BY <1>1 DEF R, G
<1>8. /\ tr \in [Tensors -> TierNames]
      /\ TierOf(tr, "gpu") = IF GreedyEmbedding = "gpu" THEN G \cup {Embedding} ELSE G
      /\ TierOf(tr, "ram") = IF GreedyEmbedding = "ram" THEN (R \ G) \cup {Embedding} ELSE R \ G
  <2>1. Embedding \in Tensors
    BY DEF Tensors
  <2>2. \A t \in Tensors : tr[t] = IF t = Embedding THEN GreedyEmbedding
                                   ELSE IF t \in G THEN "gpu" ELSE IF t \in R THEN "ram" ELSE "nvme"
    BY <1>7 DEF Split
  <2>3. tr \in [Tensors -> TierNames]
    BY <1>2, <1>7 DEF Split, TierNames
  <2> QED
    BY <1>3, <1>5, <2>1, <2>2, <2>3 DEF TierOf
<1>9. Bytes(R) = Bytes(G) + Bytes(R \ G) /\ Bytes(G) \in Nat /\ Bytes(R \ G) \in Nat
  <2>1. Bytes(G \cup (R \ G)) = Bytes(G) + Bytes(R \ G) /\ G \cup (R \ G) = R
    BY <1>3, <1>5, BytesUnion
  <2> QED
    BY <1>3, <1>5, <2>1, BytesByKind
<1>10. Bytes(G \cup {Embedding}) = Bytes(G) + model.embd
  <2>1. G \in SUBSET Tensors /\ Embedding \notin G
    BY <1>3, <1>5
  <2> QED
    BY <2>1, WithEmbedding
<1>11. Bytes((R \ G) \cup {Embedding}) = Bytes(R \ G) + model.embd
  <2>1. R \ G \in SUBSET Tensors /\ Embedding \notin R \ G
    BY <1>3
  <2> QED
    BY <2>1, WithEmbedding
<1>12. TiersFit(tr)
  <2>1. GpuBytes \in Nat /\ UnifiedLimit \in Nat /\ model.embd \in Nat
    BY Capacities, Fields
  <2>2. CASE GreedyEmbedding = "gpu"
    <3>1. gpuLeft = GpuBytes - model.embd /\ unifiedLeft = UnifiedLimit - model.embd
      BY <2>2 DEF gpuLeft, unifiedLeft
    <3>2. Bytes(TierOf(tr, "gpu")) = Bytes(G) + model.embd /\ Bytes(TierOf(tr, "ram")) = Bytes(R \ G)
      BY <1>8, <1>10, <2>2
    <3> QED
      BY <1>5, <1>6, <1>9, <2>1, <3>1, <3>2 DEF TiersFit
  <2>3. CASE GreedyEmbedding = "ram"
    <3>1. gpuLeft = GpuBytes /\ unifiedLeft = UnifiedLimit - model.embd
      BY <2>1, <2>3 DEF gpuLeft, unifiedLeft
    <3>2. Bytes(TierOf(tr, "gpu")) = Bytes(G) /\ Bytes(TierOf(tr, "ram")) = Bytes(R \ G) + model.embd
      BY <1>8, <1>11, <2>3
    <3> QED
      BY <1>5, <1>6, <1>9, <2>1, <3>1, <3>2 DEF TiersFit
  <2>4. CASE GreedyEmbedding = "nvme"
    <3>1. gpuLeft = GpuBytes /\ unifiedLeft = UnifiedLimit
      BY <2>1, <2>4 DEF gpuLeft, unifiedLeft
    <3>2. Bytes(TierOf(tr, "gpu")) = Bytes(G) /\ Bytes(TierOf(tr, "ram")) = Bytes(R \ G)
      BY <1>8, <2>4
    <3> QED
      BY <1>5, <1>6, <1>9, <2>1, <3>1, <3>2 DEF TiersFit
  <2> QED
    BY <1>2, <2>2, <2>3, <2>4 DEF TierNames
<1> QED
  BY <1>8, <1>12

-----------------------------------------------------------------------------
(* The invariant. *)

Modes == {"SparseMoeMmap", "ExpertStreaming", "DenseFfnStreaming", "FullStreaming", "FullResident"}
NothingCommitted == [residency |-> "none", slots |-> 0, lookahead |-> 0, residents |-> 0]

\* What a placement of mode md promises of the tiers it assigns.
PlanOf(md, tr) ==
  /\ md \in Modes
  /\ tr \in [Tensors -> TierNames]
  /\ md # "SparseMoeMmap" => TiersFit(tr)
  /\ md \in {"SparseMoeMmap", "FullResident"} => TierOf(tr, "nvme") = {}
  /\ md \in {"ExpertStreaming", "DenseFfnStreaming"} =>
       TierOf(tr, "nvme") = {t \in Tensors : Streamable(t)}
  /\ md = "DenseFfnStreaming" => DenseStreamingApplies

Planned == IF stage = "new" THEN mode = "none" ELSE PlanOf(mode, tier)

Offloaded == stage \in {"offloaded", "loaded"} => ngl = GpuLayers

\* The streaming load's pool and resident layers, or none of them.
Loaded ==
  IF stage # "loaded" THEN memory = NothingCommitted /\ overrides = {}
  ELSE /\ overrides = IF HasNvme THEN OverridePatterns ELSE {}
       /\ memory.residency = "pool" =>
            /\ memory.slots = PoolSlots
            /\ memory.residents = IF ActivateResidents THEN NumResident ELSE 0

PlacementInv == Given /\ Planned /\ Offloaded /\ Loaded

\* The file, the machine and the context do not change, so their sizes do not.
LEMMA SameSizes ==
  ASSUME UNCHANGED <<model, machine, context>>, NEW tr, NEW md, NEW x
  PROVE  /\ Given' <=> Given
         /\ PlanOf(md, tr)' <=> PlanOf(md, tr)
  BY SMTT(30)
     DEF Given, ModelType, PlanOf, Modes, TierNames, TierOf, Tensors, LayerTensors, Layers, Embedding,
         NoLayer, Streamable, TiersFit, Bytes, GpuBytes, UnifiedLimit, Headroom, Usable,
         KvBytes, PlanContext, DenseStreamingApplies, StreamingApplies, IsMoe, Resident

\* What was placed stays where it is, and so does what follows from it.
LEMMA SamePlan ==
  ASSUME UNCHANGED <<model, machine, context, mode, tier>>
  PROVE  /\ GpuLayers' = GpuLayers
         /\ HasNvme' <=> HasNvme
         /\ ngl' = ngl => OverridePatterns' = OverridePatterns
         /\ PoolSlots' = PoolSlots /\ NumResident' = NumResident
         /\ ActivateResidents' <=> ActivateResidents
<1>1. /\ Tensors' = Tensors /\ LayerTensors' = LayerTensors /\ OfTier("nvme")' = OfTier("nvme")
      /\ GpuBytes' = GpuBytes /\ Headroom' = Headroom /\ (IsMoe' <=> IsMoe)
      /\ \A c : KvBytes(c)' = KvBytes(c)
  BY SMT DEF OfTier, Tensors, LayerTensors, Layers, Embedding, NoLayer, GpuBytes, Headroom, Usable, KvBytes,
             PlanContext, IsMoe
<1>2. GpuLayers' = GpuLayers
  BY SMT DEF GpuLayers, FromNvme, FromCapacity, CountedOfLayer, Counted, Streaming, GpuBudget, Bytes, Tensors,
             LayerTensors, Layers, Embedding, NoLayer, Streamable, KvBytes
<1>3. OnGpuBytes' = OnGpuBytes
  BY SMT DEF OnGpuBytes, BufferBytes, OfTier, Bytes, Tensors, LayerTensors, Layers, Embedding, NoLayer, Streamable
<1>4. KvCacheBytes' = KvCacheBytes
  BY <1>1, SMT DEF KvCacheBytes, KvQ8, KvBytes
<1>5. \A p : Available(p)' = Available(p)
  BY <1>3, <1>4, SMT DEF Available, BaseCommitted
<1>6. PoolSlots' = PoolSlots
  BY <1>1, <1>5, SMT DEF PoolSlots
<1>7. NumResident' = NumResident
  BY <1>5, <1>6, SMT DEF NumResident, PerLayerFfn
<1>8. ActivateResidents' <=> ActivateResidents
  BY <1>1, <1>5, <1>6, <1>7, SMT DEF ActivateResidents
<1>9. ngl' = ngl => OverridePatterns' = OverridePatterns
  BY <1>1, SMT DEF OverridePatterns, Streaming
<1> QED
  BY <1>1, <1>2, <1>6, <1>7, <1>8, <1>9 DEF HasNvme

\* Every model starts unplaced.
LEMMA PlacementInit == Init => PlacementInv
<1> SUFFICES ASSUME Init PROVE PlacementInv
  OBVIOUS
<1>1. Given
  <2>1. PICK d \in Deployments : model = d.model /\ machine = [ram |-> d.ram, vram |-> d.vram]
    BY DEF Init
  <2>2. model \in ModelType
    BY <2>1, PlacementAssumption
  <2>3. d.ram \in Nat /\ d.vram \in Nat
    BY <2>1, PlacementAssumption
  <2>4. context \in Nat
    <3>1. \A c \in Contexts : c \in Nat
      BY PlacementAssumption, Zenon
    <3>2. context = 0 \/ context \in Contexts
      BY DEF Init
    <3>3. 0 \in Nat
      OBVIOUS
    <3> QED
      BY <3>1, <3>2, <3>3, Zenon
  <2> QED
    BY <2>1, <2>2, <2>3, <2>4 DEF Given
<1>2. stage = "new" /\ mode = "none" /\ memory = NothingCommitted /\ overrides = {}
  BY DEF Init, NothingCommitted
<1> QED
  BY <1>1, <1>2 DEF PlacementInv, Planned, Offloaded, Loaded

\* A placement that keeps its promise keeps the invariant.
LEMMA PlacedKeeps ==
  ASSUME PlacementInv, NEW md, NEW tr, Placed(md, tr), PlanOf(md, tr)
  PROVE  PlacementInv'
<1>1. UNCHANGED <<model, machine, context, overrides, memory>> /\ mode' = md /\ tier' = tr
      /\ stage = "new" /\ stage' = "placed"
  BY DEF Placed
<1>2. Given'
  BY <1>1, SameSizes DEF PlacementInv
<1>3. Planned'
  BY <1>1, SameSizes DEF Planned
<1>4. Offloaded' /\ Loaded'
  BY <1>1 DEF PlacementInv, Offloaded, Loaded, NothingCommitted
<1> QED
  BY <1>2, <1>3, <1>4 DEF PlacementInv

\* Every step keeps it.
LEMMA PlacementNext == PlacementInv /\ [Next]_vars => PlacementInv'
<1> SUFFICES ASSUME PlacementInv, [Next]_vars PROVE PlacementInv'
  OBVIOUS
<1>1. Given
  BY DEF PlacementInv
<1>2. CASE PlaceSparseMoe
  <2> DEFINE tr == [t \in Tensors |-> "gpu"]
  <2>1. TierOf(tr, "nvme") = {} /\ tr \in [Tensors -> TierNames]
    BY DEF TierOf, TierNames
  <2>2. PlanOf("SparseMoeMmap", tr)
    BY <2>1 DEF PlanOf, Modes
  <2>3. Placed("SparseMoeMmap", tr)
    BY <1>2 DEF PlaceSparseMoe
  <2> QED
    BY <2>2, <2>3, PlacedKeeps
<1>3. CASE PlaceExperts
  <2>1. Bytes(Resident) <= UnifiedLimit
    BY <1>3 DEF PlaceExperts, ExpertStreamingApplies, StreamingApplies
  <2>2. PlanOf("ExpertStreaming", StreamingTiers)
    BY <1>1, <2>1, StreamingPlan DEF PlanOf, Modes
  <2>3. Placed("ExpertStreaming", StreamingTiers)
    BY <1>3 DEF PlaceExperts
  <2> QED
    BY <2>2, <2>3, PlacedKeeps
<1>4. CASE PlaceDense
  <2>1. Bytes(Resident) <= UnifiedLimit /\ DenseStreamingApplies
    BY <1>4 DEF PlaceDense, DenseStreamingApplies, StreamingApplies
  <2>2. PlanOf("DenseFfnStreaming", StreamingTiers)
    BY <1>1, <2>1, StreamingPlan DEF PlanOf, Modes
  <2>3. Placed("DenseFfnStreaming", StreamingTiers)
    BY <1>4 DEF PlaceDense
  <2> QED
    BY <2>2, <2>3, PlacedKeeps
<1>5. ASSUME NEW tr, tr \in [Tensors -> TierNames], TiersFit(tr)
      PROVE  PlanOf(SolverMode(tr), tr)
  BY <1>5 DEF PlanOf, SolverMode, Modes, TierOf
<1>6. CASE PlaceLp
  <2>1. PICK R \in LpResident : \E G \in LpOnGpu(R) :
          LpFits(R, G) /\ Placed(SolverMode(Split(R, G)), Split(R, G))
    BY <1>6 DEF PlaceLp
  <2>2. PICK G \in LpOnGpu(R) : LpFits(R, G) /\ Placed(SolverMode(Split(R, G)), Split(R, G))
    BY <2>1
  <2>3. PlanOf(SolverMode(Split(R, G)), Split(R, G))
    BY <1>1, <1>5, <2>2, LpPlan
  <2> QED
    BY <2>2, <2>3, PlacedKeeps
<1>7. CASE PlaceGreedy
  <2>1. PICK tr \in GreedyTiers : Placed(SolverMode(tr), tr)
    BY <1>7 DEF PlaceGreedy
  <2>2. PlanOf(SolverMode(tr), tr)
    BY <1>1, <1>5, GreedyPlan
  <2> QED
    BY <2>1, <2>2, PlacedKeeps
<1>8. ASSUME UNCHANGED <<model, machine, context, mode, tier>>, stage # "new", stage' # "new"
      PROVE  Given' /\ Planned'
  BY <1>8, SameSizes DEF PlacementInv, Planned
<1>9. CASE Offload
  <2>1. Given' /\ Planned'
    BY <1>8, <1>9 DEF Offload
  <2>2. Offloaded'
    BY <1>9, SamePlan DEF Offload, Offloaded
  <2>3. Loaded'
    BY <1>9 DEF Offload, PlacementInv, Loaded, NothingCommitted
  <2> QED
    BY <2>1, <2>2, <2>3 DEF PlacementInv
<1>10. ASSUME stage = "offloaded", stage' = "loaded", UNCHANGED <<model, machine, context, mode, tier, ngl>>
       PROVE  Given' /\ Planned' /\ Offloaded'
  <2>1. Given' /\ Planned'
    BY <1>8, <1>10
  <2>2. Offloaded'
    BY <1>10, SamePlan DEF PlacementInv, Offloaded
  <2> QED
    BY <2>1, <2>2
<1>11. CASE LoadPlain
  <2>1. Given' /\ Planned' /\ Offloaded'
    BY <1>10, <1>11 DEF LoadPlain
  <2>2. Loaded'
    <3>1. stage' = "loaded" /\ ~HasNvme' /\ overrides' = {} /\ memory'.residency # "pool"
      BY <1>11, SamePlan DEF LoadPlain, PlacementInv, Loaded, NothingCommitted
    <3> QED
      BY <3>1 DEF Loaded
  <2> QED
    BY <2>1, <2>2 DEF PlacementInv
<1>12. CASE LoadStandard
  <2>1. Given' /\ Planned' /\ Offloaded'
    BY <1>10, <1>12 DEF LoadStandard
  <2>2. memory'.residency # "pool"
    BY <1>12 DEF LoadStandard, PlacementInv, Loaded, NothingCommitted, Residency
  <2>3. overrides' = OverridePatterns' /\ HasNvme'
    BY <1>12, SamePlan DEF LoadStandard
  <2>4. stage' = "loaded"
    BY <1>12 DEF LoadStandard
  <2>5. Loaded'
    BY <2>2, <2>3, <2>4 DEF Loaded
  <2> QED
    BY <2>1, <2>5 DEF PlacementInv
<1>13. CASE LoadStreaming
  <2>1. Given' /\ Planned' /\ Offloaded'
    BY <1>10, <1>13 DEF LoadStreaming
  <2>2. Streaming /\ mode # "none"
    BY <1>13 DEF LoadStreaming, Streaming
  <2>3. HasNvme
    <3>1. TierOf(tier, "nvme") = {t \in Tensors : Streamable(t)}
      BY <1>13, <2>2 DEF LoadStreaming, PlacementInv, Planned, PlanOf, Streaming
    <3>2. <<0, "up">> \in Tensors /\ Streamable(<<0, "up">>)
      <4>1. 0 \in Layers
        BY <1>1, Fields DEF Layers
      <4> QED
        BY <4>1 DEF Tensors, Streamable
    <3> QED
      BY <3>1, <3>2 DEF HasNvme, OfTier, TierOf
  <2>4. overrides' = OverridePatterns' /\ HasNvme'
    BY <1>13, <2>3, SamePlan DEF LoadStreaming
  <2>5. memory'.slots = PoolSlots' /\ memory'.residents = IF ActivateResidents' THEN NumResident' ELSE 0
    BY <1>13, SamePlan DEF LoadStreaming
  <2>6. Loaded'
    BY <1>13, <2>4, <2>5 DEF LoadStreaming, Loaded
  <2> QED
    BY <2>1, <2>6 DEF PlacementInv
<1>14. CASE UNCHANGED vars
  <2>1. UNCHANGED <<model, machine, context, entry, stage, mode, tier, ngl, overrides, memory>>
    BY <1>14 DEF vars
  <2>2. Given' /\ Planned'
    BY <2>1, SameSizes DEF PlacementInv, Planned
  <2>3. Offloaded'
    BY <2>1, SamePlan DEF PlacementInv, Offloaded
  <2>4. Loaded'
    BY <2>1, SamePlan DEF PlacementInv, Loaded, NothingCommitted
  <2> QED
    BY <2>2, <2>3, <2>4 DEF PlacementInv
<1> QED
  BY <1>2, <1>3, <1>4, <1>6, <1>7, <1>9, <1>11, <1>12, <1>13, <1>14 DEF Next

\* PlacementInv holds in every reachable state.
LEMMA Reachable == Spec => []PlacementInv
  BY PlacementInit, PlacementNext, PTL DEF Spec

-----------------------------------------------------------------------------
(* What follows from it. *)

\* The plan fits the tiers it was made for.
LEMMA InvPlanFits == PlacementInv => PlanFits
<1> SUFFICES ASSUME PlacementInv, mode \notin {"none", "SparseMoeMmap"}
             PROVE  /\ Bytes(OfTier("gpu")) <= GpuBytes
                    /\ Bytes(OfTier("gpu")) + Bytes(OfTier("ram")) <= UnifiedLimit
  BY DEF PlanFits
<1>1. TiersFit(tier)
  BY DEF PlacementInv, Planned, PlanOf
<1> QED
  BY <1>1 DEF TiersFit, TierOf, OfTier

\* The modes that leave tensors on NVMe, once the model is loaded.
LEMMA NvmeModes ==
  ASSUME PlacementInv, stage \in {"offloaded", "loaded"}
  PROVE  /\ Given /\ ngl = GpuLayers /\ mode \in Modes
         /\ Streaming => OfTier("nvme") = {t \in Tensors : Streamable(t)} /\ HasNvme
         /\ HasNvme /\ ~Streaming => mode = "FullStreaming"
<1>1. Given /\ ngl = GpuLayers /\ PlanOf(mode, tier)
  BY DEF PlacementInv, Planned, Offloaded
<1>2. OfTier("nvme") = TierOf(tier, "nvme")
  BY DEF OfTier, TierOf
<1>3. HasNvme /\ ~Streaming => mode = "FullStreaming"
  BY <1>1, <1>2 DEF PlanOf, Modes, HasNvme, Streaming
<1>4. Streaming => OfTier("nvme") = {t \in Tensors : Streamable(t)}
  BY <1>1, <1>2 DEF PlanOf, Streaming
<1>5. <<0, "up">> \in Tensors /\ Streamable(<<0, "up">>)
  <2>1. 0 \in Layers
    BY <1>1, Fields DEF Layers
  <2> QED
    BY <2>1 DEF Tensors, Streamable
<1>6. Streaming => HasNvme
  BY <1>4, <1>5 DEF HasNvme
<1> QED
  BY <1>1, <1>3, <1>4, <1>6 DEF PlanOf

\* A tensor on NVMe that is counted for a layer keeps that layer off Metal.
LEMMA FromNvmeBound ==
  ASSUME Given, NEW t \in Counted, tier[t] = "nvme"
  PROVE  t[1] \in Nat /\ FromNvme \in Nat /\ FromNvme <= t[1] + 1
<1> DEFINE first == {u[1] : u \in {v \in Counted : tier[v] = "nvme"}}
<1>1. \A u \in Counted : u[1] \in Nat
  BY TensorCases, Fields DEF Counted, LayerTensors, Layers
<1>2. first \in SUBSET Nat /\ t[1] \in first
  BY <1>1
<1>3. FromNvme = IF first = {} THEN model.layers + 1 ELSE Min(first) + 1
  BY DEF FromNvme
<1> HIDE DEF first
<1>4. \E n \in first : \A m \in first : n <= m
  BY <1>2, LeastNumber
<1>5. Min(first) \in first /\ \A m \in first : Min(first) <= m
  BY <1>4 DEF Min
<1>6. Min(first) \in Nat /\ Min(first) <= t[1] /\ FromNvme = Min(first) + 1 /\ t[1] \in Nat
  <2>1. Min(first) \in Nat /\ Min(first) <= t[1] /\ t[1] \in Nat
    BY <1>2, <1>5
  <2>2. FromNvme = Min(first) + 1
    BY <1>2, <1>3
  <2> QED
    BY <2>1, <2>2
<1> QED
  BY <1>6

\* The number of layers the capacity allows.
LEMMA FromCapacityFacts ==
  ASSUME Given
  PROVE  FromCapacity \in Nat /\ FromCapacity >= 1
<1> DEFINE K == {l \in Layers : model.embd + (l + 1) * CountedOfLayer <= GpuBudget}
<1>1. IsFiniteSet(Layers)
  <2>1. 0 \in Int /\ model.layers - 1 \in Int
    BY Fields
  <2> QED
    BY <2>1, FS_Interval DEF Layers
<1>2. K \subseteq Layers
  OBVIOUS
<1>3. FromCapacity = 1 + Cardinality(K)
  BY DEF FromCapacity
<1> HIDE DEF K
<1>4. Cardinality(K) \in Nat
  BY <1>1, <1>2, FS_Subset, FS_CardinalityType
<1> QED
  BY <1>3, <1>4

\* What is scheduled for a layer is in the NVMe buffer.
LEMMA InvScheduled == PlacementInv => ScheduledIsOverridden
<1> SUFFICES ASSUME PlacementInv, stage = "loaded", NEW l \in Layers, NEW t \in Schedule[l]
             PROVE  t \in overrides
  BY DEF ScheduledIsOverridden
<1>1. t \in OfTier("nvme") /\ t[1] = l /\ t \in Tensors /\ tier[t] = "nvme" /\ HasNvme
  BY DEF Schedule, OfTier, HasNvme
<1>2. overrides = OverridePatterns
  BY <1>1 DEF PlacementInv, Loaded
<1>3. CASE Streaming
  BY <1>1, <1>2, <1>3 DEF OverridePatterns
<1>4. CASE ~Streaming
  <2>1. mode = "FullStreaming" /\ ngl = GpuLayers /\ Given
    BY <1>1, <1>4, NvmeModes
  <2>2. t \in LayerTensors
    <3>1. l \in Nat /\ t # Embedding
      BY <1>1, <2>1, TensorCases, Fields DEF Layers
    <3> QED
      BY <1>1, <3>1 DEF LayerTensors
  <2>3. t \in Counted
    BY <1>4, <2>2 DEF Counted
  <2>4. t[1] \in Nat /\ FromNvme \in Nat /\ FromNvme <= t[1] + 1
    BY <1>1, <2>1, <2>3, FromNvmeBound
  <2>5. FromCapacity \in Nat
    BY <2>1, FromCapacityFacts
  <2>6. ngl \in Nat /\ ngl <= t[1] + 1
    BY <2>1, <2>4, <2>5 DEF GpuLayers, Least
  <2>7. t[1] >= Less(ngl, 1)
    BY <2>4, <2>6 DEF Less
  <2> QED
    BY <1>2, <1>4, <2>2, <2>7 DEF OverridePatterns
<1> QED
  BY <1>3, <1>4

\* What is counted for a layer is the same for all layers.
LEMMA LayerBytes ==
  ASSUME Given, NEW l \in Layers
  PROVE  /\ Bytes({t \in Counted : t[1] = l})
              = model.attn + (IF Streaming THEN 0 ELSE model.ffn + model.ffn)
         /\ {t \in Counted : t[1] = l} \in SUBSET Tensors
<1> DEFINE a == <<l, "attn">>  u == <<l, "up">>  d == <<l, "down">>
           Of == {t \in Counted : t[1] = l}
<1>1. /\ a \in Tensors /\ u \in Tensors /\ d \in Tensors
      /\ a # Embedding /\ u # Embedding /\ d # Embedding /\ a # u /\ a # d /\ u # d
      /\ ~Streamable(a) /\ Streamable(u) /\ Streamable(d)
  BY DEF Tensors, Streamable, Embedding
<1>2. Of = IF Streaming THEN {a} ELSE {a, u, d}
  <2>1. \A t \in Counted : t[1] = l => t \in {a, u, d}
    BY TensorCases DEF Counted, LayerTensors
  <2>2. a \in Of /\ (Streaming => u \notin Of /\ d \notin Of) /\ (~Streaming => u \in Of /\ d \in Of)
    BY <1>1 DEF Counted, LayerTensors
  <2> HIDE DEF a, u, d, Of
  <2>3. \A t \in Of : t \in {a, u, d}
    BY <2>1 DEF Of
  <2> QED
    BY <2>2, <2>3
<1>3. Bytes({a}) = model.attn /\ Bytes({u}) = model.ffn /\ Bytes({d}) = model.ffn
  <2>1. SizeOf(a) = model.attn
    BY <1>1, Zenon DEF SizeOf
  <2>2. SizeOf(u) = model.ffn /\ SizeOf(d) = model.ffn
    BY <1>1 DEF SizeOf
  <2> HIDE DEF a, u, d
  <2> QED
    BY <1>1, <2>1, <2>2, BytesOfOne
<1> HIDE DEF a, u, d, Of
<1>4. Bytes({a, u, d}) = model.attn + (model.ffn + model.ffn)
  <2>1. {a} \cup {u} \in SUBSET Tensors /\ {u} \in SUBSET Tensors /\ {d} \in SUBSET Tensors
        /\ {a} \in SUBSET Tensors /\ {a} \cap {u} = {} /\ ({a} \cup {u}) \cap {d} = {}
    BY <1>1
  <2>2. Bytes({a} \cup {u}) = model.attn + model.ffn
    <3>1. Bytes({a} \cup {u}) = Bytes({a}) + Bytes({u})
      BY <2>1, BytesUnion
    <3> QED BY <1>3, <3>1
  <2>3. Bytes(({a} \cup {u}) \cup {d}) = (model.attn + model.ffn) + model.ffn
    <3>1. Bytes(({a} \cup {u}) \cup {d}) = Bytes({a} \cup {u}) + Bytes({d})
      BY <2>1, BytesUnion
    <3> QED BY <1>3, <2>2, <3>1
  <2>4. ({a} \cup {u}) \cup {d} = {a, u, d}
    OBVIOUS
  <2>5. Bytes({a, u, d}) = (model.attn + model.ffn) + model.ffn
    BY <2>3, <2>4
  <2> QED
    BY <2>5, Fields
<1>5. Of \in SUBSET Tensors
  BY DEF Of, Counted, LayerTensors
<1>6. Bytes(Of) = model.attn + (IF Streaming THEN 0 ELSE model.ffn + model.ffn)
  <2>1. CASE Streaming
    <3>1. Bytes(Of) = Bytes({a})
      BY <1>2, <2>1
    <3> QED
      BY <1>3, <2>1, <3>1, Fields
  <2>2. CASE ~Streaming
    <3>1. Bytes(Of) = Bytes({a, u, d})
      BY <1>2, <2>2
    <3> QED
      BY <1>4, <2>2, <3>1
  <2> QED
    BY <2>1, <2>2
<1> QED
  BY <1>5, <1>6 DEF Of

\* What is counted for the first k layers.
LEMMA LayersBytes ==
  ASSUME Given, NEW k \in Nat, k <= model.layers
  PROVE  /\ CountedOfLayer \in Nat
         /\ {t \in Counted : t[1] < k} \in SUBSET Tensors
         /\ Bytes({t \in Counted : t[1] < k}) = k * CountedOfLayer
<1> DEFINE First(n) == {t \in Counted : t[1] < n}
           Of(l) == {t \in Counted : t[1] = l}
           P == {n \in Nat : n <= model.layers => Bytes(First(n)) = n * CountedOfLayer}
<1>1. \A n : First(n) \in SUBSET Tensors
  BY DEF Counted, LayerTensors
<1>2. \A t \in Counted : t[1] \in Nat
  BY TensorCases, Fields DEF Counted, LayerTensors, Layers
<1>3. 0 \in Layers
  BY Fields DEF Layers
<1>4. CountedOfLayer = Bytes(Of(0)) /\ CountedOfLayer \in Nat
  <2>1. CountedOfLayer = Bytes(Of(0))
    BY DEF CountedOfLayer
  <2>2. Of(0) \in SUBSET Tensors
    BY <1>3, LayerBytes
  <2> HIDE DEF Of
  <2> QED
    BY <2>1, <2>2, BytesByKind
<1>5. \A l \in Layers : Bytes(Of(l)) = CountedOfLayer /\ Of(l) \in SUBSET Tensors
  <2> TAKE l \in Layers
  <2>1. Bytes(Of(l)) = Bytes(Of(0)) /\ Of(l) \in SUBSET Tensors
    BY <1>3, LayerBytes
  <2> HIDE DEF Of
  <2> QED BY <1>4, <2>1
<1>6. 0 \in P
  <2>1. First(0) = {}
    BY <1>2
  <2>2. Bytes({}) = 0
    <3>1. Embedding \in Tensors BY DEF Tensors
    <3> QED BY <3>1, BytesOfOne
  <2>3. Bytes(First(0)) = 0
    BY <2>1, <2>2
  <2> HIDE DEF First
  <2> QED
    BY <1>4, <2>3
<1>7. ASSUME NEW n \in Nat, n \in P
      PROVE  n + 1 \in P
  <2> HIDE DEF First
  <2>1. SUFFICES ASSUME n + 1 <= model.layers
                 PROVE  Bytes(First(n + 1)) = (n + 1) * CountedOfLayer
    OBVIOUS
  <2>2. n \in Layers /\ n <= model.layers
    BY <2>1, Fields DEF Layers
  <2>3. First(n + 1) = First(n) \cup Of(n) /\ First(n) \cap Of(n) = {}
    BY <1>2 DEF First
  <2>4. Bytes(First(n)) = n * CountedOfLayer
    BY <1>7, <2>2
  <2> HIDE DEF First, Of, P
  <2>5. Bytes(First(n) \cup Of(n)) = Bytes(First(n)) + Bytes(Of(n))
    BY <1>1, <1>5, <2>2, <2>3, BytesUnion
  <2>6. Bytes(First(n + 1)) = n * CountedOfLayer + CountedOfLayer
    BY <1>5, <2>2, <2>3, <2>4, <2>5
  <2> QED
    BY <1>4, <2>6
<1>8. k \in P
  <2> HIDE DEF P
  <2> QED BY <1>6, <1>7, Induction
<1> QED
  BY <1>1, <1>4, <1>8

\* The layers that the capacity allows fit it.
LEMMA FromCapacityFits ==
  ASSUME Given, NEW k \in Nat, k < FromCapacity, k # 0
  PROVE  k <= model.layers /\ model.embd + k * CountedOfLayer <= GpuBudget
<1> DEFINE Room(n) == model.embd + n * CountedOfLayer <= GpuBudget
           K == {l \in Layers : Room(l + 1)}
<1>1. CountedOfLayer \in Nat /\ model.embd \in Nat /\ model.layers \in Nat
  <2>1. 0 \in Nat /\ 0 <= model.layers
    BY Fields
  <2> QED
    BY <2>1, LayersBytes, Fields
<1>2. GpuBudget \in Nat
  BY Capacities, Fields DEF GpuBudget, Less
<1>3. FromCapacity = 1 + Cardinality(K)
  BY DEF FromCapacity
<1>4. ASSUME NEW m \in Nat, NEW n \in Nat, m <= n, Room(n)
      PROVE  Room(m)
  <2>1. PICK j \in Nat : n = m + j
    <3>1. n - m \in Nat /\ n = m + (n - m)
      BY <1>4
    <3> QED BY <3>1
  <2>2. (m + j) * CountedOfLayer = m * CountedOfLayer + j * CountedOfLayer
    BY <1>1
  <2>3. m * CountedOfLayer \in Nat /\ j * CountedOfLayer \in Nat
    BY <1>1
  <2>4. model.embd + (m * CountedOfLayer + j * CountedOfLayer) <= GpuBudget
    BY <1>4, <2>1, <2>2
  <2> QED
    BY <1>1, <1>2, <2>3, <2>4
<1> HIDE DEF Room
<1>5. SUFFICES ASSUME ~(k - 1 \in K)
               PROVE  FALSE
  <2>1. k - 1 \in K => k - 1 + 1 = k /\ k <= model.layers
    BY <1>1 DEF Layers
  <2> QED
    BY <2>1 DEF Room
<1>6. K \subseteq 0 .. (k - 2)
  <2> SUFFICES ASSUME NEW l \in K, ~(l <= k - 2)
               PROVE  FALSE
    BY <1>1 DEF Layers
  <2>1. l \in Nat /\ l <= model.layers - 1 /\ Room(l + 1)
    BY <1>1 DEF Layers
  <2>2. k - 1 + 1 \in Nat /\ l + 1 \in Nat /\ k - 1 + 1 <= l + 1 /\ k - 1 \in 0 .. model.layers - 1
    BY <1>1, <2>1
  <2>3. Room(k - 1 + 1)
    BY <1>4, <2>1, <2>2
  <2> QED
    BY <1>5, <2>2, <2>3 DEF Layers
<1> HIDE DEF K
<1>7. IsFiniteSet(0 .. (k - 2)) /\ Cardinality(0 .. (k - 2)) = k - 1
  <2>1. 0 \in Int /\ k - 2 \in Int
    OBVIOUS
  <2>2. IsFiniteSet(0 .. (k - 2)) /\ Cardinality(0 .. (k - 2)) = IF 0 > k - 2 THEN 0 ELSE k - 2 - 0 + 1
    BY <2>1, FS_Interval
  <2> QED
    BY <2>2
<1>8. Cardinality(K) <= k - 1 /\ Cardinality(K) \in Nat
  BY <1>6, <1>7, FS_Subset, FS_CardinalityType
<1> QED
  BY <1>3, <1>8

\* What stays on Metal fits the budget.
LEMMA InvOffloadFits == PlacementInv => OffloadFits
<1> SUFFICES ASSUME PlacementInv, stage = "loaded", ngl > 1
             PROVE  Bytes(OnMetal) <= GpuBudget
  BY DEF OffloadFits
<1>1. Given /\ ngl = GpuLayers /\ mode \in Modes
  BY NvmeModes
<1>2. OnMetal \in SUBSET Tensors
  BY DEF OnMetal
<1>3. GpuBudget \in Nat
  BY <1>1, Capacities, Fields DEF GpuBudget, Less
<1>4. CASE mode = "SparseMoeMmap"
  <2>1. Bytes(Tensors) <= GpuBudget
    BY <1>1, <1>4 DEF GpuLayers
  <2>2. Bytes(OnMetal) <= Bytes(Tensors)
    BY <1>1, <1>2, BytesGrow
  <2>3. Bytes(OnMetal) \in Nat /\ Bytes(Tensors) \in Nat
    BY <1>1, <1>2, BytesByKind
  <2> QED
    BY <1>3, <2>1, <2>2, <2>3
<1>5. CASE mode # "SparseMoeMmap"
  <2>1. FromCapacity \in Nat /\ ngl = Least(FromNvme, FromCapacity)
    BY <1>1, <1>5, FromCapacityFacts DEF GpuLayers
  <2>2. FromNvme \in Int
    <3> DEFINE first == {t[1] : t \in {u \in Counted : tier[u] = "nvme"}}
    <3>1. CASE first = {}
      BY <1>1, <3>1, Fields DEF FromNvme
    <3>2. CASE first # {}
      <4>1. PICK t \in Counted : tier[t] = "nvme"
        BY <3>2
      <4> QED
        BY <1>1, <4>1, FromNvmeBound
    <3> QED
      BY <3>1, <3>2
  <2>3. ngl \in Nat /\ ngl <= FromCapacity
    BY <2>1, <2>2 DEF Least
  <2> DEFINE k == ngl - 1
             First == {t \in Counted : t[1] < k}
  <2>4. k \in Nat /\ k # 0 /\ k < FromCapacity
    BY <2>1, <2>3
  <2>5. k <= model.layers /\ model.embd + k * CountedOfLayer <= GpuBudget
    <3> HIDE DEF k
    <3> QED BY <1>1, <2>4, FromCapacityFits
  <2>6. First \in SUBSET Tensors /\ Bytes(First) = k * CountedOfLayer
    <3> HIDE DEF k
    <3> QED BY <1>1, <2>4, <2>5, LayersBytes
  <2>7. Embedding \in Tensors /\ Embedding \notin First
    BY DEF Tensors, Counted, LayerTensors
  <2>8. OnMetal \subseteq First \cup {Embedding}
    <3> SUFFICES ASSUME NEW t \in OnMetal, t # Embedding
                 PROVE  t \in Counted
      BY DEF OnMetal
    <3>1. t \in LayerTensors /\ t \notin overrides /\ t \in Tensors
      BY DEF OnMetal, LayerTensors
    <3>2. CASE Streaming
      <4>1. OfTier("nvme") = {x \in Tensors : Streamable(x)} /\ HasNvme
        BY <3>2, NvmeModes
      <4>2. overrides = OfTier("nvme")
        BY <3>2, <4>1 DEF PlacementInv, Loaded, OverridePatterns
      <4> QED
        BY <3>1, <4>1, <4>2 DEF Counted
    <3>3. CASE ~Streaming
      BY <3>1, <3>3 DEF Counted
    <3> QED
      BY <3>2, <3>3
  <2> HIDE DEF First
  <2>9. Bytes(OnMetal) <= Bytes(First \cup {Embedding})
    BY <1>1, <2>6, <2>7, <2>8, BytesGrow
  <2>10. Bytes(First \cup {Embedding}) = Bytes(First) + model.embd
    BY <1>1, <2>6, <2>7, WithEmbedding
  <2>11. Bytes(First) \in Nat /\ Bytes(OnMetal) \in Nat /\ model.embd \in Nat
    BY <1>1, <1>2, <2>6, BytesByKind, Fields
  <2>12. model.embd + Bytes(First) <= GpuBudget
    BY <2>5, <2>6
  <2> HIDE DEF k
  <2> QED
    BY <1>3, <2>9, <2>10, <2>11, <2>12
<1> QED
  BY <1>4, <1>5

\* What a division leaves over.
LEMMA Quotient ==
  ASSUME NEW a \in Nat, NEW f \in Nat, f # 0
  PROVE  /\ a \div f \in Nat /\ (a \div f) * f <= a /\ a < (a \div f) * f + f
         /\ \A n \in Nat : n <= a \div f => n * f <= a
         /\ \A n \in Nat : a \div f < n => a < n * f
<1> DEFINE q == a \div f
<1>1. q \in Nat
  OBVIOUS
<1>2. q * f <= a /\ a < q * f + f
  OBVIOUS
<1> HIDE DEF q
<1>3. \A x, y \in Nat : x * f \in Nat /\ (x + y) * f = x * f + y * f
  OBVIOUS
<1>4. ASSUME NEW n \in Nat, n <= q
      PROVE  n * f <= a
  <2>1. q - n \in Nat /\ n + (q - n) = q
    BY <1>1, <1>4
  <2>2. q * f = n * f + (q - n) * f /\ (q - n) * f \in Nat /\ n * f \in Nat
    BY <1>3, <2>1
  <2>3. q * f \in Nat
    BY <1>1, <1>3
  <2> QED
    BY <1>2, <2>2, <2>3
<1>5. ASSUME NEW n \in Nat, q < n
      PROVE  a < n * f
  <2>1. n - q - 1 \in Nat /\ (q + 1) + (n - q - 1) = n
    BY <1>1, <1>5
  <2>2. n * f = (q + 1) * f + (n - q - 1) * f /\ (n - q - 1) * f \in Nat
    BY <1>1, <1>3, <2>1
  <2>3. (q + 1) * f = q * f + f /\ q * f \in Nat
    BY <1>1, <1>3
  <2> QED
    BY <1>2, <2>2, <2>3
<1> QED
  BY <1>1, <1>2, <1>4, <1>5 DEF q

\* No more slots than there is room for, or six.
LEMMA SlotsFit ==
  ASSUME NEW a \in Nat, NEW f \in Nat, f # 0, NEW hi \in Nat, hi >= 6,
         NEW n, n = Clamp(a \div f, 6, hi)
  PROVE  n \in Nat /\ n # 0 /\ ((n = 6 /\ a < 6 * f) \/ n * f <= a)
<1> DEFINE q == a \div f
<1>1. /\ q \in Nat
      /\ \A k \in Nat : k <= q => k * f <= a
      /\ \A k \in Nat : q < k => a < k * f
  BY Quotient
<1>2. n = Clamp(q, 6, hi)
  OBVIOUS
<1> HIDE DEF q
<1>3. CASE q < 6
  BY <1>1, <1>2, <1>3 DEF Clamp
<1>4. CASE ~(q < 6)
  <2>1. n \in Nat /\ n <= q /\ n # 0
    BY <1>1, <1>2, <1>4 DEF Clamp
  <2> QED
    BY <1>1, <2>1
<1> QED
  BY <1>3, <1>4

\* No more resident layers than there is room for.
LEMMA ResidentsFit ==
  ASSUME NEW a \in Nat, NEW f \in Nat, f # 0, NEW m \in Nat, NEW n, n = Least(a \div f, m)
  PROVE  n \in Nat /\ n * f <= a
<1> DEFINE q == a \div f
<1>1. q \in Nat /\ \A k \in Nat : k <= q => k * f <= a
  BY Quotient
<1>2. n = Least(q, m)
  OBVIOUS
<1> HIDE DEF q
<1>3. n \in Nat /\ n <= q
  BY <1>1, <1>2 DEF Least
<1> QED
  BY <1>1, <1>3

\* A quantised cache is no larger.
LEMMA CacheSmaller ==
  ASSUME Given
  PROVE  KvCacheBytes \in Nat /\ KvCacheBytes <= KvBytes(context)
<1> DEFINE k == KvBytes(context)
<1>1. k \in Nat
  BY Capacities, Fields
<1>2. KvCacheBytes \in {(k * 53) \div 100, k}
  BY DEF KvCacheBytes
<1> HIDE DEF k
<1>3. (k * 53) \div 100 \in Nat /\ (k * 53) \div 100 <= k
  BY <1>1
<1> QED
  BY <1>1, <1>2, <1>3 DEF k

\* What dense streaming commits leaves the system its part.
LEMMA InvDenseStreamingFits == PlacementInv => DenseStreamingFits
<1> SUFFICES ASSUME PlacementInv, memory.residency = "pool", mode = "DenseFfnStreaming",
                    context = PlanContext
             PROVE  Committed + (IF GpuBytes > 0 THEN 15 ELSE 5)
                      <= machine.ram + Less(Bytes(OfTier("ram")), 15)
  BY DEF DenseStreamingFits
<1>1. stage = "loaded"
  BY DEF PlacementInv, Loaded, NothingCommitted
<1>2. Streaming
  BY DEF Streaming
<1>3. Given /\ HasNvme /\ OfTier("nvme") = {t \in Tensors : Streamable(t)}
  BY <1>1, <1>2, NvmeModes
<1>4. overrides = OfTier("nvme")
  BY <1>1, <1>2, <1>3 DEF PlacementInv, Loaded, OverridePatterns
<1>5. DenseStreamingApplies /\ tier \in [Tensors -> TierNames]
  BY <1>1 DEF PlacementInv, Planned, PlanOf
<1>6. memory.slots = PoolSlots /\ memory.residents = IF ActivateResidents THEN NumResident ELSE 0
  BY <1>1 DEF PlacementInv, Loaded
<1> DEFINE r == Bytes(Resident)
           g == Bytes(OfTier("gpu"))
           m == Bytes(OfTier("ram"))
           h == KvBytes(context)
           c == KvCacheBytes
           f == model.ffn
<1>7. r = g + m /\ g \in Nat /\ m \in Nat /\ r \in Nat /\ OnGpuBytes = g
  <2>1. /\ OfTier("gpu") \in SUBSET Tensors /\ OfTier("ram") \in SUBSET Tensors
        /\ OfTier("nvme") \in SUBSET Tensors /\ Resident \in SUBSET Tensors
    BY DEF OfTier, Resident
  <2>2. OfTier("gpu") \cap OfTier("ram") = {} /\ OfTier("gpu") \cup OfTier("ram") = Resident
    <3>1. \A t \in Tensors : tier[t] \in {"gpu", "ram", "nvme"}
      BY <1>5 DEF TierNames
    <3> QED
      BY <1>3, <3>1 DEF OfTier, Resident
  <2>3. /\ OfTier("gpu") \cap (OfTier("nvme") \cup OfTier("ram")) = {}
        /\ OfTier("gpu") \cup (OfTier("nvme") \cup OfTier("ram")) = Tensors
    <3>1. \A t \in Tensors : tier[t] \in {"gpu", "ram", "nvme"}
      BY <1>5 DEF TierNames
    <3> QED
      BY <3>1 DEF OfTier
  <2>4. Bytes(OfTier("gpu") \cup OfTier("ram")) = g + m
    BY <1>3, <2>1, <2>2, BytesUnion
  <2>5. OfTier("nvme") \cup OfTier("ram") \in SUBSET Tensors
    BY <2>1
  <2>6. Bytes(OfTier("gpu") \cup (OfTier("nvme") \cup OfTier("ram"))) = g + BufferBytes
    BY <1>3, <2>1, <2>3, <2>5, BytesUnion DEF BufferBytes
  <2>7. Bytes(Tensors) = g + BufferBytes
    BY <2>3, <2>6
  <2>8. g \in Nat /\ m \in Nat /\ r \in Nat /\ BufferBytes \in Nat
    BY <1>3, <2>1, <2>5, BytesByKind DEF BufferBytes
  <2>9. r = g + m
    BY <2>2, <2>4
  <2>10. OnGpuBytes = g
    <3> HIDE DEF g
    <3> QED BY <2>7, <2>8 DEF OnGpuBytes
  <2> QED
    BY <2>8, <2>9, <2>10
<1>8. h \in Nat /\ c \in Nat /\ c <= h /\ h = Headroom /\ f \in Nat /\ f # 0 /\ machine.ram \in Nat
  <2>1. h = Headroom
    BY DEF Headroom
  <2>2. f # 0
    BY <1>5 DEF DenseStreamingApplies
  <2> QED
    BY <1>3, <2>1, <2>2, Capacities, CacheSmaller, Fields
<1>9. Bytes(Tensors \ overrides) = r
  <2>1. Tensors \ overrides = Resident
    BY <1>3, <1>4 DEF Resident
  <2> QED
    BY <2>1
<1> DEFINE base == g + c + 35
           slots == PoolSlots
           pool == slots * f
           residents == memory.residents
           kept == residents * PerLayerFfn
<1>10. \A p : Available(p) = Less(machine.ram, base + p)
  <2>1. BaseCommitted = base
    <3> HIDE DEF g, c
    <3>1. BaseCommitted = g + c + 5 + 30
      BY <1>7 DEF BaseCommitted, METAL_COMPUTE_OVERHEAD, OS_RESERVED, c
    <3>2. c \in Nat
      BY <1>8
    <3> QED
      BY <1>7, <3>1, <3>2
  <2> HIDE DEF base
  <2> QED
    BY <2>1 DEF Available
<1>11. Committed = r + c + 5 + pool + kept
  BY <1>6, <1>9 DEF Committed, METAL_COMPUTE_OVERHEAD, PoolBytes, ResidentBytes
<1>12. r <= UnifiedLimit /\ r + 6 * f <= GpuBytes + 10
  BY <1>5 DEF DenseStreamingApplies, StreamingApplies, GPU_RUNTIME_OVERHEAD
<1>13. r # 0
  <2>1. {Embedding} \in SUBSET Tensors /\ Embedding \in Tensors /\ {Embedding} \in SUBSET Resident
        /\ Resident \in SUBSET Tensors
    BY DEF Tensors, Resident, Streamable, Embedding
  <2>2. Bytes({Embedding}) = model.embd
    BY <1>3, <2>1, BytesOfOne
  <2>3. Bytes({Embedding}) <= r
    BY <1>3, <2>1, BytesGrow
  <2>4. model.embd \in Nat /\ model.embd # 0
    BY <1>3, Fields
  <2> QED
    BY <1>7, <2>2, <2>3, <2>4
<1>14. GpuBytes \in Nat /\ UnifiedLimit \in Nat /\ (GpuBytes > 0 => GpuBytes + 30 + h <= machine.ram)
       /\ (UnifiedLimit > 0 => UnifiedLimit + 20 + h <= machine.ram)
  BY <1>3, <1>8, Capacities
<1>15. Less(m, 15) \in Nat /\ m <= Less(m, 15) + 15
  <2> HIDE DEF m
  <2> QED BY <1>7 DEF Less
<1>16. slots \in Nat /\ pool # 0 /\ ((slots = 6 /\ Available(0) < 6 * f) \/ pool <= Available(0)) /\ Available(0) \in Nat
       /\ Available(pool) \in Nat
  <2>1. base \in Nat /\ base + 0 = base
    BY <1>7, <1>8
  <2>2. Available(0) \in Nat /\ Available(0) = Less(machine.ram, base)
    <3> HIDE DEF base
    <3> QED BY <1>8, <1>10, <2>1 DEF Less
  <2>3. slots = Clamp(Available(0) \div f, 6, 24)
    BY <1>5, <1>8 DEF PoolSlots, MinSlots, DenseStreamingApplies
  <2> HIDE DEF slots, f, base
  <2>4. slots \in Nat /\ slots # 0 /\ ((slots = 6 /\ Available(0) < 6 * f) \/ slots * f <= Available(0))
    <3>1. 24 \in Nat /\ 24 >= 6 /\ f \in Nat /\ f # 0
      BY <1>8
    <3> QED
      BY <2>2, <2>3, <3>1, SlotsFit, Zenon
  <2>5. pool \in Nat /\ pool # 0
    <3>1. \A x, y \in Nat : x # 0 /\ y # 0 => x * y \in Nat /\ x * y # 0
      OBVIOUS
    <3> QED
      BY <1>8, <2>4, <3>1
  <2>6. Available(pool) \in Nat
    <3> HIDE DEF pool
    <3> QED BY <1>8, <1>10, <2>1, <2>5 DEF Less
  <2> QED
    BY <2>2, <2>4, <2>5, <2>6
<1>17. residents \in Nat /\ kept \in Nat /\ kept <= Available(pool)
  <2>1. PerLayerFfn \in Nat /\ PerLayerFfn # 0
    BY <1>8 DEF PerLayerFfn
  <2>2. NumResident = Least(Available(pool) \div PerLayerFfn, model.layers \div 4)
    BY DEF NumResident
  <2>3. model.layers \div 4 \in Nat
    BY <1>3, Fields
  <2> HIDE DEF pool, residents
  <2>4. NumResident \in Nat /\ NumResident * PerLayerFfn <= Available(pool)
    BY <1>16, <2>1, <2>2, <2>3, ResidentsFit
  <2>5. residents = NumResident \/ residents = 0
    BY <1>6 DEF residents
  <2>6. 0 * PerLayerFfn = 0 /\ NumResident * PerLayerFfn \in Nat
    BY <2>1, <2>4
  <2> QED
    BY <1>16, <2>4, <2>5, <2>6
<1>18. base = g + c + 35 /\ pool \in Nat
  BY <1>8, <1>16
<1>19. Available(0) = Less(machine.ram, base) /\ Available(pool) = Less(machine.ram, base + pool)
  <2>1. base \in Nat /\ base + 0 = base
    BY <1>7, <1>8
  <2> HIDE DEF base, pool
  <2> QED
    BY <1>10, <2>1
<1>20. 6 * f \in Nat
  BY <1>8
<1> HIDE DEF r, g, m, h, c, f, base, slots, pool, residents, kept
<1>21. CASE slots = 6 /\ Available(0) < 6 * f
  <2>1. pool = 6 * f
    BY <1>21 DEF pool
  <2>2. Available(pool) = 0
    BY <1>7, <1>8, <1>18, <1>19, <1>20, <1>21, <2>1 DEF Less
  <2>3. kept = 0
    BY <1>17, <2>2
  <2>4. Committed <= GpuBytes + 10 + h + 5
    BY <1>7, <1>8, <1>11, <1>12, <1>14, <1>20, <2>1, <2>3
  <2>5. CASE GpuBytes > 0
    BY <1>7, <1>8, <1>11, <1>14, <1>15, <1>18, <2>3, <2>4, <2>5 DEF m
  <2>6. CASE ~(GpuBytes > 0)
    BY <1>7, <1>8, <1>11, <1>12, <1>13, <1>14, <1>15, <1>18, <2>3, <2>4, <2>6 DEF m
  <2> QED
    BY <2>5, <2>6
<1>22. CASE pool <= Available(0)
  <2>1. base + pool + kept <= machine.ram
    BY <1>7, <1>8, <1>16, <1>17, <1>18, <1>19, <1>22 DEF Less
  <2>2. Committed + 30 <= machine.ram + m
    BY <1>7, <1>8, <1>11, <1>17, <1>18, <2>1
  <2>3. m <= Less(m, 15) + 15 /\ Less(m, 15) \in Nat /\ Less(m, 15) = Less(Bytes(OfTier("ram")), 15)
    BY <1>15 DEF m
  <2>4. Committed \in Nat
    BY <1>7, <1>8, <1>11, <1>17, <1>18
  <2> QED
    BY <1>7, <1>8, <2>2, <2>3, <2>4
<1> QED
  BY <1>16, <1>21, <1>22

-----------------------------------------------------------------------------
(* The theorems. *)

\* Whichever strategy placed the model, what it put on the GPU and in RAM fits
\* the tiers.
THEOREM PlanAlwaysFits == Spec => []PlanFits
  BY Reachable, InvPlanFits, PTL

\* Every tensor the prefetch schedule brings in has a place in the NVMe buffer.
THEOREM ScheduledAlwaysOverridden == Spec => []ScheduledIsOverridden
  BY Reachable, InvScheduled, PTL

\* The layers and the output that llama.cpp keeps on Metal fit the working set.
THEOREM OffloadAlwaysFits == Spec => []OffloadFits
  BY Reachable, InvOffloadFits, PTL

\* Dense FFN streaming leaves the system its part of the memory.
THEOREM DenseStreamingAlwaysFits == Spec => []DenseStreamingFits
  BY Reachable, InvDenseStreamingFits, PTL
=============================================================================
