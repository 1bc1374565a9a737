---------------------------- MODULE Lists_proofs ----------------------------
(***************************************************************************)
(* What the operators of Lists return, for every list and every set.  All  *)
(* of it is by induction: Retained is a recursive function, whose          *)
(* existence has to be shown before its values can be used.                *)
(***************************************************************************)
EXTENDS Lists, TLAPS, WellFoundedInduction, NaturalsInduction, SequenceTheorems,
        FiniteSetTheorems, FunctionTheorems

(* Induction over the naturals, as a statement about a set: it has no operator for *)
(* a parameter, so that it can be cited. *)
LEMMA Induction ==
  ASSUME NEW S, 0 \in S, \A n \in Nat : n \in S => n + 1 \in S
  PROVE  Nat \subseteq S
<1> DEFINE Rest == {n \in Nat : n \notin S}
           Smaller == OpToRel(<, Nat)
<1>1. IsWellFoundedOn(Smaller, Nat)
  BY NatLessThanWellFounded
<1>2. SUFFICES ASSUME Rest # {} PROVE FALSE
  OBVIOUS
<1>3. PICK n \in Rest : \A m \in Rest : <<m, n>> \notin Smaller
  BY <1>1, <1>2, WFMin
<1>4. n \in Nat /\ n # 0 /\ n \notin S
  OBVIOUS
<1>5. n - 1 \in Nat /\ n - 1 < n /\ (n - 1) + 1 = n
  BY <1>4
<1>6. <<n - 1, n>> \in Smaller
  BY <1>4, <1>5 DEF OpToRel
<1>7. n - 1 \in S
  BY <1>3, <1>5, <1>6
<1> QED
  BY <1>4, <1>5, <1>7

(* A set of numbers that is not empty has a least one. *)
LEMMA LeastNumber ==
  ASSUME NEW S \in SUBSET Nat, S # {}
  PROVE  \E n \in S : \A m \in S : n <= m
<1> DEFINE Smaller == OpToRel(<, Nat)
<1>1. IsWellFoundedOn(Smaller, Nat)
  BY NatLessThanWellFounded
<1>2. PICK n \in S : \A m \in S : <<m, n>> \notin Smaller
  BY <1>1, WFMin
<1>3. ASSUME NEW m \in S
      PROVE  n <= m
  <2>1. m \in Nat /\ n \in Nat
    BY <1>2
  <2>2. m < n => <<m, n>> \in Smaller
    BY <2>1 DEF OpToRel
  <2>3. <<m, n>> \notin Smaller
    BY <1>2
  <2>4. ~ (m < n)
    BY <2>2, <2>3
  <2> QED
    BY <2>1, <2>4
<1> QED
  BY <1>3

(* The lists that retain goes through exist. *)
LEMMA RetainedRecursion ==
  ASSUME NEW T, NEW list \in Seq(T), NEW kept
  PROVE  \E from : /\ from = [i \in 0 .. Len(list) |->
                        IF i = 0 THEN <<>>
                        ELSE IF list[i] \in kept THEN Append(from[i - 1], list[i]) ELSE from[i - 1]]
                   /\ Retained(list, kept) = from[Len(list)]
<1> DEFINE Def(g, k) == [i \in 0 .. k |->
                        IF i = 0 THEN <<>>
                        ELSE IF list[i] \in kept THEN Append(g[i - 1], list[i]) ELSE g[i - 1]]
           S == {k \in Nat : \E g : g = Def(g, k)}
<1>1. 0 \in S
  <2> DEFINE g == [i \in 0 .. 0 |-> <<>>]
  <2>1. g = Def(g, 0)
    OBVIOUS
  <2> QED
    BY <2>1
<1>2. ASSUME NEW k \in Nat, k \in S
      PROVE  k + 1 \in S
  <2>1. PICK g : g = Def(g, k)
    BY <1>2
  <2> DEFINE x == IF list[k + 1] \in kept THEN Append(g[k], list[k + 1]) ELSE g[k]
             h == [i \in 0 .. k + 1 |-> IF i = k + 1 THEN x ELSE g[i]]
  <2>2. h = Def(h, k + 1)
    <3>1. \A i \in 0 .. k + 1 : i # k + 1 => i \in 0 .. k /\ (i # 0 => i - 1 \in 0 .. k /\ i - 1 # k + 1)
      OBVIOUS
    <3>2. ASSUME NEW i \in 0 .. k + 1, i # k + 1
          PROVE  h[i] = Def(h, k + 1)[i]
      <4>1. h[i] = Def(g, k)[i]
        BY <2>1, <3>1, <3>2
      <4>2. i # 0 => h[i - 1] = g[i - 1]
        BY <3>1, <3>2
      <4> QED
        BY <3>1, <3>2, <4>1, <4>2
    <3>3. h[k] = g[k] /\ h[k + 1] = x /\ k + 1 # 0 /\ (k + 1) - 1 = k
      OBVIOUS
    <3>4. h[k + 1] = Def(h, k + 1)[k + 1]
      <4> HIDE DEF h
      <4> QED BY <3>3
    <3> QED
      BY <3>2, <3>4
  <2> HIDE DEF Def, h
  <2> QED
    BY <2>2
<1>3. Len(list) \in S
  <2> HIDE DEF S
  <2> QED BY <1>1, <1>2, Induction
<1>4. \E g : g = Def(g, Len(list))
  BY <1>3
<1> DEFINE f == CHOOSE g : g = Def(g, Len(list))
<1>5. f = Def(f, Len(list))
  BY <1>4
<1>6. Retained(list, kept) = f[Len(list)]
  BY DEF Retained
<1> QED
  BY <1>5, <1>6

(* Every place of the retained list comes from one of the list, in the same order, *)
(* and every kept element has one. *)
LEMMA RetainedPlaces ==
  ASSUME NEW T, NEW list \in Seq(T), NEW kept
  PROVE  /\ Retained(list, kept) \in Seq(T)
         /\ \E at \in [1 .. Len(Retained(list, kept)) -> 1 .. Len(list)] :
              /\ \A j, k \in 1 .. Len(Retained(list, kept)) : j < k => at[j] < at[k]
              /\ \A k \in 1 .. Len(Retained(list, kept)) :
                   Retained(list, kept)[k] = list[at[k]] /\ list[at[k]] \in kept
              /\ \A i \in 1 .. Len(list) : list[i] \in kept =>
                   \E k \in 1 .. Len(Retained(list, kept)) : at[k] = i
<1>1. PICK from : /\ from = [i \in 0 .. Len(list) |->
                       IF i = 0 THEN <<>>
                       ELSE IF list[i] \in kept THEN Append(from[i - 1], list[i]) ELSE from[i - 1]]
                  /\ Retained(list, kept) = from[Len(list)]
  BY RetainedRecursion
<1> DEFINE Places(r, n, at) ==
             /\ r \in Seq(T) /\ at \in [1 .. Len(r) -> 1 .. n]
             /\ \A j, k \in 1 .. Len(r) : j < k => at[j] < at[k]
             /\ \A k \in 1 .. Len(r) : r[k] = list[at[k]] /\ list[at[k]] \in kept
             /\ \A i \in 1 .. n : list[i] \in kept => \E k \in 1 .. Len(r) : at[k] = i
           S == {n \in Nat : n <= Len(list) => \E at : Places(from[n], n, at)}
<1>2. 0 \in S
  <2>1. from[0] = <<>>
    BY <1>1
  <2>2. Places(<<>>, 0, <<>>)
    OBVIOUS
  <2>3. \E at : Places(from[0], 0, at)
    <3> HIDE DEF Places
    <3> QED BY <2>1, <2>2, Zenon
  <2> QED
    BY <2>3
<1>3. ASSUME NEW n \in Nat, n \in S
      PROVE  n + 1 \in S
  <2> SUFFICES ASSUME n + 1 <= Len(list)
               PROVE  \E at : Places(from[n + 1], n + 1, at)
    BY SMTT(30)
  <2>1. Len(list) \in Nat /\ n <= Len(list) /\ n + 1 \in 1 .. Len(list)
    OBVIOUS
  <2>2. PICK at : Places(from[n], n, at)
    BY <1>3, <2>1
  <2>3. from[n + 1] = IF list[n + 1] \in kept THEN Append(from[n], list[n + 1]) ELSE from[n]
    <3>1. n + 1 \in 0 .. Len(list) /\ n + 1 # 0 /\ (n + 1) - 1 = n
      BY <2>1
    <3> QED
      BY <1>1, <3>1
  <2> DEFINE r == from[n]
  <2> HIDE DEF r
  <2>4. CASE list[n + 1] \notin kept
    <3>1. Places(r, n, at) /\ from[n + 1] = r
      BY <2>2, <2>3, <2>4 DEF r
    <3>2. Places(r, n + 1, at)
      <4>1. \A i \in 1 .. n + 1 : i \in 1 .. n \/ i = n + 1
        OBVIOUS
      <4> QED
        BY <2>4, <3>1, <4>1
    <3> HIDE DEF Places
    <3> QED
      BY <3>1, <3>2
  <2>5. CASE list[n + 1] \in kept
    <3> DEFINE q == Append(r, list[n + 1])
               m == Len(r)
               to == [k \in 1 .. m + 1 |-> IF k = m + 1 THEN n + 1 ELSE at[k]]
    <3>1. Places(r, n, at) /\ from[n + 1] = q
      BY <2>2, <2>3, <2>5 DEF r
    <3>2. /\ list[n + 1] \in T /\ m \in Nat /\ q \in Seq(T) /\ Len(q) = m + 1
          /\ q[m + 1] = list[n + 1]
          /\ \A k \in 1 .. m : q[k] = r[k]
      BY <2>1, <3>1
    <3> HIDE DEF q
    <3>3. \A k \in 1 .. m : k \in 1 .. m + 1 /\ k # m + 1 /\ to[k] = at[k] /\ at[k] \in 1 .. n
      <4>1. \A k \in 1 .. m : k \in 1 .. m + 1 /\ k # m + 1
        BY <3>2
      <4>2. \A k \in 1 .. m : at[k] \in 1 .. n
        BY <3>1
      <4> HIDE DEF m
      <4> QED
        BY <4>1, <4>2
    <3>4. to[m + 1] = n + 1 /\ m + 1 \in 1 .. m + 1
      BY <3>2
    <3>5. \A k \in 1 .. m + 1 : k \in 1 .. m \/ k = m + 1
      BY <3>2
    <3>6. to \in [1 .. m + 1 -> 1 .. n + 1]
      <4>1. \A k \in 1 .. m + 1 : to[k] \in 1 .. n + 1
        <5> HIDE DEF to, m
        <5> QED BY <3>3, <3>4, <3>5
      <4> HIDE DEF m
      <4> QED
        BY <4>1
    <3> HIDE DEF to
    <3>7. \A j, k \in 1 .. m + 1 : j < k => to[j] < to[k]
      <4> SUFFICES ASSUME NEW j \in 1 .. m + 1, NEW k \in 1 .. m + 1, j < k
                   PROVE  to[j] < to[k]
        OBVIOUS
      <4>1. j \in 1 .. m
        BY <3>2
      <4> QED
        BY <3>1, <3>3, <3>4, <3>5, <4>1
    <3>8. \A k \in 1 .. m + 1 : q[k] = list[to[k]] /\ list[to[k]] \in kept
      BY <2>5, <3>1, <3>2, <3>3, <3>4, <3>5
    <3>9. \A i \in 1 .. n + 1 : list[i] \in kept => \E k \in 1 .. m + 1 : to[k] = i
      <4>1. \A i \in 1 .. n + 1 : i \in 1 .. n \/ i = n + 1
        OBVIOUS
      <4> QED
        BY <3>1, <3>3, <3>4, <4>1
    <3>10. Places(q, n + 1, to)
      BY <3>2, <3>6, <3>7, <3>8, <3>9
    <3> HIDE DEF Places
    <3> QED
      BY <3>1, <3>10
  <2> QED
    BY <2>4, <2>5
<1>4. Len(list) \in S
  <2> HIDE DEF S
  <2> QED BY <1>2, <1>3, Induction
<1>5. PICK at : Places(from[Len(list)], Len(list), at)
  <2>1. Len(list) <= Len(list)
    OBVIOUS
  <2>2. \E at : Places(from[Len(list)], Len(list), at)
    BY <1>4, <2>1
  <2> QED
    BY <2>2, Zenon
<1>6. Places(Retained(list, kept), Len(list), at)
  BY <1>1, <1>5, Zenon
<1> QED
  BY <1>6, Zenon

(* One entry comes before another in a list.  *)
Before(list, a, b) ==
  \E i, j \in 1 .. Len(list) : i < j /\ list[i] = a /\ list[j] = b

(* Nothing is listed twice. *)
Distinct(list) == \A i, j \in 1 .. Len(list) : list[i] = list[j] => i = j

Listed(list) == {list[i] : i \in 1 .. Len(list)}

(* retain keeps exactly the kept elements, and their order. *)
LEMMA RetainedFacts ==
  ASSUME NEW T, NEW list \in Seq(T), NEW kept
  PROVE  /\ Retained(list, kept) \in Seq(T)
         /\ Listed(Retained(list, kept)) = Listed(list) \cap kept
         /\ Distinct(list) => Distinct(Retained(list, kept))
         /\ \A a, b : Before(Retained(list, kept), a, b)
                        <=> Before(list, a, b) /\ a \in kept /\ b \in kept
<1> DEFINE r == Retained(list, kept)
<1>1. r \in Seq(T)
  BY RetainedPlaces
<1>2. PICK at \in [1 .. Len(r) -> 1 .. Len(list)] :
              /\ \A j, k \in 1 .. Len(r) : j < k => at[j] < at[k]
              /\ \A k \in 1 .. Len(r) : r[k] = list[at[k]] /\ list[at[k]] \in kept
              /\ \A i \in 1 .. Len(list) : list[i] \in kept => \E k \in 1 .. Len(r) : at[k] = i
  BY RetainedPlaces, SMTT(30)
<1> HIDE DEF r
<1>3. Len(r) \in Nat /\ Len(list) \in Nat
  BY <1>1
<1>4. Listed(r) = Listed(list) \cap kept
  <2>1. \A x \in Listed(r) : x \in Listed(list) \cap kept
    BY <1>2 DEF Listed
  <2>2. \A x \in Listed(list) \cap kept : x \in Listed(r)
    BY <1>2 DEF Listed
  <2> QED
    BY <2>1, <2>2
<1>5. \A j, k \in 1 .. Len(r) : at[j] < at[k] => j < k
  <2> TAKE j, k \in 1 .. Len(r)
  <2>1. j < k \/ j = k \/ k < j
    BY <1>3
  <2>2. at[j] \in Nat /\ at[k] \in Nat
    BY <1>2
  <2> QED
    BY <1>2, <2>1, <2>2
<1>6. ASSUME Distinct(list)
      PROVE  Distinct(r)
  <2> SUFFICES ASSUME NEW i \in 1 .. Len(r), NEW j \in 1 .. Len(r), r[i] = r[j]
               PROVE  i = j
    BY DEF Distinct
  <2>1. at[i] \in 1 .. Len(list) /\ at[j] \in 1 .. Len(list) /\ list[at[i]] = list[at[j]]
    BY <1>2
  <2>2. at[i] = at[j]
    BY <1>6, <2>1 DEF Distinct
  <2>3. i < j \/ i = j \/ j < i
    BY <1>3
  <2> QED
    BY <1>2, <2>1, <2>2, <2>3
<1>7. ASSUME NEW a, NEW b
      PROVE  Before(r, a, b) <=> Before(list, a, b) /\ a \in kept /\ b \in kept
  <2>1. ASSUME Before(r, a, b)
        PROVE  Before(list, a, b) /\ a \in kept /\ b \in kept
    <3>1. PICK i, j \in 1 .. Len(r) : i < j /\ r[i] = a /\ r[j] = b
      BY <2>1 DEF Before
    <3>2. at[i] \in 1 .. Len(list) /\ at[j] \in 1 .. Len(list) /\ at[i] < at[j]
          /\ list[at[i]] = a /\ list[at[j]] = b
      BY <1>2, <3>1
    <3> QED
      BY <1>2, <3>1, <3>2 DEF Before
  <2>2. ASSUME Before(list, a, b), a \in kept, b \in kept
        PROVE  Before(r, a, b)
    <3>1. PICK i, j \in 1 .. Len(list) : i < j /\ list[i] = a /\ list[j] = b
      BY <2>2 DEF Before
    <3>2. PICK m \in 1 .. Len(r) : at[m] = i
      BY <1>2, <2>2, <3>1
    <3>3. PICK n \in 1 .. Len(r) : at[n] = j
      BY <1>2, <2>2, <3>1
    <3>4. m < n /\ r[m] = a /\ r[n] = b
      BY <1>2, <1>5, <3>1, <3>2, <3>3
    <3> QED
      BY <3>4 DEF Before
  <2> QED
    BY <2>1, <2>2
<1> QED
  BY <1>1, <1>4, <1>6, <1>7 DEF r

(* A list without repetition is as long as what it lists. *)
LEMMA ListedCount ==
  ASSUME NEW T, NEW list \in Seq(T), Distinct(list)
  PROVE  /\ IsFiniteSet(Listed(list))
         /\ Cardinality(Listed(list)) = Len(list)
<1> DEFINE f == [i \in 1 .. Len(list) |-> list[i]]
<1>1. Len(list) \in Nat
  OBVIOUS
<1>2. f \in [1 .. Len(list) -> Listed(list)]
  BY DEF Listed
<1>3. \A i, j \in 1 .. Len(list) : f[i] = f[j] => i = j
  BY DEF Distinct
<1>4. \A x \in Listed(list) : \E i \in 1 .. Len(list) : f[i] = x
  BY DEF Listed
<1> HIDE DEF f
<1>5. f \in Bijection(1 .. Len(list), Listed(list))
  BY <1>2, <1>3, <1>4, Fun_IsBij
<1>6. IsFiniteSet(1 .. Len(list)) /\ Cardinality(1 .. Len(list)) = Len(list)
  <2>1. Len(list) = (Len(list) - 1) + 1 /\ 1 \in Int /\ Len(list) \in Int
    BY <1>1
  <2>2. /\ IsFiniteSet(1 .. Len(list))
        /\ Cardinality(1 .. Len(list)) = IF 1 > Len(list) THEN 0 ELSE Len(list) - 1 + 1
    BY <2>1, FS_Interval
  <2> QED
    BY <1>1, <2>2
<1> QED
  BY <1>5, <1>6, FS_Bijection DEF ExistsBijection

(* What comes behind a list leaves its places alone. *)
LEMMA ConcatFacts ==
  ASSUME NEW T, NEW list \in Seq(T), NEW more \in Seq(T)
  PROVE  /\ list \o more \in Seq(T)
         /\ Len(list \o more) = Len(list) + Len(more)
         /\ \A k \in 1..(Len(list) + Len(more)) :
              (list \o more)[k] = IF k <= Len(list) THEN list[k] ELSE more[k - Len(list)]
BY ConcatProperties, SMTT(30)

(* push_back adds an element behind all others. *)
LEMMA AppendFacts ==
  ASSUME NEW T, NEW list \in Seq(T), NEW x \in T
  PROVE  /\ Append(list, x) \in Seq(T)
         /\ Len(Append(list, x)) = Len(list) + 1
         /\ Listed(Append(list, x)) = Listed(list) \cup {x}
         /\ Distinct(list) /\ x \notin Listed(list) => Distinct(Append(list, x))
         /\ \A a, b : Before(Append(list, x), a, b)
                        <=> Before(list, a, b) \/ (a \in Listed(list) /\ b = x)
<1> DEFINE q == Append(list, x)
           n == Len(list)
<1>1. /\ q \in Seq(T) /\ n \in Nat /\ Len(q) = n + 1 /\ q[n + 1] = x
      /\ \A i \in 1 .. n : q[i] = list[i]
  OBVIOUS
<1>2. \A i \in 1 .. n + 1 : i \in 1 .. n \/ i = n + 1
  OBVIOUS
<1>3. n + 1 \in 1 .. n + 1 /\ \A i \in 1 .. n : i \in 1 .. n + 1 /\ i < n + 1 /\ ~ (n + 1 < i)
  BY <1>1
<1> HIDE DEF q
<1>4. Listed(q) = Listed(list) \cup {x}
  <2>1. \A y \in Listed(q) : y \in Listed(list) \cup {x}
    BY <1>1, <1>2 DEF Listed
  <2>2. \A y \in Listed(list) \cup {x} : y \in Listed(q)
    BY <1>1, <1>3 DEF Listed
  <2> QED
    BY <2>1, <2>2
<1>5. ASSUME Distinct(list), x \notin Listed(list)
      PROVE  Distinct(q)
  <2> SUFFICES ASSUME NEW i \in 1 .. n + 1, NEW j \in 1 .. n + 1, q[i] = q[j]
               PROVE  i = j
    BY <1>1 DEF Distinct
  <2>1. \A k \in 1 .. n : list[k] # x
    BY <1>5 DEF Listed
  <2> QED
    BY <1>1, <1>2, <1>5, <2>1 DEF Distinct
<1>6. ASSUME NEW a, NEW b
      PROVE  Before(q, a, b) <=> Before(list, a, b) \/ (a \in Listed(list) /\ b = x)
  <2>1. ASSUME Before(q, a, b)
        PROVE  Before(list, a, b) \/ (a \in Listed(list) /\ b = x)
    <3>1. PICK i, j \in 1 .. n + 1 : i < j /\ q[i] = a /\ q[j] = b
      BY <1>1, <2>1 DEF Before
    <3>2. i \in 1 .. n /\ list[i] = a
      BY <1>1, <3>1
    <3>3. CASE j = n + 1
      BY <1>1, <3>1, <3>2, <3>3 DEF Listed
    <3>4. CASE j \in 1 .. n
      BY <1>1, <3>1, <3>2, <3>4 DEF Before
    <3> QED
      BY <1>2, <3>3, <3>4
  <2>2. ASSUME Before(list, a, b)
        PROVE  Before(q, a, b)
    BY <1>1, <1>3, <2>2 DEF Before
  <2>3. ASSUME a \in Listed(list), b = x
        PROVE  Before(q, a, b)
    <3>1. PICK i \in 1 .. n : list[i] = a
      BY <2>3 DEF Listed
    <3> QED
      BY <1>1, <1>3, <2>3, <3>1 DEF Before
  <2> QED
    BY <2>1, <2>2, <2>3
<1> QED
  BY <1>1, <1>4, <1>5, <1>6 DEF q

(* pop_front takes the first element and leaves the order of the rest. *)
LEMMA TailFacts ==
  ASSUME NEW T, NEW list \in Seq(T), list # <<>>
  PROVE  /\ Head(list) \in Listed(list) /\ Head(list) \in T
         /\ Tail(list) \in Seq(T)
         /\ Len(Tail(list)) = Len(list) - 1
         /\ Distinct(list) => /\ Distinct(Tail(list))
                              /\ Listed(Tail(list)) = Listed(list) \ {Head(list)}
         /\ \A a, b : Before(Tail(list), a, b) => Before(list, a, b)
         /\ \A b \in Listed(Tail(list)) : Before(list, Head(list), b)
<1> DEFINE q == Tail(list)
           n == Len(list)
<1>1. /\ q \in Seq(T) /\ n \in Nat /\ n # 0 /\ Len(q) = n - 1 /\ Head(list) = list[1]
      /\ \A i \in 1 .. n - 1 : q[i] = list[i + 1]
  OBVIOUS
<1>2. 1 \in 1 .. n
  BY <1>1
<1>3. \A i \in 1 .. n - 1 : i + 1 \in 1 .. n /\ 1 < i + 1 /\ i + 1 # 1
  BY <1>1
<1>4. \A i \in 1 .. n : i = 1 \/ (i - 1 \in 1 .. n - 1 /\ (i - 1) + 1 = i)
  BY <1>1
<1> HIDE DEF q
<1>5. list[1] \in Listed(list) /\ list[1] \in T
  BY <1>2 DEF Listed
<1>6. ASSUME Distinct(list)
      PROVE  Distinct(q) /\ Listed(q) = Listed(list) \ {list[1]}
  <2>1. \A i \in 1 .. n : list[i] = list[1] => i = 1
    BY <1>2, <1>6 DEF Distinct
  <2>2. Distinct(q)
    <3> SUFFICES ASSUME NEW i \in 1 .. n - 1, NEW j \in 1 .. n - 1, q[i] = q[j]
                 PROVE  i = j
      BY <1>1 DEF Distinct
    <3>1. list[i + 1] = list[j + 1]
      BY <1>1
    <3>2. i + 1 = j + 1
      BY <1>3, <1>6, <3>1 DEF Distinct
    <3> QED
      BY <1>1, <3>2
  <2>3. \A y \in Listed(q) : y \in Listed(list) \ {list[1]}
    BY <1>1, <1>3, <2>1 DEF Listed
  <2>4. ASSUME NEW y \in Listed(list), y # list[1]
        PROVE  y \in Listed(q)
    <3>1. PICK i \in 1 .. n : list[i] = y
      BY DEF Listed
    <3>2. i - 1 \in 1 .. n - 1 /\ (i - 1) + 1 = i
      BY <1>4, <2>4, <3>1
    <3>3. q[i - 1] = y /\ i - 1 \in 1 .. Len(q)
      BY <1>1, <3>1, <3>2
    <3> QED
      BY <3>3 DEF Listed
  <2> QED
    BY <2>2, <2>3, <2>4
<1>7. ASSUME NEW a, NEW b, Before(q, a, b)
      PROVE  Before(list, a, b)
  <2>1. PICK i, j \in 1 .. n - 1 : i < j /\ q[i] = a /\ q[j] = b
    BY <1>1, <1>7 DEF Before
  <2>2. i + 1 < j + 1 /\ list[i + 1] = a /\ list[j + 1] = b
    BY <1>1, <2>1
  <2> QED
    BY <1>3, <2>1, <2>2 DEF Before
<1>8. ASSUME NEW b \in Listed(q)
      PROVE  Before(list, list[1], b)
  <2>1. PICK i \in 1 .. n - 1 : q[i] = b
    BY <1>1, <1>8 DEF Listed
  <2> QED
    BY <1>1, <1>2, <1>3, <2>1 DEF Before
<1> QED
  BY <1>1, <1>5, <1>6, <1>7, <1>8 DEF q
-----------------------------------------------------------------------------
(* A finite set of numbers can be put in ascending order: all of it, each once. *)
LEMMA AscendingLists ==
  ASSUME NEW S \in SUBSET Nat, IsFiniteSet(S)
  PROVE  /\ Ascending(S) \in Seq(S) /\ Len(Ascending(S)) = Cardinality(S)
         /\ Listed(Ascending(S)) = S
<1> DEFINE n == Cardinality(S)
           below(x) == {y \in S : y <= x}
           r == [x \in S |-> Cardinality(below(x))]
           s == [i \in 1..n |-> CHOOSE x \in S : r[x] = i]
<1>1. n \in Nat
  BY FS_CardinalityType
<1>2. \A x \in S : r[x] \in 1..n
  <2> TAKE x \in S
  <2>1. IsFiniteSet(below(x)) /\ Cardinality(below(x)) <= n
    BY FS_Subset
  <2>2. Cardinality(below(x)) \in Nat
    BY <2>1, FS_CardinalityType
  <2>3. x \in below(x)
    OBVIOUS
  <2>4. Cardinality(below(x)) # 0
    BY <2>1, <2>3, FS_EmptySet
  <2> QED
    BY <1>1, <2>1, <2>2, <2>4
<1>3. \A x, y \in S : x < y => r[x] < r[y]
  <2> SUFFICES ASSUME NEW x \in S, NEW y \in S, x < y
               PROVE  r[x] < r[y]
    OBVIOUS
  <2>1. below(x) \subseteq below(y) /\ y \in below(y) /\ y \notin below(x)
    <3>1. x \in Nat /\ y \in Nat /\ \A z \in S : z \in Nat
      OBVIOUS
    <3> HIDE DEF r
    <3>2. \A z \in S : z <= x => z <= y
      BY <3>1
    <3>3. y <= y /\ ~ (y <= x)
      BY <3>1
    <3> QED
      BY <3>2, <3>3, Zenon
  <2>2. IsFiniteSet(below(y))
    BY FS_Subset
  <2> HIDE DEF below
  <2>3. Cardinality(below(x)) <= Cardinality(below(y))
        /\ Cardinality(below(x)) # Cardinality(below(y))
    BY <2>1, <2>2, FS_Subset
  <2>4. r[x] = Cardinality(below(x)) /\ r[y] = Cardinality(below(y))
    OBVIOUS
  <2> HIDE DEF r, n
  <2> QED
    BY <1>2, <2>3, <2>4
<1>4. r \in [S -> 1..n]
  BY <1>2
<1> HIDE DEF r
<1>5. \A x, y \in S : r[x] = r[y] => x = y
  <2> SUFFICES ASSUME NEW x \in S, NEW y \in S, r[x] = r[y]
               PROVE  x = y
    OBVIOUS
  <2>1. x < y \/ y < x \/ x = y
    OBVIOUS
  <2> QED
    BY <1>2, <1>3, <2>1
<1>6. r \in Injection(S, 1..n)
  BY <1>4, <1>5 DEF Injection, IsInjective
<1>7. IsFiniteSet(1..n) /\ Cardinality(1..n) = n
  BY <1>1, FS_Interval
<1>8. r \in Surjection(S, 1..n)
  BY <1>6, <1>7, FS_Injection
<1>9. \A i \in 1..n : \E x \in S : r[x] = i
  BY <1>8, Zenon DEF Surjection
<1>10. \A i \in 1..n : s[i] \in S /\ r[s[i]] = i
  BY <1>9
<1>11. s \in [1..n -> S]
  BY <1>10
<1> HIDE DEF s
<1>12. \A i, j \in 1..n : i # j => s[i] # s[j]
  BY <1>10
<1>13. s \in SetToSeqs(S)
  BY <1>11, <1>12 DEF SetToSeqs
<1>14. \A i, j \in DOMAIN s : i < j => s[i] < s[j]
  <2> SUFFICES ASSUME NEW i \in 1..n, NEW j \in 1..n, i < j
               PROVE  s[i] < s[j]
    BY <1>11
  <2>1. s[i] \in Nat /\ s[j] \in Nat
    BY <1>10
  <2>2. s[j] < s[i] => j < i
    BY <1>3, <1>10
  <2>3. s[j] = s[i] => j = i
    BY <1>10
  <2> QED
    BY <1>1, <2>1, <2>2, <2>3
<1>15. Ascending(S) \in SetToSeqs(S)
  BY <1>13, <1>14, Zenon DEF Ascending
<1>16. /\ Ascending(S) \in [1..n -> S]
       /\ \A i, j \in 1..n : Ascending(S)[i] = Ascending(S)[j] => i = j
  <2>1. /\ Ascending(S) \in [1..n -> S]
        /\ \A i, j \in 1..n : i # j => Ascending(S)[i] # Ascending(S)[j]
    BY <1>15 DEF SetToSeqs
  <2> QED
    BY <2>1
<1>17. Ascending(S) \in Injection(1..n, S)
  BY <1>16 DEF Injection, IsInjective
<1>18. Ascending(S) \in Surjection(1..n, S)
  <2> HIDE DEF n
  <2>1. Cardinality(1..n) = Cardinality(S)
    BY <1>7 DEF n
  <2> QED
    BY <1>17, <2>1, FS_Injection
<1>19. Ascending(S) \in Seq(S) /\ Len(Ascending(S)) = n
  <2> DEFINE a == Ascending(S)
  <2>1. a \in [1..n -> S]
    BY <1>16
  <2> HIDE DEF a, n
  <2>2. a \in Seq(S)
    BY <1>1, <2>1
  <2>3. DOMAIN a = 1..n /\ DOMAIN a = 1..Len(a) /\ Len(a) \in Nat
    BY <2>1, <2>2, LenProperties
  <2>4. Len(a) = n
    BY <1>1, <2>3
  <2> QED
    BY <2>2, <2>4 DEF a
<1>20. Listed(Ascending(S)) = S
  <2>1. \A x \in S : \E i \in 1..n : Ascending(S)[i] = x
    BY <1>18 DEF Surjection
  <2>2. \A i \in 1..n : Ascending(S)[i] \in S
    BY <1>16
  <2>3. Len(Ascending(S)) = n
    BY <1>19
  <2> HIDE DEF n
  <2> QED
    BY <2>1, <2>2, <2>3 DEF Listed
<1> QED
  BY <1>19, <1>20

-----------------------------------------------------------------------------
\* Where a list has elements of a set.
PlacesOf(list, S) == {k \in 1..Len(list) : list[k] \in S}

\* There are finitely many such places.
LEMMA PlacesAreFinite ==
  ASSUME NEW T, NEW list \in Seq(T), NEW S
  PROVE  IsFiniteSet(PlacesOf(list, S)) /\ Cardinality(PlacesOf(list, S)) \in Nat
<1>1. Len(list) \in Nat
  OBVIOUS
<1>2. IsFiniteSet(1..Len(list))
  BY <1>1, FS_Interval
<1>3. PlacesOf(list, S) \in SUBSET (1..Len(list))
  BY DEF PlacesOf
<1> QED
  BY <1>2, <1>3, FS_Subset, FS_CardinalityType

\* recv() takes the first place away and moves the others.
LEMMA PlacesOfTail ==
  ASSUME NEW T, NEW list \in Seq(T), list # <<>>, NEW S
  PROVE  Cardinality(PlacesOf(Tail(list), S))
           = IF Head(list) \in S THEN Cardinality(PlacesOf(list, S)) - 1
             ELSE Cardinality(PlacesOf(list, S))
<1> DEFINE P == PlacesOf(Tail(list), S)
           Q == PlacesOf(list, S)
           f == [k \in P |-> k + 1]
<1>1. /\ Tail(list) \in Seq(T) /\ Len(Tail(list)) = Len(list) - 1 /\ Len(list) \in Nat \ {0}
      /\ \A k \in 1..Len(Tail(list)) : Tail(list)[k] = list[k + 1]
      /\ Head(list) = list[1]
  BY HeadTailProperties, EmptySeq
<1>2. \A k \in P : k \in Nat /\ k + 1 \in Q \ {1}
  BY <1>1 DEF PlacesOf
<1>3. \A k \in Q \ {1} : k \in Int /\ k - 1 \in P
  <2> SUFFICES ASSUME NEW k \in Q \ {1} PROVE k \in Int /\ k - 1 \in P
    OBVIOUS
  <2>1. k \in 2..Len(list) /\ list[k] \in S
    BY <1>1 DEF PlacesOf
  <2>2. k - 1 \in 1..Len(Tail(list)) /\ (k - 1) + 1 = k
    BY <1>1, <2>1
  <2> QED
    BY <1>1, <2>1, <2>2 DEF PlacesOf
<1>4. 1 \in Q <=> Head(list) \in S
  BY <1>1 DEF PlacesOf
<1>5. IsFiniteSet(P) /\ IsFiniteSet(Q)
  BY <1>1, PlacesAreFinite
<1> HIDE DEF P, Q
<1>6. f \in Bijection(P, Q \ {1})
  <2>1. f \in [P -> Q \ {1}]
    BY <1>2
  <2>2. \A j, k \in P : f[j] = f[k] => j = k
    BY <1>2
  <2>3. \A k \in Q \ {1} : \E j \in P : f[j] = k
    <3> SUFFICES ASSUME NEW k \in Q \ {1} PROVE f[k - 1] = k
      BY <1>3
    <3> QED
      BY <1>3
  <2> HIDE DEF f
  <2> QED
    BY <2>1, <2>2, <2>3, Fun_IsBij
<1>7. Cardinality(Q \ {1}) = Cardinality(P)
  BY <1>5, <1>6, FS_Bijection DEF ExistsBijection
<1>8. Cardinality(Q \ {1}) = IF 1 \in Q THEN Cardinality(Q) - 1 ELSE Cardinality(Q)
  BY <1>5, FS_RemoveElement
<1> QED
  BY <1>4, <1>7, <1>8 DEF P, Q

\* What is sent comes behind what is queued.
LEMMA PlacesOfConcat ==
  ASSUME NEW T, NEW list \in Seq(T), NEW more \in Seq(T), NEW S
  PROVE  Cardinality(PlacesOf(list \o more, S))
           = Cardinality(PlacesOf(list, S)) + Cardinality(PlacesOf(more, S))
<1> DEFINE both == list \o more
           P == PlacesOf(list, S)
           M == PlacesOf(more, S)
           n == Len(list)
           f == [k \in M |-> n + k]
           Q == {k \in PlacesOf(both, S) : k > n}
<1>1. /\ both \in Seq(T) /\ Len(both) = n + Len(more) /\ n \in Nat /\ Len(more) \in Nat
      /\ \A k \in 1..(n + Len(more)) : both[k] = IF k <= n THEN list[k] ELSE more[k - n]
  <2>1. /\ list \o more \in Seq(T)
        /\ Len(list \o more) = Len(list) + Len(more)
        /\ \A k \in 1..(Len(list) + Len(more)) :
             (list \o more)[k] = IF k <= Len(list) THEN list[k] ELSE more[k - Len(list)]
    BY ConcatFacts, Zenon
  <2>2. Len(list) \in Nat /\ Len(more) \in Nat
    OBVIOUS
  <2> QED
    BY <2>1, <2>2, Zenon
<1> HIDE DEF both
<1>2. \A k \in P : k \in 1..n /\ k \in PlacesOf(both, S)
  BY <1>1 DEF PlacesOf
<1>3. \A k \in PlacesOf(both, S) : k \in Nat /\ (k <= n => k \in P)
  BY <1>1 DEF PlacesOf
<1>4. \A k \in M : k \in Nat /\ n + k \in Q
  <2> SUFFICES ASSUME NEW k \in M PROVE k \in Nat /\ n + k \in Q
    OBVIOUS
  <2>1. k \in 1..Len(more) /\ more[k] \in S
    BY DEF PlacesOf
  <2>2. n + k \in 1..(n + Len(more)) /\ ~(n + k <= n) /\ (n + k) - n = k /\ n + k > n
    BY <1>1, <2>1
  <2>3. both[n + k] = more[k]
    BY <1>1, <2>2
  <2> QED
    BY <1>1, <2>1, <2>2, <2>3 DEF PlacesOf
<1>5. \A k \in Q : k \in Nat /\ k - n \in M
  <2> SUFFICES ASSUME NEW k \in Q PROVE k \in Nat /\ k - n \in M
    OBVIOUS
  <2>1. k \in 1..(n + Len(more)) /\ both[k] \in S /\ k > n
    BY <1>1 DEF PlacesOf
  <2>2. k - n \in 1..Len(more) /\ ~(k <= n)
    BY <1>1, <2>1
  <2>3. both[k] = more[k - n]
    BY <1>1, <2>1, <2>2
  <2> QED
    BY <1>1, <2>1, <2>2, <2>3 DEF PlacesOf
<1>6. /\ IsFiniteSet(P) /\ IsFiniteSet(M)
      /\ Cardinality(P) \in Nat /\ Cardinality(M) \in Nat
  BY PlacesAreFinite
<1>7. PlacesOf(both, S) = P \cup Q /\ P \cap Q = {}
  BY <1>1, <1>2, <1>3
<1> HIDE DEF P, M, Q
<1>8. f \in Bijection(M, Q)
  <2>1. f \in [M -> Q]
    BY <1>4
  <2>2. \A j, k \in M : f[j] = f[k] => j = k
    BY <1>1, <1>4
  <2>3. \A k \in Q : \E j \in M : f[j] = k
    <3> SUFFICES ASSUME NEW k \in Q PROVE f[k - n] = k
      BY <1>5
    <3> QED
      BY <1>1, <1>5
  <2> HIDE DEF f
  <2> QED
    BY <2>1, <2>2, <2>3, Fun_IsBij
<1>9. IsFiniteSet(Q) /\ Cardinality(Q) = Cardinality(M)
  BY <1>6, <1>8, FS_Bijection DEF ExistsBijection
<1>10. Cardinality(P \cap Q) = 0
  BY <1>7, FS_EmptySet
<1>11. Cardinality(P \cup Q) = Cardinality(P) + Cardinality(Q) - Cardinality(P \cap Q)
  BY <1>6, <1>9, FS_Union
<1> QED
  BY <1>6, <1>7, <1>9, <1>10, <1>11 DEF both, P, M
=============================================================================
