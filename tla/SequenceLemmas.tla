--------------------------- MODULE SequenceLemmas ---------------------------
(***************************************************************************)
(* Lemmas about numbers, recursive functions and sequences that the proofs *)
(* about the models share.                                                 *)
(*                                                                         *)
(* What a recursive function computes is proved by induction, in the form  *)
(* in which the provers can use it: every set of numbers has a least one   *)
(* (Least), so a set that holds 0 and the successor of each of its members *)
(* holds all (Induction); and a function with a given rule exists, with    *)
(* its values in the set the rule keeps (Recursion).                       *)
(***************************************************************************)
EXTENDS Integers, SequencesExt, SequenceTheorems, WellFoundedInduction, TLAPS

(*------------------------- induction and recursion -----------------------*)

LEMMA LessIsWellFounded == IsWellFoundedOn({ss \in Nat \X Nat : ss[1] < ss[2]}, Nat)
  BY NatLessThanWellFounded DEF OpToRel

LEMMA Least ==
  ASSUME NEW U \in SUBSET Nat, U # {}
  PROVE  \E n \in U : \A m \in U : n <= m
<1> DEFINE R == {ss \in Nat \X Nat : ss[1] < ss[2]}
<1>1. \E x \in U : \A y \in U : ~ (<<y, x>> \in R)
  <2>1. IsWellFoundedOn(R, Nat)
    BY LessIsWellFounded
  <2> HIDE DEF R
  <2> QED
    BY <2>1, WFMin, Zenon
<1>2. PICK x \in U : \A y \in U : ~ (<<y, x>> \in R)
  BY <1>1
<1>3. \A y \in U : ~ (y < x)
  <2> TAKE y \in U
  <2>1. <<y, x>> \notin R /\ y \in Nat /\ x \in Nat
    BY <1>2
  <2> QED
    BY <2>1
<1> QED
  BY <1>3

LEMMA Greatest ==
  ASSUME NEW U \in SUBSET Nat, U # {}, NEW b \in Nat, \A m \in U : m <= b
  PROVE  \E n \in U : \A m \in U : m <= n
<1> DEFINE V == {b - m : m \in U}
<1>1. V \in SUBSET Nat /\ V # {}
  <2>1. \A m \in U : b - m \in Nat
    OBVIOUS
  <2> QED
    BY <2>1
<1>2. PICK v \in V : \A w \in V : v <= w
  <2> HIDE DEF V
  <2> QED
    BY <1>1, Least
<1>3. PICK n \in U : v = b - n
  OBVIOUS
<1>4. \A m \in U : m <= n
  <2> TAKE m \in U
  <2>1. b - m \in V
    OBVIOUS
  <2>2. b - n <= b - m
    BY <1>2, <1>3, <2>1
  <2>3. m \in Nat /\ n \in Nat
    BY <1>3
  <2> QED
    BY <2>2, <2>3
<1> QED
  BY <1>4

LEMMA Induction ==
  ASSUME NEW n \in Nat, NEW T, 0 \in T, \A i \in 0 .. n - 1 : i \in T => i + 1 \in T
  PROVE  \A i \in 0 .. n : i \in T
<1> DEFINE U == {i \in 0 .. n : i \notin T}
<1>1. SUFFICES ASSUME U # {} PROVE FALSE
  OBVIOUS
<1>2. PICK i \in U : \A j \in U : i <= j
  <2>1. U \in SUBSET Nat
    OBVIOUS
  <2> HIDE DEF U
  <2> QED
    BY <1>1, <2>1, Least
<1>3. i - 1 \in 0 .. n - 1 /\ i - 1 \notin U
  BY <1>2
<1> QED
  BY <1>2, <1>3

(* A function defined by recursion over 0 .. n exists, when its rule keeps
   its values in a set. *)
Rules(n, S) == [(1 .. n) \X S -> S]

Obeys(f, n, S, base, rule) ==
  f \in [0 .. n -> S] /\ f[0] = base /\ \A i \in 1 .. n : f[i] = rule[<<i, f[i - 1]>>]

LEMMA Recursion ==
  ASSUME NEW n \in Nat, NEW S, NEW base \in S, NEW rule \in Rules(n, S)
  PROVE  \E f : Obeys(f, n, S, base, rule)
<1> USE DEF Rules
<1> DEFINE Upto(k, f) == f = [i \in 0 .. k |-> IF i = 0 THEN base ELSE rule[<<i, f[i - 1]>>]]
           T == {k \in 0 .. n : \E f \in [0 .. k -> S] : Upto(k, f)}
<1>1. 0 \in T
  <2> DEFINE f == [i \in 0 .. 0 |-> base]
  <2>1. f \in [0 .. 0 -> S] /\ \A i \in 0 .. 0 : i = 0 /\ f[i] = base
    OBVIOUS
  <2>2. Upto(0, f)
    <3> HIDE DEF f
    <3> QED
      BY <2>1
  <2>3. 0 \in 0 .. n
    OBVIOUS
  <2> HIDE DEF f, Upto
  <2> QED
    BY <2>1, <2>2, <2>3
<1>2. ASSUME NEW k \in 0 .. n - 1, k \in T PROVE k + 1 \in T
  <2>1. PICK f \in [0 .. k -> S] : Upto(k, f)
    BY <1>2
  <2> DEFINE g == [i \in 0 .. k + 1 |-> IF i = k + 1 THEN rule[<<k + 1, f[k]>>] ELSE f[i]]
  <2>2. g \in [0 .. k + 1 -> S]
    <3>1. <<k + 1, f[k]>> \in (1 .. n) \X S
      OBVIOUS
    <3>2. rule[<<k + 1, f[k]>>] \in S
      BY <3>1
    <3> QED
      BY <3>2
  <2>3. \A i \in 0 .. k + 1 : g[i] = IF i = 0 THEN base ELSE rule[<<i, g[i - 1]>>]
    <3> TAKE i \in 0 .. k + 1
    <3>1. CASE i = k + 1
      <4>1. g[k + 1] = rule[<<k + 1, f[k]>>] /\ g[k] = f[k] /\ k + 1 # 0
        OBVIOUS
      <4>2. i - 1 = k /\ i # 0
        BY <3>1
      <4> HIDE DEF g, Upto
      <4>3. g[i] = rule[<<i, g[i - 1]>>]
        BY <3>1, <4>1, <4>2, Zenon
      <4> QED
        BY <4>2, <4>3
    <3>2. CASE i # k + 1
      <4>1. i \in 0 .. k /\ g[i] = f[i] /\ (i # 0 => g[i - 1] = f[i - 1])
        BY <3>2
      <4>2. f[i] = IF i = 0 THEN base ELSE rule[<<i, f[i - 1]>>]
        BY <2>1, <4>1
      <4> HIDE DEF g, Upto
      <4> QED
        BY <4>1, <4>2
    <3> QED
      BY <3>1, <3>2
  <2>4. Upto(k + 1, g)
    <3> HIDE DEF g
    <3> QED
      BY <2>2, <2>3
  <2>5. k + 1 \in 0 .. n
    OBVIOUS
  <2> HIDE DEF g, Upto
  <2> QED
    BY <2>2, <2>4, <2>5
<1>3. n \in T
  <2> HIDE DEF T
  <2> QED
    BY <1>1, <1>2, Induction
<1>4. PICK f \in [0 .. n -> S] : Upto(n, f)
  BY <1>3
<1>5. f[0] = base /\ \A i \in 1 .. n : f[i] = rule[<<i, f[i - 1]>>]
  BY <1>4
<1> QED
  BY <1>5 DEF Obeys

(* Its values stay in that set. *)
LEMMA RecursionType ==
  ASSUME NEW n \in Nat, NEW S, NEW base \in S, NEW rule \in Rules(n, S), NEW f,
         f[0] = base, \A i \in 1 .. n : f[i - 1] \in S => f[i] = rule[<<i, f[i - 1]>>]
  PROVE  \A i \in 0 .. n : f[i] \in S
<1> DEFINE T == {i \in 0 .. n : f[i] \in S}
<1>1. 0 \in T
  OBVIOUS
<1>2. ASSUME NEW i \in 0 .. n - 1, i \in T PROVE i + 1 \in T
  <2>1. i + 1 \in 1 .. n /\ i + 1 \in 0 .. n /\ (i + 1) - 1 = i /\ f[i] \in S
    BY <1>2
  <2>2. f[i + 1] = rule[<<i + 1, f[i]>>] /\ <<i + 1, f[i]>> \in (1 .. n) \X S
    BY <2>1
  <2> QED
    BY <2>1, <2>2 DEF Rules
<1> HIDE DEF T
<1>3. \A i \in 0 .. n : i \in T
  BY <1>1, <1>2, Induction
<1> QED
  BY <1>3 DEF T

(* Flattening appends one sequence after the other. *)
LEMMA FlattenSteps ==
  ASSUME NEW S, NEW seqs \in Seq(Seq(S))
  PROVE  \E f \in [0 .. Len(seqs) -> Seq(S)] :
           /\ f[0] = <<>> /\ \A i \in 1 .. Len(seqs) : f[i] = f[i - 1] \o seqs[i]
           /\ FlattenSeq(seqs) = f[Len(seqs)]
<1> DEFINE n == Len(seqs)
           V == Seq(S)
           Is(f) == f = [i \in 1 .. n |-> IF i = 1 THEN seqs[i] ELSE f[i - 1] \o seqs[i]]
           rule == [p \in (1 .. n) \X V |-> p[2] \o seqs[p[1]]]
           h == CHOOSE f : Is(f)
<1>1. n \in Nat /\ <<>> \in V /\ \A i \in 1 .. n : seqs[i] \in V
  OBVIOUS
<1>2. rule \in Rules(n, V)
  <2>1. ASSUME NEW p \in (1 .. n) \X V PROVE p[2] \o seqs[p[1]] \in V
    <3>1. seqs[p[1]] \in Seq(S) /\ p[2] \in Seq(S)
      BY <1>1
    <3> QED
      BY <3>1, ConcatProperties
  <2> HIDE DEF V, n
  <2> QED
    BY <2>1 DEF Rules
<1>3. \A i \in 1 .. n, x \in V : rule[<<i, x>>] = x \o seqs[i]
  <2> HIDE DEF V, n
  <2> QED
    OBVIOUS
<1>4. PICK f : Obeys(f, n, V, <<>>, rule)
  <2> HIDE DEF rule, n, V
  <2> QED
    BY <1>1, <1>2, Recursion
<1>5. /\ f \in [0 .. n -> V] /\ f[0] = <<>>
      /\ \A i \in 1 .. n : f[i - 1] \in V /\ f[i] = f[i - 1] \o seqs[i]
  <2>1. \A i \in 1 .. n : i - 1 \in 0 .. n
    BY <1>1
  <2> HIDE DEF rule, n, V
  <2> QED
    BY <1>3, <1>4, <2>1 DEF Obeys
<1>6. 1 <= n => f[1] = seqs[1]
  <2>1. CASE 1 <= n
    <3>1. 1 \in 1 .. n /\ 1 - 1 = 0
      BY <1>1, <2>1
    <3>2. f[1] = <<>> \o seqs[1] /\ seqs[1] \in Seq(S)
      <4> HIDE DEF n
      <4> QED
        BY <1>1, <1>5, <3>1
    <3> QED
      BY <3>2, ConcatEmptySeq
  <2> QED
    BY <2>1
<1> DEFINE g == [i \in 1 .. n |-> f[i]]
<1>7. Is(g)
  <2>1. ASSUME NEW i \in 1 .. n
        PROVE  g[i] = IF i = 1 THEN seqs[i] ELSE g[i - 1] \o seqs[i]
    <3>1. CASE i = 1
      <4>1. 1 \in 1 .. n /\ 1 <= n
        BY <1>1, <3>1
      <4> HIDE DEF n, V, rule
      <4> QED
        BY <1>6, <3>1, <4>1
    <3>2. CASE i # 1
      <4>1. i - 1 \in 1 .. n
        BY <1>1, <3>2
      <4> HIDE DEF n, V, rule
      <4>2. f[i] = f[i - 1] \o seqs[i] /\ g[i] = f[i] /\ g[i - 1] = f[i - 1]
        BY <1>5, <4>1
      <4> QED
        BY <3>2, <4>2
    <3> QED
      BY <3>1, <3>2
  <2>2. g = [i \in 1 .. n |-> g[i]]
    OBVIOUS
  <2> HIDE DEF g, n
  <2> QED
    BY <2>1, <2>2, Zenon
<1>8. Is(h)
  <2> HIDE DEF Is, g
  <2> QED
    BY <1>7
<1>9. \A i \in 1 .. n : h[i] = IF i = 1 THEN seqs[i] ELSE h[i - 1] \o seqs[i]
  <2> HIDE DEF h, n
  <2> QED
    BY <1>8
<1> DEFINE T == {i \in 0 .. n : i = 0 \/ h[i] = f[i]}
<1>10. 0 \in T
  BY <1>1
<1>11. ASSUME NEW i \in 0 .. n - 1, i \in T PROVE i + 1 \in T
  <2>1. i + 1 \in 1 .. n /\ i + 1 \in 0 .. n /\ (i + 1) - 1 = i /\ (i + 1 = 1 <=> i = 0)
    BY <1>1
  <2>2. h[i + 1] = IF i + 1 = 1 THEN seqs[i + 1] ELSE h[i] \o seqs[i + 1]
    <3> HIDE DEF h, n
    <3> QED
      BY <1>9, <2>1
  <2>3. f[i + 1] = f[i] \o seqs[i + 1]
    <3> HIDE DEF n, V, rule
    <3> QED
      BY <1>5, <2>1
  <2>4. h[i + 1] = f[i + 1]
    <3>1. CASE i = 0
      <4> HIDE DEF h, n, V, rule
      <4> QED
        BY <1>6, <2>1, <2>2, <3>1
    <3>2. CASE i # 0
      <4>1. h[i] = f[i]
        BY <1>11, <3>2
      <4> HIDE DEF h, n, V, rule
      <4> QED
        BY <2>1, <2>2, <2>3, <3>2, <4>1
    <3> QED
      BY <3>1, <3>2
  <2> HIDE DEF h, n
  <2> QED
    BY <2>1, <2>4
<1>12. \A i \in 0 .. n : i \in T
  <2> HIDE DEF T, n
  <2> QED
    BY <1>1, <1>10, <1>11, Induction
<1>13. FlattenSeq(seqs) = IF n = 0 THEN seqs ELSE h[n]
  BY DEF FlattenSeq
<1>14. FlattenSeq(seqs) = f[n]
  <2>1. CASE n = 0
    <3>1. seqs = <<>>
      BY <2>1
    <3> QED
      BY <1>5, <1>13, <2>1, <3>1
  <2>2. CASE n # 0
    <3>1. n \in 0 .. n
      BY <1>1
    <3>2. h[n] = f[n]
      <4> HIDE DEF h, n
      <4> QED
        BY <1>12, <2>2, <3>1
    <3> QED
      BY <1>13, <2>2, <3>2
  <2> QED
    BY <2>1, <2>2
<1> HIDE DEF h, rule
<1> QED
  BY <1>5, <1>14

(* A set of sequences that is closed under concatenation holds what its
   members are flattened to. *)
LEMMA FlattenClosed ==
  ASSUME NEW S, NEW G \in SUBSET Seq(S), <<>> \in G, \A x, y \in G : x \o y \in G,
         NEW seqs \in Seq(G)
  PROVE  FlattenSeq(seqs) \in G
<1> DEFINE n == Len(seqs)
<1>1. seqs \in Seq(Seq(S)) /\ n \in Nat /\ \A i \in 1 .. n : seqs[i] \in G
  OBVIOUS
<1>2. PICK f \in [0 .. n -> Seq(S)] :
        /\ f[0] = <<>> /\ \A i \in 1 .. n : f[i] = f[i - 1] \o seqs[i]
        /\ FlattenSeq(seqs) = f[n]
  BY <1>1, FlattenSteps
<1> DEFINE T == {i \in 0 .. n : f[i] \in G}
<1>3. 0 \in T
  BY <1>1, <1>2
<1>4. ASSUME NEW i \in 0 .. n - 1, i \in T PROVE i + 1 \in T
  <2>1. i + 1 \in 1 .. n /\ i + 1 \in 0 .. n /\ (i + 1) - 1 = i /\ f[i] \in G
    BY <1>1, <1>4
  <2>2. f[i + 1] = f[i] \o seqs[i + 1]
    <3> HIDE DEF n
    <3> QED
      BY <1>2, <2>1
  <2>3. f[i + 1] \in G
    <3> HIDE DEF n
    <3> QED
      BY <1>1, <2>1, <2>2
  <2> QED
    BY <2>1, <2>3
<1>5. \A i \in 0 .. n : i \in T
  <2> HIDE DEF T, n
  <2> QED
    BY <1>1, <1>3, <1>4, Induction
<1>6. n \in 0 .. n
  BY <1>1
<1> HIDE DEF n
<1> QED
  BY <1>2, <1>5, <1>6

(* The concatenation of sequences over a set is one over that set. *)
LEMMA FlattenType ==
  ASSUME NEW S, NEW seqs \in Seq(Seq(S))
  PROVE  FlattenSeq(seqs) \in Seq(S)
<1> DEFINE G == Seq(S)
<1>1. G \in SUBSET Seq(S) /\ <<>> \in G /\ seqs \in Seq(G)
  OBVIOUS
<1>2. \A x, y \in G : x \o y \in G
  BY ConcatProperties
<1> HIDE DEF G
<1>3. FlattenSeq(seqs) \in G
  BY <1>1, <1>2, FlattenClosed
<1> QED
  BY <1>3 DEF G

(* Where the elements of each sequence are: behind those of the sequences
   before it, in their order. *)
PlacesOf(at, seqs, all) ==
  /\ at \in [0 .. Len(seqs) -> Nat] /\ at[0] = 0 /\ Len(all) = at[Len(seqs)]
  /\ \A i \in 1 .. Len(seqs) : at[i] = at[i - 1] + Len(seqs[i])
  /\ \A i \in 1 .. Len(seqs) : \A k \in 1 .. Len(seqs[i]) : all[at[i - 1] + k] = seqs[i][k]
  /\ \A m \in 1 .. Len(all) : \E i \in 1 .. Len(seqs) : at[i - 1] < m /\ m <= at[i]
  /\ \A i, j \in 0 .. Len(seqs) : i <= j => at[i] <= at[j]

LEMMA PlacesOfNone == ASSUME NEW at, at = [i \in 0 .. 0 |-> 0] PROVE PlacesOf(at, <<>>, <<>>)
  BY DEF PlacesOf

LEMMA PlacesOfOneMore ==
  ASSUME NEW S, NEW seqs \in Seq(Seq(S)), NEW all \in Seq(S), NEW at, PlacesOf(at, seqs, all),
         NEW last \in Seq(S)
  PROVE  \E up : PlacesOf(up, Append(seqs, last), all \o last)
<1> DEFINE n == Len(seqs)
           more == Append(seqs, last)
           both == all \o last
           up == [i \in 0 .. n + 1 |-> IF i <= n THEN at[i] ELSE Len(all) + Len(last)]
<1>1. /\ n \in Nat /\ more \in Seq(Seq(S)) /\ Len(more) = n + 1
      /\ more[n + 1] = last /\ \A i \in 1 .. n : more[i] = seqs[i]
  BY AppendProperties
<1>2. /\ both \in Seq(S) /\ Len(both) = Len(all) + Len(last)
      /\ \A k \in 1 .. Len(all) + Len(last) :
           both[k] = IF k <= Len(all) THEN all[k] ELSE last[k - Len(all)]
  BY ConcatProperties
<1>3. Len(all) \in Nat /\ Len(last) \in Nat /\ \A i \in 1 .. n : seqs[i] \in Seq(S) /\ Len(seqs[i]) \in Nat
  OBVIOUS
<1>4. /\ at \in [0 .. n -> Nat] /\ at[0] = 0 /\ Len(all) = at[n]
      /\ \A i \in 1 .. n : at[i] = at[i - 1] + Len(seqs[i])
      /\ \A i \in 1 .. n : \A k \in 1 .. Len(seqs[i]) : all[at[i - 1] + k] = seqs[i][k]
      /\ \A m \in 1 .. Len(all) : \E i \in 1 .. n : at[i - 1] < m /\ m <= at[i]
      /\ \A i, j \in 0 .. n : i <= j => at[i] <= at[j]
  BY DEF PlacesOf
<1> HIDE DEF n, more, both
<1>5. /\ up[n + 1] = Len(all) + Len(last) /\ \A i \in 0 .. n : up[i] = at[i]
      /\ up \in [0 .. n + 1 -> Nat]
  BY <1>1, <1>3, <1>4
<1> HIDE DEF up
<1>6. \A i \in 1 .. n : i - 1 \in 0 .. n /\ i \in 0 .. n /\ at[i] <= Len(all)
  <2>1. n \in 0 .. n /\ \A i \in 1 .. n : i - 1 \in 0 .. n /\ i \in 0 .. n /\ i <= n
    BY <1>1
  <2> QED
    BY <1>4, <2>1
<1>7. \A i \in 1 .. n + 1 : i \in 1 .. n \/ i = n + 1
  BY <1>1
<1>8. up[n] = Len(all) /\ up[0] = 0 /\ (n + 1) - 1 = n
  BY <1>1, <1>4, <1>5
<1>9. ASSUME NEW i \in 1 .. n + 1
      PROVE  /\ up[i] = up[i - 1] + Len(more[i])
             /\ \A k \in 1 .. Len(more[i]) : both[up[i - 1] + k] = more[i][k]
  <2>1. CASE i = n + 1
    <3>1. up[i] = Len(all) + Len(last) /\ up[i - 1] = Len(all) /\ more[i] = last
      BY <1>1, <1>5, <1>8, <2>1
    <3>2. ASSUME NEW k \in 1 .. Len(last) PROVE both[Len(all) + k] = last[k]
      <4>1. /\ Len(all) + k \in 1 .. Len(all) + Len(last) /\ ~ (Len(all) + k <= Len(all))
            /\ (Len(all) + k) - Len(all) = k
        BY <1>3
      <4> QED
        BY <1>2, <4>1
    <3> QED
      BY <3>1, <3>2
  <2>2. CASE i \in 1 .. n
    <3>1. /\ up[i] = at[i] /\ up[i - 1] = at[i - 1] /\ more[i] = seqs[i]
          /\ at[i] = at[i - 1] + Len(seqs[i]) /\ at[i] <= Len(all)
          /\ at[i - 1] \in Nat /\ Len(seqs[i]) \in Nat
      BY <1>1, <1>3, <1>4, <1>5, <1>6, <2>2
    <3>2. ASSUME NEW k \in 1 .. Len(seqs[i]) PROVE both[at[i - 1] + k] = seqs[i][k]
      <4>1. at[i - 1] + k \in 1 .. Len(all) + Len(last) /\ at[i - 1] + k <= Len(all)
        <5> DEFINE p == at[i - 1]
                   q == Len(seqs[i])
                   a == Len(all)
                   b == Len(last)
        <5>1. p \in Nat /\ q \in Nat /\ a \in Nat /\ b \in Nat /\ p + q <= a /\ k \in 1 .. q
          BY <1>3, <3>1
        <5> HIDE DEF p, q, a, b
        <5>2. p + k \in 1 .. a + b /\ p + k <= a
          BY <5>1
        <5> QED
          BY <5>2 DEF p, a, b
      <4> QED
        BY <1>2, <1>4, <2>2, <4>1
    <3> QED
      BY <3>1, <3>2
  <2> QED
    BY <1>7, <2>1, <2>2
<1>10. ASSUME NEW m \in 1 .. Len(both) PROVE \E i \in 1 .. n + 1 : up[i - 1] < m /\ m <= up[i]
  <2>1. CASE m <= Len(all)
    <3>1. PICK i \in 1 .. n : at[i - 1] < m /\ m <= at[i]
      BY <1>2, <1>3, <1>4, <2>1
    <3>2. i \in 1 .. n + 1 /\ up[i - 1] = at[i - 1] /\ up[i] = at[i]
      <4>1. i \in 1 .. n + 1 /\ i \in 0 .. n /\ i - 1 \in 0 .. n
        BY <1>1
      <4> QED
        BY <1>5, <4>1
    <3> QED
      BY <3>1, <3>2
  <2>2. CASE m > Len(all)
    <3>1. n + 1 \in 1 .. n + 1 /\ up[(n + 1) - 1] < m /\ m <= up[n + 1]
      BY <1>1, <1>2, <1>3, <1>5, <1>8, <2>2
    <3> QED
      BY <3>1
  <2> QED
    BY <1>2, <1>3, <2>1, <2>2
<1>11. ASSUME NEW i \in 0 .. n + 1, NEW j \in 0 .. n + 1, i <= j PROVE up[i] <= up[j]
  <2>1. CASE j = n + 1
    <3>1. CASE i = n + 1
      BY <1>3, <1>5, <2>1, <3>1
    <3>2. CASE i # n + 1
      <4>1. i \in 0 .. n /\ n \in 0 .. n /\ i <= n
        BY <1>1, <3>2
      <4>2. at[i] <= at[n] /\ up[i] = at[i] /\ at[i] \in Nat
        BY <1>4, <1>5, <4>1
      <4> QED
        BY <1>3, <1>4, <1>5, <2>1, <4>2
    <3> QED
      BY <3>1, <3>2
  <2>2. CASE j # n + 1
    <3>1. i \in 0 .. n /\ j \in 0 .. n
      BY <1>1, <1>11, <2>2
    <3> QED
      BY <1>4, <1>5, <1>11, <3>1
  <2> QED
    BY <2>1, <2>2
<1>12. PlacesOf(up, more, both)
  BY <1>1, <1>2, <1>5, <1>8, <1>9, <1>10, <1>11 DEF PlacesOf
<1> QED
  BY <1>12 DEF more, both

LEMMA FlattenPlaces ==
  ASSUME NEW S, NEW seqs \in Seq(Seq(S))
  PROVE  \E at : PlacesOf(at, seqs, FlattenSeq(seqs))
<1> DEFINE n == Len(seqs)
<1>1. n \in Nat /\ \A i \in 1 .. n : seqs[i] \in Seq(S)
  OBVIOUS
<1>2. PICK f \in [0 .. n -> Seq(S)] :
        /\ f[0] = <<>> /\ \A i \in 1 .. n : f[i] = f[i - 1] \o seqs[i]
        /\ FlattenSeq(seqs) = f[n]
  BY FlattenSteps
<1> DEFINE T == {i \in 0 .. n : \E at : PlacesOf(at, SubSeq(seqs, 1, i), f[i])}
<1>3. 0 \in T
  <2>1. SubSeq(seqs, 1, 0) = <<>>
    BY SubSeqEmpty
  <2> DEFINE none == [i \in 0 .. 0 |-> 0]
  <2>2. PlacesOf(none, SubSeq(seqs, 1, 0), f[0])
    BY <1>2, <2>1, PlacesOfNone
  <2>3. 0 \in 0 .. n
    BY <1>1
  <2> HIDE DEF n, none
  <2> QED
    BY <2>2, <2>3
<1>4. ASSUME NEW i \in 0 .. n - 1, i \in T PROVE i + 1 \in T
  <2>1. i + 1 \in 1 .. n /\ i + 1 \in 0 .. n /\ i \in 0 .. n /\ (i + 1) - 1 = i
    BY <1>1
  <2>2. PICK at : PlacesOf(at, SubSeq(seqs, 1, i), f[i])
    BY <1>4
  <2>3. SubSeq(seqs, 1, i + 1) = Append(SubSeq(seqs, 1, i), seqs[i + 1])
    <3>1. SubSeq(seqs, 1, i) \in Seq(Seq(S)) /\ seqs[i + 1] \in Seq(S)
      BY <1>1, <2>1
    <3>2. 1 \in 1 .. Len(seqs) /\ i + 1 \in 1 .. Len(seqs)
      BY <1>1, <2>1
    <3>3. SubSeq(seqs, 1, i + 1) = SubSeq(seqs, 1, i) \o <<seqs[i + 1]>>
      BY <2>1, <3>2, SubSeqRecursiveSecond
    <3> QED
      BY <3>1, <3>3, AppendIsConcat
  <2>4. SubSeq(seqs, 1, i) \in Seq(Seq(S)) /\ seqs[i + 1] \in Seq(S) /\ f[i] \in Seq(S)
    <3>1. SubSeq(seqs, 1, i) \in Seq(Seq(S))
      BY <1>1, <2>1
    <3> HIDE DEF n
    <3> QED
      BY <1>1, <1>2, <2>1, <3>1
  <2>5. f[i + 1] = f[i] \o seqs[i + 1]
    <3> HIDE DEF n
    <3> QED
      BY <1>2, <2>1
  <2> HIDE DEF n
  <2>6. \E up : PlacesOf(up, SubSeq(seqs, 1, i + 1), f[i + 1])
    BY <2>2, <2>3, <2>4, <2>5, PlacesOfOneMore
  <2> QED
    BY <2>1, <2>6
<1>5. \A i \in 0 .. n : i \in T
  <2> HIDE DEF T, n
  <2> QED
    BY <1>1, <1>3, <1>4, Induction
<1>6. n \in 0 .. n /\ SubSeq(seqs, 1, n) = seqs
  BY <1>1, SubSeqFull
<1>7. \E at : PlacesOf(at, SubSeq(seqs, 1, n), f[n])
  <2> HIDE DEF n
  <2> QED
    BY <1>5, <1>6
<1> HIDE DEF n
<1> QED
  BY <1>2, <1>6, <1>7

(* The parts of a sequence that was appended to, or can be taken apart. *)
LEMMA FrontOfAppend ==
  ASSUME NEW S, NEW s \in Seq(S), NEW e \in S
  PROVE  /\ Append(s, e) \in Seq(S) /\ Append(s, e) # <<>>
         /\ Front(Append(s, e)) = s /\ Last(Append(s, e)) = e
<1> DEFINE u == Append(s, e)
<1>1. /\ u \in Seq(S) /\ u # <<>> /\ Len(s) \in Nat /\ Len(u) = Len(s) + 1
      /\ u[Len(s) + 1] = e /\ \A i \in 1 .. Len(s) : u[i] = s[i]
  BY AppendProperties
<1> HIDE DEF u
<1>2. Last(u) = e
  BY <1>1 DEF Last
<1>3. Front(u) = s
  <2>1. Len(u) - 1 = Len(s)
    BY <1>1
  <2>2. SubSeq(u, 1, Len(s)) = s
    BY <1>1
  <2> QED
    BY <2>1, <2>2 DEF Front
<1> QED
  BY <1>1, <1>2, <1>3 DEF u

LEMMA FrontAndLast ==
  ASSUME NEW S, NEW s \in Seq(S), s # <<>>
  PROVE  /\ Front(s) \in Seq(S) /\ Last(s) \in S /\ s = Append(Front(s), Last(s))
         /\ Len(Front(s)) = Len(s) - 1
<1>1. PICK x \in Seq(S), e \in S : s = Append(x, e)
  BY SequenceEmptyOrAppend
<1>2. Front(s) = x /\ Last(s) = e
  BY <1>1, FrontOfAppend
<1>3. Len(s) = Len(x) + 1 /\ Len(x) \in Nat
  BY <1>1, AppendProperties
<1> QED
  BY <1>1, <1>2, <1>3

LEMMA SubSeqOne ==
  ASSUME NEW S, NEW s \in Seq(S), NEW i \in 1 .. Len(s)
  PROVE  SubSeq(s, i, i) = <<s[i]>>
<1>1. i \in i .. Len(s) /\ i \in Int /\ i + 1 \in Int /\ i < i + 1 /\ s[i] \in S
  OBVIOUS
<1>2. SubSeq(s, i, i) = <<s[i]>> \o SubSeq(s, i + 1, i)
  BY <1>1, SubSeqRecursiveFirst
<1>3. SubSeq(s, i + 1, i) = <<>>
  BY <1>1, SubSeqEmpty
<1>4. <<s[i]>> \o <<>> = <<s[i]>>
  BY <1>1
<1> QED
  BY <1>2, <1>3, <1>4

(* A part of two sequences that are the same there. *)
LEMMA SubSeqSame ==
  ASSUME NEW S, NEW s \in Seq(S), NEW u \in Seq(S), NEW a \in 1 .. Len(s) + 1, NEW b \in 0 .. Len(s),
         Len(u) = Len(s), \A j \in a .. b : s[j] = u[j]
  PROVE  SubSeq(s, a, b) = SubSeq(u, a, b)
<1> DEFINE x == SubSeq(s, a, b)
           y == SubSeq(u, a, b)
           n == IF a <= b THEN b - a + 1 ELSE 0
<1>1. /\ a \in Int /\ b \in Int
      /\ \A j \in a .. b : s[j] \in S /\ u[j] \in S
  OBVIOUS
<1>2. /\ x \in Seq(S) /\ Len(x) = n /\ y \in Seq(S) /\ Len(y) = n
      /\ \A i \in 1 .. b - a + 1 : x[i] = s[a + i - 1] /\ y[i] = u[a + i - 1]
  BY <1>1, SubSeqProperties
<1>3. \A i \in 1 .. n : i \in 1 .. b - a + 1 /\ a + i - 1 \in a .. b
  OBVIOUS
<1> HIDE DEF x, y, n
<1>4. \A i \in 1 .. n : x[i] = y[i]
  BY <1>2, <1>3
<1>5. x = y
  BY <1>2, <1>4, SeqEqual
<1> QED
  BY <1>5 DEF x, y

(* A set that holds the empty sequence and, with a sequence, each one that
   is longer by an element, holds all sequences. *)
LEMMA SequenceInduction ==
  ASSUME NEW S, NEW T, <<>> \in T,
         \A s \in Seq(S), e \in S : s \in T => Append(s, e) \in T
  PROVE  \A s \in Seq(S) : s \in T
<1> TAKE s \in Seq(S)
<1> DEFINE n == Len(s)
           U == {i \in 0 .. n : SubSeq(s, 1, i) \in T}
<1>1. n \in Nat /\ s = SubSeq(s, 1, n)
  BY SubSeqFull
<1>2. 0 \in U
  <2>1. SubSeq(s, 1, 0) = <<>> /\ 0 \in 0 .. n
    BY <1>1, SubSeqEmpty
  <2> QED
    BY <2>1
<1>3. ASSUME NEW i \in 0 .. n - 1, i \in U PROVE i + 1 \in U
  <2>1. i + 1 \in 0 .. n /\ SubSeq(s, 1, i) \in T
    BY <1>1, <1>3
  <2>2. SubSeq(s, 1, i) \in Seq(S) /\ s[i + 1] \in S
    BY <1>1
  <2>3. SubSeq(s, 1, i + 1) = Append(SubSeq(s, 1, i), s[i + 1])
    <3>1. 1 \in 1 .. Len(s) /\ i + 1 \in 1 .. Len(s) /\ (i + 1) - 1 = i
      BY <1>1
    <3>2. SubSeq(s, 1, i + 1) = SubSeq(s, 1, i) \o <<s[i + 1]>>
      BY <3>1, SubSeqRecursiveSecond
    <3> QED
      BY <2>2, <3>2, AppendIsConcat
  <2> QED
    BY <2>1, <2>2, <2>3
<1>4. n \in U
  <2>1. n \in 0 .. n
    BY <1>1
  <2> HIDE DEF U, n
  <2> QED
    BY <1>1, <1>2, <1>3, <2>1, Induction
<1> QED
  BY <1>1, <1>4
=============================================================================
