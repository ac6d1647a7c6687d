-------------------------- MODULE SessionTurnProofs --------------------------
(***************************************************************************)
(* Proofs about the turns of a session: its types (TypeCorrect), what a    *)
(* model without vision is given (TextModelsSeeNoImages) and what history  *)
(* a run for a message of the chat is given (HistoryIsTheEnd).             *)
(*                                                                         *)
(* The invariant IInv adds to TypeOK that a row of the dialogue belongs to *)
(* a run (what is read back as history is one of Shown), and that a run    *)
(* that is ready shows a model without vision texts only; both are made by *)
(* Assemble and kept by the other actions. HistoryIsLast is an argument    *)
(* about sequences (WindowIsLast): the rows that are not read hold a turn  *)
(* the run should see only if the rows that are read hold more than        *)
(* Surplus observed ones.                                                  *)
(***************************************************************************)
EXTENDS SessionTurn, SequenceLemmas

(*---------------------- the rows with a given mark -----------------------*)

(* The marked ones of a sequence, and of the sequence with a row more. *)
MarkedBy(h, s, observed) ==
  /\ h[0] = <<>>
  /\ \A i \in 1 .. Len(s) :
       h[i] = IF s[i].observed = observed THEN Append(h[i - 1], s[i]) ELSE h[i - 1]

LEMMA MarkedFunction ==
  ASSUME NEW S, NEW s \in Seq(S), NEW observed
  PROVE  \E h : MarkedBy(h, s, observed) /\ Marked(s, observed) = h[Len(s)]
<1> DEFINE n == Len(s)
           V == Seq(S)
           Next0(x, w) == IF w.observed = observed THEN Append(x, w) ELSE x
           Is(f) == f = [i \in 0 .. n |->
                           IF i = 0 THEN <<>>
                           ELSE IF s[i].observed = observed THEN Append(f[i - 1], s[i])
                           ELSE f[i - 1]]
           rule == [p \in (1 .. n) \X V |-> Next0(p[2], s[p[1]])]
           h == CHOOSE f : Is(f)
<1>1. n \in Nat /\ <<>> \in V /\ \A i \in 1 .. n : s[i] \in S
  OBVIOUS
<1>2. rule \in Rules(n, V)
  <2>1. ASSUME NEW p \in (1 .. n) \X V PROVE Next0(p[2], s[p[1]]) \in V
    <3>1. s[p[1]] \in S /\ p[2] \in Seq(S)
      OBVIOUS
    <3> QED
      BY <3>1, AppendProperties
  <2> HIDE DEF Next0, V, n
  <2> QED
    BY <2>1 DEF Rules
<1>3. \A i \in 1 .. n, x \in V : rule[<<i, x>>] = Next0(x, s[i])
  <2> HIDE DEF V, n, Next0
  <2> QED
    OBVIOUS
<1>4. PICK f : Obeys(f, n, V, <<>>, rule)
  <2> HIDE DEF rule, n, V
  <2> QED
    BY <1>1, <1>2, Recursion
<1>5. Is(f)
  <2>1. ASSUME NEW i \in 0 .. n PROVE f[i] = IF i = 0 THEN <<>> ELSE Next0(f[i - 1], s[i])
    <3> HIDE DEF rule, V, n, Next0
    <3>1. CASE i = 0
      BY <1>4, <3>1 DEF Obeys
    <3>2. CASE i # 0
      <4>1. i \in 1 .. n /\ i - 1 \in 0 .. n
        BY <1>1, <3>2
      <4>2. f[i - 1] \in V /\ f[i] = rule[<<i, f[i - 1]>>]
        BY <1>4, <4>1 DEF Obeys
      <4> QED
        BY <1>3, <3>2, <4>1, <4>2
    <3> QED
      BY <3>1, <3>2
  <2>2. f = [i \in 0 .. n |-> f[i]]
    <3> HIDE DEF rule, V, n
    <3> QED
      BY <1>4 DEF Obeys
  <2> HIDE DEF rule, V, n
  <2> QED
    BY <2>1, <2>2
<1>6. Is(h)
  <2> HIDE DEF Is
  <2> QED
    BY <1>5
<1>7. MarkedBy(h, s, observed)
  <2>1. ASSUME NEW i \in 0 .. n
        PROVE  h[i] = IF i = 0 THEN <<>>
                      ELSE IF s[i].observed = observed THEN Append(h[i - 1], s[i])
                      ELSE h[i - 1]
    <3> HIDE DEF h, n
    <3> QED
      BY <1>6
  <2>2. 0 \in 0 .. n /\ \A i \in 1 .. n : i \in 0 .. n /\ i # 0
    BY <1>1
  <2>3. h[0] = <<>> /\ \A i \in 1 .. n : h[i] = Next0(h[i - 1], s[i])
    <3> HIDE DEF h, n
    <3> QED
      BY <2>1, <2>2
  <2> HIDE DEF h
  <2> QED
    BY <2>3 DEF MarkedBy
<1>8. Marked(s, observed) = h[n]
  BY DEF Marked
<1> HIDE DEF h
<1> QED
  BY <1>7, <1>8

LEMMA MarkedNone ==
  ASSUME NEW observed PROVE Marked(<<>>, observed) = <<>>
<1>1. PICK h : MarkedBy(h, <<>>, observed) /\ Marked(<<>>, observed) = h[Len(<<>>)]
  <2>1. <<>> \in Seq({})
    OBVIOUS
  <2> QED
    BY <2>1, MarkedFunction
<1> QED
  BY <1>1 DEF MarkedBy

LEMMA MarkedAppend ==
  ASSUME NEW S, NEW s \in Seq(S), NEW w \in S, NEW observed
  PROVE  Marked(Append(s, w), observed) =
           IF w.observed = observed THEN Append(Marked(s, observed), w)
           ELSE Marked(s, observed)
<1> DEFINE n == Len(s)
           t == Append(s, w)
<1>1. n \in Nat /\ t \in Seq(S) /\ Len(t) = n + 1 /\ t[n + 1] = w
      /\ \A i \in 1 .. n : t[i] = s[i]
  OBVIOUS
<1> HIDE DEF t
<1>2. PICK g : MarkedBy(g, s, observed) /\ Marked(s, observed) = g[n]
  BY MarkedFunction
<1>3. PICK h : MarkedBy(h, t, observed) /\ Marked(t, observed) = h[n + 1]
  BY <1>1, MarkedFunction
<1> DEFINE T == {i \in 0 .. n : h[i] = g[i]}
<1>4. 0 \in T
  BY <1>1, <1>2, <1>3 DEF MarkedBy
<1>5. ASSUME NEW i \in 0 .. n - 1, i \in T PROVE i + 1 \in T
  <2>1. i + 1 \in 1 .. n /\ i + 1 \in 1 .. n + 1 /\ i + 1 \in 0 .. n /\ (i + 1) - 1 = i
    BY <1>1
  <2>2. h[i + 1] = IF t[i + 1].observed = observed THEN Append(h[i], t[i + 1]) ELSE h[i]
    BY <1>1, <1>3, <2>1 DEF MarkedBy
  <2>3. g[i + 1] = IF s[i + 1].observed = observed THEN Append(g[i], s[i + 1]) ELSE g[i]
    BY <1>2, <2>1 DEF MarkedBy
  <2>4. t[i + 1] = s[i + 1] /\ h[i] = g[i]
    BY <1>1, <1>5, <2>1
  <2> HIDE DEF n
  <2> QED
    BY <2>1, <2>2, <2>3, <2>4
<1>6. h[n] = g[n]
  <2>1. n \in 0 .. n
    BY <1>1
  <2>2. n \in T
    <3> HIDE DEF T, n
    <3> QED
      BY <1>1, <1>4, <1>5, <2>1, Induction
  <2> QED
    BY <2>2
<1>7. h[n + 1] = IF t[n + 1].observed = observed THEN Append(h[n], t[n + 1]) ELSE h[n]
  <2>1. n + 1 \in 1 .. n + 1 /\ (n + 1) - 1 = n
    BY <1>1
  <2> HIDE DEF n
  <2> QED
    BY <1>1, <1>3, <2>1 DEF MarkedBy
<1> HIDE DEF n
<1> QED
  BY <1>1, <1>2, <1>3, <1>6, <1>7 DEF t

LEMMA MarkedType ==
  ASSUME NEW S, NEW observed
  PROVE  \A s \in Seq(S) :
           /\ Marked(s, observed) \in Seq(S)
           /\ \A i \in DOMAIN Marked(s, observed) :
                /\ Marked(s, observed)[i].observed = observed
                /\ \E k \in DOMAIN s : s[k] = Marked(s, observed)[i]
<1> DEFINE Good(s) ==
             /\ Marked(s, observed) \in Seq(S)
             /\ \A i \in DOMAIN Marked(s, observed) :
                  /\ Marked(s, observed)[i].observed = observed
                  /\ \E k \in DOMAIN s : s[k] = Marked(s, observed)[i]
           T == {s \in Seq(S) : Good(s)}
<1>1. <<>> \in T
  <2>1. Marked(<<>>, observed) = <<>> /\ <<>> \in Seq(S)
    BY MarkedNone
  <2>2. Good(<<>>)
    <3>1. \A i \in DOMAIN <<>> : FALSE
      OBVIOUS
    <3> QED
      BY <2>1, <3>1, Zenon
  <2> HIDE DEF Good
  <2> QED
    BY <2>1, <2>2
<1>2. ASSUME NEW s \in Seq(S), NEW e \in S, s \in T PROVE Append(s, e) \in T
  <2> DEFINE m == Marked(s, observed)
             t == Append(s, e)
  <2>1. t \in Seq(S) /\ m \in Seq(S) /\ Len(t) = Len(s) + 1 /\ t[Len(s) + 1] = e
        /\ \A k \in DOMAIN s : k \in DOMAIN t /\ t[k] = s[k]
    BY <1>2
  <2>2. \A i \in DOMAIN m : m[i].observed = observed /\ \E k \in DOMAIN t : t[k] = m[i]
    <3>1. \A i \in DOMAIN m : m[i].observed = observed /\ \E k \in DOMAIN s : s[k] = m[i]
      BY <1>2
    <3> HIDE DEF m, t
    <3> QED
      BY <2>1, <3>1
  <2>3. \/ Marked(t, observed) = m
        \/ Marked(t, observed) = Append(m, e) /\ e.observed = observed
    <3>1. Marked(t, observed) = IF e.observed = observed THEN Append(m, e) ELSE m
      BY MarkedAppend
    <3> HIDE DEF m, t
    <3>2. CASE e.observed = observed
      BY <3>1, <3>2
    <3>3. CASE e.observed # observed
      BY <3>1, <3>3
    <3> QED
      BY <3>2, <3>3
  <2>4. CASE Marked(t, observed) = m
    <3>1. Good(t)
      <4> HIDE DEF m, t
      <4> QED
        BY <2>1, <2>2, <2>4
    <3> HIDE DEF Good
    <3> QED
      BY <2>1, <3>1
  <2>5. CASE Marked(t, observed) = Append(m, e) /\ e.observed = observed
    <3>1. Len(s) + 1 \in DOMAIN t
      <4> HIDE DEF t
      <4> QED
        BY <2>1
    <3>2. \A i \in DOMAIN Append(m, e) : \/ i \in DOMAIN m /\ Append(m, e)[i] = m[i]
                                        \/ Append(m, e)[i] = e
      <4> HIDE DEF m
      <4> QED
        BY <2>1
    <3>3. Good(t)
      <4>1. Append(m, e) \in Seq(S)
        <5> HIDE DEF m
        <5> QED
          BY <2>1
      <4> HIDE DEF m, t
      <4> QED
        BY <2>1, <2>2, <2>5, <3>1, <3>2, <4>1
    <3> HIDE DEF Good
    <3> QED
      BY <2>1, <3>3
  <2> QED
    BY <2>3, <2>4, <2>5
<1> HIDE DEF T
<1>3. \A s \in Seq(S) : s \in T
  BY <1>1, <1>2, SequenceInduction
<1> QED
  BY <1>3 DEF T

LEMMA MarkedCount ==
  ASSUME NEW S, NEW no, NEW yes, no # yes, \A w \in S : w.observed \in {no, yes}
  PROVE  \A s \in Seq(S) : Len(Marked(s, no)) + Len(Marked(s, yes)) = Len(s)
<1> DEFINE T == {s \in Seq(S) : Len(Marked(s, no)) + Len(Marked(s, yes)) = Len(s)}
<1>1. <<>> \in T
  <2>1. Marked(<<>>, no) = <<>> /\ Marked(<<>>, yes) = <<>> /\ <<>> \in Seq(S)
    BY MarkedNone
  <2>2. Len(Marked(<<>>, no)) + Len(Marked(<<>>, yes)) = Len(<<>>)
    BY <2>1
  <2> QED
    BY <2>1, <2>2
<1>2. ASSUME NEW s \in Seq(S), NEW e \in S, s \in T PROVE Append(s, e) \in T
  <2> DEFINE d == Marked(s, no)
             o == Marked(s, yes)
             t == Append(s, e)
  <2>1. d \in Seq(S) /\ o \in Seq(S) /\ t \in Seq(S) /\ Len(t) = Len(s) + 1
        /\ Len(d) + Len(o) = Len(s)
    <3>1. Len(d) + Len(o) = Len(s)
      BY <1>2
    <3>2. d \in Seq(S) /\ o \in Seq(S)
      BY MarkedType
    <3> HIDE DEF d, o
    <3> QED
      BY <3>1, <3>2
  <2>2. Marked(t, no) = IF e.observed = no THEN Append(d, e) ELSE d
    BY MarkedAppend
  <2>3. Marked(t, yes) = IF e.observed = yes THEN Append(o, e) ELSE o
    BY MarkedAppend
  <2> HIDE DEF d, o, t
  <2>4. Len(Append(d, e)) = Len(d) + 1 /\ Len(Append(o, e)) = Len(o) + 1
    BY <2>1
  <2>5. Len(Marked(t, no)) + Len(Marked(t, yes)) = Len(t)
    <3>1. CASE e.observed = yes
      <4>1. Marked(t, no) = d /\ Marked(t, yes) = Append(o, e)
        <5>1. e.observed # no
          BY <3>1
        <5> QED
          BY <2>2, <2>3, <3>1, <5>1, Zenon
      <4> QED
        BY <2>1, <2>4, <4>1
    <3>2. CASE e.observed # yes
      <4>1. Marked(t, no) = Append(d, e) /\ Marked(t, yes) = o
        <5>1. e.observed = no
          BY <3>2
        <5> QED
          BY <2>2, <2>3, <3>2, <5>1, Zenon
      <4> QED
        BY <2>1, <2>4, <4>1
    <3> QED
      BY <3>1, <3>2
  <2> QED
    BY <2>1, <2>5 DEF t
<1> HIDE DEF T
<1>3. \A s \in Seq(S) : s \in T
  BY <1>1, <1>2, SequenceInduction
<1> QED
  BY <1>3 DEF T

LEMMA MarkedConcat ==
  ASSUME NEW S, NEW a \in Seq(S), NEW observed
  PROVE  \A b \in Seq(S) : Marked(a \o b, observed) = Marked(a, observed) \o Marked(b, observed)
<1> DEFINE m(s) == Marked(s, observed)
           T == {b \in Seq(S) : m(a \o b) = m(a) \o m(b)}
<1>0. \A s \in Seq(S) : m(s) \in Seq(S)
  BY MarkedType
<1>1. <<>> \in T
  <2>1. a \o <<>> = a
    BY ConcatEmptySeq
  <2>2. m(a) \o <<>> = m(a)
    BY <1>0, ConcatEmptySeq
  <2>3. m(<<>>) = <<>> /\ <<>> \in Seq(S)
    BY MarkedNone
  <2> HIDE DEF m
  <2> QED
    BY <2>1, <2>2, <2>3, Zenon
<1>2. ASSUME NEW b \in Seq(S), NEW e \in S, b \in T PROVE Append(b, e) \in T
  <2>1. a \o b \in Seq(S) /\ a \o Append(b, e) = Append(a \o b, e)
    OBVIOUS
  <2>2. m(Append(a \o b, e)) = IF e.observed = observed THEN Append(m(a \o b), e) ELSE m(a \o b)
    BY <2>1, MarkedAppend
  <2>3. m(Append(b, e)) = IF e.observed = observed THEN Append(m(b), e) ELSE m(b)
    BY MarkedAppend
  <2>4. m(a \o b) = m(a) \o m(b) /\ m(a) \in Seq(S) /\ m(b) \in Seq(S)
    BY <1>0, <1>2
  <2>5. Append(b, e) \in Seq(S)
    OBVIOUS
  <2> HIDE DEF m
  <2>6. m(a) \o Append(m(b), e) = Append(m(a) \o m(b), e)
    BY <2>4
  <2>7. m(a \o Append(b, e)) = m(a) \o m(Append(b, e))
    BY <2>1, <2>2, <2>3, <2>4, <2>6, Zenon
  <2> QED
    BY <2>5, <2>7
<1> HIDE DEF T
<1>3. \A s \in Seq(S) : s \in T
  BY <1>1, <1>2, SequenceInduction
<1> QED
  BY <1>3 DEF T

LEMMA MarkedTail ==
  ASSUME NEW S, NEW observed, NEW a \in Seq(S), NEW b \in Seq(S), NEW d, d = a \o b
  PROVE  Len(Marked(b, observed)) <= Len(Marked(d, observed))
<1>1. Marked(d, observed) = Marked(a, observed) \o Marked(b, observed)
  BY MarkedConcat
<1>2. Marked(a, observed) \in Seq(S) /\ Marked(b, observed) \in Seq(S)
  BY MarkedType
<1> QED
  BY <1>1, <1>2, ConcatProperties

(*-------------------------- the end of a sequence ------------------------*)

LEMMA LastNSplits ==
  ASSUME NEW S, NEW s \in Seq(S), NEW n \in Nat
  PROVE  /\ LastN(s, n) \in Seq(S) /\ Len(LastN(s, n)) <= n
         /\ \E a \in Seq(S) : s = a \o LastN(s, n) /\ (a # <<>> => Len(LastN(s, n)) = n)
<1>1. CASE Len(s) <= n
  <2>1. LastN(s, n) = s
    BY <1>1 DEF LastN
  <2>2. s = <<>> \o s
    BY ConcatEmptySeq
  <2>3. <<>> \in Seq(S)
    OBVIOUS
  <2> QED
    BY <1>1, <2>1, <2>2, <2>3
<1>2. CASE ~ Len(s) <= n
  <2> DEFINE k == Len(s) - n
             a == SubSeq(s, 1, k)
             b == SubSeq(s, k + 1, Len(s))
  <2>1. Len(s) \in Nat /\ k \in 1 .. Len(s) /\ 1 \in 1 .. Len(s) + 1
        /\ k \in 1 - 1 .. Len(s) /\ Len(s) \in k .. Len(s)
    BY <1>2
  <2>2. LastN(s, n) = b
    BY <1>2 DEF LastN
  <2>3. a \o b = s
    <3>1. a \o b = SubSeq(s, 1, Len(s))
      <4> HIDE DEF k
      <4> QED
        BY <2>1, ConcatAdjacentSubSeq
    <3> QED
      BY <3>1, SubSeqFull
  <2>4. a \in Seq(S)
    BY <2>1
  <2>5. b \in Seq(S) /\ Len(b) = n
    <3>1. \A i \in k + 1 .. Len(s) : s[i] \in S
      BY <2>1
    <3>2. k + 1 \in Int /\ Len(s) \in Int /\ (IF k + 1 <= Len(s) THEN Len(s) - (k + 1) + 1 ELSE 0) = n
      BY <2>1
    <3> HIDE DEF k
    <3> QED
      BY <3>1, <3>2, SubSeqProperties
  <2> HIDE DEF a, b, k
  <2> QED
    BY <2>2, <2>3, <2>4, <2>5
<1> QED
  BY <1>1, <1>2

(* Only the second of two joined sequences counts when it is long enough. *)
LEMMA LastNOfConcat ==
  ASSUME NEW S, NEW a \in Seq(S), NEW b \in Seq(S), NEW n \in Nat, Len(b) >= n
  PROVE  LastN(a \o b, n) = LastN(b, n)
<1> DEFINE c == a \o b
<1>1. c \in Seq(S) /\ Len(c) = Len(a) + Len(b)
      /\ \A i \in 1 .. Len(a) + Len(b) : c[i] = IF i <= Len(a) THEN a[i] ELSE b[i - Len(a)]
  BY ConcatProperties
<1>2. Len(a) \in Nat /\ Len(b) \in Nat
  OBVIOUS
<1> HIDE DEF c
<1>3. PICK x \in Seq(S) : c = x \o LastN(c, n) /\ (x # <<>> => Len(LastN(c, n)) = n)
  BY <1>1, LastNSplits
<1>4. PICK y \in Seq(S) : b = y \o LastN(b, n) /\ (y # <<>> => Len(LastN(b, n)) = n)
  BY LastNSplits
<1> DEFINE u == LastN(c, n)
           v == LastN(b, n)
<1>5. u \in Seq(S) /\ v \in Seq(S) /\ Len(u) <= n /\ Len(v) <= n
  BY <1>1, LastNSplits
<1> HIDE DEF u, v
<1>6. Len(c) = Len(x) + Len(u)
      /\ \A i \in 1 .. Len(x) + Len(u) : c[i] = IF i <= Len(x) THEN x[i] ELSE u[i - Len(x)]
  BY <1>3, <1>5, ConcatProperties DEF u
<1>7. Len(b) = Len(y) + Len(v)
      /\ \A i \in 1 .. Len(y) + Len(v) : b[i] = IF i <= Len(y) THEN y[i] ELSE v[i - Len(y)]
  BY <1>4, <1>5, ConcatProperties DEF v
<1>8. Len(u) = n /\ Len(v) = n
  <2>1. Len(x) \in Nat /\ Len(y) \in Nat /\ Len(u) \in Nat /\ Len(v) \in Nat
        /\ (Len(x) # 0 => x # <<>>) /\ (Len(y) # 0 => y # <<>>)
    BY <1>5
  <2>2. Len(x) # 0 => Len(u) = n
    BY <1>3, <2>1 DEF u
  <2>3. Len(y) # 0 => Len(v) = n
    BY <1>4, <2>1 DEF v
  <2> QED
    BY <1>1, <1>2, <1>5, <1>6, <1>7, <2>1, <2>2, <2>3
<1>9. \A i \in 1 .. n : u[i] = v[i]
  <2> TAKE i \in 1 .. n
  <2>1. Len(x) \in Nat /\ Len(y) \in Nat /\ Len(x) = Len(a) + Len(y)
    BY <1>1, <1>2, <1>6, <1>7, <1>8
  <2>2. c[Len(x) + i] = u[i]
    <3>1. Len(x) + i \in 1 .. Len(x) + Len(u) /\ ~ (Len(x) + i <= Len(x)) /\ (Len(x) + i) - Len(x) = i
      BY <1>8, <2>1
    <3> QED
      BY <1>6, <3>1
  <2>3. b[Len(y) + i] = v[i]
    <3>1. Len(y) + i \in 1 .. Len(y) + Len(v) /\ ~ (Len(y) + i <= Len(y)) /\ (Len(y) + i) - Len(y) = i
      BY <1>8, <2>1
    <3> QED
      BY <1>7, <3>1
  <2>4. c[Len(x) + i] = b[Len(y) + i]
    <3>1. Len(x) + i \in 1 .. Len(a) + Len(b) /\ ~ (Len(x) + i <= Len(a))
          /\ (Len(x) + i) - Len(a) = Len(y) + i
      BY <1>2, <1>7, <1>8, <2>1
    <3> QED
      BY <1>1, <3>1
  <2> QED
    BY <2>2, <2>3, <2>4
<1>10. u = v
  BY <1>5, <1>8, <1>9, SeqEqual
<1> QED
  BY <1>10 DEF u, v, c

(* A sequence that is long enough has its last elements before the second
   part when that is not. *)
LEMMA FirstOfLastN ==
  ASSUME NEW S, NEW a \in Seq(S), NEW b \in Seq(S), NEW n \in Nat, Len(b) < n, a # <<>>
  PROVE  /\ LastN(a \o b, n) # <<>>
         /\ \E j \in DOMAIN a : LastN(a \o b, n)[1] = a[j]
<1> DEFINE c == a \o b
           u == LastN(c, n)
<1>1. c \in Seq(S) /\ Len(c) = Len(a) + Len(b)
      /\ \A i \in 1 .. Len(a) + Len(b) : c[i] = IF i <= Len(a) THEN a[i] ELSE b[i - Len(a)]
  BY ConcatProperties
<1>2. Len(a) \in Nat /\ Len(b) \in Nat /\ Len(a) # 0 /\ DOMAIN a = 1 .. Len(a)
  OBVIOUS
<1> HIDE DEF c
<1>3. PICK x \in Seq(S) : c = x \o u /\ (x # <<>> => Len(u) = n)
  BY <1>1, LastNSplits
<1>4. u \in Seq(S) /\ Len(u) <= n
  BY <1>1, LastNSplits
<1> HIDE DEF u
<1>5. Len(c) = Len(x) + Len(u)
      /\ \A i \in 1 .. Len(x) + Len(u) : c[i] = IF i <= Len(x) THEN x[i] ELSE u[i - Len(x)]
  BY <1>3, <1>4, ConcatProperties
<1>6. Len(x) \in Nat /\ Len(u) \in Nat /\ (Len(x) # 0 => Len(u) = n)
  BY <1>3, <1>4
<1>7. Len(u) > 0 /\ Len(x) + 1 <= Len(a)
  BY <1>1, <1>2, <1>5, <1>6
<1>8. c[Len(x) + 1] = u[1]
  <2>1. Len(x) + 1 \in 1 .. Len(x) + Len(u) /\ ~ (Len(x) + 1 <= Len(x)) /\ (Len(x) + 1) - Len(x) = 1
    BY <1>6, <1>7
  <2> QED
    BY <1>5, <2>1
<1>9. c[Len(x) + 1] = a[Len(x) + 1] /\ Len(x) + 1 \in DOMAIN a
  <2>1. Len(x) + 1 \in 1 .. Len(a) + Len(b) /\ Len(x) + 1 \in DOMAIN a
    BY <1>2, <1>6, <1>7
  <2> QED
    BY <1>1, <1>7, <2>1
<1>10. u # <<>>
  BY <1>7
<1> QED
  BY <1>8, <1>9, <1>10 DEF u, c

(* The heart of HistoryIsLast: the last m + n rows hold the last m rows of
   the dialogue, unless more than n rows of the other kind follow one of
   those. *)
Marks(S, no, yes) == no # yes /\ \A w \in S : w.observed \in {no, yes}

FewSince(s, turns, yes, n) ==
  \A k \in DOMAIN s :
    turns # <<>> /\ s[k] = turns[1] => Len(Marked(SubSeq(s, k, Len(s)), yes)) <= n

LEMMA WindowIsLast ==
  ASSUME NEW S, NEW no, NEW yes, Marks(S, no, yes),
         NEW s \in Seq(S), NEW m \in Nat, NEW n \in Nat,
         FewSince(s, LastN(Marked(s, no), m), yes, n)
  PROVE  LastN(Marked(LastN(s, m + n), no), m) = LastN(Marked(s, no), m)
<1> DEFINE b == LastN(s, m + n)
           D(t) == Marked(t, no)
           O(t) == Marked(t, yes)
<1>0. m + n \in Nat
  OBVIOUS
<1>1. b \in Seq(S) /\ Len(b) <= m + n
  BY <1>0, LastNSplits
<1>2. PICK a \in Seq(S) : s = a \o b /\ (a # <<>> => Len(b) = m + n)
  BY <1>0, LastNSplits
<1> HIDE DEF b
<1>3. \A t \in Seq(S) : D(t) \in Seq(S) /\ O(t) \in Seq(S)
  BY MarkedType
<1>4. D(s) = D(a) \o D(b)
  BY <1>1, <1>2, MarkedConcat
<1>5. CASE Len(D(b)) >= m
  <2>1. D(a) \in Seq(S) /\ D(b) \in Seq(S)
    BY <1>1, <1>3
  <2> HIDE DEF D
  <2>2. LastN(D(s), m) = LastN(D(b), m)
    BY <1>4, <1>5, <2>1, LastNOfConcat
  <2> QED
    BY <2>2 DEF D, b
<1>6. CASE D(a) = <<>>
  <2>1. D(s) = D(b)
    <3>1. D(b) \in Seq(S)
      BY <1>1, <1>3
    <3> HIDE DEF D
    <3> QED
      BY <1>4, <1>6, <3>1, ConcatEmptySeq
  <2> QED
    BY <2>1 DEF b
<1>7. CASE ~ (Len(D(b)) >= m) /\ D(a) # <<>>
  <2>1. D(a) \in Seq(S) /\ D(b) \in Seq(S) /\ O(b) \in Seq(S)
    BY <1>1, <1>3
  <2>2. Len(D(b)) \in Nat /\ Len(O(b)) \in Nat /\ Len(D(b)) < m
    <3> HIDE DEF D, O
    <3> QED
      BY <1>7, <2>1
  <2>3. a # <<>>
    BY <1>7, MarkedNone
  <2>4. Len(O(b)) > n
    <3>1. Len(D(b)) + Len(O(b)) = Len(b)
      BY <1>1, MarkedCount DEF Marks
    <3>2. Len(b) = m + n
      BY <1>2, <2>3
    <3> HIDE DEF D, O
    <3> QED
      BY <2>2, <3>1, <3>2
  <2> DEFINE first == LastN(D(s), m)
  <2>5. first # <<>> /\ \E j \in DOMAIN D(a) : first[1] = D(a)[j]
    <3> HIDE DEF D
    <3> QED
      BY <1>4, <1>7, <2>1, <2>2, FirstOfLastN
  <2>6. PICK k \in DOMAIN a : a[k] = first[1]
    <3>1. \A j \in DOMAIN D(a) : \E i \in DOMAIN a : a[i] = D(a)[j]
      BY MarkedType
    <3> HIDE DEF D, first
    <3> QED
      BY <2>5, <3>1
  <2>7. k \in DOMAIN s /\ s[k] = a[k] /\ k \in 1 .. Len(a) /\ Len(s) = Len(a) + Len(b)
    <3>1. k \in 1 .. Len(a) /\ Len(a) \in Nat /\ Len(b) \in Nat
      BY <1>1
    <3> HIDE DEF first, D, O
    <3> QED
      BY <1>1, <1>2, <3>1, ConcatProperties
  <2>8. Len(O(SubSeq(s, k, Len(s)))) <= n
    <3>1. \A i \in DOMAIN s : first # <<>> /\ s[i] = first[1] => Len(O(SubSeq(s, i, Len(s)))) <= n
      BY DEF FewSince
    <3> HIDE DEF first, D, O
    <3> QED
      BY <2>5, <2>6, <2>7, <3>1
  <2>9. \E c \in Seq(S) : SubSeq(s, k, Len(s)) = c \o b
    <3> DEFINE c == SubSeq(a, k, Len(a))
               d == SubSeq(s, k, Len(s))
    <3>1. Len(a) \in Nat /\ Len(b) \in Nat /\ k \in 1 .. Len(a)
      BY <1>1, <2>7
    <3>2. \A i \in 1 .. Len(s) : s[i] = IF i <= Len(a) THEN a[i] ELSE b[i - Len(a)]
      BY <1>1, <1>2, <2>7, ConcatProperties
    <3>3. c \in Seq(S) /\ Len(c) = Len(a) - k + 1
          /\ \A i \in 1 .. Len(a) - k + 1 : c[i] = a[k + i - 1]
      <4>1. \A i \in k .. Len(a) : a[i] \in S
        BY <3>1
      <4> QED
        BY <3>1, <4>1, SubSeqProperties, SMTT(20)
    <3>4. d \in Seq(S) /\ Len(d) = Len(s) - k + 1
          /\ \A i \in 1 .. Len(s) - k + 1 : d[i] = s[k + i - 1]
      <4>1. \A i \in k .. Len(s) : s[i] \in S
        BY <3>1
      <4>2. k \in Int /\ Len(s) \in Int /\ k <= Len(s)
        BY <2>7, <3>1
      <4> QED
        BY <4>1, <4>2, SubSeqProperties, SMTT(40)
    <3> HIDE DEF c, d
    <3>5. c \o b \in Seq(S) /\ Len(c \o b) = Len(c) + Len(b)
          /\ \A i \in 1 .. Len(c) + Len(b) :
               (c \o b)[i] = IF i <= Len(c) THEN c[i] ELSE b[i - Len(c)]
      BY <1>1, <3>3, ConcatProperties
    <3>6. Len(d) = Len(c) + Len(b)
      BY <2>7, <3>1, <3>3, <3>4, SMTT(40)
    <3>7. \A i \in 1 .. Len(d) : d[i] = (c \o b)[i]
      <4> TAKE i \in 1 .. Len(d)
      <4>1. i \in 1 .. Len(s) - k + 1 /\ i \in 1 .. Len(c) + Len(b) /\ k + i - 1 \in 1 .. Len(s)
        BY <2>7, <3>1, <3>4, <3>6, SMTT(20)
      <4>2. d[i] = s[k + i - 1]
        BY <3>4, <4>1
      <4>3. CASE i <= Len(c)
        <5>1. k + i - 1 <= Len(a) /\ i \in 1 .. Len(a) - k + 1
          BY <3>1, <3>3, <4>1, <4>3, SMTT(20)
        <5>2. s[k + i - 1] = a[k + i - 1] /\ c[i] = a[k + i - 1] /\ (c \o b)[i] = c[i]
          <6>1. c[i] = a[k + i - 1]
            BY <3>3, <5>1
          <6>2. s[k + i - 1] = a[k + i - 1]
            BY <3>2, <4>1, <5>1
          <6>3. (c \o b)[i] = c[i]
            BY <3>5, <4>1, <4>3
          <6> QED
            BY <6>1, <6>2, <6>3
        <5> QED
          BY <4>2, <5>2
      <4>4. CASE ~ i <= Len(c)
        <5>1. ~ (k + i - 1 <= Len(a)) /\ (k + i - 1) - Len(a) = i - Len(c)
          <6>1. Len(c) = Len(a) - k + 1 /\ Len(a) \in Int /\ k \in Int /\ i \in Int
            BY <3>1, <3>3, <4>1
          <6> QED
            BY <4>4, <6>1
        <5>2. s[k + i - 1] = b[i - Len(c)] /\ (c \o b)[i] = b[i - Len(c)]
          <6>1. s[k + i - 1] = b[i - Len(c)]
            <7>1. PICK p \in 1 .. Len(s) : p = k + i - 1
              BY <4>1
            <7>2. s[p] = b[p - Len(a)]
              BY <3>2, <5>1, <7>1
            <7> QED
              BY <5>1, <7>1, <7>2
          <6>2. (c \o b)[i] = b[i - Len(c)]
            BY <3>5, <4>1, <4>4
          <6> QED
            BY <6>1, <6>2
        <5> QED
          BY <4>2, <5>2
      <4> QED
        BY <4>3, <4>4
    <3>8. d = c \o b
      BY <3>4, <3>5, <3>6, <3>7, SeqEqual
    <3> QED
      BY <3>3, <3>8 DEF d
  <2>10. PICK c \in Seq(S) : SubSeq(s, k, Len(s)) = c \o b
    BY <2>9
  <2>11. Len(O(b)) <= Len(O(SubSeq(s, k, Len(s))))
    BY <1>1, <2>10, MarkedTail
  <2>12. FALSE
    <3> DEFINE long == Len(O(SubSeq(s, k, Len(s))))
               short == Len(O(b))
    <3>1. long <= n /\ short <= long /\ short > n /\ short \in Nat
      BY <2>2, <2>4, <2>8, <2>11
    <3>2. long \in Nat
      <4>1. SubSeq(s, k, Len(s)) \in Seq(S)
        BY <1>1, <2>10
      <4>2. O(SubSeq(s, k, Len(s))) \in Seq(S)
        BY <1>3, <4>1
      <4> HIDE DEF O
      <4> QED
        BY <4>2
    <3> HIDE DEF long, short
    <3> QED
      BY <3>1, <3>2
  <2> QED
    BY <2>12
<1> QED
  BY <1>5, <1>6, <1>7

(*--------------------------------- routing -------------------------------*)

Chosen == SlotIds \cup {"none"}

LEMMA SlotOfIs ==
  ASSUME NEW id \in SlotIds
  PROVE  SlotOf(id).id = id
<1>1. \E s \in ToSet(Slots) : s.id = id
  BY DEF SlotIds, ToSet
<1> QED
  BY <1>1 DEF SlotOf

LEMMA ChoiceSlot ==
  ASSUME NEW slot, NEW name PROVE Choice(slot, name).slot = slot.id
  BY DEF Choice

LEMMA FirstIsSlot ==
  ASSUME NEW U, U = {i \in 1 .. Len(Slots) : i \in U}, U # {}, SlotsAssumption
  PROVE  Slots[Min(U)].id \in SlotIds
<1>1. U \in SUBSET Nat /\ U \subseteq DOMAIN Slots
  <2>1. Slots \in Seq(ToSet(Slots))
    BY DEF SlotsAssumption
  <2>2. DOMAIN Slots = 1 .. Len(Slots) /\ Len(Slots) \in Nat
    BY <2>1
  <2> QED
    BY <2>2
<1>2. \E n \in U : \A m \in U : n <= m
  BY <1>1, Least
<1>3. Min(U) \in U
  BY <1>2 DEF Min
<1> QED
  BY <1>1, <1>3 DEF SlotIds

LEMMA ModelSelectionSlot ==
  ASSUME SlotsAssumption, NEW name
  PROVE  ModelSelection(name).slot \in Chosen
<1>1. CASE Len(name) > 1 /\ name[1] \in SlotIds
  <2>1. ModelSelection(name) \in {Choice(SlotOf(name[1]), Tail(name)), Nothing}
    BY <1>1 DEF ModelSelection
  <2>2. Choice(SlotOf(name[1]), Tail(name)).slot = name[1]
    BY <1>1, SlotOfIs, ChoiceSlot
  <2>3. Nothing.slot = "none"
    BY DEF Nothing
  <2> QED
    BY <1>1, <2>1, <2>2, <2>3 DEF Chosen
<1>2. CASE ~ (Len(name) > 1 /\ name[1] \in SlotIds)
  <2> DEFINE U == {i \in 1 .. Len(Slots) : SupportsModel(Slots[i], name)}
             i == IF U # {} THEN Min(U) ELSE 0
  <2>1. ModelSelection(name) = IF i = 0 THEN Nothing ELSE Choice(Slots[i], name)
    BY <1>2 DEF ModelSelection, FirstSlot, SelectInSeq
  <2>2. U = {k \in 1 .. Len(Slots) : k \in U}
    OBVIOUS
  <2>3. i # 0 => Slots[i].id \in SlotIds
    <3> HIDE DEF U
    <3>1. CASE U # {}
      BY <2>2, <3>1, FirstIsSlot
    <3> QED
      BY <3>1
  <2>4. Nothing.slot = "none"
    BY DEF Nothing
  <2> HIDE DEF i
  <2> QED
    BY <2>1, <2>3, <2>4, ChoiceSlot DEF Chosen
<1> QED
  BY <1>1, <1>2

LEMMA SessionChoiceSlot ==
  ASSUME SlotsAssumption, NEW id, NEW name
  PROVE  SessionChoice(id, name).slot \in Chosen
<1> DEFINE model == WithoutPrefix(id, name)
           slot  == IF id \in SlotIds THEN {SlotOf(id)} ELSE {}
           own   == {Choice(s, model) : s \in {s \in slot : model # NoName /\ SupportsModel(s, model)}}
           plain == {Choice(s, s.default) : s \in {s \in slot : model = NoName}}
           found == IF name = NoName THEN {} ELSE {ModelSelection(name)} \ {Nothing}
           all == IF own \cup plain # {} THEN own \cup plain
                  ELSE IF found # {} THEN found ELSE {DefaultChoice}
<1>1. \A s \in slot : s.id \in SlotIds
  BY SlotOfIs
<1>2. \A c \in own \cup plain : c.slot \in Chosen
  <2> HIDE DEF slot, model
  <2> QED
    BY <1>1, ChoiceSlot DEF Chosen
<1>3. \A c \in found : c.slot \in Chosen
  BY ModelSelectionSlot
<1>4. DefaultChoice.slot \in Chosen
  <2>1. DefaultId \in SlotIds => DefaultChoice.slot = DefaultId
    BY SlotOfIs, ChoiceSlot DEF DefaultChoice
  <2>2. DefaultId \notin SlotIds => DefaultChoice.slot = "none"
    BY DEF DefaultChoice, Nothing
  <2> QED
    BY <2>1, <2>2 DEF Chosen
<1>5. SessionChoice(id, name) = CHOOSE c \in all : TRUE
  BY DEF SessionChoice
<1> HIDE DEF own, plain, found
<1>6. all # {} /\ \A c \in all : c.slot \in Chosen
  BY <1>2, <1>3, <1>4
<1> HIDE DEF all
<1>7. (CHOOSE c \in all : TRUE) \in all
  BY <1>6
<1> QED
  BY <1>5, <1>6, <1>7

(* Whatever is asked for, the answer is a slot of the configuration, or
   none. *)
LEMMA ResolveProviderSlot ==
  ASSUME SlotsAssumption, NEW id, NEW name, NEW storedId, NEW storedName
  PROVE  ResolveProvider(id, name, storedId, storedName).slot \in Chosen
<1>1. CASE id \in SlotIds
  <2>1. ResolveProvider(id, name, storedId, storedName) = DirectChoice(id, name)
    BY <1>1 DEF ResolveProvider
  <2>2. DirectChoice(id, name).slot = id
    BY <1>1, SlotOfIs, ChoiceSlot DEF DirectChoice
  <2> QED
    BY <1>1, <2>1, <2>2 DEF Chosen
<1>2. CASE id \notin SlotIds
  <2>1. ResolveProvider(id, name, storedId, storedName)
          \in {ModelSelection(name), SessionChoice(storedId, storedName)}
    BY <1>2 DEF ResolveProvider
  <2> QED
    BY <2>1, ModelSelectionSlot, SessionChoiceSlot
<1> QED
  BY <1>1, <1>2

(*--------------------------------- pictures ------------------------------*)

Pictured == Pictures(Images)

LEMMA PlaceSet ==
  ASSUME NEW I, NEW P, NEW A, NEW p \in P,
         NEW a \in [id : I, place : P, alt : A, large : A, odd : A]
  PROVE  /\ [a EXCEPT !.place = p] \in [id : I, place : P, alt : A, large : A, odd : A]
         /\ [a EXCEPT !.place = p].place = p
  OBVIOUS

LEMMA PictureFields ==
  ASSUME NEW a \in Pictured
  PROVE  a.id \in Images /\ a.place \in Places
  BY DEF Pictured, Pictures

LEMMA MaterializedIs ==
  ASSUME NEW a \in Pictured, NEW up
  PROVE  Materialized(a, up) \in Pictured
<1>1. "path" \in Places
  BY DEF Places
<1>2. [a EXCEPT !.place = "path"] \in Pictured
  BY <1>1, PlaceSet, Zenon DEF Pictured, Pictures
<1> QED
  BY <1>2 DEF Materialized

LEMMA ResolveFile ==
  ASSUME NEW a \in Pictured, NEW file \in Files, NEW up
  PROVE  Resolve(a, file, up).file \in Files
<1> DEFINE b == Materialized(a, up)
           f == FileOf(a, file, up)
<1>1. b.place \in Places
  BY MaterializedIs, PictureFields
<1>2. f \in Files
  BY DEF FileOf, Files
<1>3. \A native, g : Resolved(native, g).file = g
  BY DEF Resolved
<1>4. Resolve(a, file, up) \in {ResolvePath(b, f), ResolveUrl(b, f, up), Resolved(FALSE, f)}
  <2> HIDE DEF b, f
  <2>1. Resolve(a, file, up) =
          CASE b.place = "path" -> ResolvePath(b, f)
            [] b.place = "url"  -> ResolveUrl(b, f, up)
            [] b.place = "id"   -> Resolved(FALSE, f)
    BY DEF Resolve, b, f
  <2>2. CASE b.place = "path"
    BY <2>1, <2>2
  <2>3. CASE b.place = "url"
    BY <2>1, <2>3
  <2>4. CASE b.place = "id"
    BY <2>1, <2>4
  <2> QED
    BY <1>1, <2>2, <2>3, <2>4 DEF Places
<1> HIDE DEF b, f
<1>5. ResolvePath(b, f).file = f
  BY <1>3 DEF ResolvePath
<1>6. ResolveUrl(b, f, up).file \in Files
  <2>1. ResolveUrl(b, f, up).file \in {"fresh", "none"}
    BY <1>3 DEF ResolveUrl
  <2> QED
    BY <2>1 DEF Files
<1>7. Resolved(FALSE, f).file = f
  BY <1>3
<1>8. CASE Resolve(a, file, up) = ResolvePath(b, f)
  BY <1>2, <1>5, <1>8
<1>9. CASE Resolve(a, file, up) = ResolveUrl(b, f, up)
  BY <1>6, <1>9
<1>10. CASE Resolve(a, file, up) = Resolved(FALSE, f)
  BY <1>2, <1>7, <1>10
<1> QED
  BY <1>4, <1>8, <1>9, <1>10, Zenon

LEMMA AfterResolvingType ==
  ASSUME NEW pictures \in SUBSET Pictured, NEW files \in [Images -> Files], NEW up
  PROVE  AfterResolving(pictures, files, up) \in [Images -> Files]
<1> DEFINE at(id) == CHOOSE a \in pictures : a.id = id
           after(id) == IF \E a \in pictures : a.id = id
                        THEN Resolve(at(id), files[id], up).file ELSE files[id]
<1>1. ASSUME NEW id \in Images PROVE after(id) \in Files
  <2>1. CASE \E a \in pictures : a.id = id
    <3>1. at(id) \in pictures
      BY <2>1
    <3> HIDE DEF at
    <3>2. at(id) \in Pictured /\ files[id] \in Files
      BY <3>1
    <3>3. Resolve(at(id), files[id], up).file \in Files
      BY <3>2, ResolveFile
    <3> QED
      BY <2>1, <3>3
  <2>2. CASE ~ \E a \in pictures : a.id = id
    BY <2>2
  <2> QED
    BY <2>1, <2>2
<1>2. AfterResolving(pictures, files, up) = [id \in DOMAIN files |-> after(id)]
  BY DEF AfterResolving
<1> HIDE DEF after
<1> QED
  BY <1>1, <1>2

(* What is stored of a picture is a file or its id. *)
LEMMA PersistedType ==
  ASSUME NEW a \in Pictured, NEW files, NEW up
  PROVE  Persisted(a, files, up) \in Pictured /\ Persisted(a, files, up).place # "url"
<1> DEFINE p == IF a.place = "path" \/ Resolve(a, files[a.id], up).native THEN "path" ELSE "id"
<1>1. p \in Places /\ p # "url"
  BY DEF Places
<1>2. Persisted(a, files, up) = [a EXCEPT !.place = p]
  BY DEF Persisted
<1> HIDE DEF p
<1>3. [a EXCEPT !.place = p] \in Pictured /\ [a EXCEPT !.place = p].place = p
  BY <1>1, PlaceSet, Zenon DEF Pictured, Pictures
<1> QED
  BY <1>1, <1>2, <1>3

LEMMA NumberedType ==
  ASSUME TurnAssumption, NEW r \in Runs,
         NEW sent, sent \in (IF r \in ChatRuns THEN Sent[r] ELSE {<<>>})
  PROVE  Numbered(r, sent) \in Seq(Pictured)
<1>1. sent \in Seq(Attachments) /\ \A i \in DOMAIN sent : <<r, i>> \in Images
  <2>1. CASE r \in ChatRuns
    BY <2>1 DEF TurnAssumption, Images
  <2>2. CASE r \notin ChatRuns
    BY <2>2
  <2> QED
    BY <2>1, <2>2
<1>2. ASSUME NEW i \in DOMAIN sent PROVE Picture(<<r, i>>, sent[i]) \in Pictured
  <2>1. <<r, i>> \in Images /\ sent[i] \in Attachments
    BY <1>1
  <2> QED
    BY <2>1, Zenon DEF Picture, Pictured, Pictures, Attachments
<1>3. DOMAIN sent = 1 .. Len(sent) /\ Len(sent) \in Nat
  BY <1>1
<1>4. Numbered(r, sent) = [i \in DOMAIN sent |-> Picture(<<r, i>>, sent[i])]
  BY DEF Numbered
<1> QED
  BY <1>2, <1>3, <1>4, IsASeq

(*---------------------------------- parts --------------------------------*)

Texts == {"text", "description"}

LEMMA FirstNType ==
  ASSUME NEW S, NEW s \in Seq(S), NEW n \in Nat
  PROVE  FirstN(s, n) \in Seq(S)
  BY DEF FirstN

LEMMA MapType ==
  ASSUME NEW S, NEW T, NEW s \in Seq(S), NEW f, DOMAIN f = DOMAIN s,
         f = [i \in DOMAIN f |-> f[i]], \A i \in DOMAIN s : f[i] \in T
  PROVE  f \in Seq(T) /\ Len(f) = Len(s)
<1>1. DOMAIN s = 1 .. Len(s) /\ Len(s) \in Nat
  OBVIOUS
<1>2. f \in [1 .. Len(s) -> T]
  BY <1>1
<1> QED
  BY <1>1, <1>2

LEMMA ReconstructedType ==
  ASSUME NEW S, NEW atts \in Seq(S), NEW files, NEW up
  PROVE  Reconstructed(atts, files, up) \in Seq(Parts)
<1> DEFINE part(a) ==
             IF ~ a.alt /\ a.place # "id" /\ Resolve(a, files[a.id], up).native
             THEN <<"image">> ELSE <<"description">>
           f == [i \in DOMAIN atts |-> part(atts[i])]
<1>1. "image" \in Parts /\ "description" \in Parts
  BY DEF Parts
<1>2. \A i \in DOMAIN atts : f[i] \in Seq(Parts)
  BY <1>1
<1>3. Reconstructed(atts, files, up) = FlattenSeq(f)
  BY DEF Reconstructed, Each
<1>4. DOMAIN f = DOMAIN atts /\ f = [i \in DOMAIN f |-> f[i]]
  OBVIOUS
<1> HIDE DEF f
<1>5. f \in Seq(Seq(Parts))
  BY <1>2, <1>4, MapType
<1> QED
  BY <1>3, <1>5, FlattenType

LEMMA VisionPartsType ==
  ASSUME NEW S, NEW atts \in Seq(S), NEW files, NEW up, MediaAssumption
  PROVE  VisionParts(atts, files, up) \in Seq(Parts)
<1> DEFINE part(a) ==
             IF a.odd THEN <<>>
             ELSE IF Resolve(a, files[a.id], up).native
                  THEN IF a.large THEN Described(a) ELSE <<"image">>
             ELSE IF a.place = "url" THEN <<"image">>
             ELSE Described(a)
           some == IF MaxImages > 0 THEN FirstN(atts, MaxImages) ELSE atts
           f == [i \in DOMAIN some |-> part(some[i])]
<1>1. <<>> \in Seq(Parts) /\ <<"text">> \in Seq(Parts) /\ <<"image">> \in Seq(Parts)
      /\ \A a : Described(a) \in Seq(Parts)
  <2>1. "text" \in Parts /\ "image" \in Parts /\ "description" \in Parts
    BY DEF Parts
  <2>2. <<"text">> \in Seq(Parts) /\ <<"image">> \in Seq(Parts)
        /\ <<"description">> \in Seq(Parts) /\ <<>> \in Seq(Parts)
    BY <2>1
  <2>3. \A a : Described(a) \in {<<"description">>, <<>>}
    BY DEF Described
  <2> QED
    BY <2>2, <2>3
<1>2. \A a : part(a) \in Seq(Parts)
  BY <1>1
<1>3. some \in Seq(S)
  BY FirstNType DEF MediaAssumption
<1>4. VisionParts(atts, files, up) = <<"text">> \o FlattenSeq(f)
  BY DEF VisionParts, Each
<1>5. DOMAIN f = DOMAIN some /\ f = [i \in DOMAIN f |-> f[i]]
      /\ \A i \in DOMAIN some : f[i] = part(some[i])
  OBVIOUS
<1> HIDE DEF f, some, part
<1>6. f \in Seq(Seq(Parts))
  BY <1>2, <1>3, <1>5, MapType
<1>7. FlattenSeq(f) \in Seq(Parts)
  BY <1>6, FlattenType
<1> QED
  BY <1>1, <1>4, <1>7, ConcatProperties

(* A model that cannot see pictures is told of them. *)
LEMMA FallbackPartsType ==
  ASSUME NEW S, NEW atts \in Seq(S), MediaAssumption
  PROVE  FallbackParts(atts) \in Seq(Texts)
<1> DEFINE f == AutoDescribed(atts)
<1>1. FirstN(atts, FallbackImages) \in Seq(S)
  BY FirstNType DEF MediaAssumption
<1>2. f \in Seq(Texts)
  <2>1. f = [i \in DOMAIN FirstN(atts, FallbackImages) |-> "description"]
    BY DEF AutoDescribed
  <2> HIDE DEF f
  <2>2. DOMAIN f = DOMAIN FirstN(atts, FallbackImages) /\ f = [i \in DOMAIN f |-> f[i]]
        /\ \A i \in DOMAIN FirstN(atts, FallbackImages) : f[i] \in Texts
    BY <2>1 DEF Texts
  <2> QED
    BY <1>1, <2>2, MapType
<1>3. <<>> \in Seq(Texts) /\ <<"text">> \in Seq(Texts)
  BY DEF Texts
<1>4. FallbackParts(atts) \in {<<>>, <<"text">> \o f}
  BY DEF FallbackParts
<1> HIDE DEF f
<1>5. <<"text">> \o f \in Seq(Texts)
  BY <1>2, <1>3, ConcatProperties
<1> QED
  BY <1>3, <1>4, <1>5

LEMMA TextsAreParts == \A s \in Seq(Texts) : s \in Seq(Parts)
  BY SeqMonotonic DEF Texts, Parts

LEMMA TextsAreNoImages == \A s \in Seq(Texts) : ImageParts(s) = {}
  BY DEF Texts, ImageParts

LEMMA UserPartsType ==
  ASSUME NEW S, NEW atts \in Seq(S), NEW vision, NEW files, NEW up, MediaAssumption
  PROVE  /\ UserParts(atts, vision, files, up) \in Seq(Parts)
         /\ ~ vision => ImageParts(UserParts(atts, vision, files, up)) = {}
<1> DEFINE u == UserParts(atts, vision, files, up)
<1>1. CASE vision
  <2>1. u = VisionParts(atts, files, up)
    BY <1>1 DEF UserParts
  <2> HIDE DEF u
  <2>2. u \in Seq(Parts)
    BY <2>1, VisionPartsType
  <2> QED
    BY <1>1, <2>2 DEF u
<1>2. CASE ~ vision
  <2>1. u \in {<<>>, FallbackParts(atts)}
    BY <1>2 DEF UserParts
  <2> HIDE DEF u
  <2>2. <<>> \in Seq(Texts)
    OBVIOUS
  <2>3. u \in Seq(Texts)
    BY <2>1, <2>2, FallbackPartsType
  <2> QED
    BY <2>3, TextsAreParts, TextsAreNoImages DEF u
<1> QED
  BY <1>1, <1>2

LEMMA DegradedType ==
  ASSUME NEW parts \in Seq(Parts)
  PROVE  Degraded(parts) \in Seq(Parts) /\ ImageParts(Degraded(parts)) = {}
<1> DEFINE d == Degraded(parts)
<1>1. d = [i \in DOMAIN parts |-> IF parts[i] = "image" THEN "description" ELSE parts[i]]
  BY DEF Degraded
<1> HIDE DEF d
<1>2. DOMAIN d = DOMAIN parts /\ d = [i \in DOMAIN d |-> d[i]]
  BY <1>1
<1>3. \A i \in DOMAIN parts : parts[i] \in Parts
  OBVIOUS
<1>4. \A i \in DOMAIN parts : d[i] \in Texts
  BY <1>1, <1>3 DEF Texts, Parts
<1>5. d \in Seq(Texts)
  BY <1>2, <1>4, MapType
<1> QED
  BY <1>5, TextsAreParts, TextsAreNoImages DEF d

(*--------------------------------- history -------------------------------*)

(* A row of the dialogue belongs to a run; no row keeps a url. *)
Kept(w) == /\ w.observed \in BOOLEAN /\ (w.observed = FALSE => w.run \in Runs)
           /\ w.role \in {"user", "assistant"} /\ w.atts \in Seq(Pictured)
           /\ \A k \in DOMAIN w.atts : w.atts[k].place # "url"

KeptRows == {w \in [run : Runs \cup {"observed"}, role : {"user", "assistant"},
                    observed : BOOLEAN, atts : Seq(Pictures(Images))] : Kept(w)}

(* What a run is shown of the turns of the dialogue. *)
Tells(h, turns) ==
  /\ h \in Seq(Shown(Parts)) /\ Len(h) = Len(turns)
  /\ \A i \in DOMAIN h : h[i].run = turns[i].run /\ h[i].role = turns[i].role

Imageless(h) == \A i \in DOMAIN h : ImageParts(h[i].parts) = {}

Renders(f, turns, files, up) ==
  /\ DOMAIN f = DOMAIN turns /\ f = [i \in DOMAIN f |-> f[i]]
  /\ \A i \in DOMAIN turns :
       f[i] = [run |-> turns[i].run, role |-> turns[i].role,
               parts |-> Reconstructed(turns[i].atts, files, up)]

Spoken(turns) == \A i \in DOMAIN turns : turns[i].observed = FALSE

LEMMA HistoryIs ==
  ASSUME NEW turns \in Seq(KeptRows), Spoken(turns),
         NEW blind, NEW files, NEW up, NEW f, Renders(f, turns, files, up),
         NEW h, h = ApplyMediaPolicy(f, blind)
  PROVE  Tells(h, turns) /\ (blind => Imageless(h))
<1> USE DEF Renders
<1> DEFINE from == NativeFrom(f, PolicyFor(blind))
<1>1. h = [i \in DOMAIN f |-> IF i < from THEN [f[i] EXCEPT !.parts = Degraded(@)] ELSE f[i]]
  BY DEF ApplyMediaPolicy
<1>2. blind => from = Len(f) + 1
  BY DEF NativeFrom, PolicyFor
<1> HIDE DEF from
<1>3. DOMAIN turns = 1 .. Len(turns) /\ Len(turns) \in Nat /\ DOMAIN h = DOMAIN turns
      /\ h = [i \in DOMAIN h |-> h[i]]
  BY <1>1
<1>4. ASSUME NEW i \in DOMAIN turns
      PROVE  /\ h[i] \in Shown(Parts)
             /\ h[i].run = turns[i].run /\ h[i].role = turns[i].role
             /\ blind => ImageParts(h[i].parts) = {}
  <2> DEFINE p == Reconstructed(turns[i].atts, files, up)
             ru == turns[i].run
             ro == turns[i].role
  <2>1. turns[i] \in KeptRows /\ turns[i].observed = FALSE
    BY DEF Spoken
  <2>2. ru \in Runs /\ ro \in {"user", "assistant"} /\ turns[i].atts \in Seq(Pictured)
    BY <2>1 DEF KeptRows, Kept
  <2>3. p \in Seq(Parts)
    BY <2>2, ReconstructedType
  <2>4. f[i] = [run |-> ru, role |-> ro, parts |-> p]
    OBVIOUS
  <2>5. h[i] = IF i < from THEN [f[i] EXCEPT !.parts = Degraded(@)] ELSE f[i]
    BY <1>1, <1>3
  <2> HIDE DEF p, ru, ro
  <2>6. CASE i < from
    <3>1. h[i] = [run |-> ru, role |-> ro, parts |-> Degraded(p)]
      BY <2>4, <2>5, <2>6
    <3>2. Degraded(p) \in Seq(Parts) /\ ImageParts(Degraded(p)) = {}
      BY <2>3, DegradedType
    <3> QED
      BY <2>2, <3>1, <3>2 DEF Shown, ru, ro
  <2>7. CASE ~ i < from
    <3>1. h[i] = [run |-> ru, role |-> ro, parts |-> p]
      BY <2>4, <2>5, <2>7
    <3>2. ~ blind
      <4>1. Len(f) = Len(turns)
        BY <1>3
      <4>2. i \in Int /\ Len(turns) \in Int /\ i <= Len(turns)
        BY <1>3
      <4> QED
        BY <1>2, <2>7, <4>1, <4>2
    <3> QED
      BY <2>2, <2>3, <3>1, <3>2 DEF Shown, ru, ro
  <2> QED
    BY <2>6, <2>7
<1>5. h \in Seq(Shown(Parts)) /\ Len(h) = Len(turns)
  BY <1>3, <1>4, MapType
<1> QED
  BY <1>3, <1>4, <1>5 DEF Tells, Imageless

LEMMA LastNAre ==
  ASSUME NEW S, NEW s \in Seq(S), NEW n \in Nat
  PROVE  \A i \in DOMAIN LastN(s, n) : \E j \in DOMAIN s : LastN(s, n)[i] = s[j]
<1> DEFINE u == LastN(s, n)
<1>1. PICK a \in Seq(S) : s = a \o u /\ (a # <<>> => Len(u) = n)
  BY LastNSplits
<1>2. u \in Seq(S)
  BY LastNSplits
<1> HIDE DEF u
<1>3. \A i \in DOMAIN u : \E j \in DOMAIN s : u[i] = s[j]
  <2> TAKE i \in DOMAIN u
  <2>1. Len(a) \in Nat /\ Len(u) \in Nat /\ i \in 1 .. Len(u)
        /\ Len(s) = Len(a) + Len(u)
        /\ \A j \in 1 .. Len(a) + Len(u) :
             s[j] = IF j <= Len(a) THEN a[j] ELSE u[j - Len(a)]
    BY <1>1, <1>2, ConcatProperties
  <2>2. PICK j \in DOMAIN s : j = Len(a) + i
    BY <2>1
  <2>3. j \in 1 .. Len(a) + Len(u) /\ ~ (j <= Len(a)) /\ j - Len(a) = i
    BY <2>1, <2>2
  <2> QED
    BY <2>1, <2>3
<1> QED
  BY <1>3 DEF u

LEMMA HistoryOfIs ==
  ASSUME TurnAssumption, NEW records \in Seq(KeptRows), NEW blind, NEW up,
         NEW h, h = HistoryOf(records, blind, up),
         NEW turns, turns = LastN(Dialogue(records), MaxHistory)
  PROVE  Tells(h, turns) /\ (blind => Imageless(h)) /\ Len(h) <= MaxHistory
<1>1. MaxHistory \in Nat
  BY DEF TurnAssumption
<1> DEFINE d == Dialogue(records)
<1>2. d \in Seq(KeptRows)
  BY MarkedType, Zenon DEF Dialogue
<1>3. \A i \in DOMAIN d : d[i].observed = FALSE
  <2>1. \A no : \A i \in DOMAIN Marked(records, no) : Marked(records, no)[i].observed = no
    BY MarkedType
  <2>2. PICK no : no = FALSE
    OBVIOUS
  <2>3. d = Marked(records, no)
    BY <2>2 DEF Dialogue
  <2> HIDE DEF d
  <2>4. \A i \in DOMAIN d : d[i].observed = no
    BY <2>1, <2>3
  <2> QED
    BY <2>2, <2>4
<1>4. turns = LastN(d, MaxHistory)
  OBVIOUS
<1> HIDE DEF d
<1>5. turns \in Seq(KeptRows) /\ Len(turns) <= MaxHistory
  BY <1>1, <1>2, <1>4, LastNSplits
<1>6. \A i \in DOMAIN turns : \E j \in DOMAIN d : turns[i] = d[j]
  BY <1>1, <1>2, <1>4, LastNAre
<1>7. Spoken(turns)
  BY <1>3, <1>6 DEF Spoken
<1> DEFINE f == [i \in DOMAIN turns |->
                   [run |-> turns[i].run, role |-> turns[i].role,
                    parts |-> Reconstructed(turns[i].atts, disk, up)]]
<1>8. h = ApplyMediaPolicy(f, blind)
  BY DEF HistoryOf
<1>9. Renders(f, turns, disk, up)
  BY DEF Renders
<1> HIDE DEF f
<1>10. Tells(h, turns) /\ (blind => Imageless(h))
  BY <1>5, <1>7, <1>8, <1>9, HistoryIs
<1> QED
  BY <1>5, <1>10 DEF Tells

(*------------------------------- invariance ------------------------------*)

PCs == {"done", "cancelled", "idle", "started", "routed", "ready", "answered", "silent", "half"}

(* A run is a record of its fields. *)
Shape(x) ==
  x = [pc |-> x.pc, atts |-> x.atts, choice |-> x.choice, history |-> x.history,
       observed |-> x.observed, parts |-> x.parts, tools |-> x.tools]

GoodRun(x) ==
  /\ Shape(x) /\ x.pc \in PCs
  /\ x.atts \in Seq(Pictured) /\ x.choice.slot \in Chosen
  /\ x.history \in Seq(Shown(Parts)) /\ Len(x.history) <= MaxHistory
  /\ x.parts \in Seq(Parts)
  /\ (x.pc = "ready" /\ Blind(x.choice)) => ImageParts(x.parts) = {} /\ Imageless(x.history)

RunsInv == run = [r \in Runs |-> run[r]] /\ \A r \in Runs : GoodRun(run[r])

IInv ==
  /\ rows \in Seq(KeptRows)
  /\ stored.slot \in Chosen
  /\ disk \in [Images -> Files]
  /\ RunsInv

LEMMA InvIsType == IInv => TypeOK
<1> SUFFICES ASSUME IInv PROVE TypeOK
  OBVIOUS
<1>1. \A i \in DOMAIN rows : rows[i] \in KeptRows
  BY DEF IInv
<1>2. rows \in Seq([run : Runs \cup {"observed"}, role : {"user", "assistant"},
                    observed : BOOLEAN, atts : Seq(Pictures(Images))])
  <2>1. KeptRows \subseteq [run : Runs \cup {"observed"}, role : {"user", "assistant"},
                            observed : BOOLEAN, atts : Seq(Pictures(Images))]
    BY DEF KeptRows
  <2>2. rows \in Seq(KeptRows)
    BY DEF IInv
  <2> QED
    BY <2>1, <2>2, SeqMonotonic, Zenon
<1>3. \A i \in DOMAIN rows : \A k \in DOMAIN rows[i].atts : rows[i].atts[k].place # "url"
  BY <1>1 DEF KeptRows, Kept
<1>4. ASSUME NEW r \in Runs
      PROVE  /\ run[r].pc \in Ended \cup
                  {"idle", "started", "routed", "ready", "answered", "silent", "half"}
             /\ run[r].atts \in Seq(Pictures(Images))
             /\ run[r].choice.slot \in SlotIds \cup {"none"}
             /\ run[r].history \in Seq(Shown(Parts)) /\ Len(run[r].history) <= MaxHistory
             /\ run[r].parts \in Seq(Parts)
  <2>1. GoodRun(run[r])
    BY DEF IInv, RunsInv
  <2> QED
    BY <2>1 DEF GoodRun, PCs, Ended, Pictured, Chosen
<1>5. stored.slot \in SlotIds \cup {"none"} /\ disk \in [Images -> Files]
  BY DEF IInv, Chosen
<1> QED
  BY <1>2, <1>3, <1>4, <1>5 DEF TypeOK

(* Records are updated among those with any fields of some set. *)
AnyRun(V) == [pc : V, atts : V, choice : V, history : V, observed : V, parts : V, tools : V]

FieldsOf(x) == {x.pc, x.atts, x.choice, x.history, x.observed, x.parts, x.tools}

LEMMA AnyHasShape ==
  ASSUME NEW V, NEW x \in AnyRun(V) PROVE Shape(x)
  BY DEF AnyRun, Shape

LEMMA ShapeIsAny ==
  ASSUME NEW x, Shape(x), NEW V, FieldsOf(x) \subseteq V PROVE x \in AnyRun(V)
  BY DEF AnyRun, Shape, FieldsOf

WithPc(x, a) == [x EXCEPT !.pc = a]
WithAtts(x, a, b) == [x EXCEPT !.pc = a, !.atts = b]
WithChoice(x, a, b) == [x EXCEPT !.pc = a, !.choice = b]
WithReady(x, a, b, c, d, e) ==
  [x EXCEPT !.pc = a, !.history = b, !.observed = c, !.parts = d, !.tools = e]

LEMMA SetPc ==
  ASSUME NEW x, Shape(x), NEW a, NEW y, y = WithPc(x, a)
  PROVE  /\ Shape(y) /\ y.pc = a /\ y.atts = x.atts /\ y.choice = x.choice
         /\ y.history = x.history /\ y.parts = x.parts
<1> DEFINE V == FieldsOf(x) \cup {a}
<1>1. x \in AnyRun(V) /\ a \in V
  BY ShapeIsAny
<1> HIDE DEF V
<1>2. /\ y \in AnyRun(V) /\ y.pc = a /\ y.atts = x.atts /\ y.choice = x.choice
      /\ y.history = x.history /\ y.parts = x.parts
  BY <1>1 DEF AnyRun, WithPc
<1> QED
  BY <1>2, AnyHasShape

LEMMA SetAtts ==
  ASSUME NEW x, Shape(x), NEW a, NEW b, NEW y, y = WithAtts(x, a, b)
  PROVE  /\ Shape(y) /\ y.pc = a /\ y.atts = b /\ y.choice = x.choice
         /\ y.history = x.history /\ y.parts = x.parts
<1> DEFINE V == FieldsOf(x) \cup {a, b}
<1>1. x \in AnyRun(V) /\ a \in V /\ b \in V
  BY ShapeIsAny
<1> HIDE DEF V
<1>2. /\ y \in AnyRun(V) /\ y.pc = a /\ y.atts = b /\ y.choice = x.choice
      /\ y.history = x.history /\ y.parts = x.parts
  BY <1>1 DEF AnyRun, WithAtts
<1> QED
  BY <1>2, AnyHasShape

LEMMA SetChoice ==
  ASSUME NEW x, Shape(x), NEW a, NEW b, NEW y, y = WithChoice(x, a, b)
  PROVE  /\ Shape(y) /\ y.pc = a /\ y.atts = x.atts /\ y.choice = b
         /\ y.history = x.history /\ y.parts = x.parts
<1> DEFINE V == FieldsOf(x) \cup {a, b}
<1>1. x \in AnyRun(V) /\ a \in V /\ b \in V
  BY ShapeIsAny
<1> HIDE DEF V
<1>2. /\ y \in AnyRun(V) /\ y.pc = a /\ y.atts = x.atts /\ y.choice = b
      /\ y.history = x.history /\ y.parts = x.parts
  BY <1>1 DEF AnyRun, WithChoice
<1> QED
  BY <1>2, AnyHasShape

LEMMA SetReady ==
  ASSUME NEW x, Shape(x), NEW a, NEW b, NEW c, NEW d, NEW e,
         NEW y, y = WithReady(x, a, b, c, d, e)
  PROVE  /\ Shape(y) /\ y.pc = a /\ y.atts = x.atts /\ y.choice = x.choice
         /\ y.history = b /\ y.parts = d
<1> DEFINE V == FieldsOf(x) \cup {a, b, c, d, e}
<1>1. x \in AnyRun(V) /\ a \in V /\ b \in V /\ c \in V /\ d \in V /\ e \in V
  BY ShapeIsAny
<1> HIDE DEF V
<1>2. /\ y \in AnyRun(V) /\ y.pc = a /\ y.atts = x.atts /\ y.choice = x.choice
      /\ y.history = b /\ y.parts = d
  BY <1>1 DEF AnyRun, WithReady
<1> QED
  BY <1>2, AnyHasShape

LEMMA NoRunIs ==
  /\ Shape(NoRun) /\ NoRun.pc = "idle" /\ NoRun.atts = <<>> /\ NoRun.choice = Nothing
  /\ NoRun.history = <<>> /\ NoRun.parts = <<>>
<1> DEFINE V == {"idle", <<>>, Nothing, 0, {}}
<1>1. "idle" \in V /\ <<>> \in V /\ Nothing \in V /\ 0 \in V /\ {} \in V
  OBVIOUS
<1> HIDE DEF V
<1>2. NoRun \in AnyRun(V) /\ NoRun.pc = "idle" /\ NoRun.atts = <<>> /\ NoRun.choice = Nothing
      /\ NoRun.history = <<>> /\ NoRun.parts = <<>>
  BY <1>1 DEF NoRun, AnyRun
<1> QED
  BY <1>2, AnyHasShape

LEMMA PlainRun ==
  ASSUME TurnAssumption, NEW x, Shape(x), x.pc \in PCs \ {"ready"}, x.atts \in Seq(Pictured),
         x.choice = Nothing, x.history = <<>>, x.parts = <<>>
  PROVE  GoodRun(x)
<1>1. Nothing.slot \in Chosen
  BY DEF Nothing, Chosen
<1>2. <<>> \in Seq(Shown(Parts)) /\ <<>> \in Seq(Parts) /\ Len(<<>>) <= MaxHistory
  BY DEF TurnAssumption
<1> QED
  BY <1>1, <1>2 DEF GoodRun

LEMMA NoRunIsGood ==
  ASSUME TurnAssumption, NEW pc \in PCs \ {"ready"}, NEW atts \in Seq(Pictured)
  PROVE  /\ GoodRun([NoRun EXCEPT !.pc = pc, !.atts = atts])
         /\ GoodRun([NoRun EXCEPT !.pc = pc])
<1> DEFINE x == WithAtts(NoRun, pc, atts)
           y == WithPc(NoRun, pc)
<1>1. /\ Shape(x) /\ x.pc = pc /\ x.atts = atts /\ x.choice = Nothing
      /\ x.history = <<>> /\ x.parts = <<>>
  BY NoRunIs, SetAtts
<1>2. /\ Shape(y) /\ y.pc = pc /\ y.atts = <<>> /\ y.choice = Nothing
      /\ y.history = <<>> /\ y.parts = <<>>
  BY NoRunIs, SetPc
<1>3. <<>> \in Seq(Pictured)
  OBVIOUS
<1> HIDE DEF x, y
<1>4. GoodRun(x) /\ GoodRun(y)
  BY <1>1, <1>2, <1>3, PlainRun
<1> QED
  BY <1>4 DEF x, y, WithAtts, WithPc

LEMMA OneRun ==
  ASSUME RunsInv, NEW r \in Runs, NEW x, GoodRun(x), run' = [run EXCEPT ![r] = x]
  PROVE  RunsInv'
<1>1. DOMAIN run = Runs /\ DOMAIN run' = Runs
  BY DEF RunsInv
<1>2. run' = [q \in Runs |-> run'[q]]
  BY <1>1
<1>3. \A q \in Runs : run'[q] = IF q = r THEN x ELSE run[q]
  BY <1>1
<1>4. \A q \in Runs : GoodRun(run'[q])
  BY <1>3 DEF RunsInv
<1> QED
  BY <1>2, <1>4 DEF RunsInv

LEMMA SameRuns == ASSUME RunsInv, UNCHANGED run PROVE RunsInv'
  BY DEF RunsInv

LEMMA InitInv == ASSUME TurnAssumption, Init PROVE IInv
<1>1. rows \in Seq(KeptRows)
  BY DEF Init
<1>2. stored.slot \in Chosen
  BY DEF Init, Nothing, Chosen
<1>3. disk \in [Images -> Files]
  BY DEF Init, Files
<1>4. RunsInv
  <2>1. "idle" \in PCs \ {"ready"}
    BY DEF PCs
  <2>2. <<>> \in Seq(Pictured)
    OBVIOUS
  <2>3. GoodRun(NoRun)
    BY <2>1, <2>2, NoRunIs, PlainRun
  <2>4. run = [r \in Runs |-> NoRun]
    BY DEF Init
  <2> QED
    BY <2>3, <2>4 DEF RunsInv
<1> QED
  BY <1>1, <1>2, <1>3, <1>4 DEF IInv

LEMMA RunAt ==
  ASSUME RunsInv, NEW r \in Runs PROVE GoodRun(run[r]) /\ Shape(run[r])
  BY DEF RunsInv, GoodRun

LEMMA StartRunStep ==
  ASSUME TurnAssumption, IInv, NEW r \in Runs, StartRun(r) PROVE IInv'
<1>1. PICK sent \in IF r \in ChatRuns THEN Sent[r] ELSE {<<>>} :
        /\ run' = [run EXCEPT ![r] =
             [@ EXCEPT !.pc = "started", !.atts = Numbered(r, sent)]]
        /\ disk' = [i \in Images |->
             IF \E k \in DOMAIN sent : i = <<r, k>> /\ sent[k].place = "path"
             THEN "fresh" ELSE disk[i]]
  BY DEF StartRun
<1> DEFINE x == WithAtts(run[r], "started", Numbered(r, sent))
<1>2. run' = [run EXCEPT ![r] = x]
  BY <1>1 DEF WithAtts
<1>3. GoodRun(run[r]) /\ Shape(run[r])
  BY RunAt DEF IInv
<1>4. /\ Shape(x) /\ x.pc = "started" /\ x.atts = Numbered(r, sent)
      /\ x.choice = run[r].choice /\ x.history = run[r].history /\ x.parts = run[r].parts
  BY <1>3, SetAtts
<1>5. Numbered(r, sent) \in Seq(Pictured)
  BY NumberedType
<1> HIDE DEF x
<1>6. GoodRun(x)
  BY <1>3, <1>4, <1>5 DEF GoodRun, PCs
<1>7. RunsInv'
  BY <1>2, <1>6, OneRun DEF IInv
<1>8. disk' \in [Images -> Files]
  BY <1>1 DEF IInv, Files
<1>9. rows' = rows /\ stored' = stored
  BY DEF StartRun
<1> QED
  BY <1>7, <1>8, <1>9 DEF IInv

LEMMA RouteRunStep ==
  ASSUME SlotsAssumption, IInv, NEW r \in Runs, RouteRun(r) PROVE IInv'
<1> DEFINE c == ResolveProvider(Asks(r).provider, Asks(r).model, stored.slot, stored.model)
           x == WithChoice(run[r], "routed", c)
<1>1. run' = [run EXCEPT ![r] = x]
  BY DEF RouteRun, WithChoice
<1>2. GoodRun(run[r]) /\ Shape(run[r])
  BY RunAt DEF IInv
<1>3. c.slot \in Chosen
  BY ResolveProviderSlot
<1> HIDE DEF c
<1>4. /\ Shape(x) /\ x.pc = "routed" /\ x.atts = run[r].atts
      /\ x.choice = c /\ x.history = run[r].history /\ x.parts = run[r].parts
  BY <1>2, SetChoice
<1> HIDE DEF x
<1>5. GoodRun(x)
  BY <1>2, <1>3, <1>4 DEF GoodRun, PCs
<1>6. RunsInv'
  BY <1>1, <1>5, OneRun DEF IInv
<1>7. UNCHANGED <<rows, stored, disk>>
  BY DEF RouteRun
<1> QED
  BY <1>6, <1>7 DEF IInv

LEMMA FetchedType ==
  ASSUME MediaAssumption, NEW r \in Runs, GoodRun(run[r]), NEW vision
  PROVE  Fetched(r, vision) \in SUBSET Pictured
<1> DEFINE atts == run[r].atts
           shown == IF MaxImages > 0 THEN FirstN(atts, MaxImages) ELSE atts
           few == FirstN(atts, FallbackImages)
<1>1. atts \in Seq(Pictured)
  BY DEF GoodRun
<1>2. shown \in Seq(Pictured) /\ few \in Seq(Pictured)
  BY <1>1, FirstNType DEF MediaAssumption
<1>3. Fetched(r, vision) \subseteq ToSet(shown) \cup ToSet(few)
  BY DEF Fetched
<1> HIDE DEF shown, few
<1> QED
  BY <1>2, <1>3 DEF ToSet

LEMMA AssembleStep ==
  ASSUME TurnAssumption, MediaAssumption, IInv, NEW r \in Runs, Assemble(r) PROVE IInv'
<1> DEFINE context(old, repeated, records) ==
             IF r \in ChatRuns THEN ObservedContext(records, old, repeated) ELSE 0
<1>0. PICK up \in BOOLEAN, records \in {LastN(rows, QueryLimit(r \in ChatRuns))},
           vision \in {Vision(run[r].choice)}, blind \in {Blind(run[r].choice)} :
        \E old, repeated \in 0 .. IF r \in ChatRuns THEN Len(records) ELSE 0 :
          /\ run' = [run EXCEPT ![r] =
               [@ EXCEPT !.pc = "ready",
                         !.history = HistoryOf(records, blind, up),
                         !.observed = context(old, repeated, records),
                         !.parts = UserParts(run[r].atts, vision, disk, up),
                         !.tools = CollectTools]]
          /\ disk' = AfterResolving(Fetched(r, vision), disk, up)
  BY Zenon DEF Assemble
<1>1. PICK old \in 0 .. IF r \in ChatRuns THEN Len(records) ELSE 0,
              repeated \in 0 .. IF r \in ChatRuns THEN Len(records) ELSE 0 :
        /\ run' = [run EXCEPT ![r] =
             [@ EXCEPT !.pc = "ready",
                       !.history = HistoryOf(records, blind, up),
                       !.observed = context(old, repeated, records),
                       !.parts = UserParts(run[r].atts, vision, disk, up),
                       !.tools = CollectTools]]
        /\ disk' = AfterResolving(Fetched(r, vision), disk, up)
  BY <1>0
<1> DEFINE h == HistoryOf(records, blind, up)
           p == UserParts(run[r].atts, vision, disk, up)
           x == WithReady(run[r], "ready", h, context(old, repeated, records), p, CollectTools)
<1>2. run' = [run EXCEPT ![r] = x]
  BY <1>1 DEF WithReady
<1>3. GoodRun(run[r]) /\ Shape(run[r])
  BY RunAt DEF IInv
<1>4. records \in Seq(KeptRows)
  <2>1. QueryLimit(r \in ChatRuns) \in Nat
    BY DEF TurnAssumption, QueryLimit, Surplus
  <2> QED
    BY <2>1, LastNSplits DEF IInv
<1>5. disk' \in [Images -> Files]
  <2>1. Fetched(r, vision) \in SUBSET Pictured
    BY <1>3, FetchedType
  <2> QED
    BY <1>1, <2>1, AfterResolvingType DEF IInv
<1>6. /\ h \in Seq(Shown(Parts)) /\ Len(h) <= MaxHistory
      /\ blind => Imageless(h)
  <2>1. Tells(h, LastN(Dialogue(records), MaxHistory)) /\ (blind => Imageless(h))
        /\ Len(h) <= MaxHistory
    BY <1>4, HistoryOfIs
  <2> QED
    BY <2>1 DEF Tells
<1>7. p \in Seq(Parts) /\ (~ vision => ImageParts(p) = {})
  <2>1. run[r].atts \in Seq(Pictured)
    BY <1>3 DEF GoodRun
  <2> QED
    BY <2>1, UserPartsType
<1>12. Blind(run[r].choice) => blind /\ ~ vision
  BY DEF Vision, Blind
<1> HIDE DEF h, p
<1>8. /\ Shape(x) /\ x.pc = "ready" /\ x.atts = run[r].atts
      /\ x.choice = run[r].choice /\ x.history = h /\ x.parts = p
  BY <1>3, SetReady
<1> HIDE DEF x
<1>9. GoodRun(x)
  BY <1>3, <1>6, <1>7, <1>8, <1>12 DEF GoodRun, PCs
<1>10. RunsInv'
  BY <1>2, <1>9, OneRun DEF IInv
<1>11. UNCHANGED <<rows, stored>>
  BY DEF Assemble
<1> QED
  BY <1>5, <1>10, <1>11 DEF IInv

LEMMA LastIn ==
  ASSUME NEW S, NEW s \in Seq(S), s # <<>> PROVE Last(s) \in S
  BY DEF Last

LEMMA LatestPictureType ==
  ASSUME TurnAssumption, IInv, NEW r \in Runs
  PROVE  LatestPicture(r) \in SUBSET Pictured
<1> DEFINE turns == LastN(rows, MaxHistory)
           with == {i \in DOMAIN turns : turns[i].atts # <<>>}
           newest == {i \in with : \A k \in with : k <= i}
<1>1. run[r].atts \in Seq(Pictured)
  BY RunAt DEF IInv, GoodRun
<1>2. turns \in Seq(KeptRows)
  BY LastNSplits DEF IInv, TurnAssumption
<1>3. ASSUME NEW i \in with PROVE Last(turns[i].atts) \in Pictured
  <2>1. turns[i] \in KeptRows /\ turns[i].atts # <<>>
    <3> HIDE DEF turns
    <3> QED
      BY <1>2
  <2>2. turns[i].atts \in Seq(Pictured)
    BY <2>1 DEF KeptRows, Kept
  <2> QED
    BY <2>1, <2>2, LastIn
<1>4. CASE run[r].atts # <<>>
  <2>1. LatestPicture(r) = {Last(run[r].atts)}
    BY <1>4 DEF LatestPicture
  <2> QED
    BY <1>1, <1>4, <2>1, LastIn
<1>5. CASE run[r].atts = <<>>
  <2>1. LatestPicture(r) = {Last(turns[i].atts) : i \in newest}
    BY <1>5 DEF LatestPicture
  <2>2. newest \subseteq with
    OBVIOUS
  <2> HIDE DEF newest, with, turns
  <2> QED
    BY <1>3, <2>1, <2>2
<1> QED
  BY <1>4, <1>5

LEMMA UnderstandImageStep ==
  ASSUME TurnAssumption, IInv, NEW r \in Runs, UnderstandImage(r) PROVE IInv'
<1>1. PICK up \in BOOLEAN : disk' = AfterResolving(LatestPicture(r), disk, up)
  BY DEF UnderstandImage
<1>2. disk' \in [Images -> Files]
  BY <1>1, LatestPictureType, AfterResolvingType DEF IInv
<1>3. UNCHANGED <<rows, stored, run>>
  BY DEF UnderstandImage
<1> QED
  BY <1>2, <1>3, SameRuns DEF IInv

LEMMA AnswerStep ==
  ASSUME TurnAssumption, IInv, NEW r \in Runs, Answer(r) PROVE IInv'
<1>1. PICK pc \in {"answered", "silent"} :
        run' = [run EXCEPT ![r] = [NoRun EXCEPT !.pc = pc, !.atts = run[r].atts]]
  BY DEF Answer
<1>2. run[r].atts \in Seq(Pictured)
  BY RunAt DEF IInv, GoodRun
<1>3. pc \in PCs \ {"ready"}
  BY DEF PCs
<1> DEFINE x == [NoRun EXCEPT !.pc = pc, !.atts = run[r].atts]
<1>4. GoodRun(x)
  BY <1>2, <1>3, NoRunIsGood
<1>5. run' = [run EXCEPT ![r] = x]
  BY <1>1
<1> HIDE DEF x
<1>6. RunsInv'
  BY <1>4, <1>5, OneRun DEF IInv
<1>7. UNCHANGED <<rows, stored, disk>>
  BY DEF Answer
<1> QED
  BY <1>6, <1>7 DEF IInv

LEMMA RowIsKept ==
  ASSUME NEW r, NEW role \in {"user", "assistant"}, NEW observed \in BOOLEAN,
         (observed = FALSE /\ r \in Runs) \/ (observed = TRUE /\ r = "observed"),
         NEW atts \in Seq(Pictured), \A k \in DOMAIN atts : atts[k].place # "url"
  PROVE  Row(r, role, observed, atts) \in KeptRows
<1> DEFINE w == Row(r, role, observed, atts)
<1>1. /\ w.run = r /\ w.role = role /\ w.atts = atts /\ w.observed = observed
      /\ w \in [run : Runs \cup {"observed"}, role : {"user", "assistant"},
                observed : BOOLEAN, atts : Seq(Pictured)]
  BY DEF Row
<1> HIDE DEF w
<1>2. Kept(w)
  BY <1>1 DEF Kept
<1> QED
  BY <1>1, <1>2 DEF KeptRows, Pictured, w

LEMMA PersistUserStep ==
  ASSUME TurnAssumption, IInv, NEW r \in Runs, PersistUser(r) PROVE IInv'
<1>1. PICK up \in BOOLEAN :
        /\ rows' = Append(rows, Row(r, "user", FALSE,
                     [i \in DOMAIN run[r].atts |-> Persisted(run[r].atts[i], disk, up)]))
        /\ disk' = AfterResolving(ToSet(run[r].atts), disk, up)
  BY DEF PersistUser
<1> DEFINE kept == [i \in DOMAIN run[r].atts |-> Persisted(run[r].atts[i], disk, up)]
           pc == IF run[r].pc = "answered" THEN "half" ELSE "done"
           x == [NoRun EXCEPT !.pc = pc]
<1>2. run[r].atts \in Seq(Pictured)
  BY RunAt DEF IInv, GoodRun
<1>3. kept \in Seq(Pictured) /\ \A k \in DOMAIN kept : kept[k].place # "url"
  <2>1. \A k \in DOMAIN run[r].atts : run[r].atts[k] \in Pictured
    BY <1>2
  <2>2. DOMAIN kept = DOMAIN run[r].atts /\ kept = [k \in DOMAIN kept |-> kept[k]]
        /\ \A k \in DOMAIN kept : kept[k] = Persisted(run[r].atts[k], disk, up)
    OBVIOUS
  <2> HIDE DEF kept
  <2>3. \A k \in DOMAIN kept : kept[k] \in Pictured /\ kept[k].place # "url"
    BY <2>1, <2>2, PersistedType
  <2> QED
    BY <1>2, <2>2, <2>3, MapType
<1>4. rows' \in Seq(KeptRows)
  <2> HIDE DEF kept
  <2>1. Row(r, "user", FALSE, kept) \in KeptRows
    BY <1>3, RowIsKept
  <2>2. rows' = Append(rows, Row(r, "user", FALSE, kept))
    BY <1>1 DEF kept
  <2> QED
    BY <2>1, <2>2, AppendProperties DEF IInv
<1>5. disk' \in [Images -> Files]
  <2>1. ToSet(run[r].atts) \in SUBSET Pictured
    BY <1>2 DEF ToSet
  <2> QED
    BY <1>1, <2>1, AfterResolvingType DEF IInv
<1>6. RunsInv'
  <2>1. pc \in PCs \ {"ready"}
    BY DEF PCs
  <2>2. run' = [run EXCEPT ![r] = x]
    BY DEF PersistUser
  <2> HIDE DEF pc
  <2>3. GoodRun(x)
    BY <1>2, <2>1, NoRunIsGood
  <2> HIDE DEF x
  <2> QED
    BY <2>2, <2>3, OneRun DEF IInv
<1>7. stored' = stored
  BY DEF PersistUser
<1> QED
  BY <1>4, <1>5, <1>6, <1>7 DEF IInv

LEMMA PersistAnswerStep ==
  ASSUME TurnAssumption, IInv, NEW r \in Runs, PersistAnswer(r) PROVE IInv'
<1> DEFINE x == WithPc(run[r], "done")
<1>1. run' = [run EXCEPT ![r] = x]
  BY DEF PersistAnswer, WithPc
<1>2. GoodRun(run[r]) /\ Shape(run[r])
  BY RunAt DEF IInv
<1>3. /\ Shape(x) /\ x.pc = "done" /\ x.atts = run[r].atts
      /\ x.choice = run[r].choice /\ x.history = run[r].history /\ x.parts = run[r].parts
  BY <1>2, SetPc
<1> HIDE DEF x
<1>4. GoodRun(x)
  BY <1>2, <1>3 DEF GoodRun, PCs
<1>5. RunsInv'
  BY <1>1, <1>4, OneRun DEF IInv
<1>6. rows' \in Seq(KeptRows)
  <2>1. <<>> \in Seq(Pictured) /\ \A k \in DOMAIN <<>> : FALSE
    OBVIOUS
  <2>2. Row(r, "assistant", FALSE, <<>>) \in KeptRows
    BY <2>1, RowIsKept
  <2> QED
    BY <2>2, AppendProperties DEF PersistAnswer, IInv
<1>7. UNCHANGED <<stored, disk>>
  BY DEF PersistAnswer
<1> QED
  BY <1>5, <1>6, <1>7 DEF IInv

LEMMA CancelRunStep ==
  ASSUME TurnAssumption, IInv, NEW r \in Runs, CancelRun(r) PROVE IInv'
<1> DEFINE x == [NoRun EXCEPT !.pc = "cancelled"]
<1>1. run' = [run EXCEPT ![r] = x] /\ UNCHANGED <<rows, stored, disk>>
  BY DEF CancelRun
<1>2. "cancelled" \in PCs \ {"ready"} /\ <<>> \in Seq(Pictured)
  BY DEF PCs
<1>3. GoodRun(x)
  BY <1>2, NoRunIsGood
<1> HIDE DEF x
<1>4. RunsInv'
  BY <1>1, <1>3, OneRun DEF IInv
<1> QED
  BY <1>1, <1>4 DEF IInv

LEMMA ObserveStep == ASSUME IInv, Observe PROVE IInv'
<1>1. <<>> \in Seq(Pictured) /\ \A k \in DOMAIN <<>> : FALSE
  OBVIOUS
<1>2. Row("observed", "user", TRUE, <<>>) \in KeptRows
  BY <1>1, RowIsKept
<1>3. rows' \in Seq(KeptRows)
  BY <1>2, AppendProperties DEF Observe, IInv
<1>4. UNCHANGED <<stored, disk, run>>
  BY DEF Observe
<1> QED
  BY <1>3, <1>4, SameRuns DEF IInv

LEMMA AgeFileStep == ASSUME IInv, NEW i \in Images, AgeFile(i) PROVE IInv'
<1>1. disk' \in [Images -> Files]
  BY DEF AgeFile, IInv, Files
<1>2. UNCHANGED <<rows, stored, run>>
  BY DEF AgeFile
<1> QED
  BY <1>1, <1>2, SameRuns DEF IInv

LEMMA ClearSessionStep == ASSUME IInv, ClearSession PROVE IInv'
<1>1. rows' \in Seq(KeptRows) /\ UNCHANGED <<stored, disk, run>>
  BY DEF ClearSession
<1> QED
  BY <1>1, SameRuns DEF IInv

LEMMA SwitchModelStep == ASSUME SlotsAssumption, IInv, SwitchModel PROVE IInv'
<1>1. PICK name \in Switches : stored' = ModelSelection(name)
  BY DEF SwitchModel
<1>2. stored'.slot \in Chosen
  BY <1>1, ModelSelectionSlot
<1>3. UNCHANGED <<rows, disk, run>>
  BY DEF SwitchModel
<1> QED
  BY <1>2, <1>3, SameRuns DEF IInv

LEMMA NextInv ==
  ASSUME TurnAssumption, MediaAssumption, SlotsAssumption, IInv, [Next]_vars
  PROVE  IInv'
<1>1. CASE UNCHANGED vars
  BY <1>1, SameRuns DEF IInv, vars
<1>2. ASSUME NEW r \in Runs, RunStep(r) PROVE IInv'
  BY <1>2, StartRunStep, RouteRunStep, AssembleStep, UnderstandImageStep, AnswerStep,
     PersistUserStep, PersistAnswerStep, CancelRunStep DEF RunStep
<1>3. ASSUME NEW i \in Images, AgeFile(i) PROVE IInv'
  BY <1>3, AgeFileStep
<1> QED
  BY <1>1, <1>2, <1>3, ObserveStep, ClearSessionStep, SwitchModelStep DEF Next

(* What every reachable state satisfies: rows of the dialogue belong to a
   run, stored pictures have a file or only an id, and a run that is ready
   shows a model without vision texts alone. *)
THEOREM Invariance == Spec => []IInv
<1>1. Init => IInv
  BY TurnAssumption, InitInv
<1>2. IInv /\ [Next]_vars => IInv'
  BY TurnAssumption, MediaAssumption, SlotsAssumption, NextInv
<1> QED
  BY <1>1, <1>2, PTL DEF Spec

(* The variables of a session keep their types: whatever name /model or a
   scheduled job gives, the slot is one of the configuration or none; a
   stored picture never keeps its url; and no run is given more than
   MaxHistory turns. *)
THEOREM TypeCorrect == Spec => []TypeOK
  BY InvIsType, Invariance, PTL

LEMMA ReadyIsImageless == IInv => NoImagesForTextModel
<1> SUFFICES ASSUME IInv, NEW r \in Runs, run[r].pc = "ready", Blind(run[r].choice)
             PROVE  /\ ImageParts(run[r].parts) = {}
                    /\ \A i \in DOMAIN run[r].history : ImageParts(run[r].history[i].parts) = {}
  BY DEF NoImagesForTextModel
<1>1. GoodRun(run[r])
  BY RunAt DEF IInv
<1> QED
  BY <1>1 DEF GoodRun, Imageless

(* A model known to lack image_input is given no picture, neither of the turn nor
   of the history, whichever model stored that and whichever the policy, the
   fallback and the limits are (_build_user_parts,
   _apply_media_context_policy). *)
THEOREM TextModelsSeeNoImages == Spec => []NoImagesForTextModel
  BY ReadyIsImageless, Invariance, PTL

LEMMA AssembleTells ==
  ASSUME TurnAssumption, IInv, NEW r \in ChatRuns, ContextMax > 0, Assemble(r),
         NEW turns, turns = LastN(Dialogue(rows), MaxHistory),
         \A k \in DOMAIN rows :
           turns # <<>> /\ rows[k] = turns[1] =>
             Len(Observed(SubSeq(rows, k, Len(rows)))) <= Surplus
  PROVE  Tells(run'[r].history, turns)
<1>1. QueryLimit(r \in ChatRuns) = MaxHistory + Surplus
  BY DEF QueryLimit
<1> DEFINE records == LastN(rows, MaxHistory + Surplus)
           context(old, repeated, rs) ==
             IF r \in ChatRuns THEN ObservedContext(rs, old, repeated) ELSE 0
<1>2. PICK up \in BOOLEAN, rs \in {LastN(rows, QueryLimit(r \in ChatRuns))},
           vision \in {Vision(run[r].choice)}, blind \in {Blind(run[r].choice)} :
        \E old, repeated \in 0 .. IF r \in ChatRuns THEN Len(rs) ELSE 0 :
          /\ run' = [run EXCEPT ![r] =
               [@ EXCEPT !.pc = "ready",
                         !.history = HistoryOf(rs, blind, up),
                         !.observed = context(old, repeated, rs),
                         !.parts = UserParts(run[r].atts, vision, disk, up),
                         !.tools = CollectTools]]
          /\ disk' = AfterResolving(Fetched(r, vision), disk, up)
  BY Zenon DEF Assemble
<1>3. PICK o, p, t :
        run' = [run EXCEPT ![r] = WithReady(run[r], "ready", HistoryOf(rs, blind, up), o, p, t)]
  BY <1>2 DEF WithReady
<1> DEFINE h == HistoryOf(rs, blind, up)
           x == WithReady(run[r], "ready", h, o, p, t)
<1>4. r \in Runs
  BY DEF Runs
<1>5. Shape(run[r])
  BY <1>4, RunAt DEF IInv
<1>6. x.history = h
  <2> HIDE DEF h
  <2> QED
    BY <1>5, SetReady
<1>7. run'[r] = x
  <2>1. DOMAIN run = Runs
    BY DEF IInv, RunsInv
  <2> HIDE DEF x
  <2>2. run' = [run EXCEPT ![r] = x]
    BY <1>3 DEF x
  <2> QED
    BY <1>4, <2>1, <2>2
<1>8. rs = records
  BY <1>1
<1>9. MaxHistory \in Nat /\ Surplus \in Nat /\ rows \in Seq(KeptRows)
  BY DEF TurnAssumption, Surplus, IInv
<1>10. records \in Seq(KeptRows)
  <2>1. MaxHistory + Surplus \in Nat
    BY <1>9
  <2> HIDE DEF records
  <2> QED
    BY <1>9, <2>1, LastNSplits DEF records
<1>11. LastN(Dialogue(records), MaxHistory) = turns
  <2>1. PICK no, yes : no = FALSE /\ yes = TRUE
    OBVIOUS
  <2>2. Marks(KeptRows, no, yes)
    BY <2>1 DEF KeptRows, Kept, Marks
  <2>3. \A s : Dialogue(s) = Marked(s, no) /\ Observed(s) = Marked(s, yes)
    BY <2>1 DEF Dialogue, Observed
  <2>4. FewSince(rows, LastN(Marked(rows, no), MaxHistory), yes, Surplus)
    BY <2>3 DEF FewSince
  <2>5. LastN(Marked(records, no), MaxHistory) = LastN(Marked(rows, no), MaxHistory)
    BY <1>9, <2>2, <2>4, WindowIsLast
  <2> HIDE DEF records
  <2> QED
    BY <2>3, <2>5
<1>12. Tells(h, LastN(Dialogue(records), MaxHistory))
  <2> HIDE DEF records
  <2> QED
    BY <1>8, <1>10, HistoryOfIs
<1> QED
  BY <1>6, <1>7, <1>11, <1>12

LEMMA HistoryOfStep ==
  ASSUME TurnAssumption, IInv, [Next]_vars, NEW r \in ChatRuns,
         ContextMax > 0, run[r].pc = "routed", run'[r].pc = "ready"
  PROVE  Assemble(r)
<1>1. r \in Runs /\ DOMAIN run = Runs
  BY DEF Runs, IInv, RunsInv
<1>2. ASSUME NEW q \in Runs, NEW x, run' = [run EXCEPT ![q] = x], x.pc # "ready" PROVE FALSE
  BY <1>1, <1>2
<1>3. ASSUME UNCHANGED run PROVE FALSE
  BY <1>3
<1>4. PICK q \in Runs : RunStep(q)
  BY <1>3 DEF Next, vars, AgeFile, Observe, ClearSession, SwitchModel
<1>5. GoodRun(run[q]) /\ Shape(run[q])
  BY RunAt DEF IInv
<1>6. ~ StartRun(q)
  <2> SUFFICES ASSUME StartRun(q) PROVE FALSE
    OBVIOUS
  <2>1. PICK sent : run' = [run EXCEPT ![q] = WithAtts(run[q], "started", Numbered(q, sent))]
    BY DEF StartRun, WithAtts
  <2>2. WithAtts(run[q], "started", Numbered(q, sent)).pc = "started"
    BY <1>5, SetAtts
  <2> QED
    BY <1>2, <2>1, <2>2
<1>7. ~ RouteRun(q)
  <2> SUFFICES ASSUME RouteRun(q) PROVE FALSE
    OBVIOUS
  <2>1. PICK c : run' = [run EXCEPT ![q] = WithChoice(run[q], "routed", c)]
    BY DEF RouteRun, WithChoice
  <2>2. WithChoice(run[q], "routed", c).pc = "routed"
    BY <1>5, SetChoice
  <2> QED
    BY <1>2, <2>1, <2>2
<1>8. ~ UnderstandImage(q)
  BY <1>3 DEF UnderstandImage
<1>9. ~ Answer(q)
  <2> SUFFICES ASSUME Answer(q) PROVE FALSE
    OBVIOUS
  <2>1. PICK pc \in {"answered", "silent"} :
          run' = [run EXCEPT ![q] = WithAtts(NoRun, pc, run[q].atts)]
    BY DEF Answer, WithAtts
  <2>2. WithAtts(NoRun, pc, run[q].atts).pc = pc
    BY NoRunIs, SetAtts
  <2> QED
    BY <1>2, <2>1, <2>2
<1>10. ~ PersistUser(q)
  <2> SUFFICES ASSUME PersistUser(q) PROVE FALSE
    OBVIOUS
  <2>1. PICK pc \in {"half", "done"} : run' = [run EXCEPT ![q] = WithPc(NoRun, pc)]
    BY DEF PersistUser, WithPc
  <2>2. WithPc(NoRun, pc).pc = pc
    BY NoRunIs, SetPc
  <2> QED
    BY <1>2, <2>1, <2>2
<1>11. ~ PersistAnswer(q)
  <2> SUFFICES ASSUME PersistAnswer(q) PROVE FALSE
    OBVIOUS
  <2>1. run' = [run EXCEPT ![q] = WithPc(run[q], "done")]
    BY DEF PersistAnswer, WithPc
  <2>2. WithPc(run[q], "done").pc = "done"
    BY <1>5, SetPc
  <2> QED
    BY <1>2, <2>1, <2>2
<1>12. ~ CancelRun(q)
  <2> SUFFICES ASSUME CancelRun(q) PROVE FALSE
    OBVIOUS
  <2>1. run' = [run EXCEPT ![q] = WithPc(NoRun, "cancelled")]
    BY DEF CancelRun, WithPc
  <2>2. WithPc(NoRun, "cancelled").pc = "cancelled"
    BY NoRunIs, SetPc
  <2> QED
    BY <1>2, <2>1, <2>2
<1>13. Assemble(q)
  BY <1>4, <1>6, <1>7, <1>8, <1>9, <1>10, <1>11, <1>12 DEF RunStep
<1>14. q = r
  <2>1. PICK y : run' = [run EXCEPT ![q] = y]
    BY <1>13 DEF Assemble
  <2> QED
    BY <1>1, <2>1
<1> QED
  BY <1>13, <1>14

(* Outside a group's context being switched off, the history of a run for a
   message of the chat is the end of the dialogue, for every limit of the
   configuration and any interleaving, while the surplus holds what was
   observed since its oldest turn. *)
THEOREM HistoryIsTheEnd == Spec => HistoryIsLast
<1> DEFINE Step ==
      \A r \in ChatRuns :
        (ContextMax > 0 /\ run[r].pc = "routed" /\ run'[r].pc = "ready") =>
          LET turns == LastN(Dialogue(rows), MaxHistory)
              given == run'[r].history
              since(k) == SubSeq(rows, k, Len(rows))
          IN (\A k \in DOMAIN rows :
                turns # <<>> /\ rows[k] = turns[1] => Len(Observed(since(k))) <= Surplus) =>
               /\ Len(given) = Len(turns)
               /\ \A i \in DOMAIN given :
                    given[i].run = turns[i].run /\ given[i].role = turns[i].role
<1>1. ASSUME IInv, [Next]_vars PROVE Step
  <2> SUFFICES ASSUME NEW r \in ChatRuns,
                      ContextMax > 0, run[r].pc = "routed", run'[r].pc = "ready",
                      NEW turns, turns = LastN(Dialogue(rows), MaxHistory),
                      \A k \in DOMAIN rows :
                        turns # <<>> /\ rows[k] = turns[1] =>
                          Len(Observed(SubSeq(rows, k, Len(rows)))) <= Surplus
               PROVE  /\ Len(run'[r].history) = Len(turns)
                      /\ \A i \in DOMAIN run'[r].history :
                           /\ run'[r].history[i].run = turns[i].run
                           /\ run'[r].history[i].role = turns[i].role
    OBVIOUS
  <2>1. Assemble(r)
    BY <1>1, TurnAssumption, HistoryOfStep
  <2>2. Tells(run'[r].history, turns)
    BY <1>1, <2>1, TurnAssumption, AssembleTells
  <2> QED
    BY <2>2 DEF Tells
<1>2. IInv /\ [Next]_vars => [Step]_vars
  BY <1>1
<1>3. Spec => [][Step]_vars
  <2>1. Spec => []IInv /\ [][Next]_vars
    BY Invariance, PTL DEF Spec
  <2> HIDE DEF Step
  <2> QED
    BY <1>2, <2>1, PTL
<1> QED
  BY <1>3 DEF HistoryIsLast
=============================================================================
