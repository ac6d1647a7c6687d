--------------------------- MODULE AgentLoopProofs ---------------------------
(***************************************************************************)
(* Theorems about AgentLoop: the types of its state, the budget of its     *)
(* prompts, the execution of its tools, and the calls and results of its   *)
(* requests, for every history, every size of a message and every value of *)
(* the limits. What the prompt and the parsers compute with recursive      *)
(* functions is proved by induction, with the lemmas of SequenceLemmas.    *)
(*                                                                         *)
(* Calls and results: the turn is closed whenever a prompt is built, that  *)
(* is, every call has its result behind it and every result a call before  *)
(* it (TurnInv). Windows, cuts and summaries keep it closed, since they    *)
(* take whole groups, change no more than sizes and add texts              *)
(* (PromptClosed); so do the sanitizer, the reordering of the system       *)
(* messages and the continuation of a response. What is serialized of a    *)
(* closed conversation is paired (ItemsPaired, RequestPaired).             *)
(***************************************************************************)
EXTENDS AgentLoop, SequenceLemmas, FiniteSetTheorems

(*--------------------------- tokens of a sequence ------------------------*)

Size(m) == Fixed(m) + m.size

LEMMA SizeType ==
  ASSUME NEW m \in Messages
  PROVE  Fixed(m) \in Nat /\ Fixed(m) > 0 /\ m.size \in Nat /\ Size(m) \in Nat
<1>1. m.calls \in Seq(CallIds) /\ m.size \in Nat
  BY DEF Messages
<1>2. Len(m.calls) \in Nat
  BY <1>1
<1> QED
  BY <1>1, <1>2, BudgetAssumption DEF Fixed, Size

(* The sums of Tokens. *)
Sums(s) ==
  CHOOSE sum : sum = [i \in 0 .. Len(s) |->
                        IF i = 0 THEN 0 ELSE sum[i - 1] + Fixed(s[i]) + s[i].size]

LEMMA SumsExist ==
  ASSUME NEW s \in Seq(Messages)
  PROVE  Sums(s) = [i \in 0 .. Len(s) |->
                      IF i = 0 THEN 0 ELSE Sums(s)[i - 1] + Fixed(s[i]) + s[i].size]
<1> DEFINE Is(f) == f = [i \in 0 .. Len(s) |->
                           IF i = 0 THEN 0 ELSE f[i - 1] + Fixed(s[i]) + s[i].size]
           rule == [p \in (1 .. Len(s)) \X Nat |-> p[2] + Fixed(s[p[1]]) + s[p[1]].size]
<1>1. rule \in [(1 .. Len(s)) \X Nat -> Nat]
  <2>1. ASSUME NEW p \in (1 .. Len(s)) \X Nat PROVE p[2] + Fixed(s[p[1]]) + s[p[1]].size \in Nat
    <3>1. s[p[1]] \in Messages /\ p[2] \in Nat
      OBVIOUS
    <3> QED
      BY <3>1, SizeType
  <2> QED
    BY <2>1
<1>2. PICK f \in [0 .. Len(s) -> Nat] :
        f[0] = 0 /\ \A i \in 1 .. Len(s) : f[i] = rule[<<i, f[i - 1]>>]
  <2> DEFINE n == Len(s)
  <2>1. n \in Nat /\ 0 \in Nat /\ rule \in Rules(n, Nat)
    BY <1>1 DEF Rules
  <2>2. \E f : Obeys(f, n, Nat, 0, rule)
    <3> HIDE DEF rule, n
    <3> QED
      BY <2>1, Recursion
  <2> QED
    BY <2>2 DEF Obeys
<1>3. ASSUME NEW i \in 0 .. Len(s)
      PROVE  f[i] = IF i = 0 THEN 0 ELSE f[i - 1] + Fixed(s[i]) + s[i].size
  <2>1. ASSUME i # 0 PROVE rule[<<i, f[i - 1]>>] = f[i - 1] + Fixed(s[i]) + s[i].size
    <3>1. <<i, f[i - 1]>> \in (1 .. Len(s)) \X Nat
      BY <2>1
    <3> QED
      BY <3>1
  <2> HIDE DEF rule
  <2> QED
    BY <1>2, <2>1
<1>4. Is(f)
  BY <1>3
<1>5. Is(CHOOSE g : Is(g))
  <2> HIDE DEF Is
  <2> QED
    BY <1>4
<1> QED
  BY <1>5 DEF Sums

LEMMA SumsType ==
  ASSUME NEW s \in Seq(Messages)
  PROVE  /\ Sums(s) \in [0 .. Len(s) -> Nat] /\ Sums(s)[0] = 0
         /\ \A i \in 1 .. Len(s) : Sums(s)[i] = Sums(s)[i - 1] + Size(s[i])
<1> DEFINE f == Sums(s)
           T == {i \in 0 .. Len(s) : f[i] \in Nat}
<1>1. f = [i \in 0 .. Len(s) |-> IF i = 0 THEN 0 ELSE f[i - 1] + Fixed(s[i]) + s[i].size]
  BY SumsExist
<1> HIDE DEF f
<1>2. 0 \in T /\ f[0] = 0
  BY <1>1
<1>3. ASSUME NEW i \in 0 .. Len(s) - 1, i \in T PROVE i + 1 \in T
  <2>1. s[i + 1] \in Messages /\ i + 1 \in 0 .. Len(s) /\ i + 1 # 0 /\ (i + 1) - 1 = i
    OBVIOUS
  <2>2. f[i + 1] = f[i] + Fixed(s[i + 1]) + s[i + 1].size
    BY <1>1, <2>1
  <2> QED
    BY <1>3, <2>1, <2>2, SizeType
<1>4. \A i \in 0 .. Len(s) : i \in T
  <2>1. Len(s) \in Nat
    OBVIOUS
  <2> HIDE DEF T
  <2> QED
    BY <1>2, <1>3, <2>1, Induction
<1>5. f \in [0 .. Len(s) -> Nat]
  BY <1>1, <1>4
<1>6. ASSUME NEW i \in 1 .. Len(s) PROVE f[i] = f[i - 1] + Size(s[i])
  <2>1. f[i] = f[i - 1] + Fixed(s[i]) + s[i].size
    BY <1>1
  <2>2. s[i] \in Messages /\ f[i - 1] \in Nat
    BY <1>5
  <2> QED
    BY <2>1, <2>2, SizeType DEF Size
<1> QED
  BY <1>2, <1>5, <1>6 DEF f

LEMMA TokensType ==
  ASSUME NEW s \in Seq(Messages)
  PROVE  Tokens(s) = Sums(s)[Len(s)] /\ Tokens(s) \in Nat
<1>1. Tokens(s) = Sums(s)[Len(s)]
  BY DEF Tokens, Sums
<1> QED
  BY <1>1, SumsType

LEMMA TokensConcat ==
  ASSUME NEW s \in Seq(Messages), NEW t \in Seq(Messages)
  PROVE  Tokens(s \o t) = Tokens(s) + Tokens(t)
<1> DEFINE u == s \o t
           n == Len(s)
           m == Len(t)
           f == Sums(s)
           g == Sums(t)
           h == Sums(u)
<1>1. /\ u \in Seq(Messages) /\ n \in Nat /\ m \in Nat /\ Len(u) = n + m
      /\ \A i \in 1 .. n : u[i] = s[i]
      /\ \A i \in 1 .. m : u[n + i] = t[i]
  OBVIOUS
<1>2. /\ f \in [0 .. n -> Nat] /\ f[0] = 0
      /\ \A i \in 1 .. n : f[i] = f[i - 1] + Size(s[i])
  BY SumsType
<1>3. /\ g \in [0 .. m -> Nat] /\ g[0] = 0
      /\ \A i \in 1 .. m : g[i] = g[i - 1] + Size(t[i])
  BY SumsType
<1>4. /\ h \in [0 .. n + m -> Nat] /\ h[0] = 0
      /\ \A i \in 1 .. n + m : h[i] = h[i - 1] + Size(u[i])
  <2> HIDE DEF u
  <2> QED
    BY <1>1, SumsType
<1>5. Tokens(s) = f[n] /\ Tokens(t) = g[m] /\ Tokens(u) = h[n + m]
  <2> HIDE DEF u
  <2> QED
    BY <1>1, TokensType
<1>6. \A i \in 1 .. n : Size(s[i]) \in Nat
  BY SizeType
<1>7. \A i \in 1 .. m : Size(t[i]) \in Nat
  BY SizeType
<1> HIDE DEF f, g, h, u, n, m
<1>8. h[n] = f[n]
  <2> DEFINE T == {i \in 0 .. n : h[i] = f[i]}
  <2>1. 0 \in T
    BY <1>1, <1>2, <1>4
  <2>2. ASSUME NEW i \in 0 .. n - 1, i \in T PROVE i + 1 \in T
    <3>1. i + 1 \in 1 .. n /\ i + 1 \in 1 .. n + m /\ i + 1 \in 0 .. n /\ (i + 1) - 1 = i
      BY <1>1
    <3>2. h[i + 1] = h[i] + Size(u[i + 1]) /\ u[i + 1] = s[i + 1]
      BY <1>1, <1>4, <3>1
    <3>3. f[i + 1] = f[i] + Size(s[i + 1])
      BY <1>2, <3>1
    <3> QED
      BY <2>2, <3>1, <3>2, <3>3
  <2>3. \A i \in 0 .. n : i \in T
    <3> HIDE DEF T
    <3> QED
      BY <1>1, <2>1, <2>2, Induction
  <2> QED
    BY <1>1, <2>3
<1>9. h[n + m] = f[n] + g[m]
  <2> DEFINE T == {i \in 0 .. m : h[n + i] = f[n] + g[i]}
  <2>1. 0 \in T
    <3>1. n + 0 = n /\ f[n] \in Nat /\ g[0] = 0 /\ 0 \in 0 .. m
      BY <1>1, <1>2, <1>3
    <3> QED
      BY <1>8, <3>1
  <2>2. ASSUME NEW i \in 0 .. m - 1, i \in T PROVE i + 1 \in T
    <3>1. /\ i + 1 \in 1 .. m /\ n + (i + 1) \in 1 .. n + m /\ i + 1 \in 0 .. m
          /\ (i + 1) - 1 = i /\ (n + (i + 1)) - 1 = n + i
      BY <1>1
    <3>2. h[n + (i + 1)] = h[n + i] + Size(u[n + (i + 1)]) /\ u[n + (i + 1)] = t[i + 1]
      BY <1>1, <1>4, <3>1
    <3>3. g[i + 1] = g[i] + Size(t[i + 1])
      BY <1>3, <3>1
    <3>4. f[n] \in Nat /\ g[i] \in Nat /\ Size(t[i + 1]) \in Nat
      BY <1>1, <1>2, <1>3, <1>7, <3>1
    <3> QED
      BY <2>2, <3>1, <3>2, <3>3, <3>4
  <2>3. \A i \in 0 .. m : i \in T
    <3> HIDE DEF T
    <3> QED
      BY <1>1, <2>1, <2>2, Induction
  <2> QED
    BY <1>1, <2>3
<1> QED
  BY <1>5, <1>9 DEF u

LEMMA TokensOne ==
  ASSUME NEW m \in Messages
  PROVE  <<m>> \in Seq(Messages) /\ Tokens(<<m>>) = Size(m)
<1>1. <<m>> \in Seq(Messages) /\ Len(<<m>>) = 1 /\ <<m>>[1] = m
  OBVIOUS
<1> DEFINE s == <<m>>
<1>2. s \in Seq(Messages) /\ Len(s) = 1 /\ s[1] = m
  BY <1>1
<1> HIDE DEF s
<1>3. Tokens(s) = Sums(s)[1] /\ Sums(s)[0] = 0
  BY <1>2, TokensType, SumsType
<1>4. Sums(s)[1] = Sums(s)[0] + Size(m)
  <2>1. 1 \in 1 .. Len(s) /\ 1 - 1 = 0
    BY <1>2
  <2> QED
    BY <1>2, <2>1, SumsType
<1>5. Tokens(s) = Size(m)
  BY <1>3, <1>4, SizeType
<1> QED
  BY <1>1, <1>5 DEF s

LEMMA TokensNone == Tokens(<<>>) = 0
<1>1. <<>> \in Seq(Messages) /\ Len(<<>>) = 0
  OBVIOUS
<1> QED
  BY <1>1, TokensType, SumsType

LEMMA TokensWithout ==
  ASSUME NEW s \in Seq(Messages), NEW i \in DOMAIN s
  PROVE  RemoveAt(s, i) \in Seq(Messages) /\ Tokens(s) = Tokens(RemoveAt(s, i)) + Size(s[i])
<1> DEFINE a == SubSeq(s, 1, i - 1)
           b == SubSeq(s, i + 1, Len(s))
           m == s[i]
<1>1. a \in Seq(Messages) /\ b \in Seq(Messages) /\ m \in Messages
  OBVIOUS
<1>2. s = a \o (<<m>> \o b)
  <2>1. /\ i \in 1 .. Len(s) /\ Len(s) \in i .. Len(s) /\ 1 \in 1 .. Len(s) + 1
        /\ i - 1 \in 1 - 1 .. Len(s) /\ Len(s) \in i - 1 .. Len(s)
    OBVIOUS
  <2>2. SubSeq(s, i, Len(s)) = <<m>> \o b
    BY <2>1, SubSeqRecursiveFirst
  <2>3. SubSeq(s, 1, i - 1) \o SubSeq(s, (i - 1) + 1, Len(s)) = SubSeq(s, 1, Len(s))
    BY <2>1, ConcatAdjacentSubSeq
  <2>4. SubSeq(s, 1, Len(s)) = s /\ (i - 1) + 1 = i
    BY <2>1, SubSeqFull
  <2> QED
    BY <2>2, <2>3, <2>4
<1>3. RemoveAt(s, i) = a \o b
  BY DEF RemoveAt
<1> HIDE DEF a, b, m
<1>4. Tokens(s) = Tokens(a) + (Size(m) + Tokens(b))
  <2>1. <<m>> \o b \in Seq(Messages) /\ Tokens(<<m>> \o b) = Size(m) + Tokens(b)
    <3>1. <<m>> \in Seq(Messages) /\ Tokens(<<m>>) = Size(m)
      BY <1>1, TokensOne
    <3> DEFINE o == <<m>>
    <3> HIDE DEF o
    <3>2. o \in Seq(Messages) /\ Tokens(o) = Size(m)
      BY <3>1 DEF o
    <3>3. o \o b \in Seq(Messages) /\ Tokens(o \o b) = Size(m) + Tokens(b)
      BY <1>1, <3>2, TokensConcat
    <3> QED
      BY <3>3 DEF o
  <2> QED
    BY <1>1, <1>2, <2>1, TokensConcat
<1>5. RemoveAt(s, i) \in Seq(Messages) /\ Tokens(RemoveAt(s, i)) = Tokens(a) + Tokens(b)
  BY <1>1, <1>3, TokensConcat
<1> QED
  BY <1>1, <1>4, <1>5, TokensType, SizeType DEF m

(*--------------------------- groups and the window -----------------------*)

GroupSet == {g \in Seq(Messages) : g # <<>>}

LEMMA GroupedType ==
  ASSUME NEW gs \in Seq(GroupSet), NEW m \in Messages
  PROVE  Grouped(gs, m) \in Seq(GroupSet)
<1>1. <<m>> \in GroupSet
  BY DEF GroupSet
<1>2. ASSUME gs # <<>> PROVE Front(gs) \in Seq(GroupSet) /\ Append(Last(gs), m) \in GroupSet
  <2>1. Len(gs) \in Nat /\ Len(gs) # 0 /\ Last(gs) \in Seq(Messages)
    BY <1>2, EmptySeq DEF Last, GroupSet
  <2>2. Front(gs) \in Seq(GroupSet)
    BY <2>1 DEF Front
  <2>3. Append(Last(gs), m) \in Seq(Messages) /\ Append(Last(gs), m) # <<>>
    BY <2>1, AppendProperties
  <2> QED
    BY <2>2, <2>3 DEF GroupSet
<1>3. CASE m.role = "tool" /\ gs # <<>> /\ HasCalls(Last(gs)[1])
  <2>1. Grouped(gs, m) = Append(Front(gs), Append(Last(gs), m))
    BY <1>3 DEF Grouped
  <2> QED
    BY <1>2, <1>3, <2>1, AppendProperties
<1>4. CASE ~ (m.role = "tool" /\ gs # <<>> /\ HasCalls(Last(gs)[1]))
  <2>1. Grouped(gs, m) = Append(gs, <<m>>)
    BY <1>4 DEF Grouped
  <2> QED
    BY <1>1, <2>1, AppendProperties
<1> QED
  BY <1>3, <1>4

(* The groups of a sequence, one message after the other. *)
LEMMA GroupsSteps ==
  ASSUME NEW s \in Seq(Messages)
  PROVE  \E f \in [0 .. Len(s) -> Seq(GroupSet)] :
           /\ f[0] = <<>> /\ \A i \in 1 .. Len(s) : f[i] = Grouped(f[i - 1], s[i])
           /\ Groups(s) = f[Len(s)]
<1> DEFINE Is(f) == f = [i \in 0 .. Len(s) |-> IF i = 0 THEN <<>> ELSE Grouped(f[i - 1], s[i])]
           S == Seq(GroupSet)
           n == Len(s)
           rule == [p \in (1 .. n) \X S |-> Grouped(p[2], s[p[1]])]
           h == CHOOSE f : Is(f)
<1>1. n \in Nat /\ <<>> \in S /\ rule \in Rules(n, S)
  <2>1. ASSUME NEW p \in (1 .. n) \X S PROVE Grouped(p[2], s[p[1]]) \in S
    <3>1. s[p[1]] \in Messages /\ p[2] \in Seq(GroupSet)
      OBVIOUS
    <3> QED
      BY <3>1, GroupedType
  <2>2. rule \in Rules(n, S)
    <3> HIDE DEF S, n
    <3> QED
      BY <2>1 DEF Rules
  <2> HIDE DEF rule
  <2> QED
    BY <2>2
<1>2. \A i \in 1 .. n, gs \in S : rule[<<i, gs>>] = Grouped(gs, s[i])
  <2> HIDE DEF S, n
  <2> QED
    OBVIOUS
<1>3. PICK f : Obeys(f, n, S, <<>>, rule)
  <2> HIDE DEF rule, n, S
  <2> QED
    BY <1>1, Recursion
<1>4. Is(f)
  <2>1. ASSUME NEW i \in 0 .. n PROVE f[i] = IF i = 0 THEN <<>> ELSE Grouped(f[i - 1], s[i])
    <3> HIDE DEF rule, S, n
    <3>1. CASE i = 0
      BY <1>3, <3>1 DEF Obeys
    <3>2. CASE i # 0
      <4>1. i \in 1 .. n /\ i - 1 \in 0 .. n
        BY <1>1, <3>2
      <4>2. f[i - 1] \in S /\ f[i] = rule[<<i, f[i - 1]>>]
        BY <1>3, <4>1 DEF Obeys
      <4> QED
        BY <1>2, <3>2, <4>1, <4>2
    <3> QED
      BY <3>1, <3>2
  <2>2. f = [i \in 0 .. n |-> f[i]]
    <3> HIDE DEF rule, S, n
    <3> QED
      BY <1>3 DEF Obeys
  <2> HIDE DEF rule, S
  <2> QED
    BY <2>1, <2>2
<1>5. Is(h)
  <2> HIDE DEF Is
  <2> QED
    BY <1>4
<1>6. h[0] = <<>> /\ \A i \in 1 .. n : h[i] = Grouped(h[i - 1], s[i])
  <2> HIDE DEF h
  <2> QED
    BY <1>1, <1>5
<1>7. \A i \in 0 .. n : h[i] \in S
  <2> HIDE DEF h, rule, S, n
  <2> QED
    BY <1>1, <1>2, <1>6, RecursionType
<1>8. Groups(s) = h[n]
  BY DEF Groups
<1>9. h \in [0 .. n -> S]
  <2>1. h = [i \in 0 .. n |-> h[i]]
    <3> HIDE DEF n, h
    <3>1. h = [i \in 0 .. n |-> IF i = 0 THEN <<>> ELSE Grouped(h[i - 1], s[i])]
      BY <1>5
    <3> QED
      BY <3>1
  <2> HIDE DEF h, S, n
  <2> QED
    BY <1>7, <2>1
<1> HIDE DEF h, rule
<1> QED
  BY <1>6, <1>8, <1>9

LEMMA GroupsType ==
  ASSUME NEW s \in Seq(Messages)
  PROVE  Groups(s) \in Seq(GroupSet)
<1>1. PICK f \in [0 .. Len(s) -> Seq(GroupSet)] : Groups(s) = f[Len(s)]
  BY GroupsSteps
<1>2. Len(s) \in 0 .. Len(s)
  OBVIOUS
<1> QED
  BY <1>1, <1>2

(* What a window has kept, with the tokens it starts from. *)
Windows(used) ==
  {w \in [kept : Seq(Messages), dropped : Seq(Messages), used : Nat] :
     w.used = used + Tokens(w.kept) /\ (w.kept = <<>> \/ w.used <= Usable)}

LEMMA TakenType ==
  ASSUME NEW used \in Nat, NEW w \in Windows(used), NEW g \in GroupSet
  PROVE  Taken(w, g) \in Windows(used)
<1>1. /\ w = [kept |-> w.kept, dropped |-> w.dropped, used |-> w.used]
      /\ w.kept \in Seq(Messages) /\ w.dropped \in Seq(Messages) /\ w.used \in Nat
      /\ w.used = used + Tokens(w.kept) /\ (w.kept = <<>> \/ w.used <= Usable)
      /\ g \in Seq(Messages)
  BY DEF Windows, GroupSet
<1>2. /\ g \o w.kept \in Seq(Messages) /\ g \o w.dropped \in Seq(Messages)
      /\ Tokens(g) \in Nat /\ Tokens(w.kept) \in Nat
      /\ Tokens(g \o w.kept) = Tokens(g) + Tokens(w.kept)
  BY <1>1, TokensConcat, TokensType
<1>3. CASE w.used + Tokens(g) <= Usable
  <2>1. Taken(w, g) = [kept |-> g \o w.kept, dropped |-> w.dropped, used |-> w.used + Tokens(g)]
    BY <1>1, <1>3 DEF Taken
  <2> DEFINE v == Taken(w, g)
  <2>2. v.kept = g \o w.kept /\ v.used = w.used + Tokens(g) /\ v.dropped = w.dropped
    BY <2>1
  <2>3. v \in [kept : Seq(Messages), dropped : Seq(Messages), used : Nat]
    BY <1>1, <1>2, <2>1
  <2> HIDE DEF v
  <2>4. v.used = used + Tokens(v.kept) /\ v.used <= Usable
    BY <1>1, <1>2, <1>3, <2>2
  <2>5. v \in Windows(used)
    BY <2>3, <2>4 DEF Windows
  <2> QED
    BY <2>5 DEF v
<1>4. CASE ~ (w.used + Tokens(g) <= Usable)
  <2>1. Taken(w, g) = [kept |-> w.kept, dropped |-> g \o w.dropped, used |-> w.used]
    BY <1>1, <1>4 DEF Taken
  <2> DEFINE v == Taken(w, g)
  <2>2. v.kept = w.kept /\ v.used = w.used /\ v.dropped = g \o w.dropped
    BY <2>1
  <2>3. v \in [kept : Seq(Messages), dropped : Seq(Messages), used : Nat]
    BY <1>1, <1>2, <2>1
  <2> HIDE DEF v
  <2>4. v.used = used + Tokens(v.kept) /\ (v.kept = <<>> \/ v.used <= Usable)
    BY <1>1, <2>2
  <2>5. v \in Windows(used)
    BY <2>3, <2>4 DEF Windows
  <2> QED
    BY <2>5 DEF v
<1> QED
  BY <1>3, <1>4

(* A window takes the groups from the last to the first. *)
LEMMA WindowSteps ==
  ASSUME NEW s \in Seq(Messages), NEW prefix \in Seq(Messages), NEW suffix \in Seq(Messages)
  PROVE  \E f \in [0 .. Len(Groups(s)) -> Windows(Tokens(prefix \o suffix))] :
           /\ f[0].kept = <<>> /\ f[0].dropped = <<>>
           /\ \A i \in 1 .. Len(Groups(s)) : f[i] = Taken(f[i - 1], Groups(s)[Len(Groups(s)) + 1 - i])
           /\ Window(s, prefix, suffix) = f[Len(Groups(s))]
<1> DEFINE gs == Groups(s)
           n == Len(gs)
           used == Tokens(prefix \o suffix)
           start == [kept |-> <<>>, dropped |-> <<>>, used |-> used]
           Is(f) == f = [i \in 0 .. n |-> IF i = 0 THEN start ELSE Taken(f[i - 1], gs[n + 1 - i])]
           S == Windows(used)
           rule == [p \in (1 .. n) \X S |-> Taken(p[2], gs[n + 1 - p[1]])]
           h == CHOOSE f : Is(f)
<1>1. gs \in Seq(GroupSet) /\ n \in Nat /\ used \in Nat
  <2>1. gs \in Seq(GroupSet) /\ prefix \o suffix \in Seq(Messages)
    BY GroupsType
  <2>2. n \in Nat
    <3> HIDE DEF gs
    <3> QED
      BY <2>1
  <2>3. used \in Nat
    BY <2>1, TokensType
  <2> QED
    BY <2>1, <2>2, <2>3
<1>2. start \in S
  <2>1. <<>> \in Seq(Messages)
    OBVIOUS
  <2> HIDE DEF used
  <2> QED
    BY <1>1, <2>1, TokensNone DEF Windows
<1>3. rule \in Rules(n, S)
  <2>1. ASSUME NEW p \in (1 .. n) \X S PROVE Taken(p[2], gs[n + 1 - p[1]]) \in S
    <3>1. p[1] \in 1 .. n /\ p[2] \in S
      OBVIOUS
    <3> DEFINE i == n + 1 - p[1]
    <3>2. i \in 1 .. n
      <4> HIDE DEF n
      <4> QED
        BY <1>1, <3>1
    <3>3. gs[i] \in GroupSet
      <4> HIDE DEF gs, i
      <4> QED
        BY <1>1, <3>2
    <3> HIDE DEF gs, n, used, i
    <3> QED
      BY <1>1, <3>1, <3>3, TakenType DEF i
  <2> HIDE DEF S, n
  <2> QED
    BY <2>1 DEF Rules
<1>4. \A i \in 1 .. n, w \in S : rule[<<i, w>>] = Taken(w, gs[n + 1 - i])
  <2> HIDE DEF S, n, gs
  <2> QED
    OBVIOUS
<1>5. PICK f : Obeys(f, n, S, start, rule)
  <2> HIDE DEF rule, n, S, start
  <2> QED
    BY <1>1, <1>2, <1>3, Recursion
<1>6. Is(f)
  <2>1. ASSUME NEW i \in 0 .. n PROVE f[i] = IF i = 0 THEN start ELSE Taken(f[i - 1], gs[n + 1 - i])
    <3> HIDE DEF rule, S, n, gs, start
    <3>1. CASE i = 0
      BY <1>5, <3>1 DEF Obeys
    <3>2. CASE i # 0
      <4>1. i \in 1 .. n /\ i - 1 \in 0 .. n
        BY <1>1, <3>2
      <4>2. f[i - 1] \in S /\ f[i] = rule[<<i, f[i - 1]>>]
        BY <1>5, <4>1 DEF Obeys
      <4> QED
        BY <1>4, <3>2, <4>1, <4>2
    <3> QED
      BY <3>1, <3>2
  <2>2. f = [i \in 0 .. n |-> f[i]]
    <3> HIDE DEF rule, S, n, start
    <3> QED
      BY <1>5 DEF Obeys
  <2> HIDE DEF rule, S, n, gs, start
  <2> QED
    BY <2>1, <2>2
<1>7. Is(h)
  <2> HIDE DEF Is
  <2> QED
    BY <1>6
<1>8. h[0] = start /\ \A i \in 1 .. n : h[i] = Taken(h[i - 1], gs[n + 1 - i])
  <2> HIDE DEF h, n, gs, start
  <2> QED
    BY <1>1, <1>7
<1>9. \A i \in 0 .. n : h[i] \in S
  <2> HIDE DEF h, rule, S, n, gs, start
  <2>1. \A i \in 1 .. n : h[i - 1] \in S => h[i] = rule[<<i, h[i - 1]>>]
    BY <1>4, <1>8
  <2> QED
    BY <1>1, <1>2, <1>3, <1>8, <2>1, RecursionType, SMTT(40)
<1>10. Window(s, prefix, suffix) = h[n]
  BY DEF Window
<1>11. h \in [0 .. n -> S]
  <2>1. h = [i \in 0 .. n |-> h[i]]
    <3> HIDE DEF n, gs, start
    <3>1. h = [i \in 0 .. n |-> IF i = 0 THEN start ELSE Taken(h[i - 1], gs[n + 1 - i])]
      BY <1>7
    <3> HIDE DEF h
    <3> QED
      BY <3>1
  <2> HIDE DEF h, S, n
  <2> QED
    BY <1>9, <2>1
<1>12. start.kept = <<>> /\ start.dropped = <<>>
  OBVIOUS
<1> HIDE DEF h, rule, start
<1>13. \A i \in 1 .. n : h[i] = Taken(h[i - 1], gs[n + 1 - i])
  BY <1>8
<1> HIDE DEF n, gs, S
<1>14. /\ h \in [0 .. n -> S] /\ h[0].kept = <<>> /\ h[0].dropped = <<>>
       /\ \A i \in 1 .. n : h[i] = Taken(h[i - 1], gs[n + 1 - i])
       /\ Window(s, prefix, suffix) = h[n]
  BY <1>8, <1>10, <1>11, <1>12, <1>13
<1> QED
  BY <1>14 DEF n, gs, S

LEMMA WindowType ==
  ASSUME NEW s \in Seq(Messages), NEW prefix \in Seq(Messages), NEW suffix \in Seq(Messages)
  PROVE  Window(s, prefix, suffix) \in Windows(Tokens(prefix \o suffix))
<1> DEFINE n == Len(Groups(s))
<1>1. PICK f \in [0 .. n -> Windows(Tokens(prefix \o suffix))] : Window(s, prefix, suffix) = f[n]
  BY WindowSteps
<1>2. n \in 0 .. n
  BY GroupsType
<1> QED
  BY <1>1, <1>2

(*--------------------------- fitting the turn ----------------------------*)

LEMMA CutsBound ==
  ASSUME NEW m \in Messages, NEW room \in Int, NEW marker \in Nat
  PROVE  /\ Cuts(m, room, marker) \in SUBSET Nat
         /\ \A n \in Cuts(m, room, marker) : Fixed(m) + n <= room
<1>1. Fixed(m) \in Nat /\ m.size \in Nat
  BY SizeType
<1> QED
  BY <1>1 DEF Cuts

LEMMA LargestIn ==
  ASSUME NEW U \in SUBSET Nat, U # {}, NEW b \in Nat, \A n \in U : n <= b
  PROVE  Largest(U) \in U
  BY Greatest DEF Largest

LEMMA CutsOfBound ==
  ASSUME NEW turn0 \in Seq(Messages), NEW prefix \in Seq(Messages), NEW i \in DOMAIN turn0,
         CutsOf(turn0, prefix, i) # {}
  PROVE  LET n == Largest(CutsOf(turn0, prefix, i))
         IN n \in Nat /\ Fixed(turn0[i]) + n + Tokens(prefix \o RemoveAt(turn0, i)) <= Usable
<1> DEFINE others == prefix \o RemoveAt(turn0, i)
           room == Usable - Tokens(others)
           C == CutsOf(turn0, prefix, i)
           m == turn0[i]
<1>1. others \in Seq(Messages) /\ m \in Messages
  BY TokensWithout
<1>2. Tokens(others) \in Nat /\ room \in Int /\ Usable \in Nat /\ Marker \in Nat /\ Fixed(m) \in Nat
  <2>1. Tokens(others) \in Nat /\ Fixed(m) \in Nat
    <3> HIDE DEF others, m
    <3> QED
      BY <1>1, TokensType, SizeType
  <2>2. Usable \in Nat /\ Marker \in Nat
    BY BudgetAssumption
  <2> HIDE DEF others, m
  <2> QED
    BY <2>1, <2>2
<1>3. C = Cuts(m, room, Marker) \/ C = Cuts(m, room, 0)
  BY DEF CutsOf
<1> HIDE DEF C, m, others
<1>4. C \in SUBSET Nat /\ \A n \in C : Fixed(m) + n <= room
  <2> HIDE DEF room
  <2> QED
    BY <1>1, <1>2, <1>3, CutsBound
<1>5. \A n \in C : n <= Usable
  BY <1>2, <1>4
<1>6. Largest(C) \in C
  BY <1>2, <1>4, <1>5, LargestIn DEF C
<1>7. Largest(C) \in Nat /\ Fixed(m) + Largest(C) + Tokens(others) <= Usable
  <2>1. Largest(C) \in Nat /\ Fixed(m) + Largest(C) <= Usable - Tokens(others)
    BY <1>4, <1>6
  <2> QED
    BY <1>2, <2>1
<1> QED
  BY <1>7 DEF C, m, others

LEMMA FirstExists ==
  ASSUME NEW s \in Seq(Messages), NEW able \in SUBSET DOMAIN s, able # {}
  PROVE  \E i \in able : \A j \in able \ {i} : CutBefore(s, i, j)
<1> DEFINE K == {Kind(s[i]) : i \in able}
<1>1. able \in SUBSET Nat /\ \A i \in able : s[i] \in Messages /\ i \in DOMAIN s
  OBVIOUS
<1>2. \A i \in able : s[i].size \in Nat /\ s[i].size <= Tokens(s) /\ Kind(s[i]) \in Nat
  <2> TAKE i \in able
  <2>1. Tokens(s) = Tokens(RemoveAt(s, i)) + Size(s[i]) /\ RemoveAt(s, i) \in Seq(Messages)
    BY <1>1, TokensWithout
  <2>2. s[i].size \in Nat /\ Fixed(s[i]) \in Nat /\ Tokens(RemoveAt(s, i)) \in Nat
    BY <1>1, <2>1, TokensType, SizeType
  <2>3. Kind(s[i]) \in Nat
    BY DEF Kind
  <2> QED
    BY <2>1, <2>2, <2>3 DEF Size
<1>3. PICK k \in K : \A n \in K : k <= n
  <2>1. K \in SUBSET Nat /\ K # {}
    BY <1>2
  <2> HIDE DEF K
  <2> QED
    BY <2>1, Least
<1> DEFINE A == {i \in able : Kind(s[i]) = k}
           Z == {s[i].size : i \in A}
<1>4. PICK z \in Z : \A n \in Z : n <= z
  <2>1. Z \in SUBSET Nat /\ Z # {} /\ \A n \in Z : n <= Tokens(s)
    BY <1>2, <1>3
  <2> HIDE DEF Z
  <2> QED
    BY <2>1, TokensType, Greatest
<1> DEFINE B == {i \in A : s[i].size = z}
<1>5. PICK i \in B : \A j \in B : i <= j
  <2>1. B \in SUBSET Nat /\ B # {}
    BY <1>1, <1>4
  <2> HIDE DEF B
  <2> QED
    BY <2>1, Least
<1>6. ASSUME NEW j \in able \ {i} PROVE CutBefore(s, i, j)
  <2>1. /\ Kind(s[i]) = k /\ s[i].size = z /\ i \in able /\ i \in Nat /\ j \in Nat /\ i # j
        /\ k \in Nat /\ Kind(s[j]) \in Nat /\ z \in Nat /\ s[j].size \in Nat
    BY <1>1, <1>2, <1>5
  <2>2. k <= Kind(s[j])
    BY <1>3
  <2>3. CASE Kind(s[j]) # k
    BY <2>1, <2>2, <2>3 DEF CutBefore
  <2>4. CASE Kind(s[j]) = k
    <3>1. j \in A /\ s[j].size \in Z
      BY <2>4
    <3>2. s[j].size <= z
      BY <1>4, <3>1
    <3>3. CASE s[j].size # z
      BY <2>1, <2>4, <3>2, <3>3 DEF CutBefore
    <3>4. CASE s[j].size = z
      <4>1. i <= j
        BY <1>5, <3>1, <3>4
      <4> QED
        BY <2>1, <2>4, <3>4, <4>1 DEF CutBefore
    <3> QED
      BY <3>3, <3>4
  <2> QED
    BY <2>3, <2>4
<1> QED
  BY <1>5, <1>6

(* The turn stays whole, one of its messages is cut, or it is windowed. *)
LEMMA ProtectedCases ==
  ASSUME NEW turn0 \in Seq(Messages), NEW prefix \in Seq(Messages)
  PROVE  LET fit == FitProtected(turn0, prefix)
         IN \/ Fits(prefix \o turn0) /\ fit = turn0
            \/ \E i \in DOMAIN turn0 :
                 /\ CutsOf(turn0, prefix, i) # {}
                 /\ fit = [turn0 EXCEPT ![i].size = Largest(CutsOf(turn0, prefix, i))]
            \/ fit = Window(turn0, prefix, <<>>).kept
<1> DEFINE able == {i \in DOMAIN turn0 : turn0[i].size > 0 /\ CutsOf(turn0, prefix, i) # {}}
           first == CHOOSE i \in able : \A j \in able \ {i} : CutBefore(turn0, i, j)
           cut(i) == [turn0 EXCEPT ![i].size = Largest(CutsOf(turn0, prefix, i))]
           kept == Window(turn0, prefix, <<>>).kept
<1>1. FitProtected(turn0, prefix) =
        IF Fits(prefix \o turn0) THEN turn0 ELSE IF able # {} THEN cut(first) ELSE kept
  BY DEF FitProtected
<1>2. ASSUME able # {} PROVE first \in DOMAIN turn0 /\ CutsOf(turn0, prefix, first) # {}
  <2>1. \E i \in able : \A j \in able \ {i} : CutBefore(turn0, i, j)
    <3>1. able \in SUBSET DOMAIN turn0
      OBVIOUS
    <3> HIDE DEF able
    <3> QED
      BY <1>2, <3>1, FirstExists
  <2>2. first \in able
    <3> HIDE DEF able
    <3> QED
      BY <2>1
  <2> HIDE DEF first
  <2> QED
    BY <2>2
<1> DEFINE fit == FitProtected(turn0, prefix)
<1> HIDE DEF able, first, kept, fit
<1>3. \/ Fits(prefix \o turn0) /\ fit = turn0
      \/ able # {} /\ fit = cut(first)
      \/ fit = kept
  <2> HIDE DEF cut
  <2> QED
    BY <1>1 DEF fit
<1>4. ASSUME able # {}, fit = cut(first)
      PROVE  \E i \in DOMAIN turn0 :
               CutsOf(turn0, prefix, i) # {} /\ fit = [turn0 EXCEPT ![i].size = Largest(CutsOf(turn0, prefix, i))]
  BY <1>2, <1>4
<1> QED
  BY <1>3, <1>4 DEF fit, kept

LEMMA CutOne ==
  ASSUME NEW turn0 \in Seq(Messages), NEW i \in DOMAIN turn0, NEW size \in Nat
  PROVE  LET cut == [turn0 EXCEPT ![i].size = size]
             n   == [turn0[i] EXCEPT !.size = size]
         IN /\ n \in Messages /\ n.size = size
            /\ n.role = turn0[i].role /\ n.calls = turn0[i].calls /\ n.of = turn0[i].of
            /\ n.sent = turn0[i].sent /\ n.response = turn0[i].response
            /\ cut \in Seq(Messages) /\ Len(cut) = Len(turn0)
            /\ \A j \in 1 .. Len(turn0) : cut[j] = IF j = i THEN n ELSE turn0[j]
<1> DEFINE m == turn0[i]
           n == [m EXCEPT !.size = size]
           cut == [turn0 EXCEPT ![i].size = size]
<1>1. m \in Messages /\ i \in 1 .. Len(turn0)
  OBVIOUS
<1>2. cut = [turn0 EXCEPT ![i] = n]
  OBVIOUS
<1> HIDE DEF m
<1>3. /\ n \in Messages /\ n.size = size /\ n.role = m.role /\ n.calls = m.calls /\ n.of = m.of
      /\ n.sent = m.sent /\ n.response = m.response
  BY <1>1 DEF Messages
<1> HIDE DEF n, cut
<1>4. /\ cut \in Seq(Messages) /\ Len(cut) = Len(turn0)
      /\ \A j \in 1 .. Len(turn0) : cut[j] = IF j = i THEN n ELSE turn0[j]
  BY <1>1, <1>2, <1>3, ExceptSeq
<1> QED
  BY <1>3, <1>4 DEF m, n, cut

(* What is left of the turn fits behind the prefix. *)
LEMMA ProtectedFits ==
  ASSUME NEW turn0 \in Seq(Messages), NEW prefix \in Seq(Messages), Fits(prefix)
  PROVE  FitProtected(turn0, prefix) \in Seq(Messages) /\ Fits(prefix \o FitProtected(turn0, prefix))
<1> DEFINE kept == Window(turn0, prefix, <<>>).kept
<1>1. ASSUME NEW first \in DOMAIN turn0, CutsOf(turn0, prefix, first) # {}
      PROVE  LET cut == [turn0 EXCEPT ![first].size = Largest(CutsOf(turn0, prefix, first))]
             IN cut \in Seq(Messages) /\ Fits(prefix \o cut)
  <2> DEFINE m == turn0[first]
             size == Largest(CutsOf(turn0, prefix, first))
             n == [m EXCEPT !.size = size]
             cut == [turn0 EXCEPT ![first].size = size]
  <2>1. size \in Nat /\ Fixed(m) + size + Tokens(prefix \o RemoveAt(turn0, first)) <= Usable
    BY <1>1, CutsOfBound
  <2>2. m \in Messages /\ first \in 1 .. Len(turn0)
    OBVIOUS
  <2> HIDE DEF size
  <2>3. n \in Messages /\ n.size = size /\ Fixed(n) = Fixed(m)
    <3>1. n \in Messages /\ n.size = size /\ n.calls = m.calls
      BY <2>1, CutOne
    <3> QED
      BY <3>1 DEF Fixed
  <2>4. /\ cut \in Seq(Messages) /\ Len(cut) = Len(turn0)
        /\ \A j \in 1 .. Len(turn0) : cut[j] = IF j = first THEN n ELSE turn0[j]
    BY <2>1, CutOne
  <2> HIDE DEF n, m, cut
  <2>5. RemoveAt(cut, first) = RemoveAt(turn0, first)
    <3> DEFINE len == Len(turn0)
    <3>1. /\ len \in Nat /\ Len(cut) = len
          /\ 1 \in 1 .. len + 1 /\ first - 1 \in 0 .. len
          /\ first + 1 \in 1 .. len + 1 /\ len \in 0 .. len
          /\ \A j \in 1 .. first - 1 : j \in 1 .. len /\ j # first
          /\ \A j \in first + 1 .. len : j \in 1 .. len /\ j # first
      BY <2>2, <2>4
    <3> HIDE DEF len
    <3>2. /\ \A j \in 1 .. first - 1 : turn0[j] = cut[j]
          /\ \A j \in first + 1 .. len : turn0[j] = cut[j]
      BY <2>4, <3>1 DEF len
    <3>3. SubSeq(turn0, 1, first - 1) = SubSeq(cut, 1, first - 1)
      BY <2>4, <3>1, <3>2, SubSeqSame DEF len
    <3>4. SubSeq(turn0, first + 1, len) = SubSeq(cut, first + 1, len)
      BY <2>4, <3>1, <3>2, SubSeqSame DEF len
    <3> QED
      BY <3>1, <3>3, <3>4 DEF RemoveAt, len
  <2>6. first \in DOMAIN cut /\ cut[first] = n /\ RemoveAt(turn0, first) \in Seq(Messages)
    BY <2>2, <2>4, TokensWithout
  <2>7. Tokens(cut) = Tokens(RemoveAt(turn0, first)) + Size(n)
    BY <2>4, <2>5, <2>6, TokensWithout
  <2>8. Tokens(prefix \o cut) = Tokens(prefix) + Tokens(cut)
         /\ Tokens(prefix \o RemoveAt(turn0, first)) = Tokens(prefix) + Tokens(RemoveAt(turn0, first))
    BY <2>4, <2>6, TokensConcat
  <2>9. /\ Tokens(prefix) \in Nat /\ Tokens(RemoveAt(turn0, first)) \in Nat
         /\ Fixed(m) \in Nat /\ Usable \in Nat
    BY <2>2, <2>6, TokensType, SizeType, BudgetAssumption
  <2>10. Tokens(prefix \o cut) <= Usable
    BY <2>1, <2>3, <2>7, <2>8, <2>9 DEF Size
  <2> QED
    BY <2>4, <2>10 DEF Fits, cut, size
<1>2. kept \in Seq(Messages) /\ Fits(prefix \o kept)
  <2> DEFINE w == Window(turn0, prefix, <<>>)
  <2>1. w \in Windows(Tokens(prefix)) /\ prefix \o <<>> = prefix
    <3>1. <<>> \in Seq(Messages) /\ prefix \o <<>> = prefix
      BY ConcatEmptySeq
    <3> QED
      BY <3>1, WindowType
  <2> HIDE DEF w
  <2>2. /\ w.kept \in Seq(Messages) /\ w.used = Tokens(prefix) + Tokens(w.kept)
        /\ (w.kept = <<>> \/ w.used <= Usable)
    BY <2>1 DEF Windows
  <2>3. CASE w.kept = <<>>
    BY <2>1, <2>2, <2>3 DEF w
  <2>4. CASE w.used <= Usable
    <3>1. Tokens(prefix \o w.kept) <= Usable
      BY <2>2, <2>4, TokensConcat
    <3> QED
      BY <2>2, <3>1 DEF Fits, w
  <2> QED
    BY <2>2, <2>3, <2>4
<1> DEFINE fit == FitProtected(turn0, prefix)
<1> HIDE DEF kept, fit
<1>3. CASE Fits(prefix \o turn0) /\ fit = turn0
  BY <1>3 DEF fit
<1>4. CASE \E i \in DOMAIN turn0 :
             /\ CutsOf(turn0, prefix, i) # {}
             /\ fit = [turn0 EXCEPT ![i].size = Largest(CutsOf(turn0, prefix, i))]
  BY <1>1, <1>4 DEF fit
<1>5. CASE fit = kept
  BY <1>2, <1>5 DEF fit
<1> QED
  BY <1>3, <1>4, <1>5, ProtectedCases DEF fit, kept

(*---------------------------- the whole prompt ---------------------------*)

GoodPrompt(p, prefix) == p \in Seq(Messages) /\ Fits(p) /\ IsPrefix(prefix, p)

LEMMA PrefixOfConcat ==
  ASSUME NEW s \in Seq(Messages), s # <<>>, NEW t \in Seq(Messages)
  PROVE  IsPrefix(s, s \o t)
<1>1. Len(s) \in Nat /\ Len(t) \in Nat /\ 1 \in 1 .. Len(s) /\ Len(s) \in 1 .. Len(s)
  BY EmptySeq
<1>2. SubSeq(s \o t, 1, Len(s)) = SubSeq(s, 1, Len(s))
  BY <1>1, SubSeqOfConcat1
<1>3. Len(s \o t) = Len(s) + Len(t)
  BY ConcatProperties
<1> QED
  BY <1>1, <1>2, <1>3 DEF IsPrefix

(* A summary takes the place of the first k messages kept. *)
Summarized(prefix, kept, summary, suffix, k) ==
  prefix \o <<summary>> \o SubSeq(kept, k + 1, Len(kept)) \o suffix

LEMMA SummaryCases ==
  ASSUME NEW prefix, NEW kept \in Seq(Messages), NEW summary, NEW suffix,
         FitSummary(prefix, kept, summary, suffix).found
  PROVE  \E k \in 0 .. Len(kept) :
           /\ Fits(Summarized(prefix, kept, summary, suffix, k))
           /\ FitSummary(prefix, kept, summary, suffix).prompt =
                Summarized(prefix, kept, summary, suffix, k)
<1> DEFINE with(k) == Summarized(prefix, kept, summary, suffix, k)
           able == {k \in 0 .. Len(kept) :
                      /\ Fits(with(k))
                      /\ \A i \in 1 .. k : kept[i].role # "tool" /\ ~ HasCalls(kept[i])}
           first == CHOOSE k \in able : \A j \in able : k <= j
           result == FitSummary(prefix, kept, summary, suffix)
<1>1. result = [found |-> able # {}, prompt |-> IF able = {} THEN <<>> ELSE with(first)]
  BY DEF FitSummary, Summarized
<1>2. able # {} /\ result.prompt = with(first)
  <2> HIDE DEF able, with, first
  <2> DEFINE b == able # {}
             x == IF able = {} THEN <<>> ELSE with(first)
  <2>4. result = [found |-> b, prompt |-> x] /\ b \in BOOLEAN
    BY <1>1
  <2>5. result.found = b
    <3> HIDE DEF b, x, result
    <3> QED
      BY <2>4
  <2>1. result.found = (able # {})
    BY <2>5
  <2>2. result.found
    OBVIOUS
  <2>3. result.prompt = IF able = {} THEN <<>> ELSE with(first)
    BY <1>1
  <2> HIDE DEF result
  <2> QED
    BY <2>1, <2>2, <2>3, Zenon
<1>3. first \in able
  <2>1. able \in SUBSET Nat
    OBVIOUS
  <2> HIDE DEF able
  <2> QED
    BY <1>2, <2>1, Least
<1>4. first \in 0 .. Len(kept) /\ Fits(with(first))
  <2> HIDE DEF first, with
  <2> QED
    BY <1>3
<1>5. \E k \in 0 .. Len(kept) : Fits(with(k)) /\ result.prompt = with(k)
  <2> HIDE DEF first, result, with
  <2> QED
    BY <1>2, <1>4
<1> QED
  BY <1>5

LEMMA SummaryFits ==
  ASSUME NEW prefix \in Seq(Messages), prefix # <<>>, NEW kept \in Seq(Messages),
         NEW summary \in Messages, NEW suffix \in Seq(Messages),
         FitSummary(prefix, kept, summary, suffix).found
  PROVE  GoodPrompt(FitSummary(prefix, kept, summary, suffix).prompt, prefix)
<1> DEFINE with(k) == Summarized(prefix, kept, summary, suffix, k)
           result == FitSummary(prefix, kept, summary, suffix)
<1>1. PICK first \in 0 .. Len(kept) : Fits(with(first)) /\ result.prompt = with(first)
  BY SummaryCases
<1>2. first \in Nat
  OBVIOUS
<1>3. with(first) \in Seq(Messages) /\ IsPrefix(prefix, with(first))
  <2> DEFINE a == <<summary>>
             b == SubSeq(kept, first + 1, Len(kept))
  <2>1. a \in Seq(Messages) /\ b \in Seq(Messages)
    BY <1>2
  <2> HIDE DEF a, b
  <2>2. /\ ((prefix \o a) \o b) \o suffix = prefix \o ((a \o b) \o suffix)
        /\ (a \o b) \o suffix \in Seq(Messages)
    <3>1. /\ a \o b \in Seq(Messages) /\ (a \o b) \o suffix \in Seq(Messages)
          /\ prefix \o a \in Seq(Messages) /\ b \o suffix \in Seq(Messages)
      BY <2>1, ConcatProperties
    <3>2. (prefix \o a) \o b = prefix \o (a \o b)
      BY <2>1, ConcatAssociative, SMTT(40)
    <3>3. (prefix \o (a \o b)) \o suffix = prefix \o ((a \o b) \o suffix)
      <4> DEFINE c == a \o b
      <4> HIDE DEF c
      <4>1. c \in Seq(Messages)
        BY <3>1 DEF c
      <4>2. (prefix \o c) \o suffix = prefix \o (c \o suffix)
        BY <4>1, ConcatAssociative, SMTT(40)
      <4> QED
        BY <4>2 DEF c
    <3> QED
      BY <3>1, <3>2, <3>3
  <2>3. with(first) = prefix \o ((a \o b) \o suffix)
    BY <2>2 DEF a, b, Summarized
  <2>4. prefix \o ((a \o b) \o suffix) \in Seq(Messages)
        /\ IsPrefix(prefix, prefix \o ((a \o b) \o suffix))
    BY <2>2, ConcatProperties, PrefixOfConcat
  <2> HIDE DEF with
  <2> QED
    BY <2>3, <2>4
<1> HIDE DEF with, result
<1> QED
  BY <1>1, <1>3 DEF GoodPrompt, result

LEMMA SummaryMessage ==
  ASSUME NEW size \in Nat
  PROVE  Message("system", <<>>, NoCall, size) \in Messages
  BY DEF Message, Messages, Roles, NoCall, CallIds

LEMMA ProtectedPromptFits ==
  ASSUME NEW prefix \in Seq(Messages), prefix # <<>>, Fits(prefix),
         NEW optional \in Seq(Messages), NEW turn0 \in Seq(Messages)
  PROVE  GoodPrompt(WithProtected(prefix, optional, turn0), prefix)
<1> DEFINE fit      == FitProtected(turn0, prefix)
           window   == Window(optional, prefix, fit)
           windowed == prefix \o window.kept \o fit
           summary  == Summary(window.dropped)
           whole    == FitSummary(prefix, window.kept, summary, fit)
           left     == Usable - Tokens(windowed)
           size     == IF summary.size < left - Overhead THEN summary.size ELSE left - Overhead
           short    == [summary EXCEPT !.size = size]
           compact  == FitSummary(prefix, window.kept, short, fit)
<1>1. WithProtected(prefix, optional, turn0) =
        IF window.dropped = <<>> THEN windowed
        ELSE IF whole.found THEN whole.prompt
        ELSE IF left > Overhead + Slack /\ compact.found THEN compact.prompt
        ELSE windowed
  BY DEF WithProtected
<1>2. fit \in Seq(Messages) /\ Fits(prefix \o fit)
  BY ProtectedFits
<1> HIDE DEF fit
<1>3. /\ window.kept \in Seq(Messages) /\ window.dropped \in Seq(Messages)
      /\ window.used = Tokens(prefix \o fit) + Tokens(window.kept)
      /\ (window.kept = <<>> \/ window.used <= Usable)
  <2>1. window \in Windows(Tokens(prefix \o fit))
    BY <1>2, WindowType
  <2> HIDE DEF window
  <2> QED
    BY <2>1 DEF Windows
<1> HIDE DEF window
<1>4. windowed \in Seq(Messages) /\ windowed = prefix \o (window.kept \o fit)
      /\ window.kept \o fit \in Seq(Messages)
  <2> DEFINE k == window.kept
  <2>1. k \in Seq(Messages)
    BY <1>3
  <2> HIDE DEF k
  <2>2. (prefix \o k) \o fit = prefix \o (k \o fit)
    BY <1>2, <2>1, ConcatAssociative, SMTT(40)
  <2>3. k \o fit \in Seq(Messages)
    BY <1>2, <2>1, ConcatProperties
  <2>4. prefix \o (k \o fit) \in Seq(Messages)
    BY <2>3, ConcatProperties
  <2> QED
    BY <2>2, <2>3, <2>4 DEF k
<1>5. Tokens(windowed) \in Nat /\ Tokens(windowed) <= Usable
  <2>1. /\ Tokens(windowed) = Tokens(prefix) + (Tokens(window.kept) + Tokens(fit))
        /\ Tokens(prefix \o fit) = Tokens(prefix) + Tokens(fit)
        /\ prefix \o fit \in Seq(Messages)
    <3>1. Tokens(windowed) = Tokens(prefix) + Tokens(window.kept \o fit)
      <4> DEFINE c == window.kept \o fit
      <4> HIDE DEF c
      <4>1. c \in Seq(Messages) /\ windowed = prefix \o c
        BY <1>4 DEF c
      <4> QED
        BY <4>1, TokensConcat DEF c
    <3>2. Tokens(window.kept \o fit) = Tokens(window.kept) + Tokens(fit)
      BY <1>2, <1>3, TokensConcat
    <3>3. Tokens(prefix \o fit) = Tokens(prefix) + Tokens(fit) /\ prefix \o fit \in Seq(Messages)
      BY <1>2, TokensConcat, ConcatProperties
    <3> HIDE DEF windowed
    <3> QED
      BY <3>1, <3>2, <3>3
  <2>2. Tokens(prefix) \in Nat /\ Tokens(window.kept) \in Nat /\ Tokens(fit) \in Nat
    BY <1>2, <1>3, TokensType
  <2>3. CASE window.kept = <<>>
    <3>1. Tokens(window.kept) = 0
      BY <2>3, TokensNone
    <3>2. Tokens(prefix \o fit) <= Usable
      BY <1>2 DEF Fits
    <3> QED
      BY <2>1, <2>2, <3>1, <3>2
  <2>4. CASE window.used <= Usable
    BY <1>3, <2>1, <2>2, <2>4
  <2> QED
    BY <1>3, <2>3, <2>4
<1>6. GoodPrompt(windowed, prefix)
  <2>1. IsPrefix(prefix, windowed)
    BY <1>4, PrefixOfConcat
  <2> QED
    BY <1>4, <1>5, <2>1 DEF GoodPrompt, Fits
<1>7. summary \in Messages
  <2> DEFINE n == IF 1 + Tokens(window.dropped) < SummaryMax
                  THEN 1 + Tokens(window.dropped) ELSE SummaryMax
  <2>1. n \in Nat
    BY <1>3, TokensType, BudgetAssumption
  <2>2. summary = Message("system", <<>>, NoCall, n)
    BY DEF Summary
  <2> HIDE DEF n, summary
  <2> QED
    BY <2>1, <2>2, SummaryMessage
<1> HIDE DEF summary, windowed
<1>8. whole.found => GoodPrompt(whole.prompt, prefix)
  BY <1>2, <1>3, <1>7, SummaryFits
<1>9. ASSUME left > Overhead + Slack, compact.found PROVE GoodPrompt(compact.prompt, prefix)
  <2>1. summary.size \in Nat
    BY <1>7 DEF Messages
  <2>2. size \in Nat
    BY <1>5, <1>9, <2>1, BudgetAssumption
  <2> HIDE DEF size
  <2>3. short \in Messages
    BY <1>7, <2>2 DEF Messages
  <2> HIDE DEF short
  <2> QED
    BY <1>2, <1>3, <1>9, <2>3, SummaryFits
<1> HIDE DEF whole, compact, left
<1> QED
  BY <1>1, <1>6, <1>8, <1>9

(* The prompt of a call never exceeds the budget. *)
LEMMA PromptIsGood ==
  ASSUME NEW prefix \in Seq(Messages), prefix # <<>>, Fits(prefix),
         NEW optional \in Seq(Messages), NEW turn0 \in Seq(Messages)
  PROVE  GoodPrompt(BuildContext(prefix, optional, turn0), prefix)
<1> DEFINE all == prefix \o optional \o turn0
<1>1. all \in Seq(Messages) /\ all = prefix \o (optional \o turn0) /\ optional \o turn0 \in Seq(Messages)
  BY ConcatAssociative, ConcatProperties, SMTT(40)
<1>2. IsPrefix(prefix, all)
  BY <1>1, PrefixOfConcat
<1>3. BuildContext(prefix, optional, turn0) =
        IF Fits(all) THEN all ELSE WithProtected(prefix, optional, turn0)
  BY DEF BuildContext
<1> HIDE DEF all
<1> QED
  BY <1>1, <1>2, <1>3, ProtectedPromptFits DEF GoodPrompt

(*------------------------------ parsed calls -----------------------------*)

CallRecords == [id : CallIds, form : Forms]
Distinct(cs) == \A i, j \in DOMAIN cs : cs[i].id = cs[j].id => i = j

(* The calls a parser accepts: no two share an id, each has a name and its
   arguments could be read. *)
Parsed(cs) ==
  /\ cs \in Seq(CallRecords) /\ Distinct(cs)
  /\ \A i \in DOMAIN cs : cs[i].form \in {"good", "unknown", "empty"}

(* The named calls among the first i. *)
NamedOf(x, cs, i) ==
  /\ x \in Seq(CallRecords) /\ Distinct(x)
  /\ \A k \in DOMAIN x : x[k].form # "nameless" /\ \E j \in 1 .. i : x[k] = cs[j]

LEMMA NamedOfStep ==
  ASSUME NEW cs \in Seq(CallRecords), Distinct(cs), NEW i \in Nat, i + 1 \in DOMAIN cs,
         NEW x, NamedOf(x, cs, i)
  PROVE  /\ NamedOf(x, cs, i + 1)
         /\ cs[i + 1].form # "nameless" => NamedOf(Append(x, cs[i + 1]), cs, i + 1)
<1>1. NamedOf(x, cs, i + 1)
  <2>1. \A j \in 1 .. i : j \in 1 .. i + 1
    OBVIOUS
  <2> QED
    BY <2>1 DEF NamedOf
<1>2. ASSUME cs[i + 1].form # "nameless" PROVE NamedOf(Append(x, cs[i + 1]), cs, i + 1)
  <2> DEFINE c == cs[i + 1]
             y == Append(x, c)
  <2>1. x \in Seq(CallRecords) /\ c \in CallRecords /\ Len(x) \in Nat /\ DOMAIN x = 1 .. Len(x)
    BY DEF NamedOf
  <2>2. /\ y \in Seq(CallRecords) /\ DOMAIN y = 1 .. Len(x) + 1
        /\ (\A k \in 1 .. Len(x) : y[k] = x[k]) /\ y[Len(x) + 1] = c
    <3> HIDE DEF c
    <3> QED
      BY <2>1, AppendProperties, LenProperties
  <2> HIDE DEF y
  <2>3. \A k \in 1 .. Len(x) : \E j \in 1 .. i : x[k] = cs[j]
    BY <2>1 DEF NamedOf
  <2>4. \A k \in 1 .. Len(x) : x[k].id # c.id
    <3> TAKE k \in 1 .. Len(x)
    <3>1. PICK j \in 1 .. i : x[k] = cs[j]
      BY <2>3
    <3>2. j \in DOMAIN cs /\ j # i + 1
      OBVIOUS
    <3> QED
      BY <3>1, <3>2 DEF Distinct
  <2>5. Distinct(y)
    <3>1. \A k, l \in 1 .. Len(x) : x[k].id = x[l].id => k = l
      BY <2>1 DEF NamedOf, Distinct
    <3>2. \A k \in 1 .. Len(x) + 1 : k \in 1 .. Len(x) \/ k = Len(x) + 1
      BY <2>1
    <3> HIDE DEF c
    <3> QED
      BY <2>2, <2>4, <3>1, <3>2 DEF Distinct
  <2>6. ASSUME NEW k \in DOMAIN y
        PROVE  y[k].form # "nameless" /\ \E j \in 1 .. i + 1 : y[k] = cs[j]
    <3>1. CASE k \in 1 .. Len(x)
      <4>1. y[k] = x[k] /\ x[k].form # "nameless"
        BY <2>1, <2>2, <3>1 DEF NamedOf
      <4>2. PICK j \in 1 .. i : x[k] = cs[j]
        BY <2>3, <3>1
      <4> QED
        BY <4>1, <4>2
    <3>2. CASE k = Len(x) + 1
      BY <1>2, <2>2, <3>2
    <3> QED
      BY <2>1, <2>2, <3>1, <3>2
  <2>7. NamedOf(y, cs, i + 1)
    BY <2>2, <2>5, <2>6 DEF NamedOf
  <2> QED
    BY <2>7 DEF y
<1> QED
  BY <1>1, <1>2

LEMMA NamedAre ==
  ASSUME NEW cs \in Seq(CallRecords), Distinct(cs)
  PROVE  NamedOf(Named(cs), cs, Len(cs))
<1> DEFINE n == Len(cs)
           S == Seq(CallRecords)
           Next0(x, c) == IF c.form = "nameless" THEN x ELSE Append(x, c)
           Is(f) == f = [i \in 0 .. n |->
                           IF i = 0 THEN <<>>
                           ELSE IF cs[i].form = "nameless" THEN f[i - 1]
                           ELSE Append(f[i - 1], cs[i])]
           rule == [p \in (1 .. n) \X S |-> Next0(p[2], cs[p[1]])]
           h == CHOOSE f : Is(f)
<1>1. n \in Nat /\ <<>> \in S /\ DOMAIN cs = 1 .. n /\ \A i \in 1 .. n : cs[i] \in CallRecords
  OBVIOUS
<1>2. rule \in Rules(n, S)
  <2>1. ASSUME NEW p \in (1 .. n) \X S PROVE Next0(p[2], cs[p[1]]) \in S
    <3>1. cs[p[1]] \in CallRecords /\ p[2] \in Seq(CallRecords)
      OBVIOUS
    <3> QED
      BY <3>1, AppendProperties
  <2> HIDE DEF Next0, S, n
  <2> QED
    BY <2>1 DEF Rules
<1>3. \A i \in 1 .. n, x \in S : rule[<<i, x>>] = Next0(x, cs[i])
  <2> HIDE DEF S, n, Next0
  <2> QED
    OBVIOUS
<1>4. PICK f : Obeys(f, n, S, <<>>, rule)
  <2> HIDE DEF rule, n, S
  <2> QED
    BY <1>1, <1>2, Recursion
<1>5. Is(f)
  <2>1. ASSUME NEW i \in 0 .. n PROVE f[i] = IF i = 0 THEN <<>> ELSE Next0(f[i - 1], cs[i])
    <3> HIDE DEF rule, S, n, Next0
    <3>1. CASE i = 0
      BY <1>4, <3>1 DEF Obeys
    <3>2. CASE i # 0
      <4>1. i \in 1 .. n /\ i - 1 \in 0 .. n
        BY <1>1, <3>2
      <4>2. f[i - 1] \in S /\ f[i] = rule[<<i, f[i - 1]>>]
        BY <1>4, <4>1 DEF Obeys
      <4> QED
        BY <1>3, <3>2, <4>1, <4>2
    <3> QED
      BY <3>1, <3>2
  <2>2. f = [i \in 0 .. n |-> f[i]]
    <3> HIDE DEF rule, S, n
    <3> QED
      BY <1>4 DEF Obeys
  <2> HIDE DEF rule, S, n
  <2> QED
    BY <2>1, <2>2
<1>6. Is(h)
  <2> HIDE DEF Is
  <2> QED
    BY <1>5
<1>7. h[0] = <<>> /\ \A i \in 1 .. n : h[i] = Next0(h[i - 1], cs[i])
  <2>1. ASSUME NEW i \in 0 .. n
        PROVE  h[i] = IF i = 0 THEN <<>>
                      ELSE IF cs[i].form = "nameless" THEN h[i - 1]
                      ELSE Append(h[i - 1], cs[i])
    <3> HIDE DEF h, n
    <3> QED
      BY <1>6
  <2>2. 0 \in 0 .. n /\ \A i \in 1 .. n : i \in 0 .. n /\ i # 0
    BY <1>1
  <2> HIDE DEF h, n
  <2> QED
    BY <2>1, <2>2
<1>8. Named(cs) = h[n]
  BY DEF Named
<1> DEFINE T == {i \in 0 .. n : NamedOf(h[i], cs, i)}
<1> HIDE DEF h, n, S, rule
<1>9. 0 \in T
  <2>1. NamedOf(<<>>, cs, 0)
    BY DEF NamedOf, Distinct
  <2> QED
    BY <1>1, <1>7, <2>1
<1>10. ASSUME NEW i \in 0 .. n - 1, i \in T PROVE i + 1 \in T
  <2>1. i + 1 \in 1 .. n /\ i + 1 \in 0 .. n /\ (i + 1) - 1 = i /\ i \in Nat /\ NamedOf(h[i], cs, i)
    BY <1>1, <1>10
  <2>2. h[i + 1] = Next0(h[i], cs[i + 1])
    BY <1>7, <2>1
  <2>3. NamedOf(h[i + 1], cs, i + 1)
    BY <1>1, <2>1, <2>2, NamedOfStep
  <2> QED
    BY <2>1, <2>3
<1>11. \A i \in 0 .. n : i \in T
  <2> HIDE DEF T
  <2> QED
    BY <1>1, <1>9, <1>10, Induction
<1>12. NamedOf(h[n], cs, n)
  BY <1>1, <1>11
<1> QED
  BY <1>8, <1>12 DEF n

LEMMA ParsedNamed ==
  ASSUME NEW cs \in Seq(CallRecords), Distinct(cs), \A i \in DOMAIN cs : cs[i].form # "broken"
  PROVE  Parsed(Named(cs))
<1> DEFINE x == Named(cs)
<1>1. NamedOf(x, cs, Len(cs))
  BY NamedAre
<1> HIDE DEF x
<1>2. ASSUME NEW k \in DOMAIN x PROVE x[k].form \in {"good", "unknown", "empty"}
  <2>1. PICK j \in 1 .. Len(cs) : x[k] = cs[j]
    BY <1>1 DEF NamedOf
  <2>2. x[k].form # "nameless" /\ x[k].form # "broken" /\ x[k] \in CallRecords
    BY <1>1, <2>1 DEF NamedOf
  <2> QED
    BY <2>2 DEF CallRecords, Forms
<1> QED
  BY <1>1, <1>2 DEF Parsed, NamedOf, x

(* What a parser accepts, whatever the service answered. *)
LEMMA ParseGood ==
  ASSUME NEW answer, answer.calls \in Seq(CallRecords), Distinct(answer.calls),
         NEW fam \in Families, NEW str \in BOOLEAN, ~ Parse(fam, str, answer).bad
  PROVE  Parsed(Parse(fam, str, answer).calls)
<1> DEFINE cs == answer.calls
<1>1. cs \in Seq(CallRecords) /\ Distinct(cs) /\ NamedOf(Named(cs), cs, Len(cs))
  BY NamedAre
<1>2. ~ Has(answer, "broken") => Parsed(Named(cs))
  <2>1. ~ Has(answer, "broken") => \A i \in DOMAIN cs : cs[i].form # "broken"
    BY DEF Has
  <2> HIDE DEF cs
  <2> QED
    BY <1>1, <2>1, ParsedNamed
<1>3. CASE fam \in {"chat", "merged"}
  <2>1. Parse(fam, str, answer) = ParseChat(answer, str)
    BY <1>3 DEF Parse
  <2>2. /\ ~ Has(answer, "broken") /\ (Has(answer, "nameless") => str)
        /\ Parse(fam, str, answer).calls = IF str THEN Named(cs) ELSE cs
    BY <2>1 DEF ParseChat, Bad, Read, StreamCalls
  <2>3. ASSUME ~ str PROVE Parsed(cs)
    <3>1. \A i \in DOMAIN cs : cs[i].form # "nameless" /\ cs[i].form # "broken" /\ cs[i] \in CallRecords
      BY <2>2, <2>3 DEF Has
    <3> QED
      BY <1>1, <3>1 DEF Parsed, CallRecords, Forms
  <2> QED
    BY <1>2, <2>2, <2>3
<1>4. CASE fam = "messages"
  <2> DEFINE x == Named(cs)
             y == [i \in DOMAIN x |-> ToolUse(x[i])]
  <2>1. Parse(fam, str, answer) = ParseMessages(answer, str)
    BY <1>4 DEF Parse
  <2>2. Parse(fam, str, answer).calls = y
    BY <2>1 DEF ParseMessages, Bad, Read
  <2>3. NamedOf(x, cs, Len(cs))
    BY <1>1
  <2> HIDE DEF x
  <2>4. x \in Seq(CallRecords) /\ Distinct(x) /\ \A i \in DOMAIN x : x[i].form # "nameless"
    BY <2>3 DEF NamedOf
  <2>5. ASSUME NEW i \in DOMAIN x
        PROVE  /\ ToolUse(x[i]) \in CallRecords /\ ToolUse(x[i]).id = x[i].id
               /\ ToolUse(x[i]).form \in {"good", "unknown", "empty"}
    <3>1. x[i] \in CallRecords /\ x[i].form # "nameless"
      BY <2>4
    <3> QED
      BY <3>1 DEF ToolUse, CallRecords, Forms
  <2>6. y \in Seq(CallRecords) /\ DOMAIN y = DOMAIN x /\ \A i \in DOMAIN x : y[i] = ToolUse(x[i])
    BY <2>4, <2>5
  <2> HIDE DEF y
  <2>7. Parsed(y)
    BY <2>4, <2>5, <2>6 DEF Parsed, Distinct
  <2> QED
    BY <2>2, <2>7
<1>5. CASE fam \notin {"chat", "merged", "messages"}
  <2>1. Parse(fam, str, answer) = ParseResponses(answer, str)
    BY <1>5 DEF Parse
  <2>2. ~ Has(answer, "broken") /\ Parse(fam, str, answer).calls = Named(cs)
    BY <2>1 DEF ParseResponses, Bad, Read
  <2> QED
    BY <1>2, <2>2
<1> QED
  BY <1>3, <1>4, <1>5

(*--------------------------- calls and their results ---------------------*)

(* Everything behind message i up to message j is a tool message. *)
Behind(s, i, j) == i < j /\ \A k \in i + 1 .. j : s[k].role = "tool"

(* A tool message answers a call of the assistant message it stands behind,
   or one of those held before the first message. *)
ResultsFollow(held, s) ==
  \A j \in DOMAIN s : s[j].role = "tool" =>
    \/ s[j].of \in held /\ Behind(s, 0, j)
    \/ \E i \in DOMAIN s : HasCalls(s[i]) /\ s[j].of \in ToSet(s[i].calls) /\ Behind(s, i, j)

CallsAreAnswered(s) ==
  \A i \in DOMAIN s : HasCalls(s[i]) =>
    \A id \in ToSet(s[i].calls) : \E j \in DOMAIN s : s[j].of = id /\ Behind(s, i, j)

Closed(s) == ResultsFollow({}, s) /\ CallsAreAnswered(s)

Plain(m) == m.role # "tool" /\ ~ HasCalls(m)

(* The messages of s are those of u from d + 1 on. *)
LEMMA BehindShifted ==
  ASSUME NEW s \in Seq(Messages), NEW u, NEW d \in Nat,
         \A k \in 1 .. Len(s) : u[d + k] = s[k],
         NEW i \in 0 .. Len(s), NEW j \in 0 .. Len(s)
  PROVE  Behind(s, i, j) <=> Behind(u, d + i, d + j)
<1> DEFINE n == Len(s)
<1>1. n \in Nat
  OBVIOUS
<1> HIDE DEF n
<1>2. ASSUME Behind(s, i, j) PROVE Behind(u, d + i, d + j)
  <2>1. i < j /\ d + i < d + j
    BY <1>1, <1>2 DEF Behind, n
  <2>2. ASSUME NEW k \in d + i + 1 .. d + j PROVE u[k].role = "tool"
    <3>1. k - d \in i + 1 .. j /\ k - d \in 1 .. n /\ d + (k - d) = k
      BY <1>1 DEF n
    <3>2. u[d + (k - d)] = s[k - d]
      BY <3>1 DEF n
    <3> QED
      BY <1>2, <3>1, <3>2 DEF Behind
  <2> QED
    BY <2>1, <2>2 DEF Behind
<1>3. ASSUME Behind(u, d + i, d + j) PROVE Behind(s, i, j)
  <2>1. i < j
    BY <1>1, <1>3 DEF Behind, n
  <2>2. ASSUME NEW k \in i + 1 .. j PROVE s[k].role = "tool"
    <3>1. d + k \in d + i + 1 .. d + j /\ k \in 1 .. n
      BY <1>1 DEF n
    <3> QED
      BY <1>3, <3>1 DEF Behind, n
  <2> QED
    BY <2>1, <2>2 DEF Behind
<1> QED
  BY <1>2, <1>3

(* What follows one closed sequence with another is closed. *)
LEMMA ClosedConcat ==
  ASSUME NEW s \in Seq(Messages), NEW t \in Seq(Messages), Closed(s), Closed(t)
  PROVE  Closed(s \o t)
<1> DEFINE u == s \o t
           n == Len(s)
           m == Len(t)
<1>1. /\ n \in Nat /\ m \in Nat /\ DOMAIN u = 1 .. n + m /\ DOMAIN s = 1 .. n /\ DOMAIN t = 1 .. m
      /\ \A k \in 1 .. n : u[0 + k] = s[k]
      /\ \A k \in 1 .. m : u[n + k] = t[k]
  OBVIOUS
<1> HIDE DEF u
<1>2. \A i \in 0 .. n, j \in 0 .. n : Behind(s, i, j) => Behind(u, i, j)
  <2> TAKE i \in 0 .. n, j \in 0 .. n
  <2>1. Behind(s, i, j) <=> Behind(u, 0 + i, 0 + j)
    BY <1>1, BehindShifted
  <2> QED
    BY <1>1, <2>1
<1>3. \A i \in 0 .. m, j \in 0 .. m : Behind(t, i, j) => Behind(u, n + i, n + j)
  BY <1>1, BehindShifted
<1> HIDE DEF n, m
<1>4. \A j \in 1 .. n + m : j \in 1 .. n \/ (j - n \in 1 .. m /\ n + (j - n) = j)
  BY <1>1
<1>5. /\ \A i \in 1 .. n : i \in 0 .. n /\ i \in 1 .. n + m /\ u[i] = s[i]
      /\ \A i \in 1 .. m : i \in 0 .. m /\ n + i \in 1 .. n + m
  <2>1. \A i \in 1 .. n : 0 + i = i
    BY <1>1
  <2> QED
    BY <1>1, <2>1
<1>6. ASSUME NEW j \in 1 .. n + m, u[j].role = "tool"
      PROVE  \E i \in 1 .. n + m : HasCalls(u[i]) /\ u[j].of \in ToSet(u[i].calls) /\ Behind(u, i, j)
  <2>1. CASE j \in 1 .. n
    <3>1. PICK i \in 1 .. n : HasCalls(s[i]) /\ s[j].of \in ToSet(s[i].calls) /\ Behind(s, i, j)
      BY <1>1, <1>5, <1>6, <2>1 DEF Closed, ResultsFollow
    <3> QED
      BY <1>2, <1>5, <2>1, <3>1
  <2>2. CASE j \notin 1 .. n
    <3> DEFINE l == j - n
    <3>1. l \in 1 .. m /\ n + l = j /\ u[j] = t[l]
      BY <1>1, <1>4, <2>2
    <3>2. PICK i \in 1 .. m : HasCalls(t[i]) /\ t[l].of \in ToSet(t[i].calls) /\ Behind(t, i, l)
      BY <1>1, <1>6, <3>1 DEF Closed, ResultsFollow
    <3>3. Behind(u, n + i, n + l) /\ u[n + i] = t[i] /\ n + i \in 1 .. n + m
      BY <1>1, <1>3, <1>5, <3>1, <3>2
    <3> QED
      BY <3>1, <3>2, <3>3
  <2> QED
    BY <2>1, <2>2
<1>7. ASSUME NEW i \in 1 .. n + m, HasCalls(u[i]), NEW id \in ToSet(u[i].calls)
      PROVE  \E j \in 1 .. n + m : u[j].of = id /\ Behind(u, i, j)
  <2>1. CASE i \in 1 .. n
    <3>1. PICK j \in 1 .. n : s[j].of = id /\ Behind(s, i, j)
      BY <1>1, <1>5, <1>7, <2>1 DEF Closed, CallsAreAnswered
    <3> QED
      BY <1>2, <1>5, <2>1, <3>1
  <2>2. CASE i \notin 1 .. n
    <3> DEFINE l == i - n
    <3>1. l \in 1 .. m /\ n + l = i /\ u[i] = t[l]
      BY <1>1, <1>4, <2>2
    <3>2. PICK j \in 1 .. m : t[j].of = id /\ Behind(t, l, j)
      BY <1>1, <1>7, <3>1 DEF Closed, CallsAreAnswered
    <3>3. Behind(u, n + l, n + j) /\ u[n + j] = t[j] /\ n + j \in 1 .. n + m
      BY <1>1, <1>3, <1>5, <3>1, <3>2
    <3> QED
      BY <3>1, <3>2, <3>3
  <2> QED
    BY <2>1, <2>2
<1>8. Closed(u)
  BY <1>1, <1>6, <1>7 DEF Closed, ResultsFollow, CallsAreAnswered
<1> QED
  BY <1>8 DEF u

LEMMA PlainClosed ==
  ASSUME NEW s \in Seq(Messages), \A i \in DOMAIN s : Plain(s[i])
  PROVE  Closed(s)
  BY DEF Closed, ResultsFollow, CallsAreAnswered, Plain

(* An assistant message with its calls, and a result for each of them. *)
LEMMA ExchangeClosed ==
  ASSUME NEW a \in Messages, HasCalls(a), NEW rs \in Seq(Messages),
         \A i \in DOMAIN rs : rs[i].role = "tool" /\ rs[i].of \in ToSet(a.calls),
         \A id \in ToSet(a.calls) : \E i \in DOMAIN rs : rs[i].of = id
  PROVE  <<a>> \o rs \in Seq(Messages) /\ Closed(<<a>> \o rs)
<1> DEFINE u == <<a>> \o rs
           n == Len(rs)
<1>1. /\ n \in Nat /\ DOMAIN rs = 1 .. n /\ u \in Seq(Messages) /\ DOMAIN u = 1 .. n + 1
      /\ u[1] = a /\ \A k \in 1 .. n : u[1 + k] = rs[k]
  <2>1. <<a>> \in Seq(Messages) /\ Len(<<a>>) = 1 /\ <<a>>[1] = a
    OBVIOUS
  <2> DEFINE o == <<a>>
  <2> HIDE DEF o
  <2>2. o \in Seq(Messages) /\ Len(o) = 1 /\ o[1] = a
    BY <2>1 DEF o
  <2>3. /\ o \o rs \in Seq(Messages) /\ Len(o \o rs) = n + 1 /\ (o \o rs)[1] = a
        /\ \A k \in 1 .. n : (o \o rs)[1 + k] = rs[k]
    <3>1. /\ n \in Nat /\ o \o rs \in Seq(Messages) /\ Len(o \o rs) = 1 + n
          /\ \A k \in 1 .. 1 + n : (o \o rs)[k] = IF k <= 1 THEN o[k] ELSE rs[k - 1]
      <4>1. /\ o \o rs \in Seq(Messages) /\ Len(o \o rs) = Len(o) + Len(rs)
            /\ \A k \in 1 .. Len(o) + Len(rs) :
                 (o \o rs)[k] = IF k <= Len(o) THEN o[k] ELSE rs[k - Len(o)]
        BY <2>2, ConcatProperties
      <4>2. Len(rs) \in Nat /\ Len(o) = 1
        BY <2>2
      <4> HIDE DEF o
      <4> QED
        BY <4>1, <4>2
    <3>2. 1 \in 1 .. 1 + n /\ \A k \in 1 .. n : 1 + k \in 1 .. 1 + n /\ ~ (1 + k <= 1) /\ (1 + k) - 1 = k
      BY <3>1
    <3> QED
      BY <2>2, <3>1, <3>2
  <2> QED
    BY <2>3 DEF o
<1> HIDE DEF u, n
<1>2. \A k \in 2 .. n + 1 : k - 1 \in 1 .. n /\ u[k] = rs[k - 1] /\ u[k].role = "tool"
  <2> TAKE k \in 2 .. n + 1
  <2>1. k - 1 \in 1 .. n /\ 1 + (k - 1) = k
    BY <1>1
  <2>2. u[1 + (k - 1)] = rs[k - 1]
    BY <1>1, <2>1
  <2>3. rs[k - 1].role = "tool"
    BY <1>1, <2>1
  <2> QED
    BY <2>1, <2>2, <2>3
<1>3. \A j \in 2 .. n + 1 : Behind(u, 1, j)
  <2> TAKE j \in 2 .. n + 1
  <2>1. 1 < j /\ \A k \in 1 + 1 .. j : k \in 2 .. n + 1
    BY <1>1
  <2> QED
    BY <1>2, <2>1 DEF Behind
<1>4. a.role = "assistant" /\ \A j \in 1 .. n + 1 : j = 1 \/ j \in 2 .. n + 1
  BY <1>1 DEF HasCalls
<1>5. 1 \in 1 .. n + 1
  BY <1>1
<1>6. ResultsFollow({}, u)
  <2>1. ASSUME NEW j \in 1 .. n + 1, u[j].role = "tool"
        PROVE  HasCalls(u[1]) /\ u[j].of \in ToSet(u[1].calls) /\ Behind(u, 1, j)
    <3>1. j \in 2 .. n + 1
      BY <1>1, <1>4, <2>1
    <3> QED
      BY <1>1, <1>2, <1>3, <3>1
  <2> QED
    BY <1>1, <1>5, <2>1 DEF ResultsFollow
<1>7. CallsAreAnswered(u)
  <2>1. ASSUME NEW i \in 1 .. n + 1, HasCalls(u[i]), NEW id \in ToSet(u[i].calls)
        PROVE  \E j \in 1 .. n + 1 : u[j].of = id /\ Behind(u, i, j)
    <3>1. i = 1
      BY <1>2, <1>4, <2>1 DEF HasCalls
    <3>2. PICK k \in 1 .. n : rs[k].of = id
      BY <1>1, <2>1, <3>1
    <3>3. 1 + k \in 2 .. n + 1 /\ 1 + k \in 1 .. n + 1 /\ u[1 + k] = rs[k]
      BY <1>1
    <3> QED
      BY <1>3, <3>1, <3>2, <3>3
  <2> QED
    BY <1>1, <2>1 DEF CallsAreAnswered
<1> QED
  BY <1>1, <1>6, <1>7 DEF Closed, u

(* A part of a closed sequence between two messages that are no results. *)
LEMMA PartClosed ==
  ASSUME NEW s \in Seq(Messages), Closed(s), NEW h \in 0 .. Len(s), NEW e \in h .. Len(s),
         h < e => s[h + 1].role # "tool", e < Len(s) => s[e + 1].role # "tool"
  PROVE  SubSeq(s, h + 1, e) \in Seq(Messages) /\ Closed(SubSeq(s, h + 1, e))
<1> DEFINE u == SubSeq(s, h + 1, e)
           n == Len(s)
           m == e - h
<1>1. /\ n \in Nat /\ m \in Nat /\ h \in Nat /\ e \in Nat /\ e <= n /\ h + m = e /\ DOMAIN s = 1 .. n
      /\ u \in Seq(Messages) /\ Len(u) = m /\ DOMAIN u = 1 .. m
      /\ \A k \in 1 .. m : s[h + k] = u[k] /\ h + k \in 1 .. n
  <2>1. /\ n \in Nat /\ m \in Nat /\ h \in Nat /\ e \in Nat /\ e <= n /\ h + m = e
        /\ DOMAIN s = 1 .. n /\ \A k \in 1 .. m : h + k \in 1 .. n
    OBVIOUS
  <2>2. u \in Seq(Messages) /\ Len(u) = m
    BY <2>1
  <2>3. \A k \in 1 .. m : u[k] = s[h + k]
    <3>1. \A k \in 1 .. m : u[k] = s[(h + 1) + k - 1] /\ (h + 1) + k - 1 = h + k
      BY <2>1
    <3> QED
      BY <3>1
  <2> QED
    BY <2>1, <2>2, <2>3
<1> HIDE DEF u, n
<1>2. \A i \in 0 .. m, j \in 0 .. m : Behind(u, i, j) <=> Behind(s, h + i, h + j)
  BY <1>1, BehindShifted
<1> HIDE DEF m
<1>3. ResultsFollow({}, u)
  <2>1. ASSUME NEW j \in 1 .. m, u[j].role = "tool"
        PROVE  \E i \in 1 .. m : HasCalls(u[i]) /\ u[j].of \in ToSet(u[i].calls) /\ Behind(u, i, j)
    <3>1. h + j \in 1 .. n /\ s[h + j] = u[j]
      BY <1>1
    <3>2. PICK l \in 1 .. n :
            HasCalls(s[l]) /\ s[h + j].of \in ToSet(s[l].calls) /\ Behind(s, l, h + j)
      BY <1>1, <2>1, <3>1 DEF Closed, ResultsFollow
    <3>3. h < l
      <4>1. SUFFICES ASSUME l <= h PROVE FALSE
        BY <1>1
      <4>2. h + 1 \in l + 1 .. h + j /\ h < e
        BY <1>1, <4>1
      <4> QED
        BY <3>2, <4>2 DEF Behind
    <3>4. l < h + j
      BY <3>2 DEF Behind
    <3> DEFINE i == l - h
    <3>5. i \in 1 .. m /\ i \in 0 .. m /\ j \in 0 .. m /\ h + i = l
      BY <1>1, <3>3, <3>4
    <3>6. u[i] = s[l] /\ Behind(u, i, j)
      BY <1>1, <1>2, <3>2, <3>5
    <3> QED
      BY <3>1, <3>2, <3>5, <3>6
  <2> QED
    BY <1>1, <2>1 DEF ResultsFollow
<1>4. CallsAreAnswered(u)
  <2>1. ASSUME NEW i \in 1 .. m, HasCalls(u[i]), NEW id \in ToSet(u[i].calls)
        PROVE  \E j \in 1 .. m : u[j].of = id /\ Behind(u, i, j)
    <3>1. h + i \in 1 .. n /\ s[h + i] = u[i]
      BY <1>1
    <3>2. PICK l \in 1 .. n : s[l].of = id /\ Behind(s, h + i, l)
      BY <1>1, <2>1, <3>1 DEF Closed, CallsAreAnswered
    <3>3. l <= e
      <4>1. SUFFICES ASSUME e < l PROVE FALSE
        BY <1>1
      <4>2. e + 1 \in (h + i) + 1 .. l /\ e < n
        BY <1>1, <4>1
      <4> QED
        BY <3>2, <4>2 DEF Behind, n
    <3>4. h + i < l
      BY <3>2 DEF Behind
    <3> DEFINE j == l - h
    <3>5. j \in 1 .. m /\ j \in 0 .. m /\ i \in 0 .. m /\ h + j = l
      BY <1>1, <3>3, <3>4
    <3>6. u[j] = s[l] /\ Behind(u, i, j)
      BY <1>1, <1>2, <3>2, <3>5
    <3> QED
      BY <3>2, <3>5, <3>6
  <2> QED
    BY <1>1, <2>1 DEF CallsAreAnswered
<1> QED
  BY <1>1, <1>3, <1>4 DEF Closed, u

(* Closed has to do with roles, calls and results only. *)
Alike(m, l) ==
  /\ m.role = l.role /\ m.calls = l.calls /\ m.of = l.of
  /\ m.sent = l.sent /\ m.response = l.response

LEMMA AlikeClosed ==
  ASSUME NEW s \in Seq(Messages), NEW u \in Seq(Messages), Len(u) = Len(s), Closed(s),
         \A i \in DOMAIN s : Alike(u[i], s[i])
  PROVE  Closed(u)
<1> DEFINE n == Len(s)
<1>1. n \in Nat /\ DOMAIN s = 1 .. n /\ DOMAIN u = 1 .. n
  OBVIOUS
<1> HIDE DEF n
<1>2. \A i \in 1 .. n :
        /\ u[i].role = s[i].role /\ u[i].calls = s[i].calls /\ u[i].of = s[i].of
        /\ HasCalls(u[i]) <=> HasCalls(s[i])
  BY <1>1 DEF Alike, HasCalls
<1>3. \A i, j \in 1 .. n : Behind(s, i, j) => Behind(u, i, j)
  <2> TAKE i, j \in 1 .. n
  <2>1. \A k \in i + 1 .. j : k \in 1 .. n
    BY <1>1
  <2> QED
    BY <1>2, <2>1 DEF Behind
<1>4. ResultsFollow({}, u)
  <2>1. ASSUME NEW j \in 1 .. n, u[j].role = "tool"
        PROVE  \E i \in 1 .. n : HasCalls(u[i]) /\ u[j].of \in ToSet(u[i].calls) /\ Behind(u, i, j)
    <3>1. PICK i \in 1 .. n : HasCalls(s[i]) /\ s[j].of \in ToSet(s[i].calls) /\ Behind(s, i, j)
      BY <1>1, <1>2, <2>1 DEF Closed, ResultsFollow
    <3> QED
      BY <1>2, <1>3, <3>1
  <2> QED
    BY <1>1, <2>1 DEF ResultsFollow
<1>5. CallsAreAnswered(u)
  <2>1. ASSUME NEW i \in 1 .. n, HasCalls(u[i]), NEW id \in ToSet(u[i].calls)
        PROVE  \E j \in 1 .. n : u[j].of = id /\ Behind(u, i, j)
    <3>1. PICK j \in 1 .. n : s[j].of = id /\ Behind(s, i, j)
      BY <1>1, <1>2, <2>1 DEF Closed, CallsAreAnswered
    <3> QED
      BY <1>2, <1>3, <3>1
  <2> QED
    BY <1>1, <2>1 DEF CallsAreAnswered
<1> QED
  BY <1>4, <1>5 DEF Closed

(*------------------------- groups of a transcript ------------------------*)

(* A group: one message, or an assistant message with calls and the tool
   messages behind it. *)
Shaped(A) ==
  {g \in Seq(A) : /\ g # <<>> /\ \A k \in 2 .. Len(g) : g[k].role = "tool"
                  /\ Len(g) >= 2 => HasCalls(g[1])}

LEMMA GroupedShaped ==
  ASSUME NEW A \in SUBSET Messages, NEW gs \in Seq(Shaped(A)), NEW m \in A
  PROVE  Grouped(gs, m) \in Seq(Shaped(A))
<1>1. <<m>> \in Shaped(A)
  BY DEF Shaped
<1>2. CASE m.role = "tool" /\ gs # <<>> /\ HasCalls(Last(gs)[1])
  <2> DEFINE g == Last(gs)
             u == Append(g, m)
  <2>1. Front(gs) \in Seq(Shaped(A)) /\ g \in Shaped(A)
    BY <1>2, FrontAndLast
  <2>2. /\ g \in Seq(A) /\ g # <<>> /\ (\A k \in 2 .. Len(g) : g[k].role = "tool")
        /\ Len(g) \in Nat /\ Len(g) # 0 /\ HasCalls(g[1])
    <3> HIDE DEF g
    <3>1. g \in Seq(A) /\ g # <<>> /\ \A k \in 2 .. Len(g) : g[k].role = "tool"
      BY <2>1 DEF Shaped
    <3>2. Len(g) \in Nat /\ Len(g) # 0
      BY <3>1, EmptySeq
    <3>3. HasCalls(g[1])
      BY <1>2 DEF g
    <3> QED
      BY <3>1, <3>2, <3>3
  <2>3. Grouped(gs, m) = Append(Front(gs), u)
    BY <1>2 DEF Grouped
  <2> HIDE DEF g
  <2>4. /\ u \in Seq(A) /\ u # <<>> /\ Len(u) = Len(g) + 1 /\ u[Len(g) + 1] = m
        /\ \A k \in 1 .. Len(g) : u[k] = g[k]
    BY <2>2, AppendProperties
  <2> HIDE DEF u
  <2>5. \A k \in 2 .. Len(u) : u[k].role = "tool"
    <3> TAKE k \in 2 .. Len(u)
    <3>1. k = Len(g) + 1 \/ (k \in 2 .. Len(g) /\ k \in 1 .. Len(g))
      BY <2>2, <2>4
    <3> QED
      BY <1>2, <2>2, <2>4, <3>1
  <2>6. HasCalls(u[1])
    <3>1. 1 \in 1 .. Len(g)
      BY <2>2
    <3> QED
      BY <2>2, <2>4, <3>1
  <2>7. u \in Shaped(A)
    BY <2>4, <2>5, <2>6 DEF Shaped
  <2> QED
    BY <2>1, <2>3, <2>7, AppendProperties
<1>3. CASE ~ (m.role = "tool" /\ gs # <<>> /\ HasCalls(Last(gs)[1]))
  <2>1. Grouped(gs, m) = Append(gs, <<m>>)
    BY <1>3 DEF Grouped
  <2> QED
    BY <1>1, <2>1, AppendProperties
<1> QED
  BY <1>2, <1>3

LEMMA GroupsShaped ==
  ASSUME NEW A \in SUBSET Messages, NEW s \in Seq(A)
  PROVE  Groups(s) \in Seq(Shaped(A))
<1> DEFINE n == Len(s)
<1>1. s \in Seq(Messages) /\ n \in Nat /\ \A i \in 1 .. n : s[i] \in A
  OBVIOUS
<1>2. PICK f \in [0 .. n -> Seq(GroupSet)] :
        /\ f[0] = <<>> /\ \A i \in 1 .. n : f[i] = Grouped(f[i - 1], s[i])
        /\ Groups(s) = f[n]
  BY <1>1, GroupsSteps
<1> HIDE DEF n
<1> DEFINE T == {i \in 0 .. n : f[i] \in Seq(Shaped(A))}
<1>3. 0 \in T
  <2>1. <<>> \in Seq(Shaped(A)) /\ 0 \in 0 .. n
    BY <1>1
  <2> QED
    BY <1>2, <2>1
<1>4. ASSUME NEW i \in 0 .. n - 1, i \in T PROVE i + 1 \in T
  <2>1. i + 1 \in 1 .. n /\ i + 1 \in 0 .. n /\ (i + 1) - 1 = i /\ f[i] \in Seq(Shaped(A))
    BY <1>1, <1>4
  <2>2. f[i + 1] = Grouped(f[i], s[i + 1]) /\ s[i + 1] \in A
    BY <1>1, <1>2, <2>1
  <2> QED
    BY <2>1, <2>2, GroupedShaped
<1>5. \A i \in 0 .. n : i \in T
  <2> HIDE DEF T
  <2> QED
    BY <1>1, <1>3, <1>4, Induction
<1> QED
  BY <1>1, <1>2, <1>5

(* The groups of a closed transcript are closed. *)
ClosedOver(A) == {s \in Seq(A) : Closed(s)}

(* The groups of the first i messages: closed ones, and the one that begins
   behind message h. *)
Opened(s, i, C, gs) ==
  \E x \in Seq(C), h \in 0 .. i - 1 :
    /\ gs = Append(x, SubSeq(s, h + 1, i))
    /\ s[h + 1].role # "tool" /\ \A k \in h + 2 .. i : s[k].role = "tool"

LEMMA OpenedOne ==
  ASSUME NEW A \in SUBSET Messages, NEW s \in Seq(A), Closed(s), s # <<>>
  PROVE  Opened(s, 1, ClosedOver(A), <<<<s[1]>>>>)
<1>1. Len(s) \in Nat /\ Len(s) # 0 /\ 1 \in DOMAIN s /\ s[1] \in A
  BY EmptySeq
<1>2. s[1].role # "tool"
  <2>1. SUFFICES ASSUME s[1].role = "tool" PROVE FALSE
    OBVIOUS
  <2>2. PICK i \in DOMAIN s : Behind(s, i, 1)
    BY <1>1, <2>1 DEF Closed, ResultsFollow
  <2> QED
    BY <2>2 DEF Behind
<1>3. SubSeq(s, 1, 1) = <<s[1]>>
  BY <1>1, SubSeqOne
<1>4. Append(<<>>, <<s[1]>>) = <<<<s[1]>>>> /\ <<>> \in Seq(ClosedOver(A))
  OBVIOUS
<1>5. 0 \in 0 .. 1 - 1 /\ 0 + 1 = 1 /\ \A k \in 0 + 2 .. 1 : FALSE
  OBVIOUS
<1> QED
  BY <1>2, <1>3, <1>4, <1>5 DEF Opened

LEMMA OpenedStep ==
  ASSUME NEW A \in SUBSET Messages, NEW s \in Seq(A), Closed(s),
         NEW i \in 1 .. Len(s) - 1, NEW gs, Opened(s, i, ClosedOver(A), gs)
  PROVE  Opened(s, i + 1, ClosedOver(A), Grouped(gs, s[i + 1]))
<1> DEFINE n == Len(s)
           C == ClosedOver(A)
           m == s[i + 1]
<1>1. PICK x \in Seq(C), h \in 0 .. i - 1 :
        /\ gs = Append(x, SubSeq(s, h + 1, i))
        /\ s[h + 1].role # "tool" /\ \A k \in h + 2 .. i : s[k].role = "tool"
  BY DEF Opened
<1> DEFINE g == SubSeq(s, h + 1, i)
<1>2. /\ n \in Nat /\ h \in Nat /\ i \in Nat /\ i + 1 \in 1 .. n /\ h + 1 \in 1 .. i /\ i \in h .. n
      /\ h \in 0 .. n /\ s \in Seq(Messages) /\ m \in A /\ DOMAIN s = 1 .. n
  OBVIOUS
<1>3. g \in Seq(A) /\ g # <<>> /\ g[1] = s[h + 1]
  <2>1. \A k \in h + 1 .. i : s[k] \in A
    BY <1>2
  <2>2. /\ g \in Seq(A) /\ Len(g) = IF h + 1 <= i THEN i - (h + 1) + 1 ELSE 0
        /\ \A k \in 1 .. i - (h + 1) + 1 : g[k] = s[(h + 1) + k - 1]
    BY <1>2, <2>1, SubSeqProperties
  <2>3. Len(g) # 0 /\ 1 \in 1 .. i - (h + 1) + 1 /\ (h + 1) + 1 - 1 = h + 1
    BY <1>2, <2>2
  <2> HIDE DEF g
  <2>4. g # <<>>
    BY <2>3
  <2> QED
    BY <2>2, <2>3, <2>4
<1>4. Front(gs) = x /\ Last(gs) = g /\ gs # <<>>
  <2> DEFINE S == Seq(A)
  <2>1. x \in Seq(S) /\ g \in S
    <3>1. C \subseteq S
      BY DEF ClosedOver
    <3>2. g \in S
      BY <1>3
    <3> HIDE DEF C, S, g
    <3> QED
      BY <3>1, <3>2
  <2> HIDE DEF S, g
  <2> QED
    BY <1>1, <2>1, FrontOfAppend DEF g
<1>5. CASE m.role = "tool"
  <2>1. HasCalls(s[h + 1])
    <3>1. PICK l \in DOMAIN s : HasCalls(s[l]) /\ Behind(s, l, i + 1)
      BY <1>2, <1>5 DEF Closed, ResultsFollow
    <3>2. l < i + 1 /\ s[l].role = "assistant" /\ l \in 1 .. n
      BY <1>2, <3>1 DEF Behind, HasCalls
    <3>3. ~ (l \in h + 2 .. i)
      BY <1>1, <3>2
    <3>4. ~ (l < h + 1)
      <4>1. SUFFICES ASSUME l < h + 1 PROVE FALSE
        OBVIOUS
      <4>2. h + 1 \in l + 1 .. i + 1
        BY <1>2, <3>2, <4>1
      <4> QED
        BY <1>1, <3>1, <4>2 DEF Behind
    <3>5. l = h + 1
      BY <1>2, <3>2, <3>3, <3>4
    <3> QED
      BY <3>1, <3>5
  <2>2. Grouped(gs, m) = Append(x, Append(g, m))
    <3> HIDE DEF g, m
    <3> QED
      BY <1>3, <1>4, <1>5, <2>1 DEF Grouped
  <2>3. SubSeq(s, h + 1, i + 1) = Append(g, m)
    <3>1. h + 1 \in 1 .. Len(s) /\ i + 1 \in h + 1 .. Len(s) /\ (i + 1) - 1 = i
      BY <1>2
    <3>2. SubSeq(s, h + 1, i + 1) = g \o <<m>>
      BY <3>1, SubSeqRecursiveSecond
    <3> HIDE DEF g, m
    <3> QED
      BY <1>2, <1>3, <3>2, AppendIsConcat
  <2>4. h \in 0 .. (i + 1) - 1 /\ \A k \in h + 2 .. i + 1 : k \in h + 2 .. i \/ k = i + 1
    BY <1>2
  <2>5. \A k \in h + 2 .. i + 1 : s[k].role = "tool"
    BY <1>1, <1>5, <2>4
  <2> HIDE DEF g, m
  <2> QED
    BY <1>1, <2>2, <2>3, <2>4, <2>5 DEF Opened, m
<1>6. CASE m.role # "tool"
  <2>1. Grouped(gs, m) = Append(gs, <<m>>)
    BY <1>6 DEF Grouped
  <2>2. g \in C
    <3>1. Closed(g)
      BY <1>1, <1>2, <1>6, PartClosed
    <3> HIDE DEF g
    <3> QED
      BY <1>3, <3>1 DEF ClosedOver
  <2>3. gs \in Seq(C)
    <3> HIDE DEF g, C
    <3> QED
      BY <1>1, <2>2, AppendProperties DEF g
  <2>4. SubSeq(s, i + 1, i + 1) = <<m>>
    BY <1>2, SubSeqOne
  <2>5. i \in 0 .. (i + 1) - 1 /\ \A k \in i + 2 .. i + 1 : FALSE
    BY <1>2
  <2> HIDE DEF C, m
  <2>6. Grouped(gs, m) = Append(gs, SubSeq(s, i + 1, i + 1)) /\ s[i + 1].role # "tool"
    BY <1>6, <2>1, <2>4 DEF m
  <2> QED
    BY <2>3, <2>5, <2>6 DEF Opened, C, m
<1> QED
  BY <1>5, <1>6

LEMMA GroupsClosed ==
  ASSUME NEW A \in SUBSET Messages, NEW s \in Seq(A), Closed(s)
  PROVE  Groups(s) \in Seq(ClosedOver(A))
<1> DEFINE n == Len(s)
           C == ClosedOver(A)
<1>1. s \in Seq(Messages) /\ n \in Nat /\ \A i \in 1 .. n : s[i] \in A
  OBVIOUS
<1>2. PICK f \in [0 .. n -> Seq(GroupSet)] :
        /\ f[0] = <<>> /\ \A i \in 1 .. n : f[i] = Grouped(f[i - 1], s[i])
        /\ Groups(s) = f[n]
  BY <1>1, GroupsSteps
<1> DEFINE T == {i \in 0 .. n : i = 0 \/ Opened(s, i, C, f[i])}
<1>3. 0 \in T
  BY <1>1
<1>4. ASSUME NEW i \in 0 .. n - 1, i \in T PROVE i + 1 \in T
  <2>1. i + 1 \in 1 .. n /\ i + 1 \in 0 .. n /\ (i + 1) - 1 = i
    BY <1>1
  <2>2. f[i + 1] = Grouped(f[i], s[i + 1])
    <3> HIDE DEF n
    <3> QED
      BY <1>2, <2>1
  <2>3. CASE i = 0
    <3>1. f[1] = <<<<s[1]>>>> /\ s # <<>>
      <4>1. f[0] = <<>> /\ 0 + 1 = 1 /\ n # 0
        BY <1>1, <1>2, <2>1, <2>3
      <4>2. f[1] = Grouped(<<>>, s[1])
        <5> HIDE DEF n
        <5> QED
          BY <2>2, <2>3, <4>1
      <4>3. Grouped(<<>>, s[1]) = <<<<s[1]>>>>
        BY DEF Grouped
      <4> QED
        BY <4>1, <4>2, <4>3
    <3>2. Opened(s, 1, C, f[1])
      BY <3>1, OpenedOne
    <3> QED
      BY <2>1, <2>3, <3>2
  <2>4. CASE i # 0
    <3>1. i \in 1 .. n - 1 /\ Opened(s, i, C, f[i])
      BY <1>1, <1>4, <2>4
    <3>2. Opened(s, i + 1, C, f[i + 1])
      BY <2>2, <3>1, OpenedStep
    <3> QED
      BY <2>1, <3>2
  <2> QED
    BY <2>3, <2>4
<1>5. \A i \in 0 .. n : i \in T
  <2> HIDE DEF T, n
  <2> QED
    BY <1>1, <1>3, <1>4, Induction
<1>6. CASE n = 0
  <2>1. Groups(s) = <<>> /\ <<>> \in Seq(C)
    BY <1>2, <1>6
  <2> QED
    BY <2>1
<1>7. CASE n # 0
  <2>1. n \in 0 .. n /\ Opened(s, n, C, f[n])
    BY <1>1, <1>5, <1>7
  <2>2. PICK x \in Seq(C), h \in 0 .. n - 1 :
          f[n] = Append(x, SubSeq(s, h + 1, n)) /\ s[h + 1].role # "tool"
    BY <2>1 DEF Opened
  <2> DEFINE g == SubSeq(s, h + 1, n)
  <2>3. g \in Seq(A)
    BY <1>1
  <2>4. h \in 0 .. n /\ n \in h .. n
    BY <1>1
  <2>5. Closed(g)
    BY <1>1, <2>2, <2>4, PartClosed
  <2> HIDE DEF g, C, n
  <2>6. g \in C
    BY <2>3, <2>5 DEF ClosedOver, C
  <2> QED
    BY <1>2, <2>2, <2>6, AppendProperties DEF g, C
<1> QED
  BY <1>6, <1>7

(* What holds of the empty sequence and of what follows a group with such a
   sequence holds of what a window keeps. *)
LEMMA WindowKeeps ==
  ASSUME NEW s \in Seq(Messages), NEW prefix \in Seq(Messages), NEW suffix \in Seq(Messages),
         NEW G \in SUBSET Seq(Messages), <<>> \in G, \A x, y \in G : x \o y \in G,
         Groups(s) \in Seq(G)
  PROVE  Window(s, prefix, suffix).kept \in G
<1> DEFINE gs == Groups(s)
           n == Len(gs)
           W == Windows(Tokens(prefix \o suffix))
<1>1. n \in Nat /\ \A i \in 1 .. n : gs[i] \in G
  OBVIOUS
<1>2. PICK f \in [0 .. n -> W] :
        /\ f[0].kept = <<>>
        /\ \A i \in 1 .. n : f[i] = Taken(f[i - 1], gs[n + 1 - i])
        /\ Window(s, prefix, suffix) = f[n]
  BY WindowSteps
<1> HIDE DEF n, gs
<1> DEFINE T == {i \in 0 .. n : f[i].kept \in G}
<1>3. 0 \in T
  BY <1>1, <1>2
<1>4. ASSUME NEW i \in 0 .. n - 1, i \in T PROVE i + 1 \in T
  <2>1. /\ i + 1 \in 1 .. n /\ i + 1 \in 0 .. n /\ i \in 0 .. n /\ (i + 1) - 1 = i
        /\ n + 1 - (i + 1) \in 1 .. n /\ f[i].kept \in G
    BY <1>1, <1>4
  <2> DEFINE w == f[i]
             g == gs[n + 1 - (i + 1)]
  <2>2. f[i + 1] = Taken(w, g) /\ g \in G /\ w.kept \in G
    BY <1>1, <1>2, <2>1
  <2>3. w = [kept |-> w.kept, dropped |-> w.dropped, used |-> w.used]
    BY <1>2, <2>1 DEF Windows
  <2> HIDE DEF w, g
  <2>4. Taken(w, g).kept = w.kept \/ Taken(w, g).kept = g \o w.kept
    <3> DEFINE more == g \o w.kept
               less == g \o w.dropped
               used == w.used + Tokens(g)
    <3>1. Taken(w, g) = IF used <= Usable
                        THEN [[w EXCEPT !.kept = more] EXCEPT !.used = used]
                        ELSE [w EXCEPT !.dropped = less]
      BY <2>3 DEF Taken
    <3> HIDE DEF more, less, used
    <3>2. [[w EXCEPT !.kept = more] EXCEPT !.used = used].kept = more
      BY <2>3
    <3>3. [w EXCEPT !.dropped = less].kept = w.kept
      BY <2>3
    <3> QED
      BY <3>1, <3>2, <3>3 DEF more
  <2>5. f[i + 1].kept \in G
    BY <2>2, <2>4
  <2> QED
    BY <2>1, <2>5
<1>5. \A i \in 0 .. n : i \in T
  <2> HIDE DEF T
  <2> QED
    BY <1>1, <1>3, <1>4, Induction
<1>6. n \in 0 .. n
  BY <1>1
<1> QED
  BY <1>2, <1>5, <1>6

(*--------------------- prompts whose calls are answered -------------------*)

Texts == {m \in Messages : IsText(m)}

(* What a prompt may hold: texts, and messages of the turn up to their size. *)
Allowed(t) == {m \in Messages : IsText(m) \/ \E i \in DOMAIN t : Alike(m, t[i])}

LEMMA TextsPlain ==
  ASSUME NEW m, IsText(m)
  PROVE  /\ Plain(m) /\ m.calls = <<>> /\ m.sent = <<>> /\ m.response = FALSE /\ m.of = NoCall
<1>1. m = [role |-> m.role, calls |-> <<>>, of |-> NoCall, size |-> m.size,
           sent |-> <<>>, response |-> FALSE]
  BY DEF IsText, Message
<1>2. m.calls = <<>> /\ m.sent = <<>> /\ m.response = FALSE /\ m.of = NoCall
  <2> DEFINE r == m.role
             n == m.size
  <2>1. m = [role |-> r, calls |-> <<>>, of |-> NoCall, size |-> n, sent |-> <<>>, response |-> FALSE]
    BY <1>1
  <2> HIDE DEF r, n
  <2> QED
    BY <2>1
<1> QED
  BY <1>2 DEF IsText, Plain, HasCalls

LEMMA TextType ==
  ASSUME NEW role \in Roles \ {"tool"}, NEW size \in Nat
  PROVE  Message(role, <<>>, NoCall, size) \in Texts
<1> DEFINE m == Message(role, <<>>, NoCall, size)
<1>1. m \in Messages
  BY DEF Message, Messages, Roles, NoCall, CallIds
<1>2. m.role = role /\ m.size = size
  BY DEF Message
<1> HIDE DEF m
<1>3. IsText(m)
  BY <1>2 DEF IsText, m
<1> QED
  BY <1>1, <1>3 DEF Texts, m

LEMMA ClosedOverAll ==
  ASSUME NEW A \in SUBSET Messages, Texts \subseteq A
  PROVE  /\ ClosedOver(A) \in SUBSET Seq(Messages) /\ <<>> \in ClosedOver(A)
         /\ Seq(Texts) \subseteq ClosedOver(A)
         /\ \A x, y \in ClosedOver(A) : x \o y \in ClosedOver(A)
<1>1. ClosedOver(A) \in SUBSET Seq(Messages)
  <2>1. \A x \in Seq(A) : x \in Seq(Messages)
    OBVIOUS
  <2> QED
    BY <2>1 DEF ClosedOver
<1>2. ASSUME NEW x \in Seq(Texts) PROVE x \in ClosedOver(A)
  <2>1. x \in Seq(A) /\ x \in Seq(Messages) /\ \A i \in DOMAIN x : x[i] \in Texts
    OBVIOUS
  <2>2. \A i \in DOMAIN x : Plain(x[i])
    BY <2>1, TextsPlain DEF Texts
  <2> QED
    BY <2>1, <2>2, PlainClosed DEF ClosedOver
<1>3. <<>> \in Seq(Texts)
  OBVIOUS
<1>4. ASSUME NEW x \in ClosedOver(A), NEW y \in ClosedOver(A) PROVE x \o y \in ClosedOver(A)
  <2>1. x \in Seq(A) /\ y \in Seq(A) /\ x \in Seq(Messages) /\ y \in Seq(Messages) /\ Closed(x) /\ Closed(y)
    BY <1>1 DEF ClosedOver
  <2>2. x \o y \in Seq(A)
    BY <2>1, ConcatProperties
  <2> QED
    BY <2>1, <2>2, ClosedConcat DEF ClosedOver
<1> QED
  BY <1>1, <1>2, <1>3, <1>4

LEMMA AllOf ==
  ASSUME NEW t \in Seq(Messages)
  PROVE  /\ Allowed(t) \in SUBSET Messages /\ Texts \subseteq Allowed(t) /\ t \in Seq(Allowed(t))
<1>1. ASSUME NEW i \in DOMAIN t PROVE t[i] \in Allowed(t)
  <2>1. t[i] \in Messages /\ Alike(t[i], t[i])
    BY DEF Alike
  <2> QED
    BY <2>1 DEF Allowed
<1>2. t \in Seq(Allowed(t))
  BY <1>1
<1> QED
  BY <1>2 DEF Allowed, Texts

LEMMA TurnKept ==
  ASSUME NEW t \in Seq(Messages), Closed(t), NEW prefix \in Seq(Messages)
  PROVE  FitProtected(t, prefix) \in ClosedOver(Allowed(t))
<1> DEFINE A == Allowed(t)
           G == ClosedOver(A)
           fit == FitProtected(t, prefix)
<1>1. /\ A \in SUBSET Messages /\ Texts \subseteq A /\ t \in Seq(A)
      /\ G \in SUBSET Seq(Messages) /\ <<>> \in G /\ \A x, y \in G : x \o y \in G
  <2>1. A \in SUBSET Messages /\ Texts \subseteq A /\ t \in Seq(A)
    BY AllOf
  <2> HIDE DEF A
  <2> QED
    BY <2>1, ClosedOverAll
<1> HIDE DEF fit
<1>2. CASE fit = t
  BY <1>1, <1>2 DEF ClosedOver, fit
<1>3. CASE \E i \in DOMAIN t :
             /\ CutsOf(t, prefix, i) # {}
             /\ fit = [t EXCEPT ![i].size = Largest(CutsOf(t, prefix, i))]
  <2>1. PICK i \in DOMAIN t :
          /\ CutsOf(t, prefix, i) # {}
          /\ fit = [t EXCEPT ![i].size = Largest(CutsOf(t, prefix, i))]
    BY <1>3
  <2> DEFINE size == Largest(CutsOf(t, prefix, i))
             n == [t[i] EXCEPT !.size = size]
  <2>2. size \in Nat
    BY <2>1, CutsOfBound
  <2>3. /\ n \in Messages /\ n.role = t[i].role /\ n.calls = t[i].calls /\ n.of = t[i].of
        /\ n.sent = t[i].sent /\ n.response = t[i].response
        /\ fit \in Seq(Messages) /\ Len(fit) = Len(t)
        /\ \A j \in 1 .. Len(t) : fit[j] = IF j = i THEN n ELSE t[j]
    <3>1. fit = [t EXCEPT ![i].size = size]
      BY <2>1
    <3> HIDE DEF size
    <3> QED
      BY <2>2, <3>1, CutOne
  <2> HIDE DEF n
  <2>4. DOMAIN t = 1 .. Len(t) /\ DOMAIN fit = 1 .. Len(t) /\ Len(t) \in Nat
    BY <2>3
  <2>5. \A j \in 1 .. Len(t) : Alike(fit[j], t[j])
    BY <2>3 DEF Alike
  <2>6. Closed(fit)
    BY <2>3, <2>4, <2>5, AlikeClosed
  <2>7. \A j \in 1 .. Len(t) : fit[j] \in Allowed(t)
    BY <2>3, <2>4, <2>5 DEF Allowed
  <2>8. fit \in Seq(A)
    <3> HIDE DEF A
    <3>1. \A j \in 1 .. Len(t) : fit[j] \in A
      BY <2>7 DEF A
    <3> QED
      BY <2>3, <2>4, <3>1
  <2> QED
    BY <2>6, <2>8 DEF ClosedOver, fit
<1>4. CASE fit = Window(t, prefix, <<>>).kept
  <2>1. Groups(t) \in Seq(G)
    <3> HIDE DEF A
    <3> QED
      BY <1>1, GroupsClosed
  <2>2. <<>> \in Seq(Messages)
    OBVIOUS
  <2> HIDE DEF G
  <2>3. fit \in G
    BY <1>1, <1>4, <2>1, <2>2, WindowKeeps
  <2> QED
    BY <2>3 DEF G, fit
<1> QED
  BY <1>2, <1>3, <1>4, ProtectedCases DEF fit

(* A window keeps texts of texts. *)
LEMMA HistoryKept ==
  ASSUME NEW s \in Seq(Texts), NEW prefix \in Seq(Messages), NEW suffix \in Seq(Messages)
  PROVE  Window(s, prefix, suffix).kept \in Seq(Texts)
<1> DEFINE G == Seq(Texts)
<1>1. /\ G \in SUBSET Seq(Messages) /\ <<>> \in G /\ s \in Seq(Messages)
  <2>1. Texts \subseteq Messages
    BY DEF Texts
  <2> QED
    BY <2>1
<1>2. \A x, y \in G : x \o y \in G
  BY ConcatProperties
<1>3. Groups(s) \in Seq(G)
  <2>1. Groups(s) \in Seq(Shaped(Texts))
    BY GroupsShaped DEF Texts
  <2>2. Shaped(Texts) \subseteq G
    BY DEF Shaped
  <2> HIDE DEF G
  <2> QED
    BY <2>1, <2>2
<1> HIDE DEF G
<1>4. Window(s, prefix, suffix).kept \in G
  BY <1>1, <1>2, <1>3, WindowKeeps
<1> QED
  BY <1>4 DEF G

LEMMA SummaryKept ==
  ASSUME NEW G \in SUBSET Seq(Messages), \A x, y \in G : x \o y \in G, Seq(Texts) \subseteq G,
         NEW prefix \in Seq(Texts), NEW kept \in Seq(Texts), NEW summary \in Texts, NEW suffix \in G,
         FitSummary(prefix, kept, summary, suffix).found
  PROVE  FitSummary(prefix, kept, summary, suffix).prompt \in G
<1>1. kept \in Seq(Messages)
  <2>1. Texts \subseteq Messages
    BY DEF Texts
  <2> QED
    BY <2>1
<1>2. PICK k \in 0 .. Len(kept) :
        FitSummary(prefix, kept, summary, suffix).prompt =
          Summarized(prefix, kept, summary, suffix, k)
  BY <1>1, SummaryCases
<1> DEFINE a == <<summary>>
           b == SubSeq(kept, k + 1, Len(kept))
<1>3. a \in Seq(Texts) /\ b \in Seq(Texts)
  OBVIOUS
<1> HIDE DEF a, b
<1>4. prefix \in G /\ a \in G /\ b \in G
  BY <1>3
<1>5. prefix \o a \in G
  BY <1>4
<1>6. (prefix \o a) \o b \in G
  BY <1>4, <1>5
<1>7. ((prefix \o a) \o b) \o suffix \in G
  BY <1>4, <1>6
<1> QED
  BY <1>2, <1>7 DEF a, b, Summarized

(* Whatever is dropped, cut or summarized, the prompt stays closed. *)
LEMMA PromptClosed ==
  ASSUME NEW prefix \in Seq(Texts), prefix # <<>>, Fits(prefix), NEW optional \in Seq(Texts),
         NEW t \in Seq(Messages), Closed(t)
  PROVE  BuildContext(prefix, optional, t) \in ClosedOver(Allowed(t))
<1> DEFINE A == Allowed(t)
           G == ClosedOver(A)
           fit      == FitProtected(t, prefix)
           window   == Window(optional, prefix, fit)
           windowed == prefix \o window.kept \o fit
           summary  == Summary(window.dropped)
           whole    == FitSummary(prefix, window.kept, summary, fit)
           left     == Usable - Tokens(windowed)
           size     == IF summary.size < left - Overhead THEN summary.size ELSE left - Overhead
           short    == [summary EXCEPT !.size = size]
           compact  == FitSummary(prefix, window.kept, short, fit)
<1>1. /\ A \in SUBSET Messages /\ Texts \subseteq A /\ t \in G
      /\ G \in SUBSET Seq(Messages) /\ Seq(Texts) \subseteq G /\ \A x, y \in G : x \o y \in G
  <2>1. A \in SUBSET Messages /\ Texts \subseteq A /\ t \in Seq(A)
    BY AllOf
  <2> HIDE DEF A
  <2> QED
    BY <2>1, ClosedOverAll DEF ClosedOver
<1>2. fit \in G
  <2>1. prefix \in Seq(Messages)
    BY <1>1
  <2> QED
    BY <2>1, TurnKept
<1> HIDE DEF A, G, fit
<1>3. prefix \in Seq(Messages) /\ optional \in Seq(Messages) /\ fit \in Seq(Messages)
  BY <1>1, <1>2
<1>4. window.kept \in Seq(Texts) /\ window.dropped \in Seq(Messages)
  <2>1. window.kept \in Seq(Texts)
    BY <1>3, HistoryKept
  <2>2. window \in Windows(Tokens(prefix \o fit))
    BY <1>3, WindowType
  <2> HIDE DEF window
  <2> QED
    BY <2>1, <2>2 DEF Windows
<1> HIDE DEF window
<1>5. windowed \in G
  <2>1. window.kept \in G /\ prefix \in G
    BY <1>1, <1>4
  <2>2. prefix \o window.kept \in G
    BY <1>1, <2>1
  <2> QED
    BY <1>1, <1>2, <2>2
<1>6. summary \in Texts /\ summary.size \in Nat /\ summary = Message("system", <<>>, NoCall, summary.size)
  <2> DEFINE n == IF 1 + Tokens(window.dropped) < SummaryMax
                  THEN 1 + Tokens(window.dropped) ELSE SummaryMax
  <2>1. n \in Nat
    BY <1>4, TokensType, BudgetAssumption
  <2>2. summary = Message("system", <<>>, NoCall, n)
    BY DEF Summary
  <2> HIDE DEF n, summary
  <2>3. summary \in Texts /\ summary.size = n
    BY <2>1, <2>2, TextType DEF Roles, Message
  <2> QED
    BY <2>1, <2>2, <2>3
<1> HIDE DEF summary
<1>7. whole.found => whole.prompt \in G
  BY <1>1, <1>2, <1>4, <1>6, SummaryKept
<1>8. ASSUME left > Overhead + Slack, compact.found PROVE compact.prompt \in G
  <2>1. Tokens(windowed) \in Nat
    BY <1>1, <1>5, TokensType
  <2>2. size \in Nat
    <3> HIDE DEF windowed
    <3> QED
      BY <1>6, <1>8, <2>1, BudgetAssumption
  <2> HIDE DEF size
  <2>3. short = Message("system", <<>>, NoCall, size)
    <3>1. short = [Message("system", <<>>, NoCall, summary.size) EXCEPT !.size = size]
      BY <1>6
    <3> HIDE DEF short
    <3> QED
      BY <3>1 DEF Message
  <2>4. short \in Texts
    <3> HIDE DEF short
    <3> QED
      BY <2>2, <2>3, TextType DEF Roles
  <2> HIDE DEF short
  <2> QED
    BY <1>1, <1>2, <1>4, <1>8, <2>4, SummaryKept
<1>9. prefix \o optional \o t \in G
  <2>1. prefix \in G /\ optional \in G
    BY <1>1
  <2>2. prefix \o optional \in G
    BY <1>1, <2>1
  <2> QED
    BY <1>1, <2>2
<1>10. WithProtected(prefix, optional, t) =
        IF window.dropped = <<>> THEN windowed
        ELSE IF whole.found THEN whole.prompt
        ELSE IF left > Overhead + Slack /\ compact.found THEN compact.prompt
        ELSE windowed
  BY DEF WithProtected, window, fit, summary
<1> HIDE DEF whole, compact, left, windowed
<1>11. WithProtected(prefix, optional, t) \in G
  BY <1>5, <1>7, <1>8, <1>10
<1>12. BuildContext(prefix, optional, t) \in G
  BY <1>9, <1>11 DEF BuildContext
<1> QED
  BY <1>12 DEF A, G

(*------------------- the items of messages that are paired ----------------*)

Items == [kind : {"text", "call", "result"}, id : CallIds]

(* How a message is serialized: a result is one item; any other message is a
   text, or none, and calls, of which the named ones are those it makes. *)
Serial(x, m, named) ==
  /\ m.role = "tool" => x = <<Item("result", m.of)>>
  /\ m.role # "tool" => \A k \in DOMAIN x :
       \/ k = 1 /\ x[k].kind = "text"
       \/ x[k].kind = "call" /\ (x[k].id \in named => HasCalls(m) /\ x[k].id \in ToSet(m.calls))
  /\ HasCalls(m) => \A id \in ToSet(m.calls) : \E k \in DOMAIN x : x[k] = Item("call", id)

Together(items, i, j) == \A k \in i .. j : items[k].kind # "text"

(* From the calls of a message to a result behind it there is no text. *)
LEMMA CallToResult ==
  ASSUME NEW s \in Seq(Messages), NEW named, NEW x \in Seq(Seq(Items)), Len(x) = Len(s),
         \A i \in DOMAIN s : Serial(x[i], s[i], named),
         NEW all \in Seq(Items), NEW at, PlacesOf(at, x, all),
         NEW a \in 0 .. Len(s), NEW b \in DOMAIN s, Behind(s, a, b)
  PROVE  /\ at[b] \in 1 .. Len(all) /\ at[a] < at[b] /\ all[at[b]] = Item("result", s[b].of)
         /\ Together(all, at[a] + 1, at[b])
<1> DEFINE n == Len(s)
<1>1. /\ n \in Nat /\ DOMAIN s = 1 .. n /\ Len(x) = n /\ a \in 0 .. n /\ b \in 1 .. n
      /\ \A c \in 1 .. n : c \in 0 .. n /\ c - 1 \in 0 .. n
  OBVIOUS
<1> HIDE DEF n
<1>2. /\ at \in [0 .. n -> Nat] /\ at[0] = 0 /\ Len(all) = at[n]
      /\ \A i \in 1 .. n : at[i] = at[i - 1] + Len(x[i])
      /\ \A i \in 1 .. n : \A k \in 1 .. Len(x[i]) : all[at[i - 1] + k] = x[i][k]
      /\ \A m \in 1 .. Len(all) : \E i \in 1 .. n : at[i - 1] < m /\ m <= at[i]
      /\ \A i, j \in 0 .. n : i <= j => at[i] <= at[j]
  BY <1>1 DEF PlacesOf
<1>3. ASSUME NEW c \in a + 1 .. b
      PROVE  /\ c \in 1 .. n /\ at[c] = at[c - 1] + 1 /\ all[at[c]] = Item("result", s[c].of)
             /\ at[c - 1] \in Nat
  <2>1. c \in 1 .. n
    BY <1>1
  <2>2. s[c].role = "tool"
    BY DEF Behind
  <2>3. x[c] = <<Item("result", s[c].of)>>
    BY <1>1, <2>1, <2>2 DEF Serial
  <2>4. Len(x[c]) = 1 /\ x[c][1] = Item("result", s[c].of)
    BY <2>3
  <2>5. at[c - 1] \in Nat
    BY <1>1, <1>2, <2>1
  <2>6. at[c] = at[c - 1] + 1 /\ all[at[c - 1] + 1] = Item("result", s[c].of)
    <3>1. 1 \in 1 .. Len(x[c])
      BY <2>4
    <3> QED
      BY <1>2, <2>1, <2>4, <3>1
  <2> QED
    BY <2>1, <2>5, <2>6
<1>4. a < b /\ b \in a + 1 .. b /\ a <= b - 1
  BY <1>1 DEF Behind
<1>5. /\ at[b] \in Nat /\ at[a] \in Nat /\ at[n] \in Nat /\ at[b] <= at[n] /\ at[a] <= at[b - 1]
      /\ at[b] = at[b - 1] + 1 /\ at[b - 1] \in Nat
  <2>1. n \in 0 .. n /\ b \in 0 .. n /\ b - 1 \in 0 .. n /\ b <= n
    BY <1>1
  <2> QED
    BY <1>1, <1>2, <1>3, <1>4, <2>1
<1>6. ASSUME NEW l \in at[a] + 1 .. at[b] PROVE all[l].kind # "text"
  <2>1. l \in 1 .. Len(all) /\ at[a] < l /\ l <= at[b]
    <3> DEFINE p == at[a]
               q == at[b]
               e == Len(all)
    <3>1. p \in Nat /\ q \in Nat /\ e \in Nat /\ q <= e /\ l \in p + 1 .. q
      BY <1>2, <1>5
    <3> HIDE DEF p, q, e
    <3>2. l \in 1 .. e /\ p < l /\ l <= q
      BY <3>1
    <3> QED
      BY <3>2 DEF p, q, e
  <2>2. PICK c \in 1 .. n : at[c - 1] < l /\ l <= at[c]
    BY <1>2, <2>1
  <2>3. c - 1 \in 0 .. n /\ c \in 0 .. n /\ b \in 0 .. n /\ at[c] \in Nat /\ at[c - 1] \in Nat
    BY <1>1, <1>2
  <2>4. ~ (c <= a)
    <3>1. c <= a => at[c] <= at[a]
      BY <1>1, <1>2, <2>3
    <3> QED
      BY <1>5, <2>1, <2>2, <2>3, <3>1
  <2>5. ~ (b <= c - 1)
    <3> DEFINE p == at[b]
               q == at[c - 1]
    <3>1. b <= c - 1 => p <= q
      BY <1>1, <1>2, <2>3
    <3>2. p \in Nat /\ q \in Nat /\ q < l /\ l <= p /\ l \in Nat
      BY <1>5, <2>1, <2>2, <2>3
    <3> HIDE DEF p, q
    <3> QED
      BY <3>1, <3>2
  <2>6. c \in a + 1 .. b
    BY <1>1, <2>4, <2>5
  <2>7. at[c] = at[c - 1] + 1 /\ all[at[c]] = Item("result", s[c].of)
    BY <1>3, <2>6
  <2>8. l = at[c]
    <3> DEFINE p == at[c - 1]
               q == at[c]
    <3>1. p \in Nat /\ q \in Nat /\ q = p + 1 /\ p < l /\ l <= q /\ l \in Nat
      BY <2>1, <2>2, <2>3, <2>7
    <3> HIDE DEF p, q
    <3>2. l = q
      BY <3>1
    <3> QED
      BY <3>2 DEF q
  <2> QED
    BY <2>7, <2>8 DEF Item
<1>7. at[b] \in 1 .. Len(all) /\ at[a] < at[b]
  <2>1. Len(all) = at[n]
    BY <1>2
  <2> QED
    BY <1>5, <2>1
<1>8. all[at[b]] = Item("result", s[b].of)
  BY <1>3, <1>4
<1>9. Together(all, at[a] + 1, at[b])
  BY <1>6 DEF Together
<1> QED
  BY <1>7, <1>8, <1>9

(* Messages whose calls are answered are items whose calls are. *)
LEMMA ItemsPaired ==
  ASSUME NEW s \in Seq(Messages), NEW held, NEW named,
         ResultsFollow(held, s), CallsAreAnswered(s),
         NEW x \in Seq(Seq(Items)), Len(x) = Len(s),
         \A i \in DOMAIN s : Serial(x[i], s[i], named)
  PROVE  Paired([held |-> held, items |-> FlattenSeq(x)], named)
<1> DEFINE n == Len(s)
           all == FlattenSeq(x)
<1>1. /\ n \in Nat /\ DOMAIN s = 1 .. n /\ Len(x) = n /\ \A i \in 1 .. n : Len(x[i]) \in Nat
      /\ \A c \in 1 .. n : c \in 0 .. n /\ c - 1 \in 0 .. n /\ DOMAIN x[c] = 1 .. Len(x[c])
  OBVIOUS
<1>2. all \in Seq(Items)
  BY FlattenType
<1>3. PICK at : PlacesOf(at, x, all)
  BY FlattenPlaces
<1> HIDE DEF n, all
<1>4. /\ at \in [0 .. n -> Nat] /\ at[0] = 0 /\ Len(all) = at[n]
      /\ \A i \in 1 .. n : at[i] = at[i - 1] + Len(x[i])
      /\ \A i \in 1 .. n : \A k \in 1 .. Len(x[i]) : all[at[i - 1] + k] = x[i][k]
      /\ \A m \in 1 .. Len(all) : \E i \in 1 .. n : at[i - 1] < m /\ m <= at[i]
      /\ \A i, j \in 0 .. n : i <= j => at[i] <= at[j]
  BY <1>1, <1>3 DEF PlacesOf
<1>5. Len(all) \in Nat /\ DOMAIN all = 1 .. Len(all)
  BY <1>2
<1>6. ASSUME NEW l \in DOMAIN all
      PROVE  \E c \in 1 .. n : \E k \in 1 .. Len(x[c]) : l = at[c - 1] + k /\ all[l] = x[c][k]
  <2>1. PICK c \in 1 .. n : at[c - 1] < l /\ l <= at[c]
    BY <1>4, <1>5, <1>6
  <2>2. at[c] = at[c - 1] + Len(x[c]) /\ at[c - 1] \in Nat /\ Len(x[c]) \in Nat /\ l \in Nat
    <3>1. c - 1 \in 0 .. n /\ Len(x[c]) \in Nat
      BY <1>1
    <3>2. at[c - 1] \in Nat
      BY <1>4, <3>1
    <3>3. at[c] = at[c - 1] + Len(x[c])
      BY <1>4
    <3>4. l \in Nat
      BY <1>5, <1>6
    <3> QED
      BY <3>1, <3>2, <3>3, <3>4
  <2>3. l - at[c - 1] \in 1 .. Len(x[c]) /\ l = at[c - 1] + (l - at[c - 1])
    BY <2>1, <2>2
  <2>4. all[at[c - 1] + (l - at[c - 1])] = x[c][l - at[c - 1]]
    BY <1>4, <2>3
  <2> QED
    BY <2>3, <2>4
<1>7. \A a \in 0 .. n, b \in 1 .. n : Behind(s, a, b) =>
        /\ at[b] \in 1 .. Len(all) /\ at[a] < at[b] /\ all[at[b]] = Item("result", s[b].of)
        /\ Together(all, at[a] + 1, at[b])
  BY <1>1, <1>2, <1>3, CallToResult DEF n
<1>8. ASSUME NEW a \in 1 .. n, NEW b \in 1 .. n, Behind(s, a, b), s[a].role # "tool",
             NEW k \in 1 .. Len(x[a]), x[a][k].kind = "call"
      PROVE  /\ at[a - 1] + k \in 1 .. at[b] - 1 /\ all[at[a - 1] + k] = x[a][k]
             /\ Together(all, at[a - 1] + k, at[b])
  <2> DEFINE i == at[a - 1] + k
  <2>1. /\ at[a - 1] \in Nat /\ at[a] \in Nat /\ at[b] \in Nat /\ at[a] < at[b]
        /\ at[a] = at[a - 1] + Len(x[a]) /\ Together(all, at[a] + 1, at[b]) /\ Len(x[a]) \in Nat
    <3>1. a \in 0 .. n /\ a - 1 \in 0 .. n /\ b \in 0 .. n /\ Len(x[a]) \in Nat
      BY <1>1
    <3> QED
      BY <1>4, <1>7, <1>8, <3>1
  <2>2. i \in 1 .. at[b] - 1
    <3> DEFINE p == at[a - 1]
               q == at[b]
               e == Len(x[a])
    <3>1. p \in Nat /\ q \in Nat /\ e \in Nat /\ p + e < q /\ k \in 1 .. e
      BY <2>1
    <3> HIDE DEF p, q, e
    <3>2. p + k \in 1 .. q - 1
      BY <3>1
    <3> QED
      BY <3>2 DEF p, q
  <2>3. ASSUME NEW l \in i .. at[b] PROVE all[l].kind # "text"
    <3>1. CASE at[a] < l
      <4>1. l \in at[a] + 1 .. at[b]
        BY <2>1, <3>1
      <4> QED
        BY <2>1, <4>1 DEF Together
    <3>2. CASE ~ (at[a] < l)
      <4> DEFINE h == l - at[a - 1]
      <4>1. h \in 1 .. Len(x[a]) /\ l = at[a - 1] + h /\ k <= h
        <5> DEFINE p == at[a - 1]
                   q == at[b]
                   e == Len(x[a])
        <5>1. p \in Nat /\ q \in Nat /\ e \in Nat /\ l <= p + e /\ k \in 1 .. e /\ l \in p + k .. q
          BY <2>1, <3>2
        <5> HIDE DEF p, q, e
        <5>2. l - p \in 1 .. e /\ l = p + (l - p) /\ k <= l - p
          BY <5>1
        <5> QED
          BY <5>2 DEF p, e
      <4>2. all[l] = x[a][h]
        BY <1>4, <4>1
      <4>3. \/ h = 1 /\ x[a][h].kind = "text"
            \/ x[a][h].kind = "call"
        BY <1>1, <1>8, <4>1 DEF Serial
      <4>4. h = 1 => h = k
        BY <4>1
      <4> HIDE DEF h
      <4> QED
        BY <1>8, <4>2, <4>3, <4>4
    <3> QED
      BY <3>1, <3>2
  <2>4. all[i] = x[a][k]
    BY <1>4
  <2> HIDE DEF i
  <2> QED
    BY <2>2, <2>3, <2>4 DEF Together, i
<1>9. ASSUME NEW j \in DOMAIN all, all[j].kind = "result"
      PROVE  \/ all[j].id \in held /\ Together(all, 1, j)
             \/ \E i \in 1 .. j - 1 : all[i] = Item("call", all[j].id) /\ Together(all, i, j)
  <2>1. PICK b \in 1 .. n : \E k \in 1 .. Len(x[b]) : j = at[b - 1] + k /\ all[j] = x[b][k]
    BY <1>6, <1>9
  <2>2. PICK k \in 1 .. Len(x[b]) : j = at[b - 1] + k /\ all[j] = x[b][k]
    BY <2>1
  <2>3. s[b].role = "tool"
    <3>1. SUFFICES ASSUME s[b].role # "tool" PROVE FALSE
      OBVIOUS
    <3>2. x[b][k].kind = "text" \/ x[b][k].kind = "call"
      BY <1>1, <3>1 DEF Serial
    <3> QED
      BY <1>9, <2>2, <3>2
  <2>4. x[b] = <<Item("result", s[b].of)>>
    BY <1>1, <2>3 DEF Serial
  <2>5. Len(x[b]) = 1 /\ x[b][1] = Item("result", s[b].of)
    BY <2>4
  <2>6. k = 1 /\ j = at[b] /\ all[j] = Item("result", s[b].of)
    <3>1. k = 1
      BY <2>5
    <3>2. at[b] = at[b - 1] + 1
      BY <1>4, <2>5
    <3> QED
      BY <2>2, <2>5, <3>1, <3>2
  <2>7. all[j].id = s[b].of
    BY <2>6 DEF Item
  <2>8. CASE s[b].of \in held /\ Behind(s, 0, b)
    <3>1. 0 \in 0 .. n /\ at[0] + 1 = 1
      BY <1>1, <1>4
    <3> QED
      BY <1>7, <2>6, <2>7, <2>8, <3>1
  <2>9. CASE \E a \in DOMAIN s : HasCalls(s[a]) /\ s[b].of \in ToSet(s[a].calls) /\ Behind(s, a, b)
    <3>1. PICK a \in 1 .. n : HasCalls(s[a]) /\ s[b].of \in ToSet(s[a].calls) /\ Behind(s, a, b)
      BY <1>1, <2>9
    <3>2. PICK h \in 1 .. Len(x[a]) : x[a][h] = Item("call", s[b].of)
      <4>1. Serial(x[a], s[a], named) /\ DOMAIN x[a] = 1 .. Len(x[a])
        BY <1>1
      <4> QED
        BY <3>1, <4>1 DEF Serial
    <3>3. s[a].role # "tool" /\ x[a][h].kind = "call"
      BY <3>1, <3>2 DEF HasCalls, Item
    <3>4. /\ at[a - 1] + h \in 1 .. at[b] - 1 /\ all[at[a - 1] + h] = x[a][h]
          /\ Together(all, at[a - 1] + h, at[b])
      BY <1>8, <3>1, <3>3
    <3> QED
      BY <2>6, <2>7, <3>2, <3>4
  <2> QED
    BY <1>1, <2>3, <2>8, <2>9 DEF ResultsFollow
<1>10. ASSUME NEW id \in named, NEW i \in DOMAIN all, all[i] = Item("call", id)
       PROVE  \E j \in i + 1 .. Len(all) : all[j] = Item("result", id) /\ Together(all, i, j)
  <2>1. PICK a \in 1 .. n : \E k \in 1 .. Len(x[a]) : i = at[a - 1] + k /\ all[i] = x[a][k]
    BY <1>6, <1>10
  <2>2. PICK k \in 1 .. Len(x[a]) : i = at[a - 1] + k /\ all[i] = x[a][k]
    BY <2>1
  <2>3. x[a][k].kind = "call" /\ x[a][k].id = id
    BY <1>10, <2>2 DEF Item
  <2>4. s[a].role # "tool"
    <3>1. SUFFICES ASSUME s[a].role = "tool" PROVE FALSE
      OBVIOUS
    <3>2. x[a] = <<Item("result", s[a].of)>>
      BY <1>1, <3>1 DEF Serial
    <3>3. Len(x[a]) = 1 /\ x[a][1] = Item("result", s[a].of)
      BY <3>2
    <3>4. k = 1
      BY <3>3
    <3> QED
      BY <2>3, <3>3, <3>4 DEF Item
  <2>5. HasCalls(s[a]) /\ id \in ToSet(s[a].calls)
    BY <1>1, <2>3, <2>4 DEF Serial
  <2>6. PICK b \in 1 .. n : s[b].of = id /\ Behind(s, a, b)
    BY <1>1, <2>5 DEF CallsAreAnswered
  <2>7. /\ i \in 1 .. at[b] - 1 /\ Together(all, i, at[b])
    BY <1>8, <2>2, <2>3, <2>4, <2>6
  <2>8. at[b] \in 1 .. Len(all) /\ all[at[b]] = Item("result", id)
    BY <1>1, <1>7, <2>6
  <2>9. at[b] \in i + 1 .. Len(all)
    BY <1>5, <2>7, <2>8
  <2> QED
    BY <2>7, <2>8, <2>9
<1> DEFINE r == [held |-> held, items |-> all]
<1>11. r.held = held /\ r.items = all
  OBVIOUS
<1> HIDE DEF r
<1>12. Paired(r, named)
  BY <1>9, <1>10, <1>11 DEF Paired, Together
<1> QED
  BY <1>12 DEF r, all

(*-------------------------- requests of the families ----------------------*)

(* A closed sequence without some of its plain messages is closed. *)
LEMMA DroppedClosed ==
  ASSUME NEW s \in Seq(Messages), Closed(s), NEW x \in Seq(Seq(Messages)), Len(x) = Len(s),
         \A i \in DOMAIN s : x[i] = <<s[i]>> \/ (x[i] = <<>> /\ Plain(s[i]))
  PROVE  Closed(FlattenSeq(x))
<1> DEFINE n == Len(s)
           u == FlattenSeq(x)
<1>1. /\ n \in Nat /\ DOMAIN s = 1 .. n /\ Len(x) = n
      /\ \A c \in 1 .. n : c \in 0 .. n /\ c - 1 \in 0 .. n
  OBVIOUS
<1>2. u \in Seq(Messages)
  BY FlattenType
<1>3. PICK at : PlacesOf(at, x, u)
  BY FlattenPlaces
<1> HIDE DEF n, u
<1>4. /\ at \in [0 .. n -> Nat] /\ at[0] = 0 /\ Len(u) = at[n]
      /\ \A i \in 1 .. n : at[i] = at[i - 1] + Len(x[i])
      /\ \A i \in 1 .. n : \A k \in 1 .. Len(x[i]) : u[at[i - 1] + k] = x[i][k]
      /\ \A m \in 1 .. Len(u) : \E i \in 1 .. n : at[i - 1] < m /\ m <= at[i]
      /\ \A i, j \in 0 .. n : i <= j => at[i] <= at[j]
  BY <1>1, <1>3 DEF PlacesOf
<1>5. Len(u) \in Nat /\ DOMAIN u = 1 .. Len(u)
  BY <1>2
<1>6. ASSUME NEW c \in 1 .. n, x[c] # <<>>
      PROVE  at[c] = at[c - 1] + 1 /\ at[c] \in DOMAIN u /\ u[at[c]] = s[c]
  <2>1. Len(x[c]) = 1 /\ x[c][1] = s[c]
    <3>1. x[c] = <<s[c]>>
      BY <1>1, <1>6
    <3> QED
      BY <3>1
  <2>2. at[c] = at[c - 1] + 1 /\ at[c - 1] \in Nat
    <3>1. c - 1 \in 0 .. n
      BY <1>1
    <3>2. at[c - 1] \in Nat
      BY <1>4, <3>1
    <3>3. at[c] = at[c - 1] + Len(x[c])
      BY <1>4
    <3> QED
      BY <2>1, <3>2, <3>3
  <2>3. u[at[c - 1] + 1] = s[c]
    <3>1. 1 \in 1 .. Len(x[c])
      BY <2>1
    <3> QED
      BY <1>4, <2>1, <3>1
  <2>4. at[c] <= at[n]
    <3>1. c \in 0 .. n /\ n \in 0 .. n /\ c <= n
      BY <1>1
    <3> QED
      BY <1>4, <3>1
  <2>5. at[c] \in DOMAIN u
    <3> DEFINE p == at[c - 1]
               q == at[n]
    <3>1. p \in Nat /\ q \in Nat /\ p + 1 <= q /\ Len(u) = q
      BY <1>4, <1>5, <2>2, <2>4
    <3> HIDE DEF p, q
    <3>2. p + 1 \in 1 .. q
      BY <3>1
    <3> QED
      BY <1>5, <2>2, <3>1, <3>2 DEF p, q
  <2> QED
    BY <2>2, <2>3, <2>5
<1>7. ASSUME NEW j \in DOMAIN u PROVE \E c \in 1 .. n : x[c] # <<>> /\ at[c] = j /\ u[j] = s[c]
  <2>1. PICK c \in 1 .. n : at[c - 1] < j /\ j <= at[c]
    BY <1>4, <1>5
  <2>2. at[c - 1] \in Nat /\ j \in Nat /\ at[c] = at[c - 1] + Len(x[c])
    <3>1. c - 1 \in 0 .. n
      BY <1>1
    <3>2. at[c - 1] \in Nat
      BY <1>4, <3>1
    <3> QED
      BY <1>4, <1>5, <3>2
  <2>3. x[c] # <<>>
    <3>1. SUFFICES ASSUME x[c] = <<>> PROVE FALSE
      OBVIOUS
    <3>2. Len(x[c]) = 0
      BY <3>1
    <3> QED
      BY <2>1, <2>2, <3>2
  <2>4. at[c] = at[c - 1] + 1 /\ u[at[c]] = s[c]
    BY <1>6, <2>3
  <2>5. at[c] = j
    BY <2>1, <2>2, <2>4
  <2> QED
    BY <2>3, <2>4, <2>5
<1>8. \A c \in 1 .. n : ~ Plain(s[c]) => x[c] # <<>>
  <2> TAKE c \in 1 .. n
  <2> HAVE ~ Plain(s[c])
  <2>1. x[c] = <<s[c]>>
    BY <1>1
  <2> QED
    BY <2>1
<1>9. ASSUME NEW a \in 1 .. n, NEW b \in 1 .. n, Behind(s, a, b) PROVE Behind(u, at[a], at[b])
  <2>1. a < b /\ b \in a + 1 .. b /\ a <= b - 1 /\ a \in 0 .. n /\ b \in 0 .. n /\ b - 1 \in 0 .. n
    BY <1>1, <1>9 DEF Behind
  <2>2. \A c \in a + 1 .. b : c \in 1 .. n /\ s[c].role = "tool" /\ x[c] # <<>>
    <3> TAKE c \in a + 1 .. b
    <3>1. c \in 1 .. n /\ s[c].role = "tool"
      BY <1>1, <1>9 DEF Behind
    <3> QED
      BY <1>8, <3>1 DEF Plain
  <2>3. at[b] = at[b - 1] + 1 /\ at[a] <= at[b - 1] /\ at[a] \in Nat /\ at[b - 1] \in Nat /\ at[b] \in Nat
    <3>1. at[b] = at[b - 1] + 1
      BY <1>6, <2>1, <2>2
    <3>2. at[a] <= at[b - 1]
      BY <1>4, <2>1
    <3>3. at[a] \in Nat /\ at[b] \in Nat /\ at[b - 1] \in Nat
      BY <1>4, <2>1
    <3> QED
      BY <3>1, <3>2, <3>3
  <2>4. at[a] < at[b]
    BY <2>3
  <2>5. ASSUME NEW l \in at[a] + 1 .. at[b] PROVE u[l].role = "tool"
    <3>1. l \in DOMAIN u
      <4>1. at[b] \in DOMAIN u
        BY <1>6, <2>1, <2>2
      <4> DEFINE p == at[a]
                 q == at[b]
      <4>2. p \in Nat /\ q \in 1 .. Len(u) /\ l \in p + 1 .. q
        BY <1>5, <2>3, <4>1
      <4> HIDE DEF p, q
      <4>3. l \in 1 .. Len(u)
        BY <1>5, <4>2
      <4> QED
        BY <1>5, <4>3
    <3>2. PICK c \in 1 .. n : x[c] # <<>> /\ at[c] = l /\ u[l] = s[c]
      BY <1>7, <3>1
    <3>3. c \in 0 .. n /\ at[c] \in Nat
      BY <1>1, <1>4
    <3>4. ~ (c <= a)
      <4>1. c <= a => at[c] <= at[a]
        BY <1>4, <2>1, <3>3
      <4> DEFINE p == at[a]
      <4>2. p \in Nat /\ l \in Nat /\ p < l /\ (c <= a => l <= p)
        BY <2>3, <2>5, <3>2, <3>3, <4>1
      <4> HIDE DEF p
      <4> QED
        BY <4>2
    <3>5. c <= b
      <4>1. SUFFICES ASSUME b < c PROVE FALSE
        BY <1>1
      <4>2. c - 1 \in 0 .. n /\ b <= c - 1
        BY <1>1, <4>1
      <4>3. at[b] <= at[c - 1] /\ at[c - 1] \in Nat
        BY <1>4, <2>1, <4>2
      <4>4. at[c] = at[c - 1] + 1
        BY <1>6, <3>2
      <4> DEFINE p == at[b]
                 q == at[c - 1]
      <4>5. p \in Nat /\ q \in Nat /\ l <= p /\ l = q + 1 /\ p <= q
        BY <2>3, <2>5, <3>2, <4>3, <4>4
      <4> HIDE DEF p, q
      <4> QED
        BY <4>5
    <3>6. c \in a + 1 .. b
      BY <1>1, <3>4, <3>5
    <3> QED
      BY <2>2, <3>2, <3>6
  <2> QED
    BY <2>4, <2>5 DEF Behind
<1>10. ResultsFollow({}, u)
  <2>1. ASSUME NEW j \in DOMAIN u, u[j].role = "tool"
        PROVE  \E i \in DOMAIN u : HasCalls(u[i]) /\ u[j].of \in ToSet(u[i].calls) /\ Behind(u, i, j)
    <3>1. PICK b \in 1 .. n : x[b] # <<>> /\ at[b] = j /\ u[j] = s[b]
      BY <1>7
    <3>2. PICK a \in 1 .. n : HasCalls(s[a]) /\ s[b].of \in ToSet(s[a].calls) /\ Behind(s, a, b)
      BY <1>1, <2>1, <3>1 DEF Closed, ResultsFollow
    <3>3. at[a] \in DOMAIN u /\ u[at[a]] = s[a]
      BY <1>6, <1>8, <3>2 DEF Plain
    <3> QED
      BY <1>9, <3>1, <3>2, <3>3
  <2> QED
    BY <2>1 DEF ResultsFollow
<1>11. CallsAreAnswered(u)
  <2>1. ASSUME NEW i \in DOMAIN u, HasCalls(u[i]), NEW id \in ToSet(u[i].calls)
        PROVE  \E j \in DOMAIN u : u[j].of = id /\ Behind(u, i, j)
    <3>1. PICK a \in 1 .. n : x[a] # <<>> /\ at[a] = i /\ u[i] = s[a]
      BY <1>7
    <3>2. PICK b \in 1 .. n : s[b].of = id /\ Behind(s, a, b)
      BY <1>1, <2>1, <3>1 DEF Closed, CallsAreAnswered
    <3>3. b \in a + 1 .. b
      BY <1>1, <3>2 DEF Behind
    <3>4. at[b] \in DOMAIN u /\ u[at[b]] = s[b]
      BY <1>6, <1>8, <3>2, <3>3 DEF Plain, Behind
    <3> QED
      BY <1>9, <3>1, <3>2, <3>4
  <2> QED
    BY <2>1 DEF CallsAreAnswered
<1> QED
  BY <1>10, <1>11 DEF Closed, u

LEMMA SystemFirstKept ==
  ASSUME NEW A \in SUBSET Messages, Texts \subseteq A, NEW p \in ClosedOver(A)
  PROVE  SystemFirst(p) \in ClosedOver(A)
<1> DEFINE x == [i \in DOMAIN p |-> IF p[i].role # "system" THEN <<p[i]>> ELSE <<>>]
           others == FlattenSeq(x)
           first == Message("system", <<>>, NoCall, 0)
<1>1. p \in Seq(A) /\ p \in Seq(Messages) /\ Closed(p) /\ \A i \in DOMAIN p : p[i] \in A
  <2>1. p \in Seq(A) /\ Closed(p)
    BY DEF ClosedOver
  <2> QED
    BY <2>1
<1>2. x \in Seq(Seq(A)) /\ x \in Seq(Seq(Messages)) /\ Len(x) = Len(p) /\ DOMAIN x = DOMAIN p
  <2>1. \A i \in DOMAIN p : x[i] \in Seq(A) /\ x[i] \in Seq(Messages)
    BY <1>1
  <2>2. Len(p) \in Nat /\ DOMAIN p = 1 .. Len(p)
    BY <1>1
  <2>3. x \in [1 .. Len(p) -> Seq(A)] /\ x \in [1 .. Len(p) -> Seq(Messages)]
    BY <2>1, <2>2
  <2> HIDE DEF x
  <2> QED
    BY <2>2, <2>3
<1>3. others \in ClosedOver(A)
  <2>1. \A i \in DOMAIN p : x[i] = <<p[i]>> \/ (x[i] = <<>> /\ Plain(p[i]))
    BY DEF Plain, HasCalls
  <2> HIDE DEF x
  <2>2. Closed(FlattenSeq(x))
    BY <1>1, <1>2, <2>1, DroppedClosed
  <2>3. FlattenSeq(x) \in Seq(A)
    BY <1>2, FlattenType
  <2> QED
    BY <2>2, <2>3 DEF ClosedOver
<1>4. <<first>> \in ClosedOver(A)
  <2>1. first \in Texts
    BY TextType DEF Roles
  <2> HIDE DEF first
  <2>2. <<first>> \in Seq(Texts)
    BY <2>1
  <2> QED
    BY <2>2, ClosedOverAll
<1>5. SystemFirst(p) = IF Len(others) = Len(p) THEN p ELSE <<first>> \o others
  BY DEF SystemFirst, Filtered, Each
<1> HIDE DEF others, first
<1>6. <<first>> \o others \in ClosedOver(A)
  BY <1>3, <1>4, ClosedOverAll
<1> QED
  BY <1>5, <1>6

(* Only an assistant makes calls, and the service sent those it makes. *)
Carries(m) ==
  /\ m.role # "assistant" => m.calls = <<>> /\ m.sent = <<>> /\ m.response = FALSE
  /\ ToSet(m.calls) \subseteq ToSet(m.sent)

(* A call another message makes was not sent with this one, unless this one
   makes it too. *)
Coherence(A) ==
  /\ \A m \in A : Carries(m)
  /\ \A m, l \in A : ToSet(m.sent) \cap ToSet(l.calls) \subseteq ToSet(m.calls)

CallsOf(p) == UNION {ToSet(m.calls) : m \in ToSet(p)}

(* A message that is no result: its calls, behind a text or alone. *)
LEMMA SerialCalls ==
  ASSUME NEW m \in Messages, m.role # "tool", NEW ids \in Seq(CallIds), NEW named,
         \A id \in ToSet(ids) : id \in named => HasCalls(m) /\ id \in ToSet(m.calls),
         ToSet(m.calls) \subseteq ToSet(ids)
  PROVE  /\ CallItems(ids) \in Seq(Items) /\ Serial(CallItems(ids), m, named)
         /\ Text \o CallItems(ids) \in Seq(Items) /\ Serial(Text \o CallItems(ids), m, named)
<1> DEFINE n == Len(ids)
           y == CallItems(ids)
           u == Text \o y
<1>1. /\ n \in Nat /\ DOMAIN ids = 1 .. n /\ \A k \in 1 .. n : ids[k] \in CallIds /\ ids[k] \in ToSet(ids)
      /\ \A id \in ToSet(ids) : \E k \in 1 .. n : ids[k] = id
  BY DEF ToSet
<1>2. \A id \in CallIds : Item("call", id) \in Items
  BY DEF Item, Items
<1>3. /\ y \in Seq(Items) /\ Len(y) = n /\ DOMAIN y = 1 .. n
      /\ \A k \in 1 .. n : y[k] = Item("call", ids[k])
  <2>1. y = [k \in 1 .. n |-> Item("call", ids[k])]
    BY <1>1 DEF CallItems
  <2>2. y \in [1 .. n -> Items]
    BY <1>1, <1>2, <2>1
  <2> HIDE DEF y, n
  <2> QED
    BY <1>1, <2>1, <2>2
<1>4. /\ Text \in Seq(Items) /\ Len(Text) = 1 /\ Text[1] = Item("text", NoCall)
      /\ Item("text", NoCall) \in Items
  <2>1. Item("text", NoCall) \in Items
    BY DEF Item, Items, NoCall, CallIds
  <2> QED
    BY <2>1 DEF Text
<1> HIDE DEF y, n
<1>5. /\ u \in Seq(Items) /\ Len(u) = n + 1 /\ DOMAIN u = 1 .. n + 1
      /\ u[1] = Item("text", NoCall) /\ \A k \in 1 .. n : u[k + 1] = y[k]
  <2>1. /\ u \in Seq(Items) /\ Len(u) = Len(Text) + Len(y)
        /\ \A k \in 1 .. Len(Text) + Len(y) : u[k] = IF k <= Len(Text) THEN Text[k] ELSE y[k - Len(Text)]
    BY <1>3, <1>4, ConcatProperties
  <2> HIDE DEF u
  <2>2. Len(u) = n + 1 /\ \A k \in 1 .. n + 1 : u[k] = IF k <= 1 THEN Text[k] ELSE y[k - 1]
    <3>1. Len(Text) + Len(y) = n + 1
      BY <1>1, <1>3, <1>4
    <3> QED
      BY <1>4, <2>1, <3>1
  <2>3. 1 \in 1 .. n + 1 /\ \A k \in 1 .. n : k + 1 \in 1 .. n + 1 /\ ~ (k + 1 <= 1) /\ (k + 1) - 1 = k
    BY <1>1
  <2>4. DOMAIN u = 1 .. n + 1
    BY <2>1, <2>2
  <2> QED
    BY <1>4, <2>1, <2>2, <2>3, <2>4
<1> HIDE DEF u
<1>6. \A id : Item("call", id).kind = "call" /\ Item("call", id).id = id /\ Item("text", id).kind = "text"
  BY DEF Item
<1>7. \A id \in ToSet(m.calls) : \E k \in 1 .. n : ids[k] = id
  BY <1>1
<1>8. Serial(y, m, named)
  <2>1. \A k \in 1 .. n :
          y[k].kind = "call" /\ (y[k].id \in named => HasCalls(m) /\ y[k].id \in ToSet(m.calls))
    BY <1>1, <1>3, <1>6
  <2>2. \A id \in ToSet(m.calls) : \E k \in 1 .. n : y[k] = Item("call", id)
    BY <1>3, <1>7
  <2> QED
    BY <1>3, <2>1, <2>2 DEF Serial
<1>9. Serial(u, m, named)
  <2>1. ASSUME NEW k \in 1 .. n + 1
        PROVE  \/ k = 1 /\ u[k].kind = "text"
               \/ u[k].kind = "call" /\ (u[k].id \in named => HasCalls(m) /\ u[k].id \in ToSet(m.calls))
    <3>1. CASE k = 1
      BY <1>5, <1>6, <3>1
    <3>2. CASE k # 1
      <4>1. k - 1 \in 1 .. n /\ (k - 1) + 1 = k
        BY <1>1, <3>2
      <4>2. u[k] = Item("call", ids[k - 1])
        <5>1. u[(k - 1) + 1] = y[k - 1] /\ y[k - 1] = Item("call", ids[k - 1])
          BY <1>3, <1>5, <4>1
        <5> QED
          BY <4>1, <5>1
      <4> QED
        BY <1>1, <1>6, <4>1, <4>2
    <3> QED
      BY <3>1, <3>2
  <2>2. \A id \in ToSet(m.calls) : \E k \in 1 .. n + 1 : u[k] = Item("call", id)
    <3> TAKE id \in ToSet(m.calls)
    <3>1. PICK k \in 1 .. n : ids[k] = id
      BY <1>7
    <3>2. k + 1 \in 1 .. n + 1 /\ u[k + 1] = Item("call", id)
      BY <1>1, <1>3, <1>5, <3>1
    <3> QED
      BY <3>2
  <2> QED
    BY <1>5, <2>1, <2>2 DEF Serial
<1> QED
  BY <1>3, <1>5, <1>8, <1>9 DEF y, u

LEMMA SerialResult ==
  ASSUME NEW m \in Messages, m.role = "tool", NEW named
  PROVE  <<Item("result", m.of)>> \in Seq(Items) /\ Serial(<<Item("result", m.of)>>, m, named)
<1>1. Item("result", m.of) \in Items
  BY DEF Item, Items, Messages
<1> QED
  BY <1>1 DEF Serial, HasCalls

(* A message that makes no calls: a text, or nothing. *)
LEMMA SerialPlain ==
  ASSUME NEW m \in Messages, Plain(m), NEW named
  PROVE  /\ Text \in Seq(Items) /\ Serial(Text, m, named)
         /\ <<>> \in Seq(Items) /\ Serial(<<>>, m, named)
<1>1. Item("text", NoCall) \in Items /\ Item("text", NoCall).kind = "text"
  BY DEF Item, Items, NoCall, CallIds
<1>2. /\ Text \in Seq(Items) /\ DOMAIN Text = 1 .. 1 /\ \A k \in 1 .. 1 : k = 1
      /\ Text[1].kind = "text"
  BY <1>1 DEF Text
<1>3. Serial(Text, m, named)
  BY <1>2 DEF Serial, Plain
<1>4. Serial(<<>>, m, named)
  BY DEF Serial, Plain
<1> QED
  BY <1>2, <1>3, <1>4

LEMMA MessageParts ==
  ASSUME NEW m \in Messages, Carries(m)
  PROVE  /\ m.calls \in Seq(CallIds) /\ m.sent \in Seq(CallIds) /\ m.role \in Roles
         /\ \A id \in ToSet(m.calls) : HasCalls(m)
         /\ (m.role \in {"system", "user"} => Plain(m))
<1>1. m.calls \in Seq(CallIds) /\ m.sent \in Seq(CallIds) /\ m.role \in Roles
  BY DEF Messages
<1>2. ASSUME NEW id \in ToSet(m.calls) PROVE HasCalls(m)
  <2>1. m.calls # <<>>
    BY <1>2 DEF ToSet
  <2> QED
    BY <2>1 DEF Carries, HasCalls
<1> QED
  BY <1>1, <1>2 DEF Plain, HasCalls

LEMMA MessagesItemSerial ==
  ASSUME NEW m \in Messages, Carries(m), NEW named
  PROVE  MessagesItem(m) \in Seq(Items) /\ Serial(MessagesItem(m), m, named)
<1>1. /\ m.calls \in Seq(CallIds) /\ m.role \in Roles /\ \A id \in ToSet(m.calls) : HasCalls(m)
      /\ (m.role \in {"system", "user"} => Plain(m))
  BY MessageParts
<1>2. CASE m.role = "system"
  <2>1. MessagesItem(m) = <<>>
    BY <1>2 DEF MessagesItem
  <2> QED
    BY <1>1, <1>2, <2>1, SerialPlain
<1>3. CASE m.role = "user"
  <2>1. MessagesItem(m) = Text
    BY <1>3 DEF MessagesItem
  <2> QED
    BY <1>1, <1>3, <2>1, SerialPlain
<1>4. CASE m.role = "tool"
  <2>1. MessagesItem(m) = <<Item("result", m.of)>>
    BY <1>4 DEF MessagesItem
  <2> QED
    BY <1>4, <2>1, SerialResult
<1>5. CASE m.role = "assistant"
  <2>1. MessagesItem(m) \in {CallItems(m.calls), Text \o CallItems(m.calls)}
    BY <1>5 DEF MessagesItem
  <2> QED
    BY <1>1, <1>5, <2>1, SerialCalls
<1> QED
  BY <1>1, <1>2, <1>3, <1>4, <1>5 DEF Roles

LEMMA ChatMessageSerial ==
  ASSUME NEW m \in Messages, Carries(m), NEW named
  PROVE  ChatMessage(m) \in Seq(Items) /\ Serial(ChatMessage(m), m, named)
<1>1. m.calls \in Seq(CallIds) /\ \A id \in ToSet(m.calls) : HasCalls(m)
  BY MessageParts
<1>2. CASE m.role = "tool"
  <2>1. ChatMessage(m) = <<Item("result", m.of)>>
    BY <1>2 DEF ChatMessage
  <2> QED
    BY <1>2, <2>1, SerialResult
<1>3. CASE m.role # "tool"
  <2>1. ChatMessage(m) = Text \o CallItems(m.calls)
    BY <1>3 DEF ChatMessage
  <2> QED
    BY <1>1, <1>3, <2>1, SerialCalls
<1> QED
  BY <1>2, <1>3

LEMMA InputItemSerial ==
  ASSUME NEW m \in Messages, Carries(m), NEW named,
         ToSet(m.sent) \cap named \subseteq ToSet(m.calls)
  PROVE  InputItem(m) \in Seq(Items) /\ Serial(InputItem(m), m, named)
<1>1. /\ m.sent \in Seq(CallIds) /\ m.role \in Roles /\ \A id \in ToSet(m.calls) : HasCalls(m)
      /\ (m.role \in {"system", "user"} => Plain(m))
  BY MessageParts
<1>2. CASE m.role = "system"
  <2>1. InputItem(m) = <<>>
    BY <1>2 DEF InputItem
  <2> QED
    BY <1>1, <1>2, <2>1, SerialPlain
<1>3. CASE m.role = "user"
  <2>1. InputItem(m) = Text
    BY <1>3 DEF InputItem
  <2> QED
    BY <1>1, <1>3, <2>1, SerialPlain
<1>4. CASE m.role = "tool"
  <2>1. InputItem(m) = <<Item("result", m.of)>>
    BY <1>4 DEF InputItem
  <2> QED
    BY <1>4, <2>1, SerialResult
<1>5. CASE m.role = "assistant"
  <2>1. InputItem(m) \in {CallItems(m.sent), Text \o CallItems(m.sent)}
    BY <1>5 DEF InputItem
  <2>2. ToSet(m.calls) \subseteq ToSet(m.sent)
    BY DEF Carries
  <2> QED
    BY <1>1, <1>5, <2>1, <2>2, SerialCalls
<1> QED
  BY <1>1, <1>2, <1>3, <1>4, <1>5 DEF Roles

(* What is sent behind a response the service holds. *)
LEMMA SinceClosed ==
  ASSUME NEW q \in Seq(Messages), Closed(q), \A i \in DOMAIN q : Carries(q[i]), NEW stored \in BOOLEAN
  PROVE  LET since == InputSince(q, stored)
         IN /\ since.messages \in Seq(Messages)
            /\ \A i \in DOMAIN since.messages : \E k \in DOMAIN q : since.messages[i] = q[k]
            /\ ResultsFollow(since.held, since.messages) /\ CallsAreAnswered(since.messages)
<1> DEFINE own == {i \in DOMAIN q : stored /\ q[i].response}
           since == InputSince(q, stored)
           n == Len(q)
<1>1. n \in Nat /\ DOMAIN q = 1 .. n
  OBVIOUS
<1> HIDE DEF n
<1>2. CASE own = {}
  <2>1. since = [held |-> {}, messages |-> q]
    BY <1>2 DEF InputSince
  <2>2. since.held = {} /\ since.messages = q
    BY <2>1
  <2> HIDE DEF since
  <2>3. \A i \in DOMAIN q : \E k \in DOMAIN q : q[i] = q[k]
    OBVIOUS
  <2> QED
    BY <2>2, <2>3 DEF Closed, since
<1>3. CASE own # {}
  <2> DEFINE L == Largest(own)
             u == SubSeq(q, L + 1, n)
             m == n - L
  <2>1. since = [held |-> ToSet(q[L].sent), messages |-> u]
    BY <1>3 DEF InputSince, n
  <2>2. L \in 1 .. n /\ q[L].response
    <3>1. own \in SUBSET Nat /\ \A i \in own : i <= n
      BY <1>1
    <3>2. L \in own
      <4> HIDE DEF own
      <4> QED
        BY <1>1, <1>3, <3>1, LargestIn
    <3> HIDE DEF L
    <3> QED
      BY <1>1, <3>2
  <2> HIDE DEF L, own
  <2>3. /\ m \in Nat /\ u \in Seq(Messages) /\ Len(u) = m /\ DOMAIN u = 1 .. m /\ L + m = n
        /\ \A k \in 1 .. m : q[L + k] = u[k] /\ L + k \in 1 .. n
    <3>1. L + 1 \in 1 .. n + 1 /\ m \in Nat /\ L + m = n /\ \A k \in 1 .. m : L + k \in 1 .. n
      BY <1>1, <2>2
    <3> DEFINE a == L + 1
    <3>2. /\ a \in 1 .. n + 1 /\ n - a + 1 = m /\ (a <= n \/ m = 0)
          /\ \A k \in 1 .. m : a + k - 1 = L + k
      BY <1>1, <2>2
    <3>3. \A k \in a .. n : q[k] \in Messages
      BY <1>1, <3>2
    <3> HIDE DEF a
    <3>4. /\ u \in Seq(Messages) /\ Len(u) = IF a <= n THEN n - a + 1 ELSE 0
          /\ \A k \in 1 .. n - a + 1 : u[k] = q[a + k - 1]
      BY <1>1, <3>2, <3>3, SubSeqProperties DEF n, a
    <3>5. Len(u) = m /\ \A k \in 1 .. m : u[k] = q[L + k]
      <4> HIDE DEF u, m
      <4> QED
        BY <3>2, <3>4
    <3>6. Len(u) = m /\ DOMAIN u = 1 .. m
      <4> HIDE DEF u
      <4> QED
        BY <3>4, <3>5
    <3>7. \A k \in 1 .. m : q[L + k] = u[k] /\ L + k \in 1 .. n
      BY <3>1, <3>5
    <3> HIDE DEF u, m
    <3> QED
      BY <3>1, <3>4, <3>6, <3>7
  <2> HIDE DEF u, m
  <2>4. \A i \in 0 .. m, j \in 0 .. m : Behind(u, i, j) <=> Behind(q, L + i, L + j)
    BY <2>2, <2>3, BehindShifted
  <2>5. q[L].role = "assistant"
    BY <1>1, <2>2 DEF Carries
  <2>6. ToSet(q[L].calls) \subseteq ToSet(q[L].sent)
    BY <1>1, <2>2 DEF Carries
  <2> DEFINE held == ToSet(q[L].sent)
  <2>7. ASSUME NEW j \in 1 .. m, u[j].role = "tool"
        PROVE  \/ u[j].of \in held /\ Behind(u, 0, j)
               \/ \E i \in 1 .. m : HasCalls(u[i]) /\ u[j].of \in ToSet(u[i].calls) /\ Behind(u, i, j)
    <3>1. L + j \in 1 .. n /\ q[L + j] = u[j]
      BY <2>3
    <3>2. PICK l \in 1 .. n :
            HasCalls(q[l]) /\ q[L + j].of \in ToSet(q[l].calls) /\ Behind(q, l, L + j)
      BY <1>1, <2>7, <3>1 DEF Closed, ResultsFollow
    <3>3. ~ (l < L)
      <4>1. SUFFICES ASSUME l < L PROVE FALSE
        OBVIOUS
      <4>2. L \in l + 1 .. L + j
        BY <2>2, <4>1
      <4> QED
        BY <2>5, <3>2, <4>2 DEF Behind
    <3>4. l < L + j
      BY <3>2 DEF Behind
    <3>5. CASE l = L
      <4>1. 0 \in 0 .. m /\ j \in 0 .. m /\ L + 0 = L
        BY <2>2, <2>3
      <4> QED
        BY <2>4, <2>6, <3>1, <3>2, <3>5, <4>1
    <3>6. CASE l # L
      <4> DEFINE i == l - L
      <4>1. i \in 1 .. m /\ i \in 0 .. m /\ j \in 0 .. m /\ L + i = l
        BY <2>2, <2>3, <3>3, <3>4, <3>6
      <4>2. u[i] = q[l] /\ Behind(u, i, j)
        BY <2>3, <2>4, <3>2, <4>1
      <4> QED
        BY <3>1, <3>2, <4>1, <4>2
    <3> QED
      BY <3>5, <3>6
  <2>8. ASSUME NEW i \in 1 .. m, HasCalls(u[i]), NEW id \in ToSet(u[i].calls)
        PROVE  \E j \in 1 .. m : u[j].of = id /\ Behind(u, i, j)
    <3>1. L + i \in 1 .. n /\ q[L + i] = u[i]
      BY <2>3
    <3>2. PICK l \in 1 .. n : q[l].of = id /\ Behind(q, L + i, l)
      BY <1>1, <2>8, <3>1 DEF Closed, CallsAreAnswered
    <3>3. L + i < l
      BY <3>2 DEF Behind
    <3> DEFINE j == l - L
    <3>4. j \in 1 .. m /\ j \in 0 .. m /\ i \in 0 .. m /\ L + j = l
      BY <1>1, <2>2, <2>3, <3>3
    <3>5. u[j] = q[l] /\ Behind(u, i, j)
      BY <2>3, <2>4, <3>2, <3>4
    <3> QED
      BY <3>2, <3>4, <3>5
  <2>9. ResultsFollow(held, u) /\ CallsAreAnswered(u)
    BY <2>3, <2>7, <2>8 DEF ResultsFollow, CallsAreAnswered
  <2>10. since.held = held /\ since.messages = u
    BY <2>1
  <2> HIDE DEF since, held
  <2>11. \A i \in DOMAIN u : \E k \in DOMAIN q : u[i] = q[k]
    BY <1>1, <2>3
  <2> QED
    BY <2>3, <2>9, <2>10, <2>11 DEF since
<1> QED
  BY <1>2, <1>3

(* What SanitizeTranscript keeps of a group. *)
Answering(g) ==
  FlattenSeq([k \in DOMAIN Tail(g) |->
                IF Contains(g[1].calls, Tail(g)[k].of) THEN <<Tail(g)[k]>> ELSE <<>>])

Sanitized(g) ==
  IF g[1].role = "tool" THEN <<>>
  ELSE IF ~ HasCalls(g[1]) THEN g
  ELSE IF ToSet(g[1].calls) \subseteq {m.of : m \in ToSet(Answering(g))}
       THEN <<g[1]>> \o Answering(g) ELSE <<>>

LEMMA SanitizedGroups ==
  ASSUME NEW q
  PROVE  SanitizeTranscript(q) = FlattenSeq([i \in DOMAIN Groups(q) |-> Sanitized(Groups(q)[i])])
  BY DEF SanitizeTranscript, Sanitized, Answering, Filtered, Each

LEMMA AnsweringType ==
  ASSUME NEW A \in SUBSET Messages, NEW g \in Shaped(A)
  PROVE  Answering(g) \in Seq({m \in A : m.role = "tool" /\ m.of \in ToSet(g[1].calls)})
<1> DEFINE R == {m \in A : m.role = "tool" /\ m.of \in ToSet(g[1].calls)}
           t == Tail(g)
           x == [k \in DOMAIN t |-> IF Contains(g[1].calls, t[k].of) THEN <<t[k]>> ELSE <<>>]
<1>1. g \in Seq(A) /\ g # <<>> /\ \A k \in 2 .. Len(g) : g[k].role = "tool"
  BY DEF Shaped
<1>2. /\ t \in Seq(A) /\ Len(t) \in Nat /\ DOMAIN t = 1 .. Len(t)
      /\ \A k \in 1 .. Len(t) : t[k] \in A /\ t[k].role = "tool"
  <2>1. /\ t \in Seq(A) /\ Len(t) = Len(g) - 1 /\ \A k \in 1 .. Len(t) : t[k] = g[k + 1]
    BY <1>1, HeadTailProperties
  <2>2. Len(g) \in Nat /\ Len(t) \in Nat /\ \A k \in 1 .. Len(g) - 1 : k + 1 \in 2 .. Len(g)
    BY <1>1, <2>1
  <2> HIDE DEF t
  <2> QED
    BY <1>1, <2>1, <2>2
<1> HIDE DEF t
<1>3. \A k \in DOMAIN t : Contains(g[1].calls, t[k].of) => t[k].of \in ToSet(g[1].calls)
  <2> TAKE k \in DOMAIN t
  <2> HAVE Contains(g[1].calls, t[k].of)
  <2> DEFINE c == g[1].calls
             e == t[k].of
  <2>1. 1 \in DOMAIN g /\ g[1] \in Messages
    <3>1. Len(g) \in Nat /\ Len(g) # 0
      BY <1>1, EmptySeq
    <3> QED
      BY <1>1, <3>1
  <2>2. c \in Seq(CallIds)
    BY <2>1 DEF Messages
  <2> HIDE DEF c, e
  <2>3. e \in ToSet(c)
    <3>1. Contains(c, e)
      BY DEF c, e
    <3> QED
      BY <2>2, <3>1 DEF Contains, ToSet
  <2> QED
    BY <2>3 DEF c, e
<1>4. \A k \in DOMAIN t : x[k] \in Seq(R)
  <2> TAKE k \in DOMAIN t
  <2>1. CASE Contains(g[1].calls, t[k].of)
    <3>1. t[k] \in R /\ x[k] = <<t[k]>>
      BY <1>2, <1>3, <2>1
    <3> HIDE DEF R, x
    <3> QED
      BY <3>1
  <2>2. CASE ~ Contains(g[1].calls, t[k].of)
    <3>1. x[k] = <<>>
      BY <2>2
    <3> HIDE DEF R, x
    <3> QED
      BY <3>1
  <2> QED
    BY <2>1, <2>2
<1>5. x \in Seq(Seq(R))
  <2>1. x \in [1 .. Len(t) -> Seq(R)]
    <3> HIDE DEF R
    <3> QED
      BY <1>2, <1>4
  <2> HIDE DEF x, R
  <2> QED
    BY <1>2, <2>1
<1> HIDE DEF x, R
<1>6. FlattenSeq(x) \in Seq(R)
  BY <1>5, FlattenType
<1> QED
  BY <1>6 DEF x, t, R, Answering

LEMMA SanitizedClosed ==
  ASSUME NEW A \in SUBSET Messages, Texts \subseteq A, NEW g \in Shaped(A)
  PROVE  Sanitized(g) \in ClosedOver(A)
<1>1. /\ g \in Seq(A) /\ g # <<>> /\ (\A k \in 2 .. Len(g) : g[k].role = "tool")
      /\ (Len(g) >= 2 => HasCalls(g[1]))
  BY DEF Shaped
<1>2. /\ Len(g) \in Nat /\ Len(g) # 0 /\ g \in Seq(Messages) /\ DOMAIN g = 1 .. Len(g)
      /\ g[1] \in A /\ g[1] \in Messages
  <2>1. Len(g) \in Nat /\ Len(g) # 0
    BY <1>1, EmptySeq
  <2> QED
    BY <1>1, <2>1
<1>3. <<>> \in ClosedOver(A)
  BY ClosedOverAll
<1>4. ASSUME g[1].role # "tool", ~ HasCalls(g[1]) PROVE g \in ClosedOver(A)
  <2>1. Len(g) = 1
    BY <1>1, <1>2, <1>4
  <2>2. \A i \in DOMAIN g : i = 1
    BY <1>2, <2>1
  <2>3. \A i \in DOMAIN g : Plain(g[i])
    BY <1>4, <2>2 DEF Plain
  <2> QED
    BY <1>1, <1>2, <2>3, PlainClosed DEF ClosedOver
<1>5. ASSUME HasCalls(g[1]), ToSet(g[1].calls) \subseteq {m.of : m \in ToSet(Answering(g))}
      PROVE  <<g[1]>> \o Answering(g) \in ClosedOver(A)
  <2> DEFINE a == g[1]
             rs == Answering(g)
             R == {m \in A : m.role = "tool" /\ m.of \in ToSet(a.calls)}
  <2>1. rs \in Seq(R)
    BY AnsweringType
  <2>2. ToSet(a.calls) \subseteq {m.of : m \in ToSet(rs)}
    BY <1>5
  <2>3. a \in Messages /\ a \in A /\ HasCalls(a)
    BY <1>2, <1>5
  <2> HIDE DEF rs, a
  <2>4. /\ rs \in Seq(A) /\ rs \in Seq(Messages)
        /\ \A i \in DOMAIN rs : rs[i].role = "tool" /\ rs[i].of \in ToSet(a.calls)
    <3>1. R \subseteq A /\ \A m \in R : m.role = "tool" /\ m.of \in ToSet(a.calls)
      OBVIOUS
    <3> HIDE DEF R
    <3>2. rs \in Seq(A) /\ \A i \in DOMAIN rs : rs[i] \in R
      BY <2>1, <3>1
    <3> QED
      BY <3>1, <3>2
  <2>5. \A id \in ToSet(a.calls) : \E i \in DOMAIN rs : rs[i].of = id
    <3> TAKE id \in ToSet(a.calls)
    <3>1. PICK m \in ToSet(rs) : m.of = id
      BY <2>2
    <3> QED
      BY <3>1 DEF ToSet
  <2>6. Closed(<<a>> \o rs)
    BY <2>3, <2>4, <2>5, ExchangeClosed
  <2>7. <<a>> \o rs \in Seq(A)
    <3>1. <<a>> \in Seq(A)
      BY <2>3
    <3> QED
      BY <2>4, <3>1, ConcatProperties
  <2>8. <<a>> \o rs \in ClosedOver(A)
    BY <2>6, <2>7 DEF ClosedOver
  <2> QED
    BY <2>8 DEF a, rs
<1> QED
  BY <1>3, <1>4, <1>5 DEF Sanitized

(* The sanitized transcript is closed, whatever it was. *)
LEMMA SanitizeCloses ==
  ASSUME NEW A \in SUBSET Messages, Texts \subseteq A, NEW q \in Seq(A)
  PROVE  SanitizeTranscript(q) \in ClosedOver(A)
<1> DEFINE gs == Groups(q)
           G == ClosedOver(A)
           x == [i \in DOMAIN gs |-> Sanitized(gs[i])]
<1>1. gs \in Seq(Shaped(A))
  BY GroupsShaped
<1>2. G \in SUBSET Seq(Messages) /\ <<>> \in G /\ \A y, z \in G : y \o z \in G
  BY ClosedOverAll
<1> HIDE DEF gs
<1>3. \A i \in DOMAIN gs : x[i] \in G
  BY <1>1, SanitizedClosed
<1>4. x \in Seq(G)
  <2> HIDE DEF G
  <2>1. Len(gs) \in Nat /\ DOMAIN gs = 1 .. Len(gs)
    BY <1>1
  <2>2. x \in [1 .. Len(gs) -> G]
    BY <1>3, <2>1
  <2> HIDE DEF x
  <2> QED
    BY <2>1, <2>2
<1> HIDE DEF x, G
<1>5. FlattenSeq(x) \in G
  BY <1>2, <1>4, FlattenClosed
<1> QED
  BY <1>5, SanitizedGroups DEF x, G, gs

(* Items of a sequence whose calls are answered are paired. *)
LEMMA SerialPaired ==
  ASSUME NEW s \in Seq(Messages), NEW held, NEW named,
         ResultsFollow(held, s), CallsAreAnswered(s),
         NEW x, x = [i \in DOMAIN s |-> x[i]],
         \A i \in DOMAIN s : x[i] \in Seq(Items) /\ Serial(x[i], s[i], named)
  PROVE  Paired([held |-> held, items |-> FlattenSeq(x)], named)
<1>1. Len(s) \in Nat /\ DOMAIN s = 1 .. Len(s)
  OBVIOUS
<1>2. x \in [1 .. Len(s) -> Seq(Items)]
  BY <1>1
<1>3. x \in Seq(Seq(Items)) /\ Len(x) = Len(s)
  BY <1>1, <1>2
<1> QED
  BY <1>3, ItemsPaired

LEMMA RequestPaired ==
  ASSUME NEW A \in SUBSET Messages, Texts \subseteq A, Coherence(A), NEW p \in ClosedOver(A),
         NEW fam \in Families
  PROVE  Paired(Request(fam, p), CallsOf(p))
<1> DEFINE named == CallsOf(p)
           q == SystemFirst(p)
<1>1. p \in Seq(A) /\ Closed(p)
  BY DEF ClosedOver
<1>2. ASSUME NEW m \in A PROVE Carries(m) /\ ToSet(m.sent) \cap named \subseteq ToSet(m.calls)
  <2>1. \A l \in ToSet(p) : l \in A
    BY <1>1 DEF ToSet
  <2> QED
    BY <2>1 DEF Coherence, CallsOf
<1>3. /\ \A s \in Seq(A) : s \in Seq(Messages) /\ \A i \in DOMAIN s : s[i] \in A /\ s[i] \in Messages
  OBVIOUS
<1>4. q \in Seq(A) /\ Closed(q)
  <2>1. q \in ClosedOver(A)
    BY SystemFirstKept
  <2> QED
    BY <2>1 DEF ClosedOver
<1> HIDE DEF q, named
<1>5. Paired(MessagesRequest(p), named)
  <2> DEFINE x == [i \in DOMAIN p |-> MessagesItem(p[i])]
  <2>1. \A i \in DOMAIN p : x[i] \in Seq(Items) /\ Serial(x[i], p[i], named)
    BY <1>1, <1>2, <1>3, MessagesItemSerial
  <2>2. x = [i \in DOMAIN p |-> x[i]]
    OBVIOUS
  <2>3. MessagesRequest(p) = [held |-> {}, items |-> FlattenSeq(x)]
    BY DEF MessagesRequest, Each
  <2> HIDE DEF x
  <2> QED
    BY <1>1, <1>3, <2>1, <2>2, <2>3, SerialPaired DEF Closed
<1>6. ASSUME NEW merge \in BOOLEAN PROVE Paired(ChatRequest(p, merge), named)
  <2> DEFINE o == IF merge THEN q ELSE p
             t == SanitizeTranscript(o)
             x == [i \in DOMAIN t |-> ChatMessage(t[i])]
  <2>1. t \in Seq(A) /\ Closed(t)
    <3>1. o \in Seq(A) /\ Closed(o)
      BY <1>1, <1>4
    <3> HIDE DEF o
    <3>2. t \in ClosedOver(A)
      BY <3>1, SanitizeCloses
    <3> QED
      BY <3>2 DEF ClosedOver
  <2>2. ChatRequest(p, merge) = [held |-> {}, items |-> FlattenSeq(x)]
    BY DEF ChatRequest, Each, q
  <2> HIDE DEF t
  <2>3. \A i \in DOMAIN t : x[i] \in Seq(Items) /\ Serial(x[i], t[i], named)
    BY <1>2, <1>3, <2>1, ChatMessageSerial
  <2>4. x = [i \in DOMAIN t |-> x[i]]
    OBVIOUS
  <2> HIDE DEF x
  <2> QED
    BY <1>3, <2>1, <2>2, <2>3, <2>4, SerialPaired DEF Closed
<1>7. ASSUME NEW stored \in BOOLEAN PROVE Paired(ResponsesRequest(p, stored), named)
  <2> DEFINE since == InputSince(q, stored)
             u == since.messages
             x == [i \in DOMAIN u |-> InputItem(u[i])]
  <2>1. \A i \in DOMAIN q : Carries(q[i])
    BY <1>2, <1>3, <1>4
  <2>2. /\ u \in Seq(Messages) /\ \A i \in DOMAIN u : \E k \in DOMAIN q : u[i] = q[k]
        /\ ResultsFollow(since.held, u) /\ CallsAreAnswered(u)
    BY <1>3, <1>4, <2>1, SinceClosed
  <2>3. ResponsesRequest(p, stored) = [held |-> since.held, items |-> FlattenSeq(x)]
    BY DEF ResponsesRequest, Each, q
  <2> HIDE DEF since
  <2>4. \A i \in DOMAIN u : u[i] \in A /\ u[i] \in Messages
    BY <1>3, <1>4, <2>2
  <2>5. \A i \in DOMAIN u : x[i] \in Seq(Items) /\ Serial(x[i], u[i], named)
    BY <1>2, <2>4, InputItemSerial
  <2>6. x = [i \in DOMAIN u |-> x[i]]
    OBVIOUS
  <2> HIDE DEF x, u
  <2>7. Paired([held |-> since.held, items |-> FlattenSeq(x)], named)
    BY <2>2, <2>5, <2>6, SerialPaired
  <2> QED
    BY <2>3, <2>7
<1>8. Request(fam, p) \in {ChatRequest(p, FALSE), ChatRequest(p, TRUE), MessagesRequest(p),
                           ResponsesRequest(p, FALSE), ResponsesRequest(p, TRUE)}
  BY DEF Request, Families
<1> QED
  BY <1>5, <1>6, <1>7, <1>8 DEF named

(*------------------------------ the invariant ----------------------------*)

TriedIn(r, id) == {j \in DOMAIN r : r[j].id = id}

(* What holds where the loop is: its counters are within their limits, and
   a tool is run or waited for only while the batch has a next call, a good
   one. *)
FlowInv ==
  /\ pc \in Awaiting \cup {"answered", "tools"} => step \in 1 .. MaxSteps
  /\ pc = "backoff" => attempt <= Retries
  /\ pc = "toolBackoff" => tries <= ToolRetries
  /\ pc = "tools" => tries = 0
  /\ pc = "answered" => tries = 0 /\ results = <<>>
  /\ pc \in {"running", "toolBackoff"} => Next1 \in DOMAIN calls /\ Call.form = "good"
  /\ Parsed(calls)

(* Every execution of this step was one of the first k calls of its batch. *)
RanAmong(k) == \A j \in DOMAIN ran : \E i \in DOMAIN calls : i <= k /\ ran[j].id = calls[i].id

(* The executions of the call that is run or waited for are those "tries"
   counts, and each of them asked for another. *)
TriesCounted(n) ==
  /\ Cardinality(TriedIn(ran, Call.id)) = n
  /\ \A j \in TriedIn(ran, Call.id) : ran[j].outcome = "retryable"

RanInv ==
  /\ NoBlindRetry
  /\ pc \in {"calling", "backoff", "answered"} => ran = <<>>
  /\ pc = "tools" => RanAmong(Len(results))
  /\ pc \in {"running", "toolBackoff"} => RanAmong(Next1)
  /\ pc = "running" => tries >= 1 /\ TriesCounted(tries - 1)
  /\ pc = "toolBackoff" => TriesCounted(tries)

IInv == TypeOK /\ FlowInv /\ RanInv

RanRecords == [id : CallIds, form : Forms, outcome : Outcomes]

LEMMA ParsedNone == Parsed(<<>>)
  BY DEF Parsed, Distinct

(* One more execution: it counts for its call and for no other. *)
LEMMA OneMoreRan ==
  ASSUME NEW r \in Seq(RanRecords), NEW e \in RanRecords
  PROVE  /\ Append(r, e) \in Seq(RanRecords) /\ DOMAIN Append(r, e) = 1 .. Len(r) + 1
         /\ \A j \in DOMAIN r : j \in DOMAIN Append(r, e) /\ Append(r, e)[j] = r[j]
         /\ Append(r, e)[Len(r) + 1] = e
         /\ \A id : id # e.id => TriedIn(Append(r, e), id) = TriedIn(r, id)
         /\ TriedIn(Append(r, e), e.id) = TriedIn(r, e.id) \cup {Len(r) + 1}
         /\ Cardinality(TriedIn(r, e.id)) \in Nat
         /\ Cardinality(TriedIn(Append(r, e), e.id)) = Cardinality(TriedIn(r, e.id)) + 1
<1> DEFINE y == Append(r, e)
           n == Len(r)
<1>1. n \in Nat /\ DOMAIN r = 1 .. n
  OBVIOUS
<1>2. /\ y \in Seq(RanRecords) /\ DOMAIN y = 1 .. n + 1
      /\ (\A j \in 1 .. n : y[j] = r[j]) /\ y[n + 1] = e
  BY AppendProperties, LenProperties
<1> HIDE DEF y, n
<1>3. \A j \in 1 .. n + 1 : j \in 1 .. n \/ j = n + 1
  BY <1>1
<1>4. \A j \in 1 .. n : j \in 1 .. n + 1 /\ j # n + 1
  BY <1>1
<1>5. ASSUME NEW id PROVE TriedIn(y, id) = {j \in DOMAIN r : r[j].id = id} \cup
                                          {j \in {n + 1} : e.id = id}
  <2>1. n + 1 \in 1 .. n + 1
    BY <1>1
  <2> QED
    BY <1>1, <1>2, <1>3, <1>4, <2>1 DEF TriedIn
<1>6. \A id : id # e.id => TriedIn(y, id) = TriedIn(r, id)
  BY <1>5 DEF TriedIn
<1>7. TriedIn(y, e.id) = TriedIn(r, e.id) \cup {n + 1}
  BY <1>5 DEF TriedIn
<1>8. IsFiniteSet(TriedIn(r, e.id))
  <2>1. IsFiniteSet(1 .. n) /\ TriedIn(r, e.id) \subseteq 1 .. n
    BY <1>1, FS_Interval DEF TriedIn
  <2> QED
    BY <2>1, FS_Subset
<1>9. n + 1 \notin TriedIn(r, e.id)
  BY <1>1 DEF TriedIn
<1>10. /\ Cardinality(TriedIn(r, e.id)) \in Nat
       /\ Cardinality(TriedIn(y, e.id)) = Cardinality(TriedIn(r, e.id)) + 1
  BY <1>7, <1>8, <1>9, FS_AddElement, FS_CardinalityType
<1> QED
  BY <1>1, <1>2, <1>4, <1>6, <1>7, <1>10 DEF y, n

LEMMA InitInv == ASSUME LoopAssumption, Init PROVE IInv
<1>1. turn \in Seq(Messages)
  <2>1. PICK size \in Requests : turn = <<Message("user", <<>>, NoCall, size)>>
    BY DEF Init
  <2>2. size \in Nat
    BY DEF LoopAssumption
  <2>3. Message("user", <<>>, NoCall, size) \in Messages
    BY <2>2 DEF Message, Messages, Roles, NoCall, CallIds
  <2> DEFINE m == Message("user", <<>>, NoCall, size)
  <2>4. m \in Messages /\ turn = <<m>>
    BY <2>1, <2>3
  <2> HIDE DEF m
  <2> QED
    BY <2>4
<1>2. TypeOK
  <2>1. /\ results \in Seq(Messages) /\ ran \in Seq([id : CallIds, form : Forms, outcome : Outcomes])
        /\ calls \in Seq([id : CallIds, form : Forms]) /\ Len(results) <= Len(calls)
    BY DEF Init
  <2>2. step \in 1 .. MaxSteps + 1 /\ attempt \in 0 .. Retries + 1 /\ tries \in 0 .. ToolRetries + 1
    <3>1. step = 1 /\ attempt = 0 /\ tries = 0
      BY DEF Init
    <3> QED
      BY <3>1 DEF LoopAssumption
  <2>3. stop \in BOOLEAN /\ pc = "step" /\ error = "none"
    BY DEF Init
  <2>4. family \in Families /\ streamed \in BOOLEAN /\ history \in Histories
    BY DEF Init
  <2> QED
    BY <1>1, <2>1, <2>2, <2>3, <2>4 DEF TypeOK
<1>3. FlowInv
  BY ParsedNone DEF Init, FlowInv, Awaiting
<1>4. RanInv
  BY DEF Init, RanInv, NoBlindRetry
<1> QED
  BY <1>2, <1>3, <1>4 DEF IInv

LEMMA SameRan == ASSUME NoBlindRetry, UNCHANGED ran PROVE NoBlindRetry'
  BY DEF NoBlindRetry

LEMMA NoneRan == ASSUME ran' = <<>> PROVE NoBlindRetry'
  BY DEF NoBlindRetry

LEMMA Stutter == ASSUME IInv, UNCHANGED vars PROVE IInv'
<1> USE DEF vars, config, batch
<1>1. TypeOK'
  BY DEF IInv, TypeOK
<1>2. FlowInv'
  BY DEF IInv, FlowInv, Parsed, Distinct, Next1, Call
<1>3. RanInv'
  BY SameRan DEF IInv, RanInv, RanAmong, TriesCounted, TriedIn, Next1, Call
<1> QED
  BY <1>1, <1>2, <1>3 DEF IInv

(* Wherever the run is, it may end. *)
LEMMA Ends ==
  ASSUME IInv, pc' \in Ended, error' \in Errors \cup {"none", "cancelled"},
         UNCHANGED <<config, step, attempt, turn, batch, stop, ran>>
  PROVE  IInv'
<1> USE DEF config, batch
<1>1. TypeOK'
  BY DEF IInv, TypeOK
<1>2. FlowInv'
  BY DEF IInv, FlowInv, Parsed, Distinct, Awaiting, Ended
<1>3. RanInv'
  BY SameRan DEF IInv, RanInv, Ended
<1> QED
  BY <1>1, <1>2, <1>3 DEF IInv

LEMMA EndsBeforeStepStep == ASSUME IInv, EndsBeforeStep PROVE IInv'
  BY Ends DEF EndsBeforeStep, Finish, Ended

LEMMA StartStepStep == ASSUME IInv, LoopAssumption, StartStep PROVE IInv'
<1> USE DEF config, batch, StartStep
<1>1. TypeOK'
  BY DEF IInv, TypeOK, Awaiting, LoopAssumption
<1>2. FlowInv'
  BY DEF IInv, TypeOK, FlowInv, Parsed, Distinct, Awaiting, LoopAssumption
<1>3. RanInv'
  BY NoneRan DEF IInv, RanInv
<1> QED
  BY <1>1, <1>2, <1>3 DEF IInv

LEMMA ProviderFailsStep ==
  ASSUME IInv, NEW e \in Errors, ProviderFails(e) PROVE IInv'
<1>1. CASE ~ CanRetry(e)
  BY <1>1, Ends DEF ProviderFails, Finish, Ended
<1>2. CASE CanRetry(e)
  <2> USE DEF config, batch, ProviderFails
  <2>1. TypeOK'
    BY <1>2 DEF IInv, TypeOK, Awaiting
  <2>2. FlowInv'
    BY <1>2 DEF IInv, FlowInv, Parsed, Distinct, Awaiting, CanRetry
  <2>3. RanInv'
    BY <1>2, SameRan DEF IInv, RanInv
  <2> QED
    BY <2>1, <2>2, <2>3 DEF IInv
<1> QED
  BY <1>1, <1>2

LEMMA BackoffEndsStep == ASSUME IInv, LoopAssumption, BackoffEnds PROVE IInv'
<1> USE DEF config, batch, BackoffEnds
<1>1. TypeOK'
  BY DEF IInv, TypeOK, FlowInv, Awaiting, LoopAssumption
<1>2. FlowInv'
  BY DEF IInv, FlowInv, Parsed, Distinct, Awaiting
<1>3. RanInv'
  BY SameRan DEF IInv, RanInv
<1> QED
  BY <1>1, <1>2, <1>3 DEF IInv

LEMMA AnsweredStep == ASSUME IInv, Answered PROVE IInv'
<1>1. CASE pc' \in Ended
  BY <1>1, Ends DEF Answered, Finish, Ended, config, batch, IInv, TypeOK
<1>2. CASE pc' = "tools" /\ UNCHANGED error
  <2> USE DEF config, batch, Answered
  <2>1. TypeOK'
    BY <1>2 DEF IInv, TypeOK
  <2>2. FlowInv'
    BY <1>2 DEF IInv, FlowInv, Parsed, Distinct, Awaiting
  <2>3. RanInv'
    BY <1>2, SameRan DEF IInv, RanInv, RanAmong
  <2> QED
    BY <2>1, <2>2, <2>3 DEF IInv
<1> QED
  BY <1>1, <1>2 DEF Answered, Finish, Ended

LEMMA SetStopStep == ASSUME IInv, SetStop PROVE IInv'
<1> USE DEF config, batch, SetStop
<1>1. TypeOK'
  BY DEF IInv, TypeOK
<1>2. FlowInv'
  BY DEF IInv, FlowInv, Parsed, Distinct, Next1, Call
<1>3. RanInv'
  BY SameRan DEF IInv, RanInv, RanAmong, TriesCounted, TriedIn, Next1, Call
<1> QED
  BY <1>1, <1>2, <1>3 DEF IInv

LEMMA CancelStep == ASSUME IInv, Cancel PROVE IInv'
  BY Ends DEF Cancel, Ended, config, batch, IInv, TypeOK

(* A message that reports on a tool. *)
LEMMA ToolMessageType ==
  ASSUME NEW c \in CallRecords, NEW size \in Nat
  PROVE  ToolMessage(c, size) \in Messages
  BY DEF ToolMessage, Message, Messages, Roles, CallRecords, CallIds

LEMMA RejectCallStep == ASSUME IInv, LoopAssumption, RejectCall PROVE IInv'
<1> DEFINE m == ToolMessage(Call, ErrorSize)
<1>1. /\ Len(results) \in Nat /\ Len(calls) \in Nat /\ results \in Seq(Messages)
      /\ calls \in Seq(CallRecords) /\ DOMAIN calls = 1 .. Len(calls)
  BY DEF IInv, TypeOK, CallRecords
<1>2. m \in Messages
  <2>1. Call \in CallRecords
    BY <1>1 DEF RejectCall, Call, Next1
  <2> QED
    BY <2>1, ToolMessageType DEF LoopAssumption
<1>3. results' = Append(results, m)
  BY DEF RejectCall
<1> HIDE DEF m
<1>4. results' \in Seq(Messages) /\ Len(results') = Len(results) + 1
  BY <1>1, <1>2, <1>3
<1> USE DEF config, batch, RejectCall
<1>5. TypeOK'
  BY <1>1, <1>4 DEF IInv, TypeOK, Next1
<1>6. FlowInv'
  BY DEF IInv, FlowInv, Parsed, Distinct, Awaiting
<1>7. RanInv'
  <2>1. ASSUME NEW j \in DOMAIN ran
        PROVE  \E i \in DOMAIN calls : i <= Len(results) + 1 /\ ran[j].id = calls[i].id
    BY <1>1 DEF IInv, RanInv, RanAmong
  <2> QED
    BY <1>4, <2>1, SameRan DEF IInv, RanInv, RanAmong
<1> QED
  BY <1>5, <1>6, <1>7 DEF IInv

LEMMA ToolsEndStep == ASSUME IInv, LoopAssumption, ToolsEnd PROVE IInv'
<1>1. step \in 1 .. MaxSteps /\ turn \in Seq(Messages) /\ results \in Seq(Messages)
  BY DEF IInv, TypeOK, FlowInv, ToolsEnd
<1>2. turn \o results \in Seq(Messages)
  BY <1>1, ConcatProperties
<1> USE DEF config, batch, ToolsEnd
<1>3. TypeOK'
  BY <1>1, <1>2 DEF IInv, TypeOK, LoopAssumption
<1>4. FlowInv'
  BY ParsedNone DEF IInv, FlowInv, Awaiting
<1>5. RanInv'
  BY SameRan DEF IInv, RanInv
<1> QED
  BY <1>3, <1>4, <1>5 DEF IInv

LEMMA RunCallStep == ASSUME IInv, LoopAssumption, RunCall PROVE IInv'
<1>1. /\ Len(results) \in Nat /\ Len(calls) \in Nat /\ results \in Seq(Messages)
      /\ calls \in Seq(CallRecords) /\ DOMAIN calls = 1 .. Len(calls)
      /\ tries \in Nat /\ ToolRetries \in Nat
  BY DEF IInv, TypeOK, CallRecords, LoopAssumption
<1>2. Next1 \in DOMAIN calls /\ Call.form = "good" /\ tries <= ToolRetries
  <2>1. CASE pc = "tools" /\ Next1 <= Len(calls) /\ ~ Invalid(Call)
    <3>1. Next1 \in DOMAIN calls
      BY <1>1, <2>1 DEF Next1
    <3>2. Call.form \in {"good", "unknown", "empty"}
      BY <3>1 DEF IInv, FlowInv, Parsed, Call
    <3> QED
      BY <1>1, <2>1, <3>1, <3>2 DEF Invalid, IInv, FlowInv
  <2>2. CASE pc = "toolBackoff"
    BY <2>2 DEF IInv, FlowInv
  <2> QED
    BY <2>1, <2>2 DEF RunCall
<1>3. RanAmong(Next1) /\ TriesCounted(tries)
  <2>1. CASE pc = "tools" /\ Next1 <= Len(calls) /\ ~ Invalid(Call)
    <3>1. ASSUME NEW j \in DOMAIN ran
          PROVE  (\E i \in DOMAIN calls : i <= Next1 /\ ran[j].id = calls[i].id) /\ ran[j].id # Call.id
      <4>1. PICK i \in DOMAIN calls : i <= Len(results) /\ ran[j].id = calls[i].id
        BY <2>1, <3>1 DEF IInv, RanInv, RanAmong
      <4>2. i <= Next1 /\ i # Next1
        BY <1>1, <4>1 DEF Next1
      <4>3. calls[i].id # Call.id
        BY <1>2, <4>2 DEF IInv, FlowInv, Parsed, Distinct, Call
      <4> QED
        BY <4>1, <4>2, <4>3
    <3>2. TriedIn(ran, Call.id) = {}
      BY <3>1 DEF TriedIn
    <3>3. tries = 0
      BY <2>1 DEF IInv, FlowInv
    <3> QED
      BY <3>1, <3>2, <3>3, FS_EmptySet DEF RanAmong, TriesCounted
  <2>2. CASE pc = "toolBackoff"
    BY <2>2 DEF IInv, RanInv
  <2> QED
    BY <2>1, <2>2 DEF RunCall
<1> USE DEF config, batch, RunCall
<1>4. TypeOK'
  BY <1>1, <1>2 DEF IInv, TypeOK, Awaiting
<1>5. FlowInv'
  BY <1>2 DEF IInv, FlowInv, Parsed, Distinct, Awaiting, Next1, Call
<1>6. RanInv'
  <2>1. pc' = "running" /\ NoBlindRetry' /\ RanAmong(Next1)'
    BY <1>3, SameRan DEF IInv, RanInv, RanAmong, Next1
  <2>2. tries' >= 1 /\ tries' - 1 = tries
    BY <1>1
  <2>3. Cardinality(TriedIn(ran, Call.id))' = tries' - 1
    BY <1>3, <2>2 DEF TriesCounted, TriedIn, Next1, Call
  <2>4. TriesCounted(tries - 1)'
    BY <1>3, <2>3 DEF TriesCounted, TriedIn, Next1, Call
  <2> QED
    BY <2>1, <2>2, <2>4 DEF RanInv
<1> QED
  BY <1>4, <1>5, <1>6 DEF IInv

LEMMA ToolReturnsStep ==
  ASSUME IInv, LoopAssumption, NEW outcome \in Outcomes, NEW size \in Nat, ToolReturns(outcome, size)
  PROVE  IInv'
<1> DEFINE e == [id |-> Call.id, form |-> Call.form, outcome |-> outcome]
           c == Call
           m == ToolMessage(Call, size)
<1>1. /\ Len(results) \in Nat /\ Len(calls) \in Nat /\ results \in Seq(Messages)
      /\ calls \in Seq(CallRecords) /\ DOMAIN calls = 1 .. Len(calls)
      /\ tries \in Nat /\ ToolRetries \in Nat /\ ran \in Seq(RanRecords)
      /\ DOMAIN ran = 1 .. Len(ran) /\ Len(ran) \in Nat
  BY DEF IInv, TypeOK, CallRecords, RanRecords, LoopAssumption
<1>2. /\ Next1 \in DOMAIN calls /\ c.form = "good" /\ c \in CallRecords /\ c = calls[Next1]
      /\ RanAmong(Next1) /\ TriesCounted(tries - 1) /\ tries >= 1 /\ tries <= ToolRetries + 1
  <2>1. pc = "running" /\ tries <= ToolRetries + 1
    BY <1>1 DEF ToolReturns, IInv, TypeOK
  <2>2. Next1 \in DOMAIN calls /\ Call.form = "good"
    BY <2>1 DEF IInv, FlowInv
  <2> QED
    BY <1>1, <2>1, <2>2 DEF IInv, RanInv, Call
<1>3. e \in RanRecords /\ e.id = c.id /\ e.form = "good" /\ e.outcome = outcome
  BY <1>2 DEF RanRecords, CallRecords
<1>4. ran' = Append(ran, e)
  BY DEF ToolReturns
<1>5. m \in Messages
  BY <1>2, ToolMessageType
<1> HIDE DEF e, c, m
<1>6. /\ ran' \in Seq(RanRecords) /\ DOMAIN ran' = 1 .. Len(ran) + 1
      /\ (\A j \in DOMAIN ran : j \in DOMAIN ran' /\ ran'[j] = ran[j]) /\ ran'[Len(ran) + 1] = e
      /\ (\A id : id # c.id => TriedIn(ran', id) = TriedIn(ran, id))
      /\ TriedIn(ran', c.id) = TriedIn(ran, c.id) \cup {Len(ran) + 1}
      /\ Cardinality(TriedIn(ran', c.id)) = Cardinality(TriedIn(ran, c.id)) + 1
  <2>1. \A id : id # c.id => TriedIn(Append(ran, e), id) = TriedIn(ran, id)
    BY <1>1, <1>3, OneMoreRan
  <2>2. /\ Append(ran, e) \in Seq(RanRecords) /\ DOMAIN Append(ran, e) = 1 .. Len(ran) + 1
        /\ (\A j \in DOMAIN ran : j \in DOMAIN Append(ran, e) /\ Append(ran, e)[j] = ran[j])
        /\ Append(ran, e)[Len(ran) + 1] = e
    BY <1>1, <1>3, OneMoreRan
  <2>3. /\ TriedIn(Append(ran, e), e.id) = TriedIn(ran, e.id) \cup {Len(ran) + 1}
        /\ Cardinality(TriedIn(Append(ran, e), e.id)) = Cardinality(TriedIn(ran, e.id)) + 1
    BY <1>1, <1>3, OneMoreRan
  <2> QED
    BY <1>3, <1>4, <2>1, <2>2, <2>3
<1>7. \A j \in DOMAIN ran' : j \in DOMAIN ran \/ j = Len(ran) + 1
  BY <1>1, <1>6
<1>8. /\ Cardinality(TriedIn(ran', c.id)) = tries
      /\ \A j \in TriedIn(ran, c.id) : ran[j].outcome = "retryable"
  <2>1. /\ Cardinality(TriedIn(ran, c.id)) = tries - 1
        /\ \A j \in TriedIn(ran, c.id) : ran[j].outcome = "retryable"
    BY <1>2 DEF TriesCounted, c
  <2> QED
    BY <1>1, <1>6, <2>1
<1>9. NoBlindRetry'
  <2>1. ASSUME NEW i \in DOMAIN ran', NEW j \in DOMAIN ran', i < j, ran'[i].id = ran'[j].id
        PROVE  ran'[i].outcome = "retryable"
    <3>1. i \in DOMAIN ran /\ ran'[i] = ran[i]
      BY <1>1, <1>6, <1>7, <2>1
    <3>2. CASE j \in DOMAIN ran
      <4>1. ran'[j] = ran[j] /\ ran[i].id = ran[j].id
        BY <1>6, <2>1, <3>1, <3>2
      <4> QED
        BY <2>1, <3>1, <3>2, <4>1 DEF IInv, RanInv, NoBlindRetry
    <3>3. CASE j = Len(ran) + 1
      <4>1. ran[i].id = c.id
        BY <1>3, <1>6, <2>1, <3>1, <3>3
      <4>2. i \in TriedIn(ran, c.id)
        BY <3>1, <4>1 DEF TriedIn
      <4> QED
        BY <1>8, <3>1, <4>2
    <3> QED
      BY <1>7, <3>2, <3>3
  <2>2. ASSUME NEW i \in DOMAIN ran'
        PROVE  ran'[i].form = "good" /\ Cardinality(TriedIn(ran', ran'[i].id)) <= ToolRetries + 1
    <3>1. CASE ran'[i].id = c.id
      <4>1. ran'[i].form = "good"
        <5>1. CASE i \in DOMAIN ran
          BY <1>6, <5>1 DEF IInv, RanInv, NoBlindRetry
        <5>2. CASE i = Len(ran) + 1
          BY <1>3, <1>6, <5>2
        <5> QED
          BY <1>7, <5>1, <5>2
      <4> QED
        BY <1>1, <1>2, <1>8, <3>1, <4>1
    <3>2. CASE ran'[i].id # c.id
      <4>1. i \in DOMAIN ran /\ ran'[i] = ran[i]
        BY <1>3, <1>6, <1>7, <3>2
      <4>2. TriedIn(ran', ran'[i].id) = TriedIn(ran, ran[i].id)
        BY <1>6, <3>2, <4>1
      <4>3. ran[i].form = "good" /\ Cardinality(TriedIn(ran, ran[i].id)) <= ToolRetries + 1
        BY <4>1 DEF IInv, RanInv, NoBlindRetry, TriedIn
      <4> QED
        BY <4>1, <4>2, <4>3
    <3> QED
      BY <3>1, <3>2
  <2> QED
    BY <2>1, <2>2 DEF NoBlindRetry, TriedIn
<1>10. \A j \in DOMAIN ran' : \E i \in DOMAIN calls : i <= Next1 /\ ran'[j].id = calls[i].id
  <2> TAKE j \in DOMAIN ran'
  <2>1. CASE j \in DOMAIN ran
    BY <1>2, <1>6, <2>1 DEF RanAmong
  <2>2. CASE j = Len(ran) + 1
    <3>1. ran'[j].id = calls[Next1].id /\ Next1 <= Next1
      BY <1>1, <1>2, <1>3, <1>6, <2>2 DEF Next1
    <3> QED
      BY <1>2, <3>1
  <2> QED
    BY <1>7, <2>1, <2>2
<1>11. CASE RetriesTool(outcome)
  <2>1. /\ pc' = "toolBackoff" /\ UNCHANGED <<config, step, attempt, turn, calls, results, tries, stop, error>>
        /\ tries <= ToolRetries /\ outcome = "retryable"
    BY <1>1, <1>11 DEF ToolReturns, RetriesTool
  <2> USE DEF config
  <2>2. TypeOK'
    BY <1>6, <2>1 DEF IInv, TypeOK, Awaiting, RanRecords
  <2>3. FlowInv'
    BY <1>1, <1>2, <2>1 DEF IInv, FlowInv, Parsed, Distinct, Awaiting, Next1, Call, ToolReturns
  <2>4. RanAmong(Next1)'
    BY <1>10, <2>1 DEF RanAmong, Next1
  <2>5. \A j \in TriedIn(ran', c.id) : ran'[j].outcome = "retryable"
    <3> TAKE j \in TriedIn(ran', c.id)
    <3>1. CASE j \in TriedIn(ran, c.id)
      BY <1>6, <1>8, <3>1 DEF TriedIn
    <3>2. CASE j = Len(ran) + 1
      BY <1>3, <1>6, <2>1, <3>2
    <3> QED
      BY <1>6, <3>1, <3>2
  <2>6. (Call.id)' = c.id
    BY <2>1 DEF Call, Next1, c
  <2>7. TriesCounted(tries)'
    BY <1>8, <2>1, <2>5, <2>6 DEF TriesCounted
  <2>8. RanInv'
    BY <1>9, <2>1, <2>4, <2>7 DEF RanInv
  <2> QED
    BY <2>2, <2>3, <2>8 DEF IInv
<1>12. CASE ~ RetriesTool(outcome)
  <2>1. /\ pc' = "tools" /\ UNCHANGED <<config, step, attempt, turn, calls, stop, error>>
        /\ tries' = 0 /\ results' = Append(results, m)
    BY <1>12 DEF ToolReturns, m
  <2>2. results' \in Seq(Messages) /\ Len(results') = Next1
    BY <1>1, <1>5, <2>1 DEF Next1
  <2> USE DEF config
  <2>3. TypeOK'
    <3>1. Len(results') <= Len(calls') /\ tries' \in 0 .. ToolRetries + 1
      BY <1>1, <1>2, <2>1, <2>2
    <3> QED
      BY <1>6, <2>1, <2>2, <3>1 DEF IInv, TypeOK, RanRecords
  <2>4. FlowInv'
    BY <2>1 DEF IInv, FlowInv, Parsed, Distinct, Awaiting, ToolReturns
  <2>5. RanAmong(Len(results))'
    BY <1>10, <2>1, <2>2 DEF RanAmong
  <2>6. RanInv'
    BY <1>9, <2>1, <2>5 DEF RanInv
  <2> QED
    BY <2>3, <2>4, <2>6 DEF IInv
<1> QED
  BY <1>11, <1>12

LEMMA AnswerCalls ==
  ASSUME step \in Nat, NEW text, NEW forms \in Seq(Forms), NEW cut
  PROVE  /\ Answer(text, forms, cut).text = text
         /\ Answer(text, forms, cut).calls \in Seq(CallRecords)
         /\ Distinct(Answer(text, forms, cut).calls)
<1> DEFINE cs == [i \in DOMAIN forms |-> [id |-> <<step, i>>, form |-> forms[i]]]
<1>1. Answer(text, forms, cut).text = text /\ Answer(text, forms, cut).calls = cs
  BY DEF Answer
<1>2. DOMAIN forms = 1 .. Len(forms) /\ Len(forms) \in Nat
  OBVIOUS
<1>3. ASSUME NEW i \in DOMAIN forms PROVE [id |-> <<step, i>>, form |-> forms[i]] \in CallRecords
  <2>1. i \in Nat /\ forms[i] \in Forms
    BY <1>2
  <2> QED
    BY <2>1 DEF CallRecords, CallIds
<1>4. DOMAIN cs = DOMAIN forms /\ \A i \in DOMAIN forms : cs[i].id = <<step, i>>
  OBVIOUS
<1>5. cs \in Seq(CallRecords)
  BY <1>2, <1>3
<1> HIDE DEF cs
<1>6. Distinct(cs)
  BY <1>4 DEF Distinct
<1> QED
  BY <1>1, <1>5, <1>6

LEMMA SentAs ==
  ASSUME NEW m \in Messages, NEW sent \in Seq(CallIds), NEW b \in BOOLEAN
  PROVE  [m EXCEPT !.sent = sent, !.response = b] \in Messages
<1> DEFINE S == Seq(CallIds)
<1>1. /\ m \in [role : Roles, calls : S, of : CallIds, size : Nat, sent : S, response : BOOLEAN]
      /\ sent \in S
  BY DEF Messages
<1> HIDE DEF S
<1>2. [m EXCEPT !.sent = sent, !.response = b] \in
        [role : Roles, calls : S, of : CallIds, size : Nat, sent : S, response : BOOLEAN]
  BY <1>1, Zenon
<1> QED
  BY <1>2 DEF S, Messages

LEMMA AssistantType ==
  ASSUME NEW ids \in Seq(CallIds), NEW sent \in Seq(CallIds), NEW size \in Nat, NEW b \in BOOLEAN
  PROVE  [Message("assistant", ids, NoCall, size) EXCEPT !.sent = sent, !.response = b] \in Messages
<1> DEFINE m == Message("assistant", ids, NoCall, size)
<1>1. m \in Messages
  BY DEF Message, Messages, Roles, NoCall, CallIds
<1> HIDE DEF m
<1>2. [m EXCEPT !.sent = sent, !.response = b] \in Messages
  BY <1>1, SentAs
<1> QED
  BY <1>2 DEF m

(* What the answer leaves in the turn. *)
LEMMA AssistantMessages ==
  ASSUME NEW answer, answer.text \in Nat, answer.calls \in Seq(CallRecords),
         NEW parsed \in Seq(CallRecords)
  PROVE  AssistantMessage(answer, parsed) \in Seq(Messages)
<1> DEFINE ids(s) == [i \in DOMAIN s |-> s[i].id]
           response == family \in {"responses", "stored"}
           sent == IF response THEN ids(answer.calls) ELSE ids(parsed)
           message == [Message("assistant", ids(parsed), NoCall, answer.text) EXCEPT
                         !.sent = sent, !.response = response]
<1>1. ASSUME NEW s \in Seq(CallRecords) PROVE ids(s) \in Seq(CallIds)
  <2>1. ASSUME NEW i \in DOMAIN s PROVE s[i].id \in CallIds
    <3>1. s[i] \in CallRecords
      OBVIOUS
    <3> QED
      BY <3>1 DEF CallRecords
  <2>2. Len(s) \in Nat /\ DOMAIN s = 1 .. Len(s)
    OBVIOUS
  <2>3. ids(s) \in [1 .. Len(s) -> CallIds]
    BY <2>1, <2>2
  <2> DEFINE y == ids(s)
             n == Len(s)
  <2>4. n \in Nat /\ y \in [1 .. n -> CallIds]
    <3> HIDE DEF ids
    <3> QED
      BY <2>2, <2>3
  <2> HIDE DEF y, n
  <2>5. y \in Seq(CallIds)
    BY <2>4
  <2> QED
    BY <2>5 DEF y
<1>2. ids(parsed) \in Seq(CallIds) /\ ids(answer.calls) \in Seq(CallIds)
  <2> HIDE DEF ids
  <2> QED
    BY <1>1
<1>3. sent \in Seq(CallIds)
  <2> HIDE DEF ids
  <2> QED
    BY <1>2
<1>4. response \in BOOLEAN
  OBVIOUS
<1>5. message \in Messages
  <2> HIDE DEF ids, sent, response
  <2> QED
    BY <1>2, <1>3, <1>4, AssistantType
<1>6. AssistantMessage(answer, parsed) =
        IF answer.text = 0 /\ parsed = <<>> /\ ~ response THEN <<>> ELSE <<message>>
  BY DEF AssistantMessage
<1> HIDE DEF message, response
<1>7. AssistantMessage(answer, parsed) = <<>> \/ AssistantMessage(answer, parsed) = <<message>>
  BY <1>6
<1>8. <<>> \in Seq(Messages) /\ <<message>> \in Seq(Messages)
  BY <1>5
<1> QED
  BY <1>7, <1>8

LEMMA ProviderAnswersStep ==
  ASSUME IInv, LoopAssumption, NEW a \in Answers, NEW cut \in BOOLEAN,
         ProviderAnswers(Answer(a[1], a[2], cut))
  PROVE  IInv'
<1> DEFINE answer == Answer(a[1], a[2], cut)
           parsed == Parse(family, streamed, answer)
<1>1. /\ a[1] \in Nat /\ a[2] \in Seq(Forms) /\ step \in 1 .. MaxSteps /\ step \in Nat
      /\ pc = "calling" /\ ran = <<>> /\ family \in Families /\ streamed \in BOOLEAN
      /\ turn \in Seq(Messages)
  BY DEF LoopAssumption, ProviderAnswers, IInv, TypeOK, FlowInv, RanInv, Awaiting
<1>2. answer.text \in Nat /\ answer.calls \in Seq(CallRecords) /\ Distinct(answer.calls)
  BY <1>1, AnswerCalls
<1> HIDE DEF answer
<1>3. /\ pc = "calling" /\ attempt' = 0 /\ UNCHANGED <<config, step, stop, ran>>
      /\ IF parsed.bad
         THEN Finish("provider_bad_response") /\ UNCHANGED <<turn, batch>>
         ELSE /\ turn' = turn \o AssistantMessage(answer, parsed.calls)
              /\ calls' = parsed.calls /\ results' = <<>> /\ tries' = 0
              /\ pc' = "answered" /\ UNCHANGED error
  BY DEF ProviderAnswers, answer
<1>4. ~ parsed.bad => Parsed(parsed.calls)
  BY <1>1, <1>2, ParseGood
<1> HIDE DEF parsed
<1>5. CASE parsed.bad
  <2>1. /\ pc' = "done" /\ error' = "provider_bad_response" /\ attempt' = 0
        /\ UNCHANGED <<family, streamed, history, step, stop, ran, turn, calls, results, tries>>
    BY <1>3, <1>5 DEF Finish, config, batch
  <2>2. TypeOK'
    <3>1. "provider_bad_response" \in Errors
      BY DEF Errors, Statuses, StatusError
    <3>2. 0 \in 0 .. Retries + 1
      BY DEF LoopAssumption
    <3> QED
      BY <2>1, <3>1, <3>2 DEF IInv, TypeOK, Ended
  <2>3. FlowInv'
    BY <2>1 DEF IInv, FlowInv, Parsed, Distinct, Awaiting
  <2>4. RanInv'
    BY <2>1, SameRan DEF IInv, RanInv
  <2> QED
    BY <2>2, <2>3, <2>4 DEF IInv
<1>6. CASE ~ parsed.bad
  <2>1. /\ pc' = "answered" /\ error' = error /\ attempt' = 0 /\ tries' = 0 /\ results' = <<>>
        /\ UNCHANGED <<family, streamed, history, step, stop, ran>>
        /\ calls' = parsed.calls /\ turn' = turn \o AssistantMessage(answer, parsed.calls)
    BY <1>3, <1>6 DEF config
  <2>2. calls' \in Seq(CallRecords) /\ Parsed(calls')
    BY <1>4, <1>6, <2>1 DEF Parsed
  <2>3. turn' \in Seq(Messages)
    <3>1. AssistantMessage(answer, parsed.calls) \in Seq(Messages)
      BY <1>2, <2>1, <2>2, AssistantMessages
    <3> QED
      BY <1>1, <2>1, <3>1, ConcatProperties
  <2>4. TypeOK'
    <3>1. 0 \in 0 .. Retries + 1 /\ 0 \in 0 .. ToolRetries + 1
      BY DEF LoopAssumption
    <3>2. results' \in Seq(Messages) /\ Len(results') <= Len(calls')
      BY <2>1, <2>2
    <3> QED
      BY <2>1, <2>2, <2>3, <3>1, <3>2 DEF IInv, TypeOK, CallRecords
  <2>5. FlowInv'
    <3>1. Parsed(calls)'
      BY <2>2 DEF Parsed, Distinct
    <3> QED
      BY <1>1, <2>1, <3>1 DEF FlowInv, Awaiting
  <2>6. RanInv'
    BY <1>1, <2>1, NoneRan DEF RanInv
  <2> QED
    BY <2>4, <2>5, <2>6 DEF IInv
<1> QED
  BY <1>5, <1>6

LEMMA NextInv == ASSUME IInv, LoopAssumption, [Next]_vars PROVE IInv'
<1>1. CASE Loop
  BY <1>1, EndsBeforeStepStep, StartStepStep, BackoffEndsStep, AnsweredStep, RejectCallStep,
     RunCallStep, ToolsEndStep DEF Loop
<1>2. CASE ProviderReturns
  <2>1. CASE \E e \in Errors : ProviderFails(e)
    BY <2>1, ProviderFailsStep
  <2>2. CASE \E a \in Answers,
               cut \in IF streamed /\ family \in {"responses", "stored"} THEN BOOLEAN ELSE {FALSE} :
               ProviderAnswers(Answer(a[1], a[2], cut))
    <3>1. PICK a \in Answers, cut \in BOOLEAN : ProviderAnswers(Answer(a[1], a[2], cut))
      BY <2>2
    <3> QED
      BY <3>1, ProviderAnswersStep
  <2> QED
    BY <1>2, <2>1, <2>2 DEF ProviderReturns
<1>3. CASE ToolFinishes
  <2>1. CASE \E size \in ResultSizes : ToolReturns("ok", size)
    <3>1. PICK size \in ResultSizes : ToolReturns("ok", size)
      BY <2>1
    <3>2. size \in Nat /\ "ok" \in Outcomes
      BY DEF LoopAssumption, Outcomes
    <3> QED
      BY <3>1, <3>2, ToolReturnsStep
  <2>2. CASE \E outcome \in Outcomes \ {"ok"} : ToolReturns(outcome, ErrorSize)
    <3>1. PICK outcome \in Outcomes : ToolReturns(outcome, ErrorSize)
      BY <2>2
    <3>2. ErrorSize \in Nat
      BY DEF LoopAssumption
    <3> QED
      BY <3>1, <3>2, ToolReturnsStep
  <2> QED
    BY <1>3, <2>1, <2>2 DEF ToolFinishes
<1>4. CASE SetStop
  BY <1>4, SetStopStep
<1>5. CASE Cancel
  BY <1>5, CancelStep
<1>6. CASE UNCHANGED vars
  BY <1>6, Stutter
<1> QED
  BY <1>1, <1>2, <1>3, <1>4, <1>5, <1>6 DEF Next

(* The invariant holds in every state a run of the loop reaches. *)
THEOREM Invariance == Spec => []IInv
<1>1. Init => IInv
  BY InitInv, LoopAssumption
<1>2. IInv /\ [Next]_vars => IInv'
  BY NextInv, LoopAssumption
<1> QED
  BY <1>1, <1>2, PTL DEF Spec

(* Every variable of the loop keeps its type: the turn only ever holds
   messages, and a batch never has more results than calls. *)
THEOREM TypeCorrect == Spec => []TypeOK
<1>1. IInv => TypeOK
  BY DEF IInv
<1> QED
  BY <1>1, Invariance, PTL

(* A tool runs again for the same call only after it asked for that, at most
   ToolRetries times, and a call that failed validation never runs
   (_execute_tool_with_retry), whatever the provider answers, the tools
   return and the user stops. *)
THEOREM RetriesAreAsked == Spec => []NoBlindRetry
<1>1. IInv => NoBlindRetry
  BY DEF IInv, RanInv
<1> QED
  BY <1>1, Invariance, PTL

LEMMA BaselineFits == SystemBaseline \in Seq(Messages) /\ SystemBaseline # <<>> /\ Fits(SystemBaseline)
<1> DEFINE m == Message("system", <<>>, NoCall, Prefix)
<1>1. m \in Messages
  BY LoopAssumption DEF LoopAssumption, Message, Messages, Roles, NoCall, CallIds
<1>2. SystemBaseline = <<m>>
  BY DEF SystemBaseline
<1>3. Tokens(<<m>>) = Overhead + Prefix
  <2>1. Tokens(<<m>>) = Fixed(m) + m.size
    BY <1>1, TokensOne DEF Size
  <2>2. Fixed(m) = Overhead /\ m.size = Prefix
    BY BudgetAssumption DEF Fixed, Message, BudgetAssumption
  <2> QED
    BY <2>1, <2>2
<1>4. Fits(SystemBaseline)
  BY <1>2, <1>3, LoopAssumption DEF LoopAssumption, Fits
<1> HIDE DEF m
<1> QED
  BY <1>1, <1>2, <1>4

(* Every prompt the provider is given is within the budget and starts with
   the system baseline (build_context), for every history, every request and
   every size of the tools' results. *)
THEOREM PromptsFit == Spec => []PromptFits
<1>1. ASSUME TypeOK PROVE PromptFits
  <2>1. history \in Seq(Messages) /\ turn \in Seq(Messages)
    BY <1>1, LoopAssumption DEF TypeOK, LoopAssumption
  <2>2. GoodPrompt(BuildContext(SystemBaseline, history, turn), SystemBaseline)
    BY <2>1, BaselineFits, PromptIsGood
  <2> QED
    BY <2>2 DEF PromptFits, Prompts, GoodPrompt
<1> QED
  BY <1>1, TypeCorrect, PTL

(*--------------------------- the calls of the turn ------------------------*)

(* The messages of the turn before step n. *)
Coherent(t, n) ==
  /\ \A i \in DOMAIN t : Carries(t[i]) /\ \A id \in ToSet(t[i].sent) : id[1] < n
  /\ \A i, j \in DOMAIN t : ToSet(t[i].sent) \cap ToSet(t[j].calls) \subseteq ToSet(t[i].calls)

LEMMA CoherentConcat ==
  ASSUME NEW t \in Seq(Messages), NEW n \in Nat, Coherent(t, n),
         NEW u \in Seq(Messages), NEW next \in Nat, n <= next,
         \A i \in DOMAIN u : /\ Carries(u[i])
                             /\ \A id \in ToSet(u[i].sent) : n <= id[1] /\ id[1] < next,
         \A i, j \in DOMAIN u : ToSet(u[i].sent) \cap ToSet(u[j].calls) \subseteq ToSet(u[i].calls)
  PROVE  Coherent(t \o u, next)
<1> DEFINE w == t \o u
           In(i) == i \in DOMAIN t /\ w[i] = t[i]
           Out(i) == \E k \in DOMAIN u : w[i] = u[k]
<1>1. \A i \in DOMAIN w : In(i) \/ Out(i)
  <2> DEFINE a == Len(t)
             b == Len(u)
  <2>1. /\ a \in Nat /\ b \in Nat /\ w \in Seq(Messages) /\ Len(w) = a + b
        /\ DOMAIN t = 1 .. a /\ DOMAIN u = 1 .. b
        /\ \A k \in 1 .. a + b : w[k] = IF k <= a THEN t[k] ELSE u[k - a]
    BY ConcatProperties
  <2>2. DOMAIN w = 1 .. a + b
    <3> HIDE DEF w, a, b
    <3> QED
      BY <2>1
  <2> HIDE DEF w, a, b
  <2>3. ASSUME NEW i \in 1 .. a + b PROVE In(i) \/ Out(i)
    <3>1. CASE i <= a
      <4>1. i \in 1 .. a
        BY <2>1, <3>1
      <4> QED
        BY <2>1, <3>1, <4>1
    <3>2. CASE ~ (i <= a)
      <4>1. i - a \in 1 .. b
        BY <2>1, <3>2
      <4>2. w[i] = u[i - a]
        BY <2>1, <3>2
      <4> QED
        BY <2>1, <4>1, <4>2
    <3> QED
      BY <3>1, <3>2
  <2> QED
    BY <2>2, <2>3
<1> HIDE DEF w
<1>2. \A m \in Messages : \A id \in ToSet(m.sent) : id[1] \in Nat
  BY DEF Messages, CallIds, ToSet
<1>3. /\ \A i \in DOMAIN t : t[i] \in Messages /\ Carries(t[i]) /\ \A id \in ToSet(t[i].sent) : id[1] < n
      /\ \A i \in DOMAIN u : u[i] \in Messages
  BY DEF Coherent
<1>4. ASSUME NEW i \in DOMAIN w
      PROVE  Carries(w[i]) /\ \A id \in ToSet(w[i].sent) : id[1] < next
  <2>1. CASE In(i)
    BY <1>2, <1>3, <2>1
  <2>2. CASE Out(i)
    BY <2>2
  <2> QED
    BY <1>1, <2>1, <2>2
<1>5. \A i \in DOMAIN t : \A id \in ToSet(t[i].calls) : id[1] < n
  BY <1>3 DEF Carries
<1>6. \A i \in DOMAIN u : \A id \in ToSet(u[i].calls) : n <= id[1]
  BY DEF Carries
<1>7. \A id : ~ (id[1] \in Nat /\ n <= id[1] /\ id[1] < n)
  OBVIOUS
<1>8. ASSUME NEW i \in DOMAIN w, NEW j \in DOMAIN w, NEW id \in ToSet(w[i].sent) \cap ToSet(w[j].calls)
      PROVE  id \in ToSet(w[i].calls)
  <2>1. CASE In(i) /\ In(j)
    BY <1>8, <2>1 DEF Coherent
  <2>2. CASE Out(i) /\ Out(j)
    BY <1>8, <2>2
  <2>3. CASE In(i) /\ Out(j)
    BY <1>2, <1>3, <1>6, <1>7, <1>8, <2>3
  <2>4. CASE Out(i) /\ In(j)
    BY <1>2, <1>3, <1>5, <1>7, <1>8, <2>4
  <2> QED
    BY <1>1, <2>1, <2>2, <2>3, <2>4
<1> QED
  BY <1>4, <1>8 DEF Coherent, w

(* What may be in a prompt is as coherent as the turn it is built from. *)
LEMMA AllowedCoherent ==
  ASSUME NEW t \in Seq(Messages), NEW n \in Nat, Coherent(t, n)
  PROVE  Coherence(Allowed(t))
<1> DEFINE From(m) == \E i \in DOMAIN t : m.role = t[i].role /\ m.calls = t[i].calls
                                          /\ m.sent = t[i].sent /\ m.response = t[i].response
<1>1. \A m \in Allowed(t) : IsText(m) \/ From(m)
  BY DEF Allowed, Alike
<1>2. ASSUME NEW m, IsText(m)
      PROVE  m.role # "tool" /\ m.calls = <<>> /\ m.sent = <<>> /\ m.response = FALSE
  BY <1>2, TextsPlain DEF IsText
<1>3. ToSet(<<>>) = {}
  BY DEF ToSet
<1>4. ASSUME NEW m \in Allowed(t) PROVE Carries(m)
  <2>1. CASE IsText(m)
    BY <1>2, <1>3, <2>1 DEF Carries
  <2>2. CASE From(m)
    <3>1. PICK i \in DOMAIN t : m.role = t[i].role /\ m.calls = t[i].calls
                                /\ m.sent = t[i].sent /\ m.response = t[i].response
      BY <2>2
    <3>2. Carries(t[i])
      BY DEF Coherent
    <3> QED
      BY <3>1, <3>2 DEF Carries
  <2> QED
    BY <1>1, <2>1, <2>2
<1>5. ASSUME NEW m \in Allowed(t), NEW l \in Allowed(t)
      PROVE  ToSet(m.sent) \cap ToSet(l.calls) \subseteq ToSet(m.calls)
  <2>1. CASE IsText(m)
    BY <1>2, <1>3, <2>1
  <2>2. CASE IsText(l)
    BY <1>2, <1>3, <2>2
  <2>3. CASE From(m) /\ From(l)
    <3>1. PICK i \in DOMAIN t, j \in DOMAIN t :
            m.sent = t[i].sent /\ m.calls = t[i].calls /\ l.calls = t[j].calls
      BY <2>3
    <3>2. ToSet(t[i].sent) \cap ToSet(t[j].calls) \subseteq ToSet(t[i].calls)
      BY DEF Coherent
    <3> QED
      BY <3>1, <3>2
  <2> QED
    BY <1>1, <2>1, <2>2, <2>3
<1> QED
  BY <1>4, <1>5 DEF Coherence

(* The parsers keep calls that were in the answer, under their ids. *)
LEMMA ParsedFrom ==
  ASSUME NEW answer, answer.calls \in Seq(CallRecords), Distinct(answer.calls),
         NEW fam \in Families, NEW str \in BOOLEAN, ~ Parse(fam, str, answer).bad
  PROVE  \A k \in DOMAIN Parse(fam, str, answer).calls :
           \E j \in DOMAIN answer.calls : Parse(fam, str, answer).calls[k].id = answer.calls[j].id
<1> DEFINE cs == answer.calls
           x == Named(cs)
<1>1. NamedOf(x, cs, Len(cs)) /\ DOMAIN cs = 1 .. Len(cs)
  BY NamedAre
<1> HIDE DEF x
<1>2. \A k \in DOMAIN x : \E j \in DOMAIN cs : x[k].id = cs[j].id
  BY <1>1 DEF NamedOf
<1>3. CASE fam \in {"chat", "merged"}
  <2>1. Parse(fam, str, answer).calls = IF str THEN x ELSE cs
    BY <1>3 DEF Parse, ParseChat, Bad, Read, StreamCalls, x
  <2> QED
    BY <1>2, <2>1
<1>4. CASE fam = "messages"
  <2> DEFINE y == [i \in DOMAIN x |-> ToolUse(x[i])]
  <2>1. Parse(fam, str, answer).calls = y
    BY <1>4 DEF Parse, ParseMessages, Bad, Read, x
  <2>2. \A k \in DOMAIN x : ToolUse(x[k]).id = x[k].id
    <3> TAKE k \in DOMAIN x
    <3>1. x[k] \in CallRecords
      BY <1>1 DEF NamedOf
    <3> QED
      BY <3>1 DEF ToolUse, CallRecords
  <2>3. DOMAIN y = DOMAIN x /\ \A k \in DOMAIN x : y[k] = ToolUse(x[k])
    OBVIOUS
  <2> HIDE DEF y
  <2> QED
    BY <1>2, <2>1, <2>2, <2>3
<1>5. CASE fam \notin {"chat", "merged", "messages"}
  <2>1. Parse(fam, str, answer).calls = x
    BY <1>5 DEF Parse, ParseResponses, Bad, Read, x
  <2> QED
    BY <1>2, <2>1
<1> QED
  BY <1>3, <1>4, <1>5

(*------------------------- the invariant of the turn ----------------------*)

(* The turn ends with the message whose calls are the batch. *)
Asked(t) ==
  \/ calls = <<>> /\ Closed(t)
  \/ \E s \in Seq(Messages), m \in Messages :
       /\ t = s \o <<m>> /\ Closed(s)
       /\ m.role = "assistant" /\ m.calls = [i \in DOMAIN calls |-> calls[i].id]

ResultOf(m, call) == m.role = "tool" /\ m.of = call.id /\ Carries(m) /\ m.sent = <<>>

Before == {"step", "calling", "backoff"}
Within == {"answered", "tools", "running", "toolBackoff"}

(* Every call of the turn has its result behind it, but those of the batch
   that is under way. *)
TurnInv ==
  /\ pc \in Before => Closed(turn) /\ Coherent(turn, step)
  /\ pc \in Within => /\ Asked(turn) /\ Coherent(turn, step + 1)
                      /\ \A i \in DOMAIN results : ResultOf(results[i], calls[i])

LEMMA SameTurn ==
  ASSUME TurnInv, UNCHANGED <<turn, calls, results, step>>,
         \/ pc' \notin Before \cup Within
         \/ pc \in Before /\ pc' \in Before
         \/ pc \in Within /\ pc' \in Within
  PROVE  TurnInv'
<1>1. CASE pc' \notin Before \cup Within
  BY <1>1 DEF TurnInv
<1>2. CASE pc \in Before /\ pc' \in Before
  <2>1. pc' \notin Within
    BY <1>2 DEF Before, Within
  <2> QED
    BY <1>2, <2>1 DEF TurnInv
<1>3. CASE pc \in Within /\ pc' \in Within
  <2>1. pc' \notin Before
    BY <1>3 DEF Before, Within
  <2>2. Asked(turn)'
    BY <1>3 DEF TurnInv, Asked
  <2> QED
    BY <1>3, <2>1, <2>2 DEF TurnInv
<1> QED
  BY <1>1, <1>2, <1>3

LEMMA TurnInit == ASSUME LoopAssumption, Init PROVE TurnInv
<1>1. PICK size \in Requests : turn = <<Message("user", <<>>, NoCall, size)>>
  BY DEF Init
<1> DEFINE m == Message("user", <<>>, NoCall, size)
<1>2. m \in Texts
  BY TextType DEF LoopAssumption, Roles
<1>3. turn = <<m>> /\ pc = "step" /\ step = 1
  BY <1>1 DEF Init
<1> HIDE DEF m
<1>4. m \in Messages /\ Plain(m) /\ m.calls = <<>> /\ m.sent = <<>> /\ m.response = FALSE
  BY <1>2, TextsPlain DEF Texts
<1>5. turn \in Seq(Messages) /\ \A i \in DOMAIN turn : turn[i] = m
  BY <1>3, <1>4
<1>6. Closed(turn)
  BY <1>4, <1>5, PlainClosed
<1>7. Coherent(turn, 1)
  BY <1>4, <1>5 DEF Coherent, Carries, ToSet
<1> QED
  BY <1>3, <1>6, <1>7 DEF TurnInv, Within

LEMMA OneMoreResult ==
  ASSUME IInv, LoopAssumption, TurnInv, pc \in Within, pc' \in Within, NEW size \in Nat,
         Next1 \in DOMAIN calls,
         results' = Append(results, ToolMessage(Call, size)),
         UNCHANGED <<turn, calls, step>>
  PROVE  TurnInv'
<1> DEFINE m == ToolMessage(Call, size)
           n == Len(results)
<1>1. /\ n \in Nat /\ results \in Seq(Messages) /\ calls \in Seq(CallRecords)
      /\ DOMAIN results = 1 .. n /\ Call = calls[n + 1] /\ Call \in CallRecords
  <2>1. results \in Seq(Messages) /\ calls \in Seq(CallRecords)
    BY DEF IInv, TypeOK, CallRecords
  <2>2. Call = calls[n + 1] /\ n + 1 \in DOMAIN calls
    BY DEF Call, Next1
  <2> QED
    BY <2>1, <2>2
<1>2. m \in Messages
  BY <1>1, ToolMessageType
<1>3. ResultOf(m, Call)
  BY DEF ResultOf, ToolMessage, Message, Carries, ToSet
<1>4. results' = Append(results, m)
  OBVIOUS
<1> HIDE DEF m, n
<1>5. /\ DOMAIN results' = 1 .. n + 1 /\ results'[n + 1] = m
      /\ \A i \in 1 .. n : results'[i] = results[i]
  BY <1>1, <1>2, <1>4, AppendProperties DEF n
<1>6. \A i \in 1 .. n + 1 : i \in 1 .. n \/ i = n + 1
  BY <1>1
<1>7. \A i \in DOMAIN results' : ResultOf(results'[i], calls[i])
  BY <1>1, <1>3, <1>5, <1>6 DEF TurnInv
<1>8. Asked(turn)'
  BY DEF TurnInv, Asked
<1>9. pc' \notin Before
  BY DEF Before, Within
<1> QED
  BY <1>7, <1>8, <1>9 DEF TurnInv

(* The results of the batch answer its calls. *)
LEMMA ToolsEndTurn == ASSUME IInv, LoopAssumption, TurnInv, ToolsEnd PROVE TurnInv'
<1> DEFINE n == Len(results)
<1>1. /\ turn \in Seq(Messages) /\ results \in Seq(Messages) /\ calls \in Seq(CallRecords)
      /\ n \in Nat /\ DOMAIN results = 1 .. n /\ step \in Nat /\ step + 1 \in Nat
  BY DEF IInv, TypeOK, CallRecords
<1>2. Len(calls) = n /\ DOMAIN calls = 1 .. n
  BY <1>1 DEF IInv, TypeOK, ToolsEnd, Next1
<1>3. turn' = turn \o results /\ step' = step + 1 /\ pc' = "step" /\ pc = "tools"
  BY DEF ToolsEnd
<1>4. /\ Asked(turn) /\ Coherent(turn, step + 1)
      /\ \A i \in 1 .. n : ResultOf(results[i], calls[i])
  BY <1>1, <1>3 DEF TurnInv, Within
<1> HIDE DEF n
<1>5. Coherent(turn \o results, step + 1)
  <2>1. \A i \in DOMAIN results :
          Carries(results[i]) /\ results[i].sent = <<>> /\ ToSet(results[i].sent) = {}
    <3>1. ToSet(<<>>) = {}
      BY DEF ToSet
    <3> QED
      BY <1>1, <1>4, <3>1 DEF ResultOf
  <2>2. /\ \A i \in DOMAIN results :
             /\ Carries(results[i])
             /\ \A id \in ToSet(results[i].sent) : step + 1 <= id[1] /\ id[1] < step + 1
        /\ \A i, j \in DOMAIN results :
             ToSet(results[i].sent) \cap ToSet(results[j].calls) \subseteq ToSet(results[i].calls)
    BY <2>1
  <2>3. step + 1 <= step + 1
    BY <1>1
  <2> QED
    BY <1>1, <1>4, <2>2, <2>3, CoherentConcat
<1>6. Closed(turn \o results)
  <2>1. CASE calls = <<>> /\ Closed(turn)
    <3>1. n = 0
      BY <1>2, <2>1
    <3>2. results = <<>>
      BY <1>1, <3>1 DEF n
    <3> QED
      BY <1>1, <2>1, <3>2
  <2>2. CASE \E s \in Seq(Messages), m \in Messages :
               /\ turn = s \o <<m>> /\ Closed(s)
               /\ m.role = "assistant" /\ m.calls = [i \in DOMAIN calls |-> calls[i].id]
    <3>1. PICK s \in Seq(Messages), m \in Messages :
               /\ turn = s \o <<m>> /\ Closed(s)
               /\ m.role = "assistant" /\ m.calls = [i \in DOMAIN calls |-> calls[i].id]
      BY <2>2
    <3>2. /\ m.calls \in Seq(CallIds) /\ DOMAIN m.calls = 1 .. n
          /\ \A i \in 1 .. n : m.calls[i] = calls[i].id
      BY <1>2, <3>1 DEF Messages
    <3>3. Closed(<<m>> \o results) /\ <<m>> \o results \in Seq(Messages)
      <4>1. CASE n = 0
        <5>1. results = <<>> /\ m.calls = <<>>
          <6>1. results = <<>>
            BY <1>1, <4>1 DEF n
          <6>2. DOMAIN m.calls = {}
            BY <3>2, <4>1
          <6>3. m.calls = <<>>
            <7> DEFINE c == m.calls
            <7>1. c \in Seq(CallIds) /\ DOMAIN c = {}
              BY <3>2, <6>2
            <7> HIDE DEF c
            <7>2. c = <<>>
              BY <7>1
            <7> QED
              BY <7>2 DEF c
          <6> QED
            BY <6>1, <6>3
        <5>2. <<m>> \o results = <<m>> /\ <<m>> \in Seq(Messages)
          BY <5>1
        <5>3. \A i \in DOMAIN <<m>> : Plain(<<m>>[i])
          BY <3>1, <5>1 DEF Plain, HasCalls
        <5> QED
          BY <5>2, <5>3, PlainClosed
      <4>2. CASE n # 0
        <5>1. HasCalls(m)
          <6>1. 1 \in DOMAIN m.calls
            BY <1>1, <3>2, <4>2
          <6> QED
            BY <3>1, <6>1 DEF HasCalls
        <5>2. \A i \in DOMAIN results : results[i].role = "tool" /\ results[i].of = m.calls[i]
          BY <1>1, <1>4, <3>2 DEF ResultOf
        <5>3. \A i \in DOMAIN results : m.calls[i] \in ToSet(m.calls)
          BY <1>1, <3>2 DEF ToSet
        <5>4. \A id \in ToSet(m.calls) : \E i \in DOMAIN results : results[i].of = id
          BY <1>1, <3>2, <5>2 DEF ToSet
        <5> QED
          BY <1>1, <5>1, <5>2, <5>3, <5>4, ExchangeClosed
      <4> QED
        BY <4>1, <4>2
    <3>4. turn \o results = s \o (<<m>> \o results)
      <4> DEFINE o == <<m>>
      <4>1. o \in Seq(Messages)
        OBVIOUS
      <4> HIDE DEF o
      <4>2. results \in Seq(Messages) /\ s \in Seq(Messages)
        BY <1>1
      <4>3. (s \o o) \o results = s \o (o \o results)
        BY <4>1, <4>2, ConcatAssociative
      <4> QED
        BY <3>1, <4>3 DEF o
    <3> QED
      BY <3>1, <3>3, <3>4, ClosedConcat
  <2> QED
    BY <1>4, <2>1, <2>2 DEF Asked
<1>7. pc' \notin Within
  BY <1>3 DEF Within
<1> QED
  BY <1>3, <1>5, <1>6, <1>7 DEF TurnInv

IdsOf(cs) == [i \in DOMAIN cs |-> cs[i].id]

LEMMA IdsType ==
  ASSUME NEW cs \in Seq(CallRecords)
  PROVE  /\ IdsOf(cs) \in Seq(CallIds) /\ DOMAIN IdsOf(cs) = DOMAIN cs
         /\ \A i \in DOMAIN cs : IdsOf(cs)[i] = cs[i].id
<1> DEFINE n == Len(cs)
<1>1. n \in Nat /\ DOMAIN cs = 1 .. n /\ \A i \in 1 .. n : cs[i].id \in CallIds
  <2>1. \A i \in DOMAIN cs : cs[i] \in CallRecords
    OBVIOUS
  <2> QED
    BY <2>1 DEF CallRecords
<1> HIDE DEF n
<1>2. IdsOf(cs) = [i \in 1 .. n |-> cs[i].id]
  BY <1>1 DEF IdsOf
<1> DEFINE y == IdsOf(cs)
<1>3. y \in [1 .. n -> CallIds]
  BY <1>1, <1>2
<1>4. DOMAIN y = 1 .. n /\ \A i \in 1 .. n : y[i] = cs[i].id
  BY <1>2
<1> HIDE DEF y
<1>5. y \in Seq(CallIds)
  BY <1>1, <1>3
<1> QED
  BY <1>1, <1>4, <1>5 DEF y

(* The message of an answer carries the parsed calls, and all that were sent
   when the service keeps the response. *)
LEMMA AssistantParts ==
  ASSUME NEW answer, answer.text \in Nat, answer.calls \in Seq(CallRecords),
         NEW parsed \in Seq(CallRecords)
  PROVE  \/ AssistantMessage(answer, parsed) = <<>> /\ parsed = <<>>
         \/ \E m \in Messages :
              /\ AssistantMessage(answer, parsed) = <<m>>
              /\ m.role = "assistant" /\ m.calls = IdsOf(parsed)
              /\ m.sent \in {IdsOf(parsed), IdsOf(answer.calls)}
<1> DEFINE response == family \in {"responses", "stored"}
           sent == IF response THEN IdsOf(answer.calls) ELSE IdsOf(parsed)
           message == [Message("assistant", IdsOf(parsed), NoCall, answer.text) EXCEPT
                         !.sent = sent, !.response = response]
<1>1. IdsOf(parsed) \in Seq(CallIds) /\ IdsOf(answer.calls) \in Seq(CallIds)
  BY IdsType
<1>2. sent \in Seq(CallIds) /\ sent \in {IdsOf(parsed), IdsOf(answer.calls)} /\ response \in BOOLEAN
  BY <1>1
<1>3. AssistantMessage(answer, parsed) =
        IF answer.text = 0 /\ parsed = <<>> /\ ~ response THEN <<>> ELSE <<message>>
  BY DEF AssistantMessage, IdsOf
<1> HIDE DEF response, sent
<1>4. message \in Messages
  BY <1>1, <1>2, AssistantType
<1>5. message.role = "assistant" /\ message.calls = IdsOf(parsed) /\ message.sent = sent
  BY DEF Message
<1> HIDE DEF message
<1> QED
  BY <1>2, <1>3, <1>4, <1>5

LEMMA ProviderAnswersTurn ==
  ASSUME IInv, LoopAssumption, TurnInv, NEW a \in Answers, NEW cut \in BOOLEAN,
         ProviderAnswers(Answer(a[1], a[2], cut))
  PROVE  TurnInv'
<1> DEFINE answer == Answer(a[1], a[2], cut)
           parsed == Parse(family, streamed, answer)
<1>1. /\ a[1] \in Nat /\ a[2] \in Seq(Forms) /\ step \in Nat /\ step + 1 \in Nat
      /\ pc = "calling" /\ family \in Families /\ streamed \in BOOLEAN
      /\ turn \in Seq(Messages)
  BY DEF LoopAssumption, ProviderAnswers, IInv, TypeOK
<1>2. answer.text \in Nat /\ answer.calls \in Seq(CallRecords) /\ Distinct(answer.calls)
  BY <1>1, AnswerCalls
<1>3. \A j \in DOMAIN answer.calls : answer.calls[j].id = <<step, j>>
  BY DEF Answer
<1> HIDE DEF answer
<1>4. /\ step' = step
      /\ IF parsed.bad
         THEN Finish("provider_bad_response") /\ UNCHANGED <<turn, batch>>
         ELSE /\ turn' = turn \o AssistantMessage(answer, parsed.calls)
              /\ calls' = parsed.calls /\ results' = <<>> /\ pc' = "answered"
  BY DEF ProviderAnswers, answer
<1>5. ~ parsed.bad =>
        /\ parsed.calls \in Seq(CallRecords)
        /\ \A k \in DOMAIN parsed.calls : \E j \in DOMAIN answer.calls :
             parsed.calls[k].id = answer.calls[j].id
  BY <1>1, <1>2, ParseGood, ParsedFrom DEF Parsed
<1> HIDE DEF parsed
<1>6. CASE parsed.bad
  <2>1. pc' = "done" /\ UNCHANGED <<turn, calls, results, step>>
    BY <1>4, <1>6 DEF Finish, batch
  <2>2. pc' \notin Before \cup Within
    BY <2>1 DEF Before, Within
  <2> QED
    BY <2>1, <2>2, SameTurn
<1>7. CASE ~ parsed.bad
  <2> DEFINE new == AssistantMessage(answer, parsed.calls)
             ids == IdsOf(parsed.calls)
             all == IdsOf(answer.calls)
  <2>1. Closed(turn) /\ Coherent(turn, step)
    BY <1>1 DEF TurnInv, Before
  <2>2. /\ turn' = turn \o new /\ calls' = parsed.calls /\ results' = <<>> /\ pc' = "answered"
    BY <1>4, <1>7
  <2>3. /\ ids \in Seq(CallIds) /\ all \in Seq(CallIds)
        /\ \A id \in ToSet(all) : id[1] = step
        /\ ToSet(ids) \subseteq ToSet(all)
    <3>1. /\ ids \in Seq(CallIds) /\ DOMAIN ids = DOMAIN parsed.calls
          /\ \A k \in DOMAIN parsed.calls : ids[k] = parsed.calls[k].id
      BY <1>5, <1>7, IdsType
    <3>2. /\ all \in Seq(CallIds) /\ DOMAIN all = DOMAIN answer.calls
          /\ \A k \in DOMAIN answer.calls : all[k] = answer.calls[k].id
      BY <1>2, IdsType
    <3> HIDE DEF ids, all
    <3>3. \A id \in ToSet(all) : id[1] = step
      BY <1>3, <3>2 DEF ToSet
    <3>4. ToSet(ids) \subseteq ToSet(all)
      BY <1>5, <1>7, <3>1, <3>2 DEF ToSet
    <3> QED
      BY <3>1, <3>2, <3>3, <3>4
  <2>4. \/ new = <<>> /\ parsed.calls = <<>>
        \/ \E m \in Messages : /\ new = <<m>> /\ m.role = "assistant" /\ m.calls = ids
                               /\ m.sent \in {ids, all}
    BY <1>2, <1>5, <1>7, AssistantParts
  <2> HIDE DEF new, ids, all
  <2>5. Asked(turn)' /\ Coherent(turn \o new, step + 1)
    <3>1. CASE new = <<>> /\ parsed.calls = <<>>
      <4>1. turn \o new = turn
        BY <1>1, <3>1
      <4>2. Coherent(turn \o new, step + 1)
        <5>1. /\ \A i \in DOMAIN new : FALSE
              /\ new \in Seq(Messages) /\ step <= step + 1
          BY <1>1, <3>1
        <5> QED
          BY <1>1, <2>1, <5>1, CoherentConcat
      <4> QED
        BY <2>1, <2>2, <3>1, <4>1, <4>2 DEF Asked
    <3>2. CASE \E m \in Messages : /\ new = <<m>> /\ m.role = "assistant" /\ m.calls = ids
                                   /\ m.sent \in {ids, all}
      <4>1. PICK m \in Messages : /\ new = <<m>> /\ m.role = "assistant" /\ m.calls = ids
                                  /\ m.sent \in {ids, all}
        BY <3>2
      <4>2. new \in Seq(Messages) /\ \A i \in DOMAIN new : new[i] = m
        BY <4>1
      <4>3. Carries(m) /\ \A id \in ToSet(m.sent) : step <= id[1] /\ id[1] < step + 1
        <5>1. ToSet(m.calls) \subseteq ToSet(m.sent)
          BY <2>3, <4>1
        <5>2. \A id \in ToSet(m.sent) : id[1] = step
          BY <2>3, <4>1
        <5> QED
          BY <1>1, <4>1, <5>1, <5>2 DEF Carries
      <4>4. Coherent(turn \o new, step + 1)
        <5>1. /\ \A i \in DOMAIN new :
                   /\ Carries(new[i])
                   /\ \A id \in ToSet(new[i].sent) : step <= id[1] /\ id[1] < step + 1
              /\ \A i, j \in DOMAIN new :
                   ToSet(new[i].sent) \cap ToSet(new[j].calls) \subseteq ToSet(new[i].calls)
              /\ step <= step + 1
          BY <1>1, <4>2, <4>3
        <5> QED
          BY <1>1, <2>1, <4>2, <5>1, CoherentConcat
      <4>5. m.calls = [i \in DOMAIN calls' |-> calls'[i].id]
        BY <2>2, <4>1 DEF ids, IdsOf
      <4>6. turn' = turn \o <<m>>
        BY <2>2, <4>1
      <4> QED
        BY <1>1, <2>1, <4>1, <4>4, <4>5, <4>6 DEF Asked
    <3> QED
      BY <2>4, <3>1, <3>2
  <2>6. pc' \notin Before
    BY <2>2 DEF Before
  <2>7. \A i \in DOMAIN results' : FALSE
    BY <2>2
  <2> QED
    BY <1>4, <2>2, <2>5, <2>6, <2>7 DEF TurnInv
<1> QED
  BY <1>6, <1>7

LEMMA ToolReturnsTurn ==
  ASSUME IInv, LoopAssumption, TurnInv, NEW outcome, NEW size \in Nat, ToolReturns(outcome, size)
  PROVE  TurnInv'
<1>1. pc = "running" /\ UNCHANGED <<turn, calls, step>> /\ pc \in Within
  BY DEF ToolReturns, Within
<1>2. CASE RetriesTool(outcome)
  <2>1. pc' = "toolBackoff" /\ UNCHANGED results
    BY <1>2 DEF ToolReturns
  <2>2. pc' \in Within
    BY <2>1 DEF Within
  <2> QED
    BY <1>1, <2>1, <2>2, SameTurn
<1>3. CASE ~ RetriesTool(outcome)
  <2>1. results' = Append(results, ToolMessage(Call, size)) /\ pc' = "tools"
    BY <1>3 DEF ToolReturns
  <2>2. pc' \in Within
    BY <2>1 DEF Within
  <2>3. Next1 \in DOMAIN calls
    BY <1>1 DEF IInv, FlowInv
  <2> QED
    BY <1>1, <2>1, <2>2, <2>3, OneMoreResult
<1> QED
  BY <1>2, <1>3

LEMMA RejectCallTurn == ASSUME IInv, LoopAssumption, TurnInv, RejectCall PROVE TurnInv'
<1>1. /\ pc = "tools" /\ pc' = pc /\ UNCHANGED <<turn, calls, step>>
      /\ results' = Append(results, ToolMessage(Call, ErrorSize)) /\ Next1 <= Len(calls)
  BY DEF RejectCall
<1>2. pc \in Within /\ pc' \in Within
  BY <1>1 DEF Within
<1>3. Next1 \in DOMAIN calls
  <2>1. calls \in Seq(CallRecords) /\ results \in Seq(Messages)
    BY DEF IInv, TypeOK, CallRecords
  <2> QED
    BY <1>1, <2>1 DEF Next1
<1>4. ErrorSize \in Nat
  BY DEF LoopAssumption
<1> QED
  BY <1>1, <1>2, <1>3, <1>4, OneMoreResult

LEMMA TurnStep == ASSUME IInv, LoopAssumption, TurnInv, [Next]_vars PROVE TurnInv'
<1> DEFINE Same == UNCHANGED <<turn, calls, results, step>>
           Moves == \/ pc' \notin Before \cup Within
                    \/ pc \in Before /\ pc' \in Before
                    \/ pc \in Within /\ pc' \in Within
<1>1. CASE EndsBeforeStep \/ StartStep \/ BackoffEnds \/ Answered \/ RunCall \/ SetStop \/ Cancel
  <2>1. Same
    BY <1>1 DEF EndsBeforeStep, StartStep, BackoffEnds, Answered, RunCall, SetStop, Cancel, batch
  <2>2. Moves
    BY <1>1 DEF EndsBeforeStep, StartStep, BackoffEnds, Answered, RunCall, SetStop, Cancel,
                Finish, Before, Within
  <2> QED
    BY <2>1, <2>2, SameTurn
<1>2. CASE RejectCall
  BY <1>2, RejectCallTurn
<1>3. CASE ToolsEnd
  BY <1>3, ToolsEndTurn
<1>4. CASE ProviderReturns
  <2>1. CASE \E e \in Errors : ProviderFails(e)
    <3>1. PICK e \in Errors : ProviderFails(e)
      BY <2>1
    <3>2. Same
      BY <3>1 DEF ProviderFails, batch
    <3>3. Moves
      BY <3>1 DEF ProviderFails, Finish, Before, Within
    <3> QED
      BY <3>2, <3>3, SameTurn
  <2>2. CASE \E a \in Answers,
               cut \in IF streamed /\ family \in {"responses", "stored"} THEN BOOLEAN ELSE {FALSE} :
               ProviderAnswers(Answer(a[1], a[2], cut))
    <3>1. PICK a \in Answers, cut \in BOOLEAN : ProviderAnswers(Answer(a[1], a[2], cut))
      BY <2>2
    <3> QED
      BY <3>1, ProviderAnswersTurn
  <2> QED
    BY <1>4, <2>1, <2>2 DEF ProviderReturns
<1>5. CASE ToolFinishes
  <2>1. PICK outcome \in Outcomes, size \in Nat : ToolReturns(outcome, size)
    BY <1>5 DEF ToolFinishes, Outcomes, LoopAssumption
  <2> QED
    BY <2>1, ToolReturnsTurn
<1>6. CASE UNCHANGED vars
  BY <1>6, SameTurn DEF vars, batch
<1> QED
  BY <1>1, <1>2, <1>3, <1>4, <1>5, <1>6 DEF Next, Loop

(* Every request of a run pairs calls and results as the services demand
   (_sanitize_transcript, _serialize_input, _serialize_messages), whatever
   the history is, however it is windowed and the turn cut (build_context),
   and whatever the provider answers and the parsers drop of it. *)
THEOREM PayloadsArePaired == Spec => []PayloadIsPaired
<1>1. Init => TurnInv
  BY TurnInit, LoopAssumption
<1>2. IInv /\ TurnInv /\ [Next]_vars => TurnInv'
  BY TurnStep, LoopAssumption
<1>3. ASSUME IInv, TurnInv PROVE PayloadIsPaired
  <2>1. SUFFICES ASSUME pc = "calling"
                 PROVE  Paired(Request(family, BuildContext(SystemBaseline, history, turn)),
                               CallsOf(BuildContext(SystemBaseline, history, turn)))
    BY DEF PayloadIsPaired, Prompts, CallsOf
  <2>2. /\ turn \in Seq(Messages) /\ step \in Nat /\ family \in Families
        /\ Closed(turn) /\ Coherent(turn, step)
    BY <1>3, <2>1 DEF IInv, TypeOK, TurnInv, Before
  <2>3. history \in Seq(Texts)
    <3>1. history \in Seq(Messages) /\ \A m \in ToSet(history) : IsText(m)
      BY <1>3, LoopAssumption DEF IInv, TypeOK, LoopAssumption
    <3>2. \A i \in DOMAIN history : history[i] \in Messages /\ history[i] \in ToSet(history)
      BY <3>1 DEF ToSet
    <3>3. \A i \in DOMAIN history : history[i] \in Texts
      BY <3>1, <3>2 DEF Texts
    <3> QED
      BY <3>1, <3>3
  <2>4. SystemBaseline \in Seq(Texts) /\ SystemBaseline # <<>>
    <3> DEFINE m == Message("system", <<>>, NoCall, Prefix)
    <3>1. m \in Texts
      BY TextType, LoopAssumption DEF LoopAssumption, Roles
    <3>2. SystemBaseline = <<m>>
      BY DEF SystemBaseline
    <3> HIDE DEF m
    <3> QED
      BY <3>1, <3>2
  <2>5. Fits(SystemBaseline)
    BY BaselineFits
  <2> DEFINE A == Allowed(turn)
             p == BuildContext(SystemBaseline, history, turn)
  <2>6. p \in ClosedOver(A)
    BY <2>2, <2>3, <2>4, <2>5, PromptClosed
  <2>7. A \in SUBSET Messages /\ Texts \subseteq A
    BY <2>2, AllOf
  <2>8. Coherence(A)
    BY <2>2, AllowedCoherent
  <2> HIDE DEF A, p
  <2>9. Paired(Request(family, p), CallsOf(p))
    BY <2>2, <2>6, <2>7, <2>8, RequestPaired
  <2> QED
    BY <2>9 DEF p
<1> QED
  BY <1>1, <1>2, <1>3, Invariance, PTL DEF Spec
=============================================================================
