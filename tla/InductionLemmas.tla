---------------------------- MODULE InductionLemmas ---------------------------
(***************************************************************************)
(* Induction over data, for the proofs of this project.  The library       *)
(* states induction for an arbitrary predicate, which its provers cannot   *)
(* instantiate; here it is stated for a set of numbers, from the fact that *)
(* the natural numbers are well-founded.  From it follow that a function   *)
(* that is defined by recursion over 0 .. N exists, and what FlattenSeq    *)
(* does with the last of its sequences.                                    *)
(***************************************************************************)
EXTENDS WellFoundedInduction, SequencesExt, TLAPS

(* The natural numbers are well-founded.                                   *)
LEMMA LessThanWellFounded ==
    IsWellFoundedOn({p \in Nat \X Nat : p[1] < p[2]}, Nat)
  <1>1. OpToRel(<, Nat) = {p \in Nat \X Nat : p[1] < p[2]}
    BY DEF OpToRel
  <1> QED  BY NatLessThanWellFounded, <1>1

(* A set that holds 0 and the successors of its numbers holds them all.    *)
LEMMA SetInduction ==
    ASSUME NEW S, 0 \in S, \A n \in Nat : n \in S => n + 1 \in S
    PROVE  Nat \subseteq S
  <1> DEFINE T == Nat \ S
             R == {p \in Nat \X Nat : p[1] < p[2]}
  <1>1. SUFFICES ASSUME T # {} PROVE FALSE
    OBVIOUS
  <1>2. PICK x \in T : \A y \in T : ~ (<<y, x>> \in R)
    <2> HIDE DEF R
    <2>1. T \subseteq Nat
      OBVIOUS
    <2>2. IsWellFoundedOn(R, Nat)
      BY LessThanWellFounded DEF R
    <2> HIDE DEF T
    <2> QED  BY <1>1, <2>1, <2>2, WFMin
  <1>3. x \in Nat /\ x # 0 /\ x - 1 \in Nat
    OBVIOUS
  <1>4. <<x - 1, x>> \in R
    BY <1>3
  <1>5. x - 1 \notin T
    <2> HIDE DEF R, T
    <2> QED  BY <1>2, <1>4
  <1> QED  BY <1>3, <1>5

(* The same over 0 .. N.                                                   *)
LEMMA IntervalInduction ==
    ASSUME NEW N \in Nat, NEW S,
           0 \in S, \A n \in 0 .. N - 1 : n \in S => n + 1 \in S
    PROVE  0 .. N \subseteq S
  <1> DEFINE T == {n \in Nat : n <= N => n \in S}
  <1>1. 0 \in T
    OBVIOUS
  <1>2. \A n \in Nat : n \in T => n + 1 \in T
    OBVIOUS
  <1>3. Nat \subseteq T
    <2> HIDE DEF T
    <2> QED  BY <1>1, <1>2, SetInduction
  <1> QED  BY <1>3

(* A set of numbers has a least one; below a bound, a greatest one too.    *)
LEMMA LeastNumber ==
    ASSUME NEW T \in SUBSET Nat, T # {}
    PROVE  \E m \in T : \A n \in T : m <= n
  <1> DEFINE R == {p \in Nat \X Nat : p[1] < p[2]}
  <1>1. PICK x \in T : \A y \in T : ~ (<<y, x>> \in R)
    <2> HIDE DEF R
    <2>1. IsWellFoundedOn(R, Nat)
      BY LessThanWellFounded DEF R
    <2> QED  BY <2>1, WFMin
  <1>2. ASSUME NEW y \in T PROVE x <= y
    <2>1. ~ (y < x)
      BY <1>1
    <2> QED  BY <2>1
  <1> QED  BY <1>2

(* A set of numbers that are at most N, if not empty, has a greatest one.   *)
LEMMA GreatestNumber ==
    ASSUME NEW N \in Nat, NEW T \in SUBSET (0 .. N), T # {}
    PROVE  \E m \in T : \A n \in T : n <= m
  <1> DEFINE U == {u \in Nat : \A n \in T : n <= u}
  <1>1. U \in SUBSET Nat /\ N \in U
    OBVIOUS
  <1>2. PICK m \in U : \A u \in U : m <= u
    <2> HIDE DEF U
    <2> QED  BY <1>1, LeastNumber
  <1>3. m \in Nat /\ \A n \in T : n <= m
    BY <1>2
  <1>4. m \in T
    <2> SUFFICES ASSUME m \notin T PROVE FALSE
      OBVIOUS
    <2>1. \A n \in T : n \in Nat /\ n < m
      BY <1>3
    <2>2. m - 1 \in Nat /\ \A n \in T : n <= m - 1
      <3>1. PICK t \in T : TRUE
        OBVIOUS
      <3>2. m > 0
        BY <1>3, <2>1, <3>1
      <3> HIDE DEF U
      <3> QED  BY <1>3, <2>1, <3>2
    <2>3. m - 1 \in U
      BY <2>2
    <2>4. m <= m - 1
      <3> HIDE DEF U
      <3> QED  BY <1>2, <2>3
    <2> QED  BY <1>3, <2>4
  <1> QED  BY <1>3, <1>4

-----------------------------------------------------------------------------
(* f starts at base and follows the functions step[1], ..., step[N], which *)
(* do not lead out of S.                                                   *)
Iterates(f, N, base, step) ==
    f[0] = base /\ \A n \in 1 .. N : f[n] = step[n][f[n - 1]]
StepsWithin(step, N, S) == \A n \in 1 .. N : \A v \in S : step[n][v] \in S

(* A recursion over 0 .. N defines a function.                             *)
LEMMA RecursionExists ==
    ASSUME NEW N \in Nat, NEW S, NEW base \in S,
           NEW step, StepsWithin(step, N, S)
    PROVE  \E f \in [0 .. N -> S] : Iterates(f, N, base, step)
  <1> USE DEF StepsWithin, Iterates
  <1> DEFINE Upto(n, g) == /\ g \in [0 .. n -> S]
                           /\ g[0] = base
                           /\ \A i \in 1 .. n : g[i] = step[i][g[i - 1]]
             Good == {n \in 0 .. N : \E g : Upto(n, g)}
  <1>1. 0 \in Good
    <2> DEFINE g == [i \in 0 .. 0 |-> base]
    <2>1. g \in [0 .. 0 -> S] /\ g[0] = base
      OBVIOUS
    <2>2. Upto(0, g)
      <3> HIDE DEF g
      <3> QED  BY <2>1
    <2> HIDE DEF Upto
    <2> QED  BY <2>2
  <1>2. ASSUME NEW n \in 0 .. N - 1, n \in Good
        PROVE  n + 1 \in Good
    <2>1. PICK g : Upto(n, g)
      BY <1>2
    <2> DEFINE h == [i \in 0 .. (n + 1) |->
                        IF i = n + 1 THEN step[n + 1][g[n]] ELSE g[i]]
    <2>2. step[n + 1][g[n]] \in S
      BY <2>1
    <2>3. h \in [0 .. (n + 1) -> S]
      BY <2>1, <2>2
    <2>4. h[0] = base
      BY <2>1
    <2>5. ASSUME NEW i \in 1 .. (n + 1)
          PROVE  h[i] = step[i][h[i - 1]]
      <3>1. CASE i = n + 1
        BY <3>1, <2>1
      <3>2. CASE i # n + 1
        BY <3>2, <2>1
      <3> QED  BY <3>1, <3>2
    <2>6. Upto(n + 1, h)
      BY <2>3, <2>4, <2>5
    <2> HIDE DEF Upto, h
    <2> QED  BY <2>6
  <1>3. N \in Good
    <2> HIDE DEF Good
    <2> QED  BY <1>1, <1>2, IntervalInduction
  <1> QED  BY <1>3

(* What holds at the start and is kept by every step holds at all places.  *)
StaysWithin(f, N, S) ==
    f[0] \in S /\ \A n \in 1 .. N : f[n - 1] \in S => f[n] \in S

(* What starts within S and stays within it from step to step is within it. *)
LEMMA RecursionWithin ==
    ASSUME NEW N \in Nat, NEW S, NEW f, StaysWithin(f, N, S)
    PROVE  \A n \in 0 .. N : f[n] \in S
  <1> USE DEF StaysWithin
  <1> DEFINE T == {n \in 0 .. N : f[n] \in S}
  <1>1. 0 \in T
    OBVIOUS
  <1>2. ASSUME NEW n \in 0 .. N - 1, n \in T
        PROVE  n + 1 \in T
    <2>1. n + 1 \in 1 .. N /\ f[(n + 1) - 1] \in S
      BY <1>2
    <2> QED  BY <2>1
  <1>3. 0 .. N \subseteq T
    <2> HIDE DEF T
    <2> QED  BY <1>1, <1>2, IntervalInduction
  <1> QED  BY <1>3

(* Two functions that start alike and go on alike are alike.               *)
GoOnAlike(f, g, N) ==
    f[0] = g[0] /\ \A n \in 1 .. N : f[n - 1] = g[n - 1] => f[n] = g[n]

(* Two recursions that start and go on alike are the same.                  *)
LEMMA RecursionUnique ==
    ASSUME NEW N \in Nat, NEW f, NEW g, GoOnAlike(f, g, N)
    PROVE  \A n \in 0 .. N : f[n] = g[n]
  <1> USE DEF GoOnAlike
  <1> DEFINE T == {n \in 0 .. N : f[n] = g[n]}
  <1>1. 0 \in T
    OBVIOUS
  <1>2. ASSUME NEW n \in 0 .. N - 1, n \in T
        PROVE  n + 1 \in T
    <2>1. n + 1 \in 1 .. N /\ f[(n + 1) - 1] = g[(n + 1) - 1]
      BY <1>2
    <2> QED  BY <2>1
  <1>3. 0 .. N \subseteq T
    <2> HIDE DEF T
    <2> QED  BY <1>1, <1>2, IntervalInduction
  <1> QED  BY <1>3

-----------------------------------------------------------------------------
Cat(s, t) == s \o t

(* f holds what FlattenSeq has after each of the sequences of ss.          *)
Flattens(f, ss, S) ==
    /\ f \in [0 .. Len(ss) -> Seq(S)]
    /\ f[0] = <<>>
    /\ \A n \in 1 .. Len(ss) : f[n] = Cat(f[n - 1], ss[n])
    /\ f[Len(ss)] = FlattenSeq(ss)

(* FlattenSeq appends sequence after sequence.                             *)
LEMMA FlattenIterates ==
    ASSUME NEW S, NEW ss \in Seq(Seq(S))
    PROVE  \E f : Flattens(f, ss, S)
  <1>0. PICK N \in Nat : N = Len(ss)
    OBVIOUS
  <1> DEFINE step == [n \in 1 .. N |-> [s \in Seq(S) |-> Cat(s, ss[n])]]
  <1>1. <<>> \in Seq(S)
    OBVIOUS
  <1>2. /\ \A n \in 1 .. N : ss[n] \in Seq(S)
        /\ \A n \in 1 .. N : \A s \in Seq(S) : Cat(s, ss[n]) \in Seq(S)
    BY <1>0 DEF Cat
  <1>3. /\ StepsWithin(step, N, Seq(S))
        /\ \A n \in 1 .. N : \A s \in Seq(S) : step[n][s] = Cat(s, ss[n])
    BY <1>2 DEF StepsWithin
  <1> HIDE DEF step
  <1>4. PICK f \in [0 .. N -> Seq(S)] : Iterates(f, N, <<>>, step)
    BY <1>0, <1>1, <1>3, RecursionExists
  <1>5. f[0] = <<>> /\ \A n \in 1 .. N : f[n] = Cat(f[n - 1], ss[n])
    <2>1. f[0] = <<>>
      BY <1>4 DEF Iterates
    <2>2. ASSUME NEW n \in 1 .. N
          PROVE  f[n] = Cat(f[n - 1], ss[n])
      <3>1. f[n] = step[n][f[n - 1]]
        BY <1>4 DEF Iterates
      <3>2. f[n - 1] \in Seq(S)
        BY <1>4
      <3> QED  BY <1>3, <3>1, <3>2
    <2> QED  BY <2>1, <2>2
  <1>6. f[N] = FlattenSeq(ss)
    <2>1. CASE N = 0
      <3>1. ss = <<>> /\ FlattenSeq(ss) = ss
        <4>1. ss # <<>> => Len(ss) # 0
          OBVIOUS
        <4>2. Len(ss) = 0
          BY <1>0, <2>1
        <4> QED  BY <4>1, <4>2, Zenon DEF FlattenSeq
      <3> QED  BY <1>5, <2>1, <3>1
    <2>2. CASE N # 0
      <3> DEFINE Def(h, i) == IF i = 1 THEN ss[i] ELSE Cat(h[i - 1], ss[i])
                 g == [i \in 1 .. N |-> f[i]]
                 G(h) == h = [i \in 1 .. N |-> Def(h, i)]
      <3>1. f[1] = ss[1]
        <4>1. f[1] = Cat(<<>>, ss[1]) /\ ss[1] \in Seq(S)
          BY <1>2, <1>5, <2>2
        <4> QED  BY <4>1 DEF Cat
      <3>2. G(g)
        <4>1. ASSUME NEW i \in 1 .. N
              PROVE  f[i] = Def(g, i)
          <5>1. CASE i = 1
            BY <3>1, <5>1
          <5>2. CASE i # 1
            <6>1. i - 1 \in 1 .. N
              BY <5>2
            <6>2. g[i - 1] = f[i - 1]
              BY <6>1
            <6> HIDE DEF g
            <6> QED  BY <1>5, <5>2, <6>2
          <5> QED  BY <5>1, <5>2
        <4> HIDE DEF Def
        <4> QED  BY <4>1
      <3>3. G(CHOOSE h : G(h))
        <4> HIDE DEF G
        <4> QED  BY <3>2, Zenon
      <3> DEFINE c == CHOOSE h : G(h)
      <3>4. c = [i \in 1 .. N |-> Def(c, i)]
        BY <3>3
      <3>5. FlattenSeq(ss) = c[N]
        BY <1>0, <2>2, Zenon DEF FlattenSeq, Cat
      <3> HIDE DEF c
      <3> DEFINE d == [n \in 0 .. N |-> IF n = 0 THEN <<>> ELSE c[n]]
      <3>6. \A n \in 1 .. N : d[n] = Def(d, n)
        <4> SUFFICES ASSUME NEW n \in 1 .. N PROVE d[n] = Def(d, n)
          OBVIOUS
        <4>1. d[n] = Def(c, n)
          BY <3>4
        <4> QED  BY <4>1
      <3> HIDE DEF d
      <3>7. GoOnAlike(d, f, N)
        <4>1. d[0] = f[0]
          BY <1>5 DEF d
        <4>2. ASSUME NEW n \in 1 .. N, d[n - 1] = f[n - 1]
              PROVE  d[n] = f[n]
          <5>1. CASE n = 1
            BY <3>1, <3>6, <5>1
          <5>2. CASE n # 1
            BY <1>5, <3>6, <4>2, <5>2
          <5> QED  BY <5>1, <5>2
        <4> QED  BY <4>1, <4>2 DEF GoOnAlike
      <3>8. d[N] = f[N]
        <4>1. \A n \in 0 .. N : d[n] = f[n]
          BY <3>7, RecursionUnique
        <4> QED  BY <4>1
      <3> QED  BY <2>2, <3>5, <3>8 DEF d
    <2> QED  BY <2>1, <2>2
  <1>7. Flattens(f, ss, S)
    BY <1>0, <1>4, <1>5, <1>6 DEF Flattens
  <1> QED  BY <1>7

(* What is flattened is a sequence of the same elements.                   *)
LEMMA FlattenTyped ==
    ASSUME NEW S, NEW ss \in Seq(Seq(S))
    PROVE  FlattenSeq(ss) \in Seq(S)
  <1>1. PICK f : Flattens(f, ss, S)
    BY FlattenIterates
  <1> QED  BY <1>1 DEF Flattens

(* The last sequence comes last.                                           *)
LEMMA FlattenAppend ==
    ASSUME NEW S, NEW ss \in Seq(Seq(S)), NEW s \in Seq(S)
    PROVE  FlattenSeq(Append(ss, s)) = FlattenSeq(ss) \o s
  <1>0. PICK N \in Nat : N = Len(ss)
    OBVIOUS
  <1> DEFINE tt == Append(ss, s)
  <1>1. /\ tt \in Seq(Seq(S)) /\ Len(tt) = N + 1
        /\ \A n \in 1 .. N : tt[n] = ss[n]
        /\ tt[N + 1] = s
    BY <1>0
  <1> HIDE DEF tt
  <1>2. PICK f : Flattens(f, ss, S)
    BY FlattenIterates
  <1>3. PICK g : Flattens(g, tt, S)
    BY <1>1, FlattenIterates
  <1>4. GoOnAlike(f, g, N)
    BY <1>0, <1>1, <1>2, <1>3 DEF Flattens, GoOnAlike
  <1>5. f[N] = g[N]
    BY <1>4, RecursionUnique
  <1>6. FlattenSeq(tt) = Cat(FlattenSeq(ss), s)
    <2>1. FlattenSeq(tt) = g[N + 1] /\ g[N + 1] = Cat(g[(N + 1) - 1], tt[N + 1])
      BY <1>0, <1>1, <1>3 DEF Flattens
    <2>2. (N + 1) - 1 = N /\ f[N] = FlattenSeq(ss)
      BY <1>0, <1>2 DEF Flattens
    <2> QED  BY <1>1, <1>5, <2>1, <2>2
  <1> QED  BY <1>6 DEF Cat, tt

(* What holds the elements of s and then those of t is s \o t.              *)
LEMMA ConcatIs ==
    ASSUME NEW S, NEW s \in Seq(S), NEW t \in Seq(S), NEW u \in Seq(S),
           Len(u) = Len(s) + Len(t),
           \A i \in 1 .. Len(s) : u[i] = s[i],
           \A i \in 1 .. Len(t) : u[Len(s) + i] = t[i]
    PROVE  u = s \o t
  <1>1. ASSUME NEW i \in 1 .. Len(u) PROVE u[i] = (s \o t)[i]
    <2>1. CASE i <= Len(s)
      BY <2>1
    <2>2. CASE i > Len(s)
      <3>1. i - Len(s) \in 1 .. Len(t) /\ Len(s) + (i - Len(s)) = i
        BY <2>2
      <3> QED  BY <2>2, <3>1
    <2> QED  BY <2>1, <2>2
  <1> QED  BY <1>1

(* An element that is appended to the end is appended to the whole.         *)
LEMMA ConcatAppend ==
    ASSUME NEW S, NEW s \in Seq(S), NEW t \in Seq(S), NEW e \in S
    PROVE  Cat(s, Append(t, e)) = Append(Cat(s, t), e)
  BY DEF Cat

(* Nothing comes of nothing.                                               *)
LEMMA FlattenNothing == FlattenSeq(<<>>) = <<>>
  <1>1. PICK f : Flattens(f, <<>>, {})
    <2>1. <<>> \in Seq(Seq({}))
      OBVIOUS
    <2> QED  BY <2>1, FlattenIterates
  <1> QED  BY <1>1 DEF Flattens

(* The flattening of a concatenation is the concatenation of what its      *)
(* parts flatten to.                                                       *)
LEMMA FlattenConcat ==
    ASSUME NEW S, NEW ss \in Seq(Seq(S)), NEW tt \in Seq(Seq(S))
    PROVE  FlattenSeq(ss \o tt) = FlattenSeq(ss) \o FlattenSeq(tt)
  <1>0. PICK N \in Nat : N = Len(tt)
    OBVIOUS
  <1> DEFINE Begin(n) == SubSeq(tt, 1, n)
             T == {n \in 0 .. N :
                      FlattenSeq(Cat(ss, Begin(n))) = Cat(FlattenSeq(ss), FlattenSeq(Begin(n)))}
  <1>1. ASSUME NEW n \in 0 .. N
        PROVE  Begin(n) \in Seq(Seq(S)) /\ Cat(ss, Begin(n)) \in Seq(Seq(S))
    BY <1>0 DEF Cat
  <1>2. 0 \in T
    <2>1. Begin(0) = <<>>
      BY <1>0
    <2>2. Cat(ss, <<>>) = ss
      BY DEF Cat
    <2>3. FlattenSeq(ss) \in Seq(S)
      BY FlattenTyped
    <2>4. Cat(FlattenSeq(ss), <<>>) = FlattenSeq(ss)
      BY <2>3 DEF Cat
    <2> HIDE DEF Begin
    <2> QED  BY <2>1, <2>2, <2>4, FlattenNothing
  <1>3. ASSUME NEW n \in 0 .. N - 1, n \in T
        PROVE  n + 1 \in T
    <2>1. /\ n \in 0 .. N /\ n + 1 \in 0 .. N
          /\ tt[n + 1] \in Seq(S)
      BY <1>0
    <2>2. Begin(n + 1) = Append(Begin(n), tt[n + 1])
      BY <1>0, <2>1
    <2>3. Cat(ss, Append(Begin(n), tt[n + 1])) = Append(Cat(ss, Begin(n)), tt[n + 1])
      <3>1. PICK u \in Seq(Seq(S)) : u = Begin(n)
        BY <1>1, <2>1
      <3>2. PICK e \in Seq(S) : e = tt[n + 1]
        BY <2>1
      <3>3. Cat(ss, Append(u, e)) = Append(Cat(ss, u), e)
        BY ConcatAppend
      <3> HIDE DEF Begin
      <3> QED  BY <3>1, <3>2, <3>3
    <2>4. /\ FlattenSeq(Append(Cat(ss, Begin(n)), tt[n + 1]))
               = FlattenSeq(Cat(ss, Begin(n))) \o tt[n + 1]
          /\ FlattenSeq(Append(Begin(n), tt[n + 1]))
               = FlattenSeq(Begin(n)) \o tt[n + 1]
      <3> HIDE DEF Begin
      <3> QED  BY <1>1, <2>1, FlattenAppend
    <2>5. FlattenSeq(Begin(n)) \in Seq(S) /\ FlattenSeq(ss) \in Seq(S)
      <3> HIDE DEF Begin
      <3> QED  BY <1>1, <2>1, FlattenTyped
    <2>6. Cat(FlattenSeq(ss), FlattenSeq(Begin(n))) \o tt[n + 1]
             = Cat(FlattenSeq(ss), FlattenSeq(Begin(n)) \o tt[n + 1])
      <3> HIDE DEF Begin
      <3>1. \A a, b, c \in Seq(S) : (a \o b) \o c = a \o (b \o c)
        OBVIOUS
      <3> QED  BY <2>1, <2>5, <3>1 DEF Cat
    <2> HIDE DEF Begin
    <2> QED  BY <1>3, <2>1, <2>2, <2>3, <2>4, <2>6
  <1>4. N \in T
    <2> HIDE DEF T
    <2>1. 0 .. N \subseteq T
      BY <1>2, <1>3, IntervalInduction
    <2> QED  BY <2>1
  <1>5. Begin(N) = tt
    BY <1>0
  <1> HIDE DEF Begin
  <1> QED  BY <1>4, <1>5 DEF Cat

-----------------------------------------------------------------------------
(* f grows by the sequences r[1], ..., r[N].                               *)
Grows(f, r, N, S) ==
    /\ f \in [0 .. N -> Seq(S)]
    /\ \A n \in 1 .. N : r[n] \in Seq(S) /\ f[n] = f[n - 1] \o r[n]

StartsWith(t, s) == Len(s) <= Len(t) /\ s = SubSeq(t, 1, Len(s))

(* What a sequence starts with, a longer one starts with too.              *)
LEMMA StartsWithGrows ==
    ASSUME NEW S, NEW s \in Seq(S), NEW t \in Seq(S), NEW u \in Seq(S),
           StartsWith(t, s)
    PROVE  StartsWith(t \o u, s)
  <1> DEFINE v == t \o u
  <1>1. v \in Seq(S)
    OBVIOUS
  <1>2. /\ Len(v) = Len(t) + Len(u) /\ \A i \in 1 .. Len(t) : v[i] = t[i]
    OBVIOUS
  <1> HIDE DEF v
  <1>3. Len(s) <= Len(t) /\ \A i \in 1 .. Len(s) : s[i] = t[i]
    BY DEF StartsWith
  <1>4. Len(s) <= Len(v) /\ \A i \in 1 .. Len(s) : s[i] = v[i]
    BY <1>2, <1>3
  <1>5. s = SubSeq(v, 1, Len(s))
    BY <1>4
  <1> QED  BY <1>4, <1>5 DEF StartsWith, v

(* Every value of a sequence that grows starts with the earlier ones.      *)
LEMMA GrowsPrefix ==
    ASSUME NEW N \in Nat, NEW S, NEW f, NEW r, Grows(f, r, N, S),
           NEW m \in 0 .. N
    PROVE  \A n \in m .. N : StartsWith(f[n], f[m])
  <1> USE DEF Grows
  <1> DEFINE T == {n \in 0 .. N : n >= m => StartsWith(f[n], f[m])}
  <1>1. f[m] \in Seq(S)
    OBVIOUS
  <1>2. StartsWith(f[m], f[m])
    BY <1>1 DEF StartsWith
  <1>3. 0 \in T
    BY <1>2
  <1>4. ASSUME NEW n \in 0 .. N - 1, n \in T
        PROVE  n + 1 \in T
    <2>1. n + 1 \in 1 .. N /\ (n + 1) - 1 = n /\ n \in 0 .. N
      OBVIOUS
    <2>2. f[n + 1] = f[n] \o r[n + 1] /\ f[n] \in Seq(S) /\ r[n + 1] \in Seq(S)
      BY <2>1
    <2>3. CASE n + 1 = m
      BY <1>2, <2>3
    <2>4. CASE n + 1 < m
      BY <2>4
    <2>5. CASE n >= m
      <3>1. StartsWith(f[n], f[m])
        BY <1>4, <2>5
      <3>2. StartsWith(f[n] \o r[n + 1], f[m])
        BY <1>1, <2>2, <3>1, StartsWithGrows
      <3>3. StartsWith(f[n + 1], f[m])
        BY <2>2, <3>2
      <3> QED  BY <2>1, <3>3
    <2> QED  BY <2>3, <2>4, <2>5
  <1>5. 0 .. N \subseteq T
    <2> HIDE DEF T
    <2> QED  BY <1>3, <1>4, IntervalInduction
  <1> QED  BY <1>5

(* The part of a sequence that comes after s, of what it starts with.      *)
LEMMA MiddlePart ==
    ASSUME NEW S, NEW s \in Seq(S), NEW c \in Seq(S), NEW t \in Seq(S),
           StartsWith(t, s \o c)
    PROVE  /\ Len(s) + Len(c) <= Len(t)
           /\ c = SubSeq(t, Len(s) + 1, Len(s) + Len(c))
  <1> DEFINE v == s \o c
  <1>1. v \in Seq(S)
    OBVIOUS
  <1>2. /\ Len(v) = Len(s) + Len(c)
        /\ \A i \in 1 .. Len(c) : c[i] = v[Len(s) + i]
    OBVIOUS
  <1>3. StartsWith(t, v)
    OBVIOUS
  <1> HIDE DEF v
  <1>4. Len(v) <= Len(t) /\ \A i \in 1 .. Len(v) : v[i] = t[i]
    BY <1>1, <1>3 DEF StartsWith
  <1>5. \A i \in 1 .. Len(c) : c[i] = t[Len(s) + i]
    BY <1>2, <1>4
  <1>6. c = SubSeq(t, Len(s) + 1, Len(s) + Len(c))
    <2>1. Len(s) + Len(c) <= Len(t)
      BY <1>2, <1>4
    <2> QED  BY <1>5, <2>1
  <1> QED  BY <1>2, <1>4, <1>6

Regrouped(a, b, c, d) == (a \o (b \o c)) \o d = (a \o b) \o (c \o d)

(* Concatenation may be grouped in either way.                             *)
LEMMA Regroup ==
    ASSUME NEW S, NEW a \in Seq(S), NEW b \in Seq(S), NEW c \in Seq(S),
           NEW d \in Seq(S)
    PROVE  Regrouped(a, b, c, d)
  <1>1. PICK e \in Seq(S) : e = a \o b
    <2>1. a \o b \in Seq(S)
      OBVIOUS
    <2> QED  BY <2>1
  <1>2. a \o (b \o c) = (a \o b) \o c
    OBVIOUS
  <1>3. (e \o c) \o d = e \o (c \o d)
    OBVIOUS
  <1> QED  BY <1>1, <1>2, <1>3 DEF Regrouped

(* c is the part of t after place r and up to place m.                     *)
IsPart(c, t, r, m) == c = SubSeq(t, r + 1, m)

(* The part of a sequence from one place to another begins with the element*)
(* at the first place, and is empty when there is nothing between them.    *)
LEMMA NextOfPart ==
    ASSUME NEW S, NEW t \in Seq(S), NEW r \in Nat, NEW m \in Nat, r <= m, m <= Len(t),
           NEW c, IsPart(c, t, r, m)
    PROVE  /\ c \in Seq(S) /\ Len(c) = m - r
           /\ c = <<>> <=> r = m
           /\ c # <<>> => /\ r + 1 <= m /\ Head(c) = t[r + 1]
                          /\ IsPart(Tail(c), t, r + 1, m)
  <1> USE DEF IsPart
  <1>1. c \in Seq(S) /\ Len(c) = m - r
    OBVIOUS
  <1>2. c = <<>> <=> r = m
    <2>1. c = <<>> <=> Len(c) = 0
      BY <1>1
    <2> QED  BY <1>1, <2>1
  <1>3. ASSUME c # <<>>
        PROVE  r + 1 <= m /\ Head(c) = t[r + 1] /\ Tail(c) = SubSeq(t, (r + 1) + 1, m)
    <2>1. r + 1 <= m
      BY <1>2, <1>3
    <2>2. Head(c) = t[r + 1]
      BY <2>1
    <2>3. Tail(c) = SubSeq(t, (r + 1) + 1, m)
      <3> DEFINE d == SubSeq(t, (r + 1) + 1, m)
      <3>1. d \in Seq(S) /\ Len(d) = m - (r + 1)
        BY <2>1
      <3>2. Tail(c) \in Seq(S) /\ Len(Tail(c)) = m - (r + 1)
        BY <1>1, <1>3
      <3>3. \A i \in 1 .. (m - (r + 1)) : Tail(c)[i] = d[i]
        BY <1>1, <1>3, <2>1
      <3> HIDE DEF d
      <3> QED  BY <3>1, <3>2, <3>3 DEF d
    <2> QED  BY <2>1, <2>2, <2>3
  <1> QED  BY <1>1, <1>2, <1>3

(* A part of a sequence that goes on to the next element.                  *)
LEMMA PartGoesOn ==
    ASSUME NEW S, NEW t \in Seq(S), NEW f \in Nat, NEW r \in Nat, f <= r, r < Len(t)
    PROVE  SubSeq(t, f + 1, r) \o <<t[r + 1]>> = SubSeq(t, f + 1, r + 1)
  <1> DEFINE a == SubSeq(t, f + 1, r) \o <<t[r + 1]>>
             b == SubSeq(t, f + 1, r + 1)
  <1>1. a \in Seq(S) /\ Len(a) = r + 1 - f
    OBVIOUS
  <1>2. b \in Seq(S) /\ Len(b) = r + 1 - f
    OBVIOUS
  <1>3. \A i \in 1 .. (r + 1 - f) : a[i] = b[i]
    OBVIOUS
  <1> HIDE DEF a, b
  <1>4. a = b
    BY <1>1, <1>2, <1>3
  <1> QED  BY <1>4 DEF a, b

(* A part that ends sooner is what the longer one starts with.             *)
LEMMA PartStarts ==
    ASSUME NEW S, NEW t \in Seq(S), NEW f \in Nat, NEW r \in Nat, NEW m \in Nat,
           f <= r, r <= m, m <= Len(t),
           NEW c, IsPart(c, t, f, r), NEW d, IsPart(d, t, f, m)
    PROVE  Len(c) <= Len(d) /\ SubSeq(c, 1, Len(c)) = SubSeq(d, 1, Len(c))
  <1>1. /\ c \in Seq(S) /\ Len(c) = r - f
        /\ \A i \in 1 .. (r - f) : c[i] = t[f + i]
    BY DEF IsPart
  <1>2. /\ d \in Seq(S) /\ Len(d) = m - f
        /\ \A i \in 1 .. (m - f) : d[i] = t[f + i]
    BY DEF IsPart
  <1>3. PICK k \in Nat : k = Len(c) /\ k = r - f
    BY <1>1
  <1>4. PICK a \in Seq(S) : a = SubSeq(c, 1, k) /\ Len(a) = k
                            /\ \A i \in 1 .. k : a[i] = c[i]
    BY <1>1, <1>3
  <1>5. k <= m - f
    BY <1>3
  <1>6. PICK b \in Seq(S) : b = SubSeq(d, 1, k) /\ Len(b) = k
                            /\ \A i \in 1 .. k : b[i] = d[i]
    <2>1. SubSeq(d, 1, k) \in Seq(S) /\ Len(SubSeq(d, 1, k)) = k
      BY <1>2, <1>3, <1>5
    <2>2. \A i \in 1 .. k : SubSeq(d, 1, k)[i] = d[i]
      BY <1>2, <1>3, <1>5
    <2> QED  BY <2>1, <2>2
  <1>7. \A i \in 1 .. k : a[i] = b[i]
    BY <1>1, <1>2, <1>3, <1>4, <1>5, <1>6
  <1>8. a = b
    BY <1>4, <1>6, <1>7
  <1> QED  BY <1>2, <1>3, <1>4, <1>5, <1>6, <1>8

(* Where a concatenation begins and ends.                                  *)
LEMMA ConcatEnds ==
    ASSUME NEW S, NEW a \in Seq(S), NEW b \in Seq(S), b # <<>>,
           NEW c, c = a \o b
    PROVE  /\ c \in Seq(S) /\ c # <<>> /\ c[Len(c)] = b[Len(b)]
           /\ c[1] = IF a = <<>> THEN b[1] ELSE a[1]
  <1>1. PICK M \in Nat, N \in Nat : M = Len(a) /\ N = Len(b) /\ N # 0
    OBVIOUS
  <1>2. /\ c \in Seq(S) /\ Len(c) = M + N
        /\ \A i \in 1 .. M : c[i] = a[i]
        /\ \A j \in 1 .. N : c[M + j] = b[j]
    BY <1>1
  <1>3. N \in 1 .. N /\ 1 \in 1 .. N
    BY <1>1
  <1>4. c[M + N] = b[N] /\ c # <<>>
    BY <1>1, <1>2, <1>3
  <1>5. c[1] = IF a = <<>> THEN b[1] ELSE a[1]
    <2>1. CASE a = <<>>
      BY <1>1, <1>2, <1>3, <2>1
    <2>2. CASE a # <<>>
      <3>1. 1 \in 1 .. M
        BY <1>1, <2>2
      <3> QED  BY <1>2, <2>2, <3>1
    <2> QED  BY <2>1, <2>2
  <1> QED  BY <1>1, <1>2, <1>4, <1>5

(* Two parts of a sequence, the second from where the first ends, are a    *)
(* part of it.                                                             *)
LEMMA PartsJoin ==
    ASSUME NEW S, NEW t \in Seq(S), NEW f \in Nat, NEW r \in Nat, NEW m \in Nat,
           f <= r, r <= m, m <= Len(t)
    PROVE  SubSeq(t, f + 1, r) \o SubSeq(t, r + 1, m) = SubSeq(t, f + 1, m)
  <1>1. PICK a : a = SubSeq(t, f + 1, r)
    OBVIOUS
  <1>2. PICK b : b = SubSeq(t, r + 1, m)
    OBVIOUS
  <1>3. PICK c : c = SubSeq(t, f + 1, m)
    OBVIOUS
  <1>4. a \in Seq(S) /\ Len(a) = r - f /\ \A i \in 1 .. (r - f) : a[i] = t[f + i]
    BY <1>1
  <1>5. b \in Seq(S) /\ Len(b) = m - r /\ \A i \in 1 .. (m - r) : b[i] = t[r + i]
    BY <1>2
  <1>6. c \in Seq(S) /\ Len(c) = m - f /\ \A i \in 1 .. (m - f) : c[i] = t[f + i]
    BY <1>3
  <1>7. c = a \o b
    <2>1. Len(c) = Len(a) + Len(b)
      BY <1>4, <1>5, <1>6
    <2>2. ASSUME NEW i \in 1 .. Len(a) PROVE c[i] = a[i]
      <3>1. i \in 1 .. (r - f) /\ i \in 1 .. (m - f)
        BY <1>4
      <3> QED  BY <1>4, <1>6, <3>1
    <2>3. ASSUME NEW i \in 1 .. (m - r) PROVE c[(r - f) + i] = b[i]
      <3>1. (r - f) + i \in 1 .. (m - f) /\ f + ((r - f) + i) = r + i
        OBVIOUS
      <3>2. b[i] = t[r + i]
        BY <1>5
      <3> QED  BY <1>6, <3>1, <3>2
    <2>4. \A i \in 1 .. Len(b) : c[Len(a) + i] = b[i]
      BY <1>4, <1>5, <2>3
    <2> QED  BY <1>4, <1>5, <1>6, <2>1, <2>2, <2>4, ConcatIs
  <1> QED  BY <1>1, <1>2, <1>3, <1>7

(* What follows the beginning of a sequence makes a longer beginning.      *)
LEMMA BeginningGoesOn ==
    ASSUME NEW S, NEW t \in Seq(S), NEW f \in Nat, NEW r \in Nat, f <= r, r <= Len(t)
    PROVE  SubSeq(t, 1, f) \o SubSeq(t, f + 1, r) = SubSeq(t, 1, r)
  <1>1. /\ 0 \in Nat /\ 0 <= f /\ 0 + 1 = 1
    OBVIOUS
  <1>2. SubSeq(t, 0 + 1, f) \o SubSeq(t, f + 1, r) = SubSeq(t, 0 + 1, r)
    BY <1>1, PartsJoin
  <1> QED  BY <1>1, <1>2
=============================================================================
