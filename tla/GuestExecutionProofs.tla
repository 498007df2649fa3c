------------------------ MODULE GuestExecutionProofs -------------------------
(***************************************************************************)
(* What the proofs about the tracers need to know of a guest, whatever its *)
(* memory and instructions: the machine after each tick is a machine, its  *)
(* ticks make rows until it halts and none from then on, and the full      *)
(* trace is the rows of its ticks, put end to end.                         *)
(***************************************************************************)
EXTENDS GuestExecution, InductionLemmas

(* A machine whose memory keeps no initial values.                         *)
Emulator ==
    [pc : Address, x : Nat, mem : [Address -> Nat], saving : {FALSE},
     touched : {<<>>}]

(* The machine after one more tick.                                        *)
Ticked(m) ==
    IF m.prevPc = m.emu.pc THEN m
    ELSE [emu |-> Tick(m.emu).emu, prevPc |-> m.emu.pc]

Loaded(image) == [emu |-> Booted(image, Entry), prevPc |-> 0]
Halted(m) == m.prevPc = m.emu.pc

-----------------------------------------------------------------------------
(* A tick of a machine at a word that decodes makes at least one row, and  *)
(* leaves a machine if it leaves the program counter in memory.            *)
LEMMA TickTyped ==
    ASSUME NEW e \in Emulator, Decodable(e)
    PROVE  LET t == Tick(e)
           IN  /\ t.emu.x \in Nat /\ t.emu.mem \in [Address -> Nat]
               /\ t.emu = [pc |-> t.emu.pc, x |-> t.emu.x, mem |-> t.emu.mem,
                           saving |-> FALSE, touched |-> <<>>]
               /\ t.emu.pc \in Address => /\ t.emu \in Emulator
                                          /\ t.rows \in Seq(TraceRow)
               /\ t.rows # <<>>
  <1> DEFINE ins  == Decode[e.mem[e.pc]]
             data == ins.op \in {"load", "store"}
             pc   == IF ins.op = "jump" THEN ins.arg ELSE e.pc + 1
             x    == CASE ins.op = "add"  -> e.x + 1
                       [] ins.op = "load" -> e.mem[ins.arg]
                       [] OTHER           -> e.x
             mem  == IF ins.op = "store" THEN [e.mem EXCEPT ![ins.arg] = e.x]
                                         ELSE e.mem
             row(i) ==
                LET last == i = ins.rows
                IN  [at   |-> <<e.pc, i>>,
                     to   |-> IF last THEN <<pc, 1>> ELSE <<e.pc, i + 1>>,
                     jump |-> last /\ ins.op = "jump",
                     reg  |-> IF last /\ ins.op # "jump" THEN <<e.x, x>> ELSE <<>>,
                     ram  |-> IF last /\ data
                              THEN <<ins.arg, e.mem[ins.arg], mem[ins.arg]>>
                              ELSE <<>>]
  <1>1. /\ e.pc \in Address /\ e.x \in Nat /\ e.mem \in [Address -> Nat]
        /\ e.saving = FALSE /\ e.touched = <<>>
        /\ e = [pc |-> e.pc, x |-> e.x, mem |-> e.mem, saving |-> FALSE,
                touched |-> <<>>]
    BY DEF Emulator
  <1>2. /\ ins.op \in {"add", "load", "store", "jump"}
        /\ ins.arg \in Address /\ ins.rows \in Nat \ {0}
    BY DecodeAssumption DEF Decodable
  <1>3. /\ Tick(e).emu = [e EXCEPT !.pc = pc, !.x = x, !.mem = mem,
                            !.touched = Recorded(e, {e.pc} \cup
                                           (IF data THEN {ins.arg} ELSE {}))]
        /\ Tick(e).rows = [i \in 1..ins.rows |-> row(i)]
    BY DEF Tick
  <1> HIDE DEF ins
  <1>4. x \in Nat /\ mem \in [Address -> Nat]
    BY <1>1, <1>2
  <1>5. Recorded(e, {e.pc} \cup (IF data THEN {ins.arg} ELSE {})) = <<>>
    BY <1>1 DEF Recorded
  <1>6. Tick(e).emu = [pc |-> pc, x |-> x, mem |-> mem, saving |-> FALSE,
                       touched |-> <<>>]
    <2> HIDE DEF pc, x, mem, data
    <2> QED  BY <1>1, <1>3, <1>5
  <1>7. Tick(e).rows # <<>>
    BY <1>2, <1>3
  <1>8. ASSUME pc \in Address
        PROVE  Tick(e).rows \in Seq(TraceRow)
    <2>1. ASSUME NEW i \in 1..ins.rows PROVE row(i) \in TraceRow
      <3>1. <<e.pc, i>> \in Address \X Nat
        BY <1>1, <1>2
      <3>2. <<pc, 1>> \in Address \X Nat /\ <<e.pc, i + 1>> \in Address \X Nat
        BY <1>1, <1>2, <1>8
      <3>3. <<e.x, x>> \in Nat \X Nat
        BY <1>1, <1>4
      <3>4. <<ins.arg, e.mem[ins.arg], mem[ins.arg]>> \in Address \X Nat \X Nat
        BY <1>1, <1>2, <1>4
      <3> HIDE DEF pc, x, mem, data
      <3> QED  BY <3>1, <3>2, <3>3, <3>4 DEF TraceRow
    <2> HIDE DEF row
    <2> QED  BY <1>2, <1>3, <2>1
  <1> HIDE DEF pc, x, mem
  <1> QED  BY <1>4, <1>6, <1>7, <1>8 DEF Emulator

(* After is the machine, tick by tick.                                     *)
LEMMA AfterTicks ==
    ASSUME NEW image
    PROVE  /\ After(image)[0] = Loaded(image)
           /\ \A n \in 1..MaxTicks :
                 After(image)[n] = Ticked(After(image)[n - 1])
  <1> DEFINE Upto(n, g) == /\ g = [i \in 0..n |-> g[i]]
                           /\ g[0] = Loaded(image)
                           /\ \A i \in 1..n : g[i] = Ticked(g[i - 1])
             Some == {n \in 0..MaxTicks : \E g : Upto(n, g)}
  <1>0. MaxTicks \in Nat
    BY MaxTicksAssumption
  <1>1. 0 \in Some
    <2> DEFINE g == [i \in 0..0 |-> Loaded(image)]
    <2>1. g = [i \in 0..0 |-> g[i]] /\ g[0] = Loaded(image)
      OBVIOUS
    <2>2. Upto(0, g)
      <3> HIDE DEF g
      <3> QED  BY <2>1
    <2> HIDE DEF Upto
    <2> QED  BY <1>0, <2>2
  <1>2. ASSUME NEW n \in 0..(MaxTicks - 1), n \in Some
        PROVE  n + 1 \in Some
    <2>1. PICK g : Upto(n, g)
      BY <1>2
    <2> DEFINE h == [i \in 0..(n + 1) |-> IF i = n + 1 THEN Ticked(g[n]) ELSE g[i]]
    <2>2. h = [i \in 0..(n + 1) |-> h[i]] /\ h[0] = Loaded(image)
      BY <2>1
    <2>3. ASSUME NEW i \in 1..(n + 1)
          PROVE  h[i] = Ticked(h[i - 1])
      <3>1. CASE i = n + 1
        BY <2>1, <3>1
      <3>2. CASE i # n + 1
        <4>1. h[i] = g[i] /\ h[i - 1] = g[i - 1] /\ i \in 1..n
          BY <1>0, <2>1, <3>2
        <4> HIDE DEF h
        <4> QED  BY <2>1, <4>1
      <3> QED  BY <3>1, <3>2
    <2>4. Upto(n + 1, h)
      <3> HIDE DEF h
      <3> QED  BY <2>2, <2>3
    <2> HIDE DEF Upto, h
    <2> QED  BY <1>0, <2>4
  <1>3. MaxTicks \in Some
    <2> HIDE DEF Some
    <2>1. 0..MaxTicks \subseteq Some
      BY <1>0, <1>1, <1>2, IntervalInduction
    <2> QED  BY <1>0, <2>1
  <1>4. PICK f : Upto(MaxTicks, f)
    BY <1>3
  <1> DEFINE G(h) == h = [n \in 0..MaxTicks |-> IF n = 0 THEN Loaded(image)
                                                ELSE Ticked(h[n - 1])]
             m == CHOOSE h : G(h)
  <1>5. G(f)
    <2>1. ASSUME NEW n \in 0..MaxTicks
          PROVE  f[n] = IF n = 0 THEN Loaded(image) ELSE Ticked(f[n - 1])
      <3>1. n # 0 => n \in 1..MaxTicks
        BY <1>0
      <3> QED  BY <1>4, <3>1
    <2>2. f = [n \in 0..MaxTicks |-> f[n]]
      BY <1>4
    <2> QED  BY <2>1, <2>2
  <1>6. G(m)
    <2> HIDE DEF G
    <2> QED  BY <1>5, Zenon
  <1>7. After(image) = m
    BY Zenon DEF After, Ticked, Loaded
  <1> HIDE DEF m
  <1> QED  BY <1>0, <1>6, <1>7

(* What After(image)[n] is: a machine that has halted, or one that can be  *)
(* ticked.                                                                 *)
Machine(m) ==
    /\ m.emu \in Emulator /\ m.prevPc \in Address \cup {0}
    /\ Halted(m) \/ Decodable(m.emu)

(* A guest is a machine after each of its ticks, halted after the last.    *)
LEMMA AfterTyped ==
    ASSUME NEW image \in Images
    PROVE  /\ \A n \in 0..MaxTicks : Machine(After(image)[n])
           /\ Halted(After(image)[MaxTicks])
  <1> DEFINE a == After(image)
             T == {n \in 0..MaxTicks : Machine(a[n])}
  <1>0. MaxTicks \in Nat
    BY MaxTicksAssumption
  <1>1. /\ a[0] = Loaded(image)
        /\ \A n \in 1..MaxTicks : a[n] = Ticked(a[n - 1])
    BY AfterTicks
  <1>2. /\ a[MaxTicks].prevPc = a[MaxTicks].emu.pc
        /\ \A n \in 0..MaxTicks :
              a[n].prevPc # a[n].emu.pc =>
                  a[n].emu.pc \in Address /\ Decodable(a[n].emu)
    BY HaltsAssumption DEF Halts, Runs
  <1> HIDE DEF a
  <1>3. 0 \in T
    <2>1. /\ a[0].prevPc = 0 /\ a[0].emu = Booted(image, Entry)
      BY <1>1 DEF Loaded
    <2>2. Booted(image, Entry) \in Emulator
      <3>1. Address \subseteq Nat
        BY AddressAssumption
      <3> QED  BY <3>1, ImagesAssumption DEF Booted, Emulator
    <2>3. a[0].prevPc # a[0].emu.pc
      BY <2>1, AddressAssumption, ImagesAssumption DEF Booted
    <2> QED  BY <1>0, <1>2, <2>1, <2>2, <2>3 DEF Machine
  <1>4. ASSUME NEW n \in 0..(MaxTicks - 1), n \in T
        PROVE  n + 1 \in T
    <2>1. n \in 0..MaxTicks /\ n + 1 \in 1..MaxTicks /\ (n + 1) - 1 = n
      BY <1>0
    <2>2. Machine(a[n]) /\ a[n + 1] = Ticked(a[n])
      BY <1>1, <1>4, <2>1
    <2>3. CASE Halted(a[n])
      <3>1. a[n + 1] = a[n]
        BY <2>2, <2>3 DEF Ticked, Halted
      <3> QED  BY <1>0, <2>1, <2>2, <3>1
    <2>4. CASE ~Halted(a[n])
      <3>1. a[n].emu \in Emulator /\ Decodable(a[n].emu)
        BY <2>2, <2>4 DEF Machine
      <3>2. /\ a[n + 1].emu = Tick(a[n].emu).emu
            /\ a[n + 1].prevPc = a[n].emu.pc
        BY <2>2, <2>4 DEF Ticked, Halted
      <3>3. a[n].emu.pc \in Address
        BY <3>1 DEF Emulator
      <3>4. a[n + 1].emu.pc \in Address
        BY <1>2, <2>1, <3>2, <3>3
      <3>5. a[n + 1].emu \in Emulator
        BY <3>1, <3>2, <3>4, TickTyped
      <3>6. Halted(a[n + 1]) \/ Decodable(a[n + 1].emu)
        BY <1>2, <2>1 DEF Halted
      <3> QED  BY <1>0, <2>1, <3>2, <3>3, <3>5, <3>6 DEF Machine
    <2> QED  BY <2>3, <2>4
  <1>5. 0..MaxTicks \subseteq T
    <2> HIDE DEF T
    <2> QED  BY <1>0, <1>3, <1>4, IntervalInduction
  <1> QED  BY <1>2, <1>5 DEF Halted, a

(* The rows of a tick are rows, and there are some unless the guest had    *)
(* halted.                                                                 *)
LEMMA RowsTicked ==
    ASSUME NEW image \in Images, NEW n \in 1..MaxTicks
    PROVE  /\ RowsOfTick(image, n) \in Seq(TraceRow)
           /\ RowsOfTick(image, n) = <<>> <=> Halted(After(image)[n - 1])
           /\ ~Halted(After(image)[n - 1]) =>
                 RowsOfTick(image, n) = Tick(After(image)[n - 1].emu).rows
  <1> DEFINE m == After(image)[n - 1]
  <1>0. MaxTicks \in Nat
    BY MaxTicksAssumption
  <1>1. Machine(m) /\ n - 1 \in 0..MaxTicks /\ n \in 0..MaxTicks
    <2>1. n - 1 \in 0..MaxTicks /\ n \in 0..MaxTicks
      BY <1>0
    <2> QED  BY <2>1, AfterTyped
  <1>2. RowsOfTick(image, n) = IF Halted(m) THEN <<>> ELSE Tick(m.emu).rows
    BY DEF RowsOfTick, StepEmulator, Halted
  <1>3. CASE Halted(m)
    BY <1>2, <1>3
  <1>4. CASE ~Halted(m)
    <2>1. m.emu \in Emulator /\ Decodable(m.emu)
      BY <1>1, <1>4 DEF Machine
    <2>2. After(image)[n].emu = Tick(m.emu).emu
      <3>1. After(image)[n] = Ticked(m)
        BY AfterTicks
      <3> HIDE DEF m
      <3> QED  BY <1>4, <3>1 DEF Ticked, Halted
    <2>3. Tick(m.emu).emu.pc \in Address
      BY <1>1, <2>2, AfterTyped DEF Machine, Emulator
    <2>4. Tick(m.emu).rows \in Seq(TraceRow) /\ Tick(m.emu).rows # <<>>
      BY <2>1, <2>3, TickTyped
    <2> HIDE DEF m
    <2>5. RowsOfTick(image, n) = Tick(m.emu).rows
      BY <1>2, <1>4
    <2> QED  BY <1>4, <2>4, <2>5 DEF m
  <1> QED  BY <1>3, <1>4

(* The rows up to and including tick n.                                    *)
TraceUpTo(image, n) == FlattenSeq([i \in 1..n |-> RowsOfTick(image, i)])

(* The trace grows by the rows of each tick, up to the full trace.         *)
LEMMA TraceGrows ==
    ASSUME NEW image \in Images
    PROVE  /\ TraceUpTo(image, 0) = <<>>
           /\ \A n \in 0..MaxTicks : TraceUpTo(image, n) \in Seq(TraceRow)
           /\ \A n \in 1..MaxTicks :
                 TraceUpTo(image, n) = TraceUpTo(image, n - 1) \o RowsOfTick(image, n)
           /\ TraceUpTo(image, MaxTicks) = FullTrace(image)
           /\ \A n \in 0..MaxTicks : RowsUpTo(image, n) = Len(TraceUpTo(image, n))
  <1> DEFINE rows(n) == [i \in 1..n |-> RowsOfTick(image, i)]
  <1>0. MaxTicks \in Nat
    BY MaxTicksAssumption
  <1>1. PICK Q : Q = Seq(TraceRow)
    OBVIOUS
  <1>2. ASSUME NEW n \in 0..MaxTicks
        PROVE  rows(n) \in Seq(Q)
    <2>1. \A i \in 1..n : RowsOfTick(image, i) \in Q
      BY <1>0, <1>1, RowsTicked
    <2> QED  BY <2>1
  <1>3. rows(0) = <<>>
    OBVIOUS
  <1>4. ASSUME NEW n \in 1..MaxTicks
        PROVE  rows(n) = Append(rows(n - 1), RowsOfTick(image, n))
    <2>1. rows(n - 1) \in Seq(Q) /\ rows(n) \in Seq(Q)
      BY <1>0, <1>2
    <2>2. RowsOfTick(image, n) \in Q
      BY <1>1, RowsTicked
    <2>3. /\ Len(rows(n)) = n /\ Len(rows(n - 1)) = n - 1
          /\ rows(n)[n] = RowsOfTick(image, n)
          /\ \A i \in 1..(n - 1) : rows(n)[i] = rows(n - 1)[i]
      BY <1>0
    <2> HIDE DEF rows
    <2> QED  BY <1>0, <2>1, <2>2, <2>3
  <1>5. ASSUME NEW n \in 0..MaxTicks
        PROVE  TraceUpTo(image, n) \in Seq(TraceRow)
    <2> HIDE DEF rows
    <2>1. TraceUpTo(image, n) = FlattenSeq(rows(n))
      BY DEF TraceUpTo, rows
    <2> QED  BY <1>1, <1>2, <2>1, FlattenTyped
  <1>6. ASSUME NEW n \in 1..MaxTicks
        PROVE  TraceUpTo(image, n) = TraceUpTo(image, n - 1) \o RowsOfTick(image, n)
    <2>1. n - 1 \in 0..MaxTicks
      BY <1>0
    <2>2. rows(n - 1) \in Seq(Q) /\ RowsOfTick(image, n) \in Q
      BY <1>1, <1>2, <2>1, RowsTicked
    <2> HIDE DEF rows
    <2>3. FlattenSeq(Append(rows(n - 1), RowsOfTick(image, n)))
             = FlattenSeq(rows(n - 1)) \o RowsOfTick(image, n)
      BY <1>1, <2>2, FlattenAppend
    <2>4. /\ TraceUpTo(image, n) = FlattenSeq(rows(n))
          /\ TraceUpTo(image, n - 1) = FlattenSeq(rows(n - 1))
      BY DEF TraceUpTo, rows
    <2> QED  BY <1>4, <2>3, <2>4
  <1>7. TraceUpTo(image, 0) = <<>>
    BY <1>3, FlattenNothing DEF TraceUpTo
  <1> QED  BY <1>5, <1>6, <1>7 DEF TraceUpTo, FullTrace, RowsUpTo

(* What was traced up to a tick is where the full trace starts.            *)
LEMMA TracePrefix ==
    ASSUME NEW image \in Images, NEW n \in 0..MaxTicks
    PROVE  StartsWith(FullTrace(image), TraceUpTo(image, n))
  <1> DEFINE f == [k \in 0..MaxTicks |-> TraceUpTo(image, k)]
             r == [k \in 1..MaxTicks |-> RowsOfTick(image, k)]
  <1>0. MaxTicks \in Nat
    BY MaxTicksAssumption
  <1>1. Grows(f, r, MaxTicks, TraceRow)
    <2>1. f \in [0..MaxTicks -> Seq(TraceRow)]
      BY TraceGrows
    <2>2. ASSUME NEW k \in 1..MaxTicks
          PROVE  r[k] \in Seq(TraceRow) /\ f[k] = f[k - 1] \o r[k]
      <3>1. k \in 0..MaxTicks /\ k - 1 \in 0..MaxTicks
        BY <1>0
      <3>2. /\ f[k] = TraceUpTo(image, k) /\ r[k] = RowsOfTick(image, k)
            /\ f[k - 1] = TraceUpTo(image, k - 1)
        BY <3>1
      <3> HIDE DEF f, r
      <3> QED  BY <3>2, TraceGrows, RowsTicked
    <2> HIDE DEF f, r
    <2> QED  BY <2>1, <2>2 DEF Grows
  <1>2. f[MaxTicks] = FullTrace(image) /\ f[n] = TraceUpTo(image, n)
    BY <1>0, TraceGrows
  <1> HIDE DEF f, r
  <1>3. StartsWith(f[MaxTicks], f[n])
    BY <1>0, <1>1, GrowsPrefix
  <1> QED  BY <1>2, <1>3

(* A guest that has halted adds nothing to its trace.                      *)
LEMMA HaltedTrace ==
    ASSUME NEW image \in Images, NEW n \in 0..MaxTicks,
           Halted(After(image)[n])
    PROVE  TraceUpTo(image, n) = FullTrace(image)
  <1> DEFINE T == {k \in 0..MaxTicks :
                      k >= n => /\ Halted(After(image)[k])
                                /\ TraceUpTo(image, k) = TraceUpTo(image, n)}
  <1>0. MaxTicks \in Nat
    BY MaxTicksAssumption
  <1>1. 0 \in T
    BY <1>0
  <1>2. ASSUME NEW k \in 0..(MaxTicks - 1), k \in T
        PROVE  k + 1 \in T
    <2>1. k \in 0..MaxTicks /\ k + 1 \in 1..MaxTicks /\ (k + 1) - 1 = k
      BY <1>0
    <2>2. CASE k + 1 <= n
      BY <2>2, <1>0
    <2>3. CASE k >= n
      <3>1. Halted(After(image)[k]) /\ TraceUpTo(image, k) = TraceUpTo(image, n)
        BY <1>2, <2>3
      <3>2. After(image)[k + 1] = After(image)[k]
        <4>1. After(image)[k + 1] = Ticked(After(image)[k])
          BY <2>1, AfterTicks
        <4> QED  BY <3>1, <4>1 DEF Ticked, Halted
      <3>3. RowsOfTick(image, k + 1) = <<>>
        BY <2>1, <3>1, RowsTicked
      <3>4. TraceUpTo(image, k + 1) = TraceUpTo(image, k) \o <<>>
        BY <2>1, <3>3, TraceGrows
      <3>5. TraceUpTo(image, k) \in Seq(TraceRow)
        BY <2>1, TraceGrows
      <3>6. TraceUpTo(image, k) \o <<>> = TraceUpTo(image, k)
        BY <3>5
      <3> QED  BY <1>0, <2>1, <3>1, <3>2, <3>4, <3>6
    <2> QED  BY <1>0, <2>2, <2>3
  <1>3. 0..MaxTicks \subseteq T
    <2> HIDE DEF T
    <2> QED  BY <1>0, <1>1, <1>2, IntervalInduction
  <1>4. MaxTicks \in T
    BY <1>0, <1>3
  <1> QED  BY <1>0, <1>4, TraceGrows

(* The rows are counted by what was traced.                                *)
LEMMA RowsCounted ==
    ASSUME NEW img \in Images, NEW n \in 0..MaxTicks
    PROVE  /\ TraceUpTo(img, n) \in Seq(TraceRow)
           /\ RowsUpTo(img, n) = Len(TraceUpTo(img, n))
           /\ RowsUpTo(img, n) \in Nat
  BY TraceGrows

(* A tick adds its rows to the count, and they are the part of the full    *)
(* trace between the count before it and the count after it.               *)
LEMMA RowsBetween ==
    ASSUME NEW img \in Images, NEW n \in 1..MaxTicks
    PROVE  /\ RowsUpTo(img, n) = RowsUpTo(img, n - 1) + Len(RowsOfTick(img, n))
           /\ RowsOfTick(img, n)
                 = SubSeq(FullTrace(img), RowsUpTo(img, n - 1) + 1, RowsUpTo(img, n))
  <1>0. n - 1 \in 0..MaxTicks /\ n \in 0..MaxTicks /\ MaxTicks \in 0..MaxTicks
    BY MaxTicksAssumption
  <1>1. PICK s \in Seq(TraceRow) : s = TraceUpTo(img, n - 1)
    BY <1>0, RowsCounted
  <1>2. PICK c \in Seq(TraceRow) : c = RowsOfTick(img, n)
    BY RowsTicked
  <1>3. PICK t \in Seq(TraceRow) : t = FullTrace(img)
    BY <1>0, TraceGrows
  <1>4. s \o c = TraceUpTo(img, n)
    BY <1>1, <1>2, TraceGrows
  <1>5. RowsUpTo(img, n - 1) = Len(s) /\ RowsUpTo(img, n) = Len(s) + Len(c)
    <2>1. RowsUpTo(img, n) = Len(s \o c)
      BY <1>0, <1>4, RowsCounted
    <2> QED  BY <1>0, <1>1, <1>2, <2>1, RowsCounted
  <1>6. StartsWith(t, s \o c)
    BY <1>0, <1>3, <1>4, TracePrefix
  <1>7. c = SubSeq(t, Len(s) + 1, Len(s) + Len(c))
    BY <1>1, <1>2, <1>3, <1>6, MiddlePart
  <1> QED  BY <1>2, <1>3, <1>5, <1>7

(* More ticks make no fewer rows, and none more than the full trace.       *)
LEMMA RowsGrow ==
    ASSUME NEW img \in Images, NEW m \in 0..MaxTicks, NEW n \in m..MaxTicks
    PROVE  /\ RowsUpTo(img, m) <= RowsUpTo(img, n)
           /\ RowsUpTo(img, n) <= Len(FullTrace(img))
           /\ RowsUpTo(img, m) \in Nat /\ RowsUpTo(img, n) \in Nat
           /\ FullTrace(img) \in Seq(TraceRow)
  <1>0. MaxTicks \in Nat /\ MaxTicks \in 0..MaxTicks /\ n \in 0..MaxTicks
    BY MaxTicksAssumption
  <1> DEFINE T == {k \in 0..MaxTicks : k >= m => RowsUpTo(img, m) <= RowsUpTo(img, k)}
  <1>1. \A k \in 0..MaxTicks : RowsUpTo(img, k) \in Nat
    BY RowsCounted
  <1>2. 0 \in T
    BY <1>0, <1>1
  <1>3. ASSUME NEW k \in 0..(MaxTicks - 1), k \in T
        PROVE  k + 1 \in T
    <2>1. k \in 0..MaxTicks /\ k + 1 \in 1..MaxTicks /\ (k + 1) - 1 = k
          /\ k + 1 \in 0..MaxTicks
      BY <1>0
    <2>2. RowsUpTo(img, k + 1) = RowsUpTo(img, k) + Len(RowsOfTick(img, k + 1))
      BY <2>1, RowsBetween
    <2>3. Len(RowsOfTick(img, k + 1)) \in Nat
      BY <2>1, RowsTicked
    <2>4. CASE k >= m
      BY <1>1, <1>3, <2>1, <2>2, <2>3, <2>4
    <2>5. CASE k + 1 = m
      BY <1>1, <2>1, <2>5
    <2>6. CASE k + 1 < m
      BY <2>1, <2>6
    <2> QED  BY <1>0, <2>4, <2>5, <2>6
  <1>4. 0..MaxTicks \subseteq T
    <2> HIDE DEF T
    <2> QED  BY <1>0, <1>2, <1>3, IntervalInduction
  <1>5. RowsUpTo(img, m) <= RowsUpTo(img, n)
    BY <1>0, <1>4
  <1>6. StartsWith(FullTrace(img), TraceUpTo(img, n))
    BY <1>0, TracePrefix
  <1>7. RowsUpTo(img, n) <= Len(FullTrace(img))
    BY <1>0, <1>6, RowsCounted DEF StartsWith
  <1>8. FullTrace(img) \in Seq(TraceRow)
    BY <1>0, TraceGrows
  <1> QED  BY <1>0, <1>1, <1>5, <1>7, <1>8

(* A guest that has not yet made all of its rows has not halted.           *)
LEMMA RunsOn ==
    ASSUME NEW img \in Images, NEW n \in 0..MaxTicks,
           RowsUpTo(img, n) < Len(FullTrace(img))
    PROVE  /\ ~Halted(After(img)[n]) /\ n + 1 \in 1..MaxTicks
           /\ RowsOfTick(img, n + 1) # <<>>
           /\ RowsOfTick(img, n + 1) = Tick(After(img)[n].emu).rows
           /\ After(img)[n + 1] = Ticked(After(img)[n])
  <1>0. MaxTicks \in Nat
    BY MaxTicksAssumption
  <1>1. ~Halted(After(img)[n])
    <2>1. SUFFICES ASSUME Halted(After(img)[n]) PROVE FALSE
      OBVIOUS
    <2>2. RowsUpTo(img, n) = Len(FullTrace(img)) /\ RowsUpTo(img, n) \in Nat
      BY <2>1, HaltedTrace, RowsCounted
    <2> QED  BY <2>2
  <1>2. n # MaxTicks
    BY <1>1, AfterTyped
  <1>3. n + 1 \in 1..MaxTicks /\ (n + 1) - 1 = n
    BY <1>0, <1>2
  <1> QED  BY <1>1, <1>3, RowsTicked, AfterTicks
==============================================================================
