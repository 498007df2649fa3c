-------------------------- MODULE StreamedGuestProofs --------------------------
(***************************************************************************)
(* The blocks that the iterator returns are the trace of the guest, for    *)
(* every guest memory, every program of instructions and every target size;*)
(* and what the streaming prover makes of these blocks is a proof of that  *)
(* trace, from its first row to its last.                                  *)
(*                                                                         *)
(* The invariant behind the first says where the iterator is in the full   *)
(* trace: what was traced up to the tick before the block, the rows the    *)
(* block has so far and the rows the tracer still holds are what was       *)
(* traced up to the tracer's last tick.  The second uses what the loop     *)
(* keeps for any iterator (StreamingProverProofs).  The last section shows *)
(* that the loop refuses no guest but for where its last block ends: the   *)
(* rows of any ticks take the guest's machine to its machine after them,   *)
(* and the cells that the loop remembers are those of the guest's memory.  *)
(***************************************************************************)
EXTENDS StreamedGuest, GuestExecutionProofs

Tracer ==
    [emu : Emulator, prevPc : Address \cup {0}, current : Seq(TraceRow),
     sinceCheckpoint : Nat, finished : BOOLEAN, saved : {<<>>}]

(* The tracer t has made n ticks of the guest.                             *)
Follows(t, img, n) ==
    /\ t.prevPc = After(img)[n].prevPc
    /\ t.emu.pc = After(img)[n].emu.pc
    /\ t.emu.x = After(img)[n].emu.x
    /\ IF t.finished THEN Halted(After(img)[n]) /\ t.current = <<>>
       ELSE t.emu = After(img)[n].emu

(* A step hands out the next of the buffered rows.                         *)
HandsOut(t, img, n) ==
    /\ Follows(LazyStep(t), img, n)
    /\ ~LazyStep(t).finished
    /\ NextRow(t) # <<>>
    /\ NextRow(t) \o LazyStep(t).current = t.current

(* A step ticks the machine and hands out the first row of the tick.       *)
TicksOnce(t, img, n) ==
    /\ t.current = <<>> /\ n + 1 \in 1..MaxTicks
    /\ Follows(LazyStep(t), img, n + 1)
    /\ ~LazyStep(t).finished
    /\ NextRow(t) # <<>>
    /\ NextRow(t) \o LazyStep(t).current = RowsOfTick(img, n + 1)

(* A step finds that the guest has halted.                                 *)
Finds(t, img, n) ==
    /\ t.current = <<>> /\ NextRow(t) = <<>>
    /\ LazyStep(t).finished
    /\ Follows(LazyStep(t), img, n)

(* These are the steps of a tracer that has not finished.                  *)
LEMMA Stepped ==
    ASSUME NEW img \in Images, NEW n \in 0..MaxTicks,
           NEW t \in Tracer, Follows(t, img, n), ~t.finished
    PROVE  /\ LazyStep(t) \in Tracer /\ NextRow(t) \in Seq(TraceRow)
           /\ HandsOut(t, img, n) \/ TicksOnce(t, img, n) \/ Finds(t, img, n)
  <1> DEFINE m == After(img)[n]
  <1>0. MaxTicks \in Nat
    BY MaxTicksAssumption
  <1>1. /\ t.emu = m.emu /\ t.prevPc = m.prevPc
        /\ t.emu \in Emulator /\ t.current \in Seq(TraceRow)
    BY DEF Follows, Tracer
  <1>2. Machine(m)
    BY AfterTyped
  <1>3. CASE t.current # <<>>
    <2>1. LazyStep(t) = [t EXCEPT !.current = Tail(@), !.sinceCheckpoint = @ + 1]
      BY <1>3 DEF LazyStep
    <2>2. NextRow(t) = <<Head(t.current)>>
      BY <1>3 DEF NextRow
    <2>3. /\ Tail(t.current) \in Seq(TraceRow) /\ Head(t.current) \in TraceRow
          /\ <<Head(t.current)>> \o Tail(t.current) = t.current
      BY <1>1, <1>3
    <2>4. /\ LazyStep(t) \in Tracer
          /\ LazyStep(t).current = Tail(t.current)
          /\ LazyStep(t).emu = t.emu /\ LazyStep(t).prevPc = t.prevPc
          /\ ~LazyStep(t).finished
      <3>1. LazyStep(t) = [emu |-> t.emu, prevPc |-> t.prevPc,
                           current |-> Tail(t.current),
                           sinceCheckpoint |-> t.sinceCheckpoint + 1,
                           finished |-> t.finished, saved |-> t.saved]
        BY <2>1 DEF Tracer
      <3>2. t.sinceCheckpoint + 1 \in Nat
        BY DEF Tracer
      <3> QED  BY <2>3, <3>1, <3>2 DEF Tracer
    <2>5. HandsOut(t, img, n)
      BY <1>1, <2>2, <2>3, <2>4 DEF HandsOut, Follows
    <2> QED  BY <2>2, <2>3, <2>4, <2>5
  <1>4. CASE t.current = <<>> /\ Halted(m)
    <2>1. StepEmulator(t.emu, t.prevPc).rows = <<>>
      BY <1>1, <1>4 DEF StepEmulator, Halted
    <2>2. LazyStep(t) = [t EXCEPT !.finished = TRUE,
                                  !.emu.mem = [a \in Address |-> 0]]
      BY <1>4, <2>1 DEF LazyStep
    <2>3. NextRow(t) = <<>>
      BY <1>4, <2>1 DEF NextRow
    <2>4. [t.emu EXCEPT !.mem = [a \in Address |-> 0]] \in Emulator
      BY <1>1 DEF Emulator
    <2>5. /\ LazyStep(t) \in Tracer
          /\ LazyStep(t).finished /\ LazyStep(t).current = <<>>
          /\ LazyStep(t).prevPc = t.prevPc
          /\ LazyStep(t).emu.pc = t.emu.pc /\ LazyStep(t).emu.x = t.emu.x
      <3>1. t.emu = [pc |-> t.emu.pc, x |-> t.emu.x, mem |-> t.emu.mem,
                     saving |-> t.emu.saving, touched |-> t.emu.touched]
        BY <1>1 DEF Emulator
      <3>2. LazyStep(t).emu = [t.emu EXCEPT !.mem = [a \in Address |-> 0]]
        BY <2>2 DEF Tracer
      <3>3. LazyStep(t).emu.pc = t.emu.pc /\ LazyStep(t).emu.x = t.emu.x
        BY <3>1, <3>2
      <3> QED  BY <1>4, <2>2, <2>4, <3>3 DEF Tracer
    <2>6. Finds(t, img, n)
      BY <1>1, <1>4, <2>3, <2>5 DEF Finds, Follows
    <2> QED  BY <2>3, <2>5, <2>6
  <1>5. CASE t.current = <<>> /\ ~Halted(m)
    <2>1. n + 1 \in 1..MaxTicks /\ (n + 1) - 1 = n
      <3>1. n # MaxTicks
        BY <1>5, AfterTyped
      <3> QED  BY <1>0, <3>1
    <2>2. PICK rows \in Seq(TraceRow) :
              rows = RowsOfTick(img, n + 1) /\ rows # <<>>
      BY <1>5, <2>1, RowsTicked
    <2>3. /\ StepEmulator(t.emu, t.prevPc) = Tick(m.emu)
          /\ StepEmulator(t.emu, t.prevPc).rows = rows
      <3>1. StepEmulator(t.emu, t.prevPc) = Tick(m.emu)
        BY <1>1, <1>5 DEF StepEmulator, Halted
      <3>2. RowsOfTick(img, n + 1) = Tick(m.emu).rows
        BY <1>5, <2>1, RowsTicked
      <3> QED  BY <2>2, <3>1, <3>2
    <2>4. /\ After(img)[n + 1].emu = Tick(m.emu).emu
          /\ After(img)[n + 1].prevPc = m.emu.pc
      <3>1. After(img)[n + 1] = Ticked(m)
        BY <2>1, AfterTicks
      <3> HIDE DEF m
      <3> QED  BY <1>5, <3>1 DEF Ticked, Halted
    <2>5. LazyStep(t) = [t EXCEPT !.emu = Tick(m.emu).emu, !.prevPc = t.emu.pc,
                                  !.current = Tail(rows),
                                  !.sinceCheckpoint = @ + 1]
      <3> HIDE DEF m
      <3> QED  BY <1>5, <2>2, <2>3 DEF LazyStep
    <2>6. NextRow(t) = <<Head(rows)>>
      BY <1>5, <2>2, <2>3 DEF NextRow
    <2>7. /\ Tail(rows) \in Seq(TraceRow) /\ Head(rows) \in TraceRow
          /\ <<Head(rows)>> \o Tail(rows) = rows
      BY <2>2
    <2>8. Machine(After(img)[n + 1])
      BY <1>0, <2>1, AfterTyped
    <2>9. /\ LazyStep(t) \in Tracer
          /\ LazyStep(t).current = Tail(rows)
          /\ LazyStep(t).emu = After(img)[n + 1].emu
          /\ LazyStep(t).prevPc = After(img)[n + 1].prevPc
          /\ ~LazyStep(t).finished
      <3>1. Tick(m.emu).emu \in Emulator /\ m.emu.pc \in Address
        BY <1>2, <2>4, <2>8 DEF Machine, Emulator
      <3> HIDE DEF m
      <3>2. LazyStep(t) = [emu |-> Tick(m.emu).emu, prevPc |-> t.emu.pc,
                           current |-> Tail(rows),
                           sinceCheckpoint |-> t.sinceCheckpoint + 1,
                           finished |-> t.finished, saved |-> t.saved]
        BY <2>5 DEF Tracer
      <3>3. t.sinceCheckpoint + 1 \in Nat
        BY DEF Tracer
      <3> QED  BY <1>1, <2>4, <2>7, <3>1, <3>2, <3>3 DEF Tracer
    <2>10. TicksOnce(t, img, n)
      BY <1>5, <2>1, <2>2, <2>6, <2>7, <2>9 DEF TicksOnce, Follows
    <2> QED  BY <2>6, <2>7, <2>9, <2>10
  <1> QED  BY <1>3, <1>4, <1>5

-----------------------------------------------------------------------------
Iterator ==
    [target : Targets, index : Nat, start : Nat, cycles : Seq(TraceRow),
     startState : {<<>>} \cup Boundary,
     phase : {"idle", "pulling", "emitting", "done"}]

Typed ==
    /\ image \in Images /\ tracer \in Tracer /\ iter \in Iterator
    /\ blocks \in Seq(TraceBlock)

Working == iter.phase \in {"pulling", "emitting"}

StateAfter(s, n) ==
    /\ s.pc = After(image)[n].emu.pc
    /\ s.x = After(image)[n].emu.x
    /\ s.globalCycle = RowsUpTo(image, n)

(* The tracer has made n ticks, and the block began after tick j.          *)
Place(j, n) ==
    /\ Follows(tracer, image, n)
    /\ iter.start = RowsUpTo(image, j)
    /\ iter.phase = "idle" => j = n /\ tracer.current = <<>>
    /\ Working =>
          /\ (TraceUpTo(image, j) \o iter.cycles) \o tracer.current
                = TraceUpTo(image, n)
          /\ n > j => RowsUpTo(image, n - 1) - RowsUpTo(image, j) < iter.target
          /\ iter.startState \in Boundary /\ StateAfter(iter.startState, j)

Placed ==
    iter.phase # "done" => \E n \in 0..MaxTicks : \E j \in 0..n : Place(j, n)

(* A block that is returned is at the end of a tick, and full if it is not *)
(* the last; the iterator has ended only with its tracer.                  *)
Ends ==
    /\ iter.phase = "emitting" =>
          /\ tracer.current = <<>>
          /\ Len(iter.cycles) >= iter.target \/ tracer.finished
    /\ iter.phase = "done" =>
          tracer.finished /\ iter.start = Len(FullTrace(image))

(* The iterator goes on where the last block ended.                        *)
Linked ==
    /\ iter.index = Len(blocks)
    /\ Working => ~iter.startState.terminated
    /\ blocks # <<>> =>
          LET b == blocks[Len(blocks)]
          IN  /\ b.start + b.active = iter.start
              /\ iter.phase = "idle" => b.endState = BoundaryState(tracer, iter.start)
              /\ Working => b.endState = iter.startState

BlocksInv ==
    Typed /\ Placed /\ Ends /\ Linked /\ BlocksAreWholeTicks /\ TerminatedIsLast

-----------------------------------------------------------------------------
(* The state that the iterator snapshots is that of the guest.             *)
LEMMA Snapshot ==
    ASSUME Typed, NEW n \in 0..MaxTicks, Follows(tracer, image, n)
    PROVE  LET s == BoundaryState(tracer, RowsUpTo(image, n))
           IN  s \in Boundary /\ StateAfter(s, n) /\ s.terminated = tracer.finished
  BY RowsCounted DEF Typed, Tracer, Emulator, BoundaryState, Boundary, Follows,
                     StateAfter

(* The iterator begins with a tracer of no ticks and an empty block.       *)
LEMMA InitBlocks == Init => BlocksInv
  <1> SUFFICES ASSUME Init PROVE BlocksInv
    OBVIOUS
  <1>0. MaxTicks \in Nat /\ 0 \in 0..MaxTicks
    BY MaxTicksAssumption
  <1>1. image \in Images /\ tracer = NewTracer(image, Entry) /\ blocks = <<>>
    BY DEF Init
  <1>2. PICK target \in Targets :
            iter = [target |-> target, index |-> 0, start |-> 0,
                    cycles |-> <<>>, startState |-> <<>>, phase |-> "idle"]
    BY DEF Init
  <1>3. iter \in Iterator
    BY <1>2 DEF Iterator
  <1>4. /\ After(image)[0].emu = Booted(image, Entry)
        /\ After(image)[0].prevPc = 0
    <2>1. After(image)[0] = Loaded(image)
      BY AfterTicks
    <2> QED  BY <2>1 DEF Loaded
  <1>5. After(image)[0].emu \in Emulator
    BY <1>0, <1>1, AfterTyped DEF Machine
  <1>6. tracer \in Tracer /\ tracer.current = <<>> /\ ~tracer.finished
    BY <1>1, <1>4, <1>5 DEF NewTracer, Tracer
  <1>7. Follows(tracer, image, 0)
    BY <1>1, <1>4, <1>6 DEF NewTracer, Follows
  <1>8. Typed
    BY <1>1, <1>3, <1>6 DEF Typed
  <1>9. RowsUpTo(image, 0) = 0
    BY <1>0, <1>1, TraceGrows
  <1>10. Place(0, 0)
    BY <1>2, <1>6, <1>7, <1>9 DEF Place, Working
  <1>11. Placed
    BY <1>0, <1>10 DEF Placed
  <1>12. Ends /\ Linked /\ BlocksAreWholeTicks /\ TerminatedIsLast
    BY <1>1, <1>2 DEF Ends, Linked, Working, BlocksAreWholeTicks, TerminatedIsLast
  <1> QED  BY <1>8, <1>11, <1>12 DEF BlocksInv

(* Where the tracer has finished, all of the trace was traced.             *)
LEMMA AllTraced ==
    ASSUME NEW img \in Images, NEW n \in 0..MaxTicks, NEW t,
           Follows(t, img, n), t.finished
    PROVE  RowsUpTo(img, n) = Len(FullTrace(img))
  BY RowsCounted, HaltedTrace DEF Follows

(* The blocks that were returned stand while the guest stays the same.     *)
LEMMA BlocksStand ==
    ASSUME BlocksAreWholeTicks, UNCHANGED <<image, blocks>>
    PROVE  BlocksAreWholeTicks'
  <1>1. image' = image /\ blocks' = blocks
    OBVIOUS
  <1>2. ASSUME NEW i \in DOMAIN blocks, NEW j, NEW k, IsTicks(blocks[i], j, k)
        PROVE  IsTicks(blocks[i], j, k)'
    BY <1>1, <1>2 DEF IsTicks
  <1>3. ASSUME NEW i \in DOMAIN blocks
        PROVE  \E j, k \in 0..MaxTicks : j < k /\ IsTicks(blocks[i], j, k)'
    <2>1. \E j, k \in 0..MaxTicks : j < k /\ IsTicks(blocks[i], j, k)
      BY DEF BlocksAreWholeTicks
    <2>2. PICK j \in 0..MaxTicks, k \in 0..MaxTicks : j < k /\ IsTicks(blocks[i], j, k)
      BY <2>1
    <2>3. IsTicks(blocks[i], j, k)'
      BY <1>2, <2>2
    <2> QED  BY <2>2, <2>3
  <1>4. ASSUME NEW i \in DOMAIN blocks
        PROVE  /\ blocks'[i].index = i - 1
               /\ i > 1 => /\ blocks'[i].start = blocks'[i - 1].start + blocks'[i - 1].active
                           /\ blocks'[i].startState = blocks'[i - 1].endState
    BY <1>1 DEF BlocksAreWholeTicks
  <1> QED  BY <1>1, <1>3, <1>4 DEF BlocksAreWholeTicks

(* The end of the iteration is only reported when everything was traced.   *)
LEMMA EndKeeps == BlocksInv /\ End => BlocksInv'
  <1> SUFFICES ASSUME BlocksInv, End PROVE BlocksInv'
    OBVIOUS
  <1>1. Typed /\ Placed /\ Ends /\ Linked /\ BlocksAreWholeTicks /\ TerminatedIsLast
    BY DEF BlocksInv
  <1>2. /\ iter.phase \in {"idle", "done"} /\ tracer.finished
        /\ iter' = [iter EXCEPT !.phase = "done"]
        /\ UNCHANGED <<image, tracer, blocks>>
    BY DEF End
  <1>3. /\ iter' \in Iterator /\ iter'.phase = "done"
        /\ iter'.start = iter.start /\ iter'.index = iter.index
    BY <1>1, <1>2 DEF Typed, Iterator
  <1>4. iter.start = Len(FullTrace(image))
    <2>1. CASE iter.phase = "done"
      BY <1>1, <2>1 DEF Ends
    <2>2. CASE iter.phase = "idle"
      <3>0. PICK n \in 0..MaxTicks : \E j \in 0..n : Place(j, n)
        BY <1>1, <2>2 DEF Placed
      <3>1. PICK j \in 0..n : Place(j, n)
        BY <3>0
      <3>2. Follows(tracer, image, n) /\ iter.start = RowsUpTo(image, n)
        BY <2>2, <3>1 DEF Place
      <3> QED  BY <1>1, <1>2, <3>2, AllTraced DEF Typed
    <2> QED  BY <1>2, <2>1, <2>2
  <1>5. Typed' /\ Placed' /\ Ends' /\ Linked'
    BY <1>1, <1>2, <1>3, <1>4 DEF Typed, Placed, Ends, Linked, Working
  <1>6. BlocksAreWholeTicks' /\ TerminatedIsLast'
    BY <1>1, <1>2, BlocksStand DEF TerminatedIsLast
  <1> QED  BY <1>5, <1>6 DEF BlocksInv

(* A block begins where the last one ended, at the end of a tick.          *)
LEMMA BeginKeeps == BlocksInv /\ Begin => BlocksInv'
  <1> SUFFICES ASSUME BlocksInv, Begin PROVE BlocksInv'
    OBVIOUS
  <1>0. MaxTicks \in Nat
    BY MaxTicksAssumption
  <1>1. Typed /\ Placed /\ Ends /\ Linked /\ BlocksAreWholeTicks /\ TerminatedIsLast
    BY DEF BlocksInv
  <1>2. iter.phase = "idle" /\ ~tracer.finished /\ UNCHANGED <<image, tracer, blocks>>
    BY DEF Begin
  <1>3. PICK n \in 0..MaxTicks : \E j \in 0..n : Place(j, n)
    BY <1>1, <1>2 DEF Placed
  <1>4. /\ Follows(tracer, image, n) /\ iter.start = RowsUpTo(image, n)
        /\ tracer.current = <<>>
    BY <1>2, <1>3 DEF Place
  <1> DEFINE s == BoundaryState(tracer, iter.start)
  <1>5. iter' = [iter EXCEPT !.phase = "pulling", !.cycles = <<>>, !.startState = s]
    BY <1>4 DEF Begin, AtTickBoundary
  <1>6. s \in Boundary /\ StateAfter(s, n) /\ ~s.terminated
    BY <1>1, <1>2, <1>4, Snapshot
  <1> HIDE DEF s
  <1>7. /\ iter' \in Iterator /\ iter'.phase = "pulling" /\ iter'.start = iter.start
        /\ iter'.cycles = <<>> /\ iter'.startState = s /\ iter'.index = iter.index
    <2>1. <<>> \in Seq(TraceRow)
      OBVIOUS
    <2>2. iter \in Iterator
      BY <1>1 DEF Typed
    <2>3. iter' = [target |-> iter.target, index |-> iter.index,
                   start |-> iter.start, cycles |-> <<>>, startState |-> s,
                   phase |-> "pulling"]
      BY <1>5, <2>2 DEF Iterator
    <2> QED  BY <1>6, <2>1, <2>2, <2>3 DEF Iterator
  <1>8. Place(n, n)'
    <2>1. (TraceUpTo(image, n) \o <<>>) \o <<>> = TraceUpTo(image, n)
      BY <1>1, RowsCounted DEF Typed
    <2>2. /\ Follows(tracer', image', n)
          /\ StateAfter(iter.startState, n)' <=> StateAfter(s, n)
      BY <1>2, <1>4, <1>7 DEF StateAfter
    <2> QED  BY <1>0, <1>2, <1>4, <1>6, <1>7, <2>1, <2>2 DEF Place, Working, Follows
  <1>9. Placed'
    BY <1>0, <1>8 DEF Placed
  <1>10. Typed' /\ Ends'
    BY <1>1, <1>2, <1>7 DEF Typed, Ends
  <1>11. Linked'
    BY <1>1, <1>2, <1>6, <1>7 DEF Linked, Working, s
  <1>12. BlocksAreWholeTicks' /\ TerminatedIsLast'
    BY <1>1, <1>2, BlocksStand DEF TerminatedIsLast
  <1> QED  BY <1>9, <1>10, <1>11, <1>12 DEF BlocksInv

(* A block that wants no more rows is full, and at the end of a tick.      *)
LEMMA FullKeeps == BlocksInv /\ Full => BlocksInv'
  <1> SUFFICES ASSUME BlocksInv, Full PROVE BlocksInv'
    OBVIOUS
  <1>1. Typed /\ Placed /\ Ends /\ Linked /\ BlocksAreWholeTicks /\ TerminatedIsLast
    BY DEF BlocksInv
  <1>2. /\ iter.phase = "pulling" /\ ~WantsRow
        /\ iter' = [iter EXCEPT !.phase = "emitting"]
        /\ UNCHANGED <<image, tracer, blocks>>
    BY DEF Full
  <1>3. /\ iter' \in Iterator /\ iter'.phase = "emitting" /\ iter'.start = iter.start
        /\ iter'.cycles = iter.cycles /\ iter'.startState = iter.startState
        /\ iter'.index = iter.index /\ iter'.target = iter.target
    BY <1>1, <1>2 DEF Typed, Iterator
  <1>4. tracer.current = <<>> /\ Len(iter.cycles) >= iter.target
    <2>1. Len(iter.cycles) \in Nat /\ iter.target \in Nat
      <3>1. iter.cycles \in Seq(TraceRow) /\ iter.target \in Targets
        BY <1>1 DEF Typed, Iterator
      <3>2. Len(iter.cycles) \in Nat
        BY <3>1
      <3> QED  BY <3>1, <3>2, TargetsAssumption
    <2> QED  BY <1>2, <2>1 DEF WantsRow, AtTickBoundary
  <1>5. Placed'
    BY <1>1, <1>2, <1>3 DEF Placed, Place, Working, Follows, StateAfter
  <1>6. Typed' /\ Ends' /\ Linked'
    BY <1>1, <1>2, <1>3, <1>4 DEF Typed, Ends, Linked, Working
  <1>7. BlocksAreWholeTicks' /\ TerminatedIsLast'
    BY <1>1, <1>2, BlocksStand DEF TerminatedIsLast
  <1> QED  BY <1>5, <1>6, <1>7 DEF BlocksInv

(* A row that is pulled is the next of the trace.                          *)
LEMMA PullKeeps == BlocksInv /\ Pull => BlocksInv'
  <1> SUFFICES ASSUME BlocksInv, Pull PROVE BlocksInv'
    OBVIOUS
  <1>0. MaxTicks \in Nat
    BY MaxTicksAssumption
  <1>1. Typed /\ Placed /\ Ends /\ Linked /\ BlocksAreWholeTicks /\ TerminatedIsLast
    BY DEF BlocksInv
  <1>2. iter.phase = "pulling" /\ WantsRow /\ UNCHANGED <<image, blocks>>
    BY DEF Pull
  <1>3. PICK n \in 0..MaxTicks : \E j \in 0..n : Place(j, n)
    BY <1>1, <1>2 DEF Placed
  <1>4. PICK j \in 0..n : Place(j, n)
    BY <1>3
  <1>5. /\ Follows(tracer, image, n) /\ iter.start = RowsUpTo(image, j)
        /\ (TraceUpTo(image, j) \o iter.cycles) \o tracer.current
                = TraceUpTo(image, n)
        /\ n > j => RowsUpTo(image, n - 1) - RowsUpTo(image, j) < iter.target
        /\ iter.startState \in Boundary /\ StateAfter(iter.startState, j)
    BY <1>2, <1>4 DEF Place, Working
  <1>6. /\ image \in Images /\ tracer \in Tracer /\ iter \in Iterator
        /\ iter.cycles \in Seq(TraceRow) /\ iter.target \in Nat
        /\ tracer.current \in Seq(TraceRow)
    BY <1>1, TargetsAssumption DEF Typed, Iterator, Tracer
  <1>7. BlocksAreWholeTicks'
    BY <1>1, <1>2, BlocksStand
  <1>8. CASE tracer.finished
    <2>1. iter' = [iter EXCEPT !.phase = "emitting"] /\ UNCHANGED tracer
      BY <1>8 DEF Pull
    <2>2. /\ iter' \in Iterator /\ iter'.phase = "emitting" /\ iter'.start = iter.start
          /\ iter'.cycles = iter.cycles /\ iter'.startState = iter.startState
          /\ iter'.index = iter.index /\ iter'.target = iter.target
      BY <1>6, <2>1 DEF Iterator
    <2>3. tracer.current = <<>>
      BY <1>5, <1>8 DEF Follows
    <2>4. Placed'
      BY <1>1, <1>2, <2>1, <2>2 DEF Placed, Place, Working, Follows, StateAfter
    <2>5. Typed' /\ Ends' /\ Linked' /\ TerminatedIsLast'
      BY <1>1, <1>2, <1>8, <2>1, <2>2, <2>3
         DEF Typed, Ends, Linked, Working, TerminatedIsLast
    <2> QED  BY <1>7, <2>4, <2>5 DEF BlocksInv
  <1>9. CASE ~tracer.finished
    <2>1. /\ tracer' = LazyStep(tracer)
          /\ iter' = IF NextRow(tracer) = <<>>
                     THEN [iter EXCEPT !.phase = "emitting"]
                     ELSE [iter EXCEPT !.cycles = @ \o NextRow(tracer)]
      BY <1>9 DEF Pull
    <2>2. /\ tracer' \in Tracer /\ NextRow(tracer) \in Seq(TraceRow)
          /\ \/ HandsOut(tracer, image, n)
             \/ TicksOnce(tracer, image, n)
             \/ Finds(tracer, image, n)
      BY <1>5, <1>6, <1>9, <2>1, Stepped
    <2>3. TerminatedIsLast'
      BY <1>1, <1>2, <1>9 DEF TerminatedIsLast
    <2>4. tracer'.current \in Seq(TraceRow)
      BY <2>2 DEF Tracer
    <2>5. TraceUpTo(image, j) \in Seq(TraceRow) /\ TraceUpTo(image, n) \in Seq(TraceRow)
      <3>1. j \in 0..MaxTicks
        BY <1>0
      <3> QED  BY <1>6, <3>1, RowsCounted
    <2>6. CASE Finds(tracer, image, n)
      <3>1. /\ tracer.current = <<>> /\ NextRow(tracer) = <<>>
            /\ tracer'.finished /\ Follows(tracer', image, n)
        BY <2>1, <2>6 DEF Finds
      <3>2. tracer'.current = <<>>
        BY <3>1 DEF Follows
      <3>3. /\ iter' \in Iterator /\ iter'.phase = "emitting" /\ iter'.start = iter.start
            /\ iter'.cycles = iter.cycles /\ iter'.startState = iter.startState
            /\ iter'.index = iter.index /\ iter'.target = iter.target
        BY <1>6, <2>1, <3>1 DEF Iterator
      <3>4. Place(j, n)'
        BY <1>2, <1>5, <3>1, <3>2, <3>3 DEF Place, Working, Follows, StateAfter
      <3>5. Placed'
        BY <3>4 DEF Placed
      <3>6. Typed' /\ Ends' /\ Linked'
        BY <1>1, <1>2, <2>2, <3>1, <3>2, <3>3 DEF Typed, Ends, Linked, Working
      <3> QED  BY <1>7, <2>3, <3>5, <3>6 DEF BlocksInv
    <2>7. CASE NextRow(tracer) # <<>> /\ ~tracer'.finished
      <3>1. /\ iter' \in Iterator /\ iter'.phase = "pulling" /\ iter'.start = iter.start
            /\ iter'.cycles = iter.cycles \o NextRow(tracer)
            /\ iter'.startState = iter.startState
            /\ iter'.index = iter.index /\ iter'.target = iter.target
        <4>1. iter.cycles \o NextRow(tracer) \in Seq(TraceRow)
          BY <1>6, <2>2
        <4> QED  BY <1>2, <1>6, <2>1, <2>7, <4>1 DEF Iterator
      <3>2. (TraceUpTo(image, j) \o (iter.cycles \o NextRow(tracer))) \o tracer'.current
              = (TraceUpTo(image, j) \o iter.cycles) \o (NextRow(tracer) \o tracer'.current)
        <4>1. PICK a \in Seq(TraceRow) : a = TraceUpTo(image, j)
          BY <2>5
        <4>2. PICK b \in Seq(TraceRow) : b = iter.cycles
          BY <1>6
        <4>3. PICK c \in Seq(TraceRow) : c = NextRow(tracer)
          BY <2>2
        <4>4. PICK d \in Seq(TraceRow) : d = tracer'.current
          BY <2>4
        <4>5. Regrouped(a, b, c, d)
          BY Regroup
        <4> QED  BY <4>1, <4>2, <4>3, <4>4, <4>5 DEF Regrouped
      <3>3. \E k \in 0..MaxTicks : \E i \in 0..k : Place(i, k)'
        <4>1. CASE HandsOut(tracer, image, n)
          <5>1. /\ Follows(tracer', image, n)
                /\ NextRow(tracer) \o tracer'.current = tracer.current
            BY <2>1, <4>1 DEF HandsOut
          <5>2. Place(j, n)'
            BY <1>2, <1>5, <3>1, <3>2, <5>1 DEF Place, Working, Follows, StateAfter
          <5> QED  BY <5>2
        <4>2. CASE TicksOnce(tracer, image, n)
          <5>1. /\ Follows(tracer', image, n + 1) /\ tracer.current = <<>>
                /\ NextRow(tracer) \o tracer'.current = RowsOfTick(image, n + 1)
                /\ n + 1 \in 1..MaxTicks /\ (n + 1) - 1 = n
            BY <2>1, <4>2 DEF TicksOnce
          <5>2. TraceUpTo(image, j) \o iter.cycles = TraceUpTo(image, n)
            <6>1. \A a \in Seq(TraceRow) : a \o <<>> = a
              OBVIOUS
            <6>2. TraceUpTo(image, j) \o iter.cycles \in Seq(TraceRow)
              BY <1>6, <2>5
            <6> QED  BY <1>5, <5>1, <6>1, <6>2
          <5>3. TraceUpTo(image, n + 1) = TraceUpTo(image, n) \o RowsOfTick(image, n + 1)
            BY <1>6, <5>1, TraceGrows
          <5>4. RowsUpTo(image, n) - RowsUpTo(image, j) < iter.target
            <6>1. Len(iter.cycles) < iter.target
              BY <1>2, <5>1 DEF WantsRow, AtTickBoundary
            <6>2. /\ RowsUpTo(image, n) = Len(TraceUpTo(image, n))
                  /\ RowsUpTo(image, j) = Len(TraceUpTo(image, j))
              <7>1. j \in 0..MaxTicks
                BY <1>0
              <7> QED  BY <1>6, <7>1, RowsCounted
            <6>3. Len(TraceUpTo(image, n)) = Len(TraceUpTo(image, j)) + Len(iter.cycles)
              BY <1>6, <2>5, <5>2
            <6>4. /\ Len(TraceUpTo(image, n)) \in Nat /\ Len(TraceUpTo(image, j)) \in Nat
                  /\ Len(iter.cycles) \in Nat
              BY <1>6, <2>5
            <6> QED  BY <1>6, <6>1, <6>2, <6>3, <6>4
          <5>5. Place(j, n + 1)'
            BY <1>2, <1>5, <3>1, <3>2, <5>1, <5>2, <5>3, <5>4
               DEF Place, Working, Follows, StateAfter
          <5>6. n + 1 \in 0..MaxTicks /\ j \in 0..(n + 1)
            BY <1>0, <5>1
          <5> QED  BY <5>5, <5>6
        <4> QED  BY <2>2, <2>7, <4>1, <4>2 DEF Finds
      <3>4. Placed'
        BY <3>3 DEF Placed
      <3>5. Typed' /\ Ends' /\ Linked'
        BY <1>1, <1>2, <2>2, <3>1 DEF Typed, Ends, Linked, Working
      <3> QED  BY <1>7, <2>3, <3>4, <3>5 DEF BlocksInv
    <2> QED  BY <2>1, <2>2, <2>6, <2>7 DEF HandsOut, TicksOnce
  <1> QED  BY <1>8, <1>9

(* A block that is returned is whole ticks of the trace.                   *)
LEMMA EmittedIsTicks ==
    ASSUME BlocksInv, iter.phase = "emitting", iter.cycles # <<>>
    PROVE  /\ Block \in TraceBlock /\ Block.atBoundary
           /\ \E j, k \in 0..MaxTicks : j < k /\ IsTicks(Block, j, k)
           /\ \E k \in 0..MaxTicks : /\ Follows(tracer, image, k)
                                     /\ iter.start + Len(iter.cycles) = RowsUpTo(image, k)
           /\ Block.endState = BoundaryState(tracer, iter.start + Len(iter.cycles))
  <1>0. MaxTicks \in Nat
    BY MaxTicksAssumption
  <1>1. Typed /\ Placed /\ Ends
    BY DEF BlocksInv
  <1>2. /\ image \in Images /\ iter \in Iterator
        /\ iter.cycles \in Seq(TraceRow) /\ iter.target \in Nat /\ iter.index \in Nat
        /\ iter.target \in Targets /\ iter.start \in Nat
    BY <1>1, TargetsAssumption DEF Typed, Iterator
  <1>3. PICK n \in 0..MaxTicks : \E j \in 0..n : Place(j, n)
    BY <1>1 DEF Placed
  <1>4. PICK j \in 0..n : Place(j, n)
    BY <1>3
  <1>5. j \in 0..MaxTicks
    BY <1>0
  <1>6. /\ Follows(tracer, image, n) /\ iter.start = RowsUpTo(image, j)
        /\ (TraceUpTo(image, j) \o iter.cycles) \o tracer.current
                = TraceUpTo(image, n)
        /\ n > j => RowsUpTo(image, n - 1) - RowsUpTo(image, j) < iter.target
        /\ iter.startState \in Boundary /\ StateAfter(iter.startState, j)
    BY <1>4 DEF Place, Working
  <1>7. tracer.current = <<>> /\ (Len(iter.cycles) >= iter.target \/ tracer.finished)
    BY <1>1 DEF Ends
  <1>8. PICK s \in Seq(TraceRow) : s = TraceUpTo(image, j)
    BY <1>2, <1>5, RowsCounted
  <1>9. PICK c \in Seq(TraceRow) : c = iter.cycles
    BY <1>2
  <1>10. PICK t \in Seq(TraceRow) : t = FullTrace(image)
    <2>1. MaxTicks \in 0..MaxTicks
      BY <1>0
    <2> QED  BY <1>2, <2>1, TraceGrows
  <1>11. s \o c = TraceUpTo(image, n)
    <2>1. s \o c \in Seq(TraceRow) /\ (s \o c) \o <<>> = s \o c
      BY <1>8, <1>9
    <2> QED  BY <1>6, <1>7, <1>8, <1>9, <2>1
  <1>12. /\ RowsUpTo(image, j) = Len(s) /\ RowsUpTo(image, n) = Len(s) + Len(c)
         /\ Len(s) \in Nat /\ Len(c) \in Nat
    <2>1. RowsUpTo(image, j) = Len(s)
      BY <1>2, <1>5, <1>8, RowsCounted
    <2>2. RowsUpTo(image, n) = Len(s \o c)
      BY <1>2, <1>11, RowsCounted
    <2> QED  BY <1>8, <1>9, <2>1, <2>2
  <1>13. c = SubSeq(t, Len(s) + 1, Len(s) + Len(c))
    <2>1. StartsWith(t, s \o c)
      BY <1>2, <1>10, <1>11, TracePrefix
    <2> QED  BY <1>8, <1>9, <1>10, <2>1, MiddlePart
  <1>14. j < n
    <2>1. Len(c) # 0
      BY <1>9
    <2>2. j # n
      BY <1>12, <2>1
    <2> QED  BY <1>0, <2>2
  <1> DEFINE e == BoundaryState(tracer, iter.start + Len(iter.cycles))
  <1>15. iter.start + Len(iter.cycles) = RowsUpTo(image, n)
    BY <1>6, <1>9, <1>12
  <1>16. e \in Boundary /\ StateAfter(e, n)
    BY <1>1, <1>6, <1>15, Snapshot
  <1>17. /\ Block.start = iter.start /\ Block.active = Len(iter.cycles)
         /\ Block.cycles = iter.cycles /\ Block.target = iter.target
         /\ Block.startState = iter.startState /\ Block.endState = e
         /\ Block.index = iter.index
         /\ Block.atBoundary = (AtTickBoundary(tracer) \/ tracer.finished)
    BY DEF Block
  <1>18. Block \in TraceBlock
    <2>1. (AtTickBoundary(tracer) \/ tracer.finished) = TRUE
      BY <1>7 DEF AtTickBoundary
    <2> HIDE DEF e
    <2>2. Block = [index |-> iter.index, start |-> iter.start,
                   active |-> Len(iter.cycles), target |-> iter.target,
                   startState |-> iter.startState, endState |-> e,
                   atBoundary |-> TRUE, cycles |-> iter.cycles]
      BY <2>1 DEF Block, e
    <2>3. Len(iter.cycles) \in Nat
      BY <1>9, <1>12
    <2> QED  BY <1>2, <1>6, <1>16, <2>2, <2>3 DEF TraceBlock
  <1>19. Len(iter.cycles) >= iter.target \/ RowsUpTo(image, n) = Len(FullTrace(image))
    BY <1>2, <1>6, <1>7, AllTraced
  <1> HIDE DEF e
  <1>20. IsTicks(Block, j, n)
    <2>1. /\ Block.start = RowsUpTo(image, j)
          /\ Block.active = RowsUpTo(image, n) - RowsUpTo(image, j)
      BY <1>6, <1>9, <1>12, <1>17
    <2>2. Block.cycles = SubSeq(FullTrace(image), RowsUpTo(image, j) + 1, RowsUpTo(image, n))
      BY <1>9, <1>10, <1>12, <1>13, <1>17
    <2>3. RowsUpTo(image, n - 1) - RowsUpTo(image, j) < Block.target
      BY <1>0, <1>6, <1>14, <1>17
    <2>4. Block.active >= Block.target \/ RowsUpTo(image, n) = Len(FullTrace(image))
      BY <1>17, <1>19
    <2> QED  BY <1>6, <1>16, <1>17, <2>1, <2>2, <2>3, <2>4 DEF IsTicks, StateAfter
  <1> QED  BY <1>5, <1>6, <1>7, <1>14, <1>15, <1>17, <1>18, <1>20 DEF AtTickBoundary, e

(* The iterator returns a block, or finds that there is none.              *)
LEMMA EmitKeeps == BlocksInv /\ Emit => BlocksInv'
  <1> SUFFICES ASSUME BlocksInv, Emit PROVE BlocksInv'
    OBVIOUS
  <1>0. MaxTicks \in Nat
    BY MaxTicksAssumption
  <1>1. Typed /\ Placed /\ Ends /\ Linked /\ BlocksAreWholeTicks /\ TerminatedIsLast
    BY DEF BlocksInv
  <1>2. /\ iter.phase = "emitting" /\ UNCHANGED <<image, tracer>>
        /\ iter \in Iterator /\ image \in Images
        /\ iter.cycles \in Seq(TraceRow) /\ iter.start \in Nat /\ iter.index \in Nat
    BY <1>1 DEF Emit, Typed, Iterator
  <1>3. CASE iter.cycles = <<>>
    <2>1. iter' = [iter EXCEPT !.phase = "done"] /\ blocks' = blocks
      BY <1>3 DEF Emit
    <2>2. /\ iter' \in Iterator /\ iter'.phase = "done"
          /\ iter'.start = iter.start /\ iter'.index = iter.index
      BY <1>2, <2>1 DEF Iterator
    <2>3. tracer.finished
      <3>1. iter.target \in Nat \ {0}
        BY <1>2, TargetsAssumption DEF Iterator
      <3>2. ~ (Len(iter.cycles) >= iter.target)
        BY <1>3, <3>1
      <3> QED  BY <1>1, <1>2, <3>2 DEF Ends
    <2>4. iter.start = Len(FullTrace(image))
      <3>1. PICK n \in 0..MaxTicks : \E j \in 0..n : Place(j, n)
        BY <1>1, <1>2 DEF Placed
      <3>2. PICK j \in 0..n : Place(j, n)
        BY <3>1
      <3>3. /\ Follows(tracer, image, n) /\ iter.start = RowsUpTo(image, j)
            /\ (TraceUpTo(image, j) \o <<>>) \o <<>> = TraceUpTo(image, n)
        BY <1>1, <1>2, <1>3, <3>2 DEF Place, Working, Ends
      <3>4. j \in 0..MaxTicks
        BY <1>0
      <3>5. PICK s \in Seq(TraceRow) : s = TraceUpTo(image, j)
        BY <1>2, <3>4, RowsCounted
      <3>6. (s \o <<>>) \o <<>> = s
        BY <3>5
      <3>7. RowsUpTo(image, j) = RowsUpTo(image, n)
        BY <1>2, <3>3, <3>4, <3>5, <3>6, RowsCounted
      <3> QED  BY <1>2, <2>3, <3>3, <3>7, AllTraced
    <2>5. Typed' /\ Placed' /\ Ends' /\ Linked'
      BY <1>1, <1>2, <2>1, <2>2, <2>3, <2>4 DEF Typed, Placed, Ends, Linked, Working
    <2>6. BlocksAreWholeTicks' /\ TerminatedIsLast'
      BY <1>1, <1>2, <2>1, BlocksStand DEF TerminatedIsLast
    <2> QED  BY <2>5, <2>6 DEF BlocksInv
  <1>4. CASE iter.cycles # <<>>
    <2>1. /\ blocks' = Append(blocks, Block)
          /\ iter' = [iter EXCEPT !.index = @ + 1,
                                  !.start = @ + Len(iter.cycles),
                                  !.phase = "idle"]
      BY <1>4 DEF Emit
    <2>2. PICK b \in TraceBlock : b = Block
      BY <1>2, <1>4, EmittedIsTicks
    <2>3. /\ b.atBoundary
          /\ \E j, k \in 0..MaxTicks : j < k /\ IsTicks(b, j, k)
          /\ b.endState = BoundaryState(tracer, iter.start + Len(iter.cycles))
      BY <1>2, <1>4, <2>2, EmittedIsTicks
    <2>4. PICK n \in 0..MaxTicks :
             /\ Follows(tracer, image, n)
             /\ iter.start + Len(iter.cycles) = RowsUpTo(image, n)
      BY <1>2, <1>4, EmittedIsTicks
    <2>5. /\ b.start = iter.start /\ b.active = Len(iter.cycles)
          /\ b.startState = iter.startState /\ b.index = iter.index
      BY <2>2 DEF Block
    <2>6. Len(iter.cycles) \in Nat
      BY <1>2
    <2>7. /\ iter' \in Iterator /\ iter'.phase = "idle"
          /\ iter'.start = iter.start + Len(iter.cycles)
          /\ iter'.index = iter.index + 1
      <3>1. iter' = [target |-> iter.target, index |-> iter.index + 1,
                     start |-> iter.start + Len(iter.cycles),
                     cycles |-> iter.cycles, startState |-> iter.startState,
                     phase |-> "idle"]
        BY <1>2, <2>1 DEF Iterator
      <3>2. /\ iter.start + Len(iter.cycles) \in Nat /\ iter.index + 1 \in Nat
            /\ iter.target \in Targets /\ iter.startState \in {<<>>} \cup Boundary
        BY <1>2, <2>6 DEF Iterator
      <3> QED  BY <1>2, <3>1, <3>2 DEF Iterator
    <2>8. PICK N \in Nat : N = Len(blocks)
      BY <1>1 DEF Typed
    <2>9. /\ blocks' \in Seq(TraceBlock) /\ Len(blocks') = N + 1
          /\ blocks'[N + 1] = b /\ \A i \in 1..N : blocks'[i] = blocks[i]
          /\ DOMAIN blocks = 1..N /\ DOMAIN blocks' = 1..(N + 1)
      BY <1>1, <2>1, <2>2, <2>8 DEF Typed
    <2>10. Typed'
      BY <1>1, <1>2, <2>7, <2>9 DEF Typed
    <2>11. Placed'
      <3>1. Place(n, n)'
        BY <1>1, <1>2, <2>4, <2>7 DEF Place, Follows, Working, Ends
      <3>2. n \in 0..n
        BY <1>0
      <3> QED  BY <3>1, <3>2 DEF Placed
    <2>12. Ends'
      BY <2>7 DEF Ends
    <2>13. iter.index = N
      BY <1>1, <2>8 DEF Linked
    <2>14. Linked'
      <3>1. b.endState = BoundaryState(tracer, iter.start)'
        BY <1>2, <2>3, <2>7 DEF BoundaryState
      <3> QED  BY <2>5, <2>7, <2>8, <2>9, <2>13, <3>1 DEF Linked, Working
    <2>15. N > 0 => /\ blocks[N].endState = iter.startState
                    /\ blocks[N].start + blocks[N].active = iter.start
                    /\ ~iter.startState.terminated
      BY <1>1, <1>2, <2>8 DEF Linked, Working
    <2>16. BlocksAreWholeTicks'
      <3>1. ASSUME NEW i \in 1..(N + 1)
            PROVE  /\ \E j, k \in 0..MaxTicks : j < k /\ IsTicks(blocks[i], j, k)'
                   /\ blocks'[i].index = i - 1
                   /\ i > 1 => /\ blocks'[i].start = blocks'[i - 1].start
                                                     + blocks'[i - 1].active
                               /\ blocks'[i].startState = blocks'[i - 1].endState
        <4>0. ASSUME NEW j \in 0..MaxTicks, NEW k \in 0..MaxTicks, NEW x,
                     x = blocks'[i], IsTicks(x, j, k)
              PROVE  IsTicks(blocks[i], j, k)'
          BY <1>2, <4>0 DEF IsTicks
        <4>1. CASE i = N + 1
          <5>1. \E j, k \in 0..MaxTicks : j < k /\ IsTicks(blocks[i], j, k)'
            <6>1. b = blocks'[i]
              BY <2>9, <4>1
            <6> QED  BY <2>3, <4>0, <6>1
          <5>2. i > 1 => blocks'[i - 1] = blocks[N] /\ N > 0
            BY <2>9, <4>1
          <5> QED  BY <2>5, <2>9, <2>13, <2>15, <4>1, <5>1, <5>2
        <4>2. CASE i # N + 1
          <5>1. i \in 1..N /\ blocks'[i] = blocks[i]
                /\ (i > 1 => blocks'[i - 1] = blocks[i - 1])
            BY <2>9, <4>2
          <5>2. PICK x : x = blocks[i]
            OBVIOUS
          <5>3. \E j, k \in 0..MaxTicks : j < k /\ IsTicks(x, j, k)
            BY <1>1, <2>9, <5>1, <5>2 DEF BlocksAreWholeTicks
          <5>4. \E j, k \in 0..MaxTicks : j < k /\ IsTicks(blocks[i], j, k)'
            BY <4>0, <5>1, <5>2, <5>3
          <5> QED  BY <1>1, <2>9, <5>1, <5>4 DEF BlocksAreWholeTicks
        <4> QED  BY <4>1, <4>2
      <3> QED  BY <1>2, <2>9, <3>1 DEF BlocksAreWholeTicks
    <2>17. TerminatedIsLast'
      <3>1. ASSUME NEW i \in 1..(N + 1)
            PROVE  /\ blocks'[i].endState.terminated => i = N + 1 /\ tracer'.finished
                   /\ blocks'[i].atBoundary
        <4>1. CASE i = N + 1
          BY <1>2, <2>3, <2>9, <4>1 DEF BoundaryState
        <4>2. CASE i # N + 1
          <5>1. i \in 1..N /\ blocks'[i] = blocks[i]
            BY <2>9, <4>2
          <5>2. ~blocks[i].endState.terminated
            BY <1>1, <2>8, <2>9, <2>15, <5>1 DEF TerminatedIsLast
          <5> QED  BY <1>1, <2>9, <5>1, <5>2 DEF TerminatedIsLast
        <4> QED  BY <4>1, <4>2
      <3> QED  BY <2>9, <3>1 DEF TerminatedIsLast
    <2> QED  BY <2>10, <2>11, <2>12, <2>14, <2>16, <2>17 DEF BlocksInv
  <1> QED  BY <1>3, <1>4

-----------------------------------------------------------------------------
(* Every step of the iterator keeps the invariant.                         *)
LEMMA NextBlocks == BlocksInv /\ [Next]_vars => BlocksInv'
  <1> SUFFICES ASSUME BlocksInv, [Next]_vars PROVE BlocksInv'
    OBVIOUS
  <1>1. CASE End
    BY <1>1, EndKeeps
  <1>2. CASE Begin
    BY <1>2, BeginKeeps
  <1>3. CASE Pull
    BY <1>3, PullKeeps
  <1>4. CASE Full
    BY <1>4, FullKeeps
  <1>5. CASE Emit
    BY <1>5, EmitKeeps
  <1>6. CASE UNCHANGED vars
    <2>1. UNCHANGED <<image, tracer, iter, blocks>>
      BY <1>6 DEF vars
    <2>2. Typed' /\ Ends' /\ Linked'
      BY <2>1 DEF BlocksInv, Typed, Working, Ends, Linked, BoundaryState
    <2>3. Placed'
      BY <2>1 DEF BlocksInv, Placed, Place, Working, Follows, StateAfter
    <2>4. BlocksAreWholeTicks' /\ TerminatedIsLast'
      BY <2>1, BlocksStand DEF BlocksInv, TerminatedIsLast
    <2> QED  BY <2>2, <2>3, <2>4 DEF BlocksInv
  <1> QED  BY <1>1, <1>2, <1>3, <1>4, <1>5, <1>6 DEF Next

(* The invariant says all that next promises of its blocks.                *)
LEMMA BlocksInvTells == BlocksInv => BlocksTellTheTrace
  <1> SUFFICES ASSUME BlocksInv PROVE BlocksTellTheTrace
    OBVIOUS
  <1>1. Typed /\ Ends /\ BlocksAreWholeTicks /\ TerminatedIsLast
    BY DEF BlocksInv
  <1>3. TypeOK
    <2>1. /\ image \in Images
          /\ tracer.emu.mem \in [Address -> Nat]
          /\ tracer.emu.pc \in Address /\ tracer.prevPc \in Address \cup {0}
          /\ tracer.current \in Seq(TraceRow) /\ tracer.finished \in BOOLEAN
      BY <1>1 DEF Typed, Tracer, Emulator
    <2>2. /\ iter.phase \in {"idle", "pulling", "emitting", "done"}
          /\ iter.cycles \in Seq(TraceRow)
      BY <1>1 DEF Typed, Iterator
    <2>3. \A i \in DOMAIN blocks : blocks[i] \in TraceBlock
      BY <1>1 DEF Typed
    <2> QED  BY <2>1, <2>2, <2>3 DEF TypeOK
  <1>4. NothingLost
    BY <1>1 DEF Ends, NothingLost
  <1> QED  BY <1>1, <1>3, <1>4 DEF BlocksTellTheTrace

(* TraceBlockIterator::next returns the guest's ticks, whole, once and in  *)
(* order, between the machine states that bound them; it reports the end   *)
(* only when it has returned them all, and says of the last block, and of  *)
(* no other, that the guest has terminated.                                *)
THEOREM BlocksAlwaysTell == Spec => []BlocksTellTheTrace
  <1>1. Spec => []BlocksInv
    BY InitBlocks, NextBlocks, PTL DEF Spec
  <1> QED  BY <1>1, BlocksInvTells, PTL

-----------------------------------------------------------------------------
(* The blocks put end to end are the trace as far as the iterator is.      *)
Told ==
    /\ FlattenSeq([i \in DOMAIN blocks |-> blocks[i].cycles])
           = SubSeq(FullTrace(image), 1, iter.start)
    /\ iter.start <= Len(FullTrace(image))

(* The loop, with the iterator's blocks for what it may be offered.        *)
Loop == INSTANCE StreamingProverProofs
            WITH ended <- iter.phase = "done", Offered <- TraceBlock

(* The blocks of the iterator are such as the loop may be offered.         *)
LEMMA Offerable ==
    /\ \A b \in TraceBlock : b.cycles \in Seq(Loop!Range(b.cycles))
    /\ None \notin TraceBlock /\ None \notin Loop!Outcomes
  <1>1. ASSUME NEW b \in TraceBlock PROVE b.cycles \in Seq(Loop!Range(b.cycles))
    <2>1. PICK c \in Seq(TraceRow) : c = b.cycles
      BY DEF TraceBlock
    <2>2. \A i \in 1 .. Len(c) : c[i] \in Loop!Range(c)
      BY DEF Loop!Range
    <2> QED  BY <2>1, <2>2
  <1>2. None \notin TraceBlock /\ None \notin Loop!Outcomes
    BY AbsentAssumption DEF Stream!Outcomes, Loop!Outcomes
  <1> QED  BY <1>1, <1>2

(* What the loop keeps for any iterator, it keeps here.                     *)
LEMMA LoopStepKeeps ==
    ASSUME Loop!IInv, [Loop!Next]_Loop!vars
    PROVE  Loop!IInv'
  BY Offerable, Loop!StepKeeps DEF Loop!vars

(* A step of the iterator is a call that the loop may see answered.        *)
LEMMA IteratorAnswers ==
    ASSUME BlocksInv, BlocksInv', IteratorStep
    PROVE  [Loop!Next]_Loop!vars
  <1>1. Loop!Wants /\ UNCHANGED <<prover, accumulator, instance>>
    BY DEF IteratorStep, Stream!Wants, Loop!Wants
  <1>2. iter.phase # "done" /\ iter \in Iterator /\ iter' \in Iterator
    BY <1>1 DEF Loop!Wants, BlocksInv, Typed
  <1>3. CASE End
    <2>1. iter'.phase = "done" /\ blocks' = blocks
      BY <1>2, <1>3 DEF End, Iterator
    <2> QED  BY <1>1, <2>1 DEF Loop!Next, Loop!EndOfBlocks
  <1>4. CASE Begin \/ Pull \/ Full
    <2>1. blocks' = blocks
      BY <1>4 DEF Begin, Pull, Full
    <2>2. iter'.phase # "done"
      BY <1>2, <1>4 DEF Begin, Pull, Full, Iterator
    <2> QED  BY <1>1, <1>2, <2>1, <2>2 DEF Loop!vars
  <1>5. CASE Emit
    <2>1. CASE iter.cycles = <<>>
      <3>1. iter'.phase = "done" /\ blocks' = blocks
        BY <1>2, <1>5, <2>1 DEF Emit, Iterator
      <3> QED  BY <1>1, <3>1 DEF Loop!Next, Loop!EndOfBlocks
    <2>2. CASE iter.cycles # <<>>
      <3>1. iter'.phase = "idle" /\ blocks' = Append(blocks, Block)
        BY <1>2, <1>5, <2>2 DEF Emit, Iterator
      <3>2. Block \in TraceBlock
        BY <1>5, <2>2, EmittedIsTicks DEF Emit
      <3>3. Loop!Offer(Block)
        BY <1>1, <1>2, <3>1 DEF Loop!Offer
      <3> QED  BY <3>2, <3>3 DEF Loop!Next
    <2> QED  BY <2>1, <2>2
  <1> QED  BY <1>3, <1>4, <1>5 DEF IteratorStep, Next

(* The folding backend of the pipeline is the one the loop calls.          *)
LEMMA SameBackend ==
    /\ \A in : Stream!Nova!Absorb(in) = Loop!Nova!Absorb(in)
    /\ Stream!Nova!BuildFinalInstance = Loop!Nova!BuildFinalInstance
  <1>1. \A in : Stream!Nova!Challenges(in) = Loop!Nova!Challenges(in)
    BY DEF Stream!Nova!Challenges, Loop!Nova!Challenges
  <1>2. \A in : Stream!Nova!ClosureTargets(in) = Loop!Nova!ClosureTargets(in)
    BY DEF Stream!Nova!ClosureTargets, Loop!Nova!ClosureTargets
  <1>3. \A in : Stream!Nova!TotalBlocks(in) = Loop!Nova!TotalBlocks(in)
    BY DEF Stream!Nova!TotalBlocks, Loop!Nova!TotalBlocks
  <1>4. Stream!Nova!NoClaims = Loop!Nova!NoClaims
    BY DEF Stream!Nova!NoClaims, Loop!Nova!NoClaims
  <1>5. \A t : Stream!Nova!OrZero(t) = Loop!Nova!OrZero(t)
    BY <1>4 DEF Stream!Nova!OrZero, Loop!Nova!OrZero
  <1>6. \A in : Stream!Nova!InitialZ(in) = Loop!Nova!InitialZ(in)
    BY <1>1, <1>2, <1>4, <1>5 DEF Stream!Nova!InitialZ, Loop!Nova!InitialZ
  <1>7. \A m : Stream!Nova!InitialZFromMetadata(m) = Loop!Nova!InitialZFromMetadata(m)
    BY <1>4, <1>5 DEF Stream!Nova!InitialZFromMetadata, Loop!Nova!InitialZFromMetadata
  <1>8. \A a, b : Stream!Nova!Plus(a, b) = Loop!Nova!Plus(a, b)
    BY DEF Stream!Nova!Plus, Loop!Nova!Plus
  <1>9. \A a : Stream!Nova!Dec(a) = Loop!Nova!Dec(a)
    BY DEF Stream!Nova!Dec, Loop!Nova!Dec
  <1>10. \A c, in : Stream!Nova!AddClaims(c, in) = Loop!Nova!AddClaims(c, in)
    BY <1>8 DEF Stream!Nova!AddClaims, Loop!Nova!AddClaims
  <1>11. \A z, in : Stream!Nova!NextZ(z, in) = Loop!Nova!NextZ(z, in)
    BY <1>10, <1>9 DEF Stream!Nova!NextZ, Loop!Nova!NextZ
  <1>12. \A z, in : Stream!Nova!StepInputValid(z, in) = Loop!Nova!StepInputValid(z, in)
    BY DEF Stream!Nova!StepInputValid, Loop!Nova!StepInputValid
  <1>13. \A z, in : Stream!Nova!ScheduleSatisfied(z, in) = Loop!Nova!ScheduleSatisfied(z, in)
    BY <1>8, <1>10 DEF Stream!Nova!ScheduleSatisfied, Loop!Nova!ScheduleSatisfied
  <1>14. \A z, in : Stream!Nova!CircuitSatisfied(z, in) = Loop!Nova!CircuitSatisfied(z, in)
    BY <1>12, <1>13 DEF Stream!Nova!CircuitSatisfied, Loop!Nova!CircuitSatisfied
  <1>15. \A in : Stream!Nova!Shape(in) = Loop!Nova!Shape(in)
    BY DEF Stream!Nova!Shape, Loop!Nova!Shape
  <1>16. \A in, z : Stream!Nova!NewSnark(in, z) = Loop!Nova!NewSnark(in, z)
    BY <1>15, <1>11, <1>14 DEF Stream!Nova!NewSnark, Loop!Nova!NewSnark
  <1>17. \A s, in : Stream!Nova!ProveStep(s, in) = Loop!Nova!ProveStep(s, in)
    BY <1>11, <1>14 DEF Stream!Nova!ProveStep, Loop!Nova!ProveStep
  <1>18. \A s, p, n, z : Stream!Nova!SnarkVerifies(s, p, n, z) = Loop!Nova!SnarkVerifies(s, p, n, z)
    BY DEF Stream!Nova!SnarkVerifies, Loop!Nova!SnarkVerifies
  <1>19. \A a, in : Stream!Nova!Continues(a, in) = Loop!Nova!Continues(a, in)
    BY <1>1, <1>2, <1>3 DEF Stream!Nova!Continues, Loop!Nova!Continues
  <1>20. \A a, in : Stream!Nova!Accepts(a, in) = Loop!Nova!Accepts(a, in)
    BY <1>19 DEF Stream!Nova!Accepts, Loop!Nova!Accepts
  <1>21. \A a, in : Stream!Nova!Absorbed(a, in) = Loop!Nova!Absorbed(a, in)
    BY <1>1, <1>2, <1>3 DEF Stream!Nova!Absorbed, Loop!Nova!Absorbed
  <1>22. \A in : Stream!Nova!Absorb(in) = Loop!Nova!Absorb(in)
    BY <1>6, <1>21, <1>7, <1>17, <1>16, <1>15, <1>12, <1>20, <1>18, <1>11 DEF Stream!Nova!Absorb, Loop!Nova!Absorb
  <1>23. \A a : Stream!Nova!FinalBinding(a) = Loop!Nova!FinalBinding(a)
    BY DEF Stream!Nova!FinalBinding, Loop!Nova!FinalBinding
  <1>24. \A a : Stream!Nova!FinalClosure(a) = Loop!Nova!FinalClosure(a)
    BY <1>4 DEF Stream!Nova!FinalClosure, Loop!Nova!FinalClosure
  <1>25. Stream!Nova!BuildFinalInstance = Loop!Nova!BuildFinalInstance
    BY <1>23, <1>24 DEF Stream!Nova!BuildFinalInstance, Loop!Nova!BuildFinalInstance
  <1> QED  BY <1>22, <1>25

(* The loop that the pipeline runs is this loop.                           *)
LEMMA SameLoop == Stream!Prove => Loop!Prove
  <1>1. \A b, n : Stream!Lookahead(b, n) = Loop!Lookahead(b, n)
    BY DEF Stream!Lookahead, Loop!Lookahead
  <1>2. \A b : Stream!ShapeHolds(b) = Loop!ShapeHolds(b)
    BY DEF Stream!ShapeHolds, Loop!ShapeHolds
  <1>3. \A b, n : Stream!CpuHolds(b, n) = Loop!CpuHolds(b, n)
    BY DEF Stream!CpuHolds, Loop!CpuHolds, Stream!Last, Loop!Last
  <1>4. \A r, x : Stream!RegisterAfter(r, x) = Loop!RegisterAfter(r, x)
    BY DEF Stream!RegisterAfter, Loop!RegisterAfter
  <1>5. \A b : Stream!RegisterFlows(b) = Loop!RegisterFlows(b)
    BY <1>4 DEF Stream!RegisterFlows, Loop!RegisterFlows
  <1>6. \A r : Stream!Accesses(r) = Loop!Accesses(r)
    BY DEF Stream!Accesses, Loop!Accesses, Stream!FlattenSeq, Loop!FlattenSeq
  <1>7. \A r, x : Stream!RamAfter(r, x) = Loop!RamAfter(r, x)
    BY DEF Stream!RamAfter, Loop!RamAfter
  <1>8. \A r, x : Stream!RamFlows(r, x) = Loop!RamFlows(r, x)
    BY <1>7 DEF Stream!RamFlows, Loop!RamFlows
  <1>9. \A b, n : Stream!ContiguousWith(b, n) = Loop!ContiguousWith(b, n)
    BY DEF Stream!ContiguousWith, Loop!ContiguousWith
  <1>10. Stream!Checks = Loop!Checks
    BY <1>1, <1>2, <1>3, <1>5, <1>6, <1>8, <1>9 DEF Stream!Checks, Loop!Checks
  <1>11. Stream!Passes = Loop!Passes
    BY <1>10 DEF Stream!Passes, Loop!Passes
  <1>12. \A b, r : Stream!FoldInputOf(b, r) = Loop!FoldInputOf(b, r)
    BY DEF Stream!FoldInputOf, Loop!FoldInputOf
  <1>13. Stream!Start = Loop!Start
    BY DEF Stream!Start, Loop!Start, Stream!Fail, Loop!Fail, Stream!PowerOfTwo, Loop!PowerOfTwo
  <1>14. Stream!TakeFirst = Loop!TakeFirst
    BY DEF Stream!TakeFirst, Loop!TakeFirst, Stream!Available, Loop!Available,
       Stream!Fail, Loop!Fail
  <1>15. Stream!TakeNext = Loop!TakeNext
    BY DEF Stream!TakeNext, Loop!TakeNext, Stream!Available, Loop!Available
  <1>16. Stream!Reject = Loop!Reject
    BY <1>10, <1>11 DEF Stream!Reject, Loop!Reject, Stream!Fail, Loop!Fail
  <1>17. Stream!FoldBlock = Loop!FoldBlock
    BY <1>6, <1>7, <1>11, <1>12, SameBackend DEF Stream!FoldBlock, Loop!FoldBlock
  <1>18. Stream!Finish = Loop!Finish
    BY SameBackend DEF Stream!Finish, Loop!Finish
  <1> QED  BY <1>13, <1>14, <1>15, <1>16, <1>17, <1>18 DEF Stream!Prove, Loop!Prove

-----------------------------------------------------------------------------
(* The last block that is folded ends where the folded trace ends.         *)
FoldedEnd ==
    Loop!Folded # 0 =>
        LET b == blocks[Loop!Folded]
        IN  accumulator.metadata.cycleEnd = b.start + b.active

PipelineInv == BlocksInv /\ Told /\ Loop!IInv /\ FoldedEnd

Cycles(bs) == [i \in DOMAIN bs |-> bs[i].cycles]

(* The cycles of blocks are sequences of rows, one for each block.         *)
LEMMA CyclesAppend ==
    ASSUME NEW bs \in Seq(TraceBlock), NEW b \in TraceBlock
    PROVE  /\ Cycles(bs) \in Seq(Seq(TraceRow)) /\ b.cycles \in Seq(TraceRow)
           /\ Cycles(Append(bs, b)) = Append(Cycles(bs), b.cycles)
  <1>1. PICK N \in Nat : N = Len(bs) /\ DOMAIN bs = 1..N
    OBVIOUS
  <1>2. b.cycles \in Seq(TraceRow) /\ \A i \in 1..N : bs[i].cycles \in Seq(TraceRow)
    <2>1. b.cycles \in Seq(TraceRow)
      BY DEF TraceBlock
    <2>2. ASSUME NEW i \in 1..N PROVE bs[i].cycles \in Seq(TraceRow)
      <3>1. bs[i] \in TraceBlock
        BY <1>1, <2>2
      <3> QED  BY <3>1 DEF TraceBlock
    <2> QED  BY <2>1, <2>2
  <1>3. PICK cs \in Seq(Seq(TraceRow)) : /\ cs = Cycles(bs) /\ Len(cs) = N
                                          /\ \A i \in 1..N : cs[i] = bs[i].cycles
    <2>1. Cycles(bs) = [i \in 1..N |-> bs[i].cycles]
      BY <1>1 DEF Cycles
    <2>2. Cycles(bs) \in [1..N -> Seq(TraceRow)]
      BY <1>2, <2>1
    <2>3. Cycles(bs) \in Seq(Seq(TraceRow)) /\ Len(Cycles(bs)) = N
      BY <2>2
    <2> QED  BY <2>1, <2>3
  <1>4. PICK bb : bb = Append(bs, b)
    OBVIOUS
  <1>5. /\ DOMAIN bb = 1..(N + 1) /\ bb[N + 1] = b /\ \A i \in 1..N : bb[i] = bs[i]
    BY <1>1, <1>4
  <1>6. PICK c : c = b.cycles
    OBVIOUS
  <1>7. PICK ds : ds = Append(cs, c)
    OBVIOUS
  <1>8. /\ ds \in Seq(Seq(TraceRow)) /\ Len(ds) = N + 1 /\ ds[N + 1] = c
        /\ \A i \in 1..N : ds[i] = cs[i]
    BY <1>2, <1>3, <1>6, <1>7
  <1>9. ds = [i \in 1..(N + 1) |-> ds[i]]
    BY <1>8
  <1>10. ds = [i \in 1..(N + 1) |-> bb[i].cycles]
    <2>1. ASSUME NEW i \in 1..(N + 1) PROVE ds[i] = bb[i].cycles
      <3>1. CASE i = N + 1
        BY <1>5, <1>6, <1>8, <3>1
      <3>2. CASE i # N + 1
        <4>1. i \in 1..N
          BY <3>2
        <4>2. ds[i] = cs[i] /\ cs[i] = bs[i].cycles /\ bb[i] = bs[i]
          BY <1>3, <1>5, <1>8, <4>1
        <4> QED  BY <4>2
      <3> QED  BY <3>1, <3>2
    <2> QED  BY <1>9, <2>1
  <1>11. Cycles(bb) = ds
    BY <1>5, <1>10 DEF Cycles
  <1> QED  BY <1>2, <1>3, <1>4, <1>6, <1>7, <1>11

(* A block that is returned goes on where the blocks before it end.        *)
LEMMA EmitTells ==
    ASSUME BlocksInv, Told, Emit
    PROVE  Told'
  <1>1. /\ image \in Images /\ blocks \in Seq(TraceBlock) /\ iter \in Iterator
        /\ image' = image /\ iter.phase = "emitting"
    BY DEF BlocksInv, Typed, Emit
  <1>2. CASE iter.cycles = <<>>
    <2>1. blocks' = blocks /\ iter'.start = iter.start
      BY <1>1, <1>2 DEF Emit, Iterator
    <2> QED  BY <1>1, <2>1 DEF Told
  <1>3. CASE iter.cycles # <<>>
    <2>1. /\ blocks' = Append(blocks, Block)
          /\ iter'.start = iter.start + Len(iter.cycles)
      BY <1>1, <1>3 DEF Emit, Iterator
    <2>2. /\ Block \in TraceBlock
          /\ \E j, k \in 0..MaxTicks : j < k /\ IsTicks(Block, j, k)
      BY <1>1, <1>3, EmittedIsTicks
    <2>3. PICK j \in 0..MaxTicks, k \in 0..MaxTicks : j < k /\ IsTicks(Block, j, k)
      BY <2>2
    <2>4. PICK b \in TraceBlock : b = Block
      BY <2>2
    <2>5. /\ b.start = iter.start /\ b.active = Len(iter.cycles)
      BY <2>4 DEF Block
    <2>6. /\ b.start = RowsUpTo(image, j)
          /\ b.active = RowsUpTo(image, k) - RowsUpTo(image, j)
          /\ b.cycles = SubSeq(FullTrace(image), RowsUpTo(image, j) + 1, RowsUpTo(image, k))
      BY <2>3, <2>4 DEF IsTicks
    <2>7. /\ RowsUpTo(image, j) <= RowsUpTo(image, k)
          /\ RowsUpTo(image, k) <= Len(FullTrace(image))
          /\ RowsUpTo(image, j) \in Nat /\ RowsUpTo(image, k) \in Nat
          /\ FullTrace(image) \in Seq(TraceRow)
      <3>1. k \in j..MaxTicks
        BY <2>3, MaxTicksAssumption
      <3> QED  BY <1>1, <3>1, RowsGrow
    <2>8. PICK t \in Seq(TraceRow), f \in Nat, r \in Nat :
             t = FullTrace(image) /\ f = RowsUpTo(image, j) /\ r = RowsUpTo(image, k)
      BY <2>7
    <2>9. iter.start = f /\ iter'.start = r /\ f <= r /\ r <= Len(t)
      BY <2>1, <2>5, <2>6, <2>7, <2>8
    <2>10. FlattenSeq(Cycles(blocks)) = SubSeq(t, 1, f)
      BY <2>8, <2>9 DEF Told, Cycles
    <2>11. FlattenSeq(Cycles(blocks')) = FlattenSeq(Cycles(blocks)) \o b.cycles
      BY <1>1, <2>1, <2>4, CyclesAppend, FlattenAppend
    <2>12. FlattenSeq(Cycles(blocks')) = SubSeq(t, 1, r)
      BY <2>6, <2>8, <2>9, <2>10, <2>11, BeginningGoesOn
    <2> QED  BY <1>1, <2>8, <2>9, <2>12 DEF Told, Cycles
  <1> QED  BY <1>2, <1>3

(* The iterator's other steps leave its blocks and its place as they are.  *)
LEMMA NextTells ==
    ASSUME BlocksInv, Told, Next
    PROVE  Told'
  <1>1. CASE Emit
    BY <1>1, EmitTells
  <1>2. CASE End \/ Begin \/ Pull \/ Full
    <2>1. blocks' = blocks /\ image' = image /\ iter'.start = iter.start
      BY <1>2 DEF End, Begin, Pull, Full, BlocksInv, Typed, Iterator
    <2> QED  BY <2>1 DEF Told
  <1> QED  BY <1>1, <1>2 DEF Next

(* The iterator only adds to the blocks.                                   *)
LEMMA BlocksStay ==
    ASSUME BlocksInv, Next, NEW i \in 1..Len(blocks)
    PROVE  blocks'[i] = blocks[i]
  BY DEF Next, End, Begin, Pull, Full, Emit, BlocksInv, Typed

(* While the loop calls, no more blocks are folded than there are.         *)
LEMMA LoopFolded ==
    ASSUME Loop!IInv, Loop!Wants
    PROVE  Loop!Folded # 0 => Loop!Folded \in 1..Len(blocks)
  <1>1. /\ prover.phase \in {"first", "next"} /\ Loop!Folded \in Nat
        /\ blocks \in Seq(TraceBlock) /\ prover.taken \in Nat
        /\ prover.taken = Len(blocks)
    BY DEF Loop!IInv, Loop!Shaped, Loop!Wants
  <1>2. Loop!Folded = 0 \/ prover.taken = Loop!Folded + 1
    BY <1>1 DEF Loop!IInv, Loop!Progress
  <1> QED  BY <1>1, <1>2

(* What is folded ends where the block ends that was folded last.          *)
LEMMA FoldEnds ==
    ASSUME Loop!IInv, FoldedEnd, Loop!Prove
    PROVE  FoldedEnd'
  <1>1. blocks' = blocks
    BY DEF Loop!Prove, Loop!Start, Loop!TakeFirst, Loop!TakeNext, Loop!Reject,
       Loop!FoldBlock, Loop!Finish, Loop!Fail
  <1>2. CASE Loop!FoldBlock
    <2>1. /\ prover.current = blocks[Loop!Folded + 1]
          /\ Loop!Nova!Absorb(Loop!FoldInputOf(prover.current, prover.receipt))
      BY <1>2 DEF Loop!FoldBlock, Loop!IInv, Loop!Progress
    <2>2. PICK b : b = prover.current
      OBVIOUS
    <2>3. /\ accumulator'.metadata.cycleEnd = b.start + b.active
          /\ Loop!Folded' = Loop!Folded + 1
      BY <2>1, <2>2 DEF Loop!Nova!Absorb, Loop!Nova!Absorbed, Loop!FoldInputOf,
                        Loop!Folded
    <2> QED  BY <1>1, <2>1, <2>2, <2>3 DEF FoldedEnd
  <1>3. CASE ~Loop!FoldBlock
    <2>1. accumulator' = accumulator
      BY <1>3 DEF Loop!Prove, Loop!Start, Loop!TakeFirst, Loop!TakeNext, Loop!Reject,
         Loop!Finish, Loop!Fail, Loop!Nova!BuildFinalInstance
    <2> QED  BY <1>1, <2>1 DEF FoldedEnd, Loop!Folded
  <1> QED  BY <1>2, <1>3

(* The pipeline begins with nothing traced, offered or folded.             *)
LEMMA InitPipeline == PipelineInit => PipelineInv
  <1> SUFFICES ASSUME PipelineInit PROVE PipelineInv
    OBVIOUS
  <1>1. BlocksInv
    BY InitBlocks DEF PipelineInit
  <1>2. image \in Images /\ blocks = <<>> /\ iter.start = 0 /\ iter.phase = "idle"
    BY DEF PipelineInit, Init
  <1>3. Told
    <2>1. FullTrace(image) \in Seq(TraceRow)
      <3>1. MaxTicks \in 0..MaxTicks
        BY MaxTicksAssumption
      <3> QED  BY <1>2, <3>1, RowsGrow
    <2>2. SubSeq(FullTrace(image), 1, 0) = <<>> /\ 0 <= Len(FullTrace(image))
      BY <2>1
    <2>3. [i \in DOMAIN blocks |-> blocks[i].cycles] = <<>>
      BY <1>2
    <2> QED  BY <1>2, <2>2, <2>3, FlattenNothing DEF Told
  <1>4. Loop!Init
    BY <1>2 DEF PipelineInit, Loop!Init, Stream!Nova!Init, Loop!Nova!Init,
       Stream!Nova!EmptyAccumulator, Loop!Nova!EmptyAccumulator, Stream!Fresh, Loop!Fresh
  <1>5. Loop!IInv
    BY <1>4, Offerable, Loop!InitIInv
  <1>6. Loop!Folded = 0
    BY <1>4 DEF Loop!Init, Loop!Nova!Init, Loop!Nova!EmptyAccumulator, Loop!Folded
  <1> QED  BY <1>1, <1>3, <1>5, <1>6 DEF PipelineInv, FoldedEnd

(* Every step of the pipeline keeps what is known of both sides.           *)
LEMMA NextPipeline == PipelineInv /\ [PipelineNext]_pipelineVars => PipelineInv'
  <1> SUFFICES ASSUME PipelineInv, [PipelineNext]_pipelineVars PROVE PipelineInv'
    OBVIOUS
  <1>0. BlocksInv /\ Told /\ Loop!IInv /\ FoldedEnd
    BY DEF PipelineInv
  <1>1. CASE IteratorStep
    <2>1. Next /\ UNCHANGED <<prover, accumulator, instance>>
      BY <1>1 DEF IteratorStep
    <2>2. BlocksInv' /\ Told'
      BY <1>0, <2>1, NextBlocks, NextTells
    <2>3. Loop!IInv'
      BY <1>0, <1>1, <2>2, IteratorAnswers, LoopStepKeeps
    <2>4. FoldedEnd'
      <3>1. Loop!Folded' = Loop!Folded
        BY <2>1 DEF Loop!Folded
      <3>2. Loop!Folded # 0 => Loop!Folded \in 1..Len(blocks)
        <4>1. Loop!Wants
          BY <1>1 DEF IteratorStep, Stream!Wants, Loop!Wants
        <4> QED  BY <1>0, <4>1, LoopFolded
      <3>3. Loop!Folded # 0 => blocks'[Loop!Folded] = blocks[Loop!Folded]
        BY <1>0, <2>1, <3>2, BlocksStay
      <3> QED  BY <1>0, <2>1, <3>1, <3>3 DEF FoldedEnd
    <2> QED  BY <2>2, <2>3, <2>4 DEF PipelineInv
  <1>2. CASE ProverStep
    <2>1. UNCHANGED <<image, tracer, iter>> /\ Loop!Prove
      BY <1>2, SameLoop DEF ProverStep
    <2>2. blocks' = blocks
      BY <2>1 DEF Loop!Prove, Loop!Start, Loop!TakeFirst, Loop!TakeNext, Loop!Reject,
         Loop!FoldBlock, Loop!Finish, Loop!Fail
    <2>3. BlocksInv'
      BY <1>0, <2>1, <2>2, NextBlocks DEF vars
    <2>4. Told'
      BY <1>0, <2>1, <2>2 DEF Told
    <2>5. Loop!IInv'
      BY <1>0, <2>1, LoopStepKeeps DEF Loop!Next
    <2>6. FoldedEnd'
      BY <1>0, <2>1, FoldEnds
    <2> QED  BY <2>3, <2>4, <2>5, <2>6 DEF PipelineInv
  <1>3. CASE UNCHANGED pipelineVars
    <2>1. UNCHANGED <<image, tracer, iter, blocks, prover, accumulator, instance>>
      BY <1>3 DEF pipelineVars, vars
    <2>2. BlocksInv'
      BY <1>0, <2>1, NextBlocks DEF vars
    <2>3. Told' /\ FoldedEnd'
      BY <1>0, <2>1 DEF Told, FoldedEnd, Loop!Folded
    <2>4. Loop!IInv'
      BY <1>0, <2>1, LoopStepKeeps DEF Loop!vars
    <2> QED  BY <2>2, <2>3, <2>4 DEF PipelineInv
  <1> QED  BY <1>1, <1>2, <1>3 DEF PipelineNext, Finished

(* What the pipeline proves is the whole trace of the guest: for every     *)
(* guest that halts, block size, receipt and release parameters, the       *)
(* blocks that are folded are its rows from the first to the last, and the *)
(* accumulator ends at the cycle at which the guest does.                  *)
THEOREM ProvedAlwaysGuestTrace == PipelineSpec => []ProvedIsGuestTrace
  <1>1. PipelineInv => ProvedIsGuestTrace
    <2> SUFFICES ASSUME PipelineInv, prover.outcome = "Proved" PROVE ProvedIsGuestTrace
      BY DEF ProvedIsGuestTrace
    <2>1. Len(blocks) = Loop!Folded /\ Loop!Folded # 0 /\ iter.phase = "done"
      BY DEF PipelineInv, Loop!IInv, Loop!Outcome
    <2>2. iter.start = Len(FullTrace(image)) /\ image \in Images
      BY <2>1 DEF PipelineInv, BlocksInv, Ends, Typed
    <2>3. FullTrace(image) \in Seq(TraceRow)
      <3>1. MaxTicks \in 0..MaxTicks
        BY MaxTicksAssumption
      <3> QED  BY <2>2, <3>1, RowsGrow
    <2>4. SubSeq(FullTrace(image), 1, Len(FullTrace(image))) = FullTrace(image)
      BY <2>3
    <2>5. FlattenSeq([i \in DOMAIN blocks |-> blocks[i].cycles]) = FullTrace(image)
      BY <2>2, <2>4 DEF PipelineInv, Told
    <2>6. accumulator.metadata.cycleEnd = iter.start
      <3>1. blocks # <<>>
        BY <2>1
      <3> QED  BY <2>1, <3>1 DEF PipelineInv, FoldedEnd, BlocksInv, Linked
    <2> QED  BY <2>1, <2>2, <2>5, <2>6 DEF ProvedIsGuestTrace, Loop!Folded
  <1> QED  BY <1>1, InitPipeline, NextPipeline, PTL DEF PipelineSpec

-----------------------------------------------------------------------------
(* What the guest's rows do, as the checks of the loop see them.           *)

(* The rows take the machine m to the machine n.                           *)
Carries(rows, m, n) ==
    /\ Loop!RowsHold(rows, m.emu.x, n.emu.x)
    /\ Loop!RowsKnow(rows, m.emu.mem, n.emu.mem)
    /\ rows = <<>> => n.emu = m.emu
    /\ rows # <<>> => /\ rows[1].at = <<m.emu.pc, 1>>
                      /\ rows[Len(rows)].to = <<n.emu.pc, 1>>
                      /\ Halted(n) => rows[Len(rows)].jump

(* The rows of a tick take the machine to the next.                        *)
LEMMA TickCarries ==
    ASSUME NEW m, m.emu \in Emulator, Decodable(m.emu), ~Halted(m),
           Tick(m.emu).emu.pc \in Address
    PROVE  Carries(Tick(m.emu).rows, m, Ticked(m)) /\ Tick(m.emu).rows # <<>>
  <1>0. PICK e \in Emulator : e = m.emu
    OBVIOUS
  <1> DEFINE ins  == Decode[e.mem[e.pc]]
             data == ins.op \in {"load", "store"}
             pc   == IF ins.op = "jump" THEN ins.arg ELSE e.pc + 1
             x    == CASE ins.op = "add"  -> e.x + 1
                       [] ins.op = "load" -> e.mem[ins.arg]
                       [] OTHER           -> e.x
             mem  == IF ins.op = "store" THEN [e.mem EXCEPT ![ins.arg] = e.x]
                                         ELSE e.mem
             row(i) ==
                LET last == i = ins.rows
                IN  [at   |-> <<e.pc, i>>,
                     to   |-> IF last THEN <<pc, 1>> ELSE <<e.pc, i + 1>>,
                     jump |-> last /\ ins.op = "jump",
                     reg  |-> IF last /\ ins.op # "jump" THEN <<e.x, x>> ELSE <<>>,
                     ram  |-> IF last /\ data
                              THEN <<ins.arg, e.mem[ins.arg], mem[ins.arg]>>
                              ELSE <<>>]
             R    == ins.rows
             rows == Tick(e).rows
  <1>1. /\ e.pc \in Address /\ e.x \in Nat /\ e.mem \in [Address -> Nat]
        /\ e = [pc |-> e.pc, x |-> e.x, mem |-> e.mem, saving |-> FALSE,
                touched |-> <<>>]
    BY DEF Emulator
  <1>2. /\ ins.op \in {"add", "load", "store", "jump"}
        /\ ins.arg \in Address /\ R \in Nat \ {0}
    BY <1>0, DecodeAssumption DEF Decodable
  <1>3. /\ Tick(e).emu = [e EXCEPT !.pc = pc, !.x = x, !.mem = mem,
                            !.touched = Recorded(e, {e.pc} \cup
                                           (IF data THEN {ins.arg} ELSE {}))]
        /\ rows = [i \in 1..R |-> row(i)]
    BY DEF Tick
  <1>4. rows \in Seq(TraceRow) /\ rows # <<>>
    BY <1>0, TickTyped
  <1> HIDE DEF ins
  <1>5. Tick(e).emu.pc = pc /\ Tick(e).emu.x = x /\ Tick(e).emu.mem = mem
    <2> HIDE DEF pc, x, mem, data
    <2> QED  BY <1>1, <1>3
  <1>6. Ticked(m).emu = Tick(e).emu /\ Ticked(m).prevPc = e.pc
    BY <1>0 DEF Ticked, Halted
  <1>7. /\ Len(rows) = R /\ \A i \in 1..R : rows[i] = row(i)
    <2> HIDE DEF row, rows
    <2> QED  BY <1>2, <1>3
  <1>8. PICK last \in TraceRow : last = rows[R]
    <2> HIDE DEF rows
    <2> QED  BY <1>2, <1>4, <1>7
  <1>9. last = row(R)
    <2> HIDE DEF row, rows
    <2> QED  BY <1>2, <1>7, <1>8
  <1>10. /\ last.at = <<e.pc, R>> /\ last.to = <<pc, 1>>
         /\ last.jump = (ins.op = "jump")
         /\ last.reg = IF ins.op # "jump" THEN <<e.x, x>> ELSE <<>>
         /\ last.ram = IF data THEN <<ins.arg, e.mem[ins.arg], mem[ins.arg]>>
                               ELSE <<>>
    <2> HIDE DEF pc, x, mem, data
    <2> QED  BY <1>9
  <1>11. ASSUME NEW i \in 1..(R - 1)
         PROVE  /\ rows[i].at = <<e.pc, i>> /\ rows[i].to = <<e.pc, i + 1>>
                /\ rows[i].reg = <<>> /\ rows[i].ram = <<>>
    <2>1. i \in 1..R /\ i # R
      BY <1>2
    <2>2. rows[i] = row(i)
      BY <1>7, <2>1
    <2> HIDE DEF pc, x, mem, data, rows
    <2> QED  BY <2>1, <2>2
  <1>12. PICK front \in Seq(TraceRow) :
            /\ Len(front) = R - 1
            /\ \A i \in 1..(R - 1) : front[i] = rows[i]
    <2> DEFINE f == SubSeq(rows, 1, R - 1)
    <2> HIDE DEF rows
    <2>1. f \in Seq(TraceRow) /\ Len(f) = R - 1 /\ \A i \in 1..(R - 1) : f[i] = rows[i]
      BY <1>2, <1>4, <1>7
    <2> HIDE DEF f
    <2> QED  BY <2>1
  <1> HIDE DEF rows, row, pc, x, mem
  <1>13. PICK one \in Seq(TraceRow) : one = <<last>> /\ Len(one) = 1 /\ one[1] = last
    <2>1. <<last>> \in Seq(TraceRow) /\ Len(<<last>>) = 1 /\ <<last>>[1] = last
      OBVIOUS
    <2> QED  BY <2>1
  <1>14. rows = front \o one
    <2>1. /\ Len(rows) = Len(front) + Len(one)
          /\ \A i \in 1..Len(front) : rows[i] = front[i]
          /\ \A i \in 1..Len(one) : rows[Len(front) + i] = one[i]
      <3>1. Len(front) + 1 = R
        BY <1>2, <1>12
      <3>2. \A i \in 1..Len(one) : i = 1 /\ one[i] = last
        BY <1>13
      <3> QED  BY <1>7, <1>8, <1>12, <1>13, <3>1, <3>2
    <2> QED  BY <1>4, <2>1, ConcatIs
  <1>15. /\ \A i \in 1..Len(front) : front[i].reg = <<>> /\ front[i].ram = <<>>
         /\ \A i \in 1..(Len(front) - 1) : front[i + 1].at = front[i].to
    <2>1. \A i \in 1..(R - 1) : front[i].reg = <<>> /\ front[i].ram = <<>>
      BY <1>11, <1>12
    <2>2. ASSUME NEW i \in 1..((R - 1) - 1)
          PROVE  front[i + 1].at = front[i].to
      <3>1. i \in 1..(R - 1) /\ i + 1 \in 1..(R - 1)
        BY <1>2
      <3> QED  BY <1>11, <1>12, <3>1
    <2> QED  BY <1>12, <2>1, <2>2
  <1>16. Loop!RowsHold(front, e.x, e.x) /\ Loop!RowsKnow(front, e.mem, e.mem)
    BY <1>15, Offerable, Loop!QuietRows
  <1>17. last.reg # <<>> => last.reg[1] = e.x
    BY <1>10
  <1>18. Loop!RegisterStep(last, e.x) = x
    <2>1. ins.op = "jump" => x = e.x
      BY DEF x
    <2> QED  BY <1>10, <2>1 DEF Loop!RegisterStep
  <1>19. Loop!RowsHold(one, e.x, x)
    BY <1>13, <1>17, <1>18, Offerable, Loop!OneRow
  <1>20. IF last.ram = <<>> THEN mem = e.mem ELSE Loop!CellMoves(last.ram, e.mem, mem)
    <2>1. CASE data
      <3>1. PICK cell : cell = last.ram
        OBVIOUS
      <3>2. cell = <<ins.arg, e.mem[ins.arg], mem[ins.arg]>>
        BY <1>10, <2>1, <3>1
      <3>3. cell[1] = ins.arg /\ cell[2] = e.mem[ins.arg] /\ cell[3] = mem[ins.arg]
        BY <3>2
      <3>4. /\ DOMAIN mem = DOMAIN e.mem /\ ins.arg \in DOMAIN e.mem
            /\ \A a \in DOMAIN e.mem : a # ins.arg => mem[a] = e.mem[a]
        BY <1>1, <1>2 DEF mem
      <3>5. Loop!CellMoves(cell, e.mem, mem)
        BY <3>3, <3>4 DEF Loop!CellMoves
      <3>6. cell # <<>>
        BY <3>2
      <3> QED  BY <3>1, <3>5, <3>6
    <2>2. CASE ~data
      BY <1>10, <2>2 DEF mem
    <2> QED  BY <2>1, <2>2
  <1>21. Loop!RowsKnow(one, e.mem, mem)
    BY <1>13, <1>17, <1>20, Offerable, Loop!OneRowKnows
  <1>22. front # <<>> => one[1].at = front[Len(front)].to
    <2> SUFFICES ASSUME front # <<>> PROVE one[1].at = front[Len(front)].to
      OBVIOUS
    <2>1. R - 1 \in 1..(R - 1) /\ (R - 1) + 1 = R
      <3>1. Len(front) # 0
        OBVIOUS
      <3> QED  BY <1>2, <1>12, <3>1
    <2>2. front[R - 1].to = <<e.pc, R>>
      BY <1>11, <1>12, <2>1
    <2> QED  BY <1>10, <1>12, <1>13, <2>2
  <1>23. Loop!RowsHold(rows, e.x, x) /\ Loop!RowsKnow(rows, e.mem, mem)
    BY <1>13, <1>14, <1>16, <1>19, <1>21, <1>22, Offerable, Loop!RowsGoOn, Loop!KnowGoesOn
  <1>24. rows[1].at = <<e.pc, 1>>
    <2>1. CASE R = 1
      BY <1>8, <1>10, <2>1
    <2>2. CASE R # 1
      <3>1. 1 \in 1..(R - 1)
        BY <1>2, <2>2
      <3> QED  BY <1>11, <3>1
    <2> QED  BY <2>1, <2>2
  <1>25. pc = e.pc => ins.op = "jump"
    <2>1. e.pc \in Nat
      BY <1>1, AddressAssumption
    <2> QED  BY <2>1 DEF pc
  <1>26. /\ rows[Len(rows)].to = <<Ticked(m).emu.pc, 1>>
         /\ Halted(Ticked(m)) => rows[Len(rows)].jump
    BY <1>5, <1>6, <1>7, <1>8, <1>10, <1>25 DEF Halted
  <1> QED  BY <1>0, <1>4, <1>5, <1>6, <1>23, <1>24, <1>26 DEF Carries, rows

(* Rows that take one machine to a second and rows that take the second to *)
(* a third take the first to the third.                                    *)
LEMMA CarriesOn ==
    ASSUME NEW m, NEW n, NEW p,
           NEW a \in Seq(TraceRow), NEW b \in Seq(TraceRow), b # <<>>,
           Carries(a, m, n), Carries(b, n, p)
    PROVE  Carries(a \o b, m, p)
  <1>1. a # <<>> => b[1].at = a[Len(a)].to
    BY DEF Carries
  <1>2. Loop!RowsHold(a \o b, m.emu.x, p.emu.x)
    BY <1>1, Offerable, Loop!RowsGoOn DEF Carries
  <1>3. Loop!RowsKnow(a \o b, m.emu.mem, p.emu.mem)
    BY Offerable, Loop!KnowGoesOn DEF Carries
  <1>4. PICK c : c = a \o b
    OBVIOUS
  <1>5. /\ c # <<>> /\ c[Len(c)] = b[Len(b)]
        /\ c[1] = IF a = <<>> THEN b[1] ELSE a[1]
    BY <1>4, ConcatEnds
  <1>6. c[1].at = <<m.emu.pc, 1>>
    BY <1>5 DEF Carries
  <1>7. c[Len(c)].to = <<p.emu.pc, 1>> /\ (Halted(p) => c[Len(c)].jump)
    BY <1>5 DEF Carries
  <1> QED  BY <1>2, <1>3, <1>4, <1>5, <1>6, <1>7 DEF Carries

(* The rows of ticks j + 1 to k.                                           *)
Part(img, j, k) == SubSeq(FullTrace(img), RowsUpTo(img, j) + 1, RowsUpTo(img, k))

(* They are rows, none if the count of rows is the same after j and k, and *)
(* with those of the next ticks they are a longer part.                    *)
LEMMA Parts ==
    ASSUME NEW img \in Images, NEW j \in 0..MaxTicks, NEW k \in j..MaxTicks
    PROVE  /\ Part(img, j, k) \in Seq(TraceRow)
           /\ Len(Part(img, j, k)) = RowsUpTo(img, k) - RowsUpTo(img, j)
           /\ Part(img, j, k) = <<>> <=> RowsUpTo(img, j) = RowsUpTo(img, k)
           /\ \A l \in k..MaxTicks :
                 Part(img, j, k) \o Part(img, k, l) = Part(img, j, l)
  <1>0. MaxTicks \in Nat
    BY MaxTicksAssumption
  <1>1. PICK t \in Seq(TraceRow), f \in Nat, r \in Nat :
           /\ t = FullTrace(img) /\ f = RowsUpTo(img, j) /\ r = RowsUpTo(img, k)
           /\ f <= r /\ r <= Len(t)
    BY RowsGrow
  <1>2. PICK c : c = Part(img, j, k) /\ IsPart(c, t, f, r)
    BY <1>1 DEF Part, IsPart
  <1>3. c \in Seq(TraceRow) /\ Len(c) = r - f /\ (c = <<>> <=> f = r)
    BY <1>1, <1>2, NextOfPart
  <1>4. ASSUME NEW l \in k..MaxTicks
        PROVE  Part(img, j, k) \o Part(img, k, l) = Part(img, j, l)
    <2>1. k \in 0..MaxTicks
      BY <1>0
    <2>2. PICK m \in Nat : m = RowsUpTo(img, l) /\ r <= m /\ m <= Len(t)
      BY <1>1, <2>1, RowsGrow
    <2>3. SubSeq(t, f + 1, r) \o SubSeq(t, r + 1, m) = SubSeq(t, f + 1, m)
      <3>1. f <= r /\ r <= m /\ m <= Len(t)
        BY <1>1, <2>2
      <3> QED  BY <3>1, PartsJoin
    <2>4. /\ Part(img, j, k) = SubSeq(t, f + 1, r)
          /\ Part(img, k, l) = SubSeq(t, r + 1, m)
          /\ Part(img, j, l) = SubSeq(t, f + 1, m)
      BY <1>1, <2>2 DEF Part
    <2> QED  BY <2>3, <2>4
  <1> QED  BY <1>1, <1>2, <1>3, <1>4

(* One more tick.                                                          *)
LEMMA PartGrows ==
    ASSUME NEW img \in Images, NEW j \in 0..MaxTicks, NEW k \in j..(MaxTicks - 1),
           Carries(Part(img, j, k), After(img)[j], After(img)[k])
    PROVE  Carries(Part(img, j, k + 1), After(img)[j], After(img)[k + 1])
  <1>0. MaxTicks \in Nat
    BY MaxTicksAssumption
  <1>1. /\ k \in j..MaxTicks /\ k \in 0..MaxTicks /\ k + 1 \in 1..MaxTicks
        /\ k + 1 \in k..MaxTicks /\ k + 1 \in 0..MaxTicks /\ (k + 1) - 1 = k
    BY <1>0
  <1>2. PICK m : m = After(img)[k]
    OBVIOUS
  <1>3. Machine(m) /\ Machine(After(img)[k + 1]) /\ After(img)[k + 1] = Ticked(m)
    BY <1>1, <1>2, AfterTyped, AfterTicks
  <1>4. /\ RowsUpTo(img, k + 1) = RowsUpTo(img, k) + Len(RowsOfTick(img, k + 1))
        /\ RowsOfTick(img, k + 1) = Part(img, k, k + 1)
    BY <1>1, RowsBetween DEF Part
  <1>5. CASE Halted(m)
    <2>1. Ticked(m) = m
      BY <1>5 DEF Halted, Ticked
    <2>2. RowsOfTick(img, k + 1) = <<>>
      BY <1>1, <1>2, <1>5, RowsTicked
    <2>3. RowsUpTo(img, k + 1) = RowsUpTo(img, k)
      <3>1. RowsUpTo(img, k) \in Nat
        BY <1>1, RowsCounted
      <3> QED  BY <1>4, <2>2, <3>1
    <2> QED  BY <1>2, <1>3, <2>1, <2>3 DEF Part
  <1>6. CASE ~Halted(m)
    <2>1. /\ Part(img, k, k + 1) = Tick(m.emu).rows
          /\ m.emu \in Emulator /\ Decodable(m.emu)
      BY <1>1, <1>2, <1>3, <1>4, <1>6, RowsTicked DEF Machine
    <2>2. Tick(m.emu).emu.pc \in Address
      <3>1. Ticked(m).emu = Tick(m.emu).emu
        BY <1>6 DEF Halted, Ticked
      <3>2. Ticked(m).emu \in Emulator
        BY <1>3 DEF Machine
      <3> QED  BY <3>1, <3>2 DEF Emulator
    <2>3. /\ Carries(Part(img, k, k + 1), m, After(img)[k + 1])
          /\ Part(img, k, k + 1) # <<>>
      BY <1>3, <1>6, <2>1, <2>2, TickCarries
    <2>4. /\ Part(img, j, k) \in Seq(TraceRow) /\ Part(img, k, k + 1) \in Seq(TraceRow)
          /\ Part(img, j, k) \o Part(img, k, k + 1) = Part(img, j, k + 1)
      BY <1>1, Parts
    <2> QED  BY <1>2, <2>3, <2>4, CarriesOn
  <1> QED  BY <1>5, <1>6

(* The rows of any ticks take the machine before them to the one after.    *)
LEMMA PartCarries ==
    ASSUME NEW img \in Images, NEW j \in 0..MaxTicks, NEW k \in j..MaxTicks
    PROVE  Carries(Part(img, j, k), After(img)[j], After(img)[k])
  <1>0. MaxTicks \in Nat
    BY MaxTicksAssumption
  <1> DEFINE P(i) == Carries(Part(img, j, i), After(img)[j], After(img)[i])
             T == {i \in 0..MaxTicks : i >= j => P(i)}
  <1>1. P(j)
    <2>1. Part(img, j, j) = <<>>
      <3>1. j \in j..MaxTicks
        BY <1>0
      <3> QED  BY <3>1, Parts
    <2>2. /\ Loop!RowsHold(<<>>, After(img)[j].emu.x, After(img)[j].emu.x)
          /\ Loop!RowsKnow(<<>>, After(img)[j].emu.mem, After(img)[j].emu.mem)
      BY Offerable, Loop!NoRows
    <2> QED  BY <2>1, <2>2 DEF Carries
  <1>2. ASSUME NEW i \in 0..(MaxTicks - 1), i >= j, P(i)
        PROVE  P(i + 1)
    <2>1. i \in j..(MaxTicks - 1)
      BY <1>0, <1>2
    <2> QED  BY <1>2, <2>1, PartGrows
  <1> HIDE DEF P
  <1>3. 0 \in T
    BY <1>0, <1>1
  <1>4. ASSUME NEW i \in 0..(MaxTicks - 1), i \in T
        PROVE  i + 1 \in T
    <2>1. CASE i >= j
      BY <1>0, <1>2, <1>4, <2>1
    <2>2. CASE i + 1 = j
      BY <1>0, <1>1, <2>2
    <2>3. CASE i + 1 < j
      BY <1>0, <2>3
    <2> QED  BY <1>0, <2>1, <2>2, <2>3
  <1>5. 0..MaxTicks \subseteq T
    <2> HIDE DEF T
    <2> QED  BY <1>0, <1>3, <1>4, IntervalInduction
  <1>6. P(k)
    BY <1>0, <1>5
  <1> QED  BY <1>6 DEF P

(* The count of rows tells the machine, and whether the guest has halted;  *)
(* and there is a row.                                                     *)
LEMMA CountTells ==
    ASSUME NEW img \in Images
    PROVE  /\ \A j, k \in 0..MaxTicks :
                 RowsUpTo(img, j) = RowsUpTo(img, k) =>
                    After(img)[j].emu = After(img)[k].emu
           /\ \A k \in 0..MaxTicks :
                 RowsUpTo(img, k) = Len(FullTrace(img)) => Halted(After(img)[k])
           /\ Len(FullTrace(img)) # 0
  <1>0. MaxTicks \in Nat /\ 0 \in 0..MaxTicks /\ 1 \in 1..MaxTicks /\ 1 \in 0..MaxTicks
    BY MaxTicksAssumption
  <1>1. ASSUME NEW j \in 0..MaxTicks, NEW k \in j..MaxTicks,
               RowsUpTo(img, j) = RowsUpTo(img, k)
        PROVE  After(img)[j].emu = After(img)[k].emu
    <2>1. Part(img, j, k) = <<>>
      BY <1>1, Parts
    <2> QED  BY <2>1, PartCarries DEF Carries
  <1>2. ASSUME NEW j \in 0..MaxTicks, NEW k \in 0..MaxTicks,
               RowsUpTo(img, j) = RowsUpTo(img, k)
        PROVE  After(img)[j].emu = After(img)[k].emu
    <2>1. k \in j..MaxTicks \/ j \in k..MaxTicks
      BY <1>0
    <2> QED  BY <1>1, <1>2, <2>1
  <1>3. ASSUME NEW k \in 0..MaxTicks, ~Halted(After(img)[k])
        PROVE  /\ k + 1 \in 0..MaxTicks
               /\ RowsUpTo(img, k) < RowsUpTo(img, k + 1)
               /\ RowsUpTo(img, k + 1) <= Len(FullTrace(img))
               /\ RowsUpTo(img, k) \in Nat /\ Len(FullTrace(img)) \in Nat
               /\ RowsUpTo(img, k + 1) \in Nat
    <2>1. k # MaxTicks
      BY <1>3, AfterTyped
    <2>2. k + 1 \in 1..MaxTicks /\ k + 1 \in 0..MaxTicks /\ (k + 1) - 1 = k
          /\ k + 1 \in (k + 1)..MaxTicks
      BY <1>0, <2>1
    <2>3. RowsOfTick(img, k + 1) # <<>> /\ RowsOfTick(img, k + 1) \in Seq(TraceRow)
      BY <1>3, <2>2, RowsTicked
    <2>4. Len(RowsOfTick(img, k + 1)) \in Nat \ {0}
      BY <2>3
    <2>5. RowsUpTo(img, k + 1) = RowsUpTo(img, k) + Len(RowsOfTick(img, k + 1))
      BY <2>2, RowsBetween
    <2>6. /\ RowsUpTo(img, k) \in Nat /\ RowsUpTo(img, k + 1) \in Nat
          /\ RowsUpTo(img, k + 1) <= Len(FullTrace(img))
          /\ FullTrace(img) \in Seq(TraceRow)
      BY <2>2, RowsCounted, RowsGrow
    <2>7. Len(FullTrace(img)) \in Nat
      BY <2>6
    <2> QED  BY <2>2, <2>4, <2>5, <2>6, <2>7
  <1>4. ASSUME NEW k \in 0..MaxTicks, RowsUpTo(img, k) = Len(FullTrace(img))
        PROVE  Halted(After(img)[k])
    BY <1>3, <1>4
  <1>5. ~Halted(After(img)[0])
    <2>1. After(img)[0] = Loaded(img)
      BY AfterTicks
    <2> QED  BY <2>1, ImagesAssumption, AddressAssumption DEF Loaded, Halted, Booted
  <1>6. Len(FullTrace(img)) # 0
    BY <1>0, <1>3, <1>5
  <1> QED  BY <1>2, <1>4, <1>6

-----------------------------------------------------------------------------
(* When a block ends a guest.                                              *)

(* Its end state is terminated if and only if it is short of its target,   *)
(* and then it holds the guest's last row.                                 *)
EndsGuest(b) ==
    /\ b.target = iter.target
    /\ b.endState.terminated <=> b.active < iter.target
    /\ b.endState.terminated => b.start + b.active = Len(FullTrace(image))

BlockEnds ==
    /\ iter.phase = "pulling" => ~tracer.finished
    /\ iter.phase = "emitting" =>
          (tracer.finished <=> Len(iter.cycles) < iter.target)
    /\ \A i \in 1..Len(blocks) : EndsGuest(blocks[i])

(* The block that is emitted.                                              *)
LEMMA EmitEnds ==
    ASSUME BlocksInv, BlockEnds, iter.phase = "emitting", iter.cycles # <<>>
    PROVE  EndsGuest(Block)
  <1>1. image \in Images /\ tracer.finished \in BOOLEAN
    BY DEF BlocksInv, Typed, Tracer
  <1>2. PICK k \in 0..MaxTicks : /\ Follows(tracer, image, k)
                                 /\ iter.start + Len(iter.cycles) = RowsUpTo(image, k)
    BY EmittedIsTicks
  <1>3. PICK s : s = BoundaryState(tracer, iter.start + Len(iter.cycles))
    OBVIOUS
  <1>4. s.terminated = tracer.finished
    BY <1>3 DEF BoundaryState
  <1>5. /\ Block.target = iter.target /\ Block.active = Len(iter.cycles)
        /\ Block.start = iter.start /\ Block.endState = s
    BY <1>3 DEF Block
  <1>6. tracer.finished => iter.start + Len(iter.cycles) = Len(FullTrace(image))
    BY <1>1, <1>2, AllTraced
  <1> QED  BY <1>4, <1>5, <1>6 DEF BlockEnds, EndsGuest

(* A row that is not there finishes the tracer, at the end of a tick.      *)
LEMMA NoRowFinishes ==
    ASSUME NEW t \in Tracer
    PROVE  /\ NextRow(t) = <<>> => t.current = <<>> /\ LazyStep(t).finished
           /\ NextRow(t) # <<>> => LazyStep(t).finished = t.finished
  <1>1. CASE t.current # <<>>
    <2>1. NextRow(t) = <<Head(t.current)>> /\ NextRow(t) # <<>>
      BY <1>1 DEF NextRow
    <2>2. LazyStep(t).finished = t.finished
      BY <1>1 DEF LazyStep, Tracer
    <2> QED  BY <2>1, <2>2
  <1>2. CASE t.current = <<>> /\ StepEmulator(t.emu, t.prevPc).rows = <<>>
    BY <1>2 DEF NextRow, LazyStep, Tracer
  <1>3. CASE t.current = <<>> /\ StepEmulator(t.emu, t.prevPc).rows # <<>>
    <2>1. NextRow(t) # <<>>
      BY <1>3 DEF NextRow
    <2>2. LazyStep(t).finished = t.finished
      BY <1>3 DEF LazyStep, Tracer
    <2> QED  BY <2>1, <2>2
  <1> QED  BY <1>1, <1>2, <1>3

(* The iterator keeps it.                                                  *)
LEMMA NextEnds ==
    ASSUME BlocksInv, BlockEnds, Next
    PROVE  BlockEnds'
  <1>0. /\ iter \in Iterator /\ tracer \in Tracer /\ blocks \in Seq(TraceBlock)
        /\ Len(iter.cycles) \in Nat /\ iter.target \in Nat
    <2>1. /\ iter \in Iterator /\ tracer \in Tracer /\ blocks \in Seq(TraceBlock)
          /\ iter.cycles \in Seq(TraceRow) /\ iter.target \in Nat
      BY TargetsAssumption DEF BlocksInv, Typed, Iterator
    <2>2. Len(iter.cycles) \in Nat
      BY <2>1
    <2> QED  BY <2>1, <2>2
  <1>1. image' = image
    BY DEF Next, End, Begin, Pull, Full, Emit
  <1>2. ASSUME blocks' = blocks, iter'.target = iter.target
        PROVE  \A i \in 1..Len(blocks') : EndsGuest(blocks[i])'
    BY <1>1, <1>2 DEF BlockEnds, EndsGuest
  <1>3. CASE End
    <2>1. blocks' = blocks /\ iter'.target = iter.target /\ iter'.phase = "done"
      BY <1>0, <1>3 DEF End, Iterator
    <2> QED  BY <1>2, <2>1 DEF BlockEnds
  <1>4. CASE Begin
    <2>1. /\ blocks' = blocks /\ iter'.target = iter.target
          /\ iter'.phase \in {"pulling", "panicked"} /\ ~tracer'.finished
      BY <1>0, <1>4 DEF Begin, Iterator
    <2> QED  BY <1>2, <2>1 DEF BlockEnds
  <1>5. CASE Full
    <2>1. /\ blocks' = blocks /\ iter'.target = iter.target
          /\ iter'.phase = "emitting" /\ iter'.cycles = iter.cycles
          /\ ~tracer'.finished /\ ~(Len(iter.cycles) < iter.target)
      BY <1>0, <1>5 DEF Full, Iterator, WantsRow, BlockEnds
    <2> QED  BY <1>2, <2>1 DEF BlockEnds
  <1>6. CASE Pull
    <2>1. /\ ~tracer.finished /\ tracer' = LazyStep(tracer) /\ WantsRow
          /\ iter.phase = "pulling" /\ blocks' = blocks
          /\ iter' = IF NextRow(tracer) = <<>>
                     THEN [iter EXCEPT !.phase = "emitting"]
                     ELSE [iter EXCEPT !.cycles = @ \o NextRow(tracer)]
      BY <1>6 DEF Pull, BlockEnds
    <2>2. CASE NextRow(tracer) = <<>>
      <3>1. tracer'.finished /\ tracer.current = <<>>
        BY <1>0, <2>1, <2>2, NoRowFinishes
      <3>2. Len(iter.cycles) < iter.target
        BY <2>1, <3>1 DEF WantsRow, AtTickBoundary
      <3>3. /\ iter'.target = iter.target /\ iter'.phase = "emitting"
            /\ iter'.cycles = iter.cycles
        BY <1>0, <2>1, <2>2 DEF Iterator
      <3> QED  BY <1>2, <2>1, <3>1, <3>2, <3>3 DEF BlockEnds
    <2>3. CASE NextRow(tracer) # <<>>
      <3>1. ~tracer'.finished
        BY <1>0, <2>1, <2>3, NoRowFinishes
      <3>2. iter'.target = iter.target /\ iter'.phase = "pulling"
        BY <1>0, <2>1, <2>3 DEF Iterator
      <3> QED  BY <1>2, <2>1, <3>1, <3>2 DEF BlockEnds
    <2> QED  BY <2>2, <2>3
  <1>7. CASE Emit
    <2>1. iter.phase = "emitting"
      BY <1>7 DEF Emit
    <2>2. CASE iter.cycles = <<>>
      <3>1. blocks' = blocks /\ iter'.target = iter.target /\ iter'.phase = "done"
        BY <1>0, <1>7, <2>2 DEF Emit, Iterator
      <3> QED  BY <1>2, <3>1 DEF BlockEnds
    <2>3. CASE iter.cycles # <<>>
      <3>1. PICK b \in TraceBlock : b = Block
        BY <2>1, <2>3, EmittedIsTicks
      <3>2. EndsGuest(b)
        BY <2>1, <2>3, <3>1, EmitEnds
      <3>3. /\ blocks' = Append(blocks, b) /\ iter'.target = iter.target
            /\ iter'.phase = "idle"
        BY <1>0, <1>7, <2>3, <3>1 DEF Emit, Iterator
      <3>4. ASSUME NEW i \in 1..Len(blocks')
            PROVE  EndsGuest(blocks[i])'
        <4>1. PICK x : x = blocks'[i]
          OBVIOUS
        <4>2. x = b \/ (i \in 1..Len(blocks) /\ x = blocks[i])
          BY <1>0, <3>3, <4>1
        <4>3. EndsGuest(x)
          BY <3>2, <4>2 DEF BlockEnds
        <4> QED  BY <1>1, <3>3, <4>1, <4>3 DEF EndsGuest
      <3> QED  BY <3>3, <3>4 DEF BlockEnds
    <2> QED  BY <2>2, <2>3
  <1> QED  BY <1>3, <1>4, <1>5, <1>6, <1>7 DEF Next

-----------------------------------------------------------------------------
(* What the loop makes of the guest's blocks.                              *)

(* Block b takes the machine after j ticks to the machine after k.         *)
Takes(b, j, k) ==
    /\ b.start = RowsUpTo(image, j) /\ b.start + b.active = RowsUpTo(image, k)
    /\ b.active = Len(b.cycles) /\ b.active # 0
    /\ Carries(b.cycles, After(image)[j], After(image)[k])
    /\ b.startState.x = After(image)[j].emu.x
    /\ b.startState.globalCycle = RowsUpTo(image, j)
    /\ b.endState.x = After(image)[k].emu.x
    /\ b.endState.globalCycle = RowsUpTo(image, k)

(* Every block takes the guest from some tick to some later one.           *)
LEMMA BlockTakes ==
    ASSUME BlocksInv, NEW i \in 1..Len(blocks)
    PROVE  /\ blocks[i] \in TraceBlock
           /\ \E j, k \in 0..MaxTicks : Takes(blocks[i], j, k)
  <1>0. /\ MaxTicks \in Nat /\ image \in Images /\ blocks \in Seq(TraceBlock)
        /\ BlocksAreWholeTicks
    BY MaxTicksAssumption DEF BlocksInv, Typed
  <1>1. PICK b \in TraceBlock : b = blocks[i]
    BY <1>0
  <1>2. \E j, k \in 0..MaxTicks : j < k /\ IsTicks(b, j, k)
    <2>1. i \in DOMAIN blocks
      BY <1>0
    <2> QED  BY <1>0, <1>1, <2>1 DEF BlocksAreWholeTicks
  <1>3. PICK j \in 0..MaxTicks, k \in 0..MaxTicks : j < k /\ IsTicks(b, j, k)
    BY <1>2
  <1>4. /\ b.start = RowsUpTo(image, j)
        /\ b.active = RowsUpTo(image, k) - RowsUpTo(image, j)
        /\ b.cycles = Part(image, j, k)
        /\ b.startState.x = After(image)[j].emu.x
        /\ b.startState.globalCycle = RowsUpTo(image, j)
        /\ b.endState.x = After(image)[k].emu.x
        /\ b.endState.globalCycle = RowsUpTo(image, k)
    BY <1>3 DEF IsTicks, Part
  <1>5. k \in j..MaxTicks
    BY <1>0, <1>3
  <1>6. RowsUpTo(image, j) \in Nat /\ RowsUpTo(image, k) \in Nat
    BY <1>0, RowsCounted
  <1>7. b.active = Len(b.cycles)
    BY <1>0, <1>4, <1>5, Parts
  <1>8. b.active # 0
    <2>1. b.cycles \in Seq(TraceRow) /\ b.cycles # <<>>
      BY DEF TraceBlock
    <2>2. Len(b.cycles) # 0
      BY <2>1
    <2> QED  BY <1>7, <2>2
  <1>9. Carries(b.cycles, After(image)[j], After(image)[k])
    BY <1>0, <1>4, <1>5, PartCarries
  <1>10. b.start + b.active = RowsUpTo(image, k)
    BY <1>4, <1>6
  <1>11. Takes(b, j, k)
    BY <1>4, <1>7, <1>8, <1>9, <1>10 DEF Takes
  <1> QED  BY <1>1, <1>11

(* A block begins with the row that must come after the block before it.   *)
LEMMA NextBlockFollows ==
    ASSUME BlocksInv, NEW i \in 1..Len(blocks), i + 1 \in 1..Len(blocks)
    PROVE  blocks[i + 1].cycles[1].at = blocks[i].cycles[Len(blocks[i].cycles)].to
  <1>0. image \in Images /\ BlocksAreWholeTicks /\ blocks \in Seq(TraceBlock)
    BY DEF BlocksInv, Typed
  <1>1. PICK a \in TraceBlock, b \in TraceBlock : a = blocks[i] /\ b = blocks[i + 1]
    BY BlockTakes
  <1>2. \E j, k \in 0..MaxTicks : Takes(a, j, k)
    BY <1>1, BlockTakes
  <1>3. \E l, m \in 0..MaxTicks : Takes(b, l, m)
    BY <1>1, BlockTakes
  <1>4. PICK j \in 0..MaxTicks, k \in 0..MaxTicks : Takes(a, j, k)
    BY <1>2
  <1>5. PICK l \in 0..MaxTicks, m \in 0..MaxTicks : Takes(b, l, m)
    BY <1>3
  <1>6. b.start = a.start + a.active
    <2>1. i + 1 \in DOMAIN blocks /\ i + 1 > 1 /\ (i + 1) - 1 = i
      BY <1>0
    <2> QED  BY <1>0, <1>1, <2>1 DEF BlocksAreWholeTicks
  <1>7. After(image)[k].emu = After(image)[l].emu
    <2>1. RowsUpTo(image, k) = RowsUpTo(image, l)
      BY <1>4, <1>5, <1>6 DEF Takes
    <2> QED  BY <1>0, <2>1, CountTells
  <1>8. a.cycles # <<>> /\ b.cycles # <<>>
    BY DEF TraceBlock
  <1>9. a.cycles[Len(a.cycles)].to = <<After(image)[k].emu.pc, 1>>
    BY <1>4, <1>8 DEF Takes, Carries
  <1>10. b.cycles[1].at = <<After(image)[l].emu.pc, 1>>
    BY <1>5, <1>8 DEF Takes, Carries
  <1> QED  BY <1>1, <1>7, <1>9, <1>10

(* The cells that the loop remembers have the values they have in the      *)
(* guest's memory at the end of what has been folded.                      *)
RamKnown ==
    /\ Loop!Folded = 0 => prover.ram = <<>>
    /\ Loop!Folded # 0 =>
          \A j \in 0..MaxTicks :
             RowsUpTo(image, j) = blocks[Loop!Folded].start + blocks[Loop!Folded].active
                => Loop!Knows(prover.ram, After(image)[j].emu.mem)

(* That is the memory at the start of the next block.                      *)
LEMMA RamBefore ==
    ASSUME BlocksInv, Loop!IInv, RamKnown, Loop!Folded + 1 \in 1..Len(blocks),
           NEW j \in 0..MaxTicks, NEW k \in 0..MaxTicks,
           Takes(blocks[Loop!Folded + 1], j, k)
    PROVE  Loop!Knows(prover.ram, After(image)[j].emu.mem)
  <1>0. Loop!Folded \in Nat /\ BlocksAreWholeTicks /\ blocks \in Seq(TraceBlock)
    BY DEF Loop!IInv, Loop!Shaped, BlocksInv, Typed
  <1>1. CASE Loop!Folded = 0
    BY <1>1 DEF RamKnown, Loop!Knows
  <1>2. CASE Loop!Folded # 0
    <2>1. /\ Loop!Folded + 1 \in DOMAIN blocks /\ Loop!Folded + 1 > 1
          /\ (Loop!Folded + 1) - 1 = Loop!Folded
      BY <1>0, <1>2
    <2>2. blocks[Loop!Folded + 1].start
             = blocks[Loop!Folded].start + blocks[Loop!Folded].active
      BY <1>0, <2>1 DEF BlocksAreWholeTicks
    <2> QED  BY <1>2, <2>2 DEF RamKnown, Takes
  <1> QED  BY <1>1, <1>2

(* The parameters and the receipt with which the loop may start: the block *)
(* size is a power of two, and the receipt is of a proof with zero         *)
(* knowledge whose trace has room for the guest's.                         *)
Releasable ==
    /\ \A size \in TargetSizes : Loop!PowerOfTwo(size)
    /\ \A receipt \in Receipts :
          /\ receipt # None /\ receipt.zk = TRUE /\ receipt.traceLength \in Nat
          /\ \A img \in Images : Len(FullTrace(img)) <= receipt.traceLength

GuestInv ==
    /\ PipelineInv /\ BlockEnds /\ RamKnown
    /\ prover.targetSize \in TargetSizes /\ prover.receipt \in Receipts
    /\ RefusedOnlyAtFullBlock

(* The relations of a block hold, and only the block size or a missing     *)
(* lookahead can be refused.                                               *)
LEMMA GuestChecks ==
    ASSUME Releasable, GuestInv, prover.phase = "fold"
    PROVE  LET b     == prover.current
               ahead == Loop!Lookahead(b, prover.next)
           IN  /\ b.target = iter.target
               /\ ~(b.endState.terminated /\ prover.next # None)
               /\ ahead.kind = "none" => Last(blocks).active >= iter.target
               /\ Loop!ShapeHolds(b) /\ Loop!CpuHolds(b, ahead)
               /\ Loop!RegisterFlows(b)
               /\ Loop!RamFlows(<<>>, Loop!Accesses(b.cycles))
               /\ Loop!RamFlows(prover.ram, Loop!Accesses(b.cycles))
               /\ prover.previous # None => Loop!ContiguousWith(prover.previous, b)
               /\ prover.receipt.traceLength >= b.start + b.active
  <1>0. /\ BlocksInv /\ Loop!IInv /\ BlockEnds /\ RamKnown
        /\ image \in Images /\ blocks \in Seq(TraceBlock) /\ iter.target \in Nat
        /\ BlocksAreWholeTicks /\ TerminatedIsLast
    BY TargetsAssumption DEF GuestInv, PipelineInv, BlocksInv, Typed, Iterator
  <1>1. /\ Loop!Folded \in Nat /\ prover.current = blocks[Loop!Folded + 1]
        /\ Len(blocks) = prover.taken
        /\ \/ prover.next = None /\ prover.taken = Loop!Folded + 1
           \/ prover.next = blocks[Loop!Folded + 2] /\ prover.next # None
              /\ prover.taken = Loop!Folded + 2
        /\ prover.previous = IF Loop!Folded = 0 THEN None ELSE blocks[Loop!Folded]
    BY <1>0 DEF Loop!IInv, Loop!Shaped, Loop!Progress, Loop!FoldedHold
  <1>2. PICK f \in Nat : f = Loop!Folded
    BY <1>1
  <1>3. f + 1 \in 1..Len(blocks) /\ Len(blocks) \in Nat /\ DOMAIN blocks = 1..Len(blocks)
    BY <1>0, <1>1, <1>2
  <1>4. PICK b \in TraceBlock : b = prover.current /\ b = blocks[f + 1]
    BY <1>0, <1>1, <1>2, <1>3, BlockTakes
  <1>5. \E j, k \in 0..MaxTicks : Takes(b, j, k)
    BY <1>0, <1>3, <1>4, BlockTakes
  <1>6. PICK j \in 0..MaxTicks, k \in 0..MaxTicks : Takes(b, j, k)
    BY <1>5
  <1>7. /\ RowsUpTo(image, k) <= Len(FullTrace(image))
        /\ RowsUpTo(image, k) \in Nat /\ Len(FullTrace(image)) \in Nat
    <2>1. k \in k..MaxTicks
      BY MaxTicksAssumption
    <2>2. RowsUpTo(image, k) <= Len(FullTrace(image)) /\ FullTrace(image) \in Seq(TraceRow)
      BY <1>0, <2>1, RowsGrow
    <2> QED  BY <1>0, <2>2, RowsCounted
  <1>8. b.cycles \in Seq(TraceRow) /\ b.cycles # <<>> /\ b.active \in Nat
    BY DEF TraceBlock
  <1>9. EndsGuest(b)
    BY <1>0, <1>3, <1>4 DEF BlockEnds
  <1>10. /\ b.endState.terminated => f + 1 = Len(blocks)
         /\ b.atBoundary /\ b.index = f
         /\ f # 0 => /\ b.start = blocks[f].start + blocks[f].active
                     /\ b.startState = blocks[f].endState
    <2>1. f + 1 > 1 <=> f # 0
      BY <1>2
    <2>2. (f + 1) - 1 = f
      BY <1>2
    <2> QED  BY <1>0, <1>3, <1>4, <2>1, <2>2 DEF BlocksAreWholeTicks, TerminatedIsLast
  <1>11. prover.next # None =>
            /\ f + 2 \in 1..Len(blocks) /\ Len(blocks) = f + 2
            /\ prover.next = blocks[f + 2]
    BY <1>1, <1>2, <1>3
  <1>12. prover.next = None => Len(blocks) = f + 1
    BY <1>1, <1>2
  <1>13. prover.next # None =>
            /\ prover.next.cycles # <<>>
            /\ prover.next.cycles[1].at = b.cycles[Len(b.cycles)].to
    <2> SUFFICES ASSUME prover.next # None
                 PROVE  /\ prover.next.cycles # <<>>
                        /\ prover.next.cycles[1].at = b.cycles[Len(b.cycles)].to
      OBVIOUS
    <2>1. prover.next \in TraceBlock
      BY <1>0, <1>11, BlockTakes
    <2>2. (f + 1) + 1 = f + 2
      BY <1>2
    <2>3. prover.next.cycles[1].at = b.cycles[Len(b.cycles)].to
      BY <1>0, <1>3, <1>4, <1>11, <2>2, NextBlockFollows
    <2> QED  BY <2>1, <2>3 DEF TraceBlock
  <1> DEFINE ahead == Loop!Lookahead(b, prover.next)
  <1>14. /\ prover.next # None =>
               ahead.kind = "row" /\ ahead.at = b.cycles[Len(b.cycles)].to
         /\ prover.next = None =>
               ahead.kind = IF b.endState.terminated THEN "noop" ELSE "none"
    BY <1>13 DEF Loop!Lookahead
  <1>15. b.target = iter.target
    BY <1>9 DEF EndsGuest
  <1>16. ~(b.endState.terminated /\ prover.next # None)
    BY <1>2, <1>10, <1>11
  <1>17. ahead.kind = "none" => Last(blocks).active >= iter.target
    <2>1. ahead.kind = "none" => prover.next = None /\ ~b.endState.terminated
      BY <1>14
    <2>2. ~b.endState.terminated => b.active >= iter.target
      BY <1>0, <1>8, <1>9 DEF EndsGuest
    <2> QED  BY <1>4, <1>12, <2>1, <2>2 DEF Last
  <1>18. Loop!ShapeHolds(b)
    BY <1>6, <1>10 DEF Loop!ShapeHolds, Takes
  <1>19. Loop!CpuHolds(b, ahead)
    <2>1. \A i \in 1..(Len(b.cycles) - 1) : b.cycles[i + 1].at = b.cycles[i].to
      BY <1>6 DEF Takes, Carries, Loop!RowsHold
    <2>2. ahead.kind = "row" => ahead.at = b.cycles[Len(b.cycles)].to
      BY <1>14
    <2>3. ahead.kind = "noop" => b.cycles[Len(b.cycles)].jump
      <3>1. ahead.kind = "noop" => b.endState.terminated
        BY <1>14
      <3>2. b.endState.terminated => RowsUpTo(image, k) = Len(FullTrace(image))
        BY <1>6, <1>9 DEF EndsGuest, Takes
      <3>3. RowsUpTo(image, k) = Len(FullTrace(image)) => Halted(After(image)[k])
        BY <1>0, CountTells
      <3> QED  BY <1>6, <1>8, <3>1, <3>2, <3>3 DEF Takes, Carries
    <2> HIDE DEF ahead
    <2> QED  BY <2>1, <2>2, <2>3 DEF Loop!CpuHolds, Loop!Last
  <1>20. Loop!RegisterFlows(b)
    BY <1>6, <1>8 DEF Takes, Carries, Loop!RowsHold, Loop!RegisterFlows
  <1>21. Loop!RamFlows(<<>>, Loop!Accesses(b.cycles))
    <2>1. Loop!Knows(<<>>, After(image)[j].emu.mem)
      BY DEF Loop!Knows
    <2> QED  BY <1>6, <2>1 DEF Takes, Carries, Loop!RowsKnow
  <1>22. Loop!RamFlows(prover.ram, Loop!Accesses(b.cycles))
    <2>1. Loop!Knows(prover.ram, After(image)[j].emu.mem)
      BY <1>0, <1>2, <1>3, <1>4, <1>6, RamBefore
    <2> QED  BY <1>6, <2>1 DEF Takes, Carries, Loop!RowsKnow
  <1>23. prover.previous # None => Loop!ContiguousWith(prover.previous, b)
    <2> SUFFICES ASSUME prover.previous # None
                 PROVE  Loop!ContiguousWith(prover.previous, b)
      OBVIOUS
    <2>1. f # 0 /\ prover.previous = blocks[f]
      BY <1>1, <1>2
    <2>2. f \in 1..Len(blocks) /\ blocks[f].index = f - 1
      <3>1. f \in 1..Len(blocks)
        BY <1>3, <2>1
      <3> QED  BY <1>0, <1>3, <3>1 DEF BlocksAreWholeTicks
    <2>3. blocks[f].index + 1 = b.index
      BY <1>10, <2>2
    <2> QED  BY <1>10, <2>1, <2>3 DEF Loop!ContiguousWith
  <1>24. prover.receipt.traceLength >= b.start + b.active
    <2>1. /\ prover.receipt.traceLength \in Nat
          /\ Len(FullTrace(image)) <= prover.receipt.traceLength
      BY <1>0 DEF Releasable, GuestInv
    <2> QED  BY <1>6, <1>7, <2>1 DEF Takes
  <1> HIDE DEF ahead
  <1> QED  BY <1>4, <1>15, <1>16, <1>17, <1>18, <1>19, <1>20, <1>21, <1>22, <1>23, <1>24
           DEF ahead

(* What refuses one of the guest's blocks.                                 *)
Refused(reason) ==
    \/ reason = "UnterminatedTrace" /\ Last(blocks).active >= iter.target
    \/ reason = "BlockTargetSizeMismatch" /\ prover.targetSize # iter.target

(* A block is refused for one of these reasons.                            *)
LEMMA GuestRejects ==
    ASSUME Releasable, GuestInv, Loop!Reject
    PROVE  \E reason : Refused(reason) /\ Loop!Fail(reason)
  <1>1. prover.phase = "fold"
    BY DEF Loop!Reject
  <1>2. PICK i \in DOMAIN Loop!Checks : ~Loop!Checks[i][2] /\ Loop!Fail(Loop!Checks[i][1])
    BY Offerable, Loop!RejectNames
  <1>3. i \in 1..9
    BY DEF Loop!Checks
  <1> DEFINE b     == prover.current
             ahead == Loop!Lookahead(b, prover.next)
  <1>4. /\ b.target = iter.target
        /\ ahead.kind = "none" => Last(blocks).active >= iter.target
    BY <1>1, GuestChecks
  <1>5. /\ ~(b.endState.terminated /\ prover.next # None)
        /\ Loop!ShapeHolds(b) /\ Loop!CpuHolds(b, ahead)
        /\ Loop!RegisterFlows(b)
        /\ Loop!RamFlows(<<>>, Loop!Accesses(b.cycles))
        /\ Loop!RamFlows(prover.ram, Loop!Accesses(b.cycles))
        /\ prover.previous # None => Loop!ContiguousWith(prover.previous, b)
        /\ prover.receipt.traceLength >= b.start + b.active
    BY <1>1, GuestChecks
  <1>6. Loop!Checks =
           << <<"BlockTargetSizeMismatch", b.target = prover.targetSize>>,
              <<"TraceContinuesAfterTermination",
                ~(b.endState.terminated /\ prover.next # None)>>,
              <<"UnterminatedTrace", ahead.kind # "none">>,
              <<"Cpu", Loop!ShapeHolds(b) /\ Loop!CpuHolds(b, ahead)>>,
              <<"Register", Loop!RegisterFlows(b)>>,
              <<"Ram", Loop!RamFlows(<<>>, Loop!Accesses(b.cycles))>>,
              <<"RamContinuity", Loop!RamFlows(prover.ram, Loop!Accesses(b.cycles))>>,
              <<"NotContiguous",
                prover.previous # None => Loop!ContiguousWith(prover.previous, b)>>,
              <<"Receipt", prover.receipt.traceLength >= b.start + b.active>> >>
    BY DEF Loop!Checks
  <1> HIDE DEF b, ahead
  <1>7. /\ Loop!Checks[2][2] /\ Loop!Checks[4][2] /\ Loop!Checks[5][2]
        /\ Loop!Checks[6][2] /\ Loop!Checks[7][2] /\ Loop!Checks[8][2]
        /\ Loop!Checks[9][2]
    BY <1>5, <1>6
  <1>8. i = 1 \/ i = 3
    BY <1>2, <1>3, <1>7
  <1>9. /\ Loop!Checks[1][1] = "BlockTargetSizeMismatch"
        /\ Loop!Checks[3][1] = "UnterminatedTrace"
    BY <1>6
  <1>10. b.target = prover.targetSize => Loop!Checks[1][2]
    BY <1>6
  <1>11. ahead.kind # "none" => Loop!Checks[3][2]
    BY <1>6
  <1>12. ~Loop!Checks[i][2]
    BY <1>2
  <1>13. CASE i = 1
    <2>1. prover.targetSize # iter.target
      BY <1>4, <1>10, <1>12, <1>13
    <2> QED  BY <1>2, <1>9, <1>13, <2>1 DEF Refused
  <1>14. CASE i = 3
    <2>1. Last(blocks).active >= iter.target
      BY <1>4, <1>11, <1>12, <1>14
    <2> QED  BY <1>2, <1>9, <1>14, <2>1 DEF Refused
  <1> QED  BY <1>8, <1>13, <1>14

(* A failure leaves what is folded and remembered.                         *)
LEMMA FailDecides ==
    ASSUME GuestInv, NEW reason, Loop!Fail(reason)
    PROVE  /\ blocks' = blocks /\ accumulator' = accumulator
           /\ prover'.ram = prover.ram /\ prover'.targetSize = prover.targetSize
           /\ prover'.receipt = prover.receipt
           /\ prover'.phase = "done" /\ prover'.outcome = reason
  BY DEF Loop!Fail, GuestInv, PipelineInv, Loop!IInv, Loop!Shaped, Loop!ProverRecord

(* The loop has a block, for a guest has a row.                            *)
LEMMA SomeBlock ==
    ASSUME GuestInv, iter.phase = "done"
    PROVE  blocks # <<>>
  <1> SUFFICES ASSUME blocks = <<>> PROVE FALSE
    OBVIOUS
  <1>1. /\ image \in Images /\ iter.start = Len(FullTrace(image))
        /\ FlattenSeq([i \in DOMAIN blocks |-> blocks[i].cycles])
              = SubSeq(FullTrace(image), 1, iter.start)
    BY DEF GuestInv, PipelineInv, BlocksInv, Typed, Ends, Told
  <1>2. [i \in DOMAIN blocks |-> blocks[i].cycles] = <<>>
    OBVIOUS
  <1>3. FullTrace(image) \in Seq(TraceRow)
    <2>1. MaxTicks \in 0..MaxTicks
      BY MaxTicksAssumption
    <2> QED  BY <1>1, <2>1, RowsGrow
  <1>4. SubSeq(FullTrace(image), 1, Len(FullTrace(image))) = FullTrace(image)
    BY <1>3
  <1>5. FullTrace(image) = <<>>
    BY <1>1, <1>2, <1>4, FlattenNothing
  <1> QED  BY <1>1, <1>5, CountTells

(* What a step of the loop has to keep of the invariant.                   *)
Kept ==
    /\ RamKnown
    /\ prover.targetSize \in TargetSizes /\ prover.receipt \in Receipts
    /\ RefusedOnlyAtFullBlock

(* A step that only moves the loop on.                                     *)
LEMMA MoveKept ==
    ASSUME GuestInv, UNCHANGED <<image, iter, blocks, accumulator>>,
           prover'.ram = prover.ram, prover'.targetSize = prover.targetSize,
           prover'.receipt = prover.receipt, RefusedOnlyAtFullBlock'
    PROVE  Kept'
  <1>1. Loop!Folded' = Loop!Folded
    BY DEF Loop!Folded
  <1> QED  BY <1>1 DEF GuestInv, Kept, RamKnown

(* A refusal is for one of the two reasons.                                *)
LEMMA RefusalKept ==
    ASSUME GuestInv, UNCHANGED <<image, iter>>,
           NEW reason, Refused(reason), Loop!Fail(reason)
    PROVE  Kept'
  <1>1. /\ UNCHANGED <<blocks, accumulator>>
        /\ prover'.ram = prover.ram /\ prover'.targetSize = prover.targetSize
        /\ prover'.receipt = prover.receipt
        /\ prover'.phase = "done" /\ prover'.outcome = reason
    BY FailDecides
  <1>2. RefusedOnlyAtFullBlock'
    BY <1>1 DEF Refused, RefusedOnlyAtFullBlock, Last
  <1> QED  BY <1>1, <1>2, MoveKept

(* The loop may start.                                                     *)
LEMMA StartKept ==
    ASSUME Releasable, GuestInv, UNCHANGED <<image, iter>>, Loop!Start
    PROVE  Kept'
  <1>1. /\ Loop!PowerOfTwo(prover.targetSize)
        /\ prover.receipt # None /\ prover.receipt.zk
    BY DEF Releasable, GuestInv
  <1>2. /\ prover' = [prover EXCEPT !.phase = "first"]
        /\ UNCHANGED <<blocks, accumulator>>
    BY <1>1 DEF Loop!Start
  <1>3. /\ prover'.ram = prover.ram /\ prover'.targetSize = prover.targetSize
        /\ prover'.receipt = prover.receipt /\ prover'.phase = "first"
    BY <1>2 DEF GuestInv, PipelineInv, Loop!IInv, Loop!Shaped, Loop!ProverRecord
  <1>4. RefusedOnlyAtFullBlock'
    BY <1>3 DEF RefusedOnlyAtFullBlock
  <1> QED  BY <1>2, <1>3, <1>4, MoveKept

(* There is a first block, and the next block is taken or there is none.   *)
LEMMA TakeKept ==
    ASSUME GuestInv, UNCHANGED <<image, iter>>, Loop!TakeFirst \/ Loop!TakeNext
    PROVE  Kept'
  <1>1. Loop!TakeFirst => Loop!Available
    <2> SUFFICES ASSUME Loop!TakeFirst, ~Loop!Available PROVE FALSE
      OBVIOUS
    <2>1. iter.phase = "done" /\ prover.phase = "first"
      BY DEF Loop!TakeFirst
    <2>2. prover.taken = 0 /\ Len(blocks) = prover.taken /\ blocks \in Seq(TraceBlock)
      BY <2>1 DEF GuestInv, PipelineInv, Loop!IInv, Loop!Progress, Loop!Shaped
    <2>3. blocks = <<>>
      BY <2>2
    <2> QED  BY <2>1, <2>3, SomeBlock
  <1>2. /\ \/ prover' = [prover EXCEPT !.phase = "next", !.taken = 1,
                                       !.current = blocks[1]]
           \/ prover' = [prover EXCEPT !.phase = "fold", !.taken = @ + 1,
                                       !.next = blocks[prover.taken + 1]]
           \/ prover' = [prover EXCEPT !.phase = "fold", !.next = None]
        /\ UNCHANGED <<blocks, accumulator>>
    BY <1>1 DEF Loop!TakeFirst, Loop!TakeNext
  <1>3. /\ prover'.ram = prover.ram /\ prover'.targetSize = prover.targetSize
        /\ prover'.receipt = prover.receipt /\ prover'.phase # "done"
    BY <1>2 DEF GuestInv, PipelineInv, Loop!IInv, Loop!Shaped, Loop!ProverRecord
  <1>4. RefusedOnlyAtFullBlock'
    BY <1>3 DEF RefusedOnlyAtFullBlock
  <1> QED  BY <1>2, <1>3, <1>4, MoveKept

(* A block that is folded leaves its memory known.                         *)
LEMMA FoldKept ==
    ASSUME GuestInv, UNCHANGED <<image, iter>>, Loop!FoldBlock
    PROVE  Kept'
  <1>0. /\ BlocksInv /\ Loop!IInv /\ RamKnown /\ image \in Images
        /\ blocks \in Seq(TraceBlock)
    BY DEF GuestInv, PipelineInv, BlocksInv, Typed
  <1>1. /\ prover.phase = "fold" /\ blocks' = blocks
        /\ Loop!Nova!Absorb(Loop!FoldInputOf(prover.current, prover.receipt))
    BY DEF Loop!FoldBlock
  <1>2. /\ prover'.ram = Loop!RamAfter(prover.ram, Loop!Accesses(prover.current.cycles))
        /\ prover'.targetSize = prover.targetSize
        /\ prover'.receipt = prover.receipt /\ prover'.phase # "done"
    BY <1>0 DEF Loop!FoldBlock, Loop!IInv, Loop!Shaped, Loop!ProverRecord
  <1>3. /\ Loop!Folded \in Nat /\ prover.current = blocks[Loop!Folded + 1]
        /\ Loop!Folded + 1 \in 1..Len(blocks)
    <2>1. /\ Loop!Folded \in Nat /\ prover.current = blocks[Loop!Folded + 1]
          /\ Len(blocks) = prover.taken
          /\ prover.taken = Loop!Folded + 1 \/ prover.taken = Loop!Folded + 2
      BY <1>0, <1>1 DEF Loop!IInv, Loop!Shaped, Loop!Progress
    <2> QED  BY <2>1
  <1>4. PICK f \in Nat : f = Loop!Folded /\ Loop!Folded' = f + 1
    BY <1>1, <1>3, Offerable, Loop!AbsorbCounts
  <1>5. PICK b : b = blocks[f + 1]
    OBVIOUS
  <1>6. \E j, k \in 0..MaxTicks : Takes(b, j, k)
    BY <1>0, <1>3, <1>4, <1>5, BlockTakes
  <1>7. PICK j \in 0..MaxTicks, k \in 0..MaxTicks : Takes(b, j, k)
    BY <1>6
  <1>8. Loop!Knows(prover.ram, After(image)[j].emu.mem)
    BY <1>0, <1>3, <1>4, <1>5, <1>7, RamBefore
  <1>9. Loop!Knows(prover'.ram, After(image)[k].emu.mem)
    BY <1>2, <1>3, <1>4, <1>5, <1>7, <1>8 DEF Takes, Carries, Loop!RowsKnow
  <1>10. ASSUME NEW l \in 0..MaxTicks, RowsUpTo(image, l) = b.start + b.active
         PROVE  Loop!Knows(prover'.ram, After(image)[l].emu.mem)
    <2>1. After(image)[l].emu = After(image)[k].emu
      <3>1. RowsUpTo(image, l) = RowsUpTo(image, k)
        BY <1>7, <1>10 DEF Takes
      <3> QED  BY <1>0, <3>1, CountTells
    <2> QED  BY <1>9, <2>1
  <1>11. RamKnown'
    <2>1. image' = image /\ blocks'[f + 1] = b /\ Loop!Folded' # 0
      BY <1>1, <1>4, <1>5
    <2> QED  BY <1>4, <1>10, <2>1 DEF RamKnown
  <1>12. RefusedOnlyAtFullBlock'
    BY <1>2 DEF RefusedOnlyAtFullBlock
  <1> QED  BY <1>2, <1>11, <1>12 DEF Kept, GuestInv

(* A proof is of a guest whose last block is short of its target.          *)
LEMMA FinishKept ==
    ASSUME GuestInv, UNCHANGED <<image, iter>>, Loop!Finish
    PROVE  Kept'
  <1>1. /\ prover.phase = "final" /\ prover.current.endState.terminated
        /\ UNCHANGED <<blocks, accumulator>>
    BY DEF Loop!Finish, Loop!Nova!BuildFinalInstance
  <1>2. /\ prover'.ram = prover.ram /\ prover'.targetSize = prover.targetSize
        /\ prover'.receipt = prover.receipt /\ prover'.outcome = "Proved"
    BY DEF Loop!Finish, GuestInv, PipelineInv, Loop!IInv, Loop!Shaped, Loop!ProverRecord
  <1>3. /\ Loop!Folded \in Nat \ {0} /\ Len(blocks) = Loop!Folded
        /\ prover.current = blocks[Loop!Folded]
    BY <1>1 DEF GuestInv, PipelineInv, Loop!IInv, Loop!Shaped, Loop!Progress
  <1>4. Len(blocks) \in 1..Len(blocks) /\ prover.current = blocks[Len(blocks)]
    BY <1>3
  <1>5. blocks[Len(blocks)].active < iter.target
    BY <1>1, <1>4 DEF GuestInv, BlockEnds, EndsGuest
  <1>6. RefusedOnlyAtFullBlock'
    BY <1>1, <1>2, <1>5 DEF RefusedOnlyAtFullBlock, Last
  <1> QED  BY <1>1, <1>2, <1>6, MoveKept

(* The pipeline begins with nothing remembered or decided.                 *)
LEMMA InitGuest == PipelineInit => GuestInv
  <1> SUFFICES ASSUME PipelineInit PROVE GuestInv
    OBVIOUS
  <1>1. PipelineInv
    BY InitPipeline
  <1>2. BlockEnds
    BY DEF PipelineInit, Init, BlockEnds
  <1>3. PICK size \in TargetSizes, receipt \in Receipts :
           prover = Stream!Fresh(size, receipt)
    BY DEF PipelineInit
  <1>4. /\ prover.targetSize = size /\ prover.receipt = receipt
        /\ prover.ram = <<>> /\ prover.phase = "start"
    BY <1>3 DEF Stream!Fresh
  <1>5. Loop!Folded = 0
    BY DEF PipelineInit, Stream!Nova!Init, Stream!Nova!EmptyAccumulator, Loop!Folded
  <1>6. RamKnown /\ RefusedOnlyAtFullBlock
    BY <1>4, <1>5 DEF RamKnown, RefusedOnlyAtFullBlock
  <1> QED  BY <1>1, <1>2, <1>4, <1>6 DEF GuestInv

(* Every step of the pipeline keeps it.                                    *)
LEMMA NextGuest ==
    ASSUME Releasable, GuestInv, [PipelineNext]_pipelineVars
    PROVE  GuestInv'
  <1>0. PipelineInv' /\ PipelineInv /\ BlocksInv /\ Loop!IInv /\ BlockEnds
    BY NextPipeline DEF GuestInv, PipelineInv
  <1>1. CASE IteratorStep
    <2>1. /\ Next /\ UNCHANGED <<prover, accumulator, instance>> /\ Loop!Wants
      BY <1>1 DEF IteratorStep, Stream!Wants, Loop!Wants
    <2>2. BlockEnds'
      BY <1>0, <2>1, NextEnds
    <2>3. image' = image
      BY <2>1 DEF Next, End, Begin, Pull, Full, Emit
    <2>4. Loop!Folded' = Loop!Folded
      BY <2>1 DEF Loop!Folded
    <2>5. Loop!Folded # 0 => blocks'[Loop!Folded] = blocks[Loop!Folded]
      BY <1>0, <2>1, LoopFolded, BlocksStay
    <2>6. RamKnown'
      BY <2>1, <2>3, <2>4, <2>5 DEF GuestInv, RamKnown
    <2>7. RefusedOnlyAtFullBlock'
      BY <2>1 DEF Loop!Wants, RefusedOnlyAtFullBlock
    <2> QED  BY <1>0, <2>1, <2>2, <2>6, <2>7 DEF GuestInv
  <1>2. CASE ProverStep
    <2>1. UNCHANGED <<image, tracer, iter>> /\ Loop!Prove
      BY <1>2, SameLoop DEF ProverStep
    <2>2. blocks' = blocks
      BY <2>1 DEF Loop!Prove, Loop!Start, Loop!TakeFirst, Loop!TakeNext, Loop!Reject,
         Loop!FoldBlock, Loop!Finish, Loop!Fail
    <2>3. BlockEnds'
      BY <1>0, <2>1, <2>2 DEF BlockEnds, EndsGuest
    <2>4. Kept'
      <3>1. CASE Loop!Start
        BY <2>1, <3>1, StartKept
      <3>2. CASE Loop!TakeFirst \/ Loop!TakeNext
        BY <2>1, <3>2, TakeKept
      <3>3. CASE Loop!Reject
        BY <2>1, <3>3, GuestRejects, RefusalKept
      <3>4. CASE Loop!FoldBlock
        BY <2>1, <3>4, FoldKept
      <3>5. CASE Loop!Finish
        BY <2>1, <3>5, FinishKept
      <3> QED  BY <2>1, <3>1, <3>2, <3>3, <3>4, <3>5 DEF Loop!Prove
    <2> QED  BY <1>0, <2>3, <2>4 DEF GuestInv, Kept
  <1>3. CASE UNCHANGED pipelineVars
    <2>1. UNCHANGED <<image, tracer, iter, blocks, prover, accumulator, instance>>
      BY <1>3 DEF pipelineVars, vars
    <2>2. BlockEnds'
      BY <1>0, <2>1 DEF BlockEnds, EndsGuest
    <2>3. RamKnown' /\ RefusedOnlyAtFullBlock'
      BY <2>1 DEF GuestInv, RamKnown, Loop!Folded, RefusedOnlyAtFullBlock, Last
    <2> QED  BY <1>0, <2>1, <2>2, <2>3 DEF GuestInv
  <1> QED  BY <1>1, <1>2, <1>3 DEF PipelineNext, Finished

(* Where the release parameters and the receipt let the loop start at all  *)
(* and the receipt has room for the guest's trace, no check of the loop    *)
(* refuses what the iterator makes of any guest that halts: it is proved,  *)
(* unless its last row completes a block, or the block size is not the one *)
(* that the parameters name.                                               *)
THEOREM GuestsRefusedOnlyAtFullBlock ==
    ASSUME Releasable
    PROVE  PipelineSpec => []RefusedOnlyAtFullBlock
  <1>1. PipelineInit => GuestInv
    BY InitGuest
  <1>2. GuestInv /\ [PipelineNext]_pipelineVars => GuestInv'
    BY NextGuest
  <1>3. GuestInv => RefusedOnlyAtFullBlock
    BY DEF GuestInv
  <1> QED  BY <1>1, <1>2, <1>3, PTL DEF PipelineSpec
=============================================================================
