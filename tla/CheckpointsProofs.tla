--------------------------- MODULE CheckpointsProofs --------------------------
(***************************************************************************)
(* A checkpoint replays its chunk, whatever the guest does and however the *)
(* trace is cut, as long as saving is started before the first row.  The   *)
(* memory of a checkpoint is that of the guest only on the cells that the  *)
(* chunk touches; the invariant says that these are all a replay reads,    *)
(* and that on them it agrees with the guest, tick by tick.                *)
(*                                                                         *)
(* The last part is about the advice tape: the second pass reads what the  *)
(* first wrote, and so does a clone of the processor, again.               *)
(***************************************************************************)
EXTENDS Checkpoints, AdviceTape, GuestExecutionProofs

(* The cells that a tick accesses: its instruction and its data.           *)
Touches(e) ==
    {e.pc} \cup (IF Decode[e.mem[e.pc]].op \in {"load", "store"}
                 THEN {Decode[e.mem[e.pc]].arg} ELSE {})

(* A machine that may be saving, and the same machine when it is not.      *)
EmulatorRecord(e) ==
    /\ e = [pc |-> e.pc, x |-> e.x, mem |-> e.mem, saving |-> e.saving,
            touched |-> e.touched]
    /\ e.pc \in Address /\ e.x \in Nat /\ e.mem \in [Address -> Nat]
    /\ e.saving \in BOOLEAN

Plain(e) == [pc |-> e.pc, x |-> e.x, mem |-> e.mem, saving |-> FALSE,
             touched |-> <<>>]

(* Saving changes nothing about a tick but what it records.                *)
LEMMA TickSaving ==
    ASSUME NEW e, EmulatorRecord(e), Decodable(e)
    PROVE  /\ Plain(e) \in Emulator /\ Decodable(Plain(e))
           /\ Tick(e).rows = Tick(Plain(e)).rows
           /\ Tick(e).emu = [pc |-> Tick(Plain(e)).emu.pc, x |-> Tick(Plain(e)).emu.x,
                             mem |-> Tick(Plain(e)).emu.mem, saving |-> e.saving,
                             touched |-> Recorded(e, Touches(e))]
  <1> DEFINE p == Plain(e)
             ins  == Decode[e.mem[e.pc]]
             data == ins.op \in {"load", "store"}
             pc   == IF ins.op = "jump" THEN ins.arg ELSE e.pc + 1
             x    == CASE ins.op = "add"  -> e.x + 1
                       [] ins.op = "load" -> e.mem[ins.arg]
                       [] OTHER           -> e.x
             mem  == IF ins.op = "store" THEN [e.mem EXCEPT ![ins.arg] = e.x]
                                         ELSE e.mem
  <1>1. /\ p.pc = e.pc /\ p.x = e.x /\ p.mem = e.mem
        /\ p.saving = FALSE /\ p.touched = <<>>
    BY DEF Plain
  <1>2. p \in Emulator /\ Decodable(p)
    BY DEF Plain, Emulator, EmulatorRecord, Decodable
  <1> HIDE DEF p
  <1>3. Tick(e).rows = Tick(p).rows
    BY <1>1 DEF Tick
  <1>4. /\ Tick(p).emu.pc = pc /\ Tick(p).emu.x = x /\ Tick(p).emu.mem = mem
    <2>1. Tick(p).emu = [p EXCEPT !.pc = pc, !.x = x, !.mem = mem,
                            !.touched = Recorded(p, {p.pc} \cup
                                           (IF data THEN {ins.arg} ELSE {}))]
      BY <1>1 DEF Tick
    <2> HIDE DEF ins, data, pc, x, mem
    <2>2. p = [pc |-> p.pc, x |-> p.x, mem |-> p.mem, saving |-> p.saving,
               touched |-> p.touched]
      BY <1>2 DEF Emulator
    <2> QED  BY <2>1, <2>2
  <1>5. Tick(e).emu = [e EXCEPT !.pc = pc, !.x = x, !.mem = mem,
                          !.touched = Recorded(e, Touches(e))]
    BY DEF Tick, Touches
  <1> HIDE DEF pc, x, mem
  <1>6. Tick(e).emu = [pc |-> pc, x |-> x, mem |-> mem, saving |-> e.saving,
                       touched |-> Recorded(e, Touches(e))]
    BY <1>5 DEF EmulatorRecord
  <1> QED  BY <1>2, <1>3, <1>4, <1>6 DEF p

Agree(e, g, D) == \A a \in D : e.mem[a] = g.mem[a]

(* Two machines whose memories agree on what a tick touches tick alike.    *)
LEMMA TickAgrees ==
    ASSUME NEW e \in Emulator, NEW g \in Emulator, NEW D \in SUBSET Address,
           e.pc = g.pc, e.x = g.x, Agree(e, g, D),
           Decodable(g), Touches(g) \subseteq D
    PROVE  /\ Decodable(e)
           /\ Tick(e).rows = Tick(g).rows
           /\ Tick(e).emu.pc = Tick(g).emu.pc
           /\ Tick(e).emu.x = Tick(g).emu.x
           /\ Agree(Tick(e).emu, Tick(g).emu, D)
  <1> DEFINE ins  == Decode[g.mem[g.pc]]
             data == ins.op \in {"load", "store"}
             pc   == IF ins.op = "jump" THEN ins.arg ELSE g.pc + 1
             x(h) == CASE ins.op = "add"  -> g.x + 1
                       [] ins.op = "load" -> h.mem[ins.arg]
                       [] OTHER           -> g.x
             mem(h) == IF ins.op = "store" THEN [h.mem EXCEPT ![ins.arg] = g.x]
                                           ELSE h.mem
             row(h, i) ==
                LET last == i = ins.rows
                IN  [at   |-> <<g.pc, i>>,
                     to   |-> IF last THEN <<pc, 1>> ELSE <<g.pc, i + 1>>,
                     jump |-> last /\ ins.op = "jump",
                     reg  |-> IF last /\ ins.op # "jump" THEN <<g.x, x(h)>> ELSE <<>>,
                     ram  |-> IF last /\ data
                              THEN <<ins.arg, h.mem[ins.arg], mem(h)[ins.arg]>>
                              ELSE <<>>]
  <1>1. /\ g.pc \in D /\ e.mem[e.pc] = g.mem[g.pc]
        /\ data => ins.arg \in D /\ e.mem[ins.arg] = g.mem[ins.arg]
        /\ e.mem \in [Address -> Nat] /\ g.mem \in [Address -> Nat]
    BY DEF Touches, Agree, Emulator
  <1>2. Decodable(e)
    BY <1>1 DEF Decodable
  <1>3. /\ Tick(g).emu.pc = pc /\ Tick(g).emu.x = x(g) /\ Tick(g).emu.mem = mem(g)
        /\ Tick(g).rows = [i \in 1..ins.rows |-> row(g, i)]
    BY DEF Tick, Emulator
  <1>4. Decode[e.mem[e.pc]] = ins
    BY <1>1
  <1>5. /\ Tick(e).emu.pc = pc /\ Tick(e).emu.x = x(e) /\ Tick(e).emu.mem = mem(e)
        /\ Tick(e).rows = [i \in 1..ins.rows |-> row(e, i)]
    <2> HIDE DEF ins
    <2> QED  BY <1>4 DEF Tick, Emulator
  <1> HIDE DEF ins
  <1>6. x(e) = x(g)
    BY <1>1
  <1>7. \A a \in D : mem(e)[a] = mem(g)[a]
    BY <1>1 DEF Agree
  <1>8. ASSUME NEW i \in 1..ins.rows PROVE row(e, i) = row(g, i)
    <2> HIDE DEF x, mem, pc
    <2> QED  BY <1>1, <1>6, <1>7
  <1> HIDE DEF x, mem, pc, row
  <1> QED  BY <1>2, <1>3, <1>5, <1>6, <1>7, <1>8 DEF Agree

-----------------------------------------------------------------------------
Replayer ==
    [emu : Emulator, prevPc : Address \cup {0}, current : Seq(TraceRow),
     remaining : Nat]

(* The processor s has made n ticks and handed out r rows.                 *)
Stands(img, s, r, n) ==
    /\ s.pc = After(img)[n].emu.pc
    /\ s.x = After(img)[n].emu.x
    /\ s.prevPc = After(img)[n].prevPc
    /\ r \in 0..RowsUpTo(img, n)
    /\ s.current = SubSeq(FullTrace(img), r + 1, RowsUpTo(img, n))

(* A replay that stands at row r, after tick i, finds in the cells D all   *)
(* that the ticks up to tick n access, and n ticks make the rows to end.   *)
ReplaysWith(img, c, r, end, i, n, D) ==
    /\ Stands(img, Processor(c), r, i)
    /\ Agree(c.emu, After(img)[i].emu, D)
    /\ \A k \in i..(n - 1) : Touches(After(img)[k].emu) \subseteq D
    /\ r <= end /\ end <= RowsUpTo(img, n)
    /\ c.remaining = end - r

Replays(img, c, r, end) ==
    /\ c \in Replayer
    /\ \E i, n \in 0..MaxTicks : \E D \in SUBSET Address :
          ReplaysWith(img, c, r, end, i, n, D)

ReplaysOn(img, c, r, end) ==
    /\ CanStep(c)
    /\ r + 1 \in 1..Len(FullTrace(img)) /\ r + 1 <= end
    /\ NextRow(c) = <<FullTrace(img)[r + 1]>>
    /\ Replays(img, ReplayStep(c), r + 1, end)

(* A replay that has rows left gives the next row of the guest.            *)
LEMMA ReplayGoesOn ==
    ASSUME NEW img \in Images, NEW c, NEW r \in Nat, NEW end \in Nat,
           Replays(img, c, r, end), c.remaining # 0
    PROVE  ReplaysOn(img, c, r, end)
  <1>0. MaxTicks \in Nat
    BY MaxTicksAssumption
  <1>1. PICK i \in 0..MaxTicks, n \in 0..MaxTicks, D \in SUBSET Address :
            ReplaysWith(img, c, r, end, i, n, D)
    BY DEF Replays
  <1> DEFINE m == RowsUpTo(img, i)
             g == After(img)[i].emu
  <1>2. /\ c \in Replayer /\ c.emu \in Emulator /\ c.prevPc \in Address \cup {0}
        /\ c.current \in Seq(TraceRow)
        /\ c = [emu |-> c.emu, prevPc |-> c.prevPc, current |-> c.current,
                remaining |-> c.remaining]
    BY DEF Replays, Replayer
  <1>3. /\ c.emu.pc = g.pc /\ c.emu.x = g.x /\ c.prevPc = After(img)[i].prevPc
        /\ r \in 0..m
        /\ c.current = SubSeq(FullTrace(img), r + 1, m)
    BY <1>1 DEF ReplaysWith, Stands, Processor
  <1>4. /\ Agree(c.emu, g, D)
        /\ \A k \in i..(n - 1) : Touches(After(img)[k].emu) \subseteq D
        /\ end <= RowsUpTo(img, n) /\ c.remaining = end - r /\ r <= end
    BY <1>1 DEF ReplaysWith
  <1>5. /\ FullTrace(img) \in Seq(TraceRow) /\ m \in Nat /\ m <= Len(FullTrace(img))
        /\ RowsUpTo(img, n) \in Nat /\ RowsUpTo(img, n) <= Len(FullTrace(img))
    <2>1. i \in i..MaxTicks /\ n \in n..MaxTicks
      BY <1>0
    <2> QED  BY <2>1, RowsGrow
  <1>6. r < end /\ r + 1 <= end /\ r + 1 \in 1..Len(FullTrace(img))
    BY <1>4, <1>5
  <1>7. Len(FullTrace(img)) \in Nat
    BY <1>5
  <1> HIDE DEF m, g
  <1>8. CASE c.current # <<>>
    <2>1. /\ r + 1 <= m /\ Head(c.current) = FullTrace(img)[r + 1]
          /\ Tail(c.current) = SubSeq(FullTrace(img), (r + 1) + 1, m)
      BY <1>3, <1>5, <1>8, NextOfPart DEF IsPart
    <2>2. CanStep(c) /\ NextRow(c) = <<FullTrace(img)[r + 1]>>
      BY <1>8, <2>1 DEF CanStep, NextRow
    <2>3. ReplayStep(c) = [emu |-> c.emu, prevPc |-> c.prevPc,
                           current |-> Tail(c.current), remaining |-> c.remaining - 1]
      <3>1. ReplayStep(c) = [c EXCEPT !.current = Tail(@), !.remaining = @ - 1]
        BY <1>8 DEF ReplayStep
      <3> QED  BY <1>2, <3>1
    <2>4. Tail(c.current) \in Seq(TraceRow) /\ c.remaining - 1 \in Nat
      BY <1>2, <1>4, <1>6, <1>8
    <2>5. ReplayStep(c) \in Replayer
      BY <1>2, <2>3, <2>4 DEF Replayer
    <2>6. ReplaysWith(img, ReplayStep(c), r + 1, end, i, n, D)
      <3>1. Stands(img, Processor(ReplayStep(c)), r + 1, i)
        BY SMTT(30), <1>3, <1>5, <2>1, <2>3 DEF Stands, Processor, m, g
      <3>2. Agree(ReplayStep(c).emu, After(img)[i].emu, D)
        BY <1>4, <2>3 DEF g
      <3>3. ReplayStep(c).remaining = end - (r + 1)
        BY <1>4, <2>3
      <3> QED  BY <1>4, <1>6, <3>1, <3>2, <3>3 DEF ReplaysWith
    <2>7. Replays(img, ReplayStep(c), r + 1, end)
      BY <2>5, <2>6 DEF Replays
    <2> QED  BY <1>6, <2>2, <2>7 DEF ReplaysOn
  <1>9. CASE c.current = <<>>
    <2>1. r = m
      BY <1>3, <1>5, <1>9, NextOfPart DEF IsPart
    <2>2. i < n
      <3>1. SUFFICES ASSUME n <= i PROVE FALSE
        BY <1>0
      <3>2. i \in n..MaxTicks
        BY <1>0, <3>1
      <3>3. RowsUpTo(img, n) <= m
        BY <3>2, RowsGrow DEF m
      <3> QED  BY <1>4, <1>5, <1>6, <2>1, <3>3
    <2>3. /\ ~Halted(After(img)[i]) /\ i + 1 \in 1..MaxTicks /\ (i + 1) - 1 = i
          /\ RowsOfTick(img, i + 1) # <<>>
          /\ RowsOfTick(img, i + 1) = Tick(g).rows
          /\ After(img)[i + 1] = Ticked(After(img)[i])
      <3>1. RowsUpTo(img, i) < Len(FullTrace(img))
        BY <1>6, <1>7, <2>1 DEF m
      <3> QED  BY <1>0, <3>1, RunsOn DEF g
    <2>4. g \in Emulator /\ Decodable(g)
      BY <2>3, AfterTyped DEF g, Machine
    <2>5. Touches(g) \subseteq D
      BY <1>0, <1>4, <2>2 DEF g
    <2>6. /\ Decodable(c.emu)
          /\ Tick(c.emu).rows = Tick(g).rows
          /\ Tick(c.emu).emu.pc = Tick(g).emu.pc
          /\ Tick(c.emu).emu.x = Tick(g).emu.x
          /\ Agree(Tick(c.emu).emu, Tick(g).emu, D)
      BY <1>2, <1>3, <1>4, <2>4, <2>5, TickAgrees
    <2>7. After(img)[i + 1].emu = Tick(g).emu /\ After(img)[i + 1].prevPc = g.pc
      BY <2>3 DEF Ticked, Halted, g
    <2>8. After(img)[i + 1].emu \in Emulator /\ i + 1 \in 0..MaxTicks
      BY <1>0, <2>3, AfterTyped DEF Machine
    <2>9. Tick(c.emu).emu \in Emulator
      <3>1. Tick(c.emu).emu.pc \in Address
        BY <2>6, <2>7, <2>8 DEF Emulator
      <3> QED  BY <1>2, <2>6, <3>1, TickTyped
    <2>10. PICK rows \in Seq(TraceRow) :
              rows = Tick(c.emu).rows /\ rows = RowsOfTick(img, i + 1) /\ rows # <<>>
      BY <2>3, <2>6, RowsTicked
    <2>11. rows = SubSeq(FullTrace(img), m + 1, RowsUpTo(img, i + 1))
      BY <2>3, <2>10, RowsBetween DEF m
    <2>12. /\ m <= RowsUpTo(img, i + 1) /\ RowsUpTo(img, i + 1) \in Nat
           /\ RowsUpTo(img, i + 1) <= Len(FullTrace(img))
      <3>1. i + 1 \in i..MaxTicks
        BY <1>0, <2>3
      <3> QED  BY <3>1, RowsGrow DEF m
    <2>13. /\ r + 1 <= RowsUpTo(img, i + 1) /\ Head(rows) = FullTrace(img)[r + 1]
           /\ Tail(rows) = SubSeq(FullTrace(img), (r + 1) + 1, RowsUpTo(img, i + 1))
      <3>1. PICK q \in Nat : q = RowsUpTo(img, i + 1)
        BY <2>12
      <3>2. PICK full \in Seq(TraceRow) : full = FullTrace(img)
        BY <1>5
      <3>3. m <= q /\ q <= Len(full) /\ rows = SubSeq(full, m + 1, q)
        BY <2>11, <2>12, <3>1, <3>2
      <3>4. /\ m + 1 <= q /\ Head(rows) = full[m + 1]
            /\ IsPart(Tail(rows), full, m + 1, q)
        <4>1. IsPart(rows, full, m, q)
          BY <3>3 DEF IsPart
        <4> QED  BY <1>5, <2>10, <3>3, <4>1, NextOfPart
      <3> QED  BY <2>1, <3>1, <3>2, <3>4 DEF IsPart
    <2>14. StepEmulator(c.emu, c.prevPc) = Tick(c.emu)
      BY <1>3, <2>3 DEF StepEmulator, Halted, g
    <2>15. CanStep(c) /\ NextRow(c) = <<FullTrace(img)[r + 1]>>
      BY <1>9, <2>6, <2>10, <2>13, <2>14 DEF CanStep, NextRow
    <2>16. ReplayStep(c) = [emu |-> Tick(c.emu).emu, prevPc |-> c.emu.pc,
                            current |-> Tail(rows), remaining |-> c.remaining - 1]
      BY <1>9, <2>10, <2>14 DEF ReplayStep
    <2>17. ReplayStep(c) \in Replayer
      <3>1. Tail(rows) \in Seq(TraceRow) /\ c.remaining - 1 \in Nat
        BY <1>4, <1>6, <2>10
      <3>2. c.emu.pc \in Address
        BY <1>2 DEF Emulator
      <3> QED  BY <2>9, <2>16, <3>1, <3>2 DEF Replayer
    <2>18. ReplaysWith(img, ReplayStep(c), r + 1, end, i + 1, n, D)
      <3>1. Stands(img, Processor(ReplayStep(c)), r + 1, i + 1)
        <4>1. Processor(ReplayStep(c)) = [pc |-> Tick(c.emu).emu.pc, x |-> Tick(c.emu).emu.x,
                                          prevPc |-> c.emu.pc, current |-> Tail(rows)]
          BY <2>16 DEF Processor
        <4>2. r + 1 \in 0..RowsUpTo(img, i + 1)
          BY <2>12, <2>13
        <4> DEFINE q == Processor(ReplayStep(c))
        <4>3. /\ q.pc = After(img)[i + 1].emu.pc /\ q.x = After(img)[i + 1].emu.x
              /\ q.prevPc = After(img)[i + 1].prevPc
              /\ q.current = SubSeq(FullTrace(img), (r + 1) + 1, RowsUpTo(img, i + 1))
          <5>1. /\ q.pc = Tick(c.emu).emu.pc /\ q.x = Tick(c.emu).emu.x
                /\ q.prevPc = c.emu.pc /\ q.current = Tail(rows)
            BY <4>1
          <5> HIDE DEF q
          <5> QED  BY <1>3, <2>6, <2>7, <2>13, <5>1
        <4> HIDE DEF q
        <4> QED  BY <4>2, <4>3 DEF Stands, q
      <3>2. Agree(ReplayStep(c).emu, After(img)[i + 1].emu, D)
        BY <2>6, <2>7, <2>16
      <3>3. ReplayStep(c).remaining = end - (r + 1)
        BY <1>4, <2>16
      <3>4. \A k \in (i + 1)..(n - 1) : Touches(After(img)[k].emu) \subseteq D
        BY <1>4
      <3> QED  BY <1>4, <1>6, <3>1, <3>2, <3>3, <3>4 DEF ReplaysWith
    <2>19. Replays(img, ReplayStep(c), r + 1, end)
      BY <2>8, <2>17, <2>18 DEF Replays
    <2> QED  BY <1>6, <2>15, <2>19 DEF ReplaysOn
  <1> QED  BY <1>8, <1>9

-----------------------------------------------------------------------------
TracerRecord(t) ==
    /\ t = [emu |-> t.emu, prevPc |-> t.prevPc, current |-> t.current,
            sinceCheckpoint |-> t.sinceCheckpoint, finished |-> t.finished,
            saved |-> t.saved]
    /\ EmulatorRecord(t.emu) /\ DOMAIN t.emu.touched \subseteq Address
    /\ t.prevPc \in Address \cup {0} /\ t.current \in Seq(TraceRow)
    /\ t.sinceCheckpoint \in Nat /\ t.finished \in BOOLEAN

(* The tracer has handed out r rows of the first n ticks.                  *)
Traces(img, t, r, n) ==
    /\ Stands(img, Processor(t), r, n)
    /\ IF t.finished THEN Halted(After(img)[n]) /\ t.current = <<>>
       ELSE t.emu.mem = After(img)[n].emu.mem
    /\ r = 0 => n = 0

(* The chunk that began at row first, after tick j: the cells recorded     *)
(* have the values of its start, the others have not changed since then,   *)
(* and its ticks access none but those recorded.                           *)
Chunk(img, t, first, r, j, n) ==
    /\ t.saved = <<t.saved[1]>> /\ Stands(img, t.saved[1], first, j)
    /\ \A a \in DOMAIN t.emu.touched :
          t.emu.touched[a] = After(img)[j].emu.mem[a]
    /\ \A a \in Address \ DOMAIN t.emu.touched :
          After(img)[n].emu.mem[a] = After(img)[j].emu.mem[a]
    /\ \A k \in j..(n - 1) :
          Touches(After(img)[k].emu) \subseteq DOMAIN t.emu.touched
    /\ first <= r /\ t.sinceCheckpoint = r - first

TracerAt(img, t, first, r) ==
    /\ TracerRecord(t)
    /\ \E n \in 0..MaxTicks :
          /\ Traces(img, t, r, n)
          /\ t.emu.saving => \E j \in 0..n : Chunk(img, t, first, r, j, n)
    /\ ~t.emu.saving => first = 0 /\ t.sinceCheckpoint = r
    /\ r = 0 => DOMAIN t.emu.touched = {}

(* A tracer begins with no tick made and no row handed out.                *)
LEMMA TracerStarts ==
    ASSUME NEW img \in Images
    PROVE  TracerAt(img, NewTracer(img, Entry), 0, 0)
  <1> DEFINE t == NewTracer(img, Entry)
  <1>0. MaxTicks \in Nat /\ 0 \in 0..MaxTicks
    BY MaxTicksAssumption
  <1>1. /\ t = [emu |-> Booted(img, Entry), prevPc |-> 0, current |-> <<>>,
                sinceCheckpoint |-> 0, finished |-> FALSE, saved |-> <<>>]
    BY DEF NewTracer
  <1> HIDE DEF t
  <1>2. t.emu = [pc |-> Entry, x |-> 0, mem |-> img, saving |-> FALSE, touched |-> <<>>]
    BY <1>1 DEF Booted
  <1>3. After(img)[0] = [emu |-> t.emu, prevPc |-> 0]
    BY <1>1, AfterTicks DEF Loaded
  <1>4. TracerRecord(t) /\ ~t.emu.saving /\ DOMAIN t.emu.touched = {}
    <2>1. EmulatorRecord(t.emu)
      BY <1>2, ImagesAssumption DEF EmulatorRecord
    <2>2. DOMAIN t.emu.touched = {}
      BY <1>2
    <2> QED  BY <1>1, <1>2, <2>1, <2>2 DEF TracerRecord
  <1>5. RowsUpTo(img, 0) = 0 /\ FullTrace(img) \in Seq(TraceRow)
    BY <1>0, TraceGrows
  <1>6. Traces(img, t, 0, 0)
    <2>1. Processor(t) = [pc |-> t.emu.pc, x |-> t.emu.x, prevPc |-> 0, current |-> <<>>]
      BY <1>1 DEF Processor
    <2>2. SubSeq(FullTrace(img), 0 + 1, 0) = <<>>
      BY <1>5
    <2>3. Stands(img, Processor(t), 0, 0)
      BY <1>3, <1>5, <2>1, <2>2 DEF Stands
    <2>4. ~t.finished /\ t.emu.mem = After(img)[0].emu.mem
      BY <1>1, <1>3
    <2> QED  BY <2>3, <2>4 DEF Traces
  <1>7. t.sinceCheckpoint = 0
    BY <1>1
  <1>8. TracerAt(img, t, 0, 0)
    BY <1>0, <1>4, <1>6, <1>7 DEF TracerAt
  <1> QED  BY <1>8 DEF t

(* How far a tracer has come.                                              *)
LEMMA TracerCount ==
    ASSUME NEW img \in Images, NEW t, NEW first \in Nat, NEW r \in Nat,
           TracerAt(img, t, first, r)
    PROVE  /\ first <= r /\ t.sinceCheckpoint = r - first
           /\ r <= Len(FullTrace(img))
           /\ t.finished => r = Len(FullTrace(img))
  <1>0. MaxTicks \in Nat
    BY MaxTicksAssumption
  <1>1. PICK n \in 0..MaxTicks :
          /\ Traces(img, t, r, n)
          /\ t.emu.saving => \E j \in 0..n : Chunk(img, t, first, r, j, n)
    BY DEF TracerAt
  <1>2. TracerRecord(t)
    BY DEF TracerAt
  <1>3. first <= r /\ t.sinceCheckpoint = r - first
    <2>1. CASE t.emu.saving
      BY <1>1, <2>1 DEF Chunk
    <2>2. CASE ~t.emu.saving
      BY <2>2 DEF TracerAt
    <2> QED  BY <2>1, <2>2
  <1>4. /\ r \in 0..RowsUpTo(img, n)
        /\ t.current = SubSeq(FullTrace(img), r + 1, RowsUpTo(img, n))
    BY <1>1 DEF Traces, Stands, Processor
  <1>5. /\ RowsUpTo(img, n) \in Nat /\ RowsUpTo(img, n) <= Len(FullTrace(img))
        /\ FullTrace(img) \in Seq(TraceRow)
    <2>1. n \in n..MaxTicks
      BY <1>0
    <2> QED  BY <2>1, RowsGrow
  <1>6. r <= Len(FullTrace(img))
    BY <1>4, <1>5
  <1>7. ASSUME t.finished PROVE r = Len(FullTrace(img))
    <2>1. Halted(After(img)[n]) /\ t.current = <<>>
      BY <1>1, <1>7 DEF Traces
    <2>2. RowsUpTo(img, n) = Len(FullTrace(img))
      BY <2>1, HaltedTrace, RowsCounted
    <2>3. IsPart(t.current, FullTrace(img), r, RowsUpTo(img, n))
      BY <1>4 DEF IsPart
    <2>4. r = RowsUpTo(img, n)
      BY <1>4, <1>5, <2>1, <2>3, NextOfPart
    <2> QED  BY <2>2, <2>4
  <1> QED  BY <1>3, <1>6, <1>7

(* Saving may be started before the first row.                             *)
LEMMA TracerStartsSaving ==
    ASSUME NEW img \in Images, NEW t, NEW first \in Nat, TracerAt(img, t, first, 0)
    PROVE  TracerAt(img, StartSavingCheckpoints(t), 0, 0)
  <1> DEFINE u == StartSavingCheckpoints(t)
  <1>0. MaxTicks \in Nat /\ 0 \in 0..MaxTicks
    BY MaxTicksAssumption
  <1>1. /\ TracerRecord(t) /\ Traces(img, t, 0, 0) /\ DOMAIN t.emu.touched = {}
    BY DEF TracerAt, Traces
  <1>2. t.sinceCheckpoint = 0
    <2>1. t.sinceCheckpoint = 0 - first /\ first <= 0
      BY TracerCount
    <2> QED  BY <2>1
  <1>3. u = [emu |-> [pc |-> t.emu.pc, x |-> t.emu.x, mem |-> t.emu.mem,
                      saving |-> TRUE, touched |-> t.emu.touched],
             prevPc |-> t.prevPc, current |-> t.current,
             sinceCheckpoint |-> t.sinceCheckpoint, finished |-> t.finished,
             saved |-> <<Processor(t)>>]
    <2>1. t = [emu |-> t.emu, prevPc |-> t.prevPc, current |-> t.current,
               sinceCheckpoint |-> t.sinceCheckpoint, finished |-> t.finished,
               saved |-> t.saved]
      BY <1>1 DEF TracerRecord
    <2>2. [t.emu EXCEPT !.saving = TRUE]
             = [pc |-> t.emu.pc, x |-> t.emu.x, mem |-> t.emu.mem,
                saving |-> TRUE, touched |-> t.emu.touched]
      <3>1. PICK e : e = t.emu
        OBVIOUS
      <3>2. e = [pc |-> e.pc, x |-> e.x, mem |-> e.mem, saving |-> e.saving,
                 touched |-> e.touched]
        BY <1>1, <3>1 DEF TracerRecord, EmulatorRecord
      <3>3. PICK p, x, m, v, d :
               e = [pc |-> p, x |-> x, mem |-> m, saving |-> v, touched |-> d]
        BY <3>2
      <3>4. ASSUME NEW b
            PROVE  [e EXCEPT !.saving = b]
                      = [pc |-> e.pc, x |-> e.x, mem |-> e.mem, saving |-> b,
                         touched |-> e.touched]
        BY <3>3
      <3> QED  BY <3>1, <3>4, Zenon
    <2>3. u = [t EXCEPT !.saved = <<Processor(t)>>, !.emu = [t.emu EXCEPT !.saving = TRUE]]
      BY <2>1 DEF StartSavingCheckpoints
    <2> QED  BY <2>1, <2>2, <2>3
  <1> HIDE DEF u
  <1>4. TracerRecord(u) /\ u.emu.saving /\ DOMAIN u.emu.touched = {}
    BY <1>1, <1>3 DEF TracerRecord, EmulatorRecord
  <1>5. Processor(u) = Processor(t) /\ u.saved = <<Processor(t)>>
    BY <1>3 DEF Processor
  <1>6. Traces(img, u, 0, 0)
    BY <1>1, <1>3, <1>5 DEF Traces
  <1>7. Chunk(img, u, 0, 0, 0, 0)
    <2>1. u.saved[1] = Processor(t) /\ u.saved = <<u.saved[1]>>
      BY <1>5
    <2>2. Stands(img, u.saved[1], 0, 0)
      BY <1>1, <2>1 DEF Traces
    <2>3. 0..(0 - 1) = {}
      OBVIOUS
    <2>4. u.sinceCheckpoint = 0
      BY <1>2, <1>3
    <2> QED  BY <1>4, <2>1, <2>2, <2>3, <2>4 DEF Chunk
  <1>8. TracerAt(img, u, 0, 0)
    BY <1>0, <1>4, <1>6, <1>7 DEF TracerAt
  <1> QED  BY <1>8 DEF u

(* A tick leaves the cells alone that it does not access.                  *)
LEMMA TickWrites ==
    ASSUME NEW g \in Emulator, Decodable(g), NEW a \in Address, a \notin Touches(g)
    PROVE  Tick(g).emu.mem[a] = g.mem[a]
  <1> DEFINE ins == Decode[g.mem[g.pc]]
             mem == IF ins.op = "store" THEN [g.mem EXCEPT ![ins.arg] = g.x]
                                        ELSE g.mem
  <1>1. Tick(g).emu.mem = mem
    BY DEF Tick, Emulator
  <1>2. ins.op = "store" => a # ins.arg
    BY DEF Touches
  <1>3. g.mem \in [Address -> Nat]
    BY DEF Emulator
  <1> HIDE DEF ins
  <1> QED  BY <1>1, <1>2, <1>3

(* A tick accesses cells of the memory.                                    *)
LEMMA TouchesAddresses ==
    ASSUME NEW g \in Emulator, Decodable(g)
    PROVE  Touches(g) \subseteq Address
  BY DecodeAssumption DEF Touches, Decodable, Emulator

StepsTo(img, t, first, r) ==
    LET u == LazyStep(t)
        k == Len(NextRow(t))
    IN  /\ CanStep(t) /\ k \in {0, 1}
        /\ TracerAt(img, u, first, r + k)
        /\ u.emu.saving = t.emu.saving

(* A step of the tracer hands out the next row of the guest.               *)
LEMMA TracerSteps ==
    ASSUME NEW img \in Images, NEW t, NEW first \in Nat, NEW r \in Nat,
           TracerAt(img, t, first, r), ~t.finished
    PROVE  StepsTo(img, t, first, r)
  <1>0. MaxTicks \in Nat
    BY MaxTicksAssumption
  <1>1. PICK n \in 0..MaxTicks :
          /\ Traces(img, t, r, n)
          /\ t.emu.saving => \E j \in 0..n : Chunk(img, t, first, r, j, n)
    BY DEF TracerAt
  <1>2. /\ TracerRecord(t)
        /\ t = [emu |-> t.emu, prevPc |-> t.prevPc, current |-> t.current,
                sinceCheckpoint |-> t.sinceCheckpoint, finished |-> t.finished,
                saved |-> t.saved]
        /\ t.current \in Seq(TraceRow) /\ t.sinceCheckpoint \in Nat
        /\ t.prevPc \in Address \cup {0}
        /\ ~t.emu.saving => first = 0 /\ t.sinceCheckpoint = r
        /\ r = 0 => DOMAIN t.emu.touched = {}
    BY DEF TracerAt, TracerRecord
  <1>3. PICK e : e = t.emu
    OBVIOUS
  <1>4. /\ EmulatorRecord(e) /\ DOMAIN e.touched \subseteq Address
        /\ e = [pc |-> e.pc, x |-> e.x, mem |-> e.mem, saving |-> e.saving,
                touched |-> e.touched]
    BY <1>2, <1>3 DEF TracerRecord, EmulatorRecord
  <1> DEFINE m == RowsUpTo(img, n)
             g == After(img)[n].emu
  <1>5. /\ e.pc = g.pc /\ e.x = g.x /\ t.prevPc = After(img)[n].prevPc
        /\ e.mem = g.mem
        /\ r \in 0..m
        /\ t.current = SubSeq(FullTrace(img), r + 1, m)
    BY <1>1, <1>3 DEF Traces, Stands, Processor
  <1>6. /\ FullTrace(img) \in Seq(TraceRow) /\ m \in Nat /\ m <= Len(FullTrace(img))
        /\ Len(FullTrace(img)) \in Nat
    <2>1. n \in n..MaxTicks
      BY <1>0
    <2> QED  BY <2>1, RowsGrow
  <1>7. Machine(After(img)[n]) /\ g \in Emulator
    BY AfterTyped DEF Machine
  <1> HIDE DEF m, g
  <1>8. IsPart(t.current, FullTrace(img), r, m)
    BY <1>5 DEF IsPart
  <1>9. /\ r <= m
        /\ t.current = <<>> <=> r = m
        /\ t.current # <<>> => /\ r + 1 <= m
                               /\ Head(t.current) = FullTrace(img)[r + 1]
                               /\ IsPart(Tail(t.current), FullTrace(img), r + 1, m)
    <2>1. r <= m
      BY <1>5, <1>6
    <2> QED  BY <1>6, <1>8, <2>1, NextOfPart
  <1>10. CASE t.current # <<>>
    <2> DEFINE u == LazyStep(t)
    <2>1. /\ r + 1 <= m /\ Head(t.current) = FullTrace(img)[r + 1]
          /\ IsPart(Tail(t.current), FullTrace(img), r + 1, m)
      BY <1>9, <1>10
    <2>2. CanStep(t) /\ NextRow(t) = <<Head(t.current)>> /\ Len(NextRow(t)) = 1
      BY <1>10 DEF CanStep, NextRow
    <2>3. u = [emu |-> e, prevPc |-> t.prevPc, current |-> Tail(t.current),
               sinceCheckpoint |-> t.sinceCheckpoint + 1, finished |-> FALSE,
               saved |-> t.saved]
      <3>1. u = [t EXCEPT !.current = Tail(@), !.sinceCheckpoint = @ + 1]
        BY <1>10 DEF LazyStep
      <3>2. t.finished = FALSE
        BY <1>2 DEF TracerRecord
      <3> QED  BY <1>2, <1>3, <3>1, <3>2
    <2>4. Tail(t.current) \in Seq(TraceRow) /\ t.sinceCheckpoint + 1 \in Nat
      BY <1>2, <1>10
    <2> HIDE DEF u
    <2>5. TracerRecord(u) /\ u.emu = e
      BY <1>2, <1>4, <2>3, <2>4 DEF TracerRecord
    <2>6. Traces(img, u, r + 1, n)
      <3>1. Processor(u) = [pc |-> e.pc, x |-> e.x, prevPc |-> t.prevPc,
                            current |-> Tail(t.current)]
        BY <2>3 DEF Processor
      <3>2. r + 1 \in 0..m
        BY <1>5, <1>6, <2>1
      <3>3. Stands(img, Processor(u), r + 1, n)
        <4>1. /\ Processor(u).pc = e.pc /\ Processor(u).x = e.x
              /\ Processor(u).prevPc = t.prevPc
              /\ Processor(u).current = Tail(t.current)
          BY <3>1
        <4>2. Tail(t.current) = SubSeq(FullTrace(img), (r + 1) + 1, m)
          BY <2>1 DEF IsPart
        <4>3. e.pc = g.pc /\ e.x = g.x /\ t.prevPc = After(img)[n].prevPc
          BY <1>5
        <4> QED  BY <3>2, <4>1, <4>2, <4>3 DEF Stands, m, g
      <3>4. ~u.finished /\ u.emu.mem = g.mem
        BY <1>5, <2>3
      <3> QED  BY <3>3, <3>4 DEF Traces, g
    <2>7. ASSUME u.emu.saving
          PROVE  \E j \in 0..n : Chunk(img, u, first, r + 1, j, n)
      <3>1. PICK j \in 0..n : Chunk(img, t, first, r, j, n)
        BY <1>1, <1>3, <2>5, <2>7
      <3>2. u.saved = t.saved /\ u.emu.touched = t.emu.touched
            /\ u.sinceCheckpoint = t.sinceCheckpoint + 1
        BY <1>3, <2>3
      <3>3. Chunk(img, u, first, r + 1, j, n)
        BY <3>1, <3>2 DEF Chunk
      <3> QED  BY <3>3
    <2>8. ~u.emu.saving => first = 0 /\ u.sinceCheckpoint = r + 1
      BY <1>2, <1>3, <2>3
    <2>9. TracerAt(img, u, first, r + 1)
      BY <2>5, <2>6, <2>7, <2>8 DEF TracerAt
    <2>10. u.emu.saving = t.emu.saving
      BY <1>3, <2>5
    <2> QED  BY <2>2, <2>9, <2>10 DEF StepsTo, u
  <1>11. CASE t.current = <<>> /\ Halted(After(img)[n])
    <2> DEFINE u == LazyStep(t)
    <2>1. StepEmulator(t.emu, t.prevPc).rows = <<>> /\ t.prevPc = t.emu.pc
      BY <1>3, <1>5, <1>11 DEF StepEmulator, Halted, g
    <2>2. CanStep(t) /\ NextRow(t) = <<>> /\ Len(NextRow(t)) = 0
      BY <1>11, <2>1 DEF CanStep, NextRow
    <2>3. u = [emu |-> [pc |-> e.pc, x |-> e.x, mem |-> [a \in Address |-> 0],
                        saving |-> e.saving, touched |-> e.touched],
               prevPc |-> t.prevPc, current |-> t.current,
               sinceCheckpoint |-> t.sinceCheckpoint, finished |-> TRUE,
               saved |-> t.saved]
      <3>1. u = [t EXCEPT !.finished = TRUE, !.emu.mem = [a \in Address |-> 0]]
        BY <1>11, <2>1 DEF LazyStep
      <3>2. u = [emu |-> [e EXCEPT !.mem = [a \in Address |-> 0]],
                 prevPc |-> t.prevPc, current |-> t.current,
                 sinceCheckpoint |-> t.sinceCheckpoint, finished |-> TRUE,
                 saved |-> t.saved]
        BY <1>2, <1>3, <3>1
      <3>3. PICK p, x, z, v, d :
               e = [pc |-> p, x |-> x, mem |-> z, saving |-> v, touched |-> d]
        BY <1>4
      <3>4. [e EXCEPT !.mem = [a \in Address |-> 0]]
               = [pc |-> e.pc, x |-> e.x, mem |-> [a \in Address |-> 0],
                  saving |-> e.saving, touched |-> e.touched]
        BY <3>3
      <3> QED  BY <3>2, <3>4
    <2> HIDE DEF u
    <2>4. TracerRecord(u) /\ u.emu.touched = e.touched /\ u.emu.saving = e.saving
      BY <1>2, <1>4, <2>3 DEF TracerRecord, EmulatorRecord
    <2>5. Traces(img, u, r, n)
      <3>1. Processor(u) = [pc |-> e.pc, x |-> e.x, prevPc |-> t.prevPc,
                            current |-> t.current]
        BY <2>3 DEF Processor
      <3>2. Stands(img, Processor(u), r, n)
        <4>1. /\ Processor(u).pc = e.pc /\ Processor(u).x = e.x
              /\ Processor(u).prevPc = t.prevPc /\ Processor(u).current = t.current
          BY <3>1
        <4> QED  BY <1>5, <4>1 DEF Stands, m, g
      <3>3. u.finished /\ u.current = <<>>
        BY <1>11, <2>3
      <3> QED  BY <1>1, <1>11, <3>2, <3>3 DEF Traces
    <2>6. ASSUME u.emu.saving
          PROVE  \E j \in 0..n : Chunk(img, u, first, r, j, n)
      <3>1. PICK j \in 0..n : Chunk(img, t, first, r, j, n)
        BY <1>1, <1>3, <2>4, <2>6
      <3>2. u.saved = t.saved /\ u.emu.touched = t.emu.touched
            /\ u.sinceCheckpoint = t.sinceCheckpoint
        BY <1>3, <2>3
      <3>3. Chunk(img, u, first, r, j, n)
        BY <3>1, <3>2 DEF Chunk
      <3> QED  BY <3>3
    <2>7. /\ ~u.emu.saving => first = 0 /\ u.sinceCheckpoint = r
          /\ r = 0 => DOMAIN u.emu.touched = {}
      BY <1>2, <1>3, <2>3
    <2>8. TracerAt(img, u, first, r)
      BY <2>4, <2>5, <2>6, <2>7 DEF TracerAt
    <2>9. u.emu.saving = t.emu.saving
      BY <1>3, <2>4
    <2>10. r + 0 = r
      OBVIOUS
    <2> QED  BY <2>2, <2>8, <2>9, <2>10 DEF StepsTo, u
  <1>12. CASE t.current = <<>> /\ ~Halted(After(img)[n])
    <2> DEFINE u == LazyStep(t)
               q == RowsUpTo(img, n + 1)
               h == After(img)[n + 1]
    <2>1. /\ n + 1 \in 1..MaxTicks /\ (n + 1) - 1 = n /\ n + 1 \in 0..MaxTicks
      <3>1. n # MaxTicks
        BY <1>12, AfterTyped
      <3> QED  BY <1>0, <3>1
    <2>2. /\ RowsOfTick(img, n + 1) = Tick(g).rows
          /\ h.emu = Tick(g).emu /\ h.prevPc = g.pc
      <3>1. RowsOfTick(img, n + 1) = Tick(After(img)[n].emu).rows
        BY <1>12, <2>1, RowsTicked
      <3>2. h = Ticked(After(img)[n])
        BY <2>1, AfterTicks
      <3> HIDE DEF h
      <3> QED  BY <1>12, <3>1, <3>2 DEF Ticked, Halted, g
    <2>3. PICK rows \in Seq(TraceRow) : rows = RowsOfTick(img, n + 1) /\ rows # <<>>
      BY <1>12, <2>1, RowsTicked
    <2>4. rows = SubSeq(FullTrace(img), m + 1, q) /\ q \in Nat
          /\ m <= q /\ q <= Len(FullTrace(img))
      <3>1. n + 1 \in n..MaxTicks
        BY <1>0, <2>1
      <3> QED  BY <2>1, <2>3, <3>1, RowsBetween, RowsGrow DEF m
    <2> HIDE DEF q
    <2>5. m + 1 <= q /\ IsPart(Tail(rows), FullTrace(img), m + 1, q)
      <3>1. IsPart(rows, FullTrace(img), m, q)
        BY <2>4 DEF IsPart
      <3> QED  BY <1>6, <2>3, <2>4, <3>1, NextOfPart
    <2>6. Decodable(e) /\ Decodable(g) /\ Plain(e) = g
      <3>1. Decodable(g)
        BY <1>7, <1>12 DEF Machine, g
      <3>2. g = [pc |-> g.pc, x |-> g.x, mem |-> g.mem, saving |-> FALSE,
                 touched |-> <<>>]
        BY <1>7 DEF Emulator
      <3> QED  BY <1>5, <3>1, <3>2 DEF Decodable, Plain
    <2>7. /\ Tick(e).rows = rows
          /\ Tick(e).emu = [pc |-> h.emu.pc, x |-> h.emu.x, mem |-> h.emu.mem,
                            saving |-> e.saving, touched |-> Recorded(e, Touches(e))]
      BY <1>4, <2>2, <2>3, <2>6, TickSaving
    <2>8. Touches(e) = Touches(g) /\ Touches(g) \subseteq Address
      BY <1>5, <1>7, <2>6, TouchesAddresses DEF Touches
    <2>9. StepEmulator(t.emu, t.prevPc) = Tick(e)
      BY <1>3, <1>5, <1>12 DEF StepEmulator, Halted, g
    <2>10. CanStep(t) /\ NextRow(t) = <<Head(rows)>> /\ Len(NextRow(t)) = 1
      BY <1>3, <1>12, <2>3, <2>6, <2>7, <2>9 DEF CanStep, NextRow
    <2>11. u = [emu |-> Tick(e).emu, prevPc |-> e.pc, current |-> Tail(rows),
                sinceCheckpoint |-> t.sinceCheckpoint + 1, finished |-> FALSE,
                saved |-> t.saved]
      <3>1. u = [t EXCEPT !.emu = Tick(e).emu, !.prevPc = e.pc,
                          !.current = Tail(rows), !.sinceCheckpoint = @ + 1]
        BY <1>3, <1>12, <2>3, <2>7, <2>9 DEF LazyStep
      <3>2. t.finished = FALSE
        BY <1>2 DEF TracerRecord
      <3> QED  BY <1>2, <3>1, <3>2
    <2> HIDE DEF u
    <2>12. h.emu \in Emulator
      BY <2>1, AfterTyped DEF Machine
    <2>13. /\ DOMAIN Recorded(e, Touches(e)) \subseteq Address
           /\ e.saving => /\ DOMAIN Recorded(e, Touches(e)) = DOMAIN e.touched \cup Touches(g)
                          /\ \A a \in DOMAIN e.touched \cup Touches(g) :
                                Recorded(e, Touches(e))[a]
                                   = IF a \in DOMAIN e.touched THEN e.touched[a] ELSE g.mem[a]
      BY <1>4, <1>5, <2>8 DEF Recorded
    <2>14. /\ u.emu.pc = h.emu.pc /\ u.emu.x = h.emu.x /\ u.emu.mem = h.emu.mem
           /\ u.emu.saving = e.saving /\ u.emu.touched = Recorded(e, Touches(e))
           /\ EmulatorRecord(u.emu)
      <3>1. u.emu = [pc |-> h.emu.pc, x |-> h.emu.x, mem |-> h.emu.mem,
                     saving |-> e.saving, touched |-> Recorded(e, Touches(e))]
        BY <2>7, <2>11
      <3>2. h.emu.pc \in Address /\ h.emu.x \in Nat /\ h.emu.mem \in [Address -> Nat]
            /\ e.saving \in BOOLEAN
        BY <1>4, <2>12 DEF Emulator, EmulatorRecord
      <3> HIDE DEF h
      <3> QED  BY <3>1, <3>2 DEF EmulatorRecord
    <2>15. TracerRecord(u)
      <3>1. Tail(rows) \in Seq(TraceRow) /\ t.sinceCheckpoint + 1 \in Nat
            /\ e.pc \in Address
        BY <1>2, <1>4, <2>3 DEF EmulatorRecord
      <3>2. /\ u.prevPc = e.pc /\ u.current = Tail(rows)
            /\ u.sinceCheckpoint = t.sinceCheckpoint + 1 /\ u.finished = FALSE
            /\ u.saved = t.saved /\ u.emu = Tick(e).emu
        BY <2>11
      <3>3. u = [emu |-> u.emu, prevPc |-> u.prevPc, current |-> u.current,
                 sinceCheckpoint |-> u.sinceCheckpoint, finished |-> u.finished,
                 saved |-> u.saved]
        BY <2>11, <3>2
      <3> QED  BY <2>13, <2>14, <3>1, <3>2, <3>3 DEF TracerRecord
    <2>16. Traces(img, u, r + 1, n + 1)
      <3>1. Processor(u) = [pc |-> h.emu.pc, x |-> h.emu.x, prevPc |-> e.pc,
                            current |-> Tail(rows)]
        BY <2>11, <2>14 DEF Processor
      <3>2. r = m /\ r + 1 \in 0..q
        BY <1>6, <1>9, <1>12, <2>4, <2>5
      <3>3. Tail(rows) = SubSeq(FullTrace(img), (r + 1) + 1, q)
        BY <2>5, <3>2 DEF IsPart
      <3>4. Stands(img, Processor(u), r + 1, n + 1)
        <4>1. /\ Processor(u).pc = h.emu.pc /\ Processor(u).x = h.emu.x
              /\ Processor(u).prevPc = e.pc /\ Processor(u).current = Tail(rows)
          BY <3>1
        <4> QED  BY <1>5, <2>2, <3>2, <3>3, <4>1 DEF Stands, q
      <3>5. ~u.finished /\ u.emu.mem = h.emu.mem /\ r + 1 # 0
        BY <2>11, <2>14
      <3> QED  BY <3>4, <3>5 DEF Traces
    <2>17. ASSUME u.emu.saving
           PROVE  \E j \in 0..(n + 1) : Chunk(img, u, first, r + 1, j, n + 1)
      <3>1. PICK j \in 0..n : Chunk(img, t, first, r, j, n)
        BY <1>1, <1>3, <2>14, <2>17
      <3> DEFINE D == DOMAIN e.touched
                 E == DOMAIN u.emu.touched
      <3>2. /\ t.saved = <<t.saved[1]>> /\ Stands(img, t.saved[1], first, j)
            /\ \A a \in D : e.touched[a] = After(img)[j].emu.mem[a]
            /\ \A a \in Address \ D : g.mem[a] = After(img)[j].emu.mem[a]
            /\ \A k \in j..(n - 1) : Touches(After(img)[k].emu) \subseteq D
            /\ first <= r /\ t.sinceCheckpoint = r - first
        BY <1>3, <3>1 DEF Chunk, g
      <3>3. /\ E = D \cup Touches(g)
            /\ \A a \in E : u.emu.touched[a] = IF a \in D THEN e.touched[a] ELSE g.mem[a]
        BY <2>13, <2>14, <2>17
      <3>4. u.saved = t.saved /\ u.sinceCheckpoint = t.sinceCheckpoint + 1
        BY <2>11
      <3> HIDE DEF D, E
      <3>5. \A a \in E : u.emu.touched[a] = After(img)[j].emu.mem[a]
        BY <2>8, <3>2, <3>3
      <3>6. \A a \in Address \ E : h.emu.mem[a] = After(img)[j].emu.mem[a]
        <4>1. ASSUME NEW a \in Address \ E
              PROVE  h.emu.mem[a] = g.mem[a]
          BY <1>7, <2>2, <2>6, <3>3, TickWrites
        <4> QED  BY <3>2, <3>3, <4>1
      <3>7. \A k \in j..((n + 1) - 1) : Touches(After(img)[k].emu) \subseteq E
        <4>1. ASSUME NEW k \in j..((n + 1) - 1)
              PROVE  Touches(After(img)[k].emu) \subseteq E
          <5>1. k = n \/ k \in j..(n - 1)
            OBVIOUS
          <5> QED  BY <3>2, <3>3, <5>1 DEF g
        <4> QED  BY <4>1
      <3>8. first <= r + 1 /\ u.sinceCheckpoint = (r + 1) - first
        BY <3>2, <3>4
      <3>9. Chunk(img, u, first, r + 1, j, n + 1)
        BY <3>2, <3>4, <3>5, <3>6, <3>7, <3>8 DEF Chunk, E
      <3> QED  BY <3>9
    <2>18. ~u.emu.saving => first = 0 /\ u.sinceCheckpoint = r + 1
      BY <1>2, <1>3, <2>11, <2>14
    <2>19. TracerAt(img, u, first, r + 1)
      BY <2>1, <2>15, <2>16, <2>17, <2>18 DEF TracerAt
    <2>20. u.emu.saving = t.emu.saving
      BY <1>3, <2>14
    <2> QED  BY <2>10, <2>19, <2>20 DEF StepsTo, u
  <1> QED  BY <1>10, <1>11, <1>12

(* What is saved replays the chunk, and the next chunk begins there.       *)
LEMMA TracerSaves ==
    ASSUME NEW img \in Images, NEW t, NEW first \in Nat, NEW r \in Nat,
           TracerAt(img, t, first, r), t.emu.saving
    PROVE  /\ Replays(img, CheckpointOf(t), first, r)
           /\ CheckpointOf(t).remaining = r - first
           /\ TracerAt(img, SaveCheckpoint(t), r, r)
           /\ SaveCheckpoint(t).emu.saving
           /\ SaveCheckpoint(t).finished = t.finished
  <1>0. MaxTicks \in Nat
    BY MaxTicksAssumption
  <1>1. PICK n \in 0..MaxTicks :
          Traces(img, t, r, n) /\ \E j \in 0..n : Chunk(img, t, first, r, j, n)
    BY DEF TracerAt
  <1>2. PICK j \in 0..n : Chunk(img, t, first, r, j, n)
    BY <1>1
  <1>3. /\ TracerRecord(t) /\ DOMAIN t.emu.touched \subseteq Address
        /\ t = [emu |-> t.emu, prevPc |-> t.prevPc, current |-> t.current,
                sinceCheckpoint |-> t.sinceCheckpoint, finished |-> t.finished,
                saved |-> t.saved]
        /\ t.current \in Seq(TraceRow) /\ t.sinceCheckpoint \in Nat
        /\ t.prevPc \in Address \cup {0} /\ t.finished \in BOOLEAN
    BY DEF TracerAt, TracerRecord
  <1>4. j \in 0..MaxTicks /\ Machine(After(img)[j])
    <2>1. j \in 0..MaxTicks
      BY <1>0
    <2> QED  BY <2>1, AfterTyped
  <1> DEFINE g == After(img)[j].emu
             D == DOMAIN t.emu.touched
             s == t.saved[1]
  <1>5. /\ Stands(img, s, first, j)
        /\ \A a \in D : t.emu.touched[a] = g.mem[a]
        /\ \A k \in j..(n - 1) : Touches(After(img)[k].emu) \subseteq D
        /\ first <= r /\ t.sinceCheckpoint = r - first
    BY <1>2 DEF Chunk
  <1>6. /\ s.pc = g.pc /\ s.x = g.x /\ s.prevPc = After(img)[j].prevPc
        /\ first \in 0..RowsUpTo(img, j)
        /\ s.current = SubSeq(FullTrace(img), first + 1, RowsUpTo(img, j))
    BY <1>5 DEF Stands
  <1>7. /\ g \in Emulator /\ g.pc \in Address /\ g.x \in Nat
        /\ g.mem \in [Address -> Nat] /\ After(img)[j].prevPc \in Address \cup {0}
    BY <1>4 DEF Machine, Emulator
  <1>8. s.current \in Seq(TraceRow)
    <2>1. /\ FullTrace(img) \in Seq(TraceRow) /\ RowsUpTo(img, j) \in Nat
          /\ RowsUpTo(img, j) <= Len(FullTrace(img)) /\ first <= RowsUpTo(img, j)
      <3>1. j \in j..MaxTicks
        BY <1>0
      <3> QED  BY <1>4, <1>6, <3>1, RowsGrow
    <2>2. IsPart(s.current, FullTrace(img), first, RowsUpTo(img, j))
      BY <1>6 DEF IsPart
    <2> HIDE DEF s
    <2> QED  BY <2>1, <2>2, NextOfPart
  <1> DEFINE mem == [a \in Address |-> IF a \in D THEN t.emu.touched[a] ELSE 0]
             c == CheckpointOf(t)
  <1>9. c = [emu |-> [pc |-> s.pc, x |-> s.x, mem |-> mem, saving |-> FALSE,
                      touched |-> <<>>],
             prevPc |-> s.prevPc, current |-> s.current,
             remaining |-> t.sinceCheckpoint]
    BY DEF CheckpointOf
  <1>10. mem \in [Address -> Nat] /\ \A a \in D : mem[a] = g.mem[a]
    BY <1>3, <1>5, <1>7
  <1> HIDE DEF g, D, s, mem, c
  <1>11. c \in Replayer
    <2>1. [pc |-> s.pc, x |-> s.x, mem |-> mem, saving |-> FALSE,
           touched |-> <<>>] \in Emulator
      BY <1>6, <1>7, <1>10 DEF Emulator
    <2> QED  BY <1>3, <1>6, <1>7, <1>8, <1>9, <2>1 DEF Replayer
  <1>12. /\ c.emu.pc = s.pc /\ c.emu.x = s.x /\ c.emu.mem = mem
         /\ c.prevPc = s.prevPc /\ c.current = s.current
         /\ c.remaining = t.sinceCheckpoint
    BY <1>9
  <1>13. ReplaysWith(img, c, first, r, j, n, D)
    <2>1. Stands(img, Processor(c), first, j)
      <3>1. Processor(c) = [pc |-> s.pc, x |-> s.x, prevPc |-> s.prevPc,
                            current |-> s.current]
        BY <1>12 DEF Processor
      <3>2. /\ Processor(c).pc = s.pc /\ Processor(c).x = s.x
            /\ Processor(c).prevPc = s.prevPc /\ Processor(c).current = s.current
        BY <3>1
      <3> QED  BY <1>6, <3>2 DEF Stands, g
    <2>2. Agree(c.emu, After(img)[j].emu, D)
      BY <1>10, <1>12 DEF Agree, g
    <2>3. r <= RowsUpTo(img, n)
      BY <1>1, <1>0, RowsCounted DEF Traces, Stands
    <2> QED  BY <1>5, <1>12, <2>1, <2>2, <2>3 DEF ReplaysWith
  <1>14. Replays(img, c, first, r)
    <2>1. D \in SUBSET Address
      BY <1>3 DEF D
    <2> QED  BY <1>4, <1>11, <1>13, <2>1 DEF Replays
  <1> DEFINE u == SaveCheckpoint(t)
  <1>15. u = [emu |-> [pc |-> t.emu.pc, x |-> t.emu.x, mem |-> t.emu.mem,
                       saving |-> t.emu.saving, touched |-> <<>>],
              prevPc |-> t.prevPc, current |-> t.current,
              sinceCheckpoint |-> 0, finished |-> t.finished,
              saved |-> <<Processor(t)>>]
    <2>1. PICK e : e = t.emu
      OBVIOUS
    <2>2. e = [pc |-> e.pc, x |-> e.x, mem |-> e.mem, saving |-> e.saving,
               touched |-> e.touched]
      BY <1>3, <2>1 DEF TracerRecord, EmulatorRecord
    <2>3. PICK p, x, z, v, d :
             e = [pc |-> p, x |-> x, mem |-> z, saving |-> v, touched |-> d]
      BY <2>2
    <2>4. [e EXCEPT !.touched = <<>>]
             = [pc |-> e.pc, x |-> e.x, mem |-> e.mem, saving |-> e.saving,
                touched |-> <<>>]
      BY <2>3
    <2>5. u = [t EXCEPT !.saved = <<Processor(t)>>, !.emu.touched = <<>>,
                        !.sinceCheckpoint = 0]
      BY DEF SaveCheckpoint
    <2> HIDE DEF u
    <2>6. u = [emu |-> [e EXCEPT !.touched = <<>>],
               prevPc |-> t.prevPc, current |-> t.current,
               sinceCheckpoint |-> 0, finished |-> t.finished,
               saved |-> <<Processor(t)>>]
      BY <1>3, <2>1, <2>5
    <2> QED  BY <2>1, <2>4, <2>6
  <1> HIDE DEF u
  <1>16. /\ EmulatorRecord(t.emu)
         /\ u.emu.pc = t.emu.pc /\ u.emu.x = t.emu.x /\ u.emu.mem = t.emu.mem
         /\ u.emu.saving = t.emu.saving /\ u.emu.touched = <<>>
         /\ u.prevPc = t.prevPc /\ u.current = t.current /\ u.sinceCheckpoint = 0
         /\ u.finished = t.finished /\ u.saved = <<Processor(t)>>
    BY <1>3, <1>15 DEF TracerRecord
  <1>17. TracerRecord(u)
    <2>1. EmulatorRecord(u.emu)
      <3>1. /\ t.emu.pc \in Address /\ t.emu.x \in Nat
            /\ t.emu.mem \in [Address -> Nat] /\ t.emu.saving \in BOOLEAN
        BY <1>16 DEF EmulatorRecord
      <3>2. u.emu = [pc |-> t.emu.pc, x |-> t.emu.x, mem |-> t.emu.mem,
                     saving |-> t.emu.saving, touched |-> <<>>]
        BY <1>15
      <3> QED  BY <1>16, <3>1, <3>2 DEF EmulatorRecord
    <2>2. DOMAIN u.emu.touched = {}
      BY <1>16
    <2> QED  BY <1>3, <1>15, <1>16, <2>1, <2>2 DEF TracerRecord
  <1>18. Processor(u) = Processor(t)
    BY <1>16 DEF Processor
  <1>19. Traces(img, u, r, n)
    BY <1>1, <1>16, <1>18 DEF Traces
  <1>20. Chunk(img, u, r, r, n, n)
    <2>1. u.saved[1] = Processor(t) /\ u.saved = <<u.saved[1]>>
      BY <1>16
    <2>2. Stands(img, u.saved[1], r, n)
      BY <1>1, <2>1 DEF Traces
    <2>3. n..(n - 1) = {} /\ DOMAIN u.emu.touched = {} /\ r - r = 0
      BY <1>16
    <2> QED  BY <1>16, <2>1, <2>2, <2>3 DEF Chunk
  <1>21. TracerAt(img, u, r, r)
    <2>1. n \in 0..n /\ DOMAIN u.emu.touched = {}
      BY <1>0, <1>16
    <2> QED  BY <1>16, <1>17, <1>19, <1>20, <2>1 DEF TracerAt
  <1> QED  BY <1>5, <1>12, <1>14, <1>16, <1>21 DEF c, u

-----------------------------------------------------------------------------
CheckpointRecord == [first : Nat, end : Nat, state : Replayer]
ReplayRecord ==
    [of : Nat, state : Replayer, rows : Seq(TraceRow), status : {"running", "ended"}]

Shaped ==
    /\ image \in Images /\ produced \in Nat /\ chunkStart \in Nat
    /\ loop \in [interval : {0} \cup Intervals, over : BOOLEAN]
    /\ checkpoints \in Seq(CheckpointRecord)
    /\ replay # <<>> => replay \in ReplayRecord

Positioned == TracerAt(image, tracer, chunkStart, produced)

(* Every checkpoint replays the rows it stands for.                        *)
Saved ==
    \A k \in DOMAIN checkpoints :
        Replays(image, checkpoints[k].state, checkpoints[k].first, checkpoints[k].end)

(* A replay has given the first rows of its chunk, and can give the rest.  *)
ReplayedFrom(c) ==
    LET r == c.first + Len(replay.rows)
    IN  /\ Replays(image, replay.state, r, c.end)
        /\ replay.rows = SubSeq(FullTrace(image), c.first + 1, r)
        /\ replay.status = "ended" => r = c.end

Replayed ==
    replay # <<>> =>
        replay.of \in DOMAIN checkpoints /\ ReplayedFrom(checkpoints[replay.of])

(* The chunks of trace_checkpoints, and the chunk it is working on.        *)
Looped ==
    ~FreeCaller =>
        /\ tracer.emu.saving
        /\ \A k \in DOMAIN checkpoints :
              /\ checkpoints[k].first = (k - 1) * loop.interval
              /\ \/ checkpoints[k].end = k * loop.interval
                 \/ loop.over /\ k = Len(checkpoints)
              /\ checkpoints[k].state.remaining
                    = checkpoints[k].end - checkpoints[k].first
        /\ ~loop.over => /\ chunkStart = Len(checkpoints) * loop.interval
                         /\ produced - chunkStart <= loop.interval
        /\ loop.over => checkpoints[Len(checkpoints)].end = Len(FullTrace(image))

CheckpointsInv == Shaped /\ Positioned /\ Saved /\ Replayed /\ Looped

-----------------------------------------------------------------------------
(* What a replay is about lies in the trace.                               *)
LEMMA ReplaysInTrace ==
    ASSUME NEW img \in Images, NEW c, NEW r \in Nat, NEW end \in Nat,
           Replays(img, c, r, end)
    PROVE  /\ c \in Replayer /\ r <= end /\ end <= Len(FullTrace(img))
           /\ c.remaining = end - r
           /\ FullTrace(img) \in Seq(TraceRow)
  <1>0. MaxTicks \in Nat
    BY MaxTicksAssumption
  <1>1. PICK i \in 0..MaxTicks, n \in 0..MaxTicks, D \in SUBSET Address :
            ReplaysWith(img, c, r, end, i, n, D)
    BY DEF Replays
  <1>2. r <= end /\ end <= RowsUpTo(img, n) /\ c.remaining = end - r
    BY <1>1 DEF ReplaysWith
  <1>3. /\ FullTrace(img) \in Seq(TraceRow) /\ RowsUpTo(img, n) \in Nat
        /\ RowsUpTo(img, n) <= Len(FullTrace(img))
    <2>1. n \in n..MaxTicks
      BY <1>0
    <2> QED  BY <2>1, RowsGrow
  <1>4. Len(FullTrace(img)) \in Nat
    BY <1>3
  <1> QED  BY <1>2, <1>3, <1>4 DEF Replays

(* The tracer begins, and is saving when the loop is the caller.           *)
LEMMA InitCheckpoints == Init => CheckpointsInv
  <1> SUFFICES ASSUME Init PROVE CheckpointsInv
    OBVIOUS
  <1>1. /\ image \in Images /\ produced = 0 /\ chunkStart = 0
        /\ checkpoints = <<>> /\ replay = <<>>
        /\ tracer = IF FreeCaller THEN NewTracer(image, Entry)
                    ELSE StartSavingCheckpoints(NewTracer(image, Entry))
    BY DEF Init
  <1>2. PICK n \in {0} \cup Intervals : loop = [interval |-> n, over |-> FALSE]
    BY DEF Init
  <1>3. n \in Nat /\ loop.interval = n /\ loop.over = FALSE
    BY <1>2, IntervalsAssumption
  <1>4. TracerAt(image, NewTracer(image, Entry), 0, 0)
    BY <1>1, TracerStarts
  <1>5. TracerAt(image, StartSavingCheckpoints(NewTracer(image, Entry)), 0, 0)
    BY <1>1, <1>4, TracerStartsSaving
  <1>6. Positioned
    BY <1>1, <1>4, <1>5 DEF Positioned
  <1>7. ~FreeCaller => tracer.emu.saving
    BY <1>1 DEF StartSavingCheckpoints, NewTracer, Booted
  <1>8. Shaped /\ Saved /\ Replayed
    BY <1>1, <1>2 DEF Shaped, Saved, Replayed
  <1>9. Looped
    BY <1>1, <1>3, <1>7 DEF Looped
  <1> QED  BY <1>6, <1>8, <1>9 DEF CheckpointsInv

Based == Shaped /\ Positioned /\ Saved /\ Replayed

(* A row that is pulled keeps the tracer where it says it is.              *)
LEMMA StepKeeps ==
    ASSUME Based, Step
    PROVE  /\ Based' /\ produced' - produced \in {0, 1}
           /\ tracer'.emu.saving = tracer.emu.saving
  <1>1. /\ replay = <<>> /\ ~tracer.finished /\ tracer' = LazyStep(tracer)
        /\ produced' = produced + Len(NextRow(tracer))
        /\ UNCHANGED <<image, chunkStart, checkpoints, replay, loop>>
    BY DEF Step
  <1>2. image \in Images /\ produced \in Nat /\ chunkStart \in Nat
        /\ TracerAt(image, tracer, chunkStart, produced)
    BY DEF Based, Shaped, Positioned
  <1>3. StepsTo(image, tracer, chunkStart, produced)
    BY <1>1, <1>2, TracerSteps
  <1>4. /\ Len(NextRow(tracer)) \in {0, 1}
        /\ TracerAt(image, tracer', chunkStart, produced')
        /\ tracer'.emu.saving = tracer.emu.saving
    BY <1>1, <1>3 DEF StepsTo
  <1>5. produced' \in Nat /\ produced' - produced \in {0, 1}
    BY <1>1, <1>2, <1>4
  <1>6. Shaped' /\ Saved' /\ Replayed'
    BY <1>1, <1>5 DEF Based, Shaped, Saved, Replayed
  <1>7. Positioned'
    BY <1>1, <1>4 DEF Positioned
  <1> QED  BY <1>4, <1>5, <1>6, <1>7 DEF Based

(* A caller that starts saving does so before the first row.               *)
LEMMA StartSavingKeeps ==
    ASSUME StartRows \subseteq {0}, Based, StartSaving
    PROVE  Based'
  <1>1. /\ replay = <<>> /\ produced = 0
        /\ tracer' = StartSavingCheckpoints(tracer) /\ chunkStart' = produced
        /\ UNCHANGED <<image, produced, checkpoints, replay, loop>>
    BY DEF StartSaving
  <1>2. image \in Images /\ chunkStart \in Nat
        /\ TracerAt(image, tracer, chunkStart, 0)
    BY <1>1 DEF Based, Shaped, Positioned
  <1>3. TracerAt(image, tracer', 0, 0)
    BY <1>1, <1>2, TracerStartsSaving
  <1>4. Positioned'
    BY <1>1, <1>3 DEF Positioned
  <1>5. Shaped' /\ Saved' /\ Replayed'
    BY <1>1 DEF Based, Shaped, Saved, Replayed
  <1> QED  BY <1>4, <1>5 DEF Based

NewCheckpoint ==
    [first |-> chunkStart, end |-> produced, state |-> CheckpointOf(tracer)]

(* What is saved is a checkpoint of the rows since the last one.           *)
LEMMA SaveKeeps ==
    ASSUME Based, Save, loop' \in [interval : {0} \cup Intervals, over : BOOLEAN]
    PROVE  /\ Based' /\ checkpoints' = Append(checkpoints, NewCheckpoint)
           /\ NewCheckpoint.state.remaining = NewCheckpoint.end - NewCheckpoint.first
           /\ tracer'.emu.saving /\ chunkStart' = produced
  <1>1. /\ replay = <<>> /\ tracer.emu.saving
        /\ checkpoints' = Append(checkpoints, NewCheckpoint)
        /\ tracer' = SaveCheckpoint(tracer) /\ chunkStart' = produced
        /\ UNCHANGED <<image, produced, replay>>
    BY DEF Save, NewCheckpoint
  <1>2. /\ image \in Images /\ chunkStart \in Nat /\ produced \in Nat
        /\ TracerAt(image, tracer, chunkStart, produced)
        /\ checkpoints \in Seq(CheckpointRecord)
    BY DEF Based, Shaped, Positioned
  <1>3. /\ Replays(image, CheckpointOf(tracer), chunkStart, produced)
        /\ CheckpointOf(tracer).remaining = produced - chunkStart
        /\ TracerAt(image, tracer', produced, produced)
        /\ tracer'.emu.saving
    <2>1. /\ Replays(image, CheckpointOf(tracer), chunkStart, produced)
          /\ CheckpointOf(tracer).remaining = produced - chunkStart
          /\ TracerAt(image, SaveCheckpoint(tracer), produced, produced)
          /\ SaveCheckpoint(tracer).emu.saving
      <3>1. tracer.emu.saving
        BY <1>1
      <3> QED  BY <1>2, <3>1, TracerSaves
    <2> QED  BY <1>1, <2>1
  <1>4. PICK b : b = NewCheckpoint
    OBVIOUS
  <1>5. /\ b \in CheckpointRecord /\ b.first = chunkStart /\ b.end = produced
        /\ b.state = CheckpointOf(tracer)
    BY <1>2, <1>3, <1>4 DEF NewCheckpoint, CheckpointRecord, Replays
  <1>6. PICK N \in Nat : N = Len(checkpoints)
    BY <1>2
  <1>7. /\ checkpoints' \in Seq(CheckpointRecord)
        /\ DOMAIN checkpoints' = 1..(N + 1) /\ DOMAIN checkpoints = 1..N
        /\ checkpoints'[N + 1] = b
        /\ \A k \in 1..N : checkpoints'[k] = checkpoints[k]
    BY <1>1, <1>2, <1>4, <1>5, <1>6
  <1>8. Positioned'
    BY <1>1, <1>3 DEF Positioned
  <1>9. Shaped' /\ Replayed'
    BY <1>1, <1>2, <1>7 DEF Based, Shaped, Replayed
  <1>10. Saved'
    <2>1. ASSUME NEW k \in 1..(N + 1)
          PROVE  Replays(image, checkpoints'[k].state, checkpoints'[k].first,
                         checkpoints'[k].end)
      <3>1. CASE k = N + 1
        BY <1>3, <1>5, <1>7, <3>1
      <3>2. CASE k # N + 1
        <4>1. k \in 1..N /\ checkpoints'[k] = checkpoints[k]
          BY <1>7, <3>2
        <4> QED  BY <1>7, <4>1 DEF Based, Saved
      <3> QED  BY <3>1, <3>2
    <2> QED  BY <1>1, <1>7, <2>1 DEF Saved
  <1> QED  BY <1>1, <1>3, <1>4, <1>5, <1>8, <1>9, <1>10 DEF Based

(* A replay begins with none of the rows of its chunk.                     *)
LEMMA ReplayKeeps ==
    ASSUME Based, NEW k \in DOMAIN checkpoints, Replay(k)
    PROVE  Based'
  <1>1. /\ replay' = [of |-> k, state |-> checkpoints[k].state, rows |-> <<>>,
                      status |-> "running"]
        /\ UNCHANGED <<image, tracer, produced, chunkStart, checkpoints, loop>>
    BY DEF Replay
  <1>2. /\ image \in Images /\ checkpoints \in Seq(CheckpointRecord)
        /\ Replays(image, checkpoints[k].state, checkpoints[k].first, checkpoints[k].end)
    BY DEF Based, Shaped, Saved
  <1>3. PICK c \in CheckpointRecord : c = checkpoints[k]
    BY <1>2
  <1>4. /\ c.first \in Nat /\ c.end \in Nat /\ c.state \in Replayer /\ k \in Nat
        /\ Replays(image, c.state, c.first, c.end)
    BY <1>2, <1>3 DEF CheckpointRecord
  <1>5. FullTrace(image) \in Seq(TraceRow)
    BY <1>2, <1>4, ReplaysInTrace
  <1>6. /\ replay'.of = k /\ replay'.state = c.state /\ replay'.rows = <<>>
        /\ replay'.status = "running" /\ Len(replay'.rows) = 0
    BY <1>1, <1>3
  <1>7. replay' \in ReplayRecord
    <2>1. <<>> \in Seq(TraceRow)
      OBVIOUS
    <2> QED  BY <1>1, <1>3, <1>4, <2>1 DEF ReplayRecord
  <1>8. c.first + 0 = c.first /\ SubSeq(FullTrace(image), c.first + 1, c.first) = <<>>
    BY <1>4, <1>5
  <1>9. ReplayedFrom(c)'
    BY <1>1, <1>4, <1>6, <1>8 DEF ReplayedFrom
  <1>10. Replayed'
    BY <1>1, <1>3, <1>6, <1>9 DEF Replayed
  <1>11. Shaped' /\ Positioned' /\ Saved'
    BY <1>1, <1>7 DEF Based, Shaped, Positioned, Saved
  <1> QED  BY <1>10, <1>11 DEF Based

(* A row that is replayed is the next of the chunk.                        *)
LEMMA ReplayRowKeeps == Based /\ ReplayRow => Based'
  <1> SUFFICES ASSUME Based, ReplayRow PROVE Based'
    OBVIOUS
  <1>1. /\ replay # <<>> /\ replay.status = "running" /\ replay.state.remaining # 0
        /\ UNCHANGED <<image, tracer, produced, chunkStart, checkpoints, loop>>
    BY DEF ReplayRow
  <1>2. /\ image \in Images /\ checkpoints \in Seq(CheckpointRecord)
        /\ replay \in ReplayRecord
        /\ replay.of \in DOMAIN checkpoints /\ ReplayedFrom(checkpoints[replay.of])
    BY <1>1 DEF Based, Shaped, Replayed
  <1>3. PICK c \in CheckpointRecord : c = checkpoints[replay.of]
    BY <1>2
  <1> DEFINE r == c.first + Len(replay.rows)
  <1>4. /\ c.first \in Nat /\ c.end \in Nat /\ replay.rows \in Seq(TraceRow)
        /\ replay.of \in Nat /\ r \in Nat
    <2>1. c.first \in Nat /\ c.end \in Nat /\ replay.rows \in Seq(TraceRow)
          /\ replay.of \in Nat
      BY <1>2, <1>3 DEF CheckpointRecord, ReplayRecord
    <2> QED  BY <2>1
  <1>5. /\ Replays(image, replay.state, r, c.end)
        /\ replay.rows = SubSeq(FullTrace(image), c.first + 1, r)
    BY <1>2, <1>3 DEF ReplayedFrom
  <1>6. Len(replay.rows) \in Nat
    BY <1>4
  <1> HIDE DEF r
  <1>7. ReplaysOn(image, replay.state, r, c.end)
    BY <1>1, <1>2, <1>4, <1>5, ReplayGoesOn
  <1>8. /\ CanStep(replay.state) /\ r + 1 \in 1..Len(FullTrace(image))
        /\ NextRow(replay.state) = <<FullTrace(image)[r + 1]>>
        /\ Replays(image, ReplayStep(replay.state), r + 1, c.end)
    BY <1>7 DEF ReplaysOn
  <1>9. FullTrace(image) \in Seq(TraceRow)
    BY <1>2, <1>4, <1>5, ReplaysInTrace
  <1>10. replay' = [replay EXCEPT !.state = ReplayStep(@),
                                  !.rows = @ \o NextRow(replay.state)]
    BY <1>8 DEF ReplayRow
  <1>11. replay.rows \o <<FullTrace(image)[r + 1]>>
           = SubSeq(FullTrace(image), c.first + 1, r + 1)
    <2>1. c.first <= r /\ r < Len(FullTrace(image))
      BY <1>4, <1>6, <1>8, <1>9 DEF r
    <2>2. c.first \in Nat /\ r \in Nat
      BY <1>4
    <2>3. SubSeq(FullTrace(image), c.first + 1, r) \o <<FullTrace(image)[r + 1]>>
             = SubSeq(FullTrace(image), c.first + 1, r + 1)
      BY <1>9, <2>1, <2>2, PartGoesOn
    <2> QED  BY <1>5, <2>3
  <1>12. PICK s \in Seq(TraceRow) : /\ s = replay.rows \o <<FullTrace(image)[r + 1]>>
                                    /\ Len(s) = Len(replay.rows) + 1
    <2>1. FullTrace(image)[r + 1] \in TraceRow
      BY <1>8, <1>9
    <2>2. /\ replay.rows \o <<FullTrace(image)[r + 1]>> \in Seq(TraceRow)
          /\ Len(replay.rows \o <<FullTrace(image)[r + 1]>>) = Len(replay.rows) + 1
      BY <1>4, <2>1
    <2> QED  BY <2>2
  <1>13. /\ replay'.of = replay.of /\ replay'.state = ReplayStep(replay.state)
         /\ replay'.rows = s /\ replay'.status = "running"
         /\ replay' = [of |-> replay.of, state |-> ReplayStep(replay.state),
                       rows |-> s, status |-> "running"]
    BY <1>1, <1>2, <1>8, <1>10, <1>12 DEF ReplayRecord
  <1>14. replay' \in ReplayRecord
    BY <1>4, <1>8, <1>12, <1>13 DEF ReplayRecord, Replays
  <1>15. ReplayedFrom(c)'
    <2>1. c.first + Len(replay'.rows) = r + 1
      <3>1. Len(replay'.rows) = Len(replay.rows) + 1
        BY <1>12, <1>13
      <3>2. PICK n \in Nat : n = Len(replay.rows)
        BY <1>6
      <3>3. Len(replay'.rows) = n + 1 /\ r = c.first + n
        BY <3>1, <3>2 DEF r
      <3> QED  BY <1>4, <3>3
    <2>2. replay'.status # "ended"
      BY <1>13
    <2> QED  BY <1>1, <1>8, <1>11, <1>12, <1>13, <2>1, <2>2 DEF ReplayedFrom
  <1>16. Replayed'
    BY <1>1, <1>2, <1>3, <1>13, <1>15 DEF Replayed
  <1>17. Shaped' /\ Positioned' /\ Saved'
    BY <1>1, <1>14 DEF Based, Shaped, Positioned, Saved
  <1> QED  BY <1>16, <1>17 DEF Based

(* A replay ends when it has given every row of its chunk.                 *)
LEMMA ReplayEndKeeps == Based /\ (ReplayEnd \/ ReplayDropped) => Based'
  <1> SUFFICES ASSUME Based, ReplayEnd \/ ReplayDropped PROVE Based'
    OBVIOUS
  <1>1. CASE ReplayDropped
    BY <1>1 DEF ReplayDropped, Based, Shaped, Positioned, Saved, Replayed
  <1>2. CASE ReplayEnd
    <2>1. /\ replay # <<>> /\ replay.state.remaining = 0
          /\ replay' = [replay EXCEPT !.status = "ended"]
          /\ UNCHANGED <<image, tracer, produced, chunkStart, checkpoints, loop>>
      BY <1>2 DEF ReplayEnd
    <2>2. /\ image \in Images /\ checkpoints \in Seq(CheckpointRecord)
          /\ replay \in ReplayRecord
          /\ replay.of \in DOMAIN checkpoints /\ ReplayedFrom(checkpoints[replay.of])
      BY <2>1 DEF Based, Shaped, Replayed
    <2>3. PICK c \in CheckpointRecord : c = checkpoints[replay.of]
      BY <2>2
    <2> DEFINE r == c.first + Len(replay.rows)
    <2>4. c.end \in Nat /\ r \in Nat
      <3>1. c.first \in Nat /\ c.end \in Nat /\ replay.rows \in Seq(TraceRow)
        BY <2>2, <2>3 DEF CheckpointRecord, ReplayRecord
      <3> QED  BY <3>1
    <2>5. /\ Replays(image, replay.state, r, c.end)
          /\ replay.rows = SubSeq(FullTrace(image), c.first + 1, r)
      BY <2>2, <2>3 DEF ReplayedFrom
    <2> HIDE DEF r
    <2>6. r = c.end
      <3>1. replay.state.remaining = c.end - r
        BY <2>2, <2>4, <2>5, ReplaysInTrace
      <3> QED  BY <2>1, <2>4, <3>1
    <2>7. /\ replay' \in ReplayRecord /\ replay'.of = replay.of
          /\ replay'.state = replay.state /\ replay'.rows = replay.rows
      BY <2>1, <2>2 DEF ReplayRecord
    <2>8. ReplayedFrom(c)'
      BY <2>1, <2>5, <2>6, <2>7 DEF ReplayedFrom, r
    <2>9. Replayed'
      BY <2>1, <2>2, <2>3, <2>7, <2>8 DEF Replayed
    <2>10. Shaped' /\ Positioned' /\ Saved'
      BY <2>1, <2>7 DEF Based, Shaped, Positioned, Saved
    <2> QED  BY <2>9, <2>10 DEF Based
  <1> QED  BY <1>1, <1>2

-----------------------------------------------------------------------------
(* The loop drops a row only while its chunk is not full.                  *)
LEMMA DropLoops ==
    ASSUME Based, Looped, ~FreeCaller, Drop
    PROVE  Looped'
  <1>1. /\ ~loop.over /\ produced - chunkStart < loop.interval /\ Step
        /\ UNCHANGED <<image, chunkStart, checkpoints, replay, loop>>
    BY DEF Drop, Step
  <1>2. /\ produced' - produced \in {0, 1} /\ produced' \in Nat
        /\ tracer'.emu.saving = tracer.emu.saving
    BY <1>1, StepKeeps DEF Based, Shaped
  <1>3. PICK i \in Nat : i = loop.interval
    BY IntervalsAssumption DEF Based, Shaped
  <1>4. PICK p \in Nat, m \in Nat, q \in Nat :
           p = produced /\ m = chunkStart /\ q = produced'
    BY <1>2 DEF Based, Shaped
  <1>5. produced' - chunkStart <= loop.interval
    <2>1. p - m < i /\ q - p \in {0, 1}
      BY <1>1, <1>2, <1>3, <1>4
    <2>2. q - m <= i
      <3>1. CASE q = p
        BY <2>1, <3>1
      <3>2. CASE q = p + 1
        BY <2>1, <3>2
      <3>3. q = p \/ q = p + 1
        BY <2>1
      <3> QED  BY <3>1, <3>2, <3>3
    <2> QED  BY <1>3, <1>4, <2>2
  <1> QED  BY <1>1, <1>2, <1>5 DEF Looped, FreeCaller

(* The loop saves a full chunk, or the rest once the guest has terminated. *)
LEMMA SaveLoops ==
    ASSUME Based, Looped, ~FreeCaller, SaveChunk
    PROVE  Based' /\ Looped'
  <1>1. /\ ~loop.over /\ Save /\ loop' = [loop EXCEPT !.over = tracer.finished]
        /\ produced - chunkStart = loop.interval \/ tracer.finished
        /\ UNCHANGED <<image, produced, replay>>
    BY DEF SaveChunk, Save
  <1>2. /\ image \in Images /\ produced \in Nat /\ chunkStart \in Nat
        /\ checkpoints \in Seq(CheckpointRecord)
        /\ TracerAt(image, tracer, chunkStart, produced)
        /\ loop \in [interval : {0} \cup Intervals, over : BOOLEAN]
    BY DEF Based, Shaped, Positioned
  <1>3. /\ tracer.finished \in BOOLEAN
        /\ tracer.finished => produced = Len(FullTrace(image))
    BY <1>2, TracerCount DEF TracerAt, TracerRecord
  <1>4. /\ loop' \in [interval : {0} \cup Intervals, over : BOOLEAN]
        /\ loop'.interval = loop.interval /\ loop'.over = tracer.finished
    BY <1>1, <1>2, <1>3
  <1>5. /\ Based' /\ checkpoints' = Append(checkpoints, NewCheckpoint)
        /\ NewCheckpoint.state.remaining = NewCheckpoint.end - NewCheckpoint.first
        /\ tracer'.emu.saving /\ chunkStart' = produced
    BY <1>1, <1>4, SaveKeeps
  <1>6. PICK b : b = NewCheckpoint
    OBVIOUS
  <1>7. /\ b.first = chunkStart /\ b.end = produced
        /\ b.state.remaining = b.end - b.first
    BY <1>5, <1>6 DEF NewCheckpoint
  <1>8. PICK N \in Nat : N = Len(checkpoints)
    BY <1>2
  <1>9. checkpoints' \in Seq(CheckpointRecord)
    BY <1>5 DEF Based, Shaped
  <1>10. /\ DOMAIN checkpoints' = 1..(N + 1) /\ DOMAIN checkpoints = 1..N
         /\ Len(checkpoints') = N + 1 /\ checkpoints'[N + 1] = b
         /\ \A k \in 1..N : checkpoints'[k] = checkpoints[k]
    BY <1>2, <1>5, <1>6, <1>8
  <1>11. PICK i \in Nat : i = loop.interval
    BY <1>2, IntervalsAssumption
  <1>12. chunkStart = N * i
    BY <1>1, <1>8, <1>11 DEF Looped
  <1>13. N * i \in Nat /\ (N + 1) * i = N * i + i /\ ((N + 1) - 1) * i = N * i
    BY <1>8, <1>11
  <1>14. ASSUME ~tracer.finished PROVE produced = (N + 1) * i
    <2>1. produced - chunkStart = i
      BY <1>1, <1>11, <1>14
    <2>2. PICK p \in Nat, m \in Nat : p = produced /\ m = chunkStart
      BY <1>2
    <2>3. p = m + i
      BY <1>11, <2>1, <2>2
    <2> QED  BY <1>12, <1>13, <2>2, <2>3
  <1>15. ASSUME NEW k \in 1..(N + 1)
         PROVE  /\ checkpoints'[k].first = (k - 1) * i
                /\ \/ checkpoints'[k].end = k * i
                   \/ tracer.finished /\ k = N + 1
                /\ checkpoints'[k].state.remaining
                      = checkpoints'[k].end - checkpoints'[k].first
    <2>1. CASE k = N + 1
      BY <1>7, <1>10, <1>12, <1>13, <1>14, <2>1
    <2>2. CASE k # N + 1
      <3>1. k \in 1..N /\ checkpoints'[k] = checkpoints[k]
        BY <1>8, <1>10, <2>2
      <3> QED  BY <1>1, <1>10, <1>11, <3>1 DEF Looped
    <2> QED  BY <2>1, <2>2
  <1>16. ~loop'.over => /\ chunkStart' = (N + 1) * i
                        /\ produced' - chunkStart' <= i
    BY <1>1, <1>2, <1>4, <1>5, <1>11, <1>14
  <1>17. loop'.over => checkpoints'[N + 1].end = Len(FullTrace(image))
    BY <1>3, <1>4, <1>7, <1>10
  <1>18. Looped'
    <2>1. \A k \in DOMAIN checkpoints' :
             /\ checkpoints'[k].first = (k - 1) * loop'.interval
             /\ \/ checkpoints'[k].end = k * loop'.interval
                \/ loop'.over /\ k = Len(checkpoints')
             /\ checkpoints'[k].state.remaining
                   = checkpoints'[k].end - checkpoints'[k].first
      BY <1>4, <1>10, <1>11, <1>15
    <2>2. ~loop'.over => /\ chunkStart' = Len(checkpoints') * loop'.interval
                         /\ produced' - chunkStart' <= loop'.interval
      BY <1>4, <1>10, <1>11, <1>16
    <2>3. loop'.over => checkpoints'[Len(checkpoints')].end = Len(FullTrace(image'))
      BY <1>1, <1>10, <1>17
    <2>4. FullTrace(image)' = FullTrace(image')
      OBVIOUS
    <2> QED  BY <1>5, <2>1, <2>2, <2>3, <2>4 DEF Looped
  <1> QED  BY <1>5, <1>18

(* A replay leaves the loop as it is.                                      *)
LEMMA ReplayingKeeps == CheckpointsInv /\ Replaying => CheckpointsInv'
  <1> SUFFICES ASSUME CheckpointsInv, Replaying PROVE CheckpointsInv'
    OBVIOUS
  <1>1. Based /\ Looped
    BY DEF CheckpointsInv, Based
  <1>2. UNCHANGED <<image, tracer, produced, chunkStart, checkpoints, loop>>
    BY DEF Replaying, Replay, ReplayRow, ReplayEnd, ReplayDropped
  <1>3. Based'
    <2>1. CASE \E k \in DOMAIN checkpoints : Replay(k)
      BY <1>1, <2>1, ReplayKeeps
    <2>2. CASE ReplayRow
      BY <1>1, <2>2, ReplayRowKeeps
    <2>3. CASE ReplayEnd \/ ReplayDropped
      BY <1>1, <2>3, ReplayEndKeeps
    <2> QED  BY <2>1, <2>2, <2>3 DEF Replaying
  <1>4. Looped'
    BY <1>1, <1>2 DEF Looped, FreeCaller
  <1> QED  BY <1>3, <1>4 DEF CheckpointsInv, Based

(* Every step of either caller keeps the invariant.                        *)
LEMMA NextCheckpoints ==
    ASSUME StartRows \subseteq {0}
    PROVE  CheckpointsInv /\ [Next]_vars => CheckpointsInv'
  <1> SUFFICES ASSUME CheckpointsInv, [Next]_vars PROVE CheckpointsInv'
    OBVIOUS
  <1>1. Based /\ Looped
    BY DEF CheckpointsInv, Based
  <1>2. ASSUME Based', Looped' PROVE CheckpointsInv'
    BY <1>2 DEF CheckpointsInv, Based
  <1>3. CASE Replaying
    BY <1>3, ReplayingKeeps
  <1>4. CASE FreeCaller /\ (Step \/ StartSaving \/ SaveAtWill)
    <2>1. loop' = loop /\ FreeCaller
      BY <1>4 DEF Step, StartSaving, SaveAtWill
    <2>2. Looped'
      BY <2>1 DEF Looped, FreeCaller
    <2>3. Based'
      <3>1. CASE Step
        BY <1>1, <3>1, StepKeeps
      <3>2. CASE StartSaving
        BY <1>1, <3>2, StartSavingKeeps
      <3>3. CASE SaveAtWill
        <4>1. loop' \in [interval : {0} \cup Intervals, over : BOOLEAN]
          BY <1>1, <2>1 DEF Based, Shaped
        <4> QED  BY <1>1, <3>3, <4>1, SaveKeeps DEF SaveAtWill
      <3> QED  BY <1>4, <3>1, <3>2, <3>3
    <2> QED  BY <1>2, <2>2, <2>3
  <1>5. CASE ~FreeCaller /\ Drop
    <2>1. Based'
      BY <1>1, <1>5, StepKeeps DEF Drop
    <2>2. Looped'
      BY <1>1, <1>5, DropLoops
    <2> QED  BY <1>2, <2>1, <2>2
  <1>6. CASE ~FreeCaller /\ SaveChunk
    BY <1>1, <1>2, <1>6, SaveLoops
  <1>7. CASE UNCHANGED vars
    BY <1>7 DEF vars, CheckpointsInv, Shaped, Positioned, Saved, Replayed,
       ReplayedFrom, Looped, FreeCaller
  <1> QED  BY <1>3, <1>4, <1>5, <1>6, <1>7 DEF Next, CallAtWill, TraceCheckpoints

(* The invariant says that what is replayed is the chunk.                  *)
LEMMA InvReplaysFaithfully == CheckpointsInv => ReplayFaithful
  <1> SUFFICES ASSUME CheckpointsInv PROVE ReplayFaithful
    OBVIOUS
  <1>1. /\ image \in Images /\ chunkStart \in Nat /\ produced \in Nat
        /\ TracerAt(image, tracer, chunkStart, produced)
        /\ checkpoints \in Seq(CheckpointRecord)
    BY DEF CheckpointsInv, Shaped, Positioned
  <1>2. FullTrace(image) \in Seq(TraceRow)
    <2>1. MaxTicks \in 0..MaxTicks
      BY MaxTicksAssumption
    <2> QED  BY <1>1, <2>1, RowsGrow, MaxTicksAssumption
  <1>3. TypeOK
    <2>1. /\ tracer.emu.mem \in [Address -> Nat] /\ tracer.emu.pc \in Address
          /\ DOMAIN tracer.emu.touched \subseteq Address
      BY <1>1 DEF TracerAt, TracerRecord, EmulatorRecord
    <2>2. /\ chunkStart <= produced /\ tracer.sinceCheckpoint = produced - chunkStart
          /\ produced <= Len(FullTrace(image))
          /\ tracer.finished => produced = Len(FullTrace(image))
      BY <1>1, TracerCount
    <2>3. Len(FullTrace(image)) \in Nat
      BY <1>2
    <2>4. ASSUME NEW k \in DOMAIN checkpoints
          PROVE  checkpoints[k].state.remaining \in Nat
      <3>1. checkpoints[k] \in CheckpointRecord
        BY <1>1
      <3>2. checkpoints[k].state \in Replayer
        BY <3>1 DEF CheckpointRecord
      <3> QED  BY <3>2 DEF Replayer
    <2>5. /\ tracer.sinceCheckpoint \in 0..produced /\ chunkStart \in 0..produced
          /\ produced \in 0..Len(FullTrace(image))
      BY <1>1, <2>2, <2>3
    <2> QED  BY <2>1, <2>2, <2>4, <2>5 DEF TypeOK
  <1>4. ASSUME replay # <<>>
        PROVE  LET chunk == SubSeq(FullTrace(image),
                                   checkpoints[replay.of].first + 1,
                                   checkpoints[replay.of].end)
               IN  /\ replay.status # "panicked"
                   /\ IsPrefix(replay.rows, chunk)
                   /\ replay.status = "ended" => replay.rows = chunk
    <2>1. /\ replay \in ReplayRecord /\ replay.of \in DOMAIN checkpoints
          /\ ReplayedFrom(checkpoints[replay.of])
      BY <1>4 DEF CheckpointsInv, Shaped, Replayed
    <2>2. PICK c \in CheckpointRecord : c = checkpoints[replay.of]
      BY <1>1, <2>1
    <2>3. PICK a \in Nat, e \in Nat, s \in Seq(TraceRow) :
             a = c.first /\ e = c.end /\ s = replay.rows
      BY <2>1, <2>2 DEF CheckpointRecord, ReplayRecord
    <2>4. PICK n \in Nat : n = Len(s)
      BY <2>3
    <2>5. /\ Replays(image, replay.state, a + n, e)
          /\ s = SubSeq(FullTrace(image), a + 1, a + n)
          /\ replay.status = "ended" => a + n = e
      BY <2>1, <2>2, <2>3, <2>4 DEF ReplayedFrom
    <2>6. a + n <= e /\ e <= Len(FullTrace(image))
      <3>1. a + n \in Nat
        BY <2>3, <2>4
      <3> QED  BY <1>1, <2>3, <2>5, <3>1, ReplaysInTrace
    <2> DEFINE chunk == SubSeq(FullTrace(image), a + 1, e)
    <2>7. PICK r \in Nat : r = a + n
      BY <2>3, <2>4
    <2>8. IsPart(s, FullTrace(image), a, r) /\ IsPart(chunk, FullTrace(image), a, e)
      BY <2>5, <2>7 DEF IsPart
    <2>9. IsPrefix(s, chunk)
      <3>1. a <= r /\ r <= e
        BY <2>3, <2>4, <2>6, <2>7
      <3> HIDE DEF chunk
      <3>2. Len(s) <= Len(chunk) /\ SubSeq(s, 1, Len(s)) = SubSeq(chunk, 1, Len(s))
        BY SMTT(30), <1>2, <2>3, <2>6, <2>8, <3>1, PartStarts
      <3> QED  BY <3>2 DEF IsPrefix
    <2>10. replay.status = "ended" => s = chunk
      BY <2>5
    <2>11. replay.status # "panicked"
      BY <2>1 DEF ReplayRecord
    <2> QED  BY <2>2, <2>3, <2>9, <2>10, <2>11
  <1> QED  BY <1>3, <1>4 DEF ReplayFaithful

(* A replay gives the rows of its chunk, no more, no fewer, unchanged,     *)
(* and does not stop early, for every guest, checkpoint interval and       *)
(* caller that starts saving before the first row.  (A caller that starts  *)
(* later gets a first checkpoint whose count includes the earlier rows:    *)
(* start_saving_checkpoints does not reset it.)                            *)
THEOREM ReplayAlwaysFaithful ==
    ASSUME StartRows \subseteq {0}
    PROVE  Spec => []ReplayFaithful
  <1>1. Init => CheckpointsInv
    BY InitCheckpoints
  <1>2. CheckpointsInv /\ [Next]_vars => CheckpointsInv'
    BY NextCheckpoints
  <1>3. CheckpointsInv => ReplayFaithful
    BY InvReplaysFaithfully
  <1> QED  BY <1>1, <1>2, <1>3, PTL DEF Spec

(* The chunks of trace_checkpoints follow each other, all but the last     *)
(* hold interval rows, and when it is over they hold the whole trace.      *)
THEOREM ChunksAlwaysCover ==
    ASSUME StartRows \subseteq {0}
    PROVE  Spec => []ChunksCoverTrace
  <1>1. Init => CheckpointsInv
    BY InitCheckpoints
  <1>2. CheckpointsInv /\ [Next]_vars => CheckpointsInv'
    BY NextCheckpoints
  <1>3. CheckpointsInv => ChunksCoverTrace
    <2> SUFFICES ASSUME CheckpointsInv, ~FreeCaller PROVE ChunksCoverTrace
      BY DEF ChunksCoverTrace
    <2>1. Looped
      BY DEF CheckpointsInv
    <2>2. PICK N \in Nat : N = Len(checkpoints) /\ DOMAIN checkpoints = 1..N
      BY DEF CheckpointsInv, Shaped
    <2> QED  BY <2>1, <2>2 DEF Looped, ChunksCoverTrace
  <1> QED  BY <1>1, <1>2, <1>3, PTL DEF Spec
-----------------------------------------------------------------------------
(* The advice tape.  A clone of the processor is to the tape what a        *)
(* checkpoint is to memory: it must read again what the original read.     *)

(* One sequence flattens to itself.                                        *)
LEMMA FlattenOne ==
    ASSUME NEW S, NEW s \in Seq(S)
    PROVE  FlattenSeq(<<s>>) = s
  <1>1. <<>> \in Seq(Seq(S)) /\ Append(<<>>, s) = <<s>> /\ <<>> \o s = s
    OBVIOUS
  <1> QED  BY <1>1, FlattenAppend, FlattenNothing

(* From the k-th sequence on.                                              *)
LEMMA FlattenFrom ==
    ASSUME NEW S, NEW ss \in Seq(Seq(S)), NEW k \in 1 .. Len(ss)
    PROVE  FlattenSeq(SubSeq(ss, k, Len(ss))) = ss[k] \o FlattenSeq(SubSeq(ss, k + 1, Len(ss)))
  <1> DEFINE rest == SubSeq(ss, k + 1, Len(ss))
  <1>1. ss[k] \in Seq(S) /\ <<ss[k]>> \in Seq(Seq(S)) /\ rest \in Seq(Seq(S))
    OBVIOUS
  <1>2. SubSeq(ss, k, Len(ss)) = <<ss[k]>> \o rest
    <2>1. /\ SubSeq(ss, k, Len(ss)) \in Seq(Seq(S))
          /\ Len(SubSeq(ss, k, Len(ss))) = Len(<<ss[k]>>) + Len(rest)
          /\ \A i \in 1 .. Len(<<ss[k]>>) : SubSeq(ss, k, Len(ss))[i] = <<ss[k]>>[i]
          /\ \A i \in 1 .. Len(rest) : SubSeq(ss, k, Len(ss))[Len(<<ss[k]>>) + i] = rest[i]
      OBVIOUS
    <2> HIDE DEF rest
    <2> QED  BY <1>1, <2>1, ConcatIs
  <1> HIDE DEF rest
  <1>3. FlattenSeq(<<ss[k]>> \o rest) = FlattenSeq(<<ss[k]>>) \o FlattenSeq(rest)
    BY <1>1, FlattenConcat
  <1> QED  BY <1>1, <1>2, <1>3, FlattenOne DEF rest

(* The elements of a part of a sequence.                                   *)
LEMMA PartIs ==
    ASSUME NEW S, NEW t \in Seq(S), NEW n \in Nat, NEW m \in Nat, n <= m, m <= Len(t)
    PROVE  /\ SubSeq(t, n + 1, m) \in Seq(S) /\ Len(SubSeq(t, n + 1, m)) = m - n
           /\ \A i \in 1 .. m - n : SubSeq(t, n + 1, m)[i] = t[n + i]
  <1>1. SubSeq(t, n + 1, m) = [i \in 1 .. m - n |-> t[n + i]]
    OBVIOUS
  <1>2. \A i \in 1 .. m - n : t[n + i] \in S
    OBVIOUS
  <1> QED  BY <1>1, <1>2

(* The same of the w elements after the n-th.                              *)
LEMMA PartAfter ==
    ASSUME NEW S, NEW t \in Seq(S), NEW n \in Nat, NEW w \in Nat, n + w <= Len(t)
    PROVE  /\ SubSeq(t, n + 1, n + w) \in Seq(S) /\ Len(SubSeq(t, n + 1, n + w)) = w
           /\ \A i \in 1 .. w : SubSeq(t, n + 1, n + w)[i] = t[n + i]
  <1>1. PICK m \in Nat : m = n + w
    OBVIOUS
  <1>2. n <= m /\ m <= Len(t) /\ m - n = w
    BY <1>1
  <1>3. /\ SubSeq(t, n + 1, m) \in Seq(S) /\ Len(SubSeq(t, n + 1, m)) = m - n
        /\ \A i \in 1 .. m - n : SubSeq(t, n + 1, m)[i] = t[n + i]
    BY <1>2, PartIs
  <1> QED  BY <1>1, <1>2, <1>3

(* The next w elements of two sequences are the same, one by one.          *)
AgreeAfter(S, t, a, n, g, w) ==
    /\ t \in Seq(S) /\ a \in Seq(S) /\ n \in Nat /\ g \in Nat /\ w \in Nat
    /\ n + w <= Len(t) /\ g + w <= Len(a)
    /\ \A i \in 1 .. w : t[n + i] = a[g + i]

SameAfter(t, a, n, g, w) == SubSeq(t, n + 1, n + w) = SubSeq(a, g + 1, g + w)

(* They are then the same sequence.                                        *)
LEMMA AgreeingSame ==
    ASSUME NEW S, NEW t, NEW a, NEW n, NEW g, NEW w, AgreeAfter(S, t, a, n, g, w)
    PROVE  SameAfter(t, a, n, g, w)
  <1> DEFINE x == SubSeq(t, n + 1, n + w)
             y == SubSeq(a, g + 1, g + w)
  <1>0. /\ t \in Seq(S) /\ a \in Seq(S) /\ n \in Nat /\ g \in Nat /\ w \in Nat
        /\ n + w <= Len(t) /\ g + w <= Len(a)
    BY DEF AgreeAfter
  <1>1. x \in Seq(S) /\ Len(x) = w /\ \A i \in 1 .. w : x[i] = t[n + i]
    BY <1>0, PartAfter
  <1>2. y \in Seq(S) /\ Len(y) = w /\ \A i \in 1 .. w : y[i] = a[g + i]
    BY <1>0, PartAfter
  <1> HIDE DEF x, y
  <1>3. \A i \in 1 .. w : x[i] = y[i]
    BY <1>1, <1>2 DEF AgreeAfter
  <1>4. x = y
    BY <1>1, <1>2, <1>3
  <1> QED  BY <1>4 DEF x, y, SameAfter

(* What a concatenation is made of.                                        *)
LEMMA ConcatOf ==
    ASSUME NEW S, NEW a \in Seq(S), NEW b \in Seq(S)
    PROVE  /\ a \o b \in Seq(S) /\ Len(a \o b) = Len(a) + Len(b)
           /\ \A i \in 1 .. Len(a) : (a \o b)[i] = a[i]
           /\ \A i \in 1 .. Len(b) : (a \o b)[Len(a) + i] = b[i]
  OBVIOUS

(* Concatenation is associative.                                           *)
LEMMA ConcatGroups ==
    ASSUME NEW S, NEW a \in Seq(S), NEW b \in Seq(S), NEW c \in Seq(S)
    PROVE  (a \o b) \o c = a \o (b \o c)
  <1> DEFINE l == (a \o b) \o c
             r == a \o (b \o c)
  <1>1. /\ l \in Seq(S) /\ r \in Seq(S) /\ Len(l) = Len(a) + Len(b) + Len(c) /\ Len(r) = Len(l)
    OBVIOUS
  <1>2. ASSUME NEW i \in 1 .. Len(l) PROVE l[i] = r[i]
    OBVIOUS
  <1> HIDE DEF l, r
  <1>3. l = r
    BY <1>1, <1>2
  <1> QED  BY <1>3 DEF l, r

(* The part of a sequence up to its end.                                   *)
Beyond(t, n) == SubSeq(t, n + 1, Len(t))
GoesOnWith(t, n, a, g, b) == n <= Len(t) /\ g <= Len(a) /\ Beyond(t, n) = Beyond(a, g) \o b

(* w elements are taken of what t has after n, when that begins with what  *)
(* a has after g.                                                          *)
LEMMA TakenFrom ==
    ASSUME NEW S, NEW t \in Seq(S), NEW a \in Seq(S), NEW b \in Seq(S),
           NEW n \in Nat, NEW g \in Nat, GoesOnWith(t, n, a, g, b),
           NEW w \in 0 .. Len(a) - g
    PROVE  /\ n + w <= Len(t)
           /\ SubSeq(t, n + 1, n + w) = SubSeq(a, g + 1, g + w)
           /\ GoesOnWith(t, n + w, a, g + w, b)
  <1> DEFINE at == Beyond(t, n)
             aa == Beyond(a, g)
             M == Len(t)
             L == Len(a)
  <1>0. M \in Nat /\ L \in Nat /\ Len(b) \in Nat /\ n <= M /\ g <= L /\ w \in Nat /\ g + w <= L
    BY DEF GoesOnWith
  <1>1. at \in Seq(S) /\ Len(at) = M - n /\ \A i \in 1 .. M - n : at[i] = t[n + i]
    BY <1>0, PartIs DEF Beyond
  <1>2. g <= L /\ aa \in Seq(S) /\ Len(aa) = L - g /\ \A i \in 1 .. L - g : aa[i] = a[g + i]
    BY <1>0, PartIs DEF Beyond
  <1>3. at = aa \o b
    BY DEF GoesOnWith
  <1> HIDE DEF at, aa
  <1>4. /\ Len(at) = Len(aa) + Len(b)
        /\ \A i \in 1 .. Len(aa) : at[i] = aa[i]
        /\ \A i \in 1 .. Len(b) : at[Len(aa) + i] = b[i]
    <2>1. /\ Len(aa \o b) = Len(aa) + Len(b)
          /\ \A i \in 1 .. Len(aa) : (aa \o b)[i] = aa[i]
          /\ \A i \in 1 .. Len(b) : (aa \o b)[Len(aa) + i] = b[i]
      <3>1. aa \in Seq(S)
        BY <1>2
      <3> QED  BY <3>1, ConcatOf
    <2> QED  BY <1>3, <2>1
  <1>10. M = Len(t) /\ L = Len(a)
    OBVIOUS
  <1> HIDE DEF M, L
  <1>5. M = n + (L - g) + Len(b) /\ n + w <= M
    <2>1. M - n = (L - g) + Len(b) /\ g + w <= L
      BY <1>0, <1>1, <1>2, <1>4
    <2>2. \A m, l, k \in Nat : m - n = (l - g) + k /\ g + w <= l =>
             m = n + (l - g) + k /\ n + w <= m
      OBVIOUS
    <2> QED  BY <1>0, <2>1, <2>2
  <1>6. \A i \in 1 .. L - g : t[n + i] = a[g + i]
    <2> SUFFICES ASSUME NEW i \in 1 .. L - g PROVE t[n + i] = a[g + i]
      OBVIOUS
    <2>1. i \in 1 .. M - n
      BY <1>0, <1>2, <1>5
    <2> QED  BY <1>1, <1>2, <1>4, <2>1
  <1>7. \A i \in 1 .. Len(b) : t[n + ((L - g) + i)] = b[i]
    <2> SUFFICES ASSUME NEW i \in 1 .. Len(b) PROVE t[n + ((L - g) + i)] = b[i]
      OBVIOUS
    <2>1. (L - g) + i \in 1 .. M - n
      BY <1>0, <1>2, <1>5
    <2> QED  BY <1>1, <1>2, <1>4, <2>1
  <1>8. SubSeq(t, n + 1, n + w) = SubSeq(a, g + 1, g + w)
    <2>1. n + w <= Len(t) /\ g + w <= Len(a) /\ w \in Nat
      BY <1>0, <1>5, <1>10
    <2>2. 1 .. w \subseteq 1 .. L - g
      BY <1>0, <1>2
    <2>3. \A i \in 1 .. w : t[n + i] = a[g + i]
      BY <1>6, <2>2
    <2>4. AgreeAfter(S, t, a, n, g, w)
      BY <2>1, <2>3 DEF AgreeAfter
    <2>5. SameAfter(t, a, n, g, w)
      BY <2>4, AgreeingSame
    <2> QED  BY <2>5 DEF SameAfter
  <1>9. Beyond(t, n + w) = Beyond(a, g + w) \o b
    <2> DEFINE x == Beyond(t, n + w)
               y == Beyond(a, g + w)
    <2>1. x \in Seq(S) /\ Len(x) = M - (n + w) /\ \A i \in 1 .. M - (n + w) : x[i] = t[(n + w) + i]
      <3>1. n + w \in Nat /\ n + w <= M
        BY <1>0, <1>5
      <3> QED  BY <1>0, <3>1, PartIs DEF Beyond, M
    <2>2. y \in Seq(S) /\ Len(y) = L - (g + w) /\ \A i \in 1 .. L - (g + w) : y[i] = a[(g + w) + i]
      <3>1. g + w \in Nat /\ g + w <= L
        BY <1>0
      <3> QED  BY <1>0, <3>1, PartIs DEF Beyond, L
    <2>0. L - (g + w) \in Nat /\ g + w <= L
      BY <1>0
    <2> HIDE DEF x, y
    <2>3. Len(x) = Len(y) + Len(b)
      BY <1>0, <1>2, <1>5, <2>0, <2>1, <2>2
    <2>4. \A i \in 1 .. Len(y) : x[i] = y[i]
      <3> SUFFICES ASSUME NEW i \in 1 .. Len(y) PROVE x[i] = y[i]
        OBVIOUS
      <3>1. w + i \in 1 .. L - g /\ n + (w + i) = (n + w) + i /\ g + (w + i) = (g + w) + i
        BY SMTT(30), <1>0, <1>2, <2>0, <2>2
      <3>2. t[n + (w + i)] = a[g + (w + i)]
        BY <1>6, <3>1
      <3>3. i \in 1 .. M - (n + w) /\ i \in 1 .. L - (g + w)
        BY <1>0, <1>5, <2>0, <2>2
      <3> QED  BY <2>1, <2>2, <3>1, <3>2, <3>3
    <2>5. \A i \in 1 .. Len(b) : x[Len(y) + i] = b[i]
      <3> SUFFICES ASSUME NEW i \in 1 .. Len(b) PROVE x[Len(y) + i] = b[i]
        OBVIOUS
      <3>1. /\ Len(y) + i \in 1 .. M - (n + w)
            /\ (n + w) + (Len(y) + i) = n + ((L - g) + i)
        <4>1. Len(y) = L - (g + w) /\ M = n + (L - g) + Len(b)
          BY <1>5, <2>2
        <4>2. Len(y) \in Nat /\ M - (n + w) = Len(y) + Len(b)
          BY <1>0, <2>0, <4>1
        <4>3. (n + w) + (Len(y) + i) = n + ((L - g) + i)
          BY <1>0, <2>0, <4>1
        <4> QED  BY <1>0, <4>2, <4>3
      <3> QED  BY <1>7, <2>1, <3>1
    <2>6. x = y \o b
      BY <2>1, <2>2, <2>3, <2>4, <2>5, ConcatIs
    <2> QED  BY <2>6 DEF x, y
  <1> QED  BY <1>0, <1>5, <1>8, <1>9 DEF GoesOnWith, M, L

-----------------------------------------------------------------------------
(* What is a program of advice functions, as ProgramsAreAdvice says.       *)
AdviceProgram(p) ==
    /\ DOMAIN p \subseteq Nat
    /\ \A c \in DOMAIN p :
          /\ p[c].fields \in Seq(AdviceField) /\ p[c].fields # <<>>
          /\ p[c].body \in Seq(DOMAIN p)
          /\ \A j \in DOMAIN p[c].fields :
                p[c].fields[j].contents => j > 2 /\ p[c].fields[j - 2].size = 8

(* What the constant is assumed to hold is such a program.                 *)
LEMMA ProgramsOfAdvice == \A p \in Programs : AdviceProgram(p)
  <1> SUFFICES ASSUME NEW p \in Programs PROVE AdviceProgram(p)
    OBVIOUS
  <1>1. p \in Seq(AdviceCalls(p))
    BY ProgramsAssumption DEF ProgramsAreAdvice
  <1>2. DOMAIN p = 1 .. Len(p) /\ Len(p) \in Nat
    BY <1>1
  <1>3. ASSUME NEW c \in DOMAIN p
        PROVE  /\ p[c].fields \in Seq(AdviceField) /\ p[c].fields # <<>>
               /\ p[c].body \in Seq(DOMAIN p)
    <2>1. p[c] \in AdviceCalls(p)
      BY <1>1
    <2> QED  BY <2>1 DEF AdviceCalls
  <1>4. \A c \in DOMAIN p : \A j \in DOMAIN p[c].fields :
            p[c].fields[j].contents => j > 2 /\ p[c].fields[j - 2].size = 8
    BY ProgramsAssumption DEF ProgramsAreAdvice
  <1> QED  BY <1>2, <1>3, <1>4 DEF AdviceProgram

(* A byte is known by where it was computed.                               *)
AdviceByte == Nat \X Nat \X Nat

(* A slice that is being read: up to the next boundary of eight, or within *)
(* the last words, each half as long as the one before.                    *)
Aligning(at, remaining, toAlign) ==
    /\ at \in 0 .. 7 /\ remaining \in Nat /\ toAlign \in Nat /\ toAlign <= remaining
    /\ toAlign > 0 => \/ at + toAlign = 8
                      \/ at + toAlign < 8 /\ toAlign = remaining
    /\ toAlign = 0 => \/ remaining = 0 \/ at = 0
                      \/ at = 4 /\ remaining < 4
                      \/ at \in {2, 6} /\ remaining < 2
SliceOK(s) ==
    /\ s = [at |-> s.at, remaining |-> s.remaining, got |-> s.got, toAlign |-> s.toAlign]
    /\ Aligning(s.at, s.remaining, s.toAlign)
    /\ s.got \in Seq(AdviceByte)

(* The processor in the second pass over the tape t.                       *)
MachineOf(t, position, calls, values, slice, status) ==
    [tape |-> t, position |-> position, calls |-> calls, values |-> values, slice |-> slice,
     status |-> status]
AdviceMachine(p, t, m) ==
    /\ m = MachineOf(t, m.position, m.calls, m.values, m.slice, m.status)
    /\ m.position \in 0 .. Len(t) /\ m.calls \in Seq(DOMAIN p)
    /\ m.values \in Seq(Seq(AdviceByte)) /\ m.status \in {"running", "panicked"}
    /\ m.calls # <<>> => Len(m.values) < Len(p[Head(m.calls)].fields)
    /\ m.slice # <<>> => m.slice = <<m.slice[1]>> /\ SliceOK(m.slice[1])

(* What an assignment to its parts makes of a machine.                     *)
LEMMA StatusChanged ==
    ASSUME NEW p, NEW t, NEW m, AdviceMachine(p, t, m), NEW x,
           NEW r, r = [m EXCEPT !.status = x]
    PROVE  r = MachineOf(t, m.position, m.calls, m.values, m.slice, x)
  <1>1. m = MachineOf(t, m.position, m.calls, m.values, m.slice, m.status)
    BY DEF AdviceMachine
  <1>2. /\ r.tape = t /\ r.position = m.position /\ r.calls = m.calls
        /\ r.values = m.values /\ r.slice = m.slice /\ r.status = x
    BY <1>1 DEF MachineOf
  <1> QED  BY <1>1, <1>2 DEF MachineOf

(* A machine with another slice.                                           *)
LEMMA SliceChanged ==
    ASSUME NEW p, NEW t, NEW m, AdviceMachine(p, t, m), NEW x,
           NEW r, r = [m EXCEPT !.slice = x]
    PROVE  r = MachineOf(t, m.position, m.calls, m.values, x, m.status)
  <1>1. m = MachineOf(t, m.position, m.calls, m.values, m.slice, m.status)
    BY DEF AdviceMachine
  <1>2. /\ r.tape = t /\ r.position = m.position /\ r.calls = m.calls
        /\ r.values = m.values /\ r.slice = x /\ r.status = m.status
    BY <1>1 DEF MachineOf
  <1> QED  BY <1>1, <1>2 DEF MachineOf

(* A machine that has moved along the tape with its slice.                 *)
LEMMA PositionChanged ==
    ASSUME NEW p, NEW t, NEW m, AdviceMachine(p, t, m), NEW n, NEW x,
           NEW r, r = [m EXCEPT !.position = n, !.slice = x]
    PROVE  r = MachineOf(t, n, m.calls, m.values, x, m.status)
  <1>1. m = MachineOf(t, m.position, m.calls, m.values, m.slice, m.status)
    BY DEF AdviceMachine
  <1>2. /\ r.tape = t /\ r.position = n /\ r.calls = m.calls
        /\ r.values = m.values /\ r.slice = x /\ r.status = m.status
    BY <1>1 DEF MachineOf
  <1> QED  BY <1>1, <1>2 DEF MachineOf

(* The tape of a machine is the one that it was given.                     *)
LEMMA TapeOfMachine ==
    ASSUME NEW p, NEW t, NEW m, AdviceMachine(p, t, m)
    PROVE  m.tape = t
  <1>1. \A o, c, v, s, y : MachineOf(t, o, c, v, s, y).tape = t
    BY DEF MachineOf
  <1> QED  BY <1>1 DEF AdviceMachine

(* What it takes to be a machine, part by part.                            *)
LEMMA MachineIs ==
    ASSUME NEW p, NEW t, NEW o \in 0 .. Len(t), NEW c \in Seq(DOMAIN p),
           NEW v \in Seq(Seq(AdviceByte)), NEW s, NEW x \in {"running", "panicked"},
           c # <<>> => Len(v) < Len(p[Head(c)].fields),
           s # <<>> => s = <<s[1]>> /\ SliceOK(s[1])
    PROVE  AdviceMachine(p, t, MachineOf(t, o, c, v, s, x))
  <1> DEFINE m == MachineOf(t, o, c, v, s, x)
  <1>1. m.position = o /\ m.calls = c /\ m.values = v /\ m.slice = s /\ m.status = x
    BY DEF MachineOf
  <1> HIDE DEF m
  <1>2. m = MachineOf(t, m.position, m.calls, m.values, m.slice, m.status)
    BY <1>1 DEF m
  <1>3. AdviceMachine(p, t, m)
    BY <1>1, <1>2 DEF AdviceMachine
  <1> QED  BY <1>3 DEF m

(* A read is as wide as fits, aligned, and leaves the slice as it should be.*)
LEMMA WidthFits ==
    ASSUME NEW s, SliceOK(s), s.remaining > 0,
           NEW w, w = Width(s)
    PROVE  /\ w \in {1, 2, 4, 8} /\ w <= s.remaining /\ s.at % w = 0
           /\ Aligning((s.at + w) % 8, s.remaining - w, IF s.toAlign > 0 THEN s.toAlign - w ELSE 0)
  <1> DEFINE a == s.at
             r == s.remaining
             l == s.toAlign
  <1>1. Aligning(a, r, l) /\ r > 0
    BY DEF SliceOK
  <1>2. CASE l = 0
    <2> DEFINE Fits(v) == v <= r /\ (2 * v > r \/ v = 8)
    <2>1. w = CHOOSE v \in {1, 2, 4, 8} : Fits(v)
      BY <1>2 DEF Width
    <2>2. \E v \in {1, 2, 4, 8} : Fits(v)
      <3>1. Fits(8) \/ Fits(4) \/ Fits(2) \/ Fits(1)
        BY <1>1 DEF Aligning
      <3> QED  BY <3>1
    <2> HIDE DEF Fits
    <2>3. w \in {1, 2, 4, 8} /\ Fits(w)
      BY <2>1, <2>2
    <2> HIDE DEF a, r, l
    <2>4. w <= r /\ (2 * w > r \/ w = 8)
      BY <2>3 DEF Fits
    <2>5. a % w = 0 /\ Aligning((a + w) % 8, r - w, 0)
      <3>1. CASE w = 8
        BY <1>1, <1>2, <2>4, <3>1 DEF Aligning
      <3>2. CASE w = 4
        BY <1>1, <1>2, <2>4, <3>2 DEF Aligning
      <3>3. CASE w = 2
        BY <1>1, <1>2, <2>4, <3>3 DEF Aligning
      <3>4. CASE w = 1
        BY <1>1, <1>2, <2>4, <3>4 DEF Aligning
      <3> QED  BY <2>3, <3>1, <3>2, <3>3, <3>4
    <2> QED  BY <1>2, <2>3, <2>4, <2>5 DEF a, r, l
  <1>3. CASE l > 0
    <2>1. w = IF l >= 4 /\ a % 4 = 0 THEN 4 ELSE IF l >= 2 /\ a % 2 = 0 THEN 2 ELSE 1
      BY <1>3 DEF Width
    <2> HIDE DEF a, r, l
    <2>2. w \in {1, 2, 4} /\ w <= l /\ a % w = 0
      BY <1>1, <1>3, <2>1 DEF Aligning
    <2>3. /\ a \in 0 .. 7 /\ r \in Nat /\ l \in Nat /\ l <= r /\ a + l <= 8
          /\ a + l = 8 \/ l = r
      BY <1>1, <1>3 DEF Aligning
    <2>4. Aligning((a + w) % 8, r - w, l - w)
      <3>1. CASE a + w = 8
        <4>1. (a + w) % 8 = 0 /\ l - w = 0 /\ r - w \in Nat
          BY <2>2, <2>3, <3>1
        <4> QED  BY <4>1 DEF Aligning
      <3>2. CASE a + w # 8
        <4>1. /\ (a + w) % 8 = a + w /\ a + w \in 0 .. 7 /\ l - w \in Nat /\ r - w \in Nat
              /\ l - w <= r - w
          <5>1. a + w \in 0 .. 7 /\ w \in Nat
            <6>1. w \in {1, 2, 4} /\ w <= l
              BY <2>2
            <6> QED  BY <2>3, <3>2, <6>1
          <5>2. \A n \in 0 .. 7 : n % 8 = n
            OBVIOUS
          <5>3. l - w \in Nat /\ r - w \in Nat /\ l - w <= r - w
            BY <2>2, <2>3
          <5> QED  BY <5>1, <5>2, <5>3
        <4>2. (a + w) + (l - w) = a + l /\ (l = r => l - w = r - w)
          BY <2>2, <2>3
        <4>3. l - w = 0 => r - w = 0
          BY <2>2, <2>3, <3>2
        <4> DEFINE A == a + w
                   R == r - w
                   L == l - w
        <4>4. /\ A \in 0 .. 7 /\ L \in Nat /\ R \in Nat /\ L <= R /\ A + L <= 8
              /\ A + L = 8 \/ L = R
              /\ L = 0 => R = 0
          BY <2>3, <4>1, <4>2, <4>3
        <4> HIDE DEF A, R, L
        <4>5. Aligning(A, R, L)
          BY <4>4 DEF Aligning
        <4> QED  BY <4>1, <4>5 DEF A, R, L
      <3> QED  BY <3>1, <3>2
    <2>5. w <= r
      BY <2>2, <2>3
    <2> QED  BY <1>3, <2>2, <2>4, <2>5 DEF a, r, l
  <1> QED  BY <1>1, <1>2, <1>3 DEF Aligning

(* What the length of a Vec may say is the size of a field.                *)
LEMMA LengthsAreSizes ==
    ASSUME AdviceProgram(program), NEW m
    PROVE  LengthRead(m) \subseteq Nat
  <1>1. ASSUME NEW c \in DOMAIN program, NEW j \in DOMAIN program[c].fields
        PROVE  program[c].fields[j].size \in Nat
    <2>1. program[c].fields \in Seq(AdviceField)
      BY DEF AdviceProgram
    <2>2. program[c].fields[j] \in AdviceField
      BY <2>1
    <2> QED  BY <2>2 DEF AdviceField
  <1> QED  BY <1>1 DEF LengthRead

(* The field that comes next.                                              *)
LEMMA FieldOfCall ==
    ASSUME AdviceProgram(program), NEW t, NEW m, AdviceMachine(program, t, m), m.calls # <<>>
    PROVE  /\ Head(m.calls) \in DOMAIN program
           /\ Len(m.values) + 1 \in DOMAIN program[Head(m.calls)].fields
           /\ FieldOf(m) \in AdviceField
  <1>1. Head(m.calls) \in DOMAIN program
    BY DEF AdviceMachine
  <1>2. program[Head(m.calls)].fields \in Seq(AdviceField)
    BY <1>1 DEF AdviceProgram
  <1>3. Len(m.values) + 1 \in DOMAIN program[Head(m.calls)].fields
    BY <1>2 DEF AdviceMachine
  <1>4. program[Head(m.calls)].fields[Len(m.values) + 1] \in AdviceField
    BY <1>2, <1>3
  <1> QED  BY <1>1, <1>3, <1>4 DEF FieldOf

(* A slice is begun with the size of its field, or with a length read, if  *)
(* there is one.                                                           *)
SliceOf(at, size) ==
    [at |-> at, remaining |-> size, got |-> <<>>,
     toAlign |-> IF (8 - at) % 8 < size THEN (8 - at) % 8 ELSE size]
SizesOf(m) == IF FieldOf(m).contents THEN LengthRead(m) ELSE {FieldOf(m).size}

(* BeginSlice panics when there is no length to be read, and takes one of  *)
(* the lengths otherwise.                                                  *)
LEMMA SliceBegins ==
    ASSUME AdviceProgram(program), NEW t, NEW m, AdviceMachine(program, t, m), m.calls # <<>>
    PROVE  /\ SizesOf(m) = {} =>
                 BeginSlice(m) = MachineOf(t, m.position, m.calls, m.values, m.slice, "panicked")
           /\ SizesOf(m) # {} =>
                 \E size \in SizesOf(m) :
                    BeginSlice(m) = MachineOf(t, m.position, m.calls, m.values,
                                              <<SliceOf(FieldOf(m).at, size)>>, m.status)
  <1>1. CASE SizesOf(m) = {}
    <2> DEFINE n == BeginSlice(m)
    <2>1. n = [m EXCEPT !.status = "panicked"]
      BY <1>1 DEF BeginSlice, SizesOf
    <2> HIDE DEF n
    <2>2. n = MachineOf(t, m.position, m.calls, m.values, m.slice, "panicked")
      BY <2>1, StatusChanged
    <2> QED  BY <1>1, <2>2 DEF n
  <1>2. CASE SizesOf(m) # {}
    <2> DEFINE size == CHOOSE s \in SizesOf(m) : TRUE
               n == BeginSlice(m)
               x == <<SliceOf(FieldOf(m).at, size)>>
    <2>1. size \in SizesOf(m)
      BY <1>2
    <2>2. n = [m EXCEPT !.slice = x]
      BY <1>2 DEF BeginSlice, SizesOf, SliceOf
    <2> HIDE DEF n, x
    <2>3. n = MachineOf(t, m.position, m.calls, m.values, x, m.status)
      BY <2>2, SliceChanged
    <2> HIDE DEF size
    <2> QED  BY <1>2, <2>1, <2>3 DEF n, x
  <1> QED  BY <1>1, <1>2

(* A slice that is begun is up to the boundary of eight, or short of it.   *)
LEMMA SliceOfOK ==
    ASSUME NEW at \in 0 .. 7, NEW size \in Nat
    PROVE  SliceOK(SliceOf(at, size))
  <1> DEFINE e == (8 - at) % 8
             l == IF e < size THEN e ELSE size
  <1>1. e \in 0 .. 7 /\ (at = 0 => e = 0) /\ (at > 0 => e = 8 - at)
    OBVIOUS
  <1> HIDE DEF e
  <1>2. Aligning(at, size, l)
    <2>1. CASE e < size
      <3>1. l = e
        BY <2>1
      <3> HIDE DEF l
      <3>2. (at > 0 /\ e = 8 - at /\ e \in 1 .. 7) \/ (at = 0 /\ e = 0)
        BY <1>1
      <3>3. CASE at = 0 /\ e = 0
        BY <2>1, <3>1, <3>3 DEF Aligning
      <3>4. CASE at > 0 /\ e = 8 - at /\ e \in 1 .. 7
        <4>1. at + e = 8 /\ e > 0 /\ e <= size
          BY <2>1, <3>4
        <4> QED  BY <3>1, <3>4, <4>1 DEF Aligning
      <3> QED  BY <3>2, <3>3, <3>4
    <2>2. CASE ~(e < size)
      <3>1. l = size
        BY <2>2
      <3> HIDE DEF l
      <3> QED  BY <1>1, <2>2, <3>1 DEF Aligning
    <2> QED  BY <2>1, <2>2
  <1> HIDE DEF l
  <1>3. SliceOf(at, size) = [at |-> at, remaining |-> size, got |-> <<>>, toAlign |-> l]
    BY DEF SliceOf, e, l
  <1> QED  BY <1>2, <1>3 DEF SliceOK

(* BeginSlice leaves a machine.                                            *)
LEMMA BeginKeeps ==
    ASSUME AdviceProgram(program), NEW t, NEW m, AdviceMachine(program, t, m), m.calls # <<>>
    PROVE  AdviceMachine(program, t, BeginSlice(m))
  <1> DEFINE b == BeginSlice(m)
  <1>1. FieldOf(m).at \in 0 .. 7 /\ FieldOf(m).size \in Nat
    BY FieldOfCall DEF AdviceField
  <1>2. SizesOf(m) \subseteq Nat
    BY <1>1, LengthsAreSizes DEF SizesOf
  <1>3. /\ m.position \in 0 .. Len(t) /\ m.calls \in Seq(DOMAIN program)
        /\ m.values \in Seq(Seq(AdviceByte)) /\ m.status \in {"running", "panicked"}
        /\ Len(m.values) < Len(program[Head(m.calls)].fields)
        /\ m.slice # <<>> => m.slice = <<m.slice[1]>> /\ SliceOK(m.slice[1])
    BY DEF AdviceMachine
  <1>4. CASE b = MachineOf(t, m.position, m.calls, m.values, m.slice, "panicked")
    <2> HIDE DEF b
    <2> QED  BY <1>3, <1>4, MachineIs DEF b
  <1>5. ASSUME NEW size \in Nat,
               b = MachineOf(t, m.position, m.calls, m.values,
                      <<SliceOf(FieldOf(m).at, size)>>, m.status)
        PROVE  AdviceMachine(program, t, b)
    <2> DEFINE s == SliceOf(FieldOf(m).at, size)
               x == <<s>>
    <2>1. SliceOK(s)
      BY <1>1, SliceOfOK
    <2> HIDE DEF s
    <2>2. x = <<x[1]>> /\ SliceOK(x[1])
      BY <2>1
    <2> HIDE DEF b, x
    <2>3. b = MachineOf(t, m.position, m.calls, m.values, x, m.status)
      BY <1>5 DEF s, x
    <2> QED  BY <1>3, <2>2, <2>3, MachineIs
  <1> HIDE DEF b
  <1> QED  BY <1>2, <1>4, <1>5, SliceBegins DEF b

(* A row that reads the tape.                                              *)
AdviceRow == [at : 0 .. 7, width : {1, 2, 4, 8}, bytes : Seq(Seq(AdviceByte))]

(* AdviceTape::read gives bytes of the tape, or nothing beyond its end.    *)
LEMMA ReadTyped ==
    ASSUME NEW t \in Seq(AdviceByte), NEW m, m.tape = t, m.position \in 0 .. Len(t), NEW n \in Nat
    PROVE  /\ Read(m, n) \in Seq(Seq(AdviceByte))
           /\ m.position + n <= Len(t) =>
                 Read(m, n) = <<SubSeq(t, m.position + 1, m.position + n)>>
           /\ Read(m, n) # <<>> => m.position + n <= Len(t)
  <1>1. CASE m.position + n > Len(t)
    BY <1>1 DEF Read
  <1>2. CASE m.position + n <= Len(t)
    <2>1. SubSeq(t, m.position + 1, m.position + n) \in Seq(AdviceByte)
      BY <1>2, PartIs
    <2>2. Read(m, n) = <<SubSeq(t, m.position + 1, m.position + n)>>
      BY <1>2 DEF Read
    <2> QED  BY <1>2, <2>1, <2>2
  <1> QED  BY <1>1, <1>2

(* A row that reads the tape goes to an aligned place.                     *)
LEMMA RowsTyped ==
    ASSUME NEW p, NEW t \in Seq(AdviceByte), NEW m, AdviceMachine(p, t, m)
    PROVE  /\ RowsOf(m) \in Seq(AdviceRow)
           /\ \A i \in DOMAIN RowsOf(m) :
                 RowsOf(m)[i].at % RowsOf(m)[i].width = 0
  <1>1. CASE ~Reading(m)
    BY <1>1 DEF RowsOf
  <1>2. CASE Reading(m)
    <2> DEFINE s == m.slice[1]
               w == Width(s)
    <2>1. SliceOK(s) /\ s.remaining > 0
      BY <1>2 DEF Reading, AdviceMachine
    <2>2. w \in {1, 2, 4, 8} /\ s.at % w = 0
      BY <2>1, WidthFits
    <2>3. s.at \in 0 .. 7
      BY <2>1 DEF SliceOK, Aligning
    <2>4. Read(m, w) \in Seq(Seq(AdviceByte))
      <3>1. m.tape = t /\ m.position \in 0 .. Len(t)
        BY TapeOfMachine DEF AdviceMachine
      <3> HIDE DEF w
      <3> QED  BY <2>2, <3>1, ReadTyped
    <2>5. RowsOf(m) = <<[at |-> s.at, width |-> w, bytes |-> Read(m, w)]>>
      BY <1>2 DEF RowsOf, RowOf
    <2> HIDE DEF s, w
    <2> QED  BY <2>2, <2>3, <2>4, <2>5 DEF AdviceRow
  <1> QED  BY <1>1, <1>2

(* A chunk is read: the machine panics at the end of the tape, or goes on  *)
(* with the rest of the slice.                                             *)
ChunkOf(m) == Read(m, Width(m.slice[1]))
RestOfSlice(m) ==
    [at |-> (m.slice[1].at + Width(m.slice[1])) % 8,
     remaining |-> m.slice[1].remaining - Width(m.slice[1]),
     got |-> m.slice[1].got \o ChunkOf(m)[1],
     toAlign |-> IF m.slice[1].toAlign > 0 THEN m.slice[1].toAlign - Width(m.slice[1]) ELSE 0]

(* ReadChunk panics at the end of the tape and moves along it otherwise.   *)
LEMMA ChunkRead ==
    ASSUME NEW p, NEW t, NEW m, AdviceMachine(p, t, m)
    PROVE  ReadChunk(m) =
              IF ChunkOf(m) = <<>>
              THEN MachineOf(t, m.position, m.calls, m.values, m.slice, "panicked")
              ELSE MachineOf(t, m.position + Width(m.slice[1]), m.calls, m.values,
                             <<RestOfSlice(m)>>, m.status)
  <1> DEFINE n == ReadChunk(m)
             o == m.position + Width(m.slice[1])
             x == <<RestOfSlice(m)>>
  <1>1. CASE ChunkOf(m) = <<>>
    <2>1. n = [m EXCEPT !.status = "panicked"]
      BY <1>1 DEF ReadChunk, ChunkOf
    <2> HIDE DEF n
    <2>2. n = MachineOf(t, m.position, m.calls, m.values, m.slice, "panicked")
      BY <2>1, StatusChanged
    <2> QED  BY <1>1, <2>2 DEF n
  <1>2. CASE ChunkOf(m) # <<>>
    <2>1. n = [m EXCEPT !.position = o, !.slice = x]
      BY <1>2 DEF ReadChunk, ChunkOf, RestOfSlice
    <2> HIDE DEF n, o, x
    <2>2. n = MachineOf(t, o, m.calls, m.values, x, m.status)
      BY <2>1, PositionChanged
    <2> QED  BY <1>2, <2>2 DEF n, o, x
  <1> QED  BY <1>1, <1>2

(* ReadChunk leaves a machine: the width that was read leaves the slice    *)
(* aligned.                                                                *)
LEMMA ChunkKeeps ==
    ASSUME NEW p, NEW t \in Seq(AdviceByte), NEW m, AdviceMachine(p, t, m), Reading(m)
    PROVE  AdviceMachine(p, t, ReadChunk(m))
  <1> DEFINE s == m.slice[1]
             w == Width(s)
             b == ChunkOf(m)
             u == RestOfSlice(m)
             x == <<u>>
  <1>1. SliceOK(s) /\ s.remaining > 0
    BY DEF Reading, AdviceMachine
  <1>2. /\ w \in {1, 2, 4, 8}
        /\ Aligning((s.at + w) % 8, s.remaining - w, IF s.toAlign > 0 THEN s.toAlign - w ELSE 0)
    BY <1>1, WidthFits
  <1>3. /\ m.position \in 0 .. Len(t) /\ m.calls \in Seq(DOMAIN p)
        /\ m.values \in Seq(Seq(AdviceByte)) /\ m.status \in {"running", "panicked"}
        /\ m.calls # <<>> => Len(m.values) < Len(p[Head(m.calls)].fields)
        /\ m.slice # <<>> => m.slice = <<m.slice[1]>> /\ SliceOK(m.slice[1])
    BY DEF AdviceMachine
  <1>4. b \in Seq(Seq(AdviceByte)) /\ (b # <<>> => m.position + w <= Len(t))
    <2>1. w \in Nat /\ m.tape = t
      BY <1>2, TapeOfMachine
    <2> HIDE DEF w
    <2>2. b = Read(m, w)
      BY DEF ChunkOf, w
    <2> HIDE DEF b
    <2> QED  BY <1>3, <2>1, <2>2, ReadTyped
  <1>5. CASE b = <<>>
    <2>1. ReadChunk(m) = MachineOf(t, m.position, m.calls, m.values, m.slice, "panicked")
      BY <1>5, ChunkRead
    <2> QED  BY <1>3, <2>1, MachineIs
  <1>6. CASE b # <<>>
    <2>1. ReadChunk(m) = MachineOf(t, m.position + w, m.calls, m.values, x, m.status)
      BY <1>6, ChunkRead
    <2>2. SliceOK(u)
      <3>1. s.got \o b[1] \in Seq(AdviceByte)
        BY <1>1, <1>4, <1>6 DEF SliceOK
      <3>2. u = [at |-> (s.at + w) % 8, remaining |-> s.remaining - w, got |-> s.got \o b[1],
                 toAlign |-> IF s.toAlign > 0 THEN s.toAlign - w ELSE 0]
        BY DEF RestOfSlice
      <3> HIDE DEF s, w, b, u
      <3> QED  BY <1>2, <3>1, <3>2 DEF SliceOK
    <2> HIDE DEF u, b, w
    <2>3. x = <<x[1]>> /\ SliceOK(x[1])
      BY <2>2
    <2>4. m.position + w \in 0 .. Len(t)
      <3>1. m.position + w <= Len(t)
        BY <1>4, <1>6
      <3>2. m.position \in Nat /\ w \in Nat
        BY <1>2, <1>3
      <3> QED  BY <3>1, <3>2
    <2> HIDE DEF x
    <2> QED  BY <1>3, <2>1, <2>3, <2>4, MachineIs
  <1> QED  BY <1>5, <1>6

(* A call returns with its last field.                                     *)
LastField(m) == Len(m.values) + 1 = Len(program[Head(m.calls)].fields)
ValuesNext(m) == IF LastField(m) THEN <<>> ELSE Append(m.values, m.slice[1].got)
CallsNext(m) == IF LastField(m) THEN Tail(m.calls) ELSE m.calls

(* EndSlice takes the field read, and returns from the call with the last. *)
LEMMA SliceEnds ==
    ASSUME NEW p, NEW t, NEW m, AdviceMachine(p, t, m)
    PROVE  EndSlice(m) =
              MachineOf(t, m.position, CallsNext(m), ValuesNext(m), <<>>, m.status)
  <1> DEFINE n == EndSlice(m)
             v == ValuesNext(m)
             c == CallsNext(m)
             x == <<>>
  <1>1. n = [m EXCEPT !.slice = x, !.values = v, !.calls = c]
    BY DEF EndSlice, ValuesNext, CallsNext, LastField
  <1> HIDE DEF n, c, v, x
  <1>2. n = MachineOf(t, m.position, c, v, x, m.status)
    <2>1. m = MachineOf(t, m.position, m.calls, m.values, m.slice, m.status)
      BY DEF AdviceMachine
    <2>2. /\ n.tape = t /\ n.position = m.position /\ n.calls = c
          /\ n.values = v /\ n.slice = x /\ n.status = m.status
      BY <1>1, <2>1 DEF MachineOf
    <2> QED  BY <1>1, <2>1, <2>2 DEF MachineOf
  <1> QED  BY <1>2 DEF n, c, v, x

(* EndSlice leaves a machine that has a field still to be read of its      *)
(* call.                                                                   *)
LEMMA EndKeeps ==
    ASSUME AdviceProgram(program), NEW t, NEW m, AdviceMachine(program, t, m),
           m.calls # <<>>, m.slice # <<>>
    PROVE  AdviceMachine(program, t, EndSlice(m))
  <1> DEFINE f == program[Head(m.calls)].fields
             v == ValuesNext(m)
             c == CallsNext(m)
  <1>1. /\ m.values \in Seq(Seq(AdviceByte)) /\ m.calls \in Seq(DOMAIN program)
        /\ Len(m.values) < Len(f) /\ m.position \in 0 .. Len(t)
        /\ m.status \in {"running", "panicked"} /\ SliceOK(m.slice[1])
    BY DEF AdviceMachine
  <1>2. m.slice[1].got \in Seq(AdviceByte)
    BY <1>1 DEF SliceOK
  <1>3. v \in Seq(Seq(AdviceByte)) /\ c \in Seq(DOMAIN program)
    <2>1. Tail(m.calls) \in Seq(DOMAIN program) /\ <<>> \in Seq(Seq(AdviceByte))
      <3> DEFINE k == m.calls
                 D == DOMAIN program
      <3>1. k \in Seq(D) /\ k # <<>>
        BY <1>1
      <3> HIDE DEF k, D
      <3>2. Tail(k) \in Seq(D)
        BY <3>1
      <3> QED  BY <3>2 DEF k, D
    <2>2. Append(m.values, m.slice[1].got) \in Seq(Seq(AdviceByte))
      BY <1>1, <1>2
    <2> QED  BY <1>1, <2>1, <2>2 DEF ValuesNext, CallsNext
  <1>4. ASSUME c # <<>> PROVE Len(v) < Len(program[Head(c)].fields)
    <2>1. CASE LastField(m)
      <3>1. Head(c) \in DOMAIN program
        <4> HIDE DEF c
        <4> QED  BY <1>3, <1>4
      <3>2. program[Head(c)].fields \in Seq(AdviceField) /\ program[Head(c)].fields # <<>>
        BY <3>1 DEF AdviceProgram
      <3>3. Len(v) = 0
        BY <2>1 DEF ValuesNext
      <3> HIDE DEF v, c
      <3> QED  BY <3>2, <3>3
    <2>2. CASE ~LastField(m)
      <3>1. Head(m.calls) \in DOMAIN program
        BY <1>1
      <3>2. f \in Seq(AdviceField) /\ Len(f) \in Nat /\ Len(m.values) \in Nat
        BY SMTT(30), <1>1, <3>1 DEF AdviceProgram
      <3>3. Len(v) = Len(m.values) + 1 /\ c = m.calls /\ Len(m.values) + 1 # Len(f)
        BY <1>1, <2>2 DEF ValuesNext, CallsNext, LastField
      <3> HIDE DEF v
      <3> QED  BY <1>1, <3>2, <3>3
    <2> QED  BY <2>1, <2>2
  <1>5. EndSlice(m) = MachineOf(t, m.position, c, v, <<>>, m.status)
    BY SliceEnds
  <1> HIDE DEF v, c
  <1> QED  BY <1>1, <1>3, <1>4, <1>5, MachineIs

(* Whatever the processor does in the second pass, it stays a machine.     *)
LEMMA StepKeepsMachine ==
    ASSUME AdviceProgram(program), NEW t \in Seq(AdviceByte), NEW m,
           AdviceMachine(program, t, m), m.calls # <<>>
    PROVE  AdviceMachine(program, t, ReadStep(m))
  BY BeginKeeps, ChunkKeeps, EndKeeps DEF ReadStep

-----------------------------------------------------------------------------
(* What a call of an advice function writes, and what calls write in turn. *)
ResultOf(p, c) == [j \in DOMAIN p[c].fields |-> [n \in 1 .. p[c].fields[j].size |-> <<c, j, n>>]]
ResultsOf(p, cs) == [i \in DOMAIN cs |-> FlattenSeq(ResultOf(p, cs[i]))]
WrittenBy(p, cs) == FlattenSeq(ResultsOf(p, cs))

(* The result that is modelled, of the program that is run.                *)
LEMMA ResultIs ==
    ASSUME NEW c
    PROVE  Result(c) = ResultOf(program, c)
  BY DEF Result, Bytes, ResultOf

(* A result has the fields of its call, each as long as its size.          *)
LEMMA ResultTyped ==
    ASSUME NEW p, AdviceProgram(p), NEW c \in DOMAIN p
    PROVE  /\ ResultOf(p, c) \in Seq(Seq(AdviceByte))
           /\ Len(ResultOf(p, c)) = Len(p[c].fields)
           /\ ResultOf(p, c) # <<>>
           /\ \A j \in 1 .. Len(p[c].fields) :
                 /\ ResultOf(p, c)[j] = [n \in 1 .. p[c].fields[j].size |-> <<c, j, n>>]
                 /\ Len(ResultOf(p, c)[j]) = p[c].fields[j].size
  <1> DEFINE f == p[c].fields
             r == ResultOf(p, c)
  <1>1. f \in Seq(AdviceField) /\ f # <<>> /\ c \in Nat
    BY DEF AdviceProgram
  <1>2. DOMAIN f = 1 .. Len(f) /\ Len(f) \in Nat \ {0}
    <2> HIDE DEF f
    <2> QED  BY <1>1
  <1>3. ASSUME NEW j \in 1 .. Len(f)
        PROVE  /\ f[j].size \in Nat /\ r[j] = [n \in 1 .. f[j].size |-> <<c, j, n>>]
               /\ r[j] \in Seq(AdviceByte) /\ Len(r[j]) = f[j].size
    <2>1. f[j] \in AdviceField
      <3> HIDE DEF f
      <3> QED  BY <1>1, <1>2
    <2>2. f[j].size \in Nat /\ j \in Nat
      BY <1>2, <2>1 DEF AdviceField
    <2>3. r[j] = [n \in 1 .. f[j].size |-> <<c, j, n>>]
      BY <1>2 DEF ResultOf
    <2>4. \A n \in 1 .. f[j].size : <<c, j, n>> \in AdviceByte
      BY <1>1, <2>2 DEF AdviceByte
    <2> HIDE DEF r, f
    <2> QED  BY <2>2, <2>3, <2>4
  <1>4. r = [j \in 1 .. Len(f) |-> r[j]]
    BY <1>2 DEF ResultOf
  <1> HIDE DEF r, f
  <1>5. r \in Seq(Seq(AdviceByte)) /\ Len(r) = Len(f)
    BY <1>2, <1>3, <1>4
  <1> QED  BY <1>2, <1>3, <1>5 DEF r, f

(* What calls write is bytes, call by call.                                *)
LEMMA ResultsTyped ==
    ASSUME NEW p, AdviceProgram(p), NEW cs \in Seq(DOMAIN p)
    PROVE  /\ ResultsOf(p, cs) \in Seq(Seq(AdviceByte)) /\ Len(ResultsOf(p, cs)) = Len(cs)
           /\ WrittenBy(p, cs) \in Seq(AdviceByte)
           /\ \A i \in 1 .. Len(cs) : ResultsOf(p, cs)[i] = FlattenSeq(ResultOf(p, cs[i]))
  <1> DEFINE D == DOMAIN p
  <1>1. DOMAIN cs = 1 .. Len(cs) /\ Len(cs) \in Nat /\ \A i \in 1 .. Len(cs) : cs[i] \in D
    <2> HIDE DEF D
    <2>1. cs \in Seq(D)
      BY DEF D
    <2> QED  BY <2>1
  <1>2. \A i \in 1 .. Len(cs) : FlattenSeq(ResultOf(p, cs[i])) \in Seq(AdviceByte)
    <2> SUFFICES ASSUME NEW i \in 1 .. Len(cs) PROVE FlattenSeq(ResultOf(p, cs[i])) \in Seq(AdviceByte)
      OBVIOUS
    <2>1. ResultOf(p, cs[i]) \in Seq(Seq(AdviceByte))
      BY <1>1, ResultTyped
    <2> QED  BY <2>1, FlattenTyped
  <1>3. /\ ResultsOf(p, cs) \in Seq(Seq(AdviceByte)) /\ Len(ResultsOf(p, cs)) = Len(cs)
        /\ \A i \in 1 .. Len(cs) : ResultsOf(p, cs)[i] = FlattenSeq(ResultOf(p, cs[i]))
    <2>1. ResultsOf(p, cs) = [i \in 1 .. Len(cs) |-> FlattenSeq(ResultOf(p, cs[i]))]
      BY <1>1 DEF ResultsOf
    <2> QED  BY <1>1, <1>2, <2>1
  <1>4. WrittenBy(p, cs) \in Seq(AdviceByte)
    BY <1>3, FlattenTyped DEF WrittenBy
  <1> QED  BY <1>3, <1>4

(* Calls write what the first writes and then what the others do.          *)
LEMMA WrittenInTurn ==
    ASSUME NEW p, AdviceProgram(p), NEW cs \in Seq(DOMAIN p), cs # <<>>
    PROVE  WrittenBy(p, cs) = FlattenSeq(ResultOf(p, Head(cs))) \o WrittenBy(p, Tail(cs))
  <1> DEFINE r == ResultsOf(p, cs)
             u == ResultsOf(p, Tail(cs))
             D == DOMAIN p
  <1>1. /\ Tail(cs) \in Seq(D) /\ Len(Tail(cs)) = Len(cs) - 1 /\ Len(cs) \in Nat \ {0}
        /\ Head(cs) = cs[1] /\ \A i \in 1 .. Len(cs) - 1 : Tail(cs)[i] = cs[i + 1]
    <2> HIDE DEF D
    <2>1. cs \in Seq(D)
      BY DEF D
    <2> QED  BY <2>1
  <1>2. /\ r \in Seq(Seq(AdviceByte)) /\ Len(r) = Len(cs)
        /\ \A i \in 1 .. Len(cs) : r[i] = FlattenSeq(ResultOf(p, cs[i]))
    BY ResultsTyped
  <1>3. /\ u \in Seq(Seq(AdviceByte)) /\ Len(u) = Len(cs) - 1
        /\ \A i \in 1 .. Len(cs) - 1 : u[i] = FlattenSeq(ResultOf(p, Tail(cs)[i]))
    <2> DEFINE ds == Tail(cs)
    <2>1. ds \in Seq(DOMAIN p) /\ Len(ds) = Len(cs) - 1
      BY <1>1
    <2> HIDE DEF ds
    <2>2. /\ ResultsOf(p, ds) \in Seq(Seq(AdviceByte)) /\ Len(ResultsOf(p, ds)) = Len(ds)
          /\ \A i \in 1 .. Len(ds) : ResultsOf(p, ds)[i] = FlattenSeq(ResultOf(p, ds[i]))
      BY <2>1, ResultsTyped
    <2> QED  BY <2>1, <2>2 DEF ds
  <1> HIDE DEF r, u
  <1>4. u = SubSeq(r, 2, Len(r))
    <2>1. \A i \in 1 .. Len(cs) - 1 : u[i] = r[i + 1]
      <3> TAKE i \in 1 .. Len(cs) - 1
      <3>1. i + 1 \in 1 .. Len(cs)
        BY <1>1
      <3> QED  BY <1>1, <1>2, <1>3, <3>1
    <2>2. /\ SubSeq(r, 2, Len(r)) \in Seq(Seq(AdviceByte)) /\ Len(SubSeq(r, 2, Len(r))) = Len(cs) - 1
          /\ \A i \in 1 .. Len(cs) - 1 : SubSeq(r, 2, Len(r))[i] = r[i + 1]
      BY <1>1, <1>2
    <2> DEFINE x == SubSeq(r, 2, Len(r))
               n == Len(cs) - 1
    <2>3. /\ n \in Nat /\ x \in Seq(Seq(AdviceByte)) /\ Len(x) = n /\ Len(u) = n
          /\ u \in Seq(Seq(AdviceByte)) /\ \A i \in 1 .. n : u[i] = x[i]
      <3>1. \A i \in 1 .. n : u[i] = x[i]
        BY <2>1, <2>2
      <3>2. n \in Nat
        BY <1>1
      <3> QED  BY <1>3, <2>2, <3>1, <3>2
    <2> HIDE DEF x, n
    <2>4. u = x
      BY <2>3
    <2> QED  BY <2>4 DEF x
  <1>5. SubSeq(r, 1, Len(r)) = r /\ 1 \in 1 .. Len(r)
    BY <1>1, <1>2
  <1>6. FlattenSeq(r) = r[1] \o FlattenSeq(SubSeq(r, 1 + 1, Len(r)))
    BY <1>2, <1>5, FlattenFrom
  <1>7. r[1] = FlattenSeq(ResultOf(p, Head(cs)))
    BY <1>1, <1>2, <1>5
  <1>8. FlattenSeq(r) = FlattenSeq(ResultOf(p, Head(cs))) \o FlattenSeq(u)
    BY <1>4, <1>6, <1>7
  <1> QED  BY <1>8 DEF WrittenBy, r, u

(* No calls write nothing.                                                 *)
LEMMA NothingWritten ==
    ASSUME NEW p
    PROVE  WrittenBy(p, <<>>) = <<>>
  <1>1. ResultsOf(p, <<>>) = <<>>
    BY DEF ResultsOf
  <1> QED  BY <1>1, FlattenNothing DEF WrittenBy

(* One call writes its result.                                             *)
LEMMA WrittenByOne ==
    ASSUME NEW p, AdviceProgram(p), NEW c \in DOMAIN p
    PROVE  WrittenBy(p, <<c>>) = FlattenSeq(ResultOf(p, c))
  <1>1. <<c>> \in Seq(DOMAIN p) /\ <<c>> # <<>> /\ Head(<<c>>) = c /\ Tail(<<c>>) = <<>>
    OBVIOUS
  <1>2. FlattenSeq(ResultOf(p, c)) \in Seq(AdviceByte)
    BY ResultTyped, FlattenTyped
  <1>3. FlattenSeq(ResultOf(p, c)) \o <<>> = FlattenSeq(ResultOf(p, c))
    BY <1>2
  <1> QED  BY <1>1, <1>3, WrittenInTurn, NothingWritten

(* What a machine waits for at place o of the tape t: the call is the      *)
(* first of cs, of its fields vs have been read, of the next one g.  All   *)
(* that is left of the tape is what remains of it to be read.              *)
FieldNext(p, cs, vs) == ResultOf(p, Head(cs))[Len(vs) + 1]
Awaits(p, t, o, cs, vs, g) ==
    /\ vs = SubSeq(ResultOf(p, Head(cs)), 1, Len(vs))
    /\ Len(g) <= Len(FieldNext(p, cs, vs)) /\ g = SubSeq(FieldNext(p, cs, vs), 1, Len(g))
    /\ Beyond(t, o) = Beyond(FieldNext(p, cs, vs), Len(g)) \o
                         (FlattenSeq(Beyond(ResultOf(p, Head(cs)), Len(vs) + 1)) \o
                             WrittenBy(p, Tail(cs)))

(* The places that the lemmas below speak about.                           *)
Awaiting(p, t, o, cs, vs) ==
    /\ AdviceProgram(p) /\ t \in Seq(AdviceByte) /\ o \in 0 .. Len(t)
    /\ cs \in Seq(DOMAIN p) /\ cs # <<>>
    /\ vs \in Seq(Seq(AdviceByte)) /\ Len(vs) < Len(p[Head(cs)].fields)

(* The types of what is awaited.                                           *)
LEMMA AwaitedParts ==
    ASSUME NEW p, NEW t, NEW o, NEW cs, NEW vs, Awaiting(p, t, o, cs, vs)
    PROVE  /\ Head(cs) \in DOMAIN p /\ Tail(cs) \in Seq(DOMAIN p)
           /\ ResultOf(p, Head(cs)) \in Seq(Seq(AdviceByte))
           /\ Len(ResultOf(p, Head(cs))) = Len(p[Head(cs)].fields)
           /\ Len(vs) \in Nat /\ Len(vs) + 1 \in 1 .. Len(ResultOf(p, Head(cs)))
           /\ FieldNext(p, cs, vs) \in Seq(AdviceByte)
           /\ FlattenSeq(Beyond(ResultOf(p, Head(cs)), Len(vs) + 1)) \in Seq(AdviceByte)
           /\ WrittenBy(p, Tail(cs)) \in Seq(AdviceByte)
  <1> DEFINE D == DOMAIN p
             r == ResultOf(p, Head(cs))
  <1>1. Head(cs) \in D /\ Tail(cs) \in Seq(D)
    <2>1. cs \in Seq(D) /\ cs # <<>>
      BY DEF Awaiting
    <2> HIDE DEF D
    <2> QED  BY <2>1
  <1>2. r \in Seq(Seq(AdviceByte)) /\ Len(r) = Len(p[Head(cs)].fields)
    BY <1>1, ResultTyped DEF Awaiting
  <1> HIDE DEF r
  <1>3. Len(vs) \in Nat /\ Len(r) \in Nat /\ Len(vs) < Len(r)
    BY <1>2 DEF Awaiting
  <1>4. Len(vs) + 1 \in 1 .. Len(r)
    BY <1>3
  <1>5. FieldNext(p, cs, vs) \in Seq(AdviceByte)
    <2>1. r[Len(vs) + 1] \in Seq(AdviceByte)
      BY <1>2, <1>4
    <2> QED  BY <2>1 DEF FieldNext, r
  <1>6. Beyond(r, Len(vs) + 1) \in Seq(Seq(AdviceByte))
    BY <1>2, <1>4, PartIs DEF Beyond
  <1>7. FlattenSeq(Beyond(r, Len(vs) + 1)) \in Seq(AdviceByte)
    BY <1>6, FlattenTyped
  <1>8. WrittenBy(p, Tail(cs)) \in Seq(AdviceByte)
    BY <1>1, ResultsTyped DEF Awaiting
  <1> QED  BY <1>1, <1>2, <1>3, <1>4, <1>5, <1>7, <1>8 DEF r

(* The whole of a sequence, and nothing of it.                             *)
LEMMA BeyondNothing ==
    ASSUME NEW S, NEW s \in Seq(S)
    PROVE  /\ Beyond(s, 0) = s /\ SubSeq(s, 1, 0) = <<>>
           /\ Beyond(s, Len(s)) = <<>> /\ SubSeq(s, 1, Len(s)) = s
  BY DEF Beyond

(* A call is begun.                                                        *)
LEMMA CallBegins ==
    ASSUME NEW p, NEW t, NEW o, NEW cs, Awaiting(p, t, o, cs, <<>>),
           Beyond(t, o) = WrittenBy(p, cs)
    PROVE  Awaits(p, t, o, cs, <<>>, <<>>)
  <1> DEFINE r == ResultOf(p, Head(cs))
             f == FieldNext(p, cs, <<>>)
             w == WrittenBy(p, Tail(cs))
             l == FlattenSeq(Beyond(r, 1))
  <1>1. /\ r \in Seq(Seq(AdviceByte)) /\ 1 \in 1 .. Len(r) /\ Len(<<>>) = 0
        /\ f = r[1] /\ f \in Seq(AdviceByte) /\ w \in Seq(AdviceByte) /\ l \in Seq(AdviceByte)
    <2>1. Len(<<>>) = 0 /\ Len(<<>>) + 1 = 1
      OBVIOUS
    <2>2. f = r[1]
      BY <2>1 DEF FieldNext
    <2> HIDE DEF f
    <2> QED  BY <2>1, <2>2, AwaitedParts DEF f
  <1>2. WrittenBy(p, cs) = FlattenSeq(r) \o w
    BY WrittenInTurn DEF Awaiting
  <1>3. FlattenSeq(r) = f \o l
    <2>1. SubSeq(r, 1, Len(r)) = r
      BY <1>1, BeyondNothing
    <2>2. FlattenSeq(SubSeq(r, 1, Len(r))) = r[1] \o FlattenSeq(SubSeq(r, 1 + 1, Len(r)))
      BY <1>1, FlattenFrom
    <2>3. SubSeq(r, 1 + 1, Len(r)) = Beyond(r, 1)
      BY DEF Beyond
    <2> QED  BY <1>1, <2>1, <2>2, <2>3
  <1> HIDE DEF f, w, l, r
  <1>4. Beyond(t, o) = f \o (l \o w)
    <2>1. (f \o l) \o w = f \o (l \o w)
      <3>1. f \in Seq(AdviceByte) /\ l \in Seq(AdviceByte) /\ w \in Seq(AdviceByte)
        BY <1>1
      <3> QED  BY <3>1, ConcatGroups
    <2> QED  BY <1>2, <1>3, <2>1
  <1>5. Beyond(f, 0) = f /\ SubSeq(f, 1, 0) = <<>> /\ SubSeq(r, 1, 0) = <<>>
    BY <1>1, BeyondNothing
  <1>6. Len(f) \in Nat
    BY <1>1
  <1>7. /\ <<>> = SubSeq(r, 1, Len(<<>>)) /\ Len(<<>>) <= Len(f) /\ <<>> = SubSeq(f, 1, Len(<<>>))
        /\ Beyond(f, Len(<<>>)) = f
    BY <1>1, <1>5, <1>6
  <1>8. Beyond(r, Len(<<>>) + 1) = Beyond(r, 1)
    OBVIOUS
  <1> QED  BY <1>4, <1>7, <1>8 DEF Awaits, f, w, l, r

(* w bytes are to be read where t goes on with f after its first n, g.     *)
ToBeRead(t, o, f, b, n, g, w) ==
    /\ t \in Seq(AdviceByte) /\ f \in Seq(AdviceByte) /\ b \in Seq(AdviceByte)
    /\ o \in Nat /\ n \in Nat /\ w \in Nat /\ n + w <= Len(f)
    /\ g = SubSeq(f, 1, n) /\ GoesOnWith(t, o, f, n, b)

(* The bytes read are the next ones of f.                                  *)
LEMMA PartTaken ==
    ASSUME NEW t, NEW o, NEW f, NEW b, NEW n, NEW g, NEW w, ToBeRead(t, o, f, b, n, g, w)
    PROVE  /\ o + w <= Len(t)
           /\ SubSeq(t, o + 1, o + w) = SubSeq(f, n + 1, n + w)
           /\ GoesOnWith(t, o + w, f, n + w, b)
  <1>1. /\ t \in Seq(AdviceByte) /\ f \in Seq(AdviceByte) /\ b \in Seq(AdviceByte)
        /\ o \in Nat /\ n \in Nat /\ GoesOnWith(t, o, f, n, b)
    BY DEF ToBeRead
  <1>2. w \in 0 .. Len(f) - n
    <2>1. w \in Nat /\ n \in Nat /\ n + w <= Len(f) /\ Len(f) \in Nat
      BY DEF ToBeRead
    <2> QED  BY <2>1
  <1> QED  BY <1>1, <1>2, TakenFrom, SMTT(60)

(* What has then been read of f is a beginning of it again.                *)
IsRead(t, o, f, b, n, g, w) ==
    /\ o + w <= Len(t)
    /\ g \o SubSeq(t, o + 1, o + w) = SubSeq(f, 1, n + w)
    /\ Len(SubSeq(f, 1, n + w)) = n + w
    /\ Beyond(t, o + w) = Beyond(f, n + w) \o b

(* What has been read of f goes on being a beginning of it.                *)
LEMMA PartOfField ==
    ASSUME NEW t, NEW o, NEW f, NEW b, NEW n, NEW g, NEW w, ToBeRead(t, o, f, b, n, g, w)
    PROVE  IsRead(t, o, f, b, n, g, w)
  <1>1. /\ o + w <= Len(t)
        /\ SubSeq(t, o + 1, o + w) = SubSeq(f, n + 1, n + w)
        /\ GoesOnWith(t, o + w, f, n + w, b)
    BY PartTaken
  <1>2. /\ f \in Seq(AdviceByte) /\ n \in Nat /\ n + w \in Nat /\ n <= n + w /\ n + w <= Len(f)
        /\ g = SubSeq(f, 1, n)
    BY DEF ToBeRead
  <1>3. SubSeq(f, 1, n) \o SubSeq(f, n + 1, n + w) = SubSeq(f, 1, n + w)
    BY <1>2, BeginningGoesOn
  <1>4. Len(SubSeq(f, 1, n + w)) = n + w
    BY <1>2
  <1> QED  BY <1>1, <1>2, <1>3, <1>4 DEF GoesOnWith, IsRead

(* A part of the field is read.                                            *)
ReadsPart(p, t, o, cs, vs, g, w) ==
    /\ Awaiting(p, t, o, cs, vs) /\ Awaits(p, t, o, cs, vs, g)
    /\ g \in Seq(AdviceByte) /\ w \in Nat /\ Len(g) + w <= Len(FieldNext(p, cs, vs))

PartIsRead(p, t, o, cs, vs, g, w) ==
    /\ o + w <= Len(t)
    /\ Awaits(p, t, o + w, cs, vs, g \o SubSeq(t, o + 1, o + w))
    /\ Len(g \o SubSeq(t, o + 1, o + w)) = Len(g) + w

(* Reading a part of the field that is awaited leaves the rest of it       *)
(* awaited.                                                                *)
LEMMA PartRead ==
    ASSUME NEW p, NEW t, NEW o, NEW cs, NEW vs, NEW g, NEW w, ReadsPart(p, t, o, cs, vs, g, w)
    PROVE  PartIsRead(p, t, o, cs, vs, g, w)
  <1> DEFINE f == FieldNext(p, cs, vs)
             l == FlattenSeq(Beyond(ResultOf(p, Head(cs)), Len(vs) + 1))
             e == WrittenBy(p, Tail(cs))
             b == l \o e
             n == Len(g)
             h == g \o SubSeq(t, o + 1, o + w)
  <1>0. Awaiting(p, t, o, cs, vs) /\ Awaits(p, t, o, cs, vs, g) /\ g \in Seq(AdviceByte)
    BY DEF ReadsPart
  <1>1. f \in Seq(AdviceByte) /\ b \in Seq(AdviceByte)
    <2>1. l \in Seq(AdviceByte) /\ e \in Seq(AdviceByte) /\ f \in Seq(AdviceByte)
      BY <1>0, AwaitedParts
    <2> HIDE DEF f, l, e
    <2> QED  BY <2>1
  <1>2. t \in Seq(AdviceByte) /\ o \in Nat /\ o <= Len(t) /\ n \in Nat
    BY <1>0 DEF Awaiting
  <1>3. Beyond(t, o) = Beyond(f, n) \o b /\ g = SubSeq(f, 1, n)
    BY <1>0 DEF Awaits
  <1>4. w \in Nat /\ n + w <= Len(f)
    BY DEF ReadsPart
  <1>5. vs = SubSeq(ResultOf(p, Head(cs)), 1, Len(vs))
    BY <1>0 DEF Awaits
  <1> HIDE DEF f, b, n
  <1>6. ToBeRead(t, o, f, b, n, g, w)
    <2>1. n <= Len(f)
      BY <1>1, <1>2, <1>4
    <2> QED  BY <1>1, <1>2, <1>3, <1>4, <2>1 DEF ToBeRead, GoesOnWith
  <1>7. /\ o + w <= Len(t)
        /\ h = SubSeq(f, 1, n + w)
        /\ Len(SubSeq(f, 1, n + w)) = n + w
        /\ Beyond(t, o + w) = Beyond(f, n + w) \o b
    <2>1. IsRead(t, o, f, b, n, g, w)
      BY <1>6, PartOfField
    <2> QED  BY <2>1 DEF IsRead
  <1> HIDE DEF h
  <1>8. /\ Len(h) = n + w /\ Len(h) <= Len(f) /\ h = SubSeq(f, 1, Len(h))
        /\ Beyond(t, o + w) = Beyond(f, Len(h)) \o b
    BY <1>4, <1>7
  <1> QED  BY <1>5, <1>7, <1>8 DEF Awaits, PartIsRead, f, b, n, h, l, e

(* The field is read to its end, and is not the last of its call.          *)
LEMMA NextField ==
    ASSUME NEW p, NEW t, NEW o, NEW cs, NEW vs, Awaiting(p, t, o, cs, vs),
           NEW g \in Seq(AdviceByte), Awaits(p, t, o, cs, vs, g),
           Len(g) = Len(FieldNext(p, cs, vs)), Len(vs) + 1 # Len(p[Head(cs)].fields)
    PROVE  Awaits(p, t, o, cs, Append(vs, g), <<>>)
  <1> DEFINE r == ResultOf(p, Head(cs))
             f == FieldNext(p, cs, vs)
             e == WrittenBy(p, Tail(cs))
             k == Len(vs) + 1
             us == Append(vs, g)
             l == FlattenSeq(Beyond(r, k))
  <1>1. /\ r \in Seq(Seq(AdviceByte)) /\ k \in 1 .. Len(r) /\ Len(r) = Len(p[Head(cs)].fields)
        /\ f \in Seq(AdviceByte) /\ e \in Seq(AdviceByte) /\ l \in Seq(AdviceByte)
    BY AwaitedParts
  <1>2. /\ vs = SubSeq(r, 1, Len(vs)) /\ g = SubSeq(f, 1, Len(g)) /\ Len(g) = Len(f)
        /\ Beyond(t, o) = Beyond(f, Len(g)) \o (l \o e) /\ f = r[k]
    BY DEF Awaits, FieldNext
  <1>3. vs \in Seq(Seq(AdviceByte)) /\ Len(vs) \in Nat /\ k # Len(p[Head(cs)].fields)
    BY DEF Awaiting
  <1> HIDE DEF r, f, e, l
  <1>4. g = f /\ Beyond(t, o) = l \o e
    <2>1. SubSeq(f, 1, Len(f)) = f /\ Beyond(f, Len(f)) = <<>>
      BY <1>1, BeyondNothing
    <2>2. l \o e \in Seq(AdviceByte)
      BY <1>1
    <2>3. <<>> \o (l \o e) = l \o e
      BY <2>2
    <2> QED  BY <1>2, <2>1, <2>3
  <1>5. us = SubSeq(r, 1, k) /\ Len(us) = k
    <2>1. Append(SubSeq(r, 1, Len(vs)), r[Len(vs) + 1]) = SubSeq(r, 1, Len(vs) + 1)
      BY SMTT(30), <1>1, <1>3
    <2>2. us = SubSeq(r, 1, k)
      BY <1>2, <1>4, <2>1
    <2> QED  BY <1>3, <2>2
  <1>6. k + 1 \in 1 .. Len(r)
    BY <1>1, <1>3
  <1>7. l = r[k + 1] \o FlattenSeq(Beyond(r, k + 1)) /\ FlattenSeq(Beyond(r, k + 1)) \in Seq(AdviceByte)
    <2>1. FlattenSeq(SubSeq(r, k + 1, Len(r))) =
             r[k + 1] \o FlattenSeq(SubSeq(r, k + 1 + 1, Len(r)))
      BY <1>1, <1>6, FlattenFrom
    <2>2. SubSeq(r, k + 1 + 1, Len(r)) \in Seq(Seq(AdviceByte))
      BY <1>1, <1>6, PartIs
    <2> QED  BY <2>1, <2>2, FlattenTyped DEF Beyond, l
  <1>8. FieldNext(p, cs, us) = r[k + 1]
    BY <1>5 DEF FieldNext, r
  <1> HIDE DEF us, k
  <1> DEFINE u == r[k + 1]
             x == FlattenSeq(Beyond(r, k + 1))
  <1>9. u \in Seq(AdviceByte) /\ x \in Seq(AdviceByte) /\ l = u \o x
    BY <1>1, <1>6, <1>7
  <1> HIDE DEF u, x
  <1>10. Beyond(t, o) = Beyond(u, 0) \o (x \o e) /\ SubSeq(u, 1, 0) = <<>> /\ Len(<<>>) = 0
         /\ 0 <= Len(u)
    <2>1. (u \o x) \o e = u \o (x \o e)
      <3>1. u \in Seq(AdviceByte) /\ x \in Seq(AdviceByte) /\ e \in Seq(AdviceByte)
        BY <1>1, <1>9
      <3> QED  BY SMTT(30), <3>1, ConcatGroups
    <2>2. Beyond(u, 0) = u /\ SubSeq(u, 1, 0) = <<>>
      BY <1>9, BeyondNothing
    <2>3. 0 <= Len(u) /\ Len(<<>>) = 0
      BY <1>9
    <2> QED  BY <1>4, <1>9, <2>1, <2>2, <2>3
  <1>11. FieldNext(p, cs, us) = u
    BY <1>8 DEF u
  <1>12. us = SubSeq(r, 1, Len(us)) /\ x = FlattenSeq(Beyond(r, Len(us) + 1))
    BY <1>5 DEF x
  <1>13. Awaits(p, t, o, cs, us, <<>>)
    BY <1>10, <1>11, <1>12 DEF Awaits, r, e
  <1> QED  BY <1>13 DEF us

(* The last field of a call is read to its end: what is left of the tape   *)
(* is what the calls write that are left.                                  *)
LEMMA LastFieldRead ==
    ASSUME NEW p, NEW t, NEW o, NEW cs, NEW vs, Awaiting(p, t, o, cs, vs),
           NEW g \in Seq(AdviceByte), Awaits(p, t, o, cs, vs, g),
           Len(g) = Len(FieldNext(p, cs, vs)), Len(vs) + 1 = Len(p[Head(cs)].fields)
    PROVE  Beyond(t, o) = WrittenBy(p, Tail(cs))
  <1> DEFINE r == ResultOf(p, Head(cs))
             f == FieldNext(p, cs, vs)
             e == WrittenBy(p, Tail(cs))
             k == Len(vs) + 1
             l == FlattenSeq(Beyond(r, k))
  <1>1. /\ r \in Seq(Seq(AdviceByte)) /\ Len(r) = k
        /\ f \in Seq(AdviceByte) /\ e \in Seq(AdviceByte)
    BY AwaitedParts
  <1>2. Len(g) = Len(f) /\ Beyond(t, o) = Beyond(f, Len(g)) \o (l \o e)
    BY DEF Awaits
  <1> HIDE DEF r, f, e, k
  <1>3. l = <<>>
    <2>1. Beyond(r, Len(r)) = <<>>
      BY <1>1, BeyondNothing
    <2> QED  BY <1>1, <2>1, FlattenNothing
  <1>4. Beyond(f, Len(f)) = <<>>
    BY <1>1, BeyondNothing
  <1>5. <<>> \o (<<>> \o e) = e
    BY <1>1
  <1> QED  BY <1>2, <1>3, <1>4, <1>5 DEF e

(* What is read of the field that comes next.                              *)
GotOf(m) == IF m.slice = <<>> THEN <<>> ELSE m.slice[1].got
BytesRead(rows) == [i \in DOMAIN rows |-> rows[i].bytes[1]]

(* A machine that has read what was written so far, and finds the rest.    *)
AdviceExact(p, t, m, rows) ==
    /\ m.status = "running"
    /\ BytesRead(rows) \in Seq(Seq(AdviceByte))
    /\ FlattenSeq(BytesRead(rows)) = SubSeq(t, 1, m.position)
    /\ m.calls = <<>> => m.position = Len(t) /\ m.slice = <<>>
    /\ m.calls # <<>> =>
          /\ Awaits(p, t, m.position, m.calls, m.values, GotOf(m))
          /\ m.slice # <<>> =>
                m.slice[1].remaining = Len(FieldNext(p, m.calls, m.values)) - Len(GotOf(m))

(* A machine within a call is in a place of that kind.                     *)
LEMMA MachineAwaits ==
    ASSUME NEW p, NEW t \in Seq(AdviceByte), AdviceProgram(p), NEW m,
           AdviceMachine(p, t, m), m.calls # <<>>
    PROVE  /\ Awaiting(p, t, m.position, m.calls, m.values)
           /\ GotOf(m) \in Seq(AdviceByte)
  <1>1. /\ m.position \in 0 .. Len(t) /\ m.calls \in Seq(DOMAIN p)
        /\ m.values \in Seq(Seq(AdviceByte)) /\ Len(m.values) < Len(p[Head(m.calls)].fields)
        /\ m.slice # <<>> => SliceOK(m.slice[1])
    BY DEF AdviceMachine
  <1>2. Awaiting(p, t, m.position, m.calls, m.values)
    BY <1>1 DEF Awaiting
  <1>3. GotOf(m) \in Seq(AdviceByte)
    <2>1. m.slice # <<>> => m.slice[1].got \in Seq(AdviceByte)
      BY <1>1 DEF SliceOK
    <2>2. <<>> \in Seq(AdviceByte)
      OBVIOUS
    <2> QED  BY <2>1, <2>2 DEF GotOf
  <1> QED  BY <1>2, <1>3

(* The machine that gets the tape awaits its first call.                   *)
LEMMA ExactBoots ==
    ASSUME AdviceProgram(program), NEW t \in Seq(AdviceByte),
           CallsOfMain(program) \in Seq(DOMAIN program)
    PROVE  /\ AdviceMachine(program, t, BootedWithTape(t))
           /\ WrittenBy(program, CallsOfMain(program)) = t =>
                 AdviceExact(program, t, BootedWithTape(t), <<>>)
  <1> DEFINE cs == CallsOfMain(program)
             b == MachineOf(t, 0, cs, <<>>, <<>>, "running")
  <1>1. BootedWithTape(t) = b
    BY DEF BootedWithTape, MachineOf
  <1>2. cs \in Seq(DOMAIN program)
    OBVIOUS
  <1>3. b.position = 0 /\ b.calls = cs /\ b.values = <<>> /\ b.slice = <<>> /\ b.status = "running"
    BY DEF MachineOf
  <1> HIDE DEF cs
  <1>4. Len(t) \in Nat /\ 0 \in 0 .. Len(t)
    OBVIOUS
  <1>5. ASSUME cs # <<>>
        PROVE  Head(cs) \in DOMAIN program /\ 0 < Len(program[Head(cs)].fields)
    <2> DEFINE D == DOMAIN program
               f == program[Head(cs)].fields
    <2>1. cs \in Seq(D)
      BY <1>2
    <2> HIDE DEF D
    <2>2. Head(cs) \in D
      BY <1>5, <2>1
    <2>3. f \in Seq(AdviceField) /\ f # <<>>
      BY <2>2 DEF D, AdviceProgram
    <2> HIDE DEF f
    <2>4. 0 < Len(f)
      BY <2>3
    <2> QED  BY <2>2, <2>4 DEF D, f
  <1>6. Len(<<>>) = 0 /\ <<>> \in Seq(Seq(AdviceByte))
    OBVIOUS
  <1>7. AdviceMachine(program, t, b)
    <2>1. cs # <<>> => Len(<<>>) < Len(program[Head(cs)].fields)
      BY <1>5, <1>6
    <2> QED  BY <1>2, <1>4, <1>6, <2>1, MachineIs
  <1>8. ASSUME WrittenBy(program, cs) = t
        PROVE  AdviceExact(program, t, b, <<>>)
    <2>1. BytesRead(<<>>) = <<>>
      BY DEF BytesRead
    <2>2. FlattenSeq(<<>>) = SubSeq(t, 1, 0) /\ Beyond(t, 0) = t
      BY FlattenNothing, BeyondNothing
    <2>3. cs = <<>> => Len(t) = 0
      BY <1>8, <1>6, NothingWritten
    <2>4. ASSUME cs # <<>>
          PROVE  Awaits(program, t, 0, cs, <<>>, <<>>)
      <3>1. Awaiting(program, t, 0, cs, <<>>)
        BY <1>2, <1>4, <1>5, <1>6, <2>4 DEF Awaiting
      <3> QED  BY <1>8, <2>2, <3>1, CallBegins
    <2>5. GotOf(b) = <<>>
      BY <1>3 DEF GotOf
    <2> HIDE DEF b
    <2> QED  BY <1>3, <1>6, <2>1, <2>2, <2>3, <2>4, <2>5 DEF AdviceExact
  <1> QED  BY <1>1, <1>7, <1>8 DEF cs

(* The length of a Vec says what it is: a byte tells where it was computed.*)
LEMMA LengthReadExact ==
    ASSUME AdviceProgram(program), NEW m, NEW c \in DOMAIN program,
           NEW j \in DOMAIN program[c].fields, program[c].fields[j].contents,
           m.values[Len(m.values) - 1] = [n \in 1 .. 8 |-> <<c, j - 2, n>>]
    PROVE  LengthRead(m) = {program[c].fields[j].size}
  <1>1. ASSUME NEW d \in DOMAIN program, NEW k \in DOMAIN program[d].fields,
               m.values[Len(m.values) - 1] = Bytes(d, k - 2, 8)
        PROVE  d = c /\ k = j
    <2>1. m.values[Len(m.values) - 1] = [n \in 1 .. 8 |-> <<d, k - 2, n>>]
      BY <1>1 DEF Bytes
    <2>2. [n \in 1 .. 8 |-> <<d, k - 2, n>>][1] = [n \in 1 .. 8 |-> <<c, j - 2, n>>][1]
      BY <2>1
    <2>3. <<d, k - 2, 1>> = <<c, j - 2, 1>>
      BY <2>2
    <2>4. d = c /\ k - 2 = j - 2
      BY <2>3
    <2>5. j \in Nat /\ k \in Nat
      <3>1. program[c].fields \in Seq(AdviceField) /\ program[d].fields \in Seq(AdviceField)
        BY DEF AdviceProgram
      <3>2. DOMAIN program[c].fields \subseteq Nat /\ DOMAIN program[d].fields \subseteq Nat
        BY SMTT(30), <3>1
      <3> QED  BY <3>2
    <2> QED  BY <2>4, <2>5
  <1>2. m.values[Len(m.values) - 1] = Bytes(c, j - 2, 8)
    BY DEF Bytes
  <1> DEFINE Of(d) == {k \in DOMAIN program[d].fields :
                          /\ program[d].fields[k].contents
                          /\ m.values[Len(m.values) - 1] = Bytes(d, k - 2, 8)}
  <1>3. ASSUME NEW d \in DOMAIN program, NEW k \in Of(d)
        PROVE  d = c /\ k = j
    BY <1>1
  <1>4. j \in Of(c)
    BY <1>2
  <1>5. LengthRead(m) = UNION {{program[d].fields[k].size : k \in Of(d)} : d \in DOMAIN program}
    BY DEF LengthRead
  <1> HIDE DEF Of
  <1> QED  BY <1>3, <1>4, <1>5

(* A slice is begun with the size of the field that is awaited.            *)
LEMMA SizesExact ==
    ASSUME AdviceProgram(program), NEW t \in Seq(AdviceByte), NEW m,
           AdviceMachine(program, t, m), m.calls # <<>>,
           Awaits(program, t, m.position, m.calls, m.values, <<>>)
    PROVE  SizesOf(m) = {Len(FieldNext(program, m.calls, m.values))}
  <1> DEFINE c == Head(m.calls)
             k == Len(m.values)
             j == k + 1
             r == ResultOf(program, c)
  <1>1. c \in DOMAIN program /\ j \in DOMAIN program[c].fields
    BY FieldOfCall
  <1>2. FieldOf(m) = program[c].fields[j]
    BY DEF FieldOf
  <1>3. m.values = SubSeq(r, 1, k) /\ FieldNext(program, m.calls, m.values) = r[j]
    BY DEF Awaits, FieldNext
  <1>4. k \in Nat
    BY DEF AdviceMachine
  <1> HIDE DEF c, k
  <1>5. program[c].fields \in Seq(AdviceField)
    BY <1>1 DEF AdviceProgram
  <1>6. j \in 1 .. Len(program[c].fields)
    BY <1>1, <1>5
  <1>7. /\ r \in Seq(Seq(AdviceByte)) /\ Len(r) = Len(program[c].fields)
        /\ Len(r[j]) = program[c].fields[j].size
        /\ \A i \in 1 .. Len(program[c].fields) :
              r[i] = [n \in 1 .. program[c].fields[i].size |-> <<c, i, n>>]
    <2>1. /\ r \in Seq(Seq(AdviceByte)) /\ Len(r) = Len(program[c].fields)
          /\ \A i \in 1 .. Len(program[c].fields) :
                /\ r[i] = [n \in 1 .. program[c].fields[i].size |-> <<c, i, n>>]
                /\ Len(r[i]) = program[c].fields[i].size
      BY <1>1, ResultTyped
    <2> HIDE DEF r, j
    <2> QED  BY <1>6, <2>1
  <1> HIDE DEF r
  <1>8. CASE ~program[c].fields[j].contents
    BY <1>2, <1>3, <1>7, <1>8 DEF SizesOf
  <1>9. CASE program[c].fields[j].contents
    <2>1. j > 2 /\ program[c].fields[j - 2].size = 8
      BY <1>1, <1>9 DEF AdviceProgram
    <2>2. j - 2 \in 1 .. Len(program[c].fields) /\ k - 1 \in 1 .. k /\ k <= Len(r) /\ k - 1 = j - 2
      <3>1. \A l \in Nat : k + 1 \in 1 .. l /\ k + 1 > 2 =>
               (k + 1) - 2 \in 1 .. l /\ k - 1 \in 1 .. k /\ k <= l /\ k - 1 = (k + 1) - 2
        BY <1>4
      <3>2. Len(program[c].fields) \in Nat
        BY <1>5
      <3> QED  BY <1>6, <1>7, <2>1, <3>1, <3>2
    <2>3. SubSeq(r, 1, k)[k - 1] = r[k - 1]
      BY <1>4, <1>7, <2>2
    <2>4. r[j - 2] = [n \in 1 .. 8 |-> <<c, j - 2, n>>]
      BY <1>7, <2>1, <2>2
    <2>5. m.values[Len(m.values) - 1] = [n \in 1 .. 8 |-> <<c, j - 2, n>>]
      BY <1>3, <2>2, <2>3, <2>4 DEF k
    <2> HIDE DEF j
    <2>6. LengthRead(m) = {program[c].fields[j].size}
      BY <1>1, <1>9, <2>5, LengthReadExact
    <2> QED  BY <1>2, <1>3, <1>7, <1>9, <2>6 DEF SizesOf
  <1> QED  BY <1>8, <1>9

(* A machine with no slice in hand begins the one it awaits.               *)
LEMMA ExactBegins ==
    ASSUME AdviceProgram(program), NEW t \in Seq(AdviceByte), NEW m, NEW rows,
           AdviceMachine(program, t, m), AdviceExact(program, t, m, rows),
           m.calls # <<>>, m.slice = <<>>
    PROVE  AdviceExact(program, t, BeginSlice(m), rows)
  <1> DEFINE l == Len(FieldNext(program, m.calls, m.values))
             s == SliceOf(FieldOf(m).at, l)
             b == MachineOf(t, m.position, m.calls, m.values, <<s>>, m.status)
  <1>1. GotOf(m) = <<>>
    BY DEF GotOf
  <1>2. Awaits(program, t, m.position, m.calls, m.values, <<>>)
    BY <1>1 DEF AdviceExact
  <1>3. SizesOf(m) = {l}
    BY <1>2, SizesExact
  <1>4. BeginSlice(m) = b
    <2> HIDE DEF l
    <2>1. SizesOf(m) # {} /\ \A size \in SizesOf(m) : size = l
      BY <1>3
    <2>2. \E size \in SizesOf(m) :
             BeginSlice(m) = MachineOf(t, m.position, m.calls, m.values,
                                       <<SliceOf(FieldOf(m).at, size)>>, m.status)
      BY <2>1, SliceBegins
    <2> QED  BY <2>1, <2>2
  <1>5. s.got = <<>> /\ s.remaining = l
    BY DEF SliceOf
  <1>6. l \in Nat /\ l - 0 = l
    <2>1. FieldNext(program, m.calls, m.values) \in Seq(AdviceByte)
      BY MachineAwaits, AwaitedParts
    <2> QED  BY <2>1
  <1> HIDE DEF s
  <1>7. /\ b.position = m.position /\ b.calls = m.calls /\ b.values = m.values
        /\ b.slice = <<s>> /\ b.status = m.status
    BY DEF MachineOf
  <1> HIDE DEF b
  <1>8. b.slice # <<>> /\ b.slice[1] = s /\ GotOf(b) = <<>>
    BY <1>5, <1>7 DEF GotOf
  <1>9. b.slice[1].remaining = l - Len(GotOf(b))
    <2>1. Len(<<>>) = 0
      OBVIOUS
    <2> HIDE DEF l
    <2> QED  BY <1>5, <1>6, <1>8, <2>1
  <1>10. /\ m.status = "running" /\ BytesRead(rows) \in Seq(Seq(AdviceByte))
         /\ FlattenSeq(BytesRead(rows)) = SubSeq(t, 1, m.position)
    BY DEF AdviceExact
  <1> QED  BY <1>2, <1>4, <1>7, <1>8, <1>9, <1>10 DEF AdviceExact

(* The bytes that one row more reads.                                      *)
LEMMA BytesReadMore ==
    ASSUME NEW rows \in Seq(AdviceRow), BytesRead(rows) \in Seq(Seq(AdviceByte)), NEW row,
           NEW x \in Seq(AdviceByte), row.bytes = <<x>>
    PROVE  /\ BytesRead(rows \o <<row>>) \in Seq(Seq(AdviceByte))
           /\ FlattenSeq(BytesRead(rows \o <<row>>)) = FlattenSeq(BytesRead(rows)) \o x
  <1> DEFINE b == BytesRead(rows)
             c == BytesRead(rows \o <<row>>)
  <1>1. row.bytes[1] = x
    OBVIOUS
  <1>2. c = Append(b, x)
    <2>1. DOMAIN b = 1 .. Len(rows) /\ Len(b) = Len(rows)
      BY DEF BytesRead
    <2>2. DOMAIN c = 1 .. Len(rows) + 1
      BY DEF BytesRead
    <2>3. \A i \in 1 .. Len(rows) : c[i] = b[i]
      BY DEF BytesRead
    <2>4. c[Len(rows) + 1] = x
      BY <1>1 DEF BytesRead
    <2>0. b \in Seq(Seq(AdviceByte))
      OBVIOUS
    <2>5. DOMAIN Append(b, x) = 1 .. Len(rows) + 1 /\ Append(b, x)[Len(rows) + 1] = x
          /\ \A i \in 1 .. Len(rows) : Append(b, x)[i] = b[i]
      <3> HIDE DEF b
      <3> QED  BY <2>0, <2>1
    <2>6. c = [i \in 1 .. Len(rows) + 1 |-> c[i]]
      BY <2>2 DEF BytesRead
    <2>7. Append(b, x) = [i \in 1 .. Len(rows) + 1 |-> Append(b, x)[i]]
      <3> HIDE DEF b
      <3>1. Append(b, x) \in Seq(Seq(AdviceByte)) /\ DOMAIN Append(b, x) = 1 .. Len(rows) + 1
        BY <2>0, <2>1
      <3> DEFINE a == Append(b, x)
      <3>2. a \in Seq(Seq(AdviceByte)) /\ DOMAIN a = 1 .. Len(rows) + 1
        BY <3>1
      <3> HIDE DEF a
      <3>3. a = [i \in 1 .. Len(rows) + 1 |-> a[i]]
        BY <3>2
      <3> QED  BY <3>3 DEF a
    <2>8. Len(rows) \in Nat
      OBVIOUS
    <2> HIDE DEF b, c
    <2>9. ASSUME NEW i \in 1 .. Len(rows) + 1
          PROVE  c[i] = Append(b, x)[i]
      BY <2>3, <2>4, <2>5, <2>8
    <2> QED  BY <2>6, <2>7, <2>9
  <1> HIDE DEF b, c
  <1>3. b \in Seq(Seq(AdviceByte))
    BY DEF b
  <1>4. FlattenSeq(Append(b, x)) = FlattenSeq(b) \o x /\ Append(b, x) \in Seq(Seq(AdviceByte))
    BY <1>3, FlattenAppend
  <1> QED  BY <1>2, <1>4 DEF b, c

(* A chunk of what it awaits is read, and never one that is not there.     *)
LEMMA ExactReads ==
    ASSUME AdviceProgram(program), NEW t \in Seq(AdviceByte), NEW m,
           NEW rows \in Seq(AdviceRow),
           AdviceMachine(program, t, m), AdviceExact(program, t, m, rows),
           m.calls # <<>>, Reading(m)
    PROVE  AdviceExact(program, t, ReadChunk(m), rows \o <<RowOf(m)>>)
  <1> DEFINE s == m.slice[1]
             w == Width(s)
             o == m.position
             x == SubSeq(t, o + 1, o + w)
             f == FieldNext(program, m.calls, m.values)
             g == GotOf(m)
             u == RestOfSlice(m)
             b == MachineOf(t, o + w, m.calls, m.values, <<u>>, m.status)
             row == RowOf(m)
  <1>1. m.slice # <<>> /\ s.remaining > 0
    BY DEF Reading
  <1>2. SliceOK(s) /\ g = s.got /\ m.position \in 0 .. Len(t) /\ m.tape = t
    BY <1>1, TapeOfMachine DEF AdviceMachine, GotOf
  <1>3. /\ Awaits(program, t, o, m.calls, m.values, g) /\ s.remaining = Len(f) - Len(g)
        /\ m.status = "running" /\ BytesRead(rows) \in Seq(Seq(AdviceByte))
        /\ FlattenSeq(BytesRead(rows)) = SubSeq(t, 1, o)
    BY <1>1 DEF AdviceExact
  <1>4. Awaiting(program, t, o, m.calls, m.values) /\ g \in Seq(AdviceByte)
    BY MachineAwaits
  <1>5. f \in Seq(AdviceByte)
    BY <1>4, AwaitedParts
  <1>6. w \in {1, 2, 4, 8} /\ w <= s.remaining
    <2> HIDE DEF s
    <2> QED  BY <1>1, <1>2, WidthFits DEF w
  <1> HIDE DEF s, w, f, g, o
  <1>7. w \in Nat /\ Len(g) + w <= Len(f) /\ Len(g) \in Nat /\ Len(f) \in Nat
    BY <1>3, <1>4, <1>5, <1>6
  <1>8. /\ o + w <= Len(t)
        /\ Awaits(program, t, o + w, m.calls, m.values, g \o x)
        /\ Len(g \o x) = Len(g) + w
    <2>1. Awaiting(program, t, o, m.calls, m.values) /\ Awaits(program, t, o, m.calls, m.values, g)
      BY <1>3, <1>4
    <2>2. ReadsPart(program, t, o, m.calls, m.values, g, w)
      BY <1>4, <1>7, <2>1 DEF f, ReadsPart
    <2>3. PartIsRead(program, t, o, m.calls, m.values, g, w)
      BY <2>2, PartRead
    <2> QED  BY <2>3 DEF PartIsRead
  <1>9. Read(m, w) = <<x>>
    BY <1>2, <1>7, <1>8, ReadTyped DEF o
  <1>10. ChunkOf(m) = <<x>> /\ row.bytes = <<x>>
    BY <1>9 DEF ChunkOf, w, s, RowOf
  <1>11. x \in Seq(AdviceByte)
    <2>1. o \in Nat /\ o + w \in Nat /\ o <= o + w
      BY <1>2, <1>7 DEF o
    <2> QED  BY <1>8, <2>1, PartIs
  <1>12. ReadChunk(m) = b
    <2>1. ChunkOf(m) # <<>>
      BY <1>10
    <2> QED  BY <2>1, ChunkRead DEF w, s, o
  <1>13. u.got = g \o x /\ u.remaining = s.remaining - w
    <2>1. ChunkOf(m)[1] = x
      <3>1. ChunkOf(m) = <<x>>
        BY <1>10
      <3> HIDE DEF x
      <3> QED  BY <3>1
    <2>2. u.got = m.slice[1].got \o ChunkOf(m)[1] /\ u.remaining = s.remaining - w
      BY DEF RestOfSlice, w, s
    <2> QED  BY <1>2, <2>1, <2>2 DEF s
  <1> HIDE DEF x, u, row
  <1>14. /\ b.position = o + w /\ b.calls = m.calls /\ b.values = m.values
         /\ b.slice = <<u>> /\ b.status = m.status
    BY DEF MachineOf
  <1> HIDE DEF b
  <1>15. b.slice # <<>> /\ b.slice[1] = u /\ GotOf(b) = g \o x
    BY <1>13, <1>14 DEF GotOf
  <1>16. b.slice[1].remaining = Len(f) - Len(GotOf(b))
    <2>1. (Len(f) - Len(g)) - w = Len(f) - (Len(g) + w)
      BY <1>7
    <2> QED  BY <1>3, <1>8, <1>13, <1>15, <2>1
  <1>17. /\ BytesRead(rows \o <<row>>) \in Seq(Seq(AdviceByte))
         /\ FlattenSeq(BytesRead(rows \o <<row>>)) = SubSeq(t, 1, o + w)
    <2>1. /\ BytesRead(rows \o <<row>>) \in Seq(Seq(AdviceByte))
          /\ FlattenSeq(BytesRead(rows \o <<row>>)) = FlattenSeq(BytesRead(rows)) \o x
      BY <1>3, <1>10, <1>11, BytesReadMore
    <2>2. o \in Nat /\ o + w \in Nat /\ o <= o + w
      BY <1>2, <1>7 DEF o
    <2>3. SubSeq(t, 1, o) \o SubSeq(t, o + 1, o + w) = SubSeq(t, 1, o + w)
      BY <1>8, <2>2, BeginningGoesOn
    <2> QED  BY <1>3, <2>1, <2>3 DEF x
  <1>18. AdviceExact(program, t, b, rows \o <<row>>)
    <2>1. FieldNext(program, b.calls, b.values) = f
      BY <1>14 DEF f
    <2>2. Awaits(program, t, b.position, b.calls, b.values, GotOf(b))
      BY <1>8, <1>14, <1>15
    <2>3. b.status = "running" /\ b.calls # <<>>
      BY <1>3, <1>14
    <2> QED  BY <1>14, <1>16, <1>17, <2>1, <2>2, <2>3 DEF AdviceExact
  <1> QED  BY <1>12, <1>18 DEF row

(* A slice is read to its end: the next field is awaited, or the next call,*)
(* or there is nothing more to be read.                                    *)
LEMMA ExactEnds ==
    ASSUME AdviceProgram(program), NEW t \in Seq(AdviceByte), NEW m, NEW rows,
           AdviceMachine(program, t, m), AdviceExact(program, t, m, rows),
           m.calls # <<>>, m.slice # <<>>, ~Reading(m)
    PROVE  AdviceExact(program, t, EndSlice(m), rows)
  <1> DEFINE s == m.slice[1]
             o == m.position
             f == FieldNext(program, m.calls, m.values)
             g == GotOf(m)
             v == ValuesNext(m)
             c == CallsNext(m)
             b == MachineOf(t, o, c, v, <<>>, m.status)
  <1>1. /\ Awaits(program, t, o, m.calls, m.values, g) /\ s.remaining = Len(f) - Len(g)
        /\ m.status = "running" /\ BytesRead(rows) \in Seq(Seq(AdviceByte))
        /\ FlattenSeq(BytesRead(rows)) = SubSeq(t, 1, o)
    BY DEF AdviceExact
  <1>2. Awaiting(program, t, o, m.calls, m.values) /\ g \in Seq(AdviceByte) /\ g = s.got
    BY MachineAwaits DEF GotOf
  <1>3. f \in Seq(AdviceByte) /\ Head(m.calls) \in DOMAIN program /\ Tail(m.calls) \in Seq(DOMAIN program)
    BY <1>2, AwaitedParts
  <1>4. s.remaining \in Nat /\ ~(s.remaining > 0) /\ m.position \in 0 .. Len(t)
    <2>1. SliceOK(s) /\ m.position \in 0 .. Len(t)
      BY DEF AdviceMachine
    <2> QED  BY <2>1 DEF Reading, SliceOK, Aligning
  <1> HIDE DEF s, f, g
  <1>5. Len(g) = Len(f)
    BY <1>1, <1>2, <1>3, <1>4
  <1>6. EndSlice(m) = b
    BY SliceEnds
  <1>7. AdviceMachine(program, t, b)
    BY <1>6, EndKeeps
  <1>8. /\ b.position = o /\ b.calls = c /\ b.values = v
        /\ b.slice = <<>> /\ b.status = m.status
    BY DEF MachineOf
  <1>9. GotOf(b) = <<>>
    BY <1>8 DEF GotOf
  <1>10. (c = <<>> => o = Len(t)) /\ (c # <<>> => Awaits(program, t, o, c, v, <<>>))
    <2>1. CASE ~LastField(m)
      <3>1. c = m.calls /\ v = Append(m.values, g)
        BY <1>2, <2>1 DEF CallsNext, ValuesNext, s
      <3>2. Len(m.values) + 1 # Len(program[Head(m.calls)].fields)
        BY <2>1 DEF LastField
      <3>3. Awaits(program, t, o, m.calls, Append(m.values, g), <<>>)
        BY <1>1, <1>2, <1>5, <3>2, NextField DEF f
      <3> QED  BY <3>1, <3>3
    <2>2. CASE LastField(m)
      <3>1. c = Tail(m.calls) /\ v = <<>>
        BY <2>2 DEF CallsNext, ValuesNext
      <3>2. Len(m.values) + 1 = Len(program[Head(m.calls)].fields)
        BY <2>2 DEF LastField
      <3>3. Beyond(t, o) = WrittenBy(program, c)
        <4>1. Awaiting(program, t, o, m.calls, m.values) /\ Awaits(program, t, o, m.calls, m.values, g)
          BY <1>1, <1>2
        <4>2. g \in Seq(AdviceByte) /\ Len(g) = Len(FieldNext(program, m.calls, m.values))
          BY <1>2, <1>5 DEF f
        <4>3. Beyond(t, o) = WrittenBy(program, Tail(m.calls))
          BY <3>2, <4>1, <4>2, LastFieldRead
        <4> QED  BY <3>1, <4>3
      <3>4. ASSUME c = <<>>
            PROVE  o = Len(t)
        <4>1. Beyond(t, o) = <<>>
          BY <3>3, <3>4, NothingWritten
        <4>2. Len(Beyond(t, o)) = Len(t) - o
          <5>1. o \in Nat /\ Len(t) \in Nat /\ o <= Len(t)
            BY <1>4
          <5> QED  BY <5>1, PartIs DEF Beyond
        <4> QED  BY <1>4, <4>1, <4>2
      <3>5. ASSUME c # <<>>
            PROVE  Awaits(program, t, o, c, v, <<>>)
        <4>1. Awaiting(program, t, o, c, <<>>)
          <5>1. c # <<>> => Len(v) < Len(program[Head(c)].fields)
            BY <1>7, <1>8 DEF AdviceMachine
          <5>2. c \in Seq(DOMAIN program) /\ <<>> \in Seq(Seq(AdviceByte))
            BY <1>3, <3>1
          <5> HIDE DEF c, v, b
          <5> QED  BY <1>4, <3>1, <3>5, <5>1, <5>2 DEF Awaiting
        <4> QED  BY <3>1, <3>3, <4>1, CallBegins
      <3> QED  BY <3>4, <3>5
    <2> QED  BY <2>1, <2>2
  <1> HIDE DEF b, c, v
  <1> QED  BY <1>1, <1>6, <1>8, <1>9, <1>10 DEF AdviceExact

(* The types of what is read, step by step.                                *)
LEMMA ExactSteps ==
    ASSUME AdviceProgram(program), NEW t \in Seq(AdviceByte), NEW m,
           NEW rows \in Seq(AdviceRow),
           AdviceMachine(program, t, m), AdviceExact(program, t, m, rows), m.calls # <<>>
    PROVE  AdviceExact(program, t, ReadStep(m), rows \o RowsOf(m))
  <1>1. CASE m.slice = <<>>
    <2>1. ReadStep(m) = BeginSlice(m) /\ RowsOf(m) = <<>>
      BY <1>1 DEF ReadStep, RowsOf, Reading
    <2>2. rows \o <<>> = rows
      OBVIOUS
    <2> QED  BY <1>1, <2>1, <2>2, ExactBegins
  <1>2. CASE Reading(m)
    <2>1. ReadStep(m) = ReadChunk(m) /\ RowsOf(m) = <<RowOf(m)>>
      BY <1>2 DEF ReadStep, RowsOf, Reading
    <2> QED  BY <1>2, <2>1, ExactReads
  <1>3. CASE m.slice # <<>> /\ ~Reading(m)
    <2>1. ReadStep(m) = EndSlice(m) /\ RowsOf(m) = <<>>
      BY <1>3 DEF ReadStep, RowsOf
    <2>2. rows \o <<>> = rows
      OBVIOUS
    <2> QED  BY <1>3, <2>1, <2>2, ExactEnds
  <1> QED  BY <1>1, <1>2, <1>3

-----------------------------------------------------------------------------
(* The bytes that the results of a program hold.                           *)
BytesOf(p) == UNION {ToSet(FlattenSeq(ResultOf(p, c))) : c \in DOMAIN p}

(* They are known by where they were computed.                             *)
LEMMA BytesOfTyped ==
    ASSUME NEW p, AdviceProgram(p)
    PROVE  BytesOf(p) \subseteq AdviceByte
  <1> SUFFICES ASSUME NEW c \in DOMAIN p
               PROVE  ToSet(FlattenSeq(ResultOf(p, c))) \subseteq AdviceByte
    BY DEF BytesOf
  <1>1. ResultOf(p, c) \in Seq(Seq(AdviceByte))
    BY ResultTyped
  <1> DEFINE s == FlattenSeq(ResultOf(p, c))
  <1>2. s \in Seq(AdviceByte)
    BY <1>1, FlattenTyped
  <1> HIDE DEF s
  <1>3. ToSet(s) \subseteq AdviceByte
    BY <1>2 DEF ToSet
  <1> QED  BY <1>3 DEF s

(* A sequence is one of a set that has its elements.                       *)
LEMMA SeqWithin ==
    ASSUME NEW S, NEW s \in Seq(S), NEW T, \A i \in 1 .. Len(s) : s[i] \in T
    PROVE  s \in Seq(T)
  <1>1. PICK n \in Nat : n = Len(s) /\ s = [i \in 1 .. n |-> s[i]]
    OBVIOUS
  <1>2. \A i \in 1 .. n : s[i] \in T
    BY <1>1
  <1>3. s \in [1 .. n -> T]
    BY <1>1, <1>2
  <1> QED  BY <1>1, <1>3

(* Calls write bytes of their results.                                     *)
LEMMA WrittenBytes ==
    ASSUME NEW p, AdviceProgram(p), NEW cs \in Seq(DOMAIN p)
    PROVE  WrittenBy(p, cs) \in Seq(BytesOf(p))
  <1> DEFINE D == DOMAIN p
             r == ResultsOf(p, cs)
  <1>1. /\ r \in Seq(Seq(AdviceByte)) /\ Len(r) = Len(cs)
        /\ \A i \in 1 .. Len(cs) : r[i] = FlattenSeq(ResultOf(p, cs[i]))
    BY ResultsTyped
  <1>2. \A i \in 1 .. Len(cs) : cs[i] \in D
    <2>1. cs \in Seq(D)
      OBVIOUS
    <2> HIDE DEF D
    <2> QED  BY <2>1
  <1>3. ASSUME NEW i \in 1 .. Len(cs)
        PROVE  r[i] \in Seq(BytesOf(p))
    <2> DEFINE s == FlattenSeq(ResultOf(p, cs[i]))
    <2>1. ResultOf(p, cs[i]) \in Seq(Seq(AdviceByte)) /\ cs[i] \in DOMAIN p
      BY <1>2, ResultTyped
    <2>2. s \in Seq(AdviceByte) /\ ToSet(s) \subseteq BytesOf(p)
      BY <2>1, FlattenTyped DEF BytesOf
    <2> HIDE DEF s
    <2>3. \A k \in 1 .. Len(s) : s[k] \in BytesOf(p)
      BY <2>2 DEF ToSet
    <2>4. s \in Seq(BytesOf(p))
      BY <2>2, <2>3, SeqWithin
    <2> QED  BY <1>1, <2>4 DEF s
  <1> HIDE DEF r
  <1>4. r \in Seq(Seq(BytesOf(p)))
    BY <1>1, <1>3, SeqWithin
  <1> QED  BY <1>4, FlattenTyped DEF WrittenBy, r

(* What the first pass writes.                                             *)
LEMMA TapeIsWritten ==
    ASSUME NEW t, NEW cs
    PROVE  WriteToAdviceTape(t, cs) = t \o WrittenBy(program, cs)
  <1>1. \A i : FlattenSeq(Result(cs[i])) = FlattenSeq(ResultOf(program, cs[i]))
    BY ResultIs
  <1>2. [i \in DOMAIN cs |-> FlattenSeq(Result(cs[i]))] = ResultsOf(program, cs)
    BY <1>1 DEF ResultsOf
  <1> QED  BY <1>2 DEF WriteToAdviceTape, WrittenBy

(* The calls of main are calls of the program.                             *)
LEMMA CallsTyped ==
    ASSUME NEW p \in Programs
    PROVE  CallsOfMain(p) \in Seq(DOMAIN p)
  <1> DEFINE D == DOMAIN p
             ss == [i \in DOMAIN p |->
                      IF \E k \in DOMAIN p : i \in ToSet(p[k].body) THEN <<>> ELSE <<i>>]
  <1>1. D = 1 .. Len(p) /\ Len(p) \in Nat
    <2>1. p \in Seq(AdviceCalls(p))
      BY ProgramsAssumption DEF ProgramsAreAdvice
    <2> QED  BY <2>1
  <1>2. \A i \in D : ss[i] \in Seq(D)
    <2> SUFFICES ASSUME NEW i \in D PROVE ss[i] \in Seq(D)
      OBVIOUS
    <2>1. <<>> \in Seq(D) /\ <<i>> \in Seq(D)
      <3> HIDE DEF D
      <3> QED  OBVIOUS
    <2>2. ss[i] = <<>> \/ ss[i] = <<i>>
      OBVIOUS
    <2> HIDE DEF ss
    <2> QED  BY <2>1, <2>2
  <1>3. ss = [i \in 1 .. Len(p) |-> ss[i]]
    <2>1. ss = [i \in D |-> ss[i]]
      OBVIOUS
    <2> HIDE DEF ss, D
    <2> QED  BY <1>1, <2>1
  <1>4. CallsOfMain(p) = FlattenSeq(ss)
    BY DEF CallsOfMain
  <1> HIDE DEF ss, D
  <1>5. ss \in [1 .. Len(p) -> Seq(D)]
    BY <1>1, <1>2, <1>3
  <1>6. ss \in Seq(Seq(D))
    BY <1>1, <1>5
  <1> QED  BY <1>4, <1>6, FlattenTyped DEF D

-----------------------------------------------------------------------------
(* The invariant: what the variables hold; and, when no body calls advice, *)
(* that what has been written and will be is what main calls, and that the *)
(* processor of the second pass reads just that.                           *)
AdviceTyped ==
    /\ program \in Programs /\ pass \in 1 .. 2
    /\ todo \in Seq(DOMAIN program) /\ tape \in Seq(BytesOf(program))
    /\ pass = 1 => reads = <<>>
    /\ pass = 2 => AdviceMachine(program, tape, cpu)
    /\ reads \in Seq(AdviceRow)
    /\ \A i \in DOMAIN reads : reads[i].at % reads[i].width = 0
AdviceWritten ==
    pass = 1 => WrittenBy(program, CallsOfMain(program)) = tape \o WrittenBy(program, todo)
AdviceRead == pass = 2 => AdviceExact(program, tape, cpu, reads)
AdviceInv == AdviceTyped /\ (BodiesCallNoAdvice => AdviceWritten /\ AdviceRead)

(* The tape that the first pass has written holds bytes.                   *)
LEMMA TapeTyped ==
    ASSUME AdviceProgram(program), tape \in Seq(BytesOf(program))
    PROVE  tape \in Seq(AdviceByte)
  <1>1. BytesOf(program) \subseteq AdviceByte
    BY BytesOfTyped
  <1>2. \A i \in 1 .. Len(tape) : tape[i] \in AdviceByte
    BY <1>1
  <1> QED  BY <1>2, SeqWithin

(* Before the first call everything is still to be written.                *)
LEMMA InitAdvice == AdviceInit => AdviceInv
  <1> SUFFICES ASSUME AdviceInit PROVE AdviceInv
    OBVIOUS
  <1>1. /\ program \in Programs /\ pass = 1 /\ todo = CallsOfMain(program)
        /\ tape = <<>> /\ reads = <<>>
    BY DEF AdviceInit
  <1>2. AdviceProgram(program)
    BY <1>1, ProgramsOfAdvice
  <1>3. todo \in Seq(DOMAIN program)
    BY <1>1, CallsTyped
  <1>4. /\ tape \in Seq(BytesOf(program)) /\ reads \in Seq(AdviceRow)
        /\ \A i \in DOMAIN reads : reads[i].at % reads[i].width = 0
    BY <1>1
  <1>5. WrittenBy(program, todo) \in Seq(AdviceByte)
    BY <1>2, <1>3, ResultsTyped
  <1>6. WrittenBy(program, todo) = <<>> \o WrittenBy(program, todo)
    BY <1>5
  <1> QED  BY <1>1, <1>3, <1>4, <1>6 DEF AdviceInv, AdviceTyped, AdviceWritten, AdviceRead

(* The body's calls and then the call itself are written.                  *)
LEMMA ComputeKeepsAdvice ==
    ASSUME AdviceInv, Compute
    PROVE  AdviceInv'
  <1> DEFINE c == Head(todo)
             cs == Append(program[c].body, c)
             D == DOMAIN program
  <1>1. /\ pass = 1 /\ todo # <<>> /\ todo' = Tail(todo) /\ program' = program
        /\ pass' = pass /\ cpu' = cpu /\ reads' = reads
        /\ tape' = WriteToAdviceTape(tape, cs)
    BY DEF Compute
  <1>2. /\ program \in Programs /\ todo \in Seq(D) /\ tape \in Seq(BytesOf(program))
        /\ reads = <<>> /\ reads \in Seq(AdviceRow)
        /\ \A i \in DOMAIN reads : reads[i].at % reads[i].width = 0
    BY <1>1 DEF AdviceInv, AdviceTyped
  <1>3. AdviceProgram(program) /\ tape \in Seq(AdviceByte)
    BY <1>2, ProgramsOfAdvice, TapeTyped
  <1>4. c \in D /\ Tail(todo) \in Seq(D)
    <2> HIDE DEF D
    <2> QED  BY <1>1, <1>2
  <1>5. program[c].body \in Seq(D)
    BY <1>3, <1>4 DEF AdviceProgram
  <1>6. cs \in Seq(D)
    <2> HIDE DEF D
    <2> QED  BY <1>4, <1>5
  <1>7. tape' = tape \o WrittenBy(program, cs)
    BY <1>1, TapeIsWritten
  <1>8. tape' \in Seq(BytesOf(program))
    <2>1. WrittenBy(program, cs) \in Seq(BytesOf(program))
      BY <1>3, <1>6, WrittenBytes
    <2> QED  BY <1>2, <1>7, <2>1
  <1>9. AdviceTyped'
    <2>1. todo' \in Seq(DOMAIN program')
      BY <1>1, <1>4
    <2>2. tape' \in Seq(BytesOf(program'))
      BY <1>1, <1>8
    <2> QED  BY <1>1, <1>2, <2>1, <2>2 DEF AdviceTyped
  <1>10. ASSUME BodiesCallNoAdvice'
         PROVE  AdviceWritten' /\ AdviceRead'
    <2>1. BodiesCallNoAdvice /\ program[c].body = <<>>
      BY <1>1, <1>4, <1>10 DEF BodiesCallNoAdvice
    <2>2. cs = <<c>>
      BY <2>1
    <2>3. WrittenBy(program, CallsOfMain(program)) = tape \o WrittenBy(program, todo)
      BY <1>1, <2>1 DEF AdviceInv, AdviceWritten
    <2> DEFINE w == WrittenBy(program, <<c>>)
               r == WrittenBy(program, Tail(todo))
    <2>4. WrittenBy(program, todo) = w \o r
      BY <1>1, <1>2, <1>3, <1>4, WrittenInTurn, WrittenByOne
    <2>5. w \in Seq(AdviceByte) /\ r \in Seq(AdviceByte)
      BY <1>3, <1>4, <1>6, <2>2, ResultsTyped
    <2>6. tape' = tape \o w
      BY <1>7, <2>2
    <2> HIDE DEF w, r, c
    <2>7. tape' \o r = tape \o (w \o r)
      BY <1>3, <2>5, <2>6, ConcatGroups
    <2>8. tape' \o WrittenBy(program, todo') = WrittenBy(program, CallsOfMain(program))
      BY <1>1, <2>3, <2>4, <2>7 DEF r
    <2>9. CallsOfMain(program)' = CallsOfMain(program)
      BY <1>1
    <2>10. WrittenBy(program', CallsOfMain(program)') = tape' \o WrittenBy(program', todo')
      BY <1>1, <2>8, <2>9
    <2> QED  BY <1>1, <2>10 DEF AdviceWritten, AdviceRead
  <1> QED  BY <1>9, <1>10 DEF AdviceInv

(* The tape is handed over.                                                *)
LEMMA SecondPassKeepsAdvice ==
    ASSUME AdviceInv, SecondPass
    PROVE  AdviceInv'
  <1>1. /\ pass = 1 /\ todo = <<>> /\ pass' = 2 /\ cpu' = BootedWithTape(tape)
        /\ program' = program /\ todo' = todo /\ tape' = tape /\ reads' = reads
    BY DEF SecondPass
  <1>2. /\ program \in Programs /\ todo \in Seq(DOMAIN program) /\ tape \in Seq(BytesOf(program))
        /\ reads = <<>> /\ reads \in Seq(AdviceRow)
        /\ \A i \in DOMAIN reads : reads[i].at % reads[i].width = 0
    BY <1>1 DEF AdviceInv, AdviceTyped
  <1>3. AdviceProgram(program) /\ tape \in Seq(AdviceByte)
    BY <1>2, ProgramsOfAdvice, TapeTyped
  <1>4. CallsOfMain(program) \in Seq(DOMAIN program)
    BY <1>2, CallsTyped
  <1>5. AdviceTyped'
    <2>1. AdviceMachine(program, tape, BootedWithTape(tape))
      BY <1>3, <1>4, ExactBoots
    <2> QED  BY <1>1, <1>2, <2>1 DEF AdviceTyped
  <1>6. ASSUME BodiesCallNoAdvice'
        PROVE  AdviceWritten' /\ AdviceRead'
    <2>1. BodiesCallNoAdvice
      BY <1>1, <1>6 DEF BodiesCallNoAdvice
    <2>2. WrittenBy(program, CallsOfMain(program)) = tape \o WrittenBy(program, todo)
      BY <1>1, <2>1 DEF AdviceInv, AdviceWritten
    <2>3. WrittenBy(program, CallsOfMain(program)) = tape
      <3>1. WrittenBy(program, todo) = <<>>
        BY <1>1, NothingWritten
      <3> QED  BY <1>3, <2>2, <3>1
    <2>4. AdviceExact(program, tape, BootedWithTape(tape), <<>>)
      BY <1>3, <1>4, <2>3, ExactBoots
    <2> QED  BY <1>1, <1>2, <2>4 DEF AdviceWritten, AdviceRead
  <1> QED  BY <1>5, <1>6 DEF AdviceInv

(* A row is traced.                                                        *)
LEMMA TraceKeepsAdvice ==
    ASSUME AdviceInv, Trace
    PROVE  AdviceInv'
  <1>1. /\ pass = 2 /\ cpu.calls # <<>> /\ cpu' = ReadStep(cpu)
        /\ reads' = reads \o RowsOf(cpu)
        /\ program' = program /\ pass' = pass /\ todo' = todo /\ tape' = tape
    BY DEF Trace, Finished
  <1>2. /\ program \in Programs /\ todo \in Seq(DOMAIN program) /\ tape \in Seq(BytesOf(program))
        /\ AdviceMachine(program, tape, cpu) /\ reads \in Seq(AdviceRow)
        /\ \A i \in DOMAIN reads : reads[i].at % reads[i].width = 0
    BY <1>1 DEF AdviceInv, AdviceTyped
  <1>3. AdviceProgram(program) /\ tape \in Seq(AdviceByte)
    BY <1>2, ProgramsOfAdvice, TapeTyped
  <1>4. AdviceMachine(program, tape, ReadStep(cpu))
    BY <1>1, <1>2, <1>3, StepKeepsMachine
  <1> DEFINE more == RowsOf(cpu)
  <1>5. more \in Seq(AdviceRow) /\ \A i \in DOMAIN more : more[i].at % more[i].width = 0
    BY <1>2, <1>3, RowsTyped
  <1>6. /\ reads' \in Seq(AdviceRow)
        /\ \A i \in DOMAIN reads' : reads'[i].at % reads'[i].width = 0
    <2> HIDE DEF more
    <2>1. reads' = reads \o more
      BY <1>1 DEF more
    <2>2. reads \o more \in Seq(AdviceRow)
      BY <1>2, <1>5
    <2>3. ASSUME NEW i \in DOMAIN (reads \o more)
          PROVE  (reads \o more)[i].at % (reads \o more)[i].width = 0
      <3>1. i \in 1 .. Len(reads) + Len(more) /\ Len(reads) \in Nat /\ Len(more) \in Nat
        BY <1>2, <1>5, <2>3
      <3>2. CASE i <= Len(reads)
        <4>1. i \in DOMAIN reads /\ (reads \o more)[i] = reads[i]
          BY <1>2, <1>5, <3>1, <3>2
        <4> QED  BY <1>2, <4>1
      <3>3. CASE i > Len(reads)
        <4>1. i - Len(reads) \in DOMAIN more /\ (reads \o more)[i] = more[i - Len(reads)]
          BY <1>2, <1>5, <3>1, <3>3
        <4> QED  BY <1>5, <4>1
      <3> QED  BY <3>1, <3>2, <3>3
    <2> QED  BY <2>1, <2>2, <2>3
  <1>7. AdviceTyped'
    BY <1>1, <1>2, <1>4, <1>6 DEF AdviceTyped
  <1>8. ASSUME BodiesCallNoAdvice'
        PROVE  AdviceWritten' /\ AdviceRead'
    <2>1. BodiesCallNoAdvice
      BY <1>1, <1>8 DEF BodiesCallNoAdvice
    <2>2. AdviceExact(program, tape, cpu, reads)
      BY <1>1, <2>1 DEF AdviceInv, AdviceRead
    <2>3. AdviceExact(program, tape, ReadStep(cpu), reads \o RowsOf(cpu))
      BY <1>1, <1>2, <1>3, <2>2, ExactSteps
    <2> QED  BY <1>1, <2>3 DEF AdviceWritten, AdviceRead
  <1> QED  BY <1>7, <1>8 DEF AdviceInv

(* Saving a clone and running it touch nothing that the invariant speaks   *)
(* about.                                                                  *)
LEMMA StutterKeepsAdvice ==
    ASSUME AdviceInv, UNCHANGED <<program, pass, todo, tape, cpu, reads>>
    PROVE  AdviceInv'
  <1>1. CallsOfMain(program)' = CallsOfMain(program)
    OBVIOUS
  <1>2. BodiesCallNoAdvice' = BodiesCallNoAdvice
    BY DEF BodiesCallNoAdvice
  <1>3. AdviceTyped' /\ (AdviceWritten' <=> AdviceWritten) /\ (AdviceRead' <=> AdviceRead)
    BY <1>1 DEF AdviceInv, AdviceTyped, AdviceWritten, AdviceRead
  <1> QED  BY <1>2, <1>3 DEF AdviceInv

(* Every step of the two passes, and of a clone, keeps the invariant.      *)
LEMMA NextAdvice == AdviceInv /\ [AdviceNext]_adviceVars => AdviceInv'
  <1> SUFFICES ASSUME AdviceInv, [AdviceNext]_adviceVars PROVE AdviceInv'
    OBVIOUS
  <1>1. CASE Compute
    BY <1>1, ComputeKeepsAdvice
  <1>2. CASE SecondPass
    BY <1>2, SecondPassKeepsAdvice
  <1>3. CASE Trace
    BY <1>3, TraceKeepsAdvice
  <1>4. CASE CloneCpu
    BY <1>4, StutterKeepsAdvice DEF CloneCpu
  <1>5. CASE RunClone
    BY <1>5, StutterKeepsAdvice DEF RunClone
  <1>6. CASE UNCHANGED adviceVars
    BY <1>6, StutterKeepsAdvice DEF adviceVars
  <1> QED  BY <1>1, <1>2, <1>3, <1>4, <1>5, <1>6 DEF AdviceNext

(* The invariant says what the second pass reads.                          *)
LEMMA AdviceTypes ==
    ASSUME AdviceInv
    PROVE  AdviceTypeOK
  <1>1. /\ program \in Programs /\ pass \in 1 .. 2 /\ todo \in Seq(DOMAIN program)
        /\ tape \in Seq(BytesOf(program)) /\ (pass = 2 => AdviceMachine(program, tape, cpu))
    BY DEF AdviceInv, AdviceTyped
  <1>2. ToSet(tape) \subseteq BytesOf(program)
    BY <1>1 DEF ToSet
  <1>3. \A c : ToSet(FlattenSeq(Result(c))) = ToSet(FlattenSeq(ResultOf(program, c)))
    <2> SUFFICES ASSUME NEW c
                 PROVE  ToSet(FlattenSeq(Result(c))) =
                           ToSet(FlattenSeq(ResultOf(program, c)))
      OBVIOUS
    <2>1. FlattenSeq(Result(c)) = FlattenSeq(ResultOf(program, c))
      BY ResultIs
    <2> QED  BY <2>1 DEF ToSet, ToSet
  <1>4. BytesOf(program) =
           UNION {ToSet(FlattenSeq(Result(c))) : c \in DOMAIN program}
    BY <1>3 DEF BytesOf
  <1>5. pass = 2 => /\ cpu.tape = tape /\ cpu.position \in 0 .. Len(tape)
                    /\ cpu.status \in {"running", "panicked"}
    <2> SUFFICES ASSUME pass = 2
                 PROVE  /\ cpu.tape = tape /\ cpu.position \in 0 .. Len(tape)
                        /\ cpu.status \in {"running", "panicked"}
      OBVIOUS
    <2>1. AdviceMachine(program, tape, cpu)
      BY <1>1
    <2>2. cpu.tape = tape
      BY <2>1, TapeOfMachine
    <2> QED  BY <2>1, <2>2 DEF AdviceMachine
  <1> QED  BY <1>1, <1>2, <1>4, <1>5 DEF AdviceTypeOK

(* When no body calls advice, each result is read by the call that asks    *)
(* for it, and the tape to its end.                                        *)
LEMMA ResultsRead ==
    ASSUME AdviceInv, BodiesCallNoAdvice
    PROVE  EachResultRead /\ TapeUsedUp
  <1> SUFFICES ASSUME pass = 2
               PROVE  EachResultRead /\ TapeUsedUp
    BY DEF EachResultRead, TapeUsedUp
  <1>1. /\ program \in Programs /\ tape \in Seq(BytesOf(program))
        /\ AdviceMachine(program, tape, cpu) /\ AdviceExact(program, tape, cpu, reads)
    BY DEF AdviceInv, AdviceTyped, AdviceRead
  <1>2. AdviceProgram(program) /\ tape \in Seq(AdviceByte)
    BY <1>1, ProgramsOfAdvice, TapeTyped
  <1>3. /\ cpu.status = "running"
        /\ FlattenSeq(BytesRead(reads)) = SubSeq(tape, 1, cpu.position)
        /\ cpu.calls = <<>> => cpu.position = Len(tape) /\ cpu.slice = <<>>
        /\ cpu.calls # <<>> => Awaits(program, tape, cpu.position, cpu.calls, cpu.values, GotOf(cpu))
    BY <1>1 DEF AdviceExact
  <1>4. ASSUME cpu.calls # <<>>
        PROVE  /\ \A j \in DOMAIN cpu.values : cpu.values[j] = Result(Head(cpu.calls))[j]
               /\ cpu.slice # <<>> =>
                     IsPrefix(cpu.slice[1].got, Result(Head(cpu.calls))[Len(cpu.values) + 1])
    <2> DEFINE vs == cpu.values
               r == ResultOf(program, Head(cpu.calls))
               f == FieldNext(program, cpu.calls, vs)
               g == GotOf(cpu)
    <2>1. /\ vs = SubSeq(r, 1, Len(vs)) /\ Len(g) <= Len(f) /\ g = SubSeq(f, 1, Len(g))
          /\ f = r[Len(vs) + 1]
      BY <1>3, <1>4 DEF Awaits, FieldNext
    <2>2. Awaiting(program, tape, cpu.position, cpu.calls, vs) /\ g \in Seq(AdviceByte)
      BY <1>1, <1>2, <1>4, MachineAwaits
    <2>3. /\ r \in Seq(Seq(AdviceByte)) /\ Len(vs) \in Nat /\ Len(vs) + 1 \in 1 .. Len(r)
          /\ f \in Seq(AdviceByte)
      BY <2>2, AwaitedParts
    <2>4. Result(Head(cpu.calls)) = r
      BY ResultIs
    <2>5. cpu.slice # <<>> => cpu.slice[1].got = g
      BY DEF GotOf
    <2>6. vs \in Seq(Seq(AdviceByte))
      BY <1>1 DEF AdviceMachine
    <2> HIDE DEF vs, r, f, g
    <2>7. ASSUME NEW j \in DOMAIN vs
          PROVE  vs[j] = r[j]
      <3>1. j \in 1 .. Len(vs)
        BY <2>6
      <3>2. SubSeq(r, 1, Len(vs))[j] = r[j]
        BY <2>3, <3>1
      <3> QED  BY <2>1, <3>2
    <2>8. IsPrefix(g, f)
      <3>1. SubSeq(g, 1, Len(g)) = g
        BY <2>2, BeyondNothing
      <3> QED  BY <2>1, <3>1 DEF IsPrefix
    <2> QED  BY <2>1, <2>4, <2>5, <2>7, <2>8 DEF vs
  <1>5. EachResultRead
    BY <1>3, <1>4 DEF EachResultRead, Finished
  <1>6. ASSUME cpu.calls = <<>>
        PROVE  FlattenSeq([i \in DOMAIN reads |-> reads[i].bytes[1]]) = tape
    <2>1. SubSeq(tape, 1, Len(tape)) = tape
      BY <1>2, BeyondNothing
    <2>2. FlattenSeq(BytesRead(reads)) = tape
      BY <1>3, <1>6, <2>1
    <2> QED  BY <2>2 DEF BytesRead
  <1>7. TapeUsedUp
    BY <1>3, <1>6 DEF TapeUsedUp, Finished
  <1> QED  BY <1>5, <1>7

(* For every program of advice functions and every placement of what they  *)
(* read: the second pass reads from the tape, each result by the call that *)
(* asks for it, in aligned words, what the first pass computed, and uses   *)
(* the tape up, unless a body calls an advice function.                    *)
THEOREM AdviceAlwaysComputed == AdviceSpec => []AdviceIsWhatWasComputed
  <1>1. AdviceInit => AdviceInv
    BY InitAdvice
  <1>2. AdviceInv /\ [AdviceNext]_adviceVars => AdviceInv'
    BY NextAdvice
  <1>3. AdviceInv => AdviceIsWhatWasComputed
    <2> SUFFICES ASSUME AdviceInv PROVE AdviceIsWhatWasComputed
      OBVIOUS
    <2>1. AdviceTypeOK
      BY AdviceTypes
    <2>2. StoresAligned
      BY DEF AdviceInv, AdviceTyped, StoresAligned
    <2>3. BodiesCallNoAdvice => EachResultRead /\ TapeUsedUp
      BY ResultsRead
    <2> QED  BY <2>1, <2>2, <2>3 DEF AdviceIsWhatWasComputed
  <1> QED  BY <1>1, <1>2, <1>3, PTL DEF AdviceSpec

-----------------------------------------------------------------------------
(* The part of a sequence from a place on grows as the sequence does.      *)
LEMMA RestGrows ==
    ASSUME NEW S, NEW s \in Seq(S), NEW u \in Seq(S), NEW n \in 0 .. Len(s)
    PROVE  /\ n \in 0 .. Len(s \o u)
           /\ SubSeq(s \o u, n + 1, Len(s \o u)) = SubSeq(s, n + 1, Len(s)) \o u
  <1> DEFINE v == s \o u
             a == SubSeq(s, n + 1, Len(s))
             c == SubSeq(v, n + 1, Len(v))
  <1>1. /\ v \in Seq(S) /\ Len(v) = Len(s) + Len(u) /\ Len(s) \in Nat /\ Len(u) \in Nat
        /\ \A i \in 1 .. Len(s) : v[i] = s[i]
        /\ \A i \in 1 .. Len(u) : v[Len(s) + i] = u[i]
    BY ConcatOf
  <1> HIDE DEF v
  <1>2. /\ a \in Seq(S) /\ Len(a) = Len(s) - n
        /\ \A i \in 1 .. Len(s) - n : a[i] = s[n + i]
    <2>1. n \in Nat /\ n <= Len(s) /\ Len(s) <= Len(s)
      BY <1>1
    <2> QED  BY <1>1, <2>1, PartIs
  <1>3. /\ c \in Seq(S) /\ Len(c) = Len(v) - n
        /\ \A i \in 1 .. Len(v) - n : c[i] = v[n + i]
    <2>1. n \in Nat /\ n <= Len(v) /\ Len(v) <= Len(v) /\ Len(v) \in Nat
      BY <1>1
    <2> QED  BY <1>1, <2>1, PartIs
  <1> HIDE DEF a, c
  <1>4. Len(c) = Len(a) + Len(u)
    BY <1>1, <1>2, <1>3
  <1>5. ASSUME NEW i \in 1 .. Len(a)
        PROVE  c[i] = a[i]
    <2>1. i \in 1 .. Len(s) - n /\ i \in 1 .. Len(v) - n /\ n + i \in 1 .. Len(s)
      BY <1>1, <1>2
    <2> QED  BY <1>1, <1>2, <1>3, <2>1
  <1>6. ASSUME NEW i \in 1 .. Len(u)
        PROVE  c[Len(a) + i] = u[i]
    <2>1. /\ Len(a) + i \in 1 .. Len(v) - n
          /\ n + (Len(a) + i) = Len(s) + i
      BY <1>1, <1>2
    <2>2. c[Len(a) + i] = v[n + (Len(a) + i)]
      BY <1>3, <2>1
    <2> QED  BY <1>1, <2>1, <2>2
  <1>7. c = a \o u
    BY <1>2, <1>3, <1>4, <1>5, <1>6, ConcatIs
  <1>8. n \in 0 .. Len(v)
    BY <1>1
  <1> QED  BY <1>7, <1>8 DEF a, c, v

(* A run of N steps from machine m to machine c: the machines on the way,  *)
(* h, and the rows that have been read before each, f.                     *)
RanTo(m, c, rows, N, h, f) ==
    /\ N \in Nat /\ h[0] = m /\ h[N] = c /\ f[0] = <<>> /\ f[N] = rows
    /\ Grows(f, [n \in 1 .. N |-> RowsOf(h[n - 1])], N, AdviceRow)
    /\ \A n \in 1 .. N :
          h[n - 1].status = "running" /\ h[n - 1].calls # <<>> /\ h[n] = ReadStep(h[n - 1])

(* No steps are a run.                                                     *)
LEMMA RunBegins ==
    ASSUME NEW m
    PROVE  \E h, f : RanTo(m, m, <<>>, 0, h, f)
  <1> DEFINE h == [n \in 0 .. 0 |-> m]
             f == [n \in 0 .. 0 |-> <<>>]
             g == [n \in 1 .. 0 |-> RowsOf(h[n - 1])]
  <1>1. h[0] = m /\ f[0] = <<>> /\ \A n \in 1 .. 0 : FALSE
    OBVIOUS
  <1>2. f \in [0 .. 0 -> Seq(AdviceRow)]
    OBVIOUS
  <1>3. Grows(f, g, 0, AdviceRow)
    BY <1>1, <1>2 DEF Grows
  <1> HIDE DEF h, f
  <1>4. RanTo(m, m, <<>>, 0, h, f)
    BY <1>1, <1>3 DEF RanTo
  <1> QED  BY <1>4

(* A step more makes a longer run.                                         *)
LEMMA RunGoesOn ==
    ASSUME NEW m, NEW c, NEW rows, NEW N, NEW h, NEW f, RanTo(m, c, rows, N, h, f),
           c.status = "running", c.calls # <<>>, RowsOf(c) \in Seq(AdviceRow)
    PROVE  \E i, j : RanTo(m, ReadStep(c), rows \o RowsOf(c), N + 1, i, j)
  <1> DEFINE M == N + 1
             more == RowsOf(c)
             g == [n \in 1 .. N |-> RowsOf(h[n - 1])]
             i == [n \in 0 .. M |-> IF n = M THEN ReadStep(c) ELSE h[n]]
             j == [n \in 0 .. M |-> IF n = M THEN rows \o more ELSE f[n]]
             k == [n \in 1 .. M |-> RowsOf(i[n - 1])]
  <1>1. /\ N \in Nat /\ h[0] = m /\ h[N] = c /\ f[0] = <<>> /\ f[N] = rows
        /\ Grows(f, g, N, AdviceRow)
        /\ \A n \in 1 .. N :
              h[n - 1].status = "running" /\ h[n - 1].calls # <<>> /\ h[n] = ReadStep(h[n - 1])
    BY DEF RanTo
  <1>2. /\ M \in Nat /\ i[M] = ReadStep(c) /\ j[M] = rows \o more
        /\ \A n \in 0 .. N : n # M /\ n \in 0 .. M /\ i[n] = h[n] /\ j[n] = f[n]
        /\ \A n \in 1 .. M : n = M \/ n \in 1 .. N
        /\ \A n \in 1 .. M : n - 1 \in 0 .. N
        /\ 0 \in 0 .. N /\ N \in 0 .. N /\ M - 1 = N
    BY <1>1
  <1>3. /\ f \in [0 .. N -> Seq(AdviceRow)]
        /\ \A n \in 1 .. N : g[n] \in Seq(AdviceRow) /\ f[n] = f[n - 1] \o g[n]
    BY <1>1 DEF Grows
  <1>4. rows \o more \in Seq(AdviceRow)
    BY <1>1, <1>2, <1>3
  <1>5. j \in [0 .. M -> Seq(AdviceRow)]
    <2>1. \A n \in 0 .. M : n = M \/ n \in 0 .. N
      BY <1>1
    <2>2. ASSUME NEW n \in 0 .. M
          PROVE  (IF n = M THEN rows \o more ELSE f[n]) \in Seq(AdviceRow)
      BY <1>3, <1>4, <2>1
    <2> QED  BY <2>2
  <1>6. \A n \in 1 .. M : k[n] = RowsOf(i[n - 1])
    OBVIOUS
  <1>7. \A n \in 1 .. N : g[n] = RowsOf(h[n - 1])
    OBVIOUS
  <1> HIDE DEF i, j, k, g, more, M
  <1>8. ASSUME NEW n \in 1 .. M
        PROVE  /\ i[n - 1].status = "running" /\ i[n - 1].calls # <<>> /\ i[n] = ReadStep(i[n - 1])
               /\ k[n] \in Seq(AdviceRow) /\ j[n] = j[n - 1] \o k[n]
    <2>1. n - 1 \in 0 .. N /\ i[n - 1] = h[n - 1] /\ j[n - 1] = f[n - 1]
      BY <1>2
    <2>2. k[n] = RowsOf(h[n - 1])
      BY <1>6, <2>1
    <2>3. CASE n = M
      BY <1>1, <1>2, <2>1, <2>2, <2>3 DEF more
    <2>4. CASE n \in 1 .. N
      <3>1. n \in 0 .. N
        BY <1>1, <2>4
      <3>2. i[n] = h[n] /\ j[n] = f[n] /\ k[n] = g[n]
        BY <1>2, <1>7, <2>2, <2>4, <3>1
      <3> QED  BY <1>1, <1>3, <2>1, <2>4, <3>2
    <2> QED  BY <1>2, <2>3, <2>4
  <1>9. Grows(j, k, M, AdviceRow)
    BY <1>5, <1>8 DEF Grows
  <1>10. RanTo(m, ReadStep(c), rows \o more, M, i, j)
    BY <1>1, <1>2, <1>8, <1>9 DEF RanTo, k
  <1> QED  BY <1>10 DEF M, more

(* A run is one of the same program in the next state.                     *)
LEMMA StepStands ==
    ASSUME program' = program, NEW m
    PROVE  ReadStep(m)' = ReadStep(m) /\ RowsOf(m)' = RowsOf(m)
  BY DEF ReadStep, BeginSlice, FieldOf, LengthRead, Bytes,
     ReadChunk, EndSlice, RowsOf, Reading

(* A run stays one while the program is the same.                          *)
LEMMA RunStands ==
    ASSUME program' = program, NEW m, NEW c, NEW rows, NEW N, NEW h, NEW f, RanTo(m, c, rows, N, h, f)
    PROVE  RanTo(m, c, rows, N, h, f)'
  <1>1. \A x : ReadStep(x)' = ReadStep(x) /\ RowsOf(x)' = RowsOf(x)
    BY StepStands
  <1>2. [n \in 1 .. N |-> RowsOf(h[n - 1])]' = [n \in 1 .. N |-> RowsOf(h[n - 1])]
    BY <1>1
  <1> QED  BY <1>1, <1>2 DEF RanTo

(* The original has run on from where it was cloned, and the clone runs    *)
(* along, k steps from there.                                              *)
RestRead(n) == SubSeq(reads, n + 1, Len(reads))
Along(k, N, h, f) ==
    rerun # <<>> => k \in 0 .. N /\ rerun = <<[cpu |-> h[k], reads |-> f[k]]>>
Cloned(N, h, f, k) ==
    /\ pass = 2 /\ saved[1].seen \in 0 .. Len(reads)
    /\ RanTo(saved[1].cpu, cpu, RestRead(saved[1].seen), N, h, f)
    /\ Along(k, N, h, f)
CloneInv ==
    /\ saved = <<>> => rerun = <<>>
    /\ saved # <<>> => \E N, h, f, k : Cloned(N, h, f, k)

(* A clone is made: the original has run no further.                       *)
LEMMA SaveClones ==
    ASSUME AdviceInv, CloneInv, CloneCpu
    PROVE  CloneInv'
  <1>1. /\ pass = 2 /\ saved = <<>> /\ pass' = pass /\ cpu' = cpu /\ reads' = reads /\ rerun' = rerun
        /\ saved' = <<[cpu |-> cpu, seen |-> Len(reads)]>> /\ program' = program
    BY DEF CloneCpu, SaveState
  <1>2. rerun' = <<>> /\ saved'[1].cpu = cpu /\ saved'[1].seen = Len(reads) /\ saved' # <<>>
    BY <1>1 DEF CloneInv
  <1>3. PICK m : m = cpu
    OBVIOUS
  <1>4. PICK h, f : RanTo(m, m, <<>>, 0, h, f)
    BY RunBegins
  <1>5. RanTo(m, m, <<>>, 0, h, f)'
    BY <1>1, <1>4, RunStands
  <1>6. reads \in Seq(AdviceRow) /\ Len(reads) \in 0 .. Len(reads)
    BY DEF AdviceInv, AdviceTyped
  <1>7. SubSeq(reads, Len(reads) + 1, Len(reads)) = <<>>
    BY <1>6
  <1>8. RestRead(saved[1].seen)' = <<>> /\ saved'[1].seen \in 0 .. Len(reads')
    BY <1>1, <1>2, <1>6, <1>7 DEF RestRead
  <1>9. Along(0, 0, h, f)'
    BY <1>2 DEF Along
  <1>10. RanTo(saved[1].cpu, cpu, RestRead(saved[1].seen), 0, h, f)'
    <2>1. saved'[1].cpu = m /\ cpu' = m
      BY <1>1, <1>2, <1>3
    <2> QED  BY <1>5, <1>8, <2>1
  <1>11. Cloned(0, h, f, 0)'
    BY <1>1, <1>8, <1>9, <1>10 DEF Cloned
  <1> QED  BY <1>2, <1>11 DEF CloneInv

(* The original runs on; the clone has not begun.                          *)
LEMMA TraceClones ==
    ASSUME AdviceInv, CloneInv, Trace
    PROVE  CloneInv'
  <1>1. /\ pass = 2 /\ rerun = <<>> /\ cpu.status = "running" /\ cpu.calls # <<>>
        /\ cpu' = ReadStep(cpu) /\ reads' = reads \o RowsOf(cpu)
        /\ program' = program /\ pass' = pass /\ saved' = saved /\ rerun' = rerun
    BY DEF Trace, Finished
  <1>2. CASE saved = <<>>
    BY <1>1, <1>2 DEF CloneInv
  <1>3. CASE saved # <<>>
    <2>1. PICK N, h, f, k : Cloned(N, h, f, k)
      BY <1>3 DEF CloneInv
    <2>2. PICK m, c, s, rows, more :
             /\ m = saved[1].cpu /\ c = cpu /\ s = saved[1].seen /\ rows = RestRead(s)
             /\ more = RowsOf(cpu)
      OBVIOUS
    <2>3. s \in 0 .. Len(reads) /\ RanTo(m, c, rows, N, h, f)
      BY <2>1, <2>2 DEF Cloned
    <2>4. reads \in Seq(AdviceRow) /\ more \in Seq(AdviceRow)
      <3>1. /\ program \in Programs /\ tape \in Seq(BytesOf(program))
            /\ AdviceMachine(program, tape, cpu) /\ reads \in Seq(AdviceRow)
        BY <1>1 DEF AdviceInv, AdviceTyped
      <3>2. tape \in Seq(AdviceByte)
        BY <3>1, ProgramsOfAdvice, TapeTyped
      <3> QED  BY <2>2, <3>1, <3>2, RowsTyped
    <2>5. PICK i, j : RanTo(m, ReadStep(c), rows \o more, N + 1, i, j)
      <3>1. c.status = "running" /\ c.calls # <<>> /\ RowsOf(c) \in Seq(AdviceRow)
        BY <1>1, <2>2, <2>4
      <3>2. \E i, j : RanTo(m, ReadStep(c), rows \o RowsOf(c), N + 1, i, j)
        BY <2>3, <3>1, RunGoesOn
      <3> QED  BY <2>2, <3>2
    <2>6. PICK d : d = ReadStep(c)
      OBVIOUS
    <2>7. RanTo(m, d, rows \o more, N + 1, i, j)
      BY <2>5, <2>6
    <2>8. RanTo(m, d, rows \o more, N + 1, i, j)'
      BY <1>1, <2>7, RunStands
    <2>9. /\ s \in 0 .. Len(reads')
          /\ SubSeq(reads', s + 1, Len(reads')) = rows \o more
      <3>1. reads' = reads \o more /\ rows = SubSeq(reads, s + 1, Len(reads))
        BY <1>1, <2>2 DEF RestRead
      <3> QED  BY <2>3, <2>4, <3>1, RestGrows
    <2>10. saved'[1].cpu = m /\ saved'[1].seen = s /\ cpu' = d /\ RestRead(saved[1].seen)' = rows \o more
      BY <1>1, <2>2, <2>6, <2>9 DEF RestRead
    <2>11. Along(0, N + 1, i, j)'
      BY <1>1 DEF Along
    <2>12. RanTo(saved[1].cpu, cpu, RestRead(saved[1].seen), N + 1, i, j)'
      BY <2>8, <2>10
    <2>13. Cloned(N + 1, i, j, 0)'
      BY <1>1, <2>9, <2>10, <2>11, <2>12 DEF Cloned
    <2> QED  BY <1>1, <1>3, <2>13 DEF CloneInv
  <1> QED  BY <1>2, <1>3

(* The clone takes a step: it is the one that the original took from       *)
(* there.                                                                  *)
LEMMA ReplayClones ==
    ASSUME CloneInv, RunClone
    PROVE  CloneInv'
  <1> DEFINE r == IF rerun = <<>> THEN [cpu |-> saved[1].cpu, reads |-> <<>>] ELSE rerun[1]
  <1>1. /\ pass = 2 /\ saved # <<>> /\ (cpu.status = "panicked" \/ cpu.calls = <<>>)
        /\ r.cpu.status = "running" /\ r.cpu.calls # <<>>
        /\ rerun' = <<[cpu |-> ReadStep(r.cpu), reads |-> r.reads \o RowsOf(r.cpu)]>>
        /\ program' = program /\ pass' = pass /\ cpu' = cpu /\ reads' = reads /\ saved' = saved
    BY DEF RunClone, Finished
  <1>2. PICK N, h, f, l : Cloned(N, h, f, l)
    BY <1>1 DEF CloneInv
  <1>3. PICK m, c, rows : m = saved[1].cpu /\ c = cpu /\ rows = RestRead(saved[1].seen)
    OBVIOUS
  <1>4. RanTo(m, c, rows, N, h, f)
    BY <1>2, <1>3 DEF Cloned
  <1>5. /\ N \in Nat /\ h[0] = m /\ h[N] = c /\ f[0] = <<>>
        /\ Grows(f, [n \in 1 .. N |-> RowsOf(h[n - 1])], N, AdviceRow)
        /\ \A n \in 1 .. N :
              h[n - 1].status = "running" /\ h[n - 1].calls # <<>> /\ h[n] = ReadStep(h[n - 1])
    BY <1>4 DEF RanTo
  <1>6. PICK k \in 0 .. N : r.cpu = h[k] /\ r.reads = f[k]
    <2>1. CASE rerun = <<>>
      <3>1. r.cpu = h[0] /\ r.reads = f[0] /\ 0 \in 0 .. N
        BY <1>3, <1>5, <2>1
      <3> QED  BY <3>1
    <2>2. CASE rerun # <<>>
      <3>1. l \in 0 .. N /\ rerun = <<[cpu |-> h[l], reads |-> f[l]]>>
        BY <1>2, <2>2 DEF Cloned, Along
      <3>2. r = [cpu |-> h[l], reads |-> f[l]]
        BY <2>2, <3>1
      <3> QED  BY <3>1, <3>2
    <2> QED  BY <2>1, <2>2
  <1> HIDE DEF r
  <1>7. k # N
    BY <1>1, <1>3, <1>5, <1>6
  <1>8. k + 1 \in 1 .. N /\ k + 1 \in 0 .. N /\ (k + 1) - 1 = k
    BY <1>5, <1>7
  <1>9. h[k + 1] = ReadStep(h[k]) /\ f[k + 1] = f[k] \o RowsOf(h[k])
    <2>1. h[k + 1] = ReadStep(h[(k + 1) - 1])
      BY <1>5, <1>8
    <2>2. f[k + 1] = f[(k + 1) - 1] \o RowsOf(h[(k + 1) - 1])
      BY <1>5, <1>8 DEF Grows
    <2> QED  BY <1>8, <2>1, <2>2
  <1>10. rerun' = <<[cpu |-> h[k + 1], reads |-> f[k + 1]]>>
    BY <1>1, <1>6, <1>9
  <1>11. Along(k + 1, N, h, f)'
    BY <1>8, <1>10 DEF Along
  <1>12. RanTo(m, c, rows, N, h, f)'
    BY <1>1, <1>4, RunStands
  <1>13. saved'[1].cpu = m /\ cpu' = c /\ RestRead(saved[1].seen)' = rows
    BY <1>1, <1>3 DEF RestRead
  <1>14. RanTo(saved[1].cpu, cpu, RestRead(saved[1].seen), N, h, f)'
    BY <1>12, <1>13
  <1>15. saved'[1].seen \in 0 .. Len(reads')
    BY <1>1, <1>2 DEF Cloned
  <1>16. Cloned(N, h, f, k + 1)'
    BY <1>1, <1>11, <1>14, <1>15 DEF Cloned
  <1> QED  BY <1>1, <1>16 DEF CloneInv

(* In the first pass there is no clone.                                    *)
LEMMA FirstPassClones ==
    ASSUME CloneInv, pass = 1, UNCHANGED <<saved, rerun>>
    PROVE  CloneInv'
  BY DEF CloneInv, Cloned

(* Nor does anything change when nothing does.                             *)
LEMMA StutterClones ==
    ASSUME CloneInv, UNCHANGED adviceVars
    PROVE  CloneInv'
  <1>1. /\ program' = program /\ pass' = pass /\ cpu' = cpu /\ reads' = reads
        /\ saved' = saved /\ rerun' = rerun
    BY DEF adviceVars
  <1>2. CASE saved = <<>>
    BY <1>1, <1>2 DEF CloneInv
  <1>3. CASE saved # <<>>
    <2>1. PICK N, h, f, k : Cloned(N, h, f, k)
      BY <1>3 DEF CloneInv
    <2>2. PICK m, c, rows : m = saved[1].cpu /\ c = cpu /\ rows = RestRead(saved[1].seen)
      OBVIOUS
    <2>3. RanTo(m, c, rows, N, h, f)'
      BY <1>1, <2>1, <2>2, RunStands DEF Cloned
    <2>4. saved'[1].cpu = m /\ cpu' = c /\ RestRead(saved[1].seen)' = rows
      BY <1>1, <2>2 DEF RestRead
    <2>5. RanTo(saved[1].cpu, cpu, RestRead(saved[1].seen), N, h, f)'
      BY <2>3, <2>4
    <2>6. Along(k, N, h, f)'
      BY <1>1, <2>1 DEF Along, Cloned
    <2>7. Cloned(N, h, f, k)'
      BY <1>1, <2>1, <2>5, <2>6 DEF Cloned
    <2> QED  BY <1>1, <1>3, <2>7 DEF CloneInv
  <1> QED  BY <1>2, <1>3

(* Every step keeps the clone along the run of the original.               *)
LEMMA NextClones ==
    AdviceInv /\ CloneInv /\ [AdviceNext]_adviceVars => CloneInv'
  <1> SUFFICES ASSUME AdviceInv, CloneInv, [AdviceNext]_adviceVars
               PROVE  CloneInv'
    OBVIOUS
  <1>1. CASE Compute
    BY <1>1, FirstPassClones DEF Compute
  <1>2. CASE SecondPass
    BY <1>2, FirstPassClones DEF SecondPass
  <1>3. CASE Trace
    BY <1>3, TraceClones
  <1>4. CASE CloneCpu
    BY <1>4, SaveClones
  <1>5. CASE RunClone
    BY <1>5, ReplayClones
  <1>6. CASE UNCHANGED adviceVars
    BY <1>6, StutterClones
  <1> QED  BY <1>1, <1>2, <1>3, <1>4, <1>5, <1>6 DEF AdviceNext

(* What the clone has read is a beginning of what the original has since.  *)
LEMMA CloneReads == CloneInv => CloneReadsTheSame
  <1> SUFFICES ASSUME CloneInv, rerun # <<>> PROVE CloneReadsTheSame
    BY DEF CloneReadsTheSame
  <1>1. PICK N, h, f, k : Cloned(N, h, f, k)
    BY DEF CloneInv
  <1> DEFINE rest == RestRead(saved[1].seen)
  <1>2. k \in 0 .. N /\ rerun = <<[cpu |-> h[k], reads |-> f[k]]>>
    BY <1>1 DEF Cloned, Along
  <1>3. rerun[1].cpu = h[k] /\ rerun[1].reads = f[k]
    BY <1>2
  <1> DEFINE g == [n \in 1 .. N |-> RowsOf(h[n - 1])]
  <1>4. /\ N \in Nat /\ f[N] = rest /\ Grows(f, g, N, AdviceRow)
        /\ \A n \in 1 .. N : h[n - 1].calls # <<>>
    BY <1>1 DEF Cloned, RanTo
  <1> HIDE DEF g, rest
  <1>5. StartsWith(f[N], f[k]) /\ f[k] \in Seq(AdviceRow)
    <2>1. \A n \in k .. N : StartsWith(f[n], f[k])
      BY <1>2, <1>4, GrowsPrefix
    <2>2. N \in k .. N
      BY <1>2, <1>4
    <2> QED  BY <1>2, <1>4, <2>1, <2>2 DEF Grows
  <1>6. IsPrefix(f[k], f[N])
    <2>1. SubSeq(f[k], 1, Len(f[k])) = f[k]
      BY <1>5, BeyondNothing
    <2> QED  BY <1>5, <2>1 DEF IsPrefix, StartsWith
  <1>7. h[k].calls = <<>> => f[k] = f[N]
    <2>1. k # N => k + 1 \in 1 .. N /\ (k + 1) - 1 = k
      BY <1>2, <1>4
    <2>2. k # N => h[k].calls # <<>>
      BY <1>4, <2>1
    <2> QED  BY <2>2
  <1> QED  BY <1>3, <1>4, <1>6, <1>7 DEF CloneReadsTheSame, Finished, RestRead, rest

(* For every program of advice functions, and wherever the processor is    *)
(* cloned: the clone reads from the tape what the original read since, a   *)
(* beginning of it while it runs and all of it at its end, whatever the    *)
(* program and whether or not a body calls an advice function.             *)
THEOREM CloneAlwaysReadsTheSame == AdviceSpec => []CloneReadsTheSame
  <1>1. AdviceInit => AdviceInv /\ CloneInv
    <2>1. AdviceInit => CloneInv
      BY DEF AdviceInit, CloneInv
    <2> QED  BY <2>1, InitAdvice
  <1>2. AdviceInv /\ CloneInv /\ [AdviceNext]_adviceVars => AdviceInv' /\ CloneInv'
    BY NextAdvice, NextClones
  <1>3. CloneInv => CloneReadsTheSame
    BY CloneReads
  <1> QED  BY <1>1, <1>2, <1>3, PTL DEF AdviceSpec
=============================================================================
