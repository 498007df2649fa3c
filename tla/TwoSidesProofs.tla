------------------------------- MODULE TwoSidesProofs -----------------------
(***************************************************************************)
(* Proofs about two components whose two sides have to agree on an order.  *)
(*                                                                         *)
(* The trace writer: what the collector sends, the writer thread writes.   *)
(* For every number of rows, batch size and channel depth, its inductive   *)
(* invariant IInv says where every row that was pushed is (TypeOK), which  *)
(* phases of the two threads go together, and what has reached the file.   *)
(*                                                                         *)
(* The openings of a proof: what the prover appends, the verifier appends. *)
(* For every layout and size (and advice of more than one word), the       *)
(* inductive invariant FlowInv says that the prover's accumulator is one   *)
(* of a fixed history, and that the verifier's follows it, so that both    *)
(* look up the same points.                                                *)
(***************************************************************************)
EXTENDS TraceWriter, ClaimFlow, InductionLemmas, FiniteSetTheorems

(* What the collector holds in each phase, and when the sender is open. *)
CollectorShape ==
    /\ open <=> collector.phase \in {"pushing", "sending", "flushing", "closing"}
    /\ collector.phase \notin {"sending", "flushing"} => collector.sending = <<>>
    /\ collector.phase # "pushing" => collector.batch = <<>>
    /\ Len(collector.sending) <= BatchSize
    /\ collector.phase \notin {"pushing", "sending", "dropped"} =>
          collector.total = Items
    /\ collector.refused => writer.status = "failed"
    /\ collector.phase \in {"ok", "failed"} => writer.status = collector.phase

(* What the writer thread holds; it closes only after the sender is gone. *)
WriterShape ==
    /\ channel \in Seq(Seq(1..Items))
    /\ Len(writer.chunk) <= BatchSize
    /\ writer.status # "writing" => writer.chunk = <<>>
    /\ writer.status \in {"closing", "ok"} => ~open /\ channel = <<>>
    /\ written \in Seq(1..Items)

(* What is in the file, complete when the thread has ended well. *)
FileShape ==
    /\ file \in Seq(1..Items)
    /\ file = Trace(Len(file)) /\ Len(file) <= collector.total
    /\ Receiving => Len(file) <= Len(written)
    /\ writer.status = "ok" /\ collector.phase # "dropped" => file = Trace(Items)

IInv == TypeOK /\ CollectorShape /\ WriterShape /\ FileShape
-----------------------------------------------------------------------------
(* Lemmas about stretches of rows.                                         *)

(* A part of the trace is a sequence of numbers.                            *)
LEMMA RowsType ==
    ASSUME NEW a \in Nat, NEW b \in Nat, a <= b, b <= Items
    PROVE  Rows(a, b) \in Seq(1..Items) /\ Len(Rows(a, b)) = b - a
  BY ItemsAssumption DEF Rows

(* The length of a part of the trace.                                       *)
LEMMA RowsLen ==
    ASSUME NEW a \in Nat, NEW n \in Nat, NEW s, s = Rows(a, a + n)
    PROVE  Len(s) = n /\ (n = 0 <=> s = <<>>)
  BY DEF Rows

(* Two parts of the trace that meet are one part.                           *)
LEMMA JoinRows ==
    ASSUME NEW a \in Nat, NEW b \in Nat, NEW d \in Nat, a <= b, b <= d
    PROVE  Rows(a, b) \o Rows(b, d) = Rows(a, d)
  BY DEF Rows

(* A part of the trace and the next row are one part.                       *)
LEMMA AppendRow ==
    ASSUME NEW a \in Nat, NEW b \in Nat, a <= b
    PROVE  Append(Rows(a, b), b + 1) = Rows(a, b + 1)
  BY DEF Rows

(* The rows up to a place are what the trace begins with.                   *)
LEMMA CutTrace ==
    ASSUME NEW n \in Nat, NEW m \in 0..n
    PROVE  /\ SubSeq(Trace(n), 1, m) = Trace(m)
           /\ Len(Trace(n)) = n
  BY DEF Trace, Rows

(* One more batch holds the rows of the others and its own.                 *)
LEMMA OneMore ==
    ASSUME NEW n \in Nat, NEW b \in Nat
    PROVE  (n + 1) * b = n * b + b
  OBVIOUS

(* More batches hold no fewer rows.                                         *)
LEMMA NoMore ==
    ASSUME NEW m \in Nat, NEW n \in Nat, NEW b \in Nat, m <= n
    PROVE  m * b <= n * b
  OBVIOUS

(* The rows that are not yet sent are at most a batch.                      *)
LEMMA HeldBound ==
    ASSUME NEW total \in Nat, NEW sent \in Nat, NEW s \in Nat, NEW b \in Nat,
           NEW size \in Nat, s <= size, b <= size, s = 0 \/ b = 0,
           (sent + s) + b = total
    PROVE  total - sent <= size
  OBVIOUS

(* A bound on the rows sent but not taken may be widened.                   *)
LEMMA QueuedBound ==
    ASSUME NEW sent \in Nat, NEW first \in Nat, NEW m \in Nat, NEW n \in Nat,
           sent - first <= m, m <= n
    PROVE  sent - first <= n
  OBVIOUS

(* The rows not yet written: a chunk, the channel, and a batch.             *)
LEMMA BacklogSum ==
    ASSUME NEW total \in Nat, NEW wrote \in Nat, NEW chunk \in Nat,
           NEW sent \in Nat, NEW size \in Nat, NEW queued \in Nat,
           chunk <= size, sent - (wrote + chunk) <= queued, total - sent <= size
    PROVE  total - wrote <= (queued + size) + size
  OBVIOUS

(* There are no rows between a place and itself.                            *)
LEMMA EmptyRows ==
    ASSUME NEW a \in Nat
    PROVE  Rows(a, a) = <<>>
  BY DEF Rows

-----------------------------------------------------------------------------
(* The invariant holds before the first row is pushed.                      *)
LEMMA InitInv == Init => IInv
  <1> SUFFICES ASSUME Init PROVE IInv
    OBVIOUS
  <1> USE ItemsAssumption, BatchSizeAssumption, ChannelDepthAssumption DEF Init
  <1>1. TypeOK
    <2> DEFINE at == [k \in 1..Places |-> 0]
    <2>1. Rows(0, 0) = <<>> /\ Places = 1
      BY EmptyRows DEF Places
    <2>2. QueuedAt(at, 0) /\ HeldAfter(0)
      BY <2>1 DEF QueuedAt, HeldAfter
    <2>3. 0 \in 0..collector.total /\ at \in [1..Places -> 0..Items]
      OBVIOUS
    <2>4. collector \in Collector /\ writer \in Writer
      BY DEF Collector, Writer, Phases, Statuses
    <2>5. written = Trace(Len(written))
          /\ writer.chunk = Rows(Len(written), Len(written) + Len(writer.chunk))
      BY <2>1 DEF Trace
    <2>6. \E sent \in 0..collector.total, plc \in [1..Places -> 0..Items] :
             QueuedAt(plc, sent) /\ HeldAfter(sent)
      BY <2>2, <2>3
    <2> QED
      BY <2>4, <2>5, <2>6 DEF TypeOK
  <1>2. CollectorShape
    BY DEF CollectorShape
  <1>3. WriterShape
    BY DEF WriterShape
  <1>4. FileShape
    BY EmptyRows DEF FileShape, Trace
  <1> QED
    BY <1>1, <1>2, <1>3, <1>4 DEF IInv

(* What a collector that was not dropped holds, and in which order.         *)
LEMMA HeldNow ==
    ASSUME NEW sent \in Nat, HeldAfter(sent), collector.phase # "dropped",
           collector.sending \in Seq(1..Items), collector.batch \in Seq(1..Items),
           collector.total \in 0..Items,
           NEW flushed, flushed = sent + Len(collector.sending)
    PROVE  /\ flushed \in Nat /\ flushed <= collector.total
           /\ flushed - sent = Len(collector.sending)
           /\ collector.sending = Rows(sent, flushed)
           /\ collector.batch = Rows(flushed, collector.total)
  <1>1. /\ Len(collector.sending) \in Nat /\ Len(collector.batch) \in Nat
        /\ collector.total \in Nat
    BY ItemsAssumption
  <1>2. /\ collector.sending = Rows(sent, flushed)
        /\ collector.batch = Rows(flushed, collector.total)
        /\ flushed + Len(collector.batch) = collector.total
    BY DEF HeldAfter
  <1>3. flushed \in Nat
    BY <1>1
  <1>4. flushed <= collector.total /\ flushed - sent = Len(collector.sending)
    BY <1>1, <1>2, <1>3
  <1> QED
    BY <1>2, <1>3, <1>4

(* After a step, it is enough to name the places of the rows. *)
LEMMA HeldAgain ==
    ASSUME NEW sent \in Nat, NEW flushed \in Nat, collector'.total \in Nat,
           sent <= flushed, flushed <= collector'.total,
           collector'.phase # "dropped",
           collector'.sending = Rows(sent, flushed),
           collector'.batch = Rows(flushed, collector'.total)
    PROVE  HeldAfter(sent)'
  <1>1. Len(collector'.sending) = flushed - sent
        /\ Len(collector'.batch) = collector'.total - flushed
    BY DEF Rows
  <1>2. flushed = sent + Len(collector'.sending)
        /\ flushed + Len(collector'.batch) = collector'.total
    BY <1>1
  <1> QED
    BY <1>2 DEF HeldAfter

(* The types are kept when the parts of the state keep theirs.              *)
LEMMA TypeAgain ==
    ASSUME collector' \in Collector, writer' \in Writer, open' \in BOOLEAN,
           Len(channel') <= ChannelDepth, Len(collector'.batch) < BatchSize,
           written' = Trace(Len(written')),
           writer'.chunk = Rows(Len(written'), Len(written') + Len(writer'.chunk)),
           NEW sent \in 0..collector'.total,
           NEW at \in [1..Places' -> 0..Items],
           QueuedAt(at, sent)', HeldAfter(sent)'
    PROVE  TypeOK'
  <1>1. (\E snt \in 0..collector.total, plc \in [1..Places -> 0..Items] :
            QueuedAt(plc, snt) /\ HeldAfter(snt))'
    OBVIOUS
  <1> QED
    BY <1>1 DEF TypeOK

(* A push keeps the invariant.                                              *)
LEMMA PushInv == IInv /\ Push => IInv'
  <1> SUFFICES ASSUME IInv, Push PROVE IInv'
    OBVIOUS
  <1> USE ItemsAssumption, BatchSizeAssumption, ChannelDepthAssumption
  <1>0. PICK batched : batched = Append(collector.batch, collector.total + 1)
    OBVIOUS
  <1>a. collector \in Collector
    BY DEF IInv, TypeOK
  <1>b. /\ collector.phase = "pushing" /\ collector.total \in Nat
        /\ collector.total + 1 \in 1..Items
        /\ collector.sending = <<>>
        /\ collector.batch \in Seq(1..Items)
        /\ Len(collector.batch) < BatchSize
        /\ batched \in Seq(1..Items) /\ Len(batched) = Len(collector.batch) + 1
    BY <1>0, <1>a DEF IInv, Push, TypeOK, CollectorShape, Collector
  <1>1. /\ collector' \in Collector
        /\ collector'.total = collector.total + 1
        /\ collector'.refused = collector.refused
        /\ IF Len(batched) >= BatchSize
           THEN collector'.phase = "sending" /\ collector'.sending = batched
                /\ collector'.batch = <<>>
           ELSE collector'.phase = "pushing" /\ collector'.sending = <<>>
                /\ collector'.batch = batched
    <2>1. CASE Len(batched) >= BatchSize
      <3>1. collector' = [collector EXCEPT !.total = @ + 1, !.batch = <<>>,
                                   !.sending = batched, !.phase = "sending"]
        BY <1>0, <2>1 DEF Push
      <3>2. <<>> \in Seq(1..Items) /\ collector.total + 1 \in 0..Items
        BY <1>b
      <3> QED
        BY <1>a, <1>b, <2>1, <3>1, <3>2 DEF Phases, Collector
    <2>2. CASE ~(Len(batched) >= BatchSize)
      <3>1. collector' = [collector EXCEPT !.total = @ + 1, !.batch = batched,
                                   !.sending = <<>>, !.phase = @]
        BY <1>0, <2>2 DEF Push
      <3>2. <<>> \in Seq(1..Items) /\ collector.total + 1 \in 0..Items
        BY <1>b
      <3> QED
        BY <1>a, <1>b, <2>2, <3>1, <3>2 DEF Phases, Collector
    <2> QED
      BY <2>1, <2>2
  <1>2. UNCHANGED <<channel, open, writer, written, file>>
    BY DEF Push
  <1>3. TypeOK'
    <2>1. ASSUME Receiving PROVE Receiving' /\ TypeOK'
      <3>1. PICK sent \in 0..collector.total, at \in [1..Places -> 0..Items] :
               QueuedAt(at, sent) /\ HeldAfter(sent)
        BY <2>1 DEF IInv, TypeOK
      <3>2. sent \in Nat /\ sent <= collector.total
        BY <1>b
      <3>3. collector.batch = Rows(sent, collector.total)
            /\ sent + Len(collector.batch) = collector.total
        BY <1>b, <3>1, <3>2 DEF HeldAfter
      <3>4. batched = Rows(sent, collector.total + 1)
        BY <1>0, <1>b, <3>2, <3>3, AppendRow
      <3>5. HeldAfter(sent)'
        <4>1. Rows(sent, sent) = <<>>
              /\ Rows(collector.total + 1, collector.total + 1) = <<>>
          BY <1>b, <3>2, EmptyRows
        <4>2. /\ collector'.total \in Nat /\ sent <= collector'.total
              /\ collector'.phase # "dropped"
          BY <1>b, <1>1, <3>2
        <4>3. CASE Len(batched) >= BatchSize
          <5>1. /\ collector'.sending = Rows(sent, collector'.total)
                /\ collector'.batch = Rows(collector'.total, collector'.total)
            BY <1>1, <3>4, <4>1, <4>3
          <5> QED
            BY <3>2, <4>2, <5>1, HeldAgain
        <4>4. CASE ~(Len(batched) >= BatchSize)
          <5>1. /\ collector'.sending = Rows(sent, sent)
                /\ collector'.batch = Rows(sent, collector'.total)
            BY <1>1, <3>4, <4>1, <4>4
          <5> QED
            BY <3>2, <4>2, <5>1, HeldAgain
        <4> QED
          BY <4>3, <4>4
      <3>6. QueuedAt(at, sent)' /\ Places' = Places
        BY <1>2, <3>1 DEF QueuedAt, Places
      <3>7. sent \in 0..collector'.total /\ at \in [1..Places' -> 0..Items]
        BY <1>b, <1>1, <3>2, <3>6
      <3>8. Receiving'
        BY <1>2, <2>1 DEF Receiving
      <3> QED
        <4>1. /\ writer' \in Writer /\ open' \in BOOLEAN
              /\ Len(channel') <= ChannelDepth
              /\ written' = Trace(Len(written'))
              /\ writer'.chunk =
                    Rows(Len(written'), Len(written') + Len(writer'.chunk))
          BY <1>2, <2>1 DEF IInv, TypeOK
        <4>2. Len(collector'.batch) < BatchSize
          BY <1>b, <1>1
        <4>3. TypeOK'
          BY <1>1, <3>5, <3>6, <3>7, <4>1, <4>2, TypeAgain
        <4> QED
          BY <3>8, <4>3
    <2>2. ASSUME ~Receiving PROVE TypeOK'
      BY <1>b, <1>1, <1>2, <2>2 DEF IInv, TypeOK, Receiving
    <2> QED
      BY <2>1, <2>2
  <1>4. CollectorShape'
    BY <1>b, <1>1, <1>2 DEF IInv, CollectorShape
  <1>5. WriterShape'
    BY <1>2 DEF IInv, WriterShape
  <1>6. FileShape'
    BY <1>b, <1>1, <1>2 DEF IInv, FileShape, TypeOK, Receiving
  <1> QED
    BY <1>3, <1>4, <1>5, <1>6 DEF IInv

(* finalize keeps the invariant.                                            *)
LEMMA FinalizeInv == IInv /\ Finalize => IInv'
  <1> SUFFICES ASSUME IInv, Finalize PROVE IInv'
    OBVIOUS
  <1> USE ItemsAssumption, BatchSizeAssumption, ChannelDepthAssumption
  <1>1. /\ collector \in Collector
        /\ collector.phase = "pushing" /\ collector.total = Items
        /\ collector.sending = <<>> /\ Len(collector.batch) < BatchSize
    BY DEF IInv, Finalize, TypeOK, CollectorShape
  <1>2. /\ collector' \in Collector
        /\ collector'.total = collector.total
        /\ collector'.refused = collector.refused
        /\ collector'.phase = "flushing" /\ collector'.batch = <<>>
        /\ collector'.sending = collector.batch
    BY <1>1 DEF Finalize, Collector, Phases
  <1>3. UNCHANGED <<channel, open, writer, written, file>>
    BY DEF Finalize
  <1>4. TypeOK'
    <2>1. ASSUME Receiving PROVE TypeOK'
      <3>1. PICK sent \in 0..collector.total, at \in [1..Places -> 0..Items] :
               QueuedAt(at, sent) /\ HeldAfter(sent)
        BY <2>1 DEF IInv, TypeOK
      <3>2. sent \in Nat /\ sent <= collector.total /\ collector.total \in Nat
        BY <1>1
      <3>3. collector.batch = Rows(sent, collector.total)
        BY <1>1, <3>1, <3>2 DEF HeldAfter
      <3>4. HeldAfter(sent)'
        BY <1>2, <3>2, <3>3, EmptyRows, HeldAgain
      <3>5. QueuedAt(at, sent)' /\ Places' = Places
        BY <1>3, <3>1 DEF QueuedAt, Places
      <3> QED
        BY <1>2, <1>3, <2>1, <3>2, <3>4, <3>5, TypeAgain DEF IInv, TypeOK
    <2>2. ASSUME ~Receiving PROVE TypeOK'
      BY <1>2, <1>3, <2>2 DEF IInv, TypeOK, Receiving
    <2> QED
      BY <2>1, <2>2
  <1>5. CollectorShape'
    BY <1>1, <1>2, <1>3 DEF IInv, CollectorShape, Collector
  <1>6. WriterShape'
    BY <1>3 DEF IInv, WriterShape
  <1>7. FileShape'
    BY <1>1, <1>2, <1>3 DEF IInv, FileShape, Receiving
  <1> QED
    BY <1>4, <1>5, <1>6, <1>7 DEF IInv

(* The sender appends a batch to the channel, which has one place more. *)
LEMMA Queued ==
    ASSUME IInv, Receiving, Len(channel) < ChannelDepth,
           collector.phase \in {"sending", "flushing"},
           channel' = Append(channel, collector.sending),
           collector' = [collector EXCEPT !.phase = AfterSend, !.sending = <<>>],
           UNCHANGED <<open, writer, written, file>>
    PROVE  TypeOK'
  <1> USE ItemsAssumption, BatchSizeAssumption, ChannelDepthAssumption
  <1>1. /\ collector \in Collector /\ writer \in Writer
        /\ channel \in Seq(Seq(1..Items))
        /\ Len(collector.sending) <= BatchSize
        /\ Len(collector.batch) < BatchSize
        /\ AfterSend \in {"pushing", "closing"}
    BY DEF IInv, TypeOK, CollectorShape, WriterShape, AfterSend
  <1>2. /\ collector' \in Collector
        /\ collector'.total = collector.total /\ collector'.sending = <<>>
        /\ collector'.batch = collector.batch /\ collector'.phase # "dropped"
    <2>1. PICK next \in {"pushing", "closing"} : next = AfterSend
      BY <1>1
    <2>2. collector' = [collector EXCEPT !.phase = next, !.sending = <<>>]
      BY <2>1
    <2>3. next \in Phases /\ <<>> \in Seq(1..Items)
      BY DEF Phases
    <2> QED
      BY <1>1, <2>1, <2>2, <2>3 DEF Collector
  <1>3. PICK sent \in 0..collector.total, at \in [1..Places -> 0..Items] :
           QueuedAt(at, sent) /\ HeldAfter(sent)
    BY DEF IInv, TypeOK
  <1>4. PICK flushed : flushed = sent + Len(collector.sending)
    OBVIOUS
  <1>5. /\ sent \in Nat /\ flushed \in Nat /\ collector.total \in Nat
        /\ flushed <= collector.total /\ flushed \in 0..Items
        /\ flushed - sent \in 0..BatchSize
        /\ collector.sending = Rows(sent, flushed)
        /\ collector.batch = Rows(flushed, collector.total)
    <2>1. collector.sending \in Seq(1..Items) /\ collector.batch \in Seq(1..Items)
          /\ collector.total \in 0..Items /\ collector.phase # "dropped"
      BY <1>1 DEF Collector
    <2>2. sent \in Nat
      BY <2>1
    <2>3. /\ flushed \in Nat /\ flushed <= collector.total
          /\ flushed - sent = Len(collector.sending)
          /\ collector.sending = Rows(sent, flushed)
          /\ collector.batch = Rows(flushed, collector.total)
      BY <1>3, <1>4, <2>1, <2>2, HeldNow
    <2>4. Len(collector.sending) \in Nat /\ collector.total \in Nat
      BY <2>1
    <2>5. flushed \in 0..Items /\ flushed - sent \in 0..BatchSize
      BY <1>1, <2>1, <2>3, <2>4
    <2> QED
      BY <2>2, <2>3, <2>4, <2>5
  <1>6. HeldAfter(flushed)'
    BY <1>2, <1>5, EmptyRows, HeldAgain
  <1>7. /\ Places \in Nat \ {0} /\ Places' = Places + 1
        /\ Places = Len(channel) + 1 /\ Len(channel') = Places
        /\ \A k \in 1..Len(channel) : channel'[k] = channel[k]
        /\ channel'[Places] = collector.sending
    BY <1>1 DEF Places, Collector
  <1>8. PICK plc \in [1..Places' -> 0..Items] :
           plc = [k \in 1..Places' |-> IF k <= Places THEN at[k] ELSE flushed]
    <2>1. \A k \in 1..Places' : (IF k <= Places THEN at[k] ELSE flushed) \in 0..Items
      <3>1. SUFFICES ASSUME NEW k \in 1..Places'
                     PROVE  (IF k <= Places THEN at[k] ELSE flushed) \in 0..Items
        OBVIOUS
      <3>2. CASE k <= Places
        <4>1. k \in 1..Places
          BY <1>7, <3>2
        <4> QED
          BY <3>2, <4>1
      <3>3. CASE ~(k <= Places)
        BY <1>5, <3>3
      <3> QED
        BY <3>2, <3>3
    <2> QED
      BY <2>1
  <1>9. QueuedAt(plc, flushed)'
    <2>1. /\ plc[1] = at[1] /\ plc[Places'] = flushed
          /\ plc[Places] = sent
          /\ \A k \in 1..Places : plc[k] = at[k]
      BY <1>3, <1>7, <1>8 DEF QueuedAt
    <2>2. ASSUME NEW k \in 1..Len(channel')
          PROVE  /\ channel'[k] = Rows(plc[k], plc[k + 1])
                 /\ plc[k + 1] - plc[k] \in 0..BatchSize
      <3>1. CASE k = Places
        BY <1>5, <1>7, <2>1, <3>1
      <3>2. CASE k \in 1..Len(channel)
        <4>1. /\ k \in 1..Places /\ k + 1 \in 1..Places
              /\ channel[k] = Rows(at[k], at[k + 1])
              /\ at[k + 1] - at[k] \in 0..BatchSize
          <5>1. Len(channel) \in Nat
            BY <1>1
          <5>2. k \in 1..Places /\ k + 1 \in 1..Places
            BY <1>7, <3>2, <5>1
          <5>3. \A j \in 1..Len(channel) : /\ channel[j] = Rows(at[j], at[j + 1])
                                            /\ at[j + 1] - at[j] \in 0..BatchSize
            BY <1>3 DEF QueuedAt
          <5> QED
            BY <3>2, <5>2, <5>3
        <4>2. plc[k] = at[k] /\ plc[k + 1] = at[k + 1]
          BY <2>1, <4>1
        <4> QED
          BY <1>7, <3>2, <4>1, <4>2
      <3> QED
        BY <1>7, <3>1, <3>2
    <2>3. ASSUME NEW k \in 1..Places'
          PROVE  plc[k] <= flushed /\ flushed - plc[k] <= (Places' - k) * BatchSize
      <3>1. CASE k = Places'
        BY <1>5, <1>7, <2>1, <3>1
      <3>2. CASE k \in 1..Places
        <4>1. /\ at[k] \in Nat /\ at[k] <= sent
              /\ sent - at[k] <= (Places - k) * BatchSize
          BY <1>3, <3>2 DEF QueuedAt
        <4>2. Places - k \in Nat /\ Places' - k = (Places - k) + 1
          BY <1>7, <3>2
        <4>3. (Places' - k) * BatchSize = (Places - k) * BatchSize + BatchSize
          BY <4>2, OneMore
        <4>4. (Places - k) * BatchSize \in Nat
          BY <4>2
        <4> QED
          BY <1>5, <2>1, <3>2, <4>1, <4>3, <4>4
      <3> QED
        BY <1>7, <3>1, <3>2
    <2>4. plc[1] = Len(written') + Len(writer'.chunk)
      BY <1>3, <2>1 DEF QueuedAt
    <2> QED
      BY <2>1, <2>2, <2>3, <2>4 DEF QueuedAt
  <1>10. Len(channel') <= ChannelDepth
    BY <1>1, <1>7 DEF Places
  <1>11. flushed \in 0..collector'.total
    BY <1>2, <1>5
  <1>12. /\ written = Trace(Len(written))
         /\ writer.chunk = Rows(Len(written), Len(written) + Len(writer.chunk))
         /\ open \in BOOLEAN
    BY DEF IInv, TypeOK
  <1> QED
    BY <1>1, <1>2, <1>6, <1>9, <1>10, <1>11, <1>12, TypeAgain

(* A send keeps the invariant.                                              *)
LEMMA SendInv == IInv /\ Send => IInv'
  <1> SUFFICES ASSUME IInv, Send PROVE IInv'
    OBVIOUS
  <1> USE ItemsAssumption, BatchSizeAssumption, ChannelDepthAssumption
  <1>1. /\ collector \in Collector /\ channel \in Seq(Seq(1..Items))
        /\ collector.phase \in {"sending", "flushing"} /\ open
        /\ UNCHANGED <<open, writer, written, file>>
        /\ AfterSend = IF collector.phase = "sending" THEN "pushing" ELSE "closing"
    BY DEF IInv, Send, TypeOK, CollectorShape, WriterShape, AfterSend
  <1>2. /\ collector'.total = collector.total
        /\ collector'.phase = AfterSend /\ collector'.sending = <<>>
        /\ collector'.batch = collector.batch
        /\ collector' \in Collector
        /\ collector'.refused => collector.refused \/ ~Receiving
    <2>1. PICK next \in {"pushing", "closing"} : next = AfterSend
      BY <1>1
    <2>3. \/ collector' = [collector EXCEPT !.phase = next, !.sending = <<>>]
          \/ /\ collector' = [collector EXCEPT !.phase = next,
                                               !.sending = <<>>, !.refused = TRUE]
             /\ ~Receiving
          \/ /\ collector' = [collector EXCEPT !.phase = next]
             /\ collector.sending = <<>>
      BY <2>1 DEF Send
    <2>4. next \in Phases /\ <<>> \in Seq(1..Items)
      BY DEF Phases
    <2>5. CASE collector' = [collector EXCEPT !.phase = next, !.sending = <<>>]
      BY <1>1, <2>1, <2>4, <2>5 DEF Collector
    <2>6. CASE /\ collector' = [collector EXCEPT !.phase = next,
                                               !.sending = <<>>, !.refused = TRUE]
               /\ ~Receiving
      BY <1>1, <2>1, <2>4, <2>6 DEF Collector
    <2>7. CASE /\ collector' = [collector EXCEPT !.phase = next]
               /\ collector.sending = <<>>
      BY <1>1, <2>1, <2>4, <2>7 DEF Collector
    <2> QED
      BY <2>3, <2>5, <2>6, <2>7
  <1>3. channel' \in Seq(Seq(1..Items))
    <2>1. collector.sending \in Seq(1..Items)
      BY <1>1 DEF Collector
    <2>2. channel' = channel \/ channel' = Append(channel, collector.sending)
      BY DEF Send
    <2>3. PICK S : S = Seq(1..Items)
      OBVIOUS
    <2>4. channel \in Seq(S) /\ collector.sending \in S
      BY <1>1, <2>1, <2>3
    <2>5. Append(channel, collector.sending) \in Seq(S)
      BY <2>4
    <2> QED
      BY <2>2, <2>3, <2>4, <2>5
  <1>4. TypeOK'
    <2>1. CASE collector.sending # <<>> /\ Receiving
      BY <1>1, <2>1, Queued DEF Send
    <2>2. CASE collector.sending = <<>> /\ Receiving
      <3>1. PICK sent \in 0..collector.total, at \in [1..Places -> 0..Items] :
               QueuedAt(at, sent) /\ HeldAfter(sent)
        BY <2>2 DEF IInv, TypeOK
      <3>2. sent \in Nat /\ collector.total \in Nat /\ sent <= collector.total
        BY <1>1 DEF Collector
      <3>3. UNCHANGED channel
        BY <2>2 DEF Send
      <3>4. collector.batch = Rows(sent, collector.total)
        BY <1>1, <2>2, <3>1, <3>2 DEF HeldAfter
      <3>5. HeldAfter(sent)'
        BY <1>1, <1>2, <3>2, <3>4, EmptyRows, HeldAgain
      <3>6. QueuedAt(at, sent)' /\ Places' = Places
        BY <1>1, <3>1, <3>3 DEF QueuedAt, Places
      <3> QED
        BY <1>1, <1>2, <2>2, <3>2, <3>3, <3>5, <3>6, TypeAgain DEF IInv, TypeOK
    <2>3. CASE ~Receiving
      <3>1. UNCHANGED channel
        BY <2>3 DEF Send
      <3> QED
        BY <1>1, <1>2, <2>3, <3>1 DEF IInv, TypeOK, Receiving
    <2> QED
      BY <2>1, <2>2, <2>3
  <1>5. CollectorShape'
    <2>1. writer.status \notin {"ok", "closing"}
      BY <1>1 DEF IInv, WriterShape
    <2> QED
      BY <1>1, <1>2, <2>1 DEF IInv, CollectorShape, Receiving
  <1>6. WriterShape'
    BY <1>1, <1>3 DEF IInv, WriterShape
  <1>7. FileShape'
    BY <1>1, <1>2 DEF IInv, FileShape, Receiving
  <1> QED
    BY <1>4, <1>5, <1>6, <1>7 DEF IInv

(* A step that leaves the rows where they are preserves TypeOK. *)
LEMMA RowsStay ==
    ASSUME IInv, collector' \in Collector, writer' \in Writer, open' \in BOOLEAN,
           UNCHANGED <<channel, written>>,
           writer'.chunk = writer.chunk,
           collector'.total = collector.total,
           collector'.batch = collector.batch,
           collector'.sending = collector.sending,
           collector.phase # "dropped", collector'.phase # "dropped",
           Receiving' => Receiving
    PROVE  TypeOK'
  <1>1. Len(channel') <= ChannelDepth /\ Len(collector'.batch) < BatchSize
    BY DEF IInv, TypeOK
  <1>2. ASSUME Receiving PROVE TypeOK'
    <2>1. PICK sent \in 0..collector.total, at \in [1..Places -> 0..Items] :
             QueuedAt(at, sent) /\ HeldAfter(sent)
      BY <1>2 DEF IInv, TypeOK
    <2>2. HeldAfter(sent)'
      BY <2>1 DEF HeldAfter
    <2>3. QueuedAt(at, sent)' /\ Places' = Places
      BY <2>1 DEF QueuedAt, Places
    <2>4. /\ written = Trace(Len(written))
          /\ writer.chunk = Rows(Len(written), Len(written) + Len(writer.chunk))
      BY <1>2 DEF IInv, TypeOK
    <2> QED
      BY <1>1, <2>2, <2>3, <2>4, TypeAgain
  <1>3. ASSUME ~Receiving PROVE TypeOK'
    BY <1>1, <1>3 DEF TypeOK
  <1> QED
    BY <1>2, <1>3

(* Closing the channel keeps the invariant.                                 *)
LEMMA CloseInv == IInv /\ Close => IInv'
  <1> SUFFICES ASSUME IInv, Close PROVE IInv'
    OBVIOUS
  <1>1. /\ collector \in Collector /\ writer \in Writer
        /\ collector.phase = "closing" /\ open' = FALSE
        /\ collector' = [collector EXCEPT !.phase = "joining"]
        /\ UNCHANGED <<channel, writer, written, file>>
    BY DEF IInv, TypeOK, Close
  <1>2. /\ collector' \in Collector /\ collector'.phase = "joining"
        /\ collector'.total = collector.total
        /\ collector'.batch = collector.batch
        /\ collector'.sending = collector.sending
        /\ collector'.refused = collector.refused
    BY <1>1 DEF Collector, Phases
  <1>3. TypeOK'
    BY <1>1, <1>2, RowsStay DEF Receiving
  <1>4. CollectorShape'
    BY <1>1, <1>2 DEF IInv, CollectorShape
  <1>5. WriterShape'
    BY <1>1 DEF IInv, WriterShape
  <1>6. FileShape'
    BY <1>1, <1>2 DEF IInv, FileShape, Receiving
  <1> QED
    BY <1>3, <1>4, <1>5, <1>6 DEF IInv

(* Joining the thread keeps the invariant.                                  *)
LEMMA JoinInv == IInv /\ Join => IInv'
  <1> SUFFICES ASSUME IInv, Join PROVE IInv'
    OBVIOUS
  <1>1. /\ collector \in Collector /\ writer \in Writer /\ open \in BOOLEAN
        /\ collector.phase = "joining"
        /\ writer.status \in {"ok", "failed"}
        /\ collector' = [collector EXCEPT !.phase = writer.status]
        /\ UNCHANGED <<channel, open, writer, written, file>>
    BY DEF IInv, TypeOK, Join, Receiving
  <1>2. /\ collector' \in Collector /\ collector'.phase = writer.status
        /\ collector'.total = collector.total
        /\ collector'.batch = collector.batch
        /\ collector'.sending = collector.sending
        /\ collector'.refused = collector.refused
    <2>1. writer.status \in Phases
      BY <1>1 DEF Phases
    <2> QED
      BY <1>1, <2>1 DEF Collector
  <1>3. TypeOK'
    BY <1>1, <1>2, RowsStay DEF Receiving
  <1>4. CollectorShape'
    BY <1>1, <1>2 DEF IInv, CollectorShape
  <1>5. WriterShape'
    BY <1>1 DEF IInv, WriterShape
  <1>6. FileShape'
    BY <1>1, <1>2 DEF IInv, FileShape, Receiving
  <1> QED
    BY <1>3, <1>4, <1>5, <1>6 DEF IInv

(* A panic of the tracer keeps the invariant.                               *)
LEMMA TracerPanicsInv == IInv /\ TracerPanics => IInv'
  <1> SUFFICES ASSUME IInv, TracerPanics PROVE IInv'
    OBVIOUS
  <1> USE ItemsAssumption, BatchSizeAssumption, ChannelDepthAssumption
  <1>1. /\ collector \in Collector /\ collector.phase = "pushing"
        /\ collector.sending = <<>> /\ Len(collector.batch) < BatchSize
        /\ collector' = [collector EXCEPT !.phase = "dropped", !.batch = <<>>]
        /\ open' = FALSE
        /\ UNCHANGED <<channel, writer, written, file>>
    BY DEF IInv, TypeOK, CollectorShape, TracerPanics
  <1>2. /\ collector' \in Collector /\ collector'.phase = "dropped"
        /\ collector'.total = collector.total /\ collector'.batch = <<>>
        /\ collector'.sending = <<>>
        /\ collector'.refused = collector.refused
    BY <1>1 DEF Collector, Phases
  <1>3. TypeOK'
    <2>0. Len(collector'.batch) < BatchSize
      BY <1>2
    <2>1. ASSUME Receiving PROVE TypeOK'
      <3>1. PICK sent \in 0..collector.total, at \in [1..Places -> 0..Items] :
               QueuedAt(at, sent) /\ HeldAfter(sent)
        BY <2>1 DEF IInv, TypeOK
      <3>2. sent + Len(collector.batch) = collector.total
        BY <1>1, <3>1 DEF HeldAfter
      <3>3. /\ sent \in Nat /\ collector.total \in Nat
            /\ Len(collector.batch) \in Nat
        BY <1>1 DEF Collector
      <3>4. sent <= collector.total /\ collector.total < sent + BatchSize
        BY <1>1, <3>2, <3>3
      <3>5. HeldAfter(sent)'
        BY <1>2, <3>4 DEF HeldAfter
      <3>6. QueuedAt(at, sent)' /\ Places' = Places
        BY <1>1, <3>1 DEF QueuedAt, Places
      <3> QED
        BY <1>1, <1>2, <2>1, <3>5, <3>6, <2>0, TypeAgain DEF IInv, TypeOK
    <2>2. ASSUME ~Receiving PROVE TypeOK'
      BY <1>1, <1>2, <2>0, <2>2 DEF IInv, TypeOK, Receiving
    <2> QED
      BY <2>1, <2>2
  <1>4. CollectorShape'
    BY <1>1, <1>2 DEF IInv, CollectorShape
  <1>5. WriterShape'
    BY <1>1 DEF IInv, WriterShape
  <1>6. FileShape'
    BY <1>1, <1>2 DEF IInv, FileShape, Receiving
  <1> QED
    BY <1>3, <1>4, <1>5, <1>6 DEF IInv

(* Creating the file keeps the invariant.                                   *)
LEMMA CreateInv == IInv /\ Create => IInv'
  <1> SUFFICES ASSUME IInv, Create PROVE IInv'
    OBVIOUS
  <1>1. /\ writer \in Writer /\ writer.status = "creating"
        /\ writer' = [writer EXCEPT !.status = "receiving"]
        /\ UNCHANGED <<collector, channel, open, written, file>>
    BY DEF IInv, TypeOK, Create
  <1>2. /\ writer' \in Writer /\ writer'.status = "receiving"
        /\ writer'.chunk = writer.chunk
    BY <1>1 DEF Writer, Statuses
  <1>3. TypeOK'
    BY <1>1, <1>2 DEF IInv, TypeOK, Receiving, QueuedAt, HeldAfter, Places
  <1>4. CollectorShape'
    BY <1>1, <1>2 DEF IInv, CollectorShape
  <1>5. WriterShape'
    BY <1>1, <1>2 DEF IInv, WriterShape
  <1>6. FileShape'
    BY <1>1, <1>2 DEF IInv, FileShape, Receiving
  <1> QED
    BY <1>3, <1>4, <1>5, <1>6 DEF IInv

(* The writer takes the first batch of the channel. *)
LEMMA Taken ==
    ASSUME IInv, writer.status = "receiving", channel # <<>>,
           writer' = [status |-> "writing", chunk |-> Head(channel)],
           channel' = Tail(channel),
           UNCHANGED <<collector, open, written, file>>
    PROVE  TypeOK' /\ Len(writer'.chunk) <= BatchSize
  <1> USE ItemsAssumption, BatchSizeAssumption, ChannelDepthAssumption
  <1>1. /\ collector \in Collector /\ writer \in Writer /\ Receiving
        /\ channel \in Seq(Seq(1..Items)) /\ Len(channel) <= ChannelDepth
        /\ written \in Seq(1..Items) /\ Len(writer.chunk) = 0
    BY DEF IInv, TypeOK, WriterShape, Receiving
  <1>2. PICK sent \in 0..collector.total, at \in [1..Places -> 0..Items] :
           QueuedAt(at, sent) /\ HeldAfter(sent)
    BY <1>1 DEF IInv, TypeOK
  <1>3. /\ Len(channel) \in Nat \ {0} /\ Places = Len(channel) + 1
        /\ Len(channel') = Len(channel) - 1 /\ Places' = Len(channel)
        /\ Head(channel) = channel[1] /\ Head(channel) \in Seq(1..Items)
        /\ \A k \in 1..Len(channel') : channel'[k] = channel[k + 1]
    BY <1>1 DEF Places
  <1>4. /\ at[1] = Len(written) /\ at[1] \in Nat /\ at[2] \in Nat
        /\ channel[1] = Rows(at[1], at[2]) /\ at[2] - at[1] \in 0..BatchSize
    <2>1. 1 \in 1..Len(channel) /\ 1 \in 1..Places /\ 2 \in 1..Places
      BY <1>3
    <2>2. at[1] = Len(written) + Len(writer.chunk)
      BY <1>2 DEF QueuedAt
    <2>3. at[1] \in Nat /\ at[2] \in Nat
      BY <1>2, <2>1
    <2>4. Len(written) \in Nat
      BY <1>1
    <2>5. at[1] = Len(written)
      BY <1>1, <2>2, <2>4
    <2>6. \A k \in 1..Len(channel) : /\ channel[k] = Rows(at[k], at[k + 1])
                                      /\ at[k + 1] - at[k] \in 0..BatchSize
      BY <1>2 DEF QueuedAt
    <2>7. 1 + 1 = 2
      OBVIOUS
    <2> QED
      BY <2>1, <2>3, <2>5, <2>6, <2>7
  <1>5. /\ writer'.chunk = Rows(Len(written), at[2])
        /\ Len(written) + Len(writer'.chunk) = at[2]
        /\ Len(writer'.chunk) <= BatchSize
    <2>1. Len(Rows(at[1], at[2])) = at[2] - at[1]
      BY <1>4 DEF Rows
    <2>2. writer'.chunk = Rows(Len(written), at[2])
      BY <1>3, <1>4
    <2>3. Len(writer'.chunk) = at[2] - Len(written) /\ Len(written) \in Nat
      BY <1>4, <2>1, <2>2
    <2>4. Len(writer'.chunk) \in 0..BatchSize /\ at[2] \in Nat
      BY <1>4, <2>3
    <2>5. Len(written) + Len(writer'.chunk) = at[2]
      BY <2>3, <2>4
    <2> QED
      BY <2>2, <2>4, <2>5
  <1>6. writer' \in Writer
    BY <1>3 DEF Writer, Statuses
  <1>7. PICK plc \in [1..Places' -> 0..Items] : plc = [k \in 1..Places' |-> at[k + 1]]
    <2>1. \A k \in 1..Places' : at[k + 1] \in 0..Items
      <3>1. SUFFICES ASSUME NEW k \in 1..Places' PROVE at[k + 1] \in 0..Items
        OBVIOUS
      <3>2. k + 1 \in 1..Places
        BY <1>3
      <3> QED
        BY <3>2
    <2> QED
      BY <2>1
  <1>8. QueuedAt(plc, sent)'
    <2>1. \A k \in 1..Places' : plc[k] = at[k + 1]
      BY <1>7
    <2>2. plc[1] = Len(written') + Len(writer'.chunk)
      BY <1>3, <1>5, <2>1
    <2>3. plc[Places'] = sent
      <3>1. Places' \in 1..Places' /\ Places' + 1 = Places
        BY <1>3
      <3> QED
        BY <1>2, <2>1, <3>1 DEF QueuedAt
    <2>4. ASSUME NEW k \in 1..Len(channel')
          PROVE  /\ channel'[k] = Rows(plc[k], plc[k + 1])
                 /\ plc[k + 1] - plc[k] \in 0..BatchSize
      <3>1. /\ k \in 1..Places' /\ k + 1 \in 1..Places'
            /\ k + 1 \in 1..Len(channel)
        BY <1>3
      <3>2. \A j \in 1..Len(channel) : /\ channel[j] = Rows(at[j], at[j + 1])
                                        /\ at[j + 1] - at[j] \in 0..BatchSize
        BY <1>2 DEF QueuedAt
      <3>3. plc[k] = at[k + 1] /\ plc[k + 1] = at[(k + 1) + 1]
        BY <2>1, <3>1
      <3> QED
        BY <1>3, <3>1, <3>2, <3>3
    <2>5. ASSUME NEW k \in 1..Places'
          PROVE  plc[k] <= sent /\ sent - plc[k] <= (Places' - k) * BatchSize
      <3>1. k + 1 \in 1..Places /\ Places - (k + 1) = Places' - k
        BY <1>3
      <3>2. \A j \in 1..Places : /\ at[j] <= sent
                                  /\ sent - at[j] <= (Places - j) * BatchSize
        BY <1>2 DEF QueuedAt
      <3> QED
        BY <2>1, <3>1, <3>2
    <2> QED
      BY <2>2, <2>3, <2>4, <2>5 DEF QueuedAt
  <1>9. HeldAfter(sent)'
    BY <1>2 DEF HeldAfter
  <1>10. /\ written' = Trace(Len(written'))
         /\ writer'.chunk = Rows(Len(written'), Len(written') + Len(writer'.chunk))
         /\ Len(channel') <= ChannelDepth /\ Len(collector'.batch) < BatchSize
         /\ open' \in BOOLEAN
    BY <1>1, <1>3, <1>5 DEF IInv, TypeOK
  <1> QED
    BY <1>1, <1>5, <1>6, <1>8, <1>9, <1>10, TypeAgain

(* Receiving a batch keeps the invariant.                                   *)
LEMMA ReceiveInv == IInv /\ Receive => IInv'
  <1> SUFFICES ASSUME IInv, Receive PROVE IInv'
    OBVIOUS
  <1>1. /\ writer \in Writer /\ writer.status = "receiving" /\ Receiving
        /\ channel \in Seq(Seq(1..Items))
        /\ UNCHANGED <<collector, open, written, file>>
    BY DEF IInv, TypeOK, WriterShape, Receive, Receiving
  <1>2. CASE channel # <<>>
    <2>1. /\ writer' = [status |-> "writing", chunk |-> Head(channel)]
          /\ channel' = Tail(channel)
      BY <1>2 DEF Receive
    <2>2. TypeOK' /\ Len(writer'.chunk) <= BatchSize
      BY <1>1, <1>2, <2>1, Taken
    <2>3. writer'.status = "writing" /\ channel' \in Seq(Seq(1..Items))
      BY <1>1, <1>2, <2>1
    <2>4. CollectorShape'
      BY <1>1, <2>3 DEF IInv, CollectorShape
    <2>5. WriterShape'
      BY <1>1, <2>2, <2>3 DEF IInv, WriterShape
    <2>6. FileShape'
      BY <1>1, <2>3 DEF IInv, FileShape, Receiving
    <2> QED
      BY <2>2, <2>4, <2>5, <2>6 DEF IInv
  <1>3. CASE channel = <<>>
    <2>1. /\ writer' = [writer EXCEPT !.status = "closing"]
          /\ ~open /\ UNCHANGED channel
      BY <1>3 DEF Receive
    <2>2. /\ writer' \in Writer /\ writer'.status = "closing"
          /\ writer'.chunk = writer.chunk
      BY <1>1, <2>1 DEF Writer, Statuses
    <2>3. TypeOK'
      BY <1>1, <2>1, <2>2 DEF IInv, TypeOK, Receiving, QueuedAt, HeldAfter, Places
    <2>4. CollectorShape'
      BY <1>1, <2>2 DEF IInv, CollectorShape
    <2>5. WriterShape'
      BY <1>1, <1>3, <2>1, <2>2 DEF IInv, WriterShape
    <2>6. FileShape'
      BY <1>1, <2>2 DEF IInv, FileShape, Receiving
    <2> QED
      BY <2>3, <2>4, <2>5, <2>6 DEF IInv
  <1> QED
    BY <1>2, <1>3

(* What the thread has written and holds is a stretch of the trace, and so *)
(* is whatever of it reaches the file.                                     *)
LEMMA SpilledPrefix ==
    ASSUME IInv, Receiving, Spills(written \o writer.chunk)
    PROVE  /\ written \o writer.chunk = Trace(Len(written) + Len(writer.chunk))
           /\ written \o writer.chunk \in Seq(1..Items)
           /\ Len(written \o writer.chunk) = Len(written) + Len(writer.chunk)
           /\ file' \in Seq(1..Items) /\ file' = Trace(Len(file'))
           /\ Len(file') <= collector.total
           /\ Len(file') <= Len(written \o writer.chunk)
  <1> USE ItemsAssumption
  <1>1. /\ collector \in Collector /\ writer \in Writer
        /\ written \in Seq(1..Items) /\ file \in Seq(1..Items)
    BY DEF IInv, TypeOK, WriterShape, FileShape
  <1>2. PICK w : w = Len(written)
    OBVIOUS
  <1>3. PICK k : k = Len(writer.chunk)
    OBVIOUS
  <1>4. w \in Nat /\ k \in Nat /\ writer.chunk \in Seq(1..Items)
        /\ collector.total \in 0..Items
    BY <1>1, <1>2, <1>3 DEF Writer, Collector
  <1>5. written = Rows(0, w) /\ writer.chunk = Rows(w, w + k)
    BY <1>2, <1>3 DEF IInv, TypeOK, Trace
  <1>6. written \o writer.chunk = Trace(w + k)
    <2>1. 0 \in Nat /\ w + k \in Nat /\ 0 <= w /\ w <= w + k
      BY <1>4
    <2>2. Rows(0, w) \o Rows(w, w + k) = Rows(0, w + k)
      BY <1>4, <2>1, JoinRows
    <2> QED
      BY <1>5, <2>2 DEF Trace
  <1>7. w + k <= collector.total
    <2>1. PICK sent \in 0..collector.total, at \in [1..Places -> 0..Items] :
             QueuedAt(at, sent) /\ HeldAfter(sent)
      BY DEF IInv, TypeOK
    <2>2. 1 \in 1..Places
      BY DEF IInv, WriterShape, Places
    <2>3. at[1] = w + k /\ at[1] <= sent
      BY <1>2, <1>3, <2>1, <2>2 DEF QueuedAt
    <2> QED
      BY <1>4, <2>3
  <1>8. /\ written \o writer.chunk \in Seq(1..Items)
        /\ Len(written \o writer.chunk) = w + k
    BY <1>1, <1>2, <1>3, <1>4
  <1>9. PICK n \in Len(file)..Len(written \o writer.chunk) :
           file' = SubSeq(written \o writer.chunk, 1, n)
    BY DEF Spills
  <1>10. n \in 0..(w + k)
    BY <1>1, <1>4, <1>8
  <1>11. file' = Trace(n) /\ Len(Trace(n)) = n /\ Trace(n) \in Seq(1..Items)
    <2>1. file' = Trace(n)
      BY <1>4, <1>6, <1>9, <1>10, CutTrace
    <2>2. Len(Trace(n)) = n /\ Trace(n) \in Seq(1..Items)
      <3>1. 0 \in Nat /\ n \in Nat /\ 0 <= n /\ n <= Items /\ n - 0 = n
        BY <1>4, <1>7, <1>10
      <3> QED
        BY <3>1, RowsType DEF Trace
    <2> QED
      BY <2>1, <2>2
  <1> QED
    BY <1>2, <1>3, <1>4, <1>6, <1>7, <1>8, <1>10, <1>11

(* Writing a row keeps the invariant.                                       *)
LEMMA WriteInv == IInv /\ Write => IInv'
  <1> SUFFICES ASSUME IInv, Write PROVE IInv'
    OBVIOUS
  <1> USE ItemsAssumption, BatchSizeAssumption, ChannelDepthAssumption
  <1>1. /\ collector \in Collector /\ writer \in Writer /\ open \in BOOLEAN
        /\ writer.status = "writing" /\ Receiving
        /\ written' = written \o writer.chunk
        /\ Spills(written \o writer.chunk)
        /\ writer' = [status |-> "receiving", chunk |-> <<>>]
        /\ UNCHANGED <<collector, channel, open>>
        /\ written \in Seq(1..Items) /\ writer.chunk \in Seq(1..Items)
    BY DEF IInv, TypeOK, WriterShape, Write, Spills, Receiving, Writer
  <1>2. /\ writer' \in Writer /\ writer'.status = "receiving"
        /\ writer'.chunk = <<>> /\ Receiving'
    BY <1>1 DEF Writer, Statuses, Receiving
  <1>3. /\ written' \in Seq(1..Items) /\ written' = Trace(Len(written'))
        /\ Len(written') = Len(written) + Len(writer.chunk)
        /\ file' \in Seq(1..Items) /\ file' = Trace(Len(file'))
        /\ Len(file') <= collector.total /\ Len(file') <= Len(written')
    BY <1>1, SpilledPrefix
  <1>4. TypeOK'
    <2>1. PICK sent \in 0..collector.total, at \in [1..Places -> 0..Items] :
             QueuedAt(at, sent) /\ HeldAfter(sent)
      BY <1>1 DEF IInv, TypeOK
    <2>2. HeldAfter(sent)'
      BY <1>1, <2>1 DEF HeldAfter
    <2>3. Len(written') \in Nat /\ Len(writer'.chunk) = 0
      BY <1>2, <1>3
    <2>4. Len(written') + Len(writer'.chunk) = Len(written) + Len(writer.chunk)
      BY <1>3, <2>3
    <2>5. QueuedAt(at, sent)' /\ Places' = Places
      BY <1>1, <2>1, <2>4 DEF QueuedAt, Places
    <2>6. writer'.chunk = Rows(Len(written'), Len(written') + Len(writer'.chunk))
      <3>1. Len(written') + Len(writer'.chunk) = Len(written')
        BY <2>3
      <3> QED
        BY <1>2, <2>3, <3>1, EmptyRows
    <2>7. Len(channel) <= ChannelDepth /\ Len(collector.batch) < BatchSize
      BY DEF IInv, TypeOK
    <2> QED
      BY <1>1, <1>2, <1>3, <2>2, <2>5, <2>6, <2>7, TypeAgain
  <1>5. CollectorShape'
    BY <1>1, <1>2 DEF IInv, CollectorShape
  <1>6. WriterShape'
    <2>1. Len(writer'.chunk) <= BatchSize
      BY <1>2
    <2> QED
      BY <1>1, <1>2, <1>3, <2>1 DEF IInv, WriterShape
  <1>7. FileShape'
    BY <1>1, <1>2, <1>3 DEF FileShape
  <1> QED
    BY <1>4, <1>5, <1>6, <1>7 DEF IInv

(* Flushing keeps the invariant.                                            *)
LEMMA FlushInv == IInv /\ Flush => IInv'
  <1> SUFFICES ASSUME IInv, Flush PROVE IInv'
    OBVIOUS
  <1> USE ItemsAssumption, BatchSizeAssumption, ChannelDepthAssumption
  <1>1. /\ collector \in Collector /\ writer \in Writer
        /\ writer.status = "closing" /\ Receiving
        /\ channel = <<>> /\ writer.chunk = <<>> /\ ~open
        /\ written \in Seq(1..Items) /\ written = Trace(Len(written))
        /\ file' = written /\ writer' = [writer EXCEPT !.status = "ok"]
        /\ UNCHANGED <<collector, channel, open, written>>
    BY DEF IInv, TypeOK, WriterShape, Flush, Receiving
  <1>2. /\ writer' \in Writer /\ writer'.status = "ok"
        /\ writer'.chunk = <<>> /\ ~Receiving'
    BY <1>1 DEF Writer, Statuses, Receiving
  <1>3. /\ Len(written) <= collector.total
        /\ collector.phase # "dropped" => Len(written) = Items
    <2>1. PICK sent \in 0..collector.total, at \in [1..Places -> 0..Items] :
             QueuedAt(at, sent) /\ HeldAfter(sent)
      BY <1>1 DEF IInv, TypeOK
    <2>2. collector.total \in Nat /\ Len(written) \in Nat /\ sent \in Nat
      BY <1>1 DEF Collector
    <2>3. Len(written) = sent
      <3>1. Places = 1 /\ Len(writer.chunk) = 0
        BY <1>1 DEF Places
      <3>2. at[1] = Len(written) + Len(writer.chunk) /\ at[1] = sent
        BY <2>1, <3>1 DEF QueuedAt
      <3> QED
        BY <2>2, <3>1, <3>2
    <2>4. ASSUME collector.phase # "dropped" PROVE sent = Items
      <3>1. /\ collector.batch = <<>> /\ collector.sending = <<>>
            /\ collector.total = Items
        BY <1>1, <2>4 DEF IInv, CollectorShape, Collector, Phases
      <3>2. (sent + Len(collector.sending)) + Len(collector.batch) = collector.total
        BY <2>1, <2>4 DEF HeldAfter
      <3>3. Len(collector.sending) = 0 /\ Len(collector.batch) = 0
        BY <3>1
      <3> QED
        BY <2>2, <3>1, <3>2, <3>3
    <2> QED
      BY <2>2, <2>3, <2>4
  <1>4. TypeOK'
    BY <1>1, <1>2 DEF IInv, TypeOK
  <1>5. CollectorShape'
    <2>1. collector.phase \notin {"ok", "failed"}
      BY <1>1 DEF IInv, CollectorShape
    <2>2. ~collector.refused
      BY <1>1 DEF IInv, CollectorShape
    <2> QED
      BY <1>1, <1>2, <2>1, <2>2 DEF IInv, CollectorShape
  <1>6. WriterShape'
    BY <1>1, <1>2 DEF IInv, WriterShape
  <1>7. FileShape'
    BY <1>1, <1>2, <1>3 DEF FileShape
  <1> QED
    BY <1>4, <1>5, <1>6, <1>7 DEF IInv

(* A failure of the writer thread keeps the invariant.                      *)
LEMMA FailInv == IInv /\ Fail => IInv'
  <1> SUFFICES ASSUME IInv, Fail PROVE IInv'
    OBVIOUS
  <1> USE ItemsAssumption, BatchSizeAssumption, ChannelDepthAssumption
  <1>1. /\ writer \in Writer /\ Receiving
        /\ Spills(written \o writer.chunk)
        /\ writer' = [status |-> "failed", chunk |-> <<>>] /\ channel' = <<>>
        /\ UNCHANGED <<collector, open, written>>
    BY DEF IInv, TypeOK, Fail, Receiving
  <1>2. /\ writer' \in Writer /\ writer'.status = "failed"
        /\ writer'.chunk = <<>> /\ ~Receiving'
        /\ Len(writer'.chunk) = 0 /\ Len(channel') = 0
        /\ channel' \in Seq(Seq(1..Items))
    BY <1>1 DEF Writer, Statuses, Receiving
  <1>3. /\ file' \in Seq(1..Items) /\ file' = Trace(Len(file'))
        /\ Len(file') <= collector.total
    BY <1>1, SpilledPrefix
  <1>4. TypeOK'
    BY <1>1, <1>2 DEF IInv, TypeOK
  <1>5. CollectorShape'
    <2>1. collector.phase \notin {"ok", "failed"}
      BY <1>1 DEF IInv, CollectorShape, Receiving
    <2> QED
      BY <1>1, <1>2, <2>1 DEF IInv, CollectorShape
  <1>6. WriterShape'
    BY <1>1, <1>2 DEF IInv, WriterShape
  <1>7. FileShape'
    BY <1>1, <1>2, <1>3 DEF FileShape
  <1> QED
    BY <1>4, <1>5, <1>6, <1>7 DEF IInv

-----------------------------------------------------------------------------
(* Every step keeps the invariant.                                          *)
LEMMA StepInv == IInv /\ [Next]_vars => IInv'
  <1>1. IInv /\ UNCHANGED vars => IInv'
    <2> SUFFICES ASSUME IInv, UNCHANGED vars PROVE IInv'
      OBVIOUS
    <2> USE DEF vars
    <2>1. TypeOK'
      BY DEF IInv, TypeOK, Receiving, QueuedAt, HeldAfter, Places
    <2>2. CollectorShape'
      BY DEF IInv, CollectorShape
    <2>3. WriterShape'
      BY DEF IInv, WriterShape
    <2>4. FileShape'
      BY DEF IInv, FileShape, Receiving
    <2> QED
      BY <2>1, <2>2, <2>3, <2>4 DEF IInv
  <1> QED
    BY <1>1, PushInv, FinalizeInv, SendInv, CloseInv, JoinInv, TracerPanicsInv,
       CreateInv, ReceiveInv, WriteInv, FlushInv, FailInv
    DEF Next, Collect, WriterStep

(* The invariant holds in every reachable state.                            *)
LEMMA Invariance == Spec => []IInv
  BY InitInv, StepInv, PTL DEF Spec

(* Every row that was pushed is where TypeOK says: no interleaving of the  *)
(* two threads loses, repeats or reorders one while the writer runs.       *)
THEOREM TypeCorrect == Spec => []TypeOK
  <1>1. IInv => TypeOK
    BY DEF IInv
  <1> QED
    BY Invariance, <1>1, PTL

(* Whatever fails and whenever, the file is a prefix of the trace, for any *)
(* number of rows, batch size and channel depth.                           *)
THEOREM FileAlwaysPrefix == Spec => []FileIsPrefix
  <1>1. IInv => FileIsPrefix
    <2> SUFFICES ASSUME IInv PROVE FileIsPrefix
      OBVIOUS
    <2>1. /\ collector.total \in Nat /\ Len(file) \in 0..collector.total
          /\ file = Trace(Len(file)) /\ file \in Seq(1..Items)
      BY ItemsAssumption DEF IInv, TypeOK, FileShape, Collector
    <2>2. SubSeq(Trace(collector.total), 1, Len(file)) = file
          /\ Len(Trace(collector.total)) = collector.total
      BY <2>1, CutTrace
    <2>3. SubSeq(file, 1, Len(file)) = file
      BY <2>1
    <2> QED
      BY <2>1, <2>2, <2>3 DEF FileIsPrefix, IsPrefix
  <1> QED
    BY Invariance, <1>1, PTL

(* finalize answers Ok only when the whole trace is in the file and no     *)
(* batch was ever refused.                                                 *)
THEOREM OkAlwaysComplete == Spec => []OkMeansComplete
  <1>1. IInv => OkMeansComplete
    BY DEF IInv, OkMeansComplete, CollectorShape, FileShape
  <1> QED
    BY Invariance, <1>1, PTL

(* The rows pushed and not yet written fill at most the channel and two    *)
(* batches more.                                                           *)
THEOREM BacklogAlwaysBounded == Spec => []BoundedBacklog
  <1> USE ItemsAssumption, BatchSizeAssumption, ChannelDepthAssumption
  <1>1. IInv => BoundedBacklog
    <2> SUFFICES ASSUME IInv, Receiving
                 PROVE  collector.total - Len(written)
                            <= (ChannelDepth + 2) * BatchSize
      BY DEF BoundedBacklog
    <2>1. PICK sent \in 0..collector.total, at \in [1..Places -> 0..Items] :
             QueuedAt(at, sent) /\ HeldAfter(sent)
      BY DEF IInv, TypeOK
    <2>2. /\ collector.total \in Nat /\ sent \in Nat
          /\ Len(written) \in Nat /\ Len(channel) \in Nat
          /\ Len(writer.chunk) \in Nat /\ Len(writer.chunk) <= BatchSize
          /\ Len(collector.sending) \in Nat /\ Len(collector.sending) <= BatchSize
          /\ Len(collector.batch) \in Nat /\ Len(collector.batch) <= BatchSize
          /\ Len(channel) <= ChannelDepth
          /\ Places = Len(channel) + 1 /\ 1 \in 1..Places
      <3>1. collector \in Collector /\ writer \in Writer
            /\ written \in Seq(1..Items) /\ channel \in Seq(Seq(1..Items))
        BY DEF IInv, TypeOK, WriterShape
      <3>2. /\ collector.total \in 0..Items
            /\ collector.sending \in Seq(1..Items)
            /\ collector.batch \in Seq(1..Items)
            /\ writer.chunk \in Seq(1..Items)
        BY <3>1 DEF Collector, Writer
      <3>3. /\ Len(writer.chunk) <= BatchSize
            /\ Len(collector.sending) <= BatchSize
            /\ Len(collector.batch) < BatchSize
            /\ Len(channel) <= ChannelDepth
        BY DEF IInv, TypeOK, CollectorShape, WriterShape
      <3> QED
        BY <3>1, <3>2, <3>3 DEF Places
    <2>3. /\ at[1] = Len(written) + Len(writer.chunk)
          /\ sent - at[1] <= (Places - 1) * BatchSize
      BY <2>1, <2>2 DEF QueuedAt
    <2>4. sent - at[1] <= ChannelDepth * BatchSize
      <3>1. Len(channel) * BatchSize <= ChannelDepth * BatchSize
        BY <2>2, NoMore
      <3>2. Places - 1 = Len(channel) /\ at[1] \in Nat
        BY <2>2, <2>3
      <3>3. /\ Len(channel) * BatchSize \in Nat
            /\ ChannelDepth * BatchSize \in Nat
        BY <2>2
      <3>4. sent - at[1] <= Len(channel) * BatchSize
        BY <2>3, <3>2
      <3> QED
        BY <2>2, <3>1, <3>2, <3>3, <3>4, QueuedBound
    <2>5. collector.total - sent <= BatchSize
      <3>1. CASE collector.phase = "dropped"
        BY <2>1, <2>2, <3>1 DEF HeldAfter
      <3>2. CASE collector.phase # "dropped"
        <4>1. (sent + Len(collector.sending)) + Len(collector.batch)
                  = collector.total
          BY <2>1, <3>2 DEF HeldAfter
        <4>2. Len(collector.sending) = 0 \/ Len(collector.batch) = 0
          BY DEF IInv, CollectorShape
        <4> QED
          BY <2>2, <4>1, <4>2, HeldBound
      <3> QED
        BY <3>1, <3>2
    <2>6. (ChannelDepth + 2) * BatchSize
              = (ChannelDepth * BatchSize + BatchSize) + BatchSize
      <3>1. (ChannelDepth + 1) * BatchSize = ChannelDepth * BatchSize + BatchSize
        BY OneMore
      <3>2. ((ChannelDepth + 1) + 1) * BatchSize
                = (ChannelDepth + 1) * BatchSize + BatchSize
        BY OneMore
      <3>3. ChannelDepth + 2 = (ChannelDepth + 1) + 1
        OBVIOUS
      <3> QED
        BY <3>1, <3>2, <3>3
    <2>7. ChannelDepth * BatchSize \in Nat
      OBVIOUS
    <2>8. sent - (Len(written) + Len(writer.chunk)) <= ChannelDepth * BatchSize
      BY <2>3, <2>4
    <2>9. collector.total - Len(written)
              <= (ChannelDepth * BatchSize + BatchSize) + BatchSize
      BY <2>2, <2>5, <2>7, <2>8, BacklogSum
    <2> QED
      BY <2>6, <2>9
  <1> QED
    BY Invariance, <1>1, PTL

-----------------------------------------------------------------------------
(***************************************************************************)
(* The openings of a proof: Where is the point of every name, Sound an     *)
(* accumulator that has nothing elsewhere, and Fits a sumcheck that keeps  *)
(* it so.                                                                  *)
(***************************************************************************)
(***************************************************************************)
(* The accumulators                                                         *)
(***************************************************************************)
IsAccumulator(a) ==
    DOMAIN a = {"openings", "index", "aliases", "pending"}

(* An alias leads to an opening in one step.                                *)
DirectAliases(a) ==
    \A id \in DOMAIN a.aliases : a.aliases[id] \in DOMAIN a.openings \ DOMAIN a.aliases

(* Looking an alias up gives the opening it stands for, and an opening      *)
(* itself.                                                                  *)
LEMMA AliasResolved ==
    ASSUME NEW a, DirectAliases(a), NEW id
    PROVE  ResolveAlias(a, id) = IF id \in DOMAIN a.aliases THEN a.aliases[id] ELSE id
  <1> DEFINE D == DOMAIN a.aliases \cup DOMAIN a.openings
             Follows(f) == f = [k \in D |-> IF k \in DOMAIN a.aliases THEN f[a.aliases[k]] ELSE k]
             direct == [k \in D |-> IF k \in DOMAIN a.aliases THEN a.aliases[k] ELSE k]
             canonical == CHOOSE f : Follows(f)
  <1>1. Follows(direct)
    <2>1. ASSUME NEW k \in D
          PROVE  direct[k] = IF k \in DOMAIN a.aliases THEN direct[a.aliases[k]] ELSE k
      <3>1. CASE k \in DOMAIN a.aliases
        <4>1. a.aliases[k] \in DOMAIN a.openings /\ a.aliases[k] \notin DOMAIN a.aliases
          BY <3>1 DEF DirectAliases
        <4>2. direct[k] = a.aliases[k]
          BY <3>1
        <4>3. direct[a.aliases[k]] = a.aliases[k]
          BY <4>1
        <4> QED  BY <4>2, <4>3, <3>1
      <3>2. CASE k \notin DOMAIN a.aliases
        BY <3>2
      <3> QED  BY <3>1, <3>2
    <2>2. direct = [k \in D |-> direct[k]]
      OBVIOUS
    <2> HIDE DEF direct, D
    <2> QED  BY <2>1, <2>2
  <1>2. Follows(canonical)
    <2> HIDE DEF direct, Follows
    <2> QED  BY <1>1
  <1>3. ResolveAlias(a, id) = IF id \in DOMAIN a.aliases THEN canonical[id] ELSE id
    BY DEF ResolveAlias
  <1>4. ASSUME id \in DOMAIN a.aliases PROVE canonical[id] = a.aliases[id]
    <2>1. a.aliases[id] \in DOMAIN a.openings /\ a.aliases[id] \notin DOMAIN a.aliases
      BY <1>4 DEF DirectAliases
    <2>2. id \in D /\ a.aliases[id] \in D
      BY <1>4, <2>1
    <2> HIDE DEF canonical
    <2>3. canonical[id] = canonical[a.aliases[id]]
      BY <1>2, <1>4, <2>2
    <2>4. canonical[a.aliases[id]] = a.aliases[id]
      BY <1>2, <2>1, <2>2
    <2> QED  BY <2>3, <2>4
  <1> HIDE DEF canonical
  <1> QED  BY <1>3, <1>4

(* The accumulators while openings are appended, one by one                 *)
LEMMA AppendingStepByStep ==
    ASSUME NEW role, NEW a, NEW opens, Len(opens) \in Nat
    PROVE  /\ Appending(role, a, opens)[0] = a
           /\ \A n \in 1 .. Len(opens) :
                 Appending(role, a, opens)[n]
                    = AppendOpening(role, Appending(role, a, opens)[n - 1], opens[n])
  <1> DEFINE N == Len(opens)
             Upto(n, f) == /\ f = [k \in 0 .. n |-> f[k]]
                           /\ f[0] = a
                           /\ \A k \in 1 .. n : f[k] = AppendOpening(role, f[k - 1], opens[k])
             Good == {n \in 0 .. N : \E f : Upto(n, f)}
             Is(f) == f = [n \in 0 .. N |->
                              IF n = 0 THEN a ELSE AppendOpening(role, f[n - 1], opens[n])]
             after == CHOOSE f : Is(f)
  <1>1. 0 \in Good
    <2> DEFINE f == [k \in 0 .. 0 |-> a]
    <2>1. Upto(0, f)
      OBVIOUS
    <2> HIDE DEF f, Upto
    <2> QED  BY <2>1
  <1>2. ASSUME NEW n \in 0 .. N - 1, n \in Good PROVE n + 1 \in Good
    <2>1. PICK f : Upto(n, f)
      BY <1>2
    <2> DEFINE g == [k \in 0 .. n + 1 |->
                        IF k = n + 1 THEN AppendOpening(role, f[n], opens[n + 1]) ELSE f[k]]
    <2>2. g = [k \in 0 .. n + 1 |-> g[k]] /\ g[0] = a
      BY <2>1
    <2>3. ASSUME NEW k \in 1 .. n + 1 PROVE g[k] = AppendOpening(role, g[k - 1], opens[k])
      <3>1. CASE k = n + 1
        BY <3>1
      <3>2. CASE k # n + 1
        <4>1. k \in 1 .. n /\ g[k] = f[k] /\ g[k - 1] = f[k - 1]
          BY <3>2
        <4> QED  BY <4>1, <2>1
      <3> QED  BY <3>1, <3>2
    <2>4. Upto(n + 1, g)
      <3> HIDE DEF g
      <3> QED  BY <2>2, <2>3
    <2>5. n + 1 \in 0 .. N
      OBVIOUS
    <2> HIDE DEF g, Upto, N
    <2> QED  BY <2>4, <2>5
  <1>3. N \in Good
    <2>1. N \in Nat
      OBVIOUS
    <2> HIDE DEF Good, N
    <2>2. 0 .. N \subseteq Good
      BY <1>1, <1>2, <2>1, IntervalInduction
    <2> QED  BY <2>1, <2>2
  <1>4. PICK f : Upto(N, f)
    BY <1>3
  <1>5. Is(f)
    <2>1. \A n \in 0 .. N : f[n] = IF n = 0 THEN a ELSE AppendOpening(role, f[n - 1], opens[n])
      BY <1>4
    <2>2. f = [n \in 0 .. N |-> f[n]]
      BY <1>4
    <2> QED  BY <2>1, <2>2
  <1>6. Is(after)
    <2> HIDE DEF Is
    <2> QED  BY <1>5
  <1>7. Appending(role, a, opens) = after
    BY DEF Appending
  <1>8. \A n \in 0 .. N : after[n] = IF n = 0 THEN a ELSE AppendOpening(role, after[n - 1], opens[n])
    <2> HIDE DEF after
    <2> QED  BY <1>6
  <1> HIDE DEF after
  <1> QED  BY <1>7, <1>8
-----------------------------------------------------------------------------
(***************************************************************************)
(* Where everything is opened: for every name the point of the opening that *)
(* a sumcheck leaves under it.                                              *)
(***************************************************************************)
Names ==
    {"LeftInstructionInput", "RightInstructionInput", "Product", "ShouldBranch", "PC", "UnexpandedPC",
     "Imm", "RamAddress", "Rs1Value", "Rs2Value", "RdWriteValue", "RamReadValue", "RamWriteValue",
     "LeftLookupOperand", "RightLookupOperand", "NextUnexpandedPC", "NextPC", "NextIsVirtual",
     "NextIsFirstInSequence", "LookupOutput", "ShouldJump", "Jump", "WriteLookupOutputToRD",
     "VirtualInstruction", "IsFirstInSequence", "OtherFlags", "Branch", "NextIsNoop", "IsNoop",
     "LeftIsRs1", "LeftIsPC", "RightIsRs2", "RightIsImm"}
AllNames ==
    Names \cup
    {"UnivariateSkip", "RamVal", "RamRa", "RamInc", "RamValFinal", "UntrustedAdvice", "TrustedAdvice",
     "ProgramImageInitContributionRw", "RegistersVal", "Rs1Ra", "Rs2Ra", "RdWa", "RdInc", "LookupTableFlag",
     "InstructionRa", "InstructionRafFlag", "BytecodeReadRafAddrClaim", "BytecodeValStage",
     "BooleanityAddrClaim", "BytecodeRa", "RamHammingWeight", "BytecodeClaimReductionIntermediate",
     "BytecodeChunk", "ProgramImageInit"}
SpartanStages ==
    {"SpartanOuter", "SpartanProductVirtualization", "InstructionClaimReduction", "SpartanShift",
     "InstructionInputVirtualization", "RegistersClaimReduction", "RegistersReadWriteChecking",
     "RegistersValEvaluation"}
RamStages ==
    {"RamReadWriteChecking", "RamRafEvaluation", "RamOutputCheck", "RamValCheck", "RamRaClaimReduction",
     "RamHammingBooleanity", "RamRaVirtualization"}
LookupStages ==
    {"InstructionReadRaf", "BytecodeReadRafAddressPhase", "BooleanityAddressPhase", "BytecodeReadRaf",
     "Booleanity", "InstructionRaVirtualization", "IncClaimReduction", "HammingWeightClaimReduction"}
PrecommittedStages ==
    {"AdviceClaimReductionCyclePhase", "AdviceClaimReduction", "BytecodeClaimReductionCyclePhase",
     "BytecodeClaimReduction", "ProgramImageClaimReductionCyclePhase", "ProgramImageClaimReduction"}
Stages == SpartanStages \cup RamStages \cup LookupStages \cup PrecommittedStages
Ids == [poly : {"virtual", "committed"} \X AllNames \X Int, at : Stages]

Nowhere == Point(<<>>, Fresh("nowhere"))
(* The middle of a reduction in two phases, and its end                     *)
Middle(k, size) ==
    IF size > 0 /\ TwoPhases(k, size) THEN Point(CyclePoint(Shape(k), size), <<>>) ELSE Nowhere
End(k, size) == IF size > 0 THEN Point(FinalPoint(Shape(k), size), <<>>) ELSE Nowhere
RamCycle2 == Fresh("ramcycle2")
OuterPoint == Point(<<>>, Fresh("cycle1"))
Register4 == Fresh("register4")

WhereSpartan(id) ==
    CASE id.at = "SpartanOuter" ->
            IF id.poly[2] = "UnivariateSkip" THEN Point(<<>>, Fresh("skip1")) ELSE OuterPoint
      [] id.at = "SpartanProductVirtualization" ->
            IF id.poly[2] = "UnivariateSkip" THEN Point(<<>>, Fresh("skip2")) ELSE Point(<<>>, LastCycleRounds2)
      [] id.at = "InstructionClaimReduction" -> Point(<<>>, LastCycleRounds2)
      [] id.at \in {"SpartanShift", "InstructionInputVirtualization", "RegistersClaimReduction"} -> Point3
      [] id.at = "RegistersReadWriteChecking" ->
            Point(IF id.poly[2] = "RdInc" THEN <<>> ELSE Register4, Fresh("registercycle4"))
      [] id.at = "RegistersValEvaluation" ->
            Point(IF id.poly[2] = "RdInc" THEN <<>> ELSE Register4, Cycle5)
      [] OTHER -> Nowhere
WhereRam(k, id) ==
    CASE id.at = "RamReadWriteChecking" ->
            Point(IF id.poly[2] = "RamInc" THEN <<>> ELSE RamAddressRounds, RamCycle2)
      [] id.at = "RamRafEvaluation" -> Point(RafAddressRounds, Fresh("cycle1"))
      [] id.at = "RamOutputCheck" -> Point(OutputAddressRounds, <<>>)
      [] id.at = "RamValCheck" ->
            (CASE id.poly[2] = "UntrustedAdvice" -> Point(MemoryTail(k.untrusted), <<>>)
               [] id.poly[2] = "TrustedAdvice" -> Point(MemoryTail(k.trusted), <<>>)
               [] id.poly[2] = "ProgramImageInitContributionRw" -> Point(RamAddressRounds, <<>>)
               [] OTHER -> Point(IF id.poly[2] = "RamInc" THEN <<>> ELSE RamAddressRounds, Fresh("cycle4")))
      [] id.at = "RamRaClaimReduction" -> Point(RamAddressRounds, Cycle5)
      [] id.at = "RamHammingBooleanity" -> Point(<<>>, LastCycleRounds6(k))
      [] id.at = "RamRaVirtualization" ->
            Point(<<RamAddressRounds[id.poly[3] + 1]>>, LastCycleRounds6(k))
      [] OTHER -> Nowhere
WhereLookup(k, id) ==
    CASE id.at = "InstructionReadRaf" ->
            Point(IF id.poly[2] = "InstructionRa" THEN <<<<"lookup5", id.poly[3] + 1>>>> ELSE <<>>, Cycle5)
      [] id.at = "BytecodeReadRafAddressPhase" -> Point(BytecodeAddress, <<>>)
      [] id.at = "BooleanityAddressPhase" -> Point(BooleanityAddress6(k), <<>>)
      [] id.at = "BytecodeReadRaf" -> Point(<<BytecodeAddress[id.poly[3] + 1]>>, LastCycleRounds6(k))
      [] id.at = "Booleanity" -> Point(BooleanityAddress6(k), LastCycleRounds6(k))
      [] id.at = "InstructionRaVirtualization" ->
            Point(<<<<"chunk of lookup5", id.poly[3] + 1>>>>, LastCycleRounds6(k))
      [] id.at = "IncClaimReduction" -> Point(<<>>, LastCycleRounds6(k))
      [] id.at = "HammingWeightClaimReduction" -> Point(NativeAddress(Shape(k)), LastCycleRounds6(k))
      [] OTHER -> Nowhere
WherePrecommitted(k, id) ==
    CASE id.at = "AdviceClaimReductionCyclePhase" /\ id.poly[2] = "TrustedAdvice" -> Middle(k, k.trusted)
      [] id.at = "AdviceClaimReductionCyclePhase" /\ id.poly[2] = "UntrustedAdvice" -> Middle(k, k.untrusted)
      [] id.at = "AdviceClaimReduction" /\ id.poly[2] = "TrustedAdvice" -> End(k, k.trusted)
      [] id.at = "AdviceClaimReduction" /\ id.poly[2] = "UntrustedAdvice" -> End(k, k.untrusted)
      [] id.at = "BytecodeClaimReductionCyclePhase"
            /\ id.poly[2] = "BytecodeClaimReductionIntermediate" -> Middle(k, k.chunkVars)
      [] id.at = "BytecodeClaimReduction" /\ id.poly[2] = "BytecodeChunk" -> End(k, k.chunkVars)
      [] id.at = "ProgramImageClaimReductionCyclePhase"
            /\ id.poly[2] = "ProgramImageInit" -> Middle(k, k.image)
      [] id.at = "ProgramImageClaimReduction" /\ id.poly[2] = "ProgramImageInit" -> End(k, k.image)
      [] OTHER -> Nowhere
Where(k, id) ==
    CASE id.at \in SpartanStages -> WhereSpartan(id)
      [] id.at \in RamStages -> WhereRam(k, id)
      [] id.at \in PrecommittedStages -> WherePrecommitted(k, id)
      [] OTHER -> WhereLookup(k, id)
Openings(k) == {[id |-> id, point |-> Where(k, id)] : id \in Ids}
(***************************************************************************)
(* What holds of the accumulator of the prover, at all times                *)
(***************************************************************************)
Same(k, x, y) == x.poly = y.poly /\ Where(k, x) = Where(k, y)

Sound(k, a) ==
    /\ IsAccumulator(a)
    /\ a.index \in Seq(DOMAIN a.openings)
    /\ \A x \in DOMAIN a.openings : \E i \in 1 .. Len(a.index) : a.index[i] = x
    /\ \A x \in DOMAIN a.openings : x \in Ids /\ a.openings[x].point = Where(k, x)
    /\ \A x, y \in DOMAIN a.openings : Same(k, x, y) => x = y
    /\ \A x \in DOMAIN a.aliases :
          /\ x \in Ids /\ x \notin DOMAIN a.openings
          /\ a.aliases[x] \in DOMAIN a.openings /\ Same(k, a.aliases[x], x)
GrowsTo(a, d) ==
    /\ DOMAIN a.openings \subseteq DOMAIN d.openings
    /\ \A x \in DOMAIN a.aliases : x \in DOMAIN d.aliases /\ d.aliases[x] = a.aliases[x]

(* In a sound accumulator every alias stands for an opening that is there.  *)
LEMMA SoundDirect == \A k, a : Sound(k, a) => DirectAliases(a)
  BY DEF Sound, DirectAliases

(* A sound accumulator has a name when it is opened or an alias, its point  *)
(* is the one of the table, and a name it has not has no point.             *)
LEMMA SoundKnows ==
    ASSUME NEW k, NEW a, Sound(k, a), NEW id
    PROVE  /\ Has(a, id) <=> id \in DOMAIN a.openings \cup DOMAIN a.aliases
           /\ Has(a, id) => PointOf(a, id) = Where(k, id) /\ ResolveAlias(a, id) \in DOMAIN a.openings
           /\ ~Has(a, id) => PointOf(a, id) = NoPoint
  <1>1. ResolveAlias(a, id) = IF id \in DOMAIN a.aliases THEN a.aliases[id] ELSE id
    BY SoundDirect, AliasResolved
  <1>2. CASE id \in DOMAIN a.aliases
    BY <1>1, <1>2, SMT DEF Has, PointOf, Sound, Same
  <1>3. CASE id \notin DOMAIN a.aliases
    BY <1>1, <1>3, SMT DEF Has, PointOf, Sound
  <1> QED  BY <1>2, <1>3

(* A name stays known as the accumulator grows.                             *)
LEMMA KnowsMore ==
    ASSUME NEW k, NEW a, NEW d, Sound(k, a), Sound(k, d), GrowsTo(a, d), NEW id, Has(a, id)
    PROVE  Has(d, id)
  BY SoundKnows DEF GrowsTo

(* Growing twice is growing.                                                *)
LEMMA GrowsOn == \A a, d, e : GrowsTo(a, d) /\ GrowsTo(d, e) => GrowsTo(a, e)
  BY DEF GrowsTo

(* An accumulator that does not change has grown.                           *)
LEMMA GrowsNot == \A a : GrowsTo(a, a)
  BY DEF GrowsTo

(* The accumulator a proof starts with is sound.                            *)
LEMMA NothingSound == \A k : Sound(k, NoOpenings)
  <1> TAKE k
  <1>1. DOMAIN NoOpenings.openings = {} /\ DOMAIN NoOpenings.aliases = {} /\ NoOpenings.index = <<>>
    BY DEF NoOpenings
  <1>2. IsAccumulator(NoOpenings)
    BY DEF NoOpenings, IsAccumulator
  <1> QED  BY <1>1, <1>2 DEF Sound

(* The first place of the index that is one of a set                        *)
LEMMA FirstIsOne ==
    ASSUME NEW a, NEW places, places \subseteq 1 .. Len(a.index), Len(a.index) \in Nat, places # {}
    PROVE  \E i \in places : First(a, places) = a.index[i]
  <1>1. PICK m \in places : \A i \in places : m <= i
    BY LeastNumber
  <1>2. Min(places) \in places
    BY <1>1 DEF Min
  <1> QED  BY <1>2 DEF First

(* An entry of a map is set and the others stay.                            *)
LEMMA WithIs ==
    ASSUME NEW f, NEW x, NEW v
    PROVE  /\ DOMAIN With(f, x, v) = DOMAIN f \cup {x}
           /\ With(f, x, v)[x] = v
           /\ \A y \in DOMAIN f : y # x => With(f, x, v)[y] = f[y]
  BY DEF With
AliasAdded(a, id, target) == [a EXCEPT !.aliases = With(@, id, target)]

(* Adding an alias changes the aliases alone.                               *)
LEMMA AliasAddedIs ==
    ASSUME NEW a, IsAccumulator(a), NEW id, NEW target
    PROVE  /\ IsAccumulator(AliasAdded(a, id, target))
           /\ AliasAdded(a, id, target).openings = a.openings
           /\ AliasAdded(a, id, target).index = a.index
           /\ AliasAdded(a, id, target).aliases = With(a.aliases, id, target)
  BY DEF AliasAdded, IsAccumulator

(* Openings at the point are in the index at the places AtPoint.            *)
LEMMA SoundPlaces ==
    ASSUME NEW k, NEW a, Sound(k, a), NEW id \in Ids
    PROVE  /\ AtPoint(a, id, Where(k, id)) \subseteq 1 .. Len(a.index)
           /\ \A i \in AtPoint(a, id, Where(k, id)) :
                 a.index[i] \in DOMAIN a.openings /\ Same(k, a.index[i], id)
           /\ AtPoint(a, id, Where(k, id)) = {} =>
                 \A x \in DOMAIN a.openings : ~Same(k, x, id)
  <1>1. DOMAIN a.index = 1 .. Len(a.index) /\ Len(a.index) \in Nat
    BY DEF Sound
  <1>2. \A i \in 1 .. Len(a.index) : a.index[i] \in DOMAIN a.openings
    BY DEF Sound
  <1>3. \A x \in DOMAIN a.openings : a.openings[x].point = Where(k, x)
    BY DEF Sound
  <1>4. \A i \in AtPoint(a, id, Where(k, id)) :
           a.index[i] \in DOMAIN a.openings /\ Same(k, a.index[i], id)
    BY <1>1, <1>2, <1>3 DEF AtPoint, Same
  <1>5. ASSUME AtPoint(a, id, Where(k, id)) = {}, NEW x \in DOMAIN a.openings, Same(k, x, id)
        PROVE  FALSE
    <2>1. PICK i \in 1 .. Len(a.index) : a.index[i] = x
      BY DEF Sound
    <2>2. i \in AtPoint(a, id, Where(k, id))
      BY <1>1, <1>3, <1>5, <2>1 DEF AtPoint, Same
    <2> QED  BY <1>5, <2>2
  <1>6. AtPoint(a, id, Where(k, id)) \subseteq 1 .. Len(a.index)
    BY <1>1 DEF AtPoint
  <1> QED  BY <1>4, <1>5, <1>6

(* An opening that is new is appended, or is another name of one that is    *)
(* there.                                                                   *)
LEMMA ProverAppendsSoundly ==
    ASSUME NEW k, NEW a, Sound(k, a), NEW id \in Ids, id \notin DOMAIN a.openings,
           NEW d, d = ProverAppends(a, id, Where(k, id))
    PROVE  Sound(k, d) /\ GrowsTo(a, d) /\ Has(d, id)
  <1> DEFINE existing == AtPoint(a, id, Where(k, id))
             y == First(a, existing)
             claim == <<id.poly, Where(k, id)>>
  <1>1. IsAccumulator(a) /\ Len(a.index) \in Nat
    BY DEF Sound
  <1>2. CASE existing # {}
    <2>1. PICK i \in existing : y = a.index[i]
      BY <1>1, <1>2, SoundPlaces, FirstIsOne
    <2>2. y \in DOMAIN a.openings /\ Same(k, y, id)
      BY <2>1, SoundPlaces
    <2>3. d = AliasAdded(a, id, y)
      BY <1>2 DEF ProverAppends, AliasAdded
    <2> HIDE DEF y, existing
    <2>a. /\ IsAccumulator(d) /\ d.openings = a.openings /\ d.index = a.index
          /\ d.aliases = With(a.aliases, id, y)
      <3> HIDE DEF claim
      <3> QED  BY <1>1, <2>3, AliasAddedIs
    <2>4. /\ IsAccumulator(d) /\ d.openings = a.openings /\ d.index = a.index
          /\ DOMAIN d.aliases = DOMAIN a.aliases \cup {id}
          /\ d.aliases[id] = y
          /\ \A x \in DOMAIN a.aliases : x # id => d.aliases[x] = a.aliases[x]
      BY <2>a DEF With
    <2>5. ASSUME id \in DOMAIN a.aliases PROVE a.aliases[id] = y
      <3>1. a.aliases[id] \in DOMAIN a.openings /\ Same(k, a.aliases[id], id)
        BY <2>5 DEF Sound
      <3>2. Same(k, a.aliases[id], y)
        BY <2>2, <3>1 DEF Same
      <3> QED  BY <2>2, <3>1, <3>2 DEF Sound
    <2>6. Sound(k, d)
      BY <2>2, <2>4 DEF Sound
    <2>7. GrowsTo(a, d)
      BY <2>4, <2>5 DEF GrowsTo
    <2> QED  BY <2>4, <2>6, <2>7, SoundKnows
  <1>3. CASE existing = {}
    <2>1. \A x \in DOMAIN a.openings : ~Same(k, x, id)
      BY <1>3, SoundPlaces
    <2>2. d = Insert(a, id, Where(k, id), claim, TRUE)
      BY <1>3 DEF ProverAppends
    <2> HIDE DEF existing, claim
    <2>a. /\ IsAccumulator(d) /\ d.aliases = a.aliases /\ d.index = Append(a.index, id)
          /\ d.openings = With(a.openings, id, [point |-> Where(k, id), claim |-> claim])
      BY <1>1, <2>2 DEF Insert, IsAccumulator
    <2>3. /\ IsAccumulator(d) /\ d.aliases = a.aliases /\ d.index = Append(a.index, id)
          /\ DOMAIN d.openings = DOMAIN a.openings \cup {id}
          /\ d.openings[id].point = Where(k, id)
          /\ \A x \in DOMAIN a.openings : x # id => d.openings[x] = a.openings[x]
      BY <2>a DEF With
    <2>4. id \notin DOMAIN a.aliases
      BY <2>1 DEF Sound
    <2>5. d.index \in Seq(DOMAIN d.openings)
      BY <2>3 DEF Sound
    <2>6. \A x \in DOMAIN d.openings : \E i \in 1 .. Len(d.index) : d.index[i] = x
      <3>1. /\ Len(d.index) = Len(a.index) + 1 /\ d.index[Len(a.index) + 1] = id
            /\ \A i \in 1 .. Len(a.index) : d.index[i] = a.index[i]
        BY <1>1, <2>3 DEF Sound
      <3>2. \A x \in DOMAIN a.openings : \E i \in 1 .. Len(a.index) : a.index[i] = x
        BY DEF Sound
      <3> QED  BY <1>1, <2>3, <3>1, <3>2
    <2>7. \A x \in DOMAIN d.openings : x \in Ids /\ d.openings[x].point = Where(k, x)
      BY <2>3 DEF Sound
    <2>8. \A x, z \in DOMAIN d.openings : Same(k, x, z) => x = z
      <3>1. \A x \in DOMAIN a.openings : ~Same(k, id, x)
        BY <2>1 DEF Same
      <3> QED  BY <2>1, <2>3, <3>1 DEF Sound
    <2>9. \A x \in DOMAIN d.aliases :
             /\ x \in Ids /\ x \notin DOMAIN d.openings
             /\ d.aliases[x] \in DOMAIN d.openings /\ Same(k, d.aliases[x], x)
      BY <2>3, <2>4 DEF Sound
    <2>10. Sound(k, d)
      BY <2>3, <2>5, <2>6, <2>7, <2>8, <2>9 DEF Sound
    <2>11. GrowsTo(a, d)
      BY <2>3 DEF GrowsTo
    <2> QED  BY <2>3, <2>10, <2>11, SoundKnows
  <1> QED  BY <1>2, <1>3
-----------------------------------------------------------------------------
(***************************************************************************)
(* The verifier follows: P is the accumulator of the prover at the same     *)
(* place, L that of its end, whose claims the verifier was given.           *)
(***************************************************************************)
EmptyAlone(k) ==
    \A x, y \in Ids : x.poly = y.poly /\ Where(k, x) = NoPoint /\ Where(k, y) = NoPoint => x = y

Follows(k, v, p, last) ==
    /\ IsAccumulator(v)
    /\ v.aliases = p.aliases
    /\ DOMAIN v.openings = DOMAIN last.openings
    /\ \A x \in DOMAIN last.openings :
          v.openings[x].point = IF x \in DOMAIN p.openings THEN Where(k, x) ELSE NoPoint
    /\ v.index \in Seq(DOMAIN p.openings)
    /\ \A x \in DOMAIN p.openings :
          (\E i \in 1 .. Len(v.index) : v.index[i] = x) <=> Where(k, x) # NoPoint

(* The verifier's aliases stand for openings that are there, and none is an *)
(* opening.                                                                 *)
LEMMA FollowsDirect ==
    ASSUME NEW k, NEW v, NEW p, NEW last, Sound(k, p), Sound(k, last), GrowsTo(p, last),
           Follows(k, v, p, last)
    PROVE  DirectAliases(v) /\ DOMAIN v.aliases \cap DOMAIN v.openings = {}
  BY DEF Sound, GrowsTo, Follows, DirectAliases

(* Both know the same points.                                               *)
LEMMA SamePoints ==
    ASSUME NEW k, NEW v, NEW p, NEW last, Sound(k, p), Sound(k, last), GrowsTo(p, last),
           Follows(k, v, p, last)
    PROVE  \A id : PointOf(v, id) = PointOf(p, id)
  <1> TAKE id
  <1>1. ResolveAlias(v, id) = IF id \in DOMAIN v.aliases THEN v.aliases[id] ELSE id
    BY FollowsDirect, AliasResolved
  <1>2. /\ Has(p, id) => PointOf(p, id) = Where(k, id)
        /\ ~Has(p, id) => PointOf(p, id) = NoPoint
        /\ Has(p, id) <=> id \in DOMAIN p.openings \cup DOMAIN p.aliases
    BY SoundKnows
  <1>3. CASE id \in DOMAIN p.aliases
    <2>1. /\ id \in DOMAIN v.aliases /\ v.aliases[id] = p.aliases[id]
          /\ p.aliases[id] \in DOMAIN p.openings /\ Where(k, p.aliases[id]) = Where(k, id)
      BY <1>3 DEF Follows, Sound, Same
    <2>2. p.aliases[id] \in DOMAIN v.openings /\ v.openings[p.aliases[id]].point = Where(k, id)
      BY <2>1 DEF Follows, GrowsTo
    <2> QED  BY <1>1, <1>2, <1>3, <2>1, <2>2, SMT DEF PointOf, Has
  <1>4. CASE id \notin DOMAIN p.aliases
    <2>1. ResolveAlias(v, id) = id
      BY <1>1, <1>4 DEF Follows
    <2>2. CASE id \in DOMAIN p.openings
      <3>1. id \in DOMAIN v.openings /\ v.openings[id].point = Where(k, id)
        BY <2>2 DEF Follows, GrowsTo
      <3> QED  BY <1>2, <2>1, <2>2, <3>1, SMT DEF PointOf, Has
    <2>3. CASE id \notin DOMAIN p.openings
      <3>1. id \in DOMAIN v.openings => v.openings[id].point = NoPoint
        BY <2>3 DEF Follows
      <3> QED  BY <1>2, <1>4, <2>1, <2>3, <3>1, SMT DEF PointOf, Has
    <2> QED  BY <2>2, <2>3
  <1> QED  BY <1>3, <1>4

(* One opening more: the verifier does what the prover did.                 *)
LEMMA VerifierAppendsAlike ==
    ASSUME NEW k, EmptyAlone(k), NEW v, NEW p, NEW last, Sound(k, p), Sound(k, last),
           Follows(k, v, p, last), NEW id \in Ids, id \notin DOMAIN p.openings,
           NEW d, d = ProverAppends(p, id, Where(k, id)), GrowsTo(d, last),
           NEW w, w = VerifierAppends(v, id, Where(k, id))
    PROVE  Follows(k, w, d, last)
  <1> DEFINE point == Where(k, id)
             existing == AtPoint(p, id, point)
             found == IF point = NoPoint THEN {} ELSE AtPoint(v, id, point)
             indexed == point # NoPoint /\ id \notin {v.index[i] : i \in DOMAIN v.index}
             claim == IF id \in DOMAIN v.openings THEN v.openings[id].claim ELSE NoClaim
  <1>1. /\ IsAccumulator(p) /\ Len(p.index) \in Nat /\ IsAccumulator(v)
        /\ Len(v.index) \in Nat /\ DOMAIN v.index = 1 .. Len(v.index)
        /\ \A i \in 1 .. Len(v.index) : v.index[i] \in DOMAIN p.openings
    <2>1. p.index \in Seq(DOMAIN p.openings) /\ IsAccumulator(p)
      BY DEF Sound
    <2>2. v.index \in Seq(DOMAIN p.openings) /\ IsAccumulator(v)
      BY DEF Follows
    <2> QED  BY <2>1, <2>2
  <1>2. DOMAIN p.openings \subseteq DOMAIN d.openings /\ DOMAIN d.openings \subseteq DOMAIN last.openings
    BY ProverAppendsSoundly DEF GrowsTo
  <1>3. \A i \in found : /\ i \in 1 .. Len(v.index)
                         /\ v.index[i] \in DOMAIN p.openings /\ Same(k, v.index[i], id)
    <2> SUFFICES ASSUME NEW i \in AtPoint(v, id, point)
                 PROVE  i \in 1 .. Len(v.index) /\ v.index[i] \in DOMAIN p.openings /\ Same(k, v.index[i], id)
      OBVIOUS
    <2>1. i \in 1 .. Len(v.index) /\ v.index[i].poly = id.poly /\ v.openings[v.index[i]].point = point
      BY <1>1 DEF AtPoint
    <2>2. v.openings[v.index[i]].point = Where(k, v.index[i])
      BY <1>1, <1>2, <2>1 DEF Follows
    <2> QED  BY <1>1, <2>1, <2>2 DEF Same
  <1>4. CASE existing # {}
    <2> DEFINE y == First(p, existing)
    <2>1. PICK i \in existing : y = p.index[i]
      BY <1>1, <1>4, SoundPlaces, FirstIsOne
    <2>2. y \in DOMAIN p.openings /\ Same(k, y, id) /\ y \in Ids
      <3>1. y \in DOMAIN p.openings /\ Same(k, y, id)
        BY <2>1, SoundPlaces
      <3> HIDE DEF y
      <3> QED  BY <3>1 DEF Sound
    <2>3. d = AliasAdded(p, id, y)
      BY <1>4 DEF ProverAppends, AliasAdded
    <2>4. point # NoPoint
      BY <2>2 DEF EmptyAlone, Same
    <2>5. \A x \in DOMAIN p.openings : Same(k, x, id) => x = y
      BY <2>2 DEF Sound, Same
    <2>6. PICK j \in 1 .. Len(v.index) : v.index[j] = y
      BY <2>2, <2>4 DEF Follows, Same
    <2>7. j \in found
      <3>1. v.openings[y].point = Where(k, y)
        BY <1>2, <2>2 DEF Follows
      <3> QED  BY <1>1, <2>2, <2>4, <2>6, <3>1 DEF AtPoint, Same
    <2>8. First(v, found) = y
      <3>1. PICK l \in found : First(v, found) = v.index[l]
        <4> HIDE DEF found
        <4>1. found \subseteq 1 .. Len(v.index) /\ found # {}
          BY <1>3, <2>7
        <4> QED  BY <1>1, <4>1, FirstIsOne
      <3> HIDE DEF found, y
      <3> QED  BY <3>1, <1>3, <2>5
    <2>9. w = AliasAdded(v, id, y)
      <3>1. y # id
        BY <2>2
      <3> QED  BY <2>7, <2>8, <3>1 DEF VerifierAppends, AliasAdded
    <2> HIDE DEF y, existing, found
    <2>10. /\ d.openings = p.openings /\ d.index = p.index /\ d.aliases = With(p.aliases, id, y)
      BY <1>1, <2>3, AliasAddedIs
    <2>11. /\ IsAccumulator(w) /\ w.openings = v.openings /\ w.index = v.index
           /\ w.aliases = With(v.aliases, id, y)
      BY <1>1, <2>9, AliasAddedIs
    <2> QED  BY <2>10, <2>11 DEF Follows
  <1>5. CASE existing = {}
    <2>1. \A x \in DOMAIN p.openings : ~Same(k, x, id)
      BY <1>5, SoundPlaces
    <2>2. d = Insert(p, id, point, <<id.poly, point>>, TRUE)
      BY <1>5 DEF ProverAppends
    <2>3. found = {}
      <3> HIDE DEF found
      <3> QED  BY <1>3, <2>1
    <2>4. id \notin {v.index[i] : i \in DOMAIN v.index}
      BY <1>1
    <2>5. w = Insert(v, id, point, claim, indexed)
      BY <2>3 DEF VerifierAppends
    <2> HIDE DEF existing, found, claim, point
    <2>6. /\ d.aliases = p.aliases /\ DOMAIN d.openings = DOMAIN p.openings \cup {id}
      <3>1. d.aliases = p.aliases
            /\ d.openings = With(p.openings, id, [point |-> point, claim |-> <<id.poly, point>>])
        BY <1>1, <2>2 DEF Insert, IsAccumulator
      <3> QED  BY <3>1 DEF With
    <2>7. w = Insert(v, id, point, claim, TRUE) \/ w = Insert(v, id, point, claim, FALSE)
      BY <2>5
    <2>8. /\ IsAccumulator(w) /\ w.aliases = v.aliases
          /\ w.openings = With(v.openings, id, [point |-> point, claim |-> claim])
      BY <1>1, <2>7 DEF Insert, IsAccumulator
    <2>9. id \in DOMAIN v.openings
      BY <1>2, <2>6 DEF Follows
    <2>10. /\ DOMAIN w.openings = DOMAIN v.openings
           /\ w.openings[id].point = point
           /\ \A x \in DOMAIN v.openings : x # id => w.openings[x] = v.openings[x]
      BY <2>8, <2>9 DEF With
    <2>11. \A x \in DOMAIN last.openings :
              w.openings[x].point = IF x \in DOMAIN d.openings THEN Where(k, x) ELSE NoPoint
      BY <2>6, <2>10 DEF Follows, point
    <2>12. CASE point = NoPoint
      <3>1. w = Insert(v, id, point, claim, FALSE)
        BY <2>5, <2>12
      <3>2. w.index = v.index
        BY <1>1, <3>1 DEF Insert, IsAccumulator
      <3>3. w.index \in Seq(DOMAIN d.openings)
        BY <2>6, <3>2 DEF Follows
      <3>4. ASSUME NEW x \in DOMAIN d.openings
            PROVE  (\E i \in 1 .. Len(w.index) : w.index[i] = x) <=> Where(k, x) # NoPoint
        <4>1. CASE x = id
          BY <1>1, <2>12, <3>2, <4>1 DEF point
        <4>2. CASE x # id
          BY <2>6, <3>2, <4>2 DEF Follows
        <4> QED  BY <4>1, <4>2
      <3> QED  BY <2>6, <2>8, <2>10, <2>11, <3>3, <3>4 DEF Follows
    <2>13. CASE point # NoPoint
      <3>1. w = Insert(v, id, point, claim, TRUE)
        BY <2>4, <2>5, <2>13
      <3>2. w.index = Append(v.index, id)
        BY <1>1, <3>1 DEF Insert, IsAccumulator
      <3>3. w.index \in Seq(DOMAIN d.openings)
        BY <2>6, <3>2 DEF Follows
      <3>4. /\ Len(w.index) = Len(v.index) + 1 /\ w.index[Len(v.index) + 1] = id
            /\ \A i \in 1 .. Len(v.index) : w.index[i] = v.index[i]
        BY <1>1, <3>2 DEF Follows
      <3>5. ASSUME NEW x \in DOMAIN d.openings
            PROVE  (\E i \in 1 .. Len(w.index) : w.index[i] = x) <=> Where(k, x) # NoPoint
        <4>1. CASE x = id
          BY <1>1, <2>13, <3>4, <4>1 DEF point
        <4>2. CASE x # id
          <5>1. (\E i \in 1 .. Len(v.index) : v.index[i] = x) <=> Where(k, x) # NoPoint
            BY <2>6, <4>2 DEF Follows
          <5>2. (\E i \in 1 .. Len(w.index) : w.index[i] = x) <=> \E i \in 1 .. Len(v.index) : v.index[i] = x
            BY <1>1, <3>4, <4>2
          <5> QED  BY <5>1, <5>2
        <4> QED  BY <4>1, <4>2
      <3> QED  BY <2>6, <2>8, <2>10, <2>11, <3>3, <3>5 DEF Follows
    <2> QED  BY <2>12, <2>13
  <1> QED  BY <1>4, <1>5
(***************************************************************************)
(* Sequences of openings                                                    *)
(***************************************************************************)
LEMMA ProverAppendsAll ==
    ASSUME NEW k, NEW a, Sound(k, a), NEW opens \in Seq(Openings(k)), ~Repeated("prover", a, opens)
    PROVE  /\ \A n \in 0 .. Len(opens) :
                 /\ Sound(k, Appending("prover", a, opens)[n])
                 /\ GrowsTo(a, Appending("prover", a, opens)[n])
                 /\ GrowsTo(Appending("prover", a, opens)[n], AppendOpenings("prover", a, opens))
           /\ \A i \in 1 .. Len(opens) :
                 /\ opens[i].id \in Ids /\ opens[i].point = Where(k, opens[i].id)
                 /\ opens[i].id \notin DOMAIN Appending("prover", a, opens)[i - 1].openings
                 /\ Has(AppendOpenings("prover", a, opens), opens[i].id)
  <1> DEFINE f == Appending("prover", a, opens)
             N == Len(opens)
  <1>1. N \in Nat /\ DOMAIN opens = 1 .. N /\ AppendOpenings("prover", a, opens) = f[N]
    BY DEF AppendOpenings
  <1>2. \A i \in 1 .. N : opens[i].id \in Ids /\ opens[i].point = Where(k, opens[i].id)
    BY DEF Openings
  <1>3. f[0] = a /\ \A n \in 1 .. N : f[n] = ProverAppends(f[n - 1], opens[n].id, opens[n].point)
    BY <1>1, AppendingStepByStep DEF AppendOpening
  <1>4. \A i \in 1 .. N : opens[i].id \notin DOMAIN f[i - 1].openings
    BY <1>1 DEF Repeated
  <1> HIDE DEF f, N
  <1> DEFINE Good == {n \in 0 .. N : /\ Sound(k, f[n]) /\ GrowsTo(a, f[n])
                                     /\ \A m \in 0 .. n : GrowsTo(f[m], f[n])
                                     /\ \A i \in 1 .. n : Has(f[n], opens[i].id)}
  <1>5. 0 \in Good
    BY <1>1, <1>3, GrowsNot
  <1>6. ASSUME NEW n \in 0 .. N - 1, n \in Good PROVE n + 1 \in Good
    <2>1. Sound(k, f[n]) /\ n + 1 \in 1 .. N
      BY <1>1, <1>6
    <2>2. /\ f[n + 1] = ProverAppends(f[n], opens[n + 1].id, Where(k, opens[n + 1].id))
          /\ opens[n + 1].id \in Ids /\ opens[n + 1].id \notin DOMAIN f[n].openings
      <3>1. (n + 1) - 1 = n
        OBVIOUS
      <3> QED  BY <2>1, <1>2, <1>3, <1>4, <3>1
    <2>3. Sound(k, f[n + 1]) /\ GrowsTo(f[n], f[n + 1]) /\ Has(f[n + 1], opens[n + 1].id)
      BY <2>1, <2>2, ProverAppendsSoundly
    <2>4. GrowsTo(a, f[n + 1])
      BY <1>6, <2>3, GrowsOn
    <2>5. ASSUME NEW m \in 0 .. n + 1 PROVE GrowsTo(f[m], f[n + 1])
      <3>1. CASE m = n + 1
        BY <3>1, GrowsNot
      <3>2. CASE m # n + 1
        <4>1. GrowsTo(f[m], f[n])
          BY <1>6, <3>2
        <4> QED  BY <4>1, <2>3, GrowsOn
      <3> QED  BY <3>1, <3>2
    <2>6. ASSUME NEW i \in 1 .. n + 1 PROVE Has(f[n + 1], opens[i].id)
      <3>1. CASE i = n + 1
        BY <3>1, <2>3
      <3>2. CASE i # n + 1
        <4>1. Has(f[n], opens[i].id)
          BY <1>6, <3>2
        <4> QED  BY <4>1, <2>1, <2>3, KnowsMore
      <3> QED  BY <3>1, <3>2
    <2> QED  BY <2>1, <2>3, <2>4, <2>5, <2>6
  <1>7. 0 .. N \subseteq Good
    <2> HIDE DEF Good
    <2> QED  BY <1>1, <1>5, <1>6, IntervalInduction
  <1>8. \A n \in 0 .. N : Sound(k, f[n]) /\ GrowsTo(a, f[n]) /\ GrowsTo(f[n], f[N])
    BY <1>1, <1>7
  <1>9. \A i \in 1 .. N : Has(f[N], opens[i].id)
    BY <1>1, <1>7
  <1> QED  BY <1>1, <1>2, <1>4, <1>8, <1>9 DEF f, N

(* When both append the same openings, of which the prover had none, the    *)
(* verifier's accumulator still follows.                                    *)
LEMMA VerifierFollowsAll ==
    ASSUME NEW k, EmptyAlone(k), NEW p, Sound(k, p), NEW opens \in Seq(Openings(k)),
           ~Repeated("prover", p, opens), NEW last, Sound(k, last),
           GrowsTo(AppendOpenings("prover", p, opens), last), NEW v, Follows(k, v, p, last)
    PROVE  Follows(k, AppendOpenings("verifier", v, opens), AppendOpenings("prover", p, opens), last)
  <1> DEFINE f == Appending("prover", p, opens)
             g == Appending("verifier", v, opens)
             N == Len(opens)
  <1>1. /\ N \in Nat /\ AppendOpenings("prover", p, opens) = f[N]
        /\ AppendOpenings("verifier", v, opens) = g[N]
    BY DEF AppendOpenings
  <1>2. /\ \A n \in 0 .. N : Sound(k, f[n]) /\ GrowsTo(f[n], f[N])
        /\ \A i \in 1 .. N :
              /\ opens[i].id \in Ids /\ opens[i].point = Where(k, opens[i].id)
              /\ opens[i].id \notin DOMAIN f[i - 1].openings
    BY <1>1, ProverAppendsAll
  <1>3. f[0] = p /\ \A n \in 1 .. N : f[n] = ProverAppends(f[n - 1], opens[n].id, opens[n].point)
    BY <1>1, AppendingStepByStep DEF AppendOpening
  <1>4. g[0] = v /\ \A n \in 1 .. N : g[n] = VerifierAppends(g[n - 1], opens[n].id, opens[n].point)
    BY <1>1, AppendingStepByStep DEF AppendOpening
  <1>5. \A n \in 0 .. N : GrowsTo(f[n], last)
    BY <1>1, <1>2, GrowsOn
  <1> HIDE DEF f, g, N
  <1> DEFINE Good == {n \in 0 .. N : Follows(k, g[n], f[n], last)}
  <1>6. 0 \in Good
    BY <1>1, <1>3, <1>4
  <1>7. ASSUME NEW n \in 0 .. N - 1, n \in Good PROVE n + 1 \in Good
    <2>1. n + 1 \in 1 .. N /\ n + 1 \in 0 .. N /\ n \in 0 .. N /\ (n + 1) - 1 = n
      BY <1>1
    <2>2. /\ f[n + 1] = ProverAppends(f[n], opens[n + 1].id, Where(k, opens[n + 1].id))
          /\ g[n + 1] = VerifierAppends(g[n], opens[n + 1].id, Where(k, opens[n + 1].id))
          /\ opens[n + 1].id \in Ids /\ opens[n + 1].id \notin DOMAIN f[n].openings
      BY <2>1, <1>2, <1>3, <1>4
    <2>3. Sound(k, f[n]) /\ GrowsTo(f[n + 1], last) /\ Follows(k, g[n], f[n], last)
      BY <2>1, <1>2, <1>5, <1>7
    <2>4. Follows(k, g[n + 1], f[n + 1], last)
      <3> HIDE DEF Good
      <3> QED  BY <2>2, <2>3, VerifierAppendsAlike
    <2> QED  BY <2>1, <2>4
  <1>8. 0 .. N \subseteq Good
    <2> HIDE DEF Good
    <2> QED  BY <1>1, <1>6, <1>7, IntervalInduction
  <1> QED  BY <1>1, <1>8

(* Neither cares whether the claims have been absorbed.                     *)
LEMMA FlushingIs ==
    ASSUME NEW a, IsAccumulator(a)
    PROVE  /\ IsAccumulator(Flushing(a)) /\ Flushing(a).openings = a.openings
           /\ Flushing(a).index = a.index /\ Flushing(a).aliases = a.aliases
  BY DEF IsAccumulator, Flushing

(* Absorbing the claims changes no opening.                                 *)
LEMMA FlushingKeeps ==
    ASSUME NEW k, NEW a, Sound(k, a)
    PROVE  Sound(k, Flushing(a)) /\ GrowsTo(a, Flushing(a)) /\ GrowsTo(Flushing(a), a)
  <1>1. IsAccumulator(a)
    BY DEF Sound
  <1>2. /\ IsAccumulator(Flushing(a)) /\ Flushing(a).openings = a.openings
        /\ Flushing(a).index = a.index /\ Flushing(a).aliases = a.aliases
    BY <1>1, FlushingIs
  <1>3. Sound(k, Flushing(a))
    BY <1>2 DEF Sound
  <1> QED  BY <1>2, <1>3 DEF GrowsTo

(* Absorbing the claims, the verifier's accumulator still follows.          *)
LEMMA FlushingFollows ==
    ASSUME NEW k, NEW v, NEW p, NEW last, Sound(k, p), Follows(k, v, p, last)
    PROVE  Follows(k, Flushing(v), Flushing(p), last)
  <1>1. IsAccumulator(p) /\ IsAccumulator(v)
    BY DEF Sound, Follows
  <1>2. /\ IsAccumulator(Flushing(v)) /\ Flushing(v).openings = v.openings
        /\ Flushing(v).index = v.index /\ Flushing(v).aliases = v.aliases
        /\ Flushing(p).openings = p.openings /\ Flushing(p).aliases = p.aliases
    BY <1>1, FlushingIs
  <1> QED  BY <1>2 DEF Follows

(* The claims of a proof, of which nothing is known yet                     *)
LEMMA GivenFollows ==
    ASSUME NEW k, NEW last, Sound(k, last)
    PROVE  Follows(k, Given(last), NoOpenings, last)
  <1>1. /\ IsAccumulator(Given(last)) /\ Given(last).aliases = <<>> /\ Given(last).index = <<>>
        /\ DOMAIN Given(last).openings = DOMAIN last.openings
        /\ \A x \in DOMAIN last.openings : Given(last).openings[x].point = NoPoint
    BY DEF Given, NoOpenings, IsAccumulator
  <1>2. NoOpenings.aliases = <<>> /\ DOMAIN NoOpenings.openings = {}
    BY DEF NoOpenings
  <1> QED  BY <1>1, <1>2 DEF Follows
(* Advice of one word has no variables, and claims about it have an empty   *)
(* point; every other advice has a point.                                   *)
Wide == {k \in Configurations : k.trusted # 0 /\ k.untrusted # 0}
(***************************************************************************)
(* Which points can be empty                                                *)
(***************************************************************************)
LEMMA ConfigurationTyped ==
    ASSUME NEW k \in Wide
    PROVE  /\ k.logT \in Nat \ {0} /\ k.logK \in Nat \ {0} /\ k.chunks \in Nat \ {0}
           /\ k.trusted \in Int /\ k.untrusted \in Int /\ k.chunkVars \in Int /\ k.image \in Int
           /\ k.trusted # Absent => k.trusted > 0
           /\ k.untrusted # Absent => k.untrusted > 0
           /\ Committed(k) => k.chunkVars > 0 /\ k.image > 0
           /\ k.aligned \in BOOLEAN
  <1>1. PICK l \in Layouts, t \in LogTs, n \in LogKs, tr \in AdviceVars \cup {Absent},
             un \in AdviceVars \cup {Absent}, al \in BOOLEAN,
             p \in {FullMode} \cup [chunkVars : ChunkVars, image : ImageVars] :
                k = [layout |-> l, logT |-> t, logK |-> n, trusted |-> tr, untrusted |-> un,
                     chunks |-> Chunks, chunkVars |-> p.chunkVars, image |-> p.image, aligned |-> al]
    BY DEF Wide, Configurations
  <1>2. /\ k.logT = t /\ k.logK = n /\ k.trusted = tr /\ k.untrusted = un /\ k.chunks = Chunks
        /\ k.chunkVars = p.chunkVars /\ k.image = p.image /\ k.aligned = al
    BY <1>1
  <1> k.trusted # 0 /\ k.untrusted # 0
    BY DEF Wide
  <1>3. CASE p = FullMode
    BY <1>2, <1>3, SizeAssumption DEF FullMode, Absent, Committed
  <1>4. CASE p \in [chunkVars : ChunkVars, image : ImageVars]
    BY <1>2, <1>4, SizeAssumption DEF Absent, Committed
  <1> QED  BY <1>3, <1>4

(* A challenge of its own is one variable.                                  *)
LEMMA FreshIs == \A name : Fresh(name) # <<>> /\ Len(Fresh(name)) = 1
  BY DEF Fresh

(* The chunks of a point are not empty when there is one.                   *)
LEMMA ChunkedIs ==
    ASSUME NEW name, NEW n \in Nat \ {0}
    PROVE  Chunked(name, n) # <<>>
  <1>1. DOMAIN Chunked(name, n) = 1 .. n /\ 1 \in 1 .. n
    BY DEF Chunked
  <1> QED  BY <1>1

(* The cycle rounds of stage 6 are at least one.                            *)
LEMMA Rounds6NotEmpty ==
    ASSUME NEW k \in Wide
    PROVE  LastCycleRounds6(k) # <<>>
  <1>1. Shape(k).logT = k.logT
    BY DEF Shape
  <1>2. DOMAIN LastCycleRounds6(k) = 1 .. k.logT
    BY <1>1 DEF LastCycleRounds6, NativeCycle
  <1>3. k.logT \in Nat \ {0}
    BY ConfigurationTyped
  <1>4. 1 \in DOMAIN LastCycleRounds6(k)
    BY <1>2, <1>3
  <1> QED  BY <1>4

(* A point is empty when both its parts are, and has the parts it was made  *)
(* of.                                                                      *)
LEMMA PointIs ==
    ASSUME NEW a, NEW b
    PROVE  /\ Point(a, b) = NoPoint <=> a = <<>> /\ b = <<>>
           /\ Point(a, b).address = a /\ Point(a, b).cycle = b
           /\ Point(a, b)["address"] = a /\ Point(a, b)["cycle"] = b
  BY DEF Point, NoPoint

(* The place of a name that is never opened is not the empty point.         *)
LEMMA NowhereIs == Nowhere # NoPoint
  BY PointIs, FreshIs DEF Nowhere

(* No claim about the cycles is at the empty point.                         *)
LEMMA SpartanNotEmpty == \A id : WhereSpartan(id) # NoPoint
  <1>1. LastCycleRounds2 # <<>> /\ Cycle5 # <<>> /\ Point3 # NoPoint /\ OuterPoint # NoPoint
    BY FreshIs, PointIs DEF LastCycleRounds2, Cycle5, Point3, OuterPoint
  <1> QED  BY <1>1, FreshIs, PointIs, NowhereIs DEF WhereSpartan

(* No claim about the memory is at the empty point, unless advice is one    *)
(* word.                                                                    *)
LEMMA RamNotEmpty == \A k \in Wide : \A id : WhereRam(k, id) # NoPoint
  <1> TAKE k \in Wide
  <1> TAKE id
  <1>1. /\ RamAddressRounds # <<>> /\ RafAddressRounds # <<>> /\ OutputAddressRounds # <<>>
        /\ RamCycle2 # <<>> /\ Cycle5 # <<>> /\ LastCycleRounds6(k) # <<>>
    BY CountAssumption, ChunkedIs, FreshIs, Rounds6NotEmpty
       DEF RamAddressRounds, RafAddressRounds, OutputAddressRounds, RamCycle2, Cycle5
  <1>2. MemoryTail(k.untrusted) # <<>> /\ MemoryTail(k.trusted) # <<>>
    BY ConfigurationTyped DEF MemoryTail, Absent
  <1> QED  BY <1>1, <1>2, FreshIs, PointIs, NowhereIs DEF WhereRam

(* No claim about lookups is at the empty point.                            *)
LEMMA LookupNotEmpty == \A k \in Wide : \A id : WhereLookup(k, id) # NoPoint
  <1> TAKE k \in Wide
  <1> TAKE id
  <1>1. BytecodeAddress # <<>> /\ Cycle5 # <<>> /\ LastCycleRounds6(k) # <<>>
    BY CountAssumption, ChunkedIs, FreshIs, Rounds6NotEmpty DEF BytecodeAddress, Cycle5
  <1>2. BooleanityAddress6(k) # <<>>
    <2>1. <<BytecodeAddress[1]>> # <<>>
      OBVIOUS
    <2>2. BooleanityAddress6(k) \in {<<BytecodeAddress[1]>>, Fresh("boolean6")}
      BY DEF BooleanityAddress6
    <2> QED  BY <2>1, <2>2, FreshIs
  <1>3. /\ \A a : Point(a, Cycle5) # NoPoint
        /\ \A a : Point(a, LastCycleRounds6(k)) # NoPoint
        /\ \A a : Point(BytecodeAddress, a) # NoPoint
        /\ \A a : Point(BooleanityAddress6(k), a) # NoPoint
    BY <1>1, <1>2, PointIs
  <1> QED  BY <1>3, NowhereIs DEF WhereLookup

(* In two phases the end of a reduction is a point of as many variables as   *)
(* the polynomial has.                                                      *)
LEMMA EndNotEmpty ==
    ASSUME NEW k \in Wide, NEW size \in Int, End(k, size) = NoPoint
    PROVE  size > 0 /\ ~TwoPhases(k, size)
  <1>1. size > 0 /\ FinalPoint(Shape(k), size) = <<>>
    BY NowhereIs, PointIs DEF End
  <1>2. ASSUME TwoPhases(k, size) PROVE FALSE
    <2>1. DOMAIN FinalPoint(Shape(k), size) = 1 .. size
      BY <1>2 DEF FinalPoint, TwoPhases
    <2>2. 1 \in 1 .. size
      BY <1>1
    <2> QED  BY <1>1, <2>1, <2>2
  <1> QED  BY <1>1, <1>2

(* A reduction whose middle is at the empty point has two phases.           *)
LEMMA MiddleNotEmpty ==
    ASSUME NEW k, NEW size, Middle(k, size) = NoPoint
    PROVE  TwoPhases(k, size)
  BY NowhereIs DEF Middle

(* So the point of at most one opening of a polynomial is empty.            *)
LEMMA EmptyIsAlone ==
    ASSUME NEW k \in Wide
    PROVE  EmptyAlone(k)
  <1> SUFFICES ASSUME NEW x \in Ids, NEW y \in Ids, x.poly = y.poly,
                      Where(k, x) = NoPoint, Where(k, y) = NoPoint
               PROVE  x = y
    BY DEF EmptyAlone
  <1>1. WherePrecommitted(k, x) = NoPoint /\ WherePrecommitted(k, y) = NoPoint
    BY SpartanNotEmpty, RamNotEmpty, LookupNotEmpty, SMT DEF Where
  <1> DEFINE At(id) ==
               \/ /\ id.poly[2] = "TrustedAdvice"
                  /\ \/ id.at = "AdviceClaimReductionCyclePhase" /\ TwoPhases(k, k.trusted)
                     \/ id.at = "AdviceClaimReduction" /\ ~TwoPhases(k, k.trusted)
               \/ /\ id.poly[2] = "UntrustedAdvice"
                  /\ \/ id.at = "AdviceClaimReductionCyclePhase" /\ TwoPhases(k, k.untrusted)
                     \/ id.at = "AdviceClaimReduction" /\ ~TwoPhases(k, k.untrusted)
               \/ /\ id.poly[2] = "BytecodeClaimReductionIntermediate"
                  /\ id.at = "BytecodeClaimReductionCyclePhase"
               \/ /\ id.poly[2] = "BytecodeChunk" /\ id.at = "BytecodeClaimReduction"
               \/ /\ id.poly[2] = "ProgramImageInit"
                  /\ \/ id.at = "ProgramImageClaimReductionCyclePhase" /\ TwoPhases(k, k.image)
                     \/ id.at = "ProgramImageClaimReduction" /\ ~TwoPhases(k, k.image)
  <1>2. ASSUME NEW id, WherePrecommitted(k, id) = NoPoint PROVE At(id)
    BY <1>2, ConfigurationTyped, NowhereIs, EndNotEmpty, MiddleNotEmpty, SMT DEF WherePrecommitted
  <1>3. At(x) /\ At(y)
    <2> HIDE DEF At
    <2> QED  BY <1>1, <1>2
  <1>4. x.at = y.at
    BY <1>3
  <1> QED  BY <1>4 DEF Ids
(***************************************************************************)
(* Names and openings                                                       *)
(***************************************************************************)
Joined(u, s, t) == u = s \o t

(* Two sequences joined have the elements of both, at their places.         *)
LEMMA ConcatTyped ==
    ASSUME NEW S, NEW s \in Seq(S), NEW t \in Seq(S), NEW u, Joined(u, s, t)
    PROVE  /\ u \in Seq(S) /\ Len(u) = Len(s) + Len(t)
           /\ DOMAIN u = 1 .. Len(s) + Len(t)
           /\ \A i \in 1 .. Len(s) : u[i] = s[i]
           /\ \A i \in 1 .. Len(t) : u[Len(s) + i] = t[i]
  BY DEF Joined

(* The names of the inputs of the constraints, and those of them that later *)
(* stages ask for.                                                          *)
LEMMA R1csNames ==
    /\ R1csInputs \in Seq(Names)
    /\ ToSet(Lookup) \cup ToSet(OpFlags)
       \cup {"RamReadValue", "RamWriteValue", "NextPC", "NextUnexpandedPC", "NextIsVirtual",
             "NextIsFirstInSequence", "RdWriteValue", "Rs1Value", "Rs2Value", "UnexpandedPC", "Imm", "PC"}
          \subseteq ToSet(R1csInputs)
  <1> DEFINE first == <<"LeftInstructionInput", "RightInstructionInput", "Product", "ShouldBranch", "PC", "UnexpandedPC",
      "Imm", "RamAddress", "Rs1Value", "Rs2Value", "RdWriteValue", "RamReadValue", "RamWriteValue",
      "LeftLookupOperand", "RightLookupOperand", "NextUnexpandedPC", "NextPC", "NextIsVirtual",
      "NextIsFirstInSequence", "LookupOutput", "ShouldJump">>
  <1>1. first \in Seq(Names) /\ Len(first) = 21
    BY DEF Names
  <1>2. OpFlags \in Seq(Names) /\ Len(OpFlags) = 5
    BY DEF Names, OpFlags
  <1>3. R1csInputs = first \o OpFlags
    BY DEF R1csInputs
  <1>4. /\ first[1] = "LeftInstructionInput" /\ first[2] = "RightInstructionInput" /\ first[5] = "PC"
        /\ first[6] = "UnexpandedPC" /\ first[7] = "Imm" /\ first[9] = "Rs1Value" /\ first[10] = "Rs2Value"
        /\ first[11] = "RdWriteValue" /\ first[12] = "RamReadValue" /\ first[13] = "RamWriteValue"
        /\ first[14] = "LeftLookupOperand" /\ first[15] = "RightLookupOperand" /\ first[16] = "NextUnexpandedPC"
        /\ first[17] = "NextPC" /\ first[18] = "NextIsVirtual" /\ first[19] = "NextIsFirstInSequence"
        /\ first[20] = "LookupOutput"
    OBVIOUS
  <1> HIDE DEF first
  <1>a. PICK s : /\ s \in Seq(Names) /\ Len(s) = 21 /\ R1csInputs = s \o OpFlags
         /\ s[1] = "LeftInstructionInput" /\ s[2] = "RightInstructionInput" /\ s[5] = "PC"
                 /\ s[6] = "UnexpandedPC" /\ s[7] = "Imm" /\ s[9] = "Rs1Value" /\ s[10] = "Rs2Value"
                 /\ s[11] = "RdWriteValue" /\ s[12] = "RamReadValue" /\ s[13] = "RamWriteValue"
                 /\ s[14] = "LeftLookupOperand" /\ s[15] = "RightLookupOperand" /\ s[16] = "NextUnexpandedPC"
                 /\ s[17] = "NextPC" /\ s[18] = "NextIsVirtual" /\ s[19] = "NextIsFirstInSequence"
                 /\ s[20] = "LookupOutput"
    BY <1>1, <1>3, <1>4
  <1>5. /\ R1csInputs \in Seq(Names)
        /\ \A i \in 1 .. 21 : i \in DOMAIN R1csInputs /\ R1csInputs[i] = s[i]
        /\ \A i \in 1 .. 5 : 21 + i \in DOMAIN R1csInputs /\ R1csInputs[21 + i] = OpFlags[i]
    <2>1. /\ R1csInputs \in Seq(Names) /\ Len(R1csInputs) = Len(s) + Len(OpFlags)
          /\ DOMAIN R1csInputs = 1 .. Len(s) + Len(OpFlags)
          /\ \A i \in 1 .. Len(s) : R1csInputs[i] = s[i]
          /\ \A i \in 1 .. Len(OpFlags) : R1csInputs[Len(s) + i] = OpFlags[i]
      <3>1. s \in Seq(Names) /\ Joined(R1csInputs, s, OpFlags)
        BY <1>a DEF Joined
      <3>2. OpFlags \in Seq(Names)
        BY <1>2
      <3> QED  BY <3>1, <3>2, ConcatTyped
    <2>2. Len(s) = 21 /\ Len(OpFlags) = 5
      BY <1>2, <1>a
    <2> QED  BY <2>1, <2>2
  <1>6. \A i \in DOMAIN R1csInputs : R1csInputs[i] \in ToSet(R1csInputs)
    BY DEF ToSet
  <1>7. ToSet(OpFlags) \subseteq ToSet(R1csInputs)
    <2> SUFFICES ASSUME NEW i \in 1 .. 5 PROVE OpFlags[i] \in ToSet(R1csInputs)
      BY <1>2 DEF ToSet
    <2> QED  BY <1>5, <1>6
  <1>8. \A i \in 1 .. 21 : s[i] \in ToSet(R1csInputs)
    BY <1>5, <1>6
  <1>9. ToSet(Lookup) \subseteq {s[20], s[14], s[15], s[1], s[2]}
    <2>1. ToSet(Lookup) = {"LookupOutput", "LeftLookupOperand", "RightLookupOperand", "LeftInstructionInput",
                           "RightInstructionInput"}
      BY DEF Lookup, ToSet
    <2> QED  BY <1>a, <2>1
  <1>10. {"RamReadValue", "RamWriteValue", "NextPC", "NextUnexpandedPC", "NextIsVirtual",
         "NextIsFirstInSequence", "RdWriteValue", "Rs1Value", "Rs2Value", "UnexpandedPC", "Imm", "PC"}
          \subseteq ToSet(R1csInputs)
    BY <1>a, <1>8
  <1>11. ToSet(Lookup) \subseteq ToSet(R1csInputs)
    BY <1>8, <1>9
  <1> QED  BY <1>5, <1>7, <1>10, <1>11

(* The other lists of names are sequences of names.                         *)
LEMMA OtherNames ==
    /\ ProductFactors \in Seq(Names) /\ Lookup \in Seq(Names) /\ Shifted \in Seq(Names)
    /\ InputFlags \in Seq(Names) /\ RegisterValues \in Seq(Names) /\ Operands \in Seq(Names)
    /\ OpFlags \in Seq(Names)
  <1> USE DEF Names
  <1>1. ProductFactors \in Seq(Names)
    BY DEF ProductFactors
  <1>2. Lookup \in Seq(Names)
    BY DEF Lookup
  <1>3. Shifted \in Seq(Names)
    BY DEF Shifted
  <1>4. InputFlags \in Seq(Names)
    BY DEF InputFlags
  <1>5. RegisterValues \in Seq(Names) /\ Operands \in Seq(Names) /\ OpFlags \in Seq(Names)
    BY DEF RegisterValues, Operands, OpFlags
  <1> QED  BY <1>1, <1>2, <1>3, <1>4, <1>5

(* The names that later stages ask for are in the lists that are opened.    *)
LEMMA NamesIn ==
    /\ ToSet(RegisterValues) = {"RdWriteValue", "Rs1Value", "Rs2Value"}
    /\ ToSet(Operands) = {"LeftInstructionInput", "RightInstructionInput"}
    /\ {"LeftInstructionInput", "RightInstructionInput", "Jump", "WriteLookupOutputToRD", "LookupOutput",
        "Branch", "NextIsNoop", "VirtualInstruction"} \subseteq ToSet(ProductFactors)
    /\ {"LookupOutput", "LeftLookupOperand", "RightLookupOperand"} \subseteq ToSet(Lookup)
    /\ {"UnexpandedPC", "PC", "VirtualInstruction", "IsFirstInSequence", "IsNoop"} \subseteq ToSet(Shifted)
    /\ {"LeftIsRs1", "LeftIsPC", "UnexpandedPC", "RightIsRs2", "RightIsImm", "Imm"} \subseteq ToSet(InputFlags)
  BY DEF RegisterValues, Operands, ProductFactors, Lookup, Shifted, InputFlags, ToSet

(* A polynomial opened at a stage is a name of the table.                   *)
LEMMA IdsTyped ==
    /\ \A name \in AllNames, at \in Stages : V(name, at) \in Ids /\ C(name, at) \in Ids
    /\ \A name \in AllNames, at \in Stages : \A i \in Int : VNth(name, i, at) \in Ids /\ CNth(name, i, at) \in Ids
  BY DEF V, C, VNth, CNth, Ids

(* The names of a list, opened at a stage.                                  *)
LEMMA VsTyped ==
    ASSUME NEW names \in Seq(AllNames), NEW at \in Stages
    PROVE  /\ Vs(names, at) \in Seq(Ids) /\ Len(Vs(names, at)) = Len(names)
           /\ \A i \in 1 .. Len(names) : Vs(names, at)[i] = V(names[i], at)
  <1>1. \A i \in 1 .. Len(names) : V(names[i], at) \in Ids
    BY IdsTyped
  <1> QED  BY <1>1 DEF Vs

(* The members of a family of polynomials, opened at a stage.               *)
LEMMA EachTyped ==
    ASSUME NEW name \in AllNames, NEW at \in Stages, NEW n \in Nat
    PROVE  /\ VEach(name, n, at) \in Seq(Ids) /\ Len(VEach(name, n, at)) = n
           /\ \A i \in 1 .. n : VEach(name, n, at)[i] = VNth(name, i - 1, at)
           /\ CEach(name, n, at) \in Seq(Ids) /\ Len(CEach(name, n, at)) = n
           /\ \A i \in 1 .. n : CEach(name, n, at)[i] = CNth(name, i - 1, at)
  <1>1. \A i \in 1 .. n : VNth(name, i - 1, at) \in Ids /\ CNth(name, i - 1, at) \in Ids
    BY IdsTyped
  <1> QED  BY <1>1 DEF VEach, CEach

(* A name tells the polynomial and the stage it was made of.                *)
LEMMA IdFields ==
    ASSUME NEW name, NEW at, NEW i
    PROVE  /\ V(name, at).at = at /\ V(name, at).poly[2] = name
           /\ C(name, at).at = at /\ C(name, at).poly[2] = name
           /\ VNth(name, i, at).at = at /\ VNth(name, i, at).poly[2] = name /\ VNth(name, i, at).poly[3] = i
           /\ CNth(name, i, at).at = at /\ CNth(name, i, at).poly[2] = name /\ CNth(name, i, at).poly[3] = i
  BY DEF V, C, VNth, CNth

(* Names that belong at one point and are opened there are opened where the *)
(* table says.                                                              *)
LEMMA OpenPlaced ==
    ASSUME NEW k, NEW ids \in Seq(Ids), NEW point, \A i \in 1 .. Len(ids) : Where(k, ids[i]) = point
    PROVE  /\ Open(ids, point) \in Seq(Openings(k)) /\ Len(Open(ids, point)) = Len(ids)
           /\ \A i \in 1 .. Len(ids) : Open(ids, point)[i].id = ids[i]
  <1>1. \A i \in 1 .. Len(ids) : [id |-> ids[i], point |-> point] \in Openings(k)
    BY DEF Openings
  <1> QED  BY <1>1 DEF Open

(* So is one name.                                                          *)
LEMMA OpenOne ==
    ASSUME NEW k, NEW id \in Ids, NEW point, Where(k, id) = point
    PROVE  /\ Open(<<id>>, point) \in Seq(Openings(k)) /\ Len(Open(<<id>>, point)) = 1
           /\ Open(<<id>>, point)[1].id = id
  <1> DEFINE ids == <<id>>
  <1>1. ids \in Seq(Ids) /\ Len(ids) = 1 /\ ids[1] = id
    OBVIOUS
  <1> HIDE DEF ids
  <1>2. \A i \in 1 .. Len(ids) : Where(k, ids[i]) = point
    BY <1>1
  <1>3. /\ Open(ids, point) \in Seq(Openings(k)) /\ Len(Open(ids, point)) = Len(ids)
        /\ \A i \in 1 .. Len(ids) : Open(ids, point)[i].id = ids[i]
    BY <1>1, <1>2, OpenPlaced
  <1> QED  BY <1>1, <1>3 DEF ids

(* So are the names of a list.                                              *)
LEMMA OpenVs ==
    ASSUME NEW k, NEW names \in Seq(AllNames), NEW at \in Stages, NEW point,
           \A name \in ToSet(names) : Where(k, V(name, at)) = point
    PROVE  /\ Open(Vs(names, at), point) \in Seq(Openings(k))
           /\ Len(Open(Vs(names, at), point)) = Len(names)
           /\ \A i \in 1 .. Len(names) : Open(Vs(names, at), point)[i].id = V(names[i], at)
  <1>1. /\ Vs(names, at) \in Seq(Ids) /\ Len(Vs(names, at)) = Len(names)
        /\ \A i \in 1 .. Len(names) : Vs(names, at)[i] = V(names[i], at)
    BY VsTyped
  <1>2. \A i \in 1 .. Len(names) : names[i] \in ToSet(names)
    BY DEF ToSet
  <1>3. \A i \in 1 .. Len(Vs(names, at)) : Where(k, Vs(names, at)[i]) = point
    BY <1>1, <1>2
  <1>4. /\ Open(Vs(names, at), point) \in Seq(Openings(k))
        /\ Len(Open(Vs(names, at), point)) = Len(Vs(names, at))
        /\ \A i \in 1 .. Len(Vs(names, at)) : Open(Vs(names, at), point)[i].id = Vs(names, at)[i]
    <2> HIDE DEF Vs
    <2> DEFINE ids == Vs(names, at)
    <2>1. ids \in Seq(Ids) /\ \A i \in 1 .. Len(ids) : Where(k, ids[i]) = point
      BY <1>1, <1>3
    <2> HIDE DEF ids
    <2>2. /\ Open(ids, point) \in Seq(Openings(k)) /\ Len(Open(ids, point)) = Len(ids)
          /\ \A i \in 1 .. Len(ids) : Open(ids, point)[i].id = ids[i]
      BY <2>1, OpenPlaced
    <2> QED  BY <2>2 DEF ids
  <1> QED  BY <1>1, <1>4
(***************************************************************************)
(* The points, name by name                                                 *)
(***************************************************************************)
LEMMA WhereSpartanIs ==
    ASSUME NEW k, NEW id
    PROVE  id.at \in SpartanStages => Where(k, id) = WhereSpartan(id)
  <1> DEFINE known == id.at \in SpartanStages
  <1>1. Where(k, id) = CASE known -> WhereSpartan(id)
                         [] id.at \in RamStages -> WhereRam(k, id)
                         [] id.at \in PrecommittedStages -> WherePrecommitted(k, id)
                         [] OTHER -> WhereLookup(k, id)
    BY DEF Where
  <1> HIDE DEF known
  <1>2. known => id.at \notin RamStages /\ id.at \notin PrecommittedStages
    BY DEF known, SpartanStages, RamStages, PrecommittedStages
  <1>3. known => Where(k, id) = WhereSpartan(id)
    BY <1>1, <1>2, SMT
  <1> QED  BY <1>3 DEF known

(* The stages of the memory are found in their part of the table.           *)
LEMMA WhereRamIs ==
    ASSUME NEW k, NEW id
    PROVE  id.at \in RamStages => Where(k, id) = WhereRam(k, id)
  <1>1. id.at \in RamStages => id.at \notin SpartanStages /\ id.at \notin PrecommittedStages
    BY DEF SpartanStages, RamStages, PrecommittedStages
  <1> QED  BY <1>1, SMT DEF Where

(* The stages of the lookups are found in their part of the table.          *)
LEMMA WhereLookupIs ==
    ASSUME NEW k, NEW id
    PROVE  id.at \in LookupStages => Where(k, id) = WhereLookup(k, id)
  <1>1. id.at \in LookupStages => id.at \notin SpartanStages \cup RamStages \cup PrecommittedStages
    BY DEF SpartanStages, RamStages, LookupStages, PrecommittedStages
  <1> QED  BY <1>1, SMT DEF Where

(* The stages of what is precommitted are found in their part of the table. *)
LEMMA WherePrecommittedIs ==
    ASSUME NEW k, NEW id
    PROVE  id.at \in PrecommittedStages => Where(k, id) = WherePrecommitted(k, id)
  <1>1. id.at \in PrecommittedStages => id.at \notin SpartanStages \cup RamStages
    BY DEF SpartanStages, RamStages, PrecommittedStages
  <1> QED  BY <1>1, SMT DEF Where

(* The entries of the outer sumcheck in the table.                          *)
LEMMA WhereOuter ==
    ASSUME NEW k, NEW id, id.at = "SpartanOuter"
    PROVE  Where(k, id) = IF id.poly[2] = "UnivariateSkip" THEN Point(<<>>, Fresh("skip1")) ELSE OuterPoint
  <1>1. Where(k, id) = WhereSpartan(id)
    BY WhereSpartanIs DEF SpartanStages
  <1> QED  BY <1>1 DEF WhereSpartan

(* The entries of the product sumcheck in the table.                        *)
LEMMA WhereProduct ==
    ASSUME NEW k, NEW id, id.at = "SpartanProductVirtualization"
    PROVE  Where(k, id) = IF id.poly[2] = "UnivariateSkip" THEN Point(<<>>, Fresh("skip2"))
                          ELSE Point(<<>>, LastCycleRounds2)
  <1>1. Where(k, id) = WhereSpartan(id)
    BY WhereSpartanIs DEF SpartanStages
  <1> QED  BY <1>1 DEF WhereSpartan

(* The entries of the instruction claim reduction in the table.             *)
LEMMA WhereInstruction ==
    ASSUME NEW k, NEW id, id.at = "InstructionClaimReduction"
    PROVE  Where(k, id) = Point(<<>>, LastCycleRounds2)
  <1>1. Where(k, id) = WhereSpartan(id)
    BY WhereSpartanIs DEF SpartanStages
  <1> QED  BY <1>1 DEF WhereSpartan

(* The entries of stage 3 in the table, all at one point.                   *)
LEMMA WhereThird ==
    ASSUME NEW k, NEW id,
           id.at \in {"SpartanShift", "InstructionInputVirtualization", "RegistersClaimReduction"}
    PROVE  Where(k, id) = Point3
  <1>1. Where(k, id) = WhereSpartan(id)
    BY WhereSpartanIs DEF SpartanStages
  <1> QED  BY <1>1 DEF WhereSpartan

(* The entries of the registers' read-write check in the table.             *)
LEMMA WhereRegisters ==
    ASSUME NEW k, NEW id, id.at = "RegistersReadWriteChecking"
    PROVE  Where(k, id) = Point(IF id.poly[2] = "RdInc" THEN <<>> ELSE Register4, Fresh("registercycle4"))
  <1>1. Where(k, id) = WhereSpartan(id)
    BY WhereSpartanIs DEF SpartanStages
  <1> QED  BY <1>1 DEF WhereSpartan

(* The entries of the registers' value evaluation in the table.             *)
LEMMA WhereValues ==
    ASSUME NEW k, NEW id, id.at = "RegistersValEvaluation"
    PROVE  Where(k, id) = Point(IF id.poly[2] = "RdInc" THEN <<>> ELSE Register4, Cycle5)
  <1>1. Where(k, id) = WhereSpartan(id)
    BY WhereSpartanIs DEF SpartanStages
  <1> QED  BY <1>1 DEF WhereSpartan

(* The entries of the memory's read-write check in the table.               *)
LEMMA WhereRamReadWrite ==
    ASSUME NEW k, NEW id, id.at = "RamReadWriteChecking"
    PROVE  Where(k, id) = Point(IF id.poly[2] = "RamInc" THEN <<>> ELSE RamAddressRounds, RamCycle2)
  <1>1. Where(k, id) = WhereRam(k, id)
    BY WhereRamIs DEF RamStages
  <1> QED  BY <1>1 DEF WhereRam

(* The entries of the memory's address evaluation in the table.             *)
LEMMA WhereRaf ==
    ASSUME NEW k, NEW id, id.at = "RamRafEvaluation"
    PROVE  Where(k, id) = Point(RafAddressRounds, Fresh("cycle1"))
  <1>1. Where(k, id) = WhereRam(k, id)
    BY WhereRamIs DEF RamStages
  <1> QED  BY <1>1 DEF WhereRam

(* The entries of the output check in the table.                            *)
LEMMA WhereOutput ==
    ASSUME NEW k, NEW id, id.at = "RamOutputCheck"
    PROVE  Where(k, id) = Point(OutputAddressRounds, <<>>)
  <1>1. Where(k, id) = WhereRam(k, id)
    BY WhereRamIs DEF RamStages
  <1> QED  BY <1>1 DEF WhereRam

(* The entries of the memory's value check in the table: advice is at its   *)
(* own tail of the address.                                                 *)
LEMMA WhereRamVal ==
    ASSUME NEW k, NEW id, id.at = "RamValCheck"
    PROVE  /\ id.poly[2] = "UntrustedAdvice" => Where(k, id) = Point(MemoryTail(k.untrusted), <<>>)
           /\ id.poly[2] = "TrustedAdvice" => Where(k, id) = Point(MemoryTail(k.trusted), <<>>)
           /\ id.poly[2] = "ProgramImageInitContributionRw" => Where(k, id) = Point(RamAddressRounds, <<>>)
           /\ id.poly[2] = "RamInc" => Where(k, id) = Point(<<>>, Fresh("cycle4"))
           /\ id.poly[2] = "RamRa" => Where(k, id) = Point(RamAddressRounds, Fresh("cycle4"))
  <1>1. Where(k, id) = WhereRam(k, id)
    BY WhereRamIs DEF RamStages
  <1> QED  BY <1>1 DEF WhereRam

(* The entries of the memory's address reduction in the table.              *)
LEMMA WhereRamRa ==
    ASSUME NEW k, NEW id, id.at = "RamRaClaimReduction"
    PROVE  Where(k, id) = Point(RamAddressRounds, Cycle5)
  <1>1. Where(k, id) = WhereRam(k, id)
    BY WhereRamIs DEF RamStages
  <1> QED  BY <1>1 DEF WhereRam

(* The entries of the memory's hamming booleanity in the table.             *)
LEMMA WhereWeight ==
    ASSUME NEW k, NEW id, id.at = "RamHammingBooleanity"
    PROVE  Where(k, id) = Point(<<>>, LastCycleRounds6(k))
  <1>1. Where(k, id) = WhereRam(k, id)
    BY WhereRamIs DEF RamStages
  <1> QED  BY <1>1 DEF WhereRam

(* The entries of the memory's chunks in the table.                         *)
LEMMA WhereRamChunk ==
    ASSUME NEW k, NEW id, id.at = "RamRaVirtualization"
    PROVE  Where(k, id) = Point(<<RamAddressRounds[id.poly[3] + 1]>>, LastCycleRounds6(k))
  <1>1. Where(k, id) = WhereRam(k, id)
    BY WhereRamIs DEF RamStages
  <1> QED  BY <1>1 DEF WhereRam

(* The entries of the instruction lookups in the table.                     *)
LEMMA WhereReadRaf ==
    ASSUME NEW k, NEW id, id.at = "InstructionReadRaf"
    PROVE  Where(k, id)
              = Point(IF id.poly[2] = "InstructionRa" THEN <<<<"lookup5", id.poly[3] + 1>>>> ELSE <<>>, Cycle5)
  <1>1. Where(k, id) = WhereLookup(k, id)
    BY WhereLookupIs DEF LookupStages
  <1> QED  BY <1>1 DEF WhereLookup

(* The entries of the bytecode's address phase in the table.                *)
LEMMA WhereBytecodeAddress ==
    ASSUME NEW k, NEW id, id.at = "BytecodeReadRafAddressPhase"
    PROVE  Where(k, id) = Point(BytecodeAddress, <<>>)
  <1>1. Where(k, id) = WhereLookup(k, id)
    BY WhereLookupIs DEF LookupStages
  <1> QED  BY <1>1 DEF WhereLookup

(* The entries of booleanity's address phase in the table.                  *)
LEMMA WhereBooleanityAddress ==
    ASSUME NEW k, NEW id, id.at = "BooleanityAddressPhase"
    PROVE  Where(k, id) = Point(BooleanityAddress6(k), <<>>)
  <1>1. Where(k, id) = WhereLookup(k, id)
    BY WhereLookupIs DEF LookupStages
  <1> QED  BY <1>1 DEF WhereLookup

(* The entries of the bytecode's cycle phase in the table.                  *)
LEMMA WhereBytecode ==
    ASSUME NEW k, NEW id, id.at = "BytecodeReadRaf"
    PROVE  Where(k, id) = Point(<<BytecodeAddress[id.poly[3] + 1]>>, LastCycleRounds6(k))
  <1>1. Where(k, id) = WhereLookup(k, id)
    BY WhereLookupIs DEF LookupStages
  <1> QED  BY <1>1 DEF WhereLookup

(* The entries of booleanity's cycle phase in the table.                    *)
LEMMA WhereBooleanity ==
    ASSUME NEW k, NEW id, id.at = "Booleanity"
    PROVE  Where(k, id) = Point(BooleanityAddress6(k), LastCycleRounds6(k))
  <1>1. Where(k, id) = WhereLookup(k, id)
    BY WhereLookupIs DEF LookupStages
  <1> QED  BY <1>1 DEF WhereLookup

(* The entries of the instruction's chunks in the table.                    *)
LEMMA WhereInstructionRa ==
    ASSUME NEW k, NEW id, id.at = "InstructionRaVirtualization"
    PROVE  Where(k, id) = Point(<<<<"chunk of lookup5", id.poly[3] + 1>>>>, LastCycleRounds6(k))
  <1>1. Where(k, id) = WhereLookup(k, id)
    BY WhereLookupIs DEF LookupStages
  <1> QED  BY <1>1 DEF WhereLookup

(* The entries of the increments' reduction in the table.                   *)
LEMMA WhereInc ==
    ASSUME NEW k, NEW id, id.at = "IncClaimReduction"
    PROVE  Where(k, id) = Point(<<>>, LastCycleRounds6(k))
  <1>1. Where(k, id) = WhereLookup(k, id)
    BY WhereLookupIs DEF LookupStages
  <1> QED  BY <1>1 DEF WhereLookup

(* The entries of the hamming weight's reduction in the table.              *)
LEMMA WhereHamming ==
    ASSUME NEW k, NEW id, id.at = "HammingWeightClaimReduction"
    PROVE  Where(k, id) = Point(NativeAddress(Shape(k)), LastCycleRounds6(k))
  <1>1. Where(k, id) = WhereLookup(k, id)
    BY WhereLookupIs DEF LookupStages
  <1> QED  BY <1>1 DEF WhereLookup

(* The entries of the reductions of what is precommitted in the table: the  *)
(* middle of the reduction and its end.                                     *)
LEMMA WhereReduced ==
    ASSUME NEW k, NEW id
    PROVE  /\ id.at = "AdviceClaimReductionCyclePhase" /\ id.poly[2] = "TrustedAdvice" =>
                 Where(k, id) = Middle(k, k.trusted)
           /\ id.at = "AdviceClaimReductionCyclePhase" /\ id.poly[2] = "UntrustedAdvice" =>
                 Where(k, id) = Middle(k, k.untrusted)
           /\ id.at = "AdviceClaimReduction" /\ id.poly[2] = "TrustedAdvice" => Where(k, id) = End(k, k.trusted)
           /\ id.at = "AdviceClaimReduction" /\ id.poly[2] = "UntrustedAdvice" =>
                 Where(k, id) = End(k, k.untrusted)
           /\ id.at = "BytecodeClaimReductionCyclePhase" /\ id.poly[2] = "BytecodeClaimReductionIntermediate" =>
                 Where(k, id) = Middle(k, k.chunkVars)
           /\ id.at = "BytecodeClaimReduction" /\ id.poly[2] = "BytecodeChunk" =>
                 Where(k, id) = End(k, k.chunkVars)
           /\ id.at = "ProgramImageClaimReductionCyclePhase" /\ id.poly[2] = "ProgramImageInit" =>
                 Where(k, id) = Middle(k, k.image)
           /\ id.at = "ProgramImageClaimReduction" /\ id.poly[2] = "ProgramImageInit" =>
                 Where(k, id) = End(k, k.image)
  <1>1. id.at \in PrecommittedStages => Where(k, id) = WherePrecommitted(k, id)
    BY WherePrecommittedIs
  <1> QED  BY <1>1 DEF PrecommittedStages, WherePrecommitted
(***************************************************************************)
(* The sumchecks: what each leaves is where the table says, what it starts  *)
(* from is nowhere empty, and what it folds is in one place.                *)
(***************************************************************************)
(* Known names whose points have one part in common.                        *)
Meets(k, a, ids, part) == \E p : \A x \in ids : Has(a, x) /\ Where(k, x)[part] = p
Fits(k, a, s) ==
    /\ s.opens \in Seq(Openings(k))
    /\ \A i \in DOMAIN s.needs : s.needs[i].at \notin PrecommittedStages
    /\ \A i \in DOMAIN s.alike : Meets(k, a, s.alike[i].ids, s.alike[i].part)
Knows(a, ids) == \A i \in DOMAIN ids : Has(a, ids[i])

(* What is known before a batch, beside what its sumchecks ask for          *)
KnowsNames(a, names, at) == \A name \in names : Has(a, V(name, at))
Complete(k, b, a) ==
    /\ b > 2 => KnowsNames(a, ToSet(R1csInputs), "SpartanOuter")
    /\ b > 4 => /\ KnowsNames(a, ToSet(ProductFactors), "SpartanProductVirtualization")
                /\ KnowsNames(a, ToSet(Lookup), "InstructionClaimReduction")
                /\ Has(a, RamValue)
    /\ b > 5 => /\ KnowsNames(a, ToSet(Shifted), "SpartanShift")
                /\ KnowsNames(a, ToSet(InputFlags), "InstructionInputVirtualization")
                /\ KnowsNames(a, ToSet(RegisterValues), "RegistersClaimReduction")
    /\ b > 6 => KnowsNames(a, {"Rs1Ra", "Rs2Ra", "RdWa"}, "RegistersReadWriteChecking")
    /\ b > 7 => /\ Knows(a, VEach("LookupTableFlag", LookupTables, "InstructionReadRaf"))
                /\ KnowsNames(a, {"InstructionRafFlag"}, "InstructionReadRaf")
                /\ KnowsNames(a, {"RdWa"}, "RegistersValEvaluation")
    /\ b > 8 => (Committed(k) => Knows(a, BytecodeVals))
    /\ b > 9 => KnowsNames(a, {"RamHammingWeight"}, "RamHammingBooleanity")

(* What is known before a batch stays known as the accumulator grows.       *)
LEMMA CompleteOn ==
    ASSUME NEW k, NEW b, NEW a, NEW d, Sound(k, a), Sound(k, d), GrowsTo(a, d), Complete(k, b, a)
    PROVE  Complete(k, b, d)
  <1>1. \A id : Has(a, id) => Has(d, id)
    BY KnowsMore
  <1> QED  BY <1>1, Zenon DEF Complete, KnowsNames, Knows

(* Only what is precommitted can be opened at the empty point.              *)
LEMMA NotEmpty ==
    ASSUME NEW k \in Wide, NEW id, id.at \notin PrecommittedStages
    PROVE  Where(k, id) # NoPoint
  <1>1. /\ WhereSpartan(id) # NoPoint /\ WhereRam(k, id) # NoPoint /\ WhereLookup(k, id) # NoPoint
    BY SpartanNotEmpty, RamNotEmpty, LookupNotEmpty
  <1>2. CASE id.at \in SpartanStages
    BY <1>1, <1>2, WhereSpartanIs
  <1>3. CASE id.at \in RamStages
    BY <1>1, <1>3, WhereRamIs
  <1>4. CASE id.at \notin SpartanStages \cup RamStages
    BY <1>1, <1>4 DEF Where
  <1> QED  BY <1>2, <1>3, <1>4

(* The stages of the four parts of the table are stages.                    *)
LEMMA StageNames ==
    /\ SpartanStages \cup RamStages \cup LookupStages \subseteq Stages \ PrecommittedStages
    /\ PrecommittedStages \subseteq Stages
  BY DEF Stages, SpartanStages, RamStages, LookupStages, PrecommittedStages

(* The names of a list whose points have a part in common meet.             *)
LEMMA MeetsNames ==
    ASSUME NEW k, NEW a, NEW names, NEW at, KnowsNames(a, ToSet(names), at), NEW part,
           NEW p, \A name \in ToSet(names) : Where(k, V(name, at))[part] = p
    PROVE  Meets(k, a, ToSet(Vs(names, at)), part)
  <1>1. \A x \in ToSet(Vs(names, at)) : \E name \in ToSet(names) : x = V(name, at)
    BY DEF ToSet, Vs
  <1> QED  BY <1>1 DEF Meets, KnowsNames

(* What a sumcheck folds has a part and the names it is about.              *)
LEMMA AlikeIs ==
    ASSUME NEW part, NEW ids
    PROVE  Alike(part, ids).part = part /\ Alike(part, ids).ids = ToSet(ids)
  BY DEF Alike

(* The first round of the outer sumcheck fits.                              *)
LEMMA FitsOuterUniSkip ==
    ASSUME NEW k, NEW a
    PROVE  Fits(k, a, OuterUniSkip)
  <1> DEFINE s == OuterUniSkip
             id == V("UnivariateSkip", "SpartanOuter")
  <1>1. /\ s.opens = Open(<<id>>, Point(<<>>, Fresh("skip1")))
        /\ s.needs = <<>> /\ s.alike = <<>>
    BY DEF OuterUniSkip, Plain
  <1>2. id \in Ids
    BY IdsTyped DEF AllNames, Stages, SpartanStages
  <1>3. Where(k, id) = Point(<<>>, Fresh("skip1"))
    BY IdFields, WhereOuter
  <1>4. s.opens \in Seq(Openings(k))
    BY <1>1, <1>2, <1>3, OpenOne
  <1> QED  BY <1>1, <1>4 DEF Fits

(* A claim of the outer sumcheck is at its point.                           *)
LEMMA OuterIs ==
    ASSUME NEW k, NEW name \in Names
    PROVE  Where(k, V(name, "SpartanOuter")) = OuterPoint
  <1>1. name # "UnivariateSkip"
    BY DEF Names
  <1> QED  BY <1>1, IdFields, WhereOuter

(* The other rounds of the outer sumcheck fit.                              *)
LEMMA FitsOuterRemaining ==
    ASSUME NEW k, NEW a
    PROVE  Fits(k, a, OuterRemaining)
  <1> DEFINE s == OuterRemaining
  <1>1. /\ s.opens = Open(Vs(R1csInputs, "SpartanOuter"), OuterPoint)
        /\ s.needs = <<V("UnivariateSkip", "SpartanOuter")>> /\ s.alike = <<>>
    BY DEF OuterRemaining, Plain, OuterPoint
  <1>2. R1csInputs \in Seq(Names) /\ R1csInputs \in Seq(AllNames)
    BY R1csNames DEF AllNames
  <1>3. \A name \in ToSet(R1csInputs) : Where(k, V(name, "SpartanOuter")) = OuterPoint
    BY <1>2, OuterIs DEF ToSet
  <1>4. s.opens \in Seq(Openings(k))
    BY <1>1, <1>2, <1>3, OpenVs DEF Stages, SpartanStages
  <1>5. \A i \in DOMAIN s.needs : s.needs[i].at \notin PrecommittedStages
    BY <1>1, IdFields DEF PrecommittedStages
  <1> QED  BY <1>1, <1>4, <1>5 DEF Fits

(* A factor of the product sumcheck is at the cycles of stage 2.            *)
LEMMA ProductIs ==
    ASSUME NEW k, NEW name \in Names
    PROVE  Where(k, V(name, "SpartanProductVirtualization")) = Point(<<>>, LastCycleRounds2)
  <1>1. name # "UnivariateSkip"
    BY DEF Names
  <1> QED  BY <1>1, IdFields, WhereProduct

(* A claim of the instruction claim reduction is at the cycles of stage 2.  *)
LEMMA InstructionIs ==
    ASSUME NEW k, NEW name
    PROVE  Where(k, V(name, "InstructionClaimReduction")) = Point(<<>>, LastCycleRounds2)
  BY IdFields, WhereInstruction

(* A claim of stage 3 is at the point of stage 3.                           *)
LEMMA ThirdIs ==
    ASSUME NEW k, NEW name, NEW at \in {"SpartanShift", "InstructionInputVirtualization", "RegistersClaimReduction"}
    PROVE  Where(k, V(name, at)) = Point3
  BY IdFields, WhereThird

(* The names of the constraints are names.                                  *)
LEMMA AllOfThem == \A names \in Seq(Names) : names \in Seq(AllNames) /\ ToSet(names) \subseteq Names
  BY DEF AllNames, ToSet

(* The claims of the outer sumcheck have their cycles in common.            *)
LEMMA OuterMeets ==
    ASSUME NEW k, NEW a, Complete(k, 3, a), NEW names, ToSet(names) \subseteq ToSet(R1csInputs)
    PROVE  Meets(k, a, ToSet(Vs(names, "SpartanOuter")), "cycle")
  <1>1. KnowsNames(a, ToSet(R1csInputs), "SpartanOuter")
    BY DEF Complete
  <1>2. ToSet(R1csInputs) \subseteq Names
    BY R1csNames, AllOfThem
  <1>3. \A name \in ToSet(names) : Where(k, V(name, "SpartanOuter"))["cycle"] = Fresh("cycle1")
    BY <1>2, OuterIs, PointIs DEF OuterPoint
  <1>4. KnowsNames(a, ToSet(names), "SpartanOuter")
    BY <1>1 DEF KnowsNames
  <1> QED  BY <1>3, <1>4, MeetsNames

(* What is known before a batch was known before an earlier one or is more. *)
LEMMA CompleteBefore ==
    ASSUME NEW k, NEW a, NEW b \in Int, NEW e \in Int, e <= b, Complete(k, b, a)
    PROVE  Complete(k, e, a)
  BY DEF Complete

(* The first round of the product sumcheck fits.                            *)
LEMMA FitsProductUniSkip ==
    ASSUME NEW k, NEW a
    PROVE  Fits(k, a, ProductUniSkip)
  <1> DEFINE s == ProductUniSkip
             id == V("UnivariateSkip", "SpartanProductVirtualization")
  <1>1. /\ s.opens = Open(<<id>>, Point(<<>>, Fresh("skip2")))
        /\ s.needs = <<V("Product", "SpartanOuter")>> /\ s.alike = <<>>
    BY DEF ProductUniSkip, Plain
  <1>2. id \in Ids
    BY IdsTyped DEF AllNames, Stages, SpartanStages
  <1>3. Where(k, id) = Point(<<>>, Fresh("skip2"))
    BY IdFields, WhereProduct
  <1>4. s.opens \in Seq(Openings(k))
    BY <1>1, <1>2, <1>3, OpenOne
  <1>5. \A i \in DOMAIN s.needs : s.needs[i].at \notin PrecommittedStages
    BY <1>1, IdFields DEF PrecommittedStages
  <1> QED  BY <1>1, <1>4, <1>5 DEF Fits

(* The memory's read-write check fits: it folds claims at one cycle point.  *)
LEMMA FitsRamReadWriteChecking ==
    ASSUME NEW k, NEW a, Complete(k, 3, a)
    PROVE  Fits(k, a, RamReadWriteChecking)
  <1> DEFINE s == RamReadWriteChecking
             names == <<"RamVal", "RamRa">>
             read == <<"RamReadValue", "RamWriteValue">>
             inc == C("RamInc", "RamReadWriteChecking")
             first == Open(Vs(names, "RamReadWriteChecking"), Point(RamAddressRounds, RamCycle2))
             second == Open(<<inc>>, Point(<<>>, RamCycle2))
  <1>1. /\ s.opens = first \o second
        /\ s.needs = <<V("RamReadValue", "SpartanOuter")>>
        /\ s.alike = <<Alike("cycle", Vs(read, "SpartanOuter"))>>
    BY DEF RamReadWriteChecking, Plain, Point, RamCycle2
  <1>2. /\ names \in Seq(AllNames) /\ ToSet(names) = {"RamVal", "RamRa"}
        /\ ToSet(read) = {"RamReadValue", "RamWriteValue"}
    BY DEF AllNames, ToSet
  <1>3. first \in Seq(Openings(k))
    <2>1. \A name \in ToSet(names) :
             Where(k, V(name, "RamReadWriteChecking")) = Point(RamAddressRounds, RamCycle2)
      BY <1>2, IdFields, WhereRamReadWrite
    <2> HIDE DEF names
    <2> QED  BY <1>2, <2>1, OpenVs DEF Stages, RamStages
  <1>4. second \in Seq(Openings(k))
    <2>1. inc \in Ids
      BY IdsTyped DEF AllNames, Stages, RamStages
    <2>2. Where(k, inc) = Point(<<>>, RamCycle2)
      BY IdFields, WhereRamReadWrite
    <2> QED  BY <2>1, <2>2, OpenOne
  <1>5. s.opens \in Seq(Openings(k))
    <2> HIDE DEF first, second
    <2> QED  BY <1>1, <1>3, <1>4
  <1>6. \A i \in DOMAIN s.needs : s.needs[i].at \notin PrecommittedStages
    <2>1. s.needs = <<V("RamReadValue", "SpartanOuter")>>
      BY <1>1
    <2> HIDE DEF s
    <2> QED  BY <2>1, IdFields DEF PrecommittedStages
  <1>7. Meets(k, a, ToSet(Vs(read, "SpartanOuter")), "cycle")
    BY <1>2, R1csNames, OuterMeets
  <1>8. \A i \in DOMAIN s.alike : Meets(k, a, s.alike[i].ids, s.alike[i].part)
    BY <1>1, <1>7, AlikeIs
  <1> QED  BY <1>5, <1>6, <1>8 DEF Fits

(* The other rounds of the product sumcheck fit.                            *)
LEMMA FitsProductRemainder ==
    ASSUME NEW k, NEW a
    PROVE  Fits(k, a, ProductRemainder)
  <1> DEFINE s == ProductRemainder
             at == "SpartanProductVirtualization"
  <1>1. /\ s.opens = Open(Vs(ProductFactors, at), Point(<<>>, LastCycleRounds2))
        /\ s.needs = <<V("UnivariateSkip", at)>> /\ s.alike = <<>>
    BY DEF ProductRemainder, Plain
  <1>2. ProductFactors \in Seq(AllNames) /\ ToSet(ProductFactors) \subseteq Names
    BY OtherNames, AllOfThem
  <1>3. \A name \in ToSet(ProductFactors) : Where(k, V(name, at)) = Point(<<>>, LastCycleRounds2)
    BY <1>2, ProductIs
  <1>4. s.opens \in Seq(Openings(k))
    BY <1>1, <1>2, <1>3, OpenVs DEF Stages, SpartanStages
  <1>5. \A i \in DOMAIN s.needs : s.needs[i].at \notin PrecommittedStages
    BY <1>1, IdFields DEF PrecommittedStages
  <1> QED  BY <1>1, <1>4, <1>5 DEF Fits

(* The instruction claim reduction fits: it folds claims of the outer       *)
(* sumcheck.                                                                *)
LEMMA FitsInstructionClaimReduction ==
    ASSUME NEW k, NEW a, Complete(k, 3, a)
    PROVE  Fits(k, a, InstructionClaimReduction)
  <1> DEFINE s == InstructionClaimReduction
             at == "InstructionClaimReduction"
  <1>1. /\ s.opens = Open(Vs(Lookup, at), Point(<<>>, LastCycleRounds2))
        /\ s.needs = <<V("LookupOutput", "SpartanOuter")>>
        /\ s.alike = <<Alike("cycle", Vs(Lookup, "SpartanOuter"))>>
    BY DEF InstructionClaimReduction, Plain
  <1>2. Lookup \in Seq(AllNames)
    BY OtherNames, AllOfThem
  <1>3. \A name \in ToSet(Lookup) : Where(k, V(name, at)) = Point(<<>>, LastCycleRounds2)
    BY InstructionIs
  <1>4. s.opens \in Seq(Openings(k))
    BY <1>1, <1>2, <1>3, OpenVs DEF Stages, SpartanStages
  <1>5. \A i \in DOMAIN s.needs : s.needs[i].at \notin PrecommittedStages
    BY <1>1, IdFields DEF PrecommittedStages
  <1>6. Meets(k, a, ToSet(Vs(Lookup, "SpartanOuter")), "cycle")
    BY R1csNames, OuterMeets
  <1>7. \A i \in DOMAIN s.alike : Meets(k, a, s.alike[i].ids, s.alike[i].part)
    BY <1>1, <1>6, AlikeIs
  <1> QED  BY <1>4, <1>5, <1>7 DEF Fits

(* The memory's address evaluation fits.                                    *)
LEMMA FitsRamRafEvaluation ==
    ASSUME NEW k, NEW a, Sound(k, a), Knows(a, RamRafEvaluation(a).needs)
    PROVE  Fits(k, a, RamRafEvaluation(a))
  <1> DEFINE s == RamRafEvaluation(a)
             id == V("RamRa", "RamRafEvaluation")
             address == V("RamAddress", "SpartanOuter")
  <1>1. /\ s.opens = Open(<<id>>, Point(RafAddressRounds, PointOf(a, address).cycle))
        /\ s.needs = <<address>> /\ s.alike = <<>>
    BY DEF RamRafEvaluation, Plain
  <1>2. id \in Ids
    BY IdsTyped DEF AllNames, Stages, RamStages
  <1>3. PointOf(a, address).cycle = Fresh("cycle1")
    <2>1. Has(a, address)
      BY <1>1 DEF Knows
    <2>2. Where(k, address) = OuterPoint
      BY OuterIs DEF Names
    <2> QED  BY <2>1, <2>2, SoundKnows, PointIs DEF OuterPoint
  <1>4. Where(k, id) = Point(RafAddressRounds, Fresh("cycle1"))
    BY IdFields, WhereRaf
  <1>5. s.opens \in Seq(Openings(k))
    BY <1>1, <1>2, <1>3, <1>4, OpenOne
  <1>6. \A i \in DOMAIN s.needs : s.needs[i].at \notin PrecommittedStages
    BY <1>1, IdFields DEF PrecommittedStages
  <1> QED  BY <1>1, <1>5, <1>6 DEF Fits

(* The output check fits.                                                   *)
LEMMA FitsRamOutputCheck ==
    ASSUME NEW k, NEW a
    PROVE  Fits(k, a, RamOutputCheck)
  <1> DEFINE s == RamOutputCheck
             id == V("RamValFinal", "RamOutputCheck")
  <1>1. /\ s.opens = Open(<<id>>, Point(OutputAddressRounds, <<>>))
        /\ s.needs = <<>> /\ s.alike = <<>>
    BY DEF RamOutputCheck, Plain
  <1>2. id \in Ids
    BY IdsTyped DEF AllNames, Stages, RamStages
  <1>3. Where(k, id) = Point(OutputAddressRounds, <<>>)
    BY IdFields, WhereOutput
  <1>4. s.opens \in Seq(Openings(k))
    BY <1>1, <1>2, <1>3, OpenOne
  <1> QED  BY <1>1, <1>4 DEF Fits
-----------------------------------------------------------------------------
(* The shift sumcheck fits: it folds claims of stages 1 and 2.              *)
LEMMA FitsSpartanShift ==
    ASSUME NEW k, NEW a, Complete(k, 3, a)
    PROVE  Fits(k, a, SpartanShift)
  <1> DEFINE s == SpartanShift
             next == <<"NextPC", "NextUnexpandedPC", "NextIsVirtual", "NextIsFirstInSequence">>
  <1>1. /\ s.opens = Open(Vs(Shifted, "SpartanShift"), Point3)
        /\ s.needs = <<V("NextPC", "SpartanOuter"), V("NextIsNoop", "SpartanProductVirtualization")>>
        /\ s.alike = <<Alike("cycle", Vs(next, "SpartanOuter"))>>
    BY DEF SpartanShift, Plain
  <1>2. Shifted \in Seq(AllNames)
    BY OtherNames, AllOfThem
  <1>3. \A name \in ToSet(Shifted) : Where(k, V(name, "SpartanShift")) = Point3
    BY ThirdIs
  <1>4. s.opens \in Seq(Openings(k))
    BY <1>1, <1>2, <1>3, OpenVs DEF Stages, SpartanStages
  <1>5. \A i \in DOMAIN s.needs : s.needs[i].at \notin PrecommittedStages
    BY <1>1, IdFields DEF PrecommittedStages
  <1>6. Meets(k, a, ToSet(Vs(next, "SpartanOuter")), "cycle")
    <2>1. ToSet(next) = {"NextPC", "NextUnexpandedPC", "NextIsVirtual", "NextIsFirstInSequence"}
      BY DEF ToSet
    <2> HIDE DEF next
    <2> QED  BY <2>1, R1csNames, OuterMeets
  <1>7. \A i \in DOMAIN s.alike : Meets(k, a, s.alike[i].ids, s.alike[i].part)
    BY <1>1, <1>6, AlikeIs
  <1> QED  BY <1>4, <1>5, <1>7 DEF Fits

(* The instruction input sumcheck fits: it folds factors of the product.    *)
LEMMA FitsInstructionInput ==
    ASSUME NEW k, NEW a, Complete(k, 5, a)
    PROVE  Fits(k, a, InstructionInputVirtualization)
  <1> DEFINE s == InstructionInputVirtualization
             product == Vs(Operands, "SpartanProductVirtualization")
  <1>1. /\ s.opens = Open(Vs(InputFlags, "InstructionInputVirtualization"), Point3)
        /\ s.needs = <<product[1]>>
        /\ s.alike = <<Alike("cycle", product)>>
    BY DEF InstructionInputVirtualization, Plain
  <1>2. InputFlags \in Seq(AllNames)
    BY OtherNames, AllOfThem
  <1>3. \A name \in ToSet(InputFlags) : Where(k, V(name, "InstructionInputVirtualization")) = Point3
    BY ThirdIs
  <1>4. s.opens \in Seq(Openings(k))
    BY <1>1, <1>2, <1>3, OpenVs DEF Stages, SpartanStages
  <1>5. \A i \in DOMAIN s.needs : s.needs[i].at \notin PrecommittedStages
    <2>1. product[1] = V("LeftInstructionInput", "SpartanProductVirtualization")
      BY DEF Vs, Operands
    <2> QED  BY <1>1, <2>1, IdFields DEF PrecommittedStages
  <1>6. Meets(k, a, ToSet(product), "cycle")
    <2>1. KnowsNames(a, ToSet(Operands), "SpartanProductVirtualization")
      BY NamesIn DEF Complete, KnowsNames
    <2>2. \A name \in ToSet(Operands) :
             Where(k, V(name, "SpartanProductVirtualization"))["cycle"] = LastCycleRounds2
      BY OtherNames, AllOfThem, ProductIs, PointIs
    <2> QED  BY <2>1, <2>2, MeetsNames
  <1>7. \A i \in DOMAIN s.alike : Meets(k, a, s.alike[i].ids, s.alike[i].part)
    BY <1>1, <1>6, AlikeIs
  <1> QED  BY <1>4, <1>5, <1>7 DEF Fits

(* The registers' claim reduction fits: it folds claims of the outer        *)
(* sumcheck.                                                                *)
LEMMA FitsRegistersClaimReduction ==
    ASSUME NEW k, NEW a, Complete(k, 3, a)
    PROVE  Fits(k, a, RegistersClaimReduction)
  <1> DEFINE s == RegistersClaimReduction
             names == <<"LookupOutput">> \o RegisterValues
  <1>1. /\ s.opens = Open(Vs(RegisterValues, "RegistersClaimReduction"), Point3)
        /\ s.needs = <<V("LookupOutput", "SpartanOuter")>>
        /\ s.alike = <<Alike("cycle", Vs(names, "SpartanOuter"))>>
    BY DEF RegistersClaimReduction, Plain
  <1>2. RegisterValues \in Seq(AllNames)
    BY OtherNames, AllOfThem
  <1>3. \A name \in ToSet(RegisterValues) : Where(k, V(name, "RegistersClaimReduction")) = Point3
    BY ThirdIs
  <1>4. s.opens \in Seq(Openings(k))
    BY <1>1, <1>2, <1>3, OpenVs DEF Stages, SpartanStages
  <1>5. \A i \in DOMAIN s.needs : s.needs[i].at \notin PrecommittedStages
    BY <1>1, IdFields DEF PrecommittedStages
  <1>6. Meets(k, a, ToSet(Vs(names, "SpartanOuter")), "cycle")
    <2>1. ToSet(names) \subseteq {"LookupOutput"} \cup {"RdWriteValue", "Rs1Value", "Rs2Value"}
      BY DEF ToSet, RegisterValues
    <2>2. "LookupOutput" \in ToSet(R1csInputs)
      BY R1csNames, NamesIn
    <2> HIDE DEF names
    <2> QED  BY <2>1, <2>2, R1csNames, OuterMeets
  <1>7. \A i \in DOMAIN s.alike : Meets(k, a, s.alike[i].ids, s.alike[i].part)
    BY <1>1, <1>6, AlikeIs
  <1> QED  BY <1>4, <1>5, <1>7 DEF Fits

(* Openings that are each where the table says are openings of the table.   *)
LEMMA EachPlaced ==
    ASSUME NEW k, NEW ids \in Seq(Ids), NEW opens, opens = [i \in 1 .. Len(ids) |-> opens[i]],
           \A i \in 1 .. Len(ids) : opens[i] = [id |-> ids[i], point |-> Where(k, ids[i])]
    PROVE  opens \in Seq(Openings(k))
  <1>1. \A i \in 1 .. Len(ids) : opens[i] \in Openings(k)
    BY DEF Openings
  <1> QED  BY <1>1

(* Two sequences of openings of the table are one.                          *)
LEMMA Together ==
    ASSUME NEW k, NEW s \in Seq(Openings(k)), NEW t \in Seq(Openings(k))
    PROVE  s \o t \in Seq(Openings(k))
  OBVIOUS

(* The virtual address polynomials are a number.                            *)
LEMMA VirtualRasTyped == VirtualRas \in Nat
  <1>1. InstructionD \in Nat /\ RasPerVirtual \in Nat /\ RasPerVirtual > 0
    BY CountAssumption
  <1> QED  BY <1>1 DEF VirtualRas

(* The claims about the initial memory                                      *)
LEMMA InitialMemoryPlaced ==
    ASSUME NEW k, NEW a, Sound(k, a), Has(a, RamValue)
    PROVE  InitialMemory(k, a) \in Seq(Openings(k))
  <1> DEFINE un == Advice("UntrustedAdvice", "RamValCheck")
             tr == Advice("TrustedAdvice", "RamValCheck")
             u == IF k.untrusted = Absent THEN <<>> ELSE Open(<<un>>, Point(MemoryTail(k.untrusted), <<>>))
             t == IF k.trusted = Absent THEN <<>> ELSE Open(<<tr>>, Point(MemoryTail(k.trusted), <<>>))
             i == IF Committed(k) THEN Open(<<ImageContribution>>, Point(PointOf(a, RamValue).address, <<>>))
                  ELSE <<>>
  <1>1. InitialMemory(k, a) = (u \o t) \o i
    BY DEF InitialMemory, AccumulatedAdvice, AccumulatedImage
  <1>2. un \in Ids /\ tr \in Ids /\ ImageContribution \in Ids
    BY IdsTyped DEF Advice, ImageContribution, AllNames, Stages, RamStages
  <1>3. /\ Where(k, un) = Point(MemoryTail(k.untrusted), <<>>)
        /\ Where(k, tr) = Point(MemoryTail(k.trusted), <<>>)
        /\ Where(k, ImageContribution) = Point(RamAddressRounds, <<>>)
    <2>1. /\ un.at = "RamValCheck" /\ tr.at = "RamValCheck" /\ ImageContribution.at = "RamValCheck"
          /\ un.poly[2] = "UntrustedAdvice" /\ tr.poly[2] = "TrustedAdvice"
          /\ ImageContribution.poly[2] = "ProgramImageInitContributionRw"
      BY IdFields DEF Advice, ImageContribution
    <2> HIDE DEF un, tr
    <2> QED  BY <2>1, WhereRamVal
  <1>4. PointOf(a, RamValue).address = RamAddressRounds
    BY SoundKnows, IdFields, WhereRamReadWrite, PointIs DEF RamValue
  <1> <<>> \in Seq(Openings(k))
    OBVIOUS
  <1>5. u \in Seq(Openings(k))
    BY <1>2, <1>3, OpenOne
  <1>6. t \in Seq(Openings(k))
    BY <1>2, <1>3, OpenOne
  <1>7. i \in Seq(Openings(k))
    BY <1>2, <1>3, <1>4, OpenOne
  <1> HIDE DEF u, t, i
  <1> QED  BY <1>1, <1>5, <1>6, <1>7, Together

(* The registers' read-write check fits: it folds claims of stage 3.        *)
LEMMA FitsRegistersReadWriteChecking ==
    ASSUME NEW k, NEW a, Complete(k, 6, a)
    PROVE  Fits(k, a, RegistersReadWriteChecking)
  <1> DEFINE s == RegistersReadWriteChecking
             at == "RegistersReadWriteChecking"
             names == <<"RegistersVal", "Rs1Ra", "Rs2Ra", "RdWa">>
             reduced == Vs(RegisterValues, "RegistersClaimReduction")
             inc == C("RdInc", at)
             first == Open(Vs(names, at), Point(Register4, Fresh("registercycle4")))
             second == Open(<<inc>>, Point(<<>>, Fresh("registercycle4")))
  <1>1. /\ s.opens = first \o second
        /\ s.needs = <<reduced[1]>>
        /\ s.alike = <<Alike("cycle", reduced)>>
    BY DEF RegistersReadWriteChecking, Plain, Point, Register4
  <1>2. /\ names \in Seq(AllNames) /\ ToSet(names) = {"RegistersVal", "Rs1Ra", "Rs2Ra", "RdWa"}
    BY DEF AllNames, ToSet
  <1>3. first \in Seq(Openings(k))
    <2>1. \A name \in ToSet(names) : Where(k, V(name, at)) = Point(Register4, Fresh("registercycle4"))
      BY <1>2, IdFields, WhereRegisters
    <2> HIDE DEF names
    <2> QED  BY <1>2, <2>1, OpenVs DEF Stages, SpartanStages
  <1>4. second \in Seq(Openings(k))
    <2>1. inc \in Ids
      BY IdsTyped DEF AllNames, Stages, SpartanStages
    <2>2. Where(k, inc) = Point(<<>>, Fresh("registercycle4"))
      BY IdFields, WhereRegisters
    <2> QED  BY <2>1, <2>2, OpenOne
  <1>5. s.opens \in Seq(Openings(k))
    <2> HIDE DEF first, second
    <2> QED  BY <1>1, <1>3, <1>4
  <1>6. \A i \in DOMAIN s.needs : s.needs[i].at \notin PrecommittedStages
    <2>1. reduced[1] = V("RdWriteValue", "RegistersClaimReduction")
      BY DEF Vs, RegisterValues
    <2>2. s.needs = <<V("RdWriteValue", "RegistersClaimReduction")>>
      BY <1>1, <2>1
    <2> HIDE DEF s
    <2> QED  BY <2>2, IdFields DEF PrecommittedStages
  <1>7. Meets(k, a, ToSet(reduced), "cycle")
    <2>1. KnowsNames(a, ToSet(RegisterValues), "RegistersClaimReduction")
      BY DEF Complete
    <2>2. \A name \in ToSet(RegisterValues) :
             Where(k, V(name, "RegistersClaimReduction"))["cycle"] = Fresh("cycle3")
      BY ThirdIs, PointIs DEF Point3
    <2> QED  BY <2>1, <2>2, MeetsNames
  <1>8. \A i \in DOMAIN s.alike : Meets(k, a, s.alike[i].ids, s.alike[i].part)
    BY <1>1, <1>7, AlikeIs
  <1> QED  BY <1>5, <1>6, <1>8 DEF Fits

(* The memory's value check fits: it also leaves the claims about the       *)
(* initial memory.                                                          *)
LEMMA FitsRamValCheck ==
    ASSUME NEW k, NEW a, Sound(k, a), Knows(a, RamValCheck(k, a).needs)
    PROVE  Fits(k, a, RamValCheck(k, a))
  <1> DEFINE s == RamValCheck(k, a)
             final == V("RamValFinal", "RamOutputCheck")
             ra == V("RamRa", "RamValCheck")
             inc == C("RamInc", "RamValCheck")
             first == Open(<<ra>>, Point(PointOf(a, RamValue).address, Fresh("cycle4")))
             second == Open(<<inc>>, Point(<<>>, Fresh("cycle4")))
  <1>1. /\ s.opens = first \o second
        /\ s.needs = <<RamValue, final>>
        /\ s.alike = <<Alike("address", <<RamValue, final>>)>>
    BY DEF RamValCheck, Plain
  <1>2. Has(a, RamValue) /\ Has(a, final)
    BY <1>1 DEF Knows
  <1>3. /\ Where(k, RamValue) = Point(RamAddressRounds, RamCycle2)
        /\ Where(k, final) = Point(RamAddressRounds, <<>>)
    BY IdFields, WhereRamReadWrite, WhereOutput DEF RamValue, OutputAddressRounds
  <1>4. PointOf(a, RamValue).address = RamAddressRounds
    BY <1>2, <1>3, SoundKnows, PointIs
  <1>5. ra \in Ids /\ inc \in Ids
    BY IdsTyped DEF AllNames, Stages, RamStages
  <1>6. /\ Where(k, ra) = Point(RamAddressRounds, Fresh("cycle4"))
        /\ Where(k, inc) = Point(<<>>, Fresh("cycle4"))
    <2>1. ra.at = "RamValCheck" /\ inc.at = "RamValCheck" /\ ra.poly[2] = "RamRa" /\ inc.poly[2] = "RamInc"
      BY IdFields
    <2> HIDE DEF ra, inc
    <2> QED  BY <2>1, WhereRamVal
  <1>7. first \in Seq(Openings(k)) /\ second \in Seq(Openings(k))
    BY <1>4, <1>5, <1>6, OpenOne
  <1>8. s.opens \in Seq(Openings(k))
    <2> HIDE DEF first, second
    <2> QED  BY <1>1, <1>7
  <1>9. \A i \in DOMAIN s.needs : s.needs[i].at \notin PrecommittedStages
    <2>1. RamValue.at = "RamReadWriteChecking" /\ final.at = "RamOutputCheck"
      BY IdFields DEF RamValue
    <2> HIDE DEF s, final
    <2> QED  BY <1>1, <2>1 DEF PrecommittedStages
  <1>10. Meets(k, a, ToSet(<<RamValue, final>>), "address")
    <2>1. ToSet(<<RamValue, final>>) = {RamValue, final}
      BY DEF ToSet
    <2>2. Where(k, RamValue)["address"] = RamAddressRounds /\ Where(k, final)["address"] = RamAddressRounds
      BY <1>3, PointIs
    <2> HIDE DEF final
    <2> QED  BY <1>2, <2>1, <2>2 DEF Meets
  <1>11. \A i \in DOMAIN s.alike : Meets(k, a, s.alike[i].ids, s.alike[i].part)
    BY <1>1, <1>10, AlikeIs
  <1> QED  BY <1>8, <1>9, <1>11 DEF Fits
-----------------------------------------------------------------------------
(* The flags of the lookup tables, the chunks and the flag of range checks   *)
(* The flags of the lookup tables.                                          *)
ReadRafFlags == VEach("LookupTableFlag", LookupTables, "InstructionReadRaf")
ReadRafFlag == V("InstructionRafFlag", "InstructionReadRaf")
ReadRafChunks ==
    LET ras == VEach("InstructionRa", VirtualRas, "InstructionReadRaf")
    IN  [i \in DOMAIN ras |-> [id |-> ras[i], point |-> Point(<<<<"lookup5", i>>>>, Cycle5)]]

(* What the instruction lookups leave is where the table says.              *)
LEMMA ReadRafPlaced ==
    ASSUME NEW k
    PROVE  /\ InstructionReadRaf.opens
                 = (Open(ReadRafFlags, Point(<<>>, Cycle5)) \o ReadRafChunks) \o Open(<<ReadRafFlag>>, Point(<<>>, Cycle5))
           /\ Open(ReadRafFlags, Point(<<>>, Cycle5)) \in Seq(Openings(k))
           /\ ReadRafChunks \in Seq(Openings(k))
           /\ Open(<<ReadRafFlag>>, Point(<<>>, Cycle5)) \in Seq(Openings(k))
           /\ ReadRafFlags \in Seq(Ids)
  <1> DEFINE at == "InstructionReadRaf"
             flags == VEach("LookupTableFlag", LookupTables, at)
             ras == VEach("InstructionRa", VirtualRas, at)
             flag == V("InstructionRafFlag", at)
             first == Open(flags, Point(<<>>, Cycle5))
             second == [i \in DOMAIN ras |-> [id |-> ras[i], point |-> Point(<<<<"lookup5", i>>>>, Cycle5)]]
             third == Open(<<flag>>, Point(<<>>, Cycle5))
  <1>1. InstructionReadRaf.opens = (first \o second) \o third
    BY DEF InstructionReadRaf, Plain, OpenEach
  <1>2. at \in Stages /\ {"LookupTableFlag", "InstructionRa", "InstructionRafFlag"} \subseteq AllNames
    BY DEF AllNames, Stages, LookupStages
  <1>3. first \in Seq(Openings(k))
    <2>1. /\ flags \in Seq(Ids) /\ Len(flags) = LookupTables
          /\ \A i \in 1 .. LookupTables : flags[i] = VNth("LookupTableFlag", i - 1, at)
      BY <1>2, CountAssumption, EachTyped
    <2>2. \A i \in 1 .. Len(flags) : Where(k, flags[i]) = Point(<<>>, Cycle5)
      <3> TAKE i \in 1 .. Len(flags)
      <3>1. flags[i] = VNth("LookupTableFlag", i - 1, at)
        BY <2>1
      <3>2. flags[i].at = "InstructionReadRaf" /\ flags[i].poly[2] = "LookupTableFlag"
        BY <3>1, IdFields
      <3> HIDE DEF flags
      <3> QED  BY <3>2, WhereReadRaf
    <2> HIDE DEF flags
    <2> QED  BY <2>1, <2>2, OpenPlaced
  <1>4. second \in Seq(Openings(k))
    <2>1. /\ ras \in Seq(Ids) /\ Len(ras) = VirtualRas
          /\ \A i \in 1 .. VirtualRas : ras[i] = VNth("InstructionRa", i - 1, at)
      BY <1>2, VirtualRasTyped, EachTyped
    <2>2. \A i \in 1 .. Len(ras) : Where(k, ras[i]) = Point(<<<<"lookup5", i>>>>, Cycle5)
      <3> TAKE i \in 1 .. Len(ras)
      <3>1. ras[i] = VNth("InstructionRa", i - 1, at)
        BY <2>1
      <3>2. /\ ras[i].at = "InstructionReadRaf" /\ ras[i].poly[2] = "InstructionRa" /\ ras[i].poly[3] = i - 1
        BY <3>1, IdFields
      <3>3. (i - 1) + 1 = i
        BY <2>1, VirtualRasTyped
      <3> HIDE DEF ras
      <3> QED  BY <3>2, <3>3, WhereReadRaf
    <2> HIDE DEF ras
    <2>3. DOMAIN ras = 1 .. Len(ras)
      BY <2>1
    <2>4. /\ second = [i \in 1 .. Len(ras) |-> second[i]]
          /\ \A i \in 1 .. Len(ras) : second[i] = [id |-> ras[i], point |-> Where(k, ras[i])]
      BY <2>2, <2>3
    <2> HIDE DEF second
    <2> QED  BY <2>1, <2>4, EachPlaced
  <1>5. third \in Seq(Openings(k))
    <2>1. flag \in Ids /\ Where(k, flag) = Point(<<>>, Cycle5)
      <3>1. flag.at = "InstructionReadRaf" /\ flag.poly[2] = "InstructionRafFlag"
        BY IdFields
      <3>2. flag \in Ids
        BY <1>2, IdsTyped
      <3> HIDE DEF flag
      <3> QED  BY <3>1, <3>2, WhereReadRaf
    <2> QED  BY <2>1, OpenOne
  <1>6. flags \in Seq(Ids)
    BY <1>2, CountAssumption, EachTyped
  <1> QED  BY <1>1, <1>3, <1>4, <1>5, <1>6 DEF ReadRafFlags, ReadRafFlag, ReadRafChunks

(* The instruction lookups fit: the outputs of stages 2 and 3 are claimed   *)
(* at one point.                                                            *)
LEMMA FitsInstructionReadRaf ==
    ASSUME NEW k, NEW a, Complete(k, 5, a)
    PROVE  Fits(k, a, InstructionReadRaf)
  <1> DEFINE s == InstructionReadRaf
             names == <<"LookupOutput", "LeftLookupOperand", "RightLookupOperand">>
  <1>1. /\ s.needs = <<LookupClaims[1]>>
        /\ s.alike = <<Alike("cycle", LookupClaims)>>
    BY DEF InstructionReadRaf, Plain
  <1>6. s.opens \in Seq(Openings(k))
    BY ReadRafPlaced, Together
  <1>7. LookupClaims[1] = V("LookupOutput", "InstructionClaimReduction") /\ LookupClaims = Vs(names, "InstructionClaimReduction")
    BY DEF LookupClaims, Vs
  <1>8. \A i \in DOMAIN s.needs : s.needs[i].at \notin PrecommittedStages
    <2>1. s.needs = <<V("LookupOutput", "InstructionClaimReduction")>>
      BY <1>1, <1>7
    <2> HIDE DEF s
    <2> QED  BY <2>1, IdFields DEF PrecommittedStages
  <1>9. Meets(k, a, ToSet(LookupClaims), "cycle")
    <2>1. ToSet(names) = {"LookupOutput", "LeftLookupOperand", "RightLookupOperand"}
      BY DEF ToSet
    <2> HIDE DEF names
    <2>2. KnowsNames(a, ToSet(names), "InstructionClaimReduction")
      BY <2>1, NamesIn DEF Complete, KnowsNames
    <2>3. \A name \in ToSet(names) : Where(k, V(name, "InstructionClaimReduction"))["cycle"] = LastCycleRounds2
      BY InstructionIs, PointIs
    <2> QED  BY <1>7, <2>2, <2>3, MeetsNames
  <1>10. \A i \in DOMAIN s.alike : Meets(k, a, s.alike[i].ids, s.alike[i].part)
    <2>1. s.alike = <<Alike("cycle", LookupClaims)>>
      BY <1>1
    <2> HIDE DEF s
    <2> QED  BY <2>1, <1>9, AlikeIs
  <1> QED  BY <1>6, <1>8, <1>10 DEF Fits

(* The memory's address reduction fits: its claims are at one address.      *)
LEMMA FitsRamRaClaimReduction ==
    ASSUME NEW k, NEW a, Sound(k, a), Knows(a, RamRaClaimReduction(a).needs)
    PROVE  Fits(k, a, RamRaClaimReduction(a))
  <1> DEFINE s == RamRaClaimReduction(a)
             id == V("RamRa", "RamRaClaimReduction")
             raf == V("RamRa", "RamRafEvaluation")
             rw == V("RamRa", "RamReadWriteChecking")
             val == V("RamRa", "RamValCheck")
  <1>1. /\ s.opens = Open(<<id>>, Point(PointOf(a, raf).address, Cycle5))
        /\ s.needs = <<raf, rw, val>>
        /\ s.alike = <<Alike("address", <<raf, rw, val>>)>>
    BY DEF RamRaClaimReduction, Plain, RamAccesses
  <1>2. Has(a, raf) /\ Has(a, rw) /\ Has(a, val)
    BY <1>1 DEF Knows
  <1>3. /\ Where(k, raf) = Point(RamAddressRounds, Fresh("cycle1"))
        /\ Where(k, rw) = Point(RamAddressRounds, RamCycle2)
        /\ Where(k, val) = Point(RamAddressRounds, Fresh("cycle4"))
        /\ Where(k, id) = Point(RamAddressRounds, Cycle5)
    <2>1. /\ raf.at = "RamRafEvaluation" /\ rw.at = "RamReadWriteChecking" /\ val.at = "RamValCheck"
          /\ id.at = "RamRaClaimReduction" /\ rw.poly[2] = "RamRa" /\ val.poly[2] = "RamRa"
      BY IdFields
    <2> HIDE DEF raf, rw, val, id
    <2>2. Where(k, raf) = Point(RamAddressRounds, Fresh("cycle1"))
      BY <2>1, WhereRaf DEF RafAddressRounds
    <2>3. Where(k, rw) = Point(RamAddressRounds, RamCycle2)
      BY <2>1, WhereRamReadWrite
    <2> QED  BY <2>1, <2>2, <2>3, WhereRamVal, WhereRamRa
  <1>4. PointOf(a, raf).address = RamAddressRounds
    BY <1>2, <1>3, SoundKnows, PointIs
  <1>5. id \in Ids
    BY IdsTyped DEF AllNames, Stages, RamStages
  <1>6. s.opens \in Seq(Openings(k))
    BY <1>1, <1>3, <1>4, <1>5, OpenOne
  <1>7. raf.at = "RamRafEvaluation" /\ rw.at = "RamReadWriteChecking" /\ val.at = "RamValCheck"
    BY IdFields
  <1> HIDE DEF s, raf, rw, val
  <1>8. \A i \in DOMAIN s.needs : s.needs[i].at \notin PrecommittedStages
    BY <1>1, <1>7 DEF PrecommittedStages
  <1>9. Meets(k, a, ToSet(<<raf, rw, val>>), "address")
    <2>1. ToSet(<<raf, rw, val>>) = {raf, rw, val}
      BY DEF ToSet
    <2>2. /\ Where(k, raf)["address"] = RamAddressRounds /\ Where(k, rw)["address"] = RamAddressRounds
          /\ Where(k, val)["address"] = RamAddressRounds
      BY <1>3, PointIs
    <2> QED  BY <1>2, <2>1, <2>2 DEF Meets
  <1>10. \A i \in DOMAIN s.alike : Meets(k, a, s.alike[i].ids, s.alike[i].part)
    BY <1>1, <1>9, AlikeIs
  <1> QED  BY <1>6, <1>8, <1>10 DEF Fits, s

(* The registers' value evaluation fits.                                    *)
LEMMA FitsRegistersValEvaluation ==
    ASSUME NEW k, NEW a, Sound(k, a), Knows(a, RegistersValEvaluation(a).needs)
    PROVE  Fits(k, a, RegistersValEvaluation(a))
  <1> DEFINE s == RegistersValEvaluation(a)
             value == V("RegistersVal", "RegistersReadWriteChecking")
             inc == C("RdInc", "RegistersValEvaluation")
             wa == V("RdWa", "RegistersValEvaluation")
             first == Open(<<inc>>, Point(<<>>, Cycle5))
             second == Open(<<wa>>, Point(PointOf(a, value).address, Cycle5))
  <1>1. s.opens = first \o second /\ s.needs = <<value>> /\ s.alike = <<>>
    BY DEF RegistersValEvaluation, Plain
  <1>2. Has(a, value)
    BY <1>1 DEF Knows
  <1>3. /\ Where(k, value) = Point(Register4, Fresh("registercycle4"))
        /\ Where(k, inc) = Point(<<>>, Cycle5)
        /\ Where(k, wa) = Point(Register4, Cycle5)
    <2>1. /\ value.at = "RegistersReadWriteChecking" /\ value.poly[2] = "RegistersVal"
          /\ inc.at = "RegistersValEvaluation" /\ inc.poly[2] = "RdInc"
          /\ wa.at = "RegistersValEvaluation" /\ wa.poly[2] = "RdWa"
      BY IdFields
    <2> HIDE DEF value, inc, wa
    <2> QED  BY <2>1, WhereRegisters, WhereValues
  <1>4. PointOf(a, value).address = Register4
    BY <1>2, <1>3, SoundKnows, PointIs
  <1>5. inc \in Ids /\ wa \in Ids
    BY IdsTyped DEF AllNames, Stages, SpartanStages
  <1>6. first \in Seq(Openings(k)) /\ second \in Seq(Openings(k))
    BY <1>3, <1>4, <1>5, OpenOne
  <1>7. value.at = "RegistersReadWriteChecking"
    BY IdFields
  <1> HIDE DEF s, first, second, value
  <1>8. s.opens \in Seq(Openings(k))
    BY <1>1, <1>6
  <1>9. \A i \in DOMAIN s.needs : s.needs[i].at \notin PrecommittedStages
    BY <1>1, <1>7 DEF PrecommittedStages
  <1>10. s.alike = <<>>
    BY <1>1
  <1> QED  BY <1>8, <1>9, <1>10 DEF Fits, s
(* Known names whose points have this part.                                 *)
MeetAt(k, a, ids, part, p) == \A i \in DOMAIN ids : Has(a, ids[i]) /\ Where(k, ids[i])[part] = p

(* Names that have a given part in common meet.                             *)
LEMMA MeetAtMeets ==
    ASSUME NEW k, NEW a, NEW ids, NEW part, NEW p, MeetAt(k, a, ids, part, p)
    PROVE  Meets(k, a, ToSet(ids), part)
  BY DEF MeetAt, Meets, ToSet

(* Two lists of names at the same part are one.                             *)
LEMMA MeetAtConcat ==
    ASSUME NEW k, NEW a, NEW ids \in Seq(Ids), NEW more \in Seq(Ids), NEW part, NEW p,
           MeetAt(k, a, ids, part, p), MeetAt(k, a, more, part, p)
    PROVE  MeetAt(k, a, ids \o more, part, p)
  BY DEF MeetAt

(* A list of names at a part and one name more there.                       *)
LEMMA MeetAtAppend ==
    ASSUME NEW k, NEW a, NEW ids \in Seq(Ids), NEW id \in Ids, NEW part, NEW p,
           MeetAt(k, a, ids, part, p), Has(a, id), Where(k, id)[part] = p
    PROVE  MeetAt(k, a, Append(ids, id), part, p)
  BY DEF MeetAt

(* The names of a list at a part.                                           *)
LEMMA MeetAtNames ==
    ASSUME NEW k, NEW a, NEW names, NEW at, KnowsNames(a, ToSet(names), at), NEW part, NEW p,
           \A name \in ToSet(names) : Where(k, V(name, at))[part] = p
    PROVE  MeetAt(k, a, Vs(names, at), part, p)
  BY DEF MeetAt, KnowsNames, Vs, ToSet

(* What the bytecode sumcheck folds, by the stage that left it.             *)
BytecodeOuter == <<"UnexpandedPC", "Imm">> \o OpFlags
BytecodeProduct == <<"Jump", "Branch", "WriteLookupOutputToRD", "VirtualInstruction">>
BytecodeInput == <<"Imm", "UnexpandedPC", "LeftIsRs1", "LeftIsPC", "RightIsRs2", "RightIsImm">>
BytecodeShift == <<"UnexpandedPC", "IsNoop", "VirtualInstruction", "IsFirstInSequence">>
BytecodeRegisters == <<"RdWa", "Rs1Ra", "Rs2Ra">>
BytecodeLookups ==
    <<V("InstructionRafFlag", "InstructionReadRaf")>> \o VEach("LookupTableFlag", LookupTables, "InstructionReadRaf")
BytecodeWritten == V("RdWa", "RegistersValEvaluation")

(* What the bytecode sumcheck folds was opened at its stages.               *)
LEMMA BytecodeNames ==
    /\ BytecodeOuter \in Seq(Names) /\ BytecodeProduct \in Seq(Names) /\ BytecodeInput \in Seq(Names)
    /\ BytecodeShift \in Seq(Names) /\ BytecodeRegisters \in Seq(AllNames)
    /\ Len(BytecodeOuter) >= 2 /\ BytecodeOuter[2] = "Imm"
    /\ ToSet(BytecodeOuter) \subseteq ToSet(R1csInputs)
    /\ ToSet(BytecodeProduct) \subseteq ToSet(ProductFactors)
    /\ ToSet(BytecodeInput) \subseteq ToSet(InputFlags)
    /\ ToSet(BytecodeShift) \subseteq ToSet(Shifted)
    /\ ToSet(BytecodeRegisters) = {"Rs1Ra", "Rs2Ra", "RdWa"}
  <1>1. /\ BytecodeOuter \in Seq(Names) /\ Len(BytecodeOuter) >= 2 /\ BytecodeOuter[2] = "Imm"
        /\ ToSet(BytecodeOuter) = {"UnexpandedPC", "Imm"} \cup ToSet(OpFlags)
    <2>1. OpFlags \in Seq(Names)
      BY OtherNames
    <2> DEFINE s == <<"UnexpandedPC", "Imm">>
    <2>2. s \in Seq(Names) /\ Len(s) = 2 /\ s[1] = "UnexpandedPC" /\ s[2] = "Imm"
      BY DEF Names
    <2>3. Joined(BytecodeOuter, s, OpFlags)
      BY DEF Joined, BytecodeOuter
    <2> HIDE DEF s
    <2>4. /\ BytecodeOuter \in Seq(Names) /\ Len(BytecodeOuter) = Len(s) + Len(OpFlags)
          /\ DOMAIN BytecodeOuter = 1 .. Len(s) + Len(OpFlags)
          /\ \A i \in 1 .. Len(s) : BytecodeOuter[i] = s[i]
          /\ \A i \in 1 .. Len(OpFlags) : BytecodeOuter[Len(s) + i] = OpFlags[i]
      <3>1. s \in Seq(Names)
        BY <2>2
      <3> QED  BY <2>1, <2>3, <3>1, ConcatTyped
    <2>5. Len(OpFlags) \in Nat /\ DOMAIN OpFlags = 1 .. Len(OpFlags)
      BY <2>1
    <2>6. ToSet(BytecodeOuter) = {"UnexpandedPC", "Imm"} \cup ToSet(OpFlags)
      <3>1. ASSUME NEW i \in DOMAIN BytecodeOuter
            PROVE  BytecodeOuter[i] \in {"UnexpandedPC", "Imm"} \cup ToSet(OpFlags)
        <4>1. CASE i \in 1 .. 2
          BY <2>2, <2>4, <4>1
        <4>2. CASE i \notin 1 .. 2
          <5>1. i - 2 \in DOMAIN OpFlags /\ i = 2 + (i - 2)
            BY <2>2, <2>4, <2>5, <4>2
          <5>2. BytecodeOuter[i] = OpFlags[i - 2]
            BY <2>2, <2>4, <2>5, <5>1
          <5> QED  BY <5>1, <5>2 DEF ToSet
        <4> QED  BY <4>1, <4>2
      <3>2. ASSUME NEW i \in DOMAIN OpFlags
            PROVE  \E j \in DOMAIN BytecodeOuter : BytecodeOuter[j] = OpFlags[i]
        BY <2>2, <2>4, <2>5
      <3>3. \A name \in {"UnexpandedPC", "Imm"} : \E j \in DOMAIN BytecodeOuter : BytecodeOuter[j] = name
        BY <2>2, <2>4, <2>5
      <3> QED  BY <3>1, <3>2, <3>3 DEF ToSet
    <2> QED  BY <2>2, <2>4, <2>5, <2>6
  <1>2. /\ BytecodeProduct \in Seq(Names) /\ BytecodeInput \in Seq(Names) /\ BytecodeShift \in Seq(Names)
    BY DEF Names, BytecodeProduct, BytecodeInput, BytecodeShift
  <1>3. /\ ToSet(BytecodeProduct) \subseteq ToSet(ProductFactors)
        /\ ToSet(BytecodeInput) \subseteq ToSet(InputFlags)
        /\ ToSet(BytecodeShift) \subseteq ToSet(Shifted)
    <2>1. /\ ToSet(BytecodeProduct) = {"Jump", "Branch", "WriteLookupOutputToRD", "VirtualInstruction"}
          /\ ToSet(BytecodeInput) = {"Imm", "UnexpandedPC", "LeftIsRs1", "LeftIsPC", "RightIsRs2", "RightIsImm"}
          /\ ToSet(BytecodeShift) = {"UnexpandedPC", "IsNoop", "VirtualInstruction", "IsFirstInSequence"}
      BY DEF BytecodeProduct, BytecodeInput, BytecodeShift, ToSet
    <2> QED  BY <2>1, NamesIn
  <1>4. BytecodeRegisters \in Seq(AllNames) /\ ToSet(BytecodeRegisters) = {"Rs1Ra", "Rs2Ra", "RdWa"}
    BY DEF AllNames, BytecodeRegisters, ToSet
  <1> QED  BY <1>1, <1>2, <1>3, <1>4, R1csNames

(* The claims of the address phases are names of the table.                 *)
LEMMA AddressIds ==
    /\ AddressClaim \in Ids /\ AddressClaim.at = "BytecodeReadRafAddressPhase"
    /\ BytecodeVals \in Seq(Ids) /\ Len(BytecodeVals) = 5
    /\ \A i \in 1 .. 5 : BytecodeVals[i] = VNth("BytecodeValStage", i - 1, "BytecodeReadRafAddressPhase")
    /\ \A i \in 1 .. 5 : BytecodeVals[i].at = "BytecodeReadRafAddressPhase"
    /\ BooleanityClaim \in Ids /\ BooleanityClaim.at = "BooleanityAddressPhase"
  <1>1. /\ {"BytecodeReadRafAddrClaim", "BytecodeValStage", "BooleanityAddrClaim"} \subseteq AllNames
        /\ {"BytecodeReadRafAddressPhase", "BooleanityAddressPhase"} \subseteq Stages
    BY DEF AllNames, Stages, LookupStages
  <1>2. /\ AddressClaim \in Ids /\ BooleanityClaim \in Ids
    BY <1>1, IdsTyped DEF AddressClaim, BooleanityClaim
  <1>3. /\ BytecodeVals \in Seq(Ids) /\ Len(BytecodeVals) = 5
        /\ \A i \in 1 .. 5 : BytecodeVals[i] = VNth("BytecodeValStage", i - 1, "BytecodeReadRafAddressPhase")
    <2>1. "BytecodeValStage" \in AllNames /\ "BytecodeReadRafAddressPhase" \in Stages /\ 5 \in Nat
      BY <1>1
    <2>2. BytecodeVals = VEach("BytecodeValStage", 5, "BytecodeReadRafAddressPhase")
      BY DEF BytecodeVals, BytecodeStages
    <2> QED  BY <2>1, <2>2, EachTyped
  <1>4. AddressClaim.at = "BytecodeReadRafAddressPhase" /\ BooleanityClaim.at = "BooleanityAddressPhase"
    BY IdFields DEF AddressClaim, BooleanityClaim
  <1>5. \A i \in 1 .. 5 : BytecodeVals[i].at = "BytecodeReadRafAddressPhase"
    BY <1>3, IdFields
  <1> QED  BY <1>2, <1>3, <1>4, <1>5

(* Each of the five groups the bytecode sumcheck folds is at one cycle      *)
(* point, and the registers also at one address.                            *)
LEMMA BytecodeMeets ==
    ASSUME NEW k, NEW a, Complete(k, 8, a)
    PROVE  /\ MeetAt(k, a, Append(Vs(BytecodeOuter, "SpartanOuter"), V("PC", "SpartanOuter")), "cycle", Fresh("cycle1"))
           /\ MeetAt(k, a, Vs(BytecodeProduct, "SpartanProductVirtualization"), "cycle", LastCycleRounds2)
           /\ MeetAt(k, a, Vs(BytecodeInput, "InstructionInputVirtualization")
                           \o Append(Vs(BytecodeShift, "SpartanShift"), V("PC", "SpartanShift")), "cycle", Fresh("cycle3"))
           /\ MeetAt(k, a, Vs(BytecodeRegisters, "RegistersReadWriteChecking"), "cycle", Fresh("registercycle4"))
           /\ MeetAt(k, a, Append(Vs(BytecodeRegisters, "RegistersReadWriteChecking"), BytecodeWritten),
                     "address", Register4)
           /\ MeetAt(k, a, Append(BytecodeLookups, BytecodeWritten), "cycle", Cycle5)
  <1>0. /\ BytecodeOuter \in Seq(AllNames) /\ BytecodeProduct \in Seq(AllNames) /\ BytecodeInput \in Seq(AllNames)
        /\ BytecodeShift \in Seq(AllNames) /\ BytecodeRegisters \in Seq(AllNames)
        /\ "PC" \in AllNames /\ "PC" \in Names
        /\ {"SpartanOuter", "SpartanProductVirtualization", "InstructionInputVirtualization", "SpartanShift",
            "RegistersReadWriteChecking", "RegistersValEvaluation", "InstructionReadRaf"} \subseteq Stages
        /\ {"RdWa", "InstructionRafFlag", "LookupTableFlag"} \subseteq AllNames
    <2>1. /\ "PC" \in AllNames /\ "PC" \in Names
          /\ {"SpartanOuter", "SpartanProductVirtualization", "InstructionInputVirtualization", "SpartanShift",
              "RegistersReadWriteChecking", "RegistersValEvaluation", "InstructionReadRaf"} \subseteq Stages
          /\ {"RdWa", "InstructionRafFlag", "LookupTableFlag"} \subseteq AllNames
      BY DEF Names, AllNames, Stages, SpartanStages, LookupStages
    <2> QED  BY <2>1, BytecodeNames, AllOfThem
  <1>1. MeetAt(k, a, Append(Vs(BytecodeOuter, "SpartanOuter"), V("PC", "SpartanOuter")), "cycle", Fresh("cycle1"))
    <2>1. KnowsNames(a, ToSet(R1csInputs), "SpartanOuter")
      BY DEF Complete
    <2>2. \A name \in Names : Where(k, V(name, "SpartanOuter"))["cycle"] = Fresh("cycle1")
      BY OuterIs, PointIs DEF OuterPoint
    <2>3. KnowsNames(a, ToSet(BytecodeOuter), "SpartanOuter") /\ ToSet(BytecodeOuter) \subseteq Names
      BY <2>1, BytecodeNames, AllOfThem DEF KnowsNames
    <2>4. Has(a, V("PC", "SpartanOuter"))
      BY <2>1, R1csNames DEF KnowsNames
    <2>5. MeetAt(k, a, Vs(BytecodeOuter, "SpartanOuter"), "cycle", Fresh("cycle1"))
      BY <2>2, <2>3, MeetAtNames
    <2>6. Vs(BytecodeOuter, "SpartanOuter") \in Seq(Ids) /\ V("PC", "SpartanOuter") \in Ids
      BY <1>0, VsTyped, IdsTyped
    <2> QED  BY <1>0, <2>2, <2>4, <2>5, <2>6, MeetAtAppend
  <1>2. MeetAt(k, a, Vs(BytecodeProduct, "SpartanProductVirtualization"), "cycle", LastCycleRounds2)
    <2>1. KnowsNames(a, ToSet(BytecodeProduct), "SpartanProductVirtualization") /\ ToSet(BytecodeProduct) \subseteq Names
      BY BytecodeNames, AllOfThem DEF Complete, KnowsNames
    <2>2. \A name \in Names : Where(k, V(name, "SpartanProductVirtualization"))["cycle"] = LastCycleRounds2
      BY ProductIs, PointIs
    <2> QED  BY <2>1, <2>2, MeetAtNames
  <1>3. MeetAt(k, a, Vs(BytecodeInput, "InstructionInputVirtualization")
                     \o Append(Vs(BytecodeShift, "SpartanShift"), V("PC", "SpartanShift")), "cycle", Fresh("cycle3"))
    <2>1. /\ KnowsNames(a, ToSet(BytecodeInput), "InstructionInputVirtualization")
          /\ KnowsNames(a, ToSet(BytecodeShift), "SpartanShift")
          /\ Has(a, V("PC", "SpartanShift"))
      BY BytecodeNames, NamesIn DEF Complete, KnowsNames
    <2>2. /\ \A name : Where(k, V(name, "InstructionInputVirtualization"))["cycle"] = Fresh("cycle3")
          /\ \A name : Where(k, V(name, "SpartanShift"))["cycle"] = Fresh("cycle3")
      BY ThirdIs, PointIs DEF Point3
    <2>3. /\ MeetAt(k, a, Vs(BytecodeInput, "InstructionInputVirtualization"), "cycle", Fresh("cycle3"))
          /\ MeetAt(k, a, Vs(BytecodeShift, "SpartanShift"), "cycle", Fresh("cycle3"))
      BY <2>1, <2>2, MeetAtNames
    <2>4. /\ Vs(BytecodeInput, "InstructionInputVirtualization") \in Seq(Ids)
          /\ Vs(BytecodeShift, "SpartanShift") \in Seq(Ids) /\ V("PC", "SpartanShift") \in Ids
      BY <1>0, VsTyped, IdsTyped
    <2>5. /\ MeetAt(k, a, Append(Vs(BytecodeShift, "SpartanShift"), V("PC", "SpartanShift")), "cycle", Fresh("cycle3"))
          /\ Append(Vs(BytecodeShift, "SpartanShift"), V("PC", "SpartanShift")) \in Seq(Ids)
      <3>1. Where(k, V("PC", "SpartanShift"))["cycle"] = Fresh("cycle3")
        BY <2>2
      <3> DEFINE ids == Vs(BytecodeShift, "SpartanShift")
                 id == V("PC", "SpartanShift")
      <3>2. ids \in Seq(Ids) /\ id \in Ids /\ Has(a, id) /\ MeetAt(k, a, ids, "cycle", Fresh("cycle3"))
        BY <2>1, <2>3, <2>4
      <3> HIDE DEF ids, id
      <3>3. Where(k, id)["cycle"] = Fresh("cycle3")
        BY <3>1 DEF id
      <3>4. MeetAt(k, a, Append(ids, id), "cycle", Fresh("cycle3")) /\ Append(ids, id) \in Seq(Ids)
        <4>1. MeetAt(k, a, Append(ids, id), "cycle", Fresh("cycle3"))
          BY <3>2, <3>3, MeetAtAppend, Zenon
        <4>2. Append(ids, id) \in Seq(Ids)
          BY <3>2
        <4> QED  BY <4>1, <4>2
      <3> QED  BY <3>4 DEF ids, id
    <2> QED  BY <2>3, <2>4, <2>5, MeetAtConcat
  <1>4. /\ KnowsNames(a, ToSet(BytecodeRegisters), "RegistersReadWriteChecking")
        /\ Has(a, BytecodeWritten)
        /\ Vs(BytecodeRegisters, "RegistersReadWriteChecking") \in Seq(Ids)
        /\ BytecodeWritten \in Ids
    <2>1. /\ KnowsNames(a, ToSet(BytecodeRegisters), "RegistersReadWriteChecking")
          /\ Has(a, BytecodeWritten)
      BY BytecodeNames DEF Complete, KnowsNames, BytecodeWritten
    <2> QED  BY <1>0, <2>1, VsTyped, IdsTyped DEF BytecodeWritten
  <1>5. \A name \in ToSet(BytecodeRegisters) :
           Where(k, V(name, "RegistersReadWriteChecking")) = Point(Register4, Fresh("registercycle4"))
    <2> TAKE name \in ToSet(BytecodeRegisters)
    <2>1. name # "RdInc"
      BY BytecodeNames
    <2> QED  BY <2>1, IdFields, WhereRegisters
  <1>6. Where(k, BytecodeWritten) = Point(Register4, Cycle5)
    <2>1. BytecodeWritten.at = "RegistersValEvaluation" /\ BytecodeWritten.poly[2] = "RdWa"
      BY IdFields DEF BytecodeWritten
    <2> QED  BY <2>1, WhereValues
  <1>7. MeetAt(k, a, Vs(BytecodeRegisters, "RegistersReadWriteChecking"), "cycle", Fresh("registercycle4"))
    BY <1>4, <1>5, PointIs, MeetAtNames
  <1>8. MeetAt(k, a, Append(Vs(BytecodeRegisters, "RegistersReadWriteChecking"), BytecodeWritten), "address", Register4)
    <2>1. MeetAt(k, a, Vs(BytecodeRegisters, "RegistersReadWriteChecking"), "address", Register4)
      BY <1>4, <1>5, PointIs, MeetAtNames
    <2>2. Where(k, BytecodeWritten)["address"] = Register4
      BY <1>6, PointIs
    <2> QED  BY <1>4, <2>1, <2>2, MeetAtAppend
  <1>9. MeetAt(k, a, Append(BytecodeLookups, BytecodeWritten), "cycle", Cycle5)
    <2> DEFINE at == "InstructionReadRaf"
               flag == V("InstructionRafFlag", at)
               flags == VEach("LookupTableFlag", LookupTables, at)
               one == <<flag>>
    <2>1. /\ flags \in Seq(Ids) /\ Len(flags) = LookupTables
          /\ \A i \in 1 .. LookupTables : flags[i] = VNth("LookupTableFlag", i - 1, at)
      <3>1. "LookupTableFlag" \in AllNames /\ at \in Stages /\ LookupTables \in Nat
        BY <1>0, CountAssumption
      <3> HIDE DEF at
      <3> QED  BY <3>1, EachTyped
    <2>2. Knows(a, flags) /\ Has(a, flag)
      BY DEF Complete, KnowsNames
    <2>3. flag \in Ids /\ flag.at = "InstructionReadRaf" /\ flag.poly[2] = "InstructionRafFlag"
      BY <1>0, IdsTyped, IdFields
    <2>4. Where(k, flag)["cycle"] = Cycle5
      <3> HIDE DEF flag
      <3>1. Where(k, flag) = Point(<<>>, Cycle5)
        BY <2>3, WhereReadRaf
      <3> QED  BY <3>1, PointIs
    <2>5. \A i \in 1 .. LookupTables : Where(k, flags[i])["cycle"] = Cycle5
      <3> TAKE i \in 1 .. LookupTables
      <3>1. flags[i].at = "InstructionReadRaf"
        BY <2>1, IdFields
      <3> HIDE DEF flags
      <3>2. \E q : Where(k, flags[i]) = Point(q, Cycle5)
        BY <3>1, WhereReadRaf
      <3> QED  BY <3>2, PointIs
    <2> HIDE DEF flags, flag
    <2>6. MeetAt(k, a, flags, "cycle", Cycle5)
      BY <2>1, <2>2, <2>5 DEF MeetAt, Knows
    <2>7. one \in Seq(Ids) /\ MeetAt(k, a, one, "cycle", Cycle5)
      BY <2>2, <2>3, <2>4 DEF MeetAt
    <2> HIDE DEF one
    <2>8. BytecodeLookups = one \o flags
      BY DEF BytecodeLookups, one, flags, flag
    <2>9. BytecodeLookups \in Seq(Ids) /\ MeetAt(k, a, BytecodeLookups, "cycle", Cycle5)
      BY <2>1, <2>6, <2>7, <2>8, MeetAtConcat
    <2>10. Where(k, BytecodeWritten)["cycle"] = Cycle5
      BY <1>6, PointIs
    <2> QED  BY <1>4, <2>9, <2>10, MeetAtAppend
  <1> QED  BY <1>1, <1>2, <1>3, <1>7, <1>8, <1>9

(* The bytecode's address phase fits: what it folds is at the points of     *)
(* five stages.                                                             *)
LEMMA FitsBytecodeReadRafAddress ==
    ASSUME NEW k, NEW a, Complete(k, 8, a)
    PROVE  Fits(k, a, BytecodeReadRafAddress(k))
  <1> DEFINE s == BytecodeReadRafAddress(k)
             outer == Vs(BytecodeOuter, "SpartanOuter")
             product == Vs(BytecodeProduct, "SpartanProductVirtualization")
             input == Vs(BytecodeInput, "InstructionInputVirtualization")
             shift == Vs(BytecodeShift, "SpartanShift")
             registers == Vs(BytecodeRegisters, "RegistersReadWriteChecking")
             vals == IF Committed(k) THEN BytecodeVals ELSE <<>>
             ids == <<AddressClaim>> \o vals
  <1>1. /\ s.opens = Open(ids, Point(BytecodeAddress, <<>>))
        /\ s.needs = <<outer[2], product[1], shift[1], registers[1], BytecodeWritten>>
        /\ s.alike = <<Alike("cycle", Append(outer, V("PC", "SpartanOuter"))), Alike("cycle", product),
                       Alike("cycle", input \o Append(shift, V("PC", "SpartanShift"))),
                       Alike("cycle", registers), Alike("address", Append(registers, BytecodeWritten)),
                       Alike("cycle", Append(BytecodeLookups, BytecodeWritten))>>
    BY DEF BytecodeReadRafAddress, Plain, BytecodeOuter, BytecodeProduct, BytecodeInput, BytecodeShift,
           BytecodeRegisters, BytecodeLookups, BytecodeWritten
  <1>2. s.opens \in Seq(Openings(k))
    <2> DEFINE one == <<AddressClaim>>
    <2>1. one \in Seq(Ids) /\ \A i \in 1 .. Len(one) : one[i].at = "BytecodeReadRafAddressPhase"
      BY AddressIds
    <2>2. vals \in Seq(Ids) /\ \A i \in 1 .. Len(vals) : vals[i].at = "BytecodeReadRafAddressPhase"
      <3>1. /\ BytecodeVals \in Seq(Ids)
            /\ \A i \in 1 .. Len(BytecodeVals) : BytecodeVals[i].at = "BytecodeReadRafAddressPhase"
        BY AddressIds
      <3>2. CASE Committed(k)
        BY <3>1, <3>2
      <3>3. CASE ~Committed(k)
        BY <3>3
      <3> QED  BY <3>2, <3>3
    <2> HIDE DEF one, vals
    <2>3. ids \in Seq(Ids) /\ \A i \in 1 .. Len(ids) : ids[i].at = "BytecodeReadRafAddressPhase"
      BY <2>1, <2>2 DEF one
    <2> HIDE DEF ids
    <2>4. \A i \in 1 .. Len(ids) : Where(k, ids[i]) = Point(BytecodeAddress, <<>>)
      BY <2>3, WhereBytecodeAddress
    <2> QED  BY <1>1, <2>3, <2>4, OpenPlaced
  <1>3. \A i \in DOMAIN s.needs : s.needs[i].at \notin PrecommittedStages
    <2>1. /\ outer[2].at = "SpartanOuter" /\ product[1].at = "SpartanProductVirtualization"
          /\ shift[1].at = "SpartanShift" /\ registers[1].at = "RegistersReadWriteChecking"
          /\ BytecodeWritten.at = "RegistersValEvaluation"
      <3>1. 2 \in DOMAIN BytecodeOuter
        BY BytecodeNames
      <3>2. 1 \in DOMAIN BytecodeProduct /\ 1 \in DOMAIN BytecodeShift /\ 1 \in DOMAIN BytecodeRegisters
        BY DEF BytecodeProduct, BytecodeShift, BytecodeRegisters
      <3>3. /\ outer[2] = V(BytecodeOuter[2], "SpartanOuter")
            /\ product[1] = V(BytecodeProduct[1], "SpartanProductVirtualization")
            /\ shift[1] = V(BytecodeShift[1], "SpartanShift")
            /\ registers[1] = V(BytecodeRegisters[1], "RegistersReadWriteChecking")
        BY <3>1, <3>2 DEF Vs
      <3> HIDE DEF outer, product, shift, registers
      <3>4. \A name, at : V(name, at).at = at
        BY IdFields
      <3> QED  BY <3>3, <3>4 DEF BytecodeWritten
    <2> HIDE DEF s, outer, product, shift, registers
    <2> QED  BY <1>1, <2>1 DEF PrecommittedStages
  <1>4. \A i \in DOMAIN s.alike : Meets(k, a, s.alike[i].ids, s.alike[i].part)
    <2> DEFINE g1 == Append(outer, V("PC", "SpartanOuter"))
               g3 == input \o Append(shift, V("PC", "SpartanShift"))
               g5 == Append(registers, BytecodeWritten)
               g6 == Append(BytecodeLookups, BytecodeWritten)
    <2>1. /\ Meets(k, a, ToSet(g1), "cycle") /\ Meets(k, a, ToSet(product), "cycle")
          /\ Meets(k, a, ToSet(g3), "cycle") /\ Meets(k, a, ToSet(registers), "cycle")
          /\ Meets(k, a, ToSet(g5), "address") /\ Meets(k, a, ToSet(g6), "cycle")
      BY BytecodeMeets, MeetAtMeets
    <2>2. s.alike = <<Alike("cycle", g1), Alike("cycle", product), Alike("cycle", g3),
                      Alike("cycle", registers), Alike("address", g5), Alike("cycle", g6)>>
      BY <1>1
    <2> HIDE DEF s, g1, g3, g5, g6, product, registers
    <2> QED  BY <2>1, <2>2, AlikeIs
  <1> QED  BY <1>2, <1>3, <1>4 DEF Fits

(* Booleanity's address phase fits.                                         *)
LEMMA FitsBooleanityAddress ==
    ASSUME NEW k, NEW a
    PROVE  Fits(k, a, BooleanityAddress(k))
  <1> DEFINE s == BooleanityAddress(k)
  <1>1. /\ s.opens = Open(<<BooleanityClaim>>, Point(BooleanityAddress6(k), <<>>))
        /\ s.needs = <<VNth("InstructionRa", 0, "InstructionReadRaf")>> /\ s.alike = <<>>
    BY DEF BooleanityAddress, Plain
  <1>2. s.opens \in Seq(Openings(k))
    BY <1>1, AddressIds, WhereBooleanityAddress, OpenOne
  <1>3. \A i \in DOMAIN s.needs : s.needs[i].at \notin PrecommittedStages
    BY <1>1, IdFields DEF PrecommittedStages
  <1> QED  BY <1>1, <1>2, <1>3 DEF Fits
-----------------------------------------------------------------------------
(* The bytecode's cycle phase fits: its points come from the accumulator.   *)
LEMMA FitsBytecodeReadRafCycle ==
    ASSUME NEW k, NEW a, Sound(k, a), Knows(a, BytecodeReadRafCycle(k, a).needs)
    PROVE  Fits(k, a, BytecodeReadRafCycle(k, a))
  <1> DEFINE s == BytecodeReadRafCycle(k, a)
             ids == CEach("BytecodeRa", BytecodeD, "BytecodeReadRaf")
             opens == [i \in DOMAIN ids |->
                         [id |-> ids[i], point |-> Point(<<PointOf(a, AddressClaim).address[i]>>, LastCycleRounds6(k))]]
  <1>1. s.opens = opens /\ s.needs = <<AddressClaim>> /\ s.alike = <<>>
    BY DEF BytecodeReadRafCycle, Plain, OpenEach
  <1>2. /\ ids \in Seq(Ids) /\ Len(ids) = BytecodeD
        /\ \A i \in 1 .. BytecodeD : ids[i] = CNth("BytecodeRa", i - 1, "BytecodeReadRaf")
    <2>1. "BytecodeRa" \in AllNames /\ "BytecodeReadRaf" \in Stages /\ BytecodeD \in Nat
      BY CountAssumption DEF AllNames, Stages, LookupStages
    <2> QED  BY <2>1, EachTyped
  <1>3. PointOf(a, AddressClaim).address = BytecodeAddress
    <2>1. Has(a, AddressClaim)
      BY <1>1 DEF Knows
    <2>2. Where(k, AddressClaim) = Point(BytecodeAddress, <<>>)
      BY AddressIds, WhereBytecodeAddress
    <2> QED  BY <2>1, <2>2, SoundKnows, PointIs
  <1>4. \A i \in 1 .. Len(ids) : Where(k, ids[i]) = Point(<<BytecodeAddress[i]>>, LastCycleRounds6(k))
    <2> TAKE i \in 1 .. Len(ids)
    <2>1. ids[i].at = "BytecodeReadRaf" /\ ids[i].poly[3] = i - 1
      BY <1>2, IdFields
    <2>2. (i - 1) + 1 = i
      BY <1>2
    <2> HIDE DEF ids
    <2> QED  BY <2>1, <2>2, WhereBytecode
  <1>5. opens \in Seq(Openings(k))
    <2> HIDE DEF ids
    <2>1. DOMAIN ids = 1 .. Len(ids)
      BY <1>2
    <2>2. /\ opens = [i \in 1 .. Len(ids) |-> opens[i]]
          /\ \A i \in 1 .. Len(ids) : opens[i] = [id |-> ids[i], point |-> Where(k, ids[i])]
      BY <1>3, <1>4, <2>1
    <2> HIDE DEF opens
    <2> QED  BY <1>2, <2>2, EachPlaced
  <1>6. \A i \in DOMAIN s.needs : s.needs[i].at \notin PrecommittedStages
    <2> HIDE DEF s
    <2> QED  BY <1>1, AddressIds DEF PrecommittedStages
  <1> HIDE DEF opens
  <1> QED  BY <1>1, <1>5, <1>6 DEF Fits

(* The chunks of a stage, the first an instruction's.                       *)
LEMMA OneHotTyped ==
    ASSUME NEW at \in Stages
    PROVE  /\ OneHot(at) \in Seq(Ids) /\ Len(OneHot(at)) >= 1 /\ OneHot(at)[1] = CNth("InstructionRa", 0, at)
           /\ \A i \in 1 .. Len(OneHot(at)) : OneHot(at)[i].at = at
  <1> DEFINE x == CEach("InstructionRa", InstructionD, at)
             y == CEach("BytecodeRa", BytecodeD, at)
             z == CEach("RamRa", RamD, at)
  <1>1. "InstructionRa" \in AllNames /\ "BytecodeRa" \in AllNames /\ "RamRa" \in AllNames
    BY DEF AllNames
  <1>2. InstructionD \in Nat /\ InstructionD >= 1 /\ BytecodeD \in Nat /\ RamD \in Nat
    BY CountAssumption
  <1>3. /\ x \in Seq(Ids) /\ Len(x) = InstructionD
        /\ \A i \in 1 .. InstructionD : x[i] = CNth("InstructionRa", i - 1, at)
    BY <1>1, <1>2, EachTyped
  <1>4. /\ y \in Seq(Ids) /\ Len(y) = BytecodeD
        /\ \A i \in 1 .. BytecodeD : y[i] = CNth("BytecodeRa", i - 1, at)
    BY <1>1, <1>2, EachTyped
  <1>5. /\ z \in Seq(Ids) /\ Len(z) = RamD
        /\ \A i \in 1 .. RamD : z[i] = CNth("RamRa", i - 1, at)
    BY <1>1, <1>2, EachTyped
  <1>6. /\ \A i \in 1 .. Len(x) : x[i].at = at
        /\ \A i \in 1 .. Len(y) : y[i].at = at
        /\ \A i \in 1 .. Len(z) : z[i].at = at
    BY <1>3, <1>4, <1>5, IdFields
  <1>7. x[1] = CNth("InstructionRa", 0, at) /\ Len(x) >= 1
    BY <1>2, <1>3
  <1>8. OneHot(at) = (x \o y) \o z
    BY DEF OneHot
  <1> HIDE DEF x, y, z
  <1> DEFINE w == x \o y
  <1>9. w \in Seq(Ids) /\ Len(w) >= 1 /\ w[1] = x[1] /\ \A i \in 1 .. Len(w) : w[i].at = at
    BY <1>3, <1>4, <1>6, <1>7
  <1> HIDE DEF w
  <1>10. OneHot(at) = w \o z
    BY <1>8 DEF w
  <1> QED  BY <1>5, <1>6, <1>7, <1>9, <1>10

(* Booleanity's cycle phase fits.                                           *)
LEMMA FitsBooleanityCycle ==
    ASSUME NEW k, NEW a, Sound(k, a), Knows(a, BooleanityCycle(k, a).needs)
    PROVE  Fits(k, a, BooleanityCycle(k, a))
  <1> DEFINE s == BooleanityCycle(k, a)
             ids == OneHot("Booleanity")
             point == Point(BooleanityAddress6(k), LastCycleRounds6(k))
  <1>1. /\ s.opens = Open(ids, Point(PointOf(a, BooleanityClaim).address, LastCycleRounds6(k)))
        /\ s.needs = <<BooleanityClaim>> /\ s.alike = <<>>
    BY DEF BooleanityCycle, Plain
  <1>2. PointOf(a, BooleanityClaim).address = BooleanityAddress6(k)
    <2>1. Has(a, BooleanityClaim)
      BY <1>1 DEF Knows
    <2>2. Where(k, BooleanityClaim) = Point(BooleanityAddress6(k), <<>>)
      BY AddressIds, WhereBooleanityAddress
    <2> QED  BY <2>1, <2>2, SoundKnows, PointIs
  <1>3. ids \in Seq(Ids) /\ \A i \in 1 .. Len(ids) : ids[i].at = "Booleanity"
    BY OneHotTyped DEF Stages, LookupStages
  <1> HIDE DEF ids
  <1>4. \A i \in 1 .. Len(ids) : Where(k, ids[i]) = point
    BY <1>3, WhereBooleanity
  <1>5. s.opens \in Seq(Openings(k))
    BY <1>1, <1>2, <1>3, <1>4, OpenPlaced
  <1>6. \A i \in DOMAIN s.needs : s.needs[i].at \notin PrecommittedStages
    <2> HIDE DEF s
    <2> QED  BY <1>1, AddressIds DEF PrecommittedStages
  <1> QED  BY <1>1, <1>5, <1>6 DEF Fits

(* The memory's hamming booleanity fits.                                    *)
LEMMA FitsHammingBooleanity ==
    ASSUME NEW k, NEW a
    PROVE  Fits(k, a, HammingBooleanity(k))
  <1> DEFINE s == HammingBooleanity(k)
             id == V("RamHammingWeight", "RamHammingBooleanity")
  <1>1. /\ s.opens = Open(<<id>>, Point(<<>>, LastCycleRounds6(k)))
        /\ s.needs = <<V("LookupOutput", "SpartanOuter")>> /\ s.alike = <<>>
    BY DEF HammingBooleanity, Plain
  <1>2. id \in Ids
    BY IdsTyped DEF AllNames, Stages, RamStages
  <1>3. Where(k, id) = Point(<<>>, LastCycleRounds6(k))
    BY IdFields, WhereWeight
  <1>4. s.opens \in Seq(Openings(k))
    BY <1>1, <1>2, <1>3, OpenOne
  <1>5. \A i \in DOMAIN s.needs : s.needs[i].at \notin PrecommittedStages
    <2>1. s.needs = <<V("LookupOutput", "SpartanOuter")>>
      BY <1>1
    <2> HIDE DEF s
    <2> QED  BY <2>1, IdFields DEF PrecommittedStages
  <1> QED  BY <1>1, <1>4, <1>5 DEF Fits

(* The memory's chunks fit: they are pieces of the reduced address.         *)
LEMMA FitsRamRaVirtual ==
    ASSUME NEW k, NEW a, Sound(k, a), Knows(a, RamRaVirtual(k, a).needs)
    PROVE  Fits(k, a, RamRaVirtual(k, a))
  <1> DEFINE s == RamRaVirtual(k, a)
             ra == V("RamRa", "RamRaClaimReduction")
             ids == CEach("RamRa", RamD, "RamRaVirtualization")
             opens == [i \in DOMAIN ids |->
                         [id |-> ids[i], point |-> Point(<<PointOf(a, ra).address[i]>>, LastCycleRounds6(k))]]
  <1>1. s.opens = opens /\ s.needs = <<ra>> /\ s.alike = <<>>
    BY DEF RamRaVirtual, Plain, OpenEach
  <1>2. /\ ids \in Seq(Ids) /\ Len(ids) = RamD
        /\ \A i \in 1 .. RamD : ids[i] = CNth("RamRa", i - 1, "RamRaVirtualization")
    <2>1. "RamRa" \in AllNames /\ "RamRaVirtualization" \in Stages /\ RamD \in Nat
      BY CountAssumption DEF AllNames, Stages, RamStages
    <2> QED  BY <2>1, EachTyped
  <1>a. ra.at = "RamRaClaimReduction"
    BY IdFields
  <1> HIDE DEF ra
  <1>3. PointOf(a, ra).address = RamAddressRounds
    <2>1. Has(a, ra)
      BY <1>1 DEF Knows
    <2>2. Where(k, ra) = Point(RamAddressRounds, Cycle5)
      BY <1>a, WhereRamRa
    <2> QED  BY <2>1, <2>2, SoundKnows, PointIs
  <1>4. \A i \in 1 .. Len(ids) : Where(k, ids[i]) = Point(<<RamAddressRounds[i]>>, LastCycleRounds6(k))
    <2> TAKE i \in 1 .. Len(ids)
    <2>1. ids[i].at = "RamRaVirtualization" /\ ids[i].poly[3] = i - 1
      BY <1>2, IdFields
    <2>2. (i - 1) + 1 = i
      BY <1>2
    <2> HIDE DEF ids
    <2> QED  BY <2>1, <2>2, WhereRamChunk
  <1>5. opens \in Seq(Openings(k))
    <2> HIDE DEF ids
    <2>1. DOMAIN ids = 1 .. Len(ids)
      BY <1>2
    <2>2. /\ opens = [i \in 1 .. Len(ids) |-> opens[i]]
          /\ \A i \in 1 .. Len(ids) : opens[i] = [id |-> ids[i], point |-> Where(k, ids[i])]
      BY <1>3, <1>4, <2>1
    <2> HIDE DEF opens
    <2> QED  BY <1>2, <2>2, EachPlaced
  <1>6. \A i \in DOMAIN s.needs : s.needs[i].at \notin PrecommittedStages
    <2> HIDE DEF s
    <2> QED  BY <1>1, <1>a DEF PrecommittedStages
  <1> HIDE DEF opens
  <1> QED  BY <1>1, <1>5, <1>6 DEF Fits

(* The instruction's chunks fit: they are pieces of the lookup address.     *)
LEMMA FitsInstructionRaVirtual ==
    ASSUME NEW k, NEW a, Knows(a, InstructionRaVirtual(k).needs)
    PROVE  Fits(k, a, InstructionRaVirtual(k))
  <1> DEFINE s == InstructionRaVirtual(k)
             ras == VEach("InstructionRa", VirtualRas, "InstructionReadRaf")
             ids == CEach("InstructionRa", InstructionD, "InstructionRaVirtualization")
             opens == [i \in DOMAIN ids |->
                         [id |-> ids[i], point |-> Point(<<<<"chunk of lookup5", i>>>>, LastCycleRounds6(k))]]
  <1>1. s.opens = opens /\ s.needs = ras /\ s.alike = <<Alike("cycle", ras)>>
    BY DEF InstructionRaVirtual, Plain, OpenEach
  <1>0. /\ "InstructionRa" \in AllNames /\ "InstructionReadRaf" \in Stages
        /\ "InstructionRaVirtualization" \in Stages /\ InstructionD \in Nat
    BY CountAssumption DEF AllNames, Stages, LookupStages
  <1>2. /\ ids \in Seq(Ids) /\ Len(ids) = InstructionD
        /\ \A i \in 1 .. InstructionD : ids[i] = CNth("InstructionRa", i - 1, "InstructionRaVirtualization")
    BY <1>0, EachTyped
  <1>3. /\ ras \in Seq(Ids) /\ Len(ras) = VirtualRas
        /\ \A i \in 1 .. VirtualRas : ras[i] = VNth("InstructionRa", i - 1, "InstructionReadRaf")
    BY <1>0, VirtualRasTyped, EachTyped
  <1>4. \A i \in 1 .. Len(ids) : Where(k, ids[i]) = Point(<<<<"chunk of lookup5", i>>>>, LastCycleRounds6(k))
    <2> TAKE i \in 1 .. Len(ids)
    <2>1. ids[i].at = "InstructionRaVirtualization" /\ ids[i].poly[3] = i - 1
      BY <1>2, IdFields
    <2>2. (i - 1) + 1 = i
      BY <1>2
    <2> HIDE DEF ids
    <2> QED  BY <2>1, <2>2, WhereInstructionRa
  <1>5. opens \in Seq(Openings(k))
    <2> HIDE DEF ids
    <2>1. DOMAIN ids = 1 .. Len(ids)
      BY <1>2
    <2>2. /\ opens = [i \in 1 .. Len(ids) |-> opens[i]]
          /\ \A i \in 1 .. Len(ids) : opens[i] = [id |-> ids[i], point |-> Where(k, ids[i])]
      BY <1>4, <2>1
    <2> HIDE DEF opens
    <2> QED  BY <1>2, <2>2, EachPlaced
  <1>6. \A i \in 1 .. Len(ras) : ras[i].at = "InstructionReadRaf"
    BY <1>3, IdFields
  <1> HIDE DEF ras
  <1>7. DOMAIN ras = 1 .. Len(ras)
    BY <1>3
  <1>8. \A i \in DOMAIN s.needs : s.needs[i].at \notin PrecommittedStages
    <2> HIDE DEF s
    <2> QED  BY <1>1, <1>6, <1>7 DEF PrecommittedStages
  <1>9. MeetAt(k, a, ras, "cycle", Cycle5)
    <2>1. \A i \in 1 .. Len(ras) : Has(a, ras[i])
      BY <1>1, <1>7 DEF Knows
    <2>2. ASSUME NEW i \in 1 .. Len(ras) PROVE Where(k, ras[i])["cycle"] = Cycle5
      <3>1. \E q : Where(k, ras[i]) = Point(q, Cycle5)
        BY <1>6, WhereReadRaf
      <3> QED  BY <3>1, PointIs
    <2> QED  BY <1>7, <2>1, <2>2 DEF MeetAt
  <1>10. \A i \in DOMAIN s.alike : Meets(k, a, s.alike[i].ids, s.alike[i].part)
    <2>1. s.alike = <<Alike("cycle", ras)>> /\ Meets(k, a, ToSet(ras), "cycle")
      BY <1>1, <1>9, MeetAtMeets
    <2> HIDE DEF s
    <2> QED  BY <2>1, AlikeIs
  <1>11. s.opens \in Seq(Openings(k))
    <2> HIDE DEF opens
    <2> QED  BY <1>1, <1>5
  <1> HIDE DEF s
  <1> QED  BY <1>8, <1>10, <1>11 DEF Fits, s

(* The increments' reduction fits: it folds two claims of each increment.   *)
LEMMA FitsIncClaimReduction ==
    ASSUME NEW k, NEW a
    PROVE  Fits(k, a, IncClaimReduction(k))
  <1> DEFINE s == IncClaimReduction(k)
             ids == <<C("RamInc", "IncClaimReduction"), C("RdInc", "IncClaimReduction")>>
  <1>1. /\ s.opens = Open(ids, Point(<<>>, LastCycleRounds6(k)))
        /\ s.needs = RamIncs \o RdIncs /\ s.alike = <<>>
    BY DEF IncClaimReduction, Plain
  <1>2. /\ ids \in Seq(Ids) /\ Len(ids) = 2
        /\ ids[1].at = "IncClaimReduction" /\ ids[2].at = "IncClaimReduction"
    <2>1. C("RamInc", "IncClaimReduction") \in Ids /\ C("RdInc", "IncClaimReduction") \in Ids
      BY IdsTyped DEF AllNames, Stages, LookupStages
    <2>2. C("RamInc", "IncClaimReduction").at = "IncClaimReduction"
          /\ C("RdInc", "IncClaimReduction").at = "IncClaimReduction"
      BY IdFields
    <2> QED  BY <2>1, <2>2
  <1> HIDE DEF ids
  <1>3. \A i \in 1 .. Len(ids) : Where(k, ids[i]) = Point(<<>>, LastCycleRounds6(k))
    <2> TAKE i \in 1 .. Len(ids)
    <2>1. ids[i].at = "IncClaimReduction"
      BY <1>2
    <2> QED  BY <2>1, WhereInc
  <1>4. s.opens \in Seq(Openings(k))
    BY <1>1, <1>2, <1>3, OpenPlaced
  <1>5. \A i \in DOMAIN s.needs : s.needs[i].at \notin PrecommittedStages
    <2> DEFINE Others == {id \in Ids : id.at \notin PrecommittedStages}
    <2>1. RamIncs \in Seq(Others) /\ RdIncs \in Seq(Others)
      <3> DEFINE x1 == C("RamInc", "RamReadWriteChecking")
                 x2 == C("RamInc", "RamValCheck")
                 x3 == C("RdInc", "RegistersReadWriteChecking")
                 x4 == C("RdInc", "RegistersValEvaluation")
      <3>1. x1 \in Ids /\ x2 \in Ids /\ x3 \in Ids /\ x4 \in Ids
        BY IdsTyped DEF AllNames, Stages, SpartanStages, RamStages
      <3>2. /\ x1.at = "RamReadWriteChecking" /\ x2.at = "RamValCheck"
            /\ x3.at = "RegistersReadWriteChecking" /\ x4.at = "RegistersValEvaluation"
        BY IdFields
      <3>3. RamIncs = <<x1, x2>> /\ RdIncs = <<x3, x4>>
        BY DEF RamIncs, RdIncs
      <3> HIDE DEF x1, x2, x3, x4
      <3>4. x1 \in Others /\ x2 \in Others /\ x3 \in Others /\ x4 \in Others
        BY <3>1, <3>2 DEF PrecommittedStages
      <3> HIDE DEF Others
      <3> QED  BY <3>3, <3>4
    <2>2. s.needs = RamIncs \o RdIncs
      BY <1>1
    <2> HIDE DEF s, Others
    <2>3. s.needs \in Seq(Others)
      BY <2>1, <2>2
    <2>4. \A i \in DOMAIN s.needs : s.needs[i] \in Others
      BY <2>3
    <2> QED  BY <2>4 DEF Others
  <1> QED  BY <1>1, <1>4, <1>5 DEF Fits
-----------------------------------------------------------------------------
(* The reductions of what is precommitted                                   *)
LEMMA FitsCyclePhase ==
    ASSUME NEW k, NEW a, NEW name, NEW size \in Int, size > 0, NEW reads, NEW middle, NEW final,
           reads[1].at \notin PrecommittedStages, Meets(k, a, ToSet(reads), "address"),
           middle \in Ids, Where(k, middle) = Middle(k, size),
           final \in Seq(Ids), \A i \in 1 .. Len(final) : Where(k, final[i]) = End(k, size)
    PROVE  Fits(k, a, CyclePhase(name, k, size, reads, middle, final))
  <1> DEFINE s == CyclePhase(name, k, size, reads, middle, final)
  <1>1. /\ s.opens = IF TwoPhases(k, size) THEN Open(<<middle>>, Point(CyclePoint(Shape(k), size), <<>>))
                     ELSE Open(final, Point(FinalPoint(Shape(k), size), <<>>))
        /\ s.needs = <<reads[1]>> /\ s.alike = <<Alike("address", reads)>>
    BY DEF CyclePhase, Plain
  <1>2. CASE TwoPhases(k, size)
    <2>1. Where(k, middle) = Point(CyclePoint(Shape(k), size), <<>>)
      BY <1>2 DEF Middle
    <2>2. s.opens \in Seq(Openings(k))
      BY <1>1, <1>2, <2>1, OpenOne
    <2> QED  BY <1>1, <2>2, AlikeIs DEF Fits
  <1>3. CASE ~TwoPhases(k, size)
    <2>1. \A i \in 1 .. Len(final) : Where(k, final[i]) = Point(FinalPoint(Shape(k), size), <<>>)
      BY DEF End
    <2>2. s.opens \in Seq(Openings(k))
      BY <1>1, <1>3, <2>1, OpenPlaced
    <2> QED  BY <1>1, <2>2, AlikeIs DEF Fits
  <1> QED  BY <1>2, <1>3

(* A reduction's address phase ends at its last point.                      *)
LEMMA FitsAddressPhase ==
    ASSUME NEW k, NEW a, NEW name, NEW size \in Int, size > 0, NEW middle, NEW final,
           final \in Seq(Ids), \A i \in 1 .. Len(final) : Where(k, final[i]) = End(k, size)
    PROVE  Fits(k, a, AddressPhase(name, k, size, middle, final))
  <1> DEFINE s == AddressPhase(name, k, size, middle, final)
  <1>1. /\ s.opens = Open(final, Point(FinalPoint(Shape(k), size), <<>>))
        /\ s.needs = <<>> /\ s.alike = <<>>
    BY DEF AddressPhase, Plain
  <1>2. \A i \in 1 .. Len(final) : Where(k, final[i]) = Point(FinalPoint(Shape(k), size), <<>>)
    BY DEF End
  <1>3. s.opens \in Seq(Openings(k))
    BY <1>1, <1>2, OpenPlaced
  <1> QED  BY <1>1, <1>3 DEF Fits

(* One known name meets itself.                                             *)
LEMMA MeetsOne ==
    ASSUME NEW k, NEW a, NEW id, Has(a, id), NEW part
    PROVE  Meets(k, a, ToSet(<<id>>), part)
  BY DEF Meets, ToSet

(* One element is a sequence.                                               *)
LEMMA OneSeq ==
    ASSUME NEW S, NEW x \in S
    PROVE  <<x>> \in Seq(S) /\ \A i \in 1 .. Len(<<x>>) : <<x>>[i] = x
  OBVIOUS

AdviceOf(k, kind) == IF kind = "TrustedAdvice" THEN k.trusted ELSE k.untrusted

(* The claims about advice are names of the table.                          *)
LEMMA AdviceIds ==
    ASSUME NEW k, NEW kind \in {"TrustedAdvice", "UntrustedAdvice"}
    PROVE  /\ Advice(kind, "AdviceClaimReductionCyclePhase") \in Ids
           /\ Advice(kind, "AdviceClaimReduction") \in Ids
           /\ Advice(kind, "RamValCheck").at = "RamValCheck"
           /\ Where(k, Advice(kind, "AdviceClaimReductionCyclePhase")) = Middle(k, AdviceOf(k, kind))
           /\ Where(k, Advice(kind, "AdviceClaimReduction")) = End(k, AdviceOf(k, kind))
  <1> DEFINE m == Advice(kind, "AdviceClaimReductionCyclePhase")
             e == Advice(kind, "AdviceClaimReduction")
  <1>1. m \in Ids /\ e \in Ids
    BY IdsTyped DEF Advice, AllNames, Stages, PrecommittedStages
  <1>2. /\ m.at = "AdviceClaimReductionCyclePhase" /\ m.poly[2] = kind
        /\ e.at = "AdviceClaimReduction" /\ e.poly[2] = kind
        /\ Advice(kind, "RamValCheck").at = "RamValCheck"
    BY IdFields DEF Advice
  <1> HIDE DEF m, e
  <1>3. Where(k, m) = Middle(k, AdviceOf(k, kind)) /\ Where(k, e) = End(k, AdviceOf(k, kind))
    <2>1. CASE kind = "TrustedAdvice"
      BY <1>2, <2>1, WhereReduced DEF AdviceOf
    <2>2. CASE kind = "UntrustedAdvice"
      BY <1>2, <2>2, WhereReduced DEF AdviceOf
    <2> QED  BY <2>1, <2>2
  <1> QED  BY <1>1, <1>2, <1>3 DEF m, e

(* The two phases of the reduction of an advice fit.                        *)
LEMMA FitsAdvice ==
    ASSUME NEW k, NEW a, NEW kind \in {"TrustedAdvice", "UntrustedAdvice"},
           NEW size \in Int, size = AdviceOf(k, kind), size > 0
    PROVE  /\ Knows(a, AdviceCycle(k, kind, size).needs) => Fits(k, a, AdviceCycle(k, kind, size))
           /\ Fits(k, a, AdviceAddress(k, kind, size))
  <1> DEFINE r == Advice(kind, "RamValCheck")
             m == Advice(kind, "AdviceClaimReductionCyclePhase")
             e == Advice(kind, "AdviceClaimReduction")
             reads == <<r>>
             final == <<e>>
  <1>1. /\ m \in Ids /\ e \in Ids /\ r.at = "RamValCheck"
        /\ Where(k, m) = Middle(k, size) /\ Where(k, e) = End(k, size)
    BY AdviceIds
  <1>2. /\ AdviceCycle(k, kind, size) = CyclePhase(kind, k, size, reads, m, final)
        /\ AdviceAddress(k, kind, size) = AddressPhase(kind, k, size, m, final)
    BY DEF AdviceCycle, AdviceAddress
  <1> HIDE DEF r, m, e
  <1>3. final \in Seq(Ids) /\ \A i \in 1 .. Len(final) : Where(k, final[i]) = End(k, size)
    BY <1>1
  <1>4. reads[1] = r /\ r.at \notin PrecommittedStages
    BY <1>1 DEF PrecommittedStages
  <1>5. CyclePhase(kind, k, size, reads, m, final).needs = <<r>>
    BY <1>4 DEF CyclePhase, Plain
  <1>6. Has(a, r) => Meets(k, a, ToSet(reads), "address")
    BY MeetsOne
  <1> HIDE DEF reads, final
  <1>7. Has(a, r) => Fits(k, a, CyclePhase(kind, k, size, reads, m, final))
    BY <1>1, <1>3, <1>4, <1>6, FitsCyclePhase
  <1>8. Knows(a, CyclePhase(kind, k, size, reads, m, final).needs) => Has(a, r)
    BY <1>5 DEF Knows
  <1>9. Fits(k, a, AddressPhase(kind, k, size, m, final))
    BY <1>3, FitsAddressPhase
  <1> QED  BY <1>2, <1>7, <1>8, <1>9

(* The two phases of the reduction of the committed bytecode fit.           *)
LEMMA FitsBytecodeReduction ==
    ASSUME NEW k \in Wide, NEW a, Committed(k)
    PROVE  /\ Complete(k, 9, a) => Fits(k, a, BytecodeCycle(k))
           /\ Fits(k, a, BytecodeAddressPhase(k))
  <1> DEFINE size == k.chunkVars
             m == BytecodeIntermediate
             final == BytecodeChunks(k)
             s == CyclePhase("BytecodeClaimReduction", k, size, BytecodeVals, m, final)
  <1>1. size \in Int /\ size > 0 /\ k.chunks \in Nat
    BY ConfigurationTyped
  <1>2. m \in Ids /\ Where(k, m) = Middle(k, size)
    <2>1. m \in Ids
      BY IdsTyped DEF BytecodeIntermediate, AllNames, Stages, PrecommittedStages
    <2>2. m.at = "BytecodeClaimReductionCyclePhase" /\ m.poly[2] = "BytecodeClaimReductionIntermediate"
      BY IdFields DEF BytecodeIntermediate
    <2> HIDE DEF m
    <2> QED  BY <2>1, <2>2, WhereReduced
  <1>3. final \in Seq(Ids) /\ \A i \in 1 .. Len(final) : Where(k, final[i]) = End(k, size)
    <2>1. "BytecodeChunk" \in AllNames /\ "BytecodeClaimReduction" \in Stages
      BY DEF AllNames, Stages, PrecommittedStages
    <2>2. /\ final \in Seq(Ids) /\ Len(final) = k.chunks
          /\ \A i \in 1 .. k.chunks : final[i] = CNth("BytecodeChunk", i - 1, "BytecodeClaimReduction")
      BY <1>1, <2>1, EachTyped DEF BytecodeChunks
    <2>3. \A i \in 1 .. Len(final) : final[i].at = "BytecodeClaimReduction" /\ final[i].poly[2] = "BytecodeChunk"
      BY <2>2, IdFields
    <2> HIDE DEF final
    <2> QED  BY <2>2, <2>3, WhereReduced
  <1>4. BytecodeVals[1].at \notin PrecommittedStages
    BY AddressIds DEF PrecommittedStages
  <1>5. ASSUME Complete(k, 9, a) PROVE Meets(k, a, ToSet(BytecodeVals), "address")
    <2>1. \A i \in 1 .. 5 : Has(a, BytecodeVals[i]) /\ Where(k, BytecodeVals[i])["address"] = BytecodeAddress
      <3> TAKE i \in 1 .. 5
      <3>1. Has(a, BytecodeVals[i])
        BY <1>5, AddressIds DEF Complete, Knows
      <3>2. Where(k, BytecodeVals[i]) = Point(BytecodeAddress, <<>>)
        BY AddressIds, WhereBytecodeAddress
      <3> QED  BY <3>1, <3>2, PointIs
    <2>2. DOMAIN BytecodeVals = 1 .. 5
      BY AddressIds
    <2>3. MeetAt(k, a, BytecodeVals, "address", BytecodeAddress)
      BY <2>1, <2>2 DEF MeetAt
    <2> QED  BY <2>3, MeetAtMeets
  <1> HIDE DEF m, final, size
  <1>6. Complete(k, 9, a) => Fits(k, a, s)
    BY <1>1, <1>2, <1>3, <1>4, <1>5, FitsCyclePhase
  <1>7. /\ BytecodeCycle(k).opens = s.opens /\ BytecodeCycle(k).needs = s.needs
        /\ BytecodeCycle(k).alike = s.alike
    BY DEF BytecodeCycle, CyclePhase, Plain, m, final, size
  <1>8. Complete(k, 9, a) => Fits(k, a, BytecodeCycle(k))
    <2> HIDE DEF s
    <2> QED  BY <1>6, <1>7 DEF Fits
  <1>9. Fits(k, a, AddressPhase("BytecodeClaimReduction", k, size, m, final))
    BY <1>1, <1>3, FitsAddressPhase
  <1> QED  BY <1>8, <1>9 DEF BytecodeAddressPhase, m, final, size

(* The two phases of the reduction of the program image fit.                *)
LEMMA FitsImage ==
    ASSUME NEW k \in Wide, NEW a, Committed(k)
    PROVE  /\ Knows(a, ImageCycle(k).needs) => Fits(k, a, ImageCycle(k))
           /\ Fits(k, a, ImageAddress(k))
  <1> DEFINE size == k.image
             r == ImageContribution
             m == ProgramImage("ProgramImageClaimReductionCyclePhase")
             e == ProgramImage("ProgramImageClaimReduction")
             reads == <<r>>
             final == <<e>>
             name == "ProgramImageClaimReduction"
  <1>1. size \in Int /\ size > 0
    BY ConfigurationTyped
  <1>2. m \in Ids /\ e \in Ids
    BY IdsTyped DEF ProgramImage, AllNames, Stages, PrecommittedStages
  <1>3. /\ m.at = "ProgramImageClaimReductionCyclePhase" /\ m.poly[2] = "ProgramImageInit"
        /\ e.at = "ProgramImageClaimReduction" /\ e.poly[2] = "ProgramImageInit"
        /\ r.at = "RamValCheck"
    BY IdFields DEF ProgramImage, ImageContribution
  <1>4. /\ ImageCycle(k) = CyclePhase(name, k, size, reads, m, final)
        /\ ImageAddress(k) = AddressPhase(name, k, size, m, final)
    BY DEF ImageCycle, ImageAddress
  <1> HIDE DEF r, m, e, size
  <1>5. Where(k, m) = Middle(k, size) /\ Where(k, e) = End(k, size)
    BY <1>3, WhereReduced DEF size
  <1>6. final \in Seq(Ids) /\ \A i \in 1 .. Len(final) : Where(k, final[i]) = End(k, size)
    BY <1>2, <1>5
  <1>7. reads[1] = r /\ r.at \notin PrecommittedStages
    BY <1>3 DEF PrecommittedStages
  <1>8. CyclePhase(name, k, size, reads, m, final).needs = <<r>>
    BY <1>7 DEF CyclePhase, Plain
  <1>9. Has(a, r) => Meets(k, a, ToSet(reads), "address")
    BY MeetsOne
  <1> HIDE DEF reads, final, name
  <1>10. Has(a, r) => Fits(k, a, CyclePhase(name, k, size, reads, m, final))
    BY <1>1, <1>2, <1>5, <1>6, <1>7, <1>9, FitsCyclePhase
  <1>11. Knows(a, CyclePhase(name, k, size, reads, m, final).needs) => Has(a, r)
    BY <1>8 DEF Knows
  <1>12. Fits(k, a, AddressPhase(name, k, size, m, final))
    BY <1>1, <1>6, FitsAddressPhase
  <1> QED  BY <1>4, <1>10, <1>11, <1>12
-----------------------------------------------------------------------------
(* The chunks whose hamming weights are reduced, and the stages that left   *)
(* them.                                                                    *)
Virtualized ==
    CEach("InstructionRa", InstructionD, "InstructionRaVirtualization")
    \o CEach("BytecodeRa", BytecodeD, "BytecodeReadRaf")
    \o CEach("RamRa", RamD, "RamRaVirtualization")
HammingStages == {"Booleanity", "InstructionRaVirtualization", "BytecodeReadRaf", "RamRaVirtualization"}

(* The chunks that are reduced were left by stage 6.                        *)
LEMMA VirtualizedTyped ==
    Virtualized \in Seq(Ids) /\ \A i \in 1 .. Len(Virtualized) : Virtualized[i].at \in HammingStages
  <1> DEFINE x == CEach("InstructionRa", InstructionD, "InstructionRaVirtualization")
             y == CEach("BytecodeRa", BytecodeD, "BytecodeReadRaf")
             z == CEach("RamRa", RamD, "RamRaVirtualization")
             Others == {id \in Ids : id.at \in HammingStages}
  <1>1. /\ "InstructionRa" \in AllNames /\ "BytecodeRa" \in AllNames /\ "RamRa" \in AllNames
        /\ "InstructionRaVirtualization" \in Stages /\ "BytecodeReadRaf" \in Stages
        /\ "RamRaVirtualization" \in Stages
    BY DEF AllNames, Stages, LookupStages, RamStages
  <1>2. InstructionD \in Nat /\ BytecodeD \in Nat /\ RamD \in Nat
    BY CountAssumption
  <1>3. /\ x \in Seq(Ids) /\ Len(x) = InstructionD
        /\ \A i \in 1 .. InstructionD : x[i] = CNth("InstructionRa", i - 1, "InstructionRaVirtualization")
    BY <1>1, <1>2, EachTyped
  <1>4. /\ y \in Seq(Ids) /\ Len(y) = BytecodeD
        /\ \A i \in 1 .. BytecodeD : y[i] = CNth("BytecodeRa", i - 1, "BytecodeReadRaf")
    BY <1>1, <1>2, EachTyped
  <1>5. /\ z \in Seq(Ids) /\ Len(z) = RamD
        /\ \A i \in 1 .. RamD : z[i] = CNth("RamRa", i - 1, "RamRaVirtualization")
    BY <1>1, <1>2, EachTyped
  <1>6. /\ \A i \in 1 .. Len(x) : x[i].at \in HammingStages
        /\ \A i \in 1 .. Len(y) : y[i].at \in HammingStages
        /\ \A i \in 1 .. Len(z) : z[i].at \in HammingStages
    BY <1>3, <1>4, <1>5, IdFields DEF HammingStages
  <1>7. Virtualized = (x \o y) \o z
    BY DEF Virtualized
  <1> HIDE DEF x, y, z
  <1>8. x \in Seq(Others) /\ y \in Seq(Others) /\ z \in Seq(Others)
    <2>1. ASSUME NEW w \in Seq(Ids), \A i \in 1 .. Len(w) : w[i].at \in HammingStages
          PROVE  w \in Seq(Others)
      BY <2>1
    <2> HIDE DEF Others
    <2>2. x \in Seq(Others)
      BY <1>3, <1>6, <2>1
    <2>3. y \in Seq(Others)
      BY <1>4, <1>6, <2>1
    <2>4. z \in Seq(Others)
      BY <1>5, <1>6, <2>1
    <2> QED  BY <2>2, <2>3, <2>4
  <1>9. Virtualized \in Seq(Others)
    <2> HIDE DEF Others
    <2> QED  BY <1>7, <1>8
  <1> QED  BY <1>9

(* What stage 6 left is at the cycles of stage 6.                           *)
LEMMA HammingRounds ==
    ASSUME NEW k, NEW id, id.at \in HammingStages
    PROVE  Where(k, id)["cycle"] = LastCycleRounds6(k)
  <1>1. \E q : Where(k, id) = Point(q, LastCycleRounds6(k))
    BY WhereBooleanity, WhereInstructionRa, WhereBytecode, WhereRamChunk DEF HammingStages
  <1> QED  BY <1>1, PointIs

(* The hamming weight's reduction fits: all the chunks it folds are at one  *)
(* cycle point.                                                             *)
LEMMA FitsHammingWeight ==
    ASSUME NEW k, NEW a, Sound(k, a), Complete(k, 10, a), Knows(a, HammingWeight(k, a).needs)
    PROVE  Fits(k, a, HammingWeight(k, a))
  <1> DEFINE s == HammingWeight(k, a)
             booleanity == OneHot("Booleanity")
             weight == V("RamHammingWeight", "RamHammingBooleanity")
             ids == OneHot("HammingWeightClaimReduction")
             one == <<weight>>
  <1>1. /\ s.opens = Open(ids, Point(NativeAddress(Shape(k)), PointOf(a, booleanity[1]).cycle))
        /\ s.needs = booleanity \o Virtualized
        /\ s.alike = <<Alike("cycle", (booleanity \o Virtualized) \o one), Alike("address", booleanity)>>
    BY DEF HammingWeight, Plain, Virtualized
  <1>2. /\ booleanity \in Seq(Ids) /\ Len(booleanity) >= 1
        /\ \A i \in 1 .. Len(booleanity) : booleanity[i].at = "Booleanity"
    BY OneHotTyped DEF Stages, LookupStages
  <1>3. ids \in Seq(Ids) /\ \A i \in 1 .. Len(ids) : ids[i].at = "HammingWeightClaimReduction"
    BY OneHotTyped DEF Stages, LookupStages
  <1>4. weight \in Ids /\ Has(a, weight) /\ Where(k, weight) = Point(<<>>, LastCycleRounds6(k))
    <2>1. weight \in Ids
      BY IdsTyped DEF AllNames, Stages, RamStages
    <2>2. Has(a, weight)
      BY DEF Complete, KnowsNames
    <2>3. weight.at = "RamHammingBooleanity"
      BY IdFields
    <2> HIDE DEF weight
    <2> QED  BY <2>1, <2>2, <2>3, WhereWeight
  <1> HIDE DEF booleanity, weight, ids
  <1> DEFINE all == booleanity \o Virtualized
  <1>5. all \in Seq(Ids) /\ \A i \in 1 .. Len(all) : all[i].at \in HammingStages
    <2> DEFINE Others == {id \in Ids : id.at \in HammingStages}
    <2>1. booleanity \in Seq(Others)
      BY <1>2 DEF HammingStages
    <2>2. Virtualized \in Seq(Others)
      BY VirtualizedTyped
    <2>3. all \in Seq(Others)
      <3> HIDE DEF Others
      <3> QED  BY <2>1, <2>2
    <2> HIDE DEF all
    <2> QED  BY <2>3
  <1>6. /\ booleanity[1] \in Ids /\ all[1] = booleanity[1] /\ 1 \in DOMAIN all
        /\ \A i \in 1 .. Len(booleanity) : i \in DOMAIN all /\ all[i] = booleanity[i]
    BY <1>2, VirtualizedTyped
  <1> HIDE DEF all
  <1>7. \A i \in DOMAIN all : Has(a, all[i])
    BY <1>1 DEF Knows, all
  <1>8. PointOf(a, booleanity[1]).cycle = LastCycleRounds6(k)
    <2>1. Has(a, booleanity[1]) /\ booleanity[1].at = "Booleanity"
      BY <1>2, <1>6, <1>7
    <2>2. Where(k, booleanity[1]) = Point(BooleanityAddress6(k), LastCycleRounds6(k))
      BY <2>1, WhereBooleanity
    <2> QED  BY <2>1, <2>2, SoundKnows, PointIs
  <1>9. \A i \in 1 .. Len(ids) : Where(k, ids[i]) = Point(NativeAddress(Shape(k)), LastCycleRounds6(k))
    BY <1>3, WhereHamming
  <1>10. s.opens \in Seq(Openings(k))
    BY <1>1, <1>3, <1>8, <1>9, OpenPlaced
  <1>11. \A i \in DOMAIN s.needs : s.needs[i].at \notin PrecommittedStages
    <2>1. s.needs = all
      BY <1>1 DEF all
    <2>2. \A i \in DOMAIN all : all[i].at \in HammingStages
      BY <1>5
    <2> HIDE DEF s
    <2> QED  BY <2>1, <2>2 DEF HammingStages, PrecommittedStages
  <1>12. MeetAt(k, a, all \o one, "cycle", LastCycleRounds6(k))
    <2>1. MeetAt(k, a, all, "cycle", LastCycleRounds6(k))
      BY <1>5, <1>7, HammingRounds DEF MeetAt
    <2>2. one \in Seq(Ids) /\ MeetAt(k, a, one, "cycle", LastCycleRounds6(k))
      BY <1>4, PointIs DEF MeetAt
    <2> HIDE DEF one
    <2> QED  BY <1>5, <2>1, <2>2, MeetAtConcat
  <1>13. MeetAt(k, a, booleanity, "address", BooleanityAddress6(k))
    <2>1. ASSUME NEW i \in 1 .. Len(booleanity)
          PROVE  Where(k, booleanity[i])["address"] = BooleanityAddress6(k)
      <3>1. Where(k, booleanity[i]) = Point(BooleanityAddress6(k), LastCycleRounds6(k))
        BY <1>2, WhereBooleanity
      <3> QED  BY <3>1, PointIs
    <2>2. DOMAIN booleanity = 1 .. Len(booleanity)
      BY <1>2
    <2>3. \A i \in 1 .. Len(booleanity) : Has(a, booleanity[i])
      BY <1>6, <1>7
    <2> QED  BY <2>1, <2>2, <2>3 DEF MeetAt
  <1>14. \A i \in DOMAIN s.alike : Meets(k, a, s.alike[i].ids, s.alike[i].part)
    <2>1. Meets(k, a, ToSet(all \o one), "cycle") /\ Meets(k, a, ToSet(booleanity), "address")
      BY <1>12, <1>13, MeetAtMeets
    <2>2. s.alike = <<Alike("cycle", all \o one), Alike("address", booleanity)>>
      BY <1>1 DEF all
    <2> HIDE DEF s, one
    <2> QED  BY <2>1, <2>2, AlikeIs
  <1> QED  BY <1>10, <1>11, <1>14 DEF Fits
(***************************************************************************)
(* The batches                                                              *)
(***************************************************************************)
(* What is flattened has every element.                                     *)
LEMMA FlattenHolds ==
    ASSUME NEW S, NEW ss \in Seq(Seq(S))
    PROVE  \A i \in 1 .. Len(ss) : \A j \in 1 .. Len(ss[i]) :
              \E m \in 1 .. Len(FlattenSeq(ss)) : FlattenSeq(ss)[m] = ss[i][j]
  <1>1. PICK f : Flattens(f, ss, S)
    BY FlattenIterates
  <1> DEFINE N == Len(ss)
             Good == {n \in 0 .. N : \A i \in 1 .. n : \A j \in 1 .. Len(ss[i]) :
                         \E m \in 1 .. Len(f[n]) : f[n][m] = ss[i][j]}
  <1>2. N \in Nat /\ \A i \in 1 .. N : ss[i] \in Seq(S)
    OBVIOUS
  <1>3. /\ f \in [0 .. N -> Seq(S)] /\ f[N] = FlattenSeq(ss)
        /\ \A n \in 1 .. N : f[n] = Cat(f[n - 1], ss[n])
    BY <1>1 DEF Flattens
  <1>4. 0 \in Good
    BY <1>2
  <1>5. ASSUME NEW n \in 0 .. N - 1, n \in Good PROVE n + 1 \in Good
    <2> DEFINE s == f[n]
               t == ss[n + 1]
               u == f[n + 1]
    <2>1. n \in 0 .. N /\ n + 1 \in 1 .. N /\ n + 1 \in 0 .. N /\ (n + 1) - 1 = n
      BY <1>2
    <2>2. s \in Seq(S) /\ t \in Seq(S) /\ Joined(u, s, t)
      BY <1>2, <1>3, <2>1 DEF Joined, Cat
    <2>3. \A i \in 1 .. n : \A j \in 1 .. Len(ss[i]) : \E m \in 1 .. Len(s) : s[m] = ss[i][j]
      BY <1>5
    <2> HIDE DEF s, t, u
    <2>4. /\ Len(u) = Len(s) + Len(t)
          /\ \A m \in 1 .. Len(s) : u[m] = s[m]
          /\ \A m \in 1 .. Len(t) : u[Len(s) + m] = t[m]
      BY <2>2, ConcatTyped
    <2>5. Len(s) \in Nat /\ Len(t) \in Nat
      BY <2>2
    <2>6. ASSUME NEW i \in 1 .. n + 1, NEW j \in 1 .. Len(ss[i])
          PROVE  \E m \in 1 .. Len(u) : u[m] = ss[i][j]
      <3>1. CASE i = n + 1
        <4>1. j \in 1 .. Len(t) /\ t[j] = ss[i][j]
          BY <3>1 DEF t
        <4>2. Len(s) + j \in 1 .. Len(u) /\ u[Len(s) + j] = ss[i][j]
          BY <2>4, <2>5, <4>1
        <4> QED  BY <4>2
      <3>2. CASE i # n + 1
        <4>1. i \in 1 .. n
          BY <2>1, <3>2
        <4>2. PICK m \in 1 .. Len(s) : s[m] = ss[i][j]
          BY <2>3, <4>1
        <4>3. m \in 1 .. Len(u) /\ u[m] = ss[i][j]
          BY <2>4, <2>5, <4>2
        <4> QED  BY <4>3
      <3> QED  BY <3>1, <3>2
    <2> QED  BY <2>1, <2>6 DEF u
  <1>6. 0 .. N \subseteq Good
    <2> HIDE DEF Good, N
    <2> QED  BY <1>2, <1>4, <1>5, IntervalInduction
  <1>7. N \in Good
    <2> HIDE DEF Good, N
    <2>1. N \in 0 .. N
      BY <1>2
    <2> QED  BY <2>1, <1>6
  <1>8. \A i \in 1 .. N : \A j \in 1 .. Len(ss[i]) : \E m \in 1 .. Len(f[N]) : f[N][m] = ss[i][j]
    BY <1>7, Zenon
  <1> SUFFICES ASSUME NEW i \in 1 .. N, NEW j \in 1 .. Len(ss[i])
               PROVE  \E m \in 1 .. Len(FlattenSeq(ss)) : FlattenSeq(ss)[m] = ss[i][j]
    OBVIOUS
  <1>9. PICK m \in 1 .. Len(f[N]) : f[N][m] = ss[i][j]
    BY <1>8, Zenon
  <1>10. f[N] = FlattenSeq(ss)
    BY <1>3
  <1> HIDE DEF N, Good
  <1> QED  BY <1>9, <1>10

(* The sumchecks of a batch, as a set                                       *)
SetOf6b(k, a) ==
    {BytecodeReadRafCycle(k, a), BooleanityCycle(k, a), HammingBooleanity(k), RamRaVirtual(k, a),
     InstructionRaVirtual(k), IncClaimReduction(k)}
    \cup (IF k.trusted # Absent THEN {AdviceCycle(k, "TrustedAdvice", k.trusted)} ELSE {})
    \cup (IF k.untrusted # Absent THEN {AdviceCycle(k, "UntrustedAdvice", k.untrusted)} ELSE {})
    \cup (IF Committed(k) THEN {BytecodeCycle(k), ImageCycle(k)} ELSE {})
SetOf7(k, a) ==
    {HammingWeight(k, a)}
    \cup (IF k.trusted # Absent THEN {AdviceAddress(k, "TrustedAdvice", k.trusted)} ELSE {})
    \cup (IF k.untrusted # Absent THEN {AdviceAddress(k, "UntrustedAdvice", k.untrusted)} ELSE {})
    \cup (IF Committed(k) THEN {BytecodeAddressPhase(k), ImageAddress(k)} ELSE {})

(* A part of a batch that may be absent is a sequence.                      *)
LEMMA PresentTyped ==
    ASSUME NEW S, NEW cond, NEW seq, cond => seq \in Seq(S)
    PROVE  Present(cond, seq) \in Seq(S)
  <1>1. CASE cond
    BY <1>1 DEF Present
  <1>2. CASE ~cond
    BY <1>2 DEF Present
  <1> QED  BY <1>1, <1>2

(* The batch of stage 6b consists of its sumchecks.                         *)
LEMMA Stage6bTyped ==
    ASSUME NEW k, NEW a
    PROVE  /\ Stage6b(k, a) \in Seq(SetOf6b(k, a))
           /\ 3 \in DOMAIN Stage6b(k, a) /\ Stage6b(k, a)[3] = HammingBooleanity(k)
  <1> DEFINE S == SetOf6b(k, a)
             base == <<BytecodeReadRafCycle(k, a), BooleanityCycle(k, a), HammingBooleanity(k), RamRaVirtual(k, a),
                       InstructionRaVirtual(k), IncClaimReduction(k)>>
             t == Present(k.trusted # Absent, <<AdviceCycle(k, "TrustedAdvice", k.trusted)>>)
             u == Present(k.untrusted # Absent, <<AdviceCycle(k, "UntrustedAdvice", k.untrusted)>>)
             p == Present(Committed(k), <<BytecodeCycle(k), ImageCycle(k)>>)
  <1>1. Stage6b(k, a) = ((base \o t) \o u) \o p
    BY DEF Stage6b
  <1>2. base \in Seq(S) /\ Len(base) = 6 /\ base[3] = HammingBooleanity(k)
    BY DEF SetOf6b
  <1>3. t \in Seq(S)
    <2>1. k.trusted # Absent => <<AdviceCycle(k, "TrustedAdvice", k.trusted)>> \in Seq(S)
      BY DEF SetOf6b
    <2> QED  BY <2>1, PresentTyped
  <1>4. u \in Seq(S)
    <2>1. k.untrusted # Absent => <<AdviceCycle(k, "UntrustedAdvice", k.untrusted)>> \in Seq(S)
      BY DEF SetOf6b
    <2> QED  BY <2>1, PresentTyped
  <1>5. p \in Seq(S)
    <2>1. Committed(k) => <<BytecodeCycle(k), ImageCycle(k)>> \in Seq(S)
      BY DEF SetOf6b
    <2> QED  BY <2>1, PresentTyped
  <1> HIDE DEF S, base, t, u, p
  <1> DEFINE v == base \o t
             w == v \o u
  <1>6. v \in Seq(S) /\ 3 \in 1 .. Len(v) /\ v[3] = base[3]
    <2>1. v \in Seq(S) /\ 3 \in 1 .. Len(base)
      BY <1>2, <1>3
    <2>2. base \in Seq(S)
      BY <1>2
    <2> QED  BY <2>1, <2>2, <1>3
  <1> HIDE DEF v
  <1>7. w \in Seq(S) /\ 3 \in 1 .. Len(w) /\ w[3] = v[3]
    BY <1>4, <1>6
  <1> HIDE DEF w
  <1>8. Stage6b(k, a) = w \o p
    BY <1>1 DEF v, w
  <1>9. w \o p \in Seq(S) /\ 3 \in DOMAIN (w \o p) /\ (w \o p)[3] = w[3]
    BY <1>5, <1>7
  <1> QED  BY <1>2, <1>6, <1>7, <1>8, <1>9 DEF S

(* The batch of stage 7 consists of its sumchecks.                          *)
LEMMA Stage7Typed ==
    ASSUME NEW k, NEW a
    PROVE  Stage7(k, a) \in Seq(SetOf7(k, a))
  <1> DEFINE S == SetOf7(k, a)
             base == <<HammingWeight(k, a)>>
             t == Present(k.trusted # Absent /\ TwoPhases(k, k.trusted), <<AdviceAddress(k, "TrustedAdvice", k.trusted)>>)
             u == Present(k.untrusted # Absent /\ TwoPhases(k, k.untrusted),
                          <<AdviceAddress(k, "UntrustedAdvice", k.untrusted)>>)
             p == Present(Committed(k) /\ TwoPhases(k, k.chunkVars), <<BytecodeAddressPhase(k)>>)
             q == Present(Committed(k) /\ TwoPhases(k, k.image), <<ImageAddress(k)>>)
  <1>1. Stage7(k, a) = (((base \o t) \o u) \o p) \o q
    BY DEF Stage7
  <1>2. base \in Seq(S)
    BY DEF SetOf7
  <1>3. t \in Seq(S)
    <2>1. k.trusted # Absent => <<AdviceAddress(k, "TrustedAdvice", k.trusted)>> \in Seq(S)
      BY DEF SetOf7
    <2> QED  BY <2>1, PresentTyped
  <1>4. u \in Seq(S)
    <2>1. k.untrusted # Absent => <<AdviceAddress(k, "UntrustedAdvice", k.untrusted)>> \in Seq(S)
      BY DEF SetOf7
    <2> QED  BY <2>1, PresentTyped
  <1>5. p \in Seq(S)
    <2>1. Committed(k) => <<BytecodeAddressPhase(k)>> \in Seq(S)
      BY DEF SetOf7
    <2> QED  BY <2>1, PresentTyped
  <1>6. q \in Seq(S)
    <2>1. Committed(k) => <<ImageAddress(k)>> \in Seq(S)
      BY DEF SetOf7
    <2> QED  BY <2>1, PresentTyped
  <1> HIDE DEF S, base, t, u, p, q
  <1> QED  BY <1>1, <1>2, <1>3, <1>4, <1>5, <1>6 DEF S

(* All the sumchecks of a batch fit, and what they start from is known.     *)
AllFit(k, a, ss) ==
    /\ Len(ss) \in Nat /\ DOMAIN ss = 1 .. Len(ss)
    /\ \A i \in DOMAIN ss : Fits(k, a, ss[i])
NeedsKnown(a, ss) == \A i \in DOMAIN ss : Knows(a, ss[i].needs)

(* A batch fits when each of its sumchecks does.                            *)
LEMMA SetFits ==
    ASSUME NEW k, NEW a, NEW S, NEW ss \in Seq(S), NeedsKnown(a, ss),
           \A s \in S : Knows(a, s.needs) => Fits(k, a, s)
    PROVE  AllFit(k, a, ss)
  <1>1. Len(ss) \in Nat /\ DOMAIN ss = 1 .. Len(ss) /\ \A i \in DOMAIN ss : ss[i] \in S
    OBVIOUS
  <1> QED  BY <1>1 DEF AllFit, NeedsKnown

(* The batch of stage 6b fits.                                              *)
LEMMA Stage6bFits ==
    ASSUME NEW k \in Wide, NEW a, Sound(k, a), Complete(k, 9, a), NeedsKnown(a, Stage6b(k, a))
    PROVE  AllFit(k, a, Stage6b(k, a))
  <1> DEFINE Good(s) == Knows(a, s.needs) => Fits(k, a, s)
  <1>1. /\ Good(BytecodeReadRafCycle(k, a)) /\ Good(BooleanityCycle(k, a)) /\ Good(HammingBooleanity(k))
        /\ Good(RamRaVirtual(k, a)) /\ Good(InstructionRaVirtual(k)) /\ Good(IncClaimReduction(k))
    BY FitsBytecodeReadRafCycle, FitsBooleanityCycle, FitsHammingBooleanity, FitsRamRaVirtual,
       FitsInstructionRaVirtual, FitsIncClaimReduction
  <1>2. k.trusted \in Int /\ k.untrusted \in Int
        /\ (k.trusted # Absent => k.trusted > 0) /\ (k.untrusted # Absent => k.untrusted > 0)
    BY ConfigurationTyped
  <1>3. AdviceOf(k, "TrustedAdvice") = k.trusted /\ AdviceOf(k, "UntrustedAdvice") = k.untrusted
    BY DEF AdviceOf
  <1>4. k.trusted # Absent => Good(AdviceCycle(k, "TrustedAdvice", k.trusted))
    BY <1>2, <1>3, FitsAdvice
  <1>5. k.untrusted # Absent => Good(AdviceCycle(k, "UntrustedAdvice", k.untrusted))
    BY <1>2, <1>3, FitsAdvice
  <1>6. Committed(k) => Good(BytecodeCycle(k)) /\ Good(ImageCycle(k))
    BY FitsBytecodeReduction, FitsImage
  <1>7. \A s \in SetOf6b(k, a) : Good(s)
    <2> HIDE DEF Good
    <2> QED  BY <1>1, <1>4, <1>5, <1>6 DEF SetOf6b
  <1>8. Stage6b(k, a) \in Seq(SetOf6b(k, a))
    BY Stage6bTyped
  <1> QED  BY <1>7, <1>8, SetFits

(* The batch of stage 7 fits.                                               *)
LEMMA Stage7Fits ==
    ASSUME NEW k \in Wide, NEW a, Sound(k, a), Complete(k, 10, a), NeedsKnown(a, Stage7(k, a))
    PROVE  AllFit(k, a, Stage7(k, a))
  <1> DEFINE Good(s) == Knows(a, s.needs) => Fits(k, a, s)
  <1>1. Good(HammingWeight(k, a))
    BY FitsHammingWeight
  <1>2. k.trusted \in Int /\ k.untrusted \in Int
        /\ (k.trusted # Absent => k.trusted > 0) /\ (k.untrusted # Absent => k.untrusted > 0)
    BY ConfigurationTyped
  <1>3. AdviceOf(k, "TrustedAdvice") = k.trusted /\ AdviceOf(k, "UntrustedAdvice") = k.untrusted
    BY DEF AdviceOf
  <1>4. k.trusted # Absent => Good(AdviceAddress(k, "TrustedAdvice", k.trusted))
    BY <1>2, <1>3, FitsAdvice
  <1>5. k.untrusted # Absent => Good(AdviceAddress(k, "UntrustedAdvice", k.untrusted))
    BY <1>2, <1>3, FitsAdvice
  <1>6. Committed(k) => Good(BytecodeAddressPhase(k)) /\ Good(ImageAddress(k))
    BY FitsBytecodeReduction, FitsImage
  <1>7. \A s \in SetOf7(k, a) : Good(s)
    <2> HIDE DEF Good
    <2> QED  BY <1>1, <1>4, <1>5, <1>6 DEF SetOf7
  <1>8. Stage7(k, a) \in Seq(SetOf7(k, a))
    BY Stage7Typed
  <1> QED  BY <1>7, <1>8, SetFits

(* The sumchecks of each batch.                                             *)
LEMMA BatchIs ==
    ASSUME NEW k, NEW a
    PROVE  /\ Sumchecks(k, 1, a) = <<OuterUniSkip>>
           /\ Sumchecks(k, 2, a) = <<OuterRemaining>>
           /\ Sumchecks(k, 3, a) = <<ProductUniSkip>>
           /\ Sumchecks(k, 4, a) = <<RamReadWriteChecking, ProductRemainder, InstructionClaimReduction,
                                     RamRafEvaluation(a), RamOutputCheck>>
           /\ Sumchecks(k, 5, a) = <<SpartanShift, InstructionInputVirtualization, RegistersClaimReduction>>
           /\ Sumchecks(k, 6, a) = <<RegistersReadWriteChecking, RamValCheck(k, a)>>
           /\ Sumchecks(k, 7, a) = <<InstructionReadRaf, RamRaClaimReduction(a), RegistersValEvaluation(a)>>
           /\ Sumchecks(k, 8, a) = <<BytecodeReadRafAddress(k), BooleanityAddress(k)>>
           /\ Sumchecks(k, 9, a) = Stage6b(k, a)
           /\ Sumchecks(k, 10, a) = Stage7(k, a)
  BY DEF Sumchecks

(* A batch of one sumcheck fits when that one does.                         *)
LEMMA OneFits ==
    ASSUME NEW k, NEW a, NEW x, Knows(a, x.needs) => Fits(k, a, x), NeedsKnown(a, <<x>>)
    PROVE  AllFit(k, a, <<x>>)
  BY DEF AllFit, NeedsKnown

(* A batch of two sumchecks fits when both do.                              *)
LEMMA TwoFit ==
    ASSUME NEW k, NEW a, NEW x, NEW y, Knows(a, x.needs) => Fits(k, a, x), Knows(a, y.needs) => Fits(k, a, y),
           NeedsKnown(a, <<x, y>>)
    PROVE  AllFit(k, a, <<x, y>>)
  BY DEF AllFit, NeedsKnown

(* A batch of three sumchecks fits when all do.                             *)
LEMMA ThreeFit ==
    ASSUME NEW k, NEW a, NEW x, NEW y, NEW z, Knows(a, x.needs) => Fits(k, a, x),
           Knows(a, y.needs) => Fits(k, a, y), Knows(a, z.needs) => Fits(k, a, z),
           NeedsKnown(a, <<x, y, z>>)
    PROVE  AllFit(k, a, <<x, y, z>>)
  BY DEF AllFit, NeedsKnown

(* A batch of five sumchecks fits when all do.                              *)
LEMMA FiveFit ==
    ASSUME NEW k, NEW a, NEW x, NEW y, NEW z, NEW v, NEW w, Knows(a, x.needs) => Fits(k, a, x),
           Knows(a, y.needs) => Fits(k, a, y), Knows(a, z.needs) => Fits(k, a, z),
           Knows(a, v.needs) => Fits(k, a, v), Knows(a, w.needs) => Fits(k, a, w),
           NeedsKnown(a, <<x, y, z, v, w>>)
    PROVE  AllFit(k, a, <<x, y, z, v, w>>)
  BY DEF AllFit, NeedsKnown

(* Every batch fits a sound accumulator that knows what the earlier ones    *)
(* left.                                                                    *)
LEMMA BatchFits ==
    ASSUME NEW k \in Wide, NEW a, Sound(k, a), NEW b \in 1 .. 10, Complete(k, b, a),
           NeedsKnown(a, Sumchecks(k, b, a))
    PROVE  AllFit(k, a, Sumchecks(k, b, a))
  <1>0. \A e \in 1 .. b : Complete(k, e, a)
    BY CompleteBefore
  <1>1. CASE b = 1
    <2>1. Sumchecks(k, 1, a) = <<OuterUniSkip>>
      BY BatchIs
    <2>2. NeedsKnown(a, Sumchecks(k, 1, a))
      BY <1>1
    <2>4. Knows(a, OuterUniSkip.needs) => Fits(k, a, OuterUniSkip)
      BY FitsOuterUniSkip
    <2>5. AllFit(k, a, Sumchecks(k, 1, a))
      BY <2>1, <2>2, <2>4, OneFits
    <2> QED  BY <1>1, <2>5
  <1>2. CASE b = 2
    <2>1. Sumchecks(k, 2, a) = <<OuterRemaining>>
      BY BatchIs
    <2>2. NeedsKnown(a, Sumchecks(k, 2, a))
      BY <1>2
    <2>4. Knows(a, OuterRemaining.needs) => Fits(k, a, OuterRemaining)
      BY FitsOuterRemaining
    <2>5. AllFit(k, a, Sumchecks(k, 2, a))
      BY <2>1, <2>2, <2>4, OneFits
    <2> QED  BY <1>2, <2>5
  <1>3. CASE b = 3
    <2>1. Sumchecks(k, 3, a) = <<ProductUniSkip>>
      BY BatchIs
    <2>2. NeedsKnown(a, Sumchecks(k, 3, a))
      BY <1>3
    <2>4. Knows(a, ProductUniSkip.needs) => Fits(k, a, ProductUniSkip)
      BY FitsProductUniSkip
    <2>5. AllFit(k, a, Sumchecks(k, 3, a))
      BY <2>1, <2>2, <2>4, OneFits
    <2> QED  BY <1>3, <2>5
  <1>4. CASE b = 4
    <2>1. Sumchecks(k, 4, a) = <<RamReadWriteChecking, ProductRemainder, InstructionClaimReduction,
                              RamRafEvaluation(a), RamOutputCheck>>
      BY BatchIs
    <2>2. NeedsKnown(a, Sumchecks(k, 4, a))
      BY <1>4
    <2>3. Complete(k, 3, a)
      BY <1>0, <1>4
    <2>4. /\ Knows(a, RamReadWriteChecking.needs) => Fits(k, a, RamReadWriteChecking)
          /\ Knows(a, ProductRemainder.needs) => Fits(k, a, ProductRemainder)
          /\ Knows(a, InstructionClaimReduction.needs) => Fits(k, a, InstructionClaimReduction)
          /\ Knows(a, RamRafEvaluation(a).needs) => Fits(k, a, RamRafEvaluation(a))
          /\ Knows(a, RamOutputCheck.needs) => Fits(k, a, RamOutputCheck)
      BY <2>3, FitsRamReadWriteChecking, FitsProductRemainder, FitsInstructionClaimReduction,
         FitsRamRafEvaluation, FitsRamOutputCheck
    <2>5. AllFit(k, a, Sumchecks(k, 4, a))
      BY <2>1, <2>2, <2>4, FiveFit
    <2> QED  BY <1>4, <2>5
  <1>5. CASE b = 5
    <2>1. Sumchecks(k, 5, a) = <<SpartanShift, InstructionInputVirtualization, RegistersClaimReduction>>
      BY BatchIs
    <2>2. NeedsKnown(a, Sumchecks(k, 5, a))
      BY <1>5
    <2>3. Complete(k, 3, a) /\ Complete(k, 5, a)
      BY <1>0, <1>5
    <2>4. /\ Knows(a, SpartanShift.needs) => Fits(k, a, SpartanShift)
          /\ Knows(a, InstructionInputVirtualization.needs) => Fits(k, a, InstructionInputVirtualization)
          /\ Knows(a, RegistersClaimReduction.needs) => Fits(k, a, RegistersClaimReduction)
      BY <2>3, FitsSpartanShift, FitsInstructionInput, FitsRegistersClaimReduction
    <2>5. AllFit(k, a, Sumchecks(k, 5, a))
      BY <2>1, <2>2, <2>4, ThreeFit
    <2> QED  BY <1>5, <2>5
  <1>6. CASE b = 6
    <2>1. Sumchecks(k, 6, a) = <<RegistersReadWriteChecking, RamValCheck(k, a)>>
      BY BatchIs
    <2>2. NeedsKnown(a, Sumchecks(k, 6, a))
      BY <1>6
    <2>3. Complete(k, 6, a)
      BY <1>0, <1>6
    <2>4. /\ Knows(a, RegistersReadWriteChecking.needs) => Fits(k, a, RegistersReadWriteChecking)
          /\ Knows(a, RamValCheck(k, a).needs) => Fits(k, a, RamValCheck(k, a))
      BY <2>3, FitsRegistersReadWriteChecking, FitsRamValCheck
    <2>5. AllFit(k, a, Sumchecks(k, 6, a))
      BY <2>1, <2>2, <2>4, TwoFit
    <2> QED  BY <1>6, <2>5
  <1>7. CASE b = 7
    <2>1. Sumchecks(k, 7, a) = <<InstructionReadRaf, RamRaClaimReduction(a), RegistersValEvaluation(a)>>
      BY BatchIs
    <2>2. NeedsKnown(a, Sumchecks(k, 7, a))
      BY <1>7
    <2>3. Complete(k, 5, a)
      BY <1>0, <1>7
    <2>4. /\ Knows(a, InstructionReadRaf.needs) => Fits(k, a, InstructionReadRaf)
          /\ Knows(a, RamRaClaimReduction(a).needs) => Fits(k, a, RamRaClaimReduction(a))
          /\ Knows(a, RegistersValEvaluation(a).needs) => Fits(k, a, RegistersValEvaluation(a))
      BY <2>3, FitsInstructionReadRaf, FitsRamRaClaimReduction, FitsRegistersValEvaluation
    <2>5. AllFit(k, a, Sumchecks(k, 7, a))
      BY <2>1, <2>2, <2>4, ThreeFit
    <2> QED  BY <1>7, <2>5
  <1>8. CASE b = 8
    <2>1. Sumchecks(k, 8, a) = <<BytecodeReadRafAddress(k), BooleanityAddress(k)>>
      BY BatchIs
    <2>2. NeedsKnown(a, Sumchecks(k, 8, a))
      BY <1>8
    <2>3. Complete(k, 8, a)
      BY <1>0, <1>8
    <2>4. /\ Knows(a, BytecodeReadRafAddress(k).needs) => Fits(k, a, BytecodeReadRafAddress(k))
          /\ Knows(a, BooleanityAddress(k).needs) => Fits(k, a, BooleanityAddress(k))
      BY <2>3, FitsBytecodeReadRafAddress, FitsBooleanityAddress
    <2>5. AllFit(k, a, Sumchecks(k, 8, a))
      BY <2>1, <2>2, <2>4, TwoFit
    <2> QED  BY <1>8, <2>5
  <1>9. CASE b = 9
    <2>1. Sumchecks(k, 9, a) = Stage6b(k, a)
      BY BatchIs
    <2> QED  BY <1>9, <2>1, Stage6bFits
  <1>10. CASE b = 10
    <2>1. Sumchecks(k, 10, a) = Stage7(k, a)
      BY BatchIs
    <2> QED  BY <1>10, <2>1, Stage7Fits
  <1>11. b \in {1, 2, 3, 4, 5, 6, 7, 8, 9, 10}
    OBVIOUS
  <1> QED  BY <1>1, <1>2, <1>3, <1>4, <1>5, <1>6, <1>7, <1>8, <1>9, <1>10, <1>11

(* What a batch leaves is what its sumchecks leave, where the table says.   *)
LEMMA LeftPlaced ==
    ASSUME NEW k, NEW a, NEW ss, AllFit(k, a, ss)
    PROVE  /\ Left(ss) \in Seq(Openings(k))
           /\ \A i \in DOMAIN ss : \A j \in 1 .. Len(ss[i].opens) :
                 \E m \in 1 .. Len(Left(ss)) : Left(ss)[m] = ss[i].opens[j]
  <1> DEFINE S == Openings(k)
             lists == [i \in DOMAIN ss |-> ss[i].opens]
  <1>1. /\ Len(ss) \in Nat /\ DOMAIN ss = 1 .. Len(ss)
        /\ \A i \in DOMAIN ss : ss[i].opens \in Seq(S)
    BY DEF AllFit, Fits
  <1>2. lists \in Seq(Seq(S)) /\ Len(lists) = Len(ss) /\ \A i \in DOMAIN ss : lists[i] = ss[i].opens
    <2> HIDE DEF S
    <2> QED  BY <1>1
  <1>3. Left(ss) = FlattenSeq(lists)
    BY DEF Left
  <1> HIDE DEF S, lists
  <1>4. PICK f : Flattens(f, lists, S)
    BY <1>2, FlattenIterates
  <1>5. FlattenSeq(lists) \in Seq(S)
    BY <1>1, <1>2, <1>4 DEF Flattens
  <1>6. \A i \in 1 .. Len(lists) : \A j \in 1 .. Len(lists[i]) :
              \E m \in 1 .. Len(FlattenSeq(lists)) : FlattenSeq(lists)[m] = lists[i][j]
    BY <1>2, FlattenHolds
  <1>7. DOMAIN ss = 1 .. Len(lists) /\ \A i \in DOMAIN ss : lists[i] = ss[i].opens
    BY <1>1, <1>2
  <1>8. \A i \in DOMAIN ss : \A j \in 1 .. Len(ss[i].opens) :
           \E m \in 1 .. Len(FlattenSeq(lists)) : FlattenSeq(lists)[m] = ss[i].opens[j]
    BY <1>6, <1>7
  <1> QED  BY <1>3, <1>5, <1>8 DEF S

(* What a batch leaves is known.                                            *)
HasOpened(d, ss) == \A i \in DOMAIN ss : \A j \in 1 .. Len(ss[i].opens) : Has(d, ss[i].opens[j].id)

(* After a batch the accumulator is sound and has what its sumchecks left.  *)
LEMMA OpenedAll ==
    ASSUME NEW k, NEW a, Sound(k, a), NEW ss, AllFit(k, a, ss), ~Repeated("prover", a, Left(ss)),
           NEW d, d = AppendOpenings("prover", a, Left(ss))
    PROVE  Sound(k, d) /\ GrowsTo(a, d) /\ HasOpened(d, ss)
  <1>1. Left(ss) \in Seq(Openings(k))
    BY LeftPlaced
  <1> DEFINE N == Len(Left(ss))
  <1>2. N \in Nat /\ N \in 0 .. N
    BY <1>1
  <1>3. Sound(k, Appending("prover", a, Left(ss))[N]) /\ GrowsTo(a, Appending("prover", a, Left(ss))[N])
    BY <1>1, <1>2, ProverAppendsAll
  <1>4. \A m \in 1 .. N : Has(d, Left(ss)[m].id)
    BY <1>1, ProverAppendsAll
  <1>5. HasOpened(d, ss)
    BY <1>4, LeftPlaced DEF HasOpened
  <1> QED  BY <1>3, <1>5 DEF AppendOpenings
(* What a sumcheck leaves                                                   *)
Opens(s, id) == \E j \in 1 .. Len(s.opens) : s.opens[j].id = id
OpensAll(s, ids) == \A i \in 1 .. Len(ids) : Opens(s, ids[i])

(* What a sumcheck of a batch leaves is known after it.                     *)
LEMMA OpensHas ==
    ASSUME NEW d, NEW ss, HasOpened(d, ss), NEW i \in DOMAIN ss, NEW id, Opens(ss[i], id)
    PROVE  Has(d, id)
  BY DEF HasOpened, Opens

(* So is a list of names.                                                   *)
LEMMA OpensNames ==
    ASSUME NEW d, NEW s, NEW names \in Seq(AllNames), NEW at, OpensAll(s, Vs(names, at)),
           \A id : Opens(s, id) => Has(d, id)
    PROVE  KnowsNames(d, ToSet(names), at)
  <1>1. \A i \in 1 .. Len(names) : Vs(names, at)[i] = V(names[i], at)
    BY DEF Vs
  <1>2. Len(Vs(names, at)) = Len(names)
    BY DEF Vs
  <1>3. \A i \in 1 .. Len(names) : Has(d, V(names[i], at))
    BY <1>1, <1>2 DEF OpensAll
  <1>4. \A name \in ToSet(names) : \E i \in 1 .. Len(names) : name = names[i]
    BY DEF ToSet
  <1> QED  BY <1>3, <1>4 DEF KnowsNames
(* Openings that are all at a point                                         *)
LEMMA OpenIds ==
    ASSUME NEW ids \in Seq(Ids), NEW point
    PROVE  /\ Len(Open(ids, point)) = Len(ids) /\ DOMAIN Open(ids, point) = 1 .. Len(ids)
           /\ \A i \in 1 .. Len(ids) : Open(ids, point)[i].id = ids[i]
  BY DEF Open

(* A sumcheck that opens a list of names at one point opens each.           *)
LEMMA OpensJust ==
    ASSUME NEW s, NEW ids \in Seq(Ids), NEW point, s.opens = Open(ids, point)
    PROVE  OpensAll(s, ids)
  <1>1. Len(s.opens) = Len(ids) /\ \A i \in 1 .. Len(ids) : s.opens[i].id = ids[i]
    BY OpenIds
  <1> QED  BY <1>1 DEF OpensAll, Opens

(* A sumcheck that opens one list and another opens each of both.           *)
LEMMA OpensFirst ==
    ASSUME NEW S, NEW s, NEW first \in Seq(S), NEW more \in Seq(S), s.opens = first \o more
    PROVE  /\ \A j \in 1 .. Len(first) : Opens(s, first[j].id)
           /\ \A j \in 1 .. Len(more) : Opens(s, more[j].id)
  <1>1. PICK u : u = s.opens
    OBVIOUS
  <1>2. Joined(u, first, more)
    BY <1>1 DEF Joined
  <1>3. /\ Len(u) = Len(first) + Len(more)
        /\ \A i \in 1 .. Len(first) : u[i] = first[i]
        /\ \A i \in 1 .. Len(more) : u[Len(first) + i] = more[i]
    BY <1>2, ConcatTyped
  <1>4. Len(first) \in Nat /\ Len(more) \in Nat
    OBVIOUS
  <1>5. ASSUME NEW j \in 1 .. Len(first) PROVE Opens(s, first[j].id)
    <2>1. j \in 1 .. Len(u) /\ u[j].id = first[j].id
      BY <1>3, <1>4
    <2> QED  BY <1>1, <2>1 DEF Opens
  <1>6. ASSUME NEW j \in 1 .. Len(more) PROVE Opens(s, more[j].id)
    <2>1. Len(first) + j \in 1 .. Len(u) /\ u[Len(first) + j].id = more[j].id
      BY <1>3, <1>4
    <2> QED  BY <1>1, <2>1 DEF Opens
  <1> QED  BY <1>5, <1>6
(* What each of those that matter leaves                                    *)
LEMMA OuterOpens == OpensAll(OuterRemaining, Vs(R1csInputs, "SpartanOuter"))
  <1>1. OuterRemaining.opens = Open(Vs(R1csInputs, "SpartanOuter"), OuterPoint)
    BY DEF OuterRemaining, Plain, OuterPoint
  <1>2. Vs(R1csInputs, "SpartanOuter") \in Seq(Ids)
    BY R1csNames, AllOfThem, VsTyped DEF Stages, SpartanStages
  <1> QED  BY <1>1, <1>2, OpensJust

(* The product sumcheck opens all the factors.                              *)
LEMMA ProductOpens == OpensAll(ProductRemainder, Vs(ProductFactors, "SpartanProductVirtualization"))
  <1>1. ProductRemainder.opens
           = Open(Vs(ProductFactors, "SpartanProductVirtualization"), Point(<<>>, LastCycleRounds2))
    BY DEF ProductRemainder, Plain
  <1>2. Vs(ProductFactors, "SpartanProductVirtualization") \in Seq(Ids)
    BY OtherNames, AllOfThem, VsTyped DEF Stages, SpartanStages
  <1> QED  BY <1>1, <1>2, OpensJust

(* The instruction claim reduction opens all it reduces.                    *)
LEMMA InstructionOpens == OpensAll(InstructionClaimReduction, Vs(Lookup, "InstructionClaimReduction"))
  <1>1. InstructionClaimReduction.opens
           = Open(Vs(Lookup, "InstructionClaimReduction"), Point(<<>>, LastCycleRounds2))
    BY DEF InstructionClaimReduction, Plain
  <1>2. Vs(Lookup, "InstructionClaimReduction") \in Seq(Ids)
    BY OtherNames, AllOfThem, VsTyped DEF Stages, SpartanStages
  <1> QED  BY <1>1, <1>2, OpensJust

(* Stage 3 opens the lists of its three sumchecks.                          *)
LEMMA ThirdOpens ==
    /\ OpensAll(SpartanShift, Vs(Shifted, "SpartanShift"))
    /\ OpensAll(InstructionInputVirtualization, Vs(InputFlags, "InstructionInputVirtualization"))
    /\ OpensAll(RegistersClaimReduction, Vs(RegisterValues, "RegistersClaimReduction"))
  <1>1. /\ SpartanShift.opens = Open(Vs(Shifted, "SpartanShift"), Point3)
        /\ InstructionInputVirtualization.opens = Open(Vs(InputFlags, "InstructionInputVirtualization"), Point3)
        /\ RegistersClaimReduction.opens = Open(Vs(RegisterValues, "RegistersClaimReduction"), Point3)
    BY DEF SpartanShift, InstructionInputVirtualization, RegistersClaimReduction, Plain
  <1>2. /\ Vs(Shifted, "SpartanShift") \in Seq(Ids)
        /\ Vs(InputFlags, "InstructionInputVirtualization") \in Seq(Ids)
        /\ Vs(RegisterValues, "RegistersClaimReduction") \in Seq(Ids)
    BY OtherNames, AllOfThem, VsTyped DEF Stages, SpartanStages
  <1> QED  BY <1>1, <1>2, OpensJust

(* The memory's read-write check opens the memory's value.                  *)
LEMMA RamOpens == Opens(RamReadWriteChecking, RamValue)
  <1> DEFINE at == "RamReadWriteChecking"
             names == <<"RamVal", "RamRa">>
             first == Open(Vs(names, at), Point(RamAddressRounds, Fresh("ramcycle2")))
             second == Open(<<C("RamInc", at)>>, Point(<<>>, Fresh("ramcycle2")))
  <1>1. RamReadWriteChecking.opens = first \o second
    BY DEF RamReadWriteChecking, Plain, Point
  <1>2. Vs(names, at) = <<RamValue, V("RamRa", at)>>
    BY DEF Vs, RamValue
  <1>3. first = <<[id |-> RamValue, point |-> Point(RamAddressRounds, Fresh("ramcycle2"))],
                  [id |-> V("RamRa", at), point |-> Point(RamAddressRounds, Fresh("ramcycle2"))]>>
    BY <1>2 DEF Open
  <1>4. second = <<[id |-> C("RamInc", at), point |-> Point(<<>>, Fresh("ramcycle2"))]>>
    BY DEF Open
  <1> HIDE DEF first, second, names, at
  <1>5. Len(first \o second) >= 1 /\ (first \o second)[1].id = RamValue
    BY <1>3, <1>4
  <1> QED  BY <1>1, <1>5 DEF Opens

(* The registers' read-write check opens the registers' addresses.          *)
LEMMA RegistersOpen ==
    \A name \in {"Rs1Ra", "Rs2Ra", "RdWa"} :
       Opens(RegistersReadWriteChecking, V(name, "RegistersReadWriteChecking"))
  <1> DEFINE at == "RegistersReadWriteChecking"
             p == Point(Fresh("register4"), Fresh("registercycle4"))
             first == Open(Vs(<<"RegistersVal", "Rs1Ra", "Rs2Ra", "RdWa">>, at), p)
             second == Open(<<C("RdInc", at)>>, Point(<<>>, Fresh("registercycle4")))
  <1>1. RegistersReadWriteChecking.opens = first \o second
    BY DEF RegistersReadWriteChecking, Plain, Point
  <1>2. Vs(<<"RegistersVal", "Rs1Ra", "Rs2Ra", "RdWa">>, at)
           = <<V("RegistersVal", at), V("Rs1Ra", at), V("Rs2Ra", at), V("RdWa", at)>>
    BY DEF Vs
  <1>3. first = <<[id |-> V("RegistersVal", at), point |-> p], [id |-> V("Rs1Ra", at), point |-> p],
                  [id |-> V("Rs2Ra", at), point |-> p], [id |-> V("RdWa", at), point |-> p]>>
    BY <1>2 DEF Open
  <1>4. second = <<[id |-> C("RdInc", at), point |-> Point(<<>>, Fresh("registercycle4"))]>>
    BY DEF Open
  <1> HIDE DEF first, second, p
  <1>5. /\ Len(first \o second) >= 4 /\ (first \o second)[2].id = V("Rs1Ra", at)
        /\ (first \o second)[3].id = V("Rs2Ra", at) /\ (first \o second)[4].id = V("RdWa", at)
    BY <1>3, <1>4
  <1>6. Len(first \o second) \in Nat
    BY <1>3, <1>4
  <1> QED  BY <1>1, <1>5, <1>6 DEF Opens

(* The registers' value evaluation opens the address of the written one.    *)
LEMMA ValuesOpen == \A a : Opens(RegistersValEvaluation(a), V("RdWa", "RegistersValEvaluation"))
  <1> SUFFICES ASSUME NEW a PROVE Opens(RegistersValEvaluation(a), V("RdWa", "RegistersValEvaluation"))
    OBVIOUS
  <1> DEFINE at == "RegistersValEvaluation"
             p == Point(PointOf(a, V("RegistersVal", "RegistersReadWriteChecking")).address, Cycle5)
             first == Open(<<C("RdInc", at)>>, Point(<<>>, Cycle5))
             second == Open(<<V("RdWa", at)>>, p)
  <1>1. RegistersValEvaluation(a).opens = first \o second
    BY DEF RegistersValEvaluation, Plain
  <1>2. first = <<[id |-> C("RdInc", at), point |-> Point(<<>>, Cycle5)]>>
    BY DEF Open
  <1>3. second = <<[id |-> V("RdWa", at), point |-> p]>>
    BY DEF Open
  <1> HIDE DEF first, second, p
  <1>4. Len(first \o second) = 2 /\ (first \o second)[2].id = V("RdWa", at)
    BY <1>2, <1>3
  <1> QED  BY <1>1, <1>4 DEF Opens

(* The instruction lookups open the flags.                                  *)
LEMMA ReadRafOpens ==
    ASSUME NEW k
    PROVE  /\ OpensAll(InstructionReadRaf, VEach("LookupTableFlag", LookupTables, "InstructionReadRaf"))
           /\ Opens(InstructionReadRaf, V("InstructionRafFlag", "InstructionReadRaf"))
  <1> DEFINE first == Open(ReadRafFlags, Point(<<>>, Cycle5))
             third == Open(<<ReadRafFlag>>, Point(<<>>, Cycle5))
             s == InstructionReadRaf
  <1>1. /\ s.opens = (first \o ReadRafChunks) \o third
        /\ first \in Seq(Openings(k)) /\ ReadRafChunks \in Seq(Openings(k)) /\ third \in Seq(Openings(k))
        /\ ReadRafFlags \in Seq(Ids)
    BY ReadRafPlaced
  <1>2. Len(first) = Len(ReadRafFlags) /\ \A i \in 1 .. Len(ReadRafFlags) : first[i].id = ReadRafFlags[i]
    BY <1>1, OpenIds
  <1>3. Len(third) = 1 /\ third[1].id = ReadRafFlag
    BY DEF Open
  <1> HIDE DEF first, third, s
  <1> DEFINE both == first \o ReadRafChunks
  <1>4. both \in Seq(Openings(k))
    BY <1>1, Together
  <1>5. /\ Len(both) = Len(first) + Len(ReadRafChunks)
        /\ \A i \in 1 .. Len(first) : both[i] = first[i]
    BY <1>1, ConcatTyped DEF Joined
  <1> HIDE DEF both
  <1>6. s.opens = both \o third
    BY <1>1 DEF both
  <1>7. /\ \A j \in 1 .. Len(both) : Opens(s, both[j].id)
        /\ \A j \in 1 .. Len(third) : Opens(s, third[j].id)
    BY <1>1, <1>4, <1>6, OpensFirst
  <1>8. Len(first) \in Nat /\ Len(ReadRafChunks) \in Nat
    BY <1>1
  <1>9. \A i \in 1 .. Len(ReadRafFlags) : Opens(s, ReadRafFlags[i])
    <2> TAKE i \in 1 .. Len(ReadRafFlags)
    <2>1. i \in 1 .. Len(both) /\ both[i].id = ReadRafFlags[i]
      BY <1>2, <1>5, <1>8
    <2> QED  BY <1>7, <2>1
  <1>10. Opens(s, ReadRafFlag)
    <2>1. 1 \in 1 .. Len(third)
      BY <1>3
    <2> QED  BY <1>3, <1>7, <2>1
  <1> QED  BY <1>9, <1>10 DEF OpensAll, ReadRafFlags, ReadRafFlag, s

(* A committed bytecode's address phase opens the values of the five        *)
(* stages.                                                                  *)
LEMMA BytecodeOpens ==
    ASSUME NEW k, Committed(k)
    PROVE  OpensAll(BytecodeReadRafAddress(k), BytecodeVals)
  <1> DEFINE s == BytecodeReadRafAddress(k)
             one == <<AddressClaim>>
             ids == one \o BytecodeVals
  <1>1. s.opens = Open(ids, Point(BytecodeAddress, <<>>))
    BY DEF BytecodeReadRafAddress, Plain
  <1>2. BytecodeVals \in Seq(Ids) /\ one \in Seq(Ids)
    BY AddressIds
  <1>c. Len(one) = 1
    OBVIOUS
  <1> HIDE DEF one, s
  <1> HIDE DEF ids
  <1>a. Joined(ids, one, BytecodeVals)
    BY DEF Joined, ids
  <1>b. /\ ids \in Seq(Ids) /\ Len(ids) = Len(one) + Len(BytecodeVals)
        /\ \A i \in 1 .. Len(BytecodeVals) : ids[Len(one) + i] = BytecodeVals[i]
    BY <1>2, <1>a, ConcatTyped
  <1>3. ids \in Seq(Ids) /\ \A i \in 1 .. Len(BytecodeVals) : 1 + i \in 1 .. Len(ids) /\ ids[1 + i] = BytecodeVals[i]
    <2>1. Len(BytecodeVals) \in Nat
      BY <1>2
    <2> QED  BY <1>b, <1>c, <2>1
  <1>4. OpensAll(s, ids)
    BY <1>1, <1>3, OpensJust
  <1>5. \A i \in 1 .. Len(BytecodeVals) : Opens(s, BytecodeVals[i])
    BY <1>3, <1>4 DEF OpensAll
  <1> QED  BY <1>5 DEF OpensAll, s

(* The memory's hamming booleanity opens the hamming weight.                *)
LEMMA WeightOpens == \A k : Opens(HammingBooleanity(k), V("RamHammingWeight", "RamHammingBooleanity"))
  <1> SUFFICES ASSUME NEW k PROVE Opens(HammingBooleanity(k), V("RamHammingWeight", "RamHammingBooleanity"))
    OBVIOUS
  <1> DEFINE id == V("RamHammingWeight", "RamHammingBooleanity")
  <1>1. HammingBooleanity(k).opens = Open(<<id>>, Point(<<>>, LastCycleRounds6(k)))
    BY DEF HammingBooleanity, Plain
  <1>2. Open(<<id>>, Point(<<>>, LastCycleRounds6(k))) = <<[id |-> id, point |-> Point(<<>>, LastCycleRounds6(k))]>>
    BY DEF Open
  <1> HIDE DEF id
  <1>3. Len(HammingBooleanity(k).opens) = 1 /\ HammingBooleanity(k).opens[1].id = id
    BY <1>1, <1>2
  <1> QED  BY <1>3 DEF Opens, id

(* After a batch, what the next one needs is known.                         *)
LEMMA CompleteAfter ==
    ASSUME NEW k \in Wide, NEW a, NEW d, NEW b \in 1 .. 10, Sound(k, a), Sound(k, d), GrowsTo(a, d),
           Complete(k, b, a), HasOpened(d, Sumchecks(k, b, a))
    PROVE  Complete(k, b + 1, d)
  <1> DEFINE ss == Sumchecks(k, b, a)
  <1>0. Complete(k, b, d)
    BY CompleteOn
  <1>1. \A i \in DOMAIN ss : \A id : Opens(ss[i], id) => Has(d, id)
    BY OpensHas
  <1>2. b = 2 => KnowsNames(d, ToSet(R1csInputs), "SpartanOuter")
    <2> SUFFICES ASSUME b = 2 PROVE KnowsNames(d, ToSet(R1csInputs), "SpartanOuter")
      OBVIOUS
    <2>1. Sumchecks(k, 2, a) = <<OuterRemaining>>
      BY BatchIs
    <2>2. \A id : Opens(OuterRemaining, id) => Has(d, id)
      BY <1>1, <2>1
    <2>3. R1csInputs \in Seq(AllNames)
      BY R1csNames, AllOfThem
    <2> QED  BY <2>2, <2>3, OuterOpens, OpensNames
  <1>3. b = 4 => /\ KnowsNames(d, ToSet(ProductFactors), "SpartanProductVirtualization")
                 /\ KnowsNames(d, ToSet(Lookup), "InstructionClaimReduction")
                 /\ Has(d, RamValue)
    <2> HAVE b = 4
    <2>1. Sumchecks(k, 4, a) = <<RamReadWriteChecking, ProductRemainder, InstructionClaimReduction,
                                 RamRafEvaluation(a), RamOutputCheck>>
      BY BatchIs
    <2>2. /\ \A id : Opens(RamReadWriteChecking, id) => Has(d, id)
          /\ \A id : Opens(ProductRemainder, id) => Has(d, id)
          /\ \A id : Opens(InstructionClaimReduction, id) => Has(d, id)
      <3>1. 1 \in DOMAIN ss /\ 2 \in DOMAIN ss /\ 3 \in DOMAIN ss
        BY <2>1
      <3>2. ss[1] = RamReadWriteChecking /\ ss[2] = ProductRemainder /\ ss[3] = InstructionClaimReduction
        BY <2>1
      <3> QED  BY <1>1, <3>1, <3>2
    <2>3. ProductFactors \in Seq(AllNames) /\ Lookup \in Seq(AllNames)
      BY OtherNames, AllOfThem
    <2>4. KnowsNames(d, ToSet(ProductFactors), "SpartanProductVirtualization")
      BY <2>2, <2>3, ProductOpens, OpensNames
    <2>5. KnowsNames(d, ToSet(Lookup), "InstructionClaimReduction")
      BY <2>2, <2>3, InstructionOpens, OpensNames
    <2> QED  BY <2>2, <2>4, <2>5, RamOpens
  <1>4. b = 5 => /\ KnowsNames(d, ToSet(Shifted), "SpartanShift")
                 /\ KnowsNames(d, ToSet(InputFlags), "InstructionInputVirtualization")
                 /\ KnowsNames(d, ToSet(RegisterValues), "RegistersClaimReduction")
    <2> HAVE b = 5
    <2>1. Sumchecks(k, 5, a) = <<SpartanShift, InstructionInputVirtualization, RegistersClaimReduction>>
      BY BatchIs
    <2>2. /\ \A id : Opens(SpartanShift, id) => Has(d, id)
          /\ \A id : Opens(InstructionInputVirtualization, id) => Has(d, id)
          /\ \A id : Opens(RegistersClaimReduction, id) => Has(d, id)
      <3>1. 1 \in DOMAIN ss /\ 2 \in DOMAIN ss /\ 3 \in DOMAIN ss
        BY <2>1
      <3>2. ss[1] = SpartanShift /\ ss[2] = InstructionInputVirtualization /\ ss[3] = RegistersClaimReduction
        BY <2>1
      <3> QED  BY <1>1, <3>1, <3>2
    <2>3. Shifted \in Seq(AllNames) /\ InputFlags \in Seq(AllNames) /\ RegisterValues \in Seq(AllNames)
      BY OtherNames, AllOfThem
    <2>4. KnowsNames(d, ToSet(Shifted), "SpartanShift")
      BY <2>2, <2>3, ThirdOpens, OpensNames
    <2>5. KnowsNames(d, ToSet(InputFlags), "InstructionInputVirtualization")
      BY <2>2, <2>3, ThirdOpens, OpensNames
    <2>6. KnowsNames(d, ToSet(RegisterValues), "RegistersClaimReduction")
      BY <2>2, <2>3, ThirdOpens, OpensNames
    <2> QED  BY <2>4, <2>5, <2>6
  <1>5. b = 6 => KnowsNames(d, {"Rs1Ra", "Rs2Ra", "RdWa"}, "RegistersReadWriteChecking")
    <2> HAVE b = 6
    <2>1. Sumchecks(k, 6, a) = <<RegistersReadWriteChecking, RamValCheck(k, a)>>
      BY BatchIs
    <2>2. 1 \in DOMAIN ss /\ ss[1] = RegistersReadWriteChecking
      BY <2>1
    <2>3. \A id : Opens(RegistersReadWriteChecking, id) => Has(d, id)
      BY <1>1, <2>2
    <2> QED  BY <2>3, RegistersOpen DEF KnowsNames
  <1>6. b = 7 => /\ Knows(d, VEach("LookupTableFlag", LookupTables, "InstructionReadRaf"))
                 /\ KnowsNames(d, {"InstructionRafFlag"}, "InstructionReadRaf")
                 /\ KnowsNames(d, {"RdWa"}, "RegistersValEvaluation")
    <2> HAVE b = 7
    <2>1. Sumchecks(k, 7, a) = <<InstructionReadRaf, RamRaClaimReduction(a), RegistersValEvaluation(a)>>
      BY BatchIs
    <2>2. 1 \in DOMAIN ss /\ ss[1] = InstructionReadRaf /\ 3 \in DOMAIN ss /\ ss[3] = RegistersValEvaluation(a)
      BY <2>1
    <2>3. /\ \A id : Opens(InstructionReadRaf, id) => Has(d, id)
          /\ \A id : Opens(RegistersValEvaluation(a), id) => Has(d, id)
      BY <1>1, <2>2
    <2> DEFINE flags == VEach("LookupTableFlag", LookupTables, "InstructionReadRaf")
    <2>4. OpensAll(InstructionReadRaf, flags) /\ Opens(InstructionReadRaf, V("InstructionRafFlag", "InstructionReadRaf"))
      BY ReadRafOpens
    <2>5. DOMAIN flags = 1 .. Len(flags)
      <3>1. ReadRafFlags \in Seq(Ids)
        BY ReadRafPlaced
      <3> QED  BY <3>1 DEF ReadRafFlags
    <2> HIDE DEF flags
    <2>6. Knows(d, flags)
      BY <2>3, <2>4, <2>5 DEF Knows, OpensAll
    <2>7. KnowsNames(d, {"InstructionRafFlag"}, "InstructionReadRaf")
      BY <2>3, <2>4 DEF KnowsNames
    <2>8. KnowsNames(d, {"RdWa"}, "RegistersValEvaluation")
      BY <2>3, ValuesOpen DEF KnowsNames
    <2> QED  BY <2>6, <2>7, <2>8 DEF flags
  <1>7. b = 8 => (Committed(k) => Knows(d, BytecodeVals))
    <2> HAVE b = 8
    <2> HAVE Committed(k)
    <2>1. Sumchecks(k, 8, a) = <<BytecodeReadRafAddress(k), BooleanityAddress(k)>>
      BY BatchIs
    <2>2. 1 \in DOMAIN ss /\ ss[1] = BytecodeReadRafAddress(k)
      BY <2>1
    <2>3. \A id : Opens(BytecodeReadRafAddress(k), id) => Has(d, id)
      BY <1>1, <2>2
    <2>4. OpensAll(BytecodeReadRafAddress(k), BytecodeVals)
      BY BytecodeOpens
    <2>5. DOMAIN BytecodeVals = 1 .. Len(BytecodeVals)
      BY AddressIds
    <2> QED  BY <2>3, <2>4, <2>5 DEF Knows, OpensAll
  <1>8. b = 9 => KnowsNames(d, {"RamHammingWeight"}, "RamHammingBooleanity")
    <2> HAVE b = 9
    <2>1. Sumchecks(k, 9, a) = Stage6b(k, a)
      BY BatchIs
    <2>2. 3 \in DOMAIN ss /\ ss[3] = HammingBooleanity(k)
      BY <2>1, Stage6bTyped
    <2>3. \A id : Opens(HammingBooleanity(k), id) => Has(d, id)
      BY <1>1, <2>2
    <2> QED  BY <2>3, WeightOpens DEF KnowsNames
  <1>9. /\ b + 1 > 2 => b > 2 \/ b = 2
        /\ b + 1 > 4 => b > 4 \/ b = 4
        /\ b + 1 > 5 => b > 5 \/ b = 5
        /\ b + 1 > 6 => b > 6 \/ b = 6
        /\ b + 1 > 7 => b > 7 \/ b = 7
        /\ b + 1 > 8 => b > 8 \/ b = 8
        /\ b + 1 > 9 => b > 9 \/ b = 9
    OBVIOUS
  <1>10. PICK e : e = b + 1
    OBVIOUS
  <1>11. Complete(k, e, d)
    <2> HIDE DEF ss
    <2> QED  BY <1>0, <1>2, <1>3, <1>4, <1>5, <1>6, <1>7, <1>8, <1>9, <1>10 DEF Complete
  <1> QED  BY <1>10, <1>11
(* What the sumchecks of a batch are depends on the points alone.           *)
LEMMA SameBetween ==
    ASSUME NEW k, NEW a, NEW d, PointOf(a, RamValue) = PointOf(d, RamValue), NEW b
    PROVE  /\ Between(k, b, a) = Between(k, b, d)
           /\ Sumchecks(k, 6, a) = Sumchecks(k, 6, d)
  <1>1. InitialMemory(k, a) = InitialMemory(k, d)
    BY DEF InitialMemory, AccumulatedImage
  <1>2. RamValCheck(k, a) = RamValCheck(k, d)
    BY <1>1 DEF RamValCheck
  <1>3. Sumchecks(k, 6, a) = Sumchecks(k, 6, d)
    BY <1>2, BatchIs
  <1> QED  BY <1>1, <1>3 DEF Between

(* Two accumulators with the same points lead to the same batch.            *)
LEMMA SameSumchecks ==
    ASSUME NEW k, NEW a, NEW d, \A x : PointOf(a, x) = PointOf(d, x), NEW b \in 1 .. 10
    PROVE  Sumchecks(k, b, a) = Sumchecks(k, b, d) /\ Between(k, b, a) = Between(k, b, d)
  <1>1. RamRafEvaluation(a) = RamRafEvaluation(d)
    BY DEF RamRafEvaluation
  <1>2. RamRaClaimReduction(a) = RamRaClaimReduction(d) /\ RegistersValEvaluation(a) = RegistersValEvaluation(d)
    BY DEF RamRaClaimReduction, RegistersValEvaluation
  <1>3. BytecodeReadRafCycle(k, a) = BytecodeReadRafCycle(k, d)
    <2>1. PointOf(a, AddressClaim) = PointOf(d, AddressClaim)
      OBVIOUS
    <2> QED  BY <2>1 DEF BytecodeReadRafCycle, OpenEach
  <1>4. BooleanityCycle(k, a) = BooleanityCycle(k, d)
    BY DEF BooleanityCycle
  <1>5. RamRaVirtual(k, a) = RamRaVirtual(k, d)
    <2>1. PointOf(a, V("RamRa", "RamRaClaimReduction")) = PointOf(d, V("RamRa", "RamRaClaimReduction"))
      OBVIOUS
    <2> QED  BY <2>1 DEF RamRaVirtual, OpenEach
  <1>6. HammingWeight(k, a) = HammingWeight(k, d)
    BY DEF HammingWeight
  <1>7. Stage6b(k, a) = Stage6b(k, d)
    BY <1>3, <1>4, <1>5 DEF Stage6b
  <1>8. Stage7(k, a) = Stage7(k, d)
    BY <1>6 DEF Stage7
  <1>9. Sumchecks(k, 6, a) = Sumchecks(k, 6, d) /\ Between(k, b, a) = Between(k, b, d)
    BY SameBetween
  <1>10. Sumchecks(k, b, a) = Sumchecks(k, b, d)
    <2>1. CASE b \in {1, 2, 3}
      BY <2>1 DEF Sumchecks
    <2>2. CASE b = 4
      BY <1>1, <2>2 DEF Sumchecks
    <2>3. CASE b = 5
      BY <2>3 DEF Sumchecks
    <2>4. CASE b = 6
      BY <1>9, <2>4
    <2>5. CASE b = 7
      BY <1>2, <2>5 DEF Sumchecks
    <2>6. CASE b = 8
      BY <2>6 DEF Sumchecks
    <2>7. CASE b = 9
      BY <1>7, <2>7 DEF Sumchecks
    <2>8. CASE b = 10
      BY <1>8, <2>8 DEF Sumchecks
    <2>9. b \in {1, 2, 3} \/ b = 4 \/ b = 5 \/ b = 6 \/ b = 7 \/ b = 8 \/ b = 9 \/ b = 10
      OBVIOUS
    <2> QED  BY <2>1, <2>2, <2>3, <2>4, <2>5, <2>6, <2>7, <2>8, <2>9
  <1> QED  BY <1>9, <1>10

(***************************************************************************)
(* The prover's accumulator                                                 *)
(***************************************************************************)
(* Before the sumchecks of batch b run, and after them                      *)
During(k, b, a) == AppendOpenings("prover", a, Between(k, b, a))
Opened(k, b, d) == AppendOpenings("prover", d, Left(Sumchecks(k, b, d)))
After(k, b, a) == Flushing(Opened(k, b, During(k, b, a)))
(* Before each batch                                                        *)
History(k) ==
    LET At[b \in 1 .. LastBatch] == IF b = 1 THEN NoOpenings ELSE After(k, b - 1, At[b - 1])
    IN  At

(* The prover's accumulators from batch to batch.                           *)
LEMMA HistoryStepByStep ==
    ASSUME NEW k
    PROVE  /\ History(k)[1] = NoOpenings
           /\ \A b \in 1 .. 10 : History(k)[b + 1] = After(k, b, History(k)[b])
  <1> DEFINE N == 10
             step(n, x) == After(k, n, x)
             Upto(n, f) == /\ f = [i \in 1 .. n + 1 |-> f[i]]
                           /\ f[1] = NoOpenings
                           /\ \A i \in 1 .. n : f[i + 1] = After(k, i, f[i])
             Good == {n \in 0 .. N : \E f : Upto(n, f)}
             Is(f) == f = [b \in 1 .. 11 |-> IF b = 1 THEN NoOpenings ELSE After(k, b - 1, f[b - 1])]
             at == CHOOSE f : Is(f)
  <1>1. 0 \in Good
    <2> DEFINE f == [i \in 1 .. 0 + 1 |-> NoOpenings]
    <2>1. Upto(0, f)
      OBVIOUS
    <2> HIDE DEF f, Upto
    <2> QED  BY <2>1
  <1>2. ASSUME NEW n \in 0 .. N - 1, n \in Good PROVE n + 1 \in Good
    <2>1. PICK f : Upto(n, f)
      BY <1>2
    <2> DEFINE g == [i \in 1 .. (n + 1) + 1 |-> IF i = n + 2 THEN After(k, n + 1, f[n + 1]) ELSE f[i]]
    <2>2. g = [i \in 1 .. (n + 1) + 1 |-> g[i]] /\ g[1] = NoOpenings
      BY <2>1
    <2>3. ASSUME NEW i \in 1 .. n + 1 PROVE g[i + 1] = After(k, i, g[i])
      <3>1. CASE i = n + 1
        BY <3>1
      <3>2. CASE i # n + 1
        <4>1. i \in 1 .. n /\ g[i + 1] = f[i + 1] /\ g[i] = f[i]
          BY <3>2
        <4> QED  BY <4>1, <2>1
      <3> QED  BY <3>1, <3>2
    <2>4. Upto(n + 1, g)
      <3> HIDE DEF g
      <3> QED  BY <2>2, <2>3
    <2>5. n + 1 \in 0 .. N
      OBVIOUS
    <2> HIDE DEF g, Upto, N
    <2> QED  BY <2>4, <2>5
  <1>3. N \in Good
    <2>1. N \in Nat
      OBVIOUS
    <2> HIDE DEF Good, N
    <2>2. 0 .. N \subseteq Good
      BY <1>1, <1>2, <2>1, IntervalInduction
    <2> QED  BY <2>1, <2>2
  <1>4. PICK f : Upto(N, f)
    BY <1>3
  <1>5. Is(f)
    <2>1. ASSUME NEW b \in 1 .. 11 PROVE f[b] = IF b = 1 THEN NoOpenings ELSE After(k, b - 1, f[b - 1])
      <3>1. CASE b = 1
        BY <1>4, <3>1
      <3>2. CASE b # 1
        <4>1. b - 1 \in 1 .. N /\ (b - 1) + 1 = b
          BY <3>2
        <4>2. f[(b - 1) + 1] = After(k, b - 1, f[b - 1])
          BY <1>4, <4>1
        <4> QED  BY <3>2, <4>1, <4>2
      <3> QED  BY <3>1, <3>2
    <2>2. f = [b \in 1 .. 11 |-> f[b]]
      BY <1>4
    <2> QED  BY <2>1, <2>2
  <1>6. Is(at)
    <2> HIDE DEF Is
    <2> QED  BY <1>5
  <1>7. History(k) = at
    BY DEF History, LastBatch
  <1>8. \A b \in 1 .. 11 : at[b] = IF b = 1 THEN NoOpenings ELSE After(k, b - 1, at[b - 1])
    <2> HIDE DEF at
    <2> QED  BY <1>6
  <1> HIDE DEF at
  <1>9. ASSUME NEW b \in 1 .. 10 PROVE at[b + 1] = After(k, b, at[b])
    <2>1. b + 1 \in 1 .. 11 /\ b + 1 # 1 /\ (b + 1) - 1 = b
      OBVIOUS
    <2> QED  BY <1>8, <2>1
  <1> QED  BY <1>7, <1>8, <1>9
(* The prover finds what batch b starts from, and appends nothing twice.    *)
Constructible(k, b) ==
    LET a == History(k)[b]
    IN  /\ Knows(a, StartOf(b)) /\ NeedsKnown(a, Sumchecks(k, b, a))
        /\ ~Repeated("prover", a, Between(k, b, a))
(* The prover appends nothing twice when batch b has run.                   *)
Runnable(k, b) ==
    LET d == During(k, b, History(k)[b]) IN ~Repeated("prover", d, Left(Sumchecks(k, b, d)))

(* What is appended before a batch is where the table says.                 *)
LEMMA BetweenPlaced ==
    ASSUME NEW k, NEW a, Sound(k, a), NEW b \in 1 .. 10, Knows(a, StartOf(b))
    PROVE  Between(k, b, a) \in Seq(Openings(k))
  <1>1. CASE b = 6
    <2>1. Has(a, RamValue)
      BY <1>1 DEF Knows, StartOf
    <2> QED  BY <1>1, <2>1, InitialMemoryPlaced DEF Between
  <1>2. CASE b # 6
    BY <1>2 DEF Between
  <1> QED  BY <1>1, <1>2

(* Before the sumchecks of a batch run, the accumulator is sound, and they  *)
(* fit it.                                                                  *)
LEMMA DuringSound ==
    ASSUME NEW k \in Wide, NEW b \in 1 .. 10, NEW a, a = History(k)[b], Sound(k, a), Complete(k, b, a),
           Constructible(k, b), NEW d, d = During(k, b, a)
    PROVE  /\ Between(k, b, a) \in Seq(Openings(k)) /\ ~Repeated("prover", a, Between(k, b, a))
           /\ Sound(k, d) /\ GrowsTo(a, d) /\ Complete(k, b, d)
           /\ Sumchecks(k, b, d) = Sumchecks(k, b, a)
           /\ NeedsKnown(d, Sumchecks(k, b, d)) /\ AllFit(k, d, Sumchecks(k, b, d))
           /\ Left(Sumchecks(k, b, d)) \in Seq(Openings(k))
  <1> DEFINE opens == Between(k, b, a)
             ss == Sumchecks(k, b, a)
  <1>1. Knows(a, StartOf(b)) /\ NeedsKnown(a, ss) /\ ~Repeated("prover", a, opens)
    BY DEF Constructible
  <1>2. opens \in Seq(Openings(k))
    BY <1>1, BetweenPlaced
  <1>3. Sound(k, d) /\ GrowsTo(a, d)
    <2>1. Len(opens) \in Nat
      BY <1>2
    <2>2. Len(opens) \in 0 .. Len(opens)
      BY <2>1
    <2>3. /\ Sound(k, Appending("prover", a, opens)[Len(opens)])
          /\ GrowsTo(a, Appending("prover", a, opens)[Len(opens)])
      BY <1>1, <1>2, <2>2, ProverAppendsAll
    <2> QED  BY <2>3 DEF During, AppendOpenings
  <1>4. Complete(k, b, d)
    BY <1>3, CompleteOn
  <1>5. Sumchecks(k, b, d) = ss
    <2>1. CASE b = 6
      <3>1. Has(a, RamValue)
        BY <1>1, <2>1 DEF Knows, StartOf
      <3>2. Has(d, RamValue)
        BY <1>3, <3>1, KnowsMore
      <3>3. PointOf(a, RamValue) = PointOf(d, RamValue)
        BY <1>3, <3>1, <3>2, SoundKnows
      <3> QED  BY <2>1, <3>3, SameBetween
    <2>2. CASE b # 6
      <3>1. opens = <<>>
        BY <2>2 DEF Between
      <3>2. Appending("prover", a, opens)[0] = a /\ Len(opens) = 0
        BY <3>1, AppendingStepByStep
      <3>3. d = a
        BY <3>2 DEF During, AppendOpenings
      <3> QED  BY <3>3
    <2> QED  BY <2>1, <2>2
  <1>6. NeedsKnown(d, ss)
    <2>1. \A id : Has(a, id) => Has(d, id)
      BY <1>3, KnowsMore
    <2> HIDE DEF ss
    <2> QED  BY <1>1, <2>1, Zenon DEF NeedsKnown, Knows
  <1>7. AllFit(k, d, Sumchecks(k, b, d))
    BY <1>3, <1>4, <1>5, <1>6, BatchFits
  <1>8. Left(Sumchecks(k, b, d)) \in Seq(Openings(k))
    BY <1>7, LeftPlaced
  <1> QED  BY <1>1, <1>2, <1>3, <1>4, <1>5, <1>6, <1>7, <1>8

(* After they ran, it is sound, has grown, and knows what the next batch    *)
(* needs.                                                                   *)
LEMMA AfterSound ==
    ASSUME NEW k \in Wide, NEW b \in 1 .. 10, Sound(k, History(k)[b]), Complete(k, b, History(k)[b]),
           Constructible(k, b), Runnable(k, b)
    PROVE  LET d == During(k, b, History(k)[b])
               e == Opened(k, b, d)
           IN  /\ History(k)[b + 1] = Flushing(e)
               /\ Sound(k, e) /\ GrowsTo(e, History(k)[b + 1]) /\ GrowsTo(d, History(k)[b + 1])
               /\ GrowsTo(History(k)[b], History(k)[b + 1])
               /\ Sound(k, History(k)[b + 1]) /\ Complete(k, b + 1, History(k)[b + 1])
  <1>1. PICK a : a = History(k)[b]
    OBVIOUS
  <1>2. PICK d : d = During(k, b, a)
    OBVIOUS
  <1>3. PICK e : e = Opened(k, b, d)
    OBVIOUS
  <1>4. PICK f : f = Flushing(e)
    OBVIOUS
  <1>5. History(k)[b + 1] = f
    BY <1>1, <1>2, <1>3, <1>4, HistoryStepByStep DEF After
  <1> DEFINE ss == Sumchecks(k, b, d)
  <1>6. /\ Sound(k, d) /\ GrowsTo(a, d) /\ Complete(k, b, d)
        /\ AllFit(k, d, ss)
    BY <1>1, <1>2, DuringSound
  <1>7. ~Repeated("prover", d, Left(ss))
    BY <1>1, <1>2 DEF Runnable
  <1>8. e = AppendOpenings("prover", d, Left(ss))
    BY <1>3 DEF Opened
  <1>9. Sound(k, e) /\ GrowsTo(d, e) /\ HasOpened(e, ss)
    <2> HIDE DEF ss
    <2> QED  BY <1>6, <1>7, <1>8, OpenedAll
  <1>10. Complete(k, b + 1, e)
    BY <1>6, <1>9, CompleteAfter
  <1>11. Sound(k, f) /\ GrowsTo(e, f)
    BY <1>4, <1>9, FlushingKeeps
  <1>12. PICK n : n = b + 1
    OBVIOUS
  <1>13. Complete(k, n, f)
    BY <1>9, <1>10, <1>11, <1>12, CompleteOn
  <1>14. GrowsTo(d, f)
    BY <1>9, <1>11, GrowsOn
  <1>15. GrowsTo(a, f)
    BY <1>6, <1>14, GrowsOn
  <1> QED  BY <1>1, <1>2, <1>3, <1>4, <1>5, <1>9, <1>11, <1>12, <1>13, <1>14, <1>15

(* As long as it does, its accumulator is sound, and grows.                 *)
Works(k, n) == \A b \in 1 .. n - 1 : Constructible(k, b) /\ Runnable(k, b)

(* As long as all batches worked, the accumulators are sound and know what  *)
(* the batches need.                                                        *)
LEMMA HistorySound ==
    ASSUME NEW k \in Wide, NEW n \in 1 .. 11, Works(k, n)
    PROVE  \A b \in 1 .. n : Sound(k, History(k)[b]) /\ Complete(k, b, History(k)[b])
  <1> DEFINE N == n - 1
             Good == {m \in 0 .. N : Sound(k, History(k)[m + 1]) /\ Complete(k, m + 1, History(k)[m + 1])}
  <1>1. N \in Nat
    OBVIOUS
  <1>2. 0 \in Good
    <2>1. History(k)[1] = NoOpenings /\ Sound(k, NoOpenings)
      BY HistoryStepByStep, NothingSound
    <2>2. Complete(k, 1, History(k)[1])
      BY DEF Complete
    <2>3. 0 + 1 = 1 /\ 0 \in 0 .. N
      OBVIOUS
    <2> HIDE DEF N
    <2> QED  BY <2>1, <2>2, <2>3
  <1>3. ASSUME NEW m \in 0 .. N - 1, m \in Good PROVE m + 1 \in Good
    <2>1. PICK b : b = m + 1
      OBVIOUS
    <2>2. b \in 1 .. 10 /\ b \in 1 .. n - 1 /\ m + 1 \in 0 .. N
      BY <2>1
    <2>3. Sound(k, History(k)[b]) /\ Complete(k, b, History(k)[b])
      BY <1>3, <2>1
    <2>4. Constructible(k, b) /\ Runnable(k, b)
      BY <2>2 DEF Works
    <2>5. Sound(k, History(k)[b + 1]) /\ Complete(k, b + 1, History(k)[b + 1])
      BY <2>2, <2>3, <2>4, AfterSound
    <2> QED  BY <2>1, <2>2, <2>5
  <1>4. 0 .. N \subseteq Good
    <2> HIDE DEF Good, N
    <2> QED  BY <1>1, <1>2, <1>3, IntervalInduction
  <1>5. ASSUME NEW b \in 1 .. n PROVE Sound(k, History(k)[b]) /\ Complete(k, b, History(k)[b])
    <2>1. PICK m : m = b - 1
      OBVIOUS
    <2>2. m \in 0 .. N /\ m + 1 = b
      BY <2>1
    <2>3. m \in Good
      <3> HIDE DEF Good, N
      <3> QED  BY <1>4, <2>2
    <2> QED  BY <2>2, <2>3
  <1> QED  BY <1>5

(* As long as all batches worked, the accumulators grow.                    *)
LEMMA HistoryGrows ==
    ASSUME NEW k \in Wide, NEW n \in 1 .. 11, Works(k, n)
    PROVE  /\ \A b \in 1 .. n : GrowsTo(History(k)[b], History(k)[n])
           /\ \A b \in 1 .. n - 1 :
                 /\ GrowsTo(During(k, b, History(k)[b]), History(k)[n])
                 /\ GrowsTo(Opened(k, b, During(k, b, History(k)[b])), History(k)[n])
  <1> DEFINE N == n - 1
             Good == {m \in 0 .. N : \A b \in 1 .. m + 1 : GrowsTo(History(k)[b], History(k)[m + 1])}
  <1>1. N \in Nat
    OBVIOUS
  <1>2. 0 \in Good
    <2>1. GrowsTo(History(k)[1], History(k)[1])
      BY GrowsNot
    <2>2. \A b \in 1 .. 0 + 1 : b = 1
      OBVIOUS
    <2>3. 0 + 1 = 1 /\ 0 \in 0 .. N
      OBVIOUS
    <2> HIDE DEF N
    <2> QED  BY <2>1, <2>2, <2>3
  <1>0. \A b \in 1 .. n - 1 : /\ GrowsTo(History(k)[b], History(k)[b + 1])
                              /\ GrowsTo(During(k, b, History(k)[b]), History(k)[b + 1])
                              /\ GrowsTo(Opened(k, b, During(k, b, History(k)[b])), History(k)[b + 1])
    <2> TAKE b \in 1 .. n - 1
    <2>1. b \in 1 .. 10 /\ b \in 1 .. n
      OBVIOUS
    <2>2. Constructible(k, b) /\ Runnable(k, b)
      BY DEF Works
    <2>3. Sound(k, History(k)[b]) /\ Complete(k, b, History(k)[b])
      BY <2>1, HistorySound
    <2> QED  BY <2>1, <2>2, <2>3, AfterSound
  <1>3. ASSUME NEW m \in 0 .. N - 1, m \in Good PROVE m + 1 \in Good
    <2>1. PICK e : e = m + 1
      OBVIOUS
    <2>2. e \in 1 .. n - 1 /\ m + 1 \in 0 .. N
      BY <2>1
    <2>3. \A b \in 1 .. e : GrowsTo(History(k)[b], History(k)[e])
      BY <1>3, <2>1
    <2>4. GrowsTo(History(k)[e], History(k)[e + 1])
      BY <1>0, <2>2
    <2>5. ASSUME NEW b \in 1 .. e + 1 PROVE GrowsTo(History(k)[b], History(k)[e + 1])
      <3>1. CASE b = e + 1
        BY <3>1, GrowsNot
      <3>2. CASE b # e + 1
        <4>1. b \in 1 .. e
          BY <2>2, <3>2
        <4>2. GrowsTo(History(k)[b], History(k)[e])
          BY <2>3, <4>1
        <4> QED  BY <2>4, <4>2, GrowsOn
      <3> QED  BY <3>1, <3>2
    <2> QED  BY <2>1, <2>2, <2>5
  <1>4. 0 .. N \subseteq Good
    <2> HIDE DEF Good, N
    <2> QED  BY <1>1, <1>2, <1>3, IntervalInduction
  <1>5. \A b \in 1 .. n : GrowsTo(History(k)[b], History(k)[n])
    <2>1. N \in Good
      <3>1. N \in 0 .. N
        BY <1>1
      <3> HIDE DEF Good, N
      <3> QED  BY <1>4, <3>1
    <2>2. N + 1 = n
      OBVIOUS
    <2> HIDE DEF N
    <2> QED  BY <2>1, <2>2
  <1>6. ASSUME NEW b \in 1 .. n - 1
        PROVE  /\ GrowsTo(During(k, b, History(k)[b]), History(k)[n])
               /\ GrowsTo(Opened(k, b, During(k, b, History(k)[b])), History(k)[n])
    <2>1. PICK e : e = b + 1
      OBVIOUS
    <2>2. e \in 1 .. n
      BY <2>1
    <2>3. /\ GrowsTo(During(k, b, History(k)[b]), History(k)[e])
          /\ GrowsTo(Opened(k, b, During(k, b, History(k)[b])), History(k)[e])
      BY <1>0, <2>1
    <2>4. GrowsTo(History(k)[e], History(k)[n])
      BY <1>5, <2>2
    <2> QED  BY <2>3, <2>4, GrowsOn
  <1> QED  BY <1>5, <1>6
(***************************************************************************)
(* The inductive invariant                                                  *)
(***************************************************************************)
(* The prover's accumulator, or the one the verifier's is to be like        *)
Current(k, b, p) == IF p = "construct" THEN History(k)[b] ELSE During(k, b, History(k)[b])
ProverAt(k, b, p, x) == Works(k, b) /\ x.prover = Current(k, b, p) /\ x.verifier = NoOpenings
VerifierAt(k, b, p, x) ==
    /\ Works(k, LastBatch) /\ x.prover = History(k)[LastBatch]
    /\ Follows(k, x.verifier, Current(k, b, p), x.prover)
FlowsAt(k, w, b, p, x, u) ==
    /\ w = "prover" => ProverAt(k, b, p, x)
    /\ w = "verifier" => VerifierAt(k, b, p, x)
    /\ p = "sumcheck" => Constructible(k, b)
    /\ u \subseteq DOMAIN x[w].openings
(* The types, with sizes that are not those of one-word advice.             *)
FlowTyped ==
    /\ c \in Wide /\ who \in Roles /\ batch \in 1 .. LastBatch
    /\ phase \in {"construct", "sumcheck"} /\ (phase = "sumcheck" => batch < LastBatch)
    /\ DOMAIN acc = Roles /\ DOMAIN transcript = Roles
    /\ verdict \in {"running", "accepted", "rejected", "panicked"}
(* The inductive invariant: while the prover runs, its accumulator is that  *)
(* of its history and the verifier's is empty; while the verifier runs, the *)
(* prover's is the last of the history and the verifier's follows the       *)
(* history.                                                                 *)
FlowInv == FlowTyped /\ FlowsAt(c, who, batch, phase, acc, used)

(* Where the two are                                                        *)
LEMMA ProverThere ==
    ASSUME NEW k \in Wide, NEW n \in 1 .. 11, Works(k, n), NEW b \in 1 .. n, NEW p \in {"construct", "sumcheck"},
           p = "sumcheck" => b < 11 /\ Constructible(k, b)
    PROVE  /\ Sound(k, History(k)[b]) /\ Complete(k, b, History(k)[b])
           /\ Sound(k, Current(k, b, p))
           /\ GrowsTo(History(k)[b], Current(k, b, p))
           /\ b < n => GrowsTo(Current(k, b, p), History(k)[n])
           /\ p = "construct" => GrowsTo(Current(k, b, p), History(k)[n])
           /\ p = "sumcheck" => /\ NeedsKnown(Current(k, b, p), Sumchecks(k, b, Current(k, b, p)))
                                /\ AllFit(k, Current(k, b, p), Sumchecks(k, b, Current(k, b, p)))
                                /\ Left(Sumchecks(k, b, Current(k, b, p))) \in Seq(Openings(k))
  <1>1. Sound(k, History(k)[b]) /\ Complete(k, b, History(k)[b])
    BY HistorySound
  <1>2. CASE p = "construct"
    <2>1. Current(k, b, p) = History(k)[b]
      BY <1>2 DEF Current
    <2>2. GrowsTo(History(k)[b], History(k)[n])
      BY HistoryGrows
    <2> QED  BY <1>1, <1>2, <2>1, <2>2, GrowsNot
  <1>3. CASE p = "sumcheck"
    <2>1. Current(k, b, p) = During(k, b, History(k)[b])
      BY <1>3 DEF Current
    <2>2. b \in 1 .. 10 /\ Constructible(k, b)
      BY <1>3
    <2>3. PICK d : d = During(k, b, History(k)[b])
      OBVIOUS
    <2>4. /\ Sound(k, d) /\ GrowsTo(History(k)[b], d) /\ NeedsKnown(d, Sumchecks(k, b, d))
          /\ AllFit(k, d, Sumchecks(k, b, d)) /\ Left(Sumchecks(k, b, d)) \in Seq(Openings(k))
      BY <1>1, <2>2, <2>3, DuringSound
    <2>5. b < n => GrowsTo(d, History(k)[n])
      <3> HAVE b < n
      <3>1. b \in 1 .. n - 1
        OBVIOUS
      <3> QED  BY <2>3, <3>1, HistoryGrows
    <2> QED  BY <1>1, <1>3, <2>1, <2>3, <2>4, <2>5
  <1> QED  BY <1>2, <1>3

(* While the verifier runs, it is at a sound place of the history, knows    *)
(* the same points, and has claims for the prover's openings alone.         *)
LEMMA VerifierThere ==
    ASSUME NEW k \in Wide, NEW b \in 1 .. 11, NEW p \in {"construct", "sumcheck"}, p = "sumcheck" => b < 11,
           NEW x, VerifierAt(k, b, p, x)
    PROVE  /\ p = "sumcheck" => Constructible(k, b)
           /\ Sound(k, x.prover) /\ Sound(k, Current(k, b, p)) /\ GrowsTo(Current(k, b, p), x.prover)
           /\ Follows(k, x.verifier, Current(k, b, p), x.prover)
           /\ \A id : PointOf(x.verifier, id) = PointOf(Current(k, b, p), id)
           /\ DOMAIN x.verifier.openings = DOMAIN x.prover.openings
  <1>1. Works(k, 11) /\ x.prover = History(k)[11] /\ Follows(k, x.verifier, Current(k, b, p), x.prover)
    BY DEF VerifierAt, LastBatch
  <1>2. b < 11 => Constructible(k, b)
    <2> HAVE b < 11
    <2>1. b \in 1 .. 11 - 1
      OBVIOUS
    <2> QED  BY <1>1, <2>1 DEF Works
  <1>3. /\ Sound(k, History(k)[11]) /\ Sound(k, Current(k, b, p))
        /\ GrowsTo(Current(k, b, p), History(k)[11])
    <2>1. Sound(k, History(k)[11])
      BY <1>1, HistorySound
    <2>2. p = "sumcheck" => b < 11 /\ Constructible(k, b)
      BY <1>2
    <2>3. /\ Sound(k, Current(k, b, p)) /\ (b < 11 => GrowsTo(Current(k, b, p), History(k)[11]))
          /\ (p = "construct" => GrowsTo(Current(k, b, p), History(k)[11]))
      BY <1>1, <2>2, ProverThere
    <2> QED  BY <2>1, <2>3
  <1>4. \A id : PointOf(x.verifier, id) = PointOf(Current(k, b, p), id)
    BY <1>1, <1>3, SamePoints
  <1> QED  BY <1>1, <1>2, <1>3, <1>4 DEF Follows

(* A batch is set up.                                                       *)
LEMMA ConstructFlows ==
    ASSUME NEW k \in Wide, NEW w \in Roles, NEW b \in 1 .. 10, NEW x, DOMAIN x = Roles, NEW u,
           FlowsAt(k, w, b, "construct", x, u), NEW a, a = x[w], Knows(a, StartOf(b)),
           NeedsKnown(a, Sumchecks(k, b, a)), ~Repeated(w, a, Between(k, b, a)),
           NEW y, y = [x EXCEPT ![w] = AppendOpenings(w, a, Between(k, b, a))]
    PROVE  FlowsAt(k, w, b, "sumcheck", y, u)
  <1>1. PICK h : h = History(k)[b]
    OBVIOUS
  <1>2. PICK d : d = During(k, b, h)
    OBVIOUS
  <1>3. Current(k, b, "construct") = h /\ Current(k, b, "sumcheck") = d
    BY <1>1, <1>2 DEF Current
  <1>4. CASE w = "prover"
    <2>1. Works(k, b) /\ a = h /\ x.verifier = NoOpenings
      BY <1>3, <1>4 DEF FlowsAt, ProverAt
    <2>2. Constructible(k, b)
      BY <1>1, <1>4, <2>1 DEF Constructible
    <2>3. y.prover = d /\ y.verifier = NoOpenings /\ y[w] = d
      BY <1>2, <1>4, <2>1 DEF During, Roles
    <2>4. Sound(k, h) /\ Complete(k, b, h)
      BY <1>1, <2>1, HistorySound
    <2>5. GrowsTo(h, d)
      BY <1>1, <1>2, <2>2, <2>4, DuringSound
    <2>6. u \subseteq DOMAIN d.openings
      BY <2>1, <2>5 DEF FlowsAt, GrowsTo
    <2> QED  BY <1>3, <1>4, <2>1, <2>2, <2>3, <2>6 DEF FlowsAt, ProverAt
  <1>5. CASE w = "verifier"
    <2>1. VerifierAt(k, b, "construct", x)
      BY <1>5 DEF FlowsAt
    <2>2. PICK last : last = x.prover
      OBVIOUS
    <2>3. /\ Works(k, LastBatch) /\ last = History(k)[LastBatch] /\ Works(k, 11) /\ last = History(k)[11]
      BY <2>1, <2>2 DEF VerifierAt, LastBatch
    <2>4. /\ Sound(k, last) /\ Sound(k, h) /\ GrowsTo(h, last) /\ Follows(k, a, h, last)
          /\ \A id : PointOf(a, id) = PointOf(h, id)
      BY <1>3, <1>5, <2>1, <2>2, VerifierThere
    <2>5. Between(k, b, a) = Between(k, b, h)
      BY <2>4, SameSumchecks
    <2>6. Constructible(k, b)
      <3>1. b \in 1 .. 11 - 1
        OBVIOUS
      <3> QED  BY <2>3, <3>1 DEF Works
    <2>7. Complete(k, b, h)
      BY <1>1, <2>3, HistorySound
    <2>8. Between(k, b, h) \in Seq(Openings(k)) /\ ~Repeated("prover", h, Between(k, b, h))
      BY <1>1, <2>4, <2>6, <2>7, DuringSound
    <2>9. GrowsTo(d, last)
      <3>1. b \in 1 .. 11 - 1
        OBVIOUS
      <3> QED  BY <1>1, <1>2, <2>3, <3>1, HistoryGrows
    <2>10. PICK v : v = AppendOpenings("verifier", a, Between(k, b, h))
      OBVIOUS
    <2>11. Follows(k, v, d, last)
      <3>1. EmptyAlone(k)
        BY EmptyIsAlone
      <3>2. d = AppendOpenings("prover", h, Between(k, b, h))
        BY <1>2 DEF During
      <3> QED  BY <2>4, <2>8, <2>9, <2>10, <3>1, <3>2, VerifierFollowsAll
    <2>12. y.prover = last /\ y.verifier = v /\ y[w] = v
      BY <1>5, <2>2, <2>5, <2>10 DEF Roles
    <2>13. u \subseteq DOMAIN v.openings
      BY <1>5, <2>4, <2>11 DEF FlowsAt, Follows
    <2> QED  BY <1>3, <1>5, <2>3, <2>6, <2>11, <2>12, <2>13 DEF FlowsAt, VerifierAt
  <1> QED  BY <1>4, <1>5 DEF Roles
(* What is read is known.                                                   *)
LEMMA ReadsKnown ==
    ASSUME NEW a, NEW ss, \A i \in DOMAIN ss : Knows(a, ss[i].reads)
    PROVE  UNION {{ResolveAlias(a, id) : id \in ToSet(ss[i].reads)} : i \in DOMAIN ss} \subseteq DOMAIN a.openings
  <1> SUFFICES ASSUME NEW i \in DOMAIN ss, NEW id \in ToSet(ss[i].reads)
               PROVE  ResolveAlias(a, id) \in DOMAIN a.openings
    OBVIOUS
  <1>1. PICK j \in DOMAIN ss[i].reads : id = ss[i].reads[j]
    BY DEF ToSet
  <1>2. Has(a, id)
    BY <1>1 DEF Knows
  <1> QED  BY <1>2 DEF Has

(* A batch is run.                                                          *)
LEMMA RunFlows ==
    ASSUME NEW k \in Wide, NEW w \in Roles, NEW b \in 1 .. 10, NEW x, DOMAIN x = Roles, NEW u,
           FlowsAt(k, w, b, "sumcheck", x, u), NEW a, a = x[w], NEW ss, ss = Sumchecks(k, b, a),
           NEW reads, reads \subseteq DOMAIN a.openings, ~Repeated(w, a, Left(ss)),
           NEW y, y = [x EXCEPT ![w] = Flushing(AppendOpenings(w, a, Left(ss)))]
    PROVE  FlowsAt(k, w, b + 1, "construct", y, u \cup reads)
  <1>1. PICK h : h = History(k)[b]
    OBVIOUS
  <1>2. PICK d : d = During(k, b, h)
    OBVIOUS
  <1>3. PICK e : e = Opened(k, b, d)
    OBVIOUS
  <1>4. PICK n : n = b + 1
    OBVIOUS
  <1>5. PICK f : f = History(k)[n]
    OBVIOUS
  <1>6. Current(k, b, "sumcheck") = d /\ Current(k, n, "construct") = f
    BY <1>1, <1>2, <1>5 DEF Current
  <1>7. Constructible(k, b) /\ u \subseteq DOMAIN a.openings
    BY DEF FlowsAt
  <1>8. CASE w = "prover"
    <2>1. Works(k, b) /\ a = d /\ x.verifier = NoOpenings
      BY <1>6, <1>8 DEF FlowsAt, ProverAt
    <2>2. Runnable(k, b)
      BY <1>1, <1>2, <1>8, <2>1 DEF Runnable
    <2>3. Works(k, n)
      <3>1. \A m \in 1 .. n - 1 : m \in 1 .. b - 1 \/ m = b
        BY <1>4
      <3> QED  BY <1>7, <2>1, <2>2, <3>1 DEF Works
    <2>4. Sound(k, h) /\ Complete(k, b, h)
      BY <1>1, <2>1, HistorySound
    <2>5. f = Flushing(e) /\ GrowsTo(d, f)
      BY <1>1, <1>2, <1>3, <1>4, <1>5, <1>7, <2>2, <2>4, AfterSound
    <2>6. e = AppendOpenings("prover", a, Left(ss))
      BY <1>3, <2>1 DEF Opened
    <2>7. y.prover = f /\ y.verifier = NoOpenings /\ y[w] = f
      BY <1>8, <2>1, <2>5, <2>6 DEF Roles
    <2>8. u \cup reads \subseteq DOMAIN f.openings
      BY <1>7, <2>1, <2>5 DEF GrowsTo
    <2>9. FlowsAt(k, w, n, "construct", y, u \cup reads)
      BY <1>6, <1>8, <2>3, <2>7, <2>8 DEF FlowsAt, ProverAt
    <2> QED  BY <1>4, <2>9
  <1>9. CASE w = "verifier"
    <2>1. VerifierAt(k, b, "sumcheck", x)
      BY <1>9 DEF FlowsAt
    <2>2. PICK last : last = x.prover
      OBVIOUS
    <2>3. /\ Works(k, LastBatch) /\ last = History(k)[LastBatch] /\ Works(k, 11) /\ last = History(k)[11]
      BY <2>1, <2>2 DEF VerifierAt, LastBatch
    <2>4. /\ Sound(k, last) /\ Sound(k, d) /\ GrowsTo(d, last) /\ Follows(k, a, d, last)
          /\ \A id : PointOf(a, id) = PointOf(d, id)
      BY <1>6, <1>9, <2>1, <2>2, VerifierThere
    <2>5. ss = Sumchecks(k, b, d)
      BY <2>4, SameSumchecks
    <2>6. b \in 1 .. 11 - 1 /\ b \in 1 .. 11
      OBVIOUS
    <2>7. Runnable(k, b)
      BY <2>3, <2>6 DEF Works
    <2>8. Sound(k, h) /\ Complete(k, b, h)
      BY <1>1, <2>3, <2>6, HistorySound
    <2>9. f = Flushing(e) /\ Sound(k, e)
      BY <1>1, <1>2, <1>3, <1>4, <1>5, <1>7, <2>7, <2>8, AfterSound
    <2>10. Left(ss) \in Seq(Openings(k))
      BY <1>1, <1>2, <1>7, <2>5, <2>8, DuringSound
    <2>11. ~Repeated("prover", d, Left(ss))
      BY <1>1, <1>2, <2>5, <2>7 DEF Runnable
    <2>12. e = AppendOpenings("prover", d, Left(ss))
      BY <1>3, <2>5 DEF Opened
    <2>13. GrowsTo(e, last)
      BY <1>1, <1>2, <1>3, <2>3, <2>6, HistoryGrows
    <2>14. PICK v : v = AppendOpenings("verifier", a, Left(ss))
      OBVIOUS
    <2>15. Follows(k, v, e, last)
      <3>1. EmptyAlone(k)
        BY EmptyIsAlone
      <3> QED  BY <2>4, <2>10, <2>11, <2>12, <2>13, <2>14, <3>1, VerifierFollowsAll
    <2>16. Follows(k, Flushing(v), f, last)
      BY <2>9, <2>15, FlushingFollows
    <2>17. y.prover = last /\ y.verifier = Flushing(v) /\ y[w] = Flushing(v)
      BY <1>9, <2>2, <2>14 DEF Roles
    <2>18. u \cup reads \subseteq DOMAIN Flushing(v).openings
      BY <1>7, <2>4, <2>16 DEF Follows
    <2>19. FlowsAt(k, w, n, "construct", y, u \cup reads)
      BY <1>6, <1>9, <2>3, <2>16, <2>17, <2>18 DEF FlowsAt, VerifierAt
    <2> QED  BY <1>4, <2>19
  <1> QED  BY <1>8, <1>9 DEF Roles

(* The proof is handed over.                                                *)
LEMMA TurnFlows ==
    ASSUME NEW k \in Wide, NEW x, DOMAIN x = Roles, NEW u, FlowsAt(k, "prover", 11, "construct", x, u),
           NEW y, y = [x EXCEPT !.verifier = Given(x.prover)]
    PROVE  FlowsAt(k, "verifier", 1, "construct", y, {})
  <1>1. PICK last : last = History(k)[11]
    OBVIOUS
  <1>2. Works(k, 11) /\ x.prover = last
    BY <1>1 DEF FlowsAt, ProverAt, Current
  <1>3. Sound(k, last)
    BY <1>1, <1>2, HistorySound
  <1>4. Follows(k, Given(last), NoOpenings, last)
    BY <1>3, GivenFollows
  <1>5. Current(k, 1, "construct") = NoOpenings
    BY HistoryStepByStep DEF Current
  <1>6. y.prover = last /\ y.verifier = Given(last)
    BY <1>2 DEF Roles
  <1> QED  BY <1>1, <1>2, <1>4, <1>5, <1>6 DEF FlowsAt, VerifierAt, LastBatch

(* What follows for the types, the points and the claims                    *)
LEMMA FlowsTyped ==
    ASSUME NEW k \in Wide, NEW w \in Roles, NEW b \in 1 .. 11, NEW p \in {"construct", "sumcheck"},
           p = "sumcheck" => b < 11, NEW x, NEW u, FlowsAt(k, w, b, p, x, u)
    PROVE  \A r \in Roles : /\ ToSet(x[r].index) \subseteq DOMAIN x[r].openings
                            /\ DOMAIN x[r].aliases \cap DOMAIN x[r].openings = {}
  <1>1. ASSUME NEW a, Sound(k, a)
        PROVE  ToSet(a.index) \subseteq DOMAIN a.openings /\ DOMAIN a.aliases \cap DOMAIN a.openings = {}
    BY <1>1 DEF Sound, ToSet
  <1>2. CASE w = "prover"
    <2>1. Works(k, b) /\ x["prover"] = Current(k, b, p) /\ x["verifier"] = NoOpenings
      BY <1>2 DEF FlowsAt, ProverAt
    <2>2. p = "sumcheck" => b < 11 /\ Constructible(k, b)
      BY DEF FlowsAt
    <2>3. Sound(k, Current(k, b, p))
      BY <2>1, <2>2, ProverThere
    <2>4. Sound(k, NoOpenings)
      BY NothingSound
    <2> QED  BY <1>1, <2>1, <2>3, <2>4 DEF Roles
  <1>3. CASE w = "verifier"
    <2>1. VerifierAt(k, b, p, x)
      BY <1>3 DEF FlowsAt
    <2>2. PICK last : last = x["prover"]
      OBVIOUS
    <2>3. PICK v : v = x["verifier"]
      OBVIOUS
    <2>4. PICK d : d = Current(k, b, p)
      OBVIOUS
    <2>5. Sound(k, last) /\ Sound(k, d) /\ GrowsTo(d, last) /\ Follows(k, v, d, last)
      BY <2>1, <2>2, <2>3, <2>4, VerifierThere
    <2>6. DOMAIN v.aliases \cap DOMAIN v.openings = {}
      BY <2>5, FollowsDirect
    <2>7. ToSet(v.index) \subseteq DOMAIN v.openings
      BY <2>5 DEF Follows, GrowsTo, ToSet
    <2> QED  BY <1>1, <2>2, <2>3, <2>5, <2>6, <2>7 DEF Roles
  <1> QED  BY <1>2, <1>3 DEF Roles
(* The verifier has no other openings, points or aliases than the prover.   *)
AgreeIn(x) ==
    /\ \A id \in DOMAIN x.verifier.openings :
          /\ id \in DOMAIN x.prover.openings
          /\ x.verifier.openings[id].point \in {NoPoint, x.prover.openings[id].point}
    /\ \A id \in DOMAIN x.verifier.aliases :
          id \in DOMAIN x.prover.aliases /\ x.verifier.aliases[id] = x.prover.aliases[id]

(* While the verifier runs, its openings are the prover's.                  *)
LEMMA FlowsOpenings ==
    ASSUME NEW k \in Wide, NEW b \in 1 .. 11, NEW p \in {"construct", "sumcheck"},
           p = "sumcheck" => b < 11, NEW x, NEW u, FlowsAt(k, "verifier", b, p, x, u)
    PROVE  AgreeIn(x)
  <1>1. VerifierAt(k, b, p, x)
    BY DEF FlowsAt
  <1>2. PICK last : last = x.prover
    OBVIOUS
  <1>3. PICK v : v = x.verifier
    OBVIOUS
  <1>4. PICK d : d = Current(k, b, p)
    OBVIOUS
  <1>5. Sound(k, last) /\ Sound(k, d) /\ GrowsTo(d, last) /\ Follows(k, v, d, last)
    BY <1>1, <1>2, <1>3, <1>4, VerifierThere
  <1>6. \A id \in DOMAIN v.openings :
           id \in DOMAIN last.openings /\ v.openings[id].point \in {NoPoint, last.openings[id].point}
    BY <1>5 DEF Follows, Sound
  <1>7. \A id \in DOMAIN v.aliases : id \in DOMAIN last.aliases /\ v.aliases[id] = last.aliases[id]
    BY <1>5 DEF Follows, GrowsTo
  <1> QED  BY <1>2, <1>3, <1>6, <1>7 DEF AgreeIn

(* When the sumchecks of a batch are to run, they are those of a sound      *)
(* accumulator of the history that knows what they start from.              *)
LEMMA FlowsPoints ==
    ASSUME NEW k \in Wide, NEW w \in Roles, NEW b \in 1 .. 10, NEW x, NEW u, FlowsAt(k, w, b, "sumcheck", x, u)
    PROVE  \E d : /\ Sound(k, d) /\ Sumchecks(k, b, x[w]) = Sumchecks(k, b, d)
                  /\ NeedsKnown(d, Sumchecks(k, b, d)) /\ AllFit(k, d, Sumchecks(k, b, d))
                  /\ \A id : Has(d, id) => /\ PointOf(x[w], id) = Where(k, id)
                                           /\ PointOf(x.prover, id) = Where(k, id)
  <1>1. PICK d : d = Current(k, b, "sumcheck")
    OBVIOUS
  <1>2. b \in 1 .. 11 /\ "sumcheck" \in {"construct", "sumcheck"} /\ b < 11
    OBVIOUS
  <1>3. Constructible(k, b)
    BY DEF FlowsAt
  <1>4. CASE w = "prover"
    <2>1. Works(k, b) /\ x[w] = d /\ x.prover = d
      BY <1>1, <1>4 DEF FlowsAt, ProverAt
    <2>2. Sound(k, d) /\ NeedsKnown(d, Sumchecks(k, b, d)) /\ AllFit(k, d, Sumchecks(k, b, d))
      BY <1>1, <1>2, <1>3, <2>1, ProverThere
    <2>3. \A id : Has(d, id) => PointOf(d, id) = Where(k, id)
      BY <2>2, SoundKnows
    <2> QED  BY <2>1, <2>2, <2>3
  <1>5. CASE w = "verifier"
    <2>1. VerifierAt(k, b, "sumcheck", x)
      BY <1>5 DEF FlowsAt
    <2>2. PICK last : last = x.prover
      OBVIOUS
    <2>3. Sound(k, last) /\ Sound(k, d) /\ GrowsTo(d, last) /\ \A id : PointOf(x[w], id) = PointOf(d, id)
      BY <1>1, <1>2, <1>5, <2>1, <2>2, VerifierThere
    <2>4. Works(k, 11)
      BY <2>1 DEF VerifierAt, LastBatch
    <2>5. NeedsKnown(d, Sumchecks(k, b, d)) /\ AllFit(k, d, Sumchecks(k, b, d))
      BY <1>1, <1>2, <1>3, <2>4, ProverThere
    <2>6. Sumchecks(k, b, x[w]) = Sumchecks(k, b, d)
      BY <2>3, SameSumchecks
    <2>7. \A id : Has(d, id) => PointOf(d, id) = Where(k, id) /\ PointOf(last, id) = Where(k, id)
      BY <2>3, SoundKnows, KnowsMore
    <2> QED  BY <2>2, <2>3, <2>5, <2>6, <2>7
  <1> QED  BY <1>4, <1>5 DEF Roles

(* A set whose members are all one has at most one.                         *)
LEMMA AtMostOne ==
    ASSUME NEW S, NEW p, \A x \in S : x = p
    PROVE  Cardinality(S) <= 1
  <1>1. S \subseteq {p}
    OBVIOUS
  <1>2. IsFiniteSet({p}) /\ Cardinality({p}) = 1
    BY FS_Singleton
  <1> QED  BY <1>1, <1>2, FS_Subset

(* When the sumchecks of a batch are to run, they find the points they      *)
(* start from, the same as the prover's, and what they fold is in one       *)
(* place.                                                                   *)
LEMMA FlowsFind ==
    ASSUME NEW k \in Wide, NEW w \in Roles, NEW b \in 1 .. 10, NEW x, NEW u, FlowsAt(k, w, b, "sumcheck", x, u)
    PROVE  /\ \A s \in ToSet(Sumchecks(k, b, x[w])) : \A id \in ToSet(s.needs) :
                 PointOf(x[w], id) \in {PointOf(x.prover, id)} \ {NoPoint}
           /\ \A s \in ToSet(Sumchecks(k, b, x[w])) : \A together \in ToSet(s.alike) :
                 Cardinality({PointOf(x[w], id)[together.part] : id \in together.ids}) <= 1
  <1>1. PICK d : /\ Sound(k, d) /\ Sumchecks(k, b, x[w]) = Sumchecks(k, b, d)
                 /\ NeedsKnown(d, Sumchecks(k, b, d)) /\ AllFit(k, d, Sumchecks(k, b, d))
                 /\ \A id : Has(d, id) => /\ PointOf(x[w], id) = Where(k, id)
                                          /\ PointOf(x.prover, id) = Where(k, id)
    BY FlowsPoints
  <1> DEFINE ss == Sumchecks(k, b, d)
  <1>2. \A s \in ToSet(ss) : Knows(d, s.needs) /\ Fits(k, d, s)
    BY <1>1 DEF ToSet, NeedsKnown, AllFit
  <1>3. ASSUME NEW s \in ToSet(ss), NEW id \in ToSet(s.needs)
        PROVE  PointOf(x[w], id) \in {PointOf(x.prover, id)} \ {NoPoint}
    <2>1. PICK i \in DOMAIN s.needs : id = s.needs[i]
      BY DEF ToSet
    <2>2. Has(d, id) /\ id.at \notin PrecommittedStages
      BY <1>2, <2>1 DEF Knows, Fits
    <2>3. Where(k, id) # NoPoint
      BY <2>2, NotEmpty
    <2> QED  BY <1>1, <2>2, <2>3
  <1>4. ASSUME NEW s \in ToSet(ss), NEW together \in ToSet(s.alike)
        PROVE  Cardinality({PointOf(x[w], id)[together.part] : id \in together.ids}) <= 1
    <2>1. PICK i \in DOMAIN s.alike : together = s.alike[i]
      BY DEF ToSet
    <2>2. Meets(k, d, together.ids, together.part)
      BY <1>2, <2>1 DEF Fits
    <2>3. PICK p : \A id \in together.ids : Has(d, id) /\ Where(k, id)[together.part] = p
      BY <2>2 DEF Meets
    <2>4. \A id \in together.ids : PointOf(x[w], id)[together.part] = p
      BY <1>1, <2>3
    <2> QED  BY <2>4, AtMostOne
  <1> QED  BY <1>1, <1>3, <1>4

(* Without one-word advice, no configuration has any.                       *)
LEMMA WideIs ==
    ASSUME 0 \notin AdviceVars
    PROVE  Configurations \subseteq Wide
  <1> SUFFICES ASSUME NEW k \in Configurations PROVE k \in Wide
    OBVIOUS
  <1>1. PICK l \in Layouts, t \in LogTs, n \in LogKs, tr \in AdviceVars \cup {Absent},
             un \in AdviceVars \cup {Absent}, al \in BOOLEAN,
             p \in {FullMode} \cup [chunkVars : ChunkVars, image : ImageVars] :
                k = [layout |-> l, logT |-> t, logK |-> n, trusted |-> tr, untrusted |-> un,
                     chunks |-> Chunks, chunkVars |-> p.chunkVars, image |-> p.image, aligned |-> al]
    BY DEF Configurations
  <1>2. k.trusted = tr /\ k.untrusted = un
    BY <1>1
  <1> QED  BY <1>2 DEF Wide, Absent

(* The invariant holds at the start.                                        *)
LEMMA FlowStarts == 0 \notin AdviceVars /\ FlowInit => FlowInv
  <1> SUFFICES ASSUME 0 \notin AdviceVars, FlowInit PROVE FlowInv
    OBVIOUS
  <1>1. c \in Wide
    BY WideIs DEF FlowInit
  <1>2. /\ who = "prover" /\ batch = 1 /\ phase = "construct"
        /\ acc = [prover |-> NoOpenings, verifier |-> NoOpenings]
        /\ DOMAIN transcript = Roles /\ used = {} /\ verdict = "running"
    BY DEF FlowInit, Roles
  <1>3. FlowTyped
    BY <1>1, <1>2 DEF FlowTyped, Roles, LastBatch
  <1>4. acc.prover = NoOpenings /\ acc.verifier = NoOpenings
    BY <1>2
  <1>5. Works(c, 1) /\ Current(c, 1, "construct") = NoOpenings
    BY HistoryStepByStep DEF Works, Current
  <1> QED  BY <1>2, <1>3, <1>4, <1>5 DEF FlowInv, FlowsAt, ProverAt

(* Nothing is missing when everything is known.                             *)
LEMMA MissingIs == \A a, ids : ~Missing(a, ids) <=> Knows(a, ids)
  BY DEF Missing, Knows

(* Setting a batch up keeps the invariant, whatever is missing or appended  *)
(* twice.                                                                   *)
LEMMA ConstructKeeps == FlowInv /\ Construct => FlowInv'
  <1> SUFFICES ASSUME FlowInv, Construct PROVE FlowInv'
    OBVIOUS
  <1>1. PICK a : a = acc[who]
    OBVIOUS
  <1>2. /\ c \in Wide /\ who \in Roles /\ batch \in 1 .. 10 /\ phase = "construct" /\ DOMAIN acc = Roles
        /\ FlowsAt(c, who, batch, "construct", acc, used)
    BY DEF FlowInv, FlowTyped, Construct, LastBatch
  <1>3. CASE Stop("panicked")
    BY <1>3 DEF FlowInv, FlowTyped, Stop
  <1>4. CASE ~Stop("panicked")
    <2>1. /\ Knows(a, StartOf(batch)) /\ NeedsKnown(a, Sumchecks(c, batch, a))
          /\ ~Repeated(who, a, Between(c, batch, a))
      BY <1>1, <1>4, MissingIs DEF Construct, NeedsKnown
    <2>2. /\ acc' = [acc EXCEPT ![who] = AppendOpenings(who, a, Between(c, batch, a))]
          /\ DOMAIN transcript' = DOMAIN transcript /\ phase' = "sumcheck"
          /\ c' = c /\ who' = who /\ batch' = batch /\ used' = used /\ verdict' = verdict
      BY <1>1, <1>4 DEF Construct
    <2>3. PICK y : y = acc'
      OBVIOUS
    <2>4. FlowsAt(c, who, batch, "sumcheck", y, used)
      BY <1>1, <1>2, <2>1, <2>2, <2>3, ConstructFlows
    <2>5. FlowsAt(c, who, batch, phase, acc, used)'
      BY <2>2, <2>3, <2>4
    <2>6. FlowTyped'
      BY <1>2, <2>2 DEF FlowInv, FlowTyped, LastBatch
    <2> QED  BY <2>5, <2>6 DEF FlowInv
  <1> QED  BY <1>3, <1>4

(* Running a batch keeps the invariant.                                     *)
LEMMA RunKeeps == FlowInv /\ RunSumchecks => FlowInv'
  <1> SUFFICES ASSUME FlowInv, RunSumchecks PROVE FlowInv'
    OBVIOUS
  <1> DEFINE a == acc[who]
             ss == Sumchecks(c, batch, a)
             reads == UNION {{ResolveAlias(a, id) : id \in ToSet(ss[i].reads)} : i \in DOMAIN ss}
             opened == AppendOpenings(who, a, Left(ss))
             t == transcript[who] \o (IF UniSkip THEN <<>> ELSE InputClaims(a, ss))
                  \o <<<<"rounds", batch>>>> \o Flushed(opened)
  <1>2. /\ c \in Wide /\ who \in Roles /\ batch \in 1 .. 10 /\ phase = "sumcheck" /\ DOMAIN acc = Roles
        /\ FlowsAt(c, who, batch, "sumcheck", acc, used)
    BY DEF FlowInv, FlowTyped, RunSumchecks, LastBatch
  <1>3. CASE Stop("panicked")
    BY <1>3 DEF FlowInv, FlowTyped, Stop
  <1>4. CASE ~Stop("panicked")
    <2>1. /\ ~(\E i \in DOMAIN ss : Missing(a, ss[i].reads))
          /\ ~Repeated(who, a, Left(ss))
      BY <1>4, Zenon DEF RunSumchecks
    <2>2. /\ acc' = [acc EXCEPT ![who] = Flushing(opened)]
          /\ transcript' = [transcript EXCEPT ![who] = t]
          /\ verdict' = IF Diverged(t) \/ ~ExpectedOutputs(opened, ss) THEN "rejected" ELSE verdict
          /\ used' = used \cup reads
          /\ batch' = batch + 1
          /\ phase' = "construct"
          /\ UNCHANGED <<c, who>>
      BY <1>4, Zenon DEF RunSumchecks
    <2>3. (\A i \in DOMAIN ss : Knows(a, ss[i].reads)) /\ ~Repeated(who, a, Left(ss))
      BY <2>1, MissingIs
    <2> HIDE DEF t, reads, ss
    <2>4. /\ acc' = [acc EXCEPT ![who] = Flushing(AppendOpenings(who, a, Left(ss)))]
          /\ DOMAIN transcript' = DOMAIN transcript /\ phase' = "construct"
          /\ c' = c /\ who' = who /\ batch' = batch + 1 /\ used' = used \cup reads
          /\ verdict' \in {"rejected", verdict}
      <3> HIDE DEF a
      <3> QED  BY <2>2
    <2>5. reads \subseteq DOMAIN a.openings
      BY <2>3, ReadsKnown DEF reads
    <2>6. PICK y : y = acc'
      OBVIOUS
    <2>7. FlowsAt(c, who, batch + 1, "construct", y, used \cup reads)
      BY <1>2, <2>3, <2>4, <2>5, <2>6, RunFlows DEF ss
    <2>8. FlowsAt(c, who, batch, phase, acc, used)'
      BY <2>4, <2>6, <2>7
    <2>9. FlowTyped'
      BY <1>2, <2>4 DEF FlowInv, FlowTyped, LastBatch
    <2> QED  BY <2>8, <2>9 DEF FlowInv
  <1> QED  BY <1>3, <1>4

(* Opening what is committed keeps the invariant: the prover hands its      *)
(* proof over, the verifier ends.                                           *)
LEMMA OpenKeeps == FlowInv /\ OpenCommitments => FlowInv'
  <1> SUFFICES ASSUME FlowInv, OpenCommitments PROVE FlowInv'
    OBVIOUS
  <1>1. PICK a : a = acc[who]
    OBVIOUS
  <1>2. /\ c \in Wide /\ who \in Roles /\ batch = 11 /\ phase = "construct" /\ DOMAIN acc = Roles
        /\ FlowsAt(c, who, 11, "construct", acc, used)
    <2>1. batch = 11
      BY DEF OpenCommitments, LastBatch
    <2>2. phase = "construct"
      BY <2>1 DEF FlowInv, FlowTyped, LastBatch
    <2> QED  BY <2>1, <2>2 DEF FlowInv, FlowTyped
  <1>3. CASE Stop("panicked") \/ Stop("rejected")
    BY <1>3 DEF FlowInv, FlowTyped, Stop
  <1>4. CASE ~(Stop("panicked") \/ Stop("rejected"))
    <2>1. PICK ids : ids = Stage8OpeningIds(c)
      OBVIOUS
    <2>2. PICK last : last = {ResolveAlias(a, ids[i]) : i \in DOMAIN ids}
      OBVIOUS
    <2>3. /\ Knows(a, ids)
          /\ acc' = IF who = "prover" THEN [acc EXCEPT !.verifier = Given(a)] ELSE acc
          /\ DOMAIN transcript' = DOMAIN transcript /\ phase' = phase /\ c' = c
          /\ used' = IF who = "prover" THEN {} ELSE used \cup last
          /\ batch' = IF who = "prover" THEN 1 ELSE batch
          /\ verdict' \in {"running", "accepted"} /\ who' = "verifier"
      BY <1>1, <1>4, <2>1, <2>2, MissingIs DEF OpenCommitments
    <2>4. FlowTyped'
      BY <1>2, <2>3 DEF FlowInv, FlowTyped, LastBatch, Roles
    <2>5. PICK y : y = acc'
      OBVIOUS
    <2>6. CASE who = "prover"
      <3>1. y = [acc EXCEPT !.verifier = Given(acc.prover)] /\ FlowsAt(c, "prover", 11, "construct", acc, used)
        BY <1>1, <1>2, <2>3, <2>5, <2>6
      <3>2. FlowsAt(c, "verifier", 1, "construct", y, {})
        BY <1>2, <3>1, TurnFlows
      <3>3. FlowsAt(c, who, batch, phase, acc, used)'
        BY <1>2, <2>3, <2>5, <2>6, <3>2
      <3> QED  BY <2>4, <3>3 DEF FlowInv
    <2>7. CASE who = "verifier"
      <3>1. last \subseteq DOMAIN a.openings
        BY <2>2, <2>3 DEF Knows, Has
      <3>2. FlowsAt(c, "verifier", 11, "construct", acc, used \cup last)
        BY <1>1, <1>2, <2>7, <3>1 DEF FlowsAt
      <3>3. FlowsAt(c, who, batch, phase, acc, used)'
        BY <1>2, <2>3, <2>7, <3>2
      <3> QED  BY <2>4, <3>3 DEF FlowInv
    <2> QED  BY <1>2, <2>6, <2>7 DEF Roles
  <1> QED  BY <1>3, <1>4

(* The invariant implies that the points agree.                             *)
LEMMA FlowInvAgrees == FlowInv => PointsAgree
  <1> SUFFICES ASSUME FlowInv PROVE PointsAgree
    OBVIOUS
  <1>1. /\ c \in Wide /\ who \in Roles /\ batch \in 1 .. 11 /\ phase \in {"construct", "sumcheck"}
        /\ (phase = "sumcheck" => batch < 11) /\ DOMAIN acc = Roles /\ DOMAIN transcript = Roles
        /\ verdict \in {"running", "accepted", "rejected", "panicked"}
        /\ FlowsAt(c, who, batch, phase, acc, used)
    BY DEF FlowInv, FlowTyped, LastBatch
  <1>2. FlowTypeOK
    <2>1. \A r \in Roles : /\ ToSet(acc[r].index) \subseteq DOMAIN acc[r].openings
                           /\ DOMAIN acc[r].aliases \cap DOMAIN acc[r].openings = {}
      BY <1>1, FlowsTyped
    <2>2. used \subseteq DOMAIN acc[who].openings /\ c \in Configurations
      BY <1>1 DEF FlowsAt, Wide
    <2> QED  BY <1>1, <2>1, <2>2 DEF FlowTypeOK, LastBatch
  <1>3. OpeningsAgree
    <2>1. who = "verifier" => AgreeIn(acc)
      <3> HAVE who = "verifier"
      <3>1. FlowsAt(c, "verifier", batch, phase, acc, used)
        BY <1>1
      <3> QED  BY <1>1, <3>1, FlowsOpenings
    <2> QED  BY <2>1 DEF OpeningsAgree, AgreeIn
  <1>4. PointsAreFound
    <2> SUFFICES ASSUME phase = "sumcheck"
                 PROVE  \A s \in ToSet(Sumchecks(c, batch, acc[who])) : \A id \in ToSet(s.needs) :
                           PointOf(acc[who], id) \in {PointOf(acc.prover, id)} \ {NoPoint}
      BY DEF PointsAreFound
    <2>1. batch \in 1 .. 10 /\ FlowsAt(c, who, batch, "sumcheck", acc, used)
      BY <1>1
    <2> QED  BY <1>1, <2>1, FlowsFind
  <1>5. ClaimsMeet
    <2> SUFFICES ASSUME phase = "sumcheck"
                 PROVE  \A s \in ToSet(Sumchecks(c, batch, acc[who])) : \A together \in ToSet(s.alike) :
                           Cardinality({PointOf(acc[who], id)[together.part] : id \in together.ids}) <= 1
      BY DEF ClaimsMeet
    <2>1. batch \in 1 .. 10 /\ FlowsAt(c, who, batch, "sumcheck", acc, used)
      BY <1>1
    <2> QED  BY <1>1, <2>1, FlowsFind
  <1> QED  BY <1>2, <1>3, <1>4, <1>5 DEF PointsAgree

(* For every layout, trace length, memory size, bytecode chunk count and    *)
(* size of what is precommitted: in every state of the two runs, the        *)
(* verifier's openings and aliases are the prover's, a sumcheck finds every *)
(* point it starts from and finds the point the prover used, and the claims *)
(* it folds into one are at one point. Advice of one word is left out: it   *)
(* has no variables and its openings are at the empty point, which the      *)
(* verifier takes for a missing one, and its openings do then differ.       *)
THEOREM PointsAlwaysAgree ==
    ASSUME 0 \notin AdviceVars
    PROVE  FlowSpec => []PointsAgree
  <1>1. FlowInit => FlowInv
    BY FlowStarts
  <1>2. FlowInv /\ [FlowNext]_flowVars => FlowInv'
    <2> SUFFICES ASSUME FlowInv, [FlowNext]_flowVars PROVE FlowInv'
      OBVIOUS
    <2>1. CASE Accepted \/ UNCHANGED flowVars
      BY <2>1 DEF Accepted, flowVars, FlowInv, FlowTyped
    <2> QED  BY <2>1, ConstructKeeps, RunKeeps, OpenKeeps DEF FlowNext
  <1>3. FlowInv => PointsAgree
    BY FlowInvAgrees
  <1> QED  BY <1>1, <1>2, <1>3, PTL DEF FlowSpec
=============================================================================
