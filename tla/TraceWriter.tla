----------------------------- MODULE TraceWriter ----------------------------
(***************************************************************************)
(* TraceBatchCollector and TraceWriter of tracer/src/utils/trace_writer.rs *)
(* as trace_to_file uses them: one thread pushes trace rows, which are     *)
(* sent in batches through a bounded channel to a thread that writes them  *)
(* to a file.  The file system may refuse to create, write or flush, and   *)
(* the tracer may panic, which drops the collector.                        *)
(*                                                                         *)
(* Row n of the trace is the number n.  written is what has been handed to *)
(* the BufWriter, file what has reached the file.                          *)
(***************************************************************************)
EXTENDS Integers, Sequences, SequencesExt

CONSTANTS Items,          \* the number of rows of the trace
          BatchSize,      \* config.batch_size
          ChannelDepth    \* config.channel_depth

ASSUME ItemsAssumption == Items \in Nat
ASSUME BatchSizeAssumption == BatchSize \in Nat \ {0}
ASSUME ChannelDepthAssumption == ChannelDepth \in Nat \ {0}

VARIABLES collector,   \* phase, current batch, total, the batch being sent
          channel,     \* the batches in the channel
          open,        \* the sender has not been dropped
          writer,      \* the writer thread: status and the chunk it holds
          written, file

vars == <<collector, channel, open, writer, written, file>>

(* The rows after the first a, up to row b; the whole trace of n rows. *)
Rows(a, b) == [i \in 1..(b - a) |-> a + i]
Trace(n)   == Rows(0, n)

Init ==
    /\ collector = [phase |-> "pushing", batch |-> <<>>, sending |-> <<>>,
                    total |-> 0, refused |-> FALSE]
    /\ channel = <<>> /\ open = TRUE
    /\ writer = [status |-> "creating", chunk |-> <<>>]
    /\ written = <<>> /\ file = <<>>

(* Mutant: the thread keeps the receiver after an error. *)
ReceivingUntilOk == writer.status # "ok"

Receiving == writer.status \notin {"ok", "failed"}

-----------------------------------------------------------------------------
(* The thread that pushes.                                                 *)

(* Mutant: a batch is sent one row late. *)
PushLate ==
    /\ collector.phase = "pushing"
    /\ collector.total < Items
    /\ LET batch == Append(collector.batch, collector.total + 1)
       IN  collector' =
             [collector EXCEPT
                !.total = @ + 1,
                !.batch = IF Len(batch) > BatchSize THEN <<>> ELSE batch,
                !.sending = IF Len(batch) > BatchSize THEN batch ELSE <<>>,
                !.phase = IF Len(batch) > BatchSize THEN "sending" ELSE @]
    /\ UNCHANGED <<channel, open, writer, written, file>>

Push ==
    /\ collector.phase = "pushing"
    /\ collector.total < Items
    /\ LET batch == Append(collector.batch, collector.total + 1)
       IN  collector' =
             [collector EXCEPT
                !.total = @ + 1,
                !.batch = IF Len(batch) >= BatchSize THEN <<>> ELSE batch,
                !.sending = IF Len(batch) >= BatchSize THEN batch ELSE <<>>,
                !.phase = IF Len(batch) >= BatchSize THEN "sending" ELSE @]
    /\ UNCHANGED <<channel, open, writer, written, file>>

(* Mutant: the last batch is not flushed. *)
FinalizeWithoutFlush ==
    /\ collector.phase = "pushing"
    /\ collector.total = Items
    /\ collector' = [collector EXCEPT !.batch = <<>>, !.sending = <<>>,
                                      !.phase = "flushing"]
    /\ UNCHANGED <<channel, open, writer, written, file>>

(* After the last row, finalize flushes what is left of a batch. *)
Finalize ==
    /\ collector.phase = "pushing"
    /\ collector.total = Items
    /\ collector' = [collector EXCEPT !.batch = <<>>, !.sending = collector.batch,
                                      !.phase = "flushing"]
    /\ UNCHANGED <<channel, open, writer, written, file>>

AfterSend ==
    IF collector.phase = "sending" THEN "pushing" ELSE "closing"

(* Mutant: the channel has no bound. *)
SendUnbounded ==
    /\ collector.phase \in {"sending", "flushing"}
    /\ \/ /\ collector.sending # <<>> /\ Receiving
          /\ channel' = Append(channel, collector.sending)
          /\ collector' = [collector EXCEPT !.phase = AfterSend,
                                            !.sending = <<>>]
       \/ /\ collector.sending # <<>> /\ ~Receiving
          /\ collector' = [collector EXCEPT !.phase = AfterSend,
                                            !.sending = <<>>, !.refused = TRUE]
          /\ UNCHANGED channel
       \/ /\ collector.sending = <<>>
          /\ collector' = [collector EXCEPT !.phase = AfterSend]
          /\ UNCHANGED channel
    /\ UNCHANGED <<open, writer, written, file>>

(* send blocks while the channel is full, and fails once the receiver is   *)
(* gone; a failure is only logged.                                         *)
Send ==
    /\ collector.phase \in {"sending", "flushing"}
    /\ \/ /\ collector.sending # <<>> /\ Receiving
          /\ Len(channel) < ChannelDepth
          /\ channel' = Append(channel, collector.sending)
          /\ collector' = [collector EXCEPT !.phase = AfterSend,
                                            !.sending = <<>>]
       \/ /\ collector.sending # <<>> /\ ~Receiving
          /\ collector' = [collector EXCEPT !.phase = AfterSend,
                                            !.sending = <<>>, !.refused = TRUE]
          /\ UNCHANGED channel
       \/ /\ collector.sending = <<>>
          /\ collector' = [collector EXCEPT !.phase = AfterSend]
          /\ UNCHANGED channel
    /\ UNCHANGED <<open, writer, written, file>>

Close ==
    /\ collector.phase = "closing"
    /\ open' = FALSE
    /\ collector' = [collector EXCEPT !.phase = "joining"]
    /\ UNCHANGED <<channel, writer, written, file>>

Join ==
    /\ collector.phase = "joining"
    /\ ~Receiving
    /\ collector' = [collector EXCEPT !.phase = writer.status]
    /\ UNCHANGED <<channel, open, writer, written, file>>

(* Mutant: a panic leaks the sender. *)
TracerPanicsLeaking ==
    /\ collector.phase = "pushing"
    /\ collector.total < Items
    /\ UNCHANGED open
    /\ collector' = [collector EXCEPT !.phase = "dropped", !.batch = <<>>]
    /\ UNCHANGED <<channel, writer, written, file>>

(* The tracer panics on a row: the collector is dropped, its batch with it,*)
(* and the writer thread is detached.                                      *)
TracerPanics ==
    /\ collector.phase = "pushing"
    /\ collector.total < Items
    /\ open' = FALSE
    /\ collector' = [collector EXCEPT !.phase = "dropped", !.batch = <<>>]
    /\ UNCHANGED <<channel, writer, written, file>>

-----------------------------------------------------------------------------
(* The writer thread.  A BufWriter may spill any part of what it holds.    *)

Spills(ws) ==
    \E n \in Len(file)..Len(ws) : file' = SubSeq(ws, 1, n)

Create ==
    /\ writer.status = "creating"
    /\ writer' = [writer EXCEPT !.status = "receiving"]
    /\ UNCHANGED <<collector, channel, open, written, file>>

(* recv gives the queued batches first, and ends when none is left and the *)
(* sender is gone.                                                         *)
Receive ==
    /\ writer.status = "receiving"
    /\ \/ /\ channel # <<>>
          /\ writer' = [status |-> "writing", chunk |-> Head(channel)]
          /\ channel' = Tail(channel)
       \/ /\ channel = <<>> /\ ~open
          /\ writer' = [writer EXCEPT !.status = "closing"]
          /\ UNCHANGED channel
    /\ UNCHANGED <<collector, open, written, file>>

Write ==
    /\ writer.status = "writing"
    /\ written' = written \o writer.chunk
    /\ Spills(written')
    /\ writer' = [status |-> "receiving", chunk |-> <<>>]
    /\ UNCHANGED <<collector, channel, open>>

Flush ==
    /\ writer.status = "closing"
    /\ file' = written
    /\ writer' = [writer EXCEPT !.status = "ok"]
    /\ UNCHANGED <<collector, channel, open, written>>

(* Mutant: a batch that cannot be written is skipped. *)
FailContinuing ==
    /\ writer.status \in {"creating", "writing", "closing"}
    /\ Spills(written \o writer.chunk)
    /\ writer' = [status |-> "receiving", chunk |-> <<>>]
    /\ UNCHANGED channel
    /\ UNCHANGED <<collector, open, written>>

(* An I/O error ends the thread: the receiver goes, with the batches in    *)
(* the channel; the BufWriter tries to write out what it holds.            *)
Fail ==
    /\ writer.status \in {"creating", "writing", "closing"}
    /\ Spills(written \o writer.chunk)
    /\ writer' = [status |-> "failed", chunk |-> <<>>]
    /\ channel' = <<>>
    /\ UNCHANGED <<collector, open, written>>

-----------------------------------------------------------------------------
Collect == Push \/ Finalize \/ Send \/ Close \/ Join
WriterStep == Create \/ Receive \/ Write \/ Flush

Next == Collect \/ TracerPanics \/ WriterStep \/ Fail

(* Both threads are scheduled; nothing need ever fail. *)
Spec == Init /\ [][Next]_vars /\ WF_vars(Collect) /\ WF_vars(WriterStep)

-----------------------------------------------------------------------------
(* Properties.                                                             *)

Statuses == {"creating", "receiving", "writing", "closing", "ok", "failed"}
Phases   == {"pushing", "sending", "flushing", "closing", "joining",
             "ok", "failed", "dropped"}

Collector == [phase : Phases, batch : Seq(1..Items), sending : Seq(1..Items),
              total : 0..Items, refused : BOOLEAN]
Writer    == [status : Statuses, chunk : Seq(1..Items)]

(* at[k] rows come before the k-th place of the channel, and sent rows     *)
(* before the first free place.                                            *)
Places == Len(channel) + 1
QueuedAt(at, sent) ==
    /\ at[1] = Len(written) + Len(writer.chunk)
    /\ at[Places] = sent
    /\ \A k \in 1..Len(channel) : /\ channel[k] = Rows(at[k], at[k + 1])
                                   /\ at[k + 1] - at[k] \in 0..BatchSize
    /\ \A k \in 1..Places : at[k] <= sent /\ sent - at[k] <= (Places - k) * BatchSize

(* The rows pushed after sent of them are being sent or in the batch; a    *)
(* collector that was dropped has lost less than a batch.                  *)
HeldAfter(sent) ==
    LET total   == collector.total
        flushed == sent + Len(collector.sending)
    IN  IF collector.phase = "dropped"
        THEN sent <= total /\ total < sent + BatchSize
        ELSE /\ collector.sending = Rows(sent, flushed)
             /\ collector.batch = Rows(flushed, total)
             /\ flushed + Len(collector.batch) = total

(* The types, and where the rows are: those pushed are, in order, written, *)
(* with the writer, in the channel, being sent and in the batch, as long   *)
(* as the writer thread runs.                                              *)
TypeOK ==
    /\ collector \in Collector
    /\ writer \in Writer
    /\ open \in BOOLEAN
    /\ Len(channel) <= ChannelDepth
    /\ Len(collector.batch) < BatchSize
    /\ Receiving =>
          /\ written = Trace(Len(written))
          /\ writer.chunk = Rows(Len(written), Len(written) + Len(writer.chunk))
          /\ \E sent \in 0..collector.total, at \in [1..Places -> 0..Items] :
                QueuedAt(at, sent) /\ HeldAfter(sent)

(* Whatever fails and whenever, the file never has a gap or a repetition:  *)
(* a lost batch is never followed by a later one.                          *)
FileIsPrefix == IsPrefix(file, Trace(collector.total))

(* finalize returns Ok(total) only when every row pushed is in the file,   *)
(* although a send that fails on the way is only logged.                   *)
OkMeansComplete ==
    collector.phase = "ok" =>
        file = Trace(Items) /\ collector.total = Items /\ ~collector.refused

(* The memory bound of the channel: the rows pushed and not yet written    *)
(* fill at most the channel and two batches more.                          *)
BoundedBacklog ==
    Receiving =>
        collector.total - Len(written) <= (ChannelDepth + 2) * BatchSize

(* The collector never waits for ever, neither in a send on a full channel *)
(* nor in join, whatever becomes of the writer thread.                     *)
CollectorReturns == <>(collector.phase \in {"ok", "failed", "dropped"})

(* A dropped collector leaves a thread that ends, too.                     *)
WriterEnds == <>~Receiving

(* Neither thread is left behind: the collector returns and the writer     *)
(* ends.                                                                   *)
ThreadsEnd == CollectorReturns /\ WriterEnds
=============================================================================
