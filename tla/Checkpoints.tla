----------------------------- MODULE Checkpoints ----------------------------
(***************************************************************************)
(* Checkpoints of tracer/src/lib.rs: a CheckpointingTracer saves, chunk by *)
(* chunk, what is needed to replay the chunk (the processor at its start   *)
(* and the memory cells it touches), and a Checkpoint replays it.          *)
(*                                                                         *)
(* The caller is any caller of the interface, which steps, starts saving,  *)
(* saves and replays as it likes, or the loop of trace_checkpoints.        *)
(* Chunks may begin and end inside the rows of one tick.                   *)
(***************************************************************************)
EXTENDS GuestExecution

CONSTANTS StartRows,        \* the rows at which the caller starts saving
          Intervals,        \* the checkpoint intervals of trace_checkpoints
          MaxCheckpoints    \* bound on the checkpoints of a free caller

ASSUME StartRowsAssumption == StartRows \subseteq Nat
ASSUME IntervalsAssumption == Intervals \subseteq Nat \ {0}
ASSUME MaxCheckpointsAssumption == MaxCheckpoints \in Nat

VARIABLES image,         \* the memory the guest was loaded with
          tracer,        \* the CheckpointingTracer
          produced,      \* the rows it has returned
          chunkStart,    \* produced when saving was last started or done
          checkpoints,   \* the checkpoints saved, with the rows they stand for
          replay,        \* the replay that is going on, or <<>>
          loop           \* trace_checkpoints: its interval (0: a free caller),
                         \* and whether it is over

vars == <<image, tracer, produced, chunkStart, checkpoints, replay, loop>>

FreeCaller == loop.interval = 0

(* trace_checkpoints starts saving before it pulls the first row.          *)
Init ==
    /\ image \in Images
    /\ \E n \in {0} \cup Intervals : loop = [interval |-> n, over |-> FALSE]
    /\ tracer = IF FreeCaller THEN NewTracer(image, Entry)
                ELSE StartSavingCheckpoints(NewTracer(image, Entry))
    /\ produced = 0 /\ chunkStart = 0
    /\ checkpoints = <<>> /\ replay = <<>>

(* The iterator's next: nothing once the tracer has terminated. *)
Step ==
    /\ replay = <<>>
    /\ ~tracer.finished
    /\ CanStep(tracer)
    /\ tracer' = LazyStep(tracer)
    /\ produced' = produced + Len(NextRow(tracer))
    /\ UNCHANGED <<image, chunkStart, checkpoints, replay, loop>>

StartSaving ==
    /\ replay = <<>>
    /\ produced \in StartRows
    /\ tracer' = StartSavingCheckpoints(tracer)
    /\ chunkStart' = produced
    /\ UNCHANGED <<image, produced, checkpoints, replay, loop>>

Save ==
    /\ replay = <<>>
    /\ tracer.emu.saving
    /\ checkpoints' = Append(checkpoints, [first |-> chunkStart, end |-> produced,
                                           state |-> CheckpointOf(tracer)])
    /\ tracer' = SaveCheckpoint(tracer)
    /\ chunkStart' = produced
    /\ UNCHANGED <<image, produced, replay>>

SaveAtWill ==
    /\ Len(checkpoints) < MaxCheckpoints
    /\ Save
    /\ UNCHANGED loop

-----------------------------------------------------------------------------
(* A replay iterates over a copy of a checkpoint until it has terminated.  *)

Replay(k) ==
    /\ replay = <<>>
    /\ replay' = [of |-> k, state |-> checkpoints[k].state, rows |-> <<>>,
                  status |-> "running"]
    /\ UNCHANGED <<image, tracer, produced, chunkStart, checkpoints, loop>>

(* A word that does not decode panics.  A tick without rows gives None. *)
ReplayRow ==
    /\ replay # <<>> /\ replay.status = "running"
    /\ replay.state.remaining # 0
    /\ replay' = IF ~CanStep(replay.state)
                 THEN [replay EXCEPT !.status = "panicked"]
                 ELSE IF NextRow(replay.state) = <<>>
                 THEN [replay EXCEPT !.status = "ended"]
                 ELSE [replay EXCEPT !.state = ReplayStep(@),
                                     !.rows = @ \o NextRow(replay.state)]
    /\ UNCHANGED <<image, tracer, produced, chunkStart, checkpoints, loop>>

ReplayEnd ==
    /\ replay # <<>> /\ replay.status = "running"
    /\ replay.state.remaining = 0
    /\ replay' = [replay EXCEPT !.status = "ended"]
    /\ UNCHANGED <<image, tracer, produced, chunkStart, checkpoints, loop>>

ReplayDropped ==
    /\ replay # <<>> /\ replay.status # "running"
    /\ replay' = <<>>
    /\ UNCHANGED <<image, tracer, produced, chunkStart, checkpoints, loop>>

Replaying ==
    \/ \E k \in DOMAIN checkpoints : Replay(k)
    \/ ReplayRow \/ ReplayEnd \/ ReplayDropped

CallAtWill == FreeCaller /\ (Step \/ StartSaving \/ SaveAtWill \/ Replaying)

-----------------------------------------------------------------------------
(* trace_checkpoints: start saving, then, until the tracer has terminated, *)
(* drop interval rows (fewer at the end) and save; its caller replays.     *)

Drop ==
    /\ ~loop.over
    /\ produced - chunkStart < loop.interval
    /\ Step

SaveChunk ==
    /\ ~loop.over
    /\ produced - chunkStart = loop.interval \/ tracer.finished
    /\ Save
    /\ loop' = [loop EXCEPT !.over = tracer.finished]

TraceCheckpoints ==
    ~FreeCaller /\ (Drop \/ SaveChunk \/ (loop.over /\ Replaying))

Next == CallAtWill \/ TraceCheckpoints

(* The loop runs on; a free caller may stop at any time.                   *)
Spec == Init /\ [][Next]_vars /\ WF_vars(~FreeCaller /\ (Drop \/ SaveChunk))

-----------------------------------------------------------------------------
(* Properties.                                                             *)

(* The types, and how far the tracer has come in the guest's rows.         *)
TypeOK ==
    /\ tracer.emu.mem \in [Address -> Nat] /\ tracer.emu.pc \in Address
    /\ DOMAIN tracer.emu.touched \subseteq Address
    /\ tracer.sinceCheckpoint \in 0..produced
    /\ chunkStart \in 0..produced
    /\ produced \in 0..Len(FullTrace(image))
    /\ tracer.finished => produced = Len(FullTrace(image))
    /\ \A k \in DOMAIN checkpoints :
          checkpoints[k].state.remaining \in Nat

(* A replay yields the rows of its chunk, no more, no fewer and unchanged, *)
(* although it runs on a memory of only the cells the chunk touched (what  *)
(* the doc comment of save_checkpoint promises).                           *)
ReplayFaithful ==
    /\ TypeOK
    /\ replay # <<>> =>
        LET chunk == SubSeq(FullTrace(image), checkpoints[replay.of].first + 1,
                            checkpoints[replay.of].end)
        IN  /\ replay.status # "panicked"
            /\ IsPrefix(replay.rows, chunk)
            /\ replay.status = "ended" => replay.rows = chunk

(* trace_checkpoints covers the trace: its chunks follow each other, all   *)
(* but the last hold interval rows, and together they are every row.       *)
ChunksCoverTrace ==
    ~FreeCaller =>
        /\ \A k \in DOMAIN checkpoints :
              /\ checkpoints[k].first = (k - 1) * loop.interval
              /\ k < Len(checkpoints) =>
                    checkpoints[k].end = k * loop.interval
              /\ checkpoints[k].state.remaining
                    = checkpoints[k].end - checkpoints[k].first
        /\ loop.over => checkpoints[Len(checkpoints)].end = Len(FullTrace(image))

(* trace_checkpoints returns.                                              *)
LoopEnds == (~FreeCaller) ~> loop.over
=============================================================================
