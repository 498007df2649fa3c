--------------------------- MODULE GuestExecution ---------------------------
(***************************************************************************)
(* What a guest does, independently of any tracer: the machine after each  *)
(* tick, the ticks up to the jump to itself, and all its trace rows.  The  *)
(* properties of the tracers compare against it.                           *)
(***************************************************************************)
EXTENDS LazyTracer, SequencesExt

CONSTANTS Images,     \* the guest memories that may be loaded
          Entry,      \* the entry address
          MaxTicks    \* no guest in Images ticks more often

ASSUME ImagesAssumption ==
    Images \subseteq [Address -> Nat] /\ Entry \in Address
ASSUME MaxTicksAssumption == MaxTicks \in Nat \ {0}

(* The rows that the properties quantify over.                             *)
TraceRow ==
    [at : Address \X Nat, to : Address \X Nat, jump : BOOLEAN,
     reg : {<<>>} \cup (Nat \X Nat),
     ram : {<<>>} \cup (Address \X Nat \X Nat)]

(* The machine, and the address of the last tick, after n ticks; the last  *)
(* machine again once the guest has halted.                                *)
After(image) ==
    LET m[n \in 0..MaxTicks] ==
            IF n = 0 THEN [emu |-> Booted(image, Entry), prevPc |-> 0]
            ELSE LET last == m[n - 1]
                 IN  IF last.prevPc = last.emu.pc THEN last
                     ELSE [emu |-> Tick(last.emu).emu, prevPc |-> last.emu.pc]
    IN  m

RowsOfTick(image, n) ==
    StepEmulator(After(image)[n - 1].emu, After(image)[n - 1].prevPc).rows

FullTrace(image) == FlattenSeq([n \in 1..MaxTicks |-> RowsOfTick(image, n)])

(* The number of rows up to and including tick n. *)
RowsUpTo(image, n) ==
    Len(FlattenSeq([i \in 1..n |-> RowsOfTick(image, i)]))

(* MaxTicks is enough: the guest has halted. *)
Halts(image) == After(image)[MaxTicks].prevPc = After(image)[MaxTicks].emu.pc

(* Until then it fetches words of the guest memory that decode.            *)
Runs(image) ==
    \A n \in 0..MaxTicks :
        LET last == After(image)[n]
        IN  last.prevPc # last.emu.pc =>
                last.emu.pc \in Address /\ Decodable(last.emu)

ASSUME HaltsAssumption == \A image \in Images : Halts(image) /\ Runs(image)
=============================================================================
