---------------------------- MODULE ClaimFlow ----------------------------
(***************************************************************************)
(* How claims flow through a proof.  The prover goes through the batches of *)
(* sumchecks; each reads openings that earlier ones left and leaves its     *)
(* own, until stage 8 opens the commitments.  The verifier then goes        *)
(* through the same batches with the claims of the proof, finds the points  *)
(* again, and must arrive at the same challenges, the same openings and the *)
(* same joint point.  Nobody wrote the flow down in one place: prover.rs,   *)
(* verifier.rs and the sumchecks agree on it.                               *)
(*                                                                         *)
(* The prover is honest; the field and the polynomials are not modelled.    *)
(* Two transcripts that took in the same in the same order give the same    *)
(* challenges, and a challenge is named by the sumcheck that draws it.      *)
(***************************************************************************)
EXTENDS SumcheckStages

CONSTANTS Layouts, LogTs, LogKs,        \* sizes of a one-hot polynomial
          AdviceVars, ChunkVars, ImageVars,     \* variables of what is precommitted
          Chunks                        \* chunks of the committed bytecode

(* A trace is padded to 256 cycles (prover.rs:331), the image of the program  *)
(* to two words (program.rs:67); advice of one word has no variables.         *)
ASSUME SizeAssumption ==
    /\ Layouts \subseteq {"CycleMajor", "AddressMajor"}
    /\ LogTs \cup LogKs \cup ChunkVars \cup ImageVars \subseteq Nat \ {0} /\ AdviceVars \subseteq Nat
    /\ Chunks \in Nat \ {0}

VARIABLES c,            \* the configuration
          who,          \* "prover" or "verifier"
          batch,        \* the batch, from 1 to the opening of stage 8
          phase,        \* "construct" or "sumcheck"
          acc,          \* the accumulators of the two
          transcript,   \* what the transcripts of the two took in
          used,         \* openings that were reduced or opened
          verdict       \* "running", "accepted", "rejected" or "panicked"

flowVars == <<c, who, batch, phase, acc, transcript, used, verdict>>

FullMode == [chunkVars |-> 0, image |-> Absent]
Configurations ==
    {[layout |-> l, logT |-> t, logK |-> k, trusted |-> tr, untrusted |-> un, chunks |-> Chunks,
      chunkVars |-> p.chunkVars, image |-> p.image, aligned |-> al] :
        l \in Layouts, t \in LogTs, k \in LogKs, tr \in AdviceVars \cup {Absent},
        un \in AdviceVars \cup {Absent}, al \in BOOLEAN,
        p \in {FullMode} \cup [chunkVars : ChunkVars, image : ImageVars]}
-----------------------------------------------------------------------------
UniSkip == batch \in {1, 3}

(* The verifier sets up the reduction of the increments first. *)
ConstructedIncFirst(role, a) ==
    LET s == Sumchecks(c, batch, a)
    IN  IF batch = 9 /\ role = "verifier" THEN <<s[6]>> \o SubSeq(s, 2, 5) \o SubSeq(s, 7, Len(s)) \o <<s[1]>>
        ELSE s
(* The order of construction is that of the batch, but in stage 6b, where the *)
(* cycle phases of stage 6a come when the prover, or the verifier, likes.     *)
Constructed(role, a) ==
    LET s == Sumchecks(c, batch, a)
    IN  IF batch # 9 THEN s
        ELSE IF role = "prover" THEN SubSeq(s, 3, Len(s)) \o <<s[1], s[2]>>
        ELSE <<s[3], s[2]>> \o SubSeq(s, 4, Len(s)) \o <<s[1]>>
-----------------------------------------------------------------------------
(* The two sides *)
AppendOpening(role, a, o) ==
    IF role = "prover" THEN ProverAppends(a, o.id, o.point) ELSE VerifierAppends(a, o.id, o.point)
(* The accumulators while openings are appended *)
Appending(role, a, opens) ==
    LET After[n \in 0 .. Len(opens)] ==
            IF n = 0 THEN a ELSE AppendOpening(role, After[n - 1], opens[n])
    IN  After
AppendOpenings(role, a, opens) == Appending(role, a, opens)[Len(opens)]
(* The prover refuses an opening it has already. *)
Repeated(role, a, opens) ==
    role = "prover" /\ \E i \in DOMAIN opens :
                            opens[i].id \in DOMAIN Appending(role, a, opens)[i - 1].openings
Flushing(a) == [a EXCEPT !.pending = <<>>]

Drawn(sumchecks) ==
    LET drawing == SelectSeq(sumchecks, LAMBDA s : s.draws)
    IN  [i \in DOMAIN drawing |-> <<"draw", drawing[i].name>>]
InputClaims(a, sumchecks) ==
    [i \in DOMAIN sumchecks |->
        <<"input", [j \in DOMAIN sumchecks[i].reads |-> Claim(a, sumchecks[i].reads[j])]>>]
Flushed(a) == [i \in DOMAIN a.pending |-> <<"claim", a.pending[i]>>]
Missing(a, ids) == \E i \in DOMAIN ids : ~Has(a, ids[i])
(* The openings that a batch leaves *)
Left(sumchecks) == FlattenSeq([i \in DOMAIN sumchecks |-> sumchecks[i].opens])
Preamble ==
    <<<<"commit", "main">>>>
    \o Present(c.untrusted # Absent, <<<<"commit", "UntrustedAdvice">>>>)
    \o Present(c.trusted # Absent, <<<<"commit", "TrustedAdvice">>>>)
    \o Present(Committed(c), <<<<"commit", "BytecodeChunks">>, <<"commit", "ProgramImageInit">>>>)

(* The verifier's checks fail as soon as it has not drawn what the prover did *)
Diverged(t) == who = "verifier" /\ ~IsPrefix(t, transcript.prover)
ExpectedOutputs(a, sumchecks) ==
    \A i \in DOMAIN sumchecks : \A j \in DOMAIN sumchecks[i].opens :
        LET o == sumchecks[i].opens[j] IN Claim(a, o.id) = <<o.id.poly, o.point>>

FlowInit ==
    /\ c \in Configurations
    /\ who = "prover" /\ batch = 1 /\ phase = "construct"
    /\ acc = [prover |-> NoOpenings, verifier |-> NoOpenings]
    /\ transcript = [prover |-> Preamble, verifier |-> <<>>]
    /\ used = {}
    /\ verdict = "running"

Stop(v) ==
    /\ verdict' = v
    /\ UNCHANGED <<c, who, batch, phase, acc, transcript, used>>

(* The sumchecks of a batch are set up one by one.                            *)
Construct ==
    LET a == acc[who]
        s == Sumchecks(c, batch, a)
        missing == Missing(a, StartOf(batch)) \/ \E i \in DOMAIN s : Missing(a, s[i].needs)
        between == Between(c, batch, a)
    IN  /\ verdict = "running" /\ batch < LastBatch /\ phase = "construct"
        /\ IF missing \/ Repeated(who, a, between) THEN Stop("panicked")
           ELSE /\ acc' = [acc EXCEPT ![who] = AppendOpenings(who, a, between)]
                /\ transcript' = [transcript EXCEPT ![who] = @ \o Drawn(Constructed(who, a))]
                /\ phase' = "sumcheck"
                /\ UNCHANGED <<c, who, batch, used, verdict>>

(* The claims of a batch are combined, its challenges drawn, its openings     *)
(* appended and the claims among them absorbed.                               *)
RunSumchecks ==
    LET a == acc[who]
        s == Sumchecks(c, batch, a)
        missing == \E i \in DOMAIN s : Missing(a, s[i].reads)
        unequal == \E i \in DOMAIN s : \E p \in s[i].same : Claim(a, p[1]) # Claim(a, p[2])
        opened == AppendOpenings(who, a, Left(s))
        t == transcript[who] \o (IF UniSkip THEN <<>> ELSE InputClaims(a, s))
             \o <<<<"rounds", batch>>>> \o Flushed(opened)
    IN  /\ verdict = "running" /\ phase = "sumcheck"
        /\ IF missing \/ unequal \/ Repeated(who, a, Left(s)) THEN Stop("panicked")
           ELSE /\ acc' = [acc EXCEPT ![who] = Flushing(opened)]
                /\ transcript' = [transcript EXCEPT ![who] = t]
                /\ verdict' = IF Diverged(t) \/ ~ExpectedOutputs(opened, s) THEN "rejected" ELSE verdict
                /\ used' = used \cup UNION {{ResolveAlias(a, id) : id \in ToSet(s[i].reads)} : i \in DOMAIN s}
                /\ batch' = batch + 1
                /\ phase' = "construct"
                /\ UNCHANGED <<c, who>>

(* Stage 8: the claims of the commitments are combined and opened in one.     *)
OpenCommitments ==
    LET a == acc[who]
        ids == Stage8OpeningIds(c)
        t == transcript[who] \o [i \in DOMAIN ids |-> <<"claim", Claim(a, ids[i])>>]
    IN  /\ verdict = "running" /\ batch = LastBatch
        /\ IF Missing(a, ids) THEN Stop("panicked")
           ELSE IF Diverged(t) \/ Cardinality(JointOpeningPoint(c, a)) # 1 THEN Stop("rejected")
           ELSE /\ transcript' = [transcript EXCEPT ![who] = t,
                                    !.verifier = IF who = "prover" THEN Preamble ELSE t]
                /\ acc' = IF who = "prover" THEN [acc EXCEPT !.verifier = Given(a)] ELSE acc
                /\ used' = IF who = "prover" THEN {} ELSE used \cup {ResolveAlias(a, ids[i]) : i \in DOMAIN ids}
                /\ batch' = IF who = "prover" THEN 1 ELSE batch
                /\ verdict' = IF who = "prover" THEN "running" ELSE "accepted"
                /\ who' = "verifier"
                /\ UNCHANGED <<c, phase>>

Accepted == verdict = "accepted" /\ UNCHANGED flowVars

FlowNext == Construct \/ RunSumchecks \/ OpenCommitments \/ Accepted
FlowSpec == FlowInit /\ [][FlowNext]_flowVars
-----------------------------------------------------------------------------
Roles == {"prover", "verifier"}

(* The types: an opening is listed once and is not another's alias.           *)
FlowTypeOK ==
    /\ c \in Configurations /\ who \in Roles /\ batch \in 1 .. LastBatch
    /\ phase \in {"construct", "sumcheck"}
    /\ DOMAIN acc = Roles /\ DOMAIN transcript = Roles
    /\ \A r \in Roles : /\ ToSet(acc[r].index) \subseteq DOMAIN acc[r].openings
                        /\ DOMAIN acc[r].aliases \cap DOMAIN acc[r].openings = {}
    /\ used \subseteq DOMAIN acc[who].openings
    /\ verdict \in {"running", "accepted", "rejected", "panicked"}

(* An honest proof is accepted: prover and verifier construct, draw, absorb   *)
(* and alias in the same order, with every combination of what is committed   *)
(* (zkvm/prover.rs, zkvm/verifier.rs).                                        *)
HonestProofAccepted == verdict \notin {"rejected", "panicked"}

(* Whatever the verifier has opened, the prover has opened too, at the same   *)
(* point and under the same other names (the tests compare the two            *)
(* accumulators, compare_to of poly/opening_proof.rs).                        *)
OpeningsAgree ==
    LET p == acc.prover
        v == acc.verifier
    IN  who = "verifier" =>
            /\ \A id \in DOMAIN v.openings :
                  id \in DOMAIN p.openings /\ v.openings[id].point \in {NoPoint, p.openings[id].point}
            /\ \A id \in DOMAIN v.aliases : id \in DOMAIN p.aliases /\ v.aliases[id] = p.aliases[id]

(* The verifier's accumulator has all claims from the start, with empty       *)
(* points: a sumcheck set up before the one that finds its point would work   *)
(* at an empty one.                                                           *)
PointsAreFound ==
    phase = "sumcheck" =>
        \A s \in ToSet(Sumchecks(c, batch, acc[who])) : \A id \in ToSet(s.needs) :
            PointOf(acc[who], id) \in {PointOf(acc.prover, id)} \ {NoPoint}

(* A sumcheck folds several claims under one equality polynomial: they must   *)
(* be claims at the same address, or the same cycle, though different         *)
(* sumchecks left them ("these should hold by construction after Stage 2      *)
(* alignment", claim_reductions/ram_ra.rs).                                   *)
ClaimsMeet ==
    phase = "sumcheck" =>
        \A s \in ToSet(Sumchecks(c, batch, acc[who])) : \A together \in ToSet(s.alike) :
            Cardinality({PointOf(acc[who], id)[together.part] : id \in together.ids}) <= 1

(* Nothing the prover claims is left open: each claim the verifier is given   *)
(* is reduced by a later sumcheck or opened in stage 8.                       *)
NothingLeftOpen == verdict = "accepted" => DOMAIN acc.verifier.openings \subseteq used

(* Each committed polynomial is opened once, and everything ever claimed of   *)
(* it has been brought to that opening.                                       *)
Polynomials(ids) == {ids[i].poly : i \in DOMAIN ids}
CommittedOpenedOnce ==
    verdict = "accepted" =>
        LET ids == Stage8OpeningIds(c)
            claimed == {id.poly : id \in {x \in DOMAIN acc.verifier.openings : x.poly[1] = "committed"}}
        IN  /\ Cardinality(Polynomials(ids)) = Len(ids)
            /\ claimed = Polynomials(ids)
            /\ \A i \in DOMAIN ids : ResolveAlias(acc.verifier, ids[i]) = ids[i]

(* All openings of stage 8 are openings at parts of one joint point: the      *)
(* precommitted polynomials, bound in different rounds of two batches, end in *)
(* the top left of the joint matrix (claim_reductions/precommitted.rs; the    *)
(* assertion of compute_lagrange_factor in poly/opening_proof.rs).            *)
ReductionsMeetJointPoint ==
    verdict = "accepted" =>
        \A joint \in JointOpeningPoint(c, acc.verifier) :
            \A i \in DOMAIN Stage8OpeningIds(c) :
                LET id == Stage8OpeningIds(c)[i]
                    point == Coordinates(PointOf(acc.verifier, id))
                IN  /\ ToSet(point) \subseteq ToSet(joint)
                    /\ id.poly[2] \in {"TrustedAdvice", "UntrustedAdvice", "BytecodeChunk", "ProgramImageInit"} =>
                          ToSet(point) = ToSet(Projected(joint, Len(point)))

(* The joint point gives every polynomial of the trace the coordinates of the *)
(* places its entries were committed at, in either layout and with a          *)
(* precommitted polynomial larger than the trace (one_hot_stride and          *)
(* dense_stride of dory_globals.rs, the round permutation of precommitted.rs).*)
CommittedWhereOpened ==
    verdict = "accepted" =>
        \A joint \in JointOpeningPoint(c, acc.verifier) :
            LET s == Shape(c)
                At(bit) == joint[Len(joint) - bit]
                inc == PointOf(acc.verifier, C("RamInc", "IncClaimReduction"))
                ra == PointOf(acc.verifier, CNth("InstructionRa", 0, "HammingWeightClaimReduction"))
            IN  /\ Len(joint) = s.reference
                /\ \A i \in 1 .. s.logT : At(CycleBit(s, i)) = inc.cycle[i] /\ inc.cycle[i] = ra.cycle[i]
                /\ \A i \in 1 .. s.logK : At(AddressBit(s, i)) = ra.address[i]

(* Whatever a sumcheck is set up with, both sides know, at the same point,    *)
(* and the claims it folds belong together.                                   *)
PointsAgree == FlowTypeOK /\ OpeningsAgree /\ PointsAreFound /\ ClaimsMeet

(* Every claim of an accepted proof is settled in the end: nothing is left    *)
(* open, each committed polynomial is opened once, and where it was           *)
(* committed.                                                                 *)
AllOpenedWhereCommitted ==
    /\ NothingLeftOpen
    /\ CommittedOpenedOnce
    /\ ReductionsMeetJointPoint
    /\ CommittedWhereOpened
=============================================================================
