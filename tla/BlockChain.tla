----------------------------- MODULE BlockChain -----------------------------
(***************************************************************************)
(* What a fold of block proofs promises, whatever the backend: the blocks  *)
(* folded so far are one unbroken piece of one execution of one program,   *)
(* and what is published stands for a complete fold.                       *)
(*                                                                         *)
(* This is the abstract specification NovaFold implements.  A block is a   *)
(* fold input as described in NovaFold.                                    *)
(***************************************************************************)
EXTENDS Integers, Sequences

CONSTANTS Inputs,   \* the fold inputs that may be offered
          None      \* the absent value

VARIABLES chain,       \* the blocks folded so far, in order
          published    \* the blocks the last published instance stands for

vars == <<chain, published>>

(* b is the block that follows a in the same execution. *)
Follows(a, b) ==
    /\ b.program = a.program
    /\ b.index = a.index + 1
    /\ b.start = a.end
    /\ b.startState = a.endState
    /\ b.startRegister = a.endRegister

(* a and b belong to the same verified Jolt proof. *)
SameProof(a, b) ==
    /\ b.receipt = a.receipt
    /\ b.opening = a.opening
    /\ (a.witness = None) = (b.witness = None)
    /\ a.witness # None => /\ b.witness.count = a.witness.count
                           /\ b.witness.challenge = a.witness.challenge
                           /\ b.witness.target = a.witness.target

(* A chain whose blocks carry native openings is complete when it holds    *)
(* every one of the blocks its witnesses announce.                         *)
Complete(c) ==
    /\ c # <<>>
    /\ c[1].witness # None => Len(c) = c[1].witness.count

Init == chain = <<>> /\ published = <<>>

Extend(b) ==
    /\ chain # <<>> => /\ Follows(chain[Len(chain)], b)
                       /\ SameProof(chain[1], b)
    /\ b.end = b.start + b.active
    /\ b.witness # None => /\ b.witness.position = Len(chain)
                           /\ b.witness.position < b.witness.count
    /\ chain' = Append(chain, b)
    /\ UNCHANGED published

Publish ==
    /\ Complete(chain)
    /\ published' = chain
    /\ UNCHANGED chain

Next == Publish \/ \E b \in Inputs : Extend(b)

Spec == Init /\ [][Next]_vars
=============================================================================
