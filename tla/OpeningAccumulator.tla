---------------------------- MODULE OpeningAccumulator ----------------------------
(***************************************************************************)
(* The two accumulators of opening claims.  An opening is a polynomial at   *)
(* the point of a sumcheck; id names polynomial and sumcheck.  The prover   *)
(* keeps one opening for each polynomial and point and remembers the other  *)
(* names as aliases.  The verifier is given the prover's claims without     *)
(* their points and finds the points, and the aliases, again on its way     *)
(* (poly/opening_proof.rs).                                                 *)
(*                                                                         *)
(* The prover is honest: a claim is the value of the polynomial at the      *)
(* point, so the pair of the two stands for it.                             *)
(***************************************************************************)
EXTENDS Integers, Sequences, FiniteSetsExt

(* Points are split into their address and their cycle part, so that they can *)
(* be joined; what the two parts hold is up to the sumcheck.                  *)
Point(address, cycle) == [address |-> address, cycle |-> cycle]
NoPoint == Point(<<>>, <<>>)
NoClaim == <<>>     \* zero, the claim of an opening the proof lacks

NoOpenings == [openings |-> <<>>, index |-> <<>>, aliases |-> <<>>, pending |-> <<>>]

With(f, k, v) == [x \in DOMAIN f \cup {k} |-> IF x = k THEN v ELSE f[x]]

ResolveAlias(a, id) ==
    LET Canonical[k \in DOMAIN a.aliases \cup DOMAIN a.openings] ==
            IF k \in DOMAIN a.aliases THEN Canonical[a.aliases[k]] ELSE k
    IN  IF id \in DOMAIN a.aliases THEN Canonical[id] ELSE id
Has(a, id) == ResolveAlias(a, id) \in DOMAIN a.openings
Claim(a, id) == IF Has(a, id) THEN a.openings[ResolveAlias(a, id)].claim ELSE NoClaim
PointOf(a, id) == IF Has(a, id) THEN a.openings[ResolveAlias(a, id)].point ELSE NoPoint

(* The places in the index of openings of the same polynomial at a point *)
AtPoint(a, id, point) ==
    {i \in DOMAIN a.index : a.index[i].poly = id.poly /\ a.openings[a.index[i]].point = point}
First(a, places) == a.index[Min(places)]

Insert(a, id, point, claim, indexed) ==
    [a EXCEPT !.openings = With(@, id, [point |-> point, claim |-> claim]),
              !.index = IF indexed THEN Append(@, id) ELSE @,
              !.pending = Append(@, claim)]

(* An alias that is kept as an opening too *)
ProverAppendsTwice(a, id, point) ==
    LET existing == AtPoint(a, id, point)
        inserted == Insert(a, id, point, <<id.poly, point>>, TRUE)
    IN  IF existing # {} THEN [inserted EXCEPT !.aliases = With(@, id, First(a, existing))] ELSE inserted
(* The prover appends an opening; a name is used once *)
ProverAppends(a, id, point) ==
    LET existing == AtPoint(a, id, point)
    IN  IF existing # {} THEN [a EXCEPT !.aliases = With(@, id, First(a, existing))]
        ELSE Insert(a, id, point, <<id.poly, point>>, TRUE)

(* A verifier that knows no aliases *)
VerifierAppendsAnew(a, id, point) ==
    Insert(a, id, point, IF id \in DOMAIN a.openings THEN a.openings[id].claim ELSE NoClaim, point # NoPoint)
(* A verifier that keeps the empty points of the proof *)
VerifierAppendsUnset(a, id, point) ==
    Insert(a, id, NoPoint, IF id \in DOMAIN a.openings THEN a.openings[id].claim ELSE NoClaim, FALSE)
(* The verifier appends an opening; empty points are not indexed *)
VerifierAppends(a, id, point) ==
    LET existing == IF point = NoPoint THEN {} ELSE AtPoint(a, id, point)
        given == id \in DOMAIN a.openings
        indexed == point # NoPoint /\ id \notin {a.index[i] : i \in DOMAIN a.index}
    IN  IF existing # {} /\ First(a, existing) # id
        THEN [a EXCEPT !.aliases = With(@, id, First(a, existing))]
        ELSE Insert(a, id, point, IF given THEN a.openings[id].claim ELSE NoClaim, indexed)

(* The claims of a proof, without their points *)
Given(a) ==
    [NoOpenings EXCEPT !.openings = [id \in DOMAIN a.openings |-> [point |-> NoPoint, claim |-> a.openings[id].claim]]]
=============================================================================
