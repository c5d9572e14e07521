--------------------------- MODULE MCGovernedGate ---------------------------
(* Instance of GovernedGate for TLC.                                       *)
EXTENDS GovernedGate

CONSTANTS left, right, k1, k2, k3, h1

BothAuthorities == {left, right}
ThreeKeys == {k1, k2, k3}
OneHandler == {h1}

Record(authority, from, until, previous) ==
    [authority |-> authority, from |-> from, until |-> until, previous |-> previous]

(* A first key of each authority; a continuation of k1 and a competitor    *)
(* for its place; an overlap and a key of the other authority.             *)
SomeRecords ==
    {[key |-> k1, record |-> Record(left, 0, 1, None)],
     [key |-> k3, record |-> Record(right, 0, 2, None)],
     [key |-> k2, record |-> Record(left, 1, 2, k1)],
     [key |-> k3, record |-> Record(left, 1, 2, k1)],
     [key |-> k2, record |-> Record(left, 0, 2, k1)],
     [key |-> k2, record |-> Record(right, 1, 2, k1)]}

(* Signatures may be attached in either order.                             *)
Signed(r, source, target) == Sign(Sign(r, "target", target), "source", source)

Early == Relation("r1", left, right, 0, 1)
Long == Relation("r1", left, right, 0, 2)

(* Signed by both sides; changed after it was signed; and signed for a     *)
(* window that ends after k1's.                                            *)
SomeRelations ==
    {Signed(Early, k1, k3), [Signed(Early, k1, k3) EXCEPT !.until = 2],
     Signed(Long, k1, k3)}

ASSUME SignaturesAttach ==
    /\ CanSign(Early, "source") /\ CanSign(Sign(Early, "target", k3), "source")
    /\ ~CanSign(Sign(Early, "source", k1), "source")
    /\ ~CanSign([Sign(Early, "source", k1) EXCEPT !.until = 2], "target")
=============================================================================
