----------------------------- MODULE MCRouting -----------------------------
(***************************************************************************)
(* Instances of Routing for TLC: every graph of three nodes and up to      *)
(* three crossings for every assignment of values to its nodes, and graphs *)
(* of four nodes in which a longer way overtakes a shorter one.            *)
(***************************************************************************)
EXTENDS FederatedRouting, TLC

Trust(v) == [raw |-> ("trust" :> v), attrs |-> ("zone" :> "eu")]
Unknown == [raw |-> << >>, attrs |-> ("zone" :> "eu")]
Elsewhere == [raw |-> ("trust" :> 2), attrs |-> << >>]

Crossings(n, costs) ==
    {c \in [src : 1..n, dst : 1..n, cost : costs] : c.src # c.dst}

Floor == [kind |-> "metric_floor", name |-> "trust", value |-> 1]
Ceiling == [kind |-> "metric_ceiling", name |-> "trust", value |-> 2]
Zone == [kind |-> "requires_attr", name |-> "zone", value |-> "eu"]

Request(nodes, crossings, constraints, lower, anywhere, targets) ==
    [nodes |-> nodes, crossings |-> crossings, constraints |-> constraints,
     weights |-> <<[criterion |-> "trust", weight |-> 1]>>, lower |-> lower, origin |-> 1,
     anywhere |-> anywhere, targets |-> targets]

(* Values of the second and the third node; the first is worth least.      *)
Small ==
    {Request(<<Trust(0), a, b>>, c, {Zone}, {}, FALSE, {3}) :
        a \in {Trust(2)}, b \in {Trust(1), Elsewhere},
        c \in BoundedSeq(Crossings(3, {0, 1}), 3)}
    \cup
    {Request(<<Trust(1), a, b>>, c, {limit}, lower, TRUE, {}) :
        a \in {Trust(0), Trust(2), Trust(3)}, b \in {Trust(2), Unknown},
        c \in BoundedSeq(Crossings(3, {0, 1}), 2),
        limit \in {Floor, Ceiling, Zone}, lower \in {{}, {"trust"}}}

(* 1 -> 2 -> 4 with a detour over 3 on the way to 2, and a way back; the   *)
(* second and the fourth node may be worth more.                           *)
Detours ==
    {Request(<<Trust(0), Trust(v), Trust(0), Trust(w)>>,
             <<[src |-> 1, dst |-> 2, cost |-> a], [src |-> 1, dst |-> 3, cost |-> b],
               [src |-> 3, dst |-> 2, cost |-> c], [src |-> 2, dst |-> 4, cost |-> d],
               [src |-> 4, dst |-> x, cost |-> 0]>>,
             {Zone}, {}, TRUE, {}) :
        a, b, c, d \in 0..2, x \in 1..3, v, w \in {0, 2}}

Requested == Small \cup Detours

(* Three domains, a detour over the second and a boundary from the first   *)
(* to the third, under relations that begin or end while the call runs.    *)
Secrets == [a |-> "sa", b |-> "sb", c |-> "sc"]
Keys == [a |-> "ka", b |-> "kb", c |-> "kc"]
KeysOf(scheme) == IF scheme = "hmac" THEN Secrets ELSE Keys

Boundary12(scheme) ==
    SignRelation(FederatedRelation("r12", 1, 2, "a", "b", "f", {"read"}, 0, 2, scheme),
                 KeysOf(scheme).a, KeysOf(scheme).b)

Boundary23(scheme, from) ==
    SignRelation(FederatedRelation("r23", 2, 3, "b", "c", "f", {"read"}, from, 3, scheme),
                 KeysOf(scheme).b, KeysOf(scheme).c)

Boundary13(scheme, until) ==
    SignRelation(FederatedRelation("r13", 1, 3, "a", "c", "f", {"read", "write"},
                                   0, until, scheme),
                 KeysOf(scheme).a, KeysOf(scheme).c)

Prolonged(r) == [r EXCEPT !.until = 3]
Suspended(r) == [r EXCEPT !.status = "REVOKED"]
OneSided(r) == [r EXCEPT !.witness.target = Absent]

(* What the relation source may return.                                    *)
SourcesOf(scheme, other) ==
    LET detour == {Boundary12(scheme), Boundary23(scheme, 1)}
    IN {detour \cup {r} :
            r \in {Boundary13(scheme, 1), Boundary13(scheme, 3), Boundary13(other, 3),
                   Prolonged(Boundary13(scheme, 1)), Suspended(Boundary13(scheme, 3)),
                   OneSided(Boundary13(scheme, 3))}}
       \cup {detour, {Boundary12(scheme), Boundary23(scheme, 0), Boundary23(scheme, 1)}}

CallOf(sources, verifier, anywhere, detour, contract, capability) ==
    [graph |-> Request(<<Trust(0), Trust(0), Trust(2)>>, <<>>, {Zone}, {}, anywhere, {3}),
     crossings |->
        <<[src |-> 1, dst |-> 2, cost |-> 0, relation |-> "r12",
           contract |-> "f", capability |-> "read"],
          [src |-> 2, dst |-> 3, cost |-> detour, relation |-> "r23",
           contract |-> "f", capability |-> "read"],
          [src |-> 1, dst |-> 3, cost |-> 1, relation |-> "r13",
           contract |-> contract, capability |-> capability]>>,
     sources |-> sources, capability |-> "read", verifier |-> verifier]

(* The registry of the governed gate; the relation that ends at 1 is not   *)
(* the one that was bound.                                                 *)
Key(authority, from, until) == [authority |-> authority, from |-> from, until |-> until]
Bound(r) ==
    [relation |-> R!Digest(r), source |-> r.source, sourceKey |-> Keys[r.source],
     target |-> r.target, targetKey |-> Keys[r.target]]

Governed ==
    [lifecycle |-> TRUE,
     keys |-> [ka |-> Key("a", 0, 3), kb |-> Key("b", 0, 3), kc |-> Key("c", 0, 4)],
     bindings |-> [r12 |-> Bound(Boundary12("ed25519")),
                   r23 |-> Bound(Boundary23("ed25519", 1)),
                   r13 |-> Bound(Boundary13("ed25519", 3))],
     revocations |-> {[key |-> "kb", at |-> 0], [key |-> "kb", at |-> 2],
                      [key |-> "kc", at |-> 1]}]

Federated ==
    {CallOf(SourcesOf("hmac", "ed25519"),
            [lifecycle |-> FALSE, tables |-> [hmac |-> Secrets, ed25519 |-> Keys]],
            anywhere, detour, contract, capability) :
        anywhere \in BOOLEAN, detour \in {0, 2}, contract \in {"f", "g"},
        capability \in {"read", "write"}}
    \cup
    {CallOf(SourcesOf("ed25519", "hmac"), Governed, anywhere, detour, "f", "read") :
        anywhere \in BOOLEAN, detour \in {0, 2}}
=============================================================================
