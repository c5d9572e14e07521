-------------------------- MODULE FederatedRouting --------------------------
(***************************************************************************)
(* FederatedCapabilityGraph.route (src/app/federation_relation.py): the    *)
(* shortest path of Routing over the boundaries that a relation opens for  *)
(* the requested capability.  Domains are the nodes.  The relation source  *)
(* is read once for each call, and then every crossing is evaluated by a   *)
(* gate that looks at the clock by itself: time passes between two of them *)
(* and, where the governed gate is used, keys are revoked.                 *)
(*                                                                         *)
(* The governed gate takes its timestamp in one step and looks at binding  *)
(* and keys in another; GovernedGate takes these reads apart.  A binding   *)
(* is never changed, and that one is registered during a call is left out. *)
(***************************************************************************)
EXTENDS Routing

CONSTANTS
    Absent,             \* Python's None
    FederatedRequests,  \* calls: [graph, crossings, sources, capability,
                        \* verifier]; sources are the collections of relations
                        \* that the relation source may return; verifier is
                        \* [lifecycle |-> FALSE, tables] or, for the governed
                        \* gate, [lifecycle |-> TRUE, keys, bindings,
                        \* revocations]
    MaxTime             \* bound on the clock

ASSUME FederatedAssumption ==
    /\ MaxTime \in Nat
    /\ \A call \in FederatedRequests :
          /\ IsRequest(call.graph) /\ call.graph.crossings = <<>>
          /\ IsSequence(call.crossings)
          /\ NoNegativeCost(call.crossings)

R == INSTANCE FederationRelation WITH None <- Absent

VARIABLES
    asked,      \* the call, or Absent when the request is the endpoint's
    now,        \* the clock of the gate
    revoked,    \* the revocations in the key registry: [key, at]
    began,      \* when the relations were read
    seen,       \* the values of revoked since then
    relations,  \* the relations that were read
    turn,       \* the crossing that is evaluated next
    timestamp,  \* when its evaluation began
    traversed   \* ids of the relations along the route

world == <<now, revoked, seen>>
callVars == <<asked, began, relations, turn, timestamp, traversed>>
federatedVars == <<vars, world, callVars>>

(* A relation of authorities a and b with everything its digest covers.    *)
FederatedRelation(id, src, dst, a, b, hash, scope, from, until, scheme) ==
    [id |-> id, src |-> src, dst |-> dst, source |-> a, target |-> b,
     contract |-> hash, capabilities |-> scope, from |-> from, until |-> until,
     scheme |-> scheme, status |-> "ACTIVE", witness |-> Absent]

(* sign_relation, and the two Ed25519 signatures one after the other.      *)
SignRelation(r, source, target) ==
    R!Sign(R!Sign(r, "source", source), "target", target)

(* The secret or the public key of an authority; a verifier that does not  *)
(* know the scheme knows no key for it.                                    *)
KeyOf(scheme, authority) ==
    LET tables == asked.verifier.tables
    IN IF scheme \in DOMAIN tables /\ authority \in DOMAIN tables[scheme]
       THEN tables[scheme][authority] ELSE Absent

(* The relation is for the domains, the contract and the capability of a   *)
(* RelationRequest.                                                        *)
Fits(r, c) ==
    /\ r.src = c.src /\ r.dst = c.dst
    /\ r.contract = c.contract
    /\ asked.capability \in r.capabilities

(* RelationIntegrityGate on secrets, its Ed25519 twin on public keys,      *)
(* HybridRelationIntegrityGate on both.                                    *)
VerifiesByTable(r, c, time) ==
    R!Verifies(r, KeyOf(r.scheme, r.source), KeyOf(r.scheme, r.target), time,
               Fits(r, c))

(* The key is the authority's and key_state_reasons says nothing of it.    *)
Effective(key, authority, time, revocations) ==
    LET keys == asked.verifier.keys
    IN /\ key \in DOMAIN keys
       /\ keys[key].authority = authority
       /\ keys[key].from <= time /\ time < keys[key].until
       /\ \A v \in revocations : v.key = key => time < v.at

(* GovernedEd25519RelationIntegrityGate on bindings and keys.              *)
VerifiesByBinding(r, c, time, revocations) ==
    LET bindings == asked.verifier.bindings
        b == bindings[r.id]
    IN /\ r.scheme = "ed25519"
       /\ r.id \in DOMAIN bindings
       /\ b.relation = R!Digest(r)
       /\ b.source = r.source /\ b.target = r.target
       /\ Effective(b.sourceKey, b.source, time, revocations)
       /\ Effective(b.targetKey, b.target, time, revocations)
       /\ R!Verifies(r, b.sourceKey, b.targetKey, time, Fits(r, c))

(* The verdict of the gate.                                                *)
Evaluates(r, c, time, revocations) ==
    IF asked.verifier.lifecycle
    THEN VerifiesByBinding(r, c, time, revocations)
    ELSE VerifiesByTable(r, c, time)

(* Ed25519 relations need a gate that enforces the lifecycle of the keys.  *)
Routable25519(r) == r.scheme = "ed25519" => asked.verifier.lifecycle

(* Mutant: the reasons of the gate take the place of the earlier one.      *)
PassesByDecision(c, time, revocations) ==
    \E r \in relations : /\ r.id = c.relation
                         /\ Routable25519(r)
                         /\ Evaluates(r, c, time, revocations)

(* No reason to block crossing c.                                          *)
Passes(c, time, revocations) ==
    /\ c.capability = asked.capability
    /\ \E r \in relations : /\ r.id = c.relation
                            /\ Routable25519(r)
                            /\ Evaluates(r, c, time, revocations)
---------------------------------------------------------------------------
FederatedInit ==
    /\ now = 0 /\ began = 0 /\ revoked = {} /\ seen = {{}}
    /\ relations = {} /\ turn = 1 /\ timestamp = 0 /\ traversed = <<>>
    /\ \/ Init /\ asked = Absent
       \/ \E call \in FederatedRequests :
             Starts(call.graph, "relations") /\ asked = call

Time ==
    /\ asked # Absent /\ pc # "answered"
    /\ now < MaxTime
    /\ now' = now + 1
    /\ UNCHANGED <<vars, revoked, seen, callVars>>

(* revoke_key, called by an administrator: effective at any instant of the *)
(* key's validity, the past included, and once for each key.               *)
RevokeKey ==
    /\ asked # Absent /\ pc # "answered"
    /\ asked.verifier.lifecycle
    /\ \E v \in asked.verifier.revocations :
          /\ v.key \in DOMAIN asked.verifier.keys
          /\ asked.verifier.keys[v.key].from <= v.at
          /\ v.at < asked.verifier.keys[v.key].until
          /\ \A w \in revoked : w.key # v.key
          /\ revoked' = revoked \cup {v}
    /\ seen' = seen \cup {revoked'}
    /\ UNCHANGED <<vars, now, callVars>>

(* _current_relations; two relations with one id: ValueError.              *)
ReadRelations ==
    /\ pc = "relations"
    /\ \E source \in asked.sources :
          /\ relations' = source
          /\ IF \A r, q \in source : r.id = q.id => r = q
             THEN pc' = "boundaries" /\ UNCHANGED result
             ELSE pc' = "answered" /\ result' = Raises("duplicate relation_id")
    /\ began' = now /\ seen' = {revoked}
    /\ UNCHANGED <<request, searchVars, loopVars, path, reportVars, now, revoked, asked,
                   turn, timestamp, traversed>>

(* An iteration of _validated_state's loop begins: the gate, when it is    *)
(* asked, looks at the clock first.                                        *)
LookAtClock ==
    /\ pc = "boundaries" /\ turn \in DOMAIN asked.crossings
    /\ pc' = "gate" /\ timestamp' = now
    /\ UNCHANGED <<request, searchVars, loopVars, path, result, reportVars, world, asked,
                   began, relations, turn, traversed>>

(* The rest of the iteration.                                              *)
Boundary ==
    LET c == asked.crossings[turn]
    IN /\ pc = "gate"
       /\ request' = IF Passes(c, timestamp, revoked)
                     THEN [request EXCEPT !.crossings = Append(@, c)]
                     ELSE request
       /\ pc' = "boundaries" /\ turn' = turn + 1 /\ timestamp' = 0
       /\ UNCHANGED <<searchVars, loopVars, path, result, reportVars, world, asked,
                      began, relations, traversed>>

BuildGraph ==
    /\ pc = "boundaries" /\ turn \notin DOMAIN asked.crossings
    /\ pc' = "search"
    /\ UNCHANGED <<request, searchVars, loopVars, path, result, reportVars, world,
                   callVars>>

(* Crossings that were let through from src to dst: at most one.           *)
Validated(src, dst) ==
    {c \in ToSet(request.crossings) : c.src = src /\ c.dst = dst}

(* The relations along the route, which is then answered.                  *)
Traverse ==
    LET legs == 1..(Len(result.path) - 1)
        Leg(k) == Validated(result.path[k], result.path[k + 1])
    IN /\ pc = "report"
       /\ IF \A k \in legs : Leg(k) # {}
          THEN /\ traversed' = [k \in legs |-> (CHOOSE c \in Leg(k) : TRUE).relation]
               /\ UNCHANGED result
          ELSE result' = Raises("RuntimeError") /\ UNCHANGED traversed
       /\ pc' = "answered"
       /\ UNCHANGED <<request, searchVars, loopVars, path, reportVars, world, asked,
                      began, relations, turn, timestamp>>

Call ==
    \/ asked = Absent /\ Next /\ UNCHANGED <<world, callVars>>
    \/ asked # Absent /\ Search /\ UNCHANGED <<world, callVars>>
    \/ /\ asked # Absent
       /\ ReadRelations \/ LookAtClock \/ Boundary \/ BuildGraph \/ Traverse

FederatedNext == Call \/ Time \/ RevokeKey

(* The loops run on until the call is answered.                            *)
FederatedSpec ==
    FederatedInit /\ [][FederatedNext]_federatedVars /\ WF_federatedVars(Call)
---------------------------------------------------------------------------
(* FederatedCapabilityGraph: every boundary of a route was opened, at an   *)
(* instant of the call and under the revocations of an instant of the call,*)
(* by the relation that the answer names, for these domains and the        *)
(* requested capability ("route crossed an edge without a validated        *)
(* federation relation" is never raised), Ed25519 relations only under a   *)
(* gate that enforces the lifecycle of keys; and a boundary that was open  *)
(* throughout the call was there to be routed over.                        *)
BoundariesAreGoverned ==
    (asked # Absent /\ pc = "answered") =>
        /\ result # Raises("RuntimeError")
        /\ Routed =>
             /\ Len(traversed) = Len(result.path) - 1
             /\ \A k \in DOMAIN traversed :
                  \E c \in ToSet(asked.crossings), r \in relations,
                     t \in began..now, s \in seen :
                     /\ <<c.src, c.dst>> = <<result.path[k], result.path[k + 1]>>
                     /\ c.relation = traversed[k] /\ r.id = traversed[k]
                     /\ asked.capability = c.capability
                     /\ asked.capability \in r.capabilities
                     /\ r.scheme = "ed25519" => asked.verifier.lifecycle
                     /\ Evaluates(r, c, t, s)
             /\ \A c \in ToSet(asked.crossings) :
                  (\A t \in began..now, s \in seen : Passes(c, t, s))
                     => c \in ToSet(request.crossings)
=============================================================================
