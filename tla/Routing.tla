------------------------------ MODULE Routing ------------------------------
(***************************************************************************)
(* POST /federation/route: the constrained shortest path of                *)
(* src/app/federation_routing.py, one iteration of its loops a step.       *)
(*                                                                         *)
(* Node ids are 1..n, in the order Python compares them, and distinct.     *)
(* Costs, and the range 0..Unit of every criterion, are integers: floating *)
(* point, the logarithmic scale and the reasons a node is blocked for are  *)
(* left out.                                                               *)
(***************************************************************************)
EXTENDS Integers, Sequences, FiniteSets, SequencesExt

CONSTANTS
    Requests,  \* requests: [nodes, crossings, constraints, weights, lower,
               \* origin, anywhere, targets]; a node is [raw, attrs], both
               \* partial, a crossing [src, dst, cost], a weight [criterion,
               \* weight], and anywhere says that targets is None
    Unit       \* hi - lo of every criterion

IsSequence(s) == Len(s) \in Nat /\ DOMAIN s = 1..Len(s)

(* What Crossing lets through.                                             *)
NoNegativeCost(crossings) ==
    \A i \in DOMAIN crossings : crossings[i].cost \in Nat

(* What the constructors let through: numbers, and no negative weight.     *)
IsRequest(r) ==
    /\ DOMAIN r = {"nodes", "crossings", "constraints", "weights", "lower",
                   "origin", "anywhere", "targets"}
    /\ IsSequence(r.nodes) /\ IsSequence(r.crossings) /\ IsSequence(r.weights)
    /\ \A n \in DOMAIN r.nodes : \A m \in DOMAIN r.nodes[n].raw :
          r.nodes[n].raw[m] \in Int
    /\ NoNegativeCost(r.crossings)
    /\ \A k \in DOMAIN r.weights : r.weights[k].weight \in Nat

ASSUME RoutingAssumption ==
    /\ Unit \in Nat \ {0}
    /\ \A r \in Requests : IsRequest(r)

VARIABLES
    request, pc,
    distance, previous, queue,  \* route; the heap has no entry twice
    current, current_distance,  \* the node that was popped
    pending,                    \* indices of its crossings, still to be seen
    path,                       \* the walk back along previous
    result,                     \* the RoutingResult, or what was raised
    phi, stack,                 \* conservativity_report
    report                      \* what the handler answers after it

searchVars == <<distance, previous, queue, current_distance>>
loopVars == <<current, pending>>
reportVars == <<phi, stack, report>>
vars == <<request, pc, searchVars, loopVars, path, result, reportVars>>

Nodes == DOMAIN request.nodes
Raw(n) == request.nodes[n].raw
---------------------------------------------------------------------------
(* attrs.get: an attribute that is not there is None.                      *)
Attr(n, name) ==
    IF name \in DOMAIN request.nodes[n].attrs
    THEN request.nodes[n].attrs[name] ELSE "None"

(* metric_floor, metric_ceiling and requires_attr.                         *)
Satisfies(n, constraint) ==
    LET c == constraint
    IN CASE c.kind = "metric_floor" ->
              c.name \in DOMAIN Raw(n) /\ Raw(n)[c.name] >= c.value
         [] c.kind = "metric_ceiling" ->
              c.name \in DOMAIN Raw(n) /\ Raw(n)[c.name] <= c.value
         [] c.kind = "requires_attr" -> Attr(n, c.name) = c.value

(* AdmissibilityGate.filter, and the ids the graph keeps.                  *)
Admissible == {n \in Nodes : \A c \in request.constraints : Satisfies(n, c)}

(* _adj[n], as indices of crossings of the request.                        *)
Adjacent(n) ==
    {i \in DOMAIN request.crossings :
        /\ request.crossings[i].src = n
        /\ {n, request.crossings[i].dst} \subseteq Admissible}

(* a[1] + ... + a[n]                                                       *)
SumTo(a, n) ==
    LET s[k \in 0..n] == IF k = 0 THEN 0 ELSE s[k - 1] + a[k]
    IN s[n]

(* Criterion.goodness: clamped, and turned round when lower is better.     *)
Goodness(m, raw) ==
    LET t == IF raw < 0 THEN 0 ELSE IF raw > Unit THEN Unit ELSE raw
    IN IF m \in request.lower THEN Unit - t ELSE t

(* goodness_vector raises when the node has no value for a criterion.      *)
Scored(n) ==
    \A k \in DOMAIN request.weights :
        request.weights[k].criterion \in DOMAIN Raw(n)

(* 1 - score, in the unit of the costs; the weights sum to 1.              *)
Potential(n) ==
    LET Lost(k) ==
          LET m == request.weights[k].criterion
          IN request.weights[k].weight * (Unit - Goodness(m, Raw(n)[m]))
    IN SumTo([k \in DOMAIN request.weights |-> Lost(k)], Len(request.weights))

Candidates ==
    IF request.anywhere THEN Admissible ELSE Admissible \cap request.targets

(* f[key] = value, for a key that f may not have.                          *)
Put(f, key, value) ==
    [k \in DOMAIN f \cup {key} |-> IF k = key THEN value ELSE f[k]]
---------------------------------------------------------------------------
None == [raised |-> "nothing"]
Raises(error) == [raised |-> error]

(* A request whose handler is at p.                                        *)
Starts(r, p) ==
    /\ request = r /\ pc = p
    /\ result = None /\ report = "none"
    /\ distance = [n \in {r.origin} |-> 0]
    /\ previous = << >>
    /\ queue = {<<0, r.origin>>}
    /\ current = r.origin /\ current_distance = 0
    /\ pending = {} /\ path = <<>>
    /\ phi = << >> /\ stack = <<>>

Init == \E r \in Requests : Starts(r, "search")

(* The origin is unknown or blocked, or no target is admissible: 409.      *)
RefuseRequest ==
    /\ pc = "search" /\ result = None
    /\ request.origin \notin Admissible \/ Candidates = {}
    /\ result' = Raises("409") /\ pc' = "answered"
    /\ UNCHANGED <<request, searchVars, loopVars, path, reportVars>>

Routable == pc = "search" /\ request.origin \in Admissible /\ Candidates # {}

(* Entry e of the heap is the least, by distance and then by id.           *)
IsTop(e) ==
    /\ e \in queue
    /\ \A f \in queue : e[1] < f[1] \/ (e[1] = f[1] /\ e[2] <= f[2])

(* heappop.                                                                *)
Visit ==
    /\ Routable /\ pending = {}
    /\ \E e \in queue :
          /\ IsTop(e) /\ e[1] = distance[e[2]]
          /\ queue' = queue \ {e}
          /\ current_distance' = e[1] /\ current' = e[2]
          /\ pending' = Adjacent(e[2])
    /\ UNCHANGED <<request, pc, distance, previous, path, result, reportVars>>

(* An entry that was overtaken by a shorter one.                           *)
SkipStale ==
    /\ Routable /\ pending = {}
    /\ \E e \in queue :
          /\ IsTop(e) /\ e[1] # distance[e[2]]
          /\ queue' = queue \ {e}
    /\ UNCHANGED <<request, pc, distance, previous, current_distance, loopVars,
                   path, result, reportVars>>

(* The crossing the loop over _adj[current] comes to next.                 *)
IsNext(i) == i \in pending /\ \A j \in pending : i <= j

Candidate(c) == current_distance + c.cost

(* Mutant: a path of the same cost replaces the one that was found.        *)
ImprovesOnTies(c) ==
    c.dst \notin DOMAIN distance \/ Candidate(c) <= distance[c.dst]

(* candidate < distance.get(crossing.dst, inf).                            *)
Improves(c) ==
    c.dst \notin DOMAIN distance \/ Candidate(c) < distance[c.dst]

(* Mutant: a node that is in the heap already is not pushed again.         *)
RelaxPushedOnce(c) ==
    IF Improves(c)
    THEN /\ distance' = Put(distance, c.dst, Candidate(c))
         /\ previous' = Put(previous, c.dst, current)
         /\ queue' = IF \E e \in queue : e[2] = c.dst THEN queue
                     ELSE queue \cup {<<Candidate(c), c.dst>>}
    ELSE UNCHANGED <<distance, previous, queue>>

Relax(c) ==
    IF Improves(c)
    THEN /\ distance' = Put(distance, c.dst, Candidate(c))
         /\ previous' = Put(previous, c.dst, current)
         /\ queue' = queue \cup {<<Candidate(c), c.dst>>}
    ELSE UNCHANGED <<distance, previous, queue>>

(* One iteration of route's inner loop.                                    *)
RelaxNext ==
    /\ Routable
    /\ \E i \in pending : /\ IsNext(i)
                          /\ pending' = pending \ {i}
                          /\ Relax(request.crossings[i])
    /\ UNCHANGED <<request, pc, current, current_distance, path, result,
                   reportVars>>

Exhausted == Routable /\ queue = {} /\ pending = {}

Reachable == Candidates \cap DOMAIN distance

(* No target was reached, or one of them has no value for a criterion: 409.*)
RaiseInRoute ==
    /\ Exhausted
    /\ Reachable = {} \/ \E n \in Reachable : ~Scored(n)
    /\ result' = Raises("409") /\ pc' = "answered"
    /\ UNCHANGED <<request, searchVars, loopVars, path, reportVars>>

Total(n) == distance[n] + Potential(n)

(* min over a set in the order of its hashes: among the best, any.         *)
ChooseTerminal ==
    /\ Exhausted
    /\ Reachable # {} /\ \A n \in Reachable : Scored(n)
    /\ \E terminal \in Reachable :
          /\ \A n \in Reachable : Total(terminal) <= Total(n)
          /\ path' = <<terminal>>
    /\ pc' = "walk back"
    /\ UNCHANGED <<request, searchVars, loopVars, result, reportVars>>

(* One iteration of the loop that walks back; the code reverses the path   *)
(* when it is complete.                                                    *)
WalkBack ==
    /\ pc = "walk back" /\ path[1] \in DOMAIN previous
    /\ path' = <<previous[path[1]]>> \o path
    /\ UNCHANGED <<request, pc, searchVars, loopVars, result, reportVars>>

FinishRoute ==
    LET terminal == path[Len(path)]
    IN /\ pc = "walk back" /\ path[1] \notin DOMAIN previous
       /\ result' = [raised |-> "no", path |-> path,
                     crossing_cost |-> distance[terminal],
                     total_cost |-> Total(terminal)]
       /\ pc' = "report"
       /\ UNCHANGED <<request, searchVars, loopVars, path, reportVars>>
---------------------------------------------------------------------------
(* conservativity_report: the next root, in the order of the ids.          *)
VisitRoot ==
    /\ pc = "report" /\ stack = <<>> /\ pending = {}
    /\ \E root \in Admissible \ DOMAIN phi :
          /\ \A n \in Admissible \ DOMAIN phi : root <= n
          /\ phi' = Put(phi, root, 0)
          /\ stack' = <<root>>
    /\ UNCHANGED <<request, pc, searchVars, loopVars, path, result, report>>

(* stack.pop.                                                              *)
Explore ==
    /\ pc = "report" /\ stack # <<>> /\ pending = {}
    /\ current' = stack[Len(stack)]
    /\ stack' = Front(stack)
    /\ pending' = Adjacent(stack[Len(stack)])
    /\ UNCHANGED <<request, pc, searchVars, path, result, phi, report>>

(* One iteration of the report's inner loop.                               *)
Lift ==
    /\ pc = "report"
    /\ \E i \in pending :
          LET c == request.crossings[i]
          IN /\ IsNext(i)
             /\ pending' = pending \ {i}
             /\ IF c.dst \in DOMAIN phi THEN UNCHANGED <<phi, stack>>
                ELSE /\ phi' = Put(phi, c.dst, phi[current] + c.cost)
                     /\ stack' = Append(stack, c.dst)
    /\ UNCHANGED <<request, pc, searchVars, current, path, result, report>>

(* Mutant: only a residual above the tolerance counts.                     *)
ResidualOneSided(c) == c.cost <= phi[c.dst] - phi[c.src]

(* abs(residual) <= tolerance.                                             *)
Residual(c) == c.cost = phi[c.dst] - phi[c.src]

(* No violations.                                                          *)
Conservative ==
    \A i \in DOMAIN request.crossings :
        LET c == request.crossings[i]
        IN {c.src, c.dst} \subseteq DOMAIN phi => Residual(c)

(* preference.sensitivity scores every admissible node: KeyError, 500.     *)
(* Otherwise the route is on the ledger.                                   *)
Answer ==
    /\ pc = "report" /\ stack = <<>> /\ pending = {}
    /\ Admissible \subseteq DOMAIN phi
    /\ report' = IF \E n \in Admissible : ~Scored(n) THEN "500"
                 ELSE IF Conservative THEN "conservative"
                 ELSE "not conservative"
    /\ pc' = "answered"
    /\ UNCHANGED <<request, searchVars, loopVars, path, result, phi, stack>>

Search ==
    \/ RefuseRequest \/ Visit \/ SkipStale \/ RelaxNext
    \/ RaiseInRoute \/ ChooseTerminal \/ WalkBack \/ FinishRoute
Report == VisitRoot \/ Explore \/ Lift \/ Answer
Next == Search \/ Report

(* The loops run on until the handler answers.                             *)
Spec == Init /\ [][Next]_vars /\ WF_vars(Next)
---------------------------------------------------------------------------
(* The node a walk w from a node, a sequence of indices of crossings, has  *)
(* come to after k of them.                                                *)
At(from, w, k) == IF k = 0 THEN from ELSE request.crossings[w[k]].dst

(* The crossings follow each other, through admissible nodes only and      *)
(* through none of them twice.                                             *)
IsWalk(from, w) ==
    /\ \A k \in 1..Len(w) : request.crossings[w[k]].src = At(from, w, k - 1)
    /\ \A k \in 0..Len(w) : At(from, w, k) \in Admissible
    /\ \A j, k \in 0..Len(w) : At(from, w, j) = At(from, w, k) => j = k

Walks(from) ==
    {w \in BoundedSeq(DOMAIN request.crossings, Len(request.nodes) - 1) :
        IsWalk(from, w)}

End(from, w) == At(from, w, Len(w))

Cost(w) == SumTo([k \in 1..Len(w) |-> request.crossings[w[k]].cost], Len(w))

Routed == result.raised = "no"

(* The ids along a walk.                                                   *)
Ids(w) == [k \in 1..(Len(w) + 1) |-> At(request.origin, w, k - 1)]

(* route: the answer is the ids of a walk through admissible nodes from the*)
(* origin to a target, which costs what crossing_cost says although        *)
(* previous was overwritten on the way; no walk to any target has a smaller*)
(* total; and a request is refused only when no walk leads to a target, or *)
(* when one leads to a target that cannot be scored.                       *)
RouteIsOptimal ==
    LET walks == Walks(request.origin)
        Reached(w) == End(request.origin, w) \in Candidates
    IN /\ Routed =>
             /\ \E w \in walks : /\ Reached(w) /\ Ids(w) = result.path
                                 /\ Cost(w) = result.crossing_cost
             /\ \A w \in walks : Reached(w) =>
                   result.total_cost
                      <= Cost(w) + Potential(End(request.origin, w))
       /\ result = Raises("409") =>
             \/ request.origin \notin Admissible
             \/ \A w \in walks : ~Reached(w)
             \/ \E w \in walks : Reached(w) /\ ~Scored(End(request.origin, w))

(* conservativity_report: when the graph is reported conservative, what it *)
(* costs to get from one admissible node to another does not depend on the *)
(* way.                                                                    *)
ConservativeMeansPathFree ==
    report = "conservative" =>
        \A n \in Admissible : \A v, w \in Walks(n) :
            End(n, v) = End(n, w) => Cost(v) = Cost(w)

(* federation_route: every request is answered, also when crossings cost   *)
(* nothing and go round in a circle.                                       *)
RequestsAreAnswered == <>(pc = "answered")
=============================================================================
