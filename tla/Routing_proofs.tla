--------------------------- MODULE Routing_proofs ---------------------------
(***************************************************************************)
(* Theorems about the constrained shortest path and the federated graph,   *)
(* for every set of requests and calls that IsRequest admits, every Unit   *)
(* and every clock.                                                        *)
(*                                                                         *)
(* Sums and walks are reasoned about by the least counterexample: a set of *)
(* natural numbers that is not empty has a least element.                  *)
(***************************************************************************)
EXTENDS FederatedRouting, FiniteSetTheorems, SequenceTheorems,
        WellFoundedInduction, TLAPS

(* Every set of natural numbers that is not empty has a least element.     *)
LEMMA Least ==
    ASSUME NEW T, T \subseteq Nat, T # {}
    PROVE  \E m \in T : \A k \in T : m <= k
<1>1. IsWellFoundedOn(OpToRel(<, Nat), Nat)
  BY NatLessThanWellFounded
<1>2. PICK m \in T : \A k \in T : ~(<<k, m>> \in OpToRel(<, Nat))
  BY <1>1, WFMin
<1>3. ASSUME NEW k \in T PROVE ~(k < m)
  <2>1. k \in Nat /\ m \in Nat
    OBVIOUS
  <2>2. k < m => <<k, m>> \in OpToRel(<, Nat)
    BY <2>1 DEF OpToRel
  <2> QED BY <1>2, <2>2, Zenon
<1>4. ASSUME NEW k \in T PROVE m <= k
  BY <1>3
<1> QED BY <1>4

(* What holds of 0, and of k + 1 when it holds of k < n, holds up to n.    *)
LEMMA Induction ==
    ASSUME NEW n \in Nat, NEW S, 0 \in S,
           \A k \in 1..n : k - 1 \in S => k \in S
    PROVE  0..n \subseteq S
<1> DEFINE Missing == (0..n) \ S
<1>1. SUFFICES Missing = {}
  OBVIOUS
<1>2. CASE Missing # {}
  <2>1. Missing \subseteq Nat
    OBVIOUS
  <2>2. PICK m \in Missing : \A k \in Missing : m <= k
    BY <1>2, <2>1, Least
  <2>3. m \in 1..n
    <3>1. m \in 0..n /\ m # 0
      BY <2>2
    <3> QED BY <3>1
  <2>4. m - 1 \in 0..n /\ ~(m <= m - 1)
    BY <2>3
  <2>5. m - 1 \in S
    BY <2>2, <2>4
  <2> QED BY <2>2, <2>3, <2>5
<1> QED BY <1>2

Summands(a, n) == n \in Nat /\ \A k \in 1..n : a[k] \in Int

Sums(s, a, n) ==
    /\ DOMAIN s = 0..n /\ s[0] = 0
    /\ \A k \in 1..n : s[k] = s[k - 1] + a[k]

(* Running sums exist up to every number of summands.                      *)
LEMMA SumsExist ==
    ASSUME NEW a, NEW n, Summands(a, n)
    PROVE  \E s : Sums(s, a, n)
<1> DEFINE S == {m \in Nat : \E s : Sums(s, a, m)}
<1>1. 0 \in S
  <2>1. Sums([k \in 0..0 |-> 0], a, 0)
    BY DEF Sums
  <2> QED BY <2>1
<1>2. ASSUME NEW m \in 1..n, m - 1 \in S PROVE m \in S
  <2>1. PICK s : Sums(s, a, m - 1)
    BY <1>2
  <2>2. m \in Nat /\ m - 1 \in Nat /\ m # 0
    BY DEF Summands
  <2> DEFINE t == [k \in 0..m |-> IF k = m THEN s[m - 1] + a[m] ELSE s[k]]
  <2>3. DOMAIN t = 0..m /\ t[0] = 0
    BY <2>1, <2>2 DEF Sums
  <2>4. ASSUME NEW k \in 1..m PROVE t[k] = t[k - 1] + a[k]
    <3>1. CASE k = m
      BY <2>2, <3>1
    <3>2. CASE k # m
      <4>1. k \in 1..(m - 1) /\ k \in 0..m /\ k - 1 \in 0..m /\ k - 1 # m
        BY <2>2, <3>2
      <4>2. s[k] = s[k - 1] + a[k]
        BY <2>1, <4>1 DEF Sums
      <4> QED BY <3>2, <4>1, <4>2
    <3> QED BY <3>1, <3>2
  <2>5. Sums(t, a, m)
    BY <2>3, <2>4 DEF Sums
  <2> QED BY <2>2, <2>5
<1>3. n \in Nat
  BY DEF Summands
<1> HIDE DEF S
<1>4. 0..n \subseteq S
  BY <1>1, <1>2, <1>3, Induction
<1>5. n \in S
  BY <1>3, <1>4
<1> QED BY <1>5 DEF S

(* SumTo is the last of the running sums, and they are integers.           *)
LEMMA SumToIsSum ==
    ASSUME NEW a, NEW n, Summands(a, n)
    PROVE  \E s : /\ Sums(s, a, n) /\ SumTo(a, n) = s[n]
                  /\ \A k \in 0..n : s[k] \in Int
<1> DEFINE Def(s) == s = [k \in 0..n |-> IF k = 0 THEN 0 ELSE s[k - 1] + a[k]]
<1>1. n \in Nat /\ \A k \in 1..n : a[k] \in Int
  BY DEF Summands
<1>2. \E s : Def(s)
  <2>1. PICK r : Sums(r, a, n)
    BY SumsExist
  <2> DEFINE s == [k \in 0..n |-> r[k]]
  <2>2. ASSUME NEW k \in 0..n
        PROVE  s[k] = IF k = 0 THEN 0 ELSE s[k - 1] + a[k]
    BY <1>1, <2>1 DEF Sums
  <2>3. Def(s)
    BY <2>2
  <2> QED BY <2>3
<1>3. PICK s : s = CHOOSE t : Def(t)
  OBVIOUS
<1>4. Def(s)
  BY <1>2, <1>3
<1>5. SumTo(a, n) = s[n]
  BY <1>3 DEF SumTo
<1>6. Sums(s, a, n)
  <2>1. DOMAIN s = 0..n
    BY <1>4
  <2>2. s[0] = 0
    BY <1>1, <1>4
  <2>3. ASSUME NEW k \in 1..n PROVE s[k] = s[k - 1] + a[k]
    BY <1>1, <1>4
  <2> QED BY <2>1, <2>2, <2>3 DEF Sums
<1>7. \A k \in 0..n : s[k] \in Int
  <2> DEFINE S == {k \in 0..n : s[k] \in Int}
  <2>1. 0 \in S
    BY <1>1, <1>6 DEF Sums
  <2>2. ASSUME NEW k \in 1..n, k - 1 \in S PROVE k \in S
    <3>1. s[k] = s[k - 1] + a[k] /\ a[k] \in Int /\ s[k - 1] \in Int
      BY <1>1, <1>6, <2>2 DEF Sums
    <3> QED BY <1>1, <3>1
  <2> HIDE DEF S
  <2>3. 0..n \subseteq S
    BY <1>1, <2>1, <2>2, Induction
  <2> QED BY <2>3 DEF S
<1> QED BY <1>5, <1>6, <1>7

---------------------------------------------------------------------------
Steps == DOMAIN request.crossings

(* The walks are sequences, and the bound on their length loses none: a    *)
(* walk that comes through no node twice has fewer crossings than there    *)
(* are nodes.                                                              *)
LEMMA FunctionLength ==
    ASSUME NEW m \in Nat, NEW S, NEW w \in [1..m -> S]
    PROVE  w \in Seq(S) /\ Len(w) = m
<1>1. w \in Seq(S)
  OBVIOUS
<1>2. Len(w) \in Nat /\ DOMAIN w = 1..Len(w) /\ DOMAIN w = 1..m
  BY <1>1
<1> QED BY <1>1, <1>2

LEMMA WalkLength ==
    ASSUME IsRequest(request), NEW from, NEW w \in Seq(Steps), IsWalk(from, w)
    PROVE  Len(w) <= Len(request.nodes) - 1
<1>1. Len(w) \in Nat /\ Len(request.nodes) \in Nat
  BY DEF IsRequest, NoNegativeCost, IsSequence
<1> DEFINE L == Len(w)
           N == Len(request.nodes)
           f == [k \in 1..(L + 1) |-> At(from, w, k - 1)]
<1>2. f \in [1..(L + 1) -> 1..N]
  <2>1. ASSUME NEW k \in 1..(L + 1) PROVE At(from, w, k - 1) \in 1..N
    <3>1. k - 1 \in 0..L
      BY <1>1
    <3> QED BY <3>1 DEF IsWalk, Admissible, Nodes, IsRequest, NoNegativeCost, IsSequence
  <2> QED BY <2>1
<1>3. \A j, k \in 1..(L + 1) : f[j] = f[k] => j = k
  <2> TAKE j, k \in 1..(L + 1)
  <2>1. j - 1 \in 0..L /\ k - 1 \in 0..L
    BY <1>1
  <2>2. At(from, w, j - 1) = At(from, w, k - 1) => j - 1 = k - 1
    BY <2>1 DEF IsWalk
  <2> QED BY <1>1, <2>2
<1>4. f \in Injection(1..(L + 1), 1..N)
  BY <1>2, <1>3 DEF Injection, IsInjective
<1>5. /\ IsFiniteSet(1..(L + 1)) /\ Cardinality(1..(L + 1)) = L + 1
      /\ IsFiniteSet(1..N) /\ Cardinality(1..N) = N
  <2> HIDE DEF L, N
  <2>1. \A b \in Nat : IsFiniteSet(1..b) /\ Cardinality(1..b) = b
    <3> TAKE b \in Nat
    <3>1. IsFiniteSet(1..b) /\ Cardinality(1..b) = IF 1 > b THEN 0 ELSE b - 1 + 1
      BY FS_Interval
    <3> QED BY <3>1
  <2>2. L + 1 \in Nat /\ N \in Nat
    BY <1>1 DEF L, N
  <2> QED BY <2>1, <2>2
<1>6. L + 1 <= N
  <2> HIDE DEF f, L, N
  <2>1. Cardinality(1..(L + 1)) <= Cardinality(1..N)
    BY <1>4, <1>5, FS_Injection
  <2> QED BY <1>5, <2>1
<1> QED BY <1>1, <1>6

LEMMA WalksAre ==
    ASSUME IsRequest(request), NEW from, NEW w
    PROVE  w \in Walks(from) <=> w \in Seq(Steps) /\ IsWalk(from, w)
<1>1. Len(request.nodes) \in Nat
  BY DEF IsRequest, NoNegativeCost, IsSequence
<1>2. ASSUME w \in Walks(from) PROVE w \in Seq(Steps) /\ IsWalk(from, w)
  <2>1. PICK m \in 0..(Len(request.nodes) - 1) : w \in [1..m -> Steps]
    BY <1>2 DEF Walks, BoundedSeq, SeqOf, Steps
  <2>2. m \in Nat
    BY <1>1
  <2> QED BY <1>2, <2>1, <2>2, FunctionLength DEF Walks
<1>3. ASSUME w \in Seq(Steps), IsWalk(from, w) PROVE w \in Walks(from)
  <2>1. Len(w) \in Nat /\ w \in [1..Len(w) -> Steps]
    BY <1>3
  <2>2. Len(w) \in 0..(Len(request.nodes) - 1)
    BY <1>1, <1>3, <2>1, WalkLength
  <2> QED BY <1>3, <2>1, <2>2 DEF Walks, BoundedSeq, SeqOf, Steps
<1> QED BY <1>2, <1>3

(* From an admissible node there is the walk of no crossing.               *)
LEMMA EmptyWalk ==
    ASSUME IsRequest(request), NEW from \in Admissible
    PROVE  <<>> \in Walks(from) /\ End(from, <<>>) = from
<1>1. <<>> \in Seq(Steps) /\ Len(<<>>) = 0
  OBVIOUS
<1>2. IsWalk(from, <<>>)
  BY <1>1 DEF IsWalk, At
<1> QED BY <1>1, <1>2, WalksAre DEF End, At

(* A walk goes on over a crossing to an admissible node it has not been at.*)
LEMMA LongerWalk ==
    ASSUME IsRequest(request), NEW from, NEW w \in Walks(from),
           NEW i \in Adjacent(End(from, w)),
           \A k \in 0..Len(w) : At(from, w, k) # request.crossings[i].dst
    PROVE  \E v \in Walks(from) :
              /\ Len(v) = Len(w) + 1
              /\ End(from, v) = request.crossings[i].dst
              /\ \A k \in 0..Len(w) : At(from, v, k) = At(from, w, k)
<1> DEFINE v == Append(w, i)
           L == Len(w)
<1>1. /\ i \in Steps
      /\ request.crossings[i].src = End(from, w)
      /\ request.crossings[i].dst \in Admissible
  BY DEF Adjacent, Steps
<1>2. w \in Seq(Steps) /\ IsWalk(from, w)
  BY WalksAre
<1>3. v \in Seq(Steps) /\ Len(v) = L + 1 /\ L \in Nat
  BY <1>1, <1>2
<1>4. v[L + 1] = i /\ \A k \in 1..L : v[k] = w[k]
  BY <1>1, <1>2
<1> HIDE DEF v
<1>5. \A k \in 0..L : At(from, v, k) = At(from, w, k)
  BY <1>3, <1>4 DEF At
<1>6. At(from, v, L + 1) = request.crossings[i].dst
  BY <1>3, <1>4 DEF At
<1>7. IsWalk(from, v)
  <2>1. ASSUME NEW k \in 1..(L + 1)
        PROVE  request.crossings[v[k]].src = At(from, v, k - 1)
    <3>1. CASE k = L + 1
      <4>1. k - 1 = L /\ L \in 0..L
        BY <1>3, <3>1
      <4> QED BY <1>1, <1>4, <1>5, <3>1, <4>1 DEF End
    <3>2. CASE k # L + 1
      <4>1. k \in 1..L /\ k - 1 \in 0..L
        BY <1>3, <3>2
      <4> QED BY <1>2, <1>4, <1>5, <4>1 DEF IsWalk
    <3> QED BY <3>1, <3>2
  <2>2. \A k \in 0..(L + 1) : k \in 0..L \/ k = L + 1
    BY <1>3
  <2>3. ASSUME NEW k \in 0..(L + 1) PROVE At(from, v, k) \in Admissible
    BY <1>1, <1>2, <1>5, <1>6, <2>2 DEF IsWalk
  <2>4. ASSUME NEW j \in 0..(L + 1), NEW k \in 0..(L + 1),
               At(from, v, j) = At(from, v, k)
        PROVE  j = k
    <3>1. CASE j \in 0..L /\ k \in 0..L
      BY <1>2, <1>5, <2>4, <3>1 DEF IsWalk
    <3>2. CASE j = L + 1 /\ k \in 0..L
      BY <1>5, <1>6, <2>4, <3>2
    <3>3. CASE j \in 0..L /\ k = L + 1
      BY <1>5, <1>6, <2>4, <3>3
    <3> QED BY <2>2, <3>1, <3>2, <3>3
  <2> QED BY <1>3, <2>1, <2>3, <2>4 DEF IsWalk
<1>8. v \in Walks(from)
  BY <1>3, <1>7, WalksAre
<1> QED BY <1>3, <1>5, <1>6, <1>8 DEF End

(* What the crossings of a walk cost, as running sums.                     *)
Costs(w) == [k \in 1..Len(w) |-> request.crossings[w[k]].cost]

LEMMA CostIsSum ==
    ASSUME IsRequest(request), NEW w \in Seq(Steps)
    PROVE  \E s : /\ Sums(s, Costs(w), Len(w)) /\ Cost(w) = s[Len(w)]
                  /\ \A k \in 0..Len(w) : s[k] \in Int
<1>1. \A k \in 1..Len(w) : w[k] \in Steps /\ request.crossings[w[k]].cost \in Int
  BY DEF IsRequest, NoNegativeCost, Steps
<1>2. Summands(Costs(w), Len(w))
  BY <1>1 DEF Summands, Costs
<1>3. Cost(w) = SumTo(Costs(w), Len(w))
  BY DEF Cost, Costs
<1> QED BY <1>2, <1>3, SumToIsSum

(* A node with a value for every criterion has a number as its potential.  *)
LEMMA PotentialIsInt ==
    ASSUME IsRequest(request), NEW n \in Nodes, Scored(n)
    PROVE  Potential(n) \in Int
<1> DEFINE M(k) == request.weights[k].criterion
           Lost(k) == request.weights[k].weight * (Unit - Goodness(M(k), Raw(n)[M(k)]))
           a == [k \in DOMAIN request.weights |-> Lost(k)]
<1>1. Unit \in Int
  BY RoutingAssumption
<1>2. ASSUME NEW k \in DOMAIN request.weights PROVE a[k] \in Int
  <2>1. Raw(n)[M(k)] \in Int
    BY DEF IsRequest, NoNegativeCost, Scored, Raw, Nodes
  <2>2. Goodness(M(k), Raw(n)[M(k)]) \in Int
    BY <1>1, <2>1 DEF Goodness
  <2>3. request.weights[k].weight \in Int
    BY DEF IsRequest, NoNegativeCost
  <2>4. \A x, y \in Int : x * (Unit - y) \in Int
    BY <1>1
  <2> QED BY <2>2, <2>3, <2>4
<1>3. Len(request.weights) \in Nat /\ DOMAIN request.weights = 1..Len(request.weights)
  BY DEF IsRequest, NoNegativeCost, IsSequence
<1>4. Summands(a, Len(request.weights))
  BY <1>2, <1>3 DEF Summands
<1>5. Potential(n) = SumTo(a, Len(request.weights))
  BY DEF Potential
<1> HIDE DEF a
<1>6. Len(request.weights) \in 0..Len(request.weights)
  BY <1>3
<1> QED BY <1>4, <1>5, <1>6, SumToIsSum

---------------------------------------------------------------------------
(* The search.  A node that was found has a walk that leads to it over     *)
(* nodes that were found (Walked); previous names a crossing over which    *)
(* the node is reached at no more than its distance (Tree); and a node     *)
(* that does not wait in the queue under its distance has all its          *)
(* crossings relaxed but those the loop is still to look at (Frontier).    *)
Relaxed(i) ==
    LET c == request.crossings[i]
    IN c.dst \in DOMAIN distance /\ distance[c.dst] <= distance[c.src] + c.cost

Found ==
    /\ IsRequest(request)
    /\ request.origin \in DOMAIN distance /\ distance[request.origin] = 0
    /\ \A n \in DOMAIN distance : distance[n] \in Nat
    /\ request.origin \in Admissible => DOMAIN distance \subseteq Admissible
    /\ queue \subseteq Nat \X DOMAIN distance
    /\ \A e \in queue : distance[e[2]] <= e[1]

Looked ==
    /\ pending \subseteq Adjacent(current)
    /\ pending # {} => /\ current \in DOMAIN distance
                       /\ current_distance = distance[current]

Frontier ==
    \A n \in DOMAIN distance :
        \/ <<distance[n], n>> \in queue
        \/ \A i \in Adjacent(n) : i \in pending \/ Relaxed(i)

Tree ==
    /\ DOMAIN previous = DOMAIN distance \ {request.origin}
    /\ \A n \in DOMAIN previous :
          /\ previous[n] \in DOMAIN distance
          /\ \E i \in Adjacent(previous[n]) :
                /\ request.crossings[i].dst = n
                /\ distance[previous[n]] + request.crossings[i].cost <= distance[n]

LeadsTo(w, n) ==
    /\ End(request.origin, w) = n
    /\ \A k \in 0..Len(w) : At(request.origin, w, k) \in DOMAIN distance

Walked ==
    request.origin \in Admissible =>
        \A n \in DOMAIN distance : \E w \in Walks(request.origin) : LeadsTo(w, n)

SearchInv == Found /\ Looked /\ Frontier /\ Tree /\ Walked

(* What a handler starts the search with.                                  *)
Fresh ==
    /\ distance = [n \in {request.origin} |-> 0]
    /\ previous = << >>
    /\ queue = {<<0, request.origin>>}
    /\ pending = {}

LEMMA FreshIsFound ==
    ASSUME IsRequest(request), Fresh
    PROVE  SearchInv
<1>1. DOMAIN distance = {request.origin} /\ distance[request.origin] = 0
  BY DEF Fresh
<1>2. Found
  BY <1>1 DEF Found, Fresh
<1>3. Looked
  BY DEF Looked, Fresh
<1>4. Frontier
  BY <1>1 DEF Frontier, Fresh
<1>5. Tree
  BY <1>1 DEF Tree, Fresh
<1>6. Walked
  <2> SUFFICES ASSUME request.origin \in Admissible
               PROVE  LeadsTo(<<>>, request.origin) /\ <<>> \in Walks(request.origin)
    BY <1>1 DEF Walked
  <2>1. /\ <<>> \in Walks(request.origin)
        /\ End(request.origin, <<>>) = request.origin
    BY EmptyWalk
  <2>2. Len(<<>>) = 0
    OBVIOUS
  <2> QED BY <1>1, <2>1, <2>2 DEF LeadsTo, At
<1> QED BY <1>2, <1>3, <1>4, <1>5, <1>6 DEF SearchInv

(* What is computed from the request alone stays with it.                  *)
LEMMA RequestStays ==
    ASSUME request' = request
    PROVE  /\ Admissible' = Admissible /\ Steps' = Steps /\ Nodes' = Nodes
           /\ Candidates' = Candidates
           /\ \A n : Adjacent(n)' = Adjacent(n)
           /\ \A n : Walks(n)' = Walks(n)
           /\ \A n, w, k : At(n, w, k)' = At(n, w, k)
           /\ \A n, w : End(n, w)' = End(n, w)
           /\ \A n : Scored(n)' = Scored(n) /\ Potential(n)' = Potential(n)
           /\ \A w : Cost(w)' = Cost(w)
<1>1. Admissible' = Admissible /\ Steps' = Steps /\ Nodes' = Nodes
  BY DEF Admissible, Nodes, Satisfies, Raw, Attr, Steps
<1>2. Candidates' = Candidates
  BY <1>1 DEF Candidates
<1>3. \A n : Adjacent(n)' = Adjacent(n)
  BY <1>1 DEF Adjacent
<1>4. \A n, w, k : At(n, w, k)' = At(n, w, k)
  BY DEF At
<1>5. \A n, w : End(n, w)' = End(n, w)
  BY DEF End, At
<1>6. \A n : Walks(n)' = Walks(n)
  BY <1>1 DEF Walks, IsWalk, At
<1>7. \A n : Scored(n)' = Scored(n)
  BY DEF Scored, Raw
<1>8. \A n : Potential(n)' = Potential(n)
  BY DEF Potential, Goodness, Raw
<1>9. \A w : Cost(w)' = Cost(w)
  BY DEF Cost
<1> QED BY <1>1, <1>2, <1>3, <1>4, <1>5, <1>6, <1>7, <1>8, <1>9

searchState == <<request, distance, previous, queue, current, current_distance, pending>>

LEMMA SearchStutters ==
    ASSUME SearchInv, UNCHANGED searchState
    PROVE  SearchInv'
<1> USE DEF searchState
<1>1. Found'
  BY RequestStays DEF SearchInv, Found
<1>2. Looked'
  BY RequestStays DEF SearchInv, Looked
<1>3. Frontier'
  BY RequestStays DEF SearchInv, Frontier, Relaxed
<1>4. Tree'
  BY RequestStays DEF SearchInv, Tree
<1>5. Walked'
  BY RequestStays DEF SearchInv, Walked, LeadsTo
<1> QED BY <1>1, <1>2, <1>3, <1>4, <1>5 DEF SearchInv

---------------------------------------------------------------------------
LEMMA VisitKeeps ==
    ASSUME SearchInv, Visit
    PROVE  SearchInv'
<1>1. PICK e \in queue :
         /\ e[1] = distance[e[2]]
         /\ queue' = queue \ {e}
         /\ current_distance' = e[1] /\ current' = e[2]
         /\ pending' = Adjacent(e[2])
  BY DEF Visit, IsTop
<1>2. UNCHANGED <<request, distance, previous>> /\ pending = {}
  BY DEF Visit
<1>3. e[2] \in DOMAIN distance /\ e = <<distance[e[2]], e[2]>>
  BY <1>1 DEF SearchInv, Found
<1>4. Found'
  BY <1>1, <1>2, RequestStays DEF SearchInv, Found
<1>5. Looked'
  BY <1>1, <1>2, <1>3, RequestStays DEF Looked
<1>6. Frontier'
  <2> SUFFICES ASSUME NEW n \in DOMAIN distance, <<distance[n], n>> \notin queue',
                      NEW i \in Adjacent(n)
               PROVE  i \in pending' \/ Relaxed(i)
    BY <1>2, RequestStays DEF Frontier, Relaxed
  <2>1. CASE n = e[2]
    BY <1>1, <2>1
  <2>2. CASE n # e[2]
    <3>1. <<distance[n], n>> # e
      BY <1>3, <2>2
    <3>2. <<distance[n], n>> \notin queue
      BY <1>1, <3>1
    <3> QED BY <1>2, <3>2 DEF SearchInv, Frontier
  <2> QED BY <2>1, <2>2
<1>7. Tree'
  BY <1>2, RequestStays DEF SearchInv, Tree
<1>8. Walked'
  BY <1>2, RequestStays DEF SearchInv, Walked, LeadsTo
<1> QED BY <1>4, <1>5, <1>6, <1>7, <1>8 DEF SearchInv

LEMMA SkipKeeps ==
    ASSUME SearchInv, SkipStale
    PROVE  SearchInv'
<1>1. PICK e \in queue : e[1] # distance[e[2]] /\ queue' = queue \ {e}
  BY DEF SkipStale, IsTop
<1>2. /\ UNCHANGED <<request, distance, previous, current, current_distance, pending>>
      /\ pending = {}
  BY DEF SkipStale, loopVars
<1>3. Found'
  BY <1>1, <1>2, RequestStays DEF SearchInv, Found
<1>4. Looked'
  BY <1>2, RequestStays DEF SearchInv, Looked
<1>5. Frontier'
  <2> SUFFICES ASSUME NEW n \in DOMAIN distance, <<distance[n], n>> \notin queue',
                      NEW i \in Adjacent(n)
               PROVE  Relaxed(i)
    BY <1>2, RequestStays DEF Frontier, Relaxed
  <2>1. <<distance[n], n>> # e
    BY <1>1
  <2>2. <<distance[n], n>> \notin queue
    BY <1>1, <2>1
  <2> QED BY <1>2, <2>2 DEF SearchInv, Frontier
<1>6. Tree'
  BY <1>2, RequestStays DEF SearchInv, Tree
<1>7. Walked'
  BY <1>2, RequestStays DEF SearchInv, Walked, LeadsTo
<1> QED BY <1>3, <1>4, <1>5, <1>6, <1>7 DEF SearchInv

(* A crossing that leads to a node nearer than it was found so far.        *)
LEMMA Improvement ==
    ASSUME SearchInv, request.origin \in Admissible, NEW i \in pending,
           Improves(request.crossings[i]),
           NEW d, d = request.crossings[i].dst,
           NEW x, x = Candidate(request.crossings[i]),
           distance' = Put(distance, d, x),
           previous' = Put(previous, d, current),
           queue' = queue \cup {<<x, d>>},
           pending' = pending \ {i},
           UNCHANGED <<request, current, current_distance>>
    PROVE  SearchInv'
<1> DEFINE c == request.crossings[i]
           D == DOMAIN distance
<1>1. /\ current \in D /\ current_distance = distance[current]
      /\ i \in Adjacent(current)
  BY DEF SearchInv, Looked
<1>2. /\ i \in Steps /\ c.src = current /\ c.dst = d /\ d \in Admissible
      /\ current \in Admissible
  BY <1>1 DEF Adjacent, Steps
<1>3. c.cost \in Nat /\ distance[current] \in Nat
  BY <1>1, <1>2 DEF SearchInv, Found, IsRequest, NoNegativeCost, Steps
<1>4. x = distance[current] + c.cost /\ x \in Nat
  BY <1>1, <1>3 DEF Candidate
<1>5. d \notin D \/ x < distance[d]
  BY <1>2 DEF Improves
<1>6. \A n \in D : distance[n] \in Nat
  BY DEF SearchInv, Found
<1>7. d # current /\ d # request.origin
  <2>1. request.origin \in D /\ distance[request.origin] = 0
    BY DEF SearchInv, Found
  <2> QED BY <1>1, <1>3, <1>4, <1>5, <2>1
<1>8. /\ DOMAIN distance' = D \cup {d} /\ distance'[d] = x
      /\ \A n \in D : n # d => distance'[n] = distance[n]
      /\ \A n \in D : distance'[n] <= distance[n]
  BY <1>4, <1>5, <1>6 DEF Put
<1>9. /\ DOMAIN previous' = DOMAIN previous \cup {d} /\ previous'[d] = current
      /\ \A n \in DOMAIN previous : n # d => previous'[n] = previous[n]
  BY DEF Put
<1>10. \A n \in DOMAIN distance' : distance'[n] \in Nat
  BY <1>4, <1>6, <1>8
<1>11. Found'
  <2>1. IsRequest(request)'
    BY DEF SearchInv, Found
  <2>2. (request.origin \in DOMAIN distance /\ distance[request.origin] = 0)'
    BY <1>7, <1>8 DEF SearchInv, Found
  <2>3. DOMAIN distance' \subseteq Admissible
    BY <1>2, <1>8 DEF SearchInv, Found
  <2>4. queue' \subseteq Nat \X DOMAIN distance'
    BY <1>4, <1>8 DEF SearchInv, Found
  <2>5. ASSUME NEW e \in queue' PROVE distance'[e[2]] <= e[1]
    <3>1. CASE e \in queue
      <4>1. /\ e[1] \in Nat /\ e[2] \in D /\ distance[e[2]] <= e[1]
        BY <3>1 DEF SearchInv, Found
      <4>2. /\ distance'[e[2]] <= distance[e[2]]
            /\ distance'[e[2]] \in Nat /\ distance[e[2]] \in Nat
        BY <1>6, <1>8, <1>10, <4>1
      <4> QED BY <4>1, <4>2
    <3>2. CASE e = <<x, d>>
      BY <1>4, <1>8, <3>2
    <3> QED BY <3>1, <3>2
  <2> QED BY <1>10, <2>1, <2>2, <2>3, <2>4, <2>5, RequestStays DEF Found
<1>12. Looked'
  <2>1. pending' \subseteq Adjacent(current)
    BY DEF SearchInv, Looked
  <2>2. current \in DOMAIN distance' /\ current_distance = distance'[current]
    BY <1>1, <1>7, <1>8
  <2> QED BY <2>1, <2>2, RequestStays DEF Looked
<1>13. ASSUME NEW j \in Steps, Relaxed(j), request.crossings[j].src \in D,
              request.crossings[j].src # d
       PROVE  Relaxed(j)'
  <2> DEFINE b == request.crossings[j]
  <2>1. b.dst \in D /\ distance[b.dst] <= distance[b.src] + b.cost
    BY <1>13 DEF Relaxed
  <2>2. b.cost \in Nat
    BY DEF SearchInv, Found, IsRequest, NoNegativeCost, Steps
  <2>3. /\ distance'[b.src] = distance[b.src] /\ distance[b.src] \in Nat
        /\ distance'[b.dst] <= distance[b.dst] /\ distance[b.dst] \in Nat
        /\ distance'[b.dst] \in Nat
    BY <1>6, <1>8, <1>10, <1>13, <2>1
  <2> HIDE DEF b
  <2>4. distance'[b.dst] <= distance'[b.src] + b.cost
    BY <2>1, <2>2, <2>3
  <2>5. b.dst \in DOMAIN distance'
    BY <1>8, <2>1
  <2> QED BY <2>4, <2>5 DEF Relaxed, b
<1>14. Relaxed(i)'
  <2>1. distance'[c.dst] = x /\ distance'[c.src] = distance[current]
    BY <1>1, <1>2, <1>7, <1>8
  <2>2. distance'[c.dst] <= distance'[c.src] + c.cost
    BY <1>3, <1>4, <2>1
  <2> QED BY <1>2, <1>8, <2>2 DEF Relaxed
<1>15. Frontier'
  <2> SUFFICES ASSUME NEW n \in DOMAIN distance',
                      <<distance'[n], n>> \notin queue',
                      NEW j \in Adjacent(n)
               PROVE  j \in pending' \/ Relaxed(j)'
    BY RequestStays DEF Frontier
  <2>1. n # d /\ n \in D /\ distance'[n] = distance[n]
    BY <1>8
  <2>2. <<distance[n], n>> \notin queue
    BY <2>1
  <2>3. j \in pending \/ Relaxed(j)
    BY <2>1, <2>2 DEF SearchInv, Frontier
  <2>4. j \in Steps /\ request.crossings[j].src = n
    BY DEF Adjacent, Steps
  <2>5. CASE j = i
    BY <1>14, <2>5
  <2>6. CASE j # i /\ j \in pending
    BY <2>6
  <2>7. CASE Relaxed(j)
    BY <1>13, <2>1, <2>4, <2>7
  <2> QED BY <2>3, <2>5, <2>6, <2>7
<1>16. Tree'
  <2>1. DOMAIN previous' = DOMAIN distance' \ {request.origin}
    BY <1>7, <1>8, <1>9 DEF SearchInv, Tree
  <2> SUFFICES ASSUME NEW n \in DOMAIN previous'
               PROVE  /\ previous'[n] \in DOMAIN distance'
                      /\ \E j \in Adjacent(previous'[n]) :
                            /\ request.crossings[j].dst = n
                            /\ distance'[previous'[n]] + request.crossings[j].cost
                                  <= distance'[n]
    BY <2>1, RequestStays DEF Tree
  <2>2. CASE n = d
    <3>1. distance'[current] = distance[current]
      BY <1>1, <1>7, <1>8
    <3>2. distance'[previous'[n]] + c.cost <= distance'[n]
      BY <1>3, <1>4, <1>8, <1>9, <2>2, <3>1
    <3> QED BY <1>1, <1>2, <1>8, <1>9, <2>2, <3>2
  <2>3. CASE n # d
    <3>1. n \in DOMAIN previous /\ previous'[n] = previous[n] /\ n \in D
      BY <1>9, <2>3 DEF SearchInv, Tree
    <3>2. PICK j \in Adjacent(previous[n]) :
             /\ request.crossings[j].dst = n
             /\ distance[previous[n]] + request.crossings[j].cost <= distance[n]
      BY <3>1 DEF SearchInv, Tree
    <3>3. previous[n] \in D
      BY <3>1 DEF SearchInv, Tree
    <3>4. request.crossings[j].cost \in Nat
      BY DEF SearchInv, Found, IsRequest, NoNegativeCost, Adjacent
    <3>5. /\ distance'[previous[n]] <= distance[previous[n]]
          /\ distance'[previous[n]] \in Nat /\ distance[previous[n]] \in Nat
          /\ distance'[n] = distance[n] /\ distance[n] \in Nat
      BY <1>6, <1>8, <1>10, <2>3, <3>1, <3>3
    <3>6. distance'[previous[n]] + request.crossings[j].cost <= distance'[n]
      BY <3>2, <3>4, <3>5
    <3> QED BY <1>8, <3>1, <3>2, <3>3, <3>6
  <2> QED BY <2>2, <2>3
<1>17. Walked'
  <2> DEFINE o == request.origin
  <2>1. \A n \in D : \E w \in Walks(o) : LeadsTo(w, n)
    BY DEF SearchInv, Walked
  <2>2. ASSUME NEW w, NEW n, LeadsTo(w, n) PROVE LeadsTo(w, n)'
    BY <1>8, <2>2, RequestStays DEF LeadsTo
  <2>3. ASSUME d \notin D PROVE \E w \in Walks(o) : LeadsTo(w, d)'
    <3>1. PICK w \in Walks(o) : LeadsTo(w, current)
      BY <1>1, <2>1
    <3>2. /\ IsRequest(request) /\ i \in Adjacent(End(o, w))
          /\ \A k \in 0..Len(w) : At(o, w, k) # request.crossings[i].dst
      BY <1>1, <1>2, <2>3, <3>1 DEF SearchInv, Found, LeadsTo
    <3>3. PICK v \in Walks(o) :
             /\ Len(v) = Len(w) + 1 /\ End(o, v) = d
             /\ \A k \in 0..Len(w) : At(o, v, k) = At(o, w, k)
      BY <1>2, <3>2, LongerWalk
    <3>4. Len(w) \in Nat
      BY <3>2, WalksAre
    <3>5. ASSUME NEW k \in 0..Len(v) PROVE At(o, v, k) \in D \cup {d}
      <4>1. CASE k \in 0..Len(w)
        BY <3>1, <3>3, <4>1 DEF LeadsTo
      <4>2. CASE k = Len(v)
        BY <3>3, <4>2 DEF End
      <4> QED BY <3>3, <3>4, <4>1, <4>2
    <3>6. LeadsTo(v, d)'
      BY <1>8, <3>3, <3>5, RequestStays DEF LeadsTo
    <3> QED BY <3>6
  <2>4. \A n \in DOMAIN distance' : \E w \in Walks(o) : LeadsTo(w, n)'
    BY <1>8, <2>1, <2>2, <2>3
  <2> QED BY <2>4, RequestStays DEF Walked
<1> QED BY <1>11, <1>12, <1>15, <1>16, <1>17 DEF SearchInv

LEMMA RelaxKeeps ==
    ASSUME SearchInv, RelaxNext
    PROVE  SearchInv'
<1>1. PICK i \in pending : pending' = pending \ {i} /\ Relax(request.crossings[i])
  BY DEF RelaxNext
<1>2. UNCHANGED <<request, current, current_distance>> /\ request.origin \in Admissible
  BY DEF RelaxNext, Routable
<1>3. CASE Improves(request.crossings[i])
  BY <1>1, <1>2, <1>3, Improvement DEF Relax
<1>4. CASE ~Improves(request.crossings[i])
  <2>1. UNCHANGED <<distance, previous, queue>>
    BY <1>1, <1>4 DEF Relax
  <2>2. Found'
    BY <1>2, <2>1, RequestStays DEF SearchInv, Found
  <2>3. Looked'
    BY <1>1, <1>2, <2>1, RequestStays DEF SearchInv, Looked
  <2>4. Relaxed(i)
    <3>1. /\ current \in DOMAIN distance /\ current_distance = distance[current]
          /\ i \in Adjacent(current)
      BY DEF SearchInv, Looked
    <3>2. request.crossings[i].src = current /\ request.crossings[i].cost \in Nat
      BY <3>1 DEF Adjacent, SearchInv, Found, IsRequest, NoNegativeCost
    <3>3. /\ request.crossings[i].dst \in DOMAIN distance
          /\ ~(current_distance + request.crossings[i].cost
                  < distance[request.crossings[i].dst])
      BY <1>4 DEF Improves, Candidate
    <3>4. distance[request.crossings[i].dst] \in Nat /\ distance[current] \in Nat
      BY <3>1, <3>3 DEF SearchInv, Found
    <3>5. distance[request.crossings[i].dst] <= distance[current] + request.crossings[i].cost
      BY <3>1, <3>2, <3>3, <3>4
    <3> QED BY <3>2, <3>3, <3>5 DEF Relaxed
  <2>5. Frontier'
    <3> SUFFICES ASSUME NEW n \in DOMAIN distance, <<distance[n], n>> \notin queue,
                        NEW j \in Adjacent(n)
                 PROVE  j \in pending' \/ Relaxed(j)
      BY <1>2, <2>1, RequestStays DEF Frontier, Relaxed
    <3>1. j \in pending \/ Relaxed(j)
      BY DEF SearchInv, Frontier
    <3> QED BY <1>1, <2>4, <3>1
  <2>6. Tree'
    BY <1>2, <2>1, RequestStays DEF SearchInv, Tree
  <2>7. Walked'
    BY <1>2, <2>1, RequestStays DEF SearchInv, Walked, LeadsTo
  <2> QED BY <2>2, <2>3, <2>5, <2>6, <2>7 DEF SearchInv
<1> QED BY <1>3, <1>4

---------------------------------------------------------------------------
(* When the queue is empty, every walk from the origin ends at a node that *)
(* was found, and costs no less than its distance.                         *)
Done == SearchInv /\ queue = {} /\ pending = {} /\ request.origin \in Admissible

LEMMA WalksCostNoLess ==
    ASSUME Done, NEW w \in Walks(request.origin)
    PROVE  /\ End(request.origin, w) \in DOMAIN distance
           /\ distance[End(request.origin, w)] <= Cost(w)
           /\ Cost(w) \in Int
<1> DEFINE L == Len(w)
           N(k) == At(request.origin, w, k)
<1>1. IsRequest(request)
  BY DEF Done, SearchInv, Found
<1>2. w \in Seq(Steps) /\ IsWalk(request.origin, w) /\ L \in Nat
  BY <1>1, WalksAre
<1>3. PICK s : /\ Sums(s, Costs(w), L) /\ Cost(w) = s[L]
               /\ \A k \in 0..L : s[k] \in Int
  BY <1>1, <1>2, CostIsSum
<1> DEFINE S == {k \in 0..L : N(k) \in DOMAIN distance /\ distance[N(k)] <= s[k]}
<1>4. 0 \in S
  <2>1. N(0) = request.origin /\ s[0] = 0 /\ 0 \in 0..L
    BY <1>2, <1>3 DEF At, Sums
  <2>2. request.origin \in DOMAIN distance /\ distance[request.origin] = 0
    BY DEF Done, SearchInv, Found
  <2> QED BY <2>1, <2>2
<1>5. ASSUME NEW k \in 1..L, k - 1 \in S PROVE k \in S
  <2> DEFINE i == w[k]
             c == request.crossings[i]
  <2>1. k \in 0..L /\ k - 1 \in 0..L /\ k # 0
    BY <1>2
  <2>2. i \in Steps /\ c.src = N(k - 1) /\ c.dst = N(k)
    BY <1>2, <2>1 DEF IsWalk, At
  <2>3. N(k - 1) \in Admissible /\ N(k) \in Admissible
    BY <1>2, <2>1 DEF IsWalk
  <2>4. i \in Adjacent(N(k - 1))
    BY <2>2, <2>3 DEF Adjacent, Steps
  <2>5. Relaxed(i)
    BY <1>5, <2>4 DEF Done, SearchInv, Frontier
  <2>6. N(k) \in DOMAIN distance /\ distance[N(k)] <= distance[N(k - 1)] + c.cost
    BY <2>2, <2>5 DEF Relaxed
  <2>7. s[k] = s[k - 1] + c.cost
    BY <1>3 DEF Sums, Costs
  <2>8. /\ c.cost \in Nat /\ distance[N(k)] \in Nat /\ distance[N(k - 1)] \in Nat
        /\ s[k - 1] \in Int /\ s[k] \in Int
    BY <1>1, <1>3, <1>5, <2>1, <2>2, <2>6 DEF IsRequest, NoNegativeCost, Steps, Done,
       SearchInv, Found
  <2>9. distance[N(k - 1)] <= s[k - 1]
    BY <1>5
  <2> HIDE DEF c, i, N
  <2>10. distance[N(k)] <= s[k]
    BY <2>6, <2>7, <2>8, <2>9
  <2> QED BY <2>1, <2>6, <2>10
<1> HIDE DEF S
<1>6. 0..L \subseteq S
  BY <1>2, <1>4, <1>5, Induction
<1>7. L \in S /\ L \in 0..L
  BY <1>2, <1>6
<1> QED BY <1>3, <1>7 DEF S, End

(* The walk back follows previous, from a node that was found.             *)
Traced ==
    /\ path \in Seq(DOMAIN distance) /\ Len(path) > 0
    /\ \A k \in 2..Len(path) :
          path[k] \in DOMAIN previous /\ previous[path[k]] = path[k - 1]

(* When it has come to the origin it is a walk that costs the distance:    *)
(* the inequalities of Tree and of the relaxed crossings meet.  It goes    *)
(* through no node twice, for from two such places it would go back alike, *)
(* and to the origin from a node that has a previous one.                  *)
LEMMA TraceIsWalk ==
    ASSUME Done, Traced, path[1] \notin DOMAIN previous
    PROVE  \E w \in Walks(request.origin) :
              /\ Ids(w) = path /\ End(request.origin, w) = path[Len(path)]
              /\ Cost(w) = distance[path[Len(path)]]
<1> DEFINE o == request.origin
           L == Len(path) - 1
           IsLeg(k, i) == /\ i \in Adjacent(path[k])
                          /\ request.crossings[i].dst = path[k + 1]
                          /\ distance[path[k]] + request.crossings[i].cost
                                <= distance[path[k + 1]]
           w == [k \in 1..L |-> CHOOSE i \in Adjacent(path[k]) : IsLeg(k, i)]
<1>1. IsRequest(request)
  BY DEF Done, SearchInv, Found
<1>2. /\ Len(path) \in Nat /\ L \in Nat /\ Len(path) = L + 1
      /\ DOMAIN path = 1..(L + 1)
      /\ \A k \in 1..(L + 1) : path[k] \in DOMAIN distance
  BY DEF Traced
<1>3. path[1] = o
  BY <1>2 DEF Done, SearchInv, Tree
<1>4. ASSUME NEW k \in 1..L
      PROVE  /\ path[k + 1] \in DOMAIN previous /\ previous[path[k + 1]] = path[k]
             /\ path[k] \in DOMAIN distance /\ path[k + 1] \in DOMAIN distance
  <2>1. k + 1 \in 2..Len(path) /\ (k + 1) - 1 = k /\ k \in 1..(L + 1) /\ k + 1 \in 1..(L + 1)
    BY <1>2
  <2> QED BY <1>2, <2>1 DEF Traced
<1>5. ASSUME NEW k \in 1..L PROVE IsLeg(k, w[k])
  <2>1. \E i \in Adjacent(path[k]) : IsLeg(k, i)
    BY <1>4 DEF Done, SearchInv, Tree
  <2> QED BY <2>1
<1>6. ASSUME NEW k \in 1..L
      PROVE  /\ w[k] \in Steps
             /\ request.crossings[w[k]].src = path[k]
             /\ request.crossings[w[k]].dst = path[k + 1]
             /\ request.crossings[w[k]].cost \in Nat
             /\ distance[path[k + 1]] = distance[path[k]] + request.crossings[w[k]].cost
  <2> DEFINE c == request.crossings[w[k]]
  <2>1. /\ w[k] \in Adjacent(path[k]) /\ c.dst = path[k + 1]
        /\ distance[path[k]] + c.cost <= distance[path[k + 1]]
    BY <1>5
  <2>2. w[k] \in Steps /\ c.src = path[k] /\ c.cost \in Nat
    BY <1>1, <2>1 DEF Adjacent, Steps, IsRequest, NoNegativeCost
  <2>3. Relaxed(w[k])
    BY <1>4, <2>1 DEF Done, SearchInv, Frontier
  <2>4. distance[path[k + 1]] <= distance[path[k]] + c.cost
    BY <2>1, <2>2, <2>3 DEF Relaxed
  <2>5. distance[path[k + 1]] \in Nat /\ distance[path[k]] \in Nat
    BY <1>4 DEF Done, SearchInv, Found
  <2> HIDE DEF c, w, L
  <2>6. distance[path[k + 1]] = distance[path[k]] + c.cost
    BY <2>1, <2>2, <2>4, <2>5
  <2> QED BY <2>1, <2>2, <2>6 DEF c
<1>7. w \in Seq(Steps) /\ Len(w) = L
  <2>1. w \in [1..L -> Steps]
    BY <1>6
  <2> HIDE DEF w
  <2> QED BY <1>2, <2>1, FunctionLength
<1> HIDE DEF w
<1>8. ASSUME NEW k \in 0..L PROVE At(o, w, k) = path[k + 1]
  <2>1. CASE k = 0
    BY <1>3, <2>1 DEF At
  <2>2. CASE k # 0
    <3>1. k \in 1..L
      BY <1>2, <2>2
    <3> QED BY <1>6, <2>2, <3>1 DEF At
  <2> QED BY <2>1, <2>2
<1>9. ASSUME NEW j \in 1..(L + 1), NEW k \in 1..(L + 1), j < k
      PROVE  path[j] # path[k]
  <2> SUFFICES ASSUME path[j] = path[k] PROVE FALSE
    OBVIOUS
  <2> DEFINE n == j - 1
             S == {m \in 0..n : path[j - m] = path[k - m]}
  <2>1. n \in Nat /\ j \in Int /\ k \in Int
    BY <1>2
  <2>2. 0 \in S
    BY <2>1
  <2>3. ASSUME NEW m \in 1..n, m - 1 \in S PROVE m \in S
    <3> DEFINE p == j - m
               q == k - m
    <3>1. /\ p \in 1..L /\ q \in 1..L /\ p + 1 = j - (m - 1) /\ q + 1 = k - (m - 1)
          /\ m \in 0..n
      BY <1>2, <1>9, <2>1
    <3>2. path[p + 1] = path[q + 1]
      BY <2>3, <3>1
    <3>3. previous[path[p + 1]] = path[p] /\ previous[path[q + 1]] = path[q]
      BY <1>4, <3>1
    <3> QED BY <3>1, <3>2, <3>3
  <2> HIDE DEF S, n
  <2>4. n \in S
    <3>1. 0..n \subseteq S
      BY <2>1, <2>2, <2>3, Induction
    <3> QED BY <2>1, <3>1
  <2>5. path[j - n] = path[k - n]
    BY <2>4 DEF S
  <2> USE DEF n
  <2> DEFINE q == k - j
  <2>6. j - n = 1 /\ k - n = q + 1 /\ q \in 1..L
    BY <1>2, <1>9, <2>1
  <2>7. path[q + 1] \in DOMAIN previous
    BY <1>4, <2>6
  <2> QED BY <2>5, <2>6, <2>7
<1>10. IsWalk(o, w)
  <2>1. ASSUME NEW k \in 1..L
        PROVE  request.crossings[w[k]].src = At(o, w, k - 1)
    <3>1. k - 1 \in 0..L /\ (k - 1) + 1 = k
      BY <1>2
    <3> QED BY <1>6, <1>8, <3>1
  <2>2. ASSUME NEW k \in 0..L PROVE At(o, w, k) \in Admissible
    <3>1. k + 1 \in 1..(L + 1)
      BY <1>2
    <3> QED BY <1>2, <1>8, <3>1 DEF Done, SearchInv, Found
  <2>3. ASSUME NEW j \in 0..L, NEW k \in 0..L, At(o, w, j) = At(o, w, k)
        PROVE  j = k
    <3>1. path[j + 1] = path[k + 1]
      BY <1>8, <2>3
    <3>2. /\ j + 1 \in 1..(L + 1) /\ k + 1 \in 1..(L + 1)
          /\ j + 1 < k + 1 \/ k + 1 < j + 1 \/ j = k
      BY <1>2
    <3> QED BY <1>9, <3>1, <3>2
  <2> QED BY <1>7, <2>1, <2>2, <2>3 DEF IsWalk
<1>11. w \in Walks(o)
  BY <1>1, <1>7, <1>10, WalksAre
<1>12. Ids(w) = path
  <2>1. ASSUME NEW k \in 1..(L + 1) PROVE At(o, w, k - 1) = path[k]
    <3>1. k - 1 \in 0..L /\ (k - 1) + 1 = k
      BY <1>2
    <3> QED BY <1>8, <3>1
  <2>2. Ids(w) = [k \in 1..(L + 1) |-> path[k]]
    BY <1>7, <2>1 DEF Ids
  <2>3. path = [k \in 1..(L + 1) |-> path[k]]
    BY <1>2 DEF Traced
  <2> QED BY <2>2, <2>3
<1>13. End(o, w) = path[Len(path)]
  <2>1. L \in 0..L
    BY <1>2
  <2> QED BY <1>2, <1>7, <1>8, <2>1 DEF End
<1>14. Cost(w) = distance[path[Len(path)]]
  <2>1. PICK s : Sums(s, Costs(w), L) /\ Cost(w) = s[L]
    BY <1>1, <1>7, CostIsSum
  <2> DEFINE S == {k \in 0..L : s[k] = distance[path[k + 1]]}
  <2>2. 0 \in S
    BY <1>2, <1>3, <2>1 DEF Sums, Done, SearchInv, Found
  <2>3. ASSUME NEW k \in 1..L, k - 1 \in S PROVE k \in S
    <3>1. s[k] = s[k - 1] + request.crossings[w[k]].cost
      BY <1>7, <2>1 DEF Sums, Costs
    <3>2. s[k - 1] = distance[path[k]] /\ k \in 0..L
      <4>1. (k - 1) + 1 = k /\ k \in 0..L
        BY <1>2
      <4> QED BY <2>3, <4>1
    <3> QED BY <1>6, <3>1, <3>2
  <2> HIDE DEF S
  <2>4. L \in S
    <3>1. 0..L \subseteq S
      BY <1>2, <2>2, <2>3, Induction
    <3> QED BY <1>2, <3>1
  <2> QED BY <1>2, <2>1, <2>4 DEF S
<1> QED BY <1>11, <1>12, <1>13, <1>14

---------------------------------------------------------------------------
(* The path that is walked back ends at a best of the targets.             *)
WalkInv ==
    /\ Done /\ Traced
    /\ path[Len(path)] \in Reachable
    /\ \A n \in Reachable : Scored(n) /\ Total(path[Len(path)]) <= Total(n)

(* The potential is a number wherever it is known, which is where the loop *)
(* of the report stands.                                                   *)
PhiInv ==
    /\ \A n \in DOMAIN phi : phi[n] \in Int
    /\ stack \in Seq(DOMAIN phi)
    /\ pc = "report" => /\ pending \subseteq Adjacent(current)
                        /\ pending # {} => current \in DOMAIN phi

RoutingInv ==
    /\ IsRequest(request)
    /\ pc \in {"search", "walk back"} => SearchInv
    /\ pc = "walk back" => WalkInv
    /\ RouteIsOptimal
    /\ PhiInv
    /\ ConservativeMeansPathFree

LEMMA OptimalStays ==
    ASSUME RouteIsOptimal, request' = request, result' = result
    PROVE  RouteIsOptimal'
<1>1. \A w : Ids(w)' = Ids(w)
  BY DEF Ids, At
<1> QED BY <1>1, RequestStays DEF RouteIsOptimal, Routed

LEMMA PathFreeStays ==
    ASSUME ConservativeMeansPathFree, request' = request, report' = report
    PROVE  ConservativeMeansPathFree'
BY RequestStays DEF ConservativeMeansPathFree

LEMMA PhiStays ==
    ASSUME PhiInv, UNCHANGED <<request, phi, stack>>,
           pc' = "report" => pc = "report" /\ UNCHANGED <<pending, current>>
    PROVE  PhiInv'
BY RequestStays DEF PhiInv

LEMMA NotRefused ==
    None # Raises("409") /\ None.raised # "no" /\ Raises("409").raised # "no"
<1>1. None.raised = "nothing" /\ Raises("409").raised = "409"
  BY DEF None, Raises
<1> QED BY <1>1

(* A refused request: the origin is inadmissible, or no walk leads to a    *)
(* target, or one leads to a target without a value.                       *)
LEMMA RefusedRightly ==
    ASSUME request' = request, result' = Raises("409"),
           \/ request.origin \notin Admissible
           \/ Candidates = {}
           \/ Done /\ Reachable = {}
           \/ Done /\ \E n \in Reachable : ~Scored(n)
    PROVE  RouteIsOptimal'
<1>1. ~Routed'
  BY NotRefused DEF Routed
<1> DEFINE o == request.origin
<1>2. \/ o \notin Admissible
      \/ \A w \in Walks(o) : End(o, w) \notin Candidates
      \/ \E w \in Walks(o) : End(o, w) \in Candidates /\ ~Scored(End(o, w))
  <2>1. CASE o \notin Admissible \/ Candidates = {}
    BY <2>1
  <2>2. CASE Done /\ Reachable = {}
    BY <2>2, WalksCostNoLess DEF Reachable
  <2>3. CASE Done /\ \E n \in Reachable : ~Scored(n)
    <3>1. PICK n \in Reachable : ~Scored(n)
      BY <2>3
    <3>2. PICK w \in Walks(o) : LeadsTo(w, n)
      BY <2>3, <3>1 DEF Done, SearchInv, Walked, Reachable
    <3> QED BY <3>1, <3>2 DEF LeadsTo, Reachable
  <2> QED BY <2>1, <2>2, <2>3
<1> QED BY <1>1, <1>2, RequestStays DEF RouteIsOptimal

(* The answer of route.                                                    *)
LEMMA AnsweredRightly ==
    ASSUME RoutingInv, FinishRoute
    PROVE  RouteIsOptimal'
<1> DEFINE o == request.origin
           t == path[Len(path)]
<1>1. WalkInv /\ path[1] \notin DOMAIN previous /\ request' = request
  BY DEF RoutingInv, FinishRoute
<1>2. /\ result' = [raised |-> "no", path |-> path, crossing_cost |-> distance[t],
                    total_cost |-> Total(t)]
  BY DEF FinishRoute
<1>3. /\ result'.path = path /\ result'.crossing_cost = distance[t]
      /\ result'.total_cost = Total(t)
      /\ result' # Raises("409")
  <2>1. result'.raised = "no"
    BY <1>2
  <2> QED BY <1>2, <2>1, NotRefused
<1>4. \E w \in Walks(o) : /\ End(o, w) \in Candidates /\ Ids(w) = path
                          /\ Cost(w) = distance[t]
  BY <1>1, TraceIsWalk DEF WalkInv, Reachable
<1>5. ASSUME NEW w \in Walks(o), End(o, w) \in Candidates
      PROVE  Total(t) <= Cost(w) + Potential(End(o, w))
  <2> DEFINE n == End(o, w)
  <2>1. /\ n \in DOMAIN distance /\ distance[n] <= Cost(w) /\ Cost(w) \in Int
    BY <1>1, WalksCostNoLess DEF WalkInv
  <2>2. n \in Reachable /\ t \in Reachable
    BY <1>1, <1>5, <2>1 DEF Reachable, WalkInv
  <2>3. Total(t) <= Total(n) /\ Scored(n) /\ Scored(t)
    BY <1>1, <2>2 DEF WalkInv
  <2>4. /\ n \in Nodes /\ t \in Nodes
        /\ distance[n] \in Nat /\ distance[t] \in Nat
    BY <1>1, <2>2 DEF Reachable, Candidates, Admissible, WalkInv, Done, SearchInv, Found
  <2>5. Potential(n) \in Int /\ Potential(t) \in Int
    BY <2>3, <2>4, PotentialIsInt DEF RoutingInv
  <2> HIDE DEF n, t
  <2>6. Total(t) <= Cost(w) + Potential(n)
    BY <2>1, <2>3, <2>4, <2>5 DEF Total
  <2> QED BY <2>6 DEF n
<1>6. \A w : Ids(w)' = Ids(w)
  BY <1>1 DEF Ids, At
<1> HIDE DEF t
<1> QED BY <1>1, <1>3, <1>4, <1>5, <1>6, RequestStays DEF RouteIsOptimal

(* In a conservative graph a walk costs the difference of the potential.   *)
LEMMA CostIsDifference ==
    ASSUME IsRequest(request), PhiInv, Admissible \subseteq DOMAIN phi, Conservative,
           NEW n \in Admissible, NEW w \in Walks(n)
    PROVE  Cost(w) = phi[End(n, w)] - phi[n]
<1> DEFINE L == Len(w)
           N(k) == At(n, w, k)
<1>1. w \in Seq(Steps) /\ IsWalk(n, w) /\ L \in Nat
  BY WalksAre
<1>2. PICK s : /\ Sums(s, Costs(w), L) /\ Cost(w) = s[L]
               /\ \A k \in 0..L : s[k] \in Int
  BY <1>1, CostIsSum
<1>3. \A k \in 0..L : N(k) \in DOMAIN phi /\ phi[N(k)] \in Int
  BY <1>1 DEF IsWalk, PhiInv
<1>4. N(0) = n /\ 0 \in 0..L /\ L \in 0..L
  BY <1>1 DEF At
<1> DEFINE S == {k \in 0..L : s[k] = phi[N(k)] - phi[n]}
<1>5. 0 \in S
  BY <1>2, <1>3, <1>4 DEF Sums
<1>6. ASSUME NEW k \in 1..L, k - 1 \in S PROVE k \in S
  <2> DEFINE c == request.crossings[w[k]]
  <2>1. k \in 0..L /\ k - 1 \in 0..L /\ k # 0
    BY <1>1
  <2>2. w[k] \in Steps /\ c.src = N(k - 1) /\ c.dst = N(k)
    BY <1>1, <2>1 DEF IsWalk, At
  <2>3. c.cost = phi[N(k)] - phi[N(k - 1)]
    BY <1>3, <2>1, <2>2 DEF Conservative, Residual, Steps
  <2>4. s[k] = s[k - 1] + c.cost
    BY <1>2 DEF Sums, Costs
  <2>5. s[k - 1] = phi[N(k - 1)] - phi[n]
    BY <1>6
  <2>6. phi[N(k)] \in Int /\ phi[N(k - 1)] \in Int /\ phi[n] \in Int
    BY <1>3, <1>4, <2>1
  <2> HIDE DEF c, N
  <2>7. s[k] = phi[N(k)] - phi[n]
    BY <2>3, <2>4, <2>5, <2>6
  <2> QED BY <2>1, <2>7
<1> HIDE DEF S
<1>7. 0..L \subseteq S
  BY <1>1, <1>5, <1>6, Induction
<1> QED BY <1>2, <1>4, <1>7 DEF S, End

---------------------------------------------------------------------------
(* The steps.  Whatever leaves request, result and report alone keeps what *)
(* was promised of them.                                                   *)
Answers == <<request, result, report, phi, stack>>

LEMMA QuietStep ==
    ASSUME RoutingInv, UNCHANGED Answers,
           pc' \in {"search", "walk back"} => SearchInv',
           pc' = "walk back" => WalkInv',
           pc' = "report" => pc = "report" /\ UNCHANGED <<pending, current>>
    PROVE  RoutingInv'
<1> USE DEF Answers
<1>1. IsRequest(request)'
  BY DEF RoutingInv
<1>2. RouteIsOptimal' /\ ConservativeMeansPathFree'
  BY OptimalStays, PathFreeStays DEF RoutingInv
<1>3. PhiInv'
  BY PhiStays DEF RoutingInv
<1> QED BY <1>1, <1>2, <1>3 DEF RoutingInv

LEMMA WalkStays ==
    ASSUME WalkInv, UNCHANGED <<searchState, path>>
    PROVE  WalkInv'
<1> USE DEF searchState
<1>1. SearchInv'
  BY SearchStutters DEF WalkInv, Done
<1>2. Done'
  BY <1>1, RequestStays DEF WalkInv, Done
<1>3. Traced'
  BY DEF WalkInv, Traced
<1>4. Reachable' = Reachable
  BY RequestStays DEF Reachable
<1>5. \A n : Total(n)' = Total(n)
  BY RequestStays DEF Total
<1> QED BY <1>2, <1>3, <1>4, <1>5, RequestStays DEF WalkInv

LEMMA RoutingStutters ==
    ASSUME RoutingInv, UNCHANGED vars
    PROVE  RoutingInv'
<1>1. UNCHANGED <<Answers, searchState, path, pc>>
  BY DEF vars, Answers, searchState, searchVars, loopVars, reportVars
<1>2. UNCHANGED <<pending, current>> /\ UNCHANGED Answers /\ pc' = pc
  BY <1>1 DEF searchState
<1>3. pc \in {"search", "walk back"} => SearchInv'
  BY <1>1, SearchStutters DEF RoutingInv
<1>4. pc = "walk back" => WalkInv'
  BY <1>1, WalkStays DEF RoutingInv
<1> QED BY <1>2, <1>3, <1>4, QuietStep

LEMMA LoopStep ==
    ASSUME RoutingInv, Visit \/ SkipStale \/ RelaxNext
    PROVE  RoutingInv'
<1>1. UNCHANGED Answers /\ pc = "search" /\ pc' = pc
  BY DEF Visit, SkipStale, RelaxNext, Routable, Answers, reportVars
<1>2. SearchInv
  BY <1>1 DEF RoutingInv
<1>3. SearchInv'
  BY <1>2, VisitKeeps, SkipKeeps, RelaxKeeps
<1> QED BY <1>1, <1>3, QuietStep

LEMMA RefusalStep ==
    ASSUME RoutingInv, RefuseRequest \/ RaiseInRoute
    PROVE  RoutingInv'
<1>1. /\ request' = request /\ pc' = "answered" /\ result' = Raises("409")
      /\ UNCHANGED <<phi, stack, report>>
  BY DEF RefuseRequest, RaiseInRoute, reportVars
<1>2. RaiseInRoute => Done
  BY DEF RaiseInRoute, Exhausted, Routable, Done, RoutingInv
<1>3. RouteIsOptimal'
  BY <1>1, <1>2, RefusedRightly DEF RefuseRequest, RaiseInRoute
<1>4. PhiInv'
  BY <1>1, PhiStays DEF RoutingInv
<1>5. ConservativeMeansPathFree'
  BY <1>1, PathFreeStays DEF RoutingInv
<1> QED BY <1>1, <1>3, <1>4, <1>5 DEF RoutingInv

LEMMA TerminalStep ==
    ASSUME RoutingInv, ChooseTerminal
    PROVE  RoutingInv'
<1>1. /\ pc' = "walk back" /\ UNCHANGED Answers /\ UNCHANGED searchState
  BY DEF ChooseTerminal, Answers, searchState, searchVars, loopVars, reportVars
<1>2. Done
  BY DEF ChooseTerminal, Exhausted, Routable, Done, RoutingInv
<1>3. PICK t \in Reachable : /\ \A n \in Reachable : Scored(n) /\ Total(t) <= Total(n)
                             /\ path' = <<t>>
  BY DEF ChooseTerminal
<1>4. SearchInv'
  BY <1>1, <1>2, SearchStutters DEF Done
<1>5. UNCHANGED <<request, distance, previous, queue, pending>>
  BY <1>1 DEF searchState
<1>6. Done'
  BY <1>2, <1>4, <1>5, RequestStays DEF Done
<1>7. Len(path') = 1 /\ path'[1] = t
  BY <1>3
<1>8. Traced'
  <2>1. t \in DOMAIN distance
    BY DEF Reachable
  <2>2. path' \in Seq(DOMAIN distance)
    BY <1>3, <2>1
  <2> QED BY <1>5, <1>7, <2>2 DEF Traced
<1>9. Reachable' = Reachable
  BY <1>5, RequestStays DEF Reachable
<1>10. \A n : Total(n)' = Total(n)
  BY <1>5, RequestStays DEF Total
<1>11. path'[Len(path')] = t
  BY <1>7
<1>12. WalkInv'
  BY <1>3, <1>5, <1>6, <1>8, <1>9, <1>10, <1>11, RequestStays DEF WalkInv
<1> QED BY <1>1, <1>4, <1>12, QuietStep

(* A sequence with one more element in front.                              *)
LEMMA InFront ==
    ASSUME NEW S, NEW s \in Seq(S), NEW x \in S
    PROVE  /\ <<x>> \o s \in Seq(S) /\ Len(<<x>> \o s) = Len(s) + 1
           /\ (<<x>> \o s)[1] = x
           /\ \A k \in 2..(Len(s) + 1) : (<<x>> \o s)[k] = s[k - 1]
<1>1. <<x>> \in Seq(S) /\ Len(<<x>>) = 1 /\ <<x>>[1] = x /\ Len(s) \in Nat
  OBVIOUS
<1>2. PICK h \in Seq(S) : h = <<x>>
  BY <1>1
<1>3. h \o s \in Seq(S) /\ Len(h \o s) = 1 + Len(s)
  BY <1>1, <1>2, ConcatProperties
<1>4. \A k \in 1..(1 + Len(s)) :
         (h \o s)[k] = IF k <= 1 THEN h[k] ELSE s[k - 1]
  BY <1>1, <1>2, ConcatProperties
<1>5. (h \o s)[1] = x
  BY <1>1, <1>2, <1>4
<1>6. ASSUME NEW k \in 2..(Len(s) + 1) PROVE (h \o s)[k] = s[k - 1]
  <2>1. k \in 1..(1 + Len(s)) /\ ~(k <= 1)
    BY <1>1
  <2> QED BY <1>4, <2>1
<1> QED BY <1>1, <1>2, <1>3, <1>5, <1>6

LEMMA WalkBackStep ==
    ASSUME RoutingInv, WalkBack
    PROVE  RoutingInv'
<1>1. /\ pc = "walk back" /\ pc' = pc /\ UNCHANGED Answers /\ UNCHANGED searchState
      /\ path[1] \in DOMAIN previous /\ path' = <<previous[path[1]]>> \o path
  BY DEF WalkBack, Answers, searchState, searchVars, loopVars, reportVars
<1>2. WalkInv
  BY <1>1 DEF RoutingInv
<1>3. SearchInv'
  BY <1>1, <1>2, SearchStutters DEF WalkInv, Done
<1>4. UNCHANGED <<request, distance, previous, queue, pending>>
  BY <1>1 DEF searchState
<1>5. Done'
  BY <1>2, <1>3, <1>4, RequestStays DEF WalkInv, Done
<1> DEFINE p == previous[path[1]]
           L == Len(path)
<1>6. /\ path \in Seq(DOMAIN distance) /\ L > 0 /\ L \in Nat
      /\ \A k \in 2..L : path[k] \in DOMAIN previous /\ previous[path[k]] = path[k - 1]
  BY <1>2 DEF WalkInv, Traced
<1>7. p \in DOMAIN distance
  BY <1>1, <1>2 DEF WalkInv, Done, SearchInv, Tree
<1> HIDE DEF p
<1>8. /\ path' \in Seq(DOMAIN distance) /\ Len(path') = L + 1 /\ path'[1] = p
      /\ \A k \in 2..(L + 1) : path'[k] = path[k - 1]
  <2>1. /\ <<p>> \o path \in Seq(DOMAIN distance) /\ Len(<<p>> \o path) = L + 1
        /\ (<<p>> \o path)[1] = p
        /\ \A k \in 2..(L + 1) : (<<p>> \o path)[k] = path[k - 1]
    BY <1>6, <1>7, InFront
  <2>2. path' = <<p>> \o path
    BY <1>1 DEF p
  <2> QED BY <2>1, <2>2
<1>9. Traced'
  <2>1. ASSUME NEW k \in 2..(L + 1)
        PROVE  path'[k] \in DOMAIN previous /\ previous[path'[k]] = path'[k - 1]
    <3>1. CASE k = 2
      <4>1. path'[k] = path[1] /\ path'[k - 1] = p
        BY <1>6, <1>8, <3>1
      <4> QED BY <1>1, <4>1 DEF p
    <3>2. CASE k # 2
      <4>1. k - 1 \in 2..L /\ k - 1 \in 2..(L + 1)
        BY <1>6, <3>2
      <4>2. path'[k] = path[k - 1] /\ path'[k - 1] = path[(k - 1) - 1]
        BY <1>8, <4>1
      <4> QED BY <1>6, <4>1, <4>2
    <3> QED BY <3>1, <3>2
  <2> HIDE DEF L
  <2>2. Len(path') > 0
    BY <1>6, <1>8
  <2> QED BY <1>4, <1>8, <2>1, <2>2 DEF Traced
<1>10. path'[Len(path')] = path[L]
  <2>1. L + 1 \in 2..(L + 1) /\ (L + 1) - 1 = L
    BY <1>6
  <2> QED BY <1>8, <2>1
<1>11. Reachable' = Reachable
  BY <1>4, RequestStays DEF Reachable
<1>12. \A n : Total(n)' = Total(n)
  BY <1>4, RequestStays DEF Total
<1>13. WalkInv'
  BY <1>2, <1>4, <1>5, <1>9, <1>10, <1>11, <1>12, RequestStays DEF WalkInv
<1> QED BY <1>1, <1>3, <1>13, QuietStep

LEMMA FinishStep ==
    ASSUME RoutingInv, FinishRoute
    PROVE  RoutingInv'
<1>1. /\ pc = "walk back" /\ pc' = "report"
      /\ UNCHANGED <<request, phi, stack, report, pending, current>>
  BY DEF FinishRoute, loopVars, reportVars
<1>2. pending = {}
  BY <1>1 DEF RoutingInv, WalkInv, Done
<1>3. RouteIsOptimal'
  BY AnsweredRightly
<1>4. PhiInv'
  BY <1>1, <1>2 DEF RoutingInv, PhiInv
<1>5. ConservativeMeansPathFree'
  BY <1>1, PathFreeStays DEF RoutingInv
<1> QED BY <1>1, <1>3, <1>4, <1>5 DEF RoutingInv

LEMMA SearchStep ==
    ASSUME RoutingInv, Search
    PROVE  RoutingInv'
BY LoopStep, RefusalStep, TerminalStep, WalkBackStep, FinishStep DEF Search

LEMMA ReportQuiet ==
    ASSUME RoutingInv, pc = "report", pc' = "report", UNCHANGED <<request, result, report>>,
           PhiInv'
    PROVE  RoutingInv'
<1>1. IsRequest(request)'
  BY DEF RoutingInv
<1>2. RouteIsOptimal' /\ ConservativeMeansPathFree'
  BY OptimalStays, PathFreeStays DEF RoutingInv
<1> QED BY <1>1, <1>2 DEF RoutingInv

LEMMA RootStep ==
    ASSUME RoutingInv, VisitRoot
    PROVE  RoutingInv'
<1>1. /\ pc = "report" /\ pc' = pc /\ pending = {}
      /\ UNCHANGED <<request, result, report, pending, current>>
  BY DEF VisitRoot, loopVars
<1>2. PICK root \in Admissible : phi' = Put(phi, root, 0) /\ stack' = <<root>>
  BY DEF VisitRoot
<1>3. /\ DOMAIN phi' = DOMAIN phi \cup {root} /\ phi'[root] = 0
      /\ \A n \in DOMAIN phi : n # root => phi'[n] = phi[n]
  BY <1>2 DEF Put
<1>4. \A n \in DOMAIN phi' : phi'[n] \in Int
  <2>1. \A n \in DOMAIN phi : phi[n] \in Int
    BY DEF RoutingInv, PhiInv
  <2> QED BY <1>3, <2>1
<1>5. stack' \in Seq(DOMAIN phi')
  BY <1>2, <1>3
<1>6. PhiInv'
  BY <1>1, <1>4, <1>5 DEF PhiInv
<1> QED BY <1>1, <1>6, ReportQuiet

LEMMA ExploreStep ==
    ASSUME RoutingInv, Explore
    PROVE  RoutingInv'
<1>1. /\ pc = "report" /\ pc' = pc
      /\ UNCHANGED <<request, result, report, phi>>
      /\ stack # <<>> /\ current' = stack[Len(stack)] /\ stack' = Front(stack)
      /\ pending' = Adjacent(current')
  BY DEF Explore
<1>2. stack \in Seq(DOMAIN phi) /\ \A n \in DOMAIN phi : phi[n] \in Int
  BY DEF RoutingInv, PhiInv
<1>3. current' \in DOMAIN phi
  <2>1. Len(stack) \in Nat /\ Len(stack) # 0
    BY <1>1, <1>2, EmptySeq
  <2> QED BY <1>1, <1>2, <2>1
<1>4. stack' \in Seq(DOMAIN phi)
  <2>1. Len(stack) \in Nat /\ Len(stack) # 0
    BY <1>1, <1>2, EmptySeq
  <2>2. stack' = SubSeq(stack, 1, Len(stack) - 1)
    BY <1>1 DEF Front
  <2>3. \A k \in 1..(Len(stack) - 1) : k \in 1..Len(stack)
    BY <2>1
  <2> QED BY <1>2, <2>1, <2>2, <2>3
<1>5. PhiInv'
  BY <1>1, <1>2, <1>3, <1>4, RequestStays DEF PhiInv
<1> QED BY <1>1, <1>5, ReportQuiet

LEMMA LiftStep ==
    ASSUME RoutingInv, Lift
    PROVE  RoutingInv'
<1>1. /\ pc = "report" /\ pc' = pc
      /\ UNCHANGED <<request, result, report, current>>
  BY DEF Lift
<1>2. PICK i \in pending :
         /\ pending' = pending \ {i}
         /\ LET c == request.crossings[i]
            IN IF c.dst \in DOMAIN phi THEN UNCHANGED <<phi, stack>>
               ELSE /\ phi' = Put(phi, c.dst, phi[current] + c.cost)
                    /\ stack' = Append(stack, c.dst)
  BY DEF Lift
<1> DEFINE c == request.crossings[i]
<1>3. /\ pending \subseteq Adjacent(current) /\ current \in DOMAIN phi
      /\ stack \in Seq(DOMAIN phi) /\ \A n \in DOMAIN phi : phi[n] \in Int
  BY <1>1 DEF RoutingInv, PhiInv
<1>4. c.cost \in Nat
  BY <1>2, <1>3 DEF Adjacent, RoutingInv, IsRequest, NoNegativeCost
<1>5. (\A n \in DOMAIN phi' : phi'[n] \in Int) /\ stack' \in Seq(DOMAIN phi')
      /\ DOMAIN phi \subseteq DOMAIN phi'
  <2>1. CASE c.dst \in DOMAIN phi
    BY <1>2, <1>3, <2>1
  <2>2. CASE c.dst \notin DOMAIN phi
    <3> DEFINE x == phi[current] + c.cost
    <3>1. phi' = Put(phi, c.dst, x) /\ stack' = Append(stack, c.dst)
      BY <1>2, <2>2
    <3>2. x \in Int
      BY <1>3, <1>4
    <3> HIDE DEF x
    <3>3. /\ DOMAIN phi' = DOMAIN phi \cup {c.dst} /\ phi'[c.dst] = x
          /\ \A n \in DOMAIN phi : phi'[n] = phi[n]
      BY <2>2, <3>1 DEF Put
    <3>4. stack \in Seq(DOMAIN phi')
      BY <1>3, <3>3
    <3>5. stack' \in Seq(DOMAIN phi')
      BY <3>1, <3>3, <3>4
    <3> QED BY <1>3, <3>2, <3>3, <3>5
  <2> QED BY <2>1, <2>2
<1>6. PhiInv'
  BY <1>1, <1>2, <1>3, <1>5, RequestStays DEF PhiInv
<1> QED BY <1>1, <1>6, ReportQuiet

LEMMA AnswerStep ==
    ASSUME RoutingInv, Answer
    PROVE  RoutingInv'
<1>1. /\ pc' = "answered" /\ UNCHANGED <<request, result, phi, stack>>
      /\ Admissible \subseteq DOMAIN phi
      /\ report' = "conservative" => Conservative
  BY DEF Answer
<1>2. IsRequest(request)' /\ RouteIsOptimal'
  BY <1>1, OptimalStays DEF RoutingInv
<1>3. PhiInv'
  BY <1>1, PhiStays DEF RoutingInv
<1>4. ConservativeMeansPathFree'
  <2> SUFFICES ASSUME report' = "conservative", NEW n \in Admissible,
                      NEW v \in Walks(n), NEW w \in Walks(n),
                      End(n, v) = End(n, w)
               PROVE  Cost(v) = Cost(w)
    BY <1>1, RequestStays DEF ConservativeMeansPathFree
  <2> QED BY <1>1, CostIsDifference DEF RoutingInv
<1> QED BY <1>1, <1>2, <1>3, <1>4 DEF RoutingInv

LEMMA RoutingStep ==
    ASSUME RoutingInv, [Next]_vars
    PROVE  RoutingInv'
BY SearchStep, RootStep, ExploreStep, LiftStep, AnswerStep, RoutingStutters
   DEF Next, Report

(* A handler that has started, whether it searches or waits for its graph. *)
LEMMA RoutingStarts ==
    ASSUME NEW r, NEW p \in {"search", "relations"}, IsRequest(r), Starts(r, p)
    PROVE  RoutingInv /\ Fresh
<1>1. request = r /\ IsRequest(request) /\ pc = p /\ result = None /\ report = "none"
  BY DEF Starts
<1>2. Fresh
  BY DEF Starts, Fresh
<1>3. SearchInv
  BY <1>1, <1>2, FreshIsFound
<1>4. RouteIsOptimal
  BY <1>1, NotRefused DEF RouteIsOptimal, Routed
<1>5. PhiInv
  BY <1>1 DEF Starts, PhiInv
<1>6. ConservativeMeansPathFree
  BY <1>1 DEF ConservativeMeansPathFree
<1> QED BY <1>1, <1>2, <1>3, <1>4, <1>5, <1>6 DEF RoutingInv

(* The heap never holds an entry twice, so that the model may keep it as a *)
(* set: what a crossing is about to push is not there.                     *)
PushesAreNew ==
    pc = "search" =>
        \A i \in pending :
            LET c == request.crossings[i]
            IN Improves(c) => <<Candidate(c), c.dst>> \notin queue

LEMMA PushIsNew ==
    ASSUME RoutingInv
    PROVE  PushesAreNew
<1> SUFFICES ASSUME pc = "search", NEW i \in pending,
                    Improves(request.crossings[i]),
                    <<Candidate(request.crossings[i]), request.crossings[i].dst>> \in queue
             PROVE  FALSE
  BY DEF PushesAreNew
<1> DEFINE d == request.crossings[i].dst
           x == Candidate(request.crossings[i])
           e == <<x, d>>
<1>1. SearchInv
  BY DEF RoutingInv
<1>2. e \in queue /\ e[1] = x /\ e[2] = d
  OBVIOUS
<1>3. x \in Nat /\ d \in DOMAIN distance /\ distance[d] <= x /\ distance[d] \in Nat
  BY <1>1, <1>2 DEF SearchInv, Found
<1>4. x < distance[d]
  BY <1>3 DEF Improves
<1> HIDE DEF x, d
<1> QED BY <1>3, <1>4

LEMMA RoutingHolds == Spec => []RoutingInv
<1>1. Init => RoutingInv
  BY RoutingStarts, RoutingAssumption DEF Init
<1>2. RoutingInv /\ [Next]_vars => RoutingInv'
  BY RoutingStep
<1> QED BY <1>1, <1>2, PTL DEF Spec

(* POST /federation/route: the answered path is a walk of least total cost *)
(* that costs what it says, and no request is refused that could be routed,*)
(* for every graph.                                                        *)
THEOREM RoutesAreOptimal == Spec => []RouteIsOptimal
<1>1. RoutingInv => RouteIsOptimal
  BY DEF RoutingInv
<1> QED BY <1>1, RoutingHolds, PTL

(* heapq.heappush in route: no entry is pushed that the heap holds.        *)
THEOREM HeapIsASet == Spec => []PushesAreNew
<1>1. RoutingInv => PushesAreNew
  BY PushIsNew
<1> QED BY <1>1, RoutingHolds, PTL

(* conservativity_report: no way between two nodes of a graph it reports   *)
(* conservative is cheaper than another.                                   *)
THEOREM ConservativeIsPathFree == Spec => []ConservativeMeansPathFree
<1>1. RoutingInv => ConservativeMeansPathFree
  BY DEF RoutingInv
<1> QED BY <1>1, RoutingHolds, PTL

---------------------------------------------------------------------------
(* The federated graph.  A boundary that is in the graph was open at some  *)
(* instant since the relations were read, under revocations of some        *)
(* instant since, and one that was open at all of them and has been        *)
(* evaluated is in the graph.                                              *)
Between == began..now

Opened ==
    \A c \in ToSet(request.crossings) : \E t \in Between, s \in seen : Passes(c, t, s)

Seen ==
    \A j \in 1..(turn - 1) :
        (\A t \in Between, s \in seen : Passes(asked.crossings[j], t, s))
            => asked.crossings[j] \in ToSet(request.crossings)

CallInv ==
    /\ asked \in FederatedRequests
    /\ began \in Nat /\ now \in Nat /\ began <= now /\ revoked \in seen
    /\ turn \in 1..(Len(asked.crossings) + 1)
    /\ request.crossings \in Seq(ToSet(asked.crossings))
    /\ pc = "relations" => turn = 1 /\ request.crossings = <<>>
    /\ pc # "relations" => Opened /\ Seen
    /\ pc = "gate" => timestamp \in Between /\ turn \in DOMAIN asked.crossings
    /\ pc \in {"search", "walk back", "report"} => turn = Len(asked.crossings) + 1
    /\ pc = "report" => Routed

Waiting ==
    pc \in {"relations", "boundaries", "gate"} =>
        Fresh /\ result = None /\ report = "none"

FederatedInv ==
    /\ RoutingInv /\ Waiting
    /\ asked # Absent => CallInv
    /\ BoundariesAreGoverned

LEMMA CallStays ==
    ASSUME UNCHANGED <<asked, relations>>
    PROVE  /\ \A c, t, s : Passes(c, t, s)' = Passes(c, t, s)
           /\ \A r, c, t, s : Evaluates(r, c, t, s)' = Evaluates(r, c, t, s)
<1>1. \A r, c, t : VerifiesByTable(r, c, t)' = VerifiesByTable(r, c, t)
  BY DEF VerifiesByTable, KeyOf, Fits
<1>2. \A r, c, t, s : VerifiesByBinding(r, c, t, s)' = VerifiesByBinding(r, c, t, s)
  BY DEF VerifiesByBinding, Effective, Fits
<1>3. \A r, c, t, s : Evaluates(r, c, t, s)' = Evaluates(r, c, t, s)
  BY <1>1, <1>2 DEF Evaluates
<1> QED BY <1>3 DEF Passes, Routable25519

LEMMA OneCall ==
    ASSUME CallInv
    PROVE  /\ IsSequence(asked.crossings)
           /\ \A i \in DOMAIN asked.crossings : asked.crossings[i].cost \in Nat
BY FederatedAssumption DEF CallInv, NoNegativeCost

(* What a step of the search leaves behind.                                *)
LEMMA SearchSummary ==
    ASSUME Search
    PROVE  /\ request' = request /\ pc \in {"search", "walk back"}
           /\ pc' \in {"search", "walk back", "report", "answered"}
           /\ pc' = "answered" => result' = Raises("409")
           /\ pc' = "report" => Routed'
<1>1. CASE RefuseRequest \/ RaiseInRoute
  BY <1>1 DEF RefuseRequest, RaiseInRoute, Exhausted, Routable
<1>2. CASE Visit \/ SkipStale \/ RelaxNext
  BY <1>2 DEF Visit, SkipStale, RelaxNext, Routable
<1>3. CASE ChooseTerminal \/ WalkBack
  BY <1>3 DEF ChooseTerminal, WalkBack, Exhausted, Routable
<1>4. CASE FinishRoute
  <2>1. /\ pc = "walk back" /\ pc' = "report" /\ request' = request
        /\ result' = [raised |-> "no", path |-> path,
                      crossing_cost |-> distance[path[Len(path)]],
                      total_cost |-> Total(path[Len(path)])]
    BY <1>4 DEF FinishRoute
  <2>2. result'.raised = "no"
    BY <2>1
  <2> QED BY <2>1, <2>2 DEF Routed
<1> QED BY <1>1, <1>2, <1>3, <1>4 DEF Search

LEMMA UnansweredIsGoverned ==
    ASSUME pc # "answered" \/ asked = Absent
           \/ result = Raises("409") \/ result = Raises("duplicate relation_id")
    PROVE  BoundariesAreGoverned
<1>1. /\ Raises("409").raised = "409" /\ Raises("RuntimeError").raised = "RuntimeError"
      /\ Raises("duplicate relation_id").raised = "duplicate relation_id"
  BY DEF Raises
<1> QED BY <1>1 DEF BoundariesAreGoverned, Routed

LEMMA SearchOfCall ==
    ASSUME FederatedInv, asked # Absent, Search, UNCHANGED <<world, callVars>>
    PROVE  FederatedInv'
<1>1. RoutingInv'
  BY SearchStep DEF FederatedInv
<1>2. UNCHANGED <<asked, began, relations, turn, now, revoked, seen>>
  BY DEF world, callVars
<1>3. /\ request' = request /\ pc \in {"search", "walk back"}
      /\ pc' \in {"search", "walk back", "report", "answered"}
      /\ pc' = "answered" => result' = Raises("409")
      /\ pc' = "report" => Routed'
  BY SearchSummary
<1>4. CallInv'
  <2>1. CallInv /\ Opened /\ Seen
    BY <1>3 DEF FederatedInv, CallInv
  <2>2. Opened'
    BY <1>2, <1>3, <2>1, CallStays DEF Opened, Between
  <2>3. Seen'
    BY <1>2, <1>3, <2>1, CallStays DEF Seen, Between
  <2>4. pc' # "gate" /\ pc' # "relations"
    BY <1>3
  <2> QED BY <1>2, <1>3, <2>1, <2>2, <2>3, <2>4 DEF CallInv
<1>5. BoundariesAreGoverned'
  <2>1. (pc # "answered" \/ result = Raises("409"))'
    BY <1>3
  <2>2. (pc # "answered" \/ asked = Absent
           \/ result = Raises("409") \/ result = Raises("duplicate relation_id"))'
        => BoundariesAreGoverned'
    BY UnansweredIsGoverned, PTL
  <2> QED BY <2>1, <2>2
<1>6. Waiting'
  BY <1>3 DEF Waiting
<1> QED BY <1>1, <1>4, <1>5, <1>6 DEF FederatedInv

LEMMA ReadStep ==
    ASSUME FederatedInv, asked # Absent, ReadRelations
    PROVE  FederatedInv'
<1>1. /\ pc = "relations" /\ pc' \in {"boundaries", "answered"}
      /\ UNCHANGED <<request, distance, previous, queue, pending, phi, stack, report,
                     now, revoked, asked, turn>>
      /\ pc' = "boundaries" => result' = result
      /\ pc' = "answered" => result' = Raises("duplicate relation_id")
      /\ began' = now /\ seen' = {revoked}
  BY DEF ReadRelations, searchVars, loopVars, reportVars
<1>2. Fresh /\ result = None /\ report = "none"
  BY <1>1 DEF FederatedInv, Waiting
<1>3. Fresh'
  BY <1>1, <1>2 DEF Fresh
<1>4. RouteIsOptimal'
  <2>1. Raises("duplicate relation_id").raised = "duplicate relation_id"
    BY DEF Raises
  <2>2. ~Routed' /\ result' # Raises("409")
    <3>1. CASE result' = None
      BY <3>1, NotRefused DEF Routed
    <3>2. CASE result' = Raises("duplicate relation_id")
      <4>1. Raises("409").raised = "409"
        BY DEF Raises
      <4> QED BY <2>1, <3>2, <4>1 DEF Routed
    <3> QED BY <1>1, <1>2, <3>1, <3>2
  <2> QED BY <2>2 DEF RouteIsOptimal
<1>5. RoutingInv'
  <2>1. IsRequest(request)'
    BY <1>1 DEF FederatedInv, RoutingInv
  <2>2. PhiInv'
    BY <1>1, PhiStays DEF FederatedInv, RoutingInv
  <2>3. ConservativeMeansPathFree'
    BY <1>1, <1>2 DEF ConservativeMeansPathFree
  <2> QED BY <1>1, <1>4, <2>1, <2>2, <2>3 DEF RoutingInv
<1>6. CallInv'
  <2>1. turn = 1 /\ request.crossings = <<>>
    BY <1>1 DEF FederatedInv, CallInv
  <2>2. Opened'
    <3>1. ToSet(<<>>) = {}
      BY DEF ToSet
    <3>2. request'.crossings = <<>>
      BY <1>1, <2>1
    <3> QED BY <3>1, <3>2 DEF Opened
  <2>3. Seen'
    <3>1. turn' = 1
      BY <1>1, <2>1
    <3>2. 1..(1 - 1) = {}
      OBVIOUS
    <3> QED BY <3>1, <3>2 DEF Seen
  <2>4. /\ asked \in FederatedRequests /\ now \in Nat
        /\ turn \in 1..(Len(asked.crossings) + 1)
        /\ request.crossings \in Seq(ToSet(asked.crossings))
    BY DEF FederatedInv, CallInv
  <2>5. /\ began' \in Nat /\ now' \in Nat /\ began' <= now' /\ revoked' \in seen'
    <3>1. began' = now /\ now' = now /\ now \in Nat /\ revoked' \in seen'
      BY <1>1, <2>4
    <3> QED BY <3>1
  <2>6. pc' \notin {"relations", "gate", "search", "walk back", "report"}
    BY <1>1
  <2> QED BY <1>1, <2>2, <2>3, <2>4, <2>5, <2>6 DEF CallInv
<1>7. BoundariesAreGoverned'
  <2>1. (pc # "answered" \/ result = Raises("duplicate relation_id"))'
    BY <1>1
  <2>2. (pc # "answered" \/ asked = Absent
           \/ result = Raises("409") \/ result = Raises("duplicate relation_id"))'
        => BoundariesAreGoverned'
    BY UnansweredIsGoverned, PTL
  <2> QED BY <2>1, <2>2
<1>8. Waiting'
  BY <1>1, <1>2, <1>3 DEF Waiting
<1> QED BY <1>5, <1>6, <1>7, <1>8 DEF FederatedInv

LEMMA UnansweredStaysGoverned ==
    ASSUME pc' # "answered"
    PROVE  BoundariesAreGoverned'
BY DEF BoundariesAreGoverned

LEMMA LookStep ==
    ASSUME FederatedInv, asked # Absent, LookAtClock
    PROVE  FederatedInv'
<1>1. /\ pc = "boundaries" /\ pc' = "gate" /\ turn \in DOMAIN asked.crossings
      /\ timestamp' = now
      /\ UNCHANGED <<Answers, searchState, request, result, report, now, revoked, seen,
                     asked, began, relations, turn>>
  BY DEF LookAtClock, Answers, searchState, searchVars, loopVars, reportVars, world
<1>2. CallInv /\ Fresh
  BY <1>1 DEF FederatedInv, Waiting
<1>3. Fresh' /\ Waiting'
  BY <1>1, <1>2 DEF FederatedInv, Fresh, Waiting, searchState
<1>4. RoutingInv'
  BY <1>1, QuietStep DEF FederatedInv
<1>5. Opened' /\ Seen'
  BY <1>1, <1>2, CallStays DEF CallInv, Opened, Seen, Between
<1>6. (timestamp \in Between)'
  BY <1>1, <1>2 DEF CallInv, Between
<1>7. CallInv'
  BY <1>1, <1>2, <1>5, <1>6 DEF CallInv
<1>8. BoundariesAreGoverned'
  BY <1>1, UnansweredStaysGoverned
<1> QED BY <1>3, <1>4, <1>7, <1>8 DEF FederatedInv

LEMMA BoundaryStep ==
    ASSUME FederatedInv, asked # Absent, Boundary
    PROVE  FederatedInv'
<1> DEFINE c == asked.crossings[turn]
           A == ToSet(asked.crossings)
<1>1. /\ pc = "gate" /\ pc' = "boundaries" /\ turn' = turn + 1
      /\ request' = IF Passes(c, timestamp, revoked)
                    THEN [request EXCEPT !.crossings = Append(@, c)] ELSE request
      /\ UNCHANGED <<distance, previous, queue, pending, phi, stack, report, result,
                     now, revoked, seen, asked, began, relations>>
  BY DEF Boundary, world, searchVars, loopVars, reportVars
<1>2. CallInv /\ IsRequest(request) /\ PhiInv
  BY DEF FederatedInv, RoutingInv
<1>3. Fresh /\ result = None /\ report = "none"
  BY <1>1 DEF FederatedInv, Waiting
<1>4. /\ IsSequence(asked.crossings)
      /\ \A i \in DOMAIN asked.crossings : asked.crossings[i].cost \in Nat
  BY <1>2, OneCall
<1>5. c \in A /\ turn \in 1..Len(asked.crossings) /\ turn \in Nat
      /\ Len(asked.crossings) \in Nat
  BY <1>1, <1>2, <1>4 DEF CallInv, ToSet, IsSequence
<1>6. \A x \in A : x.cost \in Nat
  BY <1>4 DEF ToSet
<1>7. request.crossings \in Seq(A)
  BY <1>2 DEF CallInv
<1>8. /\ DOMAIN request' = DOMAIN request
      /\ request'.nodes = request.nodes /\ request'.weights = request.weights
      /\ request'.origin = request.origin
      /\ request'.crossings = IF Passes(c, timestamp, revoked)
                              THEN Append(request.crossings, c) ELSE request.crossings
  BY <1>1, <1>2 DEF IsRequest
<1> HIDE DEF c, A
<1>9. request'.crossings \in Seq(A)
  BY <1>5, <1>7, <1>8
<1>10. /\ ToSet(request.crossings) \subseteq ToSet(request'.crossings)
       /\ ToSet(request'.crossings) \subseteq ToSet(request.crossings) \cup {c}
       /\ Passes(c, timestamp, revoked) => c \in ToSet(request'.crossings)
       /\ ~Passes(c, timestamp, revoked) => request'.crossings = request.crossings
  <2>1. CASE Passes(c, timestamp, revoked)
    <3> DEFINE s == request.crossings
    <3>1. request'.crossings = Append(s, c)
      BY <1>8, <2>1
    <3>2. /\ Len(s) \in Nat /\ DOMAIN s = 1..Len(s)
          /\ DOMAIN Append(s, c) = 1..(Len(s) + 1)
          /\ \A k \in 1..Len(s) : Append(s, c)[k] = s[k]
          /\ Append(s, c)[Len(s) + 1] = c
      BY <1>5, <1>7
    <3>3. \A k \in 1..(Len(s) + 1) : k \in 1..Len(s) \/ k = Len(s) + 1
      BY <3>2
    <3>4. \A k \in 1..Len(s) : k \in 1..(Len(s) + 1)
      BY <3>2
    <3>5. Len(s) + 1 \in 1..(Len(s) + 1)
      BY <3>2
    <3> HIDE DEF s
    <3>6. ToSet(s) \subseteq ToSet(Append(s, c))
      BY <3>2, <3>4 DEF ToSet
    <3>7. ToSet(Append(s, c)) \subseteq ToSet(s) \cup {c}
      BY <3>2, <3>3 DEF ToSet
    <3>8. c \in ToSet(Append(s, c))
      BY <3>2, <3>5 DEF ToSet
    <3> QED BY <2>1, <3>1, <3>6, <3>7, <3>8 DEF s
  <2>2. CASE ~Passes(c, timestamp, revoked)
    BY <1>8, <2>2
  <2> QED BY <2>1, <2>2
<1>11. IsRequest(request)'
  <2>1. \A i \in DOMAIN request'.crossings : request'.crossings[i].cost \in Nat
    BY <1>6, <1>9
  <2>2. IsSequence(request'.crossings)
    BY <1>9 DEF IsSequence
  <2> QED BY <1>2, <1>8, <2>1, <2>2 DEF IsRequest, NoNegativeCost
<1>12. Fresh'
  BY <1>1, <1>3, <1>8 DEF Fresh
<1>13. RoutingInv'
  <2>1. RouteIsOptimal'
    BY <1>1, <1>3, NotRefused DEF RouteIsOptimal, Routed
  <2>2. PhiInv'
    BY <1>1, <1>2 DEF PhiInv
  <2>3. ConservativeMeansPathFree'
    BY <1>1, <1>3 DEF ConservativeMeansPathFree
  <2> QED BY <1>1, <1>11, <2>1, <2>2, <2>3 DEF RoutingInv
<1>14. timestamp \in began..now /\ revoked \in seen
  BY <1>1, <1>2 DEF CallInv, Between
<1>15. Opened'
  <2> SUFFICES ASSUME NEW x \in ToSet(request'.crossings)
               PROVE  \E t \in began..now, s \in seen : Passes(x, t, s)
    BY <1>1, CallStays DEF Opened, Between
  <2>1. CASE x \in ToSet(request.crossings)
    BY <1>1, <1>2, <2>1 DEF CallInv, Opened, Between
  <2>2. CASE x \notin ToSet(request.crossings)
    <3>1. x = c /\ Passes(c, timestamp, revoked)
      BY <1>10, <2>2
    <3> QED BY <1>14, <3>1
  <2> QED BY <2>1, <2>2
<1>16. Seen'
  <2> SUFFICES ASSUME NEW j \in 1..turn,
                      \A t \in began..now, s \in seen : Passes(asked.crossings[j], t, s)
               PROVE  asked.crossings[j] \in ToSet(request'.crossings)
    <3>1. (turn + 1) - 1 = turn
      BY <1>5
    <3> QED BY <1>1, <3>1, CallStays DEF Seen, Between
  <2>1. CASE j = turn
    BY <1>10, <1>14, <2>1 DEF c
  <2>2. CASE j # turn
    <3>1. j \in 1..(turn - 1)
      BY <1>5, <2>2
    <3> QED BY <1>1, <1>2, <1>10, <3>1 DEF CallInv, Seen, Between
  <2> QED BY <2>1, <2>2
<1>17. CallInv'
  <2>1. turn' \in 1..(Len(asked.crossings) + 1)
    BY <1>1, <1>5
  <2> QED BY <1>1, <1>2, <1>9, <1>15, <1>16, <2>1 DEF CallInv, A
<1>18. BoundariesAreGoverned'
  BY <1>1, UnansweredStaysGoverned
<1>19. Waiting'
  BY <1>1, <1>3, <1>12 DEF Waiting
<1> QED BY <1>13, <1>17, <1>18, <1>19 DEF FederatedInv

LEMMA BuildStep ==
    ASSUME FederatedInv, asked # Absent, BuildGraph
    PROVE  FederatedInv'
<1>1. /\ pc = "boundaries" /\ turn \notin DOMAIN asked.crossings /\ pc' = "search"
      /\ UNCHANGED <<Answers, searchState, now, revoked, seen, asked, began, relations,
                     turn>>
  BY DEF BuildGraph, Answers, searchState, searchVars, loopVars, reportVars, world,
         callVars
<1>2. CallInv /\ IsRequest(request) /\ Fresh
  BY <1>1 DEF FederatedInv, RoutingInv, Waiting
<1>3. SearchInv'
  <2>1. SearchInv
    BY <1>2, FreshIsFound
  <2> QED BY <1>1, <2>1, SearchStutters
<1>4. RoutingInv'
  <2>1. UNCHANGED Answers
    BY <1>1
  <2> QED BY <1>1, <1>3, <2>1, QuietStep DEF FederatedInv
<1>5. request' = request
  BY <1>1 DEF Answers
<1>6. CallInv'
  <2>1. turn = Len(asked.crossings) + 1
    <3>1. IsSequence(asked.crossings) /\ turn \in 1..(Len(asked.crossings) + 1)
      BY <1>2, OneCall DEF CallInv
    <3> QED BY <1>1, <3>1 DEF IsSequence
  <2>2. Opened' /\ Seen'
    BY <1>1, <1>2, <1>5, CallStays DEF CallInv, Opened, Seen, Between
  <2> QED BY <1>1, <1>2, <1>5, <2>1, <2>2 DEF CallInv
<1>7. BoundariesAreGoverned'
  BY <1>1, UnansweredStaysGoverned
<1>8. Waiting'
  BY <1>1 DEF Waiting
<1> QED BY <1>4, <1>6, <1>7, <1>8 DEF FederatedInv

(* As time passes and keys are revoked there are more instants to choose   *)
(* from.                                                                   *)
LEMMA WorldStep ==
    ASSUME FederatedInv, Time \/ RevokeKey
    PROVE  FederatedInv'
<1>1. /\ asked # Absent /\ pc # "answered" /\ pc' = pc
      /\ UNCHANGED vars /\ UNCHANGED <<asked, began, relations, turn, timestamp>>
  BY DEF Time, RevokeKey, vars, callVars
<1>2. /\ UNCHANGED <<request, result, report, distance, previous, queue, pending>>
  BY <1>1 DEF vars, searchVars, loopVars, reportVars
<1>3. RoutingInv'
  BY <1>1, RoutingStutters DEF FederatedInv
<1>4. CallInv
  BY <1>1 DEF FederatedInv
<1>5. seen \subseteq seen' /\ revoked' \in seen'
  BY <1>4 DEF CallInv, Time, RevokeKey
<1>6. /\ began \in Nat /\ now \in Nat /\ now' \in Nat /\ began <= now'
      /\ Between \subseteq began..now'
  <2>1. began \in Nat /\ now \in Nat /\ began <= now
    BY <1>4 DEF CallInv
  <2>2. now' = now + 1 \/ now' = now
    BY DEF Time, RevokeKey
  <2> QED BY <2>1, <2>2 DEF Between
<1>7. ASSUME Opened PROVE Opened'
  BY <1>1, <1>2, <1>5, <1>6, <1>7, CallStays DEF Opened, Between
<1>8. ASSUME Seen PROVE Seen'
  BY <1>1, <1>2, <1>5, <1>6, <1>8, CallStays DEF Seen, Between
<1>9. ASSUME timestamp \in Between PROVE (timestamp \in Between)'
  BY <1>1, <1>6, <1>9 DEF Between
<1>10. (pc = "report" => Routed)'
  BY <1>1, <1>2, <1>4 DEF CallInv, Routed
<1>11. CallInv'
  BY <1>1, <1>2, <1>4, <1>5, <1>6, <1>7, <1>8, <1>9, <1>10 DEF CallInv
<1>12. Waiting'
  BY <1>1, <1>2 DEF FederatedInv, Waiting, Fresh
<1>13. BoundariesAreGoverned'
  BY <1>1, UnansweredStaysGoverned
<1> QED BY <1>3, <1>11, <1>12, <1>13 DEF FederatedInv

(* Along the answered path there is a boundary from each domain to the     *)
(* next in the graph, for the path is a walk.                              *)
LEMMA LegsAreThere ==
    ASSUME IsRequest(request), RouteIsOptimal, Routed
    PROVE  /\ Len(result.path) - 1 \in Nat
           /\ \A k \in 1..(Len(result.path) - 1) :
                 Validated(result.path[k], result.path[k + 1]) # {}
<1>1. PICK w \in Walks(request.origin) : Ids(w) = result.path
  BY DEF RouteIsOptimal
<1>2. w \in Seq(Steps) /\ IsWalk(request.origin, w) /\ Len(w) \in Nat
  BY WalksAre
<1> DEFINE L == Len(w)
           p == [k \in 1..(L + 1) |-> At(request.origin, w, k - 1)]
           V == {At(request.origin, w, k - 1) : k \in 1..(L + 1)}
<1>3. result.path = p
  BY <1>1 DEF Ids
<1>4. Len(p) = L + 1
  <2>1. p \in [1..(L + 1) -> V]
    OBVIOUS
  <2>2. L + 1 \in Nat
    BY <1>2
  <2> HIDE DEF p, V, L
  <2> QED BY <2>1, <2>2, FunctionLength
<1>5. Len(result.path) - 1 = L
  BY <1>2, <1>3, <1>4
<1>6. ASSUME NEW k \in 1..L PROVE Validated(p[k], p[k + 1]) # {}
  <2> DEFINE c == request.crossings[w[k]]
  <2>1. k \in 1..(L + 1) /\ k + 1 \in 1..(L + 1) /\ (k + 1) - 1 = k /\ k # 0
    BY <1>2
  <2>2. w[k] \in Steps /\ c.src = p[k]
    BY <1>2, <2>1 DEF IsWalk
  <2>3. c.dst = p[k + 1]
    BY <2>1 DEF At
  <2>4. c \in ToSet(request.crossings)
    BY <2>2 DEF ToSet, Steps
  <2> QED BY <2>2, <2>3, <2>4 DEF Validated
<1> HIDE DEF p
<1> QED BY <1>2, <1>3, <1>5, <1>6

LEMMA TraverseStep ==
    ASSUME FederatedInv, asked # Absent, Traverse
    PROVE  FederatedInv'
<1> DEFINE L == Len(result.path) - 1
           Leg(k) == Validated(result.path[k], result.path[k + 1])
           Chosen(k) == CHOOSE c \in Leg(k) : TRUE
<1>1. CallInv /\ RoutingInv
  BY DEF FederatedInv
<1>2. pc = "report" /\ pc' = "answered"
      /\ UNCHANGED <<request, phi, stack, report, now, revoked, seen, asked, began,
                     relations, turn>>
  BY DEF Traverse, reportVars, world
<1>3. Routed /\ Opened /\ Seen /\ turn = Len(asked.crossings) + 1
  BY <1>1, <1>2 DEF CallInv
<1>4. L \in Nat /\ \A k \in 1..L : Leg(k) # {}
  BY <1>1, <1>3, LegsAreThere DEF RoutingInv
<1>5. result' = result /\ traversed' = [k \in 1..L |-> Chosen(k).relation]
  BY <1>4 DEF Traverse
<1>6. RoutingInv'
  <2>1. UNCHANGED Answers
    BY <1>2, <1>5 DEF Answers
  <2> QED BY <1>1, <1>2, <2>1, QuietStep
<1>7. Opened' /\ Seen'
  BY <1>2, <1>3, CallStays DEF Opened, Seen, Between
<1>8. CallInv'
  BY <1>1, <1>2, <1>7 DEF CallInv
<1>9. Waiting'
  BY <1>2 DEF Waiting
<1>10. result # Raises("RuntimeError")
  <2>1. Raises("RuntimeError").raised = "RuntimeError"
    BY DEF Raises
  <2> QED BY <1>3, <2>1 DEF Routed
<1>11. Len(traversed') = L /\ DOMAIN traversed' = 1..L
  <2>1. traversed' \in [1..L -> {Chosen(k).relation : k \in 1..L}]
    BY <1>5
  <2>2. DOMAIN traversed' = 1..L
    BY <1>5
  <2> HIDE DEF L, Chosen
  <2> QED BY <1>4, <2>1, <2>2, FunctionLength
<1>12. ASSUME NEW k \in 1..L
       PROVE  \E c \in ToSet(asked.crossings), r \in relations,
                 t \in began..now, s \in seen :
                 /\ <<c.src, c.dst>> = <<result.path[k], result.path[k + 1]>>
                 /\ c.relation = traversed'[k] /\ r.id = traversed'[k]
                 /\ asked.capability = c.capability
                 /\ asked.capability \in r.capabilities
                 /\ r.scheme = "ed25519" => asked.verifier.lifecycle
                 /\ Evaluates(r, c, t, s)
  <2>1. PICK c : c = Chosen(k)
    OBVIOUS
  <2>2. c \in Leg(k) /\ traversed'[k] = c.relation
    BY <1>4, <1>5, <2>1
  <2>3. c \in ToSet(request.crossings) /\ c.src = result.path[k] /\ c.dst = result.path[k + 1]
    BY <2>2 DEF Validated
  <2>4. c \in ToSet(asked.crossings)
    <3>1. request.crossings \in Seq(ToSet(asked.crossings))
      BY <1>1 DEF CallInv
    <3>2. \A i \in DOMAIN request.crossings :
             request.crossings[i] \in ToSet(asked.crossings)
      BY <3>1
    <3> QED BY <2>3, <3>2 DEF ToSet
  <2>5. PICK t \in began..now, s \in seen : Passes(c, t, s)
    BY <1>3, <2>3 DEF Opened, Between
  <2>6. /\ c.capability = asked.capability
        /\ \E r \in relations : /\ r.id = c.relation /\ Routable25519(r)
                                /\ Evaluates(r, c, t, s)
    BY <2>5 DEF Passes
  <2>7. PICK r \in relations : /\ r.id = c.relation /\ Routable25519(r)
                               /\ Evaluates(r, c, t, s)
    BY <2>6
  <2>8. asked.capability \in r.capabilities
    BY <2>7 DEF Evaluates, VerifiesByTable, VerifiesByBinding, R!Verifies, Fits
  <2> QED BY <2>2, <2>3, <2>4, <2>5, <2>6, <2>7, <2>8 DEF Routable25519
<1>13. ASSUME NEW c \in ToSet(asked.crossings),
              \A t \in began..now, s \in seen : Passes(c, t, s)
       PROVE  c \in ToSet(request.crossings)
  <2>1. PICK j \in DOMAIN asked.crossings : c = asked.crossings[j]
    BY DEF ToSet
  <2>2. j \in 1..(turn - 1)
    <3>1. IsSequence(asked.crossings)
      BY <1>1, OneCall
    <3> QED BY <1>3, <3>1 DEF IsSequence
  <2> QED BY <1>3, <1>13, <2>1, <2>2 DEF Seen, Between
<1> HIDE DEF L, Leg, Chosen
<1>14. BoundariesAreGoverned'
  <2>1. (Len(traversed) = Len(result.path) - 1)'
    BY <1>5, <1>11 DEF L
  <2>2. \A k \in DOMAIN traversed' :
           \E c \in ToSet(asked.crossings), r \in relations,
              t \in began..now, s \in seen :
              /\ <<c.src, c.dst>> = <<result.path[k], result.path[k + 1]>>
              /\ c.relation = traversed'[k] /\ r.id = traversed'[k]
              /\ asked.capability = c.capability
              /\ asked.capability \in r.capabilities
              /\ r.scheme = "ed25519" => asked.verifier.lifecycle
              /\ Evaluates(r, c, t, s)
    BY <1>11, <1>12
  <2>3. (\A k \in DOMAIN traversed :
           \E c \in ToSet(asked.crossings), r \in relations,
              t \in began..now, s \in seen :
              /\ <<c.src, c.dst>> = <<result.path[k], result.path[k + 1]>>
              /\ c.relation = traversed[k] /\ r.id = traversed[k]
              /\ asked.capability = c.capability
              /\ asked.capability \in r.capabilities
              /\ r.scheme = "ed25519" => asked.verifier.lifecycle
              /\ Evaluates(r, c, t, s))'
    BY <1>2, <1>5, <2>2, CallStays
  <2>4. (\A c \in ToSet(asked.crossings) :
           (\A t \in began..now, s \in seen : Passes(c, t, s))
              => c \in ToSet(request.crossings))'
    BY <1>2, <1>13, CallStays
  <2>5. result' # Raises("RuntimeError")
    BY <1>5, <1>10
  <2> QED BY <2>1, <2>3, <2>4, <2>5 DEF BoundariesAreGoverned
<1> QED BY <1>6, <1>8, <1>9, <1>14 DEF FederatedInv

(* A request of the endpoint never waits for relations.                    *)
LEMMA EndpointStep ==
    ASSUME FederatedInv, asked = Absent, Next, UNCHANGED <<world, callVars>>
    PROVE  FederatedInv'
<1>1. asked' = Absent
  BY DEF callVars
<1>2. RoutingInv'
  BY RoutingStep DEF FederatedInv
<1>3. pc' \notin {"relations", "boundaries", "gate"}
  <2>1. CASE Search
    BY <2>1, SearchSummary
  <2>2. CASE Report
    BY <2>2 DEF Report, VisitRoot, Explore, Lift, Answer
  <2> QED BY <2>1, <2>2 DEF Next
<1>4. Waiting' /\ BoundariesAreGoverned'
  BY <1>1, <1>3 DEF Waiting, BoundariesAreGoverned
<1> QED BY <1>1, <1>2, <1>4 DEF FederatedInv

LEMMA FederatedStutters ==
    ASSUME FederatedInv, UNCHANGED federatedVars
    PROVE  FederatedInv'
<1>1. /\ UNCHANGED vars
      /\ UNCHANGED <<now, revoked, seen, asked, began, relations, turn, timestamp,
                     traversed>>
  BY DEF federatedVars, world, callVars
<1>2. UNCHANGED <<request, pc, result, report, distance, previous, queue, pending>>
  BY <1>1 DEF vars, searchVars, loopVars, reportVars
<1>3. RoutingInv'
  BY <1>1, RoutingStutters DEF FederatedInv
<1>4. Waiting'
  BY <1>2 DEF FederatedInv, Waiting, Fresh
<1>5. asked # Absent => CallInv'
  <2> SUFFICES ASSUME CallInv PROVE CallInv'
    BY DEF FederatedInv
  <2>1. /\ Opened' = Opened /\ Seen' = Seen /\ Routed' = Routed
        /\ Between' = Between
    BY <1>1, <1>2, CallStays DEF Opened, Seen, Between, Routed
  <2> QED BY <1>1, <1>2, <2>1 DEF CallInv
<1>6. BoundariesAreGoverned'
  BY <1>1, <1>2, CallStays DEF FederatedInv, BoundariesAreGoverned, Routed
<1> QED BY <1>1, <1>3, <1>4, <1>5, <1>6 DEF FederatedInv

LEMMA FederatedStep ==
    ASSUME FederatedInv, [FederatedNext]_federatedVars
    PROVE  FederatedInv'
BY SearchOfCall, ReadStep, LookStep, BoundaryStep, BuildStep, TraverseStep,
   EndpointStep, WorldStep, FederatedStutters
   DEF FederatedNext, Call

LEMMA FederatedStarts ==
    ASSUME FederatedInit
    PROVE  FederatedInv
<1>1. now = 0 /\ began = 0 /\ revoked \in seen /\ turn = 1
  BY DEF FederatedInit
<1>2. CASE Init /\ asked = Absent
  <2>1. PICK r \in Requests : Starts(r, "search")
    BY <1>2 DEF Init
  <2>2. RoutingInv
    BY <2>1, RoutingStarts, RoutingAssumption
  <2>3. pc = "search"
    BY <2>1 DEF Starts
  <2> QED BY <1>2, <2>2, <2>3 DEF FederatedInv, Waiting, BoundariesAreGoverned
<1>3. CASE \E call \in FederatedRequests :
              Starts(call.graph, "relations") /\ asked = call
  <2>1. Starts(asked.graph, "relations") /\ asked \in FederatedRequests
    BY <1>3
  <2>2. IsRequest(asked.graph) /\ asked.graph.crossings = <<>> /\ IsSequence(asked.crossings)
    BY <2>1, FederatedAssumption
  <2>3. RoutingInv /\ Fresh
    BY <2>1, <2>2, RoutingStarts
  <2>4. request.crossings = <<>> /\ pc = "relations" /\ result = None /\ report = "none"
    BY <2>1, <2>2 DEF Starts
  <2>5. turn \in 1..(Len(asked.crossings) + 1)
    BY <1>1, <2>2 DEF IsSequence
  <2>6. request.crossings \in Seq(ToSet(asked.crossings))
    BY <2>4
  <2>7. began \in Nat /\ now \in Nat /\ began <= now
    BY <1>1
  <2>8. CallInv
    BY <1>1, <2>1, <2>4, <2>5, <2>6, <2>7 DEF CallInv
  <2> QED BY <2>3, <2>4, <2>8 DEF FederatedInv, Waiting, BoundariesAreGoverned
<1> QED BY <1>2, <1>3 DEF FederatedInit

LEMMA FederatedHolds == FederatedSpec => []FederatedInv
<1>1. FederatedInit => FederatedInv
  BY FederatedStarts
<1>2. FederatedInv /\ [FederatedNext]_federatedVars => FederatedInv'
  BY FederatedStep
<1> QED BY <1>1, <1>2, PTL DEF FederatedSpec

(* FederatedCapabilityGraph.route: every boundary of an answered route was *)
(* open at an instant of the call, by the relation the answer names, and   *)
(* none that was open throughout was missing; for every set of relations   *)
(* every registry of keys, however time passes and whatever keys are       *)
(* revoked between two evaluations.                                        *)
THEOREM RoutesAreGoverned == FederatedSpec => []BoundariesAreGoverned
<1>1. FederatedInv => BoundariesAreGoverned
  BY DEF FederatedInv
<1> QED BY <1>1, FederatedHolds, PTL

(* The same search over the boundaries that were let through: the route is *)
(* a walk of least total cost over them, whatever the gate let through; and*)
(* the report of an endpoint is right beside any calls.                    *)
THEOREM FederatedRoutesAreOptimal ==
    FederatedSpec => [](RouteIsOptimal /\ ConservativeMeansPathFree)
<1>1. FederatedInv => RouteIsOptimal /\ ConservativeMeansPathFree
  BY DEF FederatedInv, RoutingInv
<1> QED BY <1>1, FederatedHolds, PTL
=============================================================================
