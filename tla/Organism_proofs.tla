--------------------------- MODULE Organism_proofs ---------------------------
(***************************************************************************)
(* Theorems about the governed organism for any runtimes, events and       *)
(* proposals, any length of lineage and any number of exports: a lineage   *)
(* carries its constraints, wherever the state is restored.                *)
(***************************************************************************)
EXTENDS Organism, SequenceTheorems, FiniteSetTheorems, TLAPS

(* A lineage is a sequence; its entries hold receipts, which are lineages, *)
(* so that no set of all entries is named.                                 *)
IsLineage(l) == l \in Seq({l[i] : i \in DOMAIN l})

LEMMA FunctionIsLineage ==
    ASSUME NEW n \in Nat, NEW l, l \in [1..n -> {l[i] : i \in DOMAIN l}]
    PROVE  IsLineage(l)
  <1> DEFINE S == {l[i] : i \in DOMAIN l}
  <1>1. l \in [1..n -> S]
    OBVIOUS
  <1> HIDE DEF S
  <1>2. l \in Seq(S)
    BY <1>1, SeqDef
  <1> QED  BY <1>2 DEF IsLineage, S

LEMMA LineageAppend ==
    ASSUME NEW l, IsLineage(l), NEW e
    PROVE  /\ IsLineage(Append(l, e))
           /\ Len(l) \in Nat /\ DOMAIN l = 1..Len(l)
           /\ Len(Append(l, e)) = Len(l) + 1
           /\ DOMAIN Append(l, e) = 1..(Len(l) + 1)
           /\ Append(l, e)[Len(l) + 1] = e
           /\ \A i \in 1..Len(l) : Append(l, e)[i] = l[i]
  <1> DEFINE S == {l[i] : i \in DOMAIN l} \cup {e}
             m == Append(l, e)
  <1>1. l \in Seq(S)
    <2>1. PICK n \in Nat : l \in [1..n -> {l[i] : i \in DOMAIN l}]
      BY SeqDef DEF IsLineage
    <2>2. l \in [1..n -> S]
      BY <2>1
    <2> QED  BY <2>2, SeqDef
  <1>2. /\ m \in Seq(S) /\ Len(m) = Len(l) + 1 /\ m[Len(l) + 1] = e
        /\ \A i \in 1..Len(l) : m[i] = l[i]
    BY <1>1, AppendProperties
  <1>3. /\ Len(l) \in Nat /\ DOMAIN l = 1..Len(l)
        /\ Len(m) \in Nat /\ DOMAIN m = 1..Len(m)
    BY <1>1, <1>2, LenProperties
  <1>4. m \in [1..Len(m) -> {m[i] : i \in DOMAIN m}]
    BY <1>2, <1>3, LenProperties
  <1>5. IsLineage(m)
    BY <1>3, <1>4, FunctionIsLineage
  <1> QED  BY <1>2, <1>3, <1>5

(* A receipt is the lineage up to an entry.                                *)
LEMMA ReceiptIsPrefix ==
    ASSUME NEW l, IsLineage(l), NEW i \in DOMAIN l
    PROVE  /\ i \in 1..Len(l)
           /\ IsLineage(SubSeq(l, 1, i))
           /\ Len(SubSeq(l, 1, i)) = i
           /\ SubSeq(l, 1, i)[i] = l[i]
           /\ \A k \in 1..i : SubSeq(l, 1, i)[k] = l[k]
  <1> DEFINE S == {l[k] : k \in DOMAIN l}
             s == SubSeq(l, 1, i)
  <1>1. l \in Seq(S) /\ Len(l) \in Nat /\ DOMAIN l = 1..Len(l)
    BY LenProperties DEF IsLineage
  <1>2. i \in 1..Len(l)
    BY <1>1
  <1>3. s \in Seq(S) /\ Len(s) = i /\ \A k \in 1..i : s[k] = l[k]
    BY <1>1, <1>2, SubSeqProperties
  <1>4. s \in [1..i -> {s[k] : k \in DOMAIN s}]
    BY <1>1, <1>2, <1>3, LenProperties
  <1>5. IsLineage(s)
    <2>1. i \in Nat
      BY <1>1, <1>2
    <2> HIDE DEF s
    <2> QED  BY <2>1, <1>4, FunctionIsLineage
  <1> QED  BY <1>2, <1>3, <1>5

LEMMA ReceiptOfAppend ==
    ASSUME NEW l, IsLineage(l), NEW e, NEW i \in 1..Len(l)
    PROVE  SubSeq(Append(l, e), 1, i) = SubSeq(l, 1, i)
  <1> DEFINE s == SubSeq(l, 1, i)
             t == SubSeq(Append(l, e), 1, i)
  <1>1. i \in DOMAIN l /\ i \in DOMAIN Append(l, e)
    BY LineageAppend
  <1>2. /\ IsLineage(s) /\ Len(s) = i /\ \A k \in 1..i : s[k] = l[k]
        /\ IsLineage(t) /\ Len(t) = i
        /\ \A k \in 1..i : t[k] = Append(l, e)[k]
    BY <1>1, ReceiptIsPrefix, LineageAppend
  <1>3. \A k \in 1..i : s[k] = t[k]
    BY <1>1, <1>2, LineageAppend
  <1>4. /\ s \in [1..i -> {s[k] : k \in DOMAIN s}]
        /\ t \in [1..i -> {t[k] : k \in DOMAIN t}]
    BY <1>2, LenProperties DEF IsLineage
  <1> HIDE DEF s, t
  <1> QED  BY <1>3, <1>4
-----------------------------------------------------------------------------
(* The two properties position by position.                                *)
GroundedAt(l, i) ==
    l[i].type = "CONSTRAINT_PROMOTED" =>
        LET c == l[i].constraint
        IN /\ c.generator # c.authorizer
           /\ \E j \in 1..(i - 1) :
                 /\ l[j].type = "EVALUATION"
                 /\ l[j].event_id = c.source
                 /\ l[j].decision = "BLOCK" /\ l[j].matched = None
                 /\ SubSeq(l, 1, j) = c.receipt
                 /\ Matches(c.match, l[j].proposal)

InheritedAt(l, i) ==
    l[i].type = "EVALUATION" =>
        LET earlier == {c \in Promoted(l, i - 1) :
                           Matches(c.match, l[i].proposal)}
        IN IF earlier = {}
           THEN l[i].matched = None
           ELSE l[i].decision = "BLOCK" /\ l[i].matched \in earlier

(* A state, in a process or exported, whose lineage accounts for its       *)
(* constraints.                                                            *)
Sound(cs, l) ==
    /\ IsLineage(l)
    /\ cs = Promoted(l, Len(l))
    /\ \A i \in 1..Len(l) : GroundedAt(l, i) /\ InheritedAt(l, i)

(* A candidate carries as its receipt the lineage up to the rejection it   *)
(* was learned from.                                                       *)
Observed(c) ==
    LET r == c.receipt
        x == r[Len(r)]
    IN /\ IsLineage(r) /\ Len(r) >= 1
       /\ x.type = "EVALUATION" /\ x.event_id = c.source
       /\ x.decision = "BLOCK" /\ x.matched = None
       /\ Matches(c.match, x.proposal)

Shape(o) ==
    o \in [constraints : {o.constraints}, lineage : {o.lineage},
           generation : {o.generation}, cached_root : {o.cached_root},
           cached_generation : {o.cached_generation}]

(* The inductive invariant: every state, in memory or on its way to        *)
(* another runtime, is sound, and a candidate rests on what its receipt    *)
(* says.                                                                   *)
Accounted ==
    /\ organisms = [r \in Runtimes |-> organisms[r]]
    /\ \A r \in Runtimes : organisms[r] # None =>
          /\ Shape(organisms[r])
          /\ Sound(organisms[r].constraints, organisms[r].lineage)
    /\ candidate # None => Observed(candidate)
    /\ export # None =>
          Sound(export.payload.constraints, export.payload.lineage)
-----------------------------------------------------------------------------
LEMMA PromotedOfAppend ==
    ASSUME NEW l, IsLineage(l), NEW e, NEW n \in 0..Len(l)
    PROVE  Promoted(Append(l, e), n) = Promoted(l, n)
  <1> DEFINE m == Append(l, e)
  <1>1. \A i \in 1..n : m[i] = l[i]
    BY LineageAppend
  <1> HIDE DEF m
  <1> QED  BY <1>1 DEF Promoted, m

(* An entry leaves what is said of the earlier positions.                  *)
LEMMA EarlierStays ==
    ASSUME NEW l, IsLineage(l), NEW e, NEW i \in 1..Len(l),
           GroundedAt(l, i), InheritedAt(l, i)
    PROVE  GroundedAt(Append(l, e), i) /\ InheritedAt(Append(l, e), i)
  <1> DEFINE m == Append(l, e)
  <1>1. m[i] = l[i] /\ \A j \in 1..(i - 1) : m[j] = l[j]
    BY LineageAppend
  <1>2. \A j \in 1..(i - 1) : SubSeq(m, 1, j) = SubSeq(l, 1, j)
    BY LineageAppend, ReceiptOfAppend
  <1>3. Promoted(m, i - 1) = Promoted(l, i - 1)
    <2>1. i - 1 \in 0..Len(l)
      BY LineageAppend
    <2> QED  BY <2>1, PromotedOfAppend
  <1> HIDE DEF m
  <1>4. GroundedAt(m, i)
    BY <1>1, <1>2 DEF GroundedAt
  <1>5. InheritedAt(m, i)
    BY <1>1, <1>3 DEF InheritedAt
  <1> QED  BY <1>4, <1>5 DEF m

(* A sound state stays sound with one more entry, when the entry is sound  *)
(* and the constraints are those it promotes.                              *)
LEMMA SoundAppend ==
    ASSUME NEW cs, NEW l, Sound(cs, l), NEW e, NEW ds,
           GroundedAt(Append(l, e), Len(l) + 1),
           InheritedAt(Append(l, e), Len(l) + 1),
           ds = cs \cup (IF e.type = "CONSTRAINT_PROMOTED"
                         THEN {e.constraint} ELSE {})
    PROVE  Sound(ds, Append(l, e))
  <1> DEFINE m == Append(l, e)
             n == Len(l)
  <1>1. IsLineage(l)
    BY DEF Sound
  <1>2. /\ IsLineage(m) /\ n \in Nat /\ Len(m) = n + 1 /\ m[n + 1] = e
        /\ \A i \in 1..n : m[i] = l[i]
    BY <1>1, LineageAppend
  <1>3. ds = Promoted(m, n + 1)
    <2>1. 1..(n + 1) = 1..n \cup {n + 1}
      BY <1>2
    <2>2. cs = Promoted(l, n)
      BY DEF Sound
    <2> HIDE DEF m, n
    <2> QED  BY <1>2, <2>1, <2>2 DEF Promoted
  <1>4. \A i \in 1..(n + 1) : GroundedAt(m, i) /\ InheritedAt(m, i)
    <2> SUFFICES ASSUME NEW i \in 1..(n + 1)
                 PROVE  GroundedAt(m, i) /\ InheritedAt(m, i)
      OBVIOUS
    <2>1. CASE i = n + 1
      BY <2>1
    <2>2. CASE i # n + 1
      <3>1. i \in 1..n
        BY <1>2, <2>2
      <3>2. GroundedAt(l, i) /\ InheritedAt(l, i)
        BY <3>1 DEF Sound
      <3> QED  BY <1>1, <3>1, <3>2, EarlierStays
    <2> QED  BY <2>1, <2>2
  <1> QED  BY <1>2, <1>3, <1>4 DEF Sound

LEMMA SoundNew == Sound({}, <<>>)
  <1>1. Len(<<>>) = 0 /\ <<>> \in [1..0 -> {<<>>[i] : i \in DOMAIN <<>>}]
    OBVIOUS
  <1>2. IsLineage(<<>>)
    BY FunctionIsLineage, <1>1
  <1>3. Promoted(<<>>, 0) = {}
    BY DEF Promoted
  <1> QED  BY <1>1, <1>2, <1>3 DEF Sound
-----------------------------------------------------------------------------
(* The cache of the state root is not part of the state.                   *)
LEMMA CacheApart ==
    ASSUME NEW o, Shape(o)
    PROVE  /\ Shape(Cached(o)) /\ Shape(Mutated(o))
           /\ Cached(o).constraints = o.constraints
           /\ Cached(o).lineage = o.lineage
           /\ Mutated(o).constraints = o.constraints
           /\ Mutated(o).lineage = o.lineage
  BY DEF Shape, Cached, Mutated

(* What a decision adds to a sound state: the first matching constraint    *)
(* decides, and only in its absence do the gates.                          *)
LEMMA EvaluationIsInherited ==
    ASSUME NEW o, Shape(o), Sound(o.constraints, o.lineage),
           NEW r, NEW e, NEW p, NEW gate, NEW v \in Verdicts(o, p, gate)
    PROVE  Sound(o.constraints,
                 Append(o.lineage, Evaluation(r, e, p, v[1], v[2])))
  <1> DEFINE l == o.lineage
             n == Len(l)
             x == Evaluation(r, e, p, v[1], v[2])
             m == Append(l, x)
  <1>1. /\ IsLineage(l) /\ n \in Nat /\ m[n + 1] = x
    BY LineageAppend DEF Sound
  <1>2. /\ x.type = "EVALUATION" /\ x.proposal = p
        /\ x.decision = v[1] /\ x.matched = v[2]
    BY DEF Evaluation
  <1>3. Promoted(m, n) = o.constraints
    BY <1>1, PromotedOfAppend DEF Sound
  <1>4. \/ Matching(o, p) = {} /\ v[2] = None
        \/ \E c \in Matching(o, p) : v[1] = "BLOCK" /\ v[2] = c
    BY DEF Verdicts
  <1>5. (n + 1) - 1 = n
    BY <1>1
  <1> HIDE DEF x, m
  <1>6. InheritedAt(m, n + 1)
    BY <1>1, <1>2, <1>3, <1>4, <1>5 DEF InheritedAt, Matching
  <1>7. GroundedAt(m, n + 1)
    BY <1>1, <1>2 DEF GroundedAt
  <1>8. o.constraints = o.constraints \cup
            (IF x.type = "CONSTRAINT_PROMOTED" THEN {x.constraint} ELSE {})
    BY <1>2
  <1> QED  BY <1>6, <1>7, <1>8, SoundAppend DEF x, m

(* A rejection that is observed makes a candidate its receipt vouches for. *)
LEMMA ObservationIsObserved ==
    ASSUME NEW o, IsLineage(o.lineage), NEW e, NEW generator,
           NEW i \in EvaluationsOf(o, e), Rejection(o.lineage[i]),
           NEW match \in Parts(o.lineage[i].proposal)
    PROVE  Observed([source |-> e, receipt |-> Receipt(o, i),
                     generator |-> generator, match |-> match])
  <1> DEFINE l == o.lineage
             s == SubSeq(l, 1, i)
  <1>1. /\ i \in DOMAIN l /\ l[i].type = "EVALUATION"
        /\ l[i].event_id = e
    BY DEF EvaluationsOf
  <1>2. /\ i \in 1..Len(l) /\ Len(l) \in Nat
        /\ IsLineage(s) /\ Len(s) = i /\ s[i] = l[i]
    BY <1>1, ReceiptIsPrefix, LineageAppend
  <1>3. Matches(match, l[i].proposal)
    BY DEF Parts, Matches
  <1> HIDE DEF s
  <1> QED  BY <1>1, <1>2, <1>3 DEF Observed, Rejection, Receipt, s

(* A constraint that is authorized is grounded in the lineage it joins,    *)
(* although the candidate may have been learned in another runtime.        *)
LEMMA AuthorizedIsGrounded ==
    ASSUME NEW o, Shape(o), Sound(o.constraints, o.lineage),
           NEW c, Observed(c), Grounded(o, c),
           NEW k, k.source = c.source, k.receipt = c.receipt,
           k.match = c.match, k.generator # k.authorizer
    PROVE  Sound(o.constraints \cup {k}, Append(o.lineage, Promotion(k)))
  <1> DEFINE l == o.lineage
             n == Len(l)
             x == Promotion(k)
             m == Append(l, x)
  <1>1. /\ IsLineage(l) /\ n \in Nat /\ m[n + 1] = x
        /\ \A i \in 1..n : m[i] = l[i]
    BY LineageAppend DEF Sound
  <1>2. x.type = "CONSTRAINT_PROMOTED" /\ x.constraint = k
    BY DEF Promotion
  <1>3. PICK i \in EvaluationsOf(o, c.source) : Receipt(o, i) = c.receipt
    BY FS_EmptySet DEF Grounded
  <1>4. /\ i \in DOMAIN l /\ i \in 1..n /\ Len(SubSeq(l, 1, i)) = i
        /\ SubSeq(l, 1, i)[i] = l[i] /\ SubSeq(l, 1, i) = c.receipt
    BY <1>1, <1>3, ReceiptIsPrefix DEF EvaluationsOf, Receipt
  <1>5. /\ l[i].type = "EVALUATION" /\ l[i].event_id = c.source
        /\ l[i].decision = "BLOCK" /\ l[i].matched = None
        /\ Matches(c.match, l[i].proposal)
    BY <1>4 DEF Observed
  <1>6. SubSeq(m, 1, i) = c.receipt /\ m[i] = l[i]
    BY <1>1, <1>4, ReceiptOfAppend
  <1>7. i \in 1..((n + 1) - 1)
    BY <1>1, <1>4
  <1> HIDE DEF x, m
  <1>8. GroundedAt(m, n + 1)
    BY <1>1, <1>2, <1>5, <1>6, <1>7 DEF GroundedAt
  <1>9. InheritedAt(m, n + 1)
    BY <1>1, <1>2 DEF InheritedAt
  <1>10. o.constraints \cup {k} = o.constraints \cup
             (IF x.type = "CONSTRAINT_PROMOTED" THEN {x.constraint} ELSE {})
    BY <1>2
  <1> QED  BY <1>8, <1>9, <1>10, SoundAppend DEF x, m
-----------------------------------------------------------------------------
(* A step gives one runtime an organism, or takes it; the organism is      *)
(* sound when there is one.                                                *)
LEMMA OneOrganismChanges ==
    ASSUME Accounted, NEW r \in Runtimes, NEW o,
           organisms' = [organisms EXCEPT ![r] = o],
           o # None => Shape(o) /\ Sound(o.constraints, o.lineage),
           candidate' # None => Observed(candidate'),
           export' # None =>
               Sound(export'.payload.constraints, export'.payload.lineage)
    PROVE  Accounted'
  <1>1. organisms' = [s \in Runtimes |-> organisms'[s]]
    BY DEF Accounted
  <1>2. ASSUME NEW s \in Runtimes, organisms'[s] # None
        PROVE  /\ Shape(organisms'[s])
               /\ Sound(organisms'[s].constraints, organisms'[s].lineage)
    <2>1. organisms'[r] = o /\ (s # r => organisms'[s] = organisms[s])
      BY DEF Accounted
    <2>2. CASE s = r
      BY <1>2, <2>1, <2>2
    <2>3. CASE s # r
      BY <1>2, <2>1, <2>3 DEF Accounted
    <2> QED  BY <2>2, <2>3
  <1> QED  BY <1>1, <1>2 DEF Accounted

LEMMA AccountedInit == Init => Accounted
  BY DEF Init, Accounted

LEMMA AccountedStep == Accounted /\ [Next]_vars => Accounted'
  <1> SUFFICES ASSUME Accounted, [Next]_vars
               PROVE  Accounted'
    OBVIOUS
  <1>1. CASE UNCHANGED vars
    BY <1>1 DEF vars, Accounted
  <1>2. ASSUME NEW r \in Runtimes, Start(r)
        PROVE  Accounted'
    <2>1. /\ Shape(NewOrganism)
          /\ Sound(NewOrganism.constraints, NewOrganism.lineage)
      BY SoundNew DEF NewOrganism, Shape
    <2>2. organisms' = [organisms EXCEPT ![r] = NewOrganism]
      BY <1>2 DEF Start
    <2>3. candidate' = candidate /\ export' = export
      BY <1>2 DEF Start
    <2> QED  BY <2>1, <2>2, <2>3, OneOrganismChanges DEF Accounted
  <1>3. ASSUME NEW r \in Runtimes, Stop(r)
        PROVE  Accounted'
    BY <1>3, OneOrganismChanges DEF Stop, Accounted
  <1>4. ASSUME NEW r \in Runtimes, Export(r)
        PROVE  Accounted'
    <2> DEFINE o == organisms[r]
    <2>1. /\ Shape(o) /\ Sound(o.constraints, o.lineage)
          /\ organisms' = [organisms EXCEPT ![r] = Cached(o)]
          /\ candidate' = candidate
          /\ export'.payload = Payload(o)
      BY <1>4 DEF Export, Accounted
    <2>2. /\ export'.payload.constraints = o.constraints
          /\ export'.payload.lineage = o.lineage
      BY <2>1 DEF Payload
    <2> QED  BY <2>1, <2>2, CacheApart, OneOrganismChanges DEF Accounted
  <1>5. ASSUME NEW r \in Runtimes, Restore(r)
        PROVE  Accounted'
    <2> DEFINE o == [NewOrganism EXCEPT
                        !.constraints = export.payload.constraints,
                        !.lineage = export.payload.lineage]
    <2>1. /\ organisms' = [organisms EXCEPT ![r] = Cached(o)]
          /\ candidate' = candidate /\ export' = export
      BY <1>5 DEF Restore
    <2>2. Sound(export.payload.constraints, export.payload.lineage)
      BY <1>5 DEF Restore, Accounted
    <2>3. /\ Shape(o) /\ o.constraints = export.payload.constraints
          /\ o.lineage = export.payload.lineage
      BY DEF NewOrganism, Shape
    <2> HIDE DEF o
    <2> QED  BY <2>1, <2>2, <2>3, CacheApart, OneOrganismChanges
             DEF Accounted
  <1>6. ASSUME NEW r \in Runtimes, NEW e \in Events, NEW p \in Proposals,
               NEW d \in Gates, Evaluate(r, e, p, d)
        PROVE  Accounted'
    <2> DEFINE o == organisms[r]
    <2>1. /\ Shape(o) /\ Sound(o.constraints, o.lineage)
          /\ candidate' = candidate /\ export' = export
      BY <1>6 DEF Evaluate, Accounted
    <2>2. PICK v \in Verdicts(o, p, d) :
              organisms' = [organisms EXCEPT ![r] =
                  Cached(Mutated([Cached(o) EXCEPT !.lineage =
                      Append(@, Evaluation(r, e, p, v[1], v[2]))]))]
      BY <1>6 DEF Evaluate
    <2> DEFINE x == Evaluation(r, e, p, v[1], v[2])
               q == [Cached(o) EXCEPT !.lineage = Append(@, x)]
    <2>3. Sound(o.constraints, Append(o.lineage, x))
      BY <2>1, EvaluationIsInherited
    <2>4. /\ Shape(Cached(o)) /\ Cached(o).constraints = o.constraints
          /\ Cached(o).lineage = o.lineage
      BY <2>1, CacheApart
    <2> HIDE DEF o, x
    <2>5. /\ Shape(q) /\ q.constraints = o.constraints
          /\ q.lineage = Append(o.lineage, x)
      BY <2>4 DEF Shape
    <2> HIDE DEF q
    <2>6. /\ Shape(Cached(Mutated(q)))
          /\ Cached(Mutated(q)).constraints = o.constraints
          /\ Cached(Mutated(q)).lineage = Append(o.lineage, x)
      BY <2>5, CacheApart
    <2>7. organisms' = [organisms EXCEPT ![r] = Cached(Mutated(q))]
      BY <2>2 DEF q, x
    <2> QED  BY <2>1, <2>3, <2>6, <2>7, OneOrganismChanges DEF Accounted
  <1>7. ASSUME NEW r \in Runtimes, NEW e \in Events, NEW g \in Principals,
               ObserveRejection(r, e, g)
        PROVE  Accounted'
    <2>1. /\ organisms' = organisms /\ export' = export
          /\ IsLineage(organisms[r].lineage)
      BY <1>7 DEF ObserveRejection, Accounted, Sound
    <2>2. Observed(candidate')
      BY <1>7, <2>1, ObservationIsObserved DEF ObserveRejection
    <2> QED  BY <2>1, <2>2 DEF Accounted
  <1>8. ASSUME NEW r \in Runtimes, NEW a \in Principals,
               AuthorizeConstraint(r, a)
        PROVE  Accounted'
    <2> DEFINE o == organisms[r]
               k == [source |-> candidate.source,
                     receipt |-> candidate.receipt,
                     generator |-> candidate.generator,
                     authorizer |-> a, match |-> candidate.match]
               q == [o EXCEPT !.constraints = @ \cup {k},
                              !.lineage = Append(@, Promotion(k))]
    <2>1. /\ Shape(o) /\ Sound(o.constraints, o.lineage)
          /\ Observed(candidate) /\ Grounded(o, candidate)
          /\ a # candidate.generator
          /\ candidate' = candidate /\ export' = export
      BY <1>8 DEF AuthorizeConstraint, Accounted
    <2>2. organisms' = [organisms EXCEPT ![r] = Mutated(q)]
      BY <1>8 DEF AuthorizeConstraint
    <2>3. /\ k.source = candidate.source /\ k.receipt = candidate.receipt
          /\ k.match = candidate.match /\ k.generator # k.authorizer
      BY <2>1
    <2> HIDE DEF o, k
    <2>4. Sound(o.constraints \cup {k}, Append(o.lineage, Promotion(k)))
      BY <2>1, <2>3, AuthorizedIsGrounded
    <2>5. /\ Shape(q) /\ q.constraints = o.constraints \cup {k}
          /\ q.lineage = Append(o.lineage, Promotion(k))
      BY <2>1 DEF Shape
    <2> HIDE DEF q
    <2>6. /\ Shape(Mutated(q)) /\ Mutated(q).constraints = q.constraints
          /\ Mutated(q).lineage = q.lineage
      BY <2>5, CacheApart
    <2> QED  BY <2>1, <2>2, <2>4, <2>5, <2>6, OneOrganismChanges
             DEF Accounted
  <1> QED  BY <1>1, <1>2, <1>3, <1>4, <1>5, <1>6, <1>7, <1>8 DEF Next

LEMMA AlwaysAccounted == Spec => []Accounted
  BY AccountedInit, AccountedStep, PTL DEF Spec

(* The constraints of an organism are those of its lineage, and each rests *)
(* on a rejection by the gates in the same lineage (observe_rejection and  *)
(* authorize_constraint), whatever runtimes the state and the candidate    *)
(* have passed through.                                                    *)
THEOREM LearnedFromRejections == Spec => []ConstraintsAreGrounded
  <1>1. Accounted => ConstraintsAreGrounded
    <2> SUFFICES ASSUME Accounted, NEW r \in Running
                 PROVE  /\ organisms[r].constraints =
                               Promoted(organisms[r].lineage,
                                        Len(organisms[r].lineage))
                        /\ \A i \in DOMAIN organisms[r].lineage :
                               GroundedAt(organisms[r].lineage, i)
      BY DEF ConstraintsAreGrounded, GroundedAt
    <2>1. Sound(organisms[r].constraints, organisms[r].lineage)
      BY DEF Accounted, Running
    <2> QED  BY <2>1, LineageAppend DEF Sound
  <1> QED  BY <1>1, AlwaysAccounted, PTL

(* Every evaluation is blocked when a constraint promoted before matches   *)
(* it (evaluate), in every runtime the state is restored to.               *)
THEOREM ConstraintsBind == Spec => []ConstraintsAreInherited
  <1>1. Accounted => ConstraintsAreInherited
    <2> SUFFICES ASSUME Accounted, NEW r \in Running
                 PROVE  \A i \in DOMAIN organisms[r].lineage :
                            InheritedAt(organisms[r].lineage, i)
      BY DEF ConstraintsAreInherited, InheritedAt
    <2>1. Sound(organisms[r].constraints, organisms[r].lineage)
      BY DEF Accounted, Running
    <2> QED  BY <2>1, LineageAppend DEF Sound
  <1> QED  BY <1>1, AlwaysAccounted, PTL
=============================================================================
