----------------------------- MODULE Organism ------------------------------
(***************************************************************************)
(* The governed organism (src/app/organism_loop.py): it decides proposals, *)
(* learns constraints from its own rejections when an independent          *)
(* principal authorizes them, and moves between runtimes by exporting and  *)
(* restoring its state.                                                    *)
(*                                                                         *)
(* A proposal gives a value to each of its keys, and the match of a        *)
(* constraint is a part of a proposal.  What the gates say of a proposal   *)
(* no constraint matches is an input.  A hash is represented by what       *)
(* determines what is hashed: the receipt of an evaluation by the lineage  *)
(* up to it (ConstraintsAreGrounded shows that the lineage determines the  *)
(* constraints), the state root by the state.  Grants and the MAC of an    *)
(* exported state are authentic.                                           *)
(***************************************************************************)
EXTENDS Naturals, Sequences, FiniteSets

CONSTANTS
    Runtimes,     \* processes that may hold the organism
    Events,       \* event ids
    Proposals,    \* functions from keys to values
    Gates,        \* decisions the gates come to
    Principals,   \* generators and authorizers
    None,         \* no organism, no candidate, no export, no constraint
    MaxLineage,   \* length of a lineage
    MaxStarts,    \* organisms created without a state
    MaxExports    \* exports

ASSUME OrganismAssumption ==
    /\ {MaxLineage, MaxStarts, MaxExports} \subseteq Nat
    /\ Gates \subseteq {"PASS", "BLOCK", "HOLD"}
    /\ \A p \in Proposals : p = [k \in DOMAIN p |-> p[k]]

VARIABLES
    organisms,    \* the organism in the memory of each runtime
    candidate,    \* a constraint candidate somebody holds
    export,       \* an exported state somebody holds
    starts,       \* organisms created so far
    exports       \* exports so far

vars == <<organisms, candidate, export, starts, exports>>
counters == <<starts, exports>>

Parts(proposal) ==
    {[k \in ks |-> proposal[k]] : ks \in SUBSET (DOMAIN proposal) \ {{}}}
Matches(match, proposal) ==
    /\ DOMAIN match \subseteq DOMAIN proposal
    /\ \A k \in DOMAIN match : proposal[k] = match[k]

Evaluation(r, e, proposal, decision, matched) ==
    [type |-> "EVALUATION", event_id |-> e, runtime |-> r,
     proposal |-> proposal, decision |-> decision, matched |-> matched]
Promotion(constraint) ==
    [type |-> "CONSTRAINT_PROMOTED", constraint |-> constraint]

(* state_payload.                                                          *)
Payload(o) == [constraints |-> o.constraints, lineage |-> o.lineage]

(* A fresh object; state_root has not been asked for yet.                  *)
NewOrganism ==
    [constraints |-> {}, lineage |-> <<>>, generation |-> 0,
     cached_root |-> None, cached_generation |-> None]

Fresh(o) ==
    /\ o.cached_root # None
    /\ o.cached_generation = o.generation

(* state_root.                                                             *)
StateRoot(o) == IF Fresh(o) THEN o.cached_root ELSE Payload(o)

(* What a call of state_root leaves in the cache.                          *)
Cached(o) == [o EXCEPT !.cached_root = StateRoot(o),
                       !.cached_generation = o.generation]

(* _mark_state_mutated.                                                    *)
Mutated(o) == [o EXCEPT !.generation = @ + 1, !.cached_root = None]

(* _evaluation: positions of the evaluations of an event.                  *)
EvaluationsOf(o, e) ==
    {i \in DOMAIN o.lineage : /\ o.lineage[i].type = "EVALUATION"
                              /\ o.lineage[i].event_id = e}
Receipt(o, i) == SubSeq(o.lineage, 1, i)

Init ==
    /\ organisms = [r \in Runtimes |-> None]
    /\ candidate = None
    /\ export = None
    /\ starts = 0 /\ exports = 0

(* GovernedOrganism without a state.                                       *)
Start(r) ==
    /\ organisms[r] = None /\ starts < MaxStarts
    /\ organisms' = [organisms EXCEPT ![r] = NewOrganism]
    /\ starts' = starts + 1
    /\ UNCHANGED <<candidate, export, exports>>

(* The process ends; what was not exported is gone.                        *)
Stop(r) ==
    /\ organisms[r] # None
    /\ organisms' = [organisms EXCEPT ![r] = None]
    /\ UNCHANGED <<candidate, export, counters>>

(* Mutant: a match of every key the proposal has is demanded.              *)
MatchingExactly(o, proposal) ==
    {c \in o.constraints : c.match = proposal}

(* evaluate: a matching constraint blocks before any gate is asked.  Ids   *)
(* are hashes, so the first match in sorted order may be any of them.      *)
Matching(o, proposal) ==
    {c \in o.constraints : Matches(c.match, proposal)}

Verdicts(o, proposal, gate) ==
    IF Matching(o, proposal) = {}
    THEN {<<gate, None>>}
    ELSE {<<"BLOCK", c>> : c \in Matching(o, proposal)}

Evaluate(r, e, proposal, gate) ==
    LET o == organisms[r]
    IN /\ o # None
       /\ Len(o.lineage) < MaxLineage
       /\ EvaluationsOf(o, e) = {}
       /\ \E v \in Verdicts(o, proposal, gate) :
             LET entry == Evaluation(r, e, proposal, v[1], v[2])
             IN organisms' = [organisms EXCEPT ![r] =
                    Cached(Mutated([Cached(o) EXCEPT !.lineage =
                                       Append(@, entry)]))]
       /\ UNCHANGED <<candidate, export, counters>>

(* observe_rejection: only a rejection by the gates themselves can become  *)
(* a candidate.                                                            *)
Rejection(entry) == entry.decision = "BLOCK" /\ entry.matched = None

ObserveRejection(r, e, generator) ==
    LET o == organisms[r]
    IN /\ o # None
       /\ \E i \in EvaluationsOf(o, e) :
             /\ Rejection(o.lineage[i])
             /\ \E match \in Parts(o.lineage[i].proposal) :
                   candidate' = [source |-> e, receipt |-> Receipt(o, i),
                                 generator |-> generator, match |-> match]
       /\ UNCHANGED <<organisms, export, counters>>

(* Mutant: the receipt is not compared.                                    *)
GroundedByEvent(o, c) ==
    /\ Cardinality(EvaluationsOf(o, c.source)) = 1
    /\ \A i \in EvaluationsOf(o, c.source) : o.lineage[i].decision = "BLOCK"

(* authorize_constraint, on any runtime the candidate is brought to.       *)
Grounded(o, c) ==
    /\ Cardinality(EvaluationsOf(o, c.source)) = 1
    /\ \A i \in EvaluationsOf(o, c.source) :
          /\ o.lineage[i].decision = "BLOCK"
          /\ Receipt(o, i) = c.receipt

AuthorizeConstraint(r, principal) ==
    LET o == organisms[r]
        constraint == [source |-> candidate.source,
                       receipt |-> candidate.receipt,
                       generator |-> candidate.generator,
                       authorizer |-> principal, match |-> candidate.match]
    IN /\ o # None /\ candidate # None
       /\ Len(o.lineage) < MaxLineage
       /\ principal # candidate.generator
       /\ Grounded(o, candidate)
       /\ organisms' = [organisms EXCEPT ![r] =
             Mutated([o EXCEPT !.constraints = @ \cup {constraint},
                               !.lineage = Append(@, Promotion(constraint))])]
       /\ UNCHANGED <<candidate, export, counters>>

(* export_state.                                                           *)
Export(r) ==
    LET o == organisms[r]
    IN /\ o # None /\ exports < MaxExports
       /\ exports' = exports + 1
       /\ export' = [payload |-> Payload(o), root |-> StateRoot(o)]
       /\ organisms' = [organisms EXCEPT ![r] = Cached(o)]
       /\ UNCHANGED <<candidate, starts>>

(* _restore; the last check computes the root of what was restored.        *)
Restore(r) ==
    /\ organisms[r] = None /\ export # None
    /\ export.root = export.payload
    /\ organisms' = [organisms EXCEPT ![r] =
          Cached([NewOrganism EXCEPT
                     !.constraints = export.payload.constraints,
                     !.lineage = export.payload.lineage])]
    /\ UNCHANGED <<candidate, export, counters>>

Next ==
    \E r \in Runtimes :
        \/ Start(r) \/ Stop(r) \/ Export(r) \/ Restore(r)
        \/ \E e \in Events, p \in Proposals, d \in Gates :
              Evaluate(r, e, p, d)
        \/ \E e \in Events, g \in Principals : ObserveRejection(r, e, g)
        \/ \E a \in Principals : AuthorizeConstraint(r, a)

Spec == Init /\ [][Next]_vars

-----------------------------------------------------------------------------
Running == {r \in Runtimes : organisms[r] # None}
Promoted(lineage, n) ==
    {lineage[i].constraint :
        i \in {j \in 1..n : lineage[j].type = "CONSTRAINT_PROMOTED"}}

Evaluations(l) == {l[i] : i \in {j \in DOMAIN l : l[j].type = "EVALUATION"}}

(* The constraints of an organism are those its lineage says were          *)
(* promoted, and each rests on an earlier evaluation of the same lineage   *)
(* that the gates themselves blocked (observe_rejection: "an inherited     *)
(* BLOCK cannot recursively seed another constraint"), matches a part of   *)
(* the proposal that was blocked and was authorized by somebody else than  *)
(* its generator, whatever runtimes the candidate has passed through.      *)
ConstraintsAreGrounded ==
    \A r \in Running :
        LET l == organisms[r].lineage
        IN /\ organisms[r].constraints = Promoted(l, Len(l))
           /\ \A i \in DOMAIN l : l[i].type = "CONSTRAINT_PROMOTED" =>
                 LET c == l[i].constraint
                 IN /\ c.generator # c.authorizer
                    /\ \E j \in 1..(i - 1) :
                          /\ l[j].type = "EVALUATION"
                          /\ l[j].event_id = c.source
                          /\ l[j].decision = "BLOCK" /\ l[j].matched = None
                          /\ SubSeq(l, 1, j) = c.receipt
                          /\ Matches(c.match, l[j].proposal)

(* Once a constraint is promoted, every later evaluation it matches is     *)
(* blocked, by it or by another constraint promoted before, in the same    *)
(* runtime and in every runtime the state is restored to.                  *)
ConstraintsAreInherited ==
    \A r \in Running :
        LET l == organisms[r].lineage
        IN \A i \in DOMAIN l : l[i].type = "EVALUATION" =>
              LET earlier == {c \in Promoted(l, i - 1) :
                                 Matches(c.match, l[i].proposal)}
              IN IF earlier = {}
                 THEN l[i].matched = None
                 ELSE l[i].decision = "BLOCK" /\ l[i].matched \in earlier
=============================================================================
