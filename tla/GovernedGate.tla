---------------------------- MODULE GovernedGate ----------------------------
(***************************************************************************)
(* GovernedEd25519RelationIntegrityGate.evaluate                           *)
(* (src/app/federation_key_registry.py) running beside the mutations of    *)
(* the registry.  The gate takes its timestamp, then reads the binding,    *)
(* the source key and the target key over three connections; mutations may *)
(* commit in between.  Its clock is injectable (replay of an earlier       *)
(* evaluation sets it), so the timestamp is any of Times.                  *)
(***************************************************************************)
EXTENDS KeyRegistry

VARIABLES
    gate,     \* evaluation in progress
    verdict   \* latest admissible decision, with the ledger's length when
              \* the evaluation began and when it ended

vars == <<keys, bindings, ledger, rotating, answer, gate, verdict>>

GateInit == Init /\ gate = None /\ verdict = None

Evaluate(r, t) ==
    /\ gate = None
    /\ gate' = [step |-> "binding", relation |-> r, at |-> t, began |-> Len(ledger),
                binding |-> None, source |-> None, target |-> None]
    /\ UNCHANGED <<registryVars, verdict>>

At(step) == gate # None /\ gate.step = step

(* get_relation_binding; without a binding no key is read.                 *)
ReadBinding ==
    /\ At("binding")
    /\ gate' = IF bindings[gate.relation.id] = None
               THEN [gate EXCEPT !.step = "decide"]
               ELSE [gate EXCEPT !.step = "source",
                                 !.binding = bindings[gate.relation.id].binding]
    /\ UNCHANGED <<registryVars, verdict>>

(* get_key(binding.source_key_id).                                         *)
ReadSourceKey ==
    /\ At("source")
    /\ gate' = [gate EXCEPT !.step = "target", !.source = keys[gate.binding.sourceKey]]
    /\ UNCHANGED <<registryVars, verdict>>

(* get_key(binding.target_key_id).                                         *)
ReadTargetKey ==
    /\ At("target")
    /\ gate' = [gate EXCEPT !.step = "decide", !.target = keys[gate.binding.targetKey]]
    /\ UNCHANGED <<registryVars, verdict>>

(* Mutant: a key still counts at the instant of its revocation.            *)
KeyStateLenient(row, t) ==
    /\ row.from <= t /\ t < row.until
    /\ row.revoked # None => t <= row.revoked

(* key_state_reasons has nothing to report.                                *)
KeyState(row, t) == EffectiveAt(row, t)

(* No reason to refuse relation r under binding b and these two rows.      *)
Admissible(r, t, b, source, target, fits) ==
    /\ b # None
    /\ b.relation = Digest(r)
    /\ b.source = r.source /\ b.target = r.target
    /\ source # None /\ target # None
    /\ source.authority = b.source /\ target.authority = b.target
    /\ KeyState(source, t) /\ KeyState(target, t)
    /\ Verifies(r, b.sourceKey, b.targetKey, t, fits)

Decide(fits) ==
    /\ At("decide")
    /\ verdict' = IF Admissible(gate.relation, gate.at, gate.binding,
                                gate.source, gate.target, fits)
                  THEN [relation |-> gate.relation, at |-> gate.at,
                        began |-> gate.began, ended |-> Len(ledger)]
                  ELSE None
    /\ gate' = None
    /\ UNCHANGED registryVars

GateNext ==
    \/ Next /\ UNCHANGED <<gate, verdict>>
    \/ \E r \in Relations, t \in Times : Evaluate(r, t)
    \/ ReadBinding
    \/ ReadSourceKey
    \/ ReadTargetKey
    \/ \E fits \in BOOLEAN : Decide(fits)

GateSpec == GateInit /\ [][GateNext]_vars

-----------------------------------------------------------------------------
(* Properties.                                                             *)

(* Row k as it was when the ledger had n events.                           *)
RowAt(k, n) ==
    IF keys[k] = None \/ keys[k].receipt > n THEN None
    ELSE IF keys[k].revocation > n
    THEN [keys[k] EXCEPT !.revoked = None, !.reason = None]
    ELSE keys[k]

BindingAt(id, n) ==
    IF bindings[id] = None \/ bindings[id].receipt > n THEN None
    ELSE bindings[id].binding

AdmissibleAt(r, t, n) ==
    LET b == BindingAt(r.id, n)
    IN b # None /\ Admissible(r, t, b, RowAt(b.sourceKey, n), RowAt(b.targetKey, n), TRUE)

EffectiveInLedger(k, t, n) ==
    /\ RowAt(k, n) # None
    /\ EffectiveAt(RowAt(k, n), t)

(* An admissible decision made of three reads is the one a single look at  *)
(* the registry would have given at some moment of the evaluation: both    *)
(* bound keys were effective together at the timestamp, and a revocation   *)
(* that was in effect before the evaluation began is never missed          *)
(* (evaluate, key_state_reasons).                                          *)
OneMomentDecides ==
    verdict # None =>
        \E n \in verdict.began..verdict.ended :
            LET b == BindingAt(verdict.relation.id, n)
            IN /\ b # None
               /\ b.relation = Digest(verdict.relation)
               /\ EffectiveInLedger(b.sourceKey, verdict.at, n)
               /\ EffectiveInLedger(b.targetKey, verdict.at, n)

(* Historical replay: evaluated again at the same timestamp, an admissible *)
(* relation stays admissible through every later registration, rotation    *)
(* and binding; only a revocation effective at or before that timestamp    *)
(* changes the decision.                                                   *)
ReplayIsStable ==
    verdict # None =>
        LET b == bindings[verdict.relation.id].binding
        IN \/ AdmissibleAt(verdict.relation, verdict.at, Len(ledger))
           \/ \E k \in {b.sourceKey, b.targetKey} :
                 keys[k].revoked # None /\ keys[k].revoked <= verdict.at
=============================================================================
