----------------------------- MODULE CoreGates -----------------------------
(***************************************************************************)
(* The gates every handler of the service calls before it keeps or sends   *)
(* anything (src/app/core.py).  The reasons they give are left out.        *)
(***************************************************************************)

(* The declaration a request makes about the human data in its payload: the*)
(* set of its fields that are set (consent to True, sensitivity to SECRET),*)
(* or None.                                                                *)
HumanFields == {"consent", "purpose", "secret", "third_party",
                "third_party_consent", "serialize_human"}

NoHuman == {"no human data"}

Decisions == {"PASS", "HOLD", "BLOCK"}

(* Mutant: the consent of third parties is not asked for.                  *)
evaluate_hdb_first_party(human) ==
    IF human = NoHuman THEN "PASS"
    ELSE IF human \cap {"serialize_human", "secret"} # {} THEN "BLOCK"
    ELSE IF ~{"consent", "purpose"} \subseteq human THEN "HOLD"
    ELSE "PASS"

(* evaluate_hdb: blocks come before holds.                                 *)
evaluate_hdb(human) ==
    IF human = NoHuman THEN "PASS"
    ELSE IF \/ human \cap {"serialize_human", "secret"} # {}
            \/ "third_party" \in human /\ "third_party_consent" \notin human
    THEN "BLOCK"
    ELSE IF ~{"consent", "purpose"} \subseteq human THEN "HOLD"
    ELSE "PASS"

(* omega_gate as the handlers call it, with ontology_ok, signature_valid   *)
(* and transition_valid True: the decision is the one of evaluate_hdb.     *)
omega_gate(hdb) == IF hdb \in {"BLOCK", "HOLD"} THEN hdb ELSE "PASS"

Gate(human) == omega_gate(evaluate_hdb(human))

(* What the gates are for, said without their cascade: a payload with      *)
(* human data may be kept or sent only as an authorized representation.    *)
Authorized(human) ==
    \/ human = NoHuman
    \/ /\ {"consent", "purpose"} \subseteq human
       /\ human \subseteq HumanFields \ {"secret", "serialize_human"}
       /\ "third_party" \in human => "third_party_consent" \in human
=============================================================================
