------------------------- MODULE FederationRelation -------------------------
(***************************************************************************)
(* A federation relation, its bilateral Ed25519 witness and the verifier   *)
(* that holds public keys only (src/app/federation_relation.py and         *)
(* src/app/federation_ed25519.py).                                         *)
(*                                                                         *)
(* A digest is represented by what is hashed and a signature by what it    *)
(* was made of: the key, the role and the digest in the signing message.   *)
(* Domains, contract hash and capabilities are compared with the request   *)
(* and nothing else; whether the request fits them is one input.           *)
(***************************************************************************)
EXTENDS Naturals

CONSTANT None   \* Python's None

Relation(id, source, target, from, until) ==
    [id |-> id, source |-> source, target |-> target,
     from |-> from, until |-> until, status |-> "ACTIVE", witness |-> None]

(* canonical_payload leaves out the witness.                               *)
Digest(r) == [r EXCEPT !.witness = None]

Signature(key, role, digest) == [key |-> key, role |-> role, digest |-> digest]

(* The witness a signer extends: the one the relation carries, if it is    *)
(* about the current payload, or an empty one.                             *)
WitnessForSigning(r) ==
    IF r.witness = None
    THEN [digest |-> Digest(r), source |-> None, target |-> None]
    ELSE r.witness

CanSign(r, role) ==
    /\ WitnessForSigning(r).digest = Digest(r)
    /\ WitnessForSigning(r)[role] = None

Sign(r, role, key) ==
    [r EXCEPT !.witness = [WitnessForSigning(r) EXCEPT
        ![role] = Signature(key, role, Digest(r))]]

(* No reason to refuse: Ed25519RelationIntegrityGate.evaluate for a        *)
(* verifier that knows these public keys (None: authority unknown).        *)
Verifies(r, sourceKey, targetKey, timestamp, fits) ==
    /\ r.status = "ACTIVE"
    /\ fits
    /\ r.from <= timestamp /\ timestamp < r.until
    /\ r.witness # None
    /\ r.witness.digest = Digest(r)
    /\ sourceKey # None /\ targetKey # None
    /\ sourceKey # targetKey
    /\ r.witness.source = Signature(sourceKey, "source", Digest(r))
    /\ r.witness.target = Signature(targetKey, "target", Digest(r))
=============================================================================
