---------------------------- MODULE KeyRegistry ----------------------------
(***************************************************************************)
(* The registry of federation authority keys                               *)
(* (src/app/federation_key_registry.py) behind the endpoints that change   *)
(* it (src/app/federation_trust_plane.py).                                 *)
(*                                                                         *)
(* A mutation is one BEGIN IMMEDIATE transaction, hence one step; the      *)
(* rotate endpoint reads the previous key in a transaction of its own      *)
(* before it registers the new one, and the endpoints run in a pool of     *)
(* threads.  A key id is the hash of the public key, so a member of Keys   *)
(* stands for both.  Actor ids and times of recording are only stored.     *)
(***************************************************************************)
EXTENDS FederationRelation, Sequences

CONSTANTS
    Authorities,  \* authority_id values
    Keys,         \* public keys, with their key ids
    Reasons,      \* revocation reasons
    Presented,    \* keys and records presented to register_key
    Relations,    \* relations presented for binding and for evaluation
    Handlers,     \* threads that serve the endpoints
    MaxTime,      \* latest timestamp used
    MaxLedger     \* number of mutations

VARIABLES
    keys,      \* federation_authority_keys, by key_id
    bindings,  \* federation_relation_key_bindings, by relation_id
    ledger,    \* events of the registry in the canonical ledger
    rotating,  \* rotation each handler has prepared
    answer     \* latest answer of a mutation

registryVars == <<keys, bindings, ledger, rotating, answer>>

Times == 0..MaxTime
RelationIds == {r.id : r \in Relations}

(* The record a caller registers, and its row; receipts are positions in   *)
(* the ledger.                                                             *)
Records == [authority : Authorities, from : Times, until : Times,
            previous : Keys \cup {None}]
Rows == [authority : Authorities, from : Times, until : Times,
         previous : Keys \cup {None}, receipt : Nat,
         revoked : Times \cup {None}, reason : Reasons \cup {None},
         revocation : Nat]
Rotations == [key : Keys, record : Records]

Bindings == [relation : {Digest(r) : r \in Relations}, source : Authorities,
             sourceKey : Keys, target : Authorities, targetKey : Keys]
BoundRows == [binding : Bindings, receipt : Nat]

Events ==
    [type : {"KEY_REGISTERED"}, key : Keys, record : Records]
    \cup [type : {"KEY_REVOKED"}, key : Keys, at : Times, reason : Reasons]
    \cup [type : {"RELATION_KEY_BOUND"}, binding : Bindings]

ASSUME KeyRegistryAssumption ==
    /\ MaxTime \in Nat /\ MaxLedger \in Nat
    /\ None \notin Keys /\ None \notin Reasons /\ None \notin Times
    /\ None \notin Rows /\ None \notin BoundRows /\ None \notin Rotations
    /\ Presented \subseteq Rotations

(* The fields of a relation that the registry looks at are in its digest.  *)
ASSUME RelationAssumption ==
    \A r \in Relations : {"source", "target", "from", "until"} \subseteq DOMAIN r

Registered == {k \in Keys : keys[k] # None}
Owned(authority) == {k \in Registered : keys[k].authority = authority}
Successors(k) == {s \in Registered : keys[s].previous = k}

(* registration_payload of a record or of a row.                           *)
Payload(r) == [authority |-> r.authority, from |-> r.from,
               until |-> r.until, previous |-> r.previous]

KeyRegistered(k, r) == [type |-> "KEY_REGISTERED", key |-> k, record |-> Payload(r)]
KeyRevoked(k, at, reason) ==
    [type |-> "KEY_REVOKED", key |-> k, at |-> at, reason |-> reason]
KeyBound(b) == [type |-> "RELATION_KEY_BOUND", binding |-> b]

(* Answers: a mutation, an exact retry or a refusal, with the event the    *)
(* request stands for and the receipt that was returned.                   *)
Created(event) == [outcome |-> "created", event |-> event,
                   receipt |-> Len(ledger) + 1]
Idempotent(event, receipt) ==
    [outcome |-> "idempotent", event |-> event, receipt |-> receipt]
Refused == [outcome |-> "refused"]

Init ==
    /\ keys = [k \in Keys |-> None]
    /\ bindings = [id \in RelationIds |-> None]
    /\ ledger = <<>>
    /\ rotating = [h \in Handlers |-> None]
    /\ answer = Refused

(* The transaction leaves the tables alone and the caller gets a.          *)
Answer(a) == answer' = a /\ UNCHANGED <<keys, bindings, ledger>>

(* One event and the row it is about, in one transaction.                  *)
Commit(event) ==
    /\ Len(ledger) < MaxLedger
    /\ ledger' = Append(ledger, event)
    /\ answer' = Created(event)

(* AuthorityKeyRecord.__post_init__.                                       *)
WellFormed(k, r) == r.from < r.until /\ r.previous # k

(* Mutant: a key may have several successors.                              *)
ContinuesForked(r) ==
    IF Owned(r.authority) = {}
    THEN r.previous = None
    ELSE r.previous \in Owned(r.authority) /\ keys[r.previous].until = r.from

(* A first key declares no previous one; any other continues one key of    *)
(* its authority, which nothing continues yet, exactly where it ends.      *)
Continues(r) ==
    IF Owned(r.authority) = {}
    THEN r.previous = None
    ELSE /\ r.previous \in Owned(r.authority)
         /\ keys[r.previous].until = r.from
         /\ Successors(r.previous) = {}

(* register_key.                                                           *)
RegisterKey(k, r) ==
    \/ /\ WellFormed(k, r)
       /\ keys[k] # None /\ Payload(keys[k]) = r
       /\ Answer(Idempotent(KeyRegistered(k, r), keys[k].receipt))
    \/ /\ WellFormed(k, r)
       /\ keys[k] = None /\ Continues(r)
       /\ Commit(KeyRegistered(k, r))
       /\ keys' = [keys EXCEPT ![k] =
             [authority |-> r.authority, from |-> r.from, until |-> r.until,
              previous |-> r.previous, receipt |-> Len(ledger) + 1,
              revoked |-> None, reason |-> None, revocation |-> 0]]
       /\ UNCHANGED bindings
    \/ /\ ~ /\ WellFormed(k, r)
            /\ IF keys[k] # None THEN Payload(keys[k]) = r ELSE Continues(r)
       /\ Answer(Refused)

(* register_genesis_key, or a call of the library with any record.         *)
Register(k, r) == RegisterKey(k, r) /\ UNCHANGED rotating

(* rotate_authority_key up to the registration: the previous key is read   *)
(* and the new record starts where that key ends.                          *)
PrepareRotation(h, authority, previous, k, until) ==
    /\ rotating[h] = None
    /\ IF /\ keys[previous] # None
          /\ keys[previous].authority = authority
          /\ until > keys[previous].until
       THEN /\ rotating' = [rotating EXCEPT ![h] =
                  [key |-> k,
                   record |-> [authority |-> authority, previous |-> previous,
                               from |-> keys[previous].until, until |-> until]]]
            /\ UNCHANGED <<keys, bindings, ledger, answer>>
       ELSE Answer(Refused) /\ UNCHANGED rotating

FinishRotation(h) ==
    /\ rotating[h] # None
    /\ RegisterKey(rotating[h].key, rotating[h].record)
    /\ rotating' = [rotating EXCEPT ![h] = None]

Revocable(authority, k, at) ==
    /\ keys[k] # None
    /\ keys[k].authority = authority
    /\ keys[k].from <= at /\ at < keys[k].until

(* Mutant: the key's window is cut short instead.                          *)
SetTruncated(k, at, reason) ==
    /\ Commit(KeyRevoked(k, at, reason))
    /\ keys' = [keys EXCEPT ![k].until = at]
    /\ UNCHANGED bindings

SetRevoked(k, at, reason) ==
    /\ Commit(KeyRevoked(k, at, reason))
    /\ keys' = [keys EXCEPT ![k].revoked = at, ![k].reason = reason,
                            ![k].revocation = Len(ledger) + 1]
    /\ UNCHANGED bindings

(* Mutant: a second revocation replaces the first.                         *)
RevokeKeyAgain(authority, k, at, reason) ==
    \/ Revocable(authority, k, at) /\ SetRevoked(k, at, reason)
    \/ ~Revocable(authority, k, at) /\ Answer(Refused)

(* Mutant: any second revocation is taken for a retry.                     *)
RevokeKeyOnce(authority, k, at, reason) ==
    \/ /\ Revocable(authority, k, at)
       /\ keys[k].revoked # None
       /\ Answer(Idempotent(KeyRevoked(k, at, reason), keys[k].revocation))
    \/ /\ Revocable(authority, k, at)
       /\ keys[k].revoked = None
       /\ SetRevoked(k, at, reason)
    \/ ~Revocable(authority, k, at) /\ Answer(Refused)

(* revoke_key: at any instant of the key's window, the past included, and  *)
(* once.                                                                   *)
RevokeKey(authority, k, at, reason) ==
    \/ /\ Revocable(authority, k, at)
       /\ keys[k].revoked = at /\ keys[k].reason = reason
       /\ Answer(Idempotent(KeyRevoked(k, at, reason), keys[k].revocation))
    \/ /\ Revocable(authority, k, at)
       /\ keys[k].revoked = None
       /\ SetRevoked(k, at, reason)
    \/ /\ ~ /\ Revocable(authority, k, at)
            /\ \/ keys[k].revoked = None
               \/ keys[k].revoked = at /\ keys[k].reason = reason
       /\ Answer(Refused)

Revoke(authority, k, at, reason) ==
    RevokeKey(authority, k, at, reason) /\ UNCHANGED rotating

Binding(r, sourceKey, targetKey) ==
    [relation |-> Digest(r), source |-> r.source, sourceKey |-> sourceKey,
     target |-> r.target, targetKey |-> targetKey]

(* Mutant: a relation may outlive the keys it is bound to.                 *)
CoversStart(k, authority, r) ==
    /\ keys[k] # None
    /\ keys[k].authority = authority
    /\ keys[k].from <= r.from
    /\ keys[k].revoked # None => r.until <= keys[k].revoked

(* The key of one side covers the whole relation, as far as is known.      *)
Covers(k, authority, r) ==
    /\ keys[k] # None
    /\ keys[k].authority = authority
    /\ keys[k].from <= r.from /\ r.until <= keys[k].until
    /\ keys[k].revoked # None => r.until <= keys[k].revoked

(* The witness must verify under the keys being bound, at the start of     *)
(* the relation.                                                           *)
Bindable(r, sourceKey, targetKey) ==
    /\ Covers(sourceKey, r.source, r)
    /\ Covers(targetKey, r.target, r)
    /\ Verifies(r, sourceKey, targetKey, r.from, TRUE)

SetBinding(r, b) ==
    /\ Commit(KeyBound(b))
    /\ bindings' = [bindings EXCEPT ![r.id] =
                      [binding |-> b, receipt |-> Len(ledger) + 1]]
    /\ UNCHANGED keys

(* register_relation_binding.                                              *)
Bind(r, sourceKey, targetKey) ==
    LET b == Binding(r, sourceKey, targetKey)
    IN /\ \/ /\ sourceKey # targetKey
             /\ bindings[r.id] # None /\ bindings[r.id].binding = b
             /\ Answer(Idempotent(KeyBound(b), bindings[r.id].receipt))
          \/ /\ sourceKey # targetKey
             /\ bindings[r.id] = None /\ Bindable(r, sourceKey, targetKey)
             /\ SetBinding(r, b)
          \/ /\ ~ /\ sourceKey # targetKey
                  /\ IF bindings[r.id] # None THEN bindings[r.id].binding = b
                     ELSE Bindable(r, sourceKey, targetKey)
             /\ Answer(Refused)
       /\ UNCHANGED rotating

Next ==
    \/ \E p \in Presented : Register(p.key, p.record)
    \/ \E h \in Handlers, a \in Authorities, p, k \in Keys, t \in Times :
          PrepareRotation(h, a, p, k, t)
    \/ \E h \in Handlers : FinishRotation(h)
    \/ \E a \in Authorities, k \in Keys, t \in Times, reason \in Reasons :
          Revoke(a, k, t, reason)
    \/ \E r \in Relations, s, t \in Keys : Bind(r, s, t)

Spec == Init /\ [][Next]_registryVars

-----------------------------------------------------------------------------
(* Properties.                                                             *)

(* The tables hold rows that load again (_row_to_key builds the record     *)
(* anew, which raises unless its window is not empty and a revocation is   *)
(* inside it), and handlers hold records of the right types.               *)
TypeOK ==
    /\ keys \in [Keys -> Rows \cup {None}]
    /\ \A k \in Registered :
          /\ WellFormed(k, keys[k])
          /\ keys[k].revoked # None =>
                keys[k].from <= keys[k].revoked /\ keys[k].revoked < keys[k].until
          /\ keys[k].revoked = None <=> keys[k].reason = None
    /\ bindings \in [RelationIds -> BoundRows \cup {None}]
    /\ rotating \in [Handlers -> Rotations \cup {None}]
    /\ ledger \in Seq(Events)
    /\ Len(ledger) <= MaxLedger

(* AuthorityKeyRecord.effective_at.                                        *)
EffectiveAt(row, t) ==
    /\ row.from <= t /\ t < row.until
    /\ row.revoked # None => t < row.revoked

(* Rotation is a linear lineage without overlapping windows: at no instant *)
(* are two keys of an authority effective, however registrations and       *)
(* two-step rotations interleave (register_key).                           *)
OneEffectiveKey ==
    \A a \in Authorities, t \in Times :
        \A k1, k2 \in Owned(a) :
            EffectiveAt(keys[k1], t) /\ EffectiveAt(keys[k2], t) => k1 = k2

(* Every row, revocation and binding has exactly one event in the ledger,  *)
(* which says the same and is the one its receipt names; no event is about *)
(* anything else ("commits only after both operations succeed").           *)
LedgerMatchesTables ==
    /\ \A k \in Registered :
          /\ ledger[keys[k].receipt] = KeyRegistered(k, keys[k])
          /\ keys[k].revoked # None =>
                ledger[keys[k].revocation] =
                    KeyRevoked(k, keys[k].revoked, keys[k].reason)
    /\ \A id \in RelationIds :
          bindings[id] # None =>
             ledger[bindings[id].receipt] = KeyBound(bindings[id].binding)
    /\ \A i \in DOMAIN ledger :
          \/ \E k \in Registered :
                \/ i = keys[k].receipt
                \/ (keys[k].revoked # None /\ i = keys[k].revocation)
          \/ \E id \in RelationIds : bindings[id] # None /\ i = bindings[id].receipt

(* An answer other than a refusal, that of an exact retry included, carries*)
(* the receipt of the event that recorded exactly this request, whatever   *)
(* happened to the row since.                                              *)
ReceiptsNameTheRequest ==
    answer.outcome # "refused" => ledger[answer.receipt] = answer.event

(* Whatever is registered, rotated or revoked after the binding, the bound *)
(* keys are keys of the two authorities, distinct, and declared valid for  *)
(* the whole window of the relation.                                       *)
BoundKeysCover ==
    \A r \in Relations :
        bindings[r.id] # None /\ bindings[r.id].binding.relation = Digest(r) =>
            LET b == bindings[r.id].binding
            IN /\ b.sourceKey \in Owned(r.source) /\ b.targetKey \in Owned(r.target)
               /\ b.sourceKey # b.targetKey
               /\ \A k \in {b.sourceKey, b.targetKey} :
                     keys[k].from <= r.from /\ r.until <= keys[k].until
=============================================================================
