------------------------- MODULE KeyRegistry_proofs -------------------------
(***************************************************************************)
(* Proofs about KeyRegistry and about GovernedGate, which evaluates        *)
(* relations beside it, for all sets of authorities, keys, reasons,        *)
(* relations and handlers and every number of mutations.                   *)
(*                                                                         *)
(* Every step is one of four effects on the tables: none, a new key, a     *)
(* revocation, a new binding (Effects).  Each invariant is shown for each  *)
(* effect.  That windows do not overlap is not inductive by itself: a new  *)
(* key starts where its predecessor ends, which is after every other key   *)
(* only because a key without a successor is the last one of its authority *)
(* (TipIsLast).                                                            *)
(*                                                                         *)
(* The gate reads over three connections.  Its theorems rest on what the   *)
(* registry never changes (PastStays): rows and bindings stay, revocation  *)
(* aside, and what is recorded later has a later receipt, so that the past *)
(* of the ledger answers every question as it did (PastIsFixed).           *)
(***************************************************************************)
EXTENDS GovernedGate, TLAPS

(* The windows of two keys of an authority do not overlap.                 *)
Disjoint ==
    \A k1, k2 \in Registered :
        k1 # k2 /\ keys[k1].authority = keys[k2].authority
            => keys[k1].until <= keys[k2].from \/ keys[k2].until <= keys[k1].from

(* No key of an authority ends after one that nothing continues.           *)
TipIsLast ==
    \A k1, k2 \in Registered :
        keys[k1].authority = keys[k2].authority /\ Successors(k1) = {}
            => keys[k2].until <= keys[k1].until

(* Receipts are positions of the ledger.                                   *)
ReceiptsInRange ==
    /\ \A k \in Registered :
          /\ keys[k].receipt \in DOMAIN ledger
          /\ keys[k].revoked # None => keys[k].revocation \in DOMAIN ledger
    /\ \A id \in RelationIds :
          bindings[id] # None => bindings[id].receipt \in DOMAIN ledger
    /\ answer.outcome # "refused" => answer.receipt \in DOMAIN ledger

IInv ==
    /\ TypeOK
    /\ Disjoint
    /\ TipIsLast
    /\ ReceiptsInRange
    /\ LedgerMatchesTables
    /\ ReceiptsNameTheRequest
    /\ BoundKeysCover

(* The four effects.                                                       *)
NewRow(r) ==
    [authority |-> r.authority, from |-> r.from, until |-> r.until,
     previous |-> r.previous, receipt |-> Len(ledger) + 1,
     revoked |-> None, reason |-> None, revocation |-> 0]

Insert(k, r) ==
    /\ WellFormed(k, r)
    /\ keys[k] = None /\ Continues(r)
    /\ Commit(KeyRegistered(k, r))
    /\ keys' = [keys EXCEPT ![k] = NewRow(r)]
    /\ UNCHANGED bindings

Revocation(k, at, reason) ==
    /\ keys[k] # None /\ keys[k].from <= at /\ at < keys[k].until
    /\ keys[k].revoked = None
    /\ SetRevoked(k, at, reason)

NewBinding(r, s, t) ==
    /\ s # t /\ bindings[r.id] = None /\ Bindable(r, s, t)
    /\ SetBinding(r, Binding(r, s, t))

(* The answers that leave the tables alone.                                *)
Retry ==
    \/ \E k \in Keys, r \in Records :
          /\ keys[k] # None /\ Payload(keys[k]) = r
          /\ answer' = Idempotent(KeyRegistered(k, r), keys[k].receipt)
    \/ \E k \in Keys, at \in Times, reason \in Reasons :
          /\ keys[k] # None /\ keys[k].revoked = at /\ keys[k].reason = reason
          /\ answer' = Idempotent(KeyRevoked(k, at, reason), keys[k].revocation)
    \/ \E r \in Relations, s, t \in Keys :
          /\ bindings[r.id] # None /\ bindings[r.id].binding = Binding(r, s, t)
          /\ answer' = Idempotent(KeyBound(Binding(r, s, t)), bindings[r.id].receipt)

Quiet ==
    /\ UNCHANGED <<keys, bindings, ledger>>
    /\ answer' = answer \/ answer' = Refused \/ Retry

(* What register_key does to the tables.                                   *)
LEMMA RegisterEffect ==
    ASSUME NEW k \in Keys, NEW r \in Records, RegisterKey(k, r)
    PROVE  Quiet \/ Insert(k, r)
<1>1. CASE /\ keys[k] # None /\ Payload(keys[k]) = r
           /\ Answer(Idempotent(KeyRegistered(k, r), keys[k].receipt))
  BY <1>1 DEF Answer, Quiet, Retry
<1>2. CASE /\ WellFormed(k, r)
           /\ keys[k] = None /\ Continues(r)
           /\ Commit(KeyRegistered(k, r))
           /\ keys' = [keys EXCEPT ![k] = NewRow(r)]
           /\ UNCHANGED bindings
  BY <1>2 DEF Insert
<1>3. CASE Answer(Refused)
  BY <1>3 DEF Answer, Quiet
<1> QED  BY <1>1, <1>2, <1>3 DEF RegisterKey, NewRow

(* Every step of the registry has one of the four effects.                 *)
LEMMA Effects ==
    ASSUME TypeOK, Next
    PROVE  \/ Quiet
           \/ \E k \in Keys, r \in Records : Insert(k, r)
           \/ \E k \in Keys, at \in Times, reason \in Reasons : Revocation(k, at, reason)
           \/ \E r \in Relations, s, t \in Keys : NewBinding(r, s, t)
<1>1. ASSUME NEW p \in Presented, Register(p.key, p.record)
      PROVE  Quiet \/ \E k \in Keys, r \in Records : Insert(k, r)
  <2>1. p.key \in Keys /\ p.record \in Records
    BY KeyRegistryAssumption DEF Rotations
  <2> QED  BY <1>1, <2>1, RegisterEffect DEF Register
<1>2. ASSUME NEW h \in Handlers, NEW a \in Authorities, NEW p \in Keys,
             NEW k \in Keys, NEW t \in Times, PrepareRotation(h, a, p, k, t)
      PROVE  Quiet
  BY <1>2 DEF PrepareRotation, Quiet, Answer
<1>3. ASSUME NEW h \in Handlers, FinishRotation(h)
      PROVE  Quiet \/ \E k \in Keys, r \in Records : Insert(k, r)
  <2>1. rotating[h].key \in Keys /\ rotating[h].record \in Records
    BY <1>3 DEF FinishRotation, TypeOK, Rotations
  <2> QED  BY <1>3, <2>1, RegisterEffect DEF FinishRotation
<1>4. ASSUME NEW a \in Authorities, NEW k \in Keys, NEW t \in Times,
             NEW reason \in Reasons, Revoke(a, k, t, reason)
      PROVE  Quiet \/ Revocation(k, t, reason)
  <2>1. CASE /\ Revocable(a, k, t) /\ keys[k].revoked = t /\ keys[k].reason = reason
             /\ Answer(Idempotent(KeyRevoked(k, t, reason), keys[k].revocation))
    BY <2>1 DEF Answer, Quiet, Retry, Revocable
  <2>2. CASE Revocable(a, k, t) /\ keys[k].revoked = None /\ SetRevoked(k, t, reason)
    BY <2>2 DEF Revocable, Revocation
  <2>3. CASE Answer(Refused)
    BY <2>3 DEF Answer, Quiet
  <2> QED  BY <1>4, <2>1, <2>2, <2>3 DEF Revoke, RevokeKey
<1>5. ASSUME NEW r \in Relations, NEW s \in Keys, NEW t \in Keys, Bind(r, s, t)
      PROVE  Quiet \/ NewBinding(r, s, t)
  <2> DEFINE b == Binding(r, s, t)
  <2>1. CASE /\ bindings[r.id] # None /\ bindings[r.id].binding = b
             /\ Answer(Idempotent(KeyBound(b), bindings[r.id].receipt))
    BY <2>1 DEF Answer, Quiet, Retry
  <2>2. CASE s # t /\ bindings[r.id] = None /\ Bindable(r, s, t) /\ SetBinding(r, b)
    BY <2>2 DEF NewBinding
  <2>3. CASE Answer(Refused)
    BY <2>3 DEF Answer, Quiet
  <2> QED  BY <1>5, <2>1, <2>2, <2>3 DEF Bind
<1> QED  BY <1>1, <1>2, <1>3, <1>4, <1>5 DEF Next
-----------------------------------------------------------------------------
(* The initial state.                                                      *)
LEMMA InitIInv == Init => IInv
<1> SUFFICES ASSUME Init PROVE IInv
  OBVIOUS
<1>1. Registered = {}
  BY DEF Init, Registered
<1>2. DOMAIN ledger = {} /\ ledger \in Seq(Events) /\ Len(ledger) = 0
  BY DEF Init
<1>3. TypeOK
  <2>1. Len(ledger) <= MaxLedger
    BY <1>2, KeyRegistryAssumption
  <2>2. keys \in [Keys -> Rows \cup {None}]
    BY DEF Init
  <2>3. bindings \in [RelationIds -> BoundRows \cup {None}]
    BY DEF Init
  <2>4. rotating \in [Handlers -> Rotations \cup {None}]
    BY DEF Init
  <2> QED  BY <1>1, <1>2, <2>1, <2>2, <2>3, <2>4 DEF TypeOK
<1>4. answer.outcome = "refused"
  BY DEF Init, Refused
<1>5. \A id \in RelationIds : bindings[id] = None
  BY DEF Init
<1>6. BoundKeysCover
  BY <1>5 DEF BoundKeysCover, RelationIds
<1> QED
  BY <1>1, <1>2, <1>3, <1>4, <1>5, <1>6 DEF IInv, Disjoint, TipIsLast, ReceiptsInRange,
     LedgerMatchesTables, ReceiptsNameTheRequest

(* Consequences of a transaction that appends an event.                    *)
LEMMA CommitExtends ==
    ASSUME TypeOK, NEW e \in Events, Commit(e)
    PROVE  /\ ledger' \in Seq(Events)
           /\ Len(ledger') <= MaxLedger
           /\ Len(ledger) + 1 \in Nat
           /\ DOMAIN ledger' = DOMAIN ledger \cup {Len(ledger) + 1}
           /\ Len(ledger) + 1 \notin DOMAIN ledger
           /\ \A i \in DOMAIN ledger : ledger'[i] = ledger[i]
           /\ ledger'[Len(ledger) + 1] = e
           /\ answer'.outcome # "refused"
           /\ answer'.receipt = Len(ledger) + 1
           /\ answer'.event = e
<1>1. /\ ledger \in Seq(Events) /\ ledger' = Append(ledger, e)
      /\ Len(ledger) < MaxLedger /\ MaxLedger \in Nat
  BY KeyRegistryAssumption DEF TypeOK, Commit
<1>2. Len(ledger) \in Nat /\ DOMAIN ledger = 1..Len(ledger)
  BY <1>1
<1>3. /\ ledger' \in Seq(Events) /\ Len(ledger') = Len(ledger) + 1
      /\ ledger'[Len(ledger) + 1] = e
      /\ DOMAIN ledger' = 1..(Len(ledger) + 1)
  BY <1>1, <1>2
<1>4. \A i \in DOMAIN ledger : ledger'[i] = ledger[i]
  BY <1>1, <1>2
<1>5. answer' = [outcome |-> "created", event |-> e, receipt |-> Len(ledger) + 1]
  BY DEF Commit, Created
<1>6. DOMAIN ledger' = DOMAIN ledger \cup {Len(ledger) + 1}
  BY <1>2, <1>3
<1>7. Len(ledger') <= MaxLedger /\ Len(ledger) + 1 \notin DOMAIN ledger
  BY <1>1, <1>2, <1>3
<1> QED  BY <1>2, <1>3, <1>4, <1>5, <1>6, <1>7

(* What a new key changes.                                                 *)
LEMMA InsertFacts ==
    ASSUME TypeOK, NEW k \in Keys, NEW r \in Records, Insert(k, r)
    PROVE  /\ k \notin Registered
           /\ Registered' = Registered \cup {k}
           /\ \A x \in Registered : keys'[x] = keys[x]
           /\ keys'[k] = NewRow(r)
           /\ NewRow(r) \in Rows
           /\ keys' \in [Keys -> Rows \cup {None}]
           /\ bindings' = bindings
           /\ KeyRegistered(k, r) \in Events
           /\ Commit(KeyRegistered(k, r))
           /\ KeyRegistered(k, NewRow(r)) = KeyRegistered(k, r)
<1>1. Len(ledger) + 1 \in Nat
  BY DEF TypeOK
<1>2. NewRow(r) \in Rows /\ NewRow(r) # None
  BY <1>1, KeyRegistryAssumption DEF NewRow, Rows, Records
<1>3. keys' = [keys EXCEPT ![k] = NewRow(r)] /\ keys[k] = None
      /\ bindings' = bindings /\ Commit(KeyRegistered(k, r))
  BY DEF Insert
<1>4. keys' \in [Keys -> Rows \cup {None}] /\ keys'[k] = NewRow(r)
      /\ \A x \in Keys : x # k => keys'[x] = keys[x]
  BY <1>2, <1>3 DEF TypeOK
<1>5. Payload(r) = r /\ Payload(NewRow(r)) = r
  BY DEF Payload, NewRow, Records
<1>6. KeyRegistered(k, r) \in Events
  BY <1>5 DEF KeyRegistered, Events
<1>7. KeyRegistered(k, NewRow(r)) = KeyRegistered(k, r)
  BY <1>5 DEF KeyRegistered
<1>8. k \notin Registered /\ Registered' = Registered \cup {k}
  BY <1>2, <1>3, <1>4 DEF Registered
<1>9. \A x \in Registered : keys'[x] = keys[x]
  BY <1>4, <1>8 DEF Registered
<1> QED  BY <1>2, <1>3, <1>4, <1>6, <1>7, <1>8, <1>9

(* What a revocation changes: nothing of the registration.                 *)
LEMMA RevocationFacts ==
    ASSUME TypeOK, NEW k \in Keys, NEW at \in Times, NEW reason \in Reasons,
           Revocation(k, at, reason)
    PROVE  /\ k \in Registered
           /\ Registered' = Registered
           /\ \A x \in Registered : x # k => keys'[x] = keys[x]
           /\ \A x \in Registered :
                 /\ keys'[x].authority = keys[x].authority
                 /\ keys'[x].from = keys[x].from
                 /\ keys'[x].until = keys[x].until
                 /\ keys'[x].previous = keys[x].previous
                 /\ keys'[x].receipt = keys[x].receipt
           /\ keys'[k].revoked = at /\ keys'[k].reason = reason
           /\ keys'[k].revocation = Len(ledger) + 1
           /\ keys[k].revoked = None
           /\ keys' \in [Keys -> Rows \cup {None}]
           /\ bindings' = bindings
           /\ KeyRevoked(k, at, reason) \in Events
           /\ Commit(KeyRevoked(k, at, reason))
<1>1. Len(ledger) + 1 \in Nat
  BY DEF TypeOK
<1>2. /\ keys' = [keys EXCEPT ![k].revoked = at, ![k].reason = reason,
                              ![k].revocation = Len(ledger) + 1]
      /\ bindings' = bindings /\ Commit(KeyRevoked(k, at, reason))
      /\ keys[k] # None /\ keys[k].revoked = None
  BY DEF Revocation, SetRevoked
<1>3. keys[k] \in Rows /\ k \in Registered
  BY <1>2 DEF TypeOK, Registered
<1>4. /\ keys'[k] = [keys[k] EXCEPT !.revoked = at, !.reason = reason,
                                    !.revocation = Len(ledger) + 1]
      /\ \A x \in Keys : x # k => keys'[x] = keys[x]
  BY <1>2 DEF TypeOK
<1>5. keys'[k] \in Rows
  BY <1>1, <1>3, <1>4 DEF Rows
<1>6. keys' \in [Keys -> Rows \cup {None}]
  BY <1>2, <1>4, <1>5 DEF TypeOK
<1>7. Registered' = Registered
  BY <1>3, <1>4, <1>5, KeyRegistryAssumption DEF Registered
<1>8. /\ keys'[k].authority = keys[k].authority /\ keys'[k].from = keys[k].from
      /\ keys'[k].until = keys[k].until /\ keys'[k].previous = keys[k].previous
      /\ keys'[k].receipt = keys[k].receipt
      /\ keys'[k].revoked = at /\ keys'[k].reason = reason
      /\ keys'[k].revocation = Len(ledger) + 1
  BY <1>3, <1>4 DEF Rows
<1>9. KeyRevoked(k, at, reason) \in Events
  BY DEF KeyRevoked, Events
<1> QED  BY <1>2, <1>3, <1>4, <1>6, <1>7, <1>8, <1>9 DEF Registered

(* What a new binding changes.                                             *)
LEMMA BindingFacts ==
    ASSUME TypeOK, NEW r \in Relations, NEW s \in Keys, NEW t \in Keys,
           NewBinding(r, s, t)
    PROVE  LET b == Binding(r, s, t) IN
           /\ keys' = keys /\ Registered' = Registered
           /\ r.id \in RelationIds /\ bindings[r.id] = None
           /\ bindings'[r.id] = [binding |-> b, receipt |-> Len(ledger) + 1]
           /\ \A id \in RelationIds : id # r.id => bindings'[id] = bindings[id]
           /\ bindings' \in [RelationIds -> BoundRows \cup {None}]
           /\ bindings'[r.id] # None
           /\ KeyBound(b) \in Events
           /\ Commit(KeyBound(b))
           /\ s # t /\ Covers(s, r.source, r) /\ Covers(t, r.target, r)
<1> DEFINE b == Binding(r, s, t)
<1>1. Len(ledger) + 1 \in Nat
  BY DEF TypeOK
<1>2. /\ bindings[r.id] = None /\ s # t
      /\ Covers(s, r.source, r) /\ Covers(t, r.target, r)
      /\ Commit(KeyBound(b)) /\ keys' = keys
      /\ bindings' = [bindings EXCEPT ![r.id] =
                        [binding |-> b, receipt |-> Len(ledger) + 1]]
  BY DEF NewBinding, Bindable, SetBinding
<1>3. r.source \in Authorities /\ r.target \in Authorities
  <2>1. keys[s] \in Rows /\ keys[t] \in Rows
    BY <1>2 DEF Covers, TypeOK
  <2> QED  BY <1>2, <2>1 DEF Covers, Rows
<1>4. b \in Bindings
  BY <1>3 DEF Binding, Bindings
<1>5. r.id \in RelationIds
  BY DEF RelationIds
<1>6. [binding |-> b, receipt |-> Len(ledger) + 1] \in BoundRows
  BY <1>1, <1>4 DEF BoundRows
<1>7. /\ bindings'[r.id] = [binding |-> b, receipt |-> Len(ledger) + 1]
      /\ \A id \in RelationIds : id # r.id => bindings'[id] = bindings[id]
      /\ bindings' \in [RelationIds -> BoundRows \cup {None}]
  BY <1>2, <1>5, <1>6 DEF TypeOK
<1>8. bindings'[r.id] # None
  BY <1>6, <1>7, KeyRegistryAssumption
<1>9. KeyBound(b) \in Events
  BY <1>4 DEF KeyBound, Events
<1> QED  BY <1>2, <1>5, <1>7, <1>8, <1>9 DEF Registered
-----------------------------------------------------------------------------
(* Types.                                                                  *)
LEMMA RotatingType ==
    ASSUME TypeOK, Next
    PROVE  rotating' \in [Handlers -> Rotations \cup {None}]
<1>1. rotating \in [Handlers -> Rotations \cup {None}]
  BY DEF TypeOK
<1>2. ASSUME NEW h \in Handlers, NEW a \in Authorities, NEW p \in Keys,
             NEW k \in Keys, NEW t \in Times, PrepareRotation(h, a, p, k, t)
      PROVE  rotating' \in [Handlers -> Rotations \cup {None}]
  <2>1. CASE UNCHANGED rotating
    BY <1>1, <2>1
  <2>2. CASE /\ keys[p] # None
             /\ rotating' = [rotating EXCEPT ![h] =
                   [key |-> k,
                    record |-> [authority |-> a, previous |-> p,
                                from |-> keys[p].until, until |-> t]]]
    <3>1. keys[p].until \in Times
      BY <2>2 DEF TypeOK, Rows
    <3>2. [authority |-> a, previous |-> p, from |-> keys[p].until, until |-> t] \in Records
      BY <3>1 DEF Records
    <3> QED  BY <1>1, <2>2, <3>2 DEF Rotations
  <2> QED  BY <1>2, <2>1, <2>2 DEF PrepareRotation
<1>3. ASSUME NEW h \in Handlers, FinishRotation(h)
      PROVE  rotating' \in [Handlers -> Rotations \cup {None}]
  BY <1>1, <1>3 DEF FinishRotation
<1>4. ASSUME UNCHANGED rotating
      PROVE  rotating' \in [Handlers -> Rotations \cup {None}]
  BY <1>1, <1>4
<1> QED
  BY <1>2, <1>3, <1>4 DEF Next, Register, Revoke, Bind

(* A row that loads, and still does after it is inserted or revoked.       *)
Loads(k, row) ==
    /\ WellFormed(k, row)
    /\ row.revoked # None => row.from <= row.revoked /\ row.revoked < row.until
    /\ row.revoked = None <=> row.reason = None

LEMMA TypeStep ==
    ASSUME TypeOK, Next
    PROVE  TypeOK'
<1> USE RotatingType
<1>1. \A k \in Registered : Loads(k, keys[k])
  BY DEF TypeOK, Loads
<1>2. CASE Quiet
  <2>1. UNCHANGED <<keys, bindings, ledger>>
    BY <1>2 DEF Quiet
  <2>2. Registered' = Registered
    BY <2>1 DEF Registered
  <2> QED  BY <2>1, <2>2 DEF TypeOK, WellFormed
<1>3. ASSUME NEW k \in Keys, NEW r \in Records, Insert(k, r)
      PROVE  TypeOK'
  <2>1. Loads(k, NewRow(r))
    BY <1>3, KeyRegistryAssumption DEF Insert, Loads, NewRow, WellFormed
  <2>2. \A x \in Registered' : Loads(x, keys'[x])
    BY <1>1, <1>3, <2>1, InsertFacts
  <2>3. ledger' \in Seq(Events) /\ Len(ledger') <= MaxLedger
    BY <1>3, InsertFacts, CommitExtends
  <2>4. bindings' \in [RelationIds -> BoundRows \cup {None}]
    BY <1>3, InsertFacts DEF TypeOK
  <2>5. keys' \in [Keys -> Rows \cup {None}]
    BY <1>3, InsertFacts
  <2> QED  BY <2>2, <2>3, <2>4, <2>5 DEF TypeOK, Loads, WellFormed
<1>4. ASSUME NEW k \in Keys, NEW at \in Times, NEW reason \in Reasons,
             Revocation(k, at, reason)
      PROVE  TypeOK'
  <2>1. Loads(k, keys'[k])
    BY <1>1, <1>4, RevocationFacts, KeyRegistryAssumption DEF Loads, WellFormed, Revocation
  <2>2. \A x \in Registered' : Loads(x, keys'[x])
    BY <1>1, <1>4, <2>1, RevocationFacts
  <2>3. ledger' \in Seq(Events) /\ Len(ledger') <= MaxLedger
    BY <1>4, RevocationFacts, CommitExtends
  <2>4. bindings' \in [RelationIds -> BoundRows \cup {None}]
    BY <1>4, RevocationFacts DEF TypeOK
  <2>5. keys' \in [Keys -> Rows \cup {None}]
    BY <1>4, RevocationFacts
  <2> QED  BY <2>2, <2>3, <2>4, <2>5 DEF TypeOK, Loads, WellFormed
<1>5. ASSUME NEW r \in Relations, NEW s \in Keys, NEW t \in Keys, NewBinding(r, s, t)
      PROVE  TypeOK'
  <2>1. keys' = keys /\ Registered' = Registered
    BY <1>5, BindingFacts
  <2>2. ledger' \in Seq(Events) /\ Len(ledger') <= MaxLedger
    BY <1>5, BindingFacts, CommitExtends
  <2>3. bindings' \in [RelationIds -> BoundRows \cup {None}]
    BY <1>5, BindingFacts
  <2> QED  BY <2>1, <2>2, <2>3 DEF TypeOK, WellFormed
<1> QED  BY <1>2, <1>3, <1>4, <1>5, Effects

(* Lineage: the windows of an authority stay disjoint, and a key without a *)
(* successor stays the last one.                                           *)
LEMMA LineageStep ==
    ASSUME TypeOK, Disjoint, TipIsLast, Next
    PROVE  Disjoint' /\ TipIsLast'
<1>0. \A k \in Registered : /\ keys[k] \in Rows
                            /\ keys[k].from \in Nat /\ keys[k].until \in Nat
                            /\ keys[k].from < keys[k].until
  BY KeyRegistryAssumption DEF TypeOK, Registered, Rows, Times, WellFormed
<1>1. CASE Quiet
  <2>1. keys' = keys
    BY <1>1 DEF Quiet
  <2> QED  BY <2>1 DEF Disjoint, TipIsLast, Registered, Successors
<1>2. ASSUME NEW k \in Keys, NEW r \in Records, Insert(k, r)
      PROVE  Disjoint' /\ TipIsLast'
  <2>1. /\ k \notin Registered /\ Registered' = Registered \cup {k}
        /\ \A x \in Registered : keys'[x] = keys[x]
        /\ keys'[k].authority = r.authority /\ keys'[k].from = r.from
        /\ keys'[k].until = r.until /\ keys'[k].previous = r.previous
    <3>1. /\ k \notin Registered /\ Registered' = Registered \cup {k}
          /\ \A x \in Registered : keys'[x] = keys[x]
          /\ keys'[k] = NewRow(r)
      BY <1>2, InsertFacts
    <3> QED  BY <3>1 DEF NewRow
  <2>2. r.from \in Nat /\ r.until \in Nat /\ r.from < r.until /\ Continues(r)
    BY <1>2, KeyRegistryAssumption DEF Insert, WellFormed, Records, Times
  <2>3. \A x \in Registered : keys[x].authority = r.authority => keys[x].until <= r.from
    <3> SUFFICES ASSUME NEW x \in Registered, keys[x].authority = r.authority
                 PROVE  keys[x].until <= r.from
      OBVIOUS
    <3>1. x \in Owned(r.authority)
      BY DEF Owned
    <3>2. /\ r.previous \in Registered /\ keys[r.previous].authority = r.authority
          /\ keys[r.previous].until = r.from /\ Successors(r.previous) = {}
      BY <2>2, <3>1 DEF Continues, Owned
    <3> QED  BY <3>2 DEF TipIsLast
  <2>4. Disjoint'
    <3> SUFFICES ASSUME NEW x \in Registered', NEW y \in Registered', x # y,
                        keys'[x].authority = keys'[y].authority
                 PROVE  keys'[x].until <= keys'[y].from \/ keys'[y].until <= keys'[x].from
      BY DEF Disjoint
    <3>1. CASE x \in Registered /\ y \in Registered
      BY <2>1, <3>1 DEF Disjoint
    <3>2. CASE x = k
      BY <2>1, <2>3, <3>2
    <3>3. CASE y = k
      BY <2>1, <2>3, <3>3
    <3> QED  BY <2>1, <3>1, <3>2, <3>3
  <2>5. ASSUME NEW x \in Registered, keys[x].authority = r.authority
        PROVE  Successors(x)' # {}
    <3>1. /\ r.previous \in Registered /\ keys[r.previous].authority = r.authority
          /\ keys[r.previous].until = r.from /\ Successors(r.previous) = {}
      <4>1. x \in Owned(r.authority)
        BY <2>5 DEF Owned
      <4> QED  BY <2>2, <4>1 DEF Continues, Owned
    <3>2. CASE x = r.previous
      BY <2>1, <3>2 DEF Successors
    <3>3. CASE x # r.previous
      <4>1. Successors(x) # {}
        <5> SUFFICES ASSUME Successors(x) = {} PROVE FALSE
          OBVIOUS
        <5>1. /\ keys[r.previous].until <= keys[x].until
              /\ keys[x].until <= keys[r.previous].until
          BY <2>5, <3>1 DEF TipIsLast
        <5>2. \/ keys[x].until <= keys[r.previous].from
              \/ keys[r.previous].until <= keys[x].from
          BY <2>5, <3>1, <3>3 DEF Disjoint
        <5> QED  BY <1>0, <3>1, <5>1, <5>2
      <4>2. Successors(x) \subseteq Successors(x)'
        BY <2>1 DEF Successors
      <4> QED  BY <4>1, <4>2
    <3> QED  BY <3>2, <3>3
  <2>6. TipIsLast'
    <3> SUFFICES ASSUME NEW x \in Registered', NEW y \in Registered',
                        keys'[x].authority = keys'[y].authority, Successors(x)' = {}
                 PROVE  keys'[y].until <= keys'[x].until
      BY DEF TipIsLast
    <3>1. CASE x = k /\ y = k
      BY <2>1, <2>2, <3>1
    <3>2. CASE x = k /\ y \in Registered
      <4>1. keys'[y].until <= r.from /\ keys'[y].until \in Nat
        BY <1>0, <2>1, <2>3, <3>2
      <4> QED  BY <2>1, <2>2, <3>2, <4>1
    <3>3. CASE x \in Registered /\ y = k
      BY <2>1, <2>5, <3>3
    <3>4. CASE x \in Registered /\ y \in Registered
      <4>1. Successors(x) \subseteq Successors(x)'
        BY <2>1 DEF Successors
      <4> QED  BY <2>1, <3>4, <4>1 DEF TipIsLast
    <3> QED  BY <2>1, <3>1, <3>2, <3>3, <3>4
  <2> QED  BY <2>4, <2>6
<1>3. ASSUME NEW k \in Keys, NEW at \in Times, NEW reason \in Reasons,
             Revocation(k, at, reason)
      PROVE  Disjoint' /\ TipIsLast'
  <2>1. /\ Registered' = Registered
        /\ \A x \in Registered :
              /\ keys'[x].authority = keys[x].authority
              /\ keys'[x].from = keys[x].from
              /\ keys'[x].until = keys[x].until
              /\ keys'[x].previous = keys[x].previous
    BY <1>3, RevocationFacts
  <2>2. \A x \in Registered : Successors(x)' = Successors(x)
    BY <2>1 DEF Successors
  <2> QED  BY <2>1, <2>2 DEF Disjoint, TipIsLast
<1>4. ASSUME NEW r \in Relations, NEW s \in Keys, NEW t \in Keys, NewBinding(r, s, t)
      PROVE  Disjoint' /\ TipIsLast'
  <2>1. keys' = keys
    BY <1>4, BindingFacts
  <2> QED  BY <2>1 DEF Disjoint, TipIsLast, Registered, Successors
<1> QED  BY <1>1, <1>2, <1>3, <1>4, Effects

(* The ledger: receipts keep their meaning when the ledger grows.          *)
LEMMA LedgerStep ==
    ASSUME IInv, Next
    PROVE  ReceiptsInRange' /\ LedgerMatchesTables' /\ ReceiptsNameTheRequest'
<1> USE DEF IInv
<1>1. CASE Quiet
  <2>1. UNCHANGED <<keys, bindings, ledger>> /\ Registered' = Registered
    BY <1>1 DEF Quiet, Registered
  <2>2. LedgerMatchesTables'
    BY <2>1 DEF LedgerMatchesTables
  <2>3. answer'.outcome # "refused" =>
           answer'.receipt \in DOMAIN ledger /\ ledger[answer'.receipt] = answer'.event
    <3>1. CASE answer' = answer
      BY <3>1 DEF ReceiptsInRange, ReceiptsNameTheRequest
    <3>2. CASE answer' = Refused
      BY <3>2 DEF Refused
    <3>3. ASSUME NEW k \in Keys, NEW r \in Records,
                 keys[k] # None, Payload(keys[k]) = r,
                 answer' = Idempotent(KeyRegistered(k, r), keys[k].receipt)
          PROVE  answer'.receipt \in DOMAIN ledger /\ ledger[answer'.receipt] = answer'.event
      <4>1. k \in Registered
        BY <3>3 DEF Registered
      <4>2. answer'.receipt = keys[k].receipt /\ answer'.event = KeyRegistered(k, r)
        BY <3>3 DEF Idempotent
      <4>3. Payload(r) = r
        BY DEF Payload, Records
      <4>4. KeyRegistered(k, r) = KeyRegistered(k, keys[k])
        BY <3>3, <4>3 DEF KeyRegistered
      <4> QED  BY <4>1, <4>2, <4>4 DEF ReceiptsInRange, LedgerMatchesTables
    <3>4. ASSUME NEW k \in Keys, NEW at \in Times, NEW reason \in Reasons,
                 keys[k] # None, keys[k].revoked = at, keys[k].reason = reason,
                 answer' = Idempotent(KeyRevoked(k, at, reason), keys[k].revocation)
          PROVE  answer'.receipt \in DOMAIN ledger /\ ledger[answer'.receipt] = answer'.event
      <4>1. k \in Registered /\ keys[k].revoked # None
        BY <3>4, KeyRegistryAssumption DEF Registered
      <4>2. /\ answer'.receipt = keys[k].revocation
            /\ answer'.event = KeyRevoked(k, keys[k].revoked, keys[k].reason)
        BY <3>4 DEF Idempotent
      <4> QED  BY <4>1, <4>2 DEF ReceiptsInRange, LedgerMatchesTables
    <3>5. ASSUME NEW r \in Relations, NEW s \in Keys, NEW t \in Keys,
                 bindings[r.id] # None, bindings[r.id].binding = Binding(r, s, t),
                 answer' = Idempotent(KeyBound(Binding(r, s, t)), bindings[r.id].receipt)
          PROVE  answer'.receipt \in DOMAIN ledger /\ ledger[answer'.receipt] = answer'.event
      <4>1. r.id \in RelationIds
        BY DEF RelationIds
      <4>2. /\ answer'.receipt = bindings[r.id].receipt
            /\ answer'.event = KeyBound(bindings[r.id].binding)
        BY <3>5 DEF Idempotent
      <4> QED  BY <3>5, <4>1, <4>2 DEF ReceiptsInRange, LedgerMatchesTables
    <3> QED  BY <1>1, <3>1, <3>2, <3>3, <3>4, <3>5 DEF Quiet, Retry
  <2> QED  BY <2>1, <2>2, <2>3 DEF ReceiptsInRange, ReceiptsNameTheRequest
<1>2. ASSUME NEW k \in Keys, NEW r \in Records, Insert(k, r)
      PROVE  ReceiptsInRange' /\ LedgerMatchesTables' /\ ReceiptsNameTheRequest'
  <2> DEFINE n == Len(ledger) + 1
  <2>1. /\ Registered' = Registered \cup {k} /\ k \notin Registered
        /\ \A x \in Registered : keys'[x] = keys[x]
        /\ keys'[k] = NewRow(r) /\ bindings' = bindings
        /\ KeyRegistered(k, r) \in Events /\ Commit(KeyRegistered(k, r))
        /\ KeyRegistered(k, NewRow(r)) = KeyRegistered(k, r)
    BY <1>2, InsertFacts
  <2>2. /\ DOMAIN ledger' = DOMAIN ledger \cup {n}
        /\ \A i \in DOMAIN ledger : ledger'[i] = ledger[i]
        /\ ledger'[n] = KeyRegistered(k, r)
        /\ answer'.outcome # "refused" /\ answer'.receipt = n
        /\ answer'.event = KeyRegistered(k, r)
    BY <2>1, CommitExtends
  <2>3. keys'[k].receipt = n /\ keys'[k].revoked = None
    BY <2>1 DEF NewRow
  <2>4. ReceiptsInRange'
    BY <2>1, <2>2, <2>3 DEF ReceiptsInRange
  <2>5. LedgerMatchesTables'
    <3>1. \A x \in Registered' : ledger'[keys'[x].receipt] = KeyRegistered(x, keys'[x])
      BY <2>1, <2>2, <2>3 DEF ReceiptsInRange, LedgerMatchesTables
    <3>2. \A x \in Registered' : keys'[x].revoked # None =>
             ledger'[keys'[x].revocation] = KeyRevoked(x, keys'[x].revoked, keys'[x].reason)
      BY <2>1, <2>2, <2>3 DEF ReceiptsInRange, LedgerMatchesTables
    <3>3. \A id \in RelationIds : bindings'[id] # None =>
             ledger'[bindings'[id].receipt] = KeyBound(bindings'[id].binding)
      BY <2>1, <2>2 DEF ReceiptsInRange, LedgerMatchesTables
    <3>4. \A i \in DOMAIN ledger' :
             \/ \E x \in Registered' :
                   \/ i = keys'[x].receipt
                   \/ (keys'[x].revoked # None /\ i = keys'[x].revocation)
             \/ \E id \in RelationIds : bindings'[id] # None /\ i = bindings'[id].receipt
      BY <2>1, <2>2, <2>3 DEF LedgerMatchesTables
    <3> QED  BY <3>1, <3>2, <3>3, <3>4 DEF LedgerMatchesTables
  <2>6. ReceiptsNameTheRequest'
    BY <2>2 DEF ReceiptsNameTheRequest
  <2> QED  BY <2>4, <2>5, <2>6
<1>3. ASSUME NEW k \in Keys, NEW at \in Times, NEW reason \in Reasons,
             Revocation(k, at, reason)
      PROVE  ReceiptsInRange' /\ LedgerMatchesTables' /\ ReceiptsNameTheRequest'
  <2> DEFINE n == Len(ledger) + 1
  <2>1. /\ Registered' = Registered /\ k \in Registered
        /\ \A x \in Registered : x # k => keys'[x] = keys[x]
        /\ \A x \in Registered :
              /\ keys'[x].authority = keys[x].authority
              /\ keys'[x].from = keys[x].from
              /\ keys'[x].until = keys[x].until
              /\ keys'[x].previous = keys[x].previous
              /\ keys'[x].receipt = keys[x].receipt
        /\ keys'[k].revoked = at /\ keys'[k].reason = reason
        /\ keys'[k].revocation = n /\ keys[k].revoked = None
        /\ bindings' = bindings
        /\ KeyRevoked(k, at, reason) \in Events /\ Commit(KeyRevoked(k, at, reason))
    BY <1>3, RevocationFacts
  <2>2. /\ DOMAIN ledger' = DOMAIN ledger \cup {n}
        /\ \A i \in DOMAIN ledger : ledger'[i] = ledger[i]
        /\ ledger'[n] = KeyRevoked(k, at, reason)
        /\ answer'.outcome # "refused" /\ answer'.receipt = n
        /\ answer'.event = KeyRevoked(k, at, reason)
    BY <2>1, CommitExtends
  <2>3. \A x \in Registered : KeyRegistered(x, keys'[x]) = KeyRegistered(x, keys[x])
    BY <2>1 DEF KeyRegistered, Payload
  <2>4. ReceiptsInRange'
    BY <2>1, <2>2 DEF ReceiptsInRange
  <2>5. LedgerMatchesTables'
    <3>1. \A x \in Registered' : ledger'[keys'[x].receipt] = KeyRegistered(x, keys'[x])
      BY <2>1, <2>2, <2>3 DEF ReceiptsInRange, LedgerMatchesTables
    <3>2. \A x \in Registered' : keys'[x].revoked # None =>
             ledger'[keys'[x].revocation] = KeyRevoked(x, keys'[x].revoked, keys'[x].reason)
      BY <2>1, <2>2 DEF ReceiptsInRange, LedgerMatchesTables
    <3>3. \A id \in RelationIds : bindings'[id] # None =>
             ledger'[bindings'[id].receipt] = KeyBound(bindings'[id].binding)
      BY <2>1, <2>2 DEF ReceiptsInRange, LedgerMatchesTables
    <3>4. \A i \in DOMAIN ledger' :
             \/ \E x \in Registered' :
                   \/ i = keys'[x].receipt
                   \/ (keys'[x].revoked # None /\ i = keys'[x].revocation)
             \/ \E id \in RelationIds : bindings'[id] # None /\ i = bindings'[id].receipt
      BY <2>1, <2>2, KeyRegistryAssumption DEF LedgerMatchesTables
    <3> QED  BY <3>1, <3>2, <3>3, <3>4 DEF LedgerMatchesTables
  <2>6. ReceiptsNameTheRequest'
    BY <2>2 DEF ReceiptsNameTheRequest
  <2> QED  BY <2>4, <2>5, <2>6
<1>4. ASSUME NEW r \in Relations, NEW s \in Keys, NEW t \in Keys, NewBinding(r, s, t)
      PROVE  ReceiptsInRange' /\ LedgerMatchesTables' /\ ReceiptsNameTheRequest'
  <2> DEFINE n == Len(ledger) + 1
             b == Binding(r, s, t)
  <2>1. /\ keys' = keys /\ Registered' = Registered
        /\ r.id \in RelationIds /\ bindings[r.id] = None
        /\ bindings'[r.id] = [binding |-> b, receipt |-> n] /\ bindings'[r.id] # None
        /\ \A id \in RelationIds : id # r.id => bindings'[id] = bindings[id]
        /\ KeyBound(b) \in Events /\ Commit(KeyBound(b))
    BY <1>4, BindingFacts
  <2>2. /\ DOMAIN ledger' = DOMAIN ledger \cup {n}
        /\ \A i \in DOMAIN ledger : ledger'[i] = ledger[i]
        /\ ledger'[n] = KeyBound(b)
        /\ answer'.outcome # "refused" /\ answer'.receipt = n
        /\ answer'.event = KeyBound(b)
    BY <2>1, CommitExtends
  <2>3. bindings'[r.id].binding = b /\ bindings'[r.id].receipt = n
    BY <2>1
  <2> HIDE DEF b
  <2>4. ReceiptsInRange'
    BY <2>1, <2>2, <2>3 DEF ReceiptsInRange
  <2>5. LedgerMatchesTables'
    <3>1. \A x \in Registered' :
             /\ ledger'[keys'[x].receipt] = KeyRegistered(x, keys'[x])
             /\ keys'[x].revoked # None =>
                  ledger'[keys'[x].revocation] = KeyRevoked(x, keys'[x].revoked, keys'[x].reason)
      BY <2>1, <2>2 DEF ReceiptsInRange, LedgerMatchesTables
    <3>2. \A id \in RelationIds : bindings'[id] # None =>
             ledger'[bindings'[id].receipt] = KeyBound(bindings'[id].binding)
      BY <2>1, <2>2, <2>3 DEF ReceiptsInRange, LedgerMatchesTables
    <3>3. \A i \in DOMAIN ledger' :
             \/ \E x \in Registered' :
                   \/ i = keys'[x].receipt
                   \/ (keys'[x].revoked # None /\ i = keys'[x].revocation)
             \/ \E id \in RelationIds : bindings'[id] # None /\ i = bindings'[id].receipt
      BY <2>1, <2>2, <2>3 DEF LedgerMatchesTables
    <3> QED  BY <3>1, <3>2, <3>3 DEF LedgerMatchesTables
  <2>6. ReceiptsNameTheRequest'
    BY <2>2 DEF ReceiptsNameTheRequest
  <2> QED  BY <2>4, <2>5, <2>6
<1> QED  BY <1>1, <1>2, <1>3, <1>4, Effects

(* Bindings: neither later mutations of the keys nor a relation that only  *)
(* shares the id disturb what was checked when the binding was made.       *)
LEMMA BindingStep ==
    ASSUME TypeOK, BoundKeysCover, Next
    PROVE  BoundKeysCover'
<1>1. ASSUME bindings' = bindings, Registered \subseteq Registered',
             \A x \in Registered :
                /\ keys'[x].authority = keys[x].authority
                /\ keys'[x].from = keys[x].from
                /\ keys'[x].until = keys[x].until
      PROVE  BoundKeysCover'
  BY <1>1 DEF BoundKeysCover, Owned
<1>2. CASE Quiet
  BY <1>1, <1>2 DEF Quiet, Registered
<1>3. ASSUME NEW k \in Keys, NEW r \in Records, Insert(k, r)
      PROVE  BoundKeysCover'
  BY <1>1, <1>3, InsertFacts
<1>4. ASSUME NEW k \in Keys, NEW at \in Times, NEW reason \in Reasons,
             Revocation(k, at, reason)
      PROVE  BoundKeysCover'
  BY <1>1, <1>4, RevocationFacts
<1>5. ASSUME NEW r \in Relations, NEW s \in Keys, NEW t \in Keys, NewBinding(r, s, t)
      PROVE  BoundKeysCover'
  <2>1. /\ keys' = keys /\ Registered' = Registered
        /\ bindings'[r.id] = [binding |-> Binding(r, s, t), receipt |-> Len(ledger) + 1]
        /\ \A id \in RelationIds : id # r.id => bindings'[id] = bindings[id]
        /\ s # t /\ Covers(s, r.source, r) /\ Covers(t, r.target, r)
    BY <1>5, BindingFacts
  <2>2. /\ bindings'[r.id].binding.relation = Digest(r)
        /\ bindings'[r.id].binding.sourceKey = s
        /\ bindings'[r.id].binding.targetKey = t
    BY <2>1 DEF Binding
  <2>3. ASSUME NEW q \in Relations, q.id = r.id, Digest(r) = Digest(q)
        PROVE  /\ s \in Owned(q.source) /\ t \in Owned(q.target)
               /\ \A k \in {s, t} : keys[k].from <= q.from /\ q.until <= keys[k].until
    <3>1. /\ q.source = r.source /\ q.target = r.target
          /\ q.from = r.from /\ q.until = r.until
      <4>1. \A f \in {"source", "target", "from", "until"} :
               Digest(q)[f] = q[f] /\ Digest(r)[f] = r[f]
        BY RelationAssumption DEF Digest
      <4> QED  BY <2>3, <4>1
    <3> QED  BY <2>1, <3>1 DEF Covers, Owned, Registered
  <2>4. ASSUME NEW q \in Relations, q.id # r.id
        PROVE  bindings'[q.id] = bindings[q.id]
    BY <2>1, <2>4 DEF RelationIds
  <2>5. \A a : Owned(a)' = Owned(a)
    BY <2>1 DEF Owned
  <2> SUFFICES ASSUME NEW q \in Relations, bindings'[q.id] # None,
                      bindings'[q.id].binding.relation = Digest(q)
               PROVE  LET b == bindings'[q.id].binding
                      IN /\ b.sourceKey \in Owned(q.source) /\ b.targetKey \in Owned(q.target)
                         /\ b.sourceKey # b.targetKey
                         /\ \A k \in {b.sourceKey, b.targetKey} :
                               keys[k].from <= q.from /\ q.until <= keys[k].until
    BY <2>1, <2>5 DEF BoundKeysCover
  <2>6. CASE q.id = r.id
    BY <2>1, <2>2, <2>3, <2>6
  <2>7. CASE q.id # r.id
    BY <2>4, <2>7 DEF BoundKeysCover
  <2> QED  BY <2>6, <2>7
<1> QED  BY <1>2, <1>3, <1>4, <1>5, Effects

-----------------------------------------------------------------------------
(* The inductive invariant holds in every state of the registry.           *)
THEOREM Invariance == Spec => []IInv
<1>1. Init => IInv
  BY InitIInv
<1>2. IInv /\ [Next]_registryVars => IInv'
  <2> SUFFICES ASSUME IInv, [Next]_registryVars PROVE IInv'
    OBVIOUS
  <2>1. CASE Next
    BY <2>1, TypeStep, LineageStep, LedgerStep, BindingStep DEF IInv
  <2>2. CASE UNCHANGED registryVars
    BY <2>2 DEF registryVars, IInv, TypeOK, Disjoint, TipIsLast, ReceiptsInRange,
       LedgerMatchesTables, ReceiptsNameTheRequest, BoundKeysCover, Registered,
       Successors, Owned, WellFormed
  <2> QED  BY <2>1, <2>2
<1> QED  BY <1>1, <1>2, PTL DEF Spec

(* Rows load, and variables have their types.                              *)
THEOREM TypeCorrect == Spec => []TypeOK
<1>1. IInv => TypeOK
  BY DEF IInv
<1> QED  BY <1>1, Invariance, PTL

(* At no instant are two keys of one authority effective (register_key).   *)
THEOREM LineageIsLinear == Spec => []OneEffectiveKey
<1>1. IInv => OneEffectiveKey
  <2> SUFFICES ASSUME IInv, NEW a \in Authorities, NEW t \in Times,
                      NEW k1 \in Owned(a), NEW k2 \in Owned(a),
                      EffectiveAt(keys[k1], t), EffectiveAt(keys[k2], t), k1 # k2
               PROVE  FALSE
    BY DEF OneEffectiveKey
  <2>1. /\ k1 \in Registered /\ k2 \in Registered
        /\ keys[k1].authority = keys[k2].authority
    BY DEF Owned
  <2>2. \/ keys[k1].until <= keys[k2].from
        \/ keys[k2].until <= keys[k1].from
    BY <2>1 DEF IInv, Disjoint
  <2>3. /\ keys[k1].from <= t /\ t < keys[k1].until
        /\ keys[k2].from <= t /\ t < keys[k2].until
    BY DEF EffectiveAt
  <2>4. /\ keys[k1].from \in Nat /\ keys[k1].until \in Nat
        /\ keys[k2].from \in Nat /\ keys[k2].until \in Nat /\ t \in Nat
    BY <2>1, KeyRegistryAssumption DEF IInv, TypeOK, Registered, Rows, Times
  <2> QED  BY <2>2, <2>3, <2>4
<1> QED  BY <1>1, Invariance, PTL

(* Tables and ledger tell the same story (the transactions of              *)
(* FederationAuthorityKeyRegistry).                                        *)
THEOREM LedgerIsFaithful == Spec => []LedgerMatchesTables
<1>1. IInv => LedgerMatchesTables
  BY DEF IInv
<1> QED  BY <1>1, Invariance, PTL

(* Every receipt handed out names the event of the request it answers.     *)
THEOREM ReceiptsAreFaithful == Spec => []ReceiptsNameTheRequest
<1>1. IInv => ReceiptsNameTheRequest
  BY DEF IInv
<1> QED  BY <1>1, Invariance, PTL

(* Bound keys cover the relation for good (register_relation_binding).     *)
THEOREM BindingsCover == Spec => []BoundKeysCover
<1>1. IInv => BoundKeysCover
  BY DEF IInv
<1> QED  BY <1>1, Invariance, PTL
-----------------------------------------------------------------------------
(* The gate beside the registry.                                           *)

(* The gate reads and changes nothing: the registry behaves as without it, *)
(* so that what is proved of the registry holds while it evaluates.        *)
THEOREM GateIsSilent == GateSpec => Spec
<1>1. GateInit => Init
  BY DEF GateInit
<1>2. [GateNext]_vars => [Next]_registryVars
  BY DEF GateNext, Evaluate, ReadBinding, ReadSourceKey, ReadTargetKey, Decide,
     vars, registryVars
<1> QED  BY <1>1, <1>2, PTL DEF GateSpec, Spec

(* The keys of a binding were registered before it.                        *)
KeysComeFirst ==
    \A id \in RelationIds :
        bindings[id] # None =>
            \A k \in {bindings[id].binding.sourceKey,
                      bindings[id].binding.targetKey} :
                k \in Registered /\ keys[k].receipt < bindings[id].receipt

RegistryInv == IInv /\ KeysComeFirst

(* What a step of the registry leaves of the past: rows and bindings stay, *)
(* and what it adds carries a later receipt.                               *)
Keeps(row, next) ==
    /\ next.authority = row.authority
    /\ next.from = row.from /\ next.until = row.until
    /\ next.receipt = row.receipt

RowsStay ==
    \A k \in Keys :
        /\ keys[k] # None =>
              /\ keys'[k] # None /\ Keeps(keys[k], keys'[k])
              /\ \/ /\ keys'[k].revoked = keys[k].revoked
                    /\ keys'[k].revocation = keys[k].revocation
                 \/ keys[k].revoked = None /\ keys'[k].revocation > Len(ledger)
        /\ keys[k] = None /\ keys'[k] # None => keys'[k].receipt > Len(ledger)

BindingsStay ==
    \A id \in RelationIds :
        /\ bindings[id] # None => bindings'[id] = bindings[id]
        /\ bindings[id] = None /\ bindings'[id] # None
              => bindings'[id].receipt > Len(ledger)

LEMMA PastStays ==
    ASSUME IInv, [Next]_registryVars
    PROVE  /\ Len(ledger) \in Nat /\ Len(ledger') \in Nat
           /\ Len(ledger) <= Len(ledger')
           /\ RowsStay /\ BindingsStay
<1>0. TypeOK /\ Len(ledger) \in Nat
  BY DEF IInv, TypeOK
<1>1. CASE UNCHANGED <<keys, bindings, ledger>>
  BY <1>0, <1>1 DEF RowsStay, BindingsStay, Keeps
<1>2. ASSUME NEW e \in Events, Commit(e)
      PROVE  Len(ledger') = Len(ledger) + 1
  <2>1. ledger \in Seq(Events) /\ ledger' = Append(ledger, e)
    BY <1>0, <1>2 DEF TypeOK, Commit
  <2> QED  BY <2>1
<1>3. ASSUME NEW k \in Keys, NEW r \in Records, Insert(k, r)
      PROVE  Len(ledger') = Len(ledger) + 1 /\ RowsStay /\ BindingsStay
  <2>1. /\ k \notin Registered /\ Registered' = Registered \cup {k}
        /\ \A x \in Registered : keys'[x] = keys[x]
        /\ keys'[k] = NewRow(r) /\ bindings' = bindings
        /\ KeyRegistered(k, r) \in Events /\ Commit(KeyRegistered(k, r))
    BY <1>0, <1>3, InsertFacts
  <2>2. Len(ledger') = Len(ledger) + 1
    BY <1>2, <2>1
  <2>3. BindingsStay
    BY <2>1 DEF BindingsStay
  <2>4. keys'[k].receipt > Len(ledger)
    BY <1>0, <2>1 DEF NewRow
  <2>5. ASSUME NEW x \in Keys
        PROVE  /\ keys[x] # None =>
                     /\ keys'[x] # None /\ Keeps(keys[x], keys'[x])
                     /\ keys'[x].revoked = keys[x].revoked
                     /\ keys'[x].revocation = keys[x].revocation
               /\ keys[x] = None /\ keys'[x] # None
                     => keys'[x].receipt > Len(ledger)
    BY <2>1, <2>4 DEF Registered, Keeps
  <2> QED  BY <2>2, <2>3, <2>5 DEF RowsStay
<1>4. ASSUME NEW k \in Keys, NEW at \in Times, NEW reason \in Reasons,
             Revocation(k, at, reason)
      PROVE  Len(ledger') = Len(ledger) + 1 /\ RowsStay /\ BindingsStay
  <2>1. /\ k \in Registered /\ Registered' = Registered
        /\ \A x \in Registered : x # k => keys'[x] = keys[x]
        /\ \A x \in Registered : Keeps(keys[x], keys'[x])
        /\ keys'[k].revocation = Len(ledger) + 1
        /\ keys[k].revoked = None /\ bindings' = bindings
        /\ KeyRevoked(k, at, reason) \in Events
        /\ Commit(KeyRevoked(k, at, reason))
    BY <1>0, <1>4, RevocationFacts DEF Keeps
  <2>2. Len(ledger') = Len(ledger) + 1
    BY <1>2, <2>1
  <2>3. BindingsStay
    BY <2>1 DEF BindingsStay
  <2>4. keys'[k].revocation > Len(ledger)
    BY <1>0, <2>1
  <2>5. ASSUME NEW x \in Keys
        PROVE  /\ keys[x] # None =>
                     /\ keys'[x] # None /\ Keeps(keys[x], keys'[x])
                     /\ \/ /\ keys'[x].revoked = keys[x].revoked
                           /\ keys'[x].revocation = keys[x].revocation
                        \/ /\ keys[x].revoked = None
                           /\ keys'[x].revocation > Len(ledger)
               /\ keys[x] = None => keys'[x] = None
    BY <2>1, <2>4 DEF Registered
  <2> QED  BY <2>2, <2>3, <2>5 DEF RowsStay
<1>5. ASSUME NEW r \in Relations, NEW s \in Keys, NEW t \in Keys,
             NewBinding(r, s, t)
      PROVE  Len(ledger') = Len(ledger) + 1 /\ RowsStay /\ BindingsStay
  <2>1. PICK b : b = Binding(r, s, t)
    OBVIOUS
  <2>2. /\ keys' = keys /\ bindings[r.id] = None
        /\ bindings'[r.id] = [binding |-> b, receipt |-> Len(ledger) + 1]
        /\ \A id \in RelationIds : id # r.id => bindings'[id] = bindings[id]
        /\ KeyBound(b) \in Events /\ Commit(KeyBound(b))
    BY <1>0, <1>5, <2>1, BindingFacts
  <2>3. Len(ledger') = Len(ledger) + 1
    BY <1>2, <2>2
  <2>4. RowsStay
    BY <2>2 DEF RowsStay, Keeps
  <2>5. bindings'[r.id].receipt > Len(ledger)
    BY <1>0, <2>2
  <2>6. BindingsStay
    BY <2>2, <2>5 DEF BindingsStay
  <2> QED  BY <2>3, <2>4, <2>6
<1>6. CASE UNCHANGED registryVars
  BY <1>1, <1>6 DEF registryVars
<1>7. CASE Quiet
  BY <1>1, <1>7 DEF Quiet
<1> QED  BY <1>0, <1>3, <1>4, <1>5, <1>6, <1>7, Effects

LEMMA KeysStillComeFirst ==
    ASSUME RegistryInv, [Next]_registryVars
    PROVE  KeysComeFirst'
<1>0. /\ TypeOK /\ Len(ledger) \in Nat /\ RowsStay /\ BindingsStay
      /\ IInv /\ KeysComeFirst
  BY PastStays DEF RegistryInv, IInv
<1> SUFFICES ASSUME NEW id \in RelationIds, bindings'[id] # None,
                    NEW k, k = bindings'[id].binding.sourceKey
                           \/ k = bindings'[id].binding.targetKey
             PROVE  k \in Registered' /\ keys'[k].receipt < bindings'[id].receipt
  BY DEF KeysComeFirst
<1>1. CASE bindings[id] # None
  <2>1. bindings'[id] = bindings[id]
    BY <1>0, <1>1 DEF BindingsStay
  <2>2. k \in Registered /\ keys[k].receipt < bindings[id].receipt
    BY <1>0, <1>1, <2>1 DEF KeysComeFirst
  <2>3. k \in Registered' /\ keys'[k].receipt = keys[k].receipt
    BY <1>0, <2>2 DEF RowsStay, Registered, Keeps
  <2> QED  BY <2>1, <2>2, <2>3
<1>2. CASE bindings[id] = None
  <2>1. bindings' # bindings
    BY <1>2
  <2>2. PICK r \in Relations, s \in Keys, t \in Keys : NewBinding(r, s, t)
    BY <1>0, <2>1, Effects, InsertFacts, RevocationFacts
    DEF Quiet, registryVars
  <2>3. PICK b : b = Binding(r, s, t)
    OBVIOUS
  <2>4. /\ keys' = keys
        /\ bindings'[r.id] = [binding |-> b, receipt |-> Len(ledger) + 1]
        /\ \A i \in RelationIds : i # r.id => bindings'[i] = bindings[i]
        /\ Covers(s, r.source, r) /\ Covers(t, r.target, r)
    BY <1>0, <2>2, <2>3, BindingFacts
  <2>5. id = r.id
    BY <1>2, <2>4
  <2>6. k = s \/ k = t
    BY <2>3, <2>4, <2>5 DEF Binding
  <2>7. k \in Registered
    BY <2>4, <2>6 DEF Covers, Registered
  <2>8. keys[k].receipt \in 1..Len(ledger)
    BY <1>0, <2>7 DEF IInv, ReceiptsInRange, TypeOK
  <2>9. bindings'[id].receipt = Len(ledger) + 1
    BY <2>4, <2>5
  <2>10. keys[k].receipt < bindings'[id].receipt
    BY <1>0, <2>8, <2>9
  <2> QED  BY <2>4, <2>7, <2>10 DEF Registered
<1> QED  BY <1>1, <1>2

-----------------------------------------------------------------------------
(* The gate beside the registry.  What it has read is what one look at the *)
(* registry would have found when the binding was read: a row read later   *)
(* keeps the fields it had then, and can only have been revoked since.     *)

(* An evaluation in progress.                                              *)
Evaluations ==
    [step : {"binding", "source", "target", "decide"},
     relation : Relations, at : Times, began : Nat,
     binding : Bindings \cup {None},
     source : Rows \cup {None}, target : Rows \cup {None}]

GateType ==
    gate # None =>
        /\ gate \in Evaluations
        /\ gate.began <= Len(ledger)
        /\ gate.step = "binding" => gate.source = None /\ gate.target = None
        /\ gate.step \in {"source", "target"} => gate.binding \in Bindings

(* The row read for k is the one k has, revocation aside, and effective    *)
(* only if k was effective when the ledger had n events.                   *)
ReadAs(row, k, t, n) ==
    row # None =>
        /\ keys[k] # None /\ Keeps(row, keys[k])
        /\ EffectiveAt(row, t) => EffectiveInLedger(k, t, n)

ReadsOfOneMoment ==
    gate # None /\ gate.binding # None =>
        /\ bindings[gate.relation.id] # None
        /\ bindings[gate.relation.id].binding = gate.binding
        /\ \E n \in gate.began..Len(ledger) :
              /\ BindingAt(gate.relation.id, n) = gate.binding
              /\ ReadAs(gate.source, gate.binding.sourceKey, gate.at, n)
              /\ ReadAs(gate.target, gate.binding.targetKey, gate.at, n)

(* Everything an admissible decision looked at, revocations aside.         *)
Held(k, authority, t) ==
    /\ keys[k] # None
    /\ keys[k].authority = authority
    /\ keys[k].from <= t /\ t < keys[k].until

Stands(r, t, b) ==
    /\ bindings[r.id] # None /\ bindings[r.id].binding = b
    /\ b # None
    /\ b.relation = Digest(r)
    /\ b.source = r.source /\ b.target = r.target
    /\ Held(b.sourceKey, b.source, t) /\ Held(b.targetKey, b.target, t)
    /\ Verifies(r, b.sourceKey, b.targetKey, t, TRUE)

VerdictStands ==
    verdict # None =>
        /\ verdict.relation \in Relations /\ verdict.at \in Times
        /\ verdict.began \in Nat /\ verdict.ended \in 0..Len(ledger)
        /\ Stands(verdict.relation, verdict.at,
                  bindings[verdict.relation.id].binding)

GateInv ==
    /\ RegistryInv
    /\ GateType
    /\ ReadsOfOneMoment
    /\ VerdictStands
    /\ OneMomentDecides

(* A row is effective in the ledger's first n events when it was recorded  *)
(* by then and no revocation recorded by then had taken effect.            *)
Past(row, t, n) ==
    /\ row.receipt <= n
    /\ row.from <= t /\ t < row.until
    /\ row.revoked # None /\ row.revocation <= n => t < row.revoked

RowsHoldThePast ==
    \A k \in Keys, t \in Times, n \in Nat :
        EffectiveInLedger(k, t, n) <=> keys[k] # None /\ Past(keys[k], t, n)

LEMMA PastOfRow == TypeOK => RowsHoldThePast
<1> SUFFICES ASSUME TypeOK, NEW k \in Keys, NEW t \in Times, NEW n \in Nat
             PROVE  EffectiveInLedger(k, t, n)
                        <=> keys[k] # None /\ Past(keys[k], t, n)
  BY DEF RowsHoldThePast
<1>1. CASE keys[k] = None
  BY <1>1 DEF EffectiveInLedger, RowAt
<1>2. CASE keys[k] # None
  <2>1. PICK row : row = keys[k]
    OBVIOUS
  <2>2. row \in Rows
    BY <1>2, <2>1 DEF TypeOK
  <2>3. row # None
    BY <1>2, <2>1
  <2>4. [row EXCEPT !.revoked = None, !.reason = None] \in Rows
    BY <2>2 DEF Rows
  <2>5. [row EXCEPT !.revoked = None, !.reason = None] # None
    BY <2>4, KeyRegistryAssumption
  <2>6. CASE row.receipt > n
    BY <2>1, <2>2, <2>3, <2>6 DEF EffectiveInLedger, RowAt, Past, Rows
  <2>7. CASE ~(row.receipt > n) /\ row.revocation > n
    <3>1. RowAt(k, n) = [row EXCEPT !.revoked = None, !.reason = None]
      BY <2>1, <2>3, <2>7 DEF RowAt
    <3>2. PICK old : old = [row EXCEPT !.revoked = None, !.reason = None]
      OBVIOUS
    <3>3. old.from = row.from /\ old.until = row.until /\ old.revoked = None
      BY <2>2, <3>2 DEF Rows
    <3>4. EffectiveInLedger(k, t, n) <=> row.from <= t /\ t < row.until
      BY <2>5, <3>1, <3>2, <3>3 DEF EffectiveInLedger, EffectiveAt
    <3>5. row.receipt \in Nat /\ row.revocation \in Nat
      BY <2>2 DEF Rows
    <3>6. Past(row, t, n) <=> row.from <= t /\ t < row.until
      BY <2>7, <3>5 DEF Past
    <3> QED  BY <2>1, <2>3, <3>4, <3>6
  <2>8. CASE ~(row.receipt > n) /\ ~(row.revocation > n)
    <3>1. RowAt(k, n) = row
      BY <2>1, <2>3, <2>8 DEF RowAt
    <3>2. row.receipt \in Nat /\ row.revocation \in Nat
      BY <2>2 DEF Rows
    <3> QED  BY <2>1, <2>3, <2>8, <3>1, <3>2 DEF EffectiveInLedger, EffectiveAt, Past
  <2> QED  BY <2>6, <2>7, <2>8
<1> QED  BY <1>1, <1>2

(* A step of the registry changes no answer about the past.                *)
LEMMA PastIsFixed ==
    ASSUME IInv, TypeOK', RowsHoldThePast, RowsHoldThePast', [Next]_registryVars,
           NEW n \in Nat, n <= Len(ledger)
    PROVE  /\ \A k \in Keys, t \in Times :
                 EffectiveInLedger(k, t, n)' <=> EffectiveInLedger(k, t, n)
           /\ \A id \in RelationIds : BindingAt(id, n)' = BindingAt(id, n)
<1>0. /\ TypeOK /\ Len(ledger) \in Nat /\ RowsStay /\ BindingsStay
  BY PastStays DEF IInv
<1>1. ASSUME NEW k \in Keys, NEW t \in Times
      PROVE  EffectiveInLedger(k, t, n)' <=> EffectiveInLedger(k, t, n)
  <2>1. /\ EffectiveInLedger(k, t, n) <=> keys[k] # None /\ Past(keys[k], t, n)
        /\ EffectiveInLedger(k, t, n)' <=> keys'[k] # None /\ Past(keys'[k], t, n)
    <3>1. n \in Nat
      OBVIOUS
    <3> QED  BY <3>1 DEF RowsHoldThePast
  <2>2. PICK old, new : old = keys[k] /\ new = keys'[k]
    OBVIOUS
  <2>3. /\ old # None => old \in Rows
        /\ new # None => new \in Rows
    BY <1>0, <2>2 DEF TypeOK
  <2>4. /\ old # None =>
              /\ new # None /\ Keeps(old, new)
              /\ \/ new.revoked = old.revoked /\ new.revocation = old.revocation
                 \/ old.revoked = None /\ new.revocation > Len(ledger)
        /\ old = None /\ new # None => new.receipt > Len(ledger)
    BY <1>0, <2>2 DEF RowsStay
  <2>5. CASE old # None
    <3>1. new \in Rows /\ old \in Rows /\ Keeps(old, new)
      BY <2>3, <2>4, <2>5
    <3>2. CASE new.revoked = old.revoked /\ new.revocation = old.revocation
      <4>1. Past(old, t, n) <=> Past(new, t, n)
        BY <3>1, <3>2 DEF Past, Keeps
      <4> QED  BY <2>1, <2>2, <2>4, <2>5, <4>1
    <3>3. CASE old.revoked = None /\ new.revocation > Len(ledger)
      <4>1. new.revocation \in Nat
        BY <3>1 DEF Rows
      <4>2. ~(new.revocation <= n)
        BY <1>0, <3>3, <4>1
      <4>3. Past(old, t, n) <=> Past(new, t, n)
        BY <3>1, <3>3, <4>2 DEF Past, Keeps
      <4> QED  BY <2>1, <2>2, <2>4, <2>5, <4>3
    <3> QED  BY <2>4, <2>5, <3>2, <3>3
  <2>6. CASE old = None /\ new # None
    <3>1. new.receipt \in Nat
      BY <2>3, <2>6 DEF Rows
    <3>2. ~(new.receipt <= n)
      BY <1>0, <2>4, <2>6, <3>1
    <3> QED  BY <2>1, <2>2, <2>6, <3>2 DEF Past
  <2>7. CASE old = None /\ new = None
    BY <2>1, <2>2, <2>7
  <2> QED  BY <2>5, <2>6, <2>7
<1>2. ASSUME NEW id \in RelationIds
      PROVE  BindingAt(id, n)' = BindingAt(id, n)
  <2>1. CASE bindings[id] # None
    BY <1>0, <2>1 DEF BindingsStay, BindingAt
  <2>2. CASE bindings[id] = None /\ bindings'[id] # None
    <3>1. bindings'[id].receipt > Len(ledger) /\ bindings'[id] \in BoundRows
      BY <1>0, <2>2 DEF BindingsStay, TypeOK
    <3>2. bindings'[id].receipt > n
      BY <1>0, <3>1 DEF BoundRows
    <3> QED  BY <2>2, <3>2 DEF BindingAt
  <2>3. CASE bindings[id] = None /\ bindings'[id] = None
    BY <2>3 DEF BindingAt
  <2> QED  BY <2>1, <2>2, <2>3
<1> QED  BY <1>1, <1>2

(* The bound keys were there when the binding was: one that is effective   *)
(* now, or was when it was read, was effective then.                       *)
LEMMA BoundAtTheTime ==
    ASSUME RegistryInv, RowsHoldThePast,
           NEW id \in RelationIds, NEW n \in Nat, NEW t \in Times,
           BindingAt(id, n) # None,
           NEW k \in {BindingAt(id, n).sourceKey, BindingAt(id, n).targetKey},
           EffectiveAt(keys[k], t)
    PROVE  EffectiveInLedger(k, t, n)
<1>1. /\ bindings[id] # None /\ ~(bindings[id].receipt > n)
      /\ BindingAt(id, n) = bindings[id].binding
  BY DEF BindingAt
<1>2. bindings[id] \in BoundRows
  BY <1>1 DEF RegistryInv, IInv, TypeOK
<1>3. k \in Registered /\ keys[k].receipt < bindings[id].receipt
  BY <1>1 DEF RegistryInv, KeysComeFirst
<1>4. k \in Keys /\ keys[k] # None /\ keys[k] \in Rows
  BY <1>3 DEF Registered, RegistryInv, IInv, TypeOK
<1>5. keys[k].receipt \in Nat /\ bindings[id].receipt \in Nat
  BY <1>2, <1>4 DEF Rows, BoundRows
<1>6. keys[k].receipt <= n
  BY <1>1, <1>3, <1>5
<1> QED  BY <1>4, <1>6 DEF RowsHoldThePast, Past, EffectiveAt

(* A decision rests on what the registry never changes.                    *)
LEMMA StandsStays ==
    ASSUME IInv, [Next]_registryVars,
           NEW r \in Relations, NEW t \in Times, NEW b, Stands(r, t, b)
    PROVE  Stands(r, t, b)'
<1>0. TypeOK /\ RowsStay /\ BindingsStay
  BY PastStays DEF IInv
<1>1. r.id \in RelationIds
  BY DEF RelationIds
<1>2. bindings'[r.id] = bindings[r.id] /\ bindings[r.id] \in BoundRows
  BY <1>0, <1>1 DEF Stands, BindingsStay, TypeOK
<1>3. b \in Bindings
  BY <1>2 DEF Stands, BoundRows
<1>4. b.sourceKey \in Keys /\ b.targetKey \in Keys
  BY <1>3 DEF Bindings
<1>5. Held(b.sourceKey, b.source, t)' /\ Held(b.targetKey, b.target, t)'
  BY <1>0, <1>4 DEF Stands, Held, RowsStay, Keeps
<1> QED  BY <1>2, <1>5 DEF Stands

(* Mutations of the registry beside the evaluation.                        *)
LEMMA MutationsBeside ==
    ASSUME GateInv, TypeOK', RowsHoldThePast, RowsHoldThePast',
           [Next]_registryVars, UNCHANGED <<gate, verdict>>
    PROVE  GateType' /\ ReadsOfOneMoment' /\ VerdictStands' /\ OneMomentDecides'
<1>0. /\ IInv /\ TypeOK /\ RowsStay /\ BindingsStay
      /\ Len(ledger) \in Nat /\ Len(ledger') \in Nat /\ Len(ledger) <= Len(ledger')
  BY PastStays DEF GateInv, RegistryInv, IInv
<1>1. GateType'
  <2>1. gate # None => gate.began \in Nat
    BY DEF GateInv, GateType, Evaluations
  <2>2. gate # None => gate.began <= Len(ledger')
    BY <1>0, <2>1 DEF GateInv, GateType
  <2> QED  BY <2>2 DEF GateInv, GateType
<1>2. ASSUME NEW row, NEW k \in Keys, NEW t \in Times,
             NEW n \in Nat, n <= Len(ledger), ReadAs(row, k, t, n)
      PROVE  ReadAs(row, k, t, n)'
  <2>1. EffectiveInLedger(k, t, n)' <=> EffectiveInLedger(k, t, n)
    BY <1>0, <1>2, PastIsFixed
  <2> QED  BY <1>0, <1>2, <2>1 DEF ReadAs, RowsStay, Keeps
<1>3. ReadsOfOneMoment'
  <2> SUFFICES ASSUME gate # None, gate.binding # None
               PROVE  /\ bindings'[gate.relation.id] # None
                      /\ bindings'[gate.relation.id].binding = gate.binding
                      /\ \E n \in gate.began..Len(ledger') :
                            /\ BindingAt(gate.relation.id, n)' = gate.binding
                            /\ ReadAs(gate.source, gate.binding.sourceKey, gate.at, n)'
                            /\ ReadAs(gate.target, gate.binding.targetKey, gate.at, n)'
    BY DEF ReadsOfOneMoment
  <2>1. /\ gate.relation \in Relations /\ gate.at \in Times /\ gate.began \in Nat
        /\ gate.binding \in Bindings
    BY DEF GateInv, GateType, Evaluations
  <2>2. gate.relation.id \in RelationIds
    BY <2>1 DEF RelationIds
  <2>3. gate.binding.sourceKey \in Keys /\ gate.binding.targetKey \in Keys
    BY <2>1 DEF Bindings
  <2>4. PICK n \in gate.began..Len(ledger) :
              /\ BindingAt(gate.relation.id, n) = gate.binding
              /\ ReadAs(gate.source, gate.binding.sourceKey, gate.at, n)
              /\ ReadAs(gate.target, gate.binding.targetKey, gate.at, n)
    BY DEF GateInv, ReadsOfOneMoment
  <2>5. n \in Nat /\ n <= Len(ledger) /\ n \in gate.began..Len(ledger')
    BY <1>0, <2>1, <2>4
  <2>6. BindingAt(gate.relation.id, n)' = BindingAt(gate.relation.id, n)
    BY <1>0, <2>2, <2>5, PastIsFixed
  <2>7. /\ ReadAs(gate.source, gate.binding.sourceKey, gate.at, n)'
        /\ ReadAs(gate.target, gate.binding.targetKey, gate.at, n)'
    BY <1>2, <2>1, <2>3, <2>4, <2>5
  <2>8. /\ bindings'[gate.relation.id] # None
        /\ bindings'[gate.relation.id].binding = gate.binding
    BY <1>0, <2>2 DEF GateInv, ReadsOfOneMoment, BindingsStay
  <2> QED  BY <2>4, <2>5, <2>6, <2>7, <2>8
<1>4. ASSUME verdict # None
      PROVE  /\ verdict.relation \in Relations /\ verdict.at \in Times
             /\ verdict.began \in Nat /\ verdict.ended \in 0..Len(ledger)
             /\ verdict.relation.id \in RelationIds
             /\ Stands(verdict.relation, verdict.at,
                       bindings[verdict.relation.id].binding)
  BY <1>4 DEF GateInv, VerdictStands, RelationIds
<1>5. VerdictStands'
  <2> SUFFICES ASSUME verdict # None
               PROVE  /\ verdict.relation \in Relations /\ verdict.at \in Times
                      /\ verdict.began \in Nat /\ verdict.ended \in 0..Len(ledger')
                      /\ Stands(verdict.relation, verdict.at,
                                bindings[verdict.relation.id].binding)'
    BY DEF VerdictStands
  <2>1. PICK b : b = bindings[verdict.relation.id].binding
    OBVIOUS
  <2>2. Stands(verdict.relation, verdict.at, b)
    BY <1>4, <2>1
  <2>3. b = bindings'[verdict.relation.id].binding
    BY <1>0, <1>4, <2>1, <2>2 DEF BindingsStay, Stands
  <2>4. Stands(verdict.relation, verdict.at, b)'
    <3>1. PICK r \in Relations, t \in Times : r = verdict.relation /\ t = verdict.at
      BY <1>4
    <3>2. Stands(r, t, b)
      BY <2>2, <3>1
    <3>3. Stands(r, t, b)'
      BY <1>0, <3>2, StandsStays
    <3> QED  BY <3>1, <3>3 DEF Stands, Held
  <2>5. verdict.ended \in 0..Len(ledger')
    BY <1>0, <1>4
  <2> QED  BY <1>4, <2>3, <2>4, <2>5 DEF Stands, Held
<1>6. OneMomentDecides'
  <2> SUFFICES ASSUME verdict # None
               PROVE  OneMomentDecides'
    BY DEF OneMomentDecides
  <2>1. PICK n \in verdict.began..verdict.ended :
              LET b == BindingAt(verdict.relation.id, n)
              IN /\ b # None
                 /\ b.relation = Digest(verdict.relation)
                 /\ EffectiveInLedger(b.sourceKey, verdict.at, n)
                 /\ EffectiveInLedger(b.targetKey, verdict.at, n)
    BY DEF GateInv, OneMomentDecides
  <2>2. n \in Nat /\ n <= Len(ledger)
    BY <1>0, <1>4, <2>1
  <2>3. PICK b : b = BindingAt(verdict.relation.id, n)
    OBVIOUS
  <2>4. BindingAt(verdict.relation.id, n)' = b
    BY <1>0, <1>4, <2>2, <2>3, PastIsFixed
  <2>5. b \in Bindings
    BY <1>0, <1>4, <2>1, <2>3 DEF BindingAt, TypeOK, BoundRows
  <2>6. b.sourceKey \in Keys /\ b.targetKey \in Keys
    BY <2>5 DEF Bindings
  <2>7. /\ EffectiveInLedger(b.sourceKey, verdict.at, n)'
        /\ EffectiveInLedger(b.targetKey, verdict.at, n)'
    <3>1. /\ EffectiveInLedger(b.sourceKey, verdict.at, n)
          /\ EffectiveInLedger(b.targetKey, verdict.at, n)
      BY <2>1, <2>3
    <3> QED  BY <1>0, <1>4, <2>2, <2>6, <3>1, PastIsFixed
  <2> QED  BY <2>1, <2>3, <2>4, <2>7 DEF OneMomentDecides
<1> QED  BY <1>1, <1>3, <1>5, <1>6

(* The gate's own steps leave the registry as it is.                       *)
GateReads ==
    \/ \E r \in Relations, t \in Times : Evaluate(r, t)
    \/ ReadBinding
    \/ ReadSourceKey
    \/ ReadTargetKey

(* What a statement about the registry says is the same after such a step. *)
LEMMA SameRegistry ==
    ASSUME UNCHANGED registryVars
    PROVE  /\ \A row, k, t, n : ReadAs(row, k, t, n)' <=> ReadAs(row, k, t, n)
           /\ \A id, n : BindingAt(id, n)' = BindingAt(id, n)
           /\ \A r, t, b : Stands(r, t, b)' <=> Stands(r, t, b)
           /\ \A k, t, n : EffectiveInLedger(k, t, n)' <=> EffectiveInLedger(k, t, n)
           /\ keys' = keys /\ bindings' = bindings /\ ledger' = ledger
BY DEF registryVars, ReadAs, BindingAt, Stands, Held, EffectiveInLedger, RowAt

LEMMA VerdictBeside ==
    ASSUME VerdictStands, OneMomentDecides,
           UNCHANGED registryVars, verdict' = verdict
    PROVE  VerdictStands' /\ OneMomentDecides'
<1>1. VerdictStands'
  <2> SUFFICES ASSUME verdict # None
               PROVE  /\ verdict.relation \in Relations /\ verdict.at \in Times
                      /\ verdict.began \in Nat /\ verdict.ended \in 0..Len(ledger)
                      /\ Stands(verdict.relation, verdict.at,
                                bindings[verdict.relation.id].binding)
    BY SameRegistry DEF VerdictStands, Stands, Held
  <2> QED  BY DEF VerdictStands
<1>2. OneMomentDecides'
  BY SameRegistry DEF OneMomentDecides
<1> QED  BY <1>1, <1>2

(* The three reads.                                                        *)
LEMMA ReadsOfTheGate ==
    ASSUME GateInv, RowsHoldThePast, GateReads
    PROVE  GateType' /\ ReadsOfOneMoment' /\ VerdictStands' /\ OneMomentDecides'
<1>0. /\ TypeOK /\ Len(ledger) \in Nat
      /\ RegistryInv /\ GateType /\ ReadsOfOneMoment
  BY DEF GateInv, RegistryInv, IInv, TypeOK
<1>1. UNCHANGED registryVars /\ verdict' = verdict
  BY DEF GateReads, Evaluate, ReadBinding, ReadSourceKey, ReadTargetKey
<1>2. VerdictStands' /\ OneMomentDecides'
  BY <1>1, VerdictBeside DEF GateInv
<1>3. keys' = keys /\ bindings' = bindings /\ ledger' = ledger
  BY <1>1, SameRegistry
<1>4. ASSUME NEW r \in Relations, NEW t \in Times, Evaluate(r, t)
      PROVE  GateType' /\ ReadsOfOneMoment'
  <2>1. gate' = [step |-> "binding", relation |-> r, at |-> t, began |-> Len(ledger),
                 binding |-> None, source |-> None, target |-> None]
    BY <1>4 DEF Evaluate
  <2>2. gate' \in Evaluations
    BY <1>0, <2>1 DEF Evaluations
  <2>3. gate'.began <= Len(ledger')
    BY <1>0, <1>3, <2>1
  <2> QED  BY <2>1, <2>2, <2>3 DEF GateType, ReadsOfOneMoment
<1>5. CASE ReadBinding
  <2>1. /\ gate # None /\ gate.step = "binding" /\ gate \in Evaluations
        /\ gate.began <= Len(ledger) /\ gate.source = None /\ gate.target = None
    BY <1>0, <1>5 DEF ReadBinding, At, GateType
  <2>2. gate.relation.id \in RelationIds
    BY <2>1 DEF Evaluations, RelationIds
  <2>3. CASE bindings[gate.relation.id] = None
    <3>1. gate' = [gate EXCEPT !.step = "decide"]
      BY <1>5, <2>3 DEF ReadBinding
    <3>2. GateType'
      BY <1>3, <2>1, <3>1 DEF GateType, Evaluations
    <3>3. gate.binding = None \/ ReadsOfOneMoment'
      <4>1. gate.binding # None => bindings[gate.relation.id] # None
        BY <1>0, <2>1 DEF ReadsOfOneMoment
      <4> QED  BY <2>3, <4>1
    <3>4. gate.binding = gate'.binding
      BY <2>1, <3>1 DEF Evaluations
    <3> QED  BY <1>2, <3>2, <3>3, <3>4 DEF ReadsOfOneMoment
  <2>4. CASE bindings[gate.relation.id] # None
    <3>1. PICK b : b = bindings[gate.relation.id].binding
      OBVIOUS
    <3>2. bindings[gate.relation.id] \in BoundRows
      BY <1>0, <2>2, <2>4 DEF TypeOK
    <3>3. b \in Bindings /\ bindings[gate.relation.id].receipt \in Nat
      BY <3>1, <3>2 DEF BoundRows
    <3>4. gate' = [gate EXCEPT !.step = "source", !.binding = b]
      BY <1>5, <2>4, <3>1 DEF ReadBinding
    <3>5. /\ gate'.relation = gate.relation /\ gate'.at = gate.at
          /\ gate'.began = gate.began /\ gate'.binding = b
          /\ gate'.source = None /\ gate'.target = None /\ gate'.step = "source"
          /\ gate' \in Evaluations
      BY <2>1, <3>3, <3>4 DEF Evaluations
    <3>6. GateType'
      BY <1>3, <2>1, <3>3, <3>5 DEF GateType
    <3>7. bindings[gate.relation.id].receipt \in DOMAIN ledger
      BY <1>0, <2>2, <2>4 DEF RegistryInv, IInv, ReceiptsInRange
    <3>8. DOMAIN ledger = 1..Len(ledger)
      BY <1>0 DEF TypeOK
    <3>9. ~(bindings[gate.relation.id].receipt > Len(ledger))
      BY <1>0, <3>7, <3>8
    <3>10. BindingAt(gate.relation.id, Len(ledger)) = b
      BY <2>4, <3>1, <3>9 DEF BindingAt
    <3>11. Len(ledger) \in gate.began..Len(ledger)
      BY <1>0, <2>1 DEF Evaluations
    <3>12. ReadsOfOneMoment'
      BY <1>3, <2>4, <3>1, <3>5, <3>10, <3>11
      DEF ReadsOfOneMoment, ReadAs, BindingAt
    <3> QED  BY <1>2, <3>6, <3>12
  <2> QED  BY <2>3, <2>4
<1>6. ASSUME NEW k \in Keys, NEW id \in RelationIds, NEW t \in Times, NEW n \in Nat,
             BindingAt(id, n) # None,
             k = BindingAt(id, n).sourceKey \/ k = BindingAt(id, n).targetKey
      PROVE  ReadAs(keys[k], k, t, n)
  <2>1. EffectiveAt(keys[k], t) => EffectiveInLedger(k, t, n)
    BY <1>0, <1>6, BoundAtTheTime
  <2> QED  BY <2>1 DEF ReadAs, Keeps
<1>7. ASSUME gate # None, gate.binding # None
      PROVE  /\ gate.relation.id \in RelationIds /\ gate.at \in Times
             /\ gate.began \in Nat
             /\ gate.binding \in Bindings
             /\ gate.binding.sourceKey \in Keys /\ gate.binding.targetKey \in Keys
             /\ bindings[gate.relation.id] # None
             /\ bindings[gate.relation.id].binding = gate.binding
  BY <1>0, <1>7 DEF GateType, Evaluations, RelationIds, ReadsOfOneMoment, Bindings
<1>8. ASSUME gate # None, gate.binding # None
      PROVE  \E n \in gate.began..Len(ledger) :
                /\ BindingAt(gate.relation.id, n) = gate.binding
                /\ ReadAs(gate.source, gate.binding.sourceKey, gate.at, n)
                /\ ReadAs(gate.target, gate.binding.targetKey, gate.at, n)
                /\ ReadAs(keys[gate.binding.sourceKey],
                          gate.binding.sourceKey, gate.at, n)
                /\ ReadAs(keys[gate.binding.targetKey],
                          gate.binding.targetKey, gate.at, n)
  <2>1. PICK n \in gate.began..Len(ledger) :
              /\ BindingAt(gate.relation.id, n) = gate.binding
              /\ ReadAs(gate.source, gate.binding.sourceKey, gate.at, n)
              /\ ReadAs(gate.target, gate.binding.targetKey, gate.at, n)
    BY <1>0, <1>8 DEF ReadsOfOneMoment
  <2>2. n \in Nat
    BY <1>0, <1>7, <1>8
  <2> QED  BY <1>6, <1>7, <1>8, <2>1, <2>2
<1>9. CASE ReadSourceKey
  <2>1. /\ gate # None /\ gate.step = "source" /\ gate \in Evaluations
        /\ gate.began <= Len(ledger) /\ gate.binding \in Bindings
    BY <1>0, <1>9 DEF ReadSourceKey, At, GateType
  <2>2. PICK row : row = keys[gate.binding.sourceKey]
    OBVIOUS
  <2>3. row \in Rows \cup {None}
    BY <1>0, <2>1, <2>2 DEF Bindings, TypeOK
  <2>4. gate' = [gate EXCEPT !.step = "target", !.source = row]
    BY <1>9, <2>2 DEF ReadSourceKey
  <2>5. /\ gate'.relation = gate.relation /\ gate'.at = gate.at
        /\ gate'.began = gate.began /\ gate'.binding = gate.binding
        /\ gate'.source = row /\ gate'.target = gate.target /\ gate'.step = "target"
        /\ gate' \in Evaluations
    BY <2>1, <2>3, <2>4 DEF Evaluations
  <2>6. GateType'
    BY <1>3, <2>1, <2>5 DEF GateType
  <2>7. gate.binding # None =>
          \E n \in gate.began..Len(ledger) :
             /\ BindingAt(gate.relation.id, n) = gate.binding
             /\ ReadAs(row, gate.binding.sourceKey, gate.at, n)
             /\ ReadAs(gate.target, gate.binding.targetKey, gate.at, n)
    BY <1>8, <2>1, <2>2
  <2>8. ReadsOfOneMoment'
    BY <1>1, <1>3, <1>7, <2>1, <2>5, <2>7, SameRegistry DEF ReadsOfOneMoment
  <2> QED  BY <1>2, <2>6, <2>8
<1>10. CASE ReadTargetKey
  <2>1. /\ gate # None /\ gate.step = "target" /\ gate \in Evaluations
        /\ gate.began <= Len(ledger) /\ gate.binding \in Bindings
    BY <1>0, <1>10 DEF ReadTargetKey, At, GateType
  <2>2. PICK row : row = keys[gate.binding.targetKey]
    OBVIOUS
  <2>3. row \in Rows \cup {None}
    BY <1>0, <2>1, <2>2 DEF Bindings, TypeOK
  <2>4. gate' = [gate EXCEPT !.step = "decide", !.target = row]
    BY <1>10, <2>2 DEF ReadTargetKey
  <2>5. /\ gate'.relation = gate.relation /\ gate'.at = gate.at
        /\ gate'.began = gate.began /\ gate'.binding = gate.binding
        /\ gate'.source = gate.source /\ gate'.target = row /\ gate'.step = "decide"
        /\ gate' \in Evaluations
    BY <2>1, <2>3, <2>4 DEF Evaluations
  <2>6. GateType'
    BY <1>3, <2>1, <2>5 DEF GateType
  <2>7. gate.binding # None =>
          \E n \in gate.began..Len(ledger) :
             /\ BindingAt(gate.relation.id, n) = gate.binding
             /\ ReadAs(gate.source, gate.binding.sourceKey, gate.at, n)
             /\ ReadAs(row, gate.binding.targetKey, gate.at, n)
    BY <1>8, <2>1, <2>2
  <2>8. ReadsOfOneMoment'
    BY <1>1, <1>3, <1>7, <2>1, <2>5, <2>7, SameRegistry DEF ReadsOfOneMoment
  <2> QED  BY <1>2, <2>6, <2>8
<1> QED  BY <1>2, <1>4, <1>5, <1>9, <1>10 DEF GateReads

(* The decision.                                                           *)
LEMMA DecisionOfTheGate ==
    ASSUME GateInv, NEW fits \in BOOLEAN, Decide(fits)
    PROVE  GateType' /\ ReadsOfOneMoment' /\ VerdictStands' /\ OneMomentDecides'
<1>0. /\ Len(ledger) \in Nat /\ GateType /\ ReadsOfOneMoment
      /\ gate # None /\ gate' = None /\ UNCHANGED registryVars
      /\ keys' = keys /\ bindings' = bindings /\ ledger' = ledger
  BY SameRegistry DEF GateInv, RegistryInv, IInv, TypeOK, Decide, At
<1>1. GateType' /\ ReadsOfOneMoment'
  BY <1>0 DEF GateType, ReadsOfOneMoment
<1>2. CASE verdict' = None
  BY <1>1, <1>2 DEF VerdictStands, OneMomentDecides
<1>3. CASE verdict' # None
  <2>1. PICK r, t, b, source, target :
              /\ r = gate.relation /\ t = gate.at /\ b = gate.binding
              /\ source = gate.source /\ target = gate.target
    OBVIOUS
  <2>2. /\ Admissible(r, t, b, source, target, fits)
        /\ verdict' = [relation |-> r, at |-> t, began |-> gate.began,
                       ended |-> Len(ledger)]
    BY <1>3, <2>1 DEF Decide
  <2>3. /\ b # None /\ b.relation = Digest(r)
        /\ b.source = r.source /\ b.target = r.target
        /\ source # None /\ target # None
        /\ source.authority = b.source /\ target.authority = b.target
        /\ EffectiveAt(source, t) /\ EffectiveAt(target, t)
        /\ Verifies(r, b.sourceKey, b.targetKey, t, TRUE)
    BY <2>2 DEF Admissible, KeyState, Verifies
  <2>4. r \in Relations /\ t \in Times /\ gate.began \in Nat
    BY <1>0, <2>1 DEF GateType, Evaluations
  <2>5. bindings[r.id] # None /\ bindings[r.id].binding = b
    BY <1>0, <2>1, <2>3 DEF ReadsOfOneMoment
  <2>6. PICK n \in gate.began..Len(ledger) :
              /\ BindingAt(r.id, n) = b
              /\ ReadAs(source, b.sourceKey, t, n)
              /\ ReadAs(target, b.targetKey, t, n)
    BY <1>0, <2>1, <2>3 DEF ReadsOfOneMoment
  <2>7. Held(b.sourceKey, b.source, t) /\ Held(b.targetKey, b.target, t)
    BY <2>3, <2>6 DEF ReadAs, Keeps, Held, EffectiveAt
  <2>8. Stands(r, t, b)
    BY <2>3, <2>5, <2>7 DEF Stands
  <2>9. VerdictStands'
    <3>1. Stands(r, t, b)'
      BY <1>0, <2>8, SameRegistry
    <3>2. /\ verdict'.relation = r /\ verdict'.at = t
          /\ verdict'.began = gate.began /\ verdict'.ended = Len(ledger)
          /\ Len(ledger) \in 0..Len(ledger')
      BY <1>0, <2>2
    <3>3. bindings'[verdict'.relation.id].binding = b
      BY <1>0, <2>5, <3>2
    <3> QED  BY <2>4, <3>1, <3>2, <3>3 DEF VerdictStands, Stands, Held
  <2>10. /\ EffectiveInLedger(b.sourceKey, t, n)
         /\ EffectiveInLedger(b.targetKey, t, n)
    BY <2>3, <2>6 DEF ReadAs
  <2>11. /\ BindingAt(r.id, n)' = b
         /\ EffectiveInLedger(b.sourceKey, t, n)'
         /\ EffectiveInLedger(b.targetKey, t, n)'
    BY <1>0, <2>6, <2>10, SameRegistry
  <2>12. /\ verdict'.relation = r /\ verdict'.at = t
         /\ n \in verdict'.began..verdict'.ended
    BY <2>2, <2>6
  <2>13. OneMomentDecides'
    BY <2>3, <2>11, <2>12 DEF OneMomentDecides
  <2> QED  BY <1>1, <2>9, <2>13
<1> QED  BY <1>2, <1>3

LEMMA InitGateInv == GateInit => GateInv
<1> SUFFICES ASSUME GateInit PROVE GateInv
  OBVIOUS
<1>1. RegistryInv
  BY InitIInv DEF GateInit, RegistryInv, KeysComeFirst, Init
<1> QED  BY <1>1 DEF GateInit, GateInv, GateType, ReadsOfOneMoment, VerdictStands,
            OneMomentDecides

(* A step of the registry keeps its own invariant (Invariance).            *)
LEMMA GateStep ==
    ASSUME GateInv, IInv', RowsHoldThePast, RowsHoldThePast', [GateNext]_vars
    PROVE  GateInv'
<1>1. [Next]_registryVars
  BY DEF GateNext, Evaluate, ReadBinding, ReadSourceKey, ReadTargetKey, Decide,
     vars, registryVars
<1>2. RegistryInv'
  BY <1>1, KeysStillComeFirst DEF GateInv, RegistryInv
<1>3. TypeOK'
  BY DEF IInv
<1>4. CASE UNCHANGED <<gate, verdict>>
  BY <1>1, <1>2, <1>3, <1>4, MutationsBeside DEF GateInv
<1>5. CASE GateReads
  BY <1>2, <1>5, ReadsOfTheGate DEF GateInv
<1>6. ASSUME NEW fits \in BOOLEAN, Decide(fits)
      PROVE  GateInv'
  BY <1>2, <1>6, DecisionOfTheGate DEF GateInv
<1> QED  BY <1>4, <1>5, <1>6 DEF GateNext, GateReads, vars

THEOREM GateInvariance == GateSpec => []GateInv
<1>1. Spec => []IInv
  BY Invariance
<1>2. IInv => RowsHoldThePast
  BY PastOfRow DEF IInv
<1>3. GateInv /\ IInv' /\ RowsHoldThePast /\ RowsHoldThePast' /\ [GateNext]_vars
        => GateInv'
  BY GateStep
<1> QED  BY <1>1, <1>2, <1>3, InitGateInv, GateIsSilent, PTL DEF GateSpec

(* The decision is the one a single look at the registry would have given  *)
(* at some moment of the evaluation (evaluate reads the binding and the    *)
(* two keys over three connections, mutations commit in between).          *)
THEOREM DecisionIsOfOneMoment == GateSpec => []OneMomentDecides
<1>1. GateInv => OneMomentDecides
  BY DEF GateInv
<1> QED  BY <1>1, GateInvariance, PTL

(* Historical replay: evaluated again at the same timestamp, an admissible *)
(* relation is refused only because of a revocation effective by then.     *)
THEOREM ReplayStands == GateSpec => []ReplayIsStable
<1>1. GateInv => ReplayIsStable
  <2> SUFFICES ASSUME GateInv, verdict # None,
                      NEW b, b = bindings[verdict.relation.id].binding,
                      \A k \in {b.sourceKey, b.targetKey} :
                          ~(keys[k].revoked # None /\ keys[k].revoked <= verdict.at)
               PROVE  AdmissibleAt(verdict.relation, verdict.at, Len(ledger))
    BY DEF ReplayIsStable
  <2>1. PICK r, t : r = verdict.relation /\ t = verdict.at
    OBVIOUS
  <2>2. r \in Relations /\ t \in Times /\ Stands(r, t, b) /\ r.id \in RelationIds
    BY <2>1 DEF GateInv, VerdictStands, RelationIds
  <2>3. TypeOK /\ ReceiptsInRange /\ Len(ledger) \in Nat
        /\ DOMAIN ledger = 1..Len(ledger)
    BY DEF GateInv, RegistryInv, IInv, TypeOK
  <2>4. bindings[r.id] \in BoundRows /\ bindings[r.id].receipt \in DOMAIN ledger
    BY <2>2, <2>3 DEF Stands, TypeOK, ReceiptsInRange
  <2>5. ~(bindings[r.id].receipt > Len(ledger))
    BY <2>3, <2>4
  <2>6. BindingAt(r.id, Len(ledger)) = b
    BY <2>2, <2>5 DEF BindingAt, Stands
  <2>7. b.sourceKey \in Keys /\ b.targetKey \in Keys
    BY <2>2, <2>4 DEF Stands, BoundRows, Bindings
  <2>8. ASSUME NEW k \in Keys, NEW a, Held(k, a, t),
               ~(keys[k].revoked # None /\ keys[k].revoked <= t)
        PROVE  /\ RowAt(k, Len(ledger)) # None
               /\ RowAt(k, Len(ledger)).authority = a
               /\ KeyState(RowAt(k, Len(ledger)), t)
    <3>1. keys[k] # None /\ keys[k] \in Rows /\ k \in Registered
      BY <2>3, <2>8 DEF Held, TypeOK, Registered
    <3>2. keys[k].receipt \in DOMAIN ledger
      BY <2>3, <3>1 DEF ReceiptsInRange
    <3>3. ~(keys[k].receipt > Len(ledger))
      BY <2>3, <3>2
    <3>4. PICK row : row = keys[k]
      OBVIOUS
    <3>5. PICK old : old = [row EXCEPT !.revoked = None, !.reason = None]
      OBVIOUS
    <3>6. /\ old \in Rows /\ old.authority = row.authority
          /\ old.from = row.from /\ old.until = row.until /\ old.revoked = None
      BY <3>1, <3>4, <3>5 DEF Rows
    <3>7. old # None
      BY <3>6, KeyRegistryAssumption
    <3>8. RowAt(k, Len(ledger)) = row \/ RowAt(k, Len(ledger)) = old
      BY <3>1, <3>3, <3>4, <3>5 DEF RowAt
    <3>9. row.revoked # None => t < row.revoked
      <4>1. row.revoked \in Times \cup {None} /\ t \in Nat
        BY <2>2, <3>1, <3>4 DEF Rows, Times
      <4> QED  BY <2>8, <3>4, <4>1 DEF Times
    <3>10. KeyState(row, t) /\ KeyState(old, t)
      BY <2>8, <3>4, <3>6, <3>9 DEF KeyState, EffectiveAt, Held
    <3> QED  BY <2>8, <3>1, <3>4, <3>6, <3>7, <3>8, <3>10 DEF Held
  <2>9. /\ RowAt(b.sourceKey, Len(ledger)) # None
        /\ RowAt(b.sourceKey, Len(ledger)).authority = b.source
        /\ KeyState(RowAt(b.sourceKey, Len(ledger)), t)
        /\ RowAt(b.targetKey, Len(ledger)) # None
        /\ RowAt(b.targetKey, Len(ledger)).authority = b.target
        /\ KeyState(RowAt(b.targetKey, Len(ledger)), t)
    BY <2>1, <2>2, <2>7, <2>8 DEF Stands
  <2> QED  BY <2>1, <2>2, <2>6, <2>9 DEF AdmissibleAt, Admissible, Stands
<1> QED  BY <1>1, GateInvariance, PTL
=============================================================================
