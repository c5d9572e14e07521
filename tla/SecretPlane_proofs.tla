------------------------- MODULE SecretPlane_proofs -------------------------
(***************************************************************************)
(* Theorems about the secret plane for any number of threads, leases,      *)
(* versions and restarts.                                                  *)
(***************************************************************************)
EXTENDS SecretPlane, FiniteSetTheorems, SequenceTheorems, TLAPS

Executing == {"consume", "locate", "read", "consumer"}
Mutating == {"descriptor", "binding", "leases"}
Mutators == {"register", "rebind", "revoke", "destroy"}
Stages == {"idle", "issue", "bound", "destroy"} \cup Executing \cup Mutating

Calls == [at : Stages, op : {"issue", "execute"} \cup Mutators \cup {None},
          lease : Leases \cup {None}, descriptor : Descriptors \cup {None},
          locator : Versions \cup {None}, max_uses : 1..MaxUses \cup {None},
          late : BOOLEAN]

(* What a call knows at each of its statements, with leases ls.            *)
CallShape(call, ls) ==
    /\ call.at = "idle" <=> call = Idle
    /\ call.at = "issue" =>
          call.descriptor \in Descriptors /\ call.max_uses \in 1..MaxUses
    /\ call.at \in Executing =>
          call.lease \in Leases /\ ls[call.lease] # None
    /\ call.at \in Mutating =>
          /\ call.op \in Mutators
          /\ call.op \in {"register", "rebind"} => call.locator \in Versions
    /\ call.at \in {"bound", "destroy"} => call.op = "destroy"
    /\ call.at \in Mutating \cup {"bound", "destroy"} =>
          call.op = "register" \/ call.descriptor \in Descriptors
    /\ call.at \in {"read", "destroy"} => call.locator \in Versions

(* The types of the variables, and a lease is in the store when it was     *)
(* handed out.                                                             *)
Types ==
    /\ descriptor \in Descriptors \cup {None}
    /\ binding \in Versions \cup {None}
    /\ vault \subseteq Versions
    /\ leases \in [Leases -> CapabilityLeases \cup {None}]
    /\ leaseState \in [Leases -> LeaseStates \cup {None}]
    /\ \A l \in Leases : leases[l] = None <=> leaseState[l] = None
    /\ expired \subseteq Leases
    /\ calls \in [Callers -> Calls]
    /\ restarts \in Nat
    /\ dead \subseteq Leases
    /\ withdrawn \in BOOLEAN
    /\ shown \in [Leases -> Seq(Versions)]
    /\ overlapped \in BOOLEAN

CallShapes == \A c \in Callers : CallShape(calls[c], leases)

TypeInv == Types /\ CallShapes
---------------------------------------------------------------------------
LEMMA IdleIsACall ==
    Idle \in Calls /\ Idle.at = "idle"
  BY DEF Idle, Calls, Stages

(* The statements of the actions on `calls', one lemma for each form.      *)
LEMMA AfterEnter ==
    ASSUME Types, NEW c \in Callers, NEW call \in Calls, Enter(c, call)
    PROVE  /\ calls[c] = Idle
           /\ calls' \in [Callers -> Calls]
           /\ calls'[c] = call
           /\ \A d \in Callers \ {c} : calls'[d] = calls[d]
  BY DEF Types, Enter

LEMMA AfterGoto ==
    ASSUME Types, NEW c \in Callers, NEW at \in Stages, Goto(c, at)
    PROVE  /\ calls' \in [Callers -> Calls]
           /\ calls'[c] = [calls[c] EXCEPT !.at = at]
           /\ calls'[c].at = at
           /\ calls'[c].op = calls[c].op
           /\ calls'[c].lease = calls[c].lease
           /\ calls'[c].descriptor = calls[c].descriptor
           /\ calls'[c].locator = calls[c].locator
           /\ calls'[c].late = calls[c].late
           /\ \A d \in Callers \ {c} : calls'[d] = calls[d]
  BY DEF Types, Calls, Goto

LEMMA AfterLeave ==
    ASSUME Types, NEW c \in Callers, Leave(c)
    PROVE  /\ calls' \in [Callers -> Calls]
           /\ calls'[c] = Idle
           /\ \A d \in Callers \ {c} : calls'[d] = calls[d]
  BY IdleIsACall DEF Types, Leave
(* Leases are only added, so that the other calls keep their shape.        *)
LEMMA OneCallChanges ==
    ASSUME TypeInv, NEW c \in Callers,
           \A d \in Callers \ {c} : calls'[d] = calls[d],
           \A l \in Leases : leases[l] # None => leases'[l] # None,
           CallShape(calls'[c], leases')
    PROVE  CallShapes'
  <1> SUFFICES ASSUME NEW d \in Callers
               PROVE  CallShape(calls'[d], leases')
    BY DEF CallShapes
  <1>1. CASE d = c
    BY <1>1
  <1>2. CASE d # c
    <2>1. calls'[d] = calls[d] /\ CallShape(calls[d], leases)
      BY <1>2 DEF TypeInv, CallShapes
    <2> QED  BY <2>1 DEF CallShape
  <1> QED  BY <1>1, <1>2

LEMMA InitTypes == Init => TypeInv
  <1> SUFFICES ASSUME Init
               PROVE  TypeInv
    OBVIOUS
  <1>1. shown \in [Leases -> Seq(Versions)]
    <2>1. <<>> \in Seq(Versions)
      OBVIOUS
    <2> QED  BY <2>1 DEF Init
  <1>2. Types
    BY <1>1, IdleIsACall DEF Init, Types
  <1>3. CallShapes
    BY IdleIsACall DEF Init, CallShapes, CallShape, Executing, Mutating
  <1> QED  BY <1>2, <1>3 DEF TypeInv
---------------------------------------------------------------------------
(* Every action but the restart and the passing of time changes one call.  *)
CallStep(c) ==
    \/ \E v \in Versions : RegisterSecret(c, v) \/ RebindSecret(c, v)
    \/ \E u \in 1..MaxUses : IssueLease(c, u)
    \/ \E l \in Leases : RegisterLease(c, l) \/ Execute(c, l)
    \/ Consume(c) \/ Locate(c) \/ ReadVault(c) \/ ConsumerReturns(c)
    \/ RevokeSecret(c) \/ DestroySecret(c) \/ DestroyLocate(c)
    \/ VaultDestroy(c)
    \/ AssignDescriptor(c) \/ AssignBinding(c) \/ RevokeLeases(c)

(* What the actions leave of the types, apart from the calls.              *)
LEMMA StoreTypes ==
    ASSUME TypeInv, NEW c \in Callers, CallStep(c),
           calls' \in [Callers -> Calls]
    PROVE  Types' /\ \A l \in Leases : leases[l] # None => leases'[l] # None
  <1> USE DEF TypeInv, Types, CallShapes, CallShape, history, results, plane
  <1> CallShape(calls[c], leases)
    OBVIOUS
  <1> calls[c] \in Calls
    OBVIOUS
  <1>1. ASSUME NEW v \in Versions, RegisterSecret(c, v)
        PROVE  Types' /\ leases' = leases
    BY <1>1 DEF RegisterSecret, Enter
  <1>2. ASSUME NEW v \in Versions, RebindSecret(c, v)
        PROVE  Types' /\ leases' = leases
    BY <1>2 DEF RebindSecret, Enter
  <1>3. ASSUME NEW u \in 1..MaxUses, IssueLease(c, u)
        PROVE  Types' /\ leases' = leases
    BY <1>3 DEF IssueLease, Enter
  <1>4. ASSUME NEW l \in Leases, RegisterLease(c, l)
        PROVE  /\ Types'
               /\ \A k \in Leases : leases[k] # None => leases'[k] # None
    <2> DEFINE lease == [version |-> calls[c].descriptor.version,
                         max_uses |-> calls[c].max_uses]
               state == [uses |-> 0, revoked |-> FALSE]
    <2>1. lease \in CapabilityLeases /\ lease # None
      BY <1>4, NoneAssumption DEF RegisterLease, CapabilityLeases, Descriptors
    <2>2. state \in LeaseStates /\ state # None
      <3>1. 0 \in 0..MaxUses
        BY SecretPlaneAssumption
      <3>2. state \in LeaseStates
        BY <3>1 DEF LeaseStates
      <3> QED  BY <3>2, NoneAssumption
    <2>3. leases' = [leases EXCEPT ![l] = lease] /\ leases[l] = None
      BY <1>4 DEF RegisterLease
    <2>4. leaseState' = [leaseState EXCEPT ![l] = state]
      BY <1>4 DEF RegisterLease
    <2>5. UNCHANGED <<descriptor, binding, vault, expired, restarts, dead,
                      withdrawn, shown, overlapped>>
      BY <1>4 DEF RegisterLease
    <2>6. /\ leases' \in [Leases -> CapabilityLeases \cup {None}]
          /\ leaseState' \in [Leases -> LeaseStates \cup {None}]
          /\ \A k \in Leases : leases'[k] = None <=> leaseState'[k] = None
          /\ \A k \in Leases : leases[k] # None => leases'[k] # None
      BY <2>1, <2>2, <2>3, <2>4
    <2> QED  BY <2>5, <2>6
  <1>5. ASSUME NEW l \in Leases, Execute(c, l)
        PROVE  Types' /\ leases' = leases
    BY <1>5 DEF Execute, Enter
  <1>6. ASSUME Consume(c)
        PROVE  Types' /\ leases' = leases
    <2> DEFINE l == calls[c].lease
    <2>1. l \in Leases /\ leases[l] # None
      BY <1>6 DEF Consume, Executing
    <2>2. leases[l] \in CapabilityLeases /\ leaseState[l] \in LeaseStates
      BY <2>1
    <2>3. CASE ~Consumable(l)
      BY <1>6, <2>3 DEF Consume
    <2>4. CASE Consumable(l)
      <3>1. leaseState' = [leaseState EXCEPT ![l].uses = @ + 1]
        BY <1>6, <2>4 DEF Consume
      <3> DEFINE state == [uses |-> leaseState[l].uses + 1,
                           revoked |-> leaseState[l].revoked]
      <3>2. leaseState'[l] = state
        BY <2>1, <2>2, <3>1 DEF LeaseStates
      <3>3. state \in LeaseStates /\ state # None
        BY <2>2, <2>4, NoneAssumption, SecretPlaneAssumption
        DEF Consumable, LeaseStates, CapabilityLeases
      <3>4. /\ leaseState' \in [Leases -> LeaseStates \cup {None}]
            /\ \A k \in Leases : leaseState'[k] = None <=> leaseState[k] = None
        BY <2>1, <2>2, <3>1, <3>2, <3>3, NoneAssumption
      <3>5. UNCHANGED <<descriptor, binding, vault, leases, expired, restarts,
                        dead, withdrawn, shown, overlapped>>
        BY <1>6 DEF Consume
      <3> QED  BY <3>4, <3>5
    <2> QED  BY <2>3, <2>4
  <1>7. ASSUME Locate(c) \/ ConsumerReturns(c) \/ DestroyLocate(c)
        PROVE  Types' /\ leases' = leases
    BY <1>7 DEF Locate, ConsumerReturns, DestroyLocate
  <1>8. ASSUME ReadVault(c)
        PROVE  Types' /\ leases' = leases
    <2>1. calls[c].lease \in Leases /\ calls[c].locator \in Versions
      BY <1>8 DEF ReadVault, Executing
    <2>2. shown' \in [Leases -> Seq(Versions)]
      <3>1. CASE calls[c].locator \in vault
        <4>1. shown' = [shown EXCEPT ![calls[c].lease] =
                           Append(@, calls[c].locator)]
          BY <1>8, <3>1 DEF ReadVault
        <4> QED  BY <2>1, <4>1, AppendProperties
      <3>2. CASE calls[c].locator \notin vault
        BY <1>8, <3>2 DEF ReadVault
      <3> QED  BY <3>1, <3>2
    <2>3. UNCHANGED <<descriptor, binding, vault, leases, leaseState, expired,
                      restarts, dead, withdrawn, overlapped>>
      BY <1>8 DEF ReadVault
    <2> QED  BY <2>2, <2>3
  <1>9. ASSUME RevokeSecret(c) \/ DestroySecret(c)
        PROVE  Types' /\ leases' = leases
    BY <1>9 DEF RevokeSecret, DestroySecret, Enter
  <1>10. ASSUME VaultDestroy(c)
         PROVE  Types' /\ leases' = leases
    BY <1>10 DEF VaultDestroy
  <1>11. ASSUME AssignDescriptor(c)
         PROVE  Types' /\ leases' = leases
    <2>1. /\ calls[c].op = "register" \/ calls[c].descriptor \in Descriptors
          /\ calls[c].op \in Mutators
          /\ calls[c].op \in {"register", "rebind"} => calls[c].locator \in Versions
      BY <1>11 DEF AssignDescriptor, Mutating
    <2>2. Updated(calls[c]) \in Descriptors
      BY <2>1 DEF Updated, Mutators, Descriptors
    <2> QED  BY <1>11, <2>2 DEF AssignDescriptor
  <1>12. ASSUME AssignBinding(c)
         PROVE  Types' /\ leases' = leases
    BY <1>12 DEF AssignBinding, Mutating
  <1>13. ASSUME RevokeLeases(c)
         PROVE  Types' /\ leases' = leases
    <2>1. leaseState' = [l \in Leases |->
                           IF leaseState[l] # None
                           THEN [leaseState[l] EXCEPT !.revoked = TRUE]
                           ELSE None]
      BY <1>13 DEF RevokeLeases, Registered
    <2>2. ASSUME NEW l \in Leases, leaseState[l] # None
          PROVE  /\ [leaseState[l] EXCEPT !.revoked = TRUE] \in LeaseStates
                 /\ [leaseState[l] EXCEPT !.revoked = TRUE] # None
      <3>1. leaseState[l] \in LeaseStates
        BY <2>2
      <3>2. [leaseState[l] EXCEPT !.revoked = TRUE] \in LeaseStates
        BY <3>1 DEF LeaseStates
      <3> QED  BY <3>2, NoneAssumption
    <2>3. /\ leaseState' \in [Leases -> LeaseStates \cup {None}]
          /\ \A k \in Leases : leaseState'[k] = None <=> leaseState[k] = None
      BY <2>1, <2>2
    <2>4. dead' \subseteq Leases /\ withdrawn' \in BOOLEAN
      BY <1>13 DEF RevokeLeases, Registered
    <2>5. UNCHANGED <<descriptor, binding, vault, leases, expired, restarts,
                      shown, overlapped>>
      BY <1>13 DEF RevokeLeases
    <2> QED  BY <2>3, <2>4, <2>5
  <1> QED  BY <1>1, <1>2, <1>3, <1>4, <1>5, <1>6, <1>7, <1>8, <1>9, <1>10,
              <1>11, <1>12, <1>13 DEF CallStep

(* What they leave of the call itself.                                     *)
Moved(c) ==
    /\ calls' \in [Callers -> Calls]
    /\ CallShape(calls'[c], leases')
    /\ \A d \in Callers \ {c} : calls'[d] = calls[d]

LEMMA LeaveMoves ==
    ASSUME Types, NEW c \in Callers, Leave(c)
    PROVE  Moved(c)
  <1>1. CallShape(Idle, leases')
    BY DEF CallShape, Idle, Executing, Mutating
  <1> QED  BY <1>1, AfterLeave DEF Moved

LEMMA EnterMoves ==
    ASSUME Types, NEW c \in Callers, NEW call \in Calls, Enter(c, call),
           CallShape(call, leases')
    PROVE  Moved(c)
  BY AfterEnter DEF Moved

(* A call that goes on without having to know more.                        *)
LEMMA GotoMoves ==
    ASSUME Types, NEW c \in Callers, NEW at \in Stages, Goto(c, at),
           CallShape(calls[c], leases), UNCHANGED leases,
           \/ calls[c].at \in Mutating \cup {"destroy"} /\ at \in Mutating
           \/ calls[c].at \in Executing /\ at \in Executing \ {"read"}
    PROVE  Moved(c)
  <1>1. calls[c].at \in Mutating \cup {"destroy"} /\ at \in Mutating
           => CallShape(calls'[c], leases')
    BY AfterGoto, IdleIsACall DEF CallShape, Mutating, Executing, Mutators
  <1>2. calls[c].at \in Executing /\ at \in Executing \ {"read"}
           => CallShape(calls'[c], leases')
    BY AfterGoto, IdleIsACall DEF CallShape, Mutating, Executing
  <1> QED  BY <1>1, <1>2, AfterGoto DEF Moved

LEMMA CallsMove ==
    ASSUME TypeInv, NEW c \in Callers, CallStep(c)
    PROVE  Moved(c)
  <1>0. Types /\ CallShape(calls[c], leases) /\ calls[c] \in Calls
    BY DEF TypeInv, CallShapes, Types
  <1>1. ASSUME NEW v \in Versions, RegisterSecret(c, v)
        PROVE  Moved(c)
    <2> DEFINE call == [Idle EXCEPT !.at = "descriptor", !.op = "register",
                            !.locator = v]
    <2>1. call \in Calls /\ CallShape(call, leases')
      BY DEF Idle, Calls, Stages, Mutators, Mutating, Executing, CallShape
    <2> QED  BY <1>0, <1>1, <2>1, EnterMoves DEF RegisterSecret
  <1>2. ASSUME NEW v \in Versions, RebindSecret(c, v)
        PROVE  Moved(c)
    <2> DEFINE call == [Idle EXCEPT !.at = "descriptor", !.op = "rebind",
                            !.descriptor = descriptor, !.locator = v]
    <2>1. descriptor \in Descriptors
      BY <1>0, <1>2 DEF RebindSecret, Active, Types
    <2>2. call \in Calls /\ CallShape(call, leases')
      BY <2>1 DEF Idle, Calls, Stages, Mutators, Mutating, Executing, CallShape
    <2> QED  BY <1>0, <1>2, <2>2, EnterMoves DEF RebindSecret
  <1>3. ASSUME NEW u \in 1..MaxUses, IssueLease(c, u)
        PROVE  Moved(c)
    <2> DEFINE call == [Idle EXCEPT !.at = "issue", !.op = "issue",
                            !.descriptor = descriptor, !.max_uses = u]
    <2>1. descriptor \in Descriptors
      BY <1>0, <1>3 DEF IssueLease, Active, Types
    <2>2. call \in Calls /\ CallShape(call, leases')
      BY <2>1 DEF Idle, Calls, Stages, Mutators, Mutating, Executing, CallShape
    <2> QED  BY <1>0, <1>3, <2>2, EnterMoves DEF IssueLease
  <1>4. ASSUME NEW l \in Leases, RegisterLease(c, l)
        PROVE  Moved(c)
    BY <1>0, <1>4, LeaveMoves DEF RegisterLease
  <1>5. ASSUME NEW l \in Leases, Execute(c, l)
        PROVE  Moved(c)
    <2> DEFINE call == [Idle EXCEPT !.at = "consume", !.op = "execute",
                            !.lease = l, !.late = l \in dead \cup expired]
    <2>1. leases[l] # None /\ leases' = leases
      BY <1>5 DEF Execute, Verified
    <2>2. (l \in dead \cup expired) \in BOOLEAN
      OBVIOUS
    <2>3. call \in Calls
      BY <2>2 DEF Idle, Calls, Stages, Executing, Mutators
    <2>4. /\ call.at = "consume" /\ call.lease = l
          /\ call # Idle
      BY DEF Idle
    <2>5. CallShape(call, leases')
      BY <2>1, <2>4 DEF Mutating, Executing, CallShape
    <2> QED  BY <1>0, <1>5, <2>3, <2>5, EnterMoves DEF Execute
  <1>6. ASSUME Consume(c)
        PROVE  Moved(c)
    <2>1. calls[c].at = "consume" /\ leases' = leases
          /\ (Goto(c, "locate") \/ Leave(c))
      BY <1>6 DEF Consume
    <2> QED  BY <1>0, <2>1, LeaveMoves, GotoMoves DEF Executing, Stages
  <1>7. ASSUME Locate(c)
        PROVE  Moved(c)
    <2>1. CASE binding = None
      BY <1>0, <1>7, <2>1, LeaveMoves DEF Locate
    <2>2. CASE binding # None
      <3>1. /\ calls' = [calls EXCEPT ![c].at = "read", ![c].locator = binding]
            /\ leases' = leases
        BY <1>7, <2>2 DEF Locate
      <3>2. calls[c].at = "locate" /\ binding \in Versions
        BY <1>0, <1>7, <2>2 DEF Locate, Types
      <3>3. /\ calls'[c] \in Calls
            /\ calls'[c].at = "read" /\ calls'[c].locator = binding
            /\ calls'[c].lease = calls[c].lease
        BY <1>0, <3>1, <3>2 DEF Types, Calls, Stages, Executing
      <3>4. CallShape(calls'[c], leases')
        BY <1>0, <3>1, <3>2, <3>3, IdleIsACall
        DEF CallShape, Executing, Mutating
      <3>5. /\ calls' \in [Callers -> Calls]
            /\ \A d \in Callers \ {c} : calls'[d] = calls[d]
        BY <1>0, <3>1, <3>3 DEF Types
      <3> QED  BY <3>4, <3>5 DEF Moved
    <2> QED  BY <2>1, <2>2
  <1>8. ASSUME ReadVault(c)
        PROVE  Moved(c)
    <2>1. calls[c].at = "read" /\ leases' = leases
          /\ (Goto(c, "consumer") \/ Leave(c))
      BY <1>8 DEF ReadVault
    <2> QED  BY <1>0, <2>1, LeaveMoves, GotoMoves DEF Executing, Stages
  <1>9. ASSUME ConsumerReturns(c)
        PROVE  Moved(c)
    BY <1>0, <1>9, LeaveMoves DEF ConsumerReturns
  <1>10. ASSUME RevokeSecret(c)
         PROVE  Moved(c)
    <2> DEFINE call == [Idle EXCEPT !.at = "descriptor", !.op = "revoke",
                            !.descriptor = descriptor]
    <2>1. descriptor \in Descriptors
      BY <1>0, <1>10 DEF RevokeSecret, Types
    <2>2. call \in Calls /\ CallShape(call, leases')
      BY <2>1 DEF Idle, Calls, Stages, Mutators, Mutating, Executing, CallShape
    <2> QED  BY <1>0, <1>10, <2>2, EnterMoves DEF RevokeSecret
  <1>11. ASSUME DestroySecret(c)
         PROVE  Moved(c)
    <2> DEFINE call == [Idle EXCEPT !.at = "bound", !.op = "destroy",
                            !.descriptor = descriptor]
    <2>1. descriptor \in Descriptors
      BY <1>0, <1>11 DEF DestroySecret, Types
    <2>2. call \in Calls /\ CallShape(call, leases')
      BY <2>1 DEF Idle, Calls, Stages, Mutators, Mutating, Executing, CallShape
    <2> QED  BY <1>0, <1>11, <2>2, EnterMoves DEF DestroySecret
  <1>12. ASSUME DestroyLocate(c)
         PROVE  Moved(c)
    <2>1. CASE binding = None
      BY <1>0, <1>12, <2>1, LeaveMoves DEF DestroyLocate
    <2>2. CASE binding # None
      <3>1. calls' = [calls EXCEPT ![c].at = "destroy", ![c].locator = binding]
        BY <1>12, <2>2 DEF DestroyLocate
      <3>2. calls[c].at = "bound" /\ binding \in Versions
        BY <1>0, <1>12, <2>2 DEF DestroyLocate, Types
      <3>3. /\ calls'[c] \in Calls
            /\ calls'[c].at = "destroy" /\ calls'[c].locator = binding
            /\ calls'[c].op = calls[c].op
            /\ calls'[c].descriptor = calls[c].descriptor
        BY <1>0, <3>1, <3>2 DEF Types, Calls, Stages
      <3>4. CallShape(calls'[c], leases')
        BY <1>0, <3>2, <3>3, IdleIsACall DEF CallShape, Executing, Mutating
      <3>5. /\ calls' \in [Callers -> Calls]
            /\ \A d \in Callers \ {c} : calls'[d] = calls[d]
        BY <1>0, <3>1, <3>3 DEF Types
      <3> QED  BY <3>4, <3>5 DEF Moved
    <2> QED  BY <2>1, <2>2
  <1>13. ASSUME VaultDestroy(c)
         PROVE  Moved(c)
    <2>1. calls[c].at = "destroy" /\ leases' = leases
          /\ (Goto(c, "descriptor") \/ Leave(c))
      BY <1>13 DEF VaultDestroy
    <2> QED  BY <1>0, <2>1, LeaveMoves, GotoMoves DEF Mutating, Stages
  <1>14. ASSUME AssignDescriptor(c)
         PROVE  Moved(c)
    <2>1. calls[c].at = "descriptor" /\ leases' = leases /\ Goto(c, "binding")
      BY <1>14 DEF AssignDescriptor
    <2> QED  BY <1>0, <2>1, GotoMoves DEF Mutating, Stages
  <1>15. ASSUME AssignBinding(c)
         PROVE  Moved(c)
    <2>1. /\ calls[c].at = "binding" /\ leases' = leases
          /\ Leave(c) \/ Goto(c, "leases")
      BY <1>15 DEF AssignBinding
    <2> QED  BY <1>0, <2>1, LeaveMoves, GotoMoves DEF Mutating, Stages
  <1>16. ASSUME RevokeLeases(c)
         PROVE  Moved(c)
    BY <1>0, <1>16, LeaveMoves DEF RevokeLeases
  <1> QED  BY <1>1, <1>2, <1>3, <1>4, <1>5, <1>6, <1>7, <1>8, <1>9, <1>10,
              <1>11, <1>12, <1>13, <1>14, <1>15, <1>16 DEF CallStep

LEMMA RestartTypes ==
    ASSUME TypeInv, Restart
    PROVE  TypeInv'
  <1>1. Types'
    <2>1. /\ descriptor' = None /\ binding' = None
          /\ restarts' \in Nat
      BY DEF Restart, TypeInv, Types
    <2>2. withdrawn' \in BOOLEAN
      BY Zenon DEF Restart
    <2>3. calls' \in [Callers -> Calls]
      BY IdleIsACall DEF Restart
    <2>4. UNCHANGED <<vault, leases, leaseState, expired, dead, shown, overlapped>>
      BY DEF Restart
    <2> QED  BY <2>1, <2>2, <2>3, <2>4 DEF TypeInv, Types
  <1>2. CallShapes'
    BY IdleIsACall DEF Restart, CallShapes, CallShape, Executing, Mutating
  <1> QED  BY <1>1, <1>2 DEF TypeInv

LEMMA ExpireTypes ==
    ASSUME TypeInv, NEW l \in Leases, Expire(l)
    PROVE  TypeInv'
  BY DEF TypeInv, Types, CallShapes, CallShape, Expire, plane, history

LEMMA StutterTypes ==
    ASSUME TypeInv, UNCHANGED vars
    PROVE  TypeInv'
  BY DEF TypeInv, Types, CallShapes, CallShape, vars

LEMMA TypeStep == TypeInv /\ [Next]_vars => TypeInv'
  <1> SUFFICES ASSUME TypeInv, [Next]_vars
               PROVE  TypeInv'
    OBVIOUS
  <1>1. ASSUME NEW c \in Callers, CallStep(c)
        PROVE  TypeInv'
    <2>1. Moved(c)
      BY <1>1, CallsMove
    <2>2. Types' /\ \A l \in Leases : leases[l] # None => leases'[l] # None
      BY <1>1, <2>1, StoreTypes DEF Moved
    <2>3. CallShapes'
      BY <2>1, <2>2, OneCallChanges DEF Moved
    <2> QED  BY <2>2, <2>3 DEF TypeInv
  <1> QED  BY <1>1, RestartTypes, ExpireTypes, StutterTypes DEF Next, CallStep

(* The types of the plane.                                                 *)
THEOREM TypeCorrect == Spec => []TypeInv
  BY InitTypes, TypeStep, PTL DEF Spec
---------------------------------------------------------------------------
(* Calls that have counted a use of l and not yet shown its material.      *)
InFlight(l) ==
    {c \in Callers : calls[c].at \in {"locate", "read"} /\ calls[c].lease = l}

(* Every use that was shown, or may yet be shown, is counted.              *)
Counted(l) ==
    IF leaseState[l] = None
    THEN shown[l] = <<>>
    ELSE /\ Len(shown[l]) + Cardinality(InFlight(l)) <= leaseState[l].uses
         /\ leaseState[l].uses <= leases[l].max_uses

UsesCounted == \A l \in Leases : Counted(l)

(* The store knows every dead lease as revoked, and a call that came too   *)
(* late never gets beyond the store.                                       *)
LateCallsFail ==
    /\ \A l \in dead : leaseState[l] # None /\ leaseState[l].revoked
    /\ \A c \in Callers :
          /\ calls[c].at = "consume" /\ calls[c].late => calls[c].lease \in dead
          /\ calls[c].at \in {"locate", "read", "consumer"} => ~calls[c].late

(* While callers take turns: one call at a time, the descriptor and the    *)
(* binding agree except between their two assignments, and a call works on *)
(* the descriptor as it is.                                                *)
OneAtATime ==
    \A c, d \in Callers : calls[c] # Idle /\ calls[d] # Idle => c = d

Coherent ==
    (\A c \in Callers : calls[c].at # "binding") =>
        binding = IF Active THEN descriptor.version ELSE None

TurnShape(call) ==
    /\ call.at \in Executing =>
          Active /\ descriptor.version = leases[call.lease].version
    /\ call.at = "read" => call.locator = leases[call.lease].version
    /\ call.at \in {"bound", "destroy", "descriptor"} =>
          call.descriptor = descriptor
    /\ call.at = "descriptor" /\ call.op = "register" => descriptor = None
    /\ call.at = "descriptor" /\ call.op = "rebind" => Active
    /\ call.at = "destroy" => call.locator = descriptor.version
    /\ call.at = "descriptor" /\ call.op = "destroy" =>
          descriptor.version \notin vault
    /\ call.at \in {"binding", "leases"} =>
          IF call.op \in {"register", "rebind"}
          THEN Active /\ descriptor.version = call.locator
          ELSE descriptor # None /\ ~Active

Withdrawn == withdrawn => descriptor # None /\ ~Active /\ binding = None

DestroyedIsGone ==
    (descriptor # None /\ descriptor.state = "DESTROYED")
        => descriptor.version \notin vault

ShownOwnVersion ==
    \A l \in Leases : \A i \in DOMAIN shown[l] :
        leases[l] # None /\ shown[l][i] = leases[l].version

Turns ==
    ~overlapped =>
        /\ OneAtATime
        /\ Coherent
        /\ \A c \in Callers : TurnShape(calls[c])
        /\ Withdrawn
        /\ DestroyedIsGone
        /\ ShownOwnVersion
---------------------------------------------------------------------------
(* A step that does nothing with leases: what is in flight after it was so *)
(* before, with the same lease.                                            *)
Flying == {"locate", "read"}

Quiet(c) ==
    /\ Moved(c)
    /\ UNCHANGED <<leases, leaseState, shown, dead>>
    /\ calls'[c].at \notin {"consume", "consumer"}
    /\ calls'[c].at \in Flying =>
          /\ calls[c].at \in Flying
          /\ calls'[c].lease = calls[c].lease
          /\ calls'[c].late = calls[c].late

Loud(c) ==
    \/ \E l \in Leases : RegisterLease(c, l) \/ Execute(c, l)
    \/ Consume(c) \/ ReadVault(c) \/ RevokeLeases(c)

LEMMA QuietOrLoud ==
    ASSUME TypeInv, NEW c \in Callers, CallStep(c)
    PROVE  Quiet(c) \/ Loud(c)
  <1> USE DEF history, results
  <1>0. Moved(c) /\ Types /\ CallShape(calls[c], leases)
    BY CallsMove DEF TypeInv, CallShapes
  <1>2. ASSUME UNCHANGED <<leases, leaseState, shown, dead>>,
               NEW call \in Calls, Enter(c, call),
               call.at \in {"issue", "descriptor", "bound"}
        PROVE  Quiet(c)
    BY <1>0, <1>2, AfterEnter DEF Quiet, Flying
  <1>3. ASSUME UNCHANGED <<leases, leaseState, shown, dead>>, Leave(c)
        PROVE  Quiet(c)
    BY <1>0, <1>3, AfterLeave, IdleIsACall DEF Quiet, Flying
  <1>4. ASSUME UNCHANGED <<leases, leaseState, shown, dead>>,
               NEW at \in Mutating, Goto(c, at)
        PROVE  Quiet(c)
    BY <1>0, <1>4, AfterGoto DEF Quiet, Flying, Mutating, Stages
  <1>5. descriptor \in Descriptors \cup {None}
    BY <1>0 DEF Types
  <1>1. ASSUME NEW v \in Versions, RegisterSecret(c, v)
        PROVE  Quiet(c)
    <2> DEFINE call == [Idle EXCEPT !.at = "descriptor", !.op = "register",
                            !.locator = v]
    <2>1. call \in Calls /\ call.at = "descriptor"
      BY DEF Idle, Calls, Stages, Mutators, Mutating, Executing
    <2>2. /\ Enter(c, call)
          /\ UNCHANGED <<leases, leaseState, shown, dead>>
      BY <1>1 DEF RegisterSecret
    <2> QED  BY <1>2, <2>1, <2>2
  <1>6. ASSUME NEW v \in Versions, RebindSecret(c, v)
        PROVE  Quiet(c)
    <2> DEFINE call == [Idle EXCEPT !.at = "descriptor", !.op = "rebind",
                            !.descriptor = descriptor, !.locator = v]
    <2>1. call \in Calls /\ call.at = "descriptor"
      BY <1>5 DEF Idle, Calls, Stages, Mutators, Mutating, Executing
    <2>2. /\ Enter(c, call)
          /\ UNCHANGED <<leases, leaseState, shown, dead>>
      BY <1>6 DEF RebindSecret
    <2> QED  BY <1>2, <2>1, <2>2
  <1>7. ASSUME NEW u \in 1..MaxUses, IssueLease(c, u)
        PROVE  Quiet(c)
    <2> DEFINE call == [Idle EXCEPT !.at = "issue", !.op = "issue",
                            !.descriptor = descriptor, !.max_uses = u]
    <2>1. call \in Calls /\ call.at = "issue"
      BY <1>5 DEF Idle, Calls, Stages, Mutators, Mutating, Executing
    <2>2. /\ Enter(c, call)
          /\ UNCHANGED <<leases, leaseState, shown, dead>>
      BY <1>7 DEF IssueLease
    <2> QED  BY <1>2, <2>1, <2>2
  <1>8. ASSUME RevokeSecret(c)
        PROVE  Quiet(c)
    <2> DEFINE call == [Idle EXCEPT !.at = "descriptor", !.op = "revoke",
                            !.descriptor = descriptor]
    <2>1. call \in Calls /\ call.at = "descriptor"
      BY <1>5 DEF Idle, Calls, Stages, Mutators, Mutating, Executing
    <2>2. /\ Enter(c, call)
          /\ UNCHANGED <<leases, leaseState, shown, dead>>
      BY <1>8 DEF RevokeSecret
    <2> QED  BY <1>2, <2>1, <2>2
  <1>9. ASSUME DestroySecret(c)
         PROVE  Quiet(c)
    <2> DEFINE call == [Idle EXCEPT !.at = "bound", !.op = "destroy",
                            !.descriptor = descriptor]
    <2>1. call \in Calls /\ call.at = "bound"
      BY <1>5 DEF Idle, Calls, Stages, Mutators, Mutating, Executing
    <2>2. /\ Enter(c, call)
          /\ UNCHANGED <<leases, leaseState, shown, dead>>
      BY <1>9 DEF DestroySecret
    <2> QED  BY <1>2, <2>1, <2>2
  <1>10. ASSUME Locate(c)
         PROVE  Quiet(c)
    <2>1. CASE binding = None
      BY <1>3, <1>10, <2>1 DEF Locate
    <2>2. CASE binding # None
      BY <1>0, <1>10, <2>2 DEF Locate, Quiet, Flying, Types, Calls
    <2> QED  BY <2>1, <2>2
  <1>11. ASSUME DestroyLocate(c)
         PROVE  Quiet(c)
    <2>1. CASE binding = None
      BY <1>3, <1>11, <2>1 DEF DestroyLocate
    <2>2. CASE binding # None
      BY <1>0, <1>11, <2>2 DEF DestroyLocate, Quiet, Flying, Types, Calls
    <2> QED  BY <2>1, <2>2
  <1>12. ASSUME ConsumerReturns(c)
         PROVE  Quiet(c)
    BY <1>3, <1>12 DEF ConsumerReturns
  <1>13. ASSUME VaultDestroy(c)
         PROVE  Quiet(c)
    BY <1>3, <1>4, <1>13 DEF VaultDestroy, Mutating
  <1>14. ASSUME AssignDescriptor(c)
         PROVE  Quiet(c)
    BY <1>4, <1>14 DEF AssignDescriptor, Mutating
  <1>15. ASSUME AssignBinding(c)
         PROVE  Quiet(c)
    BY <1>3, <1>4, <1>15 DEF AssignBinding, Mutating
  <1> QED  BY <1>1, <1>6, <1>7, <1>8, <1>9, <1>10, <1>11, <1>12, <1>13,
              <1>14, <1>15 DEF CallStep, Loud
---------------------------------------------------------------------------
LEMMA CallerSets ==
    ASSUME NEW S \in SUBSET Callers
    PROVE  /\ IsFiniteSet(S) /\ Cardinality(S) \in Nat
           /\ \A T \in SUBSET S : Cardinality(T) <= Cardinality(S)
           /\ \A c \in S : Cardinality(S \ {c}) = Cardinality(S) - 1
           /\ \A c \in Callers \ S : Cardinality(S \cup {c}) = Cardinality(S) + 1
  <1>1. IsFiniteSet(S)
    BY NoneAssumption, FS_Subset
  <1> QED  BY <1>1, FS_CardinalityType, FS_Subset, FS_AddElement, FS_RemoveElement

(* Nothing new is in flight, and nothing is newly shown.                   *)
LEMMA StaysCounted ==
    ASSUME TypeInv, TypeInv', NEW l \in Leases, Counted(l),
           InFlight(l)' \subseteq InFlight(l), shown'[l] = shown[l],
           leaseState'[l] = None <=> leaseState[l] = None,
           leaseState[l] # None =>
              /\ leaseState'[l].uses = leaseState[l].uses
              /\ leases'[l] = leases[l]
    PROVE  Counted(l)'
  <1>1. CASE leaseState[l] = None
    BY <1>1 DEF Counted
  <1>2. CASE leaseState[l] # None
    <2>1. /\ Cardinality(InFlight(l)) \in Nat
          /\ Cardinality(InFlight(l)') \in Nat
          /\ Cardinality(InFlight(l)') <= Cardinality(InFlight(l))
      <3>1. InFlight(l) \in SUBSET Callers /\ InFlight(l)' \in SUBSET InFlight(l)
        BY DEF InFlight
      <3> QED  BY <3>1, CallerSets
    <2>2. Len(shown[l]) \in Nat /\ leaseState[l].uses \in Nat
      BY <1>2, LenProperties DEF TypeInv, Types, LeaseStates
    <2>3. /\ Len(shown[l]) + Cardinality(InFlight(l)) <= leaseState[l].uses
          /\ leaseState[l].uses <= leases[l].max_uses
      BY <1>2 DEF Counted
    <2>4. Len(shown'[l]) + Cardinality(InFlight(l)') <= leaseState'[l].uses
      BY <1>2, <2>1, <2>2, <2>3
    <2> QED  BY <1>2, <2>3, <2>4 DEF Counted
  <1> QED  BY <1>1, <1>2

LEMMA CountsOnQuiet ==
    ASSUME TypeInv, TypeInv', UsesCounted, NEW c \in Callers, Quiet(c)
    PROVE  UsesCounted'
  <1> SUFFICES ASSUME NEW l \in Leases
               PROVE  Counted(l)'
    BY DEF UsesCounted
  <1>1. InFlight(l)' \subseteq InFlight(l)
    BY DEF InFlight, Quiet, Moved, Flying
  <1>2. UNCHANGED <<leases, leaseState, shown>>
    BY DEF Quiet
  <1> QED  BY <1>1, <1>2, StaysCounted DEF UsesCounted

LEMMA CountsOnRegister ==
    ASSUME TypeInv, TypeInv', UsesCounted, NEW c \in Callers,
           NEW k \in Leases, RegisterLease(c, k)
    PROVE  UsesCounted'
  <1> SUFFICES ASSUME NEW l \in Leases
               PROVE  Counted(l)'
    BY DEF UsesCounted
  <1>1. calls'[c] = Idle /\ \A d \in Callers \ {c} : calls'[d] = calls[d]
    BY AfterLeave DEF RegisterLease, TypeInv
  <1>2. InFlight(l)' \subseteq InFlight(l)
    BY <1>1, IdleIsACall DEF InFlight
  <1>3. CASE l # k
    <2>1. /\ leases'[l] = leases[l] /\ leaseState'[l] = leaseState[l]
          /\ shown' = shown
      BY <1>3 DEF RegisterLease, history, TypeInv, Types
    <2> QED  BY <1>2, <2>1, StaysCounted DEF UsesCounted
  <1>4. CASE l = k
    <2>1. leaseState[l] = None
      BY <1>4 DEF RegisterLease, TypeInv, Types
    <2>2. shown'[l] = <<>> /\ InFlight(l)' = {}
      <3>1. InFlight(l) = {}
        BY <2>1 DEF InFlight, TypeInv, Types, CallShapes, CallShape, Executing
      <3>2. shown' = shown /\ shown[l] = <<>>
        BY <2>1 DEF UsesCounted, Counted, RegisterLease, history
      <3> QED  BY <1>2, <3>1, <3>2
    <2>3. leaseState'[l].uses = 0 /\ leaseState'[l] # None
      <3>1. leaseState'[l] = [uses |-> 0, revoked |-> FALSE]
        BY <1>4 DEF RegisterLease, TypeInv, Types
      <3>2. 0 \in 0..MaxUses
        BY SecretPlaneAssumption
      <3>3. leaseState'[l] \in LeaseStates
        BY <3>1, <3>2 DEF LeaseStates
      <3>4. leaseState'[l] # None
        BY <3>3, NoneAssumption
      <3> QED  BY <3>1, <3>4
    <2>4. 0 <= leases'[l].max_uses
      <3>1. leases'[l] \in CapabilityLeases
        BY <2>3 DEF TypeInv, Types
      <3> QED  BY <3>1, SecretPlaneAssumption DEF CapabilityLeases
    <2>5. Len(shown'[l]) = 0 /\ Cardinality(InFlight(l)') = 0
      BY <2>2, FS_EmptySet
    <2> QED  BY <2>3, <2>4, <2>5 DEF Counted
  <1> QED  BY <1>3, <1>4

LEMMA CountsOnConsume ==
    ASSUME TypeInv, TypeInv', UsesCounted, NEW c \in Callers, Consume(c)
    PROVE  UsesCounted'
  <1> DEFINE k == calls[c].lease
  <1> SUFFICES ASSUME NEW l \in Leases
               PROVE  Counted(l)'
    BY DEF UsesCounted
  <1>0. calls[c].at = "consume" /\ k \in Leases /\ leases[k] # None
    BY DEF Consume, TypeInv, CallShapes, CallShape, Executing
  <1>1. UNCHANGED <<leases, shown>>
    BY DEF Consume, history
  <1>2. CASE ~Consumable(k)
    <2>1. leaseState' = leaseState /\ Leave(c)
      BY <1>2 DEF Consume
    <2>2. InFlight(l)' \subseteq InFlight(l)
      BY <2>1, AfterLeave, IdleIsACall DEF InFlight, TypeInv
    <2> QED  BY <1>1, <2>1, <2>2, StaysCounted DEF UsesCounted
  <1>3. CASE Consumable(k)
    <2>1. leaseState' = [leaseState EXCEPT ![k].uses = @ + 1] /\ Goto(c, "locate")
      BY <1>3 DEF Consume
    <2>2. /\ calls'[c].at = "locate" /\ calls'[c].lease = k
          /\ \A d \in Callers \ {c} : calls'[d] = calls[d]
      BY <2>1, AfterGoto DEF TypeInv, Stages, Executing
    <2>3. CASE l # k
      <3>1. InFlight(l)' \subseteq InFlight(l)
        BY <2>2, <2>3 DEF InFlight
      <3>2. leaseState'[l] = leaseState[l]
        BY <2>1, <2>3 DEF TypeInv, Types
      <3> QED  BY <1>1, <3>1, <3>2, StaysCounted DEF UsesCounted
    <2>4. CASE l = k
      <3>1. InFlight(l)' = InFlight(l) \cup {c} /\ c \notin InFlight(l)
        BY <1>0, <2>2, <2>4 DEF InFlight
      <3>2. /\ Cardinality(InFlight(l)) \in Nat
            /\ Cardinality(InFlight(l)') = Cardinality(InFlight(l)) + 1
        <4>1. InFlight(l) \in SUBSET Callers
          BY DEF InFlight
        <4> QED  BY <3>1, <4>1, CallerSets
      <3>3. leaseState[l] \in LeaseStates /\ leases[l] \in CapabilityLeases
        BY <1>0, <2>4 DEF TypeInv, Types
      <3>4. /\ leaseState'[l].uses = leaseState[l].uses + 1
            /\ leaseState'[l] # None
        BY <1>0, <1>1, <2>1, <2>4, <3>3 DEF TypeInv, Types, LeaseStates
      <3>5. Len(shown[l]) \in Nat
        BY LenProperties DEF TypeInv, Types
      <3>6. leaseState[l].uses < leases[l].max_uses
        BY <1>3, <2>4 DEF Consumable
      <3>7. Len(shown[l]) + Cardinality(InFlight(l)) <= leaseState[l].uses
        BY <3>3, NoneAssumption DEF UsesCounted, Counted
      <3>8. leaseState[l].uses \in Nat /\ leases[l].max_uses \in Nat
        BY <3>3, SecretPlaneAssumption DEF LeaseStates, CapabilityLeases
      <3>9. /\ Len(shown'[l]) + Cardinality(InFlight(l)') <= leaseState'[l].uses
            /\ leaseState'[l].uses <= leases'[l].max_uses
        BY <1>1, <3>2, <3>4, <3>5, <3>6, <3>7, <3>8
      <3> QED  BY <3>4, <3>9 DEF Counted
    <2> QED  BY <2>3, <2>4
  <1> QED  BY <1>2, <1>3

LEMMA CountsOnRead ==
    ASSUME TypeInv, TypeInv', UsesCounted, NEW c \in Callers, ReadVault(c)
    PROVE  UsesCounted'
  <1> DEFINE k == calls[c].lease
  <1> SUFFICES ASSUME NEW l \in Leases
               PROVE  Counted(l)'
    BY DEF UsesCounted
  <1>0. /\ calls[c].at = "read" /\ k \in Leases /\ leases[k] # None
        /\ calls[c].locator \in Versions
    BY DEF ReadVault, TypeInv, CallShapes, CallShape, Executing
  <1>1. UNCHANGED <<leases, leaseState>>
    BY DEF ReadVault
  <1>2. /\ calls'[c].at \in {"consumer", "idle"}
        /\ \A d \in Callers \ {c} : calls'[d] = calls[d]
    BY AfterLeave, AfterGoto, IdleIsACall DEF ReadVault, TypeInv, Stages, Executing
  <1>3. InFlight(l)' \subseteq InFlight(l)
    BY <1>2 DEF InFlight
  <1>4. CASE calls[c].locator \notin vault \/ l # k
    <2>1. shown'[l] = shown[l]
      BY <1>4 DEF ReadVault, TypeInv, Types
    <2> QED  BY <1>1, <1>3, <2>1, StaysCounted DEF UsesCounted
  <1>5. CASE calls[c].locator \in vault /\ l = k
    <2>1. shown'[l] = Append(shown[l], calls[c].locator)
      BY <1>5 DEF ReadVault, TypeInv, Types
    <2>2. Len(shown'[l]) = Len(shown[l]) + 1 /\ Len(shown[l]) \in Nat
      <3>1. shown[l] \in Seq(Versions)
        BY DEF TypeInv, Types
      <3> QED  BY <1>0, <2>1, <3>1, AppendProperties, LenProperties
    <2>3. InFlight(l)' = InFlight(l) \ {c} /\ c \in InFlight(l)
      BY <1>0, <1>2, <1>5 DEF InFlight
    <2>4. /\ Cardinality(InFlight(l)) \in Nat
          /\ Cardinality(InFlight(l)') = Cardinality(InFlight(l)) - 1
      <3>1. InFlight(l) \in SUBSET Callers
        BY DEF InFlight
      <3> QED  BY <2>3, <3>1, CallerSets
    <2>5. leaseState[l] # None
      BY <1>0, <1>5 DEF TypeInv, Types
    <2>6. /\ Len(shown[l]) + Cardinality(InFlight(l)) <= leaseState[l].uses
          /\ leaseState[l].uses <= leases[l].max_uses
      BY <2>5 DEF UsesCounted, Counted
    <2>7. Len(shown'[l]) + Cardinality(InFlight(l)') <= leaseState'[l].uses
      BY <1>1, <2>2, <2>4, <2>6
    <2> QED  BY <1>1, <2>5, <2>6, <2>7 DEF Counted
  <1> QED  BY <1>4, <1>5

LEMMA CountsOnRevoke ==
    ASSUME TypeInv, TypeInv', UsesCounted, NEW c \in Callers, RevokeLeases(c)
    PROVE  UsesCounted'
  <1> SUFFICES ASSUME NEW l \in Leases
               PROVE  Counted(l)'
    BY DEF UsesCounted
  <1>1. calls'[c] = Idle /\ \A d \in Callers \ {c} : calls'[d] = calls[d]
    BY AfterLeave DEF RevokeLeases, TypeInv
  <1>2. InFlight(l)' \subseteq InFlight(l)
    BY <1>1, IdleIsACall DEF InFlight
  <1>3. UNCHANGED <<leases, shown>>
    BY DEF RevokeLeases
  <1>4. leaseState'[l] = None <=> leaseState[l] = None
    BY <1>3 DEF TypeInv, Types
  <1>5. leaseState[l] # None => leaseState'[l].uses = leaseState[l].uses
    <2>1. leaseState[l] # None =>
             leaseState'[l] = [leaseState[l] EXCEPT !.revoked = TRUE]
      BY DEF RevokeLeases, Registered
    <2> QED  BY <2>1 DEF TypeInv, Types, LeaseStates
  <1> QED  BY <1>2, <1>3, <1>4, <1>5, StaysCounted DEF UsesCounted

LEMMA CountsOtherwise ==
    ASSUME TypeInv, TypeInv', UsesCounted,
           \/ \E c \in Callers, l \in Leases : Execute(c, l)
           \/ Restart \/ (\E l \in Leases : Expire(l)) \/ UNCHANGED vars
    PROVE  UsesCounted'
  <1> SUFFICES ASSUME NEW l \in Leases
               PROVE  Counted(l)'
    BY DEF UsesCounted
  <1>1. UNCHANGED <<leases, leaseState, shown>>
    BY DEF Execute, Restart, Expire, vars, results, history
  <1>2. InFlight(l)' \subseteq InFlight(l)
    <2>1. ASSUME NEW c \in Callers, NEW k \in Leases, Execute(c, k)
          PROVE  InFlight(l)' \subseteq InFlight(l)
      <3>1. /\ calls'[c].at = "consume"
            /\ \A d \in Callers \ {c} : calls'[d] = calls[d]
        BY <2>1 DEF Execute, Enter, TypeInv, Types, Idle
      <3> QED  BY <3>1 DEF InFlight
    <2>2. CASE Restart
      BY <2>2, IdleIsACall DEF Restart, InFlight
    <2>3. CASE UNCHANGED calls
      BY <2>3 DEF InFlight
    <2> QED  BY <2>1, <2>2, <2>3 DEF Expire, vars
  <1> QED  BY <1>1, <1>2, StaysCounted DEF UsesCounted

LEMMA UsesStep == TypeInv /\ TypeInv' /\ UsesCounted /\ [Next]_vars => UsesCounted'
  <1> SUFFICES ASSUME TypeInv, TypeInv', UsesCounted, [Next]_vars
               PROVE  UsesCounted'
    OBVIOUS
  <1>1. ASSUME NEW c \in Callers, CallStep(c)
        PROVE  UsesCounted'
    BY <1>1, QuietOrLoud, CountsOnQuiet, CountsOnRegister, CountsOnConsume,
       CountsOnRead, CountsOnRevoke, CountsOtherwise DEF Loud
  <1> QED  BY <1>1, CountsOtherwise DEF Next, CallStep

(* However many threads present a lease, and across restarts, the material *)
(* is shown at most max_uses times under it: a use that may still be shown *)
(* is counted already.                                                     *)
THEOREM UsesAreBounded == Spec => []UsesBounded
  <1>1. Init => UsesCounted
    BY DEF Init, UsesCounted, Counted
  <1>2. TypeInv /\ UsesCounted => UsesBounded
    <2> SUFFICES ASSUME TypeInv, UsesCounted, NEW l \in Leases, shown[l] # <<>>
                 PROVE  Len(shown[l]) <= leases[l].max_uses
      BY DEF UsesBounded
    <2>1. leaseState[l] # None
      BY DEF UsesCounted, Counted
    <2>2. /\ Len(shown[l]) + Cardinality(InFlight(l)) <= leaseState[l].uses
          /\ leaseState[l].uses <= leases[l].max_uses
      BY <2>1 DEF UsesCounted, Counted
    <2>3. leaseState[l].uses \in Nat /\ leases[l].max_uses \in Nat
      BY <2>1, SecretPlaneAssumption
      DEF TypeInv, Types, LeaseStates, CapabilityLeases
    <2>4. Len(shown[l]) \in Nat /\ Cardinality(InFlight(l)) \in Nat
      <3>1. InFlight(l) \in SUBSET Callers
        BY DEF InFlight
      <3> QED  BY <3>1, CallerSets, LenProperties DEF TypeInv, Types
    <2> QED  BY <2>2, <2>3, <2>4
  <1> QED  BY <1>1, <1>2, TypeCorrect, UsesStep, PTL DEF Spec
---------------------------------------------------------------------------
DeadAreRevoked == \A l \in dead : leaseState[l] # None /\ leaseState[l].revoked

LateShape(call) ==
    /\ call.at = "consume" /\ call.late => call.lease \in dead
    /\ call.at \in {"locate", "read", "consumer"} => ~call.late

LEMMA LateStep ==
    ASSUME TypeInv, LateCallsFail, [Next]_vars
    PROVE  LateCallsFail'
  <1>0. DeadAreRevoked /\ \A c \in Callers : LateShape(calls[c])
    BY DEF LateCallsFail, DeadAreRevoked, LateShape
  <1> SUFFICES DeadAreRevoked' /\ \A c \in Callers : LateShape(calls[c])'
    BY DEF LateCallsFail, DeadAreRevoked, LateShape
  <1>1. ASSUME NEW c \in Callers, Moved(c), dead \subseteq dead',
               DeadAreRevoked', LateShape(calls[c])'
        PROVE  DeadAreRevoked' /\ \A d \in Callers : LateShape(calls[d])'
    BY <1>0, <1>1 DEF Moved, LateShape
  <1>2. ASSUME NEW c \in Callers, Quiet(c)
        PROVE  DeadAreRevoked' /\ LateShape(calls[c])' /\ dead \subseteq dead'
    BY <1>0, <1>2 DEF Quiet, DeadAreRevoked, LateShape, Flying
  <1>3. ASSUME NEW c \in Callers, NEW k \in Leases, RegisterLease(c, k)
        PROVE  DeadAreRevoked' /\ LateShape(calls[c])' /\ dead \subseteq dead'
    <2>1. k \notin dead
      BY <1>0, <1>3 DEF DeadAreRevoked, RegisterLease, TypeInv, Types
    <2>2. dead' = dead /\ \A l \in dead : leaseState'[l] = leaseState[l]
      BY <1>3, <2>1 DEF RegisterLease, history, TypeInv, Types
    <2>3. calls'[c].at = "idle"
      BY <1>3, AfterLeave, IdleIsACall DEF RegisterLease, TypeInv
    <2> QED  BY <1>0, <2>2, <2>3 DEF DeadAreRevoked, LateShape
  <1>4. ASSUME NEW c \in Callers, NEW k \in Leases, Execute(c, k)
        PROVE  DeadAreRevoked' /\ LateShape(calls[c])' /\ dead \subseteq dead'
    <2>1. k \notin expired
      BY <1>4 DEF Execute, Verified
    <2>2. /\ calls'[c].at = "consume" /\ calls'[c].lease = k
          /\ calls'[c].late <=> k \in dead \cup expired
      BY <1>4 DEF Execute, Enter, TypeInv, Types, Idle
    <2>3. dead' = dead /\ leaseState' = leaseState
      BY <1>4 DEF Execute, results
    <2> QED  BY <1>0, <2>1, <2>2, <2>3 DEF DeadAreRevoked, LateShape
  <1>5. ASSUME NEW c \in Callers, Consume(c)
        PROVE  DeadAreRevoked' /\ LateShape(calls[c])' /\ dead \subseteq dead'
    <2> DEFINE k == calls[c].lease
    <2>0. /\ calls[c].at = "consume" /\ k \in Leases /\ leases[k] # None
          /\ dead' = dead
      BY <1>5 DEF Consume, history, TypeInv, CallShapes, CallShape, Executing
    <2>1. CASE ~Consumable(k)
      BY <1>0, <1>5, <2>0, <2>1, AfterLeave, IdleIsACall
      DEF Consume, DeadAreRevoked, LateShape, TypeInv
    <2>2. CASE Consumable(k)
      <3>1. leaseState' = [leaseState EXCEPT ![k].uses = @ + 1]
            /\ Goto(c, "locate")
        BY <1>5, <2>2 DEF Consume
      <3>2. calls'[c].at = "locate" /\ calls'[c].late = calls[c].late
        BY <3>1, AfterGoto DEF TypeInv, Stages, Executing
      <3>3. k \notin dead
        BY <1>0, <2>2 DEF DeadAreRevoked, Consumable
      <3>4. ~calls[c].late
        BY <1>0, <2>0, <3>3 DEF LateShape
      <3>5. \A l \in dead : leaseState'[l] = leaseState[l]
        BY <3>1, <3>3 DEF TypeInv, Types
      <3> QED  BY <1>0, <2>0, <3>2, <3>4, <3>5 DEF DeadAreRevoked, LateShape
    <2> QED  BY <2>1, <2>2
  <1>6. ASSUME NEW c \in Callers, ReadVault(c)
        PROVE  DeadAreRevoked' /\ LateShape(calls[c])' /\ dead \subseteq dead'
    <2>1. calls[c].at = "read" /\ (Leave(c) \/ Goto(c, "consumer"))
          /\ UNCHANGED <<dead, leaseState>>
      BY <1>6 DEF ReadVault
    <2>2. calls'[c] = Idle \/ (calls'[c].at = "consumer"
                                  /\ calls'[c].late = calls[c].late)
      BY <2>1, AfterLeave, AfterGoto DEF TypeInv, Stages, Executing
    <2> QED  BY <1>0, <2>1, <2>2, IdleIsACall DEF DeadAreRevoked, LateShape
  <1>7. ASSUME NEW c \in Callers, RevokeLeases(c)
        PROVE  DeadAreRevoked' /\ LateShape(calls[c])' /\ dead \subseteq dead'
    <2>1. dead' = dead \cup Registered /\ calls'[c].at = "idle"
      BY <1>7, AfterLeave, IdleIsACall DEF RevokeLeases, TypeInv
    <2>2. dead' \subseteq Registered
      BY <1>0, <2>1 DEF DeadAreRevoked, Registered, TypeInv, Types
    <2>3. ASSUME NEW l \in Registered
          PROVE  leaseState'[l] # None /\ leaseState'[l].revoked
      <3>1. leaseState[l] \in LeaseStates
        BY DEF Registered, TypeInv, Types
      <3>2. leaseState'[l] = [leaseState[l] EXCEPT !.revoked = TRUE]
        BY <1>7 DEF RevokeLeases, Registered
      <3>3. leaseState'[l] \in LeaseStates /\ leaseState'[l].revoked
        BY <3>1, <3>2 DEF LeaseStates
      <3> QED  BY <3>3, NoneAssumption
    <2> QED  BY <2>1, <2>2, <2>3 DEF DeadAreRevoked, LateShape
  <1>8. ASSUME NEW c \in Callers, CallStep(c)
        PROVE  DeadAreRevoked' /\ \A d \in Callers : LateShape(calls[d])'
    <2>1. Moved(c) /\ (Quiet(c) \/ Loud(c))
      BY <1>8, CallsMove, QuietOrLoud
    <2> QED  BY <1>1, <1>2, <1>3, <1>4, <1>5, <1>6, <1>7, <2>1 DEF Loud
  <1>9. CASE Restart
    BY <1>0, <1>9, IdleIsACall DEF Restart, DeadAreRevoked, LateShape
  <1>10. CASE UNCHANGED <<dead, leaseState, calls>>
    BY <1>0, <1>10 DEF DeadAreRevoked, LateShape
  <1> QED  BY <1>8, <1>9, <1>10 DEF Next, CallStep, Expire, history, vars

(* A call that begins after the lease was invalidated, by whatever thread  *)
(* and in whatever process, never gets material: the store remembers.      *)
THEOREM InvalidatedIsFinal == Spec => []InvalidatedForGood
  <1>1. Init => LateCallsFail
    BY IdleIsACall DEF Init, LateCallsFail
  <1>2. LateCallsFail => InvalidatedForGood
    BY DEF LateCallsFail, InvalidatedForGood
  <1>3. TypeInv /\ LateCallsFail /\ [Next]_vars => LateCallsFail'
    BY LateStep
  <1> QED  BY <1>1, <1>2, <1>3, TypeCorrect, PTL DEF Spec
---------------------------------------------------------------------------
(* What holds of the plane when c is the only caller at work.              *)
InTurn(c) ==
    /\ calls[c].at # "binding" =>
          binding = IF Active THEN descriptor.version ELSE None
    /\ TurnShape(calls[c])
    /\ Withdrawn
    /\ DestroyedIsGone
    /\ ShownOwnVersion

LEMMA TurnOfIdle == TurnShape(Idle) /\ TurnShape(Idle)'
  BY DEF TurnShape, Idle, Executing

(* A step of a caller that ends without an overlap is taken alone.         *)
LEMMA Alone ==
    ASSUME TypeInv, Turns, NEW c \in Callers, CallStep(c), ~overlapped'
    PROVE  /\ ~overlapped
           /\ \A d \in Callers \ {c} : calls[d] = Idle /\ calls'[d] = Idle
           /\ InTurn(c)
  <1>1. Moved(c)
    BY CallsMove
  <1>2. ~overlapped /\ \A d \in Callers \ {c} : calls[d] = Idle
    <2>1. ASSUME NEW call, Enter(c, call)
          PROVE  ~overlapped /\ \A d \in Callers \ {c} : calls[d] = Idle
      BY <2>1 DEF Enter
    <2>2. CASE calls[c].at # "idle" /\ UNCHANGED overlapped
      <3>1. calls[c] # Idle /\ ~overlapped
        BY <2>2, IdleIsACall
      <3> QED  BY <3>1 DEF Turns, OneAtATime
    <2> QED  BY <2>1, <2>2, Zenon
             DEF CallStep, RegisterSecret, RebindSecret, IssueLease, Execute,
                 RegisterLease, Consume, Locate, ReadVault, ConsumerReturns,
                 RevokeSecret, DestroySecret, DestroyLocate, VaultDestroy,
                 AssignDescriptor, AssignBinding, RevokeLeases, history
  <1>3. InTurn(c)
    <2>1. \A d \in Callers \ {c} : calls[d].at # "binding"
      BY <1>2 DEF Idle
    <2>2. calls[c].at # "binding" =>
            binding = IF Active THEN descriptor.version ELSE None
      BY <1>2, <2>1 DEF Turns, Coherent
    <2> QED  BY <1>2, <2>2 DEF Turns, InTurn
  <1> QED  BY <1>1, <1>2, <1>3 DEF Moved

LEMMA InTurnStep ==
    ASSUME TypeInv, NEW c \in Callers, CallStep(c), InTurn(c)
    PROVE  InTurn(c)'
  <1> USE DEF history, results, plane
  <1>0. /\ Types /\ CallShape(calls[c], leases) /\ calls[c] \in Calls
        /\ \A l \in Leases : shown[l] \in Seq(Versions)
    BY DEF TypeInv, CallShapes, Types
  <1>a. ASSUME UNCHANGED <<descriptor, binding, vault, leases, shown, withdrawn>>,
               NEW call \in Calls, Enter(c, call),
               (TurnShape(call) /\ call.at # "binding")'
        PROVE  InTurn(c)'
    <2>1. calls'[c] = call /\ calls[c].at = "idle"
      BY <1>0, <1>a, AfterEnter, IdleIsACall
    <2> QED  BY <1>a, <2>1
             DEF InTurn, Withdrawn, DestroyedIsGone, ShownOwnVersion, Active
  <1>b. ASSUME UNCHANGED <<descriptor, binding, vault, shown, withdrawn>>,
               \A l \in Leases : leases[l] # None => leases'[l] = leases[l],
               Leave(c), calls[c].at # "binding"
        PROVE  InTurn(c)'
    <2>1. calls'[c] = Idle /\ calls'[c].at = "idle"
      BY <1>0, <1>b, AfterLeave, IdleIsACall
    <2> QED  BY <1>b, <2>1, TurnOfIdle
             DEF InTurn, Withdrawn, DestroyedIsGone, ShownOwnVersion, Active
  <1>1. ASSUME NEW v \in Versions, RegisterSecret(c, v)
        PROVE  InTurn(c)'
    <2> DEFINE call == [Idle EXCEPT !.at = "descriptor", !.op = "register",
                            !.locator = v]
    <2>1. /\ Enter(c, call) /\ descriptor = None
          /\ UNCHANGED <<descriptor, binding, vault, leases, shown, withdrawn>>
      BY <1>1 DEF RegisterSecret
    <2>2. call \in Calls
      BY DEF Idle, Calls, Stages, Mutators, Mutating, Executing
    <2>3. (TurnShape(call) /\ call.at # "binding")'
      BY <2>1 DEF TurnShape, Idle, Executing
    <2> QED  BY <1>a, <2>1, <2>2, <2>3
  <1>2. ASSUME NEW v \in Versions, RebindSecret(c, v)
        PROVE  InTurn(c)'
    <2> DEFINE call == [Idle EXCEPT !.at = "descriptor", !.op = "rebind",
                            !.descriptor = descriptor, !.locator = v]
    <2>1. /\ Enter(c, call) /\ Active
          /\ UNCHANGED <<descriptor, binding, vault, leases, shown, withdrawn>>
      BY <1>2 DEF RebindSecret
    <2>2. call \in Calls
      BY <1>0 DEF Idle, Calls, Stages, Mutators, Mutating, Executing, Types
    <2>3. (TurnShape(call) /\ call.at # "binding")'
      BY <2>1 DEF TurnShape, Idle, Executing, Active
    <2> QED  BY <1>a, <2>1, <2>2, <2>3 DEF Active
  <1>3. ASSUME NEW u \in 1..MaxUses, IssueLease(c, u)
        PROVE  InTurn(c)'
    <2> DEFINE call == [Idle EXCEPT !.at = "issue", !.op = "issue",
                            !.descriptor = descriptor, !.max_uses = u]
    <2>1. /\ Enter(c, call) /\ Active
          /\ UNCHANGED <<descriptor, binding, vault, leases, shown, withdrawn>>
      BY <1>3 DEF IssueLease
    <2>2. call \in Calls
      BY <1>0 DEF Idle, Calls, Stages, Mutators, Mutating, Executing, Types
    <2>3. (TurnShape(call) /\ call.at # "binding")'
      BY DEF TurnShape, Idle, Executing
    <2> QED  BY <1>a, <2>1, <2>2, <2>3 DEF Active
  <1>4. ASSUME NEW l \in Leases, RegisterLease(c, l)
        PROVE  InTurn(c)'
    <2>1. /\ UNCHANGED <<descriptor, binding, vault, shown, withdrawn>>
          /\ \A k \in Leases : leases[k] # None => leases'[k] = leases[k]
          /\ Leave(c) /\ calls[c].at # "binding"
      BY <1>0, <1>4 DEF RegisterLease, Types
    <2> QED  BY <1>b, <2>1
  <1>5. ASSUME NEW l \in Leases, Execute(c, l)
        PROVE  InTurn(c)'
    <2> DEFINE call == [Idle EXCEPT !.at = "consume", !.op = "execute",
                            !.lease = l, !.late = l \in dead \cup expired]
    <2>1. /\ Enter(c, call) /\ Active /\ descriptor.version = leases[l].version
          /\ UNCHANGED <<descriptor, binding, vault, leases, shown, withdrawn>>
      BY <1>5 DEF Execute, Verified
    <2>2. call \in Calls
      <3>1. (l \in dead \cup expired) \in BOOLEAN
        OBVIOUS
      <3> QED  BY <3>1 DEF Idle, Calls, Stages, Executing, Mutators
    <2>3. call.at = "consume" /\ call.lease = l
      BY DEF Idle
    <2> HIDE DEF call
    <2>4. PICK k \in Calls : k = call
      BY <2>2
    <2>5. (TurnShape(k) /\ k.at # "binding")'
      BY <2>1, <2>3, <2>4 DEF TurnShape, Executing, Active
    <2> QED  BY <1>a, <2>1, <2>4, <2>5 DEF Active
  <1>6. ASSUME Consume(c)
        PROVE  InTurn(c)'
    <2>1. /\ UNCHANGED <<descriptor, binding, vault, leases, shown, withdrawn>>
          /\ Goto(c, "locate") \/ Leave(c)
          /\ calls[c].at = "consume"
      BY <1>6 DEF Consume
    <2>2. descriptor' # None
      BY <2>1 DEF InTurn, TurnShape, Executing, Active
    <2>3. CASE Goto(c, "locate")
      <3>1. calls'[c].at = "locate" /\ calls'[c].lease = calls[c].lease
        BY <1>0, <2>3, AfterGoto DEF Stages, Executing
      <3>2. TurnShape(calls[c])'
        BY <2>1, <3>1 DEF InTurn, TurnShape, Executing, Active
      <3> QED  BY <2>1, <2>2, <3>1, <3>2
               DEF InTurn, Withdrawn, DestroyedIsGone, ShownOwnVersion, Active
    <2> QED  BY <1>b, <2>1, <2>2, <2>3
  <1>7. ASSUME Locate(c)
        PROVE  InTurn(c)'
    <2>1. /\ UNCHANGED <<descriptor, binding, vault, leases, shown, withdrawn>>
          /\ calls[c].at = "locate"
      BY <1>7 DEF Locate
    <2>2. /\ Active /\ binding = descriptor.version
          /\ descriptor.version = leases[calls[c].lease].version
      BY <2>1 DEF InTurn, TurnShape, Executing
    <2>3. CASE binding = None
      BY <1>b, <1>7, <2>1, <2>2, <2>3 DEF Locate, Active
    <2>4. CASE binding # None
      <3>1. /\ calls'[c].at = "read" /\ calls'[c].locator = binding
            /\ calls'[c].lease = calls[c].lease
        BY <1>0, <1>7, <2>4 DEF Locate, Types, Calls
      <3>2. TurnShape(calls[c])'
        BY <2>1, <2>2, <3>1 DEF TurnShape, Executing, Active
      <3> QED  BY <2>1, <2>2, <3>1, <3>2
               DEF InTurn, Withdrawn, DestroyedIsGone, ShownOwnVersion, Active
    <2> QED  BY <2>3, <2>4
  <1>8. ASSUME ReadVault(c)
        PROVE  InTurn(c)'
    <2> DEFINE k == calls[c].lease
    <2>1. /\ UNCHANGED <<descriptor, binding, vault, leases, withdrawn>>
          /\ Goto(c, "consumer") \/ Leave(c)
          /\ calls[c].at = "read" /\ k \in Leases /\ leases[k] # None
      BY <1>0, <1>8 DEF ReadVault, CallShape, Executing
    <2>2. /\ Active /\ descriptor.version = leases[k].version
          /\ calls[c].locator = leases[k].version
      BY <2>1 DEF InTurn, TurnShape, Executing
    <2>3. ShownOwnVersion'
      <3>1. CASE calls[c].locator \notin vault
        BY <1>8, <2>1, <3>1 DEF ReadVault, InTurn, ShownOwnVersion
      <3>2. CASE calls[c].locator \in vault
        <4>1. shown' = [shown EXCEPT ![k] = Append(@, calls[c].locator)]
          BY <1>8, <3>2 DEF ReadVault
        <4>2. ASSUME NEW l \in Leases, NEW i \in DOMAIN shown'[l]
              PROVE  leases[l] # None /\ shown'[l][i] = leases[l].version
          <5>1. CASE l # k
            BY <1>0, <4>1, <4>2, <5>1 DEF InTurn, ShownOwnVersion, Types
          <5>2. CASE l = k
            <6>1. shown'[l] = Append(shown[l], calls[c].locator)
              BY <1>0, <4>1, <5>2 DEF Types
            <6>2. \/ i \in DOMAIN shown[l] /\ shown'[l][i] = shown[l][i]
                  \/ shown'[l][i] = calls[c].locator
              BY <1>0, <4>2, <6>1
            <6> QED  BY <2>1, <2>2, <5>2, <6>2 DEF InTurn, ShownOwnVersion
          <5> QED  BY <5>1, <5>2
        <4> QED  BY <2>1, <4>2 DEF ShownOwnVersion
      <3> QED  BY <3>1, <3>2
    <2>4. \/ calls'[c] = Idle
          \/ calls'[c].at = "consumer" /\ calls'[c].lease = calls[c].lease
      BY <1>0, <2>1, AfterLeave, AfterGoto DEF Stages, Executing
    <2>5. TurnShape(calls[c])' /\ calls'[c].at # "binding"
      BY <2>1, <2>2, <2>4, TurnOfIdle, IdleIsACall DEF TurnShape, Executing, Active
    <2> QED  BY <2>1, <2>2, <2>3, <2>5
             DEF InTurn, Withdrawn, DestroyedIsGone, Active
  <1>9. ASSUME ConsumerReturns(c)
        PROVE  InTurn(c)'
    BY <1>b, <1>9 DEF ConsumerReturns
  <1>10. ASSUME RevokeSecret(c)
         PROVE  InTurn(c)'
    <2> DEFINE call == [Idle EXCEPT !.at = "descriptor", !.op = "revoke",
                            !.descriptor = descriptor]
    <2>1. /\ Enter(c, call) /\ descriptor # None
          /\ UNCHANGED <<descriptor, binding, vault, leases, shown, withdrawn>>
      BY <1>10 DEF RevokeSecret
    <2>2. call \in Calls
      BY <1>0 DEF Idle, Calls, Stages, Mutators, Mutating, Executing, Types
    <2>3. (TurnShape(call) /\ call.at # "binding")'
      BY <2>1 DEF TurnShape, Idle, Executing
    <2> QED  BY <1>a, <2>1, <2>2, <2>3
  <1>11. ASSUME DestroySecret(c)
         PROVE  InTurn(c)'
    <2> DEFINE call == [Idle EXCEPT !.at = "bound", !.op = "destroy",
                            !.descriptor = descriptor]
    <2>1. /\ Enter(c, call) /\ descriptor # None
          /\ UNCHANGED <<descriptor, binding, vault, leases, shown, withdrawn>>
      BY <1>11 DEF DestroySecret
    <2>2. call \in Calls
      BY <1>0 DEF Idle, Calls, Stages, Mutators, Mutating, Executing, Types
    <2>3. (TurnShape(call) /\ call.at # "binding")'
      BY <2>1 DEF TurnShape, Idle, Executing
    <2> QED  BY <1>a, <2>1, <2>2, <2>3
  <1>c. calls[c].descriptor \in Descriptors => calls[c].descriptor # None
    BY NoneAssumption
  <1>12. ASSUME DestroyLocate(c)
         PROVE  InTurn(c)'
    <2>1. /\ UNCHANGED <<descriptor, binding, vault, leases, shown, withdrawn>>
          /\ calls[c].at = "bound"
      BY <1>12 DEF DestroyLocate
    <2>2. descriptor # None /\ calls[c].op = "destroy"
      BY <1>0, <1>c, <2>1 DEF InTurn, TurnShape, CallShape
    <2>3. CASE binding = None
      BY <1>b, <1>12, <2>1, <2>2, <2>3 DEF DestroyLocate
    <2>4. CASE binding # None
      <3>1. /\ calls'[c].at = "destroy" /\ calls'[c].locator = binding
            /\ calls'[c].op = calls[c].op
            /\ calls'[c].descriptor = calls[c].descriptor
        BY <1>0, <1>12, <2>4 DEF DestroyLocate, Types, Calls
      <3>2. binding = descriptor.version
        BY <2>1, <2>4 DEF InTurn
      <3>3. TurnShape(calls[c])'
        BY <2>1, <2>2, <3>1, <3>2 DEF InTurn, TurnShape, Executing
      <3> QED  BY <2>1, <2>2, <3>1, <3>3
               DEF InTurn, Withdrawn, DestroyedIsGone, ShownOwnVersion, Active
    <2> QED  BY <2>3, <2>4
  <1>13. ASSUME VaultDestroy(c)
         PROVE  InTurn(c)'
    <2>1. /\ UNCHANGED <<descriptor, binding, leases, shown, withdrawn>>
          /\ calls[c].at = "destroy"
      BY <1>13 DEF VaultDestroy
    <2>2. /\ descriptor # None /\ calls[c].op = "destroy"
          /\ calls[c].descriptor = descriptor
          /\ calls[c].locator = descriptor.version
      BY <1>0, <1>c, <2>1 DEF InTurn, TurnShape, CallShape
    <2>3. CASE Leave(c) /\ UNCHANGED vault
      BY <1>b, <2>1, <2>2, <2>3
    <2>4. CASE vault' = vault \ {calls[c].locator} /\ Goto(c, "descriptor")
      <3>1. /\ calls'[c].at = "descriptor" /\ calls'[c].op = calls[c].op
            /\ calls'[c].descriptor = calls[c].descriptor
        BY <1>0, <2>4, AfterGoto DEF Stages, Mutating
      <3>2. TurnShape(calls[c])'
        BY <2>1, <2>2, <2>4, <3>1 DEF TurnShape, Executing
      <3> QED  BY <2>1, <2>2, <2>4, <3>1, <3>2
               DEF InTurn, Withdrawn, DestroyedIsGone, ShownOwnVersion, Active
    <2> QED  BY <1>13, <2>3, <2>4 DEF VaultDestroy
  <1>14. ASSUME AssignDescriptor(c)
         PROVE  InTurn(c)'
    <2> DEFINE call == calls[c]
    <2>1. /\ UNCHANGED <<binding, vault, leases, shown, withdrawn>>
          /\ call.at = "descriptor" /\ Goto(c, "binding")
          /\ descriptor' = Updated(call)
      BY <1>14 DEF AssignDescriptor
    <2>2. /\ call.op \in Mutators
          /\ call.op # "register" => descriptor \in Descriptors
          /\ call.descriptor = descriptor
          /\ call.op = "register" => descriptor = None
          /\ call.op = "rebind" => Active
          /\ call.op \in {"register", "rebind"} => call.locator \in Versions
          /\ call.op = "destroy" => descriptor.version \notin vault
      BY <1>0, <2>1 DEF InTurn, TurnShape, CallShape, Mutating
    <2>3. /\ calls'[c].at = "binding" /\ calls'[c].op = call.op
          /\ calls'[c].locator = call.locator
      BY <1>0, <2>1, AfterGoto DEF Stages, Mutating
    <2>4. /\ call.op = "register" =>
                descriptor' = [version |-> call.locator, state |-> "ACTIVE"]
          /\ call.op = "rebind" =>
                descriptor' = [version |-> call.locator,
                               state |-> descriptor.state]
          /\ call.op = "revoke" =>
                descriptor' = [version |-> descriptor.version,
                               state |-> "REVOKED"]
          /\ call.op = "destroy" =>
                descriptor' = [version |-> descriptor.version,
                               state |-> "DESTROYED"]
      BY <2>1, <2>2 DEF Updated, Descriptors
    <2>5. descriptor' \in Descriptors /\ descriptor' # None
      <3>1. descriptor' \in Descriptors
        BY <2>2, <2>4 DEF Descriptors, Mutators
      <3> QED  BY <3>1, NoneAssumption
    <2>6. TurnShape(calls[c])'
      BY <2>2, <2>3, <2>4, <2>5 DEF TurnShape, Executing, Active, Mutators
    <2>7. Withdrawn'
      BY <2>1, <2>2, <2>4, <2>5 DEF InTurn, Withdrawn, Active, Mutators
    <2>8. DestroyedIsGone'
      BY <2>1, <2>2, <2>4, <2>5
      DEF InTurn, DestroyedIsGone, Active, Mutators, Descriptors
    <2> QED  BY <2>1, <2>3, <2>5, <2>6, <2>7, <2>8 DEF InTurn, ShownOwnVersion
  <1>15. ASSUME AssignBinding(c)
         PROVE  InTurn(c)'
    <2> DEFINE call == calls[c]
    <2>1. /\ UNCHANGED <<descriptor, vault, leases, shown, withdrawn>>
          /\ call.at = "binding"
          /\ IF call.op = "register" THEN Leave(c) ELSE Goto(c, "leases")
          /\ binding' = IF call.op \in {"register", "rebind"}
                        THEN call.locator ELSE None
      BY <1>15 DEF AssignBinding
    <2>2. IF call.op \in {"register", "rebind"}
          THEN Active /\ descriptor.version = call.locator
          ELSE descriptor # None /\ ~Active
      BY <2>1 DEF InTurn, TurnShape
    <2>3. binding' = IF Active' THEN descriptor'.version ELSE None
      BY <2>1, <2>2 DEF Active
    <2>4. /\ calls'[c].at # "binding"
          /\ TurnShape(calls[c])'
      <3>1. CASE call.op = "register"
        <4>1. calls'[c] = Idle
          BY <1>0, <2>1, <3>1, AfterLeave
        <4> QED  BY <4>1, TurnOfIdle, IdleIsACall DEF TurnShape
      <3>2. CASE call.op # "register"
        <4>1. /\ calls'[c].at = "leases" /\ calls'[c].op = call.op
              /\ calls'[c].locator = call.locator
          BY <1>0, <2>1, <3>2, AfterGoto DEF Stages, Mutating
        <4> QED  BY <2>1, <2>2, <4>1 DEF TurnShape, Executing, Active
      <3> QED  BY <3>1, <3>2
    <2>5. Withdrawn'
      BY <2>1, <2>2 DEF InTurn, Withdrawn, Active
    <2> QED  BY <2>1, <2>3, <2>4, <2>5
             DEF InTurn, DestroyedIsGone, ShownOwnVersion, Active
  <1>16. ASSUME RevokeLeases(c)
         PROVE  InTurn(c)'
    <2>1. /\ UNCHANGED <<descriptor, binding, vault, leases, shown>>
          /\ calls[c].at = "leases" /\ Leave(c)
          /\ withdrawn' = (withdrawn \/ calls[c].op = "revoke")
      BY <1>16 DEF RevokeLeases
    <2>2. calls'[c] = Idle /\ calls'[c].at = "idle"
      BY <1>0, <2>1, AfterLeave, IdleIsACall
    <2>3. calls[c].op = "revoke" => descriptor # None /\ ~Active /\ binding = None
      BY <2>1 DEF InTurn, TurnShape
    <2>4. Withdrawn'
      BY <2>1, <2>3 DEF InTurn, Withdrawn, Active
    <2> QED  BY <2>1, <2>2, <2>4, TurnOfIdle
             DEF InTurn, DestroyedIsGone, ShownOwnVersion, Active
  <1> QED  BY <1>1, <1>2, <1>3, <1>4, <1>5, <1>6, <1>7, <1>8, <1>9, <1>10,
              <1>11, <1>12, <1>13, <1>14, <1>15, <1>16 DEF CallStep

LEMMA TurnsStep ==
    ASSUME TypeInv, Turns, [Next]_vars
    PROVE  Turns'
  <1>1. ASSUME NEW c \in Callers, CallStep(c)
        PROVE  Turns'
    <2>2. ASSUME ~overlapped'
          PROVE  (/\ OneAtATime /\ Coherent
                  /\ \A d \in Callers : TurnShape(calls[d])
                  /\ Withdrawn /\ DestroyedIsGone /\ ShownOwnVersion)'
      <3>1. \A d \in Callers \ {c} : calls'[d] = Idle
        BY <1>1, <2>2, Alone
      <3>2. InTurn(c)'
        BY <1>1, <2>2, Alone, InTurnStep
      <3>3. OneAtATime'
        BY <3>1 DEF OneAtATime
      <3>4. Coherent'
        BY <3>2 DEF InTurn, Coherent
      <3>5. ASSUME NEW d \in Callers
            PROVE  TurnShape(calls[d])'
        BY <3>1, <3>2, TurnOfIdle DEF InTurn, TurnShape
      <3> QED  BY <3>2, <3>3, <3>4, <3>5 DEF InTurn
    <2> QED  BY <2>2 DEF Turns
  <1>2. CASE Restart
    <2>1. /\ descriptor' = None /\ binding' = None /\ withdrawn' = FALSE
          /\ \A d \in Callers : calls'[d] = Idle
          /\ UNCHANGED <<vault, leases, shown, overlapped>>
      BY <1>2 DEF Restart
    <2>2. OneAtATime' /\ Coherent' /\ Withdrawn' /\ DestroyedIsGone'
      BY <2>1 DEF OneAtATime, Coherent, Withdrawn, DestroyedIsGone, Active
    <2>3. \A d \in Callers : TurnShape(calls[d])'
      BY <2>1, TurnOfIdle DEF TurnShape
    <2>4. ~overlapped' => ShownOwnVersion'
      BY <2>1 DEF Turns, ShownOwnVersion
    <2> QED  BY <2>1, <2>2, <2>3, <2>4 DEF Turns
  <1>3. CASE UNCHANGED <<descriptor, binding, vault, leases, calls, withdrawn,
                         shown, overlapped>>
    BY <1>3 DEF Turns, OneAtATime, Coherent, TurnShape, Withdrawn,
                DestroyedIsGone, ShownOwnVersion, Active
  <1> QED  BY <1>1, <1>2, <1>3
           DEF Next, CallStep, Expire, plane, history, vars

(* As long as callers take turns, the authority the plane speaks of is the *)
(* one it enforces.                                                        *)
THEOREM AuthorityHolds == Spec => []SecretAuthorityHolds
  <1>1. Init => Turns
    <2> SUFFICES ASSUME Init
                 PROVE  Turns
      OBVIOUS
    <2>1. \A c \in Callers : TurnShape(calls[c])
      BY TurnOfIdle DEF Init
    <2>2. OneAtATime /\ Coherent /\ Withdrawn /\ DestroyedIsGone
      BY DEF Init, OneAtATime, Coherent, Withdrawn, DestroyedIsGone, Active
    <2>3. ShownOwnVersion
      BY DEF Init, ShownOwnVersion
    <2> QED  BY <2>1, <2>2, <2>3 DEF Turns, Init
  <1>2. Turns => SecretAuthorityHolds
    BY DEF Turns, Withdrawn, DestroyedIsGone, ShownOwnVersion,
           SecretAuthorityHolds
  <1>3. TypeInv /\ Turns /\ [Next]_vars => Turns'
    BY TurnsStep
  <1> QED  BY <1>1, <1>2, <1>3, TypeCorrect, PTL DEF Spec
=============================================================================
