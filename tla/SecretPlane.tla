---------------------------- MODULE SecretPlane ----------------------------
(***************************************************************************)
(* The secret plane (src/app/secret_plane.py) for one secret: a descriptor *)
(* with a version and a state, an opaque binding to material in a vault,   *)
(* and leases, each the authority to use one version a bounded number of   *)
(* times.                                                                  *)
(*                                                                         *)
(* The descriptor and the binding live in the memory of the process; use   *)
(* counts and revocations live in a SQLiteLeaseStateStore and survive it.  *)
(* The store is locked, the plane itself is not: every access to one of    *)
(* its dictionaries of descriptors and bindings is a step of its own.  The *)
(* locator of the material of version v is v.  The signature of a lease is *)
(* valid, its actor, capability and scope fit the policy, the descriptor   *)
(* has no expires_at, and the audit list, which no decision reads, is left *)
(* out.  So is the dictionary of policies, which only register_secret      *)
(* writes, between a descriptor and its binding: a call that reads it in   *)
(* that gap raises KeyError in the code and may go on here.                *)
(***************************************************************************)
EXTENDS Naturals, Sequences, FiniteSets

CONSTANTS
    Callers,      \* threads that call the plane
    Leases,       \* lease ids: every nonce is new
    None,         \* no descriptor, no binding, no lease
    MaxVersion,   \* versions of the secret
    MaxUses,      \* policy.max_uses
    MaxRestarts   \* restarts of the process

ASSUME SecretPlaneAssumption ==
    /\ MaxVersion \in Nat \ {0}
    /\ MaxUses \in Nat \ {0}
    /\ MaxRestarts \in Nat

VARIABLES
    descriptor,   \* _descriptors[secret_id]
    binding,      \* _bindings[secret_id], a locator
    vault,        \* locators whose material exists
    leases,       \* leases handed out, by id
    leaseState,   \* secret_lease_state, by lease id
    expired,      \* leases whose expires_at has passed
    calls,        \* the call each thread is in
    restarts,     \* restarts so far
    dead,         \* history: leases some finished call has invalidated
    withdrawn,    \* history: revoke_secret has returned in this process
    shown,        \* history: versions shown to a consumer, by lease
    overlapped    \* history: two calls were in the plane at a time

plane == <<descriptor, binding>>
history == <<dead, withdrawn, shown, overlapped>>
results == <<dead, withdrawn, shown>>
vars == <<descriptor, binding, vault, leases, leaseState, expired, calls,
          restarts, dead, withdrawn, shown, overlapped>>

Versions == 1..MaxVersion
Descriptors == [version : Versions,
                state : {"ACTIVE", "REVOKED", "DESTROYED"}]
CapabilityLeases == [version : Versions, max_uses : 1..MaxUses]
LeaseStates == [uses : 0..MaxUses, revoked : BOOLEAN]

(* Python's None is no value of these types, and callers are threads.       *)
ASSUME NoneAssumption ==
    /\ None \notin Versions \cup Descriptors \cup CapabilityLeases
    /\ None \notin LeaseStates \cup Leases
    /\ IsFiniteSet(Callers)

Idle == [at |-> "idle", op |-> None, lease |-> None, descriptor |-> None,
         locator |-> None, max_uses |-> None, late |-> FALSE]

Init ==
    /\ descriptor = None /\ binding = None
    /\ vault = Versions
    /\ leases = [l \in Leases |-> None]
    /\ leaseState = [l \in Leases |-> None]
    /\ expired = {}
    /\ calls = [c \in Callers |-> Idle]
    /\ restarts = 0
    /\ dead = {} /\ withdrawn = FALSE
    /\ shown = [l \in Leases |-> <<>>]
    /\ overlapped = FALSE

Enter(c, call) ==
    /\ calls[c] = Idle
    /\ calls' = [calls EXCEPT ![c] = call]
    /\ overlapped' = (overlapped \/ \E d \in Callers : calls[d] # Idle)
Goto(c, at) == calls' = [calls EXCEPT ![c].at = at]
Leave(c) == calls' = [calls EXCEPT ![c] = Idle]

Registered == {l \in Leases : leaseState[l] # None}
Active == descriptor # None /\ descriptor.state = "ACTIVE"

(* register_secret up to the first assignment; after a restart with        *)
(* whatever version is configured.                                         *)
RegisterSecret(c, version) ==
    /\ descriptor = None
    /\ Enter(c, [Idle EXCEPT !.at = "descriptor", !.op = "register",
                             !.locator = version])
    /\ UNCHANGED <<plane, vault, leases, leaseState, expired, restarts, results>>

(* issue_lease up to register: the descriptor is read once.                *)
IssueLease(c, uses) ==
    /\ Active
    /\ Enter(c, [Idle EXCEPT !.at = "issue", !.op = "issue",
                             !.descriptor = descriptor, !.max_uses = uses])
    /\ UNCHANGED <<plane, vault, leases, leaseState, expired, restarts, results>>

RegisterLease(c, l) ==
    /\ calls[c].at = "issue"
    /\ leases[l] = None
    /\ leases' = [leases EXCEPT ![l] =
                     [version |-> calls[c].descriptor.version,
                      max_uses |-> calls[c].max_uses]]
    /\ leaseState' = [leaseState EXCEPT ![l] = [uses |-> 0, revoked |-> FALSE]]
    /\ Leave(c)
    /\ UNCHANGED <<plane, vault, expired, restarts, history>>

(* verify_lease.                                                           *)
Verified(l) ==
    /\ leases[l] # None
    /\ Active
    /\ descriptor.version = leases[l].version
    /\ l \notin expired

(* execute_with_secret.  late records that the lease was invalid already   *)
(* when the call began.                                                    *)
Execute(c, l) ==
    /\ Verified(l)
    /\ Enter(c, [Idle EXCEPT !.at = "consume", !.op = "execute", !.lease = l,
                             !.late = l \in dead \cup expired])
    /\ UNCHANGED <<plane, vault, leases, leaseState, expired, restarts, results>>

(* Mutant: one use too many.                                               *)
ConsumableOnceMore(l) ==
    /\ leaseState[l] # None
    /\ ~leaseState[l].revoked
    /\ leaseState[l].uses <= leases[l].max_uses

(* LeaseStateStore.consume, under the store's lock.                        *)
Consumable(l) ==
    /\ leaseState[l] # None
    /\ ~leaseState[l].revoked
    /\ leaseState[l].uses < leases[l].max_uses

Consume(c) ==
    LET l == calls[c].lease
    IN /\ calls[c].at = "consume"
       /\ \/ /\ Consumable(l)
             /\ leaseState' = [leaseState EXCEPT ![l].uses = @ + 1]
             /\ Goto(c, "locate")
          \/ /\ ~Consumable(l)
             /\ Leave(c)
             /\ UNCHANGED leaseState
       /\ UNCHANGED <<plane, vault, leases, expired, restarts, history>>

(* The binding is read after the use was counted.                          *)
Locate(c) ==
    /\ calls[c].at = "locate"
    /\ IF binding = None
       THEN Leave(c)
       ELSE calls' = [calls EXCEPT ![c].at = "read", ![c].locator = binding]
    /\ UNCHANGED <<plane, vault, leases, leaseState, expired, restarts, history>>

(* vault.read; the consumer is given the material.                         *)
ReadVault(c) ==
    LET call == calls[c]
    IN /\ call.at = "read"
       /\ IF call.locator \in vault
          THEN /\ shown' = [shown EXCEPT ![call.lease] =
                               Append(@, call.locator)]
               /\ Goto(c, "consumer")
          ELSE Leave(c) /\ UNCHANGED shown
       /\ UNCHANGED <<plane, vault, leases, leaseState, expired, restarts,
                      dead, withdrawn, overlapped>>

(* The consumer returns or raises; the local buffer is overwritten.        *)
ConsumerReturns(c) ==
    /\ calls[c].at = "consumer"
    /\ Leave(c)
    /\ UNCHANGED <<plane, vault, leases, leaseState, expired, restarts, history>>

(* rebind_secret up to the first assignment.                               *)
RebindSecret(c, version) ==
    /\ Active
    /\ version > descriptor.version
    /\ Enter(c, [Idle EXCEPT !.at = "descriptor", !.op = "rebind",
                             !.descriptor = descriptor, !.locator = version])
    /\ UNCHANGED <<plane, vault, leases, leaseState, expired, restarts, results>>

(* revoke_secret up to the first assignment.                               *)
RevokeSecret(c) ==
    /\ descriptor # None
    /\ descriptor.state # "DESTROYED"
    /\ Enter(c, [Idle EXCEPT !.at = "descriptor", !.op = "revoke",
                             !.descriptor = descriptor])
    /\ UNCHANGED <<plane, vault, leases, leaseState, expired, restarts, results>>

(* destroy_secret: the descriptor, then the binding is read.               *)
DestroySecret(c) ==
    /\ descriptor # None
    /\ descriptor.state # "DESTROYED"
    /\ Enter(c, [Idle EXCEPT !.at = "bound", !.op = "destroy",
                             !.descriptor = descriptor])
    /\ UNCHANGED <<plane, vault, leases, leaseState, expired, restarts, results>>

DestroyLocate(c) ==
    /\ calls[c].at = "bound"
    /\ IF binding = None
       THEN Leave(c)
       ELSE calls' = [calls EXCEPT ![c].at = "destroy", ![c].locator = binding]
    /\ UNCHANGED <<plane, vault, leases, leaseState, expired, restarts, history>>

(* Mutant: a vault that fails is taken for one that did destroy.           *)
VaultDestroyUnchecked(c) ==
    /\ calls[c].at = "destroy"
    /\ vault' \in {vault, vault \ {calls[c].locator}}
    /\ Goto(c, "descriptor")
    /\ UNCHANGED <<plane, leases, leaseState, expired, restarts, history>>

(* vault.destroy.  It raises when the adapter cannot destroy the material  *)
(* (EnvironmentSecretVault never can) or does not have it.                 *)
VaultDestroy(c) ==
    /\ calls[c].at = "destroy"
    /\ \/ /\ calls[c].locator \in vault
          /\ vault' = vault \ {calls[c].locator}
          /\ Goto(c, "descriptor")
       \/ Leave(c) /\ UNCHANGED vault
    /\ UNCHANGED <<plane, leases, leaseState, expired, restarts, history>>

(* The descriptor that is registered, or replace(descriptor, ...), computed*)
(* from the one read at the start of the call.                             *)
Updated(call) ==
    CASE call.op = "register" -> [version |-> call.locator, state |-> "ACTIVE"]
      [] call.op = "rebind" -> [call.descriptor EXCEPT !.version = call.locator]
      [] call.op = "revoke" -> [call.descriptor EXCEPT !.state = "REVOKED"]
      [] call.op = "destroy" -> [call.descriptor EXCEPT !.state = "DESTROYED"]

AssignDescriptor(c) ==
    /\ calls[c].at = "descriptor"
    /\ descriptor' = Updated(calls[c])
    /\ Goto(c, "binding")
    /\ UNCHANGED <<binding, vault, leases, leaseState, expired, restarts, history>>

AssignBinding(c) ==
    /\ calls[c].at = "binding"
    /\ binding' = IF calls[c].op \in {"register", "rebind"}
                  THEN calls[c].locator ELSE None
    /\ IF calls[c].op = "register" THEN Leave(c) ELSE Goto(c, "leases")
    /\ UNCHANGED <<descriptor, vault, leases, leaseState, expired, restarts, history>>

(* Mutant: a rotation leaves old leases to the version check.              *)
RevokeLeasesOnRevocation(c) ==
    /\ calls[c].at = "leases"
    /\ leaseState' = [l \in Leases |->
                         IF l \in Registered /\ calls[c].op # "rebind"
                         THEN [leaseState[l] EXCEPT !.revoked = TRUE]
                         ELSE leaseState[l]]
    /\ dead' = dead \cup Registered
    /\ withdrawn' = (withdrawn \/ calls[c].op = "revoke")
    /\ Leave(c)
    /\ UNCHANGED <<plane, vault, leases, expired, restarts, shown,
                   overlapped>>

(* LeaseStateStore.revoke_secret; then the call returns.                   *)
RevokeLeases(c) ==
    /\ calls[c].at = "leases"
    /\ leaseState' = [l \in Leases |->
                         IF l \in Registered
                         THEN [leaseState[l] EXCEPT !.revoked = TRUE]
                         ELSE None]
    /\ dead' = dead \cup Registered
    /\ withdrawn' = (withdrawn \/ calls[c].op = "revoke")
    /\ Leave(c)
    /\ UNCHANGED <<plane, vault, leases, expired, restarts, shown,
                   overlapped>>

(* The clock passes expires_at of a lease.                                 *)
Expire(l) ==
    /\ leases[l] # None
    /\ l \notin expired
    /\ expired' = expired \cup {l}
    /\ UNCHANGED <<plane, vault, leases, leaseState, calls, restarts, history>>

(* The process dies and starts again: memory is gone, the lease store and  *)
(* the leases in the hands of clients are not.                             *)
Restart ==
    /\ restarts < MaxRestarts
    /\ restarts' = restarts + 1
    /\ descriptor' = None /\ binding' = None
    /\ calls' = [c \in Callers |-> Idle]
    /\ withdrawn' = FALSE
    /\ UNCHANGED <<vault, leases, leaseState, expired, dead, shown, overlapped>>

Next ==
    \/ \E c \in Callers :
          \/ \E v \in Versions : RegisterSecret(c, v) \/ RebindSecret(c, v)
          \/ \E u \in 1..MaxUses : IssueLease(c, u)
          \/ \E l \in Leases : RegisterLease(c, l) \/ Execute(c, l)
          \/ Consume(c) \/ Locate(c) \/ ReadVault(c) \/ ConsumerReturns(c)
          \/ RevokeSecret(c) \/ DestroySecret(c) \/ DestroyLocate(c)
          \/ VaultDestroy(c)
          \/ AssignDescriptor(c) \/ AssignBinding(c) \/ RevokeLeases(c)
    \/ \E l \in Leases : Expire(l)
    \/ Restart

Spec == Init /\ [][Next]_vars

-----------------------------------------------------------------------------
(* "secret authority is scoped by ... use count" (SECRET_PLANE_V1.md:20):  *)
(* however many threads present a lease, and across restarts of the        *)
(* process, the material is shown at most max_uses times under it          *)
(* (execute_with_secret counts the use before it reads the vault).         *)
UsesBounded ==
    \A l \in Leases :
        shown[l] # <<>> => Len(shown[l]) <= leases[l].max_uses

(* "rotation invalidates outstanding leases for prior versions",           *)
(* "revocation invalidates outstanding leases" (SECRET_PLANE_V1.md:21-22): *)
(* a call of execute_with_secret that begins after rebind_secret,          *)
(* revoke_secret or destroy_secret has returned, or after the lease has    *)
(* expired, never gets material under a lease of before, not even in a     *)
(* later process that knows only the lease store.                          *)
InvalidatedForGood ==
    \A c \in Callers : calls[c].at = "consumer" => ~calls[c].late

(* SECRET_PLANE_V1.md: a lease is the "authority to use one secret version"*)
(* (:34), revoke_secret "removes local authority to resolve/use the secret"*)
(* (:108), and destruction is "only claimed if the selected vault adapter  *)
(* can actually destroy" the material (:23).  As long as callers take turns*)
(* a lease shows its own version only, a secret whose revocation has       *)
(* returned is neither active nor bound while the process lives, and the   *)
(* material of a version that is DESTROYED is not in the vault.            *)
SecretAuthorityHolds ==
    ~overlapped =>
        /\ \A l \in Leases : \A i \in DOMAIN shown[l] :
              shown[l][i] = leases[l].version
        /\ withdrawn => ~Active /\ binding = None
        /\ (descriptor # None /\ descriptor.state = "DESTROYED")
              => descriptor.version \notin vault
=============================================================================
