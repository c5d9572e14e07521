# TLA+ models of the MatVerse GPT project bridge

This directory models the stateful core of the bridge in TLA+, checks it with
TLC on small instances, and proves the central safety results with TLAPS.
`PROJECT.json` is the machine-readable index: components, runs, the map from
definitions to source lines, mutants, hazards, findings and theorems. Paths
below are relative to the repository root, which is `src/` here.

Contents: [inventory](#inventory), [plan](#plan),
[modules and code](#modules-and-the-code-they-model), [runs](#runs),
[bounds](#bounds), [fairness](#fairness-and-deadlock), [proofs](#proofs),
[findings](#findings), [what is not modelled](#what-is-not-modelled).

## Inventory

The repository is a Python service (FastAPI, SQLite) that lets language models
propose things and lets a governed runtime decide, act, record and publish.
Five families of components keep state.

### 1. The organism and its physiology

| component | state it keeps | operations | what makes it correct |
|---|---|---|---|
| Event journal (`app/physiology.py`, `PhysiologyJournal`) | SQLite tables: events with unique ids, runtime state rows, consumer offsets | `append` (idempotent by id, refuses an id with another payload), `read`, `load_state`/`save_state`, `consume`/`ack` | an id names one event for good; nobody skips events |
| Physiology engine (`PhysiologyEngine.tick`) | cycle number, safe mode, NORMAL streak, RSS peak; a copy in the journal | one governed cycle: sense, plan, authorize, execute, observe, commit | an effect is authorized and happens once per cycle, the journal tells what happened, safe mode is left only after a real streak |
| Restart recovery (`app/physiology_recovery.py`) | none of its own | seal every cycle without a terminal event, at start | comes up with all interrupted cycles sealed, also when it dies while sealing |
| Closed loop (`app/physiology_effect_feedback.py`) | authenticated feedback state (failure streak, recovery gate and its origin) | gate, tick, measure again, persist, append EFFECT_FEEDBACK | a failed effect changes what may execute next; only the matching recovery passes a closed gate |
| Supervisor (`app/homeostatic_supervisor.py`) | bound policy, attempt counter per origin | `step`: propose a recovery when one is pending | one policy bound before the failure, every attempt numbered and citing persisted evidence, a pending recovery is attempted |
| Governed organism (`app/organism_loop.py`) | constraints, lineage, root cache, generation | `evaluate`, `observe_rejection`, `authorize_constraint`, `export_state`, `restore` | constraints rest on rejections of the gates, survive moves between runtimes, the cached root is current |

They are nested calls in one process: supervisor → closed loop → engine →
organism and executor, all writing the same journal file. Hard here: a crash or
a raised error between any two durable writes, a retry over half-written
history, state planned before a write and used after it.

### 2. The institutional adapter

| component | state | operations | what makes it correct |
|---|---|---|---|
| Intent submission (`app/institutional_service.py`, `institutional_store.py`) | accepted intents, the ledger | submit: lookup, freshness of the source, persist | an intent is accepted once, against the ledger it names; a retry gets the stored acceptance |
| State client and durable object (`app/institutional_state_client.py`, `deploy/cloudflare/src/index.ts`) | the same, remote | snapshot, item, accept over HTTP with timeouts | the same register as the local store, whatever calls are lost or late |
| Projection, contract, protocol | none | render and validate | pure |

Hard here: two adapter processes, a lookup and a check in separate calls, calls
that time out and still take effect.

### 3. The federation trust plane

| component | state | operations | what makes it correct |
|---|---|---|---|
| Key registry (`app/federation_key_registry.py`) and endpoints (`federation_trust_plane.py`) | authority keys, revocations, relation bindings, ledger events | register, rotate, revoke, bind; the governed gate reads | linear lineage per authority, tables and ledger agree, retries get their own receipt, a decision is that of one moment |
| Relations and witness (`federation_relation.py`, `federation_ed25519.py`) | none | sign by two sides, verify with secrets, public keys or both | a signature covers the payload |
| Routing (`federation_routing.py`) and the federated graph (`federation_relation.py`) | none; relations are read for each call | constrained shortest path, conservativity report, route over boundaries that relations open | the route is optimal and admissible, every boundary is governed, the loops end |

Hard here: two-step rotations from a thread pool, three reads of the gate
between mutations, half-open windows, retried mutations; relations that expire
and keys that are revoked between two crossings of one route; a shortest path whose heap keeps entries
that were overtaken.

### 4. Ledger, model bridge, secrets

| component | state | operations | what makes it correct |
|---|---|---|---|
| Ledger and model bridge (`app/storage.py`, `model_bridge.py`, `main.py`) | hash chain, contract artifacts, sessions, handoffs, nonces | append, register artifact, create session, handoff, inbox, acknowledge | chain and tables agree; parents and sequence numbers within a session; one acknowledgement |
| Secret plane (`app/secret_plane.py`) | descriptors and bindings (memory), leases (SQLite), vault | register, issue, execute, rebind, revoke, destroy | one version per lease, bounded uses, invalidation is final also across restarts |
| OpenAI provider route (`openai_runtime.py`, `openai_secret_plane.py`, `openai_provider.py`) | one secret plane per request; ledger event | one governed call | every outcome is on the ledger |
| Authentication (`auth.py`) | nonces with an expiry | check headers, read the body, consume the nonce, check the capability | a signed request is accepted once in its window |
| Core gates (`core.py`) | none | `evaluate_hdb`, `omega_gate` | human data is kept or sent only as an authorized representation |
| State store, evidence | a connection, none | open, hash | trusted |

Hard here: the clock is read before the body is awaited and the nonce is
consumed after it; handlers run in a pool of threads; a kill or a failed append
between the provider's answer and its record; an answer that is lost after it
took effect.

### 5. Publication

| component | state | operations | what makes it correct |
|---|---|---|---|
| MARXIV runtime publisher (`app/marxiv_runtime_publisher.py`) | files of a sandbox: state, challenge, approval, staged manuscript, projection | prepare, request-approval, approve, publish, reconcile | only the approved package is submitted, once per confirmation, and an uncertain outcome is held |
| Publication bridge (`publication_bridge.py`) | transport status | prepare, authorize login | called by the publisher |
| Human authority (`marxiv_human_authority.py`) | private key, public registry, signed approval, evidence pack | init, describe, sign, verify, bundle | a pack tells of an approval the person gave |
| Approval seal (`marxiv_approval_seal.py`) | intent file, evidence copies | prepare, request, approve and copy for an intent | the evidence tells of the package that was meant |
| Preflight, LLM publication bridge | none | validate | pure |

Hard here: commands are processes without a lock, files are truncated and
rewritten, a challenge may be reissued after it was shown, and a click on a
portal cannot be undone or observed atomically.

The remaining parts (runtime discovery and binding, bridge envelopes, drift
engine, executor substitution, deterministic lab, reproduction capsule, QTN
watch, Atlas, benchmarks, scripts) are listed in `PROJECT.json` with the reason
they are not modelled. `PROJECT.json` lists 39 hazards, each at the line where
it bites, with the properties aimed at it.

## Plan

The order in which the project was built, the most important behaviour first:

1. `Journal`, `Physiology`; `ClosedLoop` extends `Physiology`,
   `Supervisor` extends `ClosedLoop`, as the code wraps one in the other.
2. `Publisher`, and `Ceremony`, which extends it by the two other ways to
   approve.
3. `IntentRegister` (abstract) and `Intents`, shown to implement it.
4. `FederationRelation`, `KeyRegistry`; `GovernedGate` extends
   `KeyRegistry`. `Routing`, and `FederatedRouting`, which extends it and
   instantiates `FederationRelation`.
5. `SecretPlane`, `Organism`.
6. `Auth` and `CoreGates`; `ModelBridge` extends both, `ProviderRoute` extends
   it, and `Service` composes them over one store.
7. Proofs for all of these (see [proofs](#proofs)).

What could follow: an instance of `Ceremony` with two commands at a time, once
the code has a lock to speak of; the LLM publication bridge.

## Modules and the code they model

Statements are steps. In every module an action ends where another actor, a
crash or a raised error can come between it and the next statement that matters;
what is one transaction, or touches only local memory, is one action.

**`Journal`**: operators on the events table. An event id is the pair of cycle
and type (with a suffix where the code puts one); a second append with the same
id and body changes nothing, with another body it is refused. `IncompleteCycles` is
`find_incomplete_cycles`.

**`Physiology`**: one process. Durable are `journal`, `durable` (the
runtime_state row), `exported` (the organism export an operator keeps) and
`effects` (history: what the executor was called for in the world, and how each
call ended); `mem`, `call`, `pc` and `error`
belong to the process. `Boot`, `Seal` and `LoadState` are the constructor;
`TickStart` to `FinalPersist` are the statements of `tick`; `TickRaises` is an
error between two of them, after which the caller may tick again with the memory
as it is; `Crash` loses memory. A cycle id is the pair of cycle number and the
cycles of the organism's lineage, which determines the hash in the code. Gate
inputs and the human hash are left out: a decision is any of PASS, HOLD and
BLOCK. `Execute` follows the two ways an executor call can end: a result that is
returned counts as executed whatever status it carries ("ERROR" included), and
an exception is put on record as status ERROR with nothing executed;
`ExecuteBadResult` is a result the engine cannot use. Telemetry is a disk level, an RSS flag and a journal check; the RSS flag
is sticky, as the code reads a peak.

**`ClosedLoop`** adds the persisted feedback state `fb`, its copy `fbmem` and
the wrapper's position `lpc`. It wraps the plain engine (the code constructs no
sealing engine here). The MAC of the feedback state is abstracted to the state
being authentic; `last_effect_status` and the post-effect health are reported
only and left out.

**`Supervisor`** adds the bound policy, the attempt counters and the step of
`_step_locked`. `ReadLimit` stands for the 10 000 rows the search for the source
event reads. `lost` says that a step found no source event; `boundAt` is the
length of the journal when the policy was bound.

**`Organism`**: a lineage of evaluations and promotions per runtime. The receipt
of an evaluation is the lineage up to it, the state root is the state, the
gates' verdict on an unconstrained proposal is an input. Of several matching
constraints any may be the first, since the code orders them by hash. One
candidate and one export are held at a time.

**`IntentRegister`, `Intents`**: the register accepts an intent at most once and
only against the present ledger. `Intents` has adapter processes (`Handlers`;
within one process the `async def` handler has no await and runs alone), the
local transaction, and the remote calls in `net` and `replies`; `backend` is
the configured one and never changes. A projection
hash is the length of the ledger it was computed from, an intent hash is the
intent. The transactions of the durable object are atomic, and its 500 answers
count like its 409.

**`FederationRelation`, `KeyRegistry`, `GovernedGate`**: each mutation is one
`BEGIN IMMEDIATE` transaction and so one action; `rotate` is two. A key id is
the key, a digest is the payload, a signature is (key, role, digest). The
handlers are synchronous FastAPI functions, which run in a thread pool and so
interleave. The gate's clock can be injected, so its time is any of `Times`;
whether the request fits the relation is one Boolean there.

**`Routing`**: `POST /federation/route`. An action is one iteration of a loop of
`CapabilityGraph.route` or `conservativity_report`, inner loops included:
`Visit` pops a node, `RelaxNext` looks at the next of its crossings (`pending`,
in the order of the request), `WalkBack` follows `previous` by one. So the heap,
the entries that were overtaken and the tree of `previous` are the code's. Node
ids are numbers in the order Python compares them; the heap is a set, which is
the same as long as no entry is pushed that it holds (`HeapIsASet`, below).
Costs and criteria are integers. `min` over a set of ids takes any of the best.
A request whose handler raises is answered 409 or 500. `IsRequest` is what the
constructors of the code let through.

**`FederatedRouting`** puts `FederatedCapabilityGraph.route` in front of the
search: `ReadRelations` reads the source once; each crossing is judged in two
steps, `LookAtClock`, in which the gate takes its timestamp, and `Boundary`, in
which it looks at everything else; `Traverse` names the relations along the
path. `Time` passes and, under the governed gate, `RevokeKey` revokes keys
anywhere in between. `asked.verifier` is the gate. Without the lifecycle flag
(`enforces_key_lifecycle`) it holds secrets and public keys by scheme, which
makes it any of the three cryptographic gates. With the flag it is
`GovernedEd25519RelationIntegrityGate`: it refuses HMAC relations and wants a
binding of exactly this relation to keys of its authorities that are effective
at the timestamp (`Effective`, `VerifiesByBinding`). Its three reads of the
registry are one step here; `GovernedGate` takes them apart, and
`OneMomentDecides` says that such a decision is that of one moment. A binding
that is registered during a call is left out: it could only open a boundary
that was closed. A `ValueError` of the search is written as the 409 the endpoint
makes of it.

**`Auth`, `CoreGates`, `ModelBridge`, `ProviderRoute`, `Service`**: one process
with a pool of threads over one store. Clients sign requests (`sent`), and any
of them may be delivered at any time and any number of times. `Arrive` is
`authenticate` up to the await of the body, `Accept` the consumption of the
nonce and the capability check. Each handler then makes its store calls, each of
which is one transaction and one action: `create_model_session` is two
(`ValidateSession`, `InsertSession`), the provider route ends at `Call`,
`Process` (the provider acts), and what the route makes of the answer: it is
recorded as a response or a failure, withheld because it holds the credential
(`WithholdAnswer`), or refused without a record because it cannot be hashed
(`RefuseAnswer`). `HandlerFails` is a transaction
that raises and is rolled back, `ConsumeUnanswered` a nonce call to the remote
state service whose answer is lost, `Crash` a kill. What a request declares
about human data is the set of fields that are set. Ids are places in the
tables; the hash chain is the order of `ledger`.

**`Publisher`**: every command is a process on the files of one sandbox. A hash
is what it is computed from; the five hashed files are two, the manuscript and
the projection. `WriteFile` writes one file; a process killed while it writes
leaves `Torn`. Edits between commands are commands too. `ClickRaisesLate` says
whether a click may raise after the portal was reached.

**`Ceremony`** adds the person with a key of her own, whose commands are
processes that interleave with the publisher's, and `seal_approval`, one process
that runs prepare, request and approve and copies what it reads. `mode` fixes
the operators' way of approving for a behaviour. `Sign` and `WriteSigned`,
`BundleVerify` and `BundleWrite` are the two halves of commands that check first
and write (or read again) later; `HandDies` cuts one off with a torn file.
`confirmed` is the history of signatures that were made while the challenge was
live and its phrase had been shown.

**`SecretPlane`**: one secret. Descriptor and binding are in memory, use counts
and revocations in the SQLite lease store, material in the vault at a locator
equal to its version. Every access to the dictionaries of descriptors and bindings is a step, those of
`register_secret` included, since the plane has no lock; `overlapped` records
that two calls were in it at a time. The dictionary of policies, which only
`register_secret` writes, between the two others, is left out: a call that reads
it in that gap raises `KeyError` in the code and may go on in the model. The signing key is the same after a restart, and
the configured version may be any. A revoked secret cannot be destroyed any more
(its binding is gone and `destroy_secret` raises), which the model follows.

The `MC…` modules only give values to constants.

## Runs

"v" marks a run in which TLC must find the property violated; see
[findings](#findings).

| run | instance | properties |
|---|---|---|
| `physiology` | three cycles, any health, decision and effect, one fault | `EffectsAuthorized`, `ExitNeedsNormalStreak`, `CommitsTellTheTruth`, `CounterNeverMovesBack` |
| `physiology_restart` | two cycles, three faults, stale exports, fairness | `NoEventIdCollision`, `CyclesEvaluatedOnce`, `RestartCompletes` |
| `physiology_aborted` v | two cycles, two faults | `AbortedNeverCommitted` |
| `supervisor` | two cycles, two faults, two policies or no supervisor, recovery and stale proposals, fairness | `GateMatchesJournal`, `FailedEffectClosesTheGate`, `OnlyRecoveryActsWhileGated`, `PolicyBoundBeforeFailure`, `AttemptNumbersGrow`, `PendingRecoveryIsAttempted` |
| `organism` | two runtimes whose lineages part after a restore, a proposal that extends another | `ConstraintsAreGrounded`, `ConstraintsAreInherited` |
| `intents` | two adapters, either backend, lost and late calls, other writers | `RetriesAreIdempotent`, `ImplementsRegister` |
| `governed_gate` | three keys of two authorities, a two-step rotation, revocations, bindings, the gate's three reads | `OneEffectiveKey`, `LedgerMatchesTables`, `ReceiptsNameTheRequest`, `BoundKeysCover`, `ReplayIsStable`, `OneMomentDecides` |
| `routing` | all graphs of three nodes with up to three crossings, detours over four nodes, federated calls under relations that begin, end, are withdrawn, changed or half signed, with secrets and with governed keys that are revoked meanwhile | `RouteIsOptimal`, `ConservativeMeansPathFree`, `BoundariesAreGoverned`, `RequestsAreAnswered` |
| `publisher` | one publisher command at a time in three ways of approving, two authorities, edits between commands, expiry, a kill, torn files, late clicks | `OneClickPerApproval`, `PerformedIsHeld`, `PackIsConfirmed`, `SealedIsIntended`, `ClickedWasApproved` |
| `publisher_uncertain` v | no kill, a click that raises late | `UncertainIsHeld` |
| `secret_plane` | two threads, one lease, two versions, two restarts | `UsesBounded`, `InvalidatedForGood`, `SecretAuthorityHolds` |
| `service` | two requests of fifteen kinds on a database in use, two threads, one fault | `AcceptedOncePerWindow`, `TablesAreLedgered`, `HandoffsFormAHistory`, `KeptPayloadsAreAuthorized`, `CallsAreAccounted` |

What they show, beyond the sentence each has in `PROJECT.json`:

- The physiology and supervisor runs cut every tick at every durable write. The
  journal, the persisted numbers and what the executor did stay consistent,
  and a start always ends with everything sealed.
- `intents` is a refinement: `Register!Spec` with the ledger of the store, so
  that both backends are a compare-and-append register whatever calls are lost.
- `service` shows that a nonce row outlives every acceptance on time, although
  it is deleted by other requests, and that every call the provider processed
  is told by one event, unless a fault cut the record off or the answer could
  not be hashed (`openai_provider.py:75`). An answer that is withheld is told by
  `OPENAI_SECRET_PLANE_HOLD`, the event of a credential that was never
  disclosed; only its `error_type` says `SecretExposureError`, and the answer of
  the route ("could not authorize or disclose", `openai_provider.py:113`) is the
  same for both.
- `routing` compares the search with all walks (`Walks`), a definition that has
  no heap, and a federated route with the verdicts of the gate at all instants
  of the call, under the revocations of all its instants.

Every property of a passing run has a mutant: a plausible error in one
definition (an operator defined just before it) under which TLC finds the
property violated.

## Bounds

Every bound is a named constant in a guard, and each is chosen so that the case
the properties are about occurs.

- Physiology: `ExitStreak = 2` is the smallest streak that can be interrupted;
  a cycle cut short, its repetition and a later cycle need `MaxCycles` 2 or 3,
  and three faults include a crash while sealing after a crash. The samples
  cover each health, a sticky RSS peak and a damaged journal.
- Supervisor: one failure closes the gate (`GateAfter = 1`); two cycles hold a
  failure and its recovery, and two faults cut short an attempt and the start
  after it. `MaxAttempts = 2` is one attempt after the one a fault cuts short.
  `ReadLimit` exceeds the journal.
- Intents: two ids, two principals of whom one is a delegate, two adapters and
  two accept calls: an original and its retry, or two competitors.
- Key registry: three keys give a rotation, a competitor for it and a key of the
  other side; times 0..2 give two adjoining windows; four mutations are two
  registrations, a binding and a revocation. The presented records include an
  overlap and a key of the other authority, the relations one that was changed
  after signing and one that outlives its key.
- Publisher and ceremony: two revisions, challenges and approvals: an old and a
  new package; two authorities: a signer and another.
- Service: the database holds a session with a pending handoff, and an artifact
  and a session may still be added to it. With that handoff two requests are
  two of any session's history, a pair of nonces that delete each other's rows,
  or a request and its copies. `Window = 1` and `MaxTime = 2` let a nonce expire
  and its request still be in flight.
- Routing: every shape of cycle, parallel crossing and unreachable target occurs
  with three nodes; entries that are overtaken after they were used need the
  detours over four. `MaxTime = 3` puts a relation's beginning and end at every
  place of a call; the three revocations close the detour from the beginning, the
  detour from 2 on, and everything that leads to the third domain from 1 on. `Unit = 2` makes goodness worse, equal or better.
- Secret plane: two versions are an old and a new one, in either order, since a
  restart configures any; two restarts come before and after a rotation; one
  lease, since leases meet
  only in the descriptor and each has its own row.
- Organism: one start and one export give two runtimes a common past and
  different futures; two events are enough for one id to name two evaluations;
  a lineage of three holds rejection, promotion and a constrained rejection.

Symmetry is used over handlers, runtimes, events, principals, callers,
authorities and threads, where
only safety is checked and no property tells them apart.

## Fairness and deadlock

`physiology_restart` (`FairSpec`) assumes weak fairness of the steps of a
running `tick` and of starting a process: a process that is not killed executes
its next statement, and an operator restarts a dead one. Faults are bounded and
not fair. `supervisor` (`FairSuperSpec`) adds that the host calls `step` again
while a recovery is pending, which is how the supervisor is meant to be driven.
`routing` assumes that a handler that runs goes on running (`WF` of `Next`, and
of `Call` in a federated one): its loops are not preempted for good, and its
termination does not rest on time passing. Nobody is obliged to tick, to submit
or to approve.

All configurations set `CHECK_DEADLOCK FALSE`: callers may stop calling, and the
bounds end every behaviour. What must not stop is stated as liveness.

## Proofs

`tlapm` checks eight proof modules to the last leaf. 37 of the 40 properties of
the passing runs are theorems for all values of the constants that satisfy the
named assumptions, which TLC evaluates on the instances. A hypothesis that is
not an assumption of the model stands in the theorem itself. `PROJECT.json`
lists the theorems. Bounds such as `MaxCycles` or `MaxLedger` are any natural
numbers.

**`Physiology_proofs`**, from `ExitStreakAssumption`, `BoundsAssumption`,
`ProposalsAssumption`, `SamplesAssumption` and `StatusesAssumption`:
`TypeCorrect`, `NoCollisions`, `EffectsAreAuthorized`, `EvaluatedOnce`,
`CounterMonotonic`, `CommitsAreTrue`, `SafeModeHysteresis`. None of these is
inductive alone. A crash makes the engine
reuse a cycle number, so that no event collides holds only because the number is
persisted before the first event whose payload can differ between two runs of
the same cycle. `IInv` says so in parts: `LocalsSet` (what the running call has
computed at each statement), `Numbers` (memory, durable state and journal agree
on the numbers given out), `HistoryPersisted` (a cycle that got past TICK has a
persisted number), `Fresh` (the running cycle has no events at or after its
statement), `TicksAlike` (TICK events of a cycle are equal), `Authorized` and
`EffectsAuthorized` (a running effect has its journaled decision and plan),
`NoEventIdCollision`. `Invariance` has one step per action, and under it one per
part the action can disturb; `CounterMonotonic` follows from the same invariant.
`Truthful` adds what is on record of the running cycle at each statement, and how
the call of its executor ended, which a commit then repeats: executed exactly
when the call returned, with the status it returned. `Hysteresis` says of the memory and of the durable row
that the streak they count really is one of calm cycles, and that outside safe
mode every CRITICAL observation was followed by `ExitStreak` of them
(`Recovered`): the durable row lags behind the memory, so that a crash in
between needs both.

The second half of the module is about the supervisor, from `PoliciesAssumption`,
`RecoveryAssumption` (a recovery is one of the proposals), `GateAfterAssumption`
and `ReadLimitAssumption`: `PolicyIsBoundFirst`, `NumbersGrow`,
`GateIsOnRecord`, `GatedEffectsRecover` (an action property) and
`FailuresCloseTheGate`. `SInv` says that every feedback state, persisted or in
memory, names a cycle whose EFFECT and commit are on record (`Committed`,
`Gated`), and that the persisted counter is at least every number in the journal
(`Attempted`), so that a number is used up before it is written.
`Settled` follows the newest EFFECT until it is measured.
`FailuresCloseTheGate` has the hypothesis `GateAfter = 1`, since with a larger
threshold an earlier failure is meant to leave the gate open.

**`Organism_proofs`**, from `OrganismAssumption`: `LearnedFromRejections`,
`ConstraintsBind`. `Accounted` makes every state sound, the one an operator
carries to another runtime included: its constraints are exactly those its own
lineage promoted, each from a rejection before it. The lineage only grows, and
what it says of its past does not change (`PromotedOfAppend`).

**`Intents_proofs`**, from `IntentsAssumption`: `IntentsImplementRegister`, the
refinement, step by step: each action is a step of the register on the ledger of
the store or leaves it alone, since both backends look for the intent and
compare the ledger in the very step that appends. `RegisterPromises` is proved
of the abstract register alone and carried over by the refinement
(`IntentsAcceptedOnce`). `RetriesIdempotent` needs besides that an intent that
was on record when it was submitted again stays there, and is found by the
lookup (`Retries`).

**`KeyRegistry_proofs`**, from `KeyRegistryAssumption` and `RelationAssumption`
(a relation has the fields the registry looks at): `TypeCorrect`,
`LineageIsLinear`, `LedgerIsFaithful`, `ReceiptsAreFaithful`, `BindingsCover`.
Registration compares a new key with the end of the lineage only. That all
windows of an authority are disjoint (`Disjoint`) is preserved because the key
without successor is the last one in time (`TipIsLast`), also after revocations,
which only shorten windows. `ReceiptsInRange` gives every receipt its ledger
position; `LedgerMatchesTables` is preserved because events are only appended
and never repeated. `GateIsSilent` shows that the gate's specification implies
the registry's, so that all of this holds while evaluations run.
`DecisionIsOfOneMoment` and `ReplayStands` are about the gate: a step of the
registry keeps every row, revocation aside, and every binding, and gives what it
adds a later receipt (`PastStays`), so that the ledger's past gives the answers
it gave (`PastIsFixed`). The moment is the one at which the binding was read:
bound keys were registered before (`KeysComeFirst`), so a key that is effective
when its row is read, later, was effective then (`BoundAtTheTime`).

**`SecretPlane_proofs`**, from `SecretPlaneAssumption` and `NoneAssumption`
(None is no descriptor, lease or row; finitely many threads): `TypeCorrect`, `UsesAreBounded`,
`InvalidatedIsFinal`, `AuthorityHolds`. `UsesCounted` counts a use from the
moment the store gave it away: uses shown and uses in flight together are at
most the store's count, which is never lowered, not even by a restart.
`LateCallsFail` says that the store itself knows each invalidated lease.
`Turns` is what the plane looks like at each statement of a call while no other
call is in it.

**`Service_proofs`**, from `AuthAssumption` (with finitely many threads, which
only `CallsAccounted` uses) and `ServiceAssumption`: `AcceptedOnce`,
`KeptIsAuthorized`, `HandoffsAreAHistory`, `TablesAreTold`, `CallsAccounted`.
`ServiceAssumption` says that a database the service opens is one an earlier
life of the service left: rows with the table's columns, handoffs that form a
history (`IsHistory`) and a ledger that tells of the tables (`IsLedgered`).
That no nonce is accepted twice on time is
not inductive: rows are deleted. `OnceEach` adds that a nonce accepted on time
has its row or is too old to be accepted on time again
(`RowsOutliveTheirWindow`), and `Working` that every thread works on a request
that was signed. All handlers, errors and the crash only move a thread on
(`Proceeds`), which one lemma for each handler shows. `KeptInv` adds to it that
an ingress on the ledger whose payload was kept points to a signed request
without human data; `GateAuthorizes` is the fact about the cascade of the gates
it rests on. `HistoryInv` adds that a session being inserted has a registered
contract (`Inserting`): the registry is read in an earlier transaction, and
holds because artifacts are never removed. `LedgerInv` rests on it, because an
acknowledgement on the ledger points to a row of the table. `CallsInv` balances
for each nonce what was accepted, exposed, processed, told and cut off
(`Balance`): a thread bound for the provider has an acceptance to itself, and
one that awaits its record has no event yet. Told means one of three outcomes:
a response, a failure or a withheld answer (`Outcome`).

**`Ceremony_proofs`**, from `PublisherAssumption`: `ConfirmationsAreSpent`,
`ReportedIsRecorded`, `OnlyTheApprovedIsSubmitted` (an action property),
`SealsAreIntended`, with the hypothesis that one command runs at a time
(`Procs = {p}`), which is what the documents describe: there is no lock, and two
publish commands may both read APPROVED. `PacksAreConfirmed` needs no such
hypothesis. The disk is
inductive only together with what a running command still has to write, since a
kill stops it between any two files: `PInv` says that a state APPROVED is on
disk only beside a confirmation no submission was made with (`Rights`), and
that the command's remaining writes keep it so (`Running`, `Unfinished`).

**`Routing_proofs`**, from `RoutingAssumption` and `FederatedAssumption`
(criteria are integers, costs and weights natural numbers, and a federated graph
has no crossings before its boundaries are judged): `RoutesAreOptimal`, that an
answered path is a walk of least total cost over the admissible nodes and that
none is refused that exists; `HeapIsASet`; `ConservativeIsPathFree`;
`RoutesAreGoverned`; `FederatedRoutesAreOptimal`, the first and the third under
the specification of the federated graph. A walk is a sequence of crossings that
follow each other through no node twice, and its cost a recursive function of
it. `SearchInv` is the invariant of the search: a node that does not wait in the
heap under its distance has all its crossings relaxed, those in `pending`
excepted (`Frontier`); `previous` names a crossing over which a node is reached
at no more than its distance (`Tree`); and to every node that was found a walk
leads over nodes that were found (`Walked`). With the heap empty no walk costs
less than the distance of its end (`WalksCostNoLess`). The walk back along
`previous` costs no more than that distance, so the two inequalities meet, and
it goes through no node twice, since from two such places it would go back alike
(`TraceIsWalk`). For a report without violations a walk costs the difference of
its ends' potentials (`CostIsDifference`). Of a federated call, `Opened` says
that each crossing in the graph was open at an instant since the relations were
read, under the revocations of such an instant, and `Seen` that one that was
open all that time, and has been evaluated, is in the graph. The search is not
disturbed by the clock or by revocations, which only add instants (`WorldStep`).

What a sum or a walk of every length satisfies is shown by the least
counterexample: a set of natural numbers that is not empty has a least element
(`Least`, from the library's `WFMin`), from which `Induction` follows with a set
for the predicate. The induction theorems with an operator as a parameter, which
the installed provers cannot instantiate, are not needed.

Only model-checked is liveness under fairness (`RestartCompletes`,
`PendingRecoveryIsAttempted`, `RequestsAreAnswered`), which is beyond the prover,
like `ENABLED`. No module declares a `RECURSIVE` operator.

## Findings

Two runs violate a property that a document or docstring of the repository
states; `PROJECT.json` quotes the lines.

1. `physiology_aborted`: after a crash between TICK and the first persist a cycle
   is sealed as aborted, and its id is used again and committed.
2. `publisher_uncertain`: a click that reaches arXiv and then raises leaves
   `HOLD_PRE_SUBMIT`, which cannot be reconciled.

Where a stronger property does not hold, the property that is checked says where
its limit is:

- `FailedEffectClosesTheGate` holds while nothing crashed or raised: an error
  between the EFFECT event and the persisted feedback leaves a failed effect on
  record and the gate open (`physiology_effect_feedback.py:460`).
- `PendingRecoveryIsAttempted` allows for a source event that was never written:
  the feedback state is persisted before its event, and a crash in between
  leaves a recovery no step can propose (`physiology_effect_feedback.py:383`).
- `RetriesAreIdempotent` is about intents accepted before they are submitted
  again. An accept call of an earlier attempt may commit between the lookup and
  the freshness check of the retry, which is then answered as stale
  (`institutional_service.py:201-212`).
- `PerformedIsHeld` allows for SUBMITTING after a kill: no command turns it into
  a hold (`marxiv_runtime_publisher.py:645`). `OneClickPerApproval` counts per
  confirmation, since `approve` does not look at the status and a held sandbox
  can be approved again (`:434`). `ClickedWasApproved` is checked for one command
  at a time: a manuscript replaced while publish logs in would be uploaded
  (`:638`).
- `SecretAuthorityHolds` holds while callers take turns: the plane has no lock,
  and a rotation of another thread can come between the checks and the use
  (`secret_plane.py:573`, `:605`).
- `PendingRecoveryIsAttempted` also allows for a step that finds no source event
  because the search reads the oldest 10 000 rows
  (`homeostatic_supervisor.py:131`).
- `AcceptedOncePerWindow` counts acceptances on time. The timestamp is compared
  before the body is awaited, so a request whose body comes late may be accepted
  when its nonce has been deleted (`auth.py:64`).
- `HandoffsFormAHistory` does not say that a handoff is stored once: one that is
  signed and sent again after a lost answer is another (`storage.py:237`).
- `PackIsConfirmed` speaks of what the pack says was approved;
  `build_evidence_pack` reads its files again after it verified them
  (`marxiv_human_authority.py:311`). An authority killed between its two files
  keeps a key without a registry and cannot be initialized again (`:117`).
- `SealedIsIntended`: when `seal_approval` raises after `approve`, no evidence is
  written and the sandbox stays approved (`marxiv_approval_seal.py:79`).
- `CallsAreAccounted` does not ask for a record of an answer that cannot be
  hashed: the exception counts as a malformed request and is answered 422
  (`openai_provider.py:75`).
- `ConservativeMeansPathFree` is one direction. A single crossing from the second
  node to the first that costs something is reported as a violation although a
  potential exists, because both nodes are roots of their own
  (`federation_routing.py:281`).
- `BoundariesAreGoverned` gives every boundary an instant of its own: a route
  may join one that has expired, or whose key was revoked, meanwhile to one that
  has just begun
  (`federation_relation.py:388`).

## What is not modelled

- Hashing, canonical JSON and Merkle roots (a hash is what it is computed from);
  the mathematics of signatures and MACs; wording of reasons and errors.
- Header, principal and signature checks of a request: they refuse before
  anything changes.
- Consumer offsets of the journal: no module of `src/app` consumes it by offset.
- Two publisher commands at a time: the sandbox has no lock, and no document
  promises anything for them.
- Of routing: floating point, the logarithmic scale, `sensitivity`,
  `tost_equivalence` and `informational_mass`, and duplicate node ids.
- The LLM publication bridge and the bridge envelopes: immutable values that
  functions check as they are handed over, called by no module of `src/app`.
- Floating-point statistics (`drift_engine.py`); host probes, file packing and
  network crawls; rendering of projections; HTTP routing and container start;
  experiments, benchmarks and scripts.

`PROJECT.json` gives the reason per component.
