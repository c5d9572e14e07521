---------------------------- MODULE Supervisor ----------------------------
(***************************************************************************)
(* BoundedHomeostaticSupervisor (src/app/homeostatic_supervisor.py) over a *)
(* ClosedLoopPhysiologyEngine: it binds one recovery policy durably before *)
(* the first failure, and while recovery is pending it proposes that       *)
(* policy's action itself, one numbered attempt per step.  At every start  *)
(* the host decides whether it runs the supervisor or ticks the engine     *)
(* itself; both work on the same journal file.                             *)
(***************************************************************************)
EXTENDS ClosedLoop

CONSTANTS Policies,   \* fingerprints of the policies an operator may configure
          ReadLimit,  \* rows _feedback_event_id_for_receipt reads (10_000)
          MaxAttempts, \* bound on the attempts for one origin
          NoPolicy    \* the binding is not stored yet

ASSUME PoliciesAssumption == NoPolicy \notin Policies
ASSUME RecoveryAssumption == "recovery" \in Proposals
ASSUME ReadLimitAssumption == ReadLimit \in Nat /\ MaxAttempts \in Nat

VARIABLES
    bound,     \* persisted policy binding
    attempts,  \* persisted attempt counter of each origin
    policy,    \* recovery_policy of this process, NoPolicy: unsupervised
    spc,       \* statement of _step_locked the supervisor is at
    lost,      \* the step raised "source feedback event ... not found"
    boundAt    \* history: rows the journal had when the policy was bound

superVars == <<bound, attempts, policy, spc, lost, boundAt>>
allVars == <<vars, loopVars, superVars>>

Attempts(c) == IF c \in DOMAIN attempts THEN attempts[c] ELSE 0

(* The event of the running attempt: its id holds the number, which is the *)
(* one persisted last, and a hash of the source feedback, the policy and   *)
(* the caller's gate inputs (these are left out).                          *)
ProposedEvent ==
    [cycle |-> fbmem.recovery_for, type |-> "RECOVERY_PROPOSED",
     suffix |-> <<Attempts(fbmem.recovery_for), fbmem.receipt, policy>>,
     cause |-> "EFFECT_FEEDBACK", body |-> [proposal |-> "recovery"]]

Number(e) == e.suffix[1]
Source(e) == e.suffix[2]
Policy(e) == e.suffix[3]

(* _feedback_event_id_for_receipt: only the oldest ReadLimit rows are read.*)
SourceFound ==
    \E i \in Rows(journal, fbmem.receipt, "EFFECT_FEEDBACK") : i <= ReadLimit
---------------------------------------------------------------------------
SuperInit ==
    /\ LoopInit
    /\ bound = NoPolicy /\ attempts = << >> /\ policy = NoPolicy
    /\ spc = "idle" /\ lost = FALSE /\ boundAt = 0

(* Mutant: a supervisor started on a pending recovery binds its policy.    *)
SuperBootBindsLate ==
    /\ LoopBoot
    /\ \E p \in Policies :
         /\ bound \in {p, NoPolicy}
         /\ bound' = p
         /\ policy' = p
    /\ boundAt' = IF bound = NoPolicy THEN Len(journal) ELSE boundAt
    /\ UNCHANGED <<attempts, spc, lost>>

(* Construction with policy p.  _bind_or_validate_policy refuses a policy  *)
(* that is not the bound one, and a pending recovery without a binding.    *)
SuperBoot ==
    /\ LoopBoot
    /\ \E p \in Policies :
         /\ bound = p \/ (bound = NoPolicy /\ ~fb.recovery_required)
         /\ bound' = p
         /\ policy' = p
    /\ boundAt' = IF bound = NoPolicy THEN Len(journal) ELSE boundAt
    /\ UNCHANGED <<attempts, spc, lost>>

(* A host without the supervisor starts the engine, and ticks it.          *)
HostBoot == LoopBoot /\ UNCHANGED superVars

HostTick(p) == policy = NoPolicy /\ ClosedTick(p) /\ UNCHANGED superVars

(* step(p) with no recovery pending is a closed-loop tick.                 *)
PlainStep(p) ==
    /\ spc = "idle"
    /\ policy # NoPolicy /\ bound = policy
    /\ ~fbmem.recovery_required
    /\ ClosedTick(p)
    /\ spc' = "plain"
    /\ UNCHANGED <<bound, attempts, policy, lost, boundAt>>

(* Mutant: the number persisted is the current one, not the next.          *)
RecoveryStepOffByOne ==
    /\ spc = "idle" /\ lpc = "idle" /\ pc = "idle"
    /\ policy # NoPolicy /\ bound = policy
    /\ fbmem.recovery_required
    /\ attempts' = [c \in DOMAIN attempts \cup {fbmem.recovery_for} |->
                      Attempts(c)]
    /\ spc' = "source"
    /\ lost' = FALSE
    /\ UNCHANGED <<vars, loopVars, bound, policy, boundAt>>

(* Mutant: an attempt that was cut short is not tried again.               *)
RecoveryStepOnce ==
    /\ spc = "idle" /\ lpc = "idle" /\ pc = "idle"
    /\ policy # NoPolicy /\ bound = policy
    /\ fbmem.recovery_required
    /\ Attempts(fbmem.recovery_for) = 0
    /\ attempts' = [c \in DOMAIN attempts \cup {fbmem.recovery_for} |->
                      Attempts(c) + IF c = fbmem.recovery_for THEN 1 ELSE 0]
    /\ spc' = "source"
    /\ lost' = FALSE
    /\ UNCHANGED <<vars, loopVars, bound, policy, boundAt>>

(* step() with a recovery pending (a step with a proposal raises at once): *)
(* the next attempt number is persisted first.                             *)
RecoveryStep ==
    /\ spc = "idle" /\ lpc = "idle" /\ pc = "idle"
    /\ policy # NoPolicy /\ bound = policy
    /\ fbmem.recovery_required
    /\ Attempts(fbmem.recovery_for) < MaxAttempts
    /\ attempts' = [c \in DOMAIN attempts \cup {fbmem.recovery_for} |->
                      Attempts(c) + IF c = fbmem.recovery_for THEN 1 ELSE 0]
    /\ spc' = "source"
    /\ lost' = FALSE
    /\ UNCHANGED <<vars, loopVars, bound, policy, boundAt>>

FindSource ==
    /\ spc = "source"
    /\ spc' = IF SourceFound THEN "propose" ELSE "idle"
    /\ lost' = ~SourceFound
    /\ UNCHANGED <<vars, loopVars, bound, attempts, policy, boundAt>>

(* One journal.append of the supervisor.                                   *)
SuperRecord(e, next) ==
    /\ journal' = AppendEvent(journal, e)
    /\ spc' = IF Collides(journal, e) THEN "idle" ELSE next
    /\ error' = IF Collides(journal, e) THEN "event_id collision" ELSE error
    /\ UNCHANGED <<durable, exported, effects, pc, mem, lineage, rss,
                   executor, call, faults, loopVars, bound, attempts, policy,
                   lost, boundAt>>

Propose ==
    /\ spc = "propose"
    /\ SuperRecord(ProposedEvent, "tick")

RecoveryTick ==
    /\ spc = "tick"
    /\ ClosedTick("recovery")
    /\ spc' = "recovery"
    /\ UNCHANGED <<bound, attempts, policy, lost, boundAt>>

(* engine.tick is over; its exception leaves step.  The origin is a local  *)
(* of step, so the outcome names it although the gate may be open again.   *)
LoopReturned ==
    /\ spc \in {"plain", "recovery"}
    /\ lpc = "idle" /\ pc = "idle"
    /\ IF spc = "plain" \/ error # "none"
       THEN spc' = "idle" /\ UNCHANGED <<journal, error>>
       ELSE LET last == CHOOSE i \in Row("RECOVERY_PROPOSED") :
                           \A k \in Row("RECOVERY_PROPOSED") : k <= i
                e == [journal[last] EXCEPT
                        !.type = "RECOVERY_OUTCOME",
                        !.cause = "RECOVERY_PROPOSED",
                        !.body = [cycle |-> call.cycle,
                                  cleared |-> ~fbmem.recovery_required]]
            IN /\ journal' = AppendEvent(journal, e)
               /\ error' = IF Collides(journal, e)
                           THEN "event_id collision" ELSE error
               /\ spc' = "idle"
    /\ UNCHANGED <<durable, exported, effects, pc, mem, lineage, rss, executor,
                   call, faults, loopVars, bound, attempts, policy, lost, boundAt>>

(* A journal statement of the supervisor raises.                           *)
SuperRaises ==
    /\ \/ spc \in {"source", "propose"}
       \/ spc = "recovery" /\ lpc = "idle" /\ pc = "idle"
    /\ faults < MaxFaults
    /\ faults' = faults + 1
    /\ spc' = "idle" /\ error' = "io"
    /\ UNCHANGED <<durables, pc, mem, lineage, rss, executor, call, loopVars,
                   bound, attempts, policy, lost, boundAt>>

(* What the wrapped engine does in the meantime.                           *)
WrappedStep == (LoopStep \/ LoopRaises) /\ UNCHANGED superVars

SuperExport == spc = "idle" /\ LoopExport /\ UNCHANGED superVars

SuperCrash ==
    /\ LoopCrash
    /\ policy' = NoPolicy /\ spc' = "idle" /\ lost' = FALSE
    /\ UNCHANGED <<bound, attempts, boundAt>>

SuperStep ==
    \/ FindSource \/ Propose \/ RecoveryTick \/ LoopReturned
    \/ (LoopStep /\ UNCHANGED superVars)

SuperNext ==
    \/ SuperBoot \/ HostBoot
    \/ \E p \in Proposals \cup {"none"} : PlainStep(p) \/ HostTick(p)
    \/ RecoveryStep
    \/ FindSource
    \/ Propose
    \/ RecoveryTick
    \/ LoopReturned
    \/ SuperRaises
    \/ WrappedStep
    \/ SuperExport
    \/ SuperCrash

SuperSpec == SuperInit /\ [][SuperNext]_allVars

(* The supervisor's host starts it, keeps calling step while a recovery is *)
(* pending, and a step once entered runs on.                               *)
FairSuperSpec ==
    /\ SuperSpec
    /\ WF_allVars(SuperBoot)
    /\ WF_allVars(RecoveryStep)
    /\ WF_allVars(SuperStep)
---------------------------------------------------------------------------
(* "The policy fingerprint is durably bound before any failure is          *)
(* observed": every attempt in the journal was made under the policy bound *)
(* today, and the effect it recovers from came after the binding, although *)
(* the host may start the engine with another policy or with none.         *)
PolicyBoundBeforeFailure ==
    \A i \in Row("RECOVERY_PROPOSED") :
        /\ Policy(journal[i]) = bound
        /\ \A k \in Rows(journal, journal[i].cycle, "EFFECT") : k > boundAt

(* Attempt numbers of one origin grow along the journal, whatever attempt  *)
(* was cut short, and no number is used for two proposals.                 *)
AttemptNumbersGrow ==
    \A i, k \in Row("RECOVERY_PROPOSED") :
        (i < k /\ journal[i].cycle = journal[k].cycle)
            => Number(journal[i]) < Number(journal[k])

(* A recovery that is pending under a supervisor is attempted, however an  *)
(* attempt was cut short: its proposal reaches the journal (or a step finds*)
(* no source event, or the host goes on without a supervisor, or it stops  *)
(* at the bound on cycles or on attempts).                                 *)
PendingRecoveryIsAttempted ==
    (fb.recovery_required /\ bound # NoPolicy) ~>
        \/ ~fb.recovery_required
        \/ lost
        \/ Recorded(journal, fb.recovery_for, "RECOVERY_PROPOSED")
        \/ mem.cycle_seq = MaxCycles
        \/ Attempts(fb.recovery_for) = MaxAttempts
        \/ pc # "down" /\ policy = NoPolicy
=============================================================================
