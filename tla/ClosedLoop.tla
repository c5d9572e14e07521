---------------------------- MODULE ClosedLoop ----------------------------
(***************************************************************************)
(* ClosedLoopPhysiologyEngine (src/app/physiology_effect_feedback.py): it  *)
(* wraps a plain PhysiologyEngine (no sealing at start), measures again    *)
(* after every effect, keeps an authenticated feedback state, and holds    *)
(* every proposal that does not name the cycle whose effect failed.        *)
(*                                                                         *)
(* A proposal is one of three kinds.  "recovery" carries recovery_for =    *)
(* the origin of the closed gate, "stale" names another cycle, "plain"     *)
(* names none; the last two differ only for a reader.                      *)
(***************************************************************************)
EXTENDS Physiology

CONSTANT GateAfter    \* failures_before_recovery_gate

ASSUME GateAfterAssumption == GateAfter \in Nat \ {0}

VARIABLES
    fb,     \* persisted feedback state
    fbmem,  \* _feedback_state
    lpc,    \* statement of _tick_locked the wrapper is at
    held    \* the running tick was refused by the gate

loopVars == <<fb, fbmem, lpc, held>>
closedVars == <<vars, loopVars>>

(* None, for a cycle id that may be absent.                                *)
NoCycle == [seq |-> 0, root |-> {}]

(* last_effect_status and last_post_effect_health are only reported; the   *)
(* receipt hash of a feedback is represented by the cycle it is about.     *)
FeedbackStates == [failure_streak : Nat, recovery_required : BOOLEAN,
                   recovery_for : CycleIds, receipt : CycleIds]

EmptyState == [failure_streak |-> 0, recovery_required |-> FALSE,
               recovery_for |-> NoCycle, receipt |-> NoCycle]

(* Mutant: every answer of an executor that did not raise is a success.    *)
AcceptsAnyAnswer(status) == status # "ERROR"

(* EffectFeedbackPolicy.accepts with the default success_statuses.         *)
Accepts(status) == status = "OK"

(* Mutant: any proposal that says it is a recovery passes.                 *)
GateAllowsAnyRecovery(p) == fbmem.recovery_for = NoCycle \/ p # "plain"

(* _recovery_gate.                                                         *)
GateAllows(p) == fbmem.recovery_for = NoCycle \/ p \in {"none", "recovery"}

(* The feedback state after an effect (_record_effect_feedback).           *)
FeedbackAfter(s, c, success) ==
    LET streak == s.failure_streak + 1
        closes == streak >= GateAfter
    IN IF success
       THEN [failure_streak |-> 0, recovery_required |-> FALSE,
             recovery_for |-> NoCycle, receipt |-> c]
       ELSE [failure_streak |-> streak,
             recovery_required |-> s.recovery_required \/ closes,
             recovery_for |-> IF closes /\ s.recovery_for = NoCycle
                              THEN c ELSE s.recovery_for,
             receipt |-> c]
---------------------------------------------------------------------------
LoopInit ==
    /\ Init
    /\ fb = EmptyState /\ fbmem = EmptyState /\ lpc = "idle" /\ held = FALSE

(* Construction: the feedback state is loaded, then the engine's.          *)
LoopBoot ==
    /\ pc = "down"
    /\ pc' = "idle"
    /\ lineage' = exported
    /\ executor' \in BOOLEAN
    /\ mem' = durable
    /\ fbmem' = fb
    /\ UNCHANGED <<durables, rss, call, error, faults, fb, lpc, held>>

(* tick(p): the gate is read before the engine's tick, which gets no       *)
(* proposal when the gate refuses p.                                       *)
ClosedTick(p) ==
    /\ lpc = "idle"
    /\ held' = ~GateAllows(p)
    /\ TickStart(IF GateAllows(p) THEN p ELSE "none")
    /\ lpc' = "engine"
    /\ UNCHANGED <<fb, fbmem>>

(* A statement of engine.tick, or an exception out of it.                  *)
EngineStep ==
    /\ lpc = "engine"
    /\ TickStep \/ TickRaises
    /\ UNCHANGED loopVars

(* engine.tick is over: its exception propagates, a held proposal is       *)
(* recorded, a passed one gets its feedback, any other cycle is done.      *)
EngineReturned ==
    /\ lpc = "engine"
    /\ pc = "idle"
    /\ lpc' = IF error # "none" THEN "idle"
              ELSE IF held THEN "gate"
              ELSE IF call.decision = "PASS" THEN "measure"
              ELSE "idle"
    /\ UNCHANGED <<vars, fb, fbmem, held>>

(* One journal.append of the wrapper.                                      *)
LoopRecord(e, next) ==
    /\ journal' = AppendEvent(journal, e)
    /\ lpc' = IF Collides(journal, e) THEN "idle" ELSE next
    /\ error' = IF Collides(journal, e) THEN "event_id collision" ELSE error
    /\ UNCHANGED <<durable, exported, effects, pc, mem, lineage, rss,
                   executor, call, faults, fb, fbmem, held>>

RecordGateHold ==
    /\ lpc = "gate"
    /\ LoopRecord(Event("EFFECT_RECOVERY_GATE", "MEMORY_COMMIT",
                        [origin |-> fbmem.recovery_for]), "idle")

(* A fresh sample, or none when measuring raises; success needs an         *)
(* accepted status and NORMAL health.                                      *)
Measure ==
    /\ lpc = "measure"
    /\ \/ \E s \in Samples :
            LET peak == rss \/ s.rss_high
            IN /\ rss' = peak
               /\ fbmem' = FeedbackAfter(fbmem, call.cycle,
                     /\ Accepts(call.status)
                     /\ Assess(s.disk, peak, s.journal_ok) = "NORMAL")
       \/ /\ fbmem' = FeedbackAfter(fbmem, call.cycle, FALSE)
          /\ UNCHANGED rss
    /\ lpc' = "persist"
    /\ UNCHANGED <<durables, pc, mem, lineage, executor, call, error, faults,
                   fb, held>>

(* Mutant: the state is only kept in memory.                               *)
PersistFeedbackSkipped ==
    /\ lpc = "persist"
    /\ lpc' = "append"
    /\ UNCHANGED <<vars, fb, fbmem, held>>

(* _persist_state, before the event is appended.                           *)
PersistFeedback ==
    /\ lpc = "persist"
    /\ fb' = fbmem
    /\ lpc' = "append"
    /\ UNCHANGED <<vars, fbmem, held>>

AppendFeedback ==
    /\ lpc = "append"
    /\ LoopRecord(Event("EFFECT_FEEDBACK", "EFFECT",
                        [success |-> fbmem.failure_streak = 0,
                         recovery_for |-> fbmem.recovery_for]), "idle")

(* A journal statement of the wrapper raises: memory stays as it is.       *)
LoopRaises ==
    /\ lpc \in {"gate", "persist", "append"}
    /\ faults < MaxFaults
    /\ faults' = faults + 1
    /\ lpc' = "idle" /\ error' = "io"
    /\ UNCHANGED <<durables, pc, mem, lineage, rss, executor, call, fb, fbmem,
                   held>>

LoopExport == lpc = "idle" /\ ExportOrganism /\ UNCHANGED loopVars

LoopCrash ==
    /\ Crash
    /\ fbmem' = EmptyState /\ lpc' = "idle" /\ held' = FALSE
    /\ UNCHANGED fb

(* One statement of the running closed-loop tick.                          *)
LoopStep ==
    \/ EngineStep \/ EngineReturned \/ RecordGateHold
    \/ Measure \/ PersistFeedback \/ AppendFeedback

LoopNext ==
    \/ LoopBoot
    \/ \E p \in Proposals \cup {"none"} : ClosedTick(p)
    \/ LoopStep
    \/ LoopRaises
    \/ LoopExport
    \/ LoopCrash

LoopSpec == LoopInit /\ [][LoopNext]_closedVars
---------------------------------------------------------------------------
(* The gate read at the start of a tick still holds when the executor is   *)
(* called: while recovery is required only a recovery proposal acts.       *)
OnlyRecoveryActsWhileGated ==
    [][(effects' # effects /\ fbmem.recovery_required)
          => call.proposal = "recovery"]_closedVars

(* _record_effect_feedback: the gate and the journal never disagree, where-*)
(* ever the process dies.  The cycle a recovery must name is committed with*)
(* an EFFECT, and a restart never finds an EFFECT_FEEDBACK newer than the  *)
(* gate it loads.                                                          *)
GateMatchesJournal ==
    /\ \A s \in {fb, fbmem} :
          s.recovery_required =>
              /\ Recorded(journal, s.recovery_for, "EFFECT")
              /\ Recorded(journal, s.recovery_for, "MEMORY_COMMIT")
    /\ \A i \in Row("EFFECT_FEEDBACK") :
          journal[i].cycle.seq <= fb.receipt.seq

(* The class docstring: a failed effect "changes which proposals can       *)
(* execute on subsequent cycles".  With GateAfter = 1, and as long as      *)
(* nothing crashed or raised: whenever the next tick may start and the     *)
(* last EFFECT on record was not accepted, the gate is closed.             *)
FailedEffectClosesTheGate ==
    (faults = 0 /\ lpc = "idle" /\ pc = "idle") =>
        \A i \in Row("EFFECT") :
            (/\ \A k \in Row("EFFECT") : k <= i
             /\ journal[i].body.status # "OK")
                 => fbmem.recovery_required
=============================================================================
