---------------------------- MODULE Physiology ----------------------------
(***************************************************************************)
(* PhysiologyEngine (src/app/physiology.py) constructed as a               *)
(* RestartSafePhysiologyEngine (src/app/physiology_recovery.py): one       *)
(* process that runs governed cycles                                       *)
(*    Sense -> Analyze -> Plan -> Authorize -> Execute -> Observe -> Commit *)
(* over a durable journal, may raise or crash between any two statements   *)
(* that touch the journal, and is started again on the same file.          *)
(*                                                                         *)
(* Durable: journal (events table), durable (runtime_state row), exported  *)
(* (the organism export the operator keeps) and effects (history: what the *)
(* executor was called for, in the world, and how each call ended).        *)
(* Everything else is process memory.                                      *)
(***************************************************************************)
EXTENDS Naturals, Sequences, FiniteSets, Journal

CONSTANTS ExitStreak,  \* normal_streak_to_exit_safe_mode
          Proposals,   \* proposals a caller may pass to tick
          Samples,     \* readings the telemetry may return
          Statuses,    \* statuses an executor may return
          MaxCycles,   \* bound on cycle_seq
          MaxFaults    \* bound on crashes plus raised I/O errors

ASSUME ExitStreakAssumption == ExitStreak \in Nat \ {0}
ASSUME BoundsAssumption == MaxCycles \in Nat /\ MaxFaults \in Nat
ASSUME ProposalsAssumption == "none" \notin Proposals
ASSUME SamplesAssumption ==
    Samples \subseteq [disk : {"critical", "degraded", "ok"},
                       rss_high : BOOLEAN, journal_ok : BOOLEAN]
ASSUME StatusesAssumption ==
    Statuses \cap {"none", "raised", "unusable"} = {}

VARIABLES
    journal, durable, exported, effects,
    pc,        \* statement of tick/__init__ the process is at
    mem,       \* _runtime_state
    lineage,   \* organism: cycle_seqs evaluated, which determine state_root
    rss,       \* ru_maxrss is a peak: TRUE once it passed max_rss_bytes
    executor,  \* an executor was passed to the constructor
    call,      \* locals of the running (or last) tick
    error,     \* exception the last tick raised
    faults

durables == <<journal, durable, exported, effects>>
vars == <<journal, durable, exported, effects, pc, mem, lineage, rss,
          executor, call, error, faults>>

Healths == {"NORMAL", "DEGRADED", "CRITICAL"}
Actions == {"NONE", "THROTTLE", "ENTER_SAFE_MODE", "EXIT_SAFE_MODE"}
Decisions == {"PASS", "HOLD", "BLOCK"}
Errors == {"none", "event_id collision", "no executor",
           "bad executor result", "io"}
Ticking == {"tick", "sense", "persist", "observation", "plan", "authorize",
            "decision", "execute", "execution", "effect", "memory", "final"}

(* The cycle id is a hash of cycle_seq and the organism's state root.      *)
CycleIds == [seq : Nat, root : SUBSET Nat]

RuntimeStates == [cycle_seq : Nat, safe_mode : BOOLEAN,
                  normal_streak : Nat, throttled : BOOLEAN]

DefaultState == [cycle_seq |-> 0, safe_mode |-> FALSE,
                 normal_streak |-> 0, throttled |-> FALSE]

Calls == [cycle : CycleIds, proposal : Proposals \cup {"none"},
          health : Healths \cup {"none"}, action : Actions,
          decision : Decisions \cup {"none"}, executed : BOOLEAN,
          status : Statuses \cup {"ERROR", "none"}]

NewCall(c, p) == [cycle |-> c, proposal |-> p, health |-> "none",
                  action |-> "NONE", decision |-> "none",
                  executed |-> FALSE, status |-> "none"]

NoCall == NewCall([seq |-> 0, root |-> {}], "none")
---------------------------------------------------------------------------
(* HomeostaticController.assess.                                           *)
Assess(disk, rss_high, journal_ok) ==
    IF ~journal_ok \/ disk = "critical" \/ rss_high THEN "CRITICAL"
    ELSE IF disk = "degraded" THEN "DEGRADED"
    ELSE "NORMAL"

(* Mutant: a CRITICAL reading does not restart the count of NORMAL ones.   *)
PlannedKeepsStreak(s, health) ==
    CASE health = "CRITICAL" ->
           [s EXCEPT !.safe_mode = TRUE, !.throttled = TRUE]
      [] health = "DEGRADED" ->
           [s EXCEPT !.throttled = TRUE, !.normal_streak = 0]
      [] OTHER ->
           LET streak == s.normal_streak + 1
               stay   == s.safe_mode /\ streak < ExitStreak
           IN [s EXCEPT !.normal_streak = streak,
                        !.safe_mode = stay,
                        !.throttled = stay /\ s.throttled]

(* _plan_recovery: the runtime state it leaves ...                         *)
Planned(s, health) ==
    CASE health = "CRITICAL" ->
           [s EXCEPT !.safe_mode = TRUE, !.throttled = TRUE, !.normal_streak = 0]
      [] health = "DEGRADED" ->
           [s EXCEPT !.throttled = TRUE, !.normal_streak = 0]
      [] OTHER ->
           LET streak == s.normal_streak + 1
               stay   == s.safe_mode /\ streak < ExitStreak
           IN [s EXCEPT !.normal_streak = streak,
                        !.safe_mode = stay,
                        !.throttled = stay /\ s.throttled]

(* ... and the action it returns.                                          *)
PlanAction(s, health) ==
    CASE health = "CRITICAL" -> "ENTER_SAFE_MODE"
      [] health = "DEGRADED" -> "THROTTLE"
      [] OTHER -> IF s.safe_mode /\ s.normal_streak + 1 >= ExitStreak
                  THEN "EXIT_SAFE_MODE" ELSE "NONE"

Event(t, cause, body) ==
    [cycle |-> call.cycle, type |-> t, suffix |-> << >>,
     cause |-> cause, body |-> body]

(* One journal.append of the running tick; a collision leaves tick.        *)
Record(e, next) ==
    /\ journal' = AppendEvent(journal, e)
    /\ pc' = IF Collides(journal, e) THEN "idle" ELSE next
    /\ error' = IF Collides(journal, e) THEN "event_id collision" ELSE error
    /\ UNCHANGED <<durable, exported, effects, mem, lineage, rss, executor,
                   call, faults>>
---------------------------------------------------------------------------
Init ==
    /\ journal = << >> /\ durable = DefaultState /\ exported = {}
    /\ effects = << >>
    /\ pc = "down" /\ mem = DefaultState /\ lineage = {} /\ rss = FALSE
    /\ executor = FALSE /\ call = NoCall /\ error = "none" /\ faults = 0

(* A new process: the organism is restored from the operator's export and  *)
(* RestartSafePhysiologyEngine.__init__ starts sealing.                    *)
Boot ==
    /\ pc = "down"
    /\ pc' = "sealing"
    /\ lineage' = exported
    /\ executor' \in BOOLEAN
    /\ UNCHANGED <<durables, mem, rss, call, error, faults>>

(* One iteration of seal_incomplete_cycles: the incomplete cycle with the  *)
(* smallest first_seq is closed.                                           *)
Seal ==
    /\ pc = "sealing"
    /\ \E c \in IncompleteCycles(journal) :
       \E first, last \in CycleRows(journal, c) :
         /\ \A k \in CycleRows(journal, c) : k <= last
         /\ \A d \in IncompleteCycles(journal) :
              \A k \in CycleRows(journal, d) : first <= k
         /\ journal' = AppendEvent(journal,
              [cycle |-> c, type |-> "CYCLE_ABORTED", suffix |-> << >>,
               cause |-> journal[last].type,
               body |-> [first_seq |-> first, last_seq |-> last]])
    /\ UNCHANGED <<durable, exported, effects, pc, mem, lineage, rss,
                   executor, call, error, faults>>

(* Mutant: a restart begins from the default runtime state.                *)
LoadDefaultState ==
    /\ pc = "sealing"
    /\ IncompleteCycles(journal) = {}
    /\ mem' = DefaultState
    /\ pc' = "idle"
    /\ UNCHANGED <<durables, lineage, rss, executor, call, error, faults>>

(* PhysiologyEngine.__init__: load the persisted runtime state.            *)
LoadState ==
    /\ pc = "sealing"
    /\ IncompleteCycles(journal) = {}
    /\ mem' = durable
    /\ pc' = "idle"
    /\ UNCHANGED <<durables, lineage, rss, executor, call, error, faults>>

(* tick(p) entered: the counter moves in memory only.                      *)
TickStart(p) ==
    /\ pc = "idle"
    /\ mem.cycle_seq < MaxCycles
    /\ mem' = [mem EXCEPT !.cycle_seq = @ + 1]
    /\ call' = NewCall([seq |-> mem.cycle_seq + 1, root |-> lineage], p)
    /\ pc' = "tick"
    /\ error' = "none"
    /\ UNCHANGED <<durables, lineage, rss, executor, faults>>

AppendTick ==
    /\ pc = "tick"
    /\ Record(Event("TICK", "none", [cycle_seq |-> call.cycle.seq]), "sense")

(* telemetry.sample, integrity_check, assess and _plan_recovery.           *)
Sense ==
    /\ pc = "sense"
    /\ \E s \in Samples :
         LET peak   == rss \/ s.rss_high
             health == Assess(s.disk, peak, s.journal_ok)
         IN /\ rss' = peak
            /\ mem' = Planned(mem, health)
            /\ call' = [call EXCEPT !.health = health,
                                    !.action = PlanAction(mem, health)]
    /\ pc' = "persist"
    /\ UNCHANGED <<durables, lineage, executor, error, faults>>

(* Mutant: the state is persisted only when tick returns.                  *)
PersistOnlyAtTheEnd ==
    /\ pc = "persist"
    /\ pc' = "observation"
    /\ UNCHANGED <<durables, mem, lineage, rss, executor, call, error, faults>>

(* The first _persist_runtime_state.                                       *)
Persist ==
    /\ pc = "persist"
    /\ durable' = mem
    /\ pc' = "observation"
    /\ UNCHANGED <<journal, exported, effects, mem, lineage, rss, executor,
                   call, error, faults>>

AppendObservation ==
    /\ pc = "observation"
    /\ Record(Event("OBSERVATION", "TICK", [health |-> call.health]), "plan")

AppendPlan ==
    /\ pc = "plan"
    /\ Record(Event("RECOVERY_PLAN", "OBSERVATION",
                    [action |-> call.action, safe_mode |-> mem.safe_mode,
                     throttled |-> mem.throttled]),
              IF call.proposal = "none" THEN "memory" ELSE "authorize")

(* Safe mode answers HOLD without asking the organism ...                  *)
HoldInSafeMode ==
    /\ pc = "authorize"
    /\ mem.safe_mode
    /\ call' = [call EXCEPT !.decision = "HOLD"]
    /\ pc' = "decision"
    /\ UNCHANGED <<durables, mem, lineage, rss, executor, error, faults>>

(* Mutant: the organism is asked in safe mode as well.                     *)
EvaluateAlways ==
    /\ pc = "authorize"
    /\ \E d \in Decisions : call' = [call EXCEPT !.decision = d]
    /\ lineage' = lineage \cup {call.cycle.seq}
    /\ pc' = "decision"
    /\ UNCHANGED <<durables, mem, rss, executor, error, faults>>

(* ... otherwise organism.evaluate decides and extends its lineage.  Its   *)
(* event_id holds the root of the lineage before it, so the refusal of a   *)
(* repeated event_id cannot apply (CyclesEvaluatedOnce shows that the      *)
(* cycle_seq alone is new to the lineage, too).                            *)
Evaluate ==
    /\ pc = "authorize"
    /\ ~mem.safe_mode
    /\ \E d \in Decisions : call' = [call EXCEPT !.decision = d]
    /\ lineage' = lineage \cup {call.cycle.seq}
    /\ pc' = "decision"
    /\ UNCHANGED <<durables, mem, rss, executor, error, faults>>

AppendDecision ==
    /\ pc = "decision"
    /\ Record(Event("DECISION", "RECOVERY_PLAN", [decision |-> call.decision]),
              IF call.decision = "PASS" THEN "execute" ELSE "memory")

NoExecutor ==
    /\ pc = "execute"
    /\ ~executor
    /\ pc' = "idle" /\ error' = "no executor"
    /\ UNCHANGED <<durables, mem, lineage, rss, executor, call, faults>>

(* The executor is called, and its call ends with an outcome.              *)
ExecutorActs(outcome) ==
    effects' = Append(effects, [cycle |-> call.cycle,
                                proposal |-> call.proposal,
                                outcome |-> outcome])

(* Mutant: an effect that was attempted counts as executed.                *)
ExecuteAlwaysExecuted ==
    /\ pc = "execute"
    /\ executor
    /\ \/ \E s \in Statuses :
            /\ ExecutorActs(s)
            /\ call' = [call EXCEPT !.status = s, !.executed = TRUE]
       \/ /\ ExecutorActs("raised")
          /\ call' = [call EXCEPT !.status = "ERROR", !.executed = TRUE]
    /\ pc' = "execution"
    /\ UNCHANGED <<journal, durable, exported, mem, lineage, rss, executor,
                   error, faults>>

(* It returns a result, which was executed whatever its status says, or it *)
(* raises: then the status on record is ERROR and nothing was executed.    *)
Execute ==
    /\ pc = "execute"
    /\ executor
    /\ \/ \E s \in Statuses :
            /\ ExecutorActs(s)
            /\ call' = [call EXCEPT !.status = s, !.executed = TRUE]
       \/ /\ ExecutorActs("raised")
          /\ call' = [call EXCEPT !.status = "ERROR"]
    /\ pc' = "execution"
    /\ UNCHANGED <<journal, durable, exported, mem, lineage, rss, executor,
                   error, faults>>

(* The executor returned something that is no ExecutionResult, or one whose*)
(* effect is not JSON: the exception leaves tick.                          *)
ExecuteBadResult ==
    /\ pc = "execute"
    /\ executor
    /\ ExecutorActs("unusable")
    /\ pc' = "idle" /\ error' = "bad executor result"
    /\ UNCHANGED <<journal, durable, exported, mem, lineage, rss, executor,
                   call, faults>>

AppendExecution ==
    /\ pc = "execution"
    /\ Record(Event("EXECUTION", "DECISION", [executed |-> call.executed]),
              "effect")

AppendEffect ==
    /\ pc = "effect"
    /\ Record(Event("EFFECT", "EXECUTION", [status |-> call.status]), "memory")

AppendMemory ==
    /\ pc = "memory"
    /\ Record(Event("MEMORY_COMMIT",
                    IF call.decision = "PASS" THEN "EXECUTION"
                                              ELSE "RECOVERY_PLAN",
                    [health |-> call.health, action |-> call.action,
                     safe_mode |-> mem.safe_mode, throttled |-> mem.throttled,
                     decision |-> call.decision, executed |-> call.executed,
                     root |-> lineage]),
              "final")

(* The second _persist_runtime_state; tick returns.                        *)
FinalPersist ==
    /\ pc = "final"
    /\ durable' = mem
    /\ pc' = "idle"
    /\ UNCHANGED <<journal, exported, effects, mem, lineage, rss, executor,
                   call, error, faults>>

(* A statement of tick raises (SQLite busy or disk full, os.disk_usage,    *)
(* a proposal that is not JSON): the exception leaves tick, memory stays.  *)
TickRaises ==
    /\ pc \in Ticking
    /\ faults < MaxFaults
    /\ faults' = faults + 1
    /\ pc' = "idle" /\ error' = "io"
    /\ UNCHANGED <<durables, mem, lineage, rss, executor, call>>

(* The operator saves organism.export_state() between ticks.               *)
ExportOrganism ==
    /\ pc = "idle"
    /\ exported # lineage
    /\ exported' = lineage
    /\ UNCHANGED <<journal, durable, effects, pc, mem, lineage, rss, executor,
                   call, error, faults>>

(* The process dies: its memory is gone.                                   *)
Crash ==
    /\ pc # "down"
    /\ faults < MaxFaults
    /\ faults' = faults + 1
    /\ pc' = "down"
    /\ mem' = DefaultState /\ lineage' = {} /\ rss' = FALSE
    /\ executor' = FALSE /\ call' = NoCall /\ error' = "none"
    /\ UNCHANGED durables

(* One statement of the running tick.                                      *)
TickStep ==
    \/ AppendTick \/ Sense \/ Persist \/ AppendObservation \/ AppendPlan
    \/ HoldInSafeMode \/ Evaluate \/ AppendDecision
    \/ NoExecutor \/ Execute
    \/ AppendExecution \/ AppendEffect \/ AppendMemory \/ FinalPersist

BootStep == Boot \/ Seal \/ LoadState

Next ==
    \/ BootStep
    \/ \E p \in Proposals \cup {"none"} : TickStart(p)
    \/ TickStep
    \/ ExecuteBadResult
    \/ TickRaises
    \/ ExportOrganism
    \/ Crash

Spec == Init /\ [][Next]_vars

(* A started process keeps executing its statements, and an operator       *)
(* starts it again after a crash; nobody is obliged to call tick.          *)
FairSpec == Spec /\ WF_vars(TickStep) /\ WF_vars(BootStep)
---------------------------------------------------------------------------
Row(t) == {i \in DOMAIN journal : journal[i].type = t}

(* Cycles the executor was called for.                                     *)
EffectCycles == {effects[k].cycle : k \in DOMAIN effects}

Causes == EventTypes \cup {"none"}

Bodies == [cycle_seq : Nat] \cup [health : Healths]
     \cup [action : Actions, safe_mode : BOOLEAN, throttled : BOOLEAN]
     \cup [decision : Decisions] \cup [executed : BOOLEAN]
     \cup [status : Statuses \cup {"ERROR"}]
     \cup [first_seq : Nat, last_seq : Nat]
     \cup [health : Healths, action : Actions, safe_mode : BOOLEAN,
           throttled : BOOLEAN, decision : Decisions \cup {"none"},
           executed : BOOLEAN, root : SUBSET Nat]

Events == [cycle : CycleIds, type : EventTypes, suffix : {<< >>},
           cause : Causes, body : Bodies]

Outcomes == Statuses \cup {"raised", "unusable"}

Effects == [cycle : CycleIds, proposal : Proposals, outcome : Outcomes]

(* Types of the variables.                                                 *)
TypeOK ==
    /\ journal \in Seq(Events)
    /\ durable \in RuntimeStates
    /\ exported \in SUBSET Nat
    /\ effects \in Seq(Effects)
    /\ pc \in Ticking \cup {"down", "sealing", "idle"}
    /\ mem \in RuntimeStates
    /\ lineage \in SUBSET Nat
    /\ rss \in BOOLEAN
    /\ executor \in BOOLEAN
    /\ call \in Calls
    /\ error \in Errors
    /\ faults \in Nat

(* Although a crash can make the engine number two cycles alike, no append *)
(* of tick is ever refused as an event_id collision: the number is         *)
(* persisted before the first event whose payload could differ.            *)
NoEventIdCollision == error # "event_id collision"

(* No cycle number is put before the organism twice, whatever crashes,     *)
(* raised errors and stale organism exports came between.                  *)
CyclesEvaluatedOnce == pc = "authorize" => call.cycle.seq \notin lineage

(* The executor acts at most once for a cycle, and never before the        *)
(* journal holds the cycle's PASS decision and a plan outside safe mode.   *)
EffectsAuthorized ==
    \A k \in DOMAIN effects :
        /\ \A l \in DOMAIN effects :
               effects[k].cycle = effects[l].cycle => k = l
        /\ \E i \in Rows(journal, effects[k].cycle, "DECISION") :
               journal[i].body.decision = "PASS"
        /\ \E i \in Rows(journal, effects[k].cycle, "RECOVERY_PLAN") :
               ~journal[i].body.safe_mode

(* What EFFECT says of a call of the executor.                             *)
StatusOf(outcome) == IF outcome = "raised" THEN "ERROR" ELSE outcome

(* A committed cycle tells the truth about the world: it has a PASS        *)
(* decision exactly when the executor was called for it, EXECUTION and the *)
(* commit say executed exactly when that call returned, and EFFECT holds   *)
(* the status it returned, or ERROR when it raised.  The executor itself   *)
(* may return "ERROR": only executed tells that from an exception.         *)
CommitsTellTheTruth ==
    \A i \in Row("MEMORY_COMMIT") :
        LET c        == journal[i].cycle
            executed == journal[i].body.executed
        IN /\ journal[i].body.decision = "PASS" <=> c \in EffectCycles
           /\ \A k \in DOMAIN effects :
                 effects[k].cycle = c =>
                    /\ executed <=> effects[k].outcome # "raised"
                    /\ \E x \in Rows(journal, c, "EXECUTION") :
                          journal[x].body.executed = executed
                    /\ \E x \in Rows(journal, c, "EFFECT") :
                          journal[x].body.status = StatusOf(effects[k].outcome)

(* Safe mode is left with hysteresis, as the journal shows it: between a   *)
(* CRITICAL observation and a later execution there are ExitStreak         *)
(* consecutive cycles none of which was observed other than NORMAL.        *)
ExitNeedsNormalStreak ==
    \A x \in Row("EXECUTION"), o \in Row("OBSERVATION") :
        LET k == journal[x].cycle.seq
            j == journal[o].cycle.seq
        IN (j <= k /\ journal[o].body.health = "CRITICAL") =>
              \E first \in (j + 1)..(k + 1 - ExitStreak) :
                 \A b \in Row("OBSERVATION") :
                    journal[b].cycle.seq \in first..(first + ExitStreak - 1)
                        => journal[b].body.health = "NORMAL"

(* The persisted cycle counter never moves back.                           *)
CounterNeverMovesBack ==
    [][durable'.cycle_seq >= durable.cycle_seq]_vars

(* The docstring of RestartSafePhysiologyEngine: an interrupted cycle is   *)
(* terminally marked CYCLE_ABORTED, so no cycle is aborted and committed.  *)
AbortedNeverCommitted ==
    \A c \in CyclesOf(journal) :
        ~(Recorded(journal, c, "CYCLE_ABORTED")
            /\ Recorded(journal, c, "MEMORY_COMMIT"))

(* After a crash the engine comes back, and when it does every cycle the   *)
(* crash interrupted has its terminal event.                               *)
RestartCompletes ==
    pc = "down" ~> (pc = "idle" /\ IncompleteCycles(journal) = {})
=============================================================================
