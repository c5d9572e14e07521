------------------------ MODULE Physiology_proofs ------------------------
(***************************************************************************)
(* Proofs about Physiology for every ExitStreak, every set of proposals,   *)
(* readings and statuses, and every number of cycles and faults; and, in   *)
(* the second half, about the closed loop and the supervisor around it.    *)
(*                                                                         *)
(* The argument: the cycle number is persisted before the first event      *)
(* whose payload could differ between two cycles of the same number, so    *)
(* every such event on record has a number the durable state has reached,  *)
(* and a number the durable state has reached is never given out again.    *)
(***************************************************************************)
EXTENDS Supervisor, Integers, TLAPS

(* Statements of tick after the first _persist_runtime_state.              *)
AfterPersist == Ticking \ {"tick", "sense", "persist"}

(* Event types that the running tick has not appended yet.                 *)
Future(p) ==
    CASE p = "observation" -> {"OBSERVATION", "RECOVERY_PLAN", "DECISION",
                               "EXECUTION", "EFFECT", "MEMORY_COMMIT"}
      [] p = "plan" -> {"RECOVERY_PLAN", "DECISION", "EXECUTION", "EFFECT",
                        "MEMORY_COMMIT"}
      [] p \in {"authorize", "decision"} ->
            {"DECISION", "EXECUTION", "EFFECT", "MEMORY_COMMIT"}
      [] p \in {"execute", "execution"} ->
            {"EXECUTION", "EFFECT", "MEMORY_COMMIT"}
      [] p = "effect" -> {"EFFECT", "MEMORY_COMMIT"}
      [] p = "memory" -> {"MEMORY_COMMIT"}
      [] OTHER -> {}

(* The locals of tick that the statement at pc reads are set.              *)
LocalsSet ==
    /\ pc \in AfterPersist \cup {"persist"} => call.health \in Healths
    /\ pc = "decision" => call.decision \in Decisions
    /\ pc \in {"authorize", "decision", "execute"} => call.proposal \in Proposals
    /\ pc \in {"execution", "effect"} => call.status \in Statuses \cup {"ERROR"}

(* Where the three copies of the cycle number stand.                       *)
Numbers ==
    /\ pc \notin {"down", "sealing"} => durable.cycle_seq <= mem.cycle_seq
    /\ pc \in Ticking => call.cycle.seq = mem.cycle_seq
    /\ pc \in {"tick", "sense", "persist"} => durable.cycle_seq < mem.cycle_seq
    /\ pc \in AfterPersist => durable.cycle_seq = mem.cycle_seq

(* All history but TICK and CYCLE_ABORTED has a persisted number.          *)
HistoryPersisted ==
    /\ \A i \in DOMAIN journal :
          journal[i].type \notin {"TICK", "CYCLE_ABORTED"}
              => journal[i].cycle.seq <= durable.cycle_seq
    /\ \A k \in DOMAIN effects : effects[k].cycle.seq <= durable.cycle_seq
    /\ \A n \in lineage \cup exported : n <= durable.cycle_seq

(* Nothing the running tick has still to do was done under its number.     *)
Fresh ==
    /\ \A i \in DOMAIN journal :
          journal[i].type \in Future(pc)
              => journal[i].cycle.seq # call.cycle.seq
    /\ pc \in {"observation", "plan", "authorize", "decision", "execute"} =>
          \A k \in DOMAIN effects : effects[k].cycle.seq # call.cycle.seq
    /\ pc \in {"observation", "plan", "authorize"} =>
          call.cycle.seq \notin lineage

(* Two TICK events of one cycle id have one payload.                       *)
TicksAlike ==
    \A i \in DOMAIN journal :
        journal[i].type = "TICK" =>
            /\ journal[i].cause = "none"
            /\ journal[i].body = [cycle_seq |-> journal[i].cycle.seq]

(* What stands behind a call of the executor is on record.                 *)
Authorized ==
    /\ pc \in {"authorize", "decision", "execute"} =>
          \E i \in Rows(journal, call.cycle, "RECOVERY_PLAN") :
              journal[i].body.safe_mode = mem.safe_mode
    /\ pc \in {"decision", "execute"} /\ call.decision = "PASS"
          => ~mem.safe_mode
    /\ pc = "execute" =>
          /\ call.decision = "PASS"
          /\ \E i \in Rows(journal, call.cycle, "DECISION") :
                journal[i].body.decision = "PASS"

IInv ==
    /\ TypeOK
    /\ LocalsSet
    /\ Numbers
    /\ HistoryPersisted
    /\ Fresh
    /\ TicksAlike
    /\ Authorized
    /\ EffectsAuthorized
    /\ NoEventIdCollision
---------------------------------------------------------------------------
PCs == Ticking \cup {"down", "sealing", "idle"}

(* Journal a is j after e was offered to append: old rows stay, at most e  *)
(* is new, and if append did not refuse e, a row with its id and payload   *)
(* is there.                                                               *)
Extended(j, a, e) ==
    /\ DOMAIN j \subseteq DOMAIN a
    /\ \A i \in DOMAIN j : a[i] = j[i]
    /\ \A i \in DOMAIN a : i \in DOMAIN j \/ a[i] = e
    /\ ~Collides(j, e) => \E i \in DOMAIN a :
          a[i].cycle = e.cycle /\ a[i].type = e.type /\ a[i].body = e.body

(* append keeps all rows and adds at most the one it is given.             *)
LEMMA AppendEventRows ==
    ASSUME NEW S, NEW j \in Seq(S), NEW e \in S
    PROVE  AppendEvent(j, e) \in Seq(S) /\ Extended(j, AppendEvent(j, e), e)
<1>1. CASE SameId(j, e) # {}
  <2>1. AppendEvent(j, e) = j
    BY <1>1 DEF AppendEvent
  <2>2. PICK i \in DOMAIN j : i \in SameId(j, e)
    BY <1>1 DEF SameId, Rows
  <2>3. j[i].cycle = e.cycle /\ j[i].type = e.type
    BY <2>2 DEF SameId, Rows
  <2>4. ~Collides(j, e) => j[i].body = e.body
    BY <2>2 DEF Collides, SamePayload
  <2> QED BY <2>1, <2>2, <2>3, <2>4 DEF Extended
<1>2. CASE SameId(j, e) = {}
  <2>1. AppendEvent(j, e) = Append(j, e)
    BY <1>2 DEF AppendEvent
  <2>2. /\ Append(j, e) \in Seq(S)
        /\ DOMAIN j = 1..Len(j)
        /\ DOMAIN Append(j, e) = 1..(Len(j) + 1)
        /\ Append(j, e)[Len(j) + 1] = e
        /\ \A i \in 1..Len(j) : Append(j, e)[i] = j[i]
        /\ Len(j) \in Nat
    OBVIOUS
  <2> QED BY <2>1, <2>2 DEF Extended
<1> QED BY <1>1, <1>2

(* The same for a statement of tick that appends e.                        *)
LEMMA RecordFacts ==
    ASSUME TypeOK, NEW e \in Events, NEW next \in PCs, Record(e, next)
    PROVE  /\ TypeOK'
           /\ Extended(journal, journal', e)
           /\ ~Collides(journal, e) => pc' = next /\ error' = error
<1>1. journal \in Seq(Events)
  BY DEF TypeOK
<1>2. journal' = AppendEvent(journal, e)
  BY DEF Record
<1>3. journal' \in Seq(Events) /\ Extended(journal, journal', e)
  BY <1>1, <1>2, AppendEventRows
<1>4. TypeOK'
  <2>1. pc' \in PCs /\ error' \in Errors
    BY DEF Record, TypeOK, PCs, Ticking, Errors
  <2> QED BY <1>3, <2>1 DEF Record, TypeOK, PCs
<1>5. ~Collides(journal, e) => pc' = next /\ error' = error
  BY DEF Record
<1> QED BY <1>3, <1>4, <1>5

(* The events of tick are well typed.                                      *)
LEMMA EventTyped ==
    ASSUME TypeOK, NEW t \in EventTypes, NEW cause \in Causes,
           NEW body \in Bodies
    PROVE  /\ Event(t, cause, body) \in Events
           /\ Event(t, cause, body).cycle = call.cycle
           /\ Event(t, cause, body).type = t
           /\ Event(t, cause, body).cause = cause
           /\ Event(t, cause, body).suffix = << >>
           /\ Event(t, cause, body).body = body
  BY DEF Event, Events, TypeOK, Calls

(* An append of an event the tick has still to record is not refused.      *)
LEMMA FreshNoCollision ==
    ASSUME Fresh, NEW e, e.cycle = call.cycle, e.type \in Future(pc)
    PROVE  ~Collides(journal, e)
<1>1. SUFFICES ASSUME NEW i \in DOMAIN journal, journal[i].cycle = e.cycle,
                      journal[i].type = e.type
               PROVE FALSE
  BY DEF Collides, SameId, Rows
<1> QED BY <1>1 DEF Fresh

(* Rows that are in the journal stay there.                                *)
LEMMA RowsStay ==
    ASSUME NEW e, Extended(journal, journal', e), NEW c, NEW t, NEW i,
           i \in Rows(journal, c, t)
    PROVE  i \in Rows(journal', c, t) /\ journal'[i] = journal[i]
  BY DEF Extended, Rows

(* An effect that was authorized stays authorized when the journal grows.  *)
LEMMA EffectsStayAuthorized ==
    ASSUME EffectsAuthorized, NEW e, Extended(journal, journal', e),
           effects' = effects
    PROVE  EffectsAuthorized'
<1> SUFFICES ASSUME NEW k \in DOMAIN effects
             PROVE  /\ \A l \in DOMAIN effects :
                          effects[k].cycle = effects[l].cycle => k = l
                    /\ \E i \in Rows(journal', effects[k].cycle, "DECISION") :
                          journal'[i].body.decision = "PASS"
                    /\ \E i \in Rows(journal', effects[k].cycle, "RECOVERY_PLAN") :
                          ~journal'[i].body.safe_mode
  BY DEF EffectsAuthorized
<1>1. PICK i \in Rows(journal, effects[k].cycle, "DECISION") :
          journal[i].body.decision = "PASS"
  BY DEF EffectsAuthorized
<1>2. PICK l \in Rows(journal, effects[k].cycle, "RECOVERY_PLAN") :
          ~journal[l].body.safe_mode
  BY DEF EffectsAuthorized
<1>3. i \in Rows(journal', effects[k].cycle, "DECISION") /\ journal'[i] = journal[i]
  BY <1>1, RowsStay
<1>4. /\ l \in Rows(journal', effects[k].cycle, "RECOVERY_PLAN")
      /\ journal'[l] = journal[l]
  BY <1>2, RowsStay
<1> QED BY <1>1, <1>2, <1>3, <1>4 DEF EffectsAuthorized

(* What every append after the first persist has in common.                *)
LEMMA RecordStep ==
    ASSUME IInv, pc \in AfterPersist,
           NEW e \in Events, NEW next \in PCs, Record(e, next),
           e.cycle = call.cycle, e.type \in Future(pc), e.type # "TICK",
           Future(next) \subseteq Future(pc) \ {e.type},
           next \in {"plan", "authorize"} => pc \in {"observation", "plan"},
           next = "execute" => pc = "decision",
           next \notin {"observation", "decision"}
    PROVE  /\ TypeOK' /\ HistoryPersisted' /\ Fresh' /\ TicksAlike'
           /\ EffectsAuthorized' /\ NoEventIdCollision'
           /\ pc' = next
           /\ Extended(journal, journal', e)
           /\ \E i \in Rows(journal', e.cycle, e.type) :
                 journal'[i].body = e.body
<1>1. ~Collides(journal, e)
  BY FreshNoCollision DEF IInv
<1>2. TypeOK' /\ Extended(journal, journal', e) /\ pc' = next /\ error' = error
  BY <1>1, RecordFacts DEF IInv
<1>3. UNCHANGED <<durable, exported, effects, mem, lineage, call>>
  BY DEF Record
<1>4. call.cycle.seq = durable.cycle_seq /\ durable.cycle_seq \in Nat
  BY DEF IInv, Numbers, AfterPersist, TypeOK, RuntimeStates
<1>5. HistoryPersisted'
  BY <1>2, <1>3, <1>4 DEF IInv, HistoryPersisted, Extended
<1>6. Fresh'
  BY <1>2, <1>3, <1>4 DEF IInv, Fresh, Extended
<1>7. TicksAlike'
  BY <1>2 DEF IInv, TicksAlike, Extended
<1>8. EffectsAuthorized'
  BY <1>2, <1>3, EffectsStayAuthorized DEF IInv
<1>9. NoEventIdCollision'
  BY <1>2 DEF IInv, NoEventIdCollision
<1>10. \E i \in Rows(journal', e.cycle, e.type) : journal'[i].body = e.body
  BY <1>1, <1>2 DEF Extended, Rows
<1> QED BY <1>2, <1>5, <1>6, <1>7, <1>8, <1>9, <1>10
---------------------------------------------------------------------------
(* The initial state.                                                      *)
LEMMA InitIInv == Init => IInv
<1> SUFFICES ASSUME Init PROVE IInv
  OBVIOUS
<1>1. DefaultState \in RuntimeStates
  BY DEF DefaultState, RuntimeStates
<1>2. NoCall \in Calls
  BY DEF NoCall, NewCall, Calls, CycleIds, Actions
<1>3. TypeOK
  <2>1. << >> \in Seq(Events) /\ << >> \in Seq(Effects)
    OBVIOUS
  <2>2. journal \in Seq(Events) /\ effects \in Seq(Effects)
    BY <2>1 DEF Init
  <2> QED BY <1>1, <1>2, <2>2 DEF Init, TypeOK, Errors
<1>4. /\ LocalsSet /\ Numbers /\ TicksAlike /\ Authorized
      /\ EffectsAuthorized /\ NoEventIdCollision
  BY DEF Init, LocalsSet, Numbers, TicksAlike, Authorized, EffectsAuthorized,
         NoEventIdCollision, AfterPersist, Ticking
<1>5. HistoryPersisted /\ Fresh
  BY DEF Init, HistoryPersisted, Fresh
<1> QED BY <1>3, <1>4, <1>5 DEF IInv

(* Starting: the organism is restored, cycles are sealed, state is loaded. *)
LEMMA BootIInv == ASSUME IInv, BootStep PROVE IInv'
<1>1. CASE Boot
  <2>1. TypeOK'
    BY <1>1 DEF IInv, Boot, durables, TypeOK
  <2>2. LocalsSet' /\ Numbers' /\ Authorized'
    BY <1>1 DEF Boot, LocalsSet, Numbers, Authorized, AfterPersist, Ticking
  <2>3. HistoryPersisted' /\ Fresh'
    BY <1>1 DEF IInv, Boot, durables, HistoryPersisted, Fresh, Future
  <2>4. TicksAlike' /\ EffectsAuthorized' /\ NoEventIdCollision'
    BY <1>1 DEF IInv, Boot, durables, TicksAlike, EffectsAuthorized,
                NoEventIdCollision
  <2> QED BY <2>1, <2>2, <2>3, <2>4 DEF IInv
<1>2. CASE Seal
  <2>0. PICK c \in IncompleteCycles(journal) :
          \E first, last \in CycleRows(journal, c) :
            journal' = AppendEvent(journal,
              [cycle |-> c, type |-> "CYCLE_ABORTED", suffix |-> << >>,
               cause |-> journal[last].type,
               body |-> [first_seq |-> first, last_seq |-> last]])
    BY <1>2 DEF Seal
  <2>1. PICK first \in CycleRows(journal, c), last \in CycleRows(journal, c) :
          journal' = AppendEvent(journal,
              [cycle |-> c, type |-> "CYCLE_ABORTED", suffix |-> << >>,
               cause |-> journal[last].type,
               body |-> [first_seq |-> first, last_seq |-> last]])
    BY <2>0
  <2> DEFINE e == [cycle |-> c, type |-> "CYCLE_ABORTED", suffix |-> << >>,
                   cause |-> journal[last].type,
                   body |-> [first_seq |-> first, last_seq |-> last]]
  <2>2. journal \in Seq(Events) /\ DOMAIN journal \subseteq Nat
    BY DEF IInv, TypeOK
  <2>3. first \in Nat /\ last \in Nat /\ last \in DOMAIN journal
        /\ journal[last] \in Events /\ journal[last].cycle = c
    BY <2>2 DEF CycleRows
  <2>4. [first_seq |-> first, last_seq |-> last] \in Bodies
    BY <2>3 DEF Bodies
  <2>5. e \in Events
    BY <2>3, <2>4 DEF Events, EventTypes, Causes
  <2>6. journal' \in Seq(Events) /\ Extended(journal, journal', e)
    BY <2>1, <2>2, <2>5, AppendEventRows
  <2>7. UNCHANGED <<durable, exported, effects, pc, mem, lineage, rss,
                    executor, call, error, faults>>
    BY <1>2 DEF Seal
  <2>8. pc = "sealing"
    BY <1>2 DEF Seal
  <2>9. e.type = "CYCLE_ABORTED"
    OBVIOUS
  <2> HIDE DEF e
  <2>10. TypeOK'
    BY <2>6, <2>7 DEF IInv, TypeOK
  <2>11. LocalsSet' /\ Numbers' /\ Authorized'
    BY <2>7, <2>8 DEF LocalsSet, Numbers, Authorized, AfterPersist, Ticking
  <2>12. HistoryPersisted' /\ TicksAlike'
    BY <2>6, <2>7, <2>9 DEF IInv, HistoryPersisted, TicksAlike, Extended
  <2>13. Fresh'
    BY <2>7, <2>8 DEF Fresh, Future
  <2>14. EffectsAuthorized' /\ NoEventIdCollision'
    BY <2>6, <2>7, EffectsStayAuthorized DEF IInv, NoEventIdCollision
  <2> QED BY <2>10, <2>11, <2>12, <2>13, <2>14 DEF IInv
<1>3. CASE LoadState
  <2>1. TypeOK'
    BY <1>3 DEF IInv, LoadState, durables, TypeOK
  <2>2. LocalsSet' /\ Numbers' /\ Authorized'
    BY <1>3 DEF IInv, TypeOK, RuntimeStates, LoadState, durables, LocalsSet,
                Numbers, Authorized, AfterPersist, Ticking
  <2>3. HistoryPersisted' /\ Fresh'
    BY <1>3 DEF IInv, LoadState, durables, HistoryPersisted, Fresh, Future
  <2>4. TicksAlike' /\ EffectsAuthorized' /\ NoEventIdCollision'
    BY <1>3 DEF IInv, LoadState, durables, TicksAlike, EffectsAuthorized,
                NoEventIdCollision
  <2> QED BY <2>1, <2>2, <2>3, <2>4 DEF IInv
<1> QED BY <1>1, <1>2, <1>3 DEF BootStep

(* tick is entered: the number it takes is above every persisted one.      *)
LEMMA TickStartIInv ==
    ASSUME IInv, NEW p \in Proposals \cup {"none"}, TickStart(p)
    PROVE  IInv'
<1>1. /\ pc = "idle" /\ pc' = "tick" /\ error' = "none"
      /\ mem' = [mem EXCEPT !.cycle_seq = @ + 1]
      /\ call' = NewCall([seq |-> mem.cycle_seq + 1, root |-> lineage], p)
      /\ UNCHANGED <<journal, durable, exported, effects, lineage, rss,
                     executor, faults>>
  BY DEF TickStart, durables
<1>2. mem \in RuntimeStates /\ lineage \in SUBSET Nat
  BY DEF IInv, TypeOK
<1>3. mem' \in RuntimeStates /\ mem'.cycle_seq = mem.cycle_seq + 1
      /\ mem.cycle_seq \in Nat
  BY <1>1, <1>2 DEF RuntimeStates
<1>4. call' \in Calls /\ call'.cycle.seq = mem.cycle_seq + 1
  BY <1>1, <1>2, <1>3 DEF NewCall, Calls, CycleIds, Actions
<1>5. TypeOK'
  BY <1>1, <1>3, <1>4 DEF IInv, TypeOK, Ticking, Errors
<1>6. durable.cycle_seq <= mem.cycle_seq /\ durable.cycle_seq \in Nat
  BY <1>1 DEF IInv, Numbers, TypeOK, RuntimeStates
<1>7. LocalsSet' /\ Authorized'
  BY <1>1 DEF LocalsSet, Authorized, AfterPersist, Ticking
<1>8. Numbers'
  BY <1>1, <1>3, <1>4, <1>6 DEF Numbers, AfterPersist, Ticking
<1>9. HistoryPersisted' /\ Fresh'
  BY <1>1 DEF IInv, HistoryPersisted, Fresh, Future
<1>10. TicksAlike' /\ EffectsAuthorized' /\ NoEventIdCollision'
  BY <1>1 DEF IInv, TicksAlike, EffectsAuthorized, NoEventIdCollision
<1> QED BY <1>5, <1>7, <1>8, <1>9, <1>10 DEF IInv

(* TICK may repeat one that is there, with the same payload.               *)
LEMMA AppendTickIInv == ASSUME IInv, AppendTick PROVE IInv'
<1> DEFINE b == [cycle_seq |-> call.cycle.seq]
           e == Event("TICK", "none", b)
<1>1. pc = "tick" /\ Record(e, "sense")
  BY DEF AppendTick
<1>2. call \in Calls /\ call.cycle \in CycleIds /\ call.cycle.seq \in Nat
  BY DEF IInv, TypeOK, Calls, CycleIds
<1>3. b \in Bodies
  BY <1>2 DEF Bodies
<1>4. /\ e \in Events /\ e.cycle = call.cycle /\ e.type = "TICK"
      /\ e.cause = "none" /\ e.body = b
  BY <1>3, EventTyped DEF IInv, EventTypes, Causes
<1> HIDE DEF e
<1>5. ~Collides(journal, e)
  <2>1. SUFFICES ASSUME NEW i \in DOMAIN journal, journal[i].cycle = e.cycle,
                        journal[i].type = e.type
                 PROVE SamePayload(journal[i], e)
    BY DEF Collides, SameId, Rows
  <2> QED BY <1>4, <2>1 DEF IInv, TicksAlike, SamePayload
<1>6. /\ TypeOK' /\ Extended(journal, journal', e)
      /\ pc' = "sense" /\ error' = error
  BY <1>1, <1>4, <1>5, RecordFacts DEF IInv, PCs, Ticking
<1>7. UNCHANGED <<durable, exported, effects, mem, lineage, call>>
  BY <1>1 DEF Record
<1>8. LocalsSet' /\ Authorized'
  BY <1>6 DEF LocalsSet, Authorized, AfterPersist, Ticking
<1>9. Numbers'
  BY <1>1, <1>6, <1>7 DEF IInv, Numbers, AfterPersist, Ticking
<1>10. HistoryPersisted' /\ TicksAlike'
  BY <1>4, <1>6, <1>7 DEF IInv, HistoryPersisted, TicksAlike, Extended
<1>11. Fresh'
  BY <1>6 DEF Fresh, Future
<1>12. EffectsAuthorized' /\ NoEventIdCollision'
  BY <1>6, <1>7, EffectsStayAuthorized DEF IInv, NoEventIdCollision
<1> QED BY <1>6, <1>8, <1>9, <1>10, <1>11, <1>12 DEF IInv

(* _plan_recovery keeps the types and the cycle number.                    *)
LEMMA PlannedTyped ==
    ASSUME NEW s \in RuntimeStates, NEW h \in Healths
    PROVE  /\ Planned(s, h) \in RuntimeStates
           /\ Planned(s, h).cycle_seq = s.cycle_seq
           /\ PlanAction(s, h) \in Actions
<1>1. PlanAction(s, h) \in Actions
  BY DEF PlanAction, Actions
<1>2. CASE h = "CRITICAL"
  BY <1>1, <1>2 DEF Planned, RuntimeStates
<1>3. CASE h = "DEGRADED"
  BY <1>1, <1>3 DEF Planned, RuntimeStates
<1>4. CASE h = "NORMAL"
  <2> DEFINE streak == s.normal_streak + 1
             stay   == s.safe_mode /\ streak < ExitStreak
             thr    == stay /\ s.throttled
  <2>1. streak \in Nat
    BY DEF RuntimeStates
  <2>2. stay \in BOOLEAN /\ thr \in BOOLEAN
    OBVIOUS
  <2>3. Planned(s, h) = [s EXCEPT !.normal_streak = streak,
                                  !.safe_mode = stay, !.throttled = thr]
    BY <1>4 DEF Planned
  <2> HIDE DEF streak, stay, thr
  <2> QED BY <1>1, <2>1, <2>2, <2>3 DEF RuntimeStates
<1> QED BY <1>2, <1>3, <1>4 DEF Healths

(* Sensing and planning.                                                   *)
LEMMA SenseIInv == ASSUME IInv, Sense PROVE IInv'
<1>1. PICK s \in Samples :
        LET peak   == rss \/ s.rss_high
            health == Assess(s.disk, peak, s.journal_ok)
        IN /\ rss' = peak
           /\ mem' = Planned(mem, health)
           /\ call' = [call EXCEPT !.health = health,
                                   !.action = PlanAction(mem, health)]
  BY DEF Sense
<1> DEFINE h == Assess(s.disk, rss \/ s.rss_high, s.journal_ok)
<1>2. h \in Healths
  BY DEF Assess, Healths
<1>3. mem \in RuntimeStates /\ call \in Calls
  BY DEF IInv, TypeOK
<1>4. /\ mem' \in RuntimeStates /\ mem'.cycle_seq = mem.cycle_seq
      /\ PlanAction(mem, h) \in Actions
  BY <1>1, <1>2, <1>3, PlannedTyped
<1>5. call' = [call EXCEPT !.health = h, !.action = PlanAction(mem, h)]
  BY <1>1
<1> HIDE DEF h
<1>6. call' \in Calls /\ call'.cycle = call.cycle /\ call'.health \in Healths
  BY <1>2, <1>3, <1>4, <1>5 DEF Calls
<1>7. rss' \in BOOLEAN
  BY <1>1
<1>8. /\ pc = "sense" /\ pc' = "persist"
      /\ UNCHANGED <<journal, durable, exported, effects, lineage, executor,
                     error, faults>>
  BY DEF Sense, durables
<1>9. TypeOK'
  BY <1>4, <1>6, <1>7, <1>8 DEF IInv, TypeOK, Ticking
<1>10. LocalsSet' /\ Authorized'
  BY <1>6, <1>8 DEF LocalsSet, Authorized, AfterPersist, Ticking
<1>11. Numbers'
  BY <1>4, <1>6, <1>8 DEF IInv, Numbers, AfterPersist, Ticking
<1>12. HistoryPersisted' /\ Fresh'
  BY <1>8 DEF IInv, HistoryPersisted, Fresh, Future
<1>13. TicksAlike' /\ EffectsAuthorized' /\ NoEventIdCollision'
  BY <1>8 DEF IInv, TicksAlike, EffectsAuthorized, NoEventIdCollision
<1> QED BY <1>9, <1>10, <1>11, <1>12, <1>13 DEF IInv

(* The first persist: no event past TICK has the number yet, for all that  *)
(* have one were persisted below it.                                       *)
LEMMA PersistIInv == ASSUME IInv, Persist PROVE IInv'
<1>1. /\ pc = "persist" /\ pc' = "observation" /\ durable' = mem
      /\ UNCHANGED <<journal, exported, effects, mem, lineage, rss, executor,
                     call, error, faults>>
  BY DEF Persist
<1>2. /\ durable \in RuntimeStates /\ mem \in RuntimeStates
      /\ durable.cycle_seq \in Nat /\ mem.cycle_seq \in Nat
      /\ durable.cycle_seq < mem.cycle_seq /\ call.cycle.seq = mem.cycle_seq
      /\ lineage \in SUBSET Nat /\ exported \in SUBSET Nat
  BY <1>1 DEF IInv, TypeOK, RuntimeStates, Numbers, Ticking
<1>3. ASSUME NEW i \in DOMAIN journal
      PROVE  journal[i].cycle.seq \in Nat
  <2>1. journal[i] \in Events
    BY DEF IInv, TypeOK
  <2> QED BY <2>1 DEF Events, CycleIds
<1>4. ASSUME NEW k \in DOMAIN effects
       PROVE  effects[k].cycle.seq \in Nat
  <2>1. effects[k] \in Effects
    BY DEF IInv, TypeOK
  <2> QED BY <2>1 DEF Effects, CycleIds
<1>5. TypeOK'
  BY <1>1, <1>2 DEF IInv, TypeOK, Ticking
<1>6. LocalsSet' /\ Authorized'
  BY <1>1 DEF IInv, LocalsSet, Authorized, AfterPersist, Ticking
<1>7. Numbers'
  BY <1>1, <1>2 DEF Numbers, AfterPersist, Ticking
<1>8. HistoryPersisted'
  BY <1>1, <1>2, <1>3, <1>4 DEF IInv, HistoryPersisted
<1>9. Fresh'
  <2>1. ASSUME NEW i \in DOMAIN journal,
               journal[i].type \in Future("observation")
        PROVE  journal[i].cycle.seq # call.cycle.seq
    BY <1>2, <1>3, <2>1 DEF IInv, HistoryPersisted, Future
  <2>2. ASSUME NEW k \in DOMAIN effects
        PROVE  effects[k].cycle.seq # call.cycle.seq
    BY <1>2, <1>4 DEF IInv, HistoryPersisted
  <2>3. call.cycle.seq \notin lineage
    BY <1>2 DEF IInv, HistoryPersisted
  <2> QED BY <1>1, <2>1, <2>2, <2>3 DEF Fresh
<1>10. TicksAlike' /\ EffectsAuthorized' /\ NoEventIdCollision'
  BY <1>1 DEF IInv, TicksAlike, EffectsAuthorized, NoEventIdCollision
<1> QED BY <1>5, <1>6, <1>7, <1>8, <1>9, <1>10 DEF IInv

(* OBSERVATION and RECOVERY_PLAN.                                          *)
LEMMA AppendObservationIInv == ASSUME IInv, AppendObservation PROVE IInv'
<1> DEFINE b == [health |-> call.health]
           e == Event("OBSERVATION", "TICK", b)
<1>1. pc = "observation" /\ Record(e, "plan")
  BY DEF AppendObservation
<1>2. call.health \in Healths
  BY <1>1 DEF IInv, LocalsSet, AfterPersist, Ticking
<1>3. b \in Bodies
  BY <1>2 DEF Bodies
<1>4. /\ e \in Events /\ e.cycle = call.cycle /\ e.type = "OBSERVATION"
      /\ e.body = b
  BY <1>3, EventTyped DEF IInv, EventTypes, Causes
<1> HIDE DEF e
<1>5. /\ TypeOK' /\ HistoryPersisted' /\ Fresh' /\ TicksAlike'
      /\ EffectsAuthorized' /\ NoEventIdCollision' /\ pc' = "plan"
  <2>1. /\ pc \in AfterPersist /\ "plan" \in PCs /\ e.type \in Future(pc)
        /\ Future("plan") \subseteq Future(pc) \ {e.type}
    BY <1>1, <1>4 DEF AfterPersist, Ticking, PCs, Future
  <2> QED BY <1>1, <1>4, <2>1, RecordStep
<1>6. UNCHANGED <<durable, mem, call>>
  BY <1>1 DEF Record
<1>7. LocalsSet' /\ Numbers' /\ Authorized'
  BY <1>1, <1>5, <1>6 DEF IInv, LocalsSet, Numbers, Authorized, AfterPersist,
                          Ticking
<1> QED BY <1>5, <1>7 DEF IInv

LEMMA AppendPlanIInv == ASSUME IInv, AppendPlan PROVE IInv'
<1> DEFINE b == [action |-> call.action, safe_mode |-> mem.safe_mode,
                 throttled |-> mem.throttled]
           e == Event("RECOVERY_PLAN", "OBSERVATION", b)
           next == IF call.proposal = "none" THEN "memory" ELSE "authorize"
<1>1. pc = "plan" /\ Record(e, next)
  BY DEF AppendPlan
<1>2. call \in Calls /\ mem \in RuntimeStates
  BY DEF IInv, TypeOK
<1>3. b \in Bodies /\ b.safe_mode = mem.safe_mode
  BY <1>2 DEF Bodies, Calls, RuntimeStates
<1>4. /\ e \in Events /\ e.cycle = call.cycle /\ e.type = "RECOVERY_PLAN"
      /\ e.body = b
  BY <1>3, EventTyped DEF IInv, EventTypes, Causes
<1>5. next \in {"memory", "authorize"}
      /\ (next = "authorize" => call.proposal \in Proposals)
  BY <1>2 DEF Calls
<1> HIDE DEF e, b, next
<1>6. /\ TypeOK' /\ HistoryPersisted' /\ Fresh' /\ TicksAlike'
      /\ EffectsAuthorized' /\ NoEventIdCollision' /\ pc' = next
      /\ \E i \in Rows(journal', e.cycle, e.type) : journal'[i].body = e.body
  <2>1. /\ pc \in AfterPersist /\ next \in PCs /\ e.type \in Future(pc)
        /\ Future(next) \subseteq Future(pc) \ {e.type}
    BY <1>1, <1>4, <1>5 DEF AfterPersist, Ticking, PCs, Future
  <2> QED BY <1>1, <1>4, <1>5, <2>1, RecordStep
<1>7. UNCHANGED <<durable, mem, call>>
  BY <1>1 DEF Record
<1>8. LocalsSet' /\ Numbers'
  BY <1>1, <1>5, <1>6, <1>7 DEF IInv, LocalsSet, Numbers, AfterPersist, Ticking
<1>9. Authorized'
  BY <1>3, <1>4, <1>5, <1>6, <1>7 DEF Authorized
<1> QED BY <1>6, <1>8, <1>9 DEF IInv

(* The two ways a proposal is decided.                                     *)
LEMMA DecideIInv == ASSUME IInv, HoldInSafeMode \/ Evaluate PROVE IInv'
<1>1. /\ pc = "authorize" /\ pc' = "decision"
      /\ UNCHANGED <<journal, durable, exported, effects, mem, rss, executor,
                     error, faults>>
  BY DEF HoldInSafeMode, Evaluate, durables
<1>2. PICK d \in Decisions : /\ call' = [call EXCEPT !.decision = d]
                             /\ d = "PASS" => ~mem.safe_mode
  BY DEF HoldInSafeMode, Evaluate, Decisions
<1>3. call \in Calls
  BY DEF IInv, TypeOK
<1>4. /\ call' \in Calls /\ call'.cycle = call.cycle /\ call'.decision = d
      /\ call'.health = call.health /\ call'.proposal = call.proposal
  BY <1>2, <1>3 DEF Calls
<1>5. lineage' \subseteq lineage \cup {call.cycle.seq}
  BY DEF HoldInSafeMode, Evaluate
<1>6. call.cycle.seq = durable.cycle_seq /\ durable.cycle_seq \in Nat
  BY <1>1 DEF IInv, Numbers, AfterPersist, Ticking, TypeOK, RuntimeStates
<1>7. TypeOK'
  BY <1>1, <1>4, <1>5, <1>6 DEF IInv, TypeOK, Ticking
<1>8. LocalsSet' /\ Numbers'
  BY <1>1, <1>4 DEF IInv, LocalsSet, Numbers, AfterPersist, Ticking
<1>9. HistoryPersisted'
  BY <1>1, <1>5, <1>6 DEF IInv, HistoryPersisted
<1>10. Fresh'
  BY <1>1, <1>4 DEF IInv, Fresh, Future
<1>11. Authorized'
  BY <1>1, <1>2, <1>4 DEF IInv, Authorized
<1>12. TicksAlike' /\ EffectsAuthorized' /\ NoEventIdCollision'
  BY <1>1 DEF IInv, TicksAlike, EffectsAuthorized, NoEventIdCollision
<1> QED BY <1>7, <1>8, <1>9, <1>10, <1>11, <1>12 DEF IInv

LEMMA AppendDecisionIInv == ASSUME IInv, AppendDecision PROVE IInv'
<1> DEFINE b == [decision |-> call.decision]
           e == Event("DECISION", "RECOVERY_PLAN", b)
           next == IF call.decision = "PASS" THEN "execute" ELSE "memory"
<1>1. pc = "decision" /\ Record(e, next)
  BY DEF AppendDecision
<1>2. call.decision \in Decisions
  BY <1>1 DEF IInv, LocalsSet
<1>3. b \in Bodies /\ b.decision = call.decision
  BY <1>2 DEF Bodies
<1>4. /\ e \in Events /\ e.cycle = call.cycle /\ e.type = "DECISION"
      /\ e.body = b
  BY <1>3, EventTyped DEF IInv, EventTypes, Causes
<1>5. next \in {"memory", "execute"} /\ (next = "execute" => call.decision = "PASS")
  OBVIOUS
<1> HIDE DEF e, b, next
<1>6. /\ TypeOK' /\ HistoryPersisted' /\ Fresh' /\ TicksAlike'
      /\ EffectsAuthorized' /\ NoEventIdCollision' /\ pc' = next
      /\ Extended(journal, journal', e)
      /\ \E i \in Rows(journal', e.cycle, e.type) : journal'[i].body = e.body
  <2>1. /\ pc \in AfterPersist /\ next \in PCs /\ e.type \in Future(pc)
        /\ Future(next) \subseteq Future(pc) \ {e.type}
    BY <1>1, <1>4, <1>5 DEF AfterPersist, Ticking, PCs, Future
  <2> QED BY <1>1, <1>4, <1>5, <2>1, RecordStep
<1>7. UNCHANGED <<durable, mem, call>>
  BY <1>1 DEF Record
<1>8. LocalsSet' /\ Numbers'
  BY <1>1, <1>5, <1>6, <1>7 DEF IInv, LocalsSet, Numbers, AfterPersist, Ticking
<1>9. Authorized'
  <2>1. PICK i \in Rows(journal, call.cycle, "RECOVERY_PLAN") :
            journal[i].body.safe_mode = mem.safe_mode
    BY <1>1 DEF IInv, Authorized
  <2>2. /\ i \in Rows(journal', call.cycle, "RECOVERY_PLAN")
        /\ journal'[i].body.safe_mode = mem.safe_mode
    BY <1>6, <2>1, RowsStay
  <2>3. next = "execute" => ~mem.safe_mode
    BY <1>1, <1>5 DEF IInv, Authorized
  <2>4. next = "execute" => \E k \in Rows(journal', call.cycle, "DECISION") :
                               journal'[k].body.decision = "PASS"
    BY <1>3, <1>4, <1>5, <1>6
  <2> QED BY <1>5, <1>6, <1>7, <2>2, <2>3, <2>4 DEF Authorized
<1> QED BY <1>6, <1>8, <1>9 DEF IInv

(* The executor's call ends with an outcome, and the locals say it: every  *)
(* returned result sets executed, whatever its status; an exception leaves *)
(* executed as it was.                                                     *)
LEMMA ExecutorOutcome ==
    ASSUME call \in Calls, Execute \/ ExecuteBadResult
    PROVE  \E outcome \in Outcomes :
              /\ effects' = Append(effects, [cycle |-> call.cycle,
                                             proposal |-> call.proposal,
                                             outcome |-> outcome])
              /\ \/ pc' = "idle" /\ call' = call
                 \/ /\ pc' = "execution"
                    /\ call' = [call EXCEPT !.status = StatusOf(outcome),
                                            !.executed = call.executed
                                                \/ outcome # "raised"]
                    /\ StatusOf(outcome) \in Statuses \cup {"ERROR"}
<1>1. CASE ExecuteBadResult
  BY <1>1 DEF ExecuteBadResult, ExecutorActs, Outcomes
<1>2. CASE Execute
  <2>1. CASE \E s \in Statuses :
               /\ ExecutorActs(s)
               /\ call' = [call EXCEPT !.status = s, !.executed = TRUE]
    <3>1. PICK s \in Statuses :
               /\ ExecutorActs(s)
               /\ call' = [call EXCEPT !.status = s, !.executed = TRUE]
      BY <2>1
    <3>2. s # "raised" /\ s \in Outcomes /\ StatusOf(s) = s
      BY StatusesAssumption DEF Outcomes, StatusOf
    <3> QED BY <1>2, <3>1, <3>2 DEF Execute, ExecutorActs
  <2>2. CASE /\ ExecutorActs("raised")
             /\ call' = [call EXCEPT !.status = "ERROR"]
    <3>1. "raised" \in Outcomes /\ StatusOf("raised") = "ERROR"
      BY DEF Outcomes, StatusOf
    <3>2. call' = [call EXCEPT !.status = "ERROR",
                               !.executed = call.executed \/ FALSE]
      BY <2>2 DEF Calls
    <3>3. (FALSE <=> "raised" # "raised") /\ pc' = "execution"
      BY <1>2 DEF Execute
    <3>4. effects' = Append(effects, [cycle |-> call.cycle,
                                      proposal |-> call.proposal,
                                      outcome |-> "raised"])
      BY <2>2 DEF ExecutorActs
    <3> QED BY <3>1, <3>2, <3>3, <3>4
  <2> QED BY <1>2, <2>1, <2>2 DEF Execute
<1> QED BY <1>1, <1>2

(* The executor: its first call under this number.                         *)
LEMMA ExecuteIInv == ASSUME IInv, Execute \/ ExecuteBadResult PROVE IInv'
<1>0. call \in Calls
  BY DEF IInv, TypeOK
<1>1. PICK outcome \in Outcomes :
        /\ effects' = Append(effects, [cycle |-> call.cycle,
                                       proposal |-> call.proposal,
                                       outcome |-> outcome])
        /\ \/ pc' = "idle" /\ call' = call
           \/ /\ pc' = "execution"
              /\ call' = [call EXCEPT !.status = StatusOf(outcome),
                                      !.executed = call.executed
                                                \/ outcome # "raised"]
              /\ StatusOf(outcome) \in Statuses \cup {"ERROR"}
  BY <1>0, ExecutorOutcome
<1> DEFINE x == [cycle |-> call.cycle, proposal |-> call.proposal,
                 outcome |-> outcome]
<1>2. /\ pc = "execute" /\ effects' = Append(effects, x)
      /\ UNCHANGED <<journal, durable, exported, mem, lineage, rss, executor,
                     faults>>
      /\ error' \in {error, "bad executor result"}
  BY <1>1 DEF Execute, ExecuteBadResult
<1>3. call \in Calls /\ call.proposal \in Proposals /\ call.cycle \in CycleIds
  BY <1>2 DEF IInv, TypeOK, LocalsSet, Calls
<1>4. x \in Effects /\ x.cycle = call.cycle
  BY <1>3 DEF Effects
<1> HIDE DEF x
<1>5. /\ effects \in Seq(Effects) /\ effects' \in Seq(Effects)
      /\ DOMAIN effects = 1..Len(effects) /\ Len(effects) \in Nat
      /\ DOMAIN effects' = 1..(Len(effects) + 1)
      /\ effects'[Len(effects) + 1] = x
      /\ \A k \in 1..Len(effects) : effects'[k] = effects[k]
  <2>1. effects \in Seq(Effects)
    BY DEF IInv, TypeOK
  <2>2. /\ Append(effects, x) \in Seq(Effects)
        /\ DOMAIN effects = 1..Len(effects) /\ Len(effects) \in Nat
        /\ DOMAIN Append(effects, x) = 1..(Len(effects) + 1)
        /\ Append(effects, x)[Len(effects) + 1] = x
        /\ \A k \in 1..Len(effects) : Append(effects, x)[k] = effects[k]
    BY <1>4, <2>1
  <2>3. effects' = Append(effects, x)
    BY <1>2
  <2> QED BY <2>1, <2>2, <2>3
<1>6. /\ call' \in Calls /\ call'.cycle = call.cycle
      /\ call'.health = call.health
      /\ pc' = "execution" => call'.status \in Statuses \cup {"ERROR"}
  <2>1. CASE pc' = "idle" /\ call' = call
    BY <1>3, <2>1
  <2>2. CASE /\ pc' = "execution"
             /\ call' = [call EXCEPT !.status = StatusOf(outcome),
                                     !.executed = call.executed
                                               \/ outcome # "raised"]
             /\ StatusOf(outcome) \in Statuses \cup {"ERROR"}
    BY <1>3, <2>2 DEF Calls
  <2> QED BY <1>1, <2>1, <2>2
<1>7. TypeOK'
  BY <1>1, <1>2, <1>5, <1>6 DEF IInv, TypeOK, Ticking, Errors
<1>8. LocalsSet' /\ Numbers' /\ Authorized'
  BY <1>1, <1>2, <1>6 DEF IInv, LocalsSet, Numbers, Authorized, AfterPersist,
                          Ticking
<1>9. call.cycle.seq = durable.cycle_seq /\ durable.cycle_seq \in Nat
  BY <1>2 DEF IInv, Numbers, AfterPersist, Ticking, TypeOK, RuntimeStates
<1>10. HistoryPersisted'
  <2>1. \A k \in DOMAIN effects' : effects'[k].cycle.seq <= durable.cycle_seq
    BY <1>4, <1>5, <1>9 DEF IInv, HistoryPersisted
  <2> QED BY <1>2, <2>1 DEF IInv, HistoryPersisted
<1>11. Fresh'
  BY <1>1, <1>2, <1>6 DEF IInv, Fresh, Future
<1>12. EffectsAuthorized'
  <2>1. ASSUME NEW k \in DOMAIN effects', NEW l \in DOMAIN effects',
               effects'[k].cycle = effects'[l].cycle
        PROVE  k = l
    <3>1. \A m \in 1..Len(effects) : effects[m].cycle # call.cycle
      BY <1>2, <1>5 DEF IInv, Fresh
    <3> QED BY <1>4, <1>5, <2>1, <3>1 DEF IInv, EffectsAuthorized
  <2>2. ASSUME NEW k \in DOMAIN effects'
        PROVE  /\ \E i \in Rows(journal, effects'[k].cycle, "DECISION") :
                     journal[i].body.decision = "PASS"
               /\ \E i \in Rows(journal, effects'[k].cycle, "RECOVERY_PLAN") :
                     ~journal[i].body.safe_mode
    <3>1. CASE k = Len(effects) + 1
      BY <1>2, <1>4, <1>5, <3>1 DEF IInv, Authorized
    <3>2. CASE k \in 1..Len(effects)
      BY <1>5, <3>2 DEF IInv, EffectsAuthorized
    <3> QED BY <1>5, <3>1, <3>2
  <2> QED BY <1>2, <2>1, <2>2 DEF EffectsAuthorized
<1>13. TicksAlike' /\ NoEventIdCollision'
  BY <1>2 DEF IInv, TicksAlike, NoEventIdCollision
<1> QED BY <1>7, <1>8, <1>10, <1>11, <1>12, <1>13 DEF IInv

(* EXECUTION, EFFECT and MEMORY_COMMIT.                                    *)
LEMMA AppendLateIInv ==
    ASSUME IInv, AppendExecution \/ AppendEffect \/ AppendMemory
    PROVE  IInv'
<1>1. \E t \in {"EXECUTION", "EFFECT", "MEMORY_COMMIT"}, cause \in Causes,
         body \in Bodies, next \in {"effect", "memory", "final"} :
           /\ Record(Event(t, cause, body), next)
           /\ \/ pc = "execution" /\ t = "EXECUTION" /\ next = "effect"
              \/ pc = "effect" /\ t = "EFFECT" /\ next = "memory"
              \/ pc = "memory" /\ t = "MEMORY_COMMIT" /\ next = "final"
  <2>0. call \in Calls /\ mem \in RuntimeStates /\ lineage \in SUBSET Nat
    BY DEF IInv, TypeOK
  <2>1. CASE AppendExecution
    <3>1. [executed |-> call.executed] \in Bodies
      BY <2>0 DEF Bodies, Calls
    <3> QED BY <2>1, <3>1 DEF AppendExecution, Causes, EventTypes
  <2>2. CASE AppendEffect
    <3>1. call.status \in Statuses \cup {"ERROR"}
      BY <2>2 DEF IInv, LocalsSet, AppendEffect
    <3>2. [status |-> call.status] \in Bodies
      BY <3>1 DEF Bodies
    <3> QED BY <2>2, <3>2 DEF AppendEffect, Causes, EventTypes
  <2>3. CASE AppendMemory
    <3>1. call.health \in Healths
      BY <2>3 DEF IInv, LocalsSet, AppendMemory, AfterPersist, Ticking
    <3> DEFINE b == [health |-> call.health, action |-> call.action,
                     safe_mode |-> mem.safe_mode, throttled |-> mem.throttled,
                     decision |-> call.decision, executed |-> call.executed,
                     root |-> lineage]
    <3>2. b \in [health : Healths, action : Actions, safe_mode : BOOLEAN,
                 throttled : BOOLEAN, decision : Decisions \cup {"none"},
                 executed : BOOLEAN, root : SUBSET Nat]
      BY <2>0, <3>1 DEF Calls, RuntimeStates
    <3>3. b \in Bodies
      BY <3>2 DEF Bodies
    <3> DEFINE cause == IF call.decision = "PASS" THEN "EXECUTION"
                                                  ELSE "RECOVERY_PLAN"
    <3>4. pc = "memory" /\ Record(Event("MEMORY_COMMIT", cause, b), "final")
      BY <2>3 DEF AppendMemory
    <3>5. cause \in Causes
      BY DEF Causes, EventTypes
    <3> HIDE DEF b, cause
    <3> QED BY <3>3, <3>4, <3>5
  <2> QED BY <2>1, <2>2, <2>3
<1>2. PICK t \in {"EXECUTION", "EFFECT", "MEMORY_COMMIT"}, cause \in Causes,
           body \in Bodies, next \in {"effect", "memory", "final"} :
           /\ Record(Event(t, cause, body), next)
           /\ \/ pc = "execution" /\ t = "EXECUTION" /\ next = "effect"
              \/ pc = "effect" /\ t = "EFFECT" /\ next = "memory"
              \/ pc = "memory" /\ t = "MEMORY_COMMIT" /\ next = "final"
  BY <1>1
<1> DEFINE e == Event(t, cause, body)
<1>3. e \in Events /\ e.cycle = call.cycle /\ e.type = t
  BY EventTyped DEF IInv, EventTypes
<1>4. Record(e, next)
  BY <1>2
<1> HIDE DEF e
<1>5. /\ TypeOK' /\ HistoryPersisted' /\ Fresh' /\ TicksAlike'
      /\ EffectsAuthorized' /\ NoEventIdCollision' /\ pc' = next
  <2>1. /\ pc \in AfterPersist /\ next \in PCs /\ e.type \in Future(pc)
        /\ Future(next) \subseteq Future(pc) \ {e.type}
    BY <1>2, <1>3 DEF AfterPersist, Ticking, PCs, Future
  <2> QED BY <1>2, <1>3, <1>4, <2>1, RecordStep
<1>6. UNCHANGED <<durable, mem, call>>
  BY <1>4 DEF Record
<1>7. LocalsSet' /\ Numbers' /\ Authorized'
  BY <1>2, <1>5, <1>6 DEF IInv, LocalsSet, Numbers, Authorized, AfterPersist,
                          Ticking
<1> QED BY <1>5, <1>7 DEF IInv

(* Leaving tick, saving the organism, crashing.                            *)
LEMMA LeaveIInv ==
    ASSUME IInv, NoExecutor \/ FinalPersist \/ TickRaises \/ ExportOrganism \/ Crash
    PROVE  IInv'
<1>1. CASE NoExecutor \/ TickRaises
  <2>1. /\ pc \in Ticking /\ pc' = "idle" /\ error' \in {"no executor", "io"}
        /\ faults' \in {faults, faults + 1}
        /\ UNCHANGED <<journal, durable, exported, effects, mem, lineage, rss,
                       executor, call>>
    BY <1>1 DEF NoExecutor, TickRaises, durables, Ticking
  <2>2. TypeOK'
    <3>1. faults \in Nat
      BY DEF IInv, TypeOK
    <3>2. faults' = faults \/ faults' = faults + 1
      BY <2>1
    <3>3. faults' \in Nat
      BY <3>1, <3>2
    <3> QED BY <2>1, <3>3 DEF IInv, TypeOK, Errors
  <2>3. LocalsSet' /\ Numbers' /\ Authorized'
    BY <2>1 DEF IInv, LocalsSet, Numbers, Authorized, AfterPersist, Ticking
  <2>4. HistoryPersisted' /\ Fresh'
    BY <2>1 DEF IInv, HistoryPersisted, Fresh, Future
  <2>5. TicksAlike' /\ EffectsAuthorized' /\ NoEventIdCollision'
    BY <2>1 DEF IInv, TicksAlike, EffectsAuthorized, NoEventIdCollision
  <2> QED BY <2>2, <2>3, <2>4, <2>5 DEF IInv
<1>2. CASE FinalPersist
  <2>1. /\ pc = "final" /\ pc' = "idle" /\ durable' = mem
        /\ UNCHANGED <<journal, exported, effects, mem, lineage, rss, executor,
                       call, error, faults>>
    BY <1>2 DEF FinalPersist
  <2>2. durable'.cycle_seq = durable.cycle_seq /\ mem.cycle_seq \in Nat
    BY <2>1 DEF IInv, Numbers, AfterPersist, Ticking, TypeOK, RuntimeStates
  <2>3. TypeOK'
    BY <2>1 DEF IInv, TypeOK
  <2>4. LocalsSet' /\ Numbers' /\ Authorized'
    BY <2>1, <2>2 DEF LocalsSet, Numbers, Authorized, AfterPersist, Ticking
  <2>5. HistoryPersisted' /\ Fresh'
    BY <2>1, <2>2 DEF IInv, HistoryPersisted, Fresh, Future
  <2>6. TicksAlike' /\ EffectsAuthorized' /\ NoEventIdCollision'
    BY <2>1 DEF IInv, TicksAlike, EffectsAuthorized, NoEventIdCollision
  <2> QED BY <2>3, <2>4, <2>5, <2>6 DEF IInv
<1>3. CASE ExportOrganism
  <2>1. /\ pc = "idle" /\ exported' = lineage
        /\ UNCHANGED <<journal, durable, effects, pc, mem, lineage, rss,
                       executor, call, error, faults>>
    BY <1>3 DEF ExportOrganism
  <2>2. TypeOK'
    BY <2>1 DEF IInv, TypeOK
  <2>3. LocalsSet' /\ Numbers' /\ Authorized'
    BY <2>1 DEF IInv, LocalsSet, Numbers, Authorized, AfterPersist, Ticking
  <2>4. HistoryPersisted' /\ Fresh'
    BY <2>1 DEF IInv, HistoryPersisted, Fresh, Future
  <2>5. TicksAlike' /\ EffectsAuthorized' /\ NoEventIdCollision'
    BY <2>1 DEF IInv, TicksAlike, EffectsAuthorized, NoEventIdCollision
  <2> QED BY <2>2, <2>3, <2>4, <2>5 DEF IInv
<1>4. CASE Crash
  <2>1. /\ pc' = "down" /\ mem' = DefaultState /\ lineage' = {} /\ rss' = FALSE
        /\ executor' = FALSE /\ call' = NoCall /\ error' = "none"
        /\ faults' = faults + 1
        /\ UNCHANGED <<journal, durable, exported, effects>>
    BY <1>4 DEF Crash, durables
  <2>2. DefaultState \in RuntimeStates /\ NoCall \in Calls
    BY DEF DefaultState, RuntimeStates, NoCall, NewCall, Calls, CycleIds, Actions
  <2>3. TypeOK'
    <3>1. faults' \in Nat
      BY <2>1 DEF IInv, TypeOK
    <3> QED BY <2>1, <2>2, <3>1 DEF IInv, TypeOK, Errors
  <2>4. LocalsSet' /\ Numbers' /\ Authorized'
    BY <2>1 DEF LocalsSet, Numbers, Authorized, AfterPersist, Ticking
  <2>5. HistoryPersisted' /\ Fresh'
    BY <2>1 DEF IInv, HistoryPersisted, Fresh, Future
  <2>6. TicksAlike' /\ EffectsAuthorized' /\ NoEventIdCollision'
    BY <2>1 DEF IInv, TicksAlike, EffectsAuthorized, NoEventIdCollision
  <2> QED BY <2>3, <2>4, <2>5, <2>6 DEF IInv
<1> QED BY <1>1, <1>2, <1>3, <1>4

(* Nothing happens.                                                        *)
LEMMA StutterIInv == ASSUME IInv, UNCHANGED vars PROVE IInv'
<1>1. TypeOK' /\ LocalsSet' /\ Numbers'
  BY DEF IInv, vars, TypeOK, LocalsSet, Numbers
<1>2. HistoryPersisted' /\ Fresh' /\ TicksAlike' /\ Authorized'
  BY DEF IInv, vars, HistoryPersisted, Fresh, TicksAlike, Authorized
<1>3. EffectsAuthorized' /\ NoEventIdCollision'
  BY DEF IInv, vars, EffectsAuthorized, NoEventIdCollision
<1> QED BY <1>1, <1>2, <1>3 DEF IInv
---------------------------------------------------------------------------
(* The strengthened invariant holds in every reachable state.              *)
THEOREM Invariance == Spec => []IInv
<1>1. Init => IInv
  BY InitIInv
<1>2. IInv /\ [Next]_vars => IInv'
  <2> SUFFICES ASSUME IInv, [Next]_vars PROVE IInv'
    OBVIOUS
  <2>1. CASE BootStep
    BY <2>1, BootIInv
  <2>2. ASSUME NEW p \in Proposals \cup {"none"}, TickStart(p) PROVE IInv'
    BY <2>2, TickStartIInv
  <2>3. CASE TickStep
    BY <2>3, AppendTickIInv, SenseIInv, PersistIInv, AppendObservationIInv,
       AppendPlanIInv, DecideIInv, AppendDecisionIInv, ExecuteIInv,
       AppendLateIInv, LeaveIInv DEF TickStep
  <2>4. CASE ExecuteBadResult
    BY <2>4, ExecuteIInv
  <2>5. CASE TickRaises \/ ExportOrganism \/ Crash
    BY <2>5, LeaveIInv
  <2>6. CASE UNCHANGED vars
    BY <2>6, StutterIInv
  <2> QED BY <2>1, <2>2, <2>3, <2>4, <2>5, <2>6 DEF Next
<1> QED BY <1>1, <1>2, PTL DEF Spec

(* All variables of the physiology keep their types.                       *)
THEOREM TypeCorrect == Spec => []TypeOK
<1>1. IInv => TypeOK
  BY DEF IInv
<1> QED BY <1>1, Invariance, PTL

(* No append of tick is refused as a collision of event ids.               *)
THEOREM NoCollisions == Spec => []NoEventIdCollision
<1>1. IInv => NoEventIdCollision
  BY DEF IInv
<1> QED BY <1>1, Invariance, PTL

(* The executor acts at most once per cycle, and only after a journaled    *)
(* PASS decision and a journaled plan outside safe mode.                   *)
THEOREM EffectsAreAuthorized == Spec => []EffectsAuthorized
<1>1. IInv => EffectsAuthorized
  BY DEF IInv
<1> QED BY <1>1, Invariance, PTL

(* No cycle number is put before the organism twice.                       *)
THEOREM EvaluatedOnce == Spec => []CyclesEvaluatedOnce
<1>1. IInv => CyclesEvaluatedOnce
  BY DEF IInv, Fresh, CyclesEvaluatedOnce
<1> QED BY <1>1, Invariance, PTL

(* The persisted cycle counter never moves back.                           *)
THEOREM CounterMonotonic == Spec => CounterNeverMovesBack
<1>1. IInv /\ [Next]_vars => [durable'.cycle_seq >= durable.cycle_seq]_vars
  <2> SUFFICES ASSUME IInv, [Next]_vars
               PROVE  durable'.cycle_seq >= durable.cycle_seq
    OBVIOUS
  <2>1. durable.cycle_seq \in Nat /\ mem.cycle_seq \in Nat
    BY DEF IInv, TypeOK, RuntimeStates
  <2>2. CASE Persist \/ FinalPersist
    BY <2>1, <2>2 DEF IInv, Numbers, Persist, FinalPersist, Ticking
  <2>3. CASE UNCHANGED durable
    BY <2>1, <2>3
  <2>4. UNCHANGED durable \/ Persist \/ FinalPersist
    BY DEF Next, vars, BootStep, Boot, Seal, LoadState, TickStart, TickStep,
           AppendTick, Sense, AppendObservation, AppendPlan, HoldInSafeMode,
           Evaluate, AppendDecision, NoExecutor, Execute, ExecuteBadResult,
           AppendExecution, AppendEffect, AppendMemory, TickRaises,
           ExportOrganism, Crash, Record, durables
  <2> QED BY <2>2, <2>3, <2>4
<1> QED BY <1>1, Invariance, PTL DEF Spec, CounterNeverMovesBack
---------------------------------------------------------------------------
(* What a committed cycle says.  The history is only extended, so it is    *)
(* enough to know of the running cycle that what the tick has done so far  *)
(* agrees with its locals and is on record.                                *)
Acted ==
    pc \in {"execution", "effect"} \/ (pc = "memory" /\ call.decision = "PASS")

BeforeActing == {"tick", "sense", "persist", "observation", "plan",
                 "authorize", "decision", "execute"}

InFlight ==
    /\ pc \in {"tick", "sense", "persist", "observation", "plan"}
          => call.decision # "PASS"
    /\ pc \in BeforeActing => ~call.executed
    /\ Acted => /\ call.decision = "PASS" /\ call.cycle \in EffectCycles
                /\ \A k \in DOMAIN effects :
                      effects[k].cycle = call.cycle =>
                         /\ call.executed <=> effects[k].outcome # "raised"
                         /\ call.status = StatusOf(effects[k].outcome)
    /\ Acted /\ pc # "execution" =>
          \E x \in Rows(journal, call.cycle, "EXECUTION") :
              journal[x].body.executed = call.executed
    /\ Acted /\ pc = "memory" =>
          \E x \in Rows(journal, call.cycle, "EFFECT") :
              journal[x].body.status = call.status
    /\ pc = "memory" /\ ~Acted => call.cycle \notin EffectCycles

Truthful == InFlight /\ CommitsTellTheTruth

(* Since no append of tick is refused, each leaves its row.                *)
LEMMA Accepted ==
    ASSUME IInv, IInv', NEW e, NEW next, Record(e, next)
    PROVE  /\ Extended(journal, journal', e) /\ pc' = next
           /\ \E i \in Rows(journal', e.cycle, e.type) :
                 journal'[i].body = e.body
           /\ UNCHANGED <<durable, exported, effects, mem, lineage, call>>
<1>1. ~Collides(journal, e) /\ pc' = next
  BY DEF IInv, NoEventIdCollision, Record
<1>2. Extended(journal, journal', e)
  <2>1. journal \in Seq(Events \cup {e})
    BY DEF IInv, TypeOK
  <2>2. journal' = AppendEvent(journal, e)
    BY DEF Record
  <2> QED BY <2>1, <2>2, AppendEventRows
<1>3. \E i \in Rows(journal', e.cycle, e.type) : journal'[i].body = e.body
  BY <1>1, <1>2 DEF Extended, Rows
<1> QED BY <1>1, <1>2, <1>3 DEF Record

(* One commit row, and what it says.                                       *)
Tells(i) ==
    LET c == journal[i].cycle
    IN /\ journal[i].body.decision = "PASS" <=> c \in EffectCycles
       /\ \A k \in DOMAIN effects :
             effects[k].cycle = c =>
                /\ journal[i].body.executed <=> effects[k].outcome # "raised"
                /\ \E x \in Rows(journal, c, "EXECUTION") :
                      journal[x].body.executed = journal[i].body.executed
                /\ \E x \in Rows(journal, c, "EFFECT") :
                      journal[x].body.status = StatusOf(effects[k].outcome)

LEMMA TellsStays ==
    ASSUME NEW e, Extended(journal, journal', e), effects' = effects,
           NEW i \in DOMAIN journal, Tells(i)
    PROVE  Tells(i)'
<1> DEFINE c == journal[i].cycle
<1>1. i \in DOMAIN journal' /\ journal'[i] = journal[i]
  BY DEF Extended
<1>2. EffectCycles' = EffectCycles
  BY DEF EffectCycles
<1>3. ASSUME NEW t, NEW x \in Rows(journal, c, t)
      PROVE  x \in Rows(journal', c, t) /\ journal'[x] = journal[x]
  BY <1>3, RowsStay
<1>4. ASSUME NEW k \in DOMAIN effects, effects[k].cycle = c
      PROVE  /\ journal[i].body.executed <=> effects[k].outcome # "raised"
             /\ \E x \in Rows(journal', c, "EXECUTION") :
                   journal'[x].body.executed = journal[i].body.executed
             /\ \E x \in Rows(journal', c, "EFFECT") :
                   journal'[x].body.status = StatusOf(effects[k].outcome)
  <2>1. PICK x \in Rows(journal, c, "EXECUTION") :
            journal[x].body.executed = journal[i].body.executed
    BY <1>4 DEF Tells
  <2>2. PICK y \in Rows(journal, c, "EFFECT") :
            journal[y].body.status = StatusOf(effects[k].outcome)
    BY <1>4 DEF Tells
  <2>3. /\ x \in Rows(journal', c, "EXECUTION") /\ journal'[x] = journal[x]
        /\ y \in Rows(journal', c, "EFFECT") /\ journal'[y] = journal[y]
    BY <1>3
  <2>4. journal[i].body.executed <=> effects[k].outcome # "raised"
    BY <1>4 DEF Tells
  <2> QED BY <2>1, <2>2, <2>3, <2>4
<1> QED BY <1>1, <1>2, <1>4 DEF Tells

LEMMA CommitsTell == CommitsTellTheTruth <=> \A i \in Row("MEMORY_COMMIT") : Tells(i)
  BY DEF CommitsTellTheTruth, Tells

(* An append of any other event leaves the commits and what they say.      *)
LEMMA TruthStays ==
    ASSUME CommitsTellTheTruth, NEW e, Extended(journal, journal', e),
           e.type # "MEMORY_COMMIT", effects' = effects
    PROVE  CommitsTellTheTruth'
<1> SUFFICES ASSUME NEW i \in Row("MEMORY_COMMIT")'
             PROVE  Tells(i)'
  BY CommitsTell DEF CommitsTellTheTruth, Tells
<1>1. i \in DOMAIN journal /\ i \in Row("MEMORY_COMMIT")
  BY DEF Row, Extended
<1>2. Tells(i)
  BY <1>1, CommitsTell
<1> QED BY <1>1, <1>2, TellsStays

(* Statements that neither append nor call the executor.                   *)
LEMMA QuietTruth ==
    ASSUME IInv, Truthful,
           \/ Boot \/ LoadState \/ NoExecutor \/ FinalPersist \/ TickRaises
           \/ ExportOrganism \/ Crash \/ Sense \/ Persist
           \/ HoldInSafeMode \/ Evaluate \/ UNCHANGED vars
           \/ \E p \in Proposals \cup {"none"} : TickStart(p)
    PROVE  Truthful'
<1>1. journal' = journal /\ effects' = effects
  BY DEF Boot, LoadState, NoExecutor, FinalPersist, TickRaises, ExportOrganism,
         Crash, Sense, Persist, HoldInSafeMode, Evaluate, TickStart, vars,
         durables
<1>2. CommitsTellTheTruth'
  BY <1>1 DEF Truthful, CommitsTellTheTruth, Row, EffectCycles
<1>3. CASE pc' \in {"down", "sealing", "idle"}
  BY <1>2, <1>3 DEF Truthful, InFlight, Acted, BeforeActing
<1>4. CASE \E p \in Proposals \cup {"none"} : TickStart(p)
  BY <1>2, <1>4 DEF Truthful, InFlight, Acted, BeforeActing, TickStart, NewCall
<1>5. CASE Sense
  <2>1. call \in Calls
    BY DEF IInv, TypeOK
  <2>2. /\ pc = "sense" /\ pc' = "persist" /\ call'.decision = call.decision
        /\ call'.executed = call.executed
    BY <1>5, <2>1 DEF Sense, Calls
  <2> QED BY <1>2, <2>2 DEF Truthful, InFlight, Acted, BeforeActing
<1>6. CASE Persist
  BY <1>2, <1>6 DEF Truthful, InFlight, Acted, BeforeActing, Persist
<1>7. CASE UNCHANGED vars
  BY <1>2, <1>7
     DEF Truthful, InFlight, Acted, BeforeActing, EffectCycles, StatusOf, vars
<1>8. CASE HoldInSafeMode \/ Evaluate
  <2>1. call \in Calls
    BY DEF IInv, TypeOK
  <2>2. pc = "authorize" /\ pc' = "decision" /\ call'.executed = call.executed
    BY <1>8, <2>1 DEF HoldInSafeMode, Evaluate, Calls
  <2> QED BY <1>2, <2>2 DEF Truthful, InFlight, Acted, BeforeActing
<1>9. \/ pc' \in {"down", "sealing", "idle"}
      \/ Sense \/ Persist \/ UNCHANGED vars \/ HoldInSafeMode \/ Evaluate
      \/ \E p \in Proposals \cup {"none"} : TickStart(p)
  BY DEF Boot, LoadState, NoExecutor, FinalPersist, TickRaises, ExportOrganism,
         Crash
<1> QED BY <1>3, <1>4, <1>5, <1>6, <1>7, <1>9, <1>8

(* Appends before the executor is called.                                  *)
LEMMA EarlyAppendTruth ==
    ASSUME IInv, IInv', Truthful,
           AppendTick \/ AppendObservation \/ AppendPlan \/ AppendDecision
    PROVE  Truthful'
<1>1. PICK t \in {"TICK", "OBSERVATION", "RECOVERY_PLAN", "DECISION"} :
        \E cause, body, next :
           /\ Record(Event(t, cause, body), next)
           /\ \/ pc \in {"tick", "observation"} /\ next \in {"sense", "plan"}
              \/ pc = "plan" /\ next \in {"memory", "authorize"}
              \/ /\ pc = "decision"
                 /\ next = IF call.decision = "PASS" THEN "execute" ELSE "memory"
  BY DEF AppendTick, AppendObservation, AppendPlan, AppendDecision
<1>2. PICK cause, body, next :
           /\ Record(Event(t, cause, body), next)
           /\ \/ pc \in {"tick", "observation"} /\ next \in {"sense", "plan"}
              \/ pc = "plan" /\ next \in {"memory", "authorize"}
              \/ /\ pc = "decision"
                 /\ next = IF call.decision = "PASS" THEN "execute" ELSE "memory"
  BY <1>1
<1> DEFINE e == Event(t, cause, body)
<1>3. e.type # "MEMORY_COMMIT"
  BY DEF Event
<1>4. Extended(journal, journal', e) /\ pc' = next /\ effects' = effects
      /\ call' = call
  BY <1>2, Accepted
<1> HIDE DEF e
<1>5. CommitsTellTheTruth'
  BY <1>3, <1>4, TruthStays DEF Truthful
<1>6. pc \in {"observation", "plan", "authorize", "decision", "execute"} =>
          call.cycle \notin EffectCycles
  BY DEF IInv, Fresh, EffectCycles
<1>7. InFlight'
  BY <1>2, <1>4, <1>6 DEF Truthful, InFlight, Acted, BeforeActing, EffectCycles
<1> QED BY <1>5, <1>7 DEF Truthful

(* A cycle that is sealed adds no commit.                                  *)
LEMMA SealTruth == ASSUME IInv, Truthful, Seal PROVE Truthful'
<1>1. PICK c, first, last :
          journal' = AppendEvent(journal,
              [cycle |-> c, type |-> "CYCLE_ABORTED", suffix |-> << >>,
               cause |-> journal[last].type,
               body |-> [first_seq |-> first, last_seq |-> last]])
  BY DEF Seal
<1> DEFINE e == [cycle |-> c, type |-> "CYCLE_ABORTED", suffix |-> << >>,
                 cause |-> journal[last].type,
                 body |-> [first_seq |-> first, last_seq |-> last]]
<1>2. e.type = "CYCLE_ABORTED" /\ journal' = AppendEvent(journal, e)
  BY <1>1
<1> HIDE DEF e
<1>3. Extended(journal, journal', e)
  <2>1. journal \in Seq(Events \cup {e})
    BY DEF IInv, TypeOK
  <2> QED BY <1>2, <2>1, AppendEventRows
<1>4. pc = "sealing" /\ pc' = "sealing" /\ effects' = effects
  BY DEF Seal
<1> QED BY <1>2, <1>3, <1>4, TruthStays
        DEF Truthful, InFlight, Acted, BeforeActing

(* The executor acts for a cycle that has no commit yet.                   *)
LEMMA ExecuteTruth ==
    ASSUME IInv, Truthful, Execute \/ ExecuteBadResult
    PROVE  Truthful'
<1>0. call \in Calls
  BY DEF IInv, TypeOK
<1>1. PICK outcome \in Outcomes :
        /\ effects' = Append(effects, [cycle |-> call.cycle,
                                       proposal |-> call.proposal,
                                       outcome |-> outcome])
        /\ \/ pc' = "idle" /\ call' = call
           \/ /\ pc' = "execution"
              /\ call' = [call EXCEPT !.status = StatusOf(outcome),
                                      !.executed = call.executed
                                                \/ outcome # "raised"]
  BY <1>0, ExecutorOutcome
<1> DEFINE x == [cycle |-> call.cycle, proposal |-> call.proposal,
                 outcome |-> outcome]
<1>2. /\ pc = "execute" /\ journal' = journal
      /\ x.cycle = call.cycle /\ x.outcome = outcome
  BY DEF Execute, ExecuteBadResult
<1>3. /\ DOMAIN effects' = DOMAIN effects \cup {Len(effects) + 1}
      /\ Len(effects) + 1 \notin DOMAIN effects
      /\ effects'[Len(effects) + 1] = x
      /\ \A k \in DOMAIN effects : effects'[k] = effects[k]
  <2>1. effects \in Seq(Effects \cup {x}) /\ effects' = Append(effects, x)
    BY <1>1 DEF IInv, TypeOK
  <2> HIDE DEF x
  <2>2. /\ DOMAIN Append(effects, x) = DOMAIN effects \cup {Len(effects) + 1}
        /\ Len(effects) + 1 \notin DOMAIN effects
        /\ Append(effects, x)[Len(effects) + 1] = x
        /\ \A k \in DOMAIN effects : Append(effects, x)[k] = effects[k]
    BY <2>1
  <2> QED BY <2>1, <2>2
<1> HIDE DEF x
<1>4. EffectCycles' = EffectCycles \cup {call.cycle}
  BY <1>2, <1>3 DEF EffectCycles
<1>5. CommitsTellTheTruth'
  <2> SUFFICES ASSUME NEW i \in Row("MEMORY_COMMIT")
               PROVE  Tells(i)'
    BY <1>2 DEF CommitsTellTheTruth, Tells, Row
  <2>1. journal[i].cycle # call.cycle /\ i \in Row("MEMORY_COMMIT")
    BY <1>2 DEF Row, IInv, Fresh, Future
  <2>2. Tells(i)
    BY <2>1, CommitsTell DEF Truthful
  <2>3. ASSUME NEW k \in DOMAIN effects', effects'[k].cycle = journal[i].cycle
        PROVE  k \in DOMAIN effects /\ effects'[k] = effects[k]
    BY <1>2, <1>3, <2>1, <2>3
  <2> QED BY <1>2, <1>4, <2>1, <2>2, <2>3 DEF Tells
<1>6. call.decision = "PASS" /\ ~call.executed
  BY <1>2 DEF IInv, Authorized, Truthful, InFlight, BeforeActing
<1>7. CASE pc' = "idle"
  BY <1>5, <1>7 DEF Truthful, InFlight, Acted, BeforeActing
<1>8. CASE pc' = "execution"
  <2>1. /\ call'.cycle = call.cycle /\ call'.decision = "PASS"
        /\ call'.status = StatusOf(outcome)
        /\ call'.executed <=> outcome # "raised"
    BY <1>0, <1>1, <1>6, <1>8 DEF Calls
  <2>2. ASSUME NEW k \in DOMAIN effects', effects'[k].cycle = call.cycle
        PROVE  effects'[k].outcome = outcome
    <3>1. \A m \in DOMAIN effects : effects[m].cycle # call.cycle
      BY <1>2 DEF IInv, Fresh
    <3> QED BY <1>2, <1>3, <2>2, <3>1
  <2>3. call'.cycle \in EffectCycles'
    BY <1>4, <2>1
  <2>4. StatusOf(outcome)' = StatusOf(outcome)
    OBVIOUS
  <2> QED BY <1>5, <1>8, <2>1, <2>2, <2>3, <2>4
          DEF Truthful, InFlight, Acted, BeforeActing
<1> QED BY <1>1, <1>7, <1>8

LEMMA LateAppendTruth ==
    ASSUME IInv, IInv', Truthful, AppendExecution \/ AppendEffect
    PROVE  Truthful'
<1>1. CASE AppendExecution
  <2> DEFINE e == Event("EXECUTION", "DECISION", [executed |-> call.executed])
  <2>1. pc = "execution" /\ Record(e, "effect")
    BY <1>1 DEF AppendExecution
  <2>2. /\ e.cycle = call.cycle /\ e.type = "EXECUTION"
        /\ e.body.executed = call.executed
    BY DEF Event
  <2> HIDE DEF e
  <2>3. /\ Extended(journal, journal', e) /\ pc' = "effect"
        /\ \E x \in Rows(journal', call.cycle, "EXECUTION") :
              journal'[x].body.executed = call.executed
        /\ effects' = effects /\ call' = call
    BY <2>1, <2>2, Accepted
  <2>4. CommitsTellTheTruth'
    BY <2>2, <2>3, TruthStays DEF Truthful
  <2> QED BY <2>1, <2>3, <2>4
          DEF Truthful, InFlight, Acted, BeforeActing, EffectCycles
<1>2. CASE AppendEffect
  <2> DEFINE e == Event("EFFECT", "EXECUTION", [status |-> call.status])
  <2>1. pc = "effect" /\ Record(e, "memory")
    BY <1>2 DEF AppendEffect
  <2>2. /\ e.cycle = call.cycle /\ e.type = "EFFECT"
        /\ e.body.status = call.status
    BY DEF Event
  <2> HIDE DEF e
  <2>3. /\ Extended(journal, journal', e) /\ pc' = "memory"
        /\ \E x \in Rows(journal', call.cycle, "EFFECT") :
              journal'[x].body.status = call.status
        /\ effects' = effects /\ call' = call
    BY <2>1, <2>2, Accepted
  <2>4. CommitsTellTheTruth'
    BY <2>2, <2>3, TruthStays DEF Truthful
  <2>5. PICK x \in Rows(journal, call.cycle, "EXECUTION") :
            journal[x].body.executed = call.executed
    BY <2>1 DEF Truthful, InFlight, Acted
  <2>6. x \in Rows(journal', call.cycle, "EXECUTION") /\ journal'[x] = journal[x]
    BY <2>3, RowsStay
  <2> QED BY <2>1, <2>3, <2>4, <2>5, <2>6
          DEF Truthful, InFlight, Acted, BeforeActing, EffectCycles
<1> QED BY <1>1, <1>2

(* The commit: what it says of its cycle is what is on record of it.       *)
LEMMA CommitTruth == ASSUME IInv, IInv', Truthful, AppendMemory PROVE Truthful'
<1> DEFINE b == [health |-> call.health, action |-> call.action,
                 safe_mode |-> mem.safe_mode, throttled |-> mem.throttled,
                 decision |-> call.decision, executed |-> call.executed,
                 root |-> lineage]
           e == Event("MEMORY_COMMIT",
                      IF call.decision = "PASS" THEN "EXECUTION"
                                                ELSE "RECOVERY_PLAN", b)
<1>1. pc = "memory" /\ Record(e, "final")
  BY DEF AppendMemory
<1>2. /\ e.cycle = call.cycle /\ e.type = "MEMORY_COMMIT"
      /\ e.body.decision = call.decision /\ e.body.executed = call.executed
  BY DEF Event
<1> HIDE DEF b, e
<1>3. /\ Extended(journal, journal', e) /\ pc' = "final"
      /\ effects' = effects /\ call' = call
  BY <1>1, Accepted
<1>4. EffectCycles' = EffectCycles
  BY <1>3 DEF EffectCycles
<1>5. ASSUME NEW i \in Row("MEMORY_COMMIT")'
      PROVE  Tells(i)'
  <2>1. CASE i \in DOMAIN journal
    <3>1. i \in Row("MEMORY_COMMIT")
      BY <1>3, <1>5, <2>1 DEF Row, Extended
    <3>2. Tells(i)
      BY <3>1, CommitsTell DEF Truthful
    <3> QED BY <1>3, <2>1, <3>2, TellsStays
  <2>2. CASE i \notin DOMAIN journal
    <3>1. journal'[i] = e
      BY <1>3, <1>5, <2>2 DEF Row, Extended
    <3>2. CASE Acted
      <4>1. /\ call.decision = "PASS" /\ call.cycle \in EffectCycles
            /\ \A k \in DOMAIN effects :
                  effects[k].cycle = call.cycle =>
                     /\ call.executed <=> effects[k].outcome # "raised"
                     /\ call.status = StatusOf(effects[k].outcome)
        BY <3>2 DEF Truthful, InFlight
      <4>2. PICK x \in Rows(journal, call.cycle, "EXECUTION") :
                journal[x].body.executed = call.executed
        BY <1>1, <3>2 DEF Truthful, InFlight
      <4>3. PICK y \in Rows(journal, call.cycle, "EFFECT") :
                journal[y].body.status = call.status
        BY <1>1, <3>2 DEF Truthful, InFlight
      <4>4. /\ x \in Rows(journal', call.cycle, "EXECUTION")
            /\ journal'[x] = journal[x]
            /\ y \in Rows(journal', call.cycle, "EFFECT")
            /\ journal'[y] = journal[y]
        BY <1>3, <4>2, <4>3, RowsStay
      <4>5. journal'[x].body.executed = journal'[i].body.executed
        BY <1>2, <3>1, <4>2, <4>4
      <4>6. \A k \in DOMAIN effects :
               effects[k].cycle = call.cycle =>
                  journal'[y].body.status = StatusOf(effects[k].outcome)
        BY <4>1, <4>3, <4>4
      <4> QED BY <1>2, <1>3, <1>4, <3>1, <4>1, <4>4, <4>5, <4>6 DEF Tells
    <3>3. CASE ~Acted
      <4>1. call.decision # "PASS" /\ call.cycle \notin EffectCycles
        BY <1>1, <3>3 DEF Truthful, InFlight, Acted
      <4> QED BY <1>2, <1>3, <1>4, <3>1, <4>1 DEF Tells, EffectCycles
    <3> QED BY <3>2, <3>3
  <2> QED BY <2>1, <2>2
<1>6. CommitsTellTheTruth'
  BY <1>5 DEF CommitsTellTheTruth, Tells
<1> QED BY <1>3, <1>6 DEF Truthful, InFlight, Acted, BeforeActing

(* A commit has a PASS decision exactly when the executor was called for   *)
(* its cycle; it and EXECUTION say executed exactly when that call         *)
(* returned, and EFFECT has the status it returned, ERROR when it raised;  *)
(* wherever tick raised and the process crashed.                           *)
THEOREM CommitsAreTrue == Spec => []CommitsTellTheTruth
<1>1. Init => Truthful
  BY DEF Init, Truthful, InFlight, Acted, BeforeActing, CommitsTellTheTruth, Row
<1>2. IInv /\ IInv' /\ Truthful /\ [Next]_vars => Truthful'
  BY QuietTruth, EarlyAppendTruth, SealTruth, ExecuteTruth, LateAppendTruth,
     CommitTruth DEF Next, BootStep, TickStep
<1>3. Truthful => CommitsTellTheTruth
  BY DEF Truthful
<1> QED BY <1>1, <1>2, <1>3, Invariance, PTL DEF Spec
---------------------------------------------------------------------------
(* Hysteresis.  The readings that were observed: number of the cycle and   *)
(* health; one that was planned with and is still to be appended counts    *)
(* already.                                                                *)
Seen ==
    {<<journal[i].cycle.seq, journal[i].body.health>> :
        i \in Row("OBSERVATION")}
    \cup (IF pc \in {"persist", "observation"}
          THEN {<<call.cycle.seq, call.health>>} ELSE {})

(* No reading in the cycles a to b was other than NORMAL.                  *)
Calm(S, a, b) == \A p \in S : p[1] \in a..b => p[2] = "NORMAL"

(* The count of NORMAL readings up to cycle b is what was seen.            *)
Streak(S, s, b) ==
    /\ s.normal_streak <= b
    /\ Calm(S, b - s.normal_streak + 1, b)

(* After each CRITICAL reading up to cycle b came ExitStreak calm cycles.  *)
Recovered(S, b) ==
    \A p \in S : (p[2] = "CRITICAL" /\ p[1] <= b) =>
        \E first \in (p[1] + 1)..(b + 1 - ExitStreak) :
            Calm(S, first, first + ExitStreak - 1)

(* The streak is true of state s in cycle b, and s is outside safe mode    *)
(* only after a recovery.                                                  *)
Hysteretic(S, s, b) == Streak(S, s, b) /\ (~s.safe_mode => Recovered(S, b))

(* The cycle the memory's streak counts to: the running one only once it   *)
(* was sensed.                                                             *)
CountedTo ==
    IF pc \in {"tick", "sense"} THEN mem.cycle_seq - 1 ELSE mem.cycle_seq

Hysteresis ==
    /\ Hysteretic(Seen, durable, durable.cycle_seq)
    /\ pc \notin {"down", "sealing"} => Hysteretic(Seen, mem, CountedTo)
    /\ pc = "execution" => ~mem.safe_mode
    /\ \A x \in Row("EXECUTION") : Recovered(Seen, journal[x].cycle.seq)

(* Fewer readings, or more cycles without one, disturb nothing.            *)
LEMMA FewerReadings ==
    ASSUME NEW S, NEW R \in SUBSET S, NEW b
    PROVE  /\ Recovered(S, b) => Recovered(R, b)
           /\ \A s : Hysteretic(S, s, b) => Hysteretic(R, s, b)
  BY DEF Recovered, Hysteretic, Streak, Calm

LEMMA SilentCycle ==
    ASSUME NEW S, \A p \in S : p[1] \in Nat, NEW s \in RuntimeStates, NEW b \in Nat,
           \A p \in S : p[1] <= b, Hysteretic(S, s, b)
    PROVE  Hysteretic(S, s, b + 1)
<1> USE ExitStreakAssumption
<1>1. \A p \in S : p[1] \in Nat
  OBVIOUS
<1>2. s.normal_streak \in Nat
  BY DEF RuntimeStates
<1>3. Streak(S, s, b + 1)
  BY <1>1, <1>2 DEF Hysteretic, Streak, Calm
<1>4. Recovered(S, b) => Recovered(S, b + 1)
  <2> SUFFICES ASSUME Recovered(S, b), NEW p \in S, p[2] = "CRITICAL"
               PROVE  \E first \in (p[1] + 1)..(b + 1 + 1 - ExitStreak) :
                          Calm(S, first, first + ExitStreak - 1)
    BY DEF Recovered
  <2>1. PICK first \in (p[1] + 1)..(b + 1 - ExitStreak) :
            Calm(S, first, first + ExitStreak - 1)
    BY DEF Recovered
  <2>2. first \in (p[1] + 1)..(b + 1 + 1 - ExitStreak)
    BY <1>1, <2>1
  <2> QED BY <2>1, <2>2
<1> QED BY <1>3, <1>4 DEF Hysteretic

(* A reading in a later cycle leaves what is said of cycle b.              *)
LEMMA LaterReading ==
    ASSUME NEW S, \A p \in S : p[1] \in Nat, NEW n \in Nat, NEW h, NEW b \in Nat,
           b < n
    PROVE  /\ Recovered(S, b) => Recovered(S \cup {<<n, h>>}, b)
           /\ \A s \in RuntimeStates :
                 Hysteretic(S, s, b) => Hysteretic(S \cup {<<n, h>>}, s, b)
<1> USE ExitStreakAssumption
<1> DEFINE T == S \cup {<<n, h>>}
<1>1. \A p \in S : p[1] \in Nat
  OBVIOUS
<1>2. ASSUME NEW a \in Int, NEW c \in Int, c < n, Calm(S, a, c)
      PROVE  Calm(T, a, c)
  BY <1>2 DEF Calm
<1>3. Recovered(S, b) => Recovered(T, b)
  <2> SUFFICES ASSUME Recovered(S, b), NEW p \in T, p[2] = "CRITICAL",
                      p[1] <= b
               PROVE  \E first \in (p[1] + 1)..(b + 1 - ExitStreak) :
                          Calm(T, first, first + ExitStreak - 1)
    BY DEF Recovered
  <2>1. p \in S
    OBVIOUS
  <2>2. PICK first \in (p[1] + 1)..(b + 1 - ExitStreak) :
            Calm(S, first, first + ExitStreak - 1)
    BY <2>1 DEF Recovered
  <2>3. first \in Int /\ first + ExitStreak - 1 \in Int
        /\ first + ExitStreak - 1 < n
    BY <1>1, <2>1, <2>2
  <2>4. Calm(T, first, first + ExitStreak - 1)
    BY <1>2, <2>2, <2>3
  <2> QED BY <2>4
<1>4. ASSUME NEW s \in RuntimeStates, Hysteretic(S, s, b)
      PROVE  Hysteretic(T, s, b)
  <2>1. s.normal_streak \in Nat
    BY DEF RuntimeStates
  <2> DEFINE a == b - s.normal_streak + 1
  <2>2. a \in Int /\ b \in Int /\ Calm(S, a, b) /\ s.normal_streak <= b
    BY <1>4, <2>1 DEF Hysteretic, Streak
  <2> HIDE DEF a, T
  <2>3. Calm(T, a, b)
    BY <1>2, <2>2
  <2>4. Streak(T, s, b)
    BY <2>2, <2>3 DEF Streak, a
  <2> QED BY <1>3, <1>4, <2>4 DEF Hysteretic
<1> QED BY <1>3, <1>4

(* _plan_recovery with the reading of the next cycle.                      *)
LEMMA PlannedReading ==
    ASSUME NEW S, \A p \in S : p[1] \in Nat, NEW s \in RuntimeStates, NEW b \in Nat,
           \A p \in S : p[1] <= b, Hysteretic(S, s, b), NEW h \in Healths
    PROVE  Hysteretic(S \cup {<<b + 1, h>>}, Planned(s, h), b + 1)
<1> USE ExitStreakAssumption
<1> DEFINE T == S \cup {<<b + 1, h>>}
           q == Planned(s, h)
<1>0. b + 1 \in Nat /\ b < b + 1
  OBVIOUS
<1>1. \A p \in S : p[1] \in Nat /\ p[1] <= b
  OBVIOUS
<1>2. s.normal_streak \in Nat /\ s.normal_streak <= b
      /\ Calm(S, b - s.normal_streak + 1, b)
  BY DEF RuntimeStates, Hysteretic, Streak
<1>3. CASE h = "CRITICAL"
  <2>1. q.safe_mode = TRUE /\ q.normal_streak = 0
    BY <1>3 DEF Planned, RuntimeStates
  <2>2. Streak(T, q, b + 1)
    BY <1>1, <2>1 DEF Streak, Calm
  <2> QED BY <2>1, <2>2 DEF Hysteretic
<1>4. CASE h = "DEGRADED"
  <2>1. q.safe_mode = s.safe_mode /\ q.normal_streak = 0
    BY <1>4 DEF Planned, RuntimeStates
  <2>2. Streak(T, q, b + 1)
    BY <1>1, <2>1 DEF Streak, Calm
  <2>3. Recovered(S, b) => Recovered(T, b + 1)
    <3> SUFFICES ASSUME Recovered(S, b), NEW p \in T, p[2] = "CRITICAL"
                 PROVE  \E first \in (p[1] + 1)..(b + 1 + 1 - ExitStreak) :
                            Calm(T, first, first + ExitStreak - 1)
      BY DEF Recovered
    <3>1. p \in S
      BY <1>4
    <3>2. Recovered(T, b)
      BY LaterReading, <1>0
    <3>3. PICK first \in (p[1] + 1)..(b + 1 - ExitStreak) :
              Calm(T, first, first + ExitStreak - 1)
      BY <1>1, <3>1, <3>2 DEF Recovered
    <3>4. first \in (p[1] + 1)..(b + 1 + 1 - ExitStreak)
      BY <1>1, <3>1, <3>3
    <3> QED BY <3>3, <3>4
  <2> QED BY <2>1, <2>2, <2>3 DEF Hysteretic
<1>5. CASE h = "NORMAL"
  <2> DEFINE n == s.normal_streak + 1
  <2>1. /\ q.normal_streak = n
        /\ ~q.safe_mode => ~s.safe_mode \/ n >= ExitStreak
    <3> DEFINE stay == s.safe_mode /\ n < ExitStreak
               thr  == stay /\ s.throttled
    <3>1. q = [s EXCEPT !.normal_streak = n, !.safe_mode = stay,
                        !.throttled = thr]
      BY <1>5 DEF Planned
    <3>2. ~stay => ~s.safe_mode \/ n >= ExitStreak
      BY <1>2
    <3> HIDE DEF q, n, stay, thr
    <3>3. q.normal_streak = n /\ q.safe_mode = stay
      BY <3>1 DEF RuntimeStates
    <3> QED BY <3>2, <3>3
  <2>2. Streak(T, q, b + 1)
    BY <1>1, <1>2, <1>5, <2>1 DEF Streak, Calm
  <2>3. ASSUME n >= ExitStreak, NEW p \in T, p[2] = "CRITICAL"
        PROVE  \E first \in (p[1] + 1)..(b + 1 + 1 - ExitStreak) :
                   Calm(T, first, first + ExitStreak - 1)
    <3> DEFINE first == b + 1 + 1 - ExitStreak
    <3>1. p \in S /\ p[1] \in Nat /\ p[1] <= b
      BY <1>1, <1>5, <2>3
    <3>2. p[1] < b - s.normal_streak + 1
      BY <1>2, <2>3, <3>1 DEF Calm
    <3>3. first \in (p[1] + 1)..(b + 1 + 1 - ExitStreak)
      BY <1>2, <2>3, <3>1, <3>2
    <3>4. Calm(T, first, first + ExitStreak - 1)
      BY <1>1, <1>2, <1>5, <2>3 DEF Calm
    <3> QED BY <3>3, <3>4
  <2>4. n >= ExitStreak => Recovered(T, b + 1)
    BY <2>3 DEF Recovered
  <2>5. ~s.safe_mode => Recovered(T, b + 1)
    <3> SUFFICES ASSUME Recovered(S, b), NEW p \in T, p[2] = "CRITICAL"
                 PROVE  \E first \in (p[1] + 1)..(b + 1 + 1 - ExitStreak) :
                            Calm(T, first, first + ExitStreak - 1)
      BY DEF Recovered, Hysteretic
    <3>1. p \in S
      BY <1>5
    <3>2. Recovered(T, b)
      BY LaterReading, <1>0
    <3>3. PICK first \in (p[1] + 1)..(b + 1 - ExitStreak) :
              Calm(T, first, first + ExitStreak - 1)
      BY <1>1, <3>1, <3>2 DEF Recovered
    <3>4. first \in (p[1] + 1)..(b + 1 + 1 - ExitStreak)
      BY <1>1, <3>1, <3>3
    <3> QED BY <3>3, <3>4
  <2> QED BY <2>1, <2>2, <2>4, <2>5 DEF Hysteretic
<1> QED BY <1>3, <1>4, <1>5 DEF Healths
---------------------------------------------------------------------------
(* Where the cycle numbers of the readings stand.                          *)
LEMMA SeenNumbers ==
    ASSUME IInv
    PROVE  /\ durable.cycle_seq \in Nat /\ mem.cycle_seq \in Nat
           /\ durable \in RuntimeStates /\ mem \in RuntimeStates
           /\ \A p \in Seen : p[1] \in Nat
           /\ pc \notin {"persist", "observation"} =>
                 \A p \in Seen : p[1] <= durable.cycle_seq
           /\ \A x \in Row("EXECUTION") :
                 /\ journal[x].cycle.seq \in Nat
                 /\ journal[x].cycle.seq <= durable.cycle_seq
<1>1. /\ durable \in RuntimeStates /\ mem \in RuntimeStates
      /\ durable.cycle_seq \in Nat /\ mem.cycle_seq \in Nat
      /\ call.cycle.seq \in Nat
  BY DEF IInv, TypeOK, RuntimeStates, Calls, CycleIds
<1>2. ASSUME NEW i \in DOMAIN journal
      PROVE  journal[i].cycle.seq \in Nat
  <2>1. journal[i] \in Events
    BY DEF IInv, TypeOK
  <2> QED BY <2>1 DEF Events, CycleIds
<1>3. ASSUME NEW i \in Row("OBSERVATION") \cup Row("EXECUTION")
      PROVE  journal[i].cycle.seq \in Nat
             /\ journal[i].cycle.seq <= durable.cycle_seq
  BY <1>2 DEF Row, IInv, HistoryPersisted
<1> QED BY <1>1, <1>3 DEF Seen

(* Statements that observe nothing, persist nothing and execute nothing.   *)
LEMMA NothingSeen ==
    ASSUME IInv, Hysteresis, durable' = durable, Seen' \subseteq Seen,
           \A x \in Row("EXECUTION")' :
               x \in Row("EXECUTION") /\ journal'[x] = journal[x],
           \/ pc' \in {"down", "sealing"}
           \/ /\ pc \notin {"down", "sealing"}
              /\ mem'.normal_streak = mem.normal_streak
              /\ mem'.safe_mode = mem.safe_mode
              /\ CountedTo' = CountedTo,
           pc' = "execution" => ~mem'.safe_mode
    PROVE  Hysteresis'
<1>1. Hysteretic(Seen, durable, durable.cycle_seq)'
  BY FewerReadings DEF Hysteresis
<1>2. ASSUME pc' \notin {"down", "sealing"}
      PROVE  Hysteretic(Seen, mem, CountedTo)'
  <2>1. Hysteretic(Seen', mem, CountedTo)
    BY <1>2, FewerReadings DEF Hysteresis
  <2> QED BY <1>2, <2>1 DEF Hysteretic, Streak
<1>3. ASSUME NEW x \in Row("EXECUTION")'
      PROVE  Recovered(Seen', journal'[x].cycle.seq)
  <2>1. x \in Row("EXECUTION") /\ journal'[x] = journal[x]
    BY <1>3
  <2>2. Recovered(Seen, journal'[x].cycle.seq)
    BY <2>1 DEF Hysteresis
  <2> QED BY <2>2, FewerReadings
<1> QED BY <1>1, <1>2, <1>3 DEF Hysteresis

LEMMA SeenUnchanged ==
    ASSUME journal' = journal,
           \/ pc' \notin {"persist", "observation"}
           \/ /\ pc \in {"persist", "observation"} /\ call'.cycle = call.cycle
              /\ call'.health = call.health
    PROVE  /\ Seen' \subseteq Seen
           /\ \A x \in Row("EXECUTION")' :
                 x \in Row("EXECUTION") /\ journal'[x] = journal[x]
  BY DEF Seen, Row

(* Statements of tick, boot and the operator that leave the journal alone. *)
LEMMA QuietHysteresis ==
    ASSUME IInv, Hysteresis,
           \/ Boot \/ NoExecutor \/ ExportOrganism \/ Crash
           \/ HoldInSafeMode \/ Evaluate \/ Execute \/ ExecuteBadResult
           \/ (TickRaises /\ pc \notin {"tick", "sense"}) \/ UNCHANGED vars
           \/ \E p \in Proposals \cup {"none"} : TickStart(p)
    PROVE  Hysteresis'
<1>1. CASE Boot \/ Crash
  <2>1. /\ journal' = journal /\ durable' = durable
        /\ pc' \in {"down", "sealing"}
    BY <1>1 DEF Boot, Crash, durables
  <2> QED BY <2>1, SeenUnchanged, NothingSeen
<1>2. CASE \/ NoExecutor \/ ExportOrganism \/ HoldInSafeMode \/ Evaluate
           \/ Execute \/ ExecuteBadResult
           \/ (TickRaises /\ pc \notin {"tick", "sense"})
  <2>1. /\ journal' = journal /\ durable' = durable /\ mem' = mem
        /\ pc' \in {"idle", "decision", "execution"}
        /\ pc \notin {"down", "sealing", "tick", "sense"}
        /\ pc' = "execution" => pc = "execute"
    BY <1>2 DEF NoExecutor, ExportOrganism, HoldInSafeMode, Evaluate, Execute,
                ExecuteBadResult, TickRaises, Ticking, durables
  <2>2. pc' = "execution" => ~mem.safe_mode
    BY <2>1 DEF IInv, Authorized
  <2>3. CountedTo' = CountedTo
    BY <2>1 DEF CountedTo
  <2> QED BY <2>1, <2>2, <2>3, SeenUnchanged, NothingSeen
<1>3. CASE UNCHANGED vars
  BY <1>3 DEF vars, Hysteresis, Seen, Row, CountedTo
<1>4. ASSUME NEW p \in Proposals \cup {"none"}, TickStart(p)
      PROVE  Hysteresis'
  <2>1. /\ journal' = journal /\ durable' = durable
        /\ pc = "idle" /\ pc' = "tick"
        /\ mem' = [mem EXCEPT !.cycle_seq = @ + 1]
    BY <1>4 DEF TickStart, durables
  <2>2. /\ mem'.normal_streak = mem.normal_streak
        /\ mem'.safe_mode = mem.safe_mode
        /\ mem'.cycle_seq = mem.cycle_seq + 1
    BY <2>1, SeenNumbers DEF RuntimeStates
  <2>3. CountedTo' = CountedTo
    BY <2>1, <2>2, SeenNumbers DEF CountedTo
  <2> QED BY <2>1, <2>2, <2>3, SeenUnchanged, NothingSeen
<1> QED BY <1>1, <1>2, <1>3, <1>4

(* Appends of events other than EXECUTION.                                 *)
LEMMA AppendHysteresis ==
    ASSUME IInv, IInv', Hysteresis,
           \/ AppendTick \/ AppendObservation \/ AppendPlan \/ AppendDecision
           \/ AppendEffect \/ AppendMemory
    PROVE  Hysteresis'
<1>1. PICK t \in EventTypes \ {"EXECUTION"} :
        \E cause, body, next :
           /\ Record(Event(t, cause, body), next)
           /\ \/ t = "OBSERVATION" /\ pc = "observation" /\ next = "plan"
                 /\ body = [health |-> call.health]
              \/ t = "TICK" /\ pc = "tick" /\ next = "sense"
              \/ /\ t \notin {"OBSERVATION", "TICK"}
                 /\ pc \in {"plan", "decision", "effect", "memory"}
                 /\ next \in {"authorize", "execute", "memory", "final"}
  BY DEF AppendTick, AppendObservation, AppendPlan, AppendDecision,
         AppendEffect, AppendMemory, EventTypes
<1>2. PICK cause, body, next :
           /\ Record(Event(t, cause, body), next)
           /\ \/ t = "OBSERVATION" /\ pc = "observation" /\ next = "plan"
                 /\ body = [health |-> call.health]
              \/ t = "TICK" /\ pc = "tick" /\ next = "sense"
              \/ /\ t \notin {"OBSERVATION", "TICK"}
                 /\ pc \in {"plan", "decision", "effect", "memory"}
                 /\ next \in {"authorize", "execute", "memory", "final"}
  BY <1>1
<1> DEFINE e == Event(t, cause, body)
<1>3. e.type = t /\ e.cycle = call.cycle /\ e.body = body
  BY DEF Event
<1>4. /\ Extended(journal, journal', e) /\ pc' = next
      /\ UNCHANGED <<durable, mem, call>>
  BY <1>2, Accepted
<1> HIDE DEF e
<1>5. ASSUME NEW x \in Row("EXECUTION")'
      PROVE  x \in Row("EXECUTION") /\ journal'[x] = journal[x]
  BY <1>3, <1>4, <1>5 DEF Extended, Row
<1>6. Seen' \subseteq Seen
  <2>1. ASSUME NEW i \in Row("OBSERVATION")'
        PROVE  <<journal'[i].cycle.seq, journal'[i].body.health>> \in Seen
    <3>1. CASE i \in DOMAIN journal
      BY <1>4, <2>1, <3>1 DEF Extended, Row, Seen
    <3>2. CASE i \notin DOMAIN journal
      <4>1. journal'[i] = e
        BY <1>4, <2>1, <3>2 DEF Extended, Row
      <4>2. t = "OBSERVATION" /\ body.health = call.health
            /\ pc = "observation"
        BY <1>2, <1>3, <2>1, <4>1 DEF Row
      <4> QED BY <1>3, <4>1, <4>2 DEF Seen
    <3> QED BY <3>1, <3>2
  <2>2. pc' \notin {"persist", "observation"}
    BY <1>2, <1>4
  <2> QED BY <2>1, <2>2 DEF Seen
<1>7. CountedTo' = CountedTo
  BY <1>2, <1>4 DEF CountedTo
<1>8. pc \notin {"down", "sealing"} /\ pc' # "execution"
  BY <1>2, <1>4
<1> QED BY <1>4, <1>5, <1>6, <1>7, <1>8, NothingSeen

LEMMA SealHysteresis == ASSUME IInv, Hysteresis, Seal PROVE Hysteresis'
<1>1. PICK c, first, last :
          journal' = AppendEvent(journal,
              [cycle |-> c, type |-> "CYCLE_ABORTED", suffix |-> << >>,
               cause |-> journal[last].type,
               body |-> [first_seq |-> first, last_seq |-> last]])
  BY DEF Seal
<1> DEFINE e == [cycle |-> c, type |-> "CYCLE_ABORTED", suffix |-> << >>,
                 cause |-> journal[last].type,
                 body |-> [first_seq |-> first, last_seq |-> last]]
<1>2. e.type = "CYCLE_ABORTED" /\ journal' = AppendEvent(journal, e)
  BY <1>1
<1> HIDE DEF e
<1>3. Extended(journal, journal', e)
  <2>1. journal \in Seq(Events \cup {e})
    BY DEF IInv, TypeOK
  <2> QED BY <1>2, <2>1, AppendEventRows
<1>4. pc = "sealing" /\ pc' = "sealing" /\ durable' = durable
  BY DEF Seal
<1>5. \A t \in {"EXECUTION", "OBSERVATION"} : \A x \in Row(t)' :
          x \in Row(t) /\ journal'[x] = journal[x]
  BY <1>2, <1>3 DEF Extended, Row
<1>6. Seen' \subseteq Seen
  BY <1>4, <1>5 DEF Seen
<1> QED BY <1>4, <1>5, <1>6, NothingSeen

(* A new process goes on from the durable state; the two persists make it  *)
(* what the memory is.                                                     *)
LEMMA PersistHysteresis ==
    ASSUME IInv, Hysteresis, LoadState \/ Persist \/ FinalPersist
    PROVE  Hysteresis'
<1>1. journal' = journal
  BY DEF LoadState, Persist, FinalPersist, durables
<1>2. /\ Seen' \subseteq Seen
      /\ \A x \in Row("EXECUTION")' :
            x \in Row("EXECUTION") /\ journal'[x] = journal[x]
  BY <1>1, SeenUnchanged DEF LoadState, Persist, FinalPersist
<1>3. /\ durable' = mem' /\ pc' \in {"idle", "observation"}
      /\ Hysteretic(Seen, mem', mem'.cycle_seq)
  BY DEF LoadState, Persist, FinalPersist, durables, Hysteresis, CountedTo
<1>4. Hysteretic(Seen', mem', mem'.cycle_seq)
  BY <1>2, <1>3, FewerReadings
<1>5. \A x \in Row("EXECUTION")' : Recovered(Seen', journal'[x].cycle.seq)
  BY <1>1, <1>2, FewerReadings DEF Hysteresis, Row
<1> QED BY <1>3, <1>4, <1>5 DEF Hysteresis, CountedTo

(* A tick that raises before it was sensed has used up a number no reading *)
(* will have.                                                              *)
LEMMA RaiseHysteresis ==
    ASSUME IInv, Hysteresis, TickRaises, pc \in {"tick", "sense"}
    PROVE  Hysteresis'
<1>1. /\ journal' = journal /\ durable' = durable /\ mem' = mem
      /\ pc' = "idle"
  BY DEF TickRaises, durables
<1>2. Seen' = Seen /\ Row("EXECUTION")' = Row("EXECUTION")
  BY <1>1 DEF Seen, Row
<1>3. /\ mem.cycle_seq - 1 \in Nat /\ mem.cycle_seq - 1 + 1 = mem.cycle_seq
      /\ \A p \in Seen : p[1] \in Nat /\ p[1] <= mem.cycle_seq - 1
      /\ mem \in RuntimeStates
  BY SeenNumbers DEF IInv, Numbers, Ticking
<1>4. Hysteretic(Seen, mem, mem.cycle_seq)
  <2>1. Hysteretic(Seen, mem, mem.cycle_seq - 1)
    BY DEF Hysteresis, CountedTo
  <2> HIDE DEF Seen
  <2> QED BY <1>3, <2>1, SilentCycle
<1> QED BY <1>1, <1>2, <1>4 DEF Hysteresis, CountedTo

LEMMA SenseHysteresis == ASSUME IInv, Hysteresis, Sense PROVE Hysteresis'
<1>1. PICK s \in Samples :
        LET health == Assess(s.disk, rss \/ s.rss_high, s.journal_ok)
        IN /\ mem' = Planned(mem, health)
           /\ call' = [call EXCEPT !.health = health,
                                   !.action = PlanAction(mem, health)]
  BY DEF Sense
<1> DEFINE h == Assess(s.disk, rss \/ s.rss_high, s.journal_ok)
           b == mem.cycle_seq - 1
<1>2. h \in Healths
  BY DEF Assess, Healths
<1>3. /\ mem' = Planned(mem, h)
      /\ call' = [call EXCEPT !.health = h, !.action = PlanAction(mem, h)]
  BY <1>1
<1> HIDE DEF h
<1>4. /\ journal' = journal /\ durable' = durable
      /\ pc = "sense" /\ pc' = "persist"
  BY DEF Sense, durables
<1>5. /\ durable \in RuntimeStates /\ mem \in RuntimeStates
      /\ durable.cycle_seq \in Nat /\ mem.cycle_seq \in Nat
      /\ durable.cycle_seq < mem.cycle_seq
      /\ call.cycle.seq = mem.cycle_seq
      /\ b \in Nat /\ b + 1 = mem.cycle_seq
      /\ \A p \in Seen : p[1] \in Nat /\ p[1] <= b
  BY <1>4, SeenNumbers DEF IInv, Numbers, Ticking
<1>6. call'.cycle = call.cycle /\ call'.health = h
  <2>1. call \in Calls
    BY DEF IInv, TypeOK
  <2> QED BY <1>3, <2>1 DEF Calls
<1>7. mem'.cycle_seq = mem.cycle_seq
  BY <1>2, <1>3, <1>5, PlannedTyped
<1>8. Seen' = Seen \cup {<<mem.cycle_seq, h>>}
  BY <1>4, <1>5, <1>6 DEF Seen, Row
<1>9. /\ Hysteretic(Seen, durable, durable.cycle_seq)
      /\ Hysteretic(Seen, mem, b)
      /\ \A x \in Row("EXECUTION") : Recovered(Seen, journal[x].cycle.seq)
  BY <1>4 DEF Hysteresis, CountedTo
<1>10. Row("EXECUTION")' = Row("EXECUTION")
  BY <1>4 DEF Row
<1> DEFINE S == Seen
           T == S \cup {<<mem.cycle_seq, h>>}
<1> HIDE DEF b, S
<1>11. Hysteretic(T, Planned(mem, h), mem.cycle_seq)
  BY <1>2, <1>5, <1>9, PlannedReading DEF S
<1>12. Hysteretic(T, durable, durable.cycle_seq)
  BY <1>5, <1>9, LaterReading DEF S
<1>13. ASSUME NEW x \in Row("EXECUTION")
       PROVE  Recovered(T, journal[x].cycle.seq)
  <2>1. /\ journal[x].cycle.seq \in Nat
        /\ journal[x].cycle.seq < mem.cycle_seq
    BY <1>5, SeenNumbers
  <2> QED BY <1>5, <1>9, <2>1, LaterReading DEF S
<1> HIDE DEF T
<1>14. Seen' = T
  BY <1>8 DEF S, T
<1> QED BY <1>3, <1>4, <1>7, <1>10, <1>11, <1>12, <1>13, <1>14
        DEF Hysteresis, CountedTo

(* An execution is recorded outside safe mode only.                        *)
LEMMA ExecutionHysteresis ==
    ASSUME IInv, IInv', Hysteresis, AppendExecution
    PROVE  Hysteresis'
<1> DEFINE e == Event("EXECUTION", "DECISION", [executed |-> call.executed])
<1>1. pc = "execution" /\ Record(e, "effect")
  BY DEF AppendExecution
<1>2. e.cycle = call.cycle /\ e.type = "EXECUTION"
  BY DEF Event
<1> HIDE DEF e
<1>3. /\ Extended(journal, journal', e) /\ pc' = "effect"
      /\ UNCHANGED <<durable, mem, call>>
  BY <1>1, Accepted
<1>4. Seen' \subseteq Seen
  BY <1>2, <1>3 DEF Extended, Row, Seen
<1>5. /\ Hysteretic(Seen, mem, mem.cycle_seq) /\ ~mem.safe_mode
      /\ call.cycle.seq = mem.cycle_seq
  BY <1>1 DEF Hysteresis, CountedTo, IInv, Numbers, Ticking
<1>6. Recovered(Seen, call.cycle.seq)
  BY <1>5 DEF Hysteretic
<1>7. ASSUME NEW x \in Row("EXECUTION")'
      PROVE  Recovered(Seen', journal'[x].cycle.seq)
  <2>1. \/ x \in Row("EXECUTION") /\ journal'[x] = journal[x]
        \/ journal'[x] = e
    BY <1>3 DEF Extended, Row
  <2>2. Recovered(Seen, journal'[x].cycle.seq)
    BY <1>2, <1>6, <2>1 DEF Hysteresis
  <2> QED BY <1>4, <2>2, FewerReadings
<1>8. Hysteretic(Seen', mem, mem.cycle_seq)
      /\ Hysteretic(Seen', durable, durable.cycle_seq)
  BY <1>4, <1>5, FewerReadings DEF Hysteresis
<1> QED BY <1>3, <1>7, <1>8 DEF Hysteresis, CountedTo

LEMMA InitHysteresis == Init => Hysteresis
  BY DEF Init, Hysteresis, Hysteretic, Streak, Recovered, Calm, Seen, Row,
         DefaultState

(* Between a CRITICAL observation and a later execution there are          *)
(* ExitStreak consecutive cycles none of which was observed other than     *)
(* NORMAL: no crash, no raised error and no number used twice lets safe    *)
(* mode be left earlier (_plan_recovery and the two persists).             *)
THEOREM SafeModeHysteresis == Spec => []ExitNeedsNormalStreak
<1>1. IInv /\ IInv' /\ Hysteresis /\ [Next]_vars => Hysteresis'
  BY QuietHysteresis, AppendHysteresis, SealHysteresis, PersistHysteresis,
     RaiseHysteresis, SenseHysteresis, ExecutionHysteresis
     DEF Next, BootStep, TickStep
<1>2. IInv /\ Hysteresis => ExitNeedsNormalStreak
  <2> SUFFICES ASSUME IInv, Hysteresis,
                      NEW x \in Row("EXECUTION"), NEW o \in Row("OBSERVATION"),
                      journal[o].cycle.seq <= journal[x].cycle.seq,
                      journal[o].body.health = "CRITICAL"
               PROVE  \E first \in (journal[o].cycle.seq + 1)
                                   ..(journal[x].cycle.seq + 1 - ExitStreak) :
                         \A b \in Row("OBSERVATION") :
                            journal[b].cycle.seq
                                \in first..(first + ExitStreak - 1)
                            => journal[b].body.health = "NORMAL"
    BY DEF ExitNeedsNormalStreak
  <2>1. \A b \in Row("OBSERVATION") :
            <<journal[b].cycle.seq, journal[b].body.health>> \in Seen
    BY DEF Seen
  <2>2. Recovered(Seen, journal[x].cycle.seq)
    BY DEF Hysteresis
  <2> HIDE DEF Seen
  <2>3. PICK first \in (journal[o].cycle.seq + 1)
                       ..(journal[x].cycle.seq + 1 - ExitStreak) :
            Calm(Seen, first, first + ExitStreak - 1)
    BY <2>1, <2>2 DEF Recovered
  <2> QED BY <2>1, <2>3 DEF Calm
<1> QED BY <1>1, <1>2, InitHysteresis, Invariance, PTL DEF Spec

-----------------------------------------------------------------------------
(***************************************************************************)
(* The supervised closed loop, for every policy, every set of proposals,   *)
(* readings and statuses, every GateAfter and ReadLimit, and every number  *)
(* of cycles, attempts and faults.                                         *)
(*                                                                         *)
(* The argument: an effect is appended once, before its commit and under   *)
(* a cycle number no earlier effect has, so that the feedback state, which *)
(* is persisted before its event, always names a cycle both of whose rows  *)
(* are on record; and a number is persisted before it is used.             *)
(***************************************************************************)
IsTable(j) == \E S : j \in Seq(S)

(* A row of the journal is a record with the fields of an event.           *)
IsEvent(e) ==
    e \in [cycle : {e.cycle}, type : {e.type}, suffix : {e.suffix},
           cause : {e.cause}, body : {e.body}]

Table == IsTable(journal) /\ \A i \in DOMAIN journal : IsEvent(journal[i])

(* What a step leaves of the journal: all rows, and of the rows that the   *)
(* invariants speak of only those of the types T are new.                  *)
Watched == {"EFFECT", "MEMORY_COMMIT", "EFFECT_FEEDBACK", "RECOVERY_PROPOSED"}

Adds(T) ==
    /\ Table' /\ Len(journal) <= Len(journal')
    /\ \A i \in DOMAIN journal : i \in DOMAIN journal' /\ journal'[i] = journal[i]
    /\ \A t \in Watched \ T : Row(t)' = Row(t)

LEMMA TableFacts ==
    ASSUME Table
    PROVE  /\ Len(journal) \in Nat /\ DOMAIN journal = 1..Len(journal)
           /\ \A t : Row(t) \subseteq 1..Len(journal)
<1>1. PICK S : journal \in Seq(S)
  BY DEF Table, IsTable
<1> QED BY <1>1 DEF Row

(* journal.append: a new event id gets the next row, any other none.       *)
LEMMA Appended ==
    ASSUME Table, NEW e, IsEvent(e), journal' = AppendEvent(journal, e)
    PROVE  /\ Adds({e.type})
           /\ \A i \in Row(e.type)' :
                 \/ i \in Row(e.type)
                 \/ i = Len(journal) + 1 /\ journal'[i] = e
           /\ Row(e.type) \subseteq Row(e.type)'
           /\ SameId(journal, e) = {} =>
                 /\ Len(journal) + 1 \in Row(e.type)'
                 /\ journal'[Len(journal) + 1] = e
<1>1. PICK S : journal \in Seq(S)
  BY DEF Table, IsTable
<1>2. CASE SameId(journal, e) # {}
  BY <1>2, TableFacts DEF AppendEvent, Adds, Row, Table
<1>3. CASE SameId(journal, e) = {}
  <2>1. journal' = Append(journal, e)
    BY <1>3 DEF AppendEvent
  <2>2. journal \in Seq(S \cup {e})
    BY <1>1
  <2>3. /\ Append(journal, e) \in Seq(S \cup {e})
        /\ DOMAIN journal = 1..Len(journal) /\ Len(journal) \in Nat
        /\ Len(Append(journal, e)) = Len(journal) + 1
        /\ DOMAIN Append(journal, e) = 1..(Len(journal) + 1)
        /\ Append(journal, e)[Len(journal) + 1] = e
        /\ \A i \in 1..Len(journal) : Append(journal, e)[i] = journal[i]
    BY <2>2
  <2>4. Table' /\ Len(journal) <= Len(journal')
    BY <2>1, <2>3 DEF Table, IsTable
  <2>5. \A t : t # e.type => Row(t)' = Row(t)
    BY <2>1, <2>3 DEF Row
  <2>6. Row(e.type)' = Row(e.type) \cup {Len(journal) + 1}
    BY <2>1, <2>3 DEF Row
  <2> QED BY <2>1, <2>3, <2>4, <2>5, <2>6 DEF Adds
<1> QED BY <1>2, <1>3

LEMMA NothingAppended ==
    ASSUME Table, journal' = journal
    PROVE  Adds({})
  BY TableFacts DEF Adds, Table, Row

LEMMA EventIsEvent ==
    ASSUME NEW t, NEW cause, NEW body
    PROVE  /\ IsEvent(Event(t, cause, body))
           /\ Event(t, cause, body).type = t
           /\ Event(t, cause, body).cycle = call.cycle
           /\ Event(t, cause, body).suffix = << >>
           /\ Event(t, cause, body).body = body
  BY DEF IsEvent, Event
---------------------------------------------------------------------------
(* Types of what the invariants read.                                      *)
Types ==
    /\ Table
    /\ durable \in RuntimeStates /\ mem \in RuntimeStates
    /\ exported \in SUBSET Nat /\ lineage \in SUBSET Nat
    /\ call \in Calls /\ faults \in Nat
    /\ \A s \in {fb, fbmem} : s.receipt.seq \in Nat /\ s.failure_streak \in Nat
    /\ boundAt \in Nat /\ boundAt <= Len(journal)
    /\ \A c : Attempts(c) \in Nat

(* The statement each layer is at: the wrapper's engine ticks only while   *)
(* the wrapper waits for it, and the supervisor begins an attempt only     *)
(* while both are idle.                                                    *)
Phases ==
    /\ pc \in Ticking \cup {"down", "idle"}
    /\ lpc \in {"idle", "engine", "gate", "measure", "persist", "append"}
    /\ spc \in {"idle", "source", "propose", "tick", "plain", "recovery"}
    /\ pc \in Ticking => lpc = "engine" /\ error = "none"
    /\ pc = "down" => lpc = "idle" /\ spc = "idle" /\ policy = NoPolicy
    /\ spc \in {"source", "propose", "tick"} => lpc = "idle"
    /\ policy # NoPolicy => policy = bound
    /\ spc # "idle" => policy # NoPolicy

(* The copies of the cycle number.                                         *)
Counting ==
    /\ pc # "down" => durable.cycle_seq <= mem.cycle_seq
    /\ lpc # "idle" => call.cycle.seq = mem.cycle_seq /\ call.cycle.seq > 0
    /\ pc \in {"tick", "sense", "persist"} =>
          durable.cycle_seq < mem.cycle_seq
    /\ pc \in AfterPersist => durable.cycle_seq = mem.cycle_seq

Passed == call.decision = "PASS"
Has(t) == Recorded(journal, call.cycle, t)

(* The wrapped tick returned and did not raise.                            *)
Returned == lpc = "engine" /\ pc = "idle" /\ error = "none"

(* The effect of a cycle and its commit are appended once, in this order,  *)
(* and a tick that returns with a PASS has appended both.                  *)
BeforeEffect == {"observation", "plan", "authorize", "decision", "execute",
                 "execution", "effect"}

Committed ==
    /\ \A i \in Row("EFFECT") \cup Row("MEMORY_COMMIT") :
          journal[i].cycle.seq \in 1..durable.cycle_seq
    /\ pc \in BeforeEffect =>
          \A i \in Row("EFFECT") : journal[i].cycle.seq # call.cycle.seq
    /\ pc \in BeforeEffect \cup {"memory"} =>
          \A i \in Row("MEMORY_COMMIT") : journal[i].cycle.seq # call.cycle.seq
    /\ pc \in {"tick", "sense", "persist", "observation", "plan"} => ~Passed
    /\ pc \in {"execute", "execution", "effect"} => Passed
    /\ pc \in {"memory", "final"} /\ Passed => Has("EFFECT")
    /\ pc = "final" => Has("MEMORY_COMMIT")
    /\ Returned /\ Passed => Has("EFFECT") /\ Has("MEMORY_COMMIT")
    /\ lpc = "measure" => Has("EFFECT") /\ Has("MEMORY_COMMIT")
    /\ Passed \/ pc \in {"authorize", "decision", "execute"} =>
          call.proposal # "none"

(* What a feedback state, persisted or in memory, says.                    *)
Feedback(s) ==
    /\ s.recovery_required <=> s.recovery_for # NoCycle
    /\ s.recovery_required =>
          /\ Recorded(journal, s.recovery_for, "EFFECT")
          /\ Recorded(journal, s.recovery_for, "MEMORY_COMMIT")
    /\ s.receipt.seq <= durable.cycle_seq
    /\ \A k \in Rows(journal, s.recovery_for, "EFFECT") : k > boundAt

Gated ==
    /\ Feedback(fb) /\ Feedback(fbmem)
    /\ lpc \in {"persist", "append"} => fbmem.receipt = call.cycle
    /\ lpc = "append" => fb = fbmem
    /\ \A i \in Row("EFFECT_FEEDBACK") :
          journal[i].cycle.seq \in 0..fb.receipt.seq
    /\ lpc # "idle" =>
          \A k \in Rows(journal, call.cycle, "EFFECT") : k > boundAt
    /\ lpc = "engine" /\ held => call.proposal = "none"
    /\ lpc = "engine" /\ ~held =>
          fbmem.recovery_for = NoCycle \/ call.proposal \in {"none", "recovery"}

(* Every attempt on record was made under the policy bound today, and its  *)
(* number is not above the persisted one, nor at it while the next attempt *)
(* is prepared.                                                            *)
Attempt(i) ==
    /\ Policy(journal[i]) = bound /\ bound # NoPolicy
    /\ \A k \in Rows(journal, journal[i].cycle, "EFFECT") : k > boundAt
    /\ Number(journal[i]) \in Nat
    /\ Number(journal[i]) <= Attempts(journal[i].cycle)
    /\ spc \in {"source", "propose"} /\ journal[i].cycle = fbmem.recovery_for
          => Number(journal[i]) < Attempts(journal[i].cycle)

Attempted ==
    /\ \A i \in Row("RECOVERY_PROPOSED") : Attempt(i)
    /\ AttemptNumbersGrow
    /\ spc \in {"tick", "recovery"} =>
          \E i \in Row("RECOVERY_PROPOSED") :
              \A k \in Row("RECOVERY_PROPOSED") : k <= i

(* The inductive invariant.                                                *)
SInv == Types /\ Phases /\ Counting /\ Committed /\ Gated /\ Attempted
---------------------------------------------------------------------------
(* What the statements of engine.tick have in common.                      *)
NextStatement ==
    {<<"tick", "sense">>, <<"sense", "persist">>, <<"persist", "observation">>,
     <<"observation", "plan">>, <<"plan", "memory">>, <<"plan", "authorize">>,
     <<"authorize", "decision">>, <<"decision", "execute">>,
     <<"decision", "memory">>, <<"execute", "execution">>,
     <<"execution", "effect">>, <<"effect", "memory">>, <<"memory", "final">>}

EngineMove ==
    /\ pc \in Ticking
    /\ \/ pc' = "idle" /\ (error' # "none" \/ pc = "final")
       \/ <<pc, pc'>> \in NextStatement /\ error' = error
    /\ pc = "plan" /\ pc' = "authorize" => call.proposal # "none"
    /\ pc = "decision" => (pc' = "execute" => Passed)
                          /\ (pc' = "memory" => ~Passed)
    /\ call' \in Calls /\ call'.cycle = call.cycle
    /\ call'.proposal = call.proposal
    /\ pc # "authorize" => call'.decision = call.decision
    /\ pc # "execute" => call'.status = call.status
    /\ mem' \in RuntimeStates /\ mem'.cycle_seq = mem.cycle_seq
    /\ \/ durable' = durable /\ (pc = "persist" => pc' = "idle")
       \/ durable' = mem /\ pc \in {"persist", "final"}
    /\ lineage' \in SUBSET Nat /\ exported' = exported
    /\ faults' \in {faults, faults + 1}

(* The events of the engine other than EFFECT and MEMORY_COMMIT.           *)
LEMMA EngineAppends ==
    ASSUME Table, Phases, NEW t, NEW cause, NEW body, NEW next,
           Record(Event(t, cause, body), next)
    PROVE  /\ t \notin Watched => Adds({})
           /\ \/ pc' = "idle" /\ error' # "none"
              \/ pc' = next /\ error' = error
           /\ UNCHANGED <<durable, exported, effects, mem, lineage, call,
                          faults>>
<1> DEFINE e == Event(t, cause, body)
<1>1. IsEvent(e) /\ e.type = t
  BY EventIsEvent
<1>2. journal' = AppendEvent(journal, e)
  BY DEF Record
<1> HIDE DEF e
<1>3. Adds({t})
  BY <1>1, <1>2, Appended
<1>4. t \notin Watched => Adds({})
  BY <1>3 DEF Adds
<1>5. \/ pc' = "idle" /\ error' # "none"
      \/ pc' = next /\ error' = error
  BY DEF Record
<1> QED BY <1>4, <1>5 DEF Record

LEMMA EngineMoves ==
    ASSUME Types, Phases, TickStep \/ TickRaises
    PROVE  EngineMove /\ (~AppendEffect /\ ~AppendMemory => Adds({}))
<1> USE DEF EngineMove, NextStatement, Passed
<1>0. Table /\ call \in Calls /\ mem \in RuntimeStates /\ lineage \in SUBSET Nat
      /\ (pc \in Ticking => error = "none")
  BY DEF Types, Phases
<1>1. ASSUME NEW t, NEW cause, NEW body, NEW next,
             Record(Event(t, cause, body), next),
             <<pc, next>> \in NextStatement,
             pc \notin {"persist", "authorize"},
             pc = "plan" /\ next = "authorize" => call.proposal # "none",
             pc = "decision" => (next = "execute" => Passed)
                                /\ (next = "memory" => ~Passed)
      PROVE  EngineMove /\ (t \notin Watched => Adds({}))
  <2>1. pc \in Ticking
    BY <1>1 DEF Ticking
  <2>2. /\ t \notin Watched => Adds({})
        /\ \/ pc' = "idle" /\ error' # "none"
           \/ pc' = next /\ error' = error
        /\ UNCHANGED <<durable, exported, effects, mem, lineage, call, faults>>
    BY <1>0, <1>1, EngineAppends
  <2> QED BY <1>0, <1>1, <2>1, <2>2
<1>2. CASE AppendTick
  BY <1>1, <1>2 DEF AppendTick, Watched
<1>3. CASE AppendObservation
  BY <1>1, <1>3 DEF AppendObservation, Watched
<1>4. CASE AppendPlan
  <2> DEFINE next == IF call.proposal = "none" THEN "memory" ELSE "authorize"
  <2>1. /\ <<pc, next>> \in NextStatement /\ pc = "plan"
        /\ next = "authorize" => call.proposal # "none"
    BY <1>4 DEF AppendPlan
  <2>2. \E cause, body : Record(Event("RECOVERY_PLAN", cause, body), next)
    BY <1>4 DEF AppendPlan
  <2> HIDE DEF next
  <2> QED BY <1>1, <2>1, <2>2 DEF Watched
<1>5. CASE AppendDecision
  <2> DEFINE next == IF call.decision = "PASS" THEN "execute" ELSE "memory"
  <2>1. /\ <<pc, next>> \in NextStatement /\ pc = "decision"
        /\ next = "execute" => Passed
        /\ next = "memory" => ~Passed
    BY <1>5 DEF AppendDecision
  <2>2. \E cause, body : Record(Event("DECISION", cause, body), next)
    BY <1>5 DEF AppendDecision
  <2> HIDE DEF next
  <2> QED BY <1>1, <2>1, <2>2 DEF Watched
<1>6. CASE AppendExecution
  BY <1>1, <1>6 DEF AppendExecution, Watched
<1>7. CASE AppendEffect \/ AppendMemory
  <2>1. \E t, cause, body, next :
            /\ Record(Event(t, cause, body), next)
            /\ <<pc, next>> \in {<<"effect", "memory">>, <<"memory", "final">>}
    BY <1>7 DEF AppendEffect, AppendMemory
  <2> QED BY <1>1, <1>7, <2>1
<1>8. CASE Sense
  <2>1. PICK h \in Healths :
          /\ mem' = Planned(mem, h)
          /\ call' = [call EXCEPT !.health = h, !.action = PlanAction(mem, h)]
    BY <1>8 DEF Sense, Assess, Healths
  <2>2. /\ mem' \in RuntimeStates /\ mem'.cycle_seq = mem.cycle_seq
        /\ PlanAction(mem, h) \in Actions
    BY <1>0, <2>1, PlannedTyped
  <2>3. /\ call' \in Calls /\ call'.cycle = call.cycle
        /\ call'.proposal = call.proposal /\ call'.decision = call.decision
        /\ call'.status = call.status
    BY <1>0, <2>1, <2>2 DEF Calls
  <2> QED BY <1>0, <1>8, <2>2, <2>3, NothingAppended
          DEF Sense, Ticking, durables
<1>9. CASE Persist
  BY <1>0, <1>9, NothingAppended DEF Persist, Ticking
<1>10. CASE HoldInSafeMode \/ Evaluate
  <2>1. PICK d \in Decisions : call' = [call EXCEPT !.decision = d]
    BY <1>10 DEF HoldInSafeMode, Evaluate, Decisions
  <2>2. /\ call' \in Calls /\ call'.cycle = call.cycle
        /\ call'.proposal = call.proposal /\ call'.status = call.status
    BY <1>0, <2>1 DEF Calls
  <2>3. lineage' \in SUBSET Nat
    BY <1>0, <1>10 DEF HoldInSafeMode, Evaluate, Calls, CycleIds
  <2> QED BY <1>0, <1>10, <2>2, <2>3, NothingAppended
          DEF HoldInSafeMode, Evaluate, Ticking, durables
<1>11. CASE NoExecutor \/ TickRaises
  BY <1>0, <1>11, NothingAppended DEF NoExecutor, TickRaises, Ticking, durables
<1>12. CASE Execute
  <2>1. PICK s \in Statuses \cup {"ERROR"}, b \in BOOLEAN :
          call' = [call EXCEPT !.status = s, !.executed = b]
    BY <1>0, <1>12, ExecutorOutcome DEF Execute, Calls
  <2>2. /\ call' \in Calls /\ call'.cycle = call.cycle
        /\ call'.proposal = call.proposal /\ call'.decision = call.decision
    BY <1>0, <2>1 DEF Calls
  <2> QED BY <1>0, <1>12, <2>2, NothingAppended DEF Execute, Ticking
<1>13. CASE FinalPersist
  BY <1>0, <1>13, NothingAppended DEF FinalPersist, Ticking
<1> QED BY <1>1, <1>2, <1>3, <1>4, <1>5, <1>6, <1>7, <1>8, <1>9, <1>10, <1>11,
           <1>12, <1>13 DEF TickStep
---------------------------------------------------------------------------
(* The appends the invariants watch: each gets a row of its own.           *)
LEMMA WatchedRows ==
    ASSUME Types, NEW T, Adds(T), NEW t \in Watched \ T
    PROVE  /\ Row(t)' = Row(t)
           /\ \A i \in Row(t) : journal'[i] = journal[i]
           /\ \A c : Rows(journal', c, t) = Rows(journal, c, t)
           /\ \A c : Recorded(journal', c, t) <=> Recorded(journal, c, t)
<1>1. Row(t)' = Row(t) /\ \A i \in Row(t) : journal'[i] = journal[i]
  BY DEF Adds, Row
<1>2. ASSUME NEW c
      PROVE  Rows(journal', c, t) = Rows(journal, c, t)
  BY <1>1 DEF Row, Rows
<1> QED BY <1>1, <1>2 DEF Recorded

LEMMA EffectAppended ==
    ASSUME SInv, AppendEffect
    PROVE  /\ Adds({"EFFECT"}) /\ pc = "effect" /\ pc' = "memory"
           /\ error' = error
           /\ Row("EFFECT")' = Row("EFFECT") \cup {Len(journal) + 1}
           /\ journal'[Len(journal) + 1].cycle = call.cycle
           /\ journal'[Len(journal) + 1].body.status = call.status
<1> DEFINE e == Event("EFFECT", "EXECUTION", [status |-> call.status])
<1>1. /\ IsEvent(e) /\ e.type = "EFFECT" /\ e.cycle = call.cycle
      /\ e.body.status = call.status
  BY EventIsEvent DEF Event
<1>2. pc = "effect" /\ Record(e, "memory")
  BY DEF AppendEffect
<1> HIDE DEF e
<1>3. SameId(journal, e) = {}
  BY <1>1, <1>2 DEF SInv, Committed, BeforeEffect, SameId, Rows, Row
<1>4. journal' = AppendEvent(journal, e) /\ pc' = "memory" /\ error' = error
  BY <1>2, <1>3 DEF Record, Collides
<1>5. /\ Adds({"EFFECT"})
      /\ Row("EFFECT")' = Row("EFFECT") \cup {Len(journal) + 1}
      /\ journal'[Len(journal) + 1] = e
  <2>1. Table
    BY DEF SInv, Types
  <2> QED BY <1>1, <1>3, <1>4, <2>1, Appended
<1> QED BY <1>1, <1>2, <1>4, <1>5

LEMMA CommitAppended ==
    ASSUME SInv, AppendMemory
    PROVE  /\ Adds({"MEMORY_COMMIT"}) /\ pc = "memory" /\ pc' = "final"
           /\ error' = error
           /\ Row("MEMORY_COMMIT")' =
                 Row("MEMORY_COMMIT") \cup {Len(journal) + 1}
           /\ journal'[Len(journal) + 1].cycle = call.cycle
<1>1. PICK cause, body :
          pc = "memory" /\ Record(Event("MEMORY_COMMIT", cause, body), "final")
  BY DEF AppendMemory
<1> DEFINE e == Event("MEMORY_COMMIT", cause, body)
<1>2. IsEvent(e) /\ e.type = "MEMORY_COMMIT" /\ e.cycle = call.cycle
  BY EventIsEvent
<1> HIDE DEF e
<1>3. SameId(journal, e) = {}
  BY <1>1, <1>2 DEF SInv, Committed, SameId, Rows, Row
<1>4. journal' = AppendEvent(journal, e) /\ pc' = "final" /\ error' = error
  BY <1>1, <1>3 DEF Record, Collides, e
<1>5. /\ Adds({"MEMORY_COMMIT"})
      /\ Row("MEMORY_COMMIT")' = Row("MEMORY_COMMIT") \cup {Len(journal) + 1}
      /\ journal'[Len(journal) + 1] = e
  <2>1. Table
    BY DEF SInv, Types
  <2> QED BY <1>2, <1>3, <1>4, <2>1, Appended
<1> QED BY <1>1, <1>2, <1>4, <1>5

LEMMA FeedbackAppended ==
    ASSUME SInv, AppendFeedback
    PROVE  /\ Adds({"EFFECT_FEEDBACK"}) /\ lpc = "append" /\ lpc' = "idle"
           /\ Row("EFFECT_FEEDBACK") \subseteq Row("EFFECT_FEEDBACK")'
           /\ \A i \in Row("EFFECT_FEEDBACK")' :
                 \/ i \in Row("EFFECT_FEEDBACK")
                 \/ journal'[i].cycle = call.cycle
           /\ UNCHANGED <<durable, exported, effects, pc, mem, lineage, rss,
                          executor, call, faults, fb, fbmem, held>>
<1> DEFINE e == Event("EFFECT_FEEDBACK", "EFFECT",
                      [success |-> fbmem.failure_streak = 0,
                       recovery_for |-> fbmem.recovery_for])
<1>1. IsEvent(e) /\ e.type = "EFFECT_FEEDBACK" /\ e.cycle = call.cycle
  BY EventIsEvent
<1>2. lpc = "append" /\ LoopRecord(e, "idle")
  BY DEF AppendFeedback
<1> HIDE DEF e
<1>3. journal' = AppendEvent(journal, e) /\ Table
  BY <1>2 DEF LoopRecord, SInv, Types
<1>4. /\ Adds({"EFFECT_FEEDBACK"})
      /\ Row("EFFECT_FEEDBACK") \subseteq Row("EFFECT_FEEDBACK")'
      /\ \A i \in Row("EFFECT_FEEDBACK")' :
            \/ i \in Row("EFFECT_FEEDBACK")
            \/ journal'[i].cycle = call.cycle
  BY <1>1, <1>3, Appended
<1> QED BY <1>2, <1>4 DEF LoopRecord

(* The number of the proposal is above every number on record, so its id   *)
(* is new.                                                                 *)
LEMMA Proposed ==
    ASSUME SInv, Propose
    PROVE  /\ Adds({"RECOVERY_PROPOSED"}) /\ spc = "propose" /\ spc' = "tick"
           /\ error' = error
           /\ Row("RECOVERY_PROPOSED")' =
                 Row("RECOVERY_PROPOSED") \cup {Len(journal) + 1}
           /\ journal'[Len(journal) + 1] = ProposedEvent
           /\ UNCHANGED <<durable, exported, effects, pc, mem, lineage, rss,
                          executor, call, faults, loopVars, bound, attempts,
                          policy, lost, boundAt>>
<1> DEFINE e == ProposedEvent
<1>1. /\ IsEvent(e) /\ e.type = "RECOVERY_PROPOSED"
      /\ e.cycle = fbmem.recovery_for
      /\ Number(e) = Attempts(fbmem.recovery_for)
  BY DEF ProposedEvent, IsEvent, Number
<1>2. spc = "propose" /\ SuperRecord(e, "tick")
  BY DEF Propose
<1> HIDE DEF e
<1>3. SameId(journal, e) = {}
  <2> SUFFICES ASSUME NEW i \in SameId(journal, e)
               PROVE  FALSE
    OBVIOUS
  <2>1. /\ i \in Row("RECOVERY_PROPOSED")
        /\ journal[i].cycle = fbmem.recovery_for
        /\ Number(journal[i]) = Attempts(fbmem.recovery_for)
    BY <1>1 DEF SameId, Rows, Row, Number
  <2>2. Attempts(fbmem.recovery_for) \in Nat
    BY DEF SInv, Types
  <2> QED BY <1>2, <2>1, <2>2 DEF SInv, Attempted, Attempt
<1>4. journal' = AppendEvent(journal, e) /\ spc' = "tick" /\ error' = error
  BY <1>2, <1>3 DEF SuperRecord, Collides
<1>5. /\ Adds({"RECOVERY_PROPOSED"})
      /\ Row("RECOVERY_PROPOSED")' =
            Row("RECOVERY_PROPOSED") \cup {Len(journal) + 1}
      /\ journal'[Len(journal) + 1] = e
  <2>1. Table
    BY DEF SInv, Types
  <2> QED BY <1>1, <1>3, <1>4, <2>1, Appended
<1> QED BY <1>2, <1>4, <1>5 DEF SuperRecord, e

(* The outcome carries the number of the last proposal.                    *)
LEMMA OutcomeAppended ==
    ASSUME SInv, LoopReturned
    PROVE  /\ Adds({}) /\ spc \in {"plain", "recovery"} /\ spc' = "idle"
           /\ UNCHANGED <<durable, exported, effects, pc, mem, lineage, rss,
                          executor, call, faults, loopVars, bound, attempts,
                          policy, lost, boundAt>>
<1>1. Table /\ spc \in {"plain", "recovery"} /\ spc' = "idle"
      /\ lpc = "idle" /\ pc = "idle"
  BY DEF LoopReturned, SInv, Types
<1>2. CASE journal' = journal
  BY <1>1, <1>2, NothingAppended DEF LoopReturned
<1>3. CASE spc = "recovery" /\ journal' # journal
  <2> DEFINE last == CHOOSE i \in Row("RECOVERY_PROPOSED") :
                         \A k \in Row("RECOVERY_PROPOSED") : k <= i
             body == [cycle |-> call.cycle, cleared |-> ~fbmem.recovery_required]
             e == [journal[last] EXCEPT !.type = "RECOVERY_OUTCOME",
                                        !.cause = "RECOVERY_PROPOSED",
                                        !.body = body]
  <2>1. last \in Row("RECOVERY_PROPOSED")
    BY <1>3 DEF SInv, Attempted
  <2>2. IsEvent(journal[last])
    BY <1>1, <2>1 DEF Table, Row
  <2>3. journal' = AppendEvent(journal, e)
    BY <1>3 DEF LoopReturned
  <2> HIDE DEF last, body
  <2>4. IsEvent(e) /\ e.type = "RECOVERY_OUTCOME"
    BY <2>2 DEF IsEvent
  <2> HIDE DEF e
  <2>5. Adds({"RECOVERY_OUTCOME"})
    BY <1>1, <2>3, <2>4, Appended
  <2>6. Adds({})
    BY <2>5 DEF Adds, Watched
  <2> QED BY <1>1, <2>6 DEF LoopReturned
<1> QED BY <1>1, <1>2, <1>3 DEF LoopReturned

LEMMA GateHoldAppended ==
    ASSUME SInv, RecordGateHold
    PROVE  /\ Adds({}) /\ lpc = "gate" /\ lpc' = "idle"
           /\ UNCHANGED <<durable, exported, effects, pc, mem, lineage, rss,
                          executor, call, faults, fb, fbmem, held>>
<1> DEFINE e == Event("EFFECT_RECOVERY_GATE", "MEMORY_COMMIT",
                      [origin |-> fbmem.recovery_for])
<1>1. IsEvent(e) /\ e.type = "EFFECT_RECOVERY_GATE"
  BY EventIsEvent
<1>2. lpc = "gate" /\ LoopRecord(e, "idle")
  BY DEF RecordGateHold
<1> HIDE DEF e
<1>3. journal' = AppendEvent(journal, e) /\ Table
  BY <1>2 DEF LoopRecord, SInv, Types
<1>4. Adds({"EFFECT_RECOVERY_GATE"})
  BY <1>1, <1>3, Appended
<1>5. Adds({})
  BY <1>4 DEF Adds, Watched
<1> QED BY <1>2, <1>5 DEF LoopRecord
---------------------------------------------------------------------------
(* Rows that were there stay, and new ones come after all others.          *)
LEMMA GrownRows ==
    ASSUME Types, NEW T, Adds(T)
    PROVE  /\ \A c, t : Recorded(journal, c, t) => Recorded(journal', c, t)
           /\ \A c, t : \A k \in Rows(journal', c, t) :
                 k \in Rows(journal, c, t) \/ k > boundAt
<1>1. /\ Len(journal) \in Nat /\ DOMAIN journal = 1..Len(journal)
      /\ boundAt \in Nat /\ boundAt <= Len(journal)
  BY TableFacts DEF Types
<1>2. DOMAIN journal' \subseteq Nat \ {0}
  <2>1. PICK S : journal' \in Seq(S)
    BY DEF Adds, Table, IsTable
  <2> QED BY <2>1
<1>3. \A i \in DOMAIN journal : i \in DOMAIN journal' /\ journal'[i] = journal[i]
  BY DEF Adds
<1>4. ASSUME NEW c, NEW t, NEW k \in Rows(journal', c, t)
      PROVE  k \in Rows(journal, c, t) \/ k > boundAt
  <2>1. k \in DOMAIN journal'
    BY DEF Rows
  <2>2. CASE k \in DOMAIN journal
    BY <1>3, <2>2 DEF Rows
  <2>3. CASE k \notin DOMAIN journal
    BY <1>1, <1>2, <2>1, <2>3
  <2> QED BY <2>2, <2>3
<1>5. ASSUME NEW c, NEW t, Recorded(journal, c, t)
      PROVE  Recorded(journal', c, t)
  BY <1>3, <1>5 DEF Recorded, Rows
<1> QED BY <1>4, <1>5

(* A feedback state stays true when the journal grows.                     *)
LEMMA FeedbackStays ==
    ASSUME Types, NEW T, Adds(T), boundAt' = boundAt,
           durable'.cycle_seq \in Nat,
           durable.cycle_seq <= durable'.cycle_seq,
           NEW s, s.receipt.seq \in Nat, Feedback(s)
    PROVE  Feedback(s)'
<1>1. durable.cycle_seq \in Nat
  BY DEF Types, RuntimeStates
<1>2. \A k \in Rows(journal', s.recovery_for, "EFFECT") : k > boundAt
  BY GrownRows DEF Feedback
<1>3. s.recovery_required =>
         /\ Recorded(journal', s.recovery_for, "EFFECT")
         /\ Recorded(journal', s.recovery_for, "MEMORY_COMMIT")
  BY GrownRows DEF Feedback
<1> QED BY <1>1, <1>2, <1>3 DEF Feedback

LEMMA FeedbacksStay ==
    ASSUME SInv, NEW T, Adds(T), boundAt' = boundAt,
           durable'.cycle_seq \in Nat,
           durable.cycle_seq <= durable'.cycle_seq
    PROVE  /\ fb' = fb => Feedback(fb)'
           /\ fbmem' = fbmem => Feedback(fbmem)'
           /\ fbmem' = fb => Feedback(fbmem)'
           /\ fb' = fbmem => Feedback(fb)'
<1>1. PICK s : s = fb
  OBVIOUS
<1>2. PICK m : m = fbmem
  OBVIOUS
<1>3. /\ s.receipt.seq \in Nat /\ m.receipt.seq \in Nat
      /\ Feedback(s) /\ Feedback(m) /\ Types
  BY <1>1, <1>2 DEF SInv, Types, Gated
<1>4. Feedback(s)' /\ Feedback(m)'
  BY <1>3, FeedbackStays
<1> QED BY <1>1, <1>2, <1>4 DEF Feedback

(* The attempts on record stay what they are.                              *)
LEMMA AttemptsStay ==
    ASSUME SInv, NEW T, Adds(T), "RECOVERY_PROPOSED" \notin T,
           UNCHANGED <<bound, attempts, boundAt>>,
           spc' \in {"source", "propose"} =>
               /\ spc \in {"source", "propose"}
               /\ fbmem'.recovery_for = fbmem.recovery_for,
           spc' \in {"tick", "recovery"} => spc \in {"tick", "recovery"}
    PROVE  Attempted'
<1>1. /\ Row("RECOVERY_PROPOSED")' = Row("RECOVERY_PROPOSED")
      /\ \A i \in Row("RECOVERY_PROPOSED") : journal'[i] = journal[i]
  BY WatchedRows DEF SInv, Watched
<1>2. ASSUME NEW i \in Row("RECOVERY_PROPOSED")
      PROVE  Attempt(i)'
  <2>1. \A k \in Rows(journal', journal[i].cycle, "EFFECT") : k > boundAt
    BY GrownRows DEF SInv, Attempted, Attempt
  <2>2. Attempts(journal[i].cycle)' = Attempts(journal[i].cycle)
    BY <1>1 DEF Attempts
  <2>3. journal'[i] = journal[i]
    BY <1>1
  <2>4. Attempt(i)
    BY DEF SInv, Attempted
  <2> HIDE DEF Attempts
  <2> QED BY <2>1, <2>2, <2>3, <2>4 DEF Attempt
<1>3. AttemptNumbersGrow'
  BY <1>1 DEF SInv, Attempted, AttemptNumbersGrow
<1> QED BY <1>1, <1>2, <1>3 DEF SInv, Attempted
---------------------------------------------------------------------------
(* A statement of the wrapped engine.                                      *)
LEMMA EngineAdds ==
    ASSUME SInv, TickStep \/ TickRaises
    PROVE  \E T \in {{}, {"EFFECT"}, {"MEMORY_COMMIT"}} : Adds(T)
BY EngineMoves, EffectAppended, CommitAppended DEF SInv

LEMMA EngineCommitted ==
    ASSUME SInv, EngineStep
    PROVE  Committed'
<1>1. /\ EngineMove /\ (TickStep \/ TickRaises)
      /\ (~AppendEffect /\ ~AppendMemory => Adds({}))
      /\ lpc = "engine" /\ lpc' = lpc
  BY EngineMoves DEF SInv, EngineStep, loopVars
<1>2. /\ durable.cycle_seq \in Nat /\ mem.cycle_seq \in Nat
      /\ call.cycle.seq \in Nat /\ call.cycle.seq = mem.cycle_seq
      /\ call.cycle.seq > 0 /\ durable.cycle_seq <= mem.cycle_seq
      /\ pc \in {"tick", "sense", "persist"} =>
            durable.cycle_seq < mem.cycle_seq
      /\ pc \in AfterPersist => durable.cycle_seq = mem.cycle_seq
      /\ durable'.cycle_seq \in {durable.cycle_seq, mem.cycle_seq}
      /\ pc \in Ticking /\ error = "none"
  BY <1>1 DEF SInv, Types, RuntimeStates, Calls, CycleIds, Phases, Counting,
              EngineMove, Ticking
<1>3. Passed' \/ pc' \in {"authorize", "decision", "execute"} =>
          call'.proposal # "none"
  BY <1>1 DEF SInv, Committed, EngineMove, NextStatement, Passed
<1>4. /\ pc' \in {"tick", "sense", "persist", "observation", "plan"} => ~Passed'
      /\ pc' \in {"execute", "execution", "effect"} => Passed'
  BY <1>1 DEF SInv, Committed, EngineMove, NextStatement, Passed
<1>5. CASE AppendEffect
  <2> DEFINE n == Len(journal) + 1
  <2>1. /\ Adds({"EFFECT"}) /\ pc = "effect" /\ pc' = "memory"
        /\ Row("EFFECT")' = Row("EFFECT") \cup {n}
        /\ journal'[n].cycle = call.cycle
        /\ UNCHANGED <<durable, mem, call, lpc>>
    BY <1>1, <1>5, EffectAppended DEF AppendEffect, Record
  <2>2. /\ Row("MEMORY_COMMIT")' = Row("MEMORY_COMMIT")
        /\ \A i \in Row("MEMORY_COMMIT") : journal'[i] = journal[i]
    BY <2>1, WatchedRows DEF SInv, Watched
  <2>3. \A i \in Row("EFFECT") : journal'[i] = journal[i]
    BY <2>1 DEF Adds, Row
  <2>4. Recorded(journal', call.cycle, "EFFECT")
    <3>1. n \in Row("EFFECT")'
      BY <2>1
    <3> QED BY <2>1, <3>1 DEF Recorded, Rows, Row
  <2>5. durable.cycle_seq = call.cycle.seq
    BY <1>2, <2>1 DEF AfterPersist, Ticking
  <2> HIDE DEF n
  <2>6. \A i \in Row("EFFECT")' \cup Row("MEMORY_COMMIT")' :
            journal'[i].cycle.seq \in 1..durable'.cycle_seq
    BY <1>2, <2>1, <2>2, <2>3, <2>5 DEF SInv, Committed
  <2>7. \A i \in Row("MEMORY_COMMIT")' :
            journal'[i].cycle.seq # call'.cycle.seq
    BY <2>1, <2>2 DEF SInv, Committed, BeforeEffect
  <2> QED BY <1>1, <1>3, <2>1, <2>4, <2>6, <2>7
          DEF Committed, BeforeEffect, Has, Returned
<1>6. CASE AppendMemory
  <2> DEFINE n == Len(journal) + 1
  <2>1. /\ Adds({"MEMORY_COMMIT"}) /\ pc = "memory" /\ pc' = "final"
        /\ Row("MEMORY_COMMIT")' = Row("MEMORY_COMMIT") \cup {n}
        /\ journal'[n].cycle = call.cycle
        /\ UNCHANGED <<durable, mem, call, lpc>>
    BY <1>1, <1>6, CommitAppended DEF AppendMemory, Record
  <2>2. /\ Row("EFFECT")' = Row("EFFECT")
        /\ \A i \in Row("EFFECT") : journal'[i] = journal[i]
        /\ Recorded(journal, call.cycle, "EFFECT") =>
              Recorded(journal', call.cycle, "EFFECT")
    BY <2>1, WatchedRows DEF SInv, Watched
  <2>3. \A i \in Row("MEMORY_COMMIT") : journal'[i] = journal[i]
    BY <2>1 DEF Adds, Row
  <2>4. Recorded(journal', call.cycle, "MEMORY_COMMIT")
    <3>1. n \in Row("MEMORY_COMMIT")'
      BY <2>1
    <3> QED BY <2>1, <3>1 DEF Recorded, Rows, Row
  <2>5. durable.cycle_seq = call.cycle.seq
    BY <1>2, <2>1 DEF AfterPersist, Ticking
  <2> HIDE DEF n
  <2>6. \A i \in Row("EFFECT")' \cup Row("MEMORY_COMMIT")' :
            journal'[i].cycle.seq \in 1..durable'.cycle_seq
    BY <1>2, <2>1, <2>2, <2>3, <2>5 DEF SInv, Committed
  <2>7. Passed => Recorded(journal, call.cycle, "EFFECT")
    BY <2>1 DEF SInv, Committed, Has
  <2> QED BY <1>1, <1>3, <2>1, <2>2, <2>4, <2>6, <2>7
          DEF Committed, BeforeEffect, Has, Returned, Passed
<1>7. CASE ~AppendEffect /\ ~AppendMemory
  <2>1. /\ \A t \in {"EFFECT", "MEMORY_COMMIT"} :
              /\ Row(t)' = Row(t)
              /\ \A i \in Row(t) : journal'[i] = journal[i]
              /\ Recorded(journal', call.cycle, t) <=>
                    Recorded(journal, call.cycle, t)
    BY <1>1, <1>7, WatchedRows DEF SInv, Watched
  <2>2. \A i \in Row("EFFECT") \cup Row("MEMORY_COMMIT") :
            journal[i].cycle.seq \in 1..durable.cycle_seq
    BY DEF SInv, Committed
  <2>3. \A i \in Row("EFFECT")' \cup Row("MEMORY_COMMIT")' :
            journal'[i].cycle.seq \in 1..durable'.cycle_seq
    BY <1>2, <2>1, <2>2
  <2>4. /\ pc' \in BeforeEffect \cup {"memory"} => pc \in BeforeEffect \cup {"persist"}
        /\ pc' \notin {"tick", "final"}
        /\ pc' = "memory" => ~Passed'
        /\ pc' = "idle" => error' # "none" \/ pc = "final"
        /\ call'.cycle = call.cycle
        /\ pc = "final" => Passed' = Passed
    <3>1. pc # "effect" \/ pc' # "memory"
      BY <1>1, <1>7 DEF TickStep, TickRaises, AppendTick, Sense, Persist,
         AppendObservation, AppendPlan, HoldInSafeMode, Evaluate,
         AppendDecision, NoExecutor, Execute, AppendExecution, FinalPersist
    <3>2. pc # "memory" \/ pc' # "final"
      BY <1>1, <1>7 DEF TickStep, TickRaises, AppendTick, Sense, Persist,
         AppendObservation, AppendPlan, HoldInSafeMode, Evaluate,
         AppendDecision, NoExecutor, Execute, AppendExecution, FinalPersist
    <3> QED BY <1>1, <3>1, <3>2
            DEF EngineMove, NextStatement, BeforeEffect, SInv, Committed, Passed
  <2>5. pc' \in BeforeEffect \cup {"memory"} =>
            \A i \in Row("EFFECT") \cup Row("MEMORY_COMMIT") :
                journal[i].cycle.seq # call.cycle.seq
    <3>1. CASE pc = "persist"
      BY <1>2, <2>2, <3>1
    <3>2. CASE pc \in BeforeEffect
      BY <3>2 DEF SInv, Committed
    <3> QED BY <2>4, <3>1, <3>2
  <2>6. pc = "final" =>
            /\ Passed => Recorded(journal, call.cycle, "EFFECT")
            /\ Recorded(journal, call.cycle, "MEMORY_COMMIT")
    BY DEF SInv, Committed, Has
  <2> QED BY <1>1, <1>3, <1>4, <2>1, <2>3, <2>4, <2>5, <2>6
          DEF Committed, Has, Returned
<1> QED BY <1>5, <1>6, <1>7

(* Types, as long as what is read keeps its type.                          *)
LEMMA TypesStay ==
    ASSUME SInv, NEW T, Adds(T), UNCHANGED <<boundAt, attempts>>,
           durable' \in RuntimeStates, mem' \in RuntimeStates,
           exported' \in SUBSET Nat, lineage' \in SUBSET Nat,
           call' \in Calls, faults' \in {faults, faults + 1},
           \A s \in {fb', fbmem'} :
               s.receipt.seq \in Nat /\ s.failure_streak \in Nat
    PROVE  Types'
<1>1. Table' /\ boundAt' \in Nat /\ boundAt' <= Len(journal')
  <2>1. Len(journal) <= Len(journal') /\ Table /\ Table'
    BY DEF Adds, SInv, Types
  <2>2. PICK S : journal' \in Seq(S)
    BY <2>1 DEF Table, IsTable
  <2>3. Len(journal) \in Nat
    BY <2>1, TableFacts
  <2>4. Len(journal') \in Nat
    BY <2>2
  <2> QED BY <2>1, <2>3, <2>4 DEF SInv, Types
<1>2. \A c : Attempts(c)' \in Nat
  BY DEF SInv, Types, Attempts
<1>3. faults' \in Nat
  BY DEF SInv, Types
<1> HIDE DEF Attempts
<1> QED BY <1>1, <1>2, <1>3 DEF Types

LEMMA EngineKeeps ==
    ASSUME SInv, EngineStep, UNCHANGED superVars
    PROVE  SInv'
<1>1. PICK T \in {{}, {"EFFECT"}, {"MEMORY_COMMIT"}} : Adds(T)
  BY EngineAdds DEF EngineStep
<1>2. /\ EngineMove /\ lpc = "engine" /\ error = "none"
      /\ UNCHANGED <<fb, fbmem, lpc, held, bound, attempts, policy, spc, lost,
                     boundAt>>
  <2>1. EngineMove
    BY EngineMoves DEF SInv, EngineStep
  <2> QED BY <2>1 DEF SInv, Phases, EngineStep, EngineMove, loopVars, superVars
<1>3. /\ durable \in RuntimeStates /\ mem \in RuntimeStates
      /\ durable' \in RuntimeStates /\ mem' \in RuntimeStates
      /\ durable.cycle_seq \in Nat /\ mem.cycle_seq \in Nat
      /\ durable.cycle_seq <= mem.cycle_seq
      /\ durable'.cycle_seq \in {durable.cycle_seq, mem.cycle_seq}
      /\ mem'.cycle_seq = mem.cycle_seq
  BY <1>2 DEF SInv, Types, RuntimeStates, Phases, Counting, EngineMove, Ticking
<1>4. Types'
  <2>1. /\ exported' \in SUBSET Nat /\ lineage' \in SUBSET Nat
        /\ call' \in Calls /\ faults' \in {faults, faults + 1}
    BY <1>2 DEF EngineMove, SInv, Types
  <2>2. \A s \in {fb', fbmem'} :
            s.receipt.seq \in Nat /\ s.failure_streak \in Nat
    BY <1>2 DEF SInv, Types
  <2> QED BY <1>1, <1>2, <1>3, <2>1, <2>2, TypesStay
<1>5. Phases'
  BY <1>2 DEF SInv, Phases, EngineMove, NextStatement, Ticking
<1>6. Counting'
  <2>1. /\ pc' \in {"sense", "persist"} =>
              pc \in {"tick", "sense"} /\ durable' = durable
        /\ pc' \in AfterPersist =>
              \/ durable' = mem
              \/ pc \in AfterPersist /\ durable' = durable
        /\ pc' # "tick"
    BY <1>2 DEF EngineMove, NextStatement, AfterPersist, Ticking
  <2> QED BY <1>2, <1>3, <2>1 DEF SInv, Counting, EngineMove
<1>7. Gated'
  <2>1. Feedback(fb)' /\ Feedback(fbmem)'
    BY <1>1, <1>2, <1>3, FeedbacksStay
  <2>2. /\ Row("EFFECT_FEEDBACK")' = Row("EFFECT_FEEDBACK")
        /\ \A i \in Row("EFFECT_FEEDBACK") : journal'[i] = journal[i]
    BY <1>1, WatchedRows DEF SInv, Watched
  <2>3. \A k \in Rows(journal', call.cycle, "EFFECT") : k > boundAt
    BY <1>1, <1>2, GrownRows DEF SInv, Gated
  <2> HIDE DEF Feedback
  <2> QED BY <1>2, <2>1, <2>2, <2>3 DEF SInv, Gated, EngineMove
<1>8. Attempted'
  BY <1>1, <1>2, AttemptsStay
<1>9. Committed'
  BY EngineCommitted
<1> QED BY <1>4, <1>5, <1>6, <1>7, <1>8, <1>9 DEF SInv
---------------------------------------------------------------------------
(* The statements of the wrapper and of the supervisor that only read, or  *)
(* append what the invariants do not watch.                                *)
LEMMA CommittedStays ==
    ASSUME SInv, NEW T, Adds(T), "EFFECT" \notin T, "MEMORY_COMMIT" \notin T,
           UNCHANGED <<durable, call, pc>>, pc \notin Ticking,
           lpc' = "engine" => lpc = "engine" /\ error' = error,
           lpc' = "measure" => lpc = "measure" \/ (Returned /\ Passed)
    PROVE  Committed'
<1>1. \A t \in {"EFFECT", "MEMORY_COMMIT"} :
          /\ Row(t)' = Row(t)
          /\ \A i \in Row(t) : journal'[i] = journal[i]
          /\ Recorded(journal', call.cycle, t) <=>
                Recorded(journal, call.cycle, t)
  BY WatchedRows DEF SInv, Watched
<1>2. pc \notin BeforeEffect \cup {"tick", "sense", "persist", "memory", "final"}
  BY DEF BeforeEffect, Ticking
<1> QED BY <1>1, <1>2 DEF SInv, Committed, Has, Returned, Passed, BeforeEffect

LEMMA QuietKeeps ==
    ASSUME SInv, Adds({}),
           UNCHANGED <<durable, pc, mem, lineage, call, fb, fbmem, held,
                       bound, attempts, policy, boundAt>>,
           pc \notin Ticking, exported' \in SUBSET Nat,
           faults' \in {faults, faults + 1},
           \/ lpc' \in {lpc, "idle"}
           \/ lpc = "engine" /\ lpc' \in {"gate", "measure"},
           lpc' = "engine" => error' = error,
           lpc' = "measure" => lpc = "measure" \/ (Returned /\ Passed),
           spc' \in {spc, "idle"} \/ (spc = "source" /\ spc' = "propose")
    PROVE  SInv'
<1>1. Types'
  <2>1. /\ durable' \in RuntimeStates /\ mem' \in RuntimeStates
        /\ lineage' \in SUBSET Nat /\ call' \in Calls
        /\ \A s \in {fb', fbmem'} :
              s.receipt.seq \in Nat /\ s.failure_streak \in Nat
    BY DEF SInv, Types
  <2> QED BY <2>1, TypesStay
<1>2. Phases'
  BY DEF SInv, Phases, Ticking
<1>3. Counting'
  BY DEF SInv, Counting, AfterPersist, Ticking
<1>4. Committed'
  BY CommittedStays
<1>5. Gated'
  <2>1. durable.cycle_seq \in Nat /\ durable'.cycle_seq = durable.cycle_seq
    BY DEF SInv, Types, RuntimeStates
  <2>2. Feedback(fb)' /\ Feedback(fbmem)'
    BY <2>1, FeedbacksStay
  <2>3. /\ Row("EFFECT_FEEDBACK")' = Row("EFFECT_FEEDBACK")
        /\ \A i \in Row("EFFECT_FEEDBACK") : journal'[i] = journal[i]
        /\ Rows(journal', call.cycle, "EFFECT") =
              Rows(journal, call.cycle, "EFFECT")
    BY WatchedRows DEF SInv, Watched
  <2> HIDE DEF Feedback
  <2> QED BY <2>2, <2>3 DEF SInv, Gated
<1>6. Attempted'
  BY AttemptsStay
<1> QED BY <1>1, <1>2, <1>3, <1>4, <1>5, <1>6 DEF SInv

LEMMA QuietSteps ==
    ASSUME SInv,
           \/ FindSource \/ LoopReturned \/ SuperRaises \/ SuperExport
           \/ /\ EngineReturned \/ RecordGateHold \/ LoopRaises
              /\ UNCHANGED superVars
    PROVE  SInv'
<1> USE DEF vars, loopVars, superVars, durables
<1>0. Table /\ Phases /\ exported \in SUBSET Nat /\ lineage \in SUBSET Nat
  BY DEF SInv, Types
<1>1. CASE FindSource
  BY <1>0, <1>1, NothingAppended, QuietKeeps DEF FindSource, Phases, Ticking
<1>2. CASE LoopReturned
  <2>1. lpc = "idle" /\ pc = "idle"
    BY <1>2 DEF LoopReturned
  <2> QED BY <1>0, <1>2, <2>1, OutcomeAppended, QuietKeeps DEF Ticking
<1>3. CASE SuperRaises
  BY <1>0, <1>3, NothingAppended, QuietKeeps DEF SuperRaises, Phases, Ticking
<1>4. CASE SuperExport
  BY <1>0, <1>4, NothingAppended, QuietKeeps
     DEF SuperExport, LoopExport, ExportOrganism, Ticking
<1>5. CASE EngineReturned /\ UNCHANGED superVars
  <2>1. lpc' \in {"idle", "gate", "measure"} /\ pc = "idle"
        /\ (lpc' = "measure" => Returned /\ Passed)
    BY <1>5 DEF EngineReturned, Returned, Passed
  <2> QED BY <1>0, <1>5, <2>1, NothingAppended, QuietKeeps
          DEF EngineReturned, Ticking
<1>6. CASE RecordGateHold /\ UNCHANGED superVars
  BY <1>0, <1>6, GateHoldAppended, QuietKeeps DEF Phases
<1>7. CASE LoopRaises /\ UNCHANGED superVars
  BY <1>0, <1>7, NothingAppended, QuietKeeps DEF LoopRaises, Phases
<1> QED BY <1>1, <1>2, <1>3, <1>4, <1>5, <1>6, <1>7
---------------------------------------------------------------------------
(* A tick begins: its cycle number is above every effect on record.        *)
LEMMA TickKeeps ==
    ASSUME SInv, NEW p \in Proposals \cup {"none"}, ClosedTick(p),
           UNCHANGED <<bound, attempts, policy, boundAt>>,
           \/ spc = "idle" /\ spc' = "idle"
           \/ spc = "idle" /\ spc' = "plain" /\ policy # NoPolicy
           \/ spc = "tick" /\ spc' = "recovery"
    PROVE  SInv'
<1> DEFINE q == IF GateAllows(p) THEN p ELSE "none"
           c == [seq |-> mem.cycle_seq + 1, root |-> lineage]
<1>1. /\ lpc = "idle" /\ lpc' = "engine" /\ held' = ~GateAllows(p)
      /\ pc = "idle" /\ pc' = "tick" /\ error' = "none"
      /\ mem' = [mem EXCEPT !.cycle_seq = @ + 1]
      /\ call' = NewCall(c, q)
      /\ UNCHANGED <<journal, durable, exported, effects, lineage, faults, fb,
                     fbmem>>
  BY DEF ClosedTick, TickStart, durables
<1>2. /\ q \in Proposals \cup {"none"}
      /\ held' => q = "none"
      /\ ~held' => fbmem.recovery_for = NoCycle \/ q \in {"none", "recovery"}
  BY <1>1 DEF GateAllows
<1>3. /\ mem \in RuntimeStates /\ mem.cycle_seq \in Nat
      /\ durable \in RuntimeStates /\ durable.cycle_seq \in Nat
      /\ durable.cycle_seq <= mem.cycle_seq
      /\ lineage \in SUBSET Nat /\ Table
  BY <1>1 DEF SInv, Types, RuntimeStates, Counting
<1>4. /\ mem' \in RuntimeStates /\ mem'.cycle_seq = mem.cycle_seq + 1
  BY <1>1, <1>3 DEF RuntimeStates
<1>5. /\ c.seq = mem.cycle_seq + 1 /\ c \in CycleIds
  BY <1>3 DEF CycleIds
<1> HIDE DEF q, c
<1>6. /\ call' \in Calls /\ call'.cycle = c /\ call'.proposal = q
      /\ call'.decision = "none"
  BY <1>1, <1>2, <1>5 DEF NewCall, Calls, Actions
<1>7. Adds({})
  BY <1>1, <1>3, NothingAppended
<1>8. Types'
  <2>1. /\ exported' \in SUBSET Nat /\ lineage' \in SUBSET Nat
        /\ durable' \in RuntimeStates
        /\ \A s \in {fb', fbmem'} :
              s.receipt.seq \in Nat /\ s.failure_streak \in Nat
    BY <1>1 DEF SInv, Types
  <2> QED BY <1>1, <1>4, <1>6, <1>7, <2>1, TypesStay
<1>9. Phases'
  BY <1>1 DEF SInv, Phases, Ticking
<1>10. Counting'
  BY <1>1, <1>3, <1>4, <1>5, <1>6 DEF Counting, AfterPersist
<1>11. Committed'
  <2>1. \A i \in Row("EFFECT")' \cup Row("MEMORY_COMMIT")' :
            journal'[i].cycle.seq \in 1..durable'.cycle_seq
    BY <1>1 DEF SInv, Committed, Row
  <2> QED BY <1>1, <1>6, <2>1
          DEF Committed, BeforeEffect, Returned, Passed
<1>12. Gated'
  <2>1. Feedback(fb)' /\ Feedback(fbmem)'
    BY <1>1, <1>3, <1>7, FeedbacksStay
  <2>2. Rows(journal, c, "EFFECT") = {}
    BY <1>3, <1>5 DEF SInv, Committed, Row, Rows
  <2>3. \A i \in Row("EFFECT_FEEDBACK")' :
            journal'[i].cycle.seq \in 0..fb'.receipt.seq
    BY <1>1 DEF SInv, Gated, Row
  <2> HIDE DEF Feedback
  <2> QED BY <1>1, <1>2, <1>6, <2>1, <2>2, <2>3 DEF Gated
<1>13. Attempted'
  BY <1>1, <1>7, AttemptsStay
<1> QED BY <1>8, <1>9, <1>10, <1>11, <1>12, <1>13 DEF SInv

LEMMA Ticks ==
    ASSUME SInv,
           \/ RecoveryTick
           \/ \E p \in Proposals \cup {"none"} : PlainStep(p) \/ HostTick(p)
    PROVE  SInv'
<1>1. CASE RecoveryTick
  <2>1. "recovery" \in Proposals \cup {"none"}
    BY RecoveryAssumption
  <2> QED BY <1>1, <2>1, TickKeeps DEF RecoveryTick
<1>2. ASSUME NEW p \in Proposals \cup {"none"}, PlainStep(p)
      PROVE  SInv'
  BY <1>2, TickKeeps DEF PlainStep
<1>3. ASSUME NEW p \in Proposals \cup {"none"}, HostTick(p)
      PROVE  SInv'
  <2>1. spc = "idle"
    BY <1>3 DEF HostTick, SInv, Phases
  <2> QED BY <1>3, <2>1, TickKeeps DEF HostTick, superVars
<1> QED BY <1>1, <1>2, <1>3

(* No effect is on record for the absent cycle.                            *)
LEMMA NoCycleHasNoEffect ==
    ASSUME SInv
    PROVE  Rows(journal, NoCycle, "EFFECT") = {}
BY DEF SInv, Committed, Types, RuntimeStates, Rows, Row, NoCycle

(* A process starts, with or without the supervisor.                       *)
LEMMA Boots ==
    ASSUME SInv, SuperBoot \/ HostBoot
    PROVE  SInv'
<1>1. /\ pc = "down" /\ pc' = "idle" /\ mem' = durable /\ lineage' = exported
      /\ fbmem' = fb /\ lpc = "idle" /\ lpc' = "idle" /\ spc = "idle"
      /\ UNCHANGED <<journal, durable, exported, effects, call, error, faults,
                     fb, held, attempts, spc, lost>>
  BY DEF SuperBoot, HostBoot, LoopBoot, superVars, durables, SInv, Phases
<1>2. Len(journal) \in Nat /\ Table
  BY TableFacts DEF SInv, Types
<1>3. /\ policy' = bound' \/ policy' = NoPolicy
      /\ \/ bound' = bound /\ boundAt' = boundAt
         \/ /\ bound = NoPolicy /\ ~fb.recovery_required
            /\ boundAt' = Len(journal)
  BY <1>1, PoliciesAssumption
     DEF SuperBoot, HostBoot, superVars, SInv, Phases
<1>4. Types'
  BY <1>1, <1>2, <1>3 DEF SInv, Types, Table, Attempts
<1>5. Phases'
  BY <1>1, <1>3 DEF Phases, Ticking
<1>6. Counting'
  BY <1>1 DEF SInv, Types, RuntimeStates, Counting, AfterPersist, Ticking
<1>7. Committed'
  BY <1>1 DEF SInv, Committed, BeforeEffect, Returned, Passed, Row
<1>8. Gated'
  <2>1. Feedback(fb)'
    <3>1. Feedback(fb)
      BY DEF SInv, Gated
    <3>2. \A k \in Rows(journal, fb.recovery_for, "EFFECT") : k > boundAt'
      BY <1>3, <3>1, NoCycleHasNoEffect DEF Feedback
    <3> QED BY <1>1, <3>1, <3>2 DEF Feedback
  <2>2. Feedback(fbmem)'
    BY <1>1, <2>1 DEF Feedback
  <2>3. \A i \in Row("EFFECT_FEEDBACK")' :
            journal'[i].cycle.seq \in 0..fb'.receipt.seq
    BY <1>1 DEF SInv, Gated, Row
  <2> HIDE DEF Feedback
  <2> QED BY <1>1, <2>1, <2>2, <2>3 DEF Gated
<1>9. Attempted'
  <2>1. \A i \in Row("RECOVERY_PROPOSED") :
            bound' = bound /\ boundAt' = boundAt
    BY <1>3 DEF SInv, Attempted, Attempt
  <2> QED BY <1>1, <2>1
          DEF SInv, Attempted, Attempt, Attempts, AttemptNumbersGrow, Row
<1> QED BY <1>4, <1>5, <1>6, <1>7, <1>8, <1>9 DEF SInv
---------------------------------------------------------------------------
(* The next number is persisted: every number on record is below it.       *)
LEMMA RecoveryStepKeeps ==
    ASSUME SInv, RecoveryStep
    PROVE  SInv'
<1> DEFINE o == fbmem.recovery_for
<1>1. /\ spc = "idle" /\ spc' = "source" /\ lpc = "idle" /\ pc = "idle"
      /\ policy # NoPolicy
      /\ attempts' = [c \in DOMAIN attempts \cup {o} |->
                        Attempts(c) + IF c = o THEN 1 ELSE 0]
      /\ UNCHANGED <<journal, durable, exported, mem, lineage, call, error,
                     faults, pc, fb, fbmem, lpc, held, bound, policy, boundAt>>
  BY DEF RecoveryStep, vars, loopVars
<1>2. \A c : Attempts(c) \in Nat
  BY DEF SInv, Types
<1>3. ASSUME NEW c
      PROVE  Attempts(c)' = Attempts(c) + IF c = o THEN 1 ELSE 0
  <2>1. CASE c \in DOMAIN attempts \cup {o}
    BY <1>1, <2>1 DEF Attempts
  <2>2. CASE c \notin DOMAIN attempts \cup {o}
    BY <1>1, <2>2 DEF Attempts
  <2> QED BY <2>1, <2>2
<1> HIDE DEF Attempts
<1>4. Types'
  BY <1>1, <1>2, <1>3 DEF SInv, Types, Table
<1>5. Phases' /\ Counting' /\ Committed'
  BY <1>1 DEF SInv, Phases, Counting, Committed, Returned, Passed, Has, Row
<1>6. Gated'
  BY <1>1 DEF SInv, Gated, Feedback, Row
<1>7. Attempted'
  <2>1. ASSUME NEW i \in Row("RECOVERY_PROPOSED")
        PROVE  Attempt(i)'
    <3>1. Attempt(i)
      BY DEF SInv, Attempted
    <3>2. /\ Number(journal[i]) \in Nat
          /\ Number(journal[i]) <= Attempts(journal[i].cycle)
      BY <3>1 DEF Attempt
    <3>3. /\ Number(journal[i]) <= Attempts(journal[i].cycle)'
          /\ journal[i].cycle = o =>
                Number(journal[i]) < Attempts(journal[i].cycle)'
      BY <1>1, <1>2, <1>3, <3>2
    <3> QED BY <1>1, <3>1, <3>3 DEF Attempt, Number, Policy
  <2> QED BY <1>1, <2>1 DEF SInv, Attempted, AttemptNumbersGrow, Row
<1> QED BY <1>4, <1>5, <1>6, <1>7 DEF SInv

(* The proposal takes the persisted number.                                *)
LEMMA ProposeKeeps ==
    ASSUME SInv, Propose
    PROVE  SInv'
<1>0. PICK n : n = Len(journal) + 1
  OBVIOUS
<1>1. /\ Adds({"RECOVERY_PROPOSED"}) /\ spc = "propose" /\ spc' = "tick"
      /\ error' = error
      /\ Row("RECOVERY_PROPOSED")' = Row("RECOVERY_PROPOSED") \cup {n}
      /\ journal'[n] = ProposedEvent
      /\ UNCHANGED <<durable, exported, effects, pc, mem, lineage, rss,
                     executor, call, faults, fb, fbmem, lpc, held, bound,
                     attempts, policy, lost, boundAt>>
  BY <1>0, Proposed DEF loopVars
<1>2. /\ lpc = "idle" /\ policy # NoPolicy /\ policy = bound
      /\ pc \notin Ticking /\ pc # "down"
  BY <1>1 DEF SInv, Phases
<1>3. /\ Len(journal) \in Nat /\ n = Len(journal) + 1
      /\ Row("RECOVERY_PROPOSED") \subseteq 1..Len(journal)
  BY <1>0, TableFacts DEF SInv, Types
<1>4. \A i \in Row("RECOVERY_PROPOSED") : journal'[i] = journal[i]
  BY <1>1 DEF Adds, Row
<1>5. /\ journal'[n].cycle = fbmem.recovery_for
      /\ Number(journal'[n]) = Attempts(fbmem.recovery_for)
      /\ Policy(journal'[n]) = bound
  BY <1>1, <1>2 DEF ProposedEvent, Number, Policy
<1>6. \A c : Attempts(c)' = Attempts(c) /\ Attempts(c) \in Nat
  BY <1>1 DEF SInv, Types, Attempts
<1>7. ASSUME NEW c, \A k \in Rows(journal, c, "EFFECT") : k > boundAt
      PROVE  \A k \in Rows(journal', c, "EFFECT") : k > boundAt'
  BY <1>1, <1>7, GrownRows DEF SInv
<1> HIDE DEF Attempts
<1>8. Types'
  <2>1. /\ durable' \in RuntimeStates /\ mem' \in RuntimeStates
        /\ exported' \in SUBSET Nat /\ lineage' \in SUBSET Nat
        /\ call' \in Calls /\ faults' = faults
        /\ \A s \in {fb', fbmem'} :
              s.receipt.seq \in Nat /\ s.failure_streak \in Nat
    BY <1>1 DEF SInv, Types
  <2> QED BY <1>1, <2>1, TypesStay
<1>9. Phases' /\ Counting'
  BY <1>1, <1>2 DEF SInv, Phases, Counting
<1>10. Committed'
  BY <1>1, <1>2, CommittedStays
<1>11. Gated'
  <2>1. Feedback(fb)' /\ Feedback(fbmem)'
    BY <1>1, FeedbacksStay DEF SInv, Types, RuntimeStates
  <2>2. /\ Row("EFFECT_FEEDBACK")' = Row("EFFECT_FEEDBACK")
        /\ \A i \in Row("EFFECT_FEEDBACK") : journal'[i] = journal[i]
    BY <1>1, WatchedRows DEF SInv, Watched
  <2> HIDE DEF Feedback
  <2> QED BY <1>1, <1>2, <2>1, <2>2 DEF SInv, Gated
<1>12. ASSUME NEW i \in Row("RECOVERY_PROPOSED")
       PROVE  /\ Attempt(i)'
              /\ journal[i].cycle = fbmem.recovery_for =>
                    Number(journal[i]) < Attempts(fbmem.recovery_for)
  <2>1. Attempt(i)
    BY DEF SInv, Attempted
  <2>2. \A k \in Rows(journal', journal[i].cycle, "EFFECT") : k > boundAt'
    BY <1>7, <2>1 DEF Attempt
  <2> QED BY <1>1, <1>4, <1>6, <2>1, <2>2 DEF Attempt
<1>13. Attempt(n)'
  <2>1. \A k \in Rows(journal', fbmem.recovery_for, "EFFECT") : k > boundAt'
    BY <1>7 DEF SInv, Gated, Feedback
  <2> QED BY <1>1, <1>2, <1>5, <1>6, <2>1 DEF Attempt
<1>14. AttemptNumbersGrow'
  BY <1>1, <1>3, <1>4, <1>5, <1>12
     DEF SInv, Attempted, AttemptNumbersGrow
<1>15. \A k \in Row("RECOVERY_PROPOSED")' : k <= n
  BY <1>1, <1>3
<1>16. Attempted'
  BY <1>1, <1>12, <1>13, <1>14, <1>15 DEF Attempted
<1> QED BY <1>8, <1>9, <1>10, <1>11, <1>16 DEF SInv
---------------------------------------------------------------------------
(* What _record_effect_feedback does to a feedback state: it stays true,   *)
(* because the cycle it is about has its EFFECT and its commit on record.  *)
LEMMA FeedbackAfterEffect ==
    ASSUME NEW s, NEW c, NEW success \in BOOLEAN, SInv, Feedback(s),
           s.failure_streak \in Nat, c.seq \in Nat, c.seq > 0,
           c.seq <= durable.cycle_seq,
           Recorded(journal, c, "EFFECT"),
           Recorded(journal, c, "MEMORY_COMMIT"),
           \A k \in Rows(journal, c, "EFFECT") : k > boundAt
    PROVE  LET r == FeedbackAfter(s, c, success)
           IN Feedback(r) /\ r.receipt = c /\ r.failure_streak \in Nat
<1> DEFINE r == FeedbackAfter(s, c, success)
<1>1. /\ r.receipt = c /\ r.failure_streak \in Nat
      /\ \/ ~r.recovery_required /\ r.recovery_for = NoCycle
         \/ /\ r.recovery_required <=> s.recovery_required
            /\ r.recovery_for = s.recovery_for
         \/ r.recovery_required /\ s.recovery_for = NoCycle
            /\ r.recovery_for = c
         \/ r.recovery_required /\ s.recovery_for # NoCycle
            /\ r.recovery_for = s.recovery_for
  <2>1. CASE success
    BY <2>1 DEF FeedbackAfter
  <2>2. CASE ~success
    <3> DEFINE closes == s.failure_streak + 1 >= GateAfter
    <3>1. r = [failure_streak |-> s.failure_streak + 1,
               recovery_required |-> s.recovery_required \/ closes,
               recovery_for |-> IF closes /\ s.recovery_for = NoCycle
                                THEN c ELSE s.recovery_for,
               receipt |-> c]
      BY <2>2 DEF FeedbackAfter
    <3> HIDE DEF r, closes
    <3>2. r.receipt = c /\ r.failure_streak = s.failure_streak + 1
      BY <3>1
    <3>3. r.recovery_required <=> (s.recovery_required \/ closes)
      BY <3>1, Zenon
    <3>4. r.recovery_for = IF closes /\ s.recovery_for = NoCycle
                           THEN c ELSE s.recovery_for
      BY <3>1
    <3> QED BY <3>2, <3>3, <3>4
  <2> QED BY <2>1, <2>2
<1> HIDE DEF r
<1>2. c # NoCycle
  BY DEF NoCycle
<1>3. Rows(journal, NoCycle, "EFFECT") = {}
  BY NoCycleHasNoEffect
<1>4. Feedback(r)
  BY <1>1, <1>2, <1>3 DEF Feedback
<1> QED BY <1>1, <1>4 DEF r

LEMMA MeasureKeeps ==
    ASSUME SInv, Measure, UNCHANGED superVars
    PROVE  SInv'
<1>1. PICK success \in BOOLEAN :
          fbmem' = FeedbackAfter(fbmem, call.cycle, success)
  BY DEF Measure
<1>2. /\ lpc = "measure" /\ lpc' = "persist"
      /\ UNCHANGED <<journal, durable, exported, effects, pc, mem, lineage,
                     executor, call, error, faults, fb, held, bound, attempts,
                     policy, spc, lost, boundAt>>
  BY DEF Measure, durables, superVars
<1>3. /\ Recorded(journal, call.cycle, "EFFECT")
      /\ Recorded(journal, call.cycle, "MEMORY_COMMIT")
      /\ \A k \in Rows(journal, call.cycle, "EFFECT") : k > boundAt
      /\ call.cycle.seq = mem.cycle_seq /\ call.cycle.seq > 0
      /\ call.cycle.seq \in Nat
      /\ fbmem.failure_streak \in Nat /\ Feedback(fbmem)
  BY <1>2 DEF SInv, Committed, Has, Gated, Counting, Types, RuntimeStates
<1>4. call.cycle.seq <= durable.cycle_seq
  BY <1>3 DEF SInv, Committed, Types, RuntimeStates, Recorded, Rows, Row
<1> DEFINE r == FeedbackAfter(fbmem, call.cycle, success)
<1>5. Feedback(r) /\ r.receipt = call.cycle /\ r.failure_streak \in Nat
  BY <1>3, <1>4, FeedbackAfterEffect
<1>6. PICK s : s = r
  OBVIOUS
<1> HIDE DEF r
<1>7. Feedback(fbmem)' /\ Feedback(fb)' /\ fbmem'.receipt = call.cycle
      /\ fbmem'.failure_streak \in Nat
  <2>1. Feedback(s)' /\ fbmem' = s
    BY <1>1, <1>2, <1>5, <1>6 DEF Feedback, r
  <2>2. Feedback(fb)'
    BY <1>2 DEF SInv, Gated, Feedback
  <2> QED BY <1>5, <1>6, <2>1, <2>2 DEF Feedback
<1>8. Types'
  BY <1>2, <1>3, <1>7 DEF SInv, Types, Table, Attempts
<1>9. Phases' /\ Counting' /\ Committed'
  BY <1>2 DEF SInv, Phases, Counting, Committed, Returned, Passed, Has, Row
<1>10. Gated'
  <2>1. \A i \in Row("EFFECT_FEEDBACK")' :
            journal'[i].cycle.seq \in 0..fb'.receipt.seq
    BY <1>2 DEF SInv, Gated, Row
  <2> HIDE DEF Feedback
  <2> QED BY <1>2, <1>3, <1>7, <2>1 DEF Gated
<1>11. Attempted'
  <2>1. Adds({})
    BY <1>2, NothingAppended DEF SInv, Types
  <2>2. spc \notin {"source", "propose"}
    BY <1>2 DEF SInv, Phases
  <2> QED BY <1>2, <2>1, <2>2, AttemptsStay
<1> QED BY <1>8, <1>9, <1>10, <1>11 DEF SInv

(* The feedback is persisted before its event is appended.                 *)
LEMMA PersistKeeps ==
    ASSUME SInv, PersistFeedback, UNCHANGED superVars
    PROVE  SInv'
<1>1. /\ lpc = "persist" /\ lpc' = "append" /\ fb' = fbmem
      /\ UNCHANGED <<journal, durable, exported, effects, pc, mem, lineage,
                     executor, call, error, faults, fbmem, held, bound,
                     attempts, policy, spc, lost, boundAt>>
  BY DEF PersistFeedback, vars, superVars
<1>2. Types'
  BY <1>1 DEF SInv, Types, Table, Attempts
<1>3. Phases' /\ Counting' /\ Committed'
  BY <1>1 DEF SInv, Phases, Counting, Committed, Returned, Passed, Has, Row
<1>4. Gated'
  <2>1. /\ fbmem.receipt = call.cycle /\ call.cycle.seq = mem.cycle_seq
        /\ durable.cycle_seq <= mem.cycle_seq
        /\ fb.receipt.seq <= durable.cycle_seq
        /\ fb.receipt.seq \in Nat
        /\ durable.cycle_seq \in Nat /\ mem.cycle_seq \in Nat
    BY <1>1 DEF SInv, Gated, Feedback, Counting, Phases, Types, RuntimeStates
  <2>2. \A i \in Row("EFFECT_FEEDBACK") :
            journal[i].cycle.seq \in 0..fb.receipt.seq
    BY DEF SInv, Gated
  <2>3. fb.receipt.seq <= fbmem.receipt.seq
    BY <2>1
  <2>4. Feedback(fb)' /\ Feedback(fbmem)'
    BY <1>1 DEF SInv, Gated, Feedback
  <2> HIDE DEF Feedback
  <2>5. \A i \in Row("EFFECT_FEEDBACK")' :
            journal'[i].cycle.seq \in 0..fb'.receipt.seq
    BY <1>1, <2>1, <2>2, <2>3 DEF Row
  <2> QED BY <1>1, <2>1, <2>4, <2>5 DEF SInv, Gated
<1>5. Attempted'
  <2>1. Adds({})
    BY <1>1, NothingAppended DEF SInv, Types
  <2> QED BY <1>1, <2>1, AttemptsStay
<1> QED BY <1>2, <1>3, <1>4, <1>5 DEF SInv

LEMMA AppendKeeps ==
    ASSUME SInv, AppendFeedback, UNCHANGED superVars
    PROVE  SInv'
<1>1. /\ Adds({"EFFECT_FEEDBACK"}) /\ lpc = "append" /\ lpc' = "idle"
      /\ \A i \in Row("EFFECT_FEEDBACK")' :
            \/ i \in Row("EFFECT_FEEDBACK")
            \/ journal'[i].cycle = call.cycle
      /\ UNCHANGED <<durable, exported, effects, pc, mem, lineage, rss,
                     executor, call, faults, fb, fbmem, held, bound, attempts,
                     policy, spc, lost, boundAt>>
  BY FeedbackAppended DEF superVars
<1>2. pc \notin Ticking /\ pc # "down"
      /\ spc \notin {"source", "propose", "tick"}
  BY <1>1 DEF SInv, Phases
<1>3. Types'
  <2>1. /\ durable' \in RuntimeStates /\ mem' \in RuntimeStates
        /\ exported' \in SUBSET Nat /\ lineage' \in SUBSET Nat
        /\ call' \in Calls /\ faults' = faults
        /\ \A s \in {fb', fbmem'} :
              s.receipt.seq \in Nat /\ s.failure_streak \in Nat
    BY <1>1 DEF SInv, Types
  <2> QED BY <1>1, <2>1, TypesStay
<1>4. Phases' /\ Counting'
  BY <1>1, <1>2 DEF SInv, Phases, Counting
<1>5. Committed'
  BY <1>1, <1>2, CommittedStays
<1>6. Gated'
  <2>1. Feedback(fb)' /\ Feedback(fbmem)'
    BY <1>1, FeedbacksStay DEF SInv, Types, RuntimeStates
  <2>2. fb.receipt = call.cycle /\ fb.receipt.seq \in Nat
    BY <1>1 DEF SInv, Gated, Types
  <2>3. \A i \in Row("EFFECT_FEEDBACK") : journal'[i] = journal[i]
    BY <1>1 DEF Adds, Row
  <2>4. \A i \in Row("EFFECT_FEEDBACK")' :
            journal'[i].cycle.seq \in 0..fb'.receipt.seq
    BY <1>1, <2>2, <2>3 DEF SInv, Gated
  <2> HIDE DEF Feedback
  <2> QED BY <1>1, <2>1, <2>4 DEF Gated
<1>7. Attempted'
  BY <1>1, AttemptsStay
<1> QED BY <1>3, <1>4, <1>5, <1>6, <1>7 DEF SInv

(* The process dies.                                                       *)
LEMMA CrashKeeps ==
    ASSUME SInv, SuperCrash
    PROVE  SInv'
<1>1. /\ pc' = "down" /\ lpc' = "idle" /\ spc' = "idle" /\ policy' = NoPolicy
      /\ mem' = DefaultState /\ lineage' = {} /\ call' = NoCall
      /\ error' = "none" /\ fbmem' = EmptyState /\ faults' = faults + 1
      /\ UNCHANGED <<journal, durable, exported, effects, fb, bound, attempts,
                     boundAt>>
  BY DEF SuperCrash, LoopCrash, Crash, durables
<1>2. Adds({})
  BY <1>1, NothingAppended DEF SInv, Types
<1>3. call' \in Calls /\ call'.decision = "none"
  BY <1>1 DEF NoCall, NewCall, Calls, CycleIds, Actions
<1>4. Types'
  <2>1. mem' \in RuntimeStates
    BY <1>1 DEF DefaultState, RuntimeStates
  <2>2. \A s \in {fb', fbmem'} :
            s.receipt.seq \in Nat /\ s.failure_streak \in Nat
    BY <1>1 DEF SInv, Types, EmptyState, NoCycle
  <2>3. durable' \in RuntimeStates /\ exported' \in SUBSET Nat
        /\ lineage' \in SUBSET Nat
    BY <1>1 DEF SInv, Types
  <2> QED BY <1>1, <1>2, <1>3, <2>1, <2>2, <2>3, TypesStay
<1>5. Phases' /\ Counting'
  BY <1>1 DEF Phases, Counting, AfterPersist, Ticking
<1>6. Committed'
  BY <1>1, <1>3 DEF SInv, Committed, BeforeEffect, Returned, Passed, Row
<1>7. Gated'
  <2>1. Feedback(fb)'
    BY <1>1 DEF SInv, Gated, Feedback
  <2>2. Feedback(fbmem)'
    BY <1>1, NoCycleHasNoEffect
       DEF Feedback, EmptyState, SInv, Types, RuntimeStates, NoCycle
  <2>3. \A i \in Row("EFFECT_FEEDBACK")' :
            journal'[i].cycle.seq \in 0..fb'.receipt.seq
    BY <1>1 DEF SInv, Gated, Row
  <2> HIDE DEF Feedback
  <2> QED BY <1>1, <2>1, <2>2, <2>3 DEF Gated
<1>8. Attempted'
  BY <1>1, <1>2, AttemptsStay
<1> QED BY <1>4, <1>5, <1>6, <1>7, <1>8 DEF SInv
---------------------------------------------------------------------------
LEMMA SuperStarts ==
    ASSUME SuperInit
    PROVE  SInv
<1>1. /\ journal = << >> /\ durable = DefaultState /\ exported = {}
      /\ pc = "down" /\ mem = DefaultState /\ lineage = {}
      /\ call = NoCall /\ error = "none" /\ faults = 0
      /\ fb = EmptyState /\ fbmem = EmptyState /\ lpc = "idle" /\ held = FALSE
      /\ attempts = << >> /\ policy = NoPolicy /\ spc = "idle" /\ boundAt = 0
  BY DEF SuperInit, LoopInit, Init
<1>2. Table /\ Len(journal) = 0 /\ DOMAIN journal = {}
  <2>1. << >> \in Seq({})
    OBVIOUS
  <2> QED BY <1>1, <2>1 DEF Table, IsTable
<1>3. \A t : Row(t) = {}
  BY <1>2 DEF Row
<1>4. \A c, t : Rows(journal, c, t) = {}
  BY <1>2 DEF Rows
<1>5. Types
  <2>1. durable \in RuntimeStates /\ mem \in RuntimeStates
    BY <1>1 DEF DefaultState, RuntimeStates
  <2>2. call \in Calls
    BY <1>1 DEF NoCall, NewCall, Calls, CycleIds, Actions
  <2>3. \A c : Attempts(c) \in Nat
    BY <1>1 DEF Attempts
  <2>4. \A s \in {fb, fbmem} : s.receipt.seq \in Nat /\ s.failure_streak \in Nat
    BY <1>1 DEF EmptyState, NoCycle
  <2> HIDE DEF Attempts
  <2> QED BY <1>1, <1>2, <2>1, <2>2, <2>3, <2>4 DEF Types
<1>6. Phases /\ Counting
  BY <1>1 DEF Phases, Counting, AfterPersist, Ticking
<1>7. Committed
  BY <1>1, <1>3 DEF Committed, BeforeEffect, Returned, Passed, NoCall, NewCall
<1>8. Gated
  BY <1>1, <1>3, <1>4 DEF Gated, Feedback, EmptyState, NoCycle, DefaultState
<1>9. Attempted
  BY <1>1, <1>3 DEF Attempted, AttemptNumbersGrow
<1> QED BY <1>5, <1>6, <1>7, <1>8, <1>9 DEF SInv

LEMMA StutterKeeps ==
    ASSUME SInv, UNCHANGED allVars
    PROVE  SInv'
BY DEF SInv, Types, Phases, Counting, Committed, Gated, Attempted, allVars,
       vars, loopVars, superVars, Table, Row, Attempts, Returned, Passed, Has,
       Feedback, Attempt, AttemptNumbersGrow, Number, Policy

LEMMA SuperKeeps ==
    ASSUME SInv, [SuperNext]_allVars
    PROVE  SInv'
<1>1. CASE \/ FindSource \/ LoopReturned \/ SuperRaises \/ SuperExport
  BY <1>1, QuietSteps
<1>2. CASE WrappedStep
  BY <1>2, QuietSteps, EngineKeeps, MeasureKeeps, PersistKeeps, AppendKeeps
     DEF WrappedStep, LoopStep
<1>3. CASE \/ RecoveryTick
           \/ \E p \in Proposals \cup {"none"} : PlainStep(p) \/ HostTick(p)
  BY <1>3, Ticks
<1>4. CASE SuperBoot \/ HostBoot
  BY <1>4, Boots
<1>5. CASE RecoveryStep \/ Propose \/ SuperCrash
  BY <1>5, RecoveryStepKeeps, ProposeKeeps, CrashKeeps
<1>6. CASE UNCHANGED allVars
  BY <1>6, StutterKeeps
<1> QED BY <1>1, <1>2, <1>3, <1>4, <1>5, <1>6 DEF SuperNext

(* SInv holds in every state of the supervised loop.                       *)
LEMMA SuperInvariant == SuperSpec => []SInv
<1>1. SuperInit => SInv
  BY SuperStarts
<1>2. SInv /\ [SuperNext]_allVars => SInv'
  BY SuperKeeps
<1> QED BY <1>1, <1>2, PTL DEF SuperSpec
---------------------------------------------------------------------------
(* _bind_or_validate_policy: every attempt on record was made under the    *)
(* policy bound today, and every effect it recovers from came after the    *)
(* binding.                                                                *)
THEOREM PolicyIsBoundFirst == SuperSpec => []PolicyBoundBeforeFailure
<1>1. SInv => PolicyBoundBeforeFailure
  BY DEF SInv, Attempted, Attempt, PolicyBoundBeforeFailure
<1> QED BY <1>1, SuperInvariant, PTL

(* _next_attempt: the numbers of one origin grow along the journal.        *)
THEOREM NumbersGrow == SuperSpec => []AttemptNumbersGrow
<1>1. SInv => AttemptNumbersGrow
  BY DEF SInv, Attempted
<1> QED BY <1>1, SuperInvariant, PTL

(* _record_effect_feedback: the gate names a cycle whose EFFECT and commit *)
(* are on record, and no feedback event is newer than the persisted gate.  *)
THEOREM GateIsOnRecord == SuperSpec => []GateMatchesJournal
<1>1. SInv => GateMatchesJournal
  BY DEF SInv, Gated, Feedback, GateMatchesJournal
<1> QED BY <1>1, SuperInvariant, PTL

(* The world is touched by one statement only.                             *)
LEMMA OnlyExecuteActs ==
    ASSUME SuperNext, effects' # effects
    PROVE  lpc = "engine" /\ pc = "execute"
<1> USE DEF loopVars, superVars, vars, durables
<1>1. CASE SuperBoot \/ HostBoot \/ SuperCrash
  BY <1>1 DEF SuperBoot, HostBoot, SuperCrash, LoopBoot, LoopCrash, Crash
<1>2. CASE \/ RecoveryTick
           \/ \E p \in Proposals \cup {"none"} : PlainStep(p) \/ HostTick(p)
  BY <1>2 DEF RecoveryTick, PlainStep, HostTick, ClosedTick, TickStart
<1>3. CASE \/ RecoveryStep \/ FindSource \/ Propose \/ LoopReturned
           \/ SuperRaises \/ SuperExport
  BY <1>3 DEF RecoveryStep, FindSource, Propose, SuperRecord, LoopReturned,
              SuperRaises, SuperExport, LoopExport, ExportOrganism
<1>4. CASE WrappedStep
  <2>1. CASE LoopRaises \/ EngineReturned \/ RecordGateHold \/ Measure
             \/ PersistFeedback \/ AppendFeedback
    BY <2>1 DEF LoopRaises, EngineReturned, RecordGateHold, LoopRecord,
                Measure, PersistFeedback, AppendFeedback
  <2>2. CASE EngineStep
    BY <2>2 DEF EngineStep, TickStep, TickRaises, AppendTick, Sense, Persist,
                AppendObservation, AppendPlan, HoldInSafeMode, Evaluate,
                AppendDecision, NoExecutor, Execute, AppendExecution,
                AppendEffect, AppendMemory, FinalPersist, Record
  <2> QED BY <1>4, <2>1, <2>2 DEF WrappedStep, LoopStep
<1> QED BY <1>1, <1>2, <1>3, <1>4 DEF SuperNext

(* _recovery_gate: it is read before the engine's tick begins, and still   *)
(* holds at the statement that calls the executor.                         *)
THEOREM GatedEffectsRecover == SuperSpec => OnlyRecoveryActsWhileGated
<1>1. ASSUME SInv, [SuperNext]_allVars, effects' # effects,
             fbmem.recovery_required
      PROVE  call.proposal = "recovery"
  <2>1. SuperNext
    BY <1>1 DEF allVars, vars
  <2>2. lpc = "engine" /\ pc = "execute"
    BY <1>1, <2>1, OnlyExecuteActs
  <2>3. fbmem.recovery_for # NoCycle /\ call.proposal # "none"
    BY <1>1, <2>2 DEF SInv, Gated, Feedback, Committed
  <2> QED BY <1>1, <2>2, <2>3 DEF SInv, Gated
<1>2. SInv /\ [SuperNext]_allVars =>
          [(effects' # effects /\ fbmem.recovery_required)
              => call.proposal = "recovery"]_closedVars
  BY <1>1
<1> QED BY <1>2, SuperInvariant, PTL DEF SuperSpec, OnlyRecoveryActsWhileGated
---------------------------------------------------------------------------
(* An EFFECT that is on record and not measured yet.                       *)
Unmeasured ==
    \/ pc \in {"memory", "final"} /\ Passed
    \/ Returned /\ Passed
    \/ lpc = "measure"

Newest(i) == i \in Row("EFFECT") /\ \A k \in Row("EFFECT") : k <= i

(* While nothing crashed or raised: the last EFFECT is about to be measured*)
(* with its status still at hand, was accepted, or has closed the gate.    *)
Settled ==
    faults = 0 =>
        /\ pc = "down" => fb = fbmem
        /\ \A i \in Row("EFFECT") : Newest(i) =>
              IF Unmeasured THEN journal[i].body.status = call.status
              ELSE journal[i].body.status = "OK" \/ fbmem.recovery_required

LEMMA NewestStays ==
    ASSUME SInv, Settled, NEW T, Adds(T), "EFFECT" \notin T,
           faults' \in {faults, faults + 1},
           faults' = 0 =>
               /\ pc' = "down" => fb' = fbmem'
               /\ \/ /\ Unmeasured /\ Unmeasured'
                     /\ call'.status = call.status
                  \/ /\ ~Unmeasured /\ ~Unmeasured'
                     /\ fbmem'.recovery_required = fbmem.recovery_required
    PROVE  Settled'
<1>1. /\ Row("EFFECT")' = Row("EFFECT")
      /\ \A i \in Row("EFFECT") : journal'[i] = journal[i]
  BY WatchedRows DEF SInv, Watched
<1>2. faults' = 0 => faults = 0
  BY DEF SInv, Types
<1>3. \A i : Newest(i)' <=> Newest(i)
  BY <1>1 DEF Newest
<1> HIDE DEF Newest, Unmeasured
<1> QED BY <1>1, <1>2, <1>3 DEF Settled

(* A statement of the engine.  An EFFECT becomes the last one; the appends *)
(* between it and the end of the tick get new rows, so they do not raise.  *)
LEMMA EngineSettles ==
    ASSUME SInv, Settled, EngineStep
    PROVE  Settled'
<1>1. /\ EngineMove /\ lpc = "engine" /\ lpc' = lpc /\ error = "none"
      /\ UNCHANGED <<fb, fbmem>> /\ (TickStep \/ TickRaises)
      /\ (~AppendEffect /\ ~AppendMemory => Adds({}))
      /\ faults \in Nat /\ faults' \in {faults, faults + 1}
  <2>1. EngineMove /\ (~AppendEffect /\ ~AppendMemory => Adds({}))
    BY EngineMoves DEF SInv, EngineStep
  <2> QED BY <2>1 DEF EngineStep, EngineMove, SInv, Phases, Types, loopVars
<1>2. CASE AppendEffect
  <2>0. PICK n : n = Len(journal) + 1
    OBVIOUS
  <2>1. /\ pc = "effect" /\ pc' = "memory"
        /\ Row("EFFECT")' = Row("EFFECT") \cup {n}
        /\ journal'[n].body.status = call.status
        /\ UNCHANGED <<call, lpc>>
    BY <1>1, <1>2, <2>0, EffectAppended DEF AppendEffect, Record
  <2>2. Passed' /\ Unmeasured'
    BY <2>1 DEF SInv, Committed, Passed, Unmeasured
  <2>3. Len(journal) \in Nat /\ Row("EFFECT") \subseteq 1..Len(journal)
    BY TableFacts DEF SInv, Types
  <2>4. ASSUME NEW i \in Row("EFFECT")', Newest(i)'
        PROVE  i = n
    <3>1. n <= i
      BY <2>1, <2>4 DEF Newest
    <3>2. i \in Row("EFFECT") => i <= Len(journal)
      BY <2>3
    <3>3. i \in Row("EFFECT") => i \in Nat
      BY <2>3
    <3>4. i \notin Row("EFFECT")
      BY <2>0, <2>3, <3>1, <3>2, <3>3
    <3> QED  BY <2>1, <3>4
  <2>5. \A i \in Row("EFFECT")' :
            Newest(i)' => journal'[i].body.status = call'.status
    BY <2>1, <2>4
  <2> HIDE DEF Newest, Unmeasured
  <2> QED BY <2>1, <2>2, <2>5, Zenon DEF Settled
<1>3. CASE AppendMemory
  <2>1. /\ Adds({"MEMORY_COMMIT"}) /\ pc = "memory" /\ pc' = "final"
        /\ UNCHANGED <<call, lpc>>
    BY <1>1, <1>3, CommitAppended DEF AppendMemory, Record
  <2>2. Unmeasured' <=> Unmeasured
    BY <1>1, <2>1 DEF Unmeasured, Returned, Passed
  <2> HIDE DEF Unmeasured
  <2> QED BY <1>1, <2>1, <2>2, NewestStays
<1>4. CASE ~AppendEffect /\ ~AppendMemory /\ ~TickRaises
  <2>1. pc \notin {"effect", "memory"}
    BY <1>1, <1>4 DEF TickStep, AppendTick, Sense, Persist,
       AppendObservation, AppendPlan, HoldInSafeMode, Evaluate,
       AppendDecision, NoExecutor, Execute, AppendExecution, FinalPersist
  <2>2. CASE pc = "final"
    <3>1. pc' = "idle" /\ UNCHANGED <<call, error>>
      BY <1>1, <1>4, <2>2
         DEF TickStep, AppendTick, Sense, Persist, AppendObservation,
             AppendPlan, HoldInSafeMode, Evaluate, AppendDecision, NoExecutor,
             Execute, AppendExecution, FinalPersist
    <3>2. Unmeasured' <=> Unmeasured
      BY <1>1, <2>2, <3>1 DEF Unmeasured, Returned, Passed
    <3> HIDE DEF Unmeasured
    <3> QED BY <1>1, <1>4, <3>1, <3>2, NewestStays
  <2>3. CASE pc # "final"
    <3>1. ~Unmeasured
      BY <1>1, <2>1, <2>3
         DEF Unmeasured, Returned, EngineMove, Ticking
    <3>2. ~Unmeasured'
      BY <1>1, <2>1, <2>3
         DEF Unmeasured, Returned, EngineMove, NextStatement, Passed, SInv,
             Committed
    <3>3. pc' # "down"
      BY <1>1 DEF EngineMove, NextStatement
    <3> HIDE DEF Unmeasured
    <3> QED BY <1>1, <1>4, <3>1, <3>2, <3>3, NewestStays
  <2> QED BY <2>2, <2>3
<1>5. CASE TickRaises
  BY <1>1, <1>5 DEF TickRaises, Settled
<1> QED BY <1>2, <1>3, <1>4, <1>5

LEMMA MeasureSettles ==
    ASSUME SInv, Settled, GateAfter = 1, Measure
    PROVE  Settled'
<1>1. PICK success \in BOOLEAN :
          /\ fbmem' = FeedbackAfter(fbmem, call.cycle, success)
          /\ success => call.status = "OK"
  BY DEF Measure, Accepts
<1>2. /\ lpc = "measure" /\ lpc' = "persist" /\ pc # "down"
      /\ UNCHANGED <<journal, pc, call, error, faults>>
  BY DEF Measure, durables, SInv, Phases
<1>3. pc \notin Ticking
  BY <1>2 DEF SInv, Phases
<1>4. Unmeasured /\ ~Unmeasured'
  BY <1>2, <1>3 DEF Unmeasured, Returned, Ticking
<1>5. ~success => fbmem'.recovery_required
  <2>1. fbmem.failure_streak \in Nat
    BY DEF SInv, Types
  <2> DEFINE closes == fbmem.failure_streak + 1 >= GateAfter
  <2>2. closes
    BY <2>1
  <2> HAVE ~success
  <2>3. PICK streak, origin :
            fbmem' = [failure_streak |-> streak,
                      recovery_required |-> fbmem.recovery_required \/ closes,
                      recovery_for |-> origin, receipt |-> call.cycle]
    BY <1>1 DEF FeedbackAfter
  <2> HIDE DEF closes
  <2>4. fbmem'.recovery_required <=> (fbmem.recovery_required \/ closes)
    BY <2>3, Zenon
  <2> QED BY <2>2, <2>4
<1>6. \A i : Newest(i)' <=> Newest(i)
  BY <1>2 DEF Newest, Row
<1>7. Row("EFFECT")' = Row("EFFECT")
  BY <1>2 DEF Row
<1> HIDE DEF Newest, Unmeasured
<1> QED BY <1>1, <1>2, <1>4, <1>5, <1>6, <1>7 DEF Settled

(* The tick has returned: a PASS was not held, so it is measured next.     *)
LEMMA ReturnSettles ==
    ASSUME SInv, Settled, EngineReturned
    PROVE  Settled'
<1>1. /\ lpc = "engine" /\ pc = "idle"
      /\ lpc' \in {"idle", "gate", "measure"}
      /\ lpc' = "measure" => Returned /\ Passed
      /\ Returned /\ Passed /\ ~held => lpc' = "measure"
      /\ UNCHANGED <<journal, fb, fbmem, held, pc, call, error, faults>>
  BY DEF EngineReturned, vars, Returned, Passed
<1>2. Passed => ~held
  BY <1>1 DEF SInv, Committed, Gated
<1>3. Unmeasured' <=> Unmeasured
  BY <1>1, <1>2 DEF Unmeasured, Returned
<1>4. Adds({})
  BY <1>1, NothingAppended DEF SInv, Types
<1> HIDE DEF Unmeasured
<1> QED BY <1>1, <1>3, <1>4, NewestStays

(* A tick begins, and a process starts: nothing waits to be measured.      *)
LEMMA StartSettles ==
    ASSUME SInv, Settled,
           \/ \E p \in Proposals \cup {"none"} : ClosedTick(p)
           \/ LoopBoot
    PROVE  Settled'
<1>1. Table
  BY DEF SInv, Types
<1>2. ASSUME NEW p, ClosedTick(p)
      PROVE  Settled'
  <2>1. /\ lpc = "idle" /\ pc = "idle" /\ pc' = "tick" /\ lpc' = "engine"
        /\ UNCHANGED <<journal, fb, fbmem, faults>>
    BY <1>2 DEF ClosedTick, TickStart, durables
  <2>2. Adds({}) /\ ~Unmeasured /\ ~Unmeasured'
    BY <1>1, <2>1, NothingAppended DEF Unmeasured, Returned
  <2> HIDE DEF Unmeasured
  <2> QED BY <2>1, <2>2, NewestStays
<1>3. CASE LoopBoot
  <2>1. /\ pc = "down" /\ lpc = "idle" /\ pc' = "idle" /\ lpc' = "idle"
        /\ fbmem' = fb /\ UNCHANGED <<journal, fb, faults>>
    BY <1>3 DEF LoopBoot, durables, SInv, Phases
  <2>2. Adds({}) /\ ~Unmeasured /\ ~Unmeasured'
    BY <1>1, <2>1, NothingAppended DEF Unmeasured, Returned
  <2>3. faults = 0 => fbmem' = fbmem
    BY <2>1 DEF Settled
  <2> HIDE DEF Unmeasured
  <2> QED BY <2>1, <2>2, <2>3, NewestStays
<1> QED BY <1>2, <1>3

(* Every other step of the wrapper and the supervisor: while one of them   *)
(* is at a statement of its own, nothing waits to be measured.             *)
LEMMA RestSettles ==
    ASSUME SInv, Settled,
           \/ RecordGateHold \/ PersistFeedback \/ AppendFeedback
           \/ FindSource \/ Propose \/ LoopReturned \/ RecoveryStep
           \/ SuperExport \/ UNCHANGED allVars
    PROVE  Settled'
<1> USE DEF vars, loopVars, superVars, durables, Unmeasured, Returned, Passed
<1>1. Table /\ Phases
  BY DEF SInv, Types
<1>2. \E T \in {{}, {"EFFECT_FEEDBACK"}, {"RECOVERY_PROPOSED"}} : Adds(T)
  BY <1>1, GateHoldAppended, FeedbackAppended, Proposed, OutcomeAppended,
     NothingAppended
     DEF PersistFeedback, FindSource, RecoveryStep, SuperExport, LoopExport,
         ExportOrganism, allVars
<1>3. UNCHANGED <<pc, call, faults, fbmem>>
  BY DEF RecordGateHold, PersistFeedback, AppendFeedback, FindSource, Propose,
         LoopReturned, RecoveryStep, SuperExport, LoopRecord, SuperRecord,
         LoopExport, ExportOrganism, allVars
<1>4. pc = "down" => fb' = fb
  BY <1>1 DEF RecordGateHold, PersistFeedback, AppendFeedback, FindSource,
         Propose, LoopReturned, RecoveryStep, SuperExport, LoopRecord,
         SuperRecord, LoopExport, ExportOrganism, allVars, Phases
<1>5. Unmeasured' <=> Unmeasured
  <2>1. CASE UNCHANGED allVars
    BY <2>1 DEF allVars
  <2>2. CASE RecordGateHold \/ PersistFeedback \/ AppendFeedback
    BY <1>1, <1>3, <2>2
       DEF RecordGateHold, PersistFeedback, AppendFeedback, LoopRecord,
           Phases, Ticking
  <2>3. CASE FindSource \/ Propose \/ LoopReturned \/ RecoveryStep
             \/ SuperExport
    <3>1. lpc = "idle" /\ lpc' = "idle"
      BY <1>1, <2>3
         DEF FindSource, Propose, SuperRecord, LoopReturned, RecoveryStep,
             SuperExport, LoopExport, Phases
    <3> QED BY <1>1, <1>3, <3>1 DEF Phases, Ticking
  <2> QED BY <2>1, <2>2, <2>3
<1>6. faults = 0 => (pc' = "down" => fb' = fbmem')
  BY <1>3, <1>4 DEF Settled
<1> HIDE DEF Unmeasured
<1>7. faults \in Nat
  BY DEF SInv, Types
<1> QED BY <1>2, <1>3, <1>5, <1>6, <1>7, NewestStays

(* A failure is counted.                                                   *)
LEMMA FaultSettles ==
    ASSUME SInv, SuperRaises \/ LoopRaises \/ SuperCrash
    PROVE  Settled'
<1>1. faults \in Nat /\ faults' = faults + 1
  BY DEF SInv, Types, SuperRaises, LoopRaises, SuperCrash, LoopCrash, Crash
<1> QED BY <1>1 DEF Settled

(* _record_effect_feedback with a gate that closes at the first failure:   *)
(* when the next tick may start, an effect that was not accepted has       *)
(* closed the gate, as long as nothing crashed or raised.                  *)
THEOREM FailuresCloseTheGate ==
    ASSUME GateAfter = 1
    PROVE  SuperSpec => []FailedEffectClosesTheGate
<1>1. SuperInit => Settled
  BY DEF SuperInit, LoopInit, Init, Settled, Row
<1>2. SInv /\ Settled /\ [SuperNext]_allVars => Settled'
  <2> SUFFICES ASSUME SInv, Settled, [SuperNext]_allVars
               PROVE  Settled'
    OBVIOUS
  <2>1. CASE \/ RecoveryTick \/ SuperBoot \/ HostBoot
             \/ \E p \in Proposals \cup {"none"} : PlainStep(p) \/ HostTick(p)
    BY <2>1, StartSettles, RecoveryAssumption
       DEF RecoveryTick, SuperBoot, HostBoot, PlainStep, HostTick
  <2>2. CASE WrappedStep
    BY <2>2, EngineSettles, MeasureSettles, ReturnSettles, RestSettles,
       FaultSettles DEF WrappedStep, LoopStep
  <2>3. CASE SuperRaises \/ SuperCrash
    BY <2>3, FaultSettles
  <2>4. CASE \/ FindSource \/ Propose \/ LoopReturned \/ RecoveryStep
             \/ SuperExport \/ UNCHANGED allVars
    BY <2>4, RestSettles
  <2> QED BY <2>1, <2>2, <2>3, <2>4 DEF SuperNext
<1>3. SInv /\ Settled => FailedEffectClosesTheGate
  BY DEF Settled, Newest, Unmeasured, Returned, FailedEffectClosesTheGate
<1> QED BY <1>1, <1>2, <1>3, SuperInvariant, PTL DEF SuperSpec
=============================================================================
