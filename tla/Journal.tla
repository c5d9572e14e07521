------------------------------ MODULE Journal ------------------------------
(***************************************************************************)
(* The event spine of the physiology (DurableEventJournal in               *)
(* src/app/physiology.py) as operators over its `events' table.  The table *)
(* is a sequence: position i is the row with seq = i.  An event's id is    *)
(* always "<correlation id>:<type suffix>", followed, for the supervisor's *)
(* events, by the attempt number and a hash of the attempt's inputs.  So   *)
(* (cycle, type, suffix) stands for event_id, `cycle' is the correlation   *)
(* id too, and suffix is << >> for all other events.  `cause' is the type  *)
(* of the event that causation_id names, of the same cycle unless the      *)
(* suffix names another.                                                   *)
(***************************************************************************)
EXTENDS Naturals, Sequences

EventTypes == {"TICK", "OBSERVATION", "RECOVERY_PLAN", "DECISION",
               "EXECUTION", "EFFECT", "MEMORY_COMMIT", "CYCLE_ABORTED",
               "EFFECT_RECOVERY_GATE", "EFFECT_FEEDBACK",
               "RECOVERY_PROPOSED", "RECOVERY_OUTCOME"}

(* Rows of journal j of cycle c with event type t, and whether any is.     *)
Rows(j, c, t) == {i \in DOMAIN j : j[i].cycle = c /\ j[i].type = t}

Recorded(j, c, t) == Rows(j, c, t) # {}

(* Rows with the event_id of e: at most one, event_id is UNIQUE.           *)
SameId(j, e) == {i \in Rows(j, e.cycle, e.type) : j[i].suffix = e.suffix}

(* The payload of an OBSERVATION holds the telemetry sample with its       *)
(* monotonic clock reading, so a second sample is never the same payload.  *)
SamePayload(stored, e) ==
    /\ stored.cause = e.cause
    /\ stored.body = e.body
    /\ e.type # "OBSERVATION"

(* INSERT failed on the unique event_id and the stored row differs:        *)
(* append raises ValueError("event_id collision ...").                     *)
Collides(j, e) == \E i \in SameId(j, e) : ~SamePayload(j[i], e)

(* What append leaves in the table: one more row for a new event_id, the   *)
(* same table for an idempotent repetition and for a refused collision.    *)
AppendEvent(j, e) ==
    IF SameId(j, e) # {} THEN j ELSE Append(j, e)

(* find_incomplete_cycles: cycles with a TICK and no terminal event.       *)
TERMINAL_EVENT_TYPES == {"MEMORY_COMMIT", "CYCLE_ABORTED"}

(* Mutant: an abort is not taken for a terminal event.                     *)
TerminatedByCommit(j, c) == Recorded(j, c, "MEMORY_COMMIT")

Terminated(j, c) == \E t \in TERMINAL_EVENT_TYPES : Recorded(j, c, t)

CyclesOf(j) == {j[i].cycle : i \in DOMAIN j}

IncompleteCycles(j) ==
    {c \in CyclesOf(j) : Recorded(j, c, "TICK") /\ ~Terminated(j, c)}

(* Rows of cycle c, whatever their type.                                   *)
CycleRows(j, c) == {i \in DOMAIN j : j[i].cycle = c}
=============================================================================
