------------------------------ MODULE Intents ------------------------------
(***************************************************************************)
(* Submission of institutional intents: the handler of POST /institutional/*)
(* intents (src/app/institutional_service.py), the store behind it         *)
(* (src/app/institutional_store.py) and, when a state URL is configured,   *)
(* the durable object that keeps the state (deploy/cloudflare/src/index.ts)*)
(* with the HTTP client in between (src/app/institutional_state_client.py).*)
(*                                                                         *)
(* An intent hash is represented by the intent, and the projection hash in *)
(* its source binding by the length of the ledger it was computed from:    *)
(* the ledger only grows, and the build binding of a process is fixed.     *)
(* Operation, target and parameters are only hashed and stored.            *)
(***************************************************************************)
EXTENDS Naturals, Sequences

CONSTANTS
    Ids,          \* intent_id values clients use
    Principals,   \* authenticated principals
    Delegates,    \* those with institutional:intent:submit:any
    Handlers,     \* requests the adapter serves at a time
    Backends,     \* where the state is kept: "sqlite" or "object"
    Other,        \* a ledger event that is not an intent
    MaxLedger,    \* length of the ledger
    MaxMessages   \* accept calls sent to the durable object

ASSUME IntentsAssumption ==
    /\ Delegates \subseteq Principals
    /\ Backends \subseteq {"sqlite", "object"}
    /\ MaxLedger \in Nat /\ MaxMessages \in Nat

VARIABLES
    ledger,   \* canonical ledger; the table of intents has one row per
              \* accepted intent, written in the same transaction
    req,      \* request each handler is working on
    net,      \* accept calls on their way to the durable object
    replies,  \* its answers on their way back
    sent,     \* accept calls sent so far
    backend   \* configured backend

vars == <<ledger, req, net, replies, sent, backend>>

Register == INSTANCE IntentRegister
            WITH Ids <- Ids, Principals <- Principals, Other <- Other,
                 ledger <- ledger
Accepted(l) == Register!Accepted(l)
IsRecorded(l, i, p) == Register!IsRecorded(l, i, p)

(* principal_id, actor_id and intent_hash of the row with this intent_id   *)
(* are those of the request.                                               *)
SameIntent(i, p) == IsRecorded(ledger, i, p)
Exists(i) == Register!IdTaken(ledger, i.id)

Remote == backend = "object"

Answers == {"accepted", "idempotent", "collision", "stale", "unavailable"}
NoIntent == [id |-> "none", actor |-> "none", source |-> 0]
Idle == [pc |-> "idle", intent |-> NoIntent, principal |-> "none",
         message |-> 0, answer |-> "none", retried |-> FALSE]

Init ==
    /\ ledger = <<>>
    /\ req = [h \in Handlers |-> Idle]
    /\ net = {} /\ replies = {} /\ sent = 0
    /\ backend \in Backends

Goto(h, pc) == req' = [req EXCEPT ![h].pc = pc]
Answer(h, a) == req' = [req EXCEPT ![h].pc = "answered", ![h].answer = a]
Local == UNCHANGED <<net, replies, sent>>

(* A client submits an intent written for a ledger it has seen: a new one, *)
(* or once more one whose answer did not come; retried records that it is  *)
(* accepted already.                                                       *)
Submit(h, id, actor, source, principal) ==
    LET i == [id |-> id, actor |-> actor, source |-> source]
    IN /\ req[h].pc = "idle"
       /\ principal = actor \/ principal \in Delegates
       /\ req' = [req EXCEPT ![h] =
                    [Idle EXCEPT !.pc = "lookup", !.principal = principal,
                                 !.intent = i,
                                 !.retried = IsRecorded(ledger, i, principal)]]
       /\ UNCHANGED <<ledger, net, replies, sent>>

(* Mutant: there is no lookup before the freshness check.                  *)
LookupNothing(h) ==
    /\ req[h].pc = "lookup"
    /\ Goto(h, "check")
    /\ UNCHANGED ledger /\ Local

(* get_intent, before freshness, so that a retry is answered.              *)
Lookup(h) ==
    LET i == req[h].intent
    IN /\ req[h].pc = "lookup"
       /\ IF Exists(i)
          THEN Answer(h, IF SameIntent(i, req[h].principal)
                         THEN "idempotent" ELSE "collision")
          ELSE Goto(h, "check")
       /\ UNCHANGED ledger /\ Local

(* _current_projection_or_503 and _assert_current_source.                  *)
CheckSource(h) ==
    /\ req[h].pc = "check"
    /\ IF req[h].intent.source = Len(ledger)
       THEN Goto(h, IF Remote THEN "snapshot" ELSE "persist")
       ELSE Answer(h, "stale")
    /\ UNCHANGED ledger /\ Local

(* What a transaction of either backend does with an accept for intent i:  *)
(* the decision, and the ledger it leaves.                                 *)
Decide(i, p, fresh) ==
    IF Exists(i) THEN (IF SameIntent(i, p) THEN "idempotent" ELSE "collision")
    ELSE IF fresh THEN "accepted" ELSE "stale"

After(i, p, decision) ==
    IF decision = "accepted"
    THEN Append(ledger, [intent |-> i, principal |-> p]) ELSE ledger

(* persist_intent on SQLite: one BEGIN IMMEDIATE transaction.              *)
Persist(h) ==
    LET i == req[h].intent
        d == Decide(i, req[h].principal, i.source = Len(ledger))
    IN /\ req[h].pc = "persist"
       /\ Len(ledger) < MaxLedger
       /\ Answer(h, d)
       /\ ledger' = After(i, req[h].principal, d)
       /\ Local

(* _persist_intent_remote: the snapshot is fetched once more, and its head *)
(* is the one the accept call expects.                                     *)
Snapshot(h) ==
    /\ req[h].pc = "snapshot"
    /\ IF req[h].intent.source = Len(ledger)
       THEN /\ sent < MaxMessages
            /\ sent' = sent + 1
            /\ net' = net \cup {[nr |-> sent + 1, intent |-> req[h].intent,
                                 principal |-> req[h].principal,
                                 head |-> Len(ledger)]}
            /\ req' = [req EXCEPT ![h].pc = "wait", ![h].message = sent + 1]
       ELSE Answer(h, "stale") /\ UNCHANGED <<net, sent>>
    /\ UNCHANGED <<ledger, replies>>

(* Mutant: the durable object does not compare the ledger head.            *)
RemoteAcceptUnchecked(m) ==
    LET d == Decide(m.intent, m.principal, TRUE)
    IN /\ Len(ledger) < MaxLedger
       /\ net' = net \ {m}
       /\ replies' = replies \cup {[nr |-> m.nr, answer |-> d]}
       /\ ledger' = After(m.intent, m.principal, d)
       /\ UNCHANGED <<req, sent>>

(* acceptIntent: one storage transaction.  The call may arrive long after  *)
(* its sender gave up.                                                     *)
RemoteAccept(m) ==
    LET d == Decide(m.intent, m.principal, m.head = Len(ledger))
    IN /\ Len(ledger) < MaxLedger
       /\ net' = net \ {m}
       /\ replies' = replies \cup {[nr |-> m.nr, answer |-> d]}
       /\ ledger' = After(m.intent, m.principal, d)
       /\ UNCHANGED <<req, sent>>

(* The connection breaks before the call or before its answer arrives.     *)
Lose(m) ==
    /\ net' = net \ {m}
    /\ UNCHANGED <<ledger, req, replies, sent>>

Reply(h, r) ==
    /\ req[h].pc = "wait"
    /\ r.nr = req[h].message
    /\ Answer(h, r.answer)
    /\ replies' = replies \ {r}
    /\ UNCHANGED <<ledger, net, sent>>

(* A state call fails or times out: ProjectionUnavailable, or an exception *)
(* that get_intent does not catch.  A late answer finds nobody.            *)
Unavailable(h) ==
    /\ Remote
    /\ req[h].pc \in {"lookup", "check", "snapshot", "wait"}
    /\ Answer(h, "unavailable")
    /\ replies' = {r \in replies : r.nr # req[h].message}
    /\ UNCHANGED <<ledger, net, sent>>

(* The client takes its answer.                                            *)
Return(h) ==
    /\ req[h].pc = "answered"
    /\ req' = [req EXCEPT ![h] = Idle]
    /\ UNCHANGED ledger /\ Local

(* append_event and the other writers of src/app/storage.py share the      *)
(* ledger of the local backend; the durable object has none.               *)
AppendOther ==
    /\ ~Remote
    /\ Len(ledger) < MaxLedger
    /\ ledger' = Append(ledger, Other)
    /\ UNCHANGED req /\ Local

Handle(h) ==
    \/ Lookup(h) \/ CheckSource(h) \/ Persist(h) \/ Snapshot(h)
    \/ \E r \in replies : Reply(h, r)
    \/ Unavailable(h) \/ Return(h)

Next ==
    /\ \/ \E h \in Handlers :
             \/ \E id \in Ids, a, p \in Principals, s \in 0..Len(ledger) :
                   Submit(h, id, a, s, p)
             \/ Handle(h)
       \/ \E m \in net : RemoteAccept(m) \/ Lose(m)
       \/ AppendOther
    /\ UNCHANGED backend

Spec == Init /\ [][Next]_vars
---------------------------------------------------------------------------
(* persist_intent's docstring: the durable backend performs "the           *)
(* equivalent compare-and-append".  Both implement the register.           *)
ImplementsRegister == Register!Spec

(* INSTITUTIONAL_RUNTIME_ADAPTER_V1.md:165-167: an exact retry is          *)
(* "returned idempotently from the stored acceptance": an intent that is   *)
(* in the ledger when it is submitted is never answered as stale or as a   *)
(* collision, although its source binding is outdated by itself.           *)
RetriesAreIdempotent ==
    \A h \in Handlers :
        req[h].retried => req[h].answer \notin {"accepted", "stale", "collision"}
=============================================================================
