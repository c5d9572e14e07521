---------------------------- MODULE ModelBridge ----------------------------
(***************************************************************************)
(* The canonical ledger and the model bridge: the handlers of              *)
(* src/app/main.py that write, over src/app/storage.py.                    *)
(*                                                                         *)
(* Handlers run in a pool of threads, and each call of the store is one    *)
(* transaction, so a handler that makes one such call is one action.  An   *)
(* artifact is named by its content, a session or a handoff by its place   *)
(* in its table: the ids are hashes or fresh.  The chain of event hashes   *)
(* is the order of the ledger.                                             *)
(***************************************************************************)
EXTENDS Auth, CoreGates

CONSTANTS
    Kinds,     \* the fields of a frozen contract the model tells apart; an
               \* artifact may be of any of CONTRACT_KINDS
    Databases  \* what the database may hold when the service is started

VARIABLES
    ledger,      \* ledger table
    artifacts,   \* contract_artifacts table: the kind of each known content
    sessions,    \* model_sessions table
    handoffs     \* model_handoffs table, in the order of insertion

bridgeVars == <<ledger, artifacts, sessions, handoffs>>

(* An event with the request it is about, which the code only hashes.      *)
LedgerEvent(type, decision, req, subject) ==
    [type |-> type, decision |-> decision, req |-> req, subject |-> subject]

(* _append_ledger_tx: the next row, chained to the last one.               *)
Appended(e) == Append(ledger, e)

BridgeInit ==
    \E d \in Databases : /\ ledger = d.ledger /\ artifacts = d.artifacts
                         /\ sessions = d.sessions /\ handoffs = d.handoffs

(* One append_event of thread t, which then answers.                       *)
AppendEvent(t, type, decision, subject) ==
    /\ ledger' = Appended(LedgerEvent(type, decision, thread[t].nonce, subject))
    /\ Ends(t)
    /\ UNCHANGED <<now, sent, nonces, accepted, faults,
                   artifacts, sessions, handoffs>>

(* t answers with an error, or with what is there already.                 *)
Answers(t) ==
    /\ Ends(t)
    /\ UNCHANGED <<now, sent, nonces, accepted, faults, bridgeVars>>

Handling(t, name) == thread[t].pc = "handle" /\ Op(t).name = name
---------------------------------------------------------------------------
(* register_contract_artifact: one row per content, of one kind.           *)
Register(t) ==
    LET op == Op(t)
    IN /\ Handling(t, "register")
       /\ op.content \notin DOMAIN artifacts
       /\ artifacts' = [c \in DOMAIN artifacts \cup {op.content} |->
                          IF c = op.content THEN op.kind ELSE artifacts[c]]
       /\ ledger' = Appended(LedgerEvent("CONTRACT_ARTIFACT_REGISTERED", "PASS",
                                         thread[t].nonce, op.content))
       /\ Ends(t)
       /\ UNCHANGED <<now, sent, nonces, accepted, faults, sessions, handoffs>>

(* The row exists: idempotent when the kind is the same, else refused.     *)
RegisterKnown(t) ==
    /\ Handling(t, "register")
    /\ Op(t).content \in DOMAIN artifacts
    /\ Answers(t)

(* ingress: the decision is always recorded, the payload only when it      *)
(* passed and declares no human data.                                      *)
Ingress(t) ==
    LET human == Op(t).human
    IN /\ Handling(t, "ingress")
       /\ AppendEvent(t, "INGRESS", Gate(human),
                      IF Gate(human) = "PASS" /\ human = NoHuman
                      THEN "payload" ELSE "payload hash")

(* validate_contract_registry: every hash of the contract is registered    *)
(* with the kind of its field.                                             *)
Registered(known, contract) ==
    \A k \in Kinds : contract[k] \in DOMAIN known /\ known[contract[k]] = k

RegistryHolds(contract) == Registered(artifacts, contract)

(* create_model_session first reads the registry ...                       *)
ValidateSession(t) ==
    /\ Handling(t, "session")
    /\ IF RegistryHolds(Op(t).contract) THEN Goes(t, "insert") ELSE Ends(t)
    /\ UNCHANGED <<now, sent, nonces, accepted, faults, bridgeVars>>

(* ... and inserts the session in a transaction of its own.                *)
InsertSession(t) ==
    LET op == Op(t)
    IN /\ thread[t].pc = "insert"
       /\ sessions' = Append(sessions, [contract |-> op.contract,
                                        participants |-> op.participants])
       /\ ledger' = Appended(LedgerEvent("MODEL_BRIDGE_SESSION_CREATED", "PASS",
                                         thread[t].nonce, Len(sessions) + 1))
       /\ Ends(t)
       /\ UNCHANGED <<now, sent, nonces, accepted, faults, artifacts, handoffs>>

SessionRows(rows, s) == {i \in DOMAIN rows : rows[i].session = s}

InSession(s) == SessionRows(handoffs, s)

(* create_cross_model_handoff up to the gate: the sender is the principal  *)
(* (or may speak for others) and the payload has no forbidden field.       *)
MaySend(op) ==
    /\ op.signer = op.from \/ Allows(op.signer, "handoff:send:any")
    /\ op.transferable

(* append_model_handoff: what it checks in its transaction.                *)
Storable(op) ==
    /\ op.session \in DOMAIN sessions
    /\ op.contract = sessions[op.session].contract
    /\ {op.from, op.to} \subseteq sessions[op.session].participants
    /\ op.from # op.to
    /\ op.parent # 0 => op.parent \in InSession(op.session)

(* Mutant: handoffs that were acknowledged no longer count.                *)
NextSequencePending(s) ==
    Cardinality({i \in InSession(s) : handoffs[i].status = "PENDING"}) + 1

(* COALESCE(MAX(session_seq), 0) + 1.                                      *)
NextSequence(s) ==
    LET used == {handoffs[i].seq : i \in InSession(s)} \cup {0}
    IN 1 + CHOOSE m \in used : \A n \in used : n <= m

(* The row keeps the payload; human is the declaration that came with it.  *)
Handoff(t) ==
    LET op == Op(t)
    IN /\ Handling(t, "handoff")
       /\ MaySend(op) /\ Gate(op.human) = "PASS" /\ Storable(op)
       /\ handoffs' = Append(handoffs,
              [session |-> op.session, seq |-> NextSequence(op.session),
               from |-> op.from, to |-> op.to, parent |-> op.parent,
               contract |-> op.contract, human |-> op.human,
               status |-> "PENDING"])
       /\ ledger' = Appended(LedgerEvent("MODEL_BRIDGE_HANDOFF", "PASS",
                                         thread[t].nonce, Len(handoffs) + 1))
       /\ Ends(t)
       /\ UNCHANGED <<now, sent, nonces, accepted, faults, artifacts, sessions>>

(* The gate did not pass: recorded without the payload, not stored.        *)
RejectHandoff(t) ==
    /\ Handling(t, "handoff")
    /\ MaySend(Op(t)) /\ Gate(Op(t).human) # "PASS"
    /\ AppendEvent(t, "MODEL_BRIDGE_HANDOFF_REJECTED", Gate(Op(t).human), 0)

(* 403, 422, 404 or 409: nothing is written.                               *)
RefuseHandoff(t) ==
    /\ Handling(t, "handoff")
    /\ ~MaySend(Op(t)) \/ (Gate(Op(t).human) = "PASS" /\ ~Storable(Op(t)))
    /\ Answers(t)

(* list_model_inbox, for an enrolled participant.                          *)
Inbox(s, participant) ==
    {i \in InSession(s) : handoffs[i].to = participant
                          /\ handoffs[i].status = "PENDING"}

MayAck(op) ==
    /\ op.signer = op.participant \/ Allows(op.signer, "handoff:ack:any")
    /\ op.handoff \in DOMAIN handoffs
    /\ handoffs[op.handoff].to = op.participant

(* Mutant: an acknowledgement that is repeated is recorded again.          *)
AckAlways(t) ==
    LET op == Op(t)
    IN /\ Handling(t, "ack")
       /\ MayAck(op)
       /\ handoffs' = [handoffs EXCEPT ![op.handoff].status = "ACKED"]
       /\ ledger' = Appended(LedgerEvent("MODEL_BRIDGE_HANDOFF_ACK", "PASS",
                                         thread[t].nonce, op.handoff))
       /\ Ends(t)
       /\ UNCHANGED <<now, sent, nonces, accepted, faults, artifacts, sessions>>

(* acknowledge_model_handoff, by the target.                               *)
Ack(t) ==
    LET op == Op(t)
    IN /\ Handling(t, "ack")
       /\ MayAck(op)
       /\ handoffs[op.handoff].status = "PENDING"
       /\ handoffs' = [handoffs EXCEPT ![op.handoff].status = "ACKED"]
       /\ ledger' = Appended(LedgerEvent("MODEL_BRIDGE_HANDOFF_ACK", "PASS",
                                         thread[t].nonce, op.handoff))
       /\ Ends(t)
       /\ UNCHANGED <<now, sent, nonces, accepted, faults, artifacts, sessions>>

(* 403, 404, or the idempotent answer to an acknowledged handoff.          *)
AckUnchanged(t) ==
    /\ Handling(t, "ack")
    /\ ~(MayAck(Op(t)) /\ handoffs[Op(t).handoff].status = "PENDING")
    /\ Answers(t)

BridgeHandler(t) ==
    \/ Register(t) \/ RegisterKnown(t) \/ Ingress(t)
    \/ ValidateSession(t) \/ InsertSession(t)
    \/ Handoff(t) \/ RejectHandoff(t) \/ RefuseHandoff(t)
    \/ Ack(t) \/ AckUnchanged(t)
---------------------------------------------------------------------------
(* Rows up to the i-th that belong to S, in the order they were written.   *)
Rank(S, i) == Cardinality({k \in S : k <= i})

Told(events, type) == {i \in DOMAIN events : events[i].type = type}

(* The events of one type tell of 1, 2, ... n, in that order ...           *)
TellsInOrder(events, type, n) ==
    LET told == Told(events, type)
    IN /\ Cardinality(told) = n
       /\ \A i \in told : events[i].subject = Rank(told, i)

(* ... or of each member of a set, once.                                   *)
TellsOnce(events, type, S) ==
    LET told == Told(events, type)
    IN /\ {events[i].subject : i \in told} = S
       /\ \A i, j \in told : events[i].subject = events[j].subject => i = j

IsLedgered(events, known, opened, rows) ==
    /\ TellsInOrder(events, "MODEL_BRIDGE_SESSION_CREATED", Len(opened))
    /\ TellsInOrder(events, "MODEL_BRIDGE_HANDOFF", Len(rows))
    /\ TellsOnce(events, "CONTRACT_ARTIFACT_REGISTERED", DOMAIN known)
    /\ TellsOnce(events, "MODEL_BRIDGE_HANDOFF_ACK",
                 {i \in DOMAIN rows : rows[i].status = "ACKED"})
    /\ \A i \in Told(events, "MODEL_BRIDGE_HANDOFF_ACK") :
          \E j \in Told(events, "MODEL_BRIDGE_HANDOFF") :
              j < i /\ events[j].subject = events[i].subject

(* storage.py writes a table row and its ledger event in one transaction:  *)
(* the ledger tells every session and handoff exactly once and in the      *)
(* order of the tables, every artifact once, and one acknowledgement for   *)
(* each handoff that is acknowledged, after the handoff.                   *)
TablesAreLedgered == IsLedgered(ledger, artifacts, sessions, handoffs)

IsHistory(known, opened, rows) ==
    /\ \A s \in DOMAIN opened : Registered(known, opened[s].contract)
    /\ \A i \in DOMAIN rows :
          LET h == rows[i]
          IN /\ h.seq = Rank(SessionRows(rows, h.session), i)
             /\ h.parent # 0 => /\ h.parent \in 1..(i - 1)
                                /\ rows[h.parent].session = h.session
             /\ h.session \in DOMAIN opened
             /\ {h.from, h.to} \subseteq opened[h.session].participants
             /\ h.contract = opened[h.session].contract

(* append_model_handoff: the handoffs of a session are a history.  Their   *)
(* numbers are 1, 2, ... in the order they were stored (UNIQUE(session_id, *)
(* session_seq) would otherwise refuse one), a parent is an earlier one of *)
(* the same session, and all of them are between participants under the    *)
(* frozen contract, whose artifacts are registered with their kinds.       *)
HandoffsFormAHistory == IsHistory(artifacts, sessions, handoffs)

(* What the service keeps of a payload is allowed to be kept: the raw      *)
(* payload of an ingress only without human data, the payload of a handoff *)
(* only as an authorized representation of it.                             *)
KeptPayloadsAreAuthorized ==
    /\ \A i \in DOMAIN handoffs : Authorized(handoffs[i].human)
    /\ \A i \in DOMAIN ledger :
          (ledger[i].type = "INGRESS" /\ ledger[i].subject = "payload")
             => sent[ledger[i].req].op.human = NoHuman
=============================================================================
