------------------------------ MODULE Service ------------------------------
(***************************************************************************)
(* The service as it is deployed (src/app/main.py): authentication, the    *)
(* model bridge and the provider route over one store, several requests at *)
(* a time, a process that may be killed, and a store that may raise.       *)
(***************************************************************************)
EXTENDS ProviderRoute

HandoffColumns == {"session", "seq", "from", "to", "parent", "contract",
                   "human", "status"}

(* The schemas of the requests admit these declarations only.  The database*)
(* was written by the service: it is as an earlier life of the process     *)
(* leaves it, whose requests are numbered 0 and whose ingresses are left   *)
(* out, since nothing reads them.                                          *)
ASSUME ServiceAssumption ==
    /\ \A op \in Ops :
          op.name \in {"ingress", "handoff", "provider"} =>
              op.human = NoHuman \/ op.human \subseteq HumanFields
    /\ \A d \in Databases :
          /\ d.handoffs \in Seq({d.handoffs[i] : i \in DOMAIN d.handoffs})
          /\ d.sessions \in Seq({d.sessions[i] : i \in DOMAIN d.sessions})
          /\ d.ledger \in Seq({d.ledger[i] : i \in DOMAIN d.ledger})
          /\ \A i \in DOMAIN d.handoffs :
                /\ DOMAIN d.handoffs[i] = HandoffColumns
                /\ Authorized(d.handoffs[i].human)
          /\ \A i \in DOMAIN d.ledger :
                /\ d.ledger[i].req = 0
                /\ ~(d.ledger[i].type = "INGRESS"
                        /\ d.ledger[i].subject = "payload")
          /\ IsHistory(d.artifacts, d.sessions, d.handoffs)
          /\ IsLedgered(d.ledger, d.artifacts, d.sessions, d.handoffs)

Init == AuthInit /\ BridgeInit /\ ProviderInit

(* Clients name sessions and handoffs the service has told them of: a      *)
(* handoff to acknowledge stood in the signer's inbox.                     *)
Knows(op) ==
    /\ op.name = "handoff" => op.session \in DOMAIN sessions
    /\ op.name = "ack" =>
          /\ op.handoff \in DOMAIN handoffs
          /\ op.handoff \in
                Inbox(handoffs[op.handoff].session, op.participant)

(* The store raises in the transaction of t, which is rolled back: 500.    *)
(* Or what a bridge handler hashes first has no UTF-8 encoding.            *)
HandlerFails(t) ==
    /\ thread[t].pc \notin {"idle", "body"}
    /\ faults < MaxFaults
    /\ faults' = faults + 1
    /\ lost' = IF thread[t].pc = "processed"
               THEN Append(lost, thread[t].nonce) ELSE lost
    /\ Ends(t)
    /\ UNCHANGED <<now, sent, nonces, accepted, bridgeVars, calls>>

(* The process is killed and started again.                                *)
Crash ==
    LET cut == {t \in Threads : thread[t].pc = "processed"}
    IN /\ \E t \in Threads : thread[t] # Idle
       /\ faults < MaxFaults
       /\ faults' = faults + 1
       /\ \E order \in [1..Cardinality(cut) -> cut] :
             /\ {order[i] : i \in DOMAIN order} = cut
             /\ lost' = lost \o [i \in DOMAIN order |-> thread[order[i]].nonce]
       /\ thread' = [t \in Threads |-> Idle]
       /\ UNCHANGED <<now, sent, nonces, accepted, bridgeVars, calls>>

Next ==
    \/ \E op \in Ops :
          /\ Knows(op)
          /\ Sign(op, now)
          /\ UNCHANGED <<bridgeVars, providerVars>>
    \/ Tick /\ UNCHANGED <<bridgeVars, providerVars>>
    \/ \E t \in Threads :
          \/ Authenticate(t) /\ UNCHANGED <<bridgeVars, providerVars>>
          \/ BridgeHandler(t) /\ UNCHANGED providerVars
          \/ ProviderHandler(t)
          \/ HandlerFails(t)
    \/ Crash

Spec == Init /\ [][Next]_serviceVars
=============================================================================
