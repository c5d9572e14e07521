--------------------------- MODULE ProviderRoute ---------------------------
(***************************************************************************)
(* POST /providers/openai/responses (src/app/openai_provider.py) with the  *)
(* broker behind it (src/app/openai_secret_plane.py) and the runtime that  *)
(* makes the HTTP call (src/app/openai_runtime.py).  The provider is       *)
(* external: it may process a request whose answer never comes back.  The  *)
(* process environment (settings and credential) is not modelled: at every *)
(* request it may be complete, incomplete or malformed.                    *)
(***************************************************************************)
EXTENDS ModelBridge

VARIABLES
    calls,  \* requests the provider processed, by nonce, in order
    lost    \* history: processed calls that ended without a record

providerVars == <<calls, lost>>
serviceVars == <<authVars, bridgeVars, providerVars>>

ProviderInit == calls = <<>> /\ lost = <<>>

(* One append_event of the route, which then answers.  The subject tells   *)
(* the error_type of a secret plane hold.                                  *)
Records(t, type, decision, subject) ==
    /\ AppendEvent(t, type, decision, subject)
    /\ UNCHANGED providerVars

(* from_env raises: 503.                                                   *)
ConfigurationHold(t) ==
    /\ Handling(t, "provider")
    /\ Records(t, "OPENAI_PROVIDER_CONFIGURATION_HOLD", "HOLD", 0)

(* A ValueError before the call: _preflight cannot build the request, or   *)
(* the gate passed and the credential that is disclosed has no place in a  *)
(* header.  422, nothing is recorded.                                      *)
RefuseRequest(t) ==
    /\ Handling(t, "provider")
    /\ ~Op(t).wellformed \/ Gate(Op(t).human) = "PASS"
    /\ Answers(t)
    /\ UNCHANGED providerVars

(* _preflight's gate does not pass: no lease is issued.                    *)
RejectExposure(t) ==
    /\ Handling(t, "provider")
    /\ Op(t).wellformed
    /\ Gate(Op(t).human) # "PASS"
    /\ Records(t, "OPENAI_PROVIDER_EXPOSURE_REJECTED", Gate(Op(t).human), 0)

(* The lease cannot be used, or discloses a malformed credential: one of   *)
(* the error types of a hold before the call stands for all of them.       *)
SecretPlaneHold(t) ==
    /\ Handling(t, "provider")
    /\ Op(t).wellformed
    /\ Gate(Op(t).human) = "PASS"
    /\ Records(t, "OPENAI_SECRET_PLANE_HOLD", "HOLD", "SecretNotAvailable")

(* The one-use lease is spent on client.post.                              *)
Call(t) ==
    /\ Handling(t, "provider")
    /\ Op(t).wellformed
    /\ Gate(Op(t).human) = "PASS"
    /\ Goes(t, "calling")
    /\ UNCHANGED <<now, sent, nonces, accepted, faults, bridgeVars, providerVars>>

(* The provider processes the request.                                     *)
Process(t) ==
    /\ thread[t].pc = "calling"
    /\ calls' = Append(calls, thread[t].nonce)
    /\ Goes(t, "processed")
    /\ UNCHANGED <<now, sent, nonces, accepted, faults, bridgeVars, lost>>

(* A valid answer comes back, and is recorded.                             *)
RecordResponse(t) ==
    /\ thread[t].pc = "processed"
    /\ Records(t, "OPENAI_RESPONSE", "PASS", 0)

(* The answer holds the credential: execute_with_secret withholds it, and  *)
(* the route records the event of a credential that was not disclosed,     *)
(* with another error type.                                                *)
WithholdAnswer(t) ==
    /\ thread[t].pc = "processed"
    /\ Records(t, "OPENAI_SECRET_PLANE_HOLD", "HOLD", "SecretExposureError")

(* The answer cannot be hashed (a string in it has no UTF-8 encoding): a   *)
(* ValueError once more, 422 without a record.                             *)
RefuseAnswer(t) ==
    /\ thread[t].pc = "processed"
    /\ lost' = Append(lost, thread[t].nonce)
    /\ Answers(t)
    /\ UNCHANGED calls

(* Mutant: a call that timed out is answered without being recorded.       *)
RecordFailureOfAnswer(t) ==
    \/ /\ thread[t].pc = "calling"
       /\ Records(t, "OPENAI_PROVIDER_FAILURE", "HOLD", 0)
    \/ /\ thread[t].pc = "processed"
       /\ Answers(t)
       /\ UNCHANGED providerVars

(* OpenAIProviderError: a connection error, a timeout, an error status or  *)
(* an answer that cannot be read, whether the request was processed or not.*)
RecordFailure(t) ==
    /\ thread[t].pc \in {"calling", "processed"}
    /\ Records(t, "OPENAI_PROVIDER_FAILURE", "HOLD", 0)

ProviderHandler(t) ==
    \/ ConfigurationHold(t) \/ RefuseRequest(t) \/ RejectExposure(t)
    \/ SecretPlaneHold(t) \/ Call(t) \/ Process(t)
    \/ RecordResponse(t) \/ RecordFailure(t)
    \/ WithholdAnswer(t) \/ RefuseAnswer(t)
---------------------------------------------------------------------------
Occurrences(seq, n) == Cardinality({i \in DOMAIN seq : seq[i] = n})

(* What an event tells of the request it is about: of the secret plane     *)
(* holds only that of a SecretExposureError tells of a call.               *)
Outcome(e) ==
    IF e.type = "OPENAI_SECRET_PLANE_HOLD" /\ e.subject = "SecretExposureError"
    THEN "withheld" ELSE e.type

Events(outcomes, n) ==
    Cardinality({i \in DOMAIN ledger : Outcome(ledger[i]) \in outcomes
                                       /\ ledger[i].req = n})

InFlight(n) ==
    Cardinality({t \in DOMAIN thread : thread[t].nonce = n
                                       /\ thread[t].pc = "processed"})

(* openai_response: what the provider was made to process is accounted     *)
(* for.  Each call belongs to an acceptance of its own of an authorized    *)
(* request; every call that is over is told by one event of the ledger,    *)
(* unless a fault cut the record off or the answer could not be hashed;    *)
(* and no event tells of an answer, returned or withheld, that was not     *)
(* given.                                                                  *)
CallsAreAccounted ==
    \A n \in DOMAIN sent :
        /\ Occurrences(calls, n) <= Len(accepted[n])
        /\ Occurrences(calls, n) > 0 => Authorized(sent[n].op.human)
        /\ Occurrences(calls, n) <=
              Events({"OPENAI_RESPONSE", "OPENAI_PROVIDER_FAILURE",
                      "withheld"}, n)
                + InFlight(n) + Occurrences(lost, n)
        /\ Events({"OPENAI_RESPONSE", "withheld"}, n) <= Occurrences(calls, n)
=============================================================================
