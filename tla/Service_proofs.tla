--------------------------- MODULE Service_proofs ---------------------------
(***************************************************************************)
(* Theorems about the service for any number of threads, requests and      *)
(* participants, any authentication window and any sequence of crashes,    *)
(* failed transactions and lost answers.                                   *)
(***************************************************************************)
EXTENDS Service, SequenceTheorems, FiniteSetTheorems, TLAPS

Stages == {"idle", "body", "handle", "insert", "calling", "processed"}

SignedRequests == [op : Ops, ts : Nat]

(* The types of what authentication reads and writes.                      *)
AuthTypes ==
    /\ now \in Nat
    /\ sent \in Seq(SignedRequests) /\ Len(sent) <= MaxRequests
    /\ thread \in [Threads -> [pc : Stages, nonce : Nat]]
    /\ accepted \in [1..MaxRequests -> Seq(BOOLEAN)]

(* A thread that works, works on a request that was signed.                *)
Working ==
    \A t \in Threads : thread[t].pc # "idle" => thread[t].nonce \in 1..Len(sent)

NonceRow(n) == [nonce |-> n, expires |-> sent[n].ts + Window]

OnTime(n, k) == accepted[n][k] = TRUE

(* No nonce was accepted twice on time; and one that was is in the table,  *)
(* or too old to be accepted on time again.                                *)
OnceEach ==
    \A n \in 1..MaxRequests :
        /\ n \notin 1..Len(sent) => accepted[n] = <<>>
        /\ \A j, k \in 1..Len(accepted[n]) : OnTime(n, j) /\ OnTime(n, k) => j = k
        /\ \A k \in 1..Len(accepted[n]) :
              OnTime(n, k) => \/ sent[n].ts + Window < now
                              \/ NonceRow(n) \in nonces

AuthInv == AuthTypes /\ Working /\ OnceEach

(* What every handler, every error and the crash do to authentication:     *)
(* a thread goes on with its request or becomes idle.                      *)
Proceeds ==
    /\ UNCHANGED <<now, sent, nonces, accepted>>
    /\ thread' \in [Threads -> [pc : Stages, nonce : Nat]]
    /\ \A t \in Threads : thread'[t].pc # "idle" =>
          thread[t].pc # "idle" /\ thread'[t].nonce = thread[t].nonce
---------------------------------------------------------------------------
LEMMA GoesProceeds ==
    ASSUME AuthTypes, NEW t \in Threads, thread[t].pc # "idle",
           UNCHANGED <<now, sent, nonces, accepted>>,
           Ends(t) \/ \E p \in Stages : p # "idle" /\ Goes(t, p)
    PROVE  Proceeds
  <1> DEFINE Threaded == [Threads -> [pc : Stages, nonce : Nat]]
  <1> SUFFICES /\ thread' \in Threaded
               /\ \A u \in Threads : thread'[u].pc # "idle" =>
                     thread[u].pc # "idle" /\ thread'[u].nonce = thread[u].nonce
    BY DEF Proceeds
  <1>1. thread \in Threaded
    BY DEF AuthTypes
  <1>2. CASE Ends(t)
    <2>1. Idle \in [pc : Stages, nonce : Nat] /\ Idle.pc = "idle"
      BY DEF Idle, Stages
    <2>2. thread' = [thread EXCEPT ![t] = Idle]
      BY <1>2 DEF Ends
    <2> QED  BY <1>1, <2>1, <2>2
  <1>3. ASSUME NEW p \in Stages, p # "idle", Goes(t, p)
        PROVE  /\ thread' \in Threaded
               /\ \A u \in Threads : thread'[u].pc # "idle" =>
                     thread[u].pc # "idle" /\ thread'[u].nonce = thread[u].nonce
    <2>1. thread' = [thread EXCEPT ![t] = [thread[t] EXCEPT !.pc = p]]
      BY <1>3 DEF Goes
    <2>2. [thread[t] EXCEPT !.pc = p] = [pc |-> p, nonce |-> thread[t].nonce]
      BY <1>1
    <2> QED  BY <1>1, <1>3, <2>1, <2>2
  <1>4. Ends(t) \/ \E p \in Stages : p # "idle" /\ Goes(t, p)
    OBVIOUS
  <1> QED  BY <1>2, <1>3, <1>4

(* The handlers of the model bridge.                                       *)
LEMMA BridgeProceeds ==
    ASSUME AuthTypes, NEW t \in Threads, BridgeHandler(t)
    PROVE  Proceeds
  <1>1. /\ thread[t].pc # "idle"
        /\ UNCHANGED <<now, sent, nonces, accepted>>
        /\ Ends(t) \/ \E p \in {"insert"} : Goes(t, p)
    BY DEF BridgeHandler, Handling, Register, RegisterKnown, Ingress,
           ValidateSession, InsertSession, Handoff, RejectHandoff,
           RefuseHandoff, Ack, AckUnchanged, Answers, AppendEvent
  <1>2. Ends(t) \/ \E p \in Stages : p # "idle" /\ Goes(t, p)
    BY <1>1 DEF Stages
  <1> QED  BY <1>1, <1>2, GoesProceeds

(* The handler of the provider route.                                      *)
LEMMA ProviderProceeds ==
    ASSUME AuthTypes, NEW t \in Threads, ProviderHandler(t)
    PROVE  Proceeds
  <1>1. /\ thread[t].pc # "idle"
        /\ UNCHANGED <<now, sent, nonces, accepted>>
        /\ Ends(t) \/ \E p \in {"calling", "processed"} : Goes(t, p)
    BY DEF ProviderHandler, Handling, ConfigurationHold, RefuseRequest,
           RejectExposure, SecretPlaneHold, Call, Process, RecordResponse,
           WithholdAnswer, RefuseAnswer, RecordFailure, Records, Answers,
           AppendEvent
  <1>2. Ends(t) \/ \E p \in Stages : p # "idle" /\ Goes(t, p)
    BY <1>1 DEF Stages
  <1> QED  BY <1>1, <1>2, GoesProceeds

LEMMA FailureProceeds ==
    ASSUME AuthTypes, NEW t \in Threads, HandlerFails(t)
    PROVE  Proceeds
  <1>1. thread[t].pc # "idle" /\ UNCHANGED <<now, sent, nonces, accepted>> /\ Ends(t)
    BY DEF HandlerFails
  <1> QED  BY <1>1, GoesProceeds

LEMMA CrashProceeds ==
    ASSUME AuthTypes, Crash
    PROVE  Proceeds
  <1>1. thread' = [t \in Threads |-> [pc |-> "idle", nonce |-> 0]]
    BY DEF Crash, Idle
  <1>2. UNCHANGED <<now, sent, nonces, accepted>>
    BY DEF Crash
  <1> QED  BY <1>1, <1>2 DEF Proceeds, Stages
---------------------------------------------------------------------------
(* What was accepted on time was signed at an instant.                     *)
LEMMA AcceptedWasSigned ==
    ASSUME AuthInv, NEW n \in 1..MaxRequests, NEW k \in 1..Len(accepted[n])
    PROVE  n \in 1..Len(sent) /\ sent[n].ts \in Nat /\ sent[n].ts + Window \in Nat
  <1>1. n \in 1..Len(sent)
    <2>1. SUFFICES ASSUME n \notin 1..Len(sent)
                   PROVE  FALSE
      OBVIOUS
    <2>2. accepted[n] = <<>>
      BY <2>1 DEF AuthInv, OnceEach
    <2> QED  BY <2>2
  <1>2. sent[n] \in SignedRequests
    BY <1>1 DEF AuthInv, AuthTypes
  <1>3. Window \in Nat
    BY AuthAssumption
  <1> QED  BY <1>1, <1>2, <1>3 DEF SignedRequests

(* A row is deleted only when its nonce is too old, so that nothing else   *)
(* has to be known of a step that accepts nothing.                         *)
LEMMA RowsOutliveTheirWindow ==
    ASSUME AuthInv, UNCHANGED <<now, sent, accepted>>, Unexpired \subseteq nonces'
    PROVE  OnceEach'
  <1> SUFFICES ASSUME NEW n \in 1..MaxRequests, NEW k \in 1..Len(accepted[n]),
                      OnTime(n, k), ~(sent[n].ts + Window < now)
               PROVE  NonceRow(n) \in nonces'
    BY DEF AuthInv, OnceEach, OnTime, NonceRow
  <1>1. NonceRow(n) \in nonces
    BY DEF AuthInv, OnceEach
  <1>3. sent[n].ts + Window \in Nat
    BY AcceptedWasSigned
  <1>4. NonceRow(n).expires >= now
    BY <1>3 DEF NonceRow, AuthInv, AuthTypes
  <1> QED  BY <1>1, <1>4 DEF Unexpired

LEMMA RefusalKeepsAuthInv ==
    ASSUME AuthInv, Proceeds
    PROVE  AuthInv'
  <1>1. AuthTypes' /\ Working'
    BY DEF AuthInv, AuthTypes, Working, Proceeds
  <1>2. OnceEach'
    BY RowsOutliveTheirWindow DEF Proceeds, Unexpired
  <1> QED  BY <1>1, <1>2 DEF AuthInv

(* A nonce that no request had before was never accepted.                  *)
LEMMA SignKeepsAuthInv ==
    ASSUME AuthInv, NEW op \in Ops, Sign(op, now)
    PROVE  AuthInv'
  <1> DEFINE r == [op |-> op, ts |-> now]
  <1>1. /\ sent \in Seq(SignedRequests) /\ r \in SignedRequests
        /\ sent' = Append(sent, r)
        /\ UNCHANGED <<now, nonces, thread, accepted>>
    BY DEF Sign, AuthInv, AuthTypes, SignedRequests
  <1>2. /\ sent' \in Seq(SignedRequests) /\ Len(sent') = Len(sent) + 1
        /\ \A n \in 1..Len(sent) : sent'[n] = sent[n]
        /\ Len(sent) \in Nat
    BY <1>1
  <1>3. AuthTypes' /\ Working'
    BY <1>1, <1>2, AuthAssumption DEF AuthInv, AuthTypes, Working, Sign
  <1>4. ASSUME NEW n \in 1..MaxRequests
        PROVE  /\ n \notin 1..Len(sent') => accepted[n] = <<>>
               /\ \A j, k \in 1..Len(accepted[n]) :
                     OnTime(n, j) /\ OnTime(n, k) => j = k
               /\ \A k \in 1..Len(accepted[n]) :
                     OnTime(n, k) => \/ sent'[n].ts + Window < now
                                     \/ [nonce |-> n, expires |-> sent'[n].ts + Window]
                                           \in nonces
    <2>1. CASE n \in 1..Len(sent)
      BY <1>2, <2>1 DEF AuthInv, OnceEach, NonceRow
    <2>2. CASE n \notin 1..Len(sent)
      <3>1. accepted[n] = <<>>
        BY <2>2 DEF AuthInv, OnceEach
      <3> QED  BY <3>1
    <2> QED  BY <2>1, <2>2
  <1>5. OnceEach'
    BY <1>1, <1>4 DEF OnceEach, OnTime, NonceRow
  <1> QED  BY <1>3, <1>5 DEF AuthInv

LEMMA TickKeepsAuthInv ==
    ASSUME AuthInv, Tick
    PROVE  AuthInv'
  <1>1. /\ now' = now + 1 /\ now \in Nat
        /\ UNCHANGED <<sent, nonces, thread, accepted>>
    BY DEF Tick, AuthInv, AuthTypes
  <1>2. AuthTypes' /\ Working'
    BY <1>1 DEF AuthInv, AuthTypes, Working
  <1>3. ASSUME NEW n \in 1..MaxRequests, NEW k \in 1..Len(accepted[n]), OnTime(n, k)
        PROVE  sent[n].ts + Window < now' \/ NonceRow(n) \in nonces
    <2>2. sent[n].ts + Window \in Nat
      BY AcceptedWasSigned
    <2>3. sent[n].ts + Window < now \/ NonceRow(n) \in nonces
      BY <1>3 DEF AuthInv, OnceEach
    <2> QED  BY <1>1, <2>2, <2>3
  <1>4. OnceEach'
    BY <1>1, <1>3 DEF AuthInv, OnceEach, OnTime, NonceRow
  <1> QED  BY <1>2, <1>4 DEF AuthInv
LEMMA ArriveKeepsAuthInv ==
    ASSUME AuthInv, NEW t \in Threads, NEW n \in DOMAIN sent, Arrive(t, n)
    PROVE  AuthInv'
  <1>1. /\ n \in 1..Len(sent) /\ n \in Nat
        /\ thread' = [thread EXCEPT ![t] = [pc |-> "body", nonce |-> n]]
        /\ UNCHANGED <<now, sent, nonces, accepted>>
    BY DEF Arrive, AuthInv, AuthTypes
  <1>2. AuthTypes' /\ Working'
    BY <1>1 DEF AuthInv, AuthTypes, Working, Stages
  <1>3. OnceEach'
    BY <1>1, RowsOutliveTheirWindow DEF Unexpired
  <1> QED  BY <1>2, <1>3 DEF AuthInv

(* A nonce that was accepted on time has its row as long as it could be    *)
(* accepted on time again, and with the row it is refused.                 *)
LEMMA AcceptKeepsAuthInv ==
    ASSUME AuthInv, NEW t \in Threads, Accept(t)
    PROVE  AuthInv'
  <1> DEFINE n == thread[t].nonce
             b == now <= sent[n].ts + Window
             old == accepted[n]
  <1>1. /\ n \in 1..Len(sent) /\ n \in 1..MaxRequests
        /\ sent[n] \in SignedRequests
        /\ old \in Seq(BOOLEAN) /\ Len(old) \in Nat
    <2>1. n \in 1..Len(sent)
      BY DEF Accept, AuthInv, Working
    <2> QED  BY <2>1, AuthAssumption DEF AuthInv, AuthTypes
  <1>2. /\ UNCHANGED <<now, sent>>
        /\ nonces' = WithNonce(n) /\ ~Consumed(n)
        /\ accepted' = [accepted EXCEPT ![n] = Append(old, b)]
        /\ Ends(t) \/ Goes(t, "handle")
        /\ thread[t].pc # "idle"
    BY DEF Accept
  <1>3. thread' \in [Threads -> [pc : Stages, nonce : Nat]] /\ Working'
    <2>1. CASE Ends(t)
      BY <1>2, <2>1 DEF Ends, Idle, AuthInv, AuthTypes, Working, Stages
    <2>2. CASE Goes(t, "handle")
      <3>1. thread' = [thread EXCEPT ![t] = [pc |-> "handle", nonce |-> n]]
        <4>1. thread' = [thread EXCEPT ![t] = [thread[t] EXCEPT !.pc = "handle"]]
          BY <2>2 DEF Goes
        <4>2. thread[t] \in [pc : Stages, nonce : Nat]
          BY DEF AuthInv, AuthTypes
        <4>3. [thread[t] EXCEPT !.pc = "handle"] = [pc |-> "handle", nonce |-> n]
          BY <4>2
        <4> QED  BY <4>1, <4>3
      <3> QED  BY <1>1, <1>2, <3>1 DEF AuthInv, AuthTypes, Working, Stages
    <2> QED  BY <1>2, <2>1, <2>2
  <1>4. /\ Append(old, b) \in Seq(BOOLEAN)
        /\ Len(Append(old, b)) = Len(old) + 1
        /\ \A k \in 1..Len(old) : Append(old, b)[k] = old[k]
        /\ Append(old, b)[Len(old) + 1] = b
    <2>1. b \in BOOLEAN
      OBVIOUS
    <2> HIDE DEF b, old
    <2> QED  BY <1>1, <2>1, AppendProperties
  <1>5. AuthTypes'
    BY <1>1, <1>2, <1>3, <1>4 DEF AuthInv, AuthTypes
  <1>6. sent[n].ts + Window \in Nat /\ now \in Nat
    BY <1>1, AuthAssumption DEF SignedRequests, AuthInv, AuthTypes
  <1>7. ASSUME NEW k \in 1..Len(old), OnTime(n, k)
        PROVE  sent[n].ts + Window < now
    <2>1. ~(NonceRow(n) \in Unexpired)
      BY <1>2 DEF Consumed, NonceRow
    <2>2. NonceRow(n).expires = sent[n].ts + Window
      BY DEF NonceRow
    <2>3. sent[n].ts + Window < now \/ NonceRow(n) \in nonces
      BY <1>1, <1>7 DEF AuthInv, OnceEach
    <2> QED  BY <1>6, <2>1, <2>2, <2>3 DEF Unexpired
  <1>8. /\ \A k \in 1..Len(old) : accepted'[n][k] = old[k]
        /\ accepted'[n][Len(old) + 1] = b
        /\ Len(accepted'[n]) = Len(old) + 1
        /\ \A m \in 1..MaxRequests : m # n => accepted'[m] = accepted[m]
        /\ NonceRow(n) \in nonces'
    BY <1>1, <1>2, <1>4 DEF AuthInv, AuthTypes, WithNonce, NonceRow
  <1>9. OnceEach'
    <2>1. ASSUME NEW m \in 1..MaxRequests, m # n
          PROVE  /\ m \notin 1..Len(sent) => accepted'[m] = <<>>
                 /\ \A j, k \in 1..Len(accepted'[m]) :
                       OnTime(m, j)' /\ OnTime(m, k)' => j = k
                 /\ \A k \in 1..Len(accepted'[m]) :
                       OnTime(m, k)' => \/ sent[m].ts + Window < now
                                        \/ NonceRow(m) \in nonces'
      <3>1. accepted'[m] = accepted[m]
        BY <1>8, <2>1
      <3>2. ASSUME NEW k \in 1..Len(accepted[m]), OnTime(m, k)
            PROVE  sent[m].ts + Window < now \/ NonceRow(m) \in nonces'
        <4>1. sent[m].ts + Window \in Nat
          BY AcceptedWasSigned
        <4>2. sent[m].ts + Window < now \/ NonceRow(m) \in nonces
          BY <3>2 DEF AuthInv, OnceEach
        <4>3. NonceRow(m).expires = sent[m].ts + Window
          BY DEF NonceRow
        <4> QED  BY <1>2, <1>6, <4>1, <4>2, <4>3 DEF WithNonce, Unexpired
      <3> QED  BY <3>1, <3>2 DEF AuthInv, OnceEach, OnTime
    <2>2. \A j, k \in 1..Len(accepted'[n]) :
             accepted'[n][j] = TRUE /\ accepted'[n][k] = TRUE => j = k
      <3>1. ASSUME NEW k \in 1..Len(old), old[k] = TRUE
            PROVE  ~b
        <4>1. OnTime(n, k)
          BY <3>1 DEF OnTime
        <4>2. sent[n].ts + Window < now
          BY <1>7, <3>1, <4>1
        <4> QED  BY <1>6, <4>2
      <3>2. \A j, k \in 1..Len(old) : old[j] = TRUE /\ old[k] = TRUE => j = k
        BY <1>1 DEF AuthInv, OnceEach, OnTime
      <3>3. \A k \in 1..Len(accepted'[n]) : k \in 1..Len(old) \/ k = Len(old) + 1
        BY <1>1, <1>8
      <3> QED  BY <1>8, <3>1, <3>2, <3>3
    <2>3. n \in 1..Len(sent) /\ NonceRow(n) \in nonces'
      BY <1>1, <1>8
    <2>4. UNCHANGED <<now, sent>>
      BY <1>2
    <2> HIDE DEF n
    <2> QED  BY <2>1, <2>2, <2>3, <2>4 DEF OnceEach, OnTime, NonceRow
  <1> QED  BY <1>2, <1>3, <1>5, <1>9 DEF AuthInv
LEMMA ReplayKeepsAuthInv ==
    ASSUME AuthInv, NEW t \in Threads, RefuseReplay(t)
    PROVE  AuthInv'
  <1>1. thread[t].pc # "idle" /\ UNCHANGED <<now, sent, nonces, accepted>> /\ Ends(t)
    BY DEF RefuseReplay
  <1> QED  BY <1>1, GoesProceeds, RefusalKeepsAuthInv DEF AuthInv

(* Whether the state service consumed the nonce or not, no row that counts *)
(* is lost.                                                                *)
LEMMA UnansweredKeepsAuthInv ==
    ASSUME AuthInv, NEW t \in Threads, ConsumeUnanswered(t)
    PROVE  AuthInv'
  <1>1. UNCHANGED <<now, sent, accepted>> /\ Ends(t)
    BY DEF ConsumeUnanswered
  <1>2. Unexpired \subseteq nonces'
    BY DEF ConsumeUnanswered, Unexpired, WithNonce
  <1>3. AuthTypes' /\ Working'
    BY <1>1 DEF AuthInv, AuthTypes, Working, Ends, Idle, Stages
  <1>4. OnceEach'
    BY <1>1, <1>2, RowsOutliveTheirWindow
  <1> QED  BY <1>3, <1>4 DEF AuthInv

(* Every step of the service, one case for each action.                    *)
LEMMA StepKeepsAuthInv ==
    ASSUME AuthInv, [Next]_serviceVars
    PROVE  AuthInv'
  <1>1. ASSUME NEW op \in Ops, Sign(op, now)
        PROVE  AuthInv'
    BY <1>1, SignKeepsAuthInv
  <1>2. ASSUME Tick
        PROVE  AuthInv'
    BY <1>2, TickKeepsAuthInv
  <1>3. ASSUME NEW t \in Threads, Authenticate(t)
        PROVE  AuthInv'
    BY <1>3, ArriveKeepsAuthInv, AcceptKeepsAuthInv, ReplayKeepsAuthInv,
       UnansweredKeepsAuthInv DEF Authenticate
  <1>4. ASSUME NEW t \in Threads,
               BridgeHandler(t) \/ ProviderHandler(t) \/ HandlerFails(t)
        PROVE  AuthInv'
    <2>1. AuthTypes
      BY DEF AuthInv
    <2>2. Proceeds
      BY <1>4, <2>1, BridgeProceeds, ProviderProceeds, FailureProceeds
    <2> QED  BY <2>2, RefusalKeepsAuthInv
  <1>5. ASSUME Crash
        PROVE  AuthInv'
    BY <1>5, CrashProceeds, RefusalKeepsAuthInv DEF AuthInv
  <1>6. ASSUME UNCHANGED serviceVars
        PROVE  AuthInv'
    BY <1>6 DEF serviceVars, authVars, AuthInv, AuthTypes, Working, OnceEach,
                OnTime, NonceRow
  <1> QED  BY <1>1, <1>2, <1>3, <1>4, <1>5, <1>6 DEF Next

LEMMA InitAuthInv ==
    ASSUME Init
    PROVE  AuthInv
  <1>1. /\ now = 0 /\ sent = <<>> /\ nonces = {}
        /\ thread = [t \in Threads |-> Idle]
        /\ accepted = [n \in 1..MaxRequests |-> <<>>]
    BY DEF Init, AuthInit
  <1>2. AuthTypes /\ Working
    BY <1>1, AuthAssumption DEF AuthTypes, Working, Idle, Stages
  <1>3. OnceEach
    BY <1>1 DEF OnceEach
  <1> QED  BY <1>2, <1>3 DEF AuthInv

LEMMA AuthInvImpliesOnce ==
    ASSUME AuthInv
    PROVE  AcceptedOncePerWindow
  <1> SUFFICES ASSUME NEW n \in DOMAIN sent
               PROVE  Cardinality({k \in DOMAIN accepted[n] : accepted[n][k]}) <= 1
    BY DEF AcceptedOncePerWindow
  <1> DEFINE S == {k \in DOMAIN accepted[n] : accepted[n][k]}
  <1>1. n \in 1..MaxRequests /\ accepted[n] \in Seq(BOOLEAN)
    <2>1. /\ sent \in Seq(SignedRequests) /\ Len(sent) <= MaxRequests
          /\ accepted \in [1..MaxRequests -> Seq(BOOLEAN)]
      BY DEF AuthInv, AuthTypes
    <2>2. n \in 1..Len(sent) /\ Len(sent) \in Nat
      BY <2>1, LenProperties
    <2>3. MaxRequests \in Nat
      BY AuthAssumption
    <2>4. n \in 1..MaxRequests
      BY <2>1, <2>2, <2>3
    <2> QED  BY <2>1, <2>4
  <1>2. \A k \in S : k \in 1..Len(accepted[n]) /\ OnTime(n, k)
    BY <1>1 DEF OnTime
  <1>3. \A j, k \in S : j = k
    BY <1>1, <1>2 DEF AuthInv, OnceEach
  <1>4. CASE S = {}
    <2>1. Cardinality({}) = 0
      BY FS_EmptySet
    <2> QED  BY <1>4, <2>1
  <1>5. ASSUME S # {}
        PROVE  Cardinality(S) <= 1
    <2>1. PICK j \in S : TRUE
      BY <1>5
    <2>2. S = {j}
      BY <1>3, <2>1
    <2>3. Cardinality({j}) = 1
      BY FS_Singleton
    <2> QED  BY <2>2, <2>3
  <1> QED  BY <1>4, <1>5
---------------------------------------------------------------------------
(* authenticate, in every reachable state, however many threads, copies,   *)
(* restarts and lost answers there are, and however long the window is: a  *)
(* signed request is accepted at most once with a timestamp that is in the *)
(* window.                                                                 *)
THEOREM AcceptedOnce == Spec => []AcceptedOncePerWindow
  <1>1. Init => AuthInv
    BY InitAuthInv
  <1>2. AuthInv /\ [Next]_serviceVars => AuthInv'
    BY StepKeepsAuthInv
  <1>3. AuthInv => AcceptedOncePerWindow
    BY AuthInvImpliesOnce
  <1> QED  BY <1>1, <1>2, <1>3, PTL DEF Spec
---------------------------------------------------------------------------
IsSeq(s) == \E S : s \in Seq(S)

(* A handoff that is stored was authorized, and an ingress whose payload   *)
(* was kept points to a signed request without human data.                 *)
HandoffsKept ==
    /\ IsSeq(handoffs)
    /\ \A i \in 1..Len(handoffs) :
          "human" \in DOMAIN handoffs[i] /\ Authorized(handoffs[i].human)

Declares(e) ==
    e.type = "INGRESS" /\ e.subject = "payload" =>
        e.req \in 1..Len(sent) /\ sent[e.req].op.human = NoHuman

EventsKept ==
    /\ IsSeq(ledger)
    /\ \A i \in 1..Len(ledger) : Declares(ledger[i])

KeptInv == AuthInv /\ HandoffsKept /\ EventsKept

(* The cascade of the gates lets only authorized representations through.  *)
LEMMA GateAuthorizes ==
    ASSUME NEW human, human = NoHuman \/ human \subseteq HumanFields,
           Gate(human) = "PASS"
    PROVE  Authorized(human)
  BY DEF Gate, omega_gate, evaluate_hdb, Authorized, HumanFields, NoHuman

LEMMA AppendedTo ==
    ASSUME NEW s, IsSeq(s), NEW e
    PROVE  /\ IsSeq(Append(s, e)) /\ Len(s) \in Nat
           /\ Len(Append(s, e)) = Len(s) + 1
           /\ \A i \in 1..Len(s) : Append(s, e)[i] = s[i]
           /\ Append(s, e)[Len(s) + 1] = e
  <1>1. PICK S : s \in Seq(S)
    BY DEF IsSeq
  <1>2. s \in Seq(S \cup {e}) /\ e \in S \cup {e}
    BY <1>1
  <1>3. Append(s, e) \in Seq(S \cup {e})
    BY <1>2
  <1> QED  BY <1>2, <1>3 DEF IsSeq

(* One more event that is no ingress of a payload with human data.         *)
LEMMA EventAppended ==
    ASSUME KeptInv, NEW e, ledger' = Append(ledger, e), Declares(e), sent' = sent
    PROVE  EventsKept'
  <1>1. /\ IsSeq(ledger') /\ Len(ledger) \in Nat
        /\ Len(ledger') = Len(ledger) + 1
        /\ \A i \in 1..Len(ledger) : ledger'[i] = ledger[i]
        /\ ledger'[Len(ledger) + 1] = e
    BY AppendedTo DEF KeptInv, EventsKept
  <1>2. ASSUME NEW i \in 1..Len(ledger')
        PROVE  Declares(ledger'[i])
    <2>1. CASE i \in 1..Len(ledger)
      BY <1>1, <2>1 DEF KeptInv, EventsKept
    <2>2. CASE i \notin 1..Len(ledger)
      BY <1>1, <2>2
    <2> QED  BY <2>1, <2>2
  <1> QED  BY <1>1, <1>2 DEF EventsKept, Declares

LEMMA OtherEvent ==
    ASSUME KeptInv, sent' = sent,
           NEW type, NEW decision, NEW req, NEW subject, type # "INGRESS",
           ledger' = Appended(LedgerEvent(type, decision, req, subject))
    PROVE  EventsKept'
  <1> DEFINE e == LedgerEvent(type, decision, req, subject)
  <1>1. Declares(e)
    BY DEF Declares, LedgerEvent
  <1>2. ledger' = Append(ledger, e)
    BY DEF Appended
  <1> HIDE DEF e
  <1> QED  BY <1>1, <1>2, EventAppended

(* The request a working thread works on.                                  *)
LEMMA Request ==
    ASSUME AuthInv, NEW t \in Threads, thread[t].pc # "idle"
    PROVE  /\ thread[t].nonce \in 1..Len(sent)
           /\ Op(t) = sent[thread[t].nonce].op /\ Op(t) \in Ops
  <1>1. thread[t].nonce \in 1..Len(sent)
    BY DEF AuthInv, Working
  <1>2. sent[thread[t].nonce] \in SignedRequests
    BY <1>1 DEF AuthInv, AuthTypes
  <1> QED  BY <1>1, <1>2 DEF Op, SignedRequests

LEMMA IngressKeeps ==
    ASSUME KeptInv, NEW t \in Threads, Ingress(t)
    PROVE  EventsKept' /\ UNCHANGED handoffs
  <1> DEFINE subject == IF Gate(Op(t).human) = "PASS" /\ Op(t).human = NoHuman
                        THEN "payload" ELSE "payload hash"
             e == LedgerEvent("INGRESS", Gate(Op(t).human), thread[t].nonce, subject)
  <1>1. /\ ledger' = Append(ledger, e) /\ UNCHANGED <<sent, handoffs>>
        /\ thread[t].pc # "idle"
    BY DEF Ingress, AppendEvent, Appended, Handling
  <1>2. ASSUME subject = "payload"
        PROVE  thread[t].nonce \in 1..Len(sent)
               /\ sent[thread[t].nonce].op.human = NoHuman
    BY <1>1, <1>2, Request DEF KeptInv
  <1>3. Declares(e)
    BY <1>2 DEF Declares, LedgerEvent
  <1> HIDE DEF e
  <1> QED  BY <1>1, <1>3, EventAppended
LEMMA HandoffKeeps ==
    ASSUME KeptInv, NEW t \in Threads, Handoff(t)
    PROVE  EventsKept' /\ HandoffsKept'
  <1> DEFINE op == Op(t)
             h == [session |-> op.session, seq |-> NextSequence(op.session),
                   from |-> op.from, to |-> op.to, parent |-> op.parent,
                   contract |-> op.contract, human |-> op.human,
                   status |-> "PENDING"]
  <1>1. /\ op.name = "handoff" /\ Gate(op.human) = "PASS" /\ thread[t].pc # "idle"
        /\ handoffs' = Append(handoffs, h) /\ sent' = sent
        /\ ledger' = Appended(LedgerEvent("MODEL_BRIDGE_HANDOFF", "PASS",
                                          thread[t].nonce, Len(handoffs) + 1))
    BY DEF Handoff, Handling
  <1>2. EventsKept'
    BY <1>1, OtherEvent
  <1>3. Authorized(op.human)
    <2>1. op \in Ops
      BY <1>1, Request DEF KeptInv
    <2> QED  BY <1>1, <2>1, ServiceAssumption, GateAuthorizes
  <1>4. "human" \in DOMAIN h /\ Authorized(h.human)
    BY <1>3
  <1>5. /\ IsSeq(handoffs') /\ Len(handoffs) \in Nat
        /\ Len(handoffs') = Len(handoffs) + 1
        /\ \A i \in 1..Len(handoffs) : handoffs'[i] = handoffs[i]
        /\ handoffs'[Len(handoffs) + 1] = h
    <2> HIDE DEF h
    <2> QED  BY <1>1, AppendedTo DEF KeptInv, HandoffsKept
  <1>6. ASSUME NEW i \in 1..Len(handoffs')
        PROVE  "human" \in DOMAIN handoffs'[i] /\ Authorized(handoffs'[i].human)
    <2> HIDE DEF h
    <2>1. CASE i \in 1..Len(handoffs)
      <3>1. handoffs'[i] = handoffs[i]
        BY <1>5, <2>1
      <3> QED  BY <2>1, <3>1 DEF KeptInv, HandoffsKept
    <2>2. CASE i \notin 1..Len(handoffs)
      <3>1. handoffs'[i] = h
        BY <1>5, <2>2
      <3> QED  BY <1>4, <3>1
    <2> QED  BY <2>1, <2>2
  <1>7. HandoffsKept'
    BY <1>5, <1>6 DEF HandoffsKept, Authorized
  <1> QED  BY <1>2, <1>7

(* Only the status of a row changes.                                       *)
LEMMA AckKeeps ==
    ASSUME KeptInv, NEW t \in Threads, Ack(t)
    PROVE  EventsKept' /\ HandoffsKept'
  <1> DEFINE a == Op(t).handoff
             acked == [handoffs[a] EXCEPT !.status = "ACKED"]
  <1>1. /\ handoffs' = [handoffs EXCEPT ![a] = acked] /\ sent' = sent
        /\ ledger' = Appended(LedgerEvent("MODEL_BRIDGE_HANDOFF_ACK", "PASS",
                                          thread[t].nonce, a))
    BY DEF Ack
  <1>2. EventsKept'
    BY <1>1, OtherEvent
  <1>3. DOMAIN acked = DOMAIN handoffs[a]
    OBVIOUS
  <1>4. "human" \in DOMAIN handoffs[a] => acked["human"] = handoffs[a]["human"]
    OBVIOUS
  <1>5. PICK S : handoffs \in Seq(S)
    BY DEF KeptInv, HandoffsKept, IsSeq
  <1>6. /\ handoffs' \in Seq(S \cup {acked}) /\ Len(handoffs') = Len(handoffs)
        /\ \A i \in 1..Len(handoffs) :
              handoffs'[i] = handoffs[i] \/ (i = a /\ handoffs'[i] = acked)
    <2> HIDE DEF acked, a
    <2> DEFINE n == Len(handoffs)
    <2>1. n \in Nat /\ handoffs \in [1..n -> S]
      BY <1>5
    <2>2. handoffs' \in [1..n -> S \cup {acked}]
      BY <1>1, <2>1
    <2>3. handoffs' \in Seq(S \cup {acked}) /\ Len(handoffs') = n
      BY <2>1, <2>2, SeqDef, LenProperties
    <2>4. \A i \in 1..n :
             handoffs'[i] = handoffs[i] \/ (i = a /\ handoffs'[i] = acked)
      BY <1>1, <2>1
    <2> QED  BY <2>3, <2>4
  <1>7. ASSUME NEW i \in 1..Len(handoffs')
        PROVE  "human" \in DOMAIN handoffs'[i] /\ Authorized(handoffs'[i].human)
    <2> HIDE DEF acked
    <2>1. "human" \in DOMAIN handoffs[i] /\ Authorized(handoffs[i].human)
      BY <1>6 DEF KeptInv, HandoffsKept
    <2>2. handoffs'[i].human = handoffs[i].human /\ "human" \in DOMAIN handoffs'[i]
      BY <1>3, <1>4, <1>6, <2>1
    <2> QED  BY <2>1, <2>2
  <1>8. IsSeq(handoffs')
    BY <1>6 DEF IsSeq
  <1>9. HandoffsKept'
    BY <1>7, <1>8 DEF HandoffsKept, Authorized
  <1> QED  BY <1>2, <1>9

LEMMA UnchangedKeeps ==
    ASSUME KeptInv, UNCHANGED <<sent, ledger, handoffs>>
    PROVE  EventsKept' /\ HandoffsKept'
  BY DEF KeptInv, EventsKept, HandoffsKept, Declares, IsSeq, Authorized

(* The other handlers of the bridge.                                       *)
LEMMA BridgeKeeps ==
    ASSUME KeptInv, NEW t \in Threads, BridgeHandler(t)
    PROVE  EventsKept' /\ HandoffsKept'
  <1>1. HandoffsKept /\ UNCHANGED handoffs => HandoffsKept'
    BY DEF HandoffsKept, IsSeq, Authorized
  <1>2. HandoffsKept
    BY DEF KeptInv
  <1>3. CASE Register(t)
    <2>1. UNCHANGED <<sent, handoffs>>
      BY <1>3 DEF Register
    <2>2. ledger' = Appended(LedgerEvent("CONTRACT_ARTIFACT_REGISTERED", "PASS",
                                         thread[t].nonce, Op(t).content))
      BY <1>3 DEF Register
    <2> QED  BY <1>1, <1>2, <2>1, <2>2, OtherEvent
  <1>4. CASE InsertSession(t)
    <2>1. UNCHANGED <<sent, handoffs>>
      BY <1>4 DEF InsertSession
    <2>2. ledger' = Appended(LedgerEvent("MODEL_BRIDGE_SESSION_CREATED", "PASS",
                                         thread[t].nonce, Len(sessions) + 1))
      BY <1>4 DEF InsertSession
    <2> QED  BY <1>1, <1>2, <2>1, <2>2, OtherEvent
  <1>5. CASE RejectHandoff(t)
    <2>1. UNCHANGED <<sent, handoffs>>
      BY <1>5 DEF RejectHandoff, AppendEvent
    <2>2. ledger' = Appended(LedgerEvent("MODEL_BRIDGE_HANDOFF_REJECTED",
                                         Gate(Op(t).human), thread[t].nonce, 0))
      BY <1>5 DEF RejectHandoff, AppendEvent
    <2> QED  BY <1>1, <1>2, <2>1, <2>2, OtherEvent
  <1>6. CASE Ingress(t)
    BY <1>1, <1>2, <1>6, IngressKeeps
  <1>7. CASE Handoff(t)
    BY <1>7, HandoffKeeps
  <1>8. CASE Ack(t)
    BY <1>8, AckKeeps
  <1>9. CASE RegisterKnown(t) \/ ValidateSession(t) \/ RefuseHandoff(t)
             \/ AckUnchanged(t)
    <2>1. UNCHANGED <<sent, ledger, handoffs>>
      BY <1>9 DEF RegisterKnown, ValidateSession, RefuseHandoff, AckUnchanged,
                  Answers, bridgeVars
    <2> QED  BY <2>1, UnchangedKeeps
  <1> QED  BY <1>3, <1>4, <1>5, <1>6, <1>7, <1>8, <1>9 DEF BridgeHandler
(* No event of the provider route is an ingress.                           *)
LEMMA ProviderKeeps ==
    ASSUME KeptInv, NEW t \in Threads, ProviderHandler(t)
    PROVE  EventsKept' /\ HandoffsKept'
  <1>1. ASSUME NEW type, NEW decision, NEW subject, type # "INGRESS",
               Records(t, type, decision, subject)
        PROVE  EventsKept' /\ HandoffsKept'
    <2>1. /\ ledger' = Appended(LedgerEvent(type, decision, thread[t].nonce,
                                             subject))
          /\ UNCHANGED <<sent, handoffs>>
      BY <1>1 DEF Records, AppendEvent
    <2>2. EventsKept'
      BY <1>1, <2>1, OtherEvent
    <2>3. HandoffsKept'
      BY <2>1 DEF KeptInv, HandoffsKept, IsSeq, Authorized
    <2> QED  BY <2>2, <2>3
  <1>2. CASE RefuseRequest(t) \/ Call(t) \/ Process(t) \/ RefuseAnswer(t)
    <2>1. UNCHANGED <<sent, ledger, handoffs>>
      BY <1>2 DEF RefuseRequest, Call, Process, RefuseAnswer, Answers, bridgeVars
    <2> QED  BY <2>1, UnchangedKeeps
  <1>3. CASE \/ ConfigurationHold(t) \/ RejectExposure(t) \/ SecretPlaneHold(t)
             \/ RecordResponse(t) \/ RecordFailure(t) \/ WithholdAnswer(t)
    BY <1>1, <1>3 DEF ConfigurationHold, RejectExposure, SecretPlaneHold,
                      RecordResponse, RecordFailure, WithholdAnswer
  <1> QED  BY <1>2, <1>3 DEF ProviderHandler

(* Requests that were signed before keep their numbers.                    *)
LEMMA SignKeeps ==
    ASSUME KeptInv, NEW op \in Ops, Sign(op, now), UNCHANGED bridgeVars
    PROVE  EventsKept' /\ HandoffsKept'
  <1> DEFINE r == [op |-> op, ts |-> now]
  <1>1. sent' = Append(sent, r) /\ UNCHANGED <<ledger, handoffs>>
    BY DEF Sign, bridgeVars
  <1>2. IsSeq(sent)
    BY DEF KeptInv, AuthInv, AuthTypes, IsSeq
  <1>3. /\ Len(sent) \in Nat /\ Len(sent') = Len(sent) + 1
        /\ \A n \in 1..Len(sent) : sent'[n] = sent[n]
    BY <1>1, <1>2, AppendedTo
  <1>4. \A e : Declares(e) => Declares(e)'
    BY <1>3 DEF Declares
  <1>5. HandoffsKept'
    BY <1>1 DEF KeptInv, HandoffsKept, IsSeq, Authorized
  <1>6. EventsKept'
    BY <1>1, <1>4 DEF KeptInv, EventsKept, IsSeq
  <1> QED  BY <1>5, <1>6

LEMMA StepKeepsKeptInv ==
    ASSUME KeptInv, [Next]_serviceVars
    PROVE  KeptInv'
  <1>1. AuthInv'
    BY StepKeepsAuthInv DEF KeptInv
  <1>2. ASSUME NEW op \in Ops, Sign(op, now), UNCHANGED bridgeVars
        PROVE  EventsKept' /\ HandoffsKept'
    BY <1>2, SignKeeps
  <1>3. ASSUME \/ Tick /\ UNCHANGED bridgeVars
               \/ \E t \in Threads : Authenticate(t) /\ UNCHANGED bridgeVars
               \/ \E t \in Threads : HandlerFails(t)
               \/ Crash
               \/ UNCHANGED serviceVars
        PROVE  EventsKept' /\ HandoffsKept'
    <2>1. UNCHANGED <<sent, ledger, handoffs>>
      BY <1>3 DEF Tick, Authenticate, Arrive, Accept, RefuseReplay,
                  ConsumeUnanswered, HandlerFails, Crash, serviceVars, authVars,
                  bridgeVars
    <2> QED  BY <2>1, UnchangedKeeps
  <1>4. ASSUME NEW t \in Threads, BridgeHandler(t) \/ ProviderHandler(t)
        PROVE  EventsKept' /\ HandoffsKept'
    BY <1>4, BridgeKeeps, ProviderKeeps
  <1> QED  BY <1>1, <1>2, <1>3, <1>4 DEF Next, KeptInv

LEMMA InitKeptInv ==
    ASSUME Init
    PROVE  KeptInv
  <1>1. PICK d \in Databases : ledger = d.ledger /\ handoffs = d.handoffs
    BY DEF Init, BridgeInit
  <1>2. /\ handoffs \in Seq({handoffs[i] : i \in DOMAIN handoffs})
        /\ "human" \in HandoffColumns
        /\ ledger \in Seq({ledger[i] : i \in DOMAIN ledger})
        /\ \A i \in DOMAIN handoffs :
              "human" \in DOMAIN handoffs[i] /\ Authorized(handoffs[i].human)
        /\ \A i \in DOMAIN ledger :
              ~(ledger[i].type = "INGRESS" /\ ledger[i].subject = "payload")
    BY <1>1, ServiceAssumption DEF HandoffColumns
  <1>3. IsSeq(handoffs) /\ IsSeq(ledger)
    BY <1>2 DEF IsSeq
  <1>4. DOMAIN handoffs = 1..Len(handoffs) /\ DOMAIN ledger = 1..Len(ledger)
    BY <1>3 DEF IsSeq
  <1>5. HandoffsKept /\ EventsKept
    BY <1>2, <1>3, <1>4 DEF HandoffsKept, EventsKept, Declares
  <1> QED  BY <1>5, InitAuthInv DEF KeptInv

LEMMA KeptInvImpliesAuthorized ==
    ASSUME KeptInv
    PROVE  KeptPayloadsAreAuthorized
  <1>1. DOMAIN handoffs = 1..Len(handoffs) /\ DOMAIN ledger = 1..Len(ledger)
    BY DEF KeptInv, HandoffsKept, EventsKept, IsSeq
  <1> QED  BY <1>1 DEF KeptInv, HandoffsKept, EventsKept, Declares,
                       KeptPayloadsAreAuthorized
---------------------------------------------------------------------------
(* ingress and create_cross_model_handoff, over any database the service   *)
(* wrote: what is kept of a payload is allowed to be kept, whatever        *)
(* declarations come in, in any order of handlers and faults.              *)
THEOREM KeptIsAuthorized == Spec => []KeptPayloadsAreAuthorized
  <1>1. Init => KeptInv
    BY InitKeptInv
  <1>2. KeptInv /\ [Next]_serviceVars => KeptInv'
    BY StepKeepsKeptInv
  <1>3. KeptInv => KeptPayloadsAreAuthorized
    BY KeptInvImpliesAuthorized
  <1> QED  BY <1>1, <1>2, <1>3, PTL DEF Spec
---------------------------------------------------------------------------
(* Positions in a table or in the ledger, and their ranks.                 *)
LEMMA Positions ==
    ASSUME NEW n \in Nat, NEW T, T \subseteq 1..n
    PROVE  IsFiniteSet(T) /\ Cardinality(T) \in Nat
  <1>1. IsFiniteSet(1..n)
    BY FS_Interval
  <1>2. IsFiniteSet(T)
    BY <1>1, FS_Subset
  <1> QED  BY <1>2, FS_CardinalityType

LEMMA RankType ==
    ASSUME NEW n \in Nat, NEW T, T \subseteq 1..n, NEW i \in T
    PROVE  Rank(T, i) \in 1..Cardinality(T)
  <1> DEFINE U == {k \in T : k <= i}
  <1>1. IsFiniteSet(T) /\ Cardinality(T) \in Nat
    BY Positions
  <1>2. IsFiniteSet(U) /\ Cardinality(U) <= Cardinality(T)
    BY <1>1, FS_Subset
  <1>3. Cardinality(U) \in Nat
    BY <1>2, FS_CardinalityType
  <1>4. U # {}
    <2>1. i \in U
      OBVIOUS
    <2> QED  BY <2>1
  <1>5. Cardinality(U) # 0
    BY <1>2, <1>4, FS_EmptySet
  <1>6. Rank(T, i) = Cardinality(U)
    BY DEF Rank
  <1> QED  BY <1>1, <1>2, <1>3, <1>5, <1>6

(* A later position has a larger rank ...                                  *)
LEMMA RankGrows ==
    ASSUME NEW n \in Nat, NEW T, T \subseteq 1..n,
           NEW i \in T, NEW j \in T, i < j
    PROVE  Rank(T, i) < Rank(T, j)
  <1> DEFINE U == {k \in T : k <= i}
             V == {k \in T : k <= j}
  <1>1. IsFiniteSet(T)
    BY Positions
  <1>2. IsFiniteSet(V)
    BY <1>1, FS_Subset
  <1>3. U \subseteq V /\ j \in V \ U
    <2>1. \A k \in T : k \in Int
      OBVIOUS
    <2>2. \A k \in T : k <= i => k <= j
      BY <2>1
    <2>3. j <= j /\ ~(j <= i)
      BY <2>1
    <2> QED  BY <2>2, <2>3
  <1>4. /\ IsFiniteSet(U) /\ Cardinality(U) <= Cardinality(V)
        /\ Cardinality(V) = Cardinality(U) => V = U
    <2> HIDE DEF U, V
    <2>1. U \in SUBSET V
      BY <1>3
    <2> QED  BY <1>2, <2>1, FS_Subset
  <1>5. Cardinality(U) \in Nat /\ Cardinality(V) \in Nat
    BY <1>2, <1>4, FS_CardinalityType
  <1>6. Rank(T, i) = Cardinality(U) /\ Rank(T, j) = Cardinality(V)
    BY DEF Rank
  <1> HIDE DEF U, V
  <1> QED  BY <1>3, <1>4, <1>5, <1>6

(* ... so that every rank is one of a position.                            *)
LEMMA RanksAreAll ==
    ASSUME NEW n \in Nat, NEW T, T \subseteq 1..n,
           NEW m \in 1..Cardinality(T)
    PROVE  \E i \in T : Rank(T, i) = m
  <1> DEFINE c == Cardinality(T)
             f == [i \in T |-> Rank(T, i)]
  <1>1. IsFiniteSet(T) /\ c \in Nat
    BY Positions
  <1>2. IsFiniteSet(1..c) /\ Cardinality(1..c) = c
    <2> HIDE DEF c
    <2> QED  BY <1>1, FS_Interval
  <1>3. f \in [T -> 1..c]
    <2>1. \A i \in T : Rank(T, i) \in 1..c
      BY RankType
    <2> HIDE DEF c
    <2> QED  BY <2>1
  <1>4. \A i, j \in T : f[i] = f[j] => i = j
    <2> SUFFICES ASSUME NEW i \in T, NEW j \in T, f[i] = f[j], i # j
                 PROVE  FALSE
      OBVIOUS
    <2>1. i \in Nat /\ j \in Nat
      OBVIOUS
    <2>2. Rank(T, i) = Rank(T, j)
      OBVIOUS
    <2>3. Rank(T, i) \in 1..c /\ Rank(T, j) \in 1..c
      BY RankType
    <2>4. Rank(T, i) \in Int /\ Rank(T, j) \in Int
      <3> HIDE DEF c
      <3> QED  BY <1>1, <2>3
    <2> HIDE DEF f
    <2>5. CASE i < j
      <3>1. Rank(T, i) < Rank(T, j)
        BY <2>5, RankGrows
      <3> QED  BY <2>2, <2>4, <3>1
    <2>6. CASE j < i
      <3>1. Rank(T, j) < Rank(T, i)
        BY <2>6, RankGrows
      <3> QED  BY <2>2, <2>4, <3>1
    <2> QED  BY <2>1, <2>5, <2>6
  <1>5. f \in Injection(T, 1..c)
    <2> HIDE DEF f, c
    <2> QED  BY <1>3, <1>4 DEF Injection, IsInjective
  <1>6. f \in Surjection(T, 1..c)
    <2> HIDE DEF f
    <2>1. Cardinality(T) = Cardinality(1..c)
      BY <1>2
    <2> HIDE DEF c
    <2> QED  BY <1>2, <1>5, <2>1, FS_Injection
  <1>7. PICK i \in T : f[i] = m
    <2> HIDE DEF f
    <2>1. m \in 1..c
      OBVIOUS
    <2> HIDE DEF c
    <2> QED  BY <1>6, <2>1 DEF Surjection
  <1> QED  BY <1>7

(* One position more, after the others.                                    *)
LEMMA RankLast ==
    ASSUME NEW n \in Nat, NEW T, T \subseteq 1..n
    PROVE  /\ Cardinality(T \cup {n + 1}) = Cardinality(T) + 1
           /\ Rank(T \cup {n + 1}, n + 1) = Cardinality(T) + 1
           /\ \A i \in T : Rank(T \cup {n + 1}, i) = Rank(T, i)
  <1>1. IsFiniteSet(T)
    BY Positions
  <1>5. \A k \in T : k \in Nat /\ k <= n
    OBVIOUS
  <1>6. n + 1 \notin T
    BY <1>5
  <1>2. Cardinality(T \cup {n + 1}) = Cardinality(T) + 1
    BY <1>1, <1>6, FS_AddElement
  <1>3. {k \in T \cup {n + 1} : k <= n + 1} = T \cup {n + 1}
    <2>1. \A k \in T \cup {n + 1} : k <= n + 1
      BY <1>5
    <2> QED  BY <2>1
  <1>4. ASSUME NEW i \in T
        PROVE  {k \in T \cup {n + 1} : k <= i} = {k \in T : k <= i}
    BY <1>5
  <1> QED  BY <1>2, <1>3, <1>4 DEF Rank
---------------------------------------------------------------------------
(* The tables of the bridge: their rows, and what a session that is being  *)
(* created rests on since its contract was validated.                      *)
Rows ==
    /\ IsSeq(handoffs) /\ IsSeq(sessions)
    /\ \A i \in 1..Len(handoffs) : DOMAIN handoffs[i] = HandoffColumns

Inserting ==
    \A t \in Threads : thread[t].pc = "insert" => RegistryHolds(Op(t).contract)

HistoryInv == AuthInv /\ Rows /\ Inserting /\ HandoffsFormAHistory

(* The tables change in four handlers.                                     *)
LEMMA TableSteps ==
    ASSUME [Next]_serviceVars
    PROVE  \/ UNCHANGED <<artifacts, sessions, handoffs>>
           \/ \E t \in Threads :
                 Register(t) \/ InsertSession(t) \/ Handoff(t) \/ Ack(t)
  <1>1. ASSUME NEW t \in Threads, BridgeHandler(t)
        PROVE  \/ UNCHANGED <<artifacts, sessions, handoffs>>
               \/ Register(t) \/ InsertSession(t) \/ Handoff(t) \/ Ack(t)
    BY <1>1 DEF BridgeHandler, RegisterKnown, Ingress, ValidateSession,
                RejectHandoff, RefuseHandoff, AckUnchanged, Answers,
                AppendEvent, bridgeVars
  <1>2. ASSUME NEW t \in Threads, ProviderHandler(t)
        PROVE  UNCHANGED <<artifacts, sessions, handoffs>>
    BY <1>2 DEF ProviderHandler, ConfigurationHold, RefuseRequest,
                RejectExposure, SecretPlaneHold, Call, Process, RecordResponse,
                WithholdAnswer, RefuseAnswer, RecordFailure, Records,
                AppendEvent, Answers, bridgeVars
  <1>3. ASSUME \/ UNCHANGED bridgeVars
               \/ \E t \in Threads : HandlerFails(t)
               \/ Crash \/ UNCHANGED serviceVars
        PROVE  UNCHANGED <<artifacts, sessions, handoffs>>
    BY <1>3 DEF HandlerFails, Crash, serviceVars, bridgeVars
  <1> QED  BY <1>1, <1>2, <1>3 DEF Next

(* A thread comes to the insertion of its session by the validation, and   *)
(* to the provider by a call.                                              *)
LEMMA Entries ==
    ASSUME AuthInv, [Next]_serviceVars, NEW u \in Threads,
           thread'[u].pc \in {"insert", "calling"}
    PROVE  /\ Op(u)' = Op(u)
           /\ \/ thread[u].pc = thread'[u].pc
              \/ thread'[u].pc = "insert" /\ RegistryHolds(Op(u).contract)
              \/ thread'[u].pc = "calling" /\ Call(u)
  <1> DEFINE Stays == Op(u)' = Op(u) /\ thread[u].pc = thread'[u].pc
  <1>0. thread \in [Threads -> [pc : Stages, nonce : Nat]]
    BY DEF AuthInv, AuthTypes
  <1>1. ASSUME NEW t \in Threads, Ends(t), sent' = sent
        PROVE  Stays
    <2>1. thread'[u] = thread[u]
      BY <1>0, <1>1 DEF Ends, Idle
    <2> QED  BY <1>1, <2>1 DEF Op
  <1>2. ASSUME NEW t \in Threads, NEW q, q \notin {"insert", "calling"},
               Goes(t, q), sent' = sent
        PROVE  Stays
    <2>1. thread'[u] = thread[u]
      BY <1>0, <1>2 DEF Goes
    <2> QED  BY <1>2, <2>1 DEF Op
  <1>3. ASSUME NEW t \in Threads, Authenticate(t)
        PROVE  Stays
    <2>1. ASSUME NEW n, Arrive(t, n)
          PROVE  Stays
      <3>1. thread'[u] = thread[u] /\ sent' = sent
        BY <1>0, <2>1 DEF Arrive
      <3> QED  BY <3>1 DEF Op
    <2>2. CASE Accept(t) \/ RefuseReplay(t) \/ ConsumeUnanswered(t)
      <3> HIDE DEF Stays
      <3> QED  BY <1>1, <1>2, <2>2 DEF Accept, RefuseReplay, ConsumeUnanswered
    <2> QED  BY <1>3, <2>1, <2>2 DEF Authenticate
  <1>4. ASSUME NEW t \in Threads, ValidateSession(t)
        PROVE  Stays \/ /\ Op(u)' = Op(u) /\ thread'[u].pc = "insert"
                        /\ RegistryHolds(Op(u).contract)
    <2>1. CASE Ends(t)
      BY <1>1, <1>4, <2>1 DEF ValidateSession
    <2>2. CASE Goes(t, "insert") /\ RegistryHolds(Op(t).contract)
      <3>1. /\ sent' = sent /\ thread'[u].nonce = thread[u].nonce
            /\ u # t => thread'[u] = thread[u]
            /\ u = t => thread'[u].pc = "insert"
        BY <1>0, <1>4, <2>2 DEF ValidateSession, Goes
      <3> QED  BY <2>2, <3>1 DEF Op
    <2> QED  BY <1>4, <2>1, <2>2 DEF ValidateSession
  <1>5. ASSUME NEW t \in Threads, BridgeHandler(t), ~ValidateSession(t)
        PROVE  Stays
    <2>1. Ends(t) /\ sent' = sent
      BY <1>5 DEF BridgeHandler, Register, RegisterKnown, Ingress,
         InsertSession, Handoff, RejectHandoff, RefuseHandoff, Ack,
         AckUnchanged, Answers, AppendEvent
    <2> QED  BY <1>1, <2>1
  <1>6. ASSUME NEW t \in Threads, Call(t)
        PROVE  Stays \/ (Op(u)' = Op(u) /\ thread'[u].pc = "calling" /\ Call(u))
    <2>1. /\ sent' = sent /\ thread'[u].nonce = thread[u].nonce
          /\ u # t => thread'[u] = thread[u]
          /\ u = t => thread'[u].pc = "calling"
      BY <1>0, <1>6 DEF Call, Goes
    <2> QED  BY <1>6, <2>1 DEF Op
  <1>7. ASSUME NEW t \in Threads,
               (ProviderHandler(t) /\ ~Call(t)) \/ HandlerFails(t)
        PROVE  Stays
    <2>1. sent' = sent /\ (Ends(t) \/ Goes(t, "processed"))
      BY <1>7 DEF ProviderHandler, ConfigurationHold, RefuseRequest,
         RejectExposure, SecretPlaneHold, Process, RecordResponse,
         WithholdAnswer, RefuseAnswer, RecordFailure, Records, AppendEvent,
         Answers, HandlerFails
    <2> HIDE DEF Stays
    <2> QED  BY <1>1, <1>2, <2>1
  <1>8. ASSUME Crash
        PROVE  FALSE
    BY <1>8 DEF Crash, Idle
  <1>9. ASSUME NEW op \in Ops, Sign(op, now)
        PROVE  Stays
    <2>1. PICK r : r = [op |-> op, ts |-> now]
      OBVIOUS
    <2>2. sent' = Append(sent, r) /\ UNCHANGED thread
      BY <1>9, <2>1 DEF Sign
    <2>3. thread[u].nonce \in 1..Len(sent) /\ IsSeq(sent)
      BY <2>2 DEF AuthInv, AuthTypes, Working, IsSeq
    <2>4. sent'[thread[u].nonce] = sent[thread[u].nonce]
      BY <2>2, <2>3, AppendedTo
    <2> QED  BY <2>2, <2>4 DEF Op
  <1>10. ASSUME Tick \/ UNCHANGED serviceVars
         PROVE  Stays
    BY <1>10 DEF Tick, serviceVars, authVars, Op
  <1> HIDE DEF Stays
  <1>11. \/ Stays
         \/ /\ Op(u)' = Op(u)
            /\ \/ thread'[u].pc = "insert" /\ RegistryHolds(Op(u).contract)
               \/ thread'[u].pc = "calling" /\ Call(u)
    BY <1>3, <1>4, <1>5, <1>6, <1>7, <1>8, <1>9, <1>10 DEF Next
  <1> QED  BY <1>11 DEF Stays

(* The registry only grows.                                                *)
LEMMA RegistryGrows ==
    ASSUME NEW t, Register(t), NEW contract, Registered(artifacts, contract)
    PROVE  Registered(artifacts', contract)
BY DEF Register, Registered

(* What a handoff says, its status apart.                                  *)
Says(h, g) ==
    /\ h.session = g.session /\ h.seq = g.seq /\ h.parent = g.parent
    /\ h.from = g.from /\ h.to = g.to /\ h.contract = g.contract

LEMMA AckRows ==
    ASSUME Rows, NEW t, Ack(t)
    PROVE  /\ IsSeq(handoffs') /\ Len(handoffs') = Len(handoffs)
           /\ Op(t).handoff \in 1..Len(handoffs)
           /\ handoffs'[Op(t).handoff].status = "ACKED"
           /\ \A i \in 1..Len(handoffs) :
                 /\ DOMAIN handoffs'[i] = HandoffColumns
                 /\ Says(handoffs'[i], handoffs[i])
                 /\ i # Op(t).handoff => handoffs'[i] = handoffs[i]
  <1>1. PICK a : a = Op(t).handoff
    OBVIOUS
  <1>2. PICK acked : acked = [handoffs[a] EXCEPT !.status = "ACKED"]
    OBVIOUS
  <1>3. PICK n \in Nat : n = Len(handoffs) /\ DOMAIN handoffs = 1..n
    BY DEF Rows, IsSeq
  <1>4. a \in 1..n
    BY <1>1, <1>3 DEF Ack, MayAck
  <1>5. handoffs' = [handoffs EXCEPT ![a] = acked]
    BY <1>1, <1>2 DEF Ack
  <1>6. /\ DOMAIN acked = HandoffColumns /\ acked.status = "ACKED"
        /\ Says(acked, handoffs[a])
    BY <1>2, <1>3, <1>4 DEF Rows, Says, HandoffColumns
  <1>7. PICK S : handoffs \in Seq(S)
    BY DEF Rows, IsSeq
  <1>8. handoffs' \in [1..n -> S \cup {acked}]
    <2>1. handoffs \in [1..n -> S]
      BY <1>3, <1>7
    <2> QED  BY <1>5, <2>1
  <1>9. IsSeq(handoffs') /\ Len(handoffs') = n
    <2>1. handoffs' \in Seq(S \cup {acked}) /\ Len(handoffs') = n
      BY <1>8, SeqDef, LenProperties
    <2> QED  BY <2>1 DEF IsSeq
  <1>10. \A i \in 1..n : handoffs'[i] = IF i = a THEN acked ELSE handoffs[i]
    BY <1>3, <1>5
  <1>11. \A h : Says(h, h)
    BY DEF Says
  <1> QED  BY <1>1, <1>3, <1>4, <1>6, <1>9, <1>10, <1>11 DEF Rows

LEMMA AckKeepsHistory ==
    ASSUME HistoryInv, NEW t \in Threads, Ack(t)
    PROVE  Rows' /\ HandoffsFormAHistory'
  <1>1. /\ IsSeq(handoffs') /\ Len(handoffs') = Len(handoffs)
        /\ \A i \in 1..Len(handoffs) :
              /\ DOMAIN handoffs'[i] = HandoffColumns
              /\ Says(handoffs'[i], handoffs[i])
    BY AckRows DEF HistoryInv
  <1>2. UNCHANGED <<artifacts, sessions>>
    BY DEF Ack
  <1>3. Rows'
    BY <1>1, <1>2 DEF HistoryInv, Rows, IsSeq
  <1>4. DOMAIN handoffs' = 1..Len(handoffs) /\ DOMAIN handoffs = 1..Len(handoffs)
    BY <1>1 DEF HistoryInv, Rows, IsSeq
  <1>5. \A s : SessionRows(handoffs', s) = SessionRows(handoffs, s)
    BY <1>1, <1>4 DEF SessionRows, Says
  <1>6. Len(handoffs) \in Nat
    BY DEF HistoryInv, Rows, IsSeq
  <1>7. ASSUME NEW i \in 1..Len(handoffs)
        PROVE  /\ handoffs'[i].seq = Rank(SessionRows(handoffs', handoffs'[i].session), i)
               /\ handoffs'[i].parent # 0 =>
                     /\ handoffs'[i].parent \in 1..(i - 1)
                     /\ handoffs'[handoffs'[i].parent].session
                           = handoffs'[i].session
               /\ handoffs'[i].session \in DOMAIN sessions
               /\ {handoffs'[i].from, handoffs'[i].to}
                     \subseteq sessions[handoffs'[i].session].participants
               /\ handoffs'[i].contract = sessions[handoffs'[i].session].contract
    <2>1. /\ handoffs[i].seq = Rank(SessionRows(handoffs, handoffs[i].session), i)
          /\ handoffs[i].parent # 0 =>
                /\ handoffs[i].parent \in 1..(i - 1)
                /\ handoffs[handoffs[i].parent].session = handoffs[i].session
          /\ handoffs[i].session \in DOMAIN sessions
          /\ {handoffs[i].from, handoffs[i].to}
                \subseteq sessions[handoffs[i].session].participants
          /\ handoffs[i].contract = sessions[handoffs[i].session].contract
      BY <1>4 DEF HistoryInv, HandoffsFormAHistory, IsHistory
    <2>2. Says(handoffs'[i], handoffs[i])
      BY <1>1
    <2>3. handoffs[i].parent # 0 =>
             Says(handoffs'[handoffs[i].parent], handoffs[handoffs[i].parent])
      BY <1>1, <1>6, <2>1
    <2> QED  BY <1>5, <2>1, <2>2, <2>3 DEF Says
  <1>8. \A s \in DOMAIN sessions : Registered(artifacts, sessions[s].contract)
    BY DEF HistoryInv, HandoffsFormAHistory, IsHistory
  <1>9. HandoffsFormAHistory'
    BY <1>2, <1>4, <1>7, <1>8 DEF HandoffsFormAHistory, IsHistory
  <1> QED  BY <1>3, <1>9

(* COALESCE(MAX(session_seq), 0) counts the handoffs of the session.       *)
LEMMA NextIsCount ==
    ASSUME Rows, HandoffsFormAHistory, NEW s
    PROVE  /\ InSession(s) \subseteq 1..Len(handoffs)
           /\ NextSequence(s) = Cardinality(InSession(s)) + 1
  <1> DEFINE T == InSession(s)
             c == Cardinality(T)
             used == {handoffs[i].seq : i \in T} \cup {0}
  <1>1. PICK n \in Nat : n = Len(handoffs) /\ DOMAIN handoffs = 1..n
    BY DEF Rows, IsSeq
  <1>2. T \subseteq 1..n /\ T = SessionRows(handoffs, s)
    BY <1>1 DEF InSession, SessionRows
  <1>3. \A i \in T : handoffs[i].seq = Rank(T, i)
    <2> SUFFICES ASSUME NEW i \in T
                 PROVE  handoffs[i].seq = Rank(T, i)
      OBVIOUS
    <2>1. i \in DOMAIN handoffs /\ handoffs[i].session = s
      BY <1>2 DEF SessionRows
    <2> QED  BY <1>2, <2>1 DEF HandoffsFormAHistory, IsHistory
  <1> HIDE DEF T
  <1>4. c \in Nat
    BY <1>2, Positions
  <1>5. \A i \in T : Rank(T, i) \in 1..c
    BY <1>2, RankType
  <1>6. \A m \in used : m \in Nat /\ m <= c
    <2> HIDE DEF c
    <2> QED  BY <1>3, <1>4, <1>5
  <1>7. c \in used
    <2>1. CASE c = 0
      BY <2>1
    <2>2. CASE c # 0
      <3>1. c \in 1..Cardinality(T)
        <4>1. c = Cardinality(T)
          OBVIOUS
        <4> HIDE DEF c
        <4> QED  BY <1>4, <2>2, <4>1
      <3> HIDE DEF c
      <3>2. PICK i \in T : Rank(T, i) = c
        BY <1>2, <3>1, RanksAreAll
      <3> QED  BY <1>3, <3>2
    <2> QED  BY <2>1, <2>2
  <1>8. NextSequence(s) = 1 + CHOOSE m \in used : \A k \in used : k <= m
    BY DEF NextSequence, T
  <1> HIDE DEF used, c
  <1>9. c \in used /\ \A k \in used : k <= c
    BY <1>6, <1>7
  <1>10. PICK m : m = CHOOSE i \in used : \A k \in used : k <= i
    OBVIOUS
  <1>11. m \in used /\ \A k \in used : k <= m
    BY <1>9, <1>10
  <1>12. m = c
    BY <1>4, <1>6, <1>9, <1>11
  <1>13. NextSequence(s) = 1 + m
    BY <1>8, <1>10
  <1>14. NextSequence(s) = c + 1
    BY <1>4, <1>12, <1>13
  <1> QED  BY <1>1, <1>2, <1>14 DEF T, c

(* append_model_handoff: a new row, of the session and its contract.       *)
LEMMA HandoffRows ==
    ASSUME HistoryInv, NEW t \in Threads, Handoff(t)
    PROVE  \E h :
              /\ handoffs' = Append(handoffs, h)
              /\ DOMAIN h = HandoffColumns /\ h.status = "PENDING"
              /\ h.session \in DOMAIN sessions
              /\ h.seq = NextSequence(h.session)
              /\ h.parent # 0 => h.parent \in InSession(h.session)
              /\ {h.from, h.to} \subseteq sessions[h.session].participants
              /\ h.contract = sessions[h.session].contract
  <1> DEFINE op == Op(t)
  <1>1. PICK h : h = [session |-> op.session, seq |-> NextSequence(op.session),
                      from |-> op.from, to |-> op.to, parent |-> op.parent,
                      contract |-> op.contract, human |-> op.human,
                      status |-> "PENDING"]
    OBVIOUS
  <1>2. /\ handoffs' = Append(handoffs, h) /\ Storable(op)
    BY <1>1 DEF Handoff
  <1> HIDE DEF op
  <1>3. /\ DOMAIN h = HandoffColumns /\ h.status = "PENDING"
        /\ h.session = op.session /\ h.seq = NextSequence(op.session)
        /\ h.from = op.from /\ h.to = op.to /\ h.parent = op.parent
        /\ h.contract = op.contract
    BY <1>1 DEF HandoffColumns
  <1> QED  BY <1>2, <1>3 DEF Storable

LEMMA HandoffKeepsHistory ==
    ASSUME HistoryInv, NEW t \in Threads, Handoff(t)
    PROVE  Rows' /\ HandoffsFormAHistory'
  <1>1. PICK h :
           /\ handoffs' = Append(handoffs, h)
           /\ DOMAIN h = HandoffColumns
           /\ h.session \in DOMAIN sessions
           /\ h.seq = NextSequence(h.session)
           /\ h.parent # 0 => h.parent \in InSession(h.session)
           /\ {h.from, h.to} \subseteq sessions[h.session].participants
           /\ h.contract = sessions[h.session].contract
    BY HandoffRows
  <1>2. UNCHANGED <<artifacts, sessions>>
    BY DEF Handoff
  <1>3. PICK n \in Nat : n = Len(handoffs) /\ DOMAIN handoffs = 1..n
    BY DEF HistoryInv, Rows, IsSeq
  <1>4. /\ IsSeq(handoffs') /\ Len(handoffs') = n + 1
        /\ \A i \in 1..n : handoffs'[i] = handoffs[i]
        /\ handoffs'[n + 1] = h
    BY <1>1, <1>3, AppendedTo DEF HistoryInv, Rows
  <1>5. DOMAIN handoffs' = 1..(n + 1)
    BY <1>4 DEF IsSeq
  <1>6. Rows'
    <2>1. ASSUME NEW i \in 1..(n + 1)
          PROVE  DOMAIN handoffs'[i] = HandoffColumns
      <3>1. CASE i \in 1..n
        BY <1>3, <1>4, <3>1 DEF HistoryInv, Rows
      <3>2. CASE i \notin 1..n
        BY <1>1, <1>4, <3>2
      <3> QED  BY <3>1, <3>2
    <2> QED  BY <1>2, <1>4, <2>1 DEF HistoryInv, Rows, IsSeq
  <1>7. \A s : SessionRows(handoffs', s) =
                 IF s = h.session THEN InSession(s) \cup {n + 1} ELSE InSession(s)
    BY <1>3, <1>4, <1>5 DEF SessionRows, InSession
  <1>8. \A s : InSession(s) \subseteq 1..n
    BY <1>3 DEF InSession, SessionRows
  <1>9. \A s : /\ Rank(InSession(s) \cup {n + 1}, n + 1) = Cardinality(InSession(s)) + 1
               /\ \A i \in InSession(s) :
                     Rank(InSession(s) \cup {n + 1}, i) = Rank(InSession(s), i)
    BY <1>8, RankLast
  <1>10. ASSUME NEW i \in 1..n
         PROVE  /\ handoffs[i].seq = Rank(InSession(handoffs[i].session), i)
                /\ i \in InSession(handoffs[i].session)
                /\ handoffs[i].parent # 0 =>
                      /\ handoffs[i].parent \in 1..(i - 1)
                      /\ handoffs[handoffs[i].parent].session
                            = handoffs[i].session
                /\ handoffs[i].session \in DOMAIN sessions
                /\ {handoffs[i].from, handoffs[i].to}
                      \subseteq sessions[handoffs[i].session].participants
                /\ handoffs[i].contract = sessions[handoffs[i].session].contract
    BY <1>3 DEF HistoryInv, HandoffsFormAHistory, IsHistory, InSession,
                SessionRows
  <1> DEFINE Right(i, g) ==
                /\ g.seq = Rank(SessionRows(handoffs', g.session), i)
                /\ g.parent # 0 => /\ g.parent \in 1..(i - 1)
                                   /\ handoffs'[g.parent].session = g.session
                /\ g.session \in DOMAIN sessions
                /\ {g.from, g.to} \subseteq sessions[g.session].participants
                /\ g.contract = sessions[g.session].contract
  <1>11. ASSUME NEW i \in 1..n
         PROVE  Right(i, handoffs'[i])
    <2>1. handoffs'[i] = handoffs[i]
      BY <1>4
    <2>2. handoffs[i].seq = Rank(SessionRows(handoffs', handoffs[i].session), i)
      BY <1>7, <1>9, <1>10
    <2>3. handoffs[i].parent # 0 =>
             handoffs'[handoffs[i].parent] = handoffs[handoffs[i].parent]
      BY <1>4, <1>10
    <2> QED  BY <1>10, <2>1, <2>2, <2>3
  <1>12. Right(n + 1, h)
    <2>1. h.seq = Rank(SessionRows(handoffs', h.session), n + 1)
      <3>1. h.seq = Cardinality(InSession(h.session)) + 1
        BY <1>1, NextIsCount DEF HistoryInv
      <3>2. SessionRows(handoffs', h.session) = InSession(h.session) \cup {n + 1}
        BY <1>7
      <3> QED  BY <1>9, <3>1, <3>2
    <2>2. h.parent # 0 => /\ h.parent \in 1..n
                          /\ handoffs'[h.parent].session = h.session
      BY <1>1, <1>4, <1>8 DEF InSession, SessionRows
    <2>3. (n + 1) - 1 = n
      BY <1>3
    <2> QED  BY <1>1, <2>1, <2>2, <2>3
  <1>13. \A i \in DOMAIN handoffs' : Right(i, handoffs'[i])
    <2> HIDE DEF Right
    <2>1. ASSUME NEW i \in 1..(n + 1), i \notin 1..n
          PROVE  i = n + 1
      BY <2>1
    <2> QED  BY <1>4, <1>5, <1>11, <1>12, <2>1
  <1>14. \A s \in DOMAIN sessions : Registered(artifacts, sessions[s].contract)
    BY DEF HistoryInv, HandoffsFormAHistory, IsHistory
  <1>15. HandoffsFormAHistory'
    BY <1>2, <1>13, <1>14 DEF HandoffsFormAHistory, IsHistory
  <1> QED  BY <1>6, <1>15

(* create_model_session inserts a session of a contract that was validated *)
(* before; sessions keep their place.                                      *)
LEMMA SessionKeepsHistory ==
    ASSUME HistoryInv, NEW t \in Threads, InsertSession(t)
    PROVE  Rows' /\ HandoffsFormAHistory'
  <1>1. PICK x : x = [contract |-> Op(t).contract, participants |-> Op(t).participants]
    OBVIOUS
  <1>2. /\ sessions' = Append(sessions, x) /\ UNCHANGED <<artifacts, handoffs>>
        /\ thread[t].pc = "insert"
    BY <1>1 DEF InsertSession
  <1>3. Registered(artifacts, x.contract)
    BY <1>1, <1>2 DEF HistoryInv, Inserting, RegistryHolds
  <1>4. PICK n \in Nat : n = Len(sessions) /\ DOMAIN sessions = 1..n
    BY DEF HistoryInv, Rows, IsSeq
  <1>5. /\ IsSeq(sessions') /\ Len(sessions') = n + 1
        /\ \A i \in 1..n : sessions'[i] = sessions[i]
        /\ sessions'[n + 1] = x
    BY <1>2, <1>4, AppendedTo DEF HistoryInv, Rows
  <1>6. DOMAIN sessions' = 1..(n + 1)
    BY <1>5 DEF IsSeq
  <1>7. \A s \in DOMAIN sessions : s \in DOMAIN sessions' /\ sessions'[s] = sessions[s]
    BY <1>4, <1>5, <1>6
  <1>8. \A s \in DOMAIN sessions' : Registered(artifacts, sessions'[s].contract)
    <2>1. ASSUME NEW s \in 1..(n + 1)
          PROVE  Registered(artifacts, sessions'[s].contract)
      <3>1. CASE s \in 1..n
        BY <1>4, <1>5, <3>1 DEF HistoryInv, HandoffsFormAHistory, IsHistory
      <3>2. CASE s \notin 1..n
        BY <1>3, <1>5, <3>2
      <3> QED  BY <3>1, <3>2
    <2> QED  BY <1>6, <2>1
  <1>9. HandoffsFormAHistory'
    BY <1>2, <1>7, <1>8 DEF HistoryInv, HandoffsFormAHistory, IsHistory
  <1>10. Rows'
    BY <1>2, <1>5 DEF HistoryInv, Rows, IsSeq
  <1> QED  BY <1>9, <1>10

LEMMA RegisterKeepsHistory ==
    ASSUME HistoryInv, NEW t \in Threads, Register(t)
    PROVE  Rows' /\ HandoffsFormAHistory'
  <1>1. UNCHANGED <<sessions, handoffs>>
    BY DEF Register
  <1>2. \A s \in DOMAIN sessions : Registered(artifacts', sessions[s].contract)
    BY RegistryGrows DEF HistoryInv, HandoffsFormAHistory, IsHistory
  <1> QED  BY <1>1, <1>2 DEF HistoryInv, HandoffsFormAHistory, IsHistory,
              Rows, IsSeq

LEMMA StepKeepsHistory ==
    ASSUME HistoryInv, [Next]_serviceVars
    PROVE  HistoryInv'
  <1>1. AuthInv'
    BY StepKeepsAuthInv DEF HistoryInv
  <1>2. Rows' /\ HandoffsFormAHistory'
    <2>1. CASE UNCHANGED <<artifacts, sessions, handoffs>>
      BY <2>1 DEF HistoryInv, HandoffsFormAHistory, Rows, IsSeq
    <2>2. CASE \E t \in Threads :
                  Register(t) \/ InsertSession(t) \/ Handoff(t) \/ Ack(t)
      BY <2>2, RegisterKeepsHistory, SessionKeepsHistory, HandoffKeepsHistory,
         AckKeepsHistory
    <2> QED  BY <2>1, <2>2, TableSteps
  <1>3. \A c : RegistryHolds(c) => RegistryHolds(c)'
    <2>1. CASE UNCHANGED artifacts
      BY <2>1 DEF RegistryHolds
    <2>2. CASE \E t \in Threads : Register(t)
      BY <2>2, RegistryGrows DEF RegistryHolds
    <2>3. CASE \E t \in Threads : InsertSession(t) \/ Handoff(t) \/ Ack(t)
      BY <2>1, <2>3 DEF InsertSession, Handoff, Ack
    <2> QED  BY <2>1, <2>2, <2>3, TableSteps
  <1>4. Inserting'
    <2> SUFFICES ASSUME NEW u \in Threads, thread'[u].pc = "insert"
                 PROVE  RegistryHolds(Op(u).contract)'
      BY DEF Inserting
    <2>0. thread'[u].pc \in {"insert", "calling"} /\ thread'[u].pc # "calling"
      OBVIOUS
    <2>1. Op(u)' = Op(u) /\ RegistryHolds(Op(u).contract)
      BY <2>0, Entries DEF HistoryInv, Inserting
    <2>2. PICK c : c = Op(u).contract
      OBVIOUS
    <2>3. RegistryHolds(c) /\ RegistryHolds(c)'
      BY <1>3, <2>1, <2>2
    <2>4. (Op(u).contract)' = c
      BY <2>1, <2>2
    <2> QED  BY <2>3, <2>4 DEF RegistryHolds
  <1> QED  BY <1>1, <1>2, <1>4 DEF HistoryInv

LEMMA InitHistory ==
    ASSUME Init
    PROVE  HistoryInv
  <1>1. PICK d \in Databases :
           /\ artifacts = d.artifacts /\ sessions = d.sessions
           /\ handoffs = d.handoffs
    BY DEF Init, BridgeInit
  <1>2. /\ handoffs \in Seq({handoffs[i] : i \in DOMAIN handoffs})
        /\ sessions \in Seq({sessions[i] : i \in DOMAIN sessions})
        /\ \A i \in DOMAIN handoffs : DOMAIN handoffs[i] = HandoffColumns
        /\ IsHistory(artifacts, sessions, handoffs)
    BY <1>1, ServiceAssumption
  <1>3. IsSeq(handoffs) /\ IsSeq(sessions)
    BY <1>2 DEF IsSeq
  <1>4. DOMAIN handoffs = 1..Len(handoffs)
    BY <1>3 DEF IsSeq
  <1>5. Rows
    BY <1>2, <1>3, <1>4 DEF Rows
  <1>6. Inserting
    BY DEF Init, AuthInit, Inserting, Idle
  <1> QED  BY <1>2, <1>5, <1>6, InitAuthInv DEF HistoryInv, HandoffsFormAHistory

(* create_model_session and append_model_handoff, over any database the    *)
(* service wrote, for every number of threads and in any order of handlers *)
(* and faults: the handoffs of a session are numbered without gaps in the  *)
(* order they were stored, answer earlier ones, and stay within a session  *)
(* whose contract is registered, although the registry is read in one      *)
(* transaction and the session inserted in another.                        *)
THEOREM HandoffsAreAHistory == Spec => []HandoffsFormAHistory
  <1>1. Init => HistoryInv
    BY InitHistory
  <1>2. HistoryInv /\ [Next]_serviceVars => HistoryInv'
    BY StepKeepsHistory
  <1>3. HistoryInv => HandoffsFormAHistory
    BY DEF HistoryInv
  <1> QED  BY <1>1, <1>2, <1>3, PTL DEF Spec
---------------------------------------------------------------------------
(* The types of the events that tell of a row of a table.                  *)
RowEvents ==
    {"CONTRACT_ARTIFACT_REGISTERED", "MODEL_BRIDGE_SESSION_CREATED",
     "MODEL_BRIDGE_HANDOFF", "MODEL_BRIDGE_HANDOFF_ACK"}

Acked(rows) == {i \in DOMAIN rows : rows[i].status = "ACKED"}

(* Each acknowledgement has the handoff before it.                         *)
AcksFollow(events) ==
    \A i \in Told(events, "MODEL_BRIDGE_HANDOFF_ACK") :
        \E j \in Told(events, "MODEL_BRIDGE_HANDOFF") :
            j < i /\ events[j].subject = events[i].subject

LedgerInv == HistoryInv /\ IsSeq(ledger) /\ TablesAreLedgered

LEMMA LedgeredParts ==
    ASSUME NEW events, NEW known, NEW opened, NEW rows
    PROVE  IsLedgered(events, known, opened, rows) <=>
              /\ TellsInOrder(events, "MODEL_BRIDGE_SESSION_CREATED", Len(opened))
              /\ TellsInOrder(events, "MODEL_BRIDGE_HANDOFF", Len(rows))
              /\ TellsOnce(events, "CONTRACT_ARTIFACT_REGISTERED", DOMAIN known)
              /\ TellsOnce(events, "MODEL_BRIDGE_HANDOFF_ACK", Acked(rows))
              /\ AcksFollow(events)
  BY DEF IsLedgered, Acked, AcksFollow

(* One more event is the last one of its type ...                          *)
LEMMA OneMoreTold ==
    ASSUME NEW events, IsSeq(events), NEW e, NEW type
    PROVE  /\ Told(events, type) \subseteq 1..Len(events)
           /\ Told(Append(events, e), type) =
                 IF e.type = type THEN Told(events, type) \cup {Len(events) + 1}
                                  ELSE Told(events, type)
  <1>1. DOMAIN events = 1..Len(events)
    BY DEF IsSeq
  <1>2. PICK more : more = Append(events, e)
    OBVIOUS
  <1>3. PICK n \in Nat : n = Len(events)
    BY AppendedTo
  <1>4. /\ IsSeq(more) /\ Len(more) = n + 1 /\ more[n + 1] = e
        /\ \A i \in 1..n : more[i] = events[i]
    BY <1>2, <1>3, AppendedTo
  <1>5. DOMAIN more = 1..(n + 1)
    BY <1>4 DEF IsSeq
  <1>6. Told(more, type) = IF e.type = type THEN Told(events, type) \cup {n + 1}
                                            ELSE Told(events, type)
    <2>1. 1..(n + 1) = (1..n) \cup {n + 1} /\ n + 1 \notin 1..n
      OBVIOUS
    <2> QED  BY <1>1, <1>3, <1>4, <1>5, <2>1 DEF Told
  <1> QED  BY <1>1, <1>2, <1>3, <1>6 DEF Told

(* ... so it tells of nothing else, ...                                    *)
LEMMA OtherTypeTold ==
    ASSUME NEW events, IsSeq(events), NEW e, NEW type, e.type # type
    PROVE  /\ \A m : TellsInOrder(events, type, m)
                        => TellsInOrder(Append(events, e), type, m)
           /\ \A S : TellsOnce(events, type, S)
                        => TellsOnce(Append(events, e), type, S)
  <1>1. PICK more : more = Append(events, e)
    OBVIOUS
  <1>2. Told(more, type) = Told(events, type)
    BY <1>1, OneMoreTold
  <1>3. \A i \in Told(events, type) : more[i] = events[i]
    <2>1. Told(events, type) \subseteq 1..Len(events)
      BY OneMoreTold
    <2>2. \A i \in 1..Len(events) : more[i] = events[i]
      BY <1>1, AppendedTo
    <2> QED  BY <2>1, <2>2
  <1>4. \A m : TellsInOrder(events, type, m) => TellsInOrder(more, type, m)
    BY <1>2, <1>3 DEF TellsInOrder
  <1>5. \A S : TellsOnce(events, type, S) => TellsOnce(more, type, S)
    <2> SUFFICES ASSUME NEW S, TellsOnce(events, type, S)
                 PROVE  TellsOnce(more, type, S)
      OBVIOUS
    <2>1. {more[i].subject : i \in Told(more, type)}
             = {events[i].subject : i \in Told(events, type)}
      BY <1>2, <1>3
    <2> QED  BY <1>2, <1>3, <2>1 DEF TellsOnce
  <1> QED  BY <1>1, <1>4, <1>5

(* ... and goes on with the order of its table, ...                        *)
LEMMA NextInOrder ==
    ASSUME NEW events, IsSeq(events), NEW e, NEW m \in Nat,
           TellsInOrder(events, e.type, m), e.subject = m + 1
    PROVE  TellsInOrder(Append(events, e), e.type, m + 1)
  <1>1. PICK more : more = Append(events, e)
    OBVIOUS
  <1>2. PICK n \in Nat : n = Len(events)
    BY AppendedTo
  <1>3. PICK T : T = Told(events, e.type)
    OBVIOUS
  <1>4. T \subseteq 1..n /\ Told(more, e.type) = T \cup {n + 1}
    BY <1>1, <1>2, <1>3, OneMoreTold
  <1>5. more[n + 1] = e /\ \A i \in T : more[i] = events[i]
    BY <1>1, <1>2, <1>4, AppendedTo
  <1>6. /\ Cardinality(T \cup {n + 1}) = Cardinality(T) + 1
        /\ Rank(T \cup {n + 1}, n + 1) = Cardinality(T) + 1
        /\ \A i \in T : Rank(T \cup {n + 1}, i) = Rank(T, i)
    BY <1>4, RankLast
  <1>7. Cardinality(T) = m /\ \A i \in T : events[i].subject = Rank(T, i)
    BY <1>3 DEF TellsInOrder
  <1>8. \A i \in T \cup {n + 1} : more[i].subject = Rank(T \cup {n + 1}, i)
    BY <1>5, <1>6, <1>7
  <1>9. TellsInOrder(more, e.type, m + 1)
    BY <1>4, <1>6, <1>7, <1>8 DEF TellsInOrder
  <1> QED  BY <1>1, <1>9

(* ... or with what was not told yet.                                      *)
LEMMA OnceMore ==
    ASSUME NEW events, IsSeq(events), NEW e, NEW S,
           TellsOnce(events, e.type, S), e.subject \notin S
    PROVE  TellsOnce(Append(events, e), e.type, S \cup {e.subject})
  <1>1. PICK more : more = Append(events, e)
    OBVIOUS
  <1>2. PICK n \in Nat : n = Len(events)
    BY AppendedTo
  <1>3. PICK T : T = Told(events, e.type)
    OBVIOUS
  <1>4. T \subseteq 1..n /\ Told(more, e.type) = T \cup {n + 1}
    BY <1>1, <1>2, <1>3, OneMoreTold
  <1>5. more[n + 1] = e /\ \A i \in T : more[i] = events[i]
    BY <1>1, <1>2, <1>4, AppendedTo
  <1>6. /\ {events[i].subject : i \in T} = S
        /\ \A i, j \in T : events[i].subject = events[j].subject => i = j
    BY <1>3 DEF TellsOnce
  <1>7. {more[i].subject : i \in T \cup {n + 1}} = S \cup {e.subject}
    BY <1>5, <1>6
  <1>8. \A i, j \in T \cup {n + 1} : more[i].subject = more[j].subject => i = j
    BY <1>5, <1>6
  <1>9. TellsOnce(more, e.type, S \cup {e.subject})
    BY <1>4, <1>7, <1>8 DEF TellsOnce
  <1> QED  BY <1>1, <1>9

(* An event that is no acknowledgement leaves the acknowledgements after   *)
(* their handoffs.                                                         *)
LEMMA AcksStillFollow ==
    ASSUME NEW events, IsSeq(events), NEW e, AcksFollow(events),
           \/ e.type # "MODEL_BRIDGE_HANDOFF_ACK"
           \/ \E j \in Told(events, "MODEL_BRIDGE_HANDOFF") :
                 events[j].subject = e.subject
    PROVE  AcksFollow(Append(events, e))
  <1>1. PICK more : more = Append(events, e)
    OBVIOUS
  <1>2. PICK n \in Nat : n = Len(events)
    BY AppendedTo
  <1>3. PICK A, H : /\ A = Told(events, "MODEL_BRIDGE_HANDOFF_ACK")
                    /\ H = Told(events, "MODEL_BRIDGE_HANDOFF")
    OBVIOUS
  <1>4. /\ A \subseteq 1..n /\ H \subseteq 1..n
        /\ Told(more, "MODEL_BRIDGE_HANDOFF_ACK") =
              IF e.type = "MODEL_BRIDGE_HANDOFF_ACK" THEN A \cup {n + 1} ELSE A
        /\ H \subseteq Told(more, "MODEL_BRIDGE_HANDOFF")
    BY <1>1, <1>2, <1>3, OneMoreTold
  <1>5. more[n + 1] = e /\ \A i \in 1..n : more[i] = events[i]
    BY <1>1, <1>2, AppendedTo
  <1>6. ASSUME NEW i \in A
        PROVE  \E j \in H : j < i /\ more[j].subject = more[i].subject
    BY <1>3, <1>4, <1>5, <1>6 DEF AcksFollow
  <1>7. CASE e.type # "MODEL_BRIDGE_HANDOFF_ACK"
    <2>1. AcksFollow(more)
      BY <1>4, <1>6, <1>7 DEF AcksFollow
    <2> QED  BY <1>1, <2>1
  <1>8. CASE e.type = "MODEL_BRIDGE_HANDOFF_ACK"
    <2>1. PICK j \in H : events[j].subject = e.subject
      BY <1>3, <1>8
    <2>2. j < n + 1 /\ more[j].subject = more[n + 1].subject
      BY <1>4, <1>5, <2>1
    <2>3. AcksFollow(more)
      BY <1>4, <1>6, <2>1, <2>2 DEF AcksFollow
    <2> QED  BY <1>1, <2>3
  <1> QED  BY <1>7, <1>8
---------------------------------------------------------------------------
(* The other steps write no event of a table.                              *)
LEMMA LedgerSteps ==
    ASSUME [Next]_serviceVars
    PROVE  \/ /\ UNCHANGED <<artifacts, sessions, handoffs>>
              /\ \/ UNCHANGED ledger
                 \/ \E e : ledger' = Append(ledger, e) /\ e.type \notin RowEvents
           \/ \E t \in Threads :
                 Register(t) \/ InsertSession(t) \/ Handoff(t) \/ Ack(t)
  <1> DEFINE Silent ==
        /\ UNCHANGED <<artifacts, sessions, handoffs>>
        /\ \/ UNCHANGED ledger
           \/ \E e : ledger' = Append(ledger, e) /\ e.type \notin RowEvents
  <1>1. ASSUME NEW t, NEW type, NEW decision, NEW subject, type \notin RowEvents,
               AppendEvent(t, type, decision, subject)
        PROVE  Silent
    <2>1. PICK e : e = LedgerEvent(type, decision, thread[t].nonce, subject)
      OBVIOUS
    <2>2. ledger' = Append(ledger, e) /\ e.type = type
      BY <1>1, <2>1 DEF AppendEvent, Appended, LedgerEvent
    <2>3. UNCHANGED <<artifacts, sessions, handoffs>>
      BY <1>1 DEF AppendEvent
    <2> QED  BY <1>1, <2>2, <2>3
  <1>2. ASSUME NEW t \in Threads, BridgeHandler(t)
        PROVE  Silent \/ Register(t) \/ InsertSession(t) \/ Handoff(t) \/ Ack(t)
    <2>1. CASE Ingress(t)
      BY <1>1, <2>1 DEF Ingress, RowEvents
    <2>2. CASE RejectHandoff(t)
      BY <1>1, <2>2 DEF RejectHandoff, RowEvents
    <2>3. CASE RegisterKnown(t) \/ ValidateSession(t) \/ RefuseHandoff(t)
                  \/ AckUnchanged(t)
      BY <2>3 DEF RegisterKnown, ValidateSession, RefuseHandoff, AckUnchanged,
                  Answers, bridgeVars
    <2> QED  BY <1>2, <2>1, <2>2, <2>3 DEF BridgeHandler
  <1>3. ASSUME NEW t \in Threads, ProviderHandler(t)
        PROVE  Silent
    <2>1. CASE RefuseRequest(t) \/ Call(t) \/ Process(t) \/ RefuseAnswer(t)
      BY <2>1 DEF RefuseRequest, Call, Process, RefuseAnswer, Answers, bridgeVars
    <2>2. ASSUME NEW type, NEW decision, NEW subject, type \notin RowEvents,
                 Records(t, type, decision, subject)
          PROVE  Silent
      BY <1>1, <2>2 DEF Records
    <2>3. CASE \/ ConfigurationHold(t) \/ RejectExposure(t) \/ SecretPlaneHold(t)
               \/ RecordResponse(t) \/ RecordFailure(t) \/ WithholdAnswer(t)
      BY <2>2, <2>3 DEF ConfigurationHold, RejectExposure, SecretPlaneHold,
                        RecordResponse, RecordFailure, WithholdAnswer, RowEvents
    <2> QED  BY <1>3, <2>1, <2>3 DEF ProviderHandler
  <1>4. ASSUME \/ UNCHANGED bridgeVars
               \/ \E t \in Threads : HandlerFails(t)
               \/ Crash \/ UNCHANGED serviceVars
        PROVE  Silent
    BY <1>4 DEF HandlerFails, Crash, serviceVars, bridgeVars
  <1> QED  BY <1>2, <1>3, <1>4 DEF Next

LEMMA SilentKeepsLedger ==
    ASSUME LedgerInv, UNCHANGED <<artifacts, sessions, handoffs>>,
           \/ UNCHANGED ledger
           \/ \E e : ledger' = Append(ledger, e) /\ e.type \notin RowEvents
    PROVE  IsSeq(ledger') /\ TablesAreLedgered'
  <1>1. CASE UNCHANGED ledger
    BY <1>1 DEF LedgerInv, TablesAreLedgered, IsSeq
  <1>2. ASSUME NEW e, ledger' = Append(ledger, e), e.type \notin RowEvents
        PROVE  IsSeq(ledger') /\ TablesAreLedgered'
    <2>1. IsSeq(ledger) /\ IsLedgered(ledger, artifacts, sessions, handoffs)
      BY DEF LedgerInv, TablesAreLedgered
    <2>2. PICK more : more = Append(ledger, e)
      OBVIOUS
    <2>3. IsLedgered(more, artifacts, sessions, handoffs)
      BY <1>2, <2>1, <2>2, LedgeredParts, OtherTypeTold, AcksStillFollow
      DEF RowEvents
    <2>4. IsSeq(more)
      BY <2>1, <2>2, AppendedTo
    <2> QED  BY <1>2, <2>2, <2>3, <2>4 DEF TablesAreLedgered
  <1> QED  BY <1>1, <1>2

(* The four handlers that write a row write its event with it.             *)
LEMMA RegisterKeepsLedger ==
    ASSUME LedgerInv, NEW t \in Threads, Register(t)
    PROVE  IsSeq(ledger') /\ TablesAreLedgered'
  <1>1. PICK e : e = LedgerEvent("CONTRACT_ARTIFACT_REGISTERED", "PASS",
                                 thread[t].nonce, Op(t).content)
    OBVIOUS
  <1>2. PICK more : more = Append(ledger, e)
    OBVIOUS
  <1>3. /\ ledger' = more /\ e.type = "CONTRACT_ARTIFACT_REGISTERED"
        /\ e.subject \notin DOMAIN artifacts
        /\ DOMAIN artifacts' = DOMAIN artifacts \cup {e.subject}
        /\ UNCHANGED <<sessions, handoffs>>
    BY <1>1, <1>2 DEF Register, Appended, LedgerEvent
  <1>4. IsSeq(ledger) /\ IsLedgered(ledger, artifacts, sessions, handoffs)
    BY DEF LedgerInv, TablesAreLedgered
  <1>5. TellsOnce(more, "CONTRACT_ARTIFACT_REGISTERED", DOMAIN artifacts')
    <2>1. PICK S : S = DOMAIN artifacts
      OBVIOUS
    <2>2. TellsOnce(ledger, e.type, S) /\ e.subject \notin S
      BY <1>3, <1>4, <2>1, LedgeredParts
    <2>3. TellsOnce(more, e.type, S \cup {e.subject})
      BY <1>2, <1>4, <2>2, OnceMore
    <2> QED  BY <1>3, <2>1, <2>3
  <1>6. /\ TellsInOrder(more, "MODEL_BRIDGE_SESSION_CREATED", Len(sessions))
        /\ TellsInOrder(more, "MODEL_BRIDGE_HANDOFF", Len(handoffs))
        /\ TellsOnce(more, "MODEL_BRIDGE_HANDOFF_ACK", Acked(handoffs))
        /\ AcksFollow(more)
    BY <1>2, <1>3, <1>4, LedgeredParts, OtherTypeTold, AcksStillFollow
  <1>7. IsLedgered(more, artifacts', sessions, handoffs)
    BY <1>5, <1>6, LedgeredParts
  <1>8. IsSeq(more)
    BY <1>2, <1>4, AppendedTo
  <1> QED  BY <1>3, <1>7, <1>8 DEF TablesAreLedgered

LEMMA SessionKeepsLedger ==
    ASSUME LedgerInv, NEW t \in Threads, InsertSession(t)
    PROVE  IsSeq(ledger') /\ TablesAreLedgered'
  <1>1. PICK e : e = LedgerEvent("MODEL_BRIDGE_SESSION_CREATED", "PASS",
                                 thread[t].nonce, Len(sessions) + 1)
    OBVIOUS
  <1>2. PICK more : more = Append(ledger, e)
    OBVIOUS
  <1>3. PICK m \in Nat : m = Len(sessions) /\ Len(sessions') = m + 1
    <2>1. PICK x : sessions' = Append(sessions, x)
      BY DEF InsertSession
    <2> QED  BY <2>1, AppendedTo DEF LedgerInv, HistoryInv, Rows
  <1>4. /\ ledger' = more /\ e.type = "MODEL_BRIDGE_SESSION_CREATED"
        /\ e.subject = m + 1 /\ UNCHANGED <<artifacts, handoffs>>
    BY <1>1, <1>2, <1>3 DEF InsertSession, Appended, LedgerEvent
  <1>5. IsSeq(ledger) /\ IsLedgered(ledger, artifacts, sessions, handoffs)
    BY DEF LedgerInv, TablesAreLedgered
  <1>6. TellsInOrder(more, "MODEL_BRIDGE_SESSION_CREATED", m + 1)
    BY <1>2, <1>3, <1>4, <1>5, LedgeredParts, NextInOrder
  <1>7. /\ TellsInOrder(more, "MODEL_BRIDGE_HANDOFF", Len(handoffs))
        /\ TellsOnce(more, "CONTRACT_ARTIFACT_REGISTERED", DOMAIN artifacts)
        /\ TellsOnce(more, "MODEL_BRIDGE_HANDOFF_ACK", Acked(handoffs))
        /\ AcksFollow(more)
    BY <1>2, <1>4, <1>5, LedgeredParts, OtherTypeTold, AcksStillFollow
  <1>8. IsLedgered(more, artifacts, sessions', handoffs)
    BY <1>3, <1>6, <1>7, LedgeredParts
  <1>9. IsSeq(more)
    BY <1>2, <1>5, AppendedTo
  <1> QED  BY <1>4, <1>8, <1>9 DEF TablesAreLedgered

LEMMA HandoffKeepsLedger ==
    ASSUME LedgerInv, NEW t \in Threads, Handoff(t)
    PROVE  IsSeq(ledger') /\ TablesAreLedgered'
  <1>1. PICK e : e = LedgerEvent("MODEL_BRIDGE_HANDOFF", "PASS",
                                 thread[t].nonce, Len(handoffs) + 1)
    OBVIOUS
  <1>2. PICK more : more = Append(ledger, e)
    OBVIOUS
  <1>3. PICK h : handoffs' = Append(handoffs, h) /\ h.status = "PENDING"
    BY HandoffRows DEF LedgerInv
  <1>4. PICK m \in Nat : m = Len(handoffs) /\ DOMAIN handoffs = 1..m
    BY DEF LedgerInv, HistoryInv, Rows, IsSeq
  <1>5. /\ IsSeq(handoffs') /\ Len(handoffs') = m + 1 /\ handoffs'[m + 1] = h
        /\ \A i \in 1..m : handoffs'[i] = handoffs[i]
    BY <1>3, <1>4, AppendedTo DEF LedgerInv, HistoryInv, Rows
  <1>6. Acked(handoffs') = Acked(handoffs)
    <2>1. DOMAIN handoffs' = (1..m) \cup {m + 1}
      BY <1>5 DEF IsSeq
    <2> QED  BY <1>3, <1>4, <1>5, <2>1 DEF Acked
  <1>7. /\ ledger' = more /\ e.type = "MODEL_BRIDGE_HANDOFF"
        /\ e.subject = m + 1 /\ UNCHANGED <<artifacts, sessions>>
    BY <1>1, <1>2, <1>4 DEF Handoff, Appended, LedgerEvent
  <1>8. IsSeq(ledger) /\ IsLedgered(ledger, artifacts, sessions, handoffs)
    BY DEF LedgerInv, TablesAreLedgered
  <1>9. TellsInOrder(more, "MODEL_BRIDGE_HANDOFF", m + 1)
    BY <1>2, <1>4, <1>7, <1>8, LedgeredParts, NextInOrder
  <1>10. /\ TellsInOrder(more, "MODEL_BRIDGE_SESSION_CREATED", Len(sessions))
         /\ TellsOnce(more, "CONTRACT_ARTIFACT_REGISTERED", DOMAIN artifacts)
         /\ TellsOnce(more, "MODEL_BRIDGE_HANDOFF_ACK", Acked(handoffs))
         /\ AcksFollow(more)
    BY <1>2, <1>7, <1>8, LedgeredParts, OtherTypeTold, AcksStillFollow
  <1>11. PICK rows : rows = handoffs'
    OBVIOUS
  <1>12. Len(rows) = m + 1 /\ Acked(rows) = Acked(handoffs)
    BY <1>5, <1>6, <1>11 DEF Acked
  <1>13. IsLedgered(more, artifacts, sessions, rows)
    BY <1>9, <1>10, <1>12, LedgeredParts
  <1>14. IsSeq(more)
    BY <1>2, <1>8, AppendedTo
  <1> QED  BY <1>7, <1>11, <1>13, <1>14 DEF TablesAreLedgered

(* A handoff that is there was told, and one that is pending was not       *)
(* acknowledged.                                                           *)
LEMMA AckKeepsLedger ==
    ASSUME LedgerInv, NEW t \in Threads, Ack(t)
    PROVE  IsSeq(ledger') /\ TablesAreLedgered'
  <1>1. PICK a : a = Op(t).handoff
    OBVIOUS
  <1>2. PICK e : e = LedgerEvent("MODEL_BRIDGE_HANDOFF_ACK", "PASS",
                                 thread[t].nonce, a)
    OBVIOUS
  <1>3. PICK more : more = Append(ledger, e)
    OBVIOUS
  <1>4. PICK rows : rows = handoffs'
    OBVIOUS
  <1>5. PICK m \in Nat : m = Len(handoffs) /\ DOMAIN handoffs = 1..m
    BY DEF LedgerInv, HistoryInv, Rows, IsSeq
  <1>6. /\ a \in 1..m /\ rows[a].status = "ACKED"
        /\ Len(rows) = m /\ DOMAIN rows = 1..m
        /\ \A i \in 1..m : i # a => rows[i] = handoffs[i]
    BY <1>1, <1>4, <1>5, AckRows DEF LedgerInv, HistoryInv, IsSeq
  <1>7. /\ ledger' = more /\ e.type = "MODEL_BRIDGE_HANDOFF_ACK" /\ e.subject = a
        /\ handoffs[a].status = "PENDING" /\ UNCHANGED <<artifacts, sessions>>
    BY <1>1, <1>2, <1>3 DEF Ack, Appended, LedgerEvent
  <1>8. a \notin Acked(handoffs) /\ Acked(rows) = Acked(handoffs) \cup {a}
    BY <1>5, <1>6, <1>7 DEF Acked
  <1>9. IsSeq(ledger) /\ IsLedgered(ledger, artifacts, sessions, handoffs)
    BY DEF LedgerInv, TablesAreLedgered
  <1>10. TellsOnce(more, "MODEL_BRIDGE_HANDOFF_ACK", Acked(handoffs) \cup {a})
    BY <1>3, <1>7, <1>8, <1>9, LedgeredParts, OnceMore
  <1>11. /\ TellsInOrder(more, "MODEL_BRIDGE_SESSION_CREATED", Len(sessions))
         /\ TellsInOrder(more, "MODEL_BRIDGE_HANDOFF", m)
         /\ TellsOnce(more, "CONTRACT_ARTIFACT_REGISTERED", DOMAIN artifacts)
    BY <1>3, <1>5, <1>7, <1>9, LedgeredParts, OtherTypeTold
  <1>12. \E j \in Told(ledger, "MODEL_BRIDGE_HANDOFF") : ledger[j].subject = a
    <2>1. PICK n \in Nat : n = Len(ledger)
      BY <1>9, AppendedTo
    <2>2. PICK T : T = Told(ledger, "MODEL_BRIDGE_HANDOFF")
      OBVIOUS
    <2>3. T \subseteq 1..n
      BY <1>9, <2>1, <2>2, OneMoreTold
    <2>4. Cardinality(T) = m /\ \A j \in T : ledger[j].subject = Rank(T, j)
      BY <1>5, <1>9, <2>2, LedgeredParts DEF TellsInOrder
    <2>5. a \in 1..Cardinality(T)
      BY <1>6, <2>4
    <2>6. PICK j \in T : Rank(T, j) = a
      BY <2>1, <2>3, <2>5, RanksAreAll
    <2> QED  BY <2>2, <2>4, <2>6
  <1>13. AcksFollow(more)
    BY <1>3, <1>7, <1>9, <1>12, LedgeredParts, AcksStillFollow
  <1>14. IsLedgered(more, artifacts, sessions, rows)
    BY <1>6, <1>8, <1>10, <1>11, <1>13, LedgeredParts
  <1>15. IsSeq(more)
    BY <1>3, <1>9, AppendedTo
  <1> QED  BY <1>4, <1>7, <1>14, <1>15 DEF TablesAreLedgered

LEMMA StepKeepsLedger ==
    ASSUME LedgerInv, [Next]_serviceVars
    PROVE  LedgerInv'
  <1>1. HistoryInv'
    BY StepKeepsHistory DEF LedgerInv
  <1>2. IsSeq(ledger') /\ TablesAreLedgered'
    <2>1. CASE /\ UNCHANGED <<artifacts, sessions, handoffs>>
               /\ \/ UNCHANGED ledger
                  \/ \E e : ledger' = Append(ledger, e) /\ e.type \notin RowEvents
      BY <2>1, SilentKeepsLedger
    <2>2. CASE \E t \in Threads :
                  Register(t) \/ InsertSession(t) \/ Handoff(t) \/ Ack(t)
      BY <2>2, RegisterKeepsLedger, SessionKeepsLedger, HandoffKeepsLedger,
         AckKeepsLedger
    <2> QED  BY <2>1, <2>2, LedgerSteps
  <1> QED  BY <1>1, <1>2 DEF LedgerInv, IsSeq

LEMMA InitLedger ==
    ASSUME Init
    PROVE  LedgerInv
  <1>1. PICK d \in Databases :
           /\ ledger = d.ledger /\ artifacts = d.artifacts
           /\ sessions = d.sessions /\ handoffs = d.handoffs
    BY DEF Init, BridgeInit
  <1>2. /\ ledger \in Seq({ledger[i] : i \in DOMAIN ledger})
        /\ IsLedgered(ledger, artifacts, sessions, handoffs)
    BY <1>1, ServiceAssumption
  <1> QED  BY <1>2, InitHistory DEF LedgerInv, TablesAreLedgered, IsSeq

(* storage.py, each row and its event in one transaction: over any database*)
(* the service wrote, for every number of threads, in any order of handlers*)
(* and faults, the ledger and the tables tell the same.  The proof rests on*)
(* the history of the handoffs, whose rows an acknowledgement points to.   *)
THEOREM TablesAreTold == Spec => []TablesAreLedgered
  <1>1. Init => LedgerInv
    BY InitLedger
  <1>2. LedgerInv /\ [Next]_serviceVars => LedgerInv'
    BY StepKeepsLedger
  <1>3. LedgerInv => TablesAreLedgered
    BY DEF LedgerInv
  <1> QED  BY <1>1, <1>2, <1>3, PTL DEF Spec
---------------------------------------------------------------------------
(* The accounts of the provider route, one nonce at a time.                *)
Outcomes == {"OPENAI_RESPONSE", "OPENAI_PROVIDER_FAILURE", "withheld"}

(* Those of an answer the provider gave.                                   *)
Answered == {"OPENAI_RESPONSE", "withheld"}

Bound == {"handle", "insert", "calling"}

Tally(events, outcomes, n) ==
    Cardinality({i \in DOMAIN events : Outcome(events[i]) \in outcomes
                                       /\ events[i].req = n})

(* Threads that work on request n, at one of the stages.                   *)
Count(threads, stages, n) ==
    Cardinality({t \in Threads : threads[t].nonce = n
                                 /\ threads[t].pc \in stages})

(* A request that was accepted may be on its way to the provider once;     *)
(* what the provider processed is told, or awaits its record, or ended     *)
(* without one; and what awaits its record has no event of its own yet.    *)
Balance(processed, cut, events, threads, acceptances, n) ==
    /\ Occurrences(processed, n) + Count(threads, Bound, n)
          <= Len(acceptances[n])
    /\ Occurrences(processed, n) <=
          Tally(events, Outcomes, n) + Count(threads, {"processed"}, n)
             + Occurrences(cut, n)
    /\ Tally(events, Answered, n) + Count(threads, {"processed"}, n)
          <= Occurrences(processed, n)

Balanced ==
    \A n \in 1..MaxRequests : Balance(calls, lost, ledger, thread, accepted, n)

(* What is exposed, or was, is authorized.                                 *)
Permitted ==
    /\ \A t \in Threads : thread[t].pc = "calling" => Authorized(Op(t).human)
    /\ \A i \in 1..Len(calls) : /\ calls[i] \in 1..Len(sent)
                                /\ Authorized(sent[calls[i]].op.human)

Lists == IsSeq(calls) /\ IsSeq(lost) /\ IsSeq(ledger)

CallsInv == AuthInv /\ Lists /\ Permitted /\ Balanced
---------------------------------------------------------------------------
(* One position more, which is one of those that are counted or not.       *)
LEMMA OnePositionMore ==
    ASSUME NEW n \in Nat, NEW T, T \subseteq 1..n, NEW U,
           NEW b \in BOOLEAN, U = IF b THEN T \cup {n + 1} ELSE T
    PROVE  /\ Cardinality(T) \in Nat
           /\ Cardinality(U) = Cardinality(T) + (IF b THEN 1 ELSE 0)
  <1>1. IsFiniteSet(T) /\ Cardinality(T) \in Nat
    BY Positions
  <1>2. CASE b
    BY <1>1, <1>2, RankLast
  <1>3. CASE ~b
    BY <1>1, <1>3
  <1> QED  BY <1>1, <1>2, <1>3

LEMMA OneOccurrenceMore ==
    ASSUME NEW s, IsSeq(s), NEW x, NEW n
    PROVE  /\ Occurrences(s, n) \in Nat
           /\ Occurrences(Append(s, x), n)
                 = Occurrences(s, n) + (IF x = n THEN 1 ELSE 0)
  <1>1. PICK m \in Nat : m = Len(s)
    BY AppendedTo
  <1>2. PICK more : more = Append(s, x)
    OBVIOUS
  <1>3. /\ DOMAIN s = 1..m /\ DOMAIN more = 1..(m + 1)
        /\ \A i \in 1..m : more[i] = s[i]
        /\ more[m + 1] = x
    BY <1>1, <1>2, AppendedTo DEF IsSeq
  <1>4. PICK T, U : /\ T = {i \in DOMAIN s : s[i] = n}
                    /\ U = {i \in DOMAIN more : more[i] = n}
    OBVIOUS
  <1>5. T \subseteq 1..m /\ U = IF x = n THEN T \cup {m + 1} ELSE T
    BY <1>3, <1>4
  <1>6. /\ Cardinality(T) \in Nat
        /\ Cardinality(U) = Cardinality(T) + (IF x = n THEN 1 ELSE 0)
    <2>1. PICK b \in BOOLEAN : b <=> x = n
      OBVIOUS
    <2>2. T \subseteq 1..m /\ U = IF b THEN T \cup {m + 1} ELSE T
      BY <1>5, <2>1
    <2>3. /\ Cardinality(T) \in Nat
          /\ Cardinality(U) = Cardinality(T) + (IF b THEN 1 ELSE 0)
      BY <2>2, OnePositionMore
    <2> QED  BY <2>1, <2>3
  <1> QED  BY <1>2, <1>4, <1>6 DEF Occurrences

LEMMA OneEventMore ==
    ASSUME NEW events, IsSeq(events), NEW e, NEW outcomes, NEW n
    PROVE  /\ Tally(events, outcomes, n) \in Nat
           /\ Tally(Append(events, e), outcomes, n) =
                 Tally(events, outcomes, n)
                   + (IF Outcome(e) \in outcomes /\ e.req = n THEN 1 ELSE 0)
  <1>1. PICK m \in Nat : m = Len(events)
    BY AppendedTo
  <1>2. PICK more : more = Append(events, e)
    OBVIOUS
  <1>3. /\ DOMAIN events = 1..m /\ DOMAIN more = 1..(m + 1)
        /\ \A i \in 1..m : more[i] = events[i]
        /\ more[m + 1] = e
    BY <1>1, <1>2, AppendedTo DEF IsSeq
  <1>4. PICK T, U :
           /\ T = {i \in DOMAIN events : Outcome(events[i]) \in outcomes
                                         /\ events[i].req = n}
           /\ U = {i \in DOMAIN more : Outcome(more[i]) \in outcomes
                                       /\ more[i].req = n}
    OBVIOUS
  <1>5. PICK b \in BOOLEAN : b <=> Outcome(e) \in outcomes /\ e.req = n
    OBVIOUS
  <1>6. T \subseteq 1..m /\ U = IF b THEN T \cup {m + 1} ELSE T
    BY <1>3, <1>4, <1>5
  <1>7. /\ Cardinality(T) \in Nat
        /\ Cardinality(U) = Cardinality(T) + (IF b THEN 1 ELSE 0)
    BY <1>6, OnePositionMore
  <1> QED  BY <1>2, <1>4, <1>5, <1>7 DEF Tally

(* One thread goes from one stage to another.                              *)
Stands(x, stages, n) == IF x.nonce = n /\ x.pc \in stages THEN 1 ELSE 0

LEMMA OneThreadMoves ==
    ASSUME NEW threads, NEW next, NEW t \in Threads, NEW x, NEW stages, NEW n,
           next[t] = x, \A u \in Threads : u # t => next[u] = threads[u]
    PROVE  /\ Count(threads, stages, n) \in Nat
           /\ Count(next, stages, n) \in Nat
           /\ Count(next, stages, n) + Stands(threads[t], stages, n)
                 = Count(threads, stages, n) + Stands(x, stages, n)
  <1>1. PICK T, U :
           /\ T = {u \in Threads : threads[u].nonce = n /\ threads[u].pc \in stages}
           /\ U = {u \in Threads : next[u].nonce = n /\ next[u].pc \in stages}
    OBVIOUS
  <1>2. IsFiniteSet(T) /\ IsFiniteSet(U)
    <2>1. T \in SUBSET Threads /\ U \in SUBSET Threads
      BY <1>1
    <2> QED  BY <2>1, AuthAssumption, FS_Subset
  <1>3. Cardinality(T) \in Nat /\ Cardinality(U) \in Nat
    BY <1>2, FS_CardinalityType
  <1>4. PICK R : R = T \ {t}
    OBVIOUS
  <1>5. IsFiniteSet(R) /\ t \notin R
    BY <1>2, <1>4, FS_Subset
  <1>6. T = IF t \in T THEN R \cup {t} ELSE R
    BY <1>4
  <1>7. U = IF t \in U THEN R \cup {t} ELSE R
    BY <1>1, <1>4
  <1>8. /\ Cardinality(T) = Cardinality(R) + (IF t \in T THEN 1 ELSE 0)
        /\ Cardinality(U) = Cardinality(R) + (IF t \in U THEN 1 ELSE 0)
        /\ Cardinality(R) \in Nat
    BY <1>5, <1>6, <1>7, FS_AddElement, FS_CardinalityType
  <1>9. /\ t \in T <=> (threads[t].nonce = n /\ threads[t].pc \in stages)
        /\ t \in U <=> (x.nonce = n /\ x.pc \in stages)
    BY <1>1
  <1>10. /\ Stands(threads[t], stages, n) = IF t \in T THEN 1 ELSE 0
         /\ Stands(x, stages, n) = IF t \in U THEN 1 ELSE 0
    BY <1>9 DEF Stands
  <1>11. Cardinality(U) + (IF t \in T THEN 1 ELSE 0)
            = Cardinality(T) + (IF t \in U THEN 1 ELSE 0)
    BY <1>8
  <1> QED  BY <1>1, <1>3, <1>10, <1>11 DEF Count
---------------------------------------------------------------------------
(* A step moves one thread, unless it is none of the route's concern or a  *)
(* crash.  This is what the moves do to the accounts.                      *)
Moves(t, x) == thread' = [thread EXCEPT ![t] = x]

(* Before a request is accepted and when it is refused.                    *)
Outside(t, x) ==
    /\ {thread[t].pc, x.pc} \subseteq {"idle", "body"}
    /\ UNCHANGED <<accepted, calls, lost, ledger>>

Accepts(t, x) ==
    /\ thread[t].pc = "body"
    /\ x.pc = "idle" \/ (x.pc = "handle" /\ x.nonce = thread[t].nonce)
    /\ \E b : accepted' = [accepted EXCEPT ![thread[t].nonce] = Append(@, b)]
    /\ UNCHANGED <<calls, lost, ledger>>

(* A request that was accepted goes on or is answered, with an event or    *)
(* without one, but not with that of an answer of the provider.            *)
Handles(t, x) ==
    /\ thread[t].pc \in Bound
    /\ x.pc = "idle" \/ (x.pc \in Bound /\ x.nonce = thread[t].nonce)
    /\ \/ UNCHANGED ledger
       \/ \E e : ledger' = Append(ledger, e) /\ Outcome(e) \notin Answered
    /\ UNCHANGED <<accepted, calls, lost>>

Exposes(t, x) ==
    /\ thread[t].pc = "calling"
    /\ x.pc = "processed" /\ x.nonce = thread[t].nonce
    /\ calls' = Append(calls, thread[t].nonce)
    /\ UNCHANGED <<accepted, lost, ledger>>

(* A call is over: its record is written, or there is none.                *)
Concludes(t, x) ==
    /\ thread[t].pc = "processed" /\ x.pc = "idle"
    /\ \/ /\ UNCHANGED lost
          /\ \E e : /\ ledger' = Append(ledger, e)
                    /\ Outcome(e) \in Outcomes /\ e.req = thread[t].nonce
       \/ UNCHANGED ledger /\ lost' = Append(lost, thread[t].nonce)
    /\ UNCHANGED <<accepted, calls>>

Accounted(t, x) ==
    Moves(t, x) /\ (\/ Outside(t, x) \/ Accepts(t, x) \/ Handles(t, x)
                    \/ Exposes(t, x) \/ Concludes(t, x))

LEMMA GoesMoves ==
    ASSUME AuthTypes, NEW t \in Threads, NEW p, Goes(t, p)
    PROVE  Moves(t, [pc |-> p, nonce |-> thread[t].nonce])
  <1>1. thread' = [thread EXCEPT ![t] = [thread[t] EXCEPT !.pc = p]]
    BY DEF Goes
  <1>2. thread[t] \in [pc : Stages, nonce : Nat]
    BY DEF AuthTypes
  <1>3. [thread[t] EXCEPT !.pc = p] = [pc |-> p, nonce |-> thread[t].nonce]
    BY <1>2
  <1> QED  BY <1>1, <1>3 DEF Moves

LEMMA EndsMoves ==
    ASSUME NEW t, Ends(t)
    PROVE  Moves(t, Idle) /\ Idle.pc = "idle"
  BY DEF Ends, Moves, Idle

(* One event, and an answer.                                               *)
LEMMA EventEnds ==
    ASSUME NEW t, NEW type, NEW decision, NEW subject,
           AppendEvent(t, type, decision, subject)
    PROVE  /\ Moves(t, Idle) /\ Idle.pc = "idle"
           /\ UNCHANGED accepted
           /\ \E e : /\ ledger' = Append(ledger, e)
                     /\ e.type = type /\ e.subject = subject
                     /\ e.req = thread[t].nonce
  <1>1. PICK e : e = LedgerEvent(type, decision, thread[t].nonce, subject)
    OBVIOUS
  <1>2. /\ ledger' = Append(ledger, e)
        /\ e.type = type /\ e.subject = subject /\ e.req = thread[t].nonce
    BY <1>1 DEF AppendEvent, Appended, LedgerEvent
  <1> QED  BY <1>2, EndsMoves DEF AppendEvent

LEMMA AuthenticationAccounts ==
    ASSUME AuthTypes, NEW t \in Threads, Authenticate(t), UNCHANGED <<bridgeVars, providerVars>>
    PROVE  \E x : Accounted(t, x)
  <1>1. UNCHANGED <<calls, lost, ledger>>
    BY DEF bridgeVars, providerVars
  <1>2. ASSUME NEW n, Arrive(t, n)
        PROVE  \E x : Accounted(t, x)
    <2>1. PICK x : x = [pc |-> "body", nonce |-> n]
      OBVIOUS
    <2>2. Moves(t, x) /\ x.pc = "body" /\ thread[t].pc = "idle" /\ UNCHANGED accepted
      BY <1>2, <2>1 DEF Arrive, Moves, Idle
    <2> QED  BY <1>1, <2>2 DEF Accounted, Outside
  <1>3. CASE RefuseReplay(t) \/ ConsumeUnanswered(t)
    <2>1. Ends(t) /\ thread[t].pc = "body" /\ UNCHANGED accepted
      BY <1>3 DEF RefuseReplay, ConsumeUnanswered
    <2>2. Moves(t, Idle) /\ Outside(t, Idle)
      BY <1>1, <2>1, EndsMoves DEF Outside
    <2> QED  BY <2>2 DEF Accounted
  <1>4. CASE Accept(t)
    <2>1. PICK b : accepted' = [accepted EXCEPT ![thread[t].nonce] = Append(@, b)]
      BY <1>4 DEF Accept
    <2>2. thread[t].pc = "body" /\ (Ends(t) \/ Goes(t, "handle"))
      BY <1>4 DEF Accept
    <2>3. PICK h : h = [pc |-> "handle", nonce |-> thread[t].nonce]
      OBVIOUS
    <2>4. \E x : /\ Moves(t, x)
                 /\ x.pc = "idle" \/ (x.pc = "handle" /\ x.nonce = thread[t].nonce)
      BY <2>2, <2>3, EndsMoves, GoesMoves
    <2> QED  BY <1>1, <2>1, <2>2, <2>4 DEF Accounted, Accepts
  <1> QED  BY <1>2, <1>3, <1>4 DEF Authenticate

LEMMA BridgeAccounts ==
    ASSUME AuthTypes, NEW t \in Threads, BridgeHandler(t), UNCHANGED providerVars
    PROVE  \E x : Accounted(t, x)
  <1>1. UNCHANGED <<calls, lost>>
    BY DEF providerVars
  <1>2. /\ thread[t].pc \in {"handle", "insert"} /\ UNCHANGED accepted
        /\ Ends(t) \/ Goes(t, "insert")
    BY DEF BridgeHandler, Handling, Register, RegisterKnown, Ingress,
           ValidateSession, InsertSession, Handoff, RejectHandoff,
           RefuseHandoff, Ack, AckUnchanged, Answers, AppendEvent
  <1>3. \/ UNCHANGED ledger
        \/ \E e : ledger' = Append(ledger, e) /\ Outcome(e) \notin Answered
    <2>1. \/ UNCHANGED ledger
          \/ \E type, decision, subject :
                /\ type \notin Answered \cup {"OPENAI_SECRET_PLANE_HOLD"}
                /\ ledger' = Appended(LedgerEvent(type, decision,
                                                  thread[t].nonce, subject))
      <3>1. CASE Register(t)
        <4>1. ledger' = Appended(LedgerEvent("CONTRACT_ARTIFACT_REGISTERED",
                                    "PASS", thread[t].nonce, Op(t).content))
          BY <3>1 DEF Register
        <4> QED  BY <4>1 DEF Answered
      <3>2. CASE InsertSession(t)
        <4>1. ledger' = Appended(LedgerEvent("MODEL_BRIDGE_SESSION_CREATED",
                                    "PASS", thread[t].nonce, Len(sessions) + 1))
          BY <3>2 DEF InsertSession
        <4> QED  BY <4>1 DEF Answered
      <3>3. CASE Handoff(t)
        <4>1. ledger' = Appended(LedgerEvent("MODEL_BRIDGE_HANDOFF", "PASS",
                                    thread[t].nonce, Len(handoffs) + 1))
          BY <3>3 DEF Handoff
        <4> QED  BY <4>1 DEF Answered
      <3>4. CASE Ack(t)
        <4>1. ledger' = Appended(LedgerEvent("MODEL_BRIDGE_HANDOFF_ACK", "PASS",
                                    thread[t].nonce, Op(t).handoff))
          BY <3>4 DEF Ack
        <4> QED  BY <4>1 DEF Answered
      <3>5. CASE RejectHandoff(t)
        <4>1. ledger' = Appended(LedgerEvent("MODEL_BRIDGE_HANDOFF_REJECTED",
                                    Gate(Op(t).human), thread[t].nonce, 0))
          BY <3>5 DEF RejectHandoff, AppendEvent
        <4> QED  BY <4>1 DEF Answered
      <3>6. CASE Ingress(t)
        <4>1. PICK subject :
                 ledger' = Appended(LedgerEvent("INGRESS", Gate(Op(t).human),
                                                thread[t].nonce, subject))
          BY <3>6 DEF Ingress, AppendEvent
        <4> QED  BY <4>1 DEF Answered
      <3>7. CASE RegisterKnown(t) \/ ValidateSession(t) \/ RefuseHandoff(t)
                    \/ AckUnchanged(t)
        BY <3>7 DEF RegisterKnown, ValidateSession, RefuseHandoff, AckUnchanged,
                    Answers, bridgeVars
      <3> QED  BY <3>1, <3>2, <3>3, <3>4, <3>5, <3>6, <3>7 DEF BridgeHandler
    <2>2. ASSUME NEW type, NEW decision, NEW subject,
                 type \notin Answered \cup {"OPENAI_SECRET_PLANE_HOLD"},
                 ledger' = Appended(LedgerEvent(type, decision,
                                                thread[t].nonce, subject))
          PROVE  \E e : ledger' = Append(ledger, e) /\ Outcome(e) \notin Answered
      <3>1. PICK e : e = LedgerEvent(type, decision, thread[t].nonce, subject)
        OBVIOUS
      <3> QED  BY <2>2, <3>1 DEF Appended, LedgerEvent, Outcome
    <2> QED  BY <2>1, <2>2
  <1>4. PICK h : h = [pc |-> "insert", nonce |-> thread[t].nonce]
    OBVIOUS
  <1>5. \E x : /\ Moves(t, x)
               /\ x.pc = "idle" \/ (x.pc \in Bound /\ x.nonce = thread[t].nonce)
    BY <1>2, <1>4, EndsMoves, GoesMoves DEF Bound
  <1>6. thread[t].pc \in Bound
    BY <1>2 DEF Bound
  <1> QED  BY <1>1, <1>2, <1>3, <1>5, <1>6 DEF Accounted, Handles

LEMMA ProviderAccounts ==
    ASSUME AuthTypes, NEW t \in Threads, ProviderHandler(t)
    PROVE  \E x : Accounted(t, x)
  <1>1. ASSUME NEW type, NEW decision, NEW subject,
               Records(t, type, decision, subject)
        PROVE  /\ Moves(t, Idle) /\ Idle.pc = "idle"
               /\ UNCHANGED <<accepted, calls, lost>>
               /\ \E e : /\ ledger' = Append(ledger, e)
                         /\ e.type = type /\ e.subject = subject
                         /\ e.req = thread[t].nonce
    BY <1>1, EventEnds DEF Records, providerVars
  <1>2. CASE ConfigurationHold(t) \/ RejectExposure(t) \/ SecretPlaneHold(t)
    <2>1. /\ thread[t].pc = "handle"
          /\ \E type, decision, subject :
                /\ type \notin Answered
                /\ subject # "SecretExposureError"
                      \/ type # "OPENAI_SECRET_PLANE_HOLD"
                /\ Records(t, type, decision, subject)
      <3>1. CASE ConfigurationHold(t)
        <4>1. Records(t, "OPENAI_PROVIDER_CONFIGURATION_HOLD", "HOLD", 0)
          BY <3>1 DEF ConfigurationHold
        <4> QED  BY <3>1, <4>1 DEF ConfigurationHold, Handling, Answered
      <3>2. CASE RejectExposure(t)
        <4>1. Records(t, "OPENAI_PROVIDER_EXPOSURE_REJECTED",
                      Gate(Op(t).human), 0)
          BY <3>2 DEF RejectExposure
        <4> QED  BY <3>2, <4>1 DEF RejectExposure, Handling, Answered
      <3>3. CASE SecretPlaneHold(t)
        <4>1. Records(t, "OPENAI_SECRET_PLANE_HOLD", "HOLD",
                      "SecretNotAvailable")
          BY <3>3 DEF SecretPlaneHold
        <4> QED  BY <3>3, <4>1 DEF SecretPlaneHold, Handling, Answered
      <3> QED  BY <1>2, <3>1, <3>2, <3>3
    <2>2. PICK type, decision, subject :
             /\ type \notin Answered
             /\ subject # "SecretExposureError"
                   \/ type # "OPENAI_SECRET_PLANE_HOLD"
             /\ Records(t, type, decision, subject)
      BY <2>1
    <2>3. /\ Moves(t, Idle) /\ Idle.pc = "idle"
          /\ UNCHANGED <<accepted, calls, lost>>
          /\ \E e : /\ ledger' = Append(ledger, e)
                    /\ e.type = type /\ e.subject = subject
                    /\ e.req = thread[t].nonce
      BY <1>1, <2>2
    <2>4. \E e : ledger' = Append(ledger, e) /\ Outcome(e) \notin Answered
      BY <2>2, <2>3 DEF Outcome, Answered
    <2>5. Handles(t, Idle)
      BY <2>1, <2>3, <2>4 DEF Handles, Bound
    <2> QED  BY <2>3, <2>5 DEF Accounted
  <1>3. CASE RefuseRequest(t)
    <2>1. /\ thread[t].pc = "handle" /\ Ends(t)
          /\ UNCHANGED <<accepted, calls, lost, ledger>>
      BY <1>3 DEF RefuseRequest, Handling, Answers, bridgeVars, providerVars
    <2>2. Moves(t, Idle) /\ Handles(t, Idle)
      BY <2>1, EndsMoves DEF Handles, Bound
    <2> QED  BY <2>2 DEF Accounted
  <1>4. CASE Call(t)
    <2>1. /\ thread[t].pc = "handle" /\ Goes(t, "calling")
          /\ UNCHANGED <<accepted, calls, lost, ledger>>
      BY <1>4 DEF Call, Handling, bridgeVars, providerVars
    <2>2. PICK x : x = [pc |-> "calling", nonce |-> thread[t].nonce]
      OBVIOUS
    <2>3. Moves(t, x) /\ x.pc = "calling" /\ x.nonce = thread[t].nonce
      BY <2>1, <2>2, GoesMoves
    <2>4. Handles(t, x)
      BY <2>1, <2>3 DEF Handles, Bound
    <2> QED  BY <2>3, <2>4 DEF Accounted
  <1>5. CASE Process(t)
    <2>1. /\ thread[t].pc = "calling" /\ Goes(t, "processed")
          /\ calls' = Append(calls, thread[t].nonce)
          /\ UNCHANGED <<accepted, lost, ledger>>
      BY <1>5 DEF Process, bridgeVars
    <2>2. PICK x : x = [pc |-> "processed", nonce |-> thread[t].nonce]
      OBVIOUS
    <2>3. Moves(t, x) /\ x.pc = "processed" /\ x.nonce = thread[t].nonce
      BY <2>1, <2>2, GoesMoves
    <2> QED  BY <2>1, <2>3 DEF Accounted, Exposes
  <1>6. ASSUME NEW type, NEW decision, NEW subject, thread[t].pc = "processed",
               Records(t, type, decision, subject),
               \/ type \in {"OPENAI_RESPONSE", "OPENAI_PROVIDER_FAILURE"}
               \/ /\ type = "OPENAI_SECRET_PLANE_HOLD"
                  /\ subject = "SecretExposureError"
        PROVE  Accounted(t, Idle)
    <2>1. /\ Moves(t, Idle) /\ Idle.pc = "idle"
          /\ UNCHANGED <<accepted, calls, lost>>
          /\ \E e : /\ ledger' = Append(ledger, e)
                    /\ e.type = type /\ e.subject = subject
                    /\ e.req = thread[t].nonce
      BY <1>1, <1>6
    <2>2. \E e : /\ ledger' = Append(ledger, e)
                 /\ Outcome(e) \in Outcomes /\ e.req = thread[t].nonce
      BY <1>6, <2>1 DEF Outcome, Outcomes
    <2>3. Concludes(t, Idle)
      BY <1>6, <2>1, <2>2 DEF Concludes
    <2> QED  BY <2>1, <2>3 DEF Accounted
  <1>7. CASE RecordResponse(t)
    <2>1. thread[t].pc = "processed" /\ Records(t, "OPENAI_RESPONSE", "PASS", 0)
      BY <1>7 DEF RecordResponse
    <2> QED  BY <1>6, <2>1
  <1>8. CASE WithholdAnswer(t)
    <2>1. /\ thread[t].pc = "processed"
          /\ Records(t, "OPENAI_SECRET_PLANE_HOLD", "HOLD", "SecretExposureError")
      BY <1>8 DEF WithholdAnswer
    <2> QED  BY <1>6, <2>1
  <1>9. CASE RefuseAnswer(t)
    <2>1. /\ thread[t].pc = "processed" /\ Ends(t)
          /\ lost' = Append(lost, thread[t].nonce)
          /\ UNCHANGED <<accepted, calls, ledger>>
      BY <1>9 DEF RefuseAnswer, Answers, bridgeVars
    <2>2. Moves(t, Idle) /\ Concludes(t, Idle)
      BY <2>1, EndsMoves DEF Concludes
    <2> QED  BY <2>2 DEF Accounted
  <1>10. CASE RecordFailure(t)
    <2>1. Records(t, "OPENAI_PROVIDER_FAILURE", "HOLD", 0)
      BY <1>10 DEF RecordFailure
    <2>2. CASE thread[t].pc = "processed"
      BY <1>6, <2>1, <2>2
    <2>3. CASE thread[t].pc = "calling"
      <3>1. /\ Moves(t, Idle) /\ Idle.pc = "idle"
            /\ UNCHANGED <<accepted, calls, lost>>
            /\ \E e : /\ ledger' = Append(ledger, e)
                      /\ e.type = "OPENAI_PROVIDER_FAILURE"
        BY <1>1, <2>1
      <3>2. \E e : ledger' = Append(ledger, e) /\ Outcome(e) \notin Answered
        BY <3>1 DEF Outcome, Answered
      <3>3. Handles(t, Idle)
        BY <2>3, <3>1, <3>2 DEF Handles, Bound
      <3> QED  BY <3>1, <3>3 DEF Accounted
    <2> QED  BY <1>10, <2>2, <2>3 DEF RecordFailure
  <1> QED  BY <1>2, <1>3, <1>4, <1>5, <1>7, <1>8, <1>9, <1>10 DEF ProviderHandler

LEMMA FailureAccounts ==
    ASSUME AuthTypes, NEW t \in Threads, HandlerFails(t)
    PROVE  \E x : Accounted(t, x)
  <1>1. /\ thread[t].pc \in Stages \ {"idle", "body"} /\ Ends(t)
        /\ UNCHANGED <<accepted, calls, ledger>>
        /\ lost' = IF thread[t].pc = "processed"
                   THEN Append(lost, thread[t].nonce) ELSE lost
    BY DEF HandlerFails, bridgeVars, AuthTypes
  <1>2. Moves(t, Idle) /\ Idle.pc = "idle"
    BY <1>1, EndsMoves
  <1>3. Handles(t, Idle) \/ Concludes(t, Idle)
    BY <1>1, <1>2 DEF Handles, Concludes, Stages, Bound
  <1> QED  BY <1>2, <1>3 DEF Accounted

LEMMA AccountingSteps ==
    ASSUME AuthTypes, [Next]_serviceVars
    PROVE  \/ UNCHANGED <<thread, accepted, calls, lost, ledger>>
           \/ Crash
           \/ \E t \in Threads : \E x : Accounted(t, x)
  <1>1. ASSUME NEW op \in Ops, Sign(op, now), UNCHANGED <<bridgeVars, providerVars>>
        PROVE  UNCHANGED <<thread, accepted, calls, lost, ledger>>
    BY <1>1 DEF Sign, bridgeVars, providerVars
  <1>2. ASSUME Tick, UNCHANGED <<bridgeVars, providerVars>>
        PROVE  UNCHANGED <<thread, accepted, calls, lost, ledger>>
    BY <1>2 DEF Tick, bridgeVars, providerVars
  <1>3. ASSUME UNCHANGED serviceVars
        PROVE  UNCHANGED <<thread, accepted, calls, lost, ledger>>
    BY <1>3 DEF serviceVars, authVars, bridgeVars, providerVars
  <1> QED  BY <1>1, <1>2, <1>3, AuthenticationAccounts, BridgeAccounts,
              ProviderAccounts, FailureAccounts DEF Next
---------------------------------------------------------------------------
(* What a move does to the accounts of one nonce, from the numbers above.  *)
LEMMA MoveKeepsBalance ==
    ASSUME AuthInv, Lists, NEW t \in Threads, NEW x, Accounted(t, x),
           NEW n \in 1..MaxRequests,
           Balance(calls, lost, ledger, thread, accepted, n)
    PROVE  Balance(calls', lost', ledger', thread', accepted', n)
  <1>1. IsSeq(calls) /\ IsSeq(lost) /\ IsSeq(ledger)
    BY DEF Lists
  <1>2. PICK was : was = thread[t]
    OBVIOUS
  <1>3. thread \in [Threads -> [pc : Stages, nonce : Nat]]
    BY DEF AuthInv, AuthTypes
  <1>4. \A stages :
           /\ Count(thread, stages, n) \in Nat /\ Count(thread', stages, n) \in Nat
           /\ Count(thread', stages, n) + Stands(was, stages, n)
                 = Count(thread, stages, n) + Stands(x, stages, n)
    <2>1. thread'[t] = x /\ \A u \in Threads : u # t => thread'[u] = thread[u]
      BY <1>3 DEF Accounted, Moves
    <2> SUFFICES ASSUME NEW stages
                 PROVE  /\ Count(thread, stages, n) \in Nat
                        /\ Count(thread', stages, n) \in Nat
                        /\ Count(thread', stages, n) + Stands(was, stages, n)
                              = Count(thread, stages, n) + Stands(x, stages, n)
      OBVIOUS
    <2>2. PICK threads, next : threads = thread /\ next = thread'
      OBVIOUS
    <2>3. next[t] = x /\ \A u \in Threads : u # t => next[u] = threads[u]
      BY <2>1, <2>2
    <2>4. /\ Count(threads, stages, n) \in Nat
          /\ Count(next, stages, n) \in Nat
          /\ Count(next, stages, n) + Stands(threads[t], stages, n)
                = Count(threads, stages, n) + Stands(x, stages, n)
      BY <2>3, OneThreadMoves
    <2> QED  BY <1>2, <2>2, <2>4
  <1>5. PICK B, B1, P, P1 :
           /\ B = Count(thread, Bound, n) /\ B1 = Count(thread', Bound, n)
           /\ P = Count(thread, {"processed"}, n)
           /\ P1 = Count(thread', {"processed"}, n)
    OBVIOUS
  <1>6. /\ B \in Nat /\ B1 \in Nat /\ P \in Nat /\ P1 \in Nat
        /\ B1 + Stands(was, Bound, n) = B + Stands(x, Bound, n)
        /\ P1 + Stands(was, {"processed"}, n) = P + Stands(x, {"processed"}, n)
    BY <1>4, <1>5
  <1>7. PICK C, L, A, T, R :
           /\ C = Occurrences(calls, n) /\ L = Occurrences(lost, n)
           /\ A = Len(accepted[n])
           /\ T = Tally(ledger, Outcomes, n)
           /\ R = Tally(ledger, Answered, n)
    OBVIOUS
  <1>8. C \in Nat /\ L \in Nat /\ T \in Nat /\ R \in Nat
    BY <1>1, <1>7, OneOccurrenceMore, OneEventMore
  <1>9. accepted[n] \in Seq(BOOLEAN) /\ A \in Nat
    BY <1>7 DEF AuthInv, AuthTypes
  <1>10. C + B <= A /\ C <= T + P + L /\ R + P <= C
    BY <1>5, <1>7 DEF Balance
  <1>11. \A C1, L1, A1, T1, R1 :
            /\ C1 = Occurrences(calls', n) /\ L1 = Occurrences(lost', n)
            /\ A1 = Len(accepted'[n]) /\ T1 = Tally(ledger', Outcomes, n)
            /\ R1 = Tally(ledger', Answered, n)
            /\ C1 + B1 <= A1 /\ C1 <= T1 + P1 + L1 /\ R1 + P1 <= C1
            => Balance(calls', lost', ledger', thread', accepted', n)
    BY <1>5 DEF Balance
  <1>12. CASE Outside(t, x)
    <2>1. UNCHANGED <<accepted, calls, lost, ledger>>
      BY <1>12 DEF Outside
    <2>2. was.pc \in {"idle", "body"} /\ x.pc \in {"idle", "body"}
      BY <1>2, <1>12 DEF Outside
    <2>3. B1 = B /\ P1 = P
      BY <1>6, <2>2 DEF Stands, Bound
    <2> QED  BY <1>7, <1>10, <1>11, <2>1, <2>3
  <1>13. CASE Accepts(t, x)
    <2>1. UNCHANGED <<calls, lost, ledger>> /\ was.pc = "body"
      BY <1>2, <1>13 DEF Accepts
    <2>2. x.pc = "idle" \/ (x.pc = "handle" /\ x.nonce = was.nonce)
      BY <1>2, <1>13 DEF Accepts
    <2>3. PICK b : accepted' = [accepted EXCEPT ![was.nonce] = Append(@, b)]
      BY <1>2, <1>13 DEF Accepts
    <2>4. accepted \in [1..MaxRequests -> Seq(BOOLEAN)]
      BY DEF AuthInv, AuthTypes
    <2>5. Len(accepted'[n]) = A + (IF was.nonce = n THEN 1 ELSE 0)
      <3>1. CASE was.nonce = n
        <4>1. accepted'[n] = Append(accepted[n], b)
          BY <2>3, <2>4, <3>1
        <4>2. IsSeq(accepted[n])
          BY <1>9 DEF IsSeq
        <4>3. Len(accepted'[n]) = Len(accepted[n]) + 1
          BY <4>1, <4>2, AppendedTo
        <4> QED  BY <1>7, <3>1, <4>3
      <3>2. CASE was.nonce # n
        <4>1. accepted'[n] = accepted[n]
          BY <2>3, <2>4, <3>2
        <4> QED  BY <1>7, <1>9, <3>2, <4>1
      <3> QED  BY <3>1, <3>2
    <2>6. P1 = P /\ B1 <= B + (IF was.nonce = n THEN 1 ELSE 0)
      BY <1>6, <2>1, <2>2 DEF Stands, Bound
    <2>7. PICK A1 \in Nat : A1 = Len(accepted'[n])
      BY <1>9, <2>5
    <2>8. C + B1 <= A1
      BY <1>6, <1>8, <1>9, <1>10, <2>5, <2>6, <2>7
    <2> QED  BY <1>7, <1>10, <1>11, <2>1, <2>6, <2>7, <2>8
  <1>14. CASE Handles(t, x)
    <2>1. UNCHANGED <<accepted, calls, lost>> /\ was.pc \in Bound
      BY <1>2, <1>14 DEF Handles
    <2>2. x.pc = "idle" \/ (x.pc \in Bound /\ x.nonce = was.nonce)
      BY <1>2, <1>14 DEF Handles
    <2>3. B1 <= B /\ P1 = P
      BY <1>6, <2>1, <2>2 DEF Stands, Bound
    <2>4. PICK T1, R1 : /\ T1 = Tally(ledger', Outcomes, n)
                        /\ R1 = Tally(ledger', Answered, n)
      OBVIOUS
    <2>5. T1 \in Nat /\ T <= T1 /\ R1 = R /\ IsSeq(ledger')
      <3>1. CASE UNCHANGED ledger
        BY <1>1, <1>7, <1>8, <2>4, <3>1 DEF IsSeq
      <3>2. ASSUME NEW e, ledger' = Append(ledger, e), Outcome(e) \notin Answered
            PROVE  T1 \in Nat /\ T <= T1 /\ R1 = R /\ IsSeq(ledger')
        <4>1. IsSeq(ledger')
          BY <1>1, <3>2, AppendedTo
        <4>2. T1 = T + (IF Outcome(e) \in Outcomes /\ e.req = n THEN 1 ELSE 0)
          BY <1>1, <1>7, <2>4, <3>2, OneEventMore
        <4>3. R1 = R + 0
          <5>1. R1 = R + (IF Outcome(e) \in Answered /\ e.req = n
                          THEN 1 ELSE 0)
            BY <1>1, <1>7, <2>4, <3>2, OneEventMore
          <5> QED  BY <3>2, <5>1
        <4> QED  BY <1>8, <4>1, <4>2, <4>3
      <3> QED  BY <1>14, <3>1, <3>2 DEF Handles
    <2>6. C + B1 <= A /\ C <= T1 + P1 + L /\ R1 + P1 <= C
      BY <1>6, <1>8, <1>9, <1>10, <2>3, <2>5
    <2> QED  BY <1>7, <1>11, <2>1, <2>4, <2>5, <2>6
  <1>15. CASE Exposes(t, x)
    <2>1. /\ UNCHANGED <<accepted, lost, ledger>> /\ was.pc = "calling"
          /\ x.pc = "processed" /\ x.nonce = was.nonce
          /\ calls' = Append(calls, was.nonce)
      BY <1>2, <1>15 DEF Exposes
    <2>2. PICK o \in Nat : o = IF was.nonce = n THEN 1 ELSE 0
      OBVIOUS
    <2>3. B1 + o = B /\ P1 = P + o
      <3>1. /\ Stands(was, Bound, n) = o /\ Stands(x, Bound, n) = 0
            /\ Stands(was, {"processed"}, n) = 0
            /\ Stands(x, {"processed"}, n) = o
        BY <2>1, <2>2 DEF Stands, Bound
      <3> QED  BY <1>6, <3>1
    <2>4. PICK C1 : C1 = Occurrences(calls', n)
      OBVIOUS
    <2>5. C1 = C + o /\ IsSeq(calls')
      BY <1>1, <1>7, <2>1, <2>2, <2>4, AppendedTo, OneOccurrenceMore
    <2>6. C1 + B1 <= A /\ C1 <= T + P1 + L /\ R + P1 <= C1
      BY <1>6, <1>8, <1>9, <1>10, <2>3, <2>5
    <2> QED  BY <1>7, <1>11, <2>1, <2>4, <2>5, <2>6
  <1>16. CASE Concludes(t, x)
    <2>1. /\ UNCHANGED <<accepted, calls>>
          /\ was.pc = "processed" /\ x.pc = "idle"
      BY <1>2, <1>16 DEF Concludes
    <2>2. PICK o \in Nat : o = IF was.nonce = n THEN 1 ELSE 0
      OBVIOUS
    <2>3. B1 = B /\ P1 + o = P
      <3>1. /\ Stands(was, Bound, n) = 0 /\ Stands(x, Bound, n) = 0
            /\ Stands(was, {"processed"}, n) = o
            /\ Stands(x, {"processed"}, n) = 0
        BY <2>1, <2>2 DEF Stands, Bound
      <3> QED  BY <1>6, <3>1
    <2>4. PICK T1, R1, L1 : /\ T1 = Tally(ledger', Outcomes, n)
                            /\ R1 = Tally(ledger', Answered, n)
                            /\ L1 = Occurrences(lost', n)
      OBVIOUS
    <2>5. CASE UNCHANGED ledger /\ lost' = Append(lost, thread[t].nonce)
      <3>1. L1 = L + o /\ IsSeq(lost')
        BY <1>1, <1>2, <1>7, <2>2, <2>4, <2>5, AppendedTo, OneOccurrenceMore
      <3>2. C + B1 <= A /\ C <= T + P1 + L1 /\ R + P1 <= C
        BY <1>6, <1>8, <1>9, <1>10, <2>3, <3>1
      <3> QED  BY <1>7, <1>11, <2>1, <2>4, <2>5, <3>1, <3>2
    <2>6. ASSUME UNCHANGED lost, NEW e, ledger' = Append(ledger, e),
                 Outcome(e) \in Outcomes, e.req = thread[t].nonce
          PROVE  Balance(calls', lost', ledger', thread', accepted', n)
      <3>1. IsSeq(ledger')
        BY <1>1, <2>6, AppendedTo
      <3>2. T1 = T + o
        <4>1. T1 = T + (IF Outcome(e) \in Outcomes /\ e.req = n THEN 1 ELSE 0)
          BY <1>1, <1>7, <2>4, <2>6, OneEventMore
        <4> QED  BY <1>2, <2>2, <2>6, <4>1
      <3>3. R1 \in Nat /\ R1 <= R + o
        <4>1. R1 = R + (IF Outcome(e) \in Answered /\ e.req = n
                        THEN 1 ELSE 0)
          BY <1>1, <1>7, <2>4, <2>6, OneEventMore
        <4> QED  BY <1>2, <1>8, <2>2, <2>6, <4>1
      <3>4. C + B1 <= A /\ C <= T1 + P1 + L /\ R1 + P1 <= C
        BY <1>6, <1>8, <1>9, <1>10, <2>3, <3>2, <3>3
      <3> QED  BY <1>7, <1>11, <2>1, <2>4, <2>6, <3>1, <3>4
    <2> QED  BY <1>16, <2>5, <2>6 DEF Concludes
  <1> QED  BY <1>12, <1>13, <1>14, <1>15, <1>16 DEF Accounted

(* A crash cuts off the record of every call whose answer it loses: the    *)
(* owners of the threads at work, in some order.                           *)
Enumerates(added, working, owner) ==
    \E order \in [1..Len(added) -> working] :
        /\ {order[i] : i \in 1..Len(added)} = working
        /\ \A i \in 1..Len(added) : added[i] = owner[order[i]]

Owned(working, owner, n) == {t \in working : owner[t] = n}

LEMMA CutOff ==
    ASSUME NEW cut, IsSeq(cut), NEW added, added \in Seq(Nat),
           NEW working, NEW owner, Enumerates(added, working, owner), NEW n
    PROVE  /\ IsSeq(cut \o added)
           /\ Occurrences(cut \o added, n) \in Nat
           /\ Occurrences(cut \o added, n) >=
                 Occurrences(cut, n) + Cardinality(Owned(working, owner, n))
           /\ Cardinality(Owned(working, owner, n)) \in Nat
  <1>1. PICK c \in Nat : c = Len(added)
    OBVIOUS
  <1>2. PICK order \in [1..c -> working] :
            /\ {order[i] : i \in 1..c} = working
            /\ \A i \in 1..c : added[i] = owner[order[i]]
    BY <1>1 DEF Enumerates
  <1>3. PICK m \in Nat : m = Len(cut)
    BY AppendedTo
  <1>4. PICK all : all = cut \o added
    OBVIOUS
  <1>5. /\ IsSeq(all) /\ DOMAIN cut = 1..m /\ DOMAIN all = 1..(m + c)
        /\ \A i \in 1..(m + c) : all[i] = IF i <= m THEN cut[i] ELSE added[i - m]
    <2>1. PICK S : cut \in Seq(S)
      BY DEF IsSeq
    <2>2. PICK U : U = S \cup Nat
      OBVIOUS
    <2>3. cut \in [1..m -> U] /\ added \in [1..c -> U]
      BY <1>1, <1>3, <2>1, <2>2
    <2>4. cut \in Seq(U) /\ added \in Seq(U)
      <3>1. cut \in Seq(U)
        BY <1>3, <2>3, SeqDef
      <3>2. added \in Seq(U)
        BY <1>1, <2>3, SeqDef
      <3> QED  BY <3>1, <3>2
    <2>5. /\ cut \o added \in Seq(U) /\ Len(cut \o added) = m + c
          /\ \A i \in 1..(m + c) :
                (cut \o added)[i] = IF i <= m THEN cut[i] ELSE added[i - m]
      BY <1>1, <1>3, <2>4, ConcatProperties
    <2> QED  BY <1>3, <1>4, <2>1, <2>5 DEF IsSeq
  <1>6. PICK A, D, W : /\ A = {i \in 1..m : cut[i] = n}
                       /\ D = {i \in (m + 1)..(m + c) : added[i - m] = n}
                       /\ W = {t \in working : owner[t] = n}
    OBVIOUS
  <1>7. /\ {i \in DOMAIN cut : cut[i] = n} = A
        /\ {i \in DOMAIN all : all[i] = n} = A \cup D
        /\ A \cap D = {}
    <2>1. {i \in DOMAIN cut : cut[i] = n} = A
      BY <1>5, <1>6
    <2>2. 1..(m + c) = (1..m) \cup ((m + 1)..(m + c))
      OBVIOUS
    <2>3. \A i \in 1..m : all[i] = cut[i] /\ i \notin (m + 1)..(m + c)
      BY <1>5
    <2>4. \A i \in (m + 1)..(m + c) : all[i] = added[i - m] /\ i \notin 1..m
      BY <1>5
    <2> QED  BY <1>5, <1>6, <2>1, <2>2, <2>3, <2>4
  <1>8. IsFiniteSet(A) /\ IsFiniteSet(D) /\ IsFiniteSet(1..(m + c))
    <2>0. PICK k \in Nat : k = m + c
      OBVIOUS
    <2>1. IsFiniteSet(1..k)
      BY <2>0, FS_Interval
    <2>2. A \in SUBSET (1..(m + c)) /\ D \in SUBSET (1..(m + c))
      BY <1>6
    <2> QED  BY <2>0, <2>1, <2>2, FS_Subset
  <1>9. PICK g : g = [i \in D |-> order[i - m]]
    OBVIOUS
  <1>10. g \in Surjection(D, W)
    <2>1. ASSUME NEW i \in D
          PROVE  g[i] \in W
      <3>1. i - m \in 1..c /\ added[i - m] = n
        BY <1>1, <1>3, <1>6
      <3> QED  BY <1>2, <1>6, <1>9, <3>1
    <2>2. ASSUME NEW t \in W
          PROVE  \E i \in D : g[i] = t
      <3>1. PICK j \in 1..c : order[j] = t
        BY <1>2, <1>6
      <3>2. j + m \in (m + 1)..(m + c) /\ (j + m) - m = j
        BY <1>1, <1>3, <3>1
      <3>3. j + m \in D
        BY <1>2, <1>6, <3>1, <3>2
      <3> QED  BY <1>9, <3>1, <3>2, <3>3
    <2> QED  BY <1>9, <2>1, <2>2 DEF Surjection
  <1>11. IsFiniteSet(W) /\ Cardinality(W) <= Cardinality(D)
    BY <1>8, <1>10, FS_Surjection
  <1>12. Cardinality(A \cup D) = Cardinality(A) + Cardinality(D)
    <2>1. Cardinality(A \cup D) = Cardinality(A) + Cardinality(D) - Cardinality(A \cap D)
      BY <1>8, FS_Union
    <2>2. Cardinality(A \cap D) = 0
      BY <1>7, FS_EmptySet
    <2>3. Cardinality(A) \in Nat /\ Cardinality(D) \in Nat
      BY <1>8, FS_CardinalityType
    <2> QED  BY <2>1, <2>2, <2>3
  <1>13. /\ Cardinality(A) \in Nat /\ Cardinality(D) \in Nat
         /\ Cardinality(W) \in Nat
    BY <1>8, <1>11, FS_CardinalityType
  <1>14. /\ Occurrences(cut, n) = Cardinality(A)
         /\ Occurrences(all, n) = Cardinality(A \cup D)
    BY <1>7 DEF Occurrences
  <1>15. /\ Occurrences(all, n) \in Nat
         /\ Occurrences(all, n) >= Occurrences(cut, n) + Cardinality(W)
    BY <1>11, <1>12, <1>13, <1>14
  <1> QED  BY <1>4, <1>5, <1>6, <1>13, <1>15 DEF Owned

LEMMA CrashCuts ==
    ASSUME AuthInv, Crash
    PROVE  \E added, working, owner :
              /\ added \in Seq(Nat)
              /\ working = {t \in Threads : thread[t].pc = "processed"}
              /\ owner = [t \in Threads |-> thread[t].nonce]
              /\ Enumerates(added, working, owner)
              /\ lost' = lost \o added
  <1>1. PICK working : working = {t \in Threads : thread[t].pc = "processed"}
    OBVIOUS
  <1>2. PICK c \in Nat : c = Cardinality(working)
    <2>1. working \in SUBSET Threads
      BY <1>1
    <2> QED  BY <2>1, AuthAssumption, FS_Subset, FS_CardinalityType
  <1>3. PICK order \in [1..c -> working] :
           /\ {order[i] : i \in DOMAIN order} = working
           /\ lost' = lost \o [i \in DOMAIN order |-> thread[order[i]].nonce]
    BY <1>1, <1>2 DEF Crash
  <1>4. PICK owner : owner = [t \in Threads |-> thread[t].nonce]
    OBVIOUS
  <1>5. PICK added : added = [i \in 1..c |-> owner[order[i]]]
    OBVIOUS
  <1>6. working \subseteq Threads /\ \A t \in Threads : thread[t].nonce \in Nat
    BY <1>1 DEF AuthInv, AuthTypes
  <1>7. /\ added \in Seq(Nat) /\ Len(added) = c
        /\ \A i \in 1..c : added[i] = owner[order[i]]
    <2>1. added \in [1..c -> Nat]
      BY <1>4, <1>5, <1>6
    <2> QED  BY <1>5, <2>1, SeqDef, LenProperties
  <1>8. lost' = lost \o added
    <2>1. DOMAIN order = 1..c
      OBVIOUS
    <2>2. [i \in 1..c |-> thread[order[i]].nonce] = added
      BY <1>4, <1>5, <1>6
    <2> QED  BY <1>3, <2>1, <2>2
  <1>9. Enumerates(added, working, owner)
    BY <1>3, <1>7 DEF Enumerates
  <1> QED  BY <1>1, <1>4, <1>7, <1>8, <1>9

LEMMA CrashKeepsBalance ==
    ASSUME AuthInv, Lists, Crash, NEW n \in 1..MaxRequests,
           Balance(calls, lost, ledger, thread, accepted, n)
    PROVE  Balance(calls', lost', ledger', thread', accepted', n)
  <1>1. IsSeq(calls) /\ IsSeq(lost) /\ IsSeq(ledger)
    BY DEF Lists
  <1>2. UNCHANGED <<accepted, calls, ledger>>
    BY DEF Crash, bridgeVars
  <1>3. PICK added, working, owner :
           /\ added \in Seq(Nat)
           /\ working = {t \in Threads : thread[t].pc = "processed"}
           /\ owner = [t \in Threads |-> thread[t].nonce]
           /\ Enumerates(added, working, owner)
           /\ lost' = lost \o added
    BY CrashCuts
  <1>4. PICK P : P = Count(thread, {"processed"}, n)
    OBVIOUS
  <1>5. P = Cardinality(Owned(working, owner, n))
    <2>1. Owned(working, owner, n)
             = {t \in Threads : thread[t].nonce = n /\ thread[t].pc \in {"processed"}}
      BY <1>3 DEF Owned
    <2> QED  BY <1>4, <2>1 DEF Count
  <1>6. PICK L, L1 : L = Occurrences(lost, n) /\ L1 = Occurrences(lost', n)
    OBVIOUS
  <1>7. L1 \in Nat /\ L1 >= L + P /\ P \in Nat
    <2>1. PICK cut : cut = lost
      OBVIOUS
    <2>2. /\ Occurrences(cut \o added, n) \in Nat
          /\ Occurrences(cut \o added, n) >=
                Occurrences(cut, n) + Cardinality(Owned(working, owner, n))
          /\ Cardinality(Owned(working, owner, n)) \in Nat
      <3>1. IsSeq(cut) /\ added \in Seq(Nat) /\ Enumerates(added, working, owner)
        BY <1>1, <1>3, <2>1
      <3> QED  BY <3>1, CutOff
    <2> QED  BY <1>3, <1>5, <1>6, <2>1, <2>2
  <1>8. \A stages : "idle" \notin stages => Count(thread', stages, n) = 0
    <2> SUFFICES ASSUME NEW stages, "idle" \notin stages
                 PROVE  Count(thread', stages, n) = 0
      OBVIOUS
    <2>1. thread' = [t \in Threads |-> Idle]
      BY DEF Crash
    <2>2. {t \in Threads : thread'[t].nonce = n /\ thread'[t].pc \in stages} = {}
      BY <2>1 DEF Idle
    <2> QED  BY <2>2, FS_EmptySet DEF Count
  <1>9. Count(thread', Bound, n) = 0 /\ Count(thread', {"processed"}, n) = 0
    BY <1>8 DEF Bound
  <1>10. PICK C, A, T, R, B :
            /\ C = Occurrences(calls, n) /\ A = Len(accepted[n])
            /\ T = Tally(ledger, Outcomes, n)
            /\ R = Tally(ledger, Answered, n)
            /\ B = Count(thread, Bound, n)
    OBVIOUS
  <1>11. C \in Nat /\ T \in Nat /\ R \in Nat /\ L \in Nat
    BY <1>1, <1>6, <1>10, OneOccurrenceMore, OneEventMore
  <1>12. B \in Nat /\ A \in Nat
    <2>1. {t \in Threads : thread[t].nonce = n /\ thread[t].pc \in Bound}
             \in SUBSET Threads
      OBVIOUS
    <2>2. B \in Nat
      BY <1>10, <2>1, AuthAssumption, FS_Subset, FS_CardinalityType DEF Count
    <2>3. A \in Nat
      BY <1>10 DEF AuthInv, AuthTypes
    <2> QED  BY <2>2, <2>3
  <1>13. C + B <= A /\ C <= T + P + L /\ R + P <= C
    BY <1>4, <1>6, <1>10 DEF Balance
  <1>14. C + 0 <= A /\ C <= T + 0 + L1 /\ R + 0 <= C
    BY <1>7, <1>11, <1>12, <1>13
  <1>15. Balance(calls', lost', ledger', thread', accepted', n)
    BY <1>2, <1>6, <1>9, <1>10, <1>14 DEF Balance
  <1> QED  BY <1>15
---------------------------------------------------------------------------
(* Signed requests stay what they are.                                     *)
LEMMA SentGrows ==
    ASSUME AuthInv, [Next]_serviceVars
    PROVE  /\ Len(sent) \in Nat /\ Len(sent') \in Nat /\ Len(sent) <= Len(sent')
           /\ \A n \in 1..Len(sent) : sent'[n] = sent[n]
  <1>1. IsSeq(sent)
    BY DEF AuthInv, AuthTypes, IsSeq
  <1>2. CASE UNCHANGED sent
    BY <1>1, <1>2, AppendedTo
  <1>3. ASSUME NEW op \in Ops, Sign(op, now)
        PROVE  /\ Len(sent) \in Nat /\ Len(sent') \in Nat /\ Len(sent) <= Len(sent')
               /\ \A n \in 1..Len(sent) : sent'[n] = sent[n]
    <2>1. PICK r : sent' = Append(sent, r)
      BY <1>3 DEF Sign
    <2> QED  BY <1>1, <2>1, AppendedTo
  <1>4. \/ UNCHANGED sent \/ \E op \in Ops : Sign(op, now)
    <2>1. ASSUME NEW t \in Threads, Authenticate(t)
          PROVE  UNCHANGED sent
      BY <2>1 DEF Authenticate, Arrive, Accept, RefuseReplay, ConsumeUnanswered
    <2>2. AuthTypes
      BY DEF AuthInv
    <2>3. ASSUME NEW t \in Threads,
                 BridgeHandler(t) \/ ProviderHandler(t) \/ HandlerFails(t)
          PROVE  UNCHANGED sent
      BY <2>2, <2>3, BridgeProceeds, ProviderProceeds, FailureProceeds
      DEF Proceeds
    <2>4. ASSUME Tick \/ Crash \/ UNCHANGED serviceVars
          PROVE  UNCHANGED sent
      BY <2>4 DEF Tick, Crash, serviceVars, authVars
    <2> QED  BY <2>1, <2>3, <2>4 DEF Next
  <1> QED  BY <1>2, <1>3, <1>4

(* A request comes to the provider through the gates.                      *)
LEMMA StepKeepsPermitted ==
    ASSUME AuthInv, Lists, Permitted, [Next]_serviceVars
    PROVE  Permitted'
  <1>1. ASSUME NEW u \in Threads, thread'[u].pc = "calling"
        PROVE  Authorized(Op(u).human)'
    <2>1. thread'[u].pc \in {"insert", "calling"} /\ thread'[u].pc # "insert"
      BY <1>1
    <2>2. Op(u)' = Op(u) /\ (thread[u].pc = "calling" \/ Call(u))
      BY <2>1, Entries
    <2>3. Authorized(Op(u).human)
      <3>1. CASE thread[u].pc = "calling"
        BY <3>1 DEF Permitted
      <3>2. CASE Call(u)
        <4>1. thread[u].pc = "handle" /\ Op(u).name = "provider"
              /\ Gate(Op(u).human) = "PASS"
          BY <3>2 DEF Call, Handling
        <4>2. Op(u) \in Ops
          BY <4>1, Request
        <4>3. Op(u).human = NoHuman \/ Op(u).human \subseteq HumanFields
          BY <4>1, <4>2, ServiceAssumption
        <4>4. PICK human : human = Op(u).human
          OBVIOUS
        <4> QED  BY <4>1, <4>3, <4>4, GateAuthorizes
      <3> QED  BY <2>2, <3>1, <3>2
    <2>4. (Op(u).human)' = Op(u).human
      BY <2>2
    <2> QED  BY <2>3, <2>4 DEF Authorized
  <1>2. /\ Len(sent) \in Nat /\ Len(sent') \in Nat /\ Len(sent) <= Len(sent')
        /\ \A n \in 1..Len(sent) : sent'[n] = sent[n]
    BY SentGrows
  <1>3. ASSUME NEW n \in 1..Len(sent), Authorized(sent[n].op.human)
        PROVE  n \in 1..Len(sent') /\ Authorized(sent'[n].op.human)
    BY <1>2, <1>3
  <1>4. \A i \in 1..Len(calls') : calls'[i] \in 1..Len(sent)
                                  /\ Authorized(sent[calls'[i]].op.human)
    <2>1. CASE UNCHANGED calls
      BY <2>1 DEF Permitted
    <2>2. ASSUME NEW t \in Threads, NEW x, Exposes(t, x)
          PROVE  \A i \in 1..Len(calls') : calls'[i] \in 1..Len(sent)
                                           /\ Authorized(sent[calls'[i]].op.human)
      <3>1. thread[t].pc = "calling" /\ calls' = Append(calls, thread[t].nonce)
        BY <2>2 DEF Exposes
      <3>2. PICK n : n = thread[t].nonce
        OBVIOUS
      <3>3. n \in 1..Len(sent) /\ Authorized(sent[n].op.human)
        BY <3>1, <3>2, Request DEF Permitted
      <3>4. PICK m \in Nat : m = Len(calls)
        BY AppendedTo DEF Lists
      <3>5. /\ Len(calls') = m + 1 /\ calls'[m + 1] = n
            /\ \A i \in 1..m : calls'[i] = calls[i]
        BY <3>1, <3>2, <3>4, AppendedTo DEF Lists
      <3> SUFFICES ASSUME NEW i \in 1..(m + 1)
                   PROVE  calls'[i] \in 1..Len(sent)
                          /\ Authorized(sent[calls'[i]].op.human)
        BY <3>5
      <3>6. CASE i \in 1..m
        BY <3>4, <3>5, <3>6 DEF Permitted
      <3>7. CASE i \notin 1..m
        BY <3>3, <3>4, <3>5, <3>7
      <3> QED  BY <3>6, <3>7
    <2>3. CASE Crash
      BY <2>1, <2>3 DEF Crash
    <2>4. ASSUME NEW t \in Threads, NEW x, Accounted(t, x), ~Exposes(t, x)
          PROVE  UNCHANGED calls
      BY <2>4 DEF Accounted, Outside, Accepts, Handles, Concludes
    <2> QED  BY <2>1, <2>2, <2>3, <2>4, AccountingSteps DEF AuthInv
  <1>5. \A i \in 1..Len(calls') : calls'[i] \in 1..Len(sent')
                                  /\ Authorized(sent'[calls'[i]].op.human)
    BY <1>3, <1>4
  <1>6. \A u \in Threads : thread'[u].pc = "calling" => Authorized(Op(u).human)'
    BY <1>1
  <1> QED  BY <1>5, <1>6 DEF Permitted

LEMMA StepKeepsLists ==
    ASSUME AuthInv, Lists, [Next]_serviceVars
    PROVE  Lists'
  <1>1. IsSeq(calls) /\ IsSeq(lost) /\ IsSeq(ledger)
    BY DEF Lists
  <1>2. CASE UNCHANGED <<thread, accepted, calls, lost, ledger>>
    BY <1>1, <1>2 DEF Lists, IsSeq
  <1>3. CASE Crash
    <2>1. UNCHANGED <<calls, ledger>>
      BY <1>3 DEF Crash, bridgeVars
    <2>2. PICK added, working, owner :
             /\ added \in Seq(Nat)
             /\ Enumerates(added, working, owner)
             /\ lost' = lost \o added
      BY <1>3, CrashCuts
    <2>3. PICK cut : cut = lost
      OBVIOUS
    <2>4. IsSeq(cut \o added)
      <3>1. IsSeq(cut)
        BY <1>1, <2>3
      <3> QED  BY <2>2, <3>1, CutOff
    <2> QED  BY <1>1, <2>1, <2>2, <2>3, <2>4 DEF Lists, IsSeq
  <1>4. ASSUME NEW t \in Threads, NEW x, Accounted(t, x)
        PROVE  Lists'
    <2>1. /\ UNCHANGED calls \/ \E e : calls' = Append(calls, e)
          /\ UNCHANGED lost \/ \E e : lost' = Append(lost, e)
          /\ UNCHANGED ledger \/ \E e : ledger' = Append(ledger, e)
      BY <1>4 DEF Accounted, Outside, Accepts, Handles, Exposes, Concludes
    <2>2. IsSeq(calls') /\ IsSeq(lost') /\ IsSeq(ledger')
      BY <1>1, <2>1, AppendedTo
    <2> QED  BY <2>2 DEF Lists, IsSeq
  <1> QED  BY <1>2, <1>3, <1>4, AccountingSteps DEF AuthInv

LEMMA StepKeepsCalls ==
    ASSUME CallsInv, [Next]_serviceVars
    PROVE  CallsInv'
  <1>1. AuthInv /\ Lists /\ Permitted /\ Balanced
    BY DEF CallsInv
  <1>2. AuthInv' /\ Permitted' /\ Lists'
    BY <1>1, StepKeepsAuthInv, StepKeepsPermitted, StepKeepsLists
  <1>3. ASSUME NEW n \in 1..MaxRequests
        PROVE  Balance(calls', lost', ledger', thread', accepted', n)
    <2>1. Balance(calls, lost, ledger, thread, accepted, n)
      BY <1>1 DEF Balanced
    <2>2. CASE UNCHANGED <<thread, accepted, calls, lost, ledger>>
      BY <2>1, <2>2
    <2>3. CASE Crash
      BY <1>1, <2>1, <2>3, CrashKeepsBalance
    <2>4. CASE \E t \in Threads : \E x : Accounted(t, x)
      BY <1>1, <2>1, <2>4, MoveKeepsBalance
    <2> QED  BY <1>1, <2>2, <2>3, <2>4, AccountingSteps DEF AuthInv
  <1>4. Balanced'
    BY <1>3 DEF Balanced
  <1> QED  BY <1>2, <1>4 DEF CallsInv

(* Requests of an earlier life of the process are numbered 0.              *)
LEMMA InitCalls ==
    ASSUME Init
    PROVE  CallsInv
  <1>1. PICK d \in Databases : ledger = d.ledger
    BY DEF Init, BridgeInit
  <1>2. /\ ledger \in Seq({ledger[i] : i \in DOMAIN ledger})
        /\ \A i \in DOMAIN ledger : ledger[i].req = 0
    BY <1>1, ServiceAssumption
  <1>3. /\ calls = <<>> /\ lost = <<>> /\ thread = [t \in Threads |-> Idle]
        /\ accepted = [n \in 1..MaxRequests |-> <<>>]
    BY DEF Init, ProviderInit, AuthInit
  <1>4. Lists
    BY <1>2, <1>3 DEF Lists, IsSeq
  <1>5. Permitted
    BY <1>3 DEF Permitted, Idle
  <1>6. ASSUME NEW n \in 1..MaxRequests
        PROVE  Balance(calls, lost, ledger, thread, accepted, n)
    <2>1. \A outcomes : Tally(ledger, outcomes, n) = 0
      <3> SUFFICES ASSUME NEW outcomes
                   PROVE  Tally(ledger, outcomes, n) = 0
        OBVIOUS
      <3>1. {i \in DOMAIN ledger : Outcome(ledger[i]) \in outcomes
                                   /\ ledger[i].req = n} = {}
        BY <1>2
      <3> QED  BY <3>1, FS_EmptySet DEF Tally
    <2>2. \A stages : "idle" \notin stages => Count(thread, stages, n) = 0
      <3> SUFFICES ASSUME NEW stages, "idle" \notin stages
                   PROVE  Count(thread, stages, n) = 0
        OBVIOUS
      <3>1. {t \in Threads : thread[t].nonce = n /\ thread[t].pc \in stages} = {}
        BY <1>3 DEF Idle
      <3> QED  BY <3>1, FS_EmptySet DEF Count
    <2>3. Count(thread, Bound, n) = 0 /\ Count(thread, {"processed"}, n) = 0
      BY <2>2 DEF Bound
    <2>4. Occurrences(calls, n) = 0 /\ Occurrences(lost, n) = 0
      <3>1. {i \in DOMAIN <<>> : <<>>[i] = n} = {}
        OBVIOUS
      <3> QED  BY <1>3, <3>1, FS_EmptySet DEF Occurrences
    <2>5. Len(accepted[n]) = 0
      BY <1>3
    <2> QED  BY <2>1, <2>3, <2>4, <2>5 DEF Balance
  <1> QED  BY <1>4, <1>5, <1>6, InitAuthInv DEF CallsInv, Balanced

LEMMA CallsInvImpliesAccounted ==
    ASSUME CallsInv
    PROVE  CallsAreAccounted
  <1> SUFFICES ASSUME NEW n \in DOMAIN sent
               PROVE  /\ Occurrences(calls, n) <= Len(accepted[n])
                      /\ Occurrences(calls, n) > 0
                            => Authorized(sent[n].op.human)
                      /\ Occurrences(calls, n) <=
                            Events({"OPENAI_RESPONSE",
                                    "OPENAI_PROVIDER_FAILURE", "withheld"}, n)
                              + InFlight(n) + Occurrences(lost, n)
                      /\ Events({"OPENAI_RESPONSE", "withheld"}, n)
                            <= Occurrences(calls, n)
    BY DEF CallsAreAccounted
  <1>1. n \in 1..MaxRequests
    BY AuthAssumption DEF CallsInv, AuthInv, AuthTypes
  <1>2. Balance(calls, lost, ledger, thread, accepted, n)
    BY <1>1 DEF CallsInv, Balanced
  <1>3. PICK B, P, C, L, A, T, R :
           /\ B = Count(thread, Bound, n) /\ P = Count(thread, {"processed"}, n)
           /\ C = Occurrences(calls, n) /\ L = Occurrences(lost, n)
           /\ A = Len(accepted[n]) /\ T = Tally(ledger, Outcomes, n)
           /\ R = Tally(ledger, Answered, n)
    OBVIOUS
  <1>4. C + B <= A /\ C <= T + P + L /\ R + P <= C
    BY <1>2, <1>3 DEF Balance
  <1>5. C \in Nat /\ L \in Nat /\ T \in Nat /\ R \in Nat /\ A \in Nat
    <2>1. C \in Nat /\ L \in Nat /\ T \in Nat /\ R \in Nat
      BY <1>3, OneOccurrenceMore, OneEventMore DEF CallsInv, Lists
    <2>2. A \in Nat
      BY <1>1, <1>3 DEF CallsInv, AuthInv, AuthTypes
    <2> QED  BY <2>1, <2>2
  <1>6. B \in Nat /\ P \in Nat
    <2>1. ASSUME NEW stages
          PROVE  Count(thread, stages, n) \in Nat
      <3>1. {t \in Threads : thread[t].nonce = n /\ thread[t].pc \in stages}
               \in SUBSET Threads
        OBVIOUS
      <3> QED  BY <3>1, AuthAssumption, FS_Subset, FS_CardinalityType DEF Count
    <2> QED  BY <1>3, <2>1
  <1>7. /\ Events({"OPENAI_RESPONSE", "OPENAI_PROVIDER_FAILURE", "withheld"}, n)
              = T
        /\ Events({"OPENAI_RESPONSE", "withheld"}, n) = R
    BY <1>3 DEF Events, Tally, Outcomes, Answered
  <1>8. InFlight(n) = P
    <2>1. DOMAIN thread = Threads
      BY DEF CallsInv, AuthInv, AuthTypes
    <2>2. {t \in DOMAIN thread : thread[t].nonce = n /\ thread[t].pc = "processed"}
             = {t \in Threads : thread[t].nonce = n
                                /\ thread[t].pc \in {"processed"}}
      BY <2>1
    <2> QED  BY <1>3, <2>2 DEF InFlight, Count
  <1>9. C > 0 => Authorized(sent[n].op.human)
    <2> SUFFICES ASSUME C # 0
                 PROVE  Authorized(sent[n].op.human)
      BY <1>5
    <2>1. {i \in DOMAIN calls : calls[i] = n} # {}
      BY <1>3, FS_EmptySet DEF Occurrences
    <2>2. PICK i \in DOMAIN calls : calls[i] = n
      BY <2>1
    <2>3. i \in 1..Len(calls)
      BY <2>2 DEF CallsInv, Lists, IsSeq
    <2> QED  BY <2>2, <2>3 DEF CallsInv, Permitted
  <1>10. C <= A /\ R <= C
    BY <1>4, <1>5, <1>6
  <1> QED  BY <1>3, <1>4, <1>7, <1>8, <1>9, <1>10

(* openai_response, for every finite number of threads and any number of   *)
(* requests, replays, crashes, failed records and lost answers: no exposure*)
(* to the provider without an acceptance of its own and an authorized      *)
(* declaration; none that is over and not told, unless its record was cut  *)
(* off or its answer could not be hashed; and no more answers told, those  *)
(* that were withheld among them, than calls processed.  It holds because  *)
(* a request that is bound for the provider has its acceptance to itself,  *)
(* and one that awaits its record has no event yet.                        *)
THEOREM CallsAccounted == Spec => []CallsAreAccounted
  <1>1. Init => CallsInv
    BY InitCalls
  <1>2. CallsInv /\ [Next]_serviceVars => CallsInv'
    BY StepKeepsCalls
  <1>3. CallsInv => CallsAreAccounted
    BY CallsInvImpliesAccounted
  <1> QED  BY <1>1, <1>2, <1>3, PTL DEF Spec
=============================================================================
