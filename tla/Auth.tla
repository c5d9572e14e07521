-------------------------------- MODULE Auth --------------------------------
(***************************************************************************)
(* Request authentication (src/app/auth.py) in front of every handler of   *)
(* the service.  A client signs a request with a nonce of its own and a    *)
(* timestamp; the network may delay it, lose it or deliver it again.       *)
(*                                                                         *)
(* authenticate looks at the clock when the headers are there, awaits the  *)
(* body, and only then consumes the nonce: other requests and time pass in *)
(* between.  Nonce n is the n-th request signed.  A request that is not    *)
(* genuine (headers, principal, content hash or signature) is refused      *)
(* before anything changes and is left out.                                *)
(***************************************************************************)
EXTENDS Integers, Sequences, FiniteSets

CONSTANTS
    Threads,       \* requests the service works on at a time
    Ops,           \* what clients ask for: [name, signer, ...] records
    Capabilities,  \* capabilities of each principal in the registry
    Window,        \* AUTH_WINDOW_SECONDS
    MaxTime,       \* bound on the clock
    MaxRequests,   \* bound on the requests signed
    MaxFaults      \* bound on crashes, failed appends and lost answers

ASSUME AuthAssumption ==
    /\ {Window, MaxTime, MaxRequests, MaxFaults} \subseteq Nat
    /\ IsFiniteSet(Threads)

VARIABLES
    now,       \* time.time(), and the clock of the state store
    sent,      \* requests signed so far
    nonces,    \* auth_nonces table
    thread,    \* the request each thread works on, and the statement
    accepted,  \* history: each acceptance of each nonce, TRUE when the
               \* timestamp was still in the window
    faults

authVars == <<now, sent, nonces, thread, accepted, faults>>

Idle == [pc |-> "idle", nonce |-> 0]

Op(t) == sent[thread[t].nonce].op

(* Principal.allows.                                                       *)
Allows(principal, capability) ==
    {"*", capability} \cap Capabilities[principal] # {}

(* The route's require_capability dependency.                              *)
RequiredCapability(name) ==
    CASE name = "register" -> "registry:write"
      [] name = "ingress" -> "bridge:ingress"
      [] name = "session" -> "session:create"
      [] name = "handoff" -> "handoff:send"
      [] name = "ack" -> "handoff:ack"
      [] name = "provider" -> "provider:openai:invoke"

AuthInit ==
    /\ now = 0 /\ sent = <<>> /\ nonces = {}
    /\ thread = [t \in Threads |-> Idle]
    /\ accepted = [n \in 1..MaxRequests |-> <<>>]
    /\ faults = 0

Goes(t, pc) == thread' = [thread EXCEPT ![t].pc = pc]
Ends(t) == thread' = [thread EXCEPT ![t] = Idle]
---------------------------------------------------------------------------
(* A client signs a request.                                               *)
Sign(op, ts) ==
    /\ Len(sent) < MaxRequests
    /\ sent' = Append(sent, [op |-> op, ts |-> ts])
    /\ UNCHANGED <<now, nonces, thread, accepted, faults>>

(* A delivery of request n, the first or another: authenticate up to the   *)
(* await of the body.                                                      *)
Arrive(t, n) ==
    /\ thread[t] = Idle
    /\ now - sent[n].ts \in -Window..Window
    /\ thread' = [thread EXCEPT ![t] = [pc |-> "body", nonce |-> n]]
    /\ UNCHANGED <<now, sent, nonces, accepted, faults>>

(* Mutant: a nonce is forgotten in the last second of its window.          *)
UnexpiredTooFew == {r \in nonces : r.expires > now}

(* Rows consume_auth_nonce leaves when it deletes the expired ones.        *)
Unexpired == {r \in nonces : r.expires >= now}

Consumed(n) == \E r \in Unexpired : r.nonce = n

WithNonce(n) ==
    Unexpired \cup {[nonce |-> n, expires |-> sent[n].ts + Window]}

(* The body is there and the nonce is new.  The capability is looked at    *)
(* after the nonce is spent.                                               *)
Accept(t) ==
    LET n == thread[t].nonce
    IN /\ thread[t].pc = "body"
       /\ ~Consumed(n)
       /\ nonces' = WithNonce(n)
       /\ accepted' = [accepted EXCEPT ![n] = Append(@, now <= sent[n].ts + Window)]
       /\ IF Allows(Op(t).signer, RequiredCapability(Op(t).name))
          THEN Goes(t, "handle") ELSE Ends(t)
       /\ UNCHANGED <<now, sent, faults>>

(* 409: the SQLite transaction is rolled back.  The durable object's keeps *)
(* the deletion, of rows that nothing reads again.                         *)
RefuseReplay(t) ==
    /\ thread[t].pc = "body"
    /\ Consumed(thread[t].nonce)
    /\ Ends(t)
    /\ UNCHANGED <<now, sent, nonces, accepted, faults>>

(* With a remote state service the answer may not come back: the nonce is  *)
(* spent or not, and the request fails.                                    *)
ConsumeUnanswered(t) ==
    LET n == thread[t].nonce
    IN /\ thread[t].pc = "body"
       /\ faults < MaxFaults
       /\ faults' = faults + 1
       /\ nonces' \in {nonces, IF Consumed(n) THEN Unexpired ELSE WithNonce(n)}
       /\ Ends(t)
       /\ UNCHANGED <<now, sent, accepted>>

Tick ==
    /\ now < MaxTime
    /\ now' = now + 1
    /\ UNCHANGED <<sent, nonces, thread, accepted, faults>>

Authenticate(t) ==
    \/ \E n \in DOMAIN sent : Arrive(t, n)
    \/ Accept(t) \/ RefuseReplay(t) \/ ConsumeUnanswered(t)
---------------------------------------------------------------------------
(* authenticate: as long as its timestamp is in the window a signed        *)
(* request is accepted once, however often and in whatever order copies of *)
(* it arrive, and although the process is restarted.                       *)
AcceptedOncePerWindow ==
    \A n \in DOMAIN sent :
        Cardinality({k \in DOMAIN accepted[n] : accepted[n][k]}) <= 1
=============================================================================
