--------------------------- MODULE Intents_proofs ---------------------------
(***************************************************************************)
(* Intents implements IntentRegister for any handlers, clients and         *)
(* messages, with either backend; what the register promises follows.      *)
(***************************************************************************)
EXTENDS Intents, SequenceTheorems, TLAPS

AllEntries == Register!Entries \cup {Other}

Statements == {"lookup", "check", "persist", "snapshot", "wait", "answered"}

Requests ==
    [pc : Statements \cup {"idle"}, intent : Register!Intents \cup {NoIntent},
     principal : Principals \cup {"none"}, message : Nat,
     answer : Answers \cup {"none"}, retried : BOOLEAN]

AcceptCalls == [nr : Nat, intent : Register!Intents, principal : Principals,
                head : Nat]

(* A handler at work has an intent of a principal, and an accept call      *)
(* expects the head its intent was written for.                            *)
TypeInv ==
    /\ ledger \in Seq(AllEntries)
    /\ req \in [Handlers -> Requests]
    /\ \A h \in Handlers : req[h].pc # "idle" =>
          req[h].intent \in Register!Intents /\ req[h].principal \in Principals
    /\ net \subseteq AcceptCalls
    /\ \A m \in net : m.head = m.intent.source
    /\ replies \subseteq [nr : Nat, answer : Answers]
    /\ sent \in Nat
---------------------------------------------------------------------------
LEMMA DecisionTypes ==
    ASSUME NEW i, NEW p, NEW fresh \in BOOLEAN
    PROVE  Decide(i, p, fresh) \in Answers
  BY DEF Decide, Answers

(* A transaction of either backend leaves the ledger alone, or it appends  *)
(* the intent of its caller, which is new and was written for this ledger. *)
LEMMA Transaction ==
    ASSUME NEW i \in Register!Intents, NEW p \in Principals,
           NEW fresh \in BOOLEAN, fresh => i.source = Len(ledger),
           ledger \in Seq(AllEntries),
           ledger' = After(i, p, Decide(i, p, fresh))
    PROVE  /\ ledger' \in Seq(AllEntries)
           /\ \/ ledger' = ledger
              \/ /\ ~Register!IdTaken(ledger, i.id)
                 /\ i.source = Len(ledger)
                 /\ ledger' = Append(ledger, [intent |-> i, principal |-> p])
  <1>1. CASE Decide(i, p, fresh) # "accepted"
    BY <1>1 DEF After
  <1>2. CASE Decide(i, p, fresh) = "accepted"
    <2>1. ~Exists(i) /\ fresh
      BY <1>2 DEF Decide
    <2>2. ledger' = Append(ledger, [intent |-> i, principal |-> p])
      BY <1>2 DEF After
    <2>3. [intent |-> i, principal |-> p] \in AllEntries
      BY DEF AllEntries, Register!Entries
    <2> QED  BY <2>1, <2>2, <2>3, AppendProperties DEF Exists
  <1> QED  BY <1>1, <1>2

(* What is in the ledger stays there.                                      *)
LEMMA RecordedStays ==
    ASSUME NEW l \in Seq(AllEntries), NEW e \in AllEntries, NEW i, NEW p,
           IsRecorded(l, i, p)
    PROVE  IsRecorded(Append(l, e), i, p)
  <1>1. PICK n \in DOMAIN l : l[n] # Other
                              /\ l[n] = [intent |-> i, principal |-> p]
    BY DEF IsRecorded, Register!IsRecorded, Register!Accepted
  <1>2. n \in DOMAIN Append(l, e) /\ Append(l, e)[n] = l[n]
    BY <1>1, AppendProperties
  <1> QED  BY <1>1, <1>2 DEF IsRecorded, Register!IsRecorded, Register!Accepted
---------------------------------------------------------------------------
(* The forms in which a handler changes its request.                       *)
LEMMA Requested ==
    ASSUME TypeInv, NEW h \in Handlers, req[h].pc # "idle",
           NEW pc \in Statements, NEW a \in Answers \cup {"none"}, NEW n \in Nat,
           req' \in {[req EXCEPT ![h].pc = pc],
                     [req EXCEPT ![h].pc = pc, ![h].answer = a],
                     [req EXCEPT ![h].pc = pc, ![h].message = n]}
    PROVE  /\ req' \in [Handlers -> Requests]
           /\ \A k \in Handlers : req'[k].pc # "idle" =>
                 req'[k].intent \in Register!Intents /\ req'[k].principal \in Principals
           /\ \A k \in Handlers \ {h} : req'[k] = req[k]
           /\ req'[h].pc = pc /\ req'[h].retried = req[h].retried
           /\ req'[h].answer \in {req[h].answer, a}
           /\ req'[h].intent = req[h].intent /\ req'[h].principal = req[h].principal
  <1>1. req[h] \in Requests /\ req[h].intent \in Register!Intents
        /\ req[h].principal \in Principals
    BY DEF TypeInv
  <1>2. /\ req'[h] \in Requests
        /\ req'[h].pc = pc /\ req'[h].retried = req[h].retried
        /\ req'[h].answer \in {req[h].answer, a}
        /\ req'[h].intent = req[h].intent /\ req'[h].principal = req[h].principal
    BY <1>1 DEF TypeInv, Requests
  <1>3. \A k \in Handlers \ {h} : req'[k] = req[k]
    BY DEF TypeInv
  <1>4. req' \in [Handlers -> Requests]
    BY <1>2, <1>3 DEF TypeInv
  <1> QED  BY <1>1, <1>2, <1>3, <1>4 DEF TypeInv

LEMMA HandlerAnswers ==
    ASSUME TypeInv, NEW h \in Handlers, req[h].pc # "idle",
           NEW a \in Answers, Answer(h, a)
    PROVE  /\ req' \in [Handlers -> Requests]
           /\ \A k \in Handlers : req'[k].pc # "idle" =>
                 req'[k].intent \in Register!Intents /\ req'[k].principal \in Principals
           /\ \A k \in Handlers \ {h} : req'[k] = req[k]
           /\ req'[h].pc = "answered" /\ req'[h].retried = req[h].retried
           /\ req'[h].answer = a
           /\ req'[h].intent = req[h].intent /\ req'[h].principal = req[h].principal
  <1>1. req'[h].answer = a
    BY DEF Answer, TypeInv, Requests
  <1> QED  BY <1>1, Requested DEF Answer, Statements

LEMMA HandlerGoes ==
    ASSUME TypeInv, NEW h \in Handlers, req[h].pc # "idle",
           NEW pc \in Statements, Goto(h, pc)
    PROVE  /\ req' \in [Handlers -> Requests]
           /\ \A k \in Handlers : req'[k].pc # "idle" =>
                 req'[k].intent \in Register!Intents /\ req'[k].principal \in Principals
           /\ \A k \in Handlers \ {h} : req'[k] = req[k]
           /\ req'[h].pc = pc /\ req'[h].retried = req[h].retried
           /\ req'[h].answer = req[h].answer
           /\ req'[h].intent = req[h].intent /\ req'[h].principal = req[h].principal
  <1>1. req'[h].answer = req[h].answer
    BY DEF Goto, TypeInv, Requests
  <1>2. 0 \in Nat /\ "none" \in Answers \cup {"none"}
    OBVIOUS
  <1> QED  BY <1>1, <1>2, Requested DEF Goto

(* What every step does to the ledger.                                     *)
Appends ==
    \/ ledger' = ledger
    \/ Register!Next /\ \E e \in AllEntries : ledger' = Append(ledger, e)

LEMMA AcceptIsNext ==
    ASSUME NEW i \in Register!Intents, NEW p \in Principals,
           ~Register!IdTaken(ledger, i.id), i.source = Len(ledger),
           ledger' = Append(ledger, [intent |-> i, principal |-> p])
    PROVE  Appends
  <1>1. /\ i.id \in Ids /\ i.actor \in Principals
        /\ i = [id |-> i.id, actor |-> i.actor, source |-> Len(ledger)]
    BY DEF Register!Intents
  <1>2. Register!Accept(i, p)
    BY DEF Register!Accept
  <1>3. Register!Next
    BY <1>1, <1>2 DEF Register!Next
  <1>4. [intent |-> i, principal |-> p] \in AllEntries
    BY DEF AllEntries, Register!Entries
  <1> QED  BY <1>3, <1>4 DEF Appends
---------------------------------------------------------------------------
Requesting ==
    /\ req' \in [Handlers -> Requests]
    /\ \A k \in Handlers : req'[k].pc # "idle" =>
          req'[k].intent \in Register!Intents /\ req'[k].principal \in Principals

LEMMA SubmitTypes ==
    ASSUME TypeInv, NEW h \in Handlers, NEW id \in Ids, NEW a \in Principals,
           NEW p \in Principals, NEW s \in 0..Len(ledger), Submit(h, id, a, s, p)
    PROVE  /\ Requesting
           /\ \A k \in Handlers \ {h} : req'[k] = req[k]
           /\ req'[h].pc = "lookup" /\ req'[h].answer = "none"
           /\ req'[h].retried =>
                 IsRecorded(ledger, req'[h].intent, req'[h].principal)
  <1> DEFINE i == [id |-> id, actor |-> a, source |-> s]
             R == IsRecorded(ledger, i, p)
  <1>1. i \in Register!Intents
    BY LenProperties DEF Register!Intents, TypeInv
  <1>2. R \in BOOLEAN
    BY DEF IsRecorded, Register!IsRecorded
  <1>3. req' = [req EXCEPT ![h] = [Idle EXCEPT !.pc = "lookup", !.principal = p,
                                        !.intent = i, !.retried = R]]
    BY DEF Submit
  <1> HIDE DEF i, R
  <1>4. PICK r \in BOOLEAN : r = R
    BY <1>2
  <1>5. req'[h] = [pc |-> "lookup", intent |-> i, principal |-> p,
                   message |-> 0, answer |-> "none", retried |-> r]
    BY <1>3, <1>4 DEF Idle, TypeInv
  <1>6. req'[h] \in Requests
    BY <1>1, <1>5 DEF Requests, Statements
  <1>7. \A k \in Handlers \ {h} : req'[k] = req[k]
    BY <1>3 DEF TypeInv
  <1>8. req' \in [Handlers -> Requests]
    BY <1>3, <1>6, <1>7 DEF TypeInv
  <1>9. req'[h].retried => IsRecorded(ledger, req'[h].intent, req'[h].principal)
    BY <1>4, <1>5 DEF R
  <1> QED  BY <1>1, <1>5, <1>7, <1>8, <1>9 DEF TypeInv, Requesting

(* A handler's step that leaves the messages alone.                        *)
LEMMA LocalStep ==
    ASSUME TypeInv, Requesting, Local, ledger' \in Seq(AllEntries)
    PROVE  TypeInv'
  BY DEF TypeInv, Requesting, Local

LEMMA HandleStep ==
    ASSUME TypeInv, NEW h \in Handlers, Handle(h)
    PROVE  TypeInv' /\ Appends
  <1>0. req[h] \in Requests /\ ledger \in Seq(AllEntries)
    BY DEF TypeInv
  <1>1. CASE Lookup(h)
    <2>1. req[h].pc # "idle" /\ ledger' = ledger /\ Local
      BY <1>1 DEF Lookup
    <2>2. Goto(h, "check") \/ \E a \in Answers : Answer(h, a)
      BY <1>1, Zenon DEF Lookup, Answers
    <2>3. Requesting
      BY <2>1, <2>2, HandlerAnswers, HandlerGoes DEF Requesting, Statements
    <2> QED  BY <1>0, <2>1, <2>3, LocalStep DEF Appends
  <1>2. CASE CheckSource(h)
    <2>1. req[h].pc # "idle" /\ ledger' = ledger /\ Local
      BY <1>2 DEF CheckSource
    <2>2. Goto(h, "snapshot") \/ Goto(h, "persist") \/ Answer(h, "stale")
      BY <1>2, Zenon DEF CheckSource
    <2>3. Requesting
      BY <2>1, <2>2, HandlerAnswers, HandlerGoes
      DEF Requesting, Statements, Answers
    <2> QED  BY <1>0, <2>1, <2>3, LocalStep DEF Appends
  <1>3. CASE Persist(h)
    <2> DEFINE i == req[h].intent
               p == req[h].principal
               fresh == i.source = Len(ledger)
    <2>1. req[h].pc # "idle" /\ Local
      BY <1>3 DEF Persist
    <2>2. i \in Register!Intents /\ p \in Principals /\ fresh \in BOOLEAN
      BY <2>1 DEF TypeInv
    <2>3. /\ Answer(h, Decide(i, p, fresh))
          /\ ledger' = After(i, p, Decide(i, p, fresh))
      BY <1>3 DEF Persist
    <2>4. Decide(i, p, fresh) \in Answers
      BY <2>2, DecisionTypes
    <2>5. Requesting
      BY <2>1, <2>3, <2>4, HandlerAnswers DEF Requesting
    <2>6. /\ ledger' \in Seq(AllEntries)
          /\ \/ ledger' = ledger
             \/ /\ ~Register!IdTaken(ledger, i.id)
                /\ i.source = Len(ledger)
                /\ ledger' = Append(ledger, [intent |-> i, principal |-> p])
      BY <1>0, <2>2, <2>3, Transaction
    <2>7. Appends
      BY <2>2, <2>6, AcceptIsNext DEF Appends
    <2> QED  BY <2>1, <2>5, <2>6, <2>7, LocalStep
  <1>4. CASE Snapshot(h)
    <2>1. req[h].pc # "idle" /\ UNCHANGED <<ledger, replies>>
      BY <1>4 DEF Snapshot
    <2>2. CASE req[h].intent.source # Len(ledger)
      <3>1. Answer(h, "stale") /\ Local
        BY <1>4, <2>2 DEF Snapshot, Local
      <3>2. Requesting
        BY <2>1, <3>1, HandlerAnswers DEF Requesting, Answers
      <3> QED  BY <1>0, <2>1, <3>1, <3>2, LocalStep DEF Appends
    <2>3. CASE req[h].intent.source = Len(ledger)
      <3> DEFINE m == [nr |-> sent + 1, intent |-> req[h].intent,
                       principal |-> req[h].principal, head |-> Len(ledger)]
      <3>1. /\ sent' = sent + 1 /\ net' = net \cup {m}
            /\ req' = [req EXCEPT ![h].pc = "wait", ![h].message = sent + 1]
        BY <1>4, <2>3 DEF Snapshot
      <3>2. sent + 1 \in Nat
        BY DEF TypeInv
      <3>3. Requesting
        BY <2>1, <3>1, <3>2, Requested DEF Requesting, Statements
      <3>4. m \in AcceptCalls /\ m.head = m.intent.source
        BY <1>0, <2>1, <2>3, <3>2, LenProperties DEF AcceptCalls, TypeInv
      <3> HIDE DEF m
      <3> QED  BY <2>1, <3>1, <3>2, <3>3, <3>4 DEF TypeInv, Requesting, Appends
    <2> QED  BY <2>2, <2>3
  <1>5. CASE \E r \in replies : Reply(h, r)
    <2>1. PICK r \in replies : Reply(h, r)
      BY <1>5
    <2>2. /\ req[h].pc # "idle" /\ Answer(h, r.answer)
          /\ replies' \subseteq replies
          /\ UNCHANGED <<ledger, net, sent>>
      BY <2>1 DEF Reply
    <2>3. r.answer \in Answers
      BY DEF TypeInv
    <2>4. Requesting
      BY <2>2, <2>3, HandlerAnswers DEF Requesting
    <2> QED  BY <2>2, <2>4 DEF TypeInv, Requesting, Appends
  <1>6. CASE Unavailable(h)
    <2>1. /\ req[h].pc # "idle" /\ Answer(h, "unavailable")
          /\ replies' \subseteq replies
          /\ UNCHANGED <<ledger, net, sent>>
      BY <1>6 DEF Unavailable
    <2>2. Requesting
      BY <2>1, HandlerAnswers DEF Requesting, Answers
    <2> QED  BY <2>1, <2>2 DEF TypeInv, Requesting, Appends
  <1>7. CASE Return(h)
    <2>1. Idle \in Requests /\ Idle.pc = "idle"
      BY DEF Idle, Requests
    <2>2. Requesting
      BY <1>7, <2>1 DEF Return, Requesting, TypeInv
    <2> QED  BY <1>0, <1>7, <2>2, LocalStep DEF Return, Appends
  <1> QED  BY <1>1, <1>2, <1>3, <1>4, <1>5, <1>6, <1>7 DEF Handle

LEMMA RemoteStep ==
    ASSUME TypeInv, NEW m \in net, RemoteAccept(m)
    PROVE  TypeInv' /\ Appends
  <1> DEFINE i == m.intent
             p == m.principal
             fresh == m.head = Len(ledger)
             d == Decide(i, p, fresh)
             r == [nr |-> m.nr, answer |-> d]
  <1>1. m \in AcceptCalls /\ m.head = i.source
    BY DEF TypeInv
  <1>2. i \in Register!Intents /\ p \in Principals /\ m.nr \in Nat
        /\ fresh \in BOOLEAN /\ (fresh => i.source = Len(ledger))
    BY <1>1 DEF AcceptCalls
  <1>3. /\ net' = net \ {m} /\ replies' = replies \cup {r}
        /\ ledger' = After(i, p, d) /\ UNCHANGED <<req, sent>>
    BY DEF RemoteAccept
  <1>4. r \in [nr : Nat, answer : Answers]
    BY <1>2, DecisionTypes
  <1>5. /\ ledger' \in Seq(AllEntries)
        /\ \/ ledger' = ledger
           \/ /\ ~Register!IdTaken(ledger, i.id)
              /\ i.source = Len(ledger)
              /\ ledger' = Append(ledger, [intent |-> i, principal |-> p])
    BY <1>2, <1>3, Transaction DEF TypeInv
  <1>6. Appends
    BY <1>2, <1>5, AcceptIsNext DEF Appends
  <1> HIDE DEF r
  <1> QED  BY <1>3, <1>4, <1>5, <1>6 DEF TypeInv

LEMMA Step ==
    ASSUME TypeInv, [Next]_vars
    PROVE  TypeInv' /\ Appends
  <1>1. ASSUME NEW h \in Handlers, NEW id \in Ids, NEW a \in Principals,
               NEW p \in Principals, NEW s \in 0..Len(ledger),
               Submit(h, id, a, s, p)
        PROVE  TypeInv' /\ Appends
    <2>1. Requesting
      BY <1>1, SubmitTypes
    <2> QED  BY <1>1, <2>1 DEF Submit, TypeInv, Requesting, Appends
  <1>2. ASSUME NEW m \in net, Lose(m)
        PROVE  TypeInv' /\ Appends
    BY <1>2 DEF Lose, TypeInv, Appends
  <1>3. CASE AppendOther
    <2>1. /\ ledger' = Append(ledger, Other) /\ Other \in AllEntries
          /\ UNCHANGED <<req, net, replies, sent>>
      BY <1>3 DEF AppendOther, Local, AllEntries
    <2>2. Register!Next
      BY <2>1 DEF Register!Next, Register!AppendOther
    <2>3. ledger' \in Seq(AllEntries)
      BY <2>1, AppendProperties DEF TypeInv
    <2> QED  BY <2>1, <2>2, <2>3 DEF TypeInv, Appends
  <1>4. CASE UNCHANGED vars
    BY <1>4 DEF vars, TypeInv, Appends
  <1> QED  BY <1>1, <1>2, <1>3, <1>4, HandleStep, RemoteStep DEF Next

LEMMA InitTypes == Init => TypeInv
  <1>1. ASSUME Init
        PROVE  TypeInv
    <2>1. Idle \in Requests /\ Idle.pc = "idle"
      BY DEF Idle, Requests
    <2> QED  BY <1>1, <2>1 DEF Init, TypeInv
  <1> QED  BY <1>1

LEMMA TypeCorrect == Spec => []TypeInv
  <1>1. TypeInv /\ [Next]_vars => TypeInv'
    BY Step
  <1> QED  BY <1>1, InitTypes, PTL DEF Spec

(* Whichever backend keeps the ledger, and whatever calls are lost, late   *)
(* or answered late, every step is a compare-and-append of the register or *)
(* leaves it alone.                                                        *)
THEOREM IntentsImplementRegister == Spec => ImplementsRegister
  <1>1. Init => Register!Init
    BY DEF Init, Register!Init
  <1>2. TypeInv /\ [Next]_vars => [Register!Next]_ledger
    BY Step DEF Appends
  <1> QED  BY <1>1, <1>2, TypeCorrect, PTL
           DEF Spec, ImplementsRegister, Register!Spec
---------------------------------------------------------------------------
(* What the register is for: an intent_id is accepted once, and every      *)
(* intent stands at the ledger position it was written for.                *)
OncePerId ==
    \A n \in Register!Accepted(ledger) :
        /\ ledger[n].intent.source = n - 1
        /\ \A m \in Register!Accepted(ledger) :
              ledger[m].intent.id = ledger[n].intent.id => m = n

RegisterInv == ledger \in Seq(AllEntries) /\ OncePerId

LEMMA RegisterStep ==
    ASSUME RegisterInv, [Register!Next]_ledger
    PROVE  RegisterInv'
  <1>0. ledger \in Seq(AllEntries) /\ Len(ledger) \in Nat
    BY LenProperties DEF RegisterInv
  <1>1. ASSUME NEW e \in AllEntries, ledger' = Append(ledger, e)
        PROVE  /\ ledger' \in Seq(AllEntries)
               /\ Len(ledger') = Len(ledger) + 1 /\ ledger'[Len(ledger) + 1] = e
               /\ \A n \in 1..Len(ledger) : ledger'[n] = ledger[n]
    BY <1>0, <1>1, AppendProperties
  <1>2. ASSUME NEW id \in Ids, NEW a \in Principals, NEW p \in Principals,
               Register!Accept([id |-> id, actor |-> a, source |-> Len(ledger)], p)
        PROVE  RegisterInv'
    <2> DEFINE i == [id |-> id, actor |-> a, source |-> Len(ledger)]
               e == [intent |-> i, principal |-> p]
    <2>1. /\ ledger' = Append(ledger, e)
          /\ \A n \in Register!Accepted(ledger) : ledger[n].intent.id # id
      BY <1>2 DEF Register!Accept, Register!IdTaken
    <2>2. e \in AllEntries /\ e.intent.source = Len(ledger) /\ e.intent.id = id
      BY <1>0 DEF AllEntries, Register!Entries, Register!Intents
    <2> HIDE DEF e
    <2>3. /\ ledger' \in Seq(AllEntries)
          /\ Len(ledger') = Len(ledger) + 1 /\ ledger'[Len(ledger) + 1] = e
          /\ \A n \in 1..Len(ledger) : ledger'[n] = ledger[n]
      BY <1>1, <2>1, <2>2
    <2>4. \A n \in Register!Accepted(ledger') :
             n = Len(ledger) + 1 \/ (n \in 1..Len(ledger)
                                       /\ n \in Register!Accepted(ledger))
      BY <1>0, <2>3 DEF Register!Accepted
    <2>5. OncePerId'
      BY <1>0, <2>1, <2>2, <2>3, <2>4 DEF RegisterInv, OncePerId
    <2> QED  BY <2>3, <2>5 DEF RegisterInv
  <1>3. CASE Register!AppendOther
    <2>1. Other \in AllEntries /\ ledger' = Append(ledger, Other)
      BY <1>3 DEF AllEntries, Register!AppendOther
    <2>2. /\ ledger' \in Seq(AllEntries)
          /\ Len(ledger') = Len(ledger) + 1 /\ ledger'[Len(ledger) + 1] = Other
          /\ \A n \in 1..Len(ledger) : ledger'[n] = ledger[n]
      BY <1>1, <2>1
    <2>3. \A n \in Register!Accepted(ledger') :
             n \in Register!Accepted(ledger) /\ ledger'[n] = ledger[n]
      BY <1>0, <2>2 DEF Register!Accepted
    <2>4. OncePerId'
      BY <2>3 DEF RegisterInv, OncePerId
    <2> QED  BY <2>2, <2>4 DEF RegisterInv
  <1>4. CASE ledger' = ledger
    BY <1>4 DEF RegisterInv, OncePerId, Register!Accepted
  <1> QED  BY <1>2, <1>3, <1>4 DEF Register!Next

(* The promise of the register itself ...                                  *)
THEOREM RegisterPromises == Register!Spec => []OncePerId
  <1>1. Register!Init => RegisterInv
    BY DEF Register!Init, RegisterInv, OncePerId, Register!Accepted
  <1>2. RegisterInv /\ [Register!Next]_ledger => RegisterInv'
    BY RegisterStep
  <1>3. RegisterInv => OncePerId
    BY DEF RegisterInv
  <1> QED  BY <1>1, <1>2, <1>3, PTL DEF Register!Spec

(* ... is kept by whichever backend implements it: no interleaving of      *)
(* handlers and no late accept call makes an intent_id accepted twice.     *)
THEOREM IntentsAcceptedOnce == Spec => []OncePerId
  BY IntentsImplementRegister, RegisterPromises, PTL DEF ImplementsRegister
---------------------------------------------------------------------------
(* A retry of an accepted intent is still to be looked up, or answered.    *)
RetryAnswers == {"none", "idempotent", "unavailable"}

RetryShape(r) ==
    r.retried => /\ r.pc \in {"lookup", "answered"}
                 /\ r.answer \in RetryAnswers
                 /\ IsRecorded(ledger, r.intent, r.principal)

Retries == \A h \in Handlers : RetryShape(req[h])

(* An intent that is recorded is found by its id, and is the same.         *)
LEMMA RecordedIsTaken ==
    ASSUME NEW i, NEW p, IsRecorded(ledger, i, p)
    PROVE  Register!IdTaken(ledger, i.id)
  BY DEF IsRecorded, Register!IsRecorded, Register!IdTaken

LEMMA RetryStep ==
    ASSUME TypeInv, Retries, [Next]_vars
    PROVE  Retries'
  <1>0. ASSUME NEW i, NEW p, IsRecorded(ledger, i, p)
        PROVE  IsRecorded(ledger', i, p)
    BY <1>0, Step, RecordedStays DEF Appends, TypeInv
  <1>1. ASSUME NEW h \in Handlers, \A k \in Handlers \ {h} : req'[k] = req[k],
               RetryShape(req[h])'
        PROVE  Retries'
    BY <1>0, <1>1 DEF Retries, RetryShape
  <1>2. ASSUME NEW h \in Handlers, req[h].pc # "idle",
               NEW a \in RetryAnswers \ {"none"}, Answer(h, a)
        PROVE  Retries'
    <2>1. RetryShape(req[h])'
      BY <1>0, <1>2, HandlerAnswers
      DEF Retries, RetryShape, RetryAnswers, Answers
    <2> QED  BY <1>1, <1>2, <2>1, HandlerAnswers DEF RetryAnswers, Answers
  <1>3. ASSUME NEW h \in Handlers, req[h].pc # "idle", ~req[h].retried,
               \/ \E a \in Answers : Answer(h, a)
               \/ \E pc \in Statements : Goto(h, pc)
        PROVE  Retries'
    <2>1. RetryShape(req[h])' /\ \A k \in Handlers \ {h} : req'[k] = req[k]
      BY <1>3, HandlerAnswers, HandlerGoes DEF RetryShape
    <2> QED  BY <1>1, <2>1
  <1>4. ASSUME NEW h \in Handlers, NEW id \in Ids, NEW a \in Principals,
               NEW p \in Principals, NEW s \in 0..Len(ledger),
               Submit(h, id, a, s, p)
        PROVE  Retries'
    <2>1. RetryShape(req[h])' /\ \A k \in Handlers \ {h} : req'[k] = req[k]
      BY <1>0, <1>4, SubmitTypes DEF RetryShape, RetryAnswers
    <2> QED  BY <1>1, <2>1
  <1>5. ASSUME NEW h \in Handlers, Lookup(h)
        PROVE  Retries'
    <2>1. CASE req[h].retried
      <3>1. Exists(req[h].intent) /\ SameIntent(req[h].intent, req[h].principal)
        BY <2>1, RecordedIsTaken
        DEF Retries, RetryShape, Exists, SameIntent
      <3>2. req[h].pc # "idle" /\ Answer(h, "idempotent")
        BY <1>5, <3>1, Zenon DEF Lookup
      <3> QED  BY <1>2, <3>2 DEF RetryAnswers
    <2>2. CASE ~req[h].retried
      <3>1. req[h].pc # "idle"
            /\ (Goto(h, "check") \/ \E a \in Answers : Answer(h, a))
        BY <1>5, Zenon DEF Lookup, Answers
      <3> QED  BY <1>3, <2>2, <3>1 DEF Statements
    <2> QED  BY <2>1, <2>2 DEF TypeInv, Requests
  <1>6. ASSUME NEW h \in Handlers,
               CheckSource(h) \/ Persist(h) \/ Snapshot(h)
                 \/ \E r \in replies : Reply(h, r)
        PROVE  Retries'
    <2>1. req[h].pc \in {"check", "persist", "snapshot", "wait"}
      BY <1>6 DEF CheckSource, Persist, Snapshot, Reply
    <2>2. req[h].pc # "idle" /\ ~req[h].retried
      BY <2>1 DEF Retries, RetryShape
    <2>3. \A k \in Handlers \ {h} : req'[k] = req[k]
      BY <1>6 DEF CheckSource, Persist, Snapshot, Reply, Answer, Goto, TypeInv
    <2>4. req'[h].retried = req[h].retried
      BY <1>6 DEF CheckSource, Persist, Snapshot, Reply, Answer, Goto, TypeInv,
                  Requests
    <2> QED  BY <1>1, <2>2, <2>3, <2>4 DEF RetryShape
  <1>7. ASSUME NEW h \in Handlers, Unavailable(h)
        PROVE  Retries'
    <2>1. req[h].pc # "idle" /\ Answer(h, "unavailable")
      BY <1>7 DEF Unavailable
    <2>2. ASSUME req[h].retried
          PROVE  Retries'
      BY <1>2, <2>1 DEF RetryAnswers
    <2>3. CASE ~req[h].retried
      BY <1>3, <2>1, <2>3 DEF Answers
    <2> QED  BY <2>2, <2>3 DEF TypeInv, Requests
  <1>8. ASSUME NEW h \in Handlers, Return(h)
        PROVE  Retries'
    <2>1. req'[h] = Idle /\ \A k \in Handlers \ {h} : req'[k] = req[k]
      BY <1>8 DEF Return, TypeInv
    <2> QED  BY <1>1, <2>1 DEF RetryShape, Idle
  <1>9. CASE req' = req
    BY <1>0, <1>9 DEF Retries, RetryShape
  <1> QED  BY <1>4, <1>5, <1>6, <1>7, <1>8, <1>9
           DEF Next, Handle, RemoteAccept, Lose, AppendOther, vars

(* An exact retry of an accepted intent is answered from the stored        *)
(* acceptance, although the ledger has grown since.                        *)
THEOREM RetriesIdempotent == Spec => []RetriesAreIdempotent
  <1>1. Init => Retries
    BY DEF Init, Retries, RetryShape, Idle
  <1>2. Retries => RetriesAreIdempotent
    BY DEF Retries, RetryShape, RetryAnswers, RetriesAreIdempotent
  <1>3. TypeInv /\ Retries /\ [Next]_vars => Retries'
    BY RetryStep
  <1> QED  BY <1>1, <1>2, <1>3, TypeCorrect, PTL DEF Spec
=============================================================================
