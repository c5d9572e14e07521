----------------------------- MODULE MCService -----------------------------
(***************************************************************************)
(* Instances of Service for TLC: two participants A and B, an outsider X   *)
(* who is enrolled nowhere, and one request of every kind a handler        *)
(* treats differently.                                                     *)
(***************************************************************************)
EXTENDS Service, TLC

CONSTANTS t1, t2

TwoThreads == {t1, t2}
ThreadSymmetry == Permutations(TwoThreads)

(* A database with a session whose first handoff is pending; the contract  *)
(* of a second session is not registered yet.                              *)
Contract == [task |-> "c1"]
NewContract == [task |-> "c2"]

InUse ==
   {[artifacts |-> [c \in {"c1"} |-> "task"],
     sessions |-> <<[contract |-> Contract, participants |-> {"A", "B"}]>>,
     handoffs |-> <<[session |-> 1, seq |-> 1, from |-> "B", to |-> "A",
                     parent |-> 0, contract |-> Contract, human |-> NoHuman,
                     status |-> "PENDING"]>>,
     ledger |-> <<LedgerEvent("CONTRACT_ARTIFACT_REGISTERED", "PASS", 0, "c1"),
                  LedgerEvent("MODEL_BRIDGE_SESSION_CREATED", "PASS", 0, 1),
                  LedgerEvent("MODEL_BRIDGE_HANDOFF", "PASS", 0, 1)>>]}

Registry == [p \in {"A", "B", "X"} |->
    CASE p = "A" -> {"*"}
      [] p = "B" -> {"handoff:send", "handoff:ack", "bridge:ingress"}
      [] p = "X" -> {"handoff:send", "registry:write", "session:create"}]

Person == {"consent", "purpose"}
Other == Person \cup {"third_party"}
Unasked == {"purpose"}

MCRegister(signer, content, kind) ==
    [name |-> "register", signer |-> signer, content |-> content, kind |-> kind]

MCIngress(human) == [name |-> "ingress", signer |-> "B", human |-> human]

MCSession(signer) ==
    [name |-> "session", signer |-> signer, contract |-> NewContract,
     participants |-> {"A", "B"}]

MCHandoff(signer, from, to, parent, content, human) ==
    [name |-> "handoff", signer |-> signer, session |-> 1, from |-> from,
     to |-> to, parent |-> parent, contract |-> [task |-> content],
     transferable |-> TRUE, human |-> human]

MCAck(signer, participant, handoff) ==
    [name |-> "ack", signer |-> signer, participant |-> participant,
     handoff |-> handoff]

MCProvider(human, wellformed) ==
    [name |-> "provider", signer |-> "A", human |-> human,
     wellformed |-> wellformed]

Requests ==
    {MCRegister("A", "c2", "task"), MCRegister("X", "c1", "rubric"),
     MCIngress(NoHuman), MCIngress(Unasked), MCSession("A"),
     MCHandoff("B", "B", "A", 0, "c1", NoHuman),
     MCHandoff("A", "B", "A", 1, "c1", Person),
     MCHandoff("B", "A", "B", 0, "c1", NoHuman),
     MCHandoff("X", "X", "A", 0, "c1", NoHuman),
     MCHandoff("B", "B", "A", 0, "c1", Other),
     MCAck("A", "A", 1), MCAck("B", "A", 1),
     MCProvider(NoHuman, TRUE), MCProvider(Other, TRUE),
     MCProvider(NoHuman, FALSE)}
=============================================================================
