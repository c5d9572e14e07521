--------------------------- MODULE IntentRegister ---------------------------
(***************************************************************************)
(* What the institutional store promises, whichever backend keeps it: a    *)
(* ledger to which an intent is appended at most once, by a compare-and-   *)
(* append against the ledger position its author had read.                 *)
(***************************************************************************)
EXTENDS Naturals, Sequences

CONSTANTS Ids, Principals, Other

VARIABLE ledger

Intents == [id : Ids, actor : Principals, source : Nat]
Entries == [intent : Intents, principal : Principals]

(* Positions of the accepted intents.                                      *)
Accepted(l) == {n \in DOMAIN l : l[n] # Other}

IsRecorded(l, i, p) ==
    \E n \in Accepted(l) : l[n] = [intent |-> i, principal |-> p]

IdTaken(l, id) == \E n \in Accepted(l) : l[n].intent.id = id

Init == ledger = <<>>

(* The source binding of an intent names the ledger it was written for.    *)
Accept(i, p) ==
    /\ ~IdTaken(ledger, i.id)
    /\ i.source = Len(ledger)
    /\ ledger' = Append(ledger, [intent |-> i, principal |-> p])

AppendOther == ledger' = Append(ledger, Other)

Next ==
    \/ \E id \in Ids, a, p \in Principals :
          Accept([id |-> id, actor |-> a, source |-> Len(ledger)], p)
    \/ AppendOther

Spec == Init /\ [][Next]_ledger
=============================================================================
