-------------------------- MODULE Ceremony_proofs --------------------------
(***************************************************************************)
(* Theorems about the publisher and the ceremonies beside it, one command  *)
(* of the sandbox at a time, for every number of revisions, challenges,    *)
(* confirmations and kills, every set of authorities and every way of      *)
(* approving.                                                              *)
(*                                                                         *)
(* The argument: whatever file a command still has to write, and wherever  *)
(* it is killed, a state that says APPROVED is on disk only beside a       *)
(* confirmation no submission was made with, and the state is off APPROVED *)
(* before the browser can reach arXiv.                                     *)
(***************************************************************************)
EXTENDS Ceremony, TLAPS

Files == {"manuscript", "projection", "state", "challenge", "approval", "result"}

Contents == [manuscript |-> Revisions, projection |-> Revisions,
             state |-> States, challenge |-> Challenges,
             approval |-> Approvals, result |-> BOOLEAN]

Disks == [manuscript : Revisions \cup {None, Torn},
          projection : Revisions \cup {None, Torn},
          state : States \cup {None, Torn},
          challenge : Challenges \cup {None, Torn},
          approval : Approvals \cup {None, Torn},
          result : BOOLEAN \cup {None, Torn}]

IsWrite(w) == w.file \in Files /\ w.value \in Contents[w.file]

(* A file of the sandbox is written, or torn.                              *)
LEMMA DiskWritten ==
    ASSUME disk \in Disks, NEW f \in Files,
           NEW v \in Contents[f] \cup {Torn},
           disk' = [disk EXCEPT ![f] = v]
    PROVE  /\ disk' \in Disks /\ disk'[f] = v
           /\ \A g \in Files \ {f} : disk'[g] = disk[g]
<1>1. DOMAIN disk = Files
  BY DEF Disks, Files
<1>2. disk'[f] = v /\ \A g \in Files \ {f} : disk'[g] = disk[g]
  BY <1>1
<1>3. disk' \in Disks
  <2>1. CASE f = "manuscript"
    BY <2>1 DEF Disks, Contents
  <2>2. CASE f = "projection"
    BY <2>2 DEF Disks, Contents
  <2>3. CASE f = "state"
    BY <2>3 DEF Disks, Contents
  <2>4. CASE f = "challenge"
    BY <2>4 DEF Disks, Contents
  <2>5. CASE f = "approval"
    BY <2>5 DEF Disks, Contents
  <2>6. CASE f = "result"
    BY <2>6 DEF Disks, Contents
  <2> QED BY <2>1, <2>2, <2>3, <2>4, <2>5, <2>6 DEF Files
<1> QED BY <1>2, <1>3

LEMMA Lists ==
    ASSUME NEW w, NEW x
    PROVE  /\ Head(<<w>>) = w /\ Tail(<<w>>) = << >>
           /\ Head(<<w, x>>) = w /\ Tail(<<w, x>>) = <<x>>
           /\ <<x>> # << >>
<1>1. <<w>> \in Seq({w, x}) /\ <<w, x>> \in Seq({w, x})
  OBVIOUS
<1> QED BY <1>1

LEMMA SetLocal ==
    ASSUME NEW p, Procs = {p}, NEW f, NEW S, f \in [Procs -> S], NEW v
    PROVE  /\ [f EXCEPT ![p] = v][p] = v
           /\ [f EXCEPT ![p] = v] \in [Procs -> S \cup {v}]
OBVIOUS
---------------------------------------------------------------------------
Statements == {"idle", "write", "staged", "login", "upload", "click", "confirm"}

(* The local variables of a command are a record.                          *)
IsLocals(l) ==
    l \in [todo : {l.todo}, next : {l.next}, object : {l.object},
           manuscript : {l.manuscript}, state : {l.state},
           approval : {l.approval}]

Types(p) ==
    /\ source \in Packages /\ disk \in Disks
    /\ pc \in [Procs -> Statements]
    /\ (\E S : loc \in [Procs -> S]) /\ IsLocals(loc[p])
    /\ challenges \in 0..MaxChallenges /\ approvals \in 0..MaxApprovals
    /\ crashes \in Nat
    /\ \E S : clicks \in Seq(S)

(* Confirmations a submission was made with, and those among them whose    *)
(* click() returned.                                                       *)
Used == {clicks[i].approval : i \in DOMAIN clicks}
Reported == {clicks[i].approval : i \in {k \in DOMAIN clicks : clicks[k].performed}}

Counted ==
    /\ Used \subseteq 1..approvals
    /\ OneClickPerApproval
    /\ Loaded("approval") => disk.approval.nr \in 1..approvals

Closed == {"SUBMITTED_TO_ARXIV", "RECONCILED", "HOLD_RECONCILIATION_REQUIRED"}

(* A state that may stand beside the confirmation on disk: APPROVED only   *)
(* before its submission, and after one that was reported it is closed or  *)
(* the command was cut off.                                                *)
Rightful(s) ==
    Loaded("approval") =>
        /\ s.status = "APPROVED" => disk.approval.nr \notin Used
        /\ s.approval /\ disk.approval.nr \in Reported
              => s.status \in Closed \cup {"SUBMITTING"}

Rights == Loaded("state") => Rightful(disk.state)

(* What a command with locals l still has to write, and where it goes then.*)
Pending(l) ==
    LET w == l.todo[1]
        x == l.todo[2]
    IN /\ \/ l.todo = <<w>>
          \/ /\ l.todo = <<w, x>> /\ l.next = "idle"
             /\ IsWrite(x) /\ x.file \in {"state", "result"}
             /\ x.file = "state" =>
                   /\ w.file = "approval" \/ Rightful(x.value)
                   /\ x.value.status # "SUBMITTING"
       /\ IsWrite(w)
       /\ w.file = "state" =>
             /\ Rightful(w.value)
             /\ w.value.status = "SUBMITTING" => l.next = "upload"
       /\ w.file = "approval" => w.value.nr \in (1..approvals) \ Used
       /\ l.next \in {"idle", "staged", "upload"}
       /\ l.next = "staged" => l.object \in Revisions
       /\ l.next = "upload" =>
             w.file = "state" /\ w.value.status = "SUBMITTING"

(* It is about to submit what the confirmation on disk is for.             *)
Underway(l) ==
    /\ l.state \in States
    /\ Loaded("approval") /\ l.approval = disk.approval.nr
    /\ l.approval \notin Used
    /\ disk.approval.package.object = l.object
    /\ disk.approval.package.manuscript = disk.manuscript

Running(p) ==
    /\ pc[p] = "write" => Pending(loc[p])
    /\ pc[p] = "staged" => loc[p].object \in Revisions
    /\ (pc[p] = "write" /\ loc[p].next = "upload") => Underway(loc[p])
    /\ pc[p] \in {"login", "upload", "click"} => Underway(loc[p])
    /\ pc[p] = "click" => loc[p].manuscript = disk.manuscript
    /\ pc[p] \in {"upload", "click", "confirm"} =>
          /\ loc[p].state \in States
          /\ Loaded("state") => disk.state.status = "SUBMITTING"

(* A reported submission is on record as SUBMITTING only until its command *)
(* has written the outcome, or was killed.                                 *)
Undecided ==
    /\ Loaded("state") /\ Loaded("approval")
    /\ disk.state.approval /\ disk.state.status = "SUBMITTING"
    /\ disk.approval.nr \in Reported

Closes(l) == l.todo[1].file = "state" /\ l.todo[1].value.status \in Closed

Unfinished(p) ==
    Undecided => \/ crashes > 0
                 \/ pc[p] = "confirm"
                 \/ pc[p] = "write" /\ Closes(loc[p])

(* The inductive invariant of the publisher's own commands.                *)
PInv(p) ==
    Types(p) /\ Counted /\ Rights /\ Running(p) /\ Unfinished(p)

(* Every signature and every pack in the making was confirmed.             *)
Confirmation(c, package, k) ==
    [challenge |-> c, package |-> package, key |-> k] \in confirmed

Signing ==
    /\ hand.at = "sign" =>
          Confirmation(hand.approval.challenge, hand.approval.package,
                       hand.approval.key)
    /\ hand.at = "bundle" =>
          Confirmation(hand.challenge, hand.package, hand.authority)
    /\ signed \notin {None, Torn} =>
          Confirmation(signed.challenge, signed.package, signed.key)
    /\ PackIsConfirmed

(* While seal_approval approves, the state on disk and the one being       *)
(* written are of the intended package.                                    *)
Waiting(p) ==
    /\ Loaded("state") => disk.state.package = intent
    /\ pc[p] \in {"idle", "write"}
    /\ pc[p] = "write" =>
          /\ loc[p].next = "idle"
          /\ \A i \in DOMAIN loc[p].todo : loc[p].todo[i].file = "state" =>
                loc[p].todo[i].value.package = intent

Sealed(p) ==
    /\ seal # "off" \/ evidence # None => intent # None
    /\ seal = "approve" => Waiting(p)
    /\ SealedIsIntended
    /\ evidence # None => evidence.submissions \in 0..Len(clicks)
---------------------------------------------------------------------------
(* A command goes on to a statement, with locals r, or ends.               *)
LEMMA Gone ==
    ASSUME NEW p, Procs = {p}, Types(p), NEW s \in Statements,
           pc' = [pc EXCEPT ![p] = s],
           NEW r, loc' = [loc EXCEPT ![p] = r], IsLocals(r)
    PROVE  /\ pc'[p] = s /\ pc' \in [Procs -> Statements]
           /\ \E S : loc' \in [Procs -> S]
           /\ loc'[p] = r /\ IsLocals(loc'[p])
<1>1. pc'[p] = s /\ pc' \in [Procs -> Statements \cup {s}]
  BY SetLocal DEF Types
<1>2. Statements \cup {s} = Statements
  OBVIOUS
<1>3. PICK S : loc \in [Procs -> S]
  BY DEF Types
<1>4. loc'[p] = r /\ loc' \in [Procs -> S \cup {r}]
  BY <1>3, SetLocal
<1> QED BY <1>1, <1>2, <1>4

LEMMA Ended ==
    ASSUME NEW p, Procs = {p}, Types(p), Ends(p)
    PROVE  /\ pc'[p] = "idle" /\ pc' \in [Procs -> Statements]
           /\ \E S : loc' \in [Procs -> S]
           /\ IsLocals(loc'[p])
<1>1. pc' = [pc EXCEPT ![p] = "idle"] /\ loc' = [loc EXCEPT ![p] = NoLocals]
  BY DEF Ends
<1>2. PICK S : loc \in [Procs -> S]
  BY DEF Types
<1>3. loc'[p] = NoLocals /\ loc' \in [Procs -> S \cup {NoLocals}]
  BY <1>1, <1>2, SetLocal
<1>4. pc'[p] = "idle" /\ pc' \in [Procs -> Statements \cup {"idle"}]
  BY <1>1, SetLocal DEF Types
<1>5. Statements \cup {"idle"} = Statements /\ IsLocals(NoLocals)
  BY DEF Statements, IsLocals, NoLocals
<1> QED BY <1>3, <1>4, <1>5

---------------------------------------------------------------------------
(* Steps that leave the sandbox and the submissions alone.                 *)
LEMMA FilesStay ==
    ASSUME Counted, Rights, UNCHANGED <<disk, clicks>>,
           approvals \in Nat, approvals' \in Nat, approvals <= approvals'
    PROVE  /\ Counted' /\ Rights'
           /\ Used' = Used /\ Reported' = Reported
           /\ \A s : Rightful(s)' <=> Rightful(s)
           /\ \A l : Underway(l)' <=> Underway(l)
           /\ \A l : Pending(l) => Pending(l)'
           /\ Undecided' <=> Undecided
<1> USE DEF Loaded
<1>1. Used' = Used /\ Reported' = Reported
  BY DEF Used, Reported
<1>2. \A s : Rightful(s)' <=> Rightful(s)
  BY <1>1 DEF Rightful
<1>3. \A l : Underway(l)' <=> Underway(l)
  BY <1>1 DEF Underway
<1>4. \A l : Pending(l) => Pending(l)'
  <2> SUFFICES ASSUME NEW l, Pending(l)
               PROVE  Pending(l)'
    OBVIOUS
  <2>1. (1..approvals) \ Used \subseteq (1..approvals') \ Used'
    BY <1>1
  <2> HIDE DEF Used, Rightful
  <2> QED BY <1>2, <2>1 DEF Pending, IsWrite
<1>5. Counted'
  <2>1. Loaded("approval") => disk.approval.nr \in 1..approvals
    BY DEF Counted
  <2> QED BY <1>1, <2>1 DEF Counted, OneClickPerApproval
<1>6. Rights'
  BY <1>2 DEF Rights, Rightful
<1>7. Undecided' <=> Undecided
  BY <1>1 DEF Undecided
<1> QED BY <1>1, <1>2, <1>3, <1>4, <1>5, <1>6, <1>7

(* A command ends, or is killed, and leaves the files as they are.         *)
LEMMA EndKeeps ==
    ASSUME NEW p, Procs = {p}, PInv(p), Ends(p),
           UNCHANGED <<source, disk, clicks, challenges, approvals>>,
           \/ crashes' = crashes /\ pc[p] \notin {"write", "confirm"}
           \/ crashes' = crashes + 1
    PROVE  PInv(p)'
<1>1. /\ pc'[p] = "idle" /\ pc' \in [Procs -> Statements]
      /\ \E S : loc' \in [Procs -> S]
      /\ IsLocals(loc'[p])
  BY Ended DEF PInv
<1>2. Types(p)'
  BY <1>1 DEF PInv, Types, IsLocals
<1>3. Counted' /\ Rights' /\ (Undecided' <=> Undecided)
  <2>1. approvals \in Nat
    BY DEF PInv, Types
  <2> QED BY <2>1, FilesStay DEF PInv
<1>4. Running(p)'
  BY <1>1 DEF Running
<1>5. Unfinished(p)'
  <2>1. crashes \in Nat
    BY DEF PInv, Types
  <2> HIDE DEF Undecided
  <2> QED BY <1>1, <1>3, <2>1 DEF PInv, Unfinished
<1> QED BY <1>2, <1>3, <1>4, <1>5 DEF PInv

(* A command has decided what it writes next.                              *)
LEMMA BeginKeeps ==
    ASSUME NEW p, Procs = {p}, PInv(p),
           pc' = [pc EXCEPT ![p] = "write"],
           NEW r, loc' = [loc EXCEPT ![p] = r], IsLocals(r),
           UNCHANGED <<source, disk, clicks, crashes>>,
           challenges' \in 0..MaxChallenges,
           approvals' \in approvals..MaxApprovals,
           Pending(r) \/ Pending(r)',
           r.next = "upload" => Underway(r),
           pc[p] \in {"confirm", "write"} => Closes(r)
    PROVE  PInv(p)'
<1>1. /\ pc'[p] = "write" /\ pc' \in [Procs -> Statements]
      /\ \E S : loc' \in [Procs -> S]
      /\ IsLocals(loc'[p]) /\ loc'[p] = r
  BY Gone DEF PInv, Statements
<1>2. /\ approvals \in Nat /\ approvals' \in Nat /\ approvals <= approvals'
      /\ approvals' \in 0..MaxApprovals
  BY PublisherAssumption DEF PInv, Types
<1>3. Types(p)'
  BY <1>1, <1>2 DEF PInv, Types, IsLocals
<1>4. /\ Counted' /\ Rights' /\ (Undecided' <=> Undecided)
      /\ Underway(r)' <=> Underway(r)
      /\ Pending(r)'
  BY <1>2, FilesStay DEF PInv
<1>5. Running(p)'
  <2>1. Pending(loc[p])' /\ (loc'[p].next = "upload" => Underway(loc[p])')
    <3>1. loc'[p] = r => (Pending(loc[p])' <=> Pending(r)')
      BY DEF Pending
    <3>2. loc'[p] = r => (Underway(loc[p])' <=> Underway(r)')
      BY DEF Underway
    <3> QED BY <1>1, <1>4, <3>1, <3>2
  <2> QED BY <1>1, <2>1 DEF Running
<1>6. Unfinished(p)'
  <2> HIDE DEF Undecided, Closes
  <2> QED BY <1>1, <1>4 DEF PInv, Unfinished
<1> QED BY <1>3, <1>4, <1>5, <1>6 DEF PInv

(* What is about to be written is a state ...                              *)
LEMMA StateAlone ==
    ASSUME NEW r, NEW w, IsWrite(w), w.file = "state", Rightful(w.value),
           r.todo = <<w>>,
           r.next \in {"idle", "upload"},
           r.next = "upload" <=> w.value.status = "SUBMITTING"
    PROVE  Pending(r) /\ (w.value.status \in Closed => Closes(r))
<1>1. r.todo[1] = w /\ r.todo = <<r.todo[1]>>
  OBVIOUS
<1> HIDE DEF IsWrite, Rightful
<1>2. Pending(r)
  BY <1>1, Zenon DEF Pending
<1>3. w.value.status \in Closed => Closes(r)
  BY <1>1 DEF Closes
<1> QED BY <1>2, <1>3

(* ... and perhaps the result of the submission.                           *)
LEMMA StateAndResult ==
    ASSUME NEW r, NEW w, NEW x, IsWrite(w), w.file = "state", Rightful(w.value),
           w.value.status # "SUBMITTING", IsWrite(x), x.file = "result",
           r.todo = <<w, x>>, r.next = "idle"
    PROVE  Pending(r) /\ (w.value.status \in Closed => Closes(r))
<1>1. r.todo[1] = w /\ r.todo[2] = x
  OBVIOUS
<1> HIDE DEF IsWrite, Rightful
<1> QED BY <1>1 DEF Pending, Closes

LEMMA StateWrite ==
    ASSUME NEW s \in States, NEW w, w = Written("state", s)
    PROVE  IsWrite(w) /\ w.file = "state" /\ w.value = s
BY DEF IsWrite, Written, Contents, Files

(* A state with another status.                                            *)
LEMMA Restated ==
    ASSUME NEW s \in States, NEW status \in Statuses
    PROVE  /\ [s EXCEPT !.status = status] \in States
           /\ [s EXCEPT !.status = status].status = status
BY DEF States

(* publish: Login, and what it writes when the browser is done.            *)
LEMMA SavesKeeps ==
    ASSUME NEW p, Procs = {p}, PInv(p), NEW status \in Statuses, NEW next,
           Saves(p, status, next), loc[p].state \in States,
           UNCHANGED <<source, disk, clicks, crashes, challenges, approvals>>,
           \/ next = "upload" /\ status = "SUBMITTING" /\ Underway(loc[p])
           \/ next = "idle" /\ status \in Closed
           \/ next = "idle" /\ status = "HOLD_PRE_SUBMIT"
              /\ Underway(loc[p]),
           pc[p] # "write",
           pc[p] = "confirm" => status \in Closed
    PROVE  PInv(p)'
<1>1. PICK s : s = [loc[p].state EXCEPT !.status = status]
  OBVIOUS
<1>2. s \in States /\ s.status = status
  BY <1>1, Restated
<1>3. PICK r : r = [[loc[p] EXCEPT !.state = s] EXCEPT
                      !.todo = <<Written("state", s)>>, !.next = next]
  OBVIOUS
<1>4. /\ pc' = [pc EXCEPT ![p] = "write"]
      /\ loc' = [loc EXCEPT ![p] = r]
  BY <1>1, <1>3 DEF Saves, Writes
<1>5. /\ IsLocals(r) /\ r.todo = <<Written("state", s)>> /\ r.next = next
      /\ r.state = s /\ r.object = loc[p].object
      /\ r.approval = loc[p].approval
  BY <1>3 DEF PInv, Types, IsLocals
<1>6. Rightful(s)
  <2>1. Reported \subseteq Used
    BY DEF Reported, Used
  <2>2. Underway(loc[p]) => disk.approval.nr \notin Used
    BY DEF Underway
  <2>3. status # "APPROVED"
    BY DEF Closed
  <2> QED BY <1>2, <2>1, <2>2, <2>3 DEF Rightful
<1>7. Pending(r) /\ (s.status \in Closed => Closes(r))
  <2>1. PICK w : w = Written("state", s)
    OBVIOUS
  <2>2. IsWrite(w) /\ w.file = "state" /\ w.value = s
    BY <1>2, <2>1, StateWrite
  <2>3. /\ r.todo = <<w>> /\ r.next \in {"idle", "upload"}
        /\ r.next = "upload" <=> w.value.status = "SUBMITTING"
    BY <1>2, <1>5, <2>1, <2>2 DEF Closed
  <2>4. Rightful(w.value)
    BY <1>6, <2>2
  <2> QED BY <2>2, <2>3, <2>4, StateAlone
<1>8. r.next = "upload" => Underway(r)
  BY <1>2, <1>5 DEF Underway, Closed
<1>9. challenges' \in 0..MaxChallenges /\ approvals' \in approvals..MaxApprovals
  BY DEF PInv, Types
<1> QED BY <1>2, <1>4, <1>5, <1>7, <1>8, <1>9, BeginKeeps

(* ... or a file that says nothing about approvals ...                     *)
LEMMA PlainAlone ==
    ASSUME NEW r, NEW w, IsWrite(w), w.file \in {"manuscript", "challenge"},
           r.todo = <<w>>, r.next \in {"idle", "staged"},
           r.next = "staged" => r.object \in Revisions
    PROVE  Pending(r)
<1>1. r.todo[1] = w /\ r.todo = <<r.todo[1]>>
  OBVIOUS
<1> HIDE DEF IsWrite
<1> QED BY <1>1, Zenon DEF Pending

(* ... or one of them, and then a state.                                   *)
LEMMA PlainAndState ==
    ASSUME NEW r, NEW w, NEW x, IsWrite(w), w.file = "projection",
           IsWrite(x), x.file = "state", Rightful(x.value),
           x.value.status # "SUBMITTING",
           r.todo = <<w, x>>, r.next = "idle"
    PROVE  Pending(r)
<1>1. r.todo[1] = w /\ r.todo[2] = x
  OBVIOUS
<1> HIDE DEF IsWrite, Rightful
<1> QED BY <1>1 DEF Pending

(* prepare_sandbox copies the manuscript ...                               *)
LEMMA PrepareStartKeeps ==
    ASSUME NEW p, Procs = {p}, PInv(p), PrepareStart(p)
    PROVE  PInv(p)'
<1>1. PICK w : w = Written("manuscript", source.manuscript)
  OBVIOUS
<1>2. IsWrite(w) /\ w.file = "manuscript"
  BY <1>1 DEF IsWrite, Written, Contents, Files, PInv, Types, Packages
<1>3. PICK r : r = [[loc[p] EXCEPT !.object = source.object] EXCEPT
                      !.todo = <<w>>, !.next = "staged"]
  OBVIOUS
<1>4. /\ pc' = [pc EXCEPT ![p] = "write"]
      /\ loc' = [loc EXCEPT ![p] = r]
  BY <1>1, <1>3 DEF PrepareStart, Writes
<1>5. /\ IsLocals(r) /\ r.todo = <<w>> /\ r.next = "staged"
      /\ r.object \in Revisions
  BY <1>3 DEF PInv, Types, IsLocals, Packages
<1>6. Pending(r)
  BY <1>2, <1>5, PlainAlone
<1>7. challenges' \in 0..MaxChallenges /\ approvals' \in approvals..MaxApprovals
  BY DEF PInv, Types, PrepareStart
<1>8. pc[p] \notin {"confirm", "write"} /\ UNCHANGED <<source, disk, clicks, crashes>>
  BY DEF PrepareStart
<1> QED BY <1>4, <1>5, <1>6, <1>7, <1>8, BeginKeeps

(* ... and writes the projection and a state that is not approved.         *)
LEMMA PrepareProjectKeeps ==
    ASSUME NEW p, Procs = {p}, PInv(p), PrepareProject(p)
    PROVE  PInv(p)'
<1>1. PICK s : s = [status |-> "HUMAN_REVIEW_REQUIRED",
                    package |-> [object |-> loc[p].object,
                                 manuscript |-> disk.manuscript],
                    approval |-> FALSE]
  OBVIOUS
<1>2. s.status = "HUMAN_REVIEW_REQUIRED" /\ s.approval = FALSE
  BY <1>1
<1>3. loc[p].object \in Revisions /\ source.manuscript \in Revisions
      /\ disk.manuscript \in Revisions
  BY DEF PrepareProject, PInv, Running, Types, Packages
<1>4. s \in States
  BY <1>1, <1>3 DEF States, Statuses, Packages
<1>5. PICK w, x : w = Written("projection", loc[p].object)
                  /\ x = Written("state", s)
  OBVIOUS
<1>6. IsWrite(w) /\ w.file = "projection"
  BY <1>3, <1>5 DEF IsWrite, Written, Contents, Files
<1>7. IsWrite(x) /\ x.file = "state" /\ x.value = s
  BY <1>4, <1>5, StateWrite
<1>8. Rightful(s)
  BY <1>2 DEF Rightful
<1>9. PICK r : r = [loc[p] EXCEPT !.todo = <<w, x>>, !.next = "idle"]
  OBVIOUS
<1>10. /\ pc' = [pc EXCEPT ![p] = "write"]
       /\ loc' = [loc EXCEPT ![p] = r]
  BY <1>1, <1>5, <1>9 DEF PrepareProject, Writes
<1>11. IsLocals(r) /\ r.todo = <<w, x>> /\ r.next = "idle"
  BY <1>9 DEF PInv, Types, IsLocals
<1>12. Rightful(x.value) /\ x.value.status # "SUBMITTING"
  BY <1>2, <1>7, <1>8
<1>13. Pending(r)
  BY <1>6, <1>7, <1>11, <1>12, PlainAndState
<1>14. challenges' \in 0..MaxChallenges /\ approvals' \in approvals..MaxApprovals
  BY DEF PInv, Types, PrepareProject
<1>15. pc[p] \notin {"confirm", "write"} /\ UNCHANGED <<source, disk, clicks, crashes>>
  BY DEF PrepareProject
<1> QED BY <1>10, <1>11, <1>13, <1>14, <1>15, BeginKeeps

LEMMA RequestApprovalKeeps ==
    ASSUME NEW p, Procs = {p}, PInv(p), RequestApproval(p)
    PROVE  PInv(p)'
<1>1. PICK c : c = [id |-> challenges + 1, package |-> disk.state.package]
  OBVIOUS
<1>2. disk.state \in States /\ challenges + 1 \in 1..MaxChallenges
  <2>1. disk.state \in States
    BY DEF RequestApproval, Loaded, PInv, Types, Disks
  <2>2. challenges + 1 \in 1..MaxChallenges
    BY PublisherAssumption DEF RequestApproval, PInv, Types
  <2> QED BY <2>1, <2>2
<1>3. c \in Challenges
  BY <1>1, <1>2 DEF Challenges, States
<1>4. PICK w : w = Written("challenge", c)
  OBVIOUS
<1>5. IsWrite(w) /\ w.file = "challenge"
  BY <1>3, <1>4 DEF IsWrite, Written, Contents, Files
<1>6. PICK r : r = [loc[p] EXCEPT !.todo = <<w>>, !.next = "idle"]
  OBVIOUS
<1>7. /\ pc' = [pc EXCEPT ![p] = "write"]
      /\ loc' = [loc EXCEPT ![p] = r]
  BY <1>1, <1>4, <1>6 DEF RequestApproval, Writes
<1>8. IsLocals(r) /\ r.todo = <<w>> /\ r.next = "idle"
  BY <1>6 DEF PInv, Types, IsLocals
<1>9. Pending(r)
  BY <1>5, <1>8, PlainAlone
<1>10. challenges' \in 0..MaxChallenges /\ approvals' \in approvals..MaxApprovals
  BY PublisherAssumption DEF PInv, Types, RequestApproval
<1>11. pc[p] \notin {"confirm", "write"} /\ UNCHANGED <<source, disk, clicks, crashes>>
  BY DEF RequestApproval
<1> QED BY <1>7, <1>8, <1>9, <1>10, <1>11, BeginKeeps

(* approve: a confirmation no submission can have been made with.          *)
LEMMA ApproveKeeps ==
    ASSUME NEW p, Procs = {p}, PInv(p), Approve(p)
    PROVE  PInv(p)'
<1>1. /\ disk.state \in States /\ disk.challenge \in Challenges
      /\ approvals + 1 \in 1..MaxApprovals
  <2>1. disk.state \in States /\ disk.challenge \in Challenges
    BY DEF Approve, Loaded, PInv, Types, Disks
  <2>2. approvals + 1 \in 1..MaxApprovals
    BY PublisherAssumption DEF Approve, PInv, Types
  <2> QED BY <2>1, <2>2
<1>2. PICK s : s = [disk.state EXCEPT !.status = "APPROVED", !.approval = TRUE]
  OBVIOUS
<1>3. s \in States /\ s.status = "APPROVED"
  BY <1>1, <1>2 DEF States, Statuses
<1>4. PICK a : a = [nr |-> approvals + 1, challenge |-> disk.challenge.id,
                    package |-> disk.state.package]
  OBVIOUS
<1>5. a \in Approvals /\ a.nr = approvals + 1
  BY <1>1, <1>4 DEF Approvals, States, Challenges
<1>6. PICK w, x : w = Written("approval", a) /\ x = Written("state", s)
  OBVIOUS
<1>7. IsWrite(w) /\ w.file = "approval" /\ w.value = a
  BY <1>5, <1>6 DEF IsWrite, Written, Contents, Files
<1>8. IsWrite(x) /\ x.file = "state" /\ x.value = s
  BY <1>3, <1>6, StateWrite
<1>9. PICK r : r = [loc[p] EXCEPT !.todo = <<w, x>>, !.next = "idle"]
  OBVIOUS
<1>10. /\ pc' = [pc EXCEPT ![p] = "write"]
       /\ loc' = [loc EXCEPT ![p] = r]
  BY <1>2, <1>4, <1>6, <1>9 DEF Approve, Writes
<1>11. IsLocals(r) /\ r.todo = <<w, x>> /\ r.next = "idle"
  BY <1>9 DEF PInv, Types, IsLocals
<1>12. approvals' \in approvals..MaxApprovals /\ approvals' = approvals + 1
  BY <1>1, PublisherAssumption DEF PInv, Types, Approve
<1>13. approvals + 1 \in (1..approvals') \ Used'
  <2>1. Used \subseteq 1..approvals
    BY DEF PInv, Counted
  <2>2. Used' = Used
    BY DEF Approve, Used
  <2>3. approvals \in Nat
    BY DEF PInv, Types
  <2> QED BY <1>12, <2>1, <2>2, <2>3
<1>14. Pending(r)'
  <2>1. r.todo[1] = w /\ r.todo[2] = x
    BY <1>11
  <2>2. x.value.status # "SUBMITTING"
    BY <1>3, <1>8
  <2>3. w.value.nr \in (1..approvals') \ Used'
    BY <1>5, <1>7, <1>13
  <2>4. w.file # "state" /\ x.file \in {"state", "result"}
    BY <1>7, <1>8
  <2> HIDE DEF Used, Rightful, IsWrite
  <2>5. IsWrite(w)' /\ IsWrite(x)'
    BY <1>7, <1>8 DEF IsWrite
  <2> QED BY <1>7, <1>11, <2>1, <2>2, <2>3, <2>4, <2>5, Zenon DEF Pending
<1>15. challenges' \in 0..MaxChallenges
  BY DEF PInv, Types, Approve
<1>16. pc[p] \notin {"confirm", "write"} /\ UNCHANGED <<source, disk, clicks, crashes>>
  BY DEF Approve
<1> QED BY <1>10, <1>11, <1>12, <1>14, <1>15, <1>16, BeginKeeps

(* reconcile records that the submission was found.                        *)
LEMMA ReconcileKeeps ==
    ASSUME NEW p, Procs = {p}, PInv(p), Reconcile(p)
    PROVE  PInv(p)'
<1>1. disk.state \in States
  BY DEF Reconcile, Loaded, PInv, Types, Disks
<1>2. PICK s : s = [disk.state EXCEPT !.status = "RECONCILED"]
  OBVIOUS
<1>3. s \in States /\ s.status = "RECONCILED"
  BY <1>1, <1>2 DEF States, Statuses
<1>4. PICK w : w = Written("state", s)
  OBVIOUS
<1>5. IsWrite(w) /\ w.file = "state" /\ w.value = s
  BY <1>3, <1>4, StateWrite
<1>6. PICK r : r = [loc[p] EXCEPT !.todo = <<w>>, !.next = "idle"]
  OBVIOUS
<1>7. /\ pc' = [pc EXCEPT ![p] = "write"]
      /\ loc' = [loc EXCEPT ![p] = r]
  BY <1>2, <1>4, <1>6 DEF Reconcile, Writes
<1>8. IsLocals(r) /\ r.todo = <<w>> /\ r.next = "idle"
  BY <1>6 DEF PInv, Types, IsLocals
<1>9. Rightful(w.value) /\ w.value.status # "SUBMITTING"
  BY <1>3, <1>5 DEF Rightful, Closed
<1>10. Pending(r)
  BY <1>5, <1>8, <1>9, StateAlone
<1>11. challenges' \in 0..MaxChallenges /\ approvals' \in approvals..MaxApprovals
  BY DEF PInv, Types, Reconcile
<1>12. pc[p] \notin {"confirm", "write"} /\ UNCHANGED <<source, disk, clicks, crashes>>
  BY DEF Reconcile
<1> QED BY <1>7, <1>8, <1>10, <1>11, <1>12, BeginKeeps

---------------------------------------------------------------------------
(* A command ends without a word to its files.                             *)
LEMMA QuitKeeps ==
    ASSUME NEW p, Procs = {p}, PInv(p),
           LoginFails(p) \/ TransportIdle(p)
    PROVE  PInv(p)'
<1>1. /\ Ends(p) /\ pc[p] \notin {"write", "confirm"}
      /\ UNCHANGED <<source, disk, clicks, challenges, approvals, crashes>>
  BY DEF LoginFails, TransportIdle
<1> QED BY <1>1, EndKeeps

(* publish verifies the approval on disk: nothing was submitted with it.   *)
LEMMA PublishStartKeeps ==
    ASSUME NEW p, Procs = {p}, PInv(p), PublishStart(p)
    PROVE  PInv(p)'
<1>1. /\ disk.state \in States /\ disk.state.status = "APPROVED"
      /\ Loaded("approval") /\ disk.approval \in Approvals
      /\ disk.approval.package = disk.state.package
      /\ PackageIntact(disk.state)
  BY DEF PublishStart, ApprovalValid, Loaded, PInv, Types, Disks
<1>2. disk.approval.nr \notin Used
  BY <1>1 DEF PInv, Rights, Rightful, PublishStart
<1>3. PICK r : r = [loc[p] EXCEPT !.state = disk.state, !.object = disk.projection,
                                  !.approval = disk.approval.nr]
  OBVIOUS
<1>4. /\ r.state = disk.state /\ r.object = disk.projection
      /\ r.approval = disk.approval.nr /\ IsLocals(r)
  BY <1>3 DEF PInv, Types, IsLocals
<1>5. loc' = [loc EXCEPT ![p] = r] /\ pc' = [pc EXCEPT ![p] = "login"]
  BY <1>3 DEF PublishStart
<1>6. /\ pc'[p] = "login" /\ pc' \in [Procs -> Statements]
      /\ \E S : loc' \in [Procs -> S]
      /\ loc'[p] = r /\ IsLocals(loc'[p])
  BY <1>4, <1>5, Gone DEF PInv, Statements
<1>7. Underway(r)
  BY <1>1, <1>2, <1>4 DEF Underway, PackageIntact
<1>8. UNCHANGED <<source, disk, clicks, challenges, approvals, crashes>>
  BY DEF PublishStart
<1>9. /\ Counted' /\ Rights' /\ (Undecided' <=> Undecided)
      /\ Underway(r)'
  <2>1. approvals \in Nat
    BY DEF PInv, Types
  <2> QED BY <1>7, <1>8, <2>1, FilesStay DEF PInv
<1>10. Types(p)'
  BY <1>6, <1>8 DEF PInv, Types, IsLocals
<1>11. Running(p)'
  <2>1. loc'[p] = r => (Underway(loc[p])' <=> Underway(r)')
    BY DEF Underway
  <2> QED BY <1>6, <1>9, <2>1 DEF Running
<1>12. Unfinished(p)'
  <2>1. pc[p] = "idle"
    BY DEF PublishStart
  <2> HIDE DEF Undecided
  <2> QED BY <1>8, <1>9, <2>1 DEF PInv, Unfinished
<1> QED BY <1>9, <1>10, <1>11, <1>12 DEF PInv

(* The browser takes the manuscript that is in the sandbox.                *)
LEMMA UploadKeeps ==
    ASSUME NEW p, Procs = {p}, PInv(p), Upload(p)
    PROVE  PInv(p)'
<1>1. PICK r : r = [loc[p] EXCEPT !.manuscript = disk.manuscript]
  OBVIOUS
<1>2. /\ r.state = loc[p].state /\ r.object = loc[p].object
      /\ r.approval = loc[p].approval /\ r.manuscript = disk.manuscript
      /\ IsLocals(r)
  BY <1>1 DEF PInv, Types, IsLocals
<1>3. loc' = [loc EXCEPT ![p] = r] /\ pc' = [pc EXCEPT ![p] = "click"]
  BY <1>1 DEF Upload
<1>4. /\ pc'[p] = "click" /\ pc' \in [Procs -> Statements]
      /\ \E S : loc' \in [Procs -> S]
      /\ loc'[p] = r /\ IsLocals(loc'[p])
  BY <1>2, <1>3, Gone DEF PInv, Statements
<1>5. Underway(r) /\ r.state \in States
      /\ (Loaded("state") => disk.state.status = "SUBMITTING")
  BY <1>2 DEF Upload, PInv, Running, Underway
<1>6. UNCHANGED <<source, disk, clicks, challenges, approvals, crashes>>
  BY DEF Upload
<1>7. /\ Counted' /\ Rights' /\ (Undecided' <=> Undecided)
      /\ Underway(r)'
  <2>1. approvals \in Nat
    BY DEF PInv, Types
  <2> QED BY <1>5, <1>6, <2>1, FilesStay DEF PInv
<1>8. Types(p)'
  BY <1>4, <1>6 DEF PInv, Types, IsLocals
<1>9. Running(p)'
  <2>1. loc'[p] = r => (Underway(loc[p])' <=> Underway(r)')
    BY DEF Underway
  <2>2. Loaded("state")' => disk'.state.status = "SUBMITTING"
    BY <1>5, <1>6 DEF Loaded
  <2> QED BY <1>2, <1>4, <1>5, <1>6, <1>7, <2>1, <2>2 DEF Running
<1>10. Unfinished(p)'
  <2>1. pc[p] = "upload"
    BY DEF Upload
  <2> HIDE DEF Undecided
  <2> QED BY <1>6, <1>7, <2>1 DEF PInv, Unfinished
<1> QED BY <1>7, <1>8, <1>9, <1>10 DEF PInv

(* The state the command saves after authorize_login, and what it saves    *)
(* when the transport is over.                                             *)
LEMMA SomeSavesKeep ==
    ASSUME NEW p, Procs = {p}, PInv(p),
           Login(p) \/ TransportFails(p) \/ ConfirmFails(p)
    PROVE  PInv(p)'
<1>1. loc[p].state \in States
  BY DEF Login, TransportFails, ConfirmFails, PInv, Running, Underway
<1>2. UNCHANGED <<source, disk, clicks, crashes, challenges, approvals>>
  BY DEF Login, TransportFails, ConfirmFails
<1>3. CASE Login(p)
  <2>1. Underway(loc[p]) /\ pc[p] = "login"
    BY <1>3 DEF Login, PInv, Running
  <2>2. Saves(p, "SUBMITTING", "upload") /\ "SUBMITTING" \in Statuses
    BY <1>3 DEF Login, Statuses
  <2> QED BY <1>1, <1>2, <2>1, <2>2, SavesKeeps
<1>4. CASE TransportFails(p)
  <2>1. Underway(loc[p]) /\ pc[p] \in {"upload", "click"}
    BY <1>4 DEF TransportFails, PInv, Running
  <2>2. Saves(p, "HOLD_PRE_SUBMIT", "idle") /\ "HOLD_PRE_SUBMIT" \in Statuses
    BY <1>4 DEF TransportFails, Statuses
  <2> QED BY <1>1, <1>2, <2>1, <2>2, SavesKeeps
<1>5. CASE ConfirmFails(p)
  <2>1. pc[p] = "confirm"
    BY <1>5 DEF ConfirmFails
  <2>2. Saves(p, "HOLD_RECONCILIATION_REQUIRED", "idle")
        /\ "HOLD_RECONCILIATION_REQUIRED" \in Statuses \cap Closed
    BY <1>5 DEF ConfirmFails, Statuses, Closed
  <2> QED BY <1>1, <1>2, <2>1, <2>2, SavesKeeps
<1> QED BY <1>3, <1>4, <1>5

(* The outcome of a submission is closed, and its result is written.       *)
LEMMA OutcomeKeeps ==
    ASSUME NEW p, Procs = {p}, PInv(p),
           Confirmed(p) \/ Unconfirmed(p)
    PROVE  PInv(p)'
<1>1. PICK status, found :
          \/ status = "SUBMITTED_TO_ARXIV" /\ found = TRUE /\ Confirmed(p)
          \/ /\ status = "HOLD_RECONCILIATION_REQUIRED" /\ found = FALSE
             /\ Unconfirmed(p)
  OBVIOUS
<1>2. status \in Statuses \cap Closed /\ status # "SUBMITTING"
      /\ status # "APPROVED" /\ found \in BOOLEAN
  BY <1>1 DEF Statuses, Closed
<1>3. PICK s : s = [loc[p].state EXCEPT !.status = status]
  OBVIOUS
<1>4. /\ pc[p] = "confirm"
      /\ UNCHANGED <<source, disk, clicks, crashes, challenges, approvals>>
  BY <1>1 DEF Confirmed, Unconfirmed
<1>5. loc[p].state \in States
  BY <1>4 DEF PInv, Running
<1>6. s \in States /\ s.status = status
  BY <1>2, <1>3, <1>5, Restated
<1>7. PICK w, x : w = Written("state", s) /\ x = Written("result", found)
  OBVIOUS
<1>8. IsWrite(w) /\ w.file = "state" /\ w.value = s
  BY <1>6, <1>7, StateWrite
<1>9. IsWrite(x) /\ x.file = "result"
  BY <1>2, <1>7 DEF IsWrite, Written, Contents, Files
<1>10. PICK r : r = [loc[p] EXCEPT !.todo = <<w, x>>, !.next = "idle"]
  OBVIOUS
<1>11. /\ pc' = [pc EXCEPT ![p] = "write"]
       /\ loc' = [loc EXCEPT ![p] = r]
  BY <1>1, <1>3, <1>7, <1>10 DEF Confirmed, Unconfirmed, Writes
<1>12. IsLocals(r) /\ r.todo = <<w, x>> /\ r.next = "idle"
  BY <1>10 DEF PInv, Types, IsLocals
<1>13. Rightful(w.value) /\ w.value.status # "SUBMITTING"
  BY <1>2, <1>6, <1>8 DEF Rightful
<1>14. Pending(r) /\ Closes(r)
  BY <1>2, <1>6, <1>8, <1>9, <1>12, <1>13, StateAndResult
<1>15. challenges' \in 0..MaxChallenges /\ approvals' \in approvals..MaxApprovals
  BY <1>4 DEF PInv, Types
<1> QED BY <1>4, <1>11, <1>12, <1>14, <1>15, BeginKeeps

(* One more submission.                                                    *)
LEMMA Appended ==
    ASSUME NEW c, \E S : clicks \in Seq(S), clicks' = Append(clicks, c),
           OneClickPerApproval, c.approval \notin Used
    PROVE  /\ OneClickPerApproval'
           /\ Used' = Used \cup {c.approval}
           /\ Reported' = Reported \cup IF c.performed THEN {c.approval} ELSE {}
           /\ \E S : clicks' \in Seq(S)
<1>1. PICK S : clicks \in Seq(S)
  OBVIOUS
<1>2. clicks' \in Seq(S \cup {c})
  BY <1>1
<1>3. PICK n \in Nat : n = Len(clicks) /\ DOMAIN clicks = 1..n
  BY <1>1
<1>4. /\ DOMAIN clicks' = 1..(n + 1)
      /\ \A i \in 1..n : clicks'[i] = clicks[i]
      /\ clicks'[n + 1] = c
  BY <1>1, <1>3
<1>5. DOMAIN clicks' = DOMAIN clicks \cup {n + 1} /\ n + 1 \notin DOMAIN clicks
  BY <1>3, <1>4
<1>6. Used' = Used \cup {c.approval}
  BY <1>3, <1>4, <1>5 DEF Used
<1>7. Reported' = Reported \cup IF c.performed THEN {c.approval} ELSE {}
  BY <1>3, <1>4, <1>5 DEF Reported
<1>8. OneClickPerApproval'
  <2>1. \A i \in DOMAIN clicks : clicks[i].approval # c.approval
    BY DEF Used
  <2> QED BY <1>3, <1>4, <1>5, <2>1 DEF OneClickPerApproval
<1> QED BY <1>2, <1>6, <1>7, <1>8

(* click() returned; arXiv has the request or has not.                     *)
LEMMA ClickKeeps ==
    ASSUME NEW p, Procs = {p}, PInv(p), Click(p)
    PROVE  PInv(p)'
<1> DEFINE c == Submission(p, TRUE)
<1>1. /\ Underway(loc[p]) /\ pc[p] = "click"
      /\ loc[p].state \in States
      /\ (Loaded("state") => disk.state.status = "SUBMITTING")
      /\ pc' = [pc EXCEPT ![p] = "confirm"] /\ UNCHANGED loc
      /\ UNCHANGED <<source, disk, challenges, approvals, crashes>>
  BY DEF Click, PInv, Running
<1>2. /\ pc'[p] = "confirm" /\ pc' \in [Procs -> Statements]
  <2>1. pc \in [Procs -> Statements]
    BY DEF PInv, Types
  <2>2. "confirm" \in Statements
    BY DEF Statements
  <2> HIDE DEF Statements
  <2> QED BY <1>1, <2>1, <2>2
<1>3. /\ OneClickPerApproval' /\ Used' \subseteq 1..approvals
      /\ \E S : clicks' \in Seq(S)
  <2>1. CASE clicks' = clicks
    <3>1. Used' = Used
      BY <2>1 DEF Used
    <3> QED BY <2>1, <3>1 DEF PInv, Counted, OneClickPerApproval, Types
  <2>2. CASE clicks' = Append(clicks, c)
    <3>1. c.approval = loc[p].approval
      BY DEF Submission
    <3>2. c.approval \notin Used /\ c.approval \in 1..approvals
      BY <1>1, <3>1 DEF Underway, PInv, Counted
    <3>3. OneClickPerApproval /\ Used \subseteq 1..approvals
          /\ \E S : clicks \in Seq(S)
      BY DEF PInv, Counted, Types
    <3> HIDE DEF c
    <3>4. OneClickPerApproval' /\ Used' = Used \cup {c.approval}
          /\ \E S : clicks' \in Seq(S)
      BY <2>2, <3>2, <3>3, Appended
    <3> QED BY <3>2, <3>3, <3>4
  <2> QED BY <2>1, <2>2 DEF Click
<1>4. Types(p)'
  BY <1>1, <1>2, <1>3 DEF PInv, Types, IsLocals
<1>5. Counted'
  BY <1>1, <1>3 DEF PInv, Counted, Loaded
<1>6. Rights'
  <2>1. Loaded("state")' => disk'.state.status = "SUBMITTING"
    BY <1>1 DEF Loaded
  <2> QED BY <2>1 DEF Rights, Rightful
<1>7. Running(p)'
  BY <1>1, <1>2 DEF Running, Loaded
<1>8. Unfinished(p)'
  BY <1>2 DEF Unfinished
<1> QED BY <1>4, <1>5, <1>6, <1>7, <1>8 DEF PInv

(* click() raised after arXiv had the request: the submission is not       *)
(* reported, and HOLD_PRE_SUBMIT may be written.                           *)
LEMMA ClickRaisesKeeps ==
    ASSUME NEW p, Procs = {p}, PInv(p), ClickRaises(p)
    PROVE  PInv(p)'
<1>1. /\ Underway(loc[p]) /\ pc[p] = "click"
      /\ loc[p].state \in States
      /\ Saves(p, "HOLD_PRE_SUBMIT", "idle")
      /\ UNCHANGED <<source, disk, challenges, approvals, crashes>>
  BY DEF ClickRaises, PInv, Running
<1>2. PICK c : c = Submission(p, FALSE)
  OBVIOUS
<1>3. c.approval = loc[p].approval /\ c.performed = FALSE
  BY <1>2 DEF Submission
<1>4. c.approval \notin Used /\ c.approval \in 1..approvals
      /\ (Loaded("approval") => c.approval = disk.approval.nr)
  BY <1>1, <1>3 DEF Underway, PInv, Counted
<1>5. OneClickPerApproval /\ Used \subseteq 1..approvals
      /\ \E S : clicks \in Seq(S)
  BY DEF PInv, Counted, Types
<1>6. clicks' = Append(clicks, c)
  BY <1>2 DEF ClickRaises
<1>7. OneClickPerApproval' /\ Used' = Used \cup {c.approval}
      /\ Reported' = Reported \cup (IF c.performed THEN {c.approval} ELSE {})
      /\ \E S : clicks' \in Seq(S)
  BY <1>4, <1>5, <1>6, Appended
<1>8. /\ Used' \subseteq 1..approvals /\ Reported' = Reported
      /\ c.approval \notin Reported
  BY <1>3, <1>4, <1>5, <1>7 DEF Reported, Used
<1>9. PICK s : s = [loc[p].state EXCEPT !.status = "HOLD_PRE_SUBMIT"]
  OBVIOUS
<1>10. s \in States /\ s.status = "HOLD_PRE_SUBMIT"
  BY <1>1, <1>9, Restated DEF Statuses
<1>11. PICK w : w = Written("state", s)
  OBVIOUS
<1>12. IsWrite(w) /\ w.file = "state" /\ w.value = s
  BY <1>10, <1>11, StateWrite
<1>13. PICK r : r = [[loc[p] EXCEPT !.state = s] EXCEPT
                       !.todo = <<w>>, !.next = "idle"]
  OBVIOUS
<1>14. /\ pc' = [pc EXCEPT ![p] = "write"]
       /\ loc' = [loc EXCEPT ![p] = r]
  BY <1>1, <1>9, <1>11, <1>13 DEF Saves, Writes
<1>15. IsLocals(r) /\ r.todo = <<w>> /\ r.next = "idle"
  BY <1>13 DEF PInv, Types, IsLocals
<1>16. /\ pc'[p] = "write" /\ pc' \in [Procs -> Statements]
       /\ \E S : loc' \in [Procs -> S]
       /\ loc'[p] = r /\ IsLocals(loc'[p])
  BY <1>14, <1>15, Gone DEF PInv, Statements
<1>17. Loaded("approval")' => disk'.approval.nr \notin Reported'
  BY <1>1, <1>4, <1>8 DEF Loaded
<1>18. Types(p)'
  BY <1>1, <1>7, <1>16 DEF PInv, Types, IsLocals
<1>19. Counted'
  BY <1>1, <1>7, <1>8 DEF PInv, Counted, Loaded
<1>20. Rights'
  <2>1. Loaded("state")' => disk'.state.status = "SUBMITTING"
    BY <1>1 DEF PInv, Running, Loaded
  <2> QED BY <2>1 DEF Rights, Rightful
<1>21. Pending(r)'
  <2>1. r.todo[1] = w /\ r.todo = <<r.todo[1]>>
    BY <1>15
  <2>2. Rightful(s)'
    BY <1>10, <1>17 DEF Rightful
  <2>3. IsWrite(w)' /\ w.value.status # "SUBMITTING" /\ Rightful(w.value)'
    BY <1>10, <1>12, <2>2 DEF IsWrite
  <2> HIDE DEF Used, Rightful, IsWrite
  <2> QED BY <1>12, <1>15, <2>1, <2>3, Zenon DEF Pending
<1>22. Running(p)'
  <2>1. Pending(loc[p])' <=> Pending(r)'
    BY <1>16 DEF Pending
  <2> QED BY <1>15, <1>16, <1>21, <2>1 DEF Running
<1>23. Unfinished(p)'
  BY <1>17 DEF Unfinished, Undecided
<1> QED BY <1>18, <1>19, <1>20, <1>22, <1>23 DEF PInv

(* A command dies, and the file it was about to write is torn.             *)
LEMMA TearKeeps ==
    ASSUME NEW p, Procs = {p}, PInv(p), Ends(p), NEW f \in Files,
           disk' = [disk EXCEPT ![f] = Torn],
           UNCHANGED <<source, clicks, challenges, approvals>>,
           \/ crashes' = crashes /\ pc[p] = "staged"
           \/ crashes' = crashes + 1
    PROVE  PInv(p)'
<1>1. /\ pc'[p] = "idle" /\ pc' \in [Procs -> Statements]
      /\ \E S : loc' \in [Procs -> S]
      /\ IsLocals(loc'[p])
  BY Ended DEF PInv
<1>2. /\ disk' \in Disks /\ disk'[f] = Torn
      /\ \A g \in Files \ {f} : disk'[g] = disk[g]
  <2>1. disk \in Disks /\ Torn \in Contents[f] \cup {Torn}
    BY DEF PInv, Types
  <2> QED BY <2>1, DiskWritten
<1>3. /\ Loaded("state")' => Loaded("state") /\ disk'.state = disk.state
      /\ Loaded("approval")' => Loaded("approval") /\ disk'.approval = disk.approval
  BY <1>2 DEF Loaded, Files
<1>4. Used' = Used /\ Reported' = Reported
  BY DEF Used, Reported
<1>5. Types(p)'
  BY <1>1, <1>2 DEF PInv, Types, IsLocals
<1>6. Counted'
  BY <1>3, <1>4 DEF PInv, Counted, OneClickPerApproval
<1>7. Rights'
  BY <1>3, <1>4 DEF PInv, Rights, Rightful
<1>8. Running(p)'
  BY <1>1 DEF Running
<1>9. Unfinished(p)'
  <2>1. Undecided' => Undecided
    BY <1>3, <1>4 DEF Undecided
  <2>2. crashes \in Nat
    BY DEF PInv, Types
  <2> HIDE DEF Undecided
  <2> QED BY <1>1, <2>1, <2>2 DEF PInv, Unfinished
<1> QED BY <1>5, <1>6, <1>7, <1>8, <1>9 DEF PInv

LEMMA DyingKeeps ==
    ASSUME NEW p, Procs = {p}, PInv(p),
           Crash(p) \/ PrepareFails(p)
    PROVE  PInv(p)'
<1>1. CASE Crash(p)
  <2>1. /\ Ends(p) /\ crashes' = crashes + 1
        /\ UNCHANGED <<source, clicks, challenges, approvals>>
    BY <1>1 DEF Crash
  <2>2. CASE disk' = disk
    BY <2>1, <2>2, EndKeeps
  <2>3. CASE pc[p] = "write" /\ disk' = [disk EXCEPT ![Head(loc[p].todo).file] = Torn]
    <3>1. PICK f : f = Head(loc[p].todo).file
      OBVIOUS
    <3>2. f \in Files
      <4>1. Pending(loc[p])
        BY <2>3 DEF PInv, Running
      <4>2. PICK w, x : w = loc[p].todo[1] /\ x = loc[p].todo[2]
        OBVIOUS
      <4>3. loc[p].todo \in {<<w>>, <<w, x>>} /\ w.file \in Files
        BY <4>1, <4>2 DEF Pending, IsWrite
      <4> QED BY <3>1, <4>3, Lists
    <3> QED BY <2>1, <2>3, <3>1, <3>2, TearKeeps
  <2> QED BY <1>1, <2>2, <2>3 DEF Crash
<1>2. CASE PrepareFails(p)
  <2>1. /\ Ends(p) /\ UNCHANGED crashes /\ pc[p] = "staged"
        /\ UNCHANGED <<source, clicks, challenges, approvals>>
    BY <1>2 DEF PrepareFails
  <2>2. CASE disk' = disk
    BY <2>1, <2>2, EndKeeps
  <2>3. CASE disk' = [disk EXCEPT !.projection = Torn]
    <3>1. "projection" \in Files
      BY DEF Files
    <3> QED BY <2>1, <2>3, <3>1, TearKeeps
  <2> QED BY <1>2, <2>2, <2>3 DEF PrepareFails
<1> QED BY <1>1, <1>2

(* Steps that no command takes: the author edits, challenges expire, the   *)
(* person works on her own files.                                          *)
LEMMA QuietKeeps ==
    ASSUME NEW p, Procs = {p}, PInv(p),
           UNCHANGED <<disk, clicks, pc, loc>>, source' \in Packages,
           challenges' \in 0..MaxChallenges,
           approvals' \in approvals..MaxApprovals,
           crashes' \in Nat, crashes <= crashes'
    PROVE  PInv(p)'
<1>1. /\ approvals \in Nat /\ approvals' \in Nat /\ approvals <= approvals'
      /\ approvals' \in 0..MaxApprovals
  BY PublisherAssumption DEF PInv, Types
<1>2. Types(p)'
  BY <1>1 DEF PInv, Types, IsLocals
<1>3. UNCHANGED <<disk, clicks>> /\ Counted /\ Rights
  BY DEF PInv
<1>4. /\ Counted' /\ Rights' /\ (Undecided' <=> Undecided)
      /\ \A l : Underway(l)' <=> Underway(l)
      /\ \A l : Pending(l) => Pending(l)'
  BY <1>1, <1>3, FilesStay
<1>5. PICK l : l = loc[p]
  OBVIOUS
<1>6. Running(p)'
  <2>1. /\ Pending(loc[p])' <=> Pending(l)'
        /\ Underway(loc[p])' <=> Underway(l)'
    BY <1>5 DEF Pending, Underway
  <2>2. Pending(loc[p]) = Pending(l) /\ Underway(loc[p]) = Underway(l)
    BY <1>5
  <2>3. Pending(loc[p]) => Pending(loc[p])'
    BY <1>4, <2>1, <2>2
  <2>4. Underway(loc[p]) => Underway(loc[p])'
    BY <1>4, <2>1, <2>2
  <2> HIDE DEF Pending, Underway
  <2> QED BY <2>3, <2>4 DEF PInv, Running, Loaded
<1>7. Unfinished(p)'
  <2>1. crashes \in Nat
    BY DEF PInv, Types
  <2> HIDE DEF Undecided
  <2> QED BY <1>4, <2>1 DEF PInv, Unfinished, Closes
<1> QED BY <1>2, <1>4, <1>6, <1>7 DEF PInv

LEMMA EditSourceKeeps ==
    ASSUME NEW p, Procs = {p}, PInv(p),
           NEW part \in {"object", "manuscript"}, EditSource(p, part)
    PROVE  PInv(p)'
<1>1. source' \in Packages
  <2>1. source \in Packages /\ source' = [source EXCEPT ![part] = @ + 1]
        /\ source[part] < MaxRevision
    BY DEF EditSource, PInv, Types
  <2>2. CASE part = "object"
    BY <2>1, <2>2, PublisherAssumption DEF Packages, Revisions
  <2>3. CASE part = "manuscript"
    BY <2>1, <2>3, PublisherAssumption DEF Packages, Revisions
  <2> QED BY <2>2, <2>3
<1>2. /\ UNCHANGED <<disk, clicks, pc, loc>>
      /\ challenges' \in 0..MaxChallenges
      /\ approvals' \in approvals..MaxApprovals
      /\ crashes' \in Nat /\ crashes <= crashes'
  BY PublisherAssumption DEF EditSource, PInv, Types
<1> QED BY <1>1, <1>2, QuietKeeps

(* The staged manuscript is exchanged while no command runs.               *)
LEMMA EditStagedKeeps ==
    ASSUME NEW p, Procs = {p}, PInv(p), NEW v \in Revisions, EditStaged(p, v)
    PROVE  PInv(p)'
<1>1. /\ pc[p] = "idle" /\ disk' = [disk EXCEPT !.manuscript = v]
      /\ UNCHANGED <<source, clicks, challenges, approvals, crashes, pc, loc>>
  BY DEF EditStaged
<1>2. disk' \in Disks /\ disk'.state = disk.state /\ disk'.approval = disk.approval
  BY <1>1 DEF PInv, Types, Disks
<1>3. Used' = Used /\ Reported' = Reported
  BY <1>1 DEF Used, Reported
<1>4. Types(p)'
  BY <1>1, <1>2 DEF PInv, Types, IsLocals
<1>5. Counted'
  BY <1>1, <1>2, <1>3 DEF PInv, Counted, OneClickPerApproval, Loaded
<1>6. Rights'
  BY <1>2, <1>3 DEF PInv, Rights, Rightful, Loaded
<1>7. Running(p)'
  BY <1>1 DEF Running
<1>8. Unfinished(p)'
  <2>1. Undecided' => Undecided
    BY <1>2, <1>3 DEF Undecided, Loaded
  <2> HIDE DEF Undecided
  <2> QED BY <1>1, <2>1 DEF PInv, Unfinished
<1> QED BY <1>4, <1>5, <1>6, <1>7, <1>8 DEF PInv
---------------------------------------------------------------------------
(* A file is written.  What stands beside it stays rightful ...            *)
LEMMA WrittenRightly ==
    ASSUME NEW p, Procs = {p}, PInv(p), NEW w, IsWrite(w),
           disk' = [disk EXCEPT ![w.file] = w.value],
           w.file = "state" => Rightful(w.value),
           w.file = "approval" => w.value.nr \in (1..approvals) \ Used,
           UNCHANGED <<clicks, approvals>>
    PROVE  /\ disk' \in Disks /\ Counted' /\ Rights'
           /\ disk'[w.file] = w.value
           /\ \A g \in Files \ {w.file} : disk'[g] = disk[g]
           /\ Used' = Used /\ Reported' = Reported
           /\ w.file = "approval" => \A s : Rightful(s)'
           /\ w.file # "approval" => \A s : Rightful(s) => Rightful(s)'
<1>1. w.file \in Files /\ w.value \in Contents[w.file] \cup {Torn}
  BY DEF IsWrite
<1>2. /\ disk' \in Disks /\ disk'[w.file] = w.value
      /\ \A g \in Files \ {w.file} : disk'[g] = disk[g]
  <2>1. PICK f, v : f = w.file /\ v = w.value
    OBVIOUS
  <2>2. disk \in Disks
    BY DEF PInv, Types
  <2> QED BY <1>1, <2>1, <2>2, DiskWritten
<1>3. Used' = Used /\ Reported' = Reported /\ Reported \subseteq Used
  BY DEF Used, Reported
<1>4. ASSUME w.file = "approval"
      PROVE  \A s : Rightful(s)'
  <2>1. disk'.approval.nr \notin Used' /\ disk'.approval.nr \notin Reported'
    BY <1>2, <1>3, <1>4
  <2> QED BY <2>1 DEF Rightful
<1>5. ASSUME w.file # "approval"
      PROVE  \A s : Rightful(s) => Rightful(s)'
  <2>1. disk'.approval = disk.approval
    BY <1>2, <1>5 DEF Files
  <2> QED BY <1>3, <2>1 DEF Rightful, Loaded
<1>6. Counted'
  <2>1. Loaded("approval")' => disk'.approval.nr \in 1..approvals
    <3>1. CASE w.file = "approval"
      BY <1>2, <3>1
    <3>2. CASE w.file # "approval"
      BY <1>2, <3>2 DEF PInv, Counted, Loaded, Files
    <3> QED BY <3>1, <3>2
  <2> QED BY <1>3, <2>1 DEF PInv, Counted, OneClickPerApproval
<1>7. Rights'
  <2>1. CASE w.file = "state"
    <3>1. disk'.state = w.value /\ Rightful(w.value)'
      BY <1>2, <1>5, <2>1
    <3> QED BY <3>1 DEF Rights, Rightful
  <2>2. CASE w.file = "approval"
    BY <1>4, <2>2 DEF Rights, Rightful
  <2>3. CASE w.file \notin {"state", "approval"}
    <3>1. disk'.state = disk.state /\ disk'.approval = disk.approval
      BY <1>2, <2>3 DEF Files
    <3> QED BY <1>3, <3>1 DEF PInv, Rights, Rightful, Loaded
  <2> QED BY <2>1, <2>2, <2>3
<1> QED BY <1>2, <1>3, <1>4, <1>5, <1>6, <1>7

(* ... and the command ends, writes the next file, or goes on.             *)
LEMMA WriteFileKeeps ==
    ASSUME NEW p, Procs = {p}, PInv(p), WriteFile(p)
    PROVE  PInv(p)'
<1>1. pc[p] = "write" /\ Pending(loc[p])
  BY DEF WriteFile, PInv, Running
<1>2. PICK w, x, n : w = loc[p].todo[1] /\ x = loc[p].todo[2] /\ n = loc[p].next
  OBVIOUS
<1>3. /\ \/ loc[p].todo = <<w>>
         \/ /\ loc[p].todo = <<w, x>> /\ n = "idle"
            /\ IsWrite(x) /\ x.file \in {"state", "result"}
            /\ x.file = "state" =>
                  /\ w.file = "approval" \/ Rightful(x.value)
                  /\ x.value.status # "SUBMITTING"
      /\ IsWrite(w)
      /\ w.file = "state" =>
            /\ Rightful(w.value)
            /\ w.value.status = "SUBMITTING" => n = "upload"
      /\ w.file = "approval" => w.value.nr \in (1..approvals) \ Used
      /\ n \in {"idle", "staged", "upload"}
      /\ n = "staged" => loc[p].object \in Revisions
      /\ n = "upload" => w.file = "state" /\ w.value.status = "SUBMITTING"
  <2> HIDE DEF IsWrite, Rightful, Used
  <2> QED BY <1>1, <1>2 DEF Pending
<1>4. n = "upload" => Underway(loc[p])
  BY <1>1, <1>2 DEF PInv, Running
<1>5. Head(loc[p].todo) = w
  BY <1>3, Lists
<1>6. /\ disk' = [disk EXCEPT ![w.file] = w.value]
      /\ UNCHANGED <<source, live, challenges, approvals, clicks, crashes>>
  BY <1>5 DEF WriteFile
<1>7. /\ disk' \in Disks /\ Counted' /\ Rights'
      /\ disk'[w.file] = w.value
      /\ \A g \in Files \ {w.file} : disk'[g] = disk[g]
      /\ Used' = Used /\ Reported' = Reported
      /\ w.file = "approval" => \A s : Rightful(s)'
      /\ w.file # "approval" => \A s : Rightful(s) => Rightful(s)'
  <2>1. /\ w.file = "state" => Rightful(w.value)
        /\ w.file = "approval" => w.value.nr \in (1..approvals) \ Used
        /\ UNCHANGED <<clicks, approvals>>
        /\ IsWrite(w)
    BY <1>3, <1>6
  <2> QED BY <1>6, <2>1, WrittenRightly
<1>8. Undecided' => crashes' > 0
  <2>1. SUFFICES ASSUME Undecided'
                 PROVE  crashes > 0
    BY <1>6
  <2>2. CASE w.file = "state"
    <3>1. disk'.state = w.value /\ disk'.approval = disk.approval
      BY <1>7, <2>2 DEF Files
    <3>2. Underway(loc[p])
      BY <1>3, <1>4, <2>1, <2>2, <3>1 DEF Undecided
    <3> QED BY <1>7, <2>1, <3>1, <3>2 DEF Undecided, Underway, Used, Reported
  <2>3. CASE w.file = "approval"
    <3>1. disk'.approval.nr \notin Used
      BY <1>3, <1>7, <2>3
    <3> QED BY <1>7, <2>1, <3>1 DEF Undecided, Used, Reported
  <2>4. CASE w.file \notin {"state", "approval"}
    <3>1. disk'.state = disk.state /\ disk'.approval = disk.approval
      BY <1>7, <2>4 DEF Files
    <3>2. Undecided
      BY <1>7, <2>1, <3>1 DEF Undecided, Loaded
    <3>3. ~Closes(loc[p])
      BY <1>2, <2>4 DEF Closes
    <3> QED BY <1>1, <3>2, <3>3 DEF PInv, Unfinished
  <2> QED BY <2>2, <2>3, <2>4
<1>9. Unfinished(p)'
  BY <1>8 DEF Unfinished
<1>10. CASE loc[p].todo = <<w>> /\ n = "idle"
  <2>1. Tail(loc[p].todo) = << >>
    BY <1>10, Lists
  <2>2. Ends(p)
    BY <1>2, <1>10, <2>1 DEF WriteFile
  <2>3. /\ pc'[p] = "idle" /\ pc' \in [Procs -> Statements]
        /\ \E S : loc' \in [Procs -> S]
        /\ IsLocals(loc'[p])
    BY <2>2, Ended DEF PInv
  <2>4. Types(p)'
    BY <1>6, <1>7, <2>3 DEF PInv, Types, IsLocals
  <2>5. Running(p)'
    BY <2>3 DEF Running
  <2> QED BY <1>7, <1>9, <2>4, <2>5 DEF PInv
<1>11. CASE loc[p].todo = <<w>> /\ n # "idle"
  <2>1. Tail(loc[p].todo) = << >>
    BY <1>11, Lists
  <2>2. PICK r : r = [loc[p] EXCEPT !.todo = << >>]
    OBVIOUS
  <2>3. loc' = [loc EXCEPT ![p] = r] /\ pc' = [pc EXCEPT ![p] = n]
    BY <1>2, <1>11, <2>1, <2>2 DEF WriteFile
  <2>4. /\ IsLocals(r) /\ r.object = loc[p].object /\ r.state = loc[p].state
        /\ r.approval = loc[p].approval
    BY <2>2 DEF PInv, Types, IsLocals
  <2>5. n \in Statements
    BY <1>3, <1>11 DEF Statements
  <2>6. /\ pc'[p] = n /\ pc' \in [Procs -> Statements]
        /\ \E S : loc' \in [Procs -> S]
        /\ loc'[p] = r /\ IsLocals(loc'[p])
    BY <2>3, <2>4, <2>5, Gone DEF PInv
  <2>7. Types(p)'
    BY <1>6, <1>7, <2>6 DEF PInv, Types, IsLocals
  <2>8. Running(p)'
    <3>1. CASE n = "staged"
      BY <1>3, <2>4, <2>6, <3>1 DEF Running
    <3>2. CASE n = "upload"
      <4>1. /\ w.file = "state" /\ w.value.status = "SUBMITTING"
            /\ Underway(loc[p])
        BY <1>3, <1>4, <3>2
      <4>2. /\ disk'.state = w.value /\ disk'.approval = disk.approval
            /\ disk'.manuscript = disk.manuscript
        BY <1>7, <4>1 DEF Files
      <4>3. Underway(loc[p])'
        BY <1>7, <2>4, <2>6, <4>1, <4>2 DEF Underway, Loaded
      <4>4. loc'[p].state \in States
        BY <2>4, <2>6, <4>1 DEF Underway
      <4> QED BY <2>6, <3>2, <4>1, <4>2, <4>3, <4>4 DEF Running
    <3> QED BY <1>3, <1>11, <3>1, <3>2
  <2> QED BY <1>7, <1>9, <2>7, <2>8 DEF PInv
<1>12. CASE loc[p].todo = <<w, x>> /\ loc[p].todo # <<w>>
  <2>1. Tail(loc[p].todo) = <<x>> /\ <<x>> # << >>
    BY <1>12, Lists
  <2>2. PICK r : r = [loc[p] EXCEPT !.todo = <<x>>]
    OBVIOUS
  <2>3. loc' = [loc EXCEPT ![p] = r] /\ pc' = [pc EXCEPT ![p] = "write"]
    BY <1>2, <1>12, <2>1, <2>2 DEF WriteFile
  <2>4. IsLocals(r) /\ r.todo = <<x>> /\ r.next = "idle"
    BY <1>2, <1>3, <1>12, <2>2 DEF PInv, Types, IsLocals
  <2>5. "write" \in Statements
    BY DEF Statements
  <2>6. /\ pc'[p] = "write" /\ pc' \in [Procs -> Statements]
        /\ \E S : loc' \in [Procs -> S]
        /\ loc'[p] = r /\ IsLocals(loc'[p])
    BY <2>3, <2>4, <2>5, Gone DEF PInv
  <2>7. Types(p)'
    BY <1>6, <1>7, <2>6 DEF PInv, Types, IsLocals
  <2>8. Pending(r)'
    <3>1. r.todo[1] = x /\ r.todo = <<r.todo[1]>>
      BY <2>4
    <3>2. /\ IsWrite(x)' /\ x.file \in {"state", "result"}
          /\ x.file = "state" => Rightful(x.value)' /\ x.value.status # "SUBMITTING"
      BY <1>3, <1>7, <1>12 DEF IsWrite
    <3> HIDE DEF IsWrite, Rightful, Used
    <3> QED BY <2>4, <3>1, <3>2, Zenon DEF Pending
  <2>9. Running(p)'
    <3>1. Pending(loc[p])' <=> Pending(r)'
      BY <2>6 DEF Pending
    <3> QED BY <2>4, <2>6, <2>8, <3>1 DEF Running
  <2> QED BY <1>7, <1>9, <2>7, <2>9 DEF PInv
<1> QED BY <1>3, <1>10, <1>11, <1>12

(* Every step of a command keeps the invariant.                            *)
LEMMA CommandKeeps ==
    ASSUME NEW p, Procs = {p}, PInv(p), Command(p)
    PROVE  PInv(p)'
BY WriteFileKeeps, EditSourceKeeps, EditStagedKeeps, PrepareStartKeeps,
   PrepareProjectKeeps, DyingKeeps, RequestApprovalKeeps, ApproveKeeps,
   PublishStartKeeps, SomeSavesKeep, QuitKeeps, UploadKeeps, ClickKeeps,
   ClickRaisesKeeps, OutcomeKeeps, ReconcileKeeps
   DEF Command, Publish
---------------------------------------------------------------------------
LEMMA PublisherInit ==
    ASSUME NEW p, Procs = {p}, CeremonyInit
    PROVE  PInv(p)
<1>1. /\ source = [object |-> 1, manuscript |-> 1]
      /\ disk = [manuscript |-> None, projection |-> None, state |-> None,
                 challenge |-> None, approval |-> None, result |-> None]
      /\ challenges = 0 /\ approvals = 0 /\ clicks = << >> /\ crashes = 0
      /\ pc = [q \in Procs |-> "idle"] /\ loc = [q \in Procs |-> NoLocals]
  BY DEF CeremonyInit, Init
<1>2. /\ ~Loaded("state") /\ ~Loaded("approval")
      /\ Used = {} /\ Reported = {} /\ pc[p] = "idle"
  <2>1. Used = {} /\ Reported = {}
    BY <1>1 DEF Used, Reported
  <2> QED BY <1>1, <2>1 DEF Loaded
<1>3. Types(p)
  <2>1. source \in Packages
    BY <1>1, PublisherAssumption DEF Packages, Revisions
  <2>2. disk \in Disks
    BY <1>1 DEF Disks
  <2>3. pc \in [Procs -> Statements] /\ loc \in [Procs -> {NoLocals}]
        /\ loc[p] = NoLocals
    BY <1>1 DEF Statements
  <2>4. IsLocals(loc[p])
    BY <2>3 DEF IsLocals, NoLocals
  <2>5. challenges \in 0..MaxChallenges /\ approvals \in 0..MaxApprovals
        /\ crashes \in Nat
    BY <1>1, PublisherAssumption
  <2>6. clicks \in Seq({})
    BY <1>1
  <2> QED BY <2>1, <2>2, <2>3, <2>4, <2>5, <2>6 DEF Types
<1>4. Counted /\ Rights
  BY <1>1, <1>2 DEF Counted, Rights, OneClickPerApproval
<1>5. Running(p) /\ Unfinished(p)
  BY <1>2 DEF Running, Unfinished, Undecided
<1> QED BY <1>3, <1>4, <1>5 DEF PInv

(* What the ceremonies do to the sandbox is a command of the publisher, or *)
(* nothing at all.                                                         *)
LEMMA CeremonySteps ==
    ASSUME NEW p, Procs = {p}, [CeremonyNext]_ceremonyVars
    PROVE  \/ Command(p)
           \/ /\ UNCHANGED <<source, disk, clicks, challenges, pc, loc>>
              /\ \/ UNCHANGED <<approvals, crashes>>
                 \/ /\ approvals < MaxApprovals /\ approvals' = approvals + 1
                    /\ UNCHANGED crashes
                 \/ crashes' = crashes + 1 /\ UNCHANGED approvals
<1>1. CASE UNCHANGED ceremonyVars
  BY <1>1 DEF ceremonyVars, vars
<1>2. CASE Publishing(p)
  BY <1>2 DEF Publishing
<1>3. CASE SomeExpire
  BY <1>3 DEF SomeExpire, Expire
<1>4. CASE Person
  BY <1>4 DEF Person, InitKey, InitRegistry, Withdraw, Describe, Sign,
     WriteSigned, BundleVerify, BundleWrite, BundleRaises, HandDies, vars
<1>5. CASE WriteIntent
  BY <1>5 DEF WriteIntent, vars
<1>6. CASE Sealing(p)
  BY <1>6 DEF Sealing, SealStart, SealRequest, SealApprove, SealEvidence,
     SealRaises, Command, vars
<1> QED BY <1>1, <1>2, <1>3, <1>4, <1>5, <1>6 DEF CeremonyNext

LEMMA StepKeeps ==
    ASSUME NEW p, Procs = {p}, PInv(p), [CeremonyNext]_ceremonyVars
    PROVE  PInv(p)'
<1>1. CASE Command(p)
  BY <1>1, CommandKeeps
<1>2. CASE /\ UNCHANGED <<source, disk, clicks, challenges, pc, loc>>
           /\ \/ UNCHANGED <<approvals, crashes>>
              \/ /\ approvals < MaxApprovals /\ approvals' = approvals + 1
                 /\ UNCHANGED crashes
              \/ crashes' = crashes + 1 /\ UNCHANGED approvals
  <2>1. /\ source' \in Packages
        /\ challenges' \in 0..MaxChallenges
        /\ approvals' \in approvals..MaxApprovals
        /\ crashes' \in Nat /\ crashes <= crashes'
    BY <1>2, PublisherAssumption DEF PInv, Types
  <2> QED BY <1>2, <2>1, QuietKeeps
<1> QED BY <1>1, <1>2, CeremonySteps

LEMMA PublisherInvariant ==
    ASSUME NEW p, Procs = {p}
    PROVE  CeremonySpec => []PInv(p)
<1>1. CeremonyInit => PInv(p)
  BY PublisherInit
<1>2. PInv(p) /\ [CeremonyNext]_ceremonyVars => PInv(p)'
  BY StepKeeps
<1> QED BY <1>1, <1>2, PTL DEF CeremonySpec

(* publish: with one command of the sandbox at a time, a confirmation is   *)
(* spent by the first submission made with it, whatever raises, whatever   *)
(* the operators do in between and wherever a command is killed.           *)
THEOREM ConfirmationsAreSpent ==
    ASSUME NEW p, Procs = {p}
    PROVE  CeremonySpec => []OneClickPerApproval
<1>1. PInv(p) => OneClickPerApproval
  BY DEF PInv, Counted
<1> QED BY <1>1, PublisherInvariant, PTL

(* publish: a submission click() reported is recorded as submitted,        *)
(* reconciled or held, or its command was killed.                          *)
THEOREM ReportedIsRecorded ==
    ASSUME NEW p, Procs = {p}
    PROVE  CeremonySpec => []PerformedIsHeld
<1>1. PInv(p) => PerformedIsHeld
  <2> SUFFICES ASSUME PInv(p), Spent({TRUE})
               PROVE  \/ disk.state.status \in Closed
                      \/ crashes > 0 /\ disk.state.status = "SUBMITTING"
    BY DEF PerformedIsHeld, Closed
  <2>1. pc[p] = "idle" /\ Loaded("state") /\ Loaded("approval")
        /\ disk.state.approval /\ disk.approval.nr \in Reported
    BY DEF Spent, Reported
  <2>2. disk.state.status \in Closed \cup {"SUBMITTING"}
    BY <2>1 DEF PInv, Rights, Rightful
  <2>3. disk.state.status = "SUBMITTING" => crashes > 0
    BY <2>1 DEF PInv, Unfinished, Undecided
  <2> QED BY <2>2, <2>3
<1> QED BY <1>1, PublisherInvariant, PTL

(* Submissions are made by Submit Article alone.                           *)
LEMMA Submissions ==
    ASSUME NEW p, Procs = {p}, [CeremonyNext]_ceremonyVars
    PROVE  \/ UNCHANGED clicks
           \/ /\ pc[p] = "click"
              /\ \E b \in BOOLEAN : clicks' = Append(clicks, Submission(p, b))
<1>1. CASE Command(p)
  BY <1>1 DEF Command, Publish, WriteFile, EditSource, EditStaged,
     PrepareStart, PrepareProject, PrepareFails, RequestApproval, Approve,
     PublishStart, Login, LoginFails, Upload, TransportFails,
     TransportIdle, Click, ClickRaises, Confirmed, Unconfirmed,
     ConfirmFails, Reconcile, Crash
<1> QED BY <1>1, CeremonySteps

(* publish: what reaches arXiv is the object and the manuscript of the     *)
(* confirmation on disk.                                                   *)
THEOREM OnlyTheApprovedIsSubmitted ==
    ASSUME NEW p, Procs = {p}
    PROVE  CeremonySpec => ClickedWasApproved
<1> DEFINE Exact == \A i \in DOMAIN clicks' \ DOMAIN clicks :
                      /\ disk.approval.package.object = clicks'[i].object
                      /\ disk.approval.package.manuscript = clicks'[i].manuscript
<1>1. ASSUME PInv(p), [CeremonyNext]_ceremonyVars
      PROVE  [Exact]_vars
  <2>1. CASE UNCHANGED clicks
    BY <2>1
  <2>2. ASSUME NEW b, pc[p] = "click",
               clicks' = Append(clicks, Submission(p, b))
        PROVE  Exact
    <3>1. PICK c : c = Submission(p, b)
      OBVIOUS
    <3>2. /\ c.object = loc[p].object /\ c.manuscript = loc[p].manuscript
      BY <3>1 DEF Submission
    <3>3. /\ disk.approval.package.object = loc[p].object
          /\ disk.approval.package.manuscript = loc[p].manuscript
      BY <1>1, <2>2 DEF PInv, Running, Underway
    <3>4. PICK S : clicks \in Seq(S)
      BY <1>1 DEF PInv, Types
    <3>5. \A i \in DOMAIN clicks' \ DOMAIN clicks : clicks'[i] = c
      BY <2>2, <3>1, <3>4
    <3> QED BY <3>2, <3>3, <3>5
  <2>3. \/ UNCHANGED clicks
        \/ /\ pc[p] = "click"
           /\ \E b \in BOOLEAN : clicks' = Append(clicks, Submission(p, b))
    BY <1>1, Submissions
  <2> QED BY <2>1, <2>2, <2>3
<1>2. PInv(p) /\ [CeremonyNext]_ceremonyVars => [Exact]_vars
  BY <1>1
<1> QED BY <1>2, PublisherInvariant, PTL DEF CeremonySpec, ClickedWasApproved
---------------------------------------------------------------------------
(* The person's ceremony: whatever is torn or reissued, what is signed and *)
(* what is bundled was confirmed.                                          *)
LEMMA SigningInit == CeremonyInit => Signing
BY DEF CeremonyInit, Idle, Signing, PackIsConfirmed

LEMMA SigningSteps ==
    ASSUME Signing, [CeremonyNext]_ceremonyVars
    PROVE  Signing'
<1> USE DEF Signing, PackIsConfirmed, Confirmation
<1>1. CASE UNCHANGED personVars
  BY <1>1 DEF personVars
<1>2. ASSUME NEW a \in Authorities, InitKey(a)
      PROVE  Signing'
  BY <1>2 DEF InitKey
<1>3. ASSUME NEW a \in Authorities, Withdraw(a)
      PROVE  Signing'
  BY <1>3 DEF Withdraw
<1>4. ASSUME NEW a \in Authorities, BundleVerify(a)
      PROVE  Signing'
  BY <1>4 DEF BundleVerify, Verified
<1>5. ASSUME NEW a \in Authorities, NEW b \in Authorities, Sign(a, b)
      PROVE  Signing'
  <2>1. /\ Confirms(disk.challenge)
        /\ confirmed' = confirmed \cup
              {[challenge |-> seen, package |-> disk.challenge.package,
                key |-> key[a]]}
        /\ hand' = [at |-> "sign", approval |->
                     [challenge |-> disk.challenge.id,
                      package |-> disk.challenge.package,
                      authority |-> b, key |-> key[a]]]
        /\ UNCHANGED <<signed, pack>>
    BY <1>5 DEF Sign
  <2> QED BY <2>1 DEF Confirms
<1>6. CASE InitRegistry
  BY <1>6 DEF InitRegistry, Idle
<1>7. CASE Describe
  BY <1>7 DEF Describe
<1>8. CASE WriteSigned
  BY <1>8 DEF WriteSigned, Idle
<1>9. CASE BundleWrite
  BY <1>9 DEF BundleWrite, Idle
<1>10. CASE BundleRaises
  BY <1>10 DEF BundleRaises, Idle
<1>11. CASE HandDies
  <2>1. /\ hand' = Idle /\ signed' \in {signed, Torn} /\ pack' \in {pack, Torn}
        /\ UNCHANGED confirmed
    BY <1>11 DEF HandDies
  <2> QED BY <2>1 DEF Idle
<1>12. CASE UNCHANGED ceremonyVars
  BY <1>1, <1>12 DEF ceremonyVars
<1>13. CASE \E p \in Procs : Publishing(p)
  BY <1>1, <1>13 DEF Publishing
<1>14. CASE \E p \in Procs : Sealing(p)
  BY <1>1, <1>14 DEF Sealing, SealStart, SealRequest, SealApprove,
     SealEvidence, SealRaises
<1>15. CASE WriteIntent
  BY <1>1, <1>15 DEF WriteIntent
<1> QED BY <1>1, <1>2, <1>3, <1>4, <1>5, <1>6, <1>7, <1>8, <1>9, <1>10,
           <1>11, <1>12, <1>13, <1>14, <1>15 DEF CeremonyNext, Person

(* build_evidence_pack: a pack says a package was approved only when the   *)
(* person, shown a challenge for that package, signed it with the key of   *)
(* the authority the pack names.  Any number of commands may run.          *)
THEOREM PacksAreConfirmed == CeremonySpec => []PackIsConfirmed
<1>1. Signing /\ [CeremonyNext]_ceremonyVars => Signing'
  BY SigningSteps
<1>2. Signing => PackIsConfirmed
  BY DEF Signing
<1> QED BY <1>1, <1>2, SigningInit, PTL DEF CeremonySpec
---------------------------------------------------------------------------
(* Submissions stay where they are in the list of them.                    *)
LEMMA ClicksStay ==
    ASSUME NEW p, Procs = {p}, PInv(p), [CeremonyNext]_ceremonyVars
    PROVE  /\ Len(clicks) \in Nat /\ Len(clicks') \in Nat
           /\ Len(clicks) <= Len(clicks')
           /\ \A i \in 1..Len(clicks) : clicks'[i] = clicks[i]
<1>1. PICK S : clicks \in Seq(S)
  BY DEF PInv, Types
<1>2. CASE UNCHANGED clicks
  BY <1>1, <1>2
<1>3. ASSUME NEW b, clicks' = Append(clicks, Submission(p, b))
      PROVE  /\ Len(clicks) \in Nat /\ Len(clicks') \in Nat
             /\ Len(clicks) <= Len(clicks')
             /\ \A i \in 1..Len(clicks) : clicks'[i] = clicks[i]
  <2>1. PICK c : c = Submission(p, b)
    OBVIOUS
  <2> QED BY <1>1, <1>3, <2>1
<1> QED BY <1>2, <1>3, Submissions

(* While the seal waits for its approval to be written, only that is       *)
(* written: the state of the intended package.                             *)
LEMMA SealedFiles ==
    ASSUME NEW p, Procs = {p}, PInv(p), WriteFile(p),
           loc[p].next = "idle",
           \A i \in DOMAIN loc[p].todo : loc[p].todo[i].file = "state" =>
               loc[p].todo[i].value.package = intent,
           Loaded("state") => disk.state.package = intent
    PROVE  /\ Loaded("state")' => disk'.state.package = intent
           /\ pc'[p] \in {"idle", "write"}
           /\ pc'[p] = "write" =>
                 /\ loc'[p].next = "idle"
                 /\ \A i \in DOMAIN loc'[p].todo :
                       loc'[p].todo[i].file = "state" =>
                           loc'[p].todo[i].value.package = intent
<1>1. pc[p] = "write" /\ Pending(loc[p])
  BY DEF WriteFile, PInv, Running
<1>2. PICK w, x : w = loc[p].todo[1] /\ x = loc[p].todo[2]
  OBVIOUS
<1>3. loc[p].todo \in {<<w>>, <<w, x>>} /\ IsWrite(w)
  BY <1>1, <1>2 DEF Pending
<1>4. Head(loc[p].todo) = w
  BY <1>3, Lists
<1>5. disk' = [disk EXCEPT ![w.file] = w.value]
  BY <1>4 DEF WriteFile
<1>6. w.file = "state" => w.value.package = intent
  BY <1>2, <1>3
<1>7. Loaded("state")' => disk'.state.package = intent
  <2>1. disk \in Disks /\ w.file \in Files
        /\ w.value \in Contents[w.file] \cup {Torn}
    BY <1>3 DEF PInv, Types, IsWrite
  <2>2. PICK f, v : f = w.file /\ v = w.value
    OBVIOUS
  <2>3. /\ disk'[w.file] = w.value
        /\ \A g \in Files \ {w.file} : disk'[g] = disk[g]
    BY <1>5, <2>1, <2>2, DiskWritten
  <2> QED BY <1>6, <2>3 DEF Loaded, Files
<1>8. CASE loc[p].todo = <<w>>
  <2>1. Tail(loc[p].todo) = << >>
    BY <1>8, Lists
  <2>2. Ends(p)
    BY <2>1 DEF WriteFile
  <2>3. pc'[p] = "idle"
    BY <2>2, Ended DEF PInv
  <2> QED BY <1>7, <2>3
<1>9. CASE loc[p].todo = <<w, x>>
  <2>1. Tail(loc[p].todo) = <<x>> /\ <<x>> # << >>
    BY <1>9, Lists
  <2>2. PICK r : r = [loc[p] EXCEPT !.todo = <<x>>]
    OBVIOUS
  <2>3. loc' = [loc EXCEPT ![p] = r] /\ pc' = [pc EXCEPT ![p] = "write"]
    BY <2>1, <2>2 DEF WriteFile
  <2>4. IsLocals(r) /\ r.todo = <<x>> /\ r.next = "idle"
    BY <2>2 DEF PInv, Types, IsLocals
  <2>5. "write" \in Statements
    BY DEF Statements
  <2>6. pc'[p] = "write" /\ loc'[p] = r
    BY <2>3, <2>4, <2>5, Gone DEF PInv
  <2>7. x.file = "state" => x.value.package = intent
    BY <1>2, <1>9
  <2>8. DOMAIN r.todo = {1} /\ r.todo[1] = x
    BY <2>4
  <2> QED BY <1>7, <2>4, <2>6, <2>7, <2>8
<1> QED BY <1>3, <1>8, <1>9

LEMMA SealApproves ==
    ASSUME NEW p, Procs = {p}, PInv(p), SealApprove(p)
    PROVE  Waiting(p)'
<1>1. /\ Approve(p) /\ Approvable /\ UNCHANGED intent
  BY DEF SealApprove
<1>2. disk.state \in States /\ disk.state.package = intent /\ UNCHANGED disk
  <2>1. disk.state \in States /\ disk.state.package = disk.challenge.package
    BY <1>1 DEF Approve, Loaded, PInv, Types, Disks
  <2> QED BY <1>1, <2>1 DEF Approve, Approvable, IsIntended
<1>3. PICK s : s = [disk.state EXCEPT !.status = "APPROVED", !.approval = TRUE]
  OBVIOUS
<1>4. s.package = intent
  BY <1>2, <1>3 DEF States
<1>5. PICK a : a = [nr |-> approvals + 1, challenge |-> disk.challenge.id,
                    package |-> disk.state.package]
  OBVIOUS
<1>6. PICK w, x : w = Written("approval", a) /\ x = Written("state", s)
  OBVIOUS
<1>7. w.file = "approval" /\ x.file = "state" /\ x.value = s
  BY <1>6 DEF Written
<1>8. PICK r : r = [loc[p] EXCEPT !.todo = <<w, x>>, !.next = "idle"]
  OBVIOUS
<1>9. /\ pc' = [pc EXCEPT ![p] = "write"]
      /\ loc' = [loc EXCEPT ![p] = r]
  BY <1>1, <1>3, <1>5, <1>6, <1>8 DEF Approve, Writes
<1>10. IsLocals(r) /\ r.todo = <<w, x>> /\ r.next = "idle"
  BY <1>8 DEF PInv, Types, IsLocals
<1>11. pc'[p] = "write" /\ loc'[p] = r
  BY <1>9, <1>10, Gone DEF PInv, Statements
<1>12. DOMAIN r.todo = {1, 2} /\ r.todo[1] = w /\ r.todo[2] = x
  BY <1>10
<1>13. \A i \in DOMAIN r.todo : r.todo[i].file = "state" =>
            r.todo[i].value.package = intent
  BY <1>4, <1>7, <1>12
<1> QED BY <1>1, <1>2, <1>10, <1>11, <1>13 DEF Waiting, Loaded

(* The publisher's commands go on: only the approval being written.        *)
LEMMA SealWaits ==
    ASSUME NEW p, Procs = {p}, PInv(p), Publishing(p), Waiting(p),
           seal = "approve", seal' = "approve"
    PROVE  Waiting(p)'
<1>1. /\ Command(p) /\ UNCHANGED intent
      /\ pc[p] # "idle" \/ (pc' = pc /\ loc' = loc)
      /\ UNCHANGED crashes
  BY DEF Publishing
<1>2. CASE pc[p] = "write"
  <2>1. WriteFile(p)
    <3>1. crashes \in Nat
      BY DEF PInv, Types
    <3> QED BY <1>1, <1>2, <3>1 DEF Command, Publish, EditSource, EditStaged,
         PrepareStart, PrepareProject, PrepareFails, RequestApproval, Approve,
         PublishStart, Login, LoginFails, Upload, TransportFails,
         TransportIdle, Click, ClickRaises, Confirmed, Unconfirmed,
         ConfirmFails, Reconcile, Crash
  <2>2. /\ Loaded("state")' => disk'.state.package = intent
        /\ pc'[p] \in {"idle", "write"}
        /\ pc'[p] = "write" =>
              /\ loc'[p].next = "idle"
              /\ \A i \in DOMAIN loc'[p].todo :
                    loc'[p].todo[i].file = "state" =>
                        loc'[p].todo[i].value.package = intent
    BY <1>2, <2>1, SealedFiles DEF Waiting
  <2> QED BY <1>1, <2>2 DEF Waiting
<1>3. CASE pc[p] = "idle"
  <2>1. UNCHANGED <<pc, loc>>
    BY <1>1, <1>3
  <2>2. p \in DOMAIN pc
    BY DEF PInv, Types
  <2>3. disk' = disk \/ \E v \in Revisions : disk' = [disk EXCEPT !.manuscript = v]
    <3>1. \/ WriteFile(p) \/ (\E part \in {"object", "manuscript"} : EditSource(p, part))
          \/ (\E v \in Revisions : EditStaged(p, v)) \/ PrepareFails(p) \/ Crash(p)
          \/ disk' = disk
      BY <1>1 DEF Command, Publish, PrepareStart, PrepareProject,
         RequestApproval, Approve, PublishStart, Login, LoginFails, Upload,
         TransportFails, TransportIdle, Click, ClickRaises, Confirmed,
         Unconfirmed, ConfirmFails, Reconcile
    <3> QED BY <1>3, <3>1 DEF WriteFile, EditSource, EditStaged, PrepareFails,
         Crash
  <2>4. disk'.state = disk.state
    BY <2>3 DEF PInv, Types, Disks
  <2> QED BY <1>1, <1>3, <2>1, <2>4 DEF Waiting, Loaded
<1> QED BY <1>2, <1>3 DEF Waiting

(* The summary is written last, of an approval nothing was submitted with. *)
LEMMA EvidenceIsIntended ==
    ASSUME NEW p, Procs = {p}, PInv(p), Sealed(p), SealEvidence(p)
    PROVE  Sealed(p)'
<1>1. /\ seal = "approve" /\ pc[p] = "idle" /\ Loaded("state") /\ ApprovalValid
      /\ evidence' = [state |-> disk.state, approval |-> disk.approval,
                      challenge |-> disk.challenge, submissions |-> Len(clicks)]
      /\ seal' = "off"
      /\ UNCHANGED <<clicks, intent>>
  BY DEF SealEvidence, Sealable, vars
<1>2. /\ evidence'.state = disk.state /\ evidence'.approval = disk.approval
      /\ evidence'.challenge = disk.challenge
      /\ evidence'.submissions = Len(clicks)
  BY <1>1
<1>3. /\ disk.state.package = intent
      /\ disk.approval.package = disk.state.package
      /\ disk.approval.challenge = disk.challenge.id
      /\ Loaded("approval") /\ disk.state.status = "APPROVED"
  BY <1>1 DEF Sealed, Waiting, ApprovalValid
<1>4. disk.approval.nr \notin Used
  BY <1>1, <1>3 DEF PInv, Rights, Rightful
<1>5. PICK S : clicks \in Seq(S)
  BY DEF PInv, Types
<1>6. \A i \in 1..Len(clicks) : clicks[i].approval # disk.approval.nr
  BY <1>4, <1>5 DEF Used
<1>7. intent # None
  BY <1>1 DEF Sealed
<1>8. SealedIsIntended'
  BY <1>1, <1>2, <1>3, <1>6 DEF SealedIsIntended
<1>9. evidence'.submissions \in 0..Len(clicks')
  BY <1>1, <1>2, <1>5
<1> QED BY <1>1, <1>7, <1>8, <1>9 DEF Sealed

(* The evidence stays true of the submissions made later.                  *)
LEMMA EvidenceStays ==
    ASSUME NEW p, Procs = {p}, PInv(p), Sealed(p),
           [CeremonyNext]_ceremonyVars,
           UNCHANGED <<evidence, intent>>
    PROVE  /\ SealedIsIntended'
           /\ evidence' # None => evidence'.submissions \in 0..Len(clicks')
<1>1. /\ Len(clicks) \in Nat /\ Len(clicks') \in Nat
      /\ Len(clicks) <= Len(clicks')
      /\ \A i \in 1..Len(clicks) : clicks'[i] = clicks[i]
  BY ClicksStay
<1>2. CASE evidence = None
  BY <1>2 DEF SealedIsIntended
<1>3. CASE evidence # None
  <2>1. PICK n : n = evidence.submissions
    OBVIOUS
  <2>2. n \in 0..Len(clicks) /\ \A i \in 1..n : clicks[i].approval # evidence.approval.nr
    BY <1>3, <2>1 DEF Sealed, SealedIsIntended
  <2>3. \A i \in 1..n : clicks'[i].approval # evidence.approval.nr
    BY <1>1, <2>2
  <2> QED BY <1>1, <1>3, <2>1, <2>2, <2>3 DEF Sealed, SealedIsIntended
<1> QED BY <1>2, <1>3

LEMMA SealedSteps ==
    ASSUME NEW p, Procs = {p}, PInv(p), Sealed(p),
           [CeremonyNext]_ceremonyVars
    PROVE  Sealed(p)'
<1>1. CASE SealEvidence(p)
  BY <1>1, EvidenceIsIntended
<1>2. CASE WriteIntent
  <2>1. seal' = "off" /\ evidence' = None
    BY <1>2 DEF WriteIntent, Sealed
  <2> QED BY <2>1 DEF Sealed, SealedIsIntended
<1>3. ASSUME UNCHANGED <<evidence, intent>>,
             seal' # "off" => intent # None,
             seal' = "approve" => Waiting(p)'
      PROVE  Sealed(p)'
  BY <1>3, EvidenceStays DEF Sealed
<1>4. CASE Publishing(p)
  <2>1. /\ UNCHANGED <<evidence, intent>> /\ seal' \in {"off", seal}
    BY <1>4 DEF Publishing
  <2>2. seal' = "approve" => Waiting(p)'
    BY <1>4, <2>1, SealWaits DEF Sealed
  <2> QED BY <1>3, <2>1, <2>2 DEF Sealed
<1>5. CASE SealStart(p) \/ SealRequest(p) \/ SealRaises(p)
  <2>1. /\ UNCHANGED <<evidence, intent>> /\ seal' # "approve"
        /\ seal' # "off" => intent # None
    BY <1>5 DEF SealStart, SealRequest, SealRaises, Sealed
  <2> QED BY <1>3, <2>1
<1>6. CASE SealApprove(p)
  <2>1. UNCHANGED <<evidence, intent>> /\ intent # None
    BY <1>6 DEF SealApprove, Sealed
  <2> QED BY <1>3, <1>6, <2>1, SealApproves
<1>7. CASE UNCHANGED <<disk, pc, loc, sealVars>>
  <2>1. UNCHANGED <<evidence, intent, seal>>
    BY <1>7 DEF sealVars
  <2>2. Waiting(p) => Waiting(p)'
    BY <1>7, <2>1 DEF Waiting, Loaded
  <2> QED BY <1>3, <2>1, <2>2 DEF Sealed
<1>8. ASSUME UNCHANGED ceremonyVars \/ Person \/ (SomeExpire /\ UNCHANGED sealVars)
      PROVE  UNCHANGED <<disk, pc, loc, sealVars>>
  <2>1. CASE UNCHANGED ceremonyVars
    BY <2>1 DEF ceremonyVars, vars
  <2>2. CASE Person
    BY <2>2 DEF Person, InitKey, InitRegistry, Withdraw, Describe, Sign,
       WriteSigned, BundleVerify, BundleWrite, BundleRaises, HandDies, vars
  <2>3. CASE SomeExpire /\ UNCHANGED sealVars
    BY <2>3 DEF SomeExpire, Expire
  <2> QED BY <1>8, <2>1, <2>2, <2>3
<1> QED BY <1>1, <1>2, <1>4, <1>5, <1>6, <1>7, <1>8 DEF CeremonyNext, Sealing

(* seal_approval: with one command of the sandbox at a time, the evidence  *)
(* tells of the package the person meant, its copies belong together, and  *)
(* no submission had been made with the approval it holds.                 *)
THEOREM SealsAreIntended ==
    ASSUME NEW p, Procs = {p}
    PROVE  CeremonySpec => []SealedIsIntended
<1>1. CeremonyInit => PInv(p) /\ Sealed(p)
  <2>1. CeremonyInit => Sealed(p)
    BY DEF CeremonyInit, Sealed, SealedIsIntended
  <2> QED BY <2>1, PublisherInit
<1>2. PInv(p) /\ Sealed(p) /\ [CeremonyNext]_ceremonyVars => PInv(p)' /\ Sealed(p)'
  BY StepKeeps, SealedSteps
<1>3. Sealed(p) => SealedIsIntended
  BY DEF Sealed
<1> QED BY <1>1, <1>2, <1>3, PTL DEF CeremonySpec
=============================================================================
