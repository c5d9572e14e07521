----------------------------- MODULE Publisher -----------------------------
(***************************************************************************)
(* The MARXIV runtime publisher (src/app/marxiv_runtime_publisher.py): a   *)
(* scientific object is prepared in a sandbox, a person approves exactly   *)
(* that package, and publish submits it through a browser.                 *)
(*                                                                         *)
(* Every command is a process of its own that works on the files of one    *)
(* sandbox, without a lock.  A hash is represented by what it is the hash  *)
(* of.  The five hashed files are two: the staged manuscript, and the      *)
(* projection (snapshot, arXiv manifest, arxiv.sub and review packet, all  *)
(* computed from the object).  Files are written by _write_json one after  *)
(* the other, and a process that dies while it writes leaves a torn one.   *)
(***************************************************************************)
EXTENDS Naturals, Sequences, FiniteSets

CONSTANTS
    Procs,            \* command-line processes that may run at a time
    None,             \* a file that does not exist
    Torn,             \* a file that was being written when its writer died
    MaxRevision,      \* revisions of the manuscript and of the object
    MaxChallenges,    \* calls of request_approval
    MaxApprovals,     \* calls of approve
    MaxCrashes,       \* processes killed
    ClickRaisesLate   \* may click() raise although the portal was reached?

ASSUME PublisherAssumption ==
    /\ MaxRevision \in Nat \ {0}
    /\ {MaxChallenges, MaxApprovals, MaxCrashes} \subseteq Nat
    /\ ClickRaisesLate \in BOOLEAN

VARIABLES
    source,     \* the author's files: [object, manuscript], revisions
    disk,       \* the files of the sandbox
    live,       \* challenges whose expires_at is in the future
    challenges, \* challenges issued so far
    approvals,  \* confirmations given so far
    clicks,     \* submissions that reached arXiv, in order
    crashes,    \* processes killed so far
    pc,         \* statement each process is at
    loc         \* local variables of each process

vars == <<source, disk, live, challenges, approvals, clicks, crashes, pc, loc>>

Revisions == 1..MaxRevision
Packages == [object : Revisions, manuscript : Revisions]

Statuses == {"HUMAN_REVIEW_REQUIRED", "APPROVED", "SUBMITTING",
             "SUBMITTED_TO_ARXIV", "HOLD_PRE_SUBMIT",
             "HOLD_RECONCILIATION_REQUIRED", "RECONCILED"}

(* publisher-state.json; approval says whether approval_path is set.       *)
States == [status : Statuses, package : Packages, approval : BOOLEAN]

(* approval-challenge.json: the nonce makes every challenge different.     *)
Challenges == [id : 1..MaxChallenges, package : Packages]

(* human-approval.json: nr counts confirmations (approved_at).             *)
Approvals == [nr : 1..MaxApprovals, challenge : 1..MaxChallenges,
              package : Packages]

NoLocals == [todo |-> <<>>, next |-> "idle", object |-> None,
             manuscript |-> None, state |-> None, approval |-> 0]

Init ==
    /\ source = [object |-> 1, manuscript |-> 1]
    /\ disk = [manuscript |-> None, projection |-> None, state |-> None,
               challenge |-> None, approval |-> None, result |-> None]
    /\ live = {} /\ challenges = 0 /\ approvals = 0
    /\ clicks = <<>> /\ crashes = 0
    /\ pc = [p \in Procs |-> "idle"]
    /\ loc = [p \in Procs |-> NoLocals]

Written(file, value) == [file |-> file, value |-> value]
Loaded(file) == disk[file] \notin {None, Torn}

(* Process p goes on to write the given files and then to statement next.  *)
Writes(p, l, todo, next) ==
    /\ pc' = [pc EXCEPT ![p] = "write"]
    /\ loc' = [loc EXCEPT ![p] = [l EXCEPT !.todo = todo, !.next = next]]

(* p, in command publish, saves its copy of the state with a new status.   *)
Saves(p, status, next) ==
    LET s == [loc[p].state EXCEPT !.status = status]
    IN Writes(p, [loc[p] EXCEPT !.state = s], <<Written("state", s)>>, next)

(* The command of p ends; its locals are gone.                             *)
Ends(p) ==
    /\ pc' = [pc EXCEPT ![p] = "idle"]
    /\ loc' = [loc EXCEPT ![p] = NoLocals]

(* _write_json, shutil.copyfile.                                           *)
WriteFile(p) ==
    LET w == Head(loc[p].todo)
        rest == Tail(loc[p].todo)
    IN /\ pc[p] = "write"
       /\ disk' = [disk EXCEPT ![w.file] = w.value]
       /\ IF rest = <<>> /\ loc[p].next = "idle"
          THEN Ends(p)
          ELSE /\ loc' = [loc EXCEPT ![p].todo = rest]
               /\ pc' = [pc EXCEPT ![p] =
                            IF rest = <<>> THEN loc[p].next ELSE "write"]
       /\ UNCHANGED <<source, live, challenges, approvals, clicks, crashes>>

(* The author works on the object, or on the manuscript.                   *)
EditSource(p, part) ==
    /\ pc[p] = "idle"
    /\ source[part] < MaxRevision
    /\ source' = [source EXCEPT ![part] = @ + 1]
    /\ UNCHANGED <<disk, live, challenges, approvals, clicks, crashes, pc, loc>>

(* Somebody changes the staged manuscript by hand.                         *)
EditStaged(p, revision) ==
    /\ pc[p] = "idle"
    /\ Loaded("manuscript")
    /\ disk' = [disk EXCEPT !.manuscript = revision]
    /\ UNCHANGED <<source, live, challenges, approvals, clicks, crashes, pc, loc>>

(* prepare_sandbox up to copyfile: it looks at no earlier state.           *)
PrepareStart(p) ==
    /\ pc[p] = "idle"
    /\ Writes(p, [loc[p] EXCEPT !.object = source.object],
              <<Written("manuscript", source.manuscript)>>, "staged")
    /\ UNCHANGED <<source, disk, live, challenges, approvals, clicks, crashes>>

(* The staged hash is compared with the source once more; then the         *)
(* projection and a fresh state are written.                               *)
PrepareProject(p) ==
    LET package == [object |-> loc[p].object, manuscript |-> disk.manuscript]
    IN /\ pc[p] = "staged"
       /\ disk.manuscript = source.manuscript
       /\ Writes(p, loc[p],
                 <<Written("projection", loc[p].object),
                   Written("state", [status |-> "HUMAN_REVIEW_REQUIRED",
                                     package |-> package,
                                     approval |-> FALSE])>>, "idle")
       /\ UNCHANGED <<source, disk, live, challenges, approvals, clicks, crashes>>

(* The hashes differ, or paperpush fails after arxiv.sub was unlinked.     *)
PrepareFails(p) ==
    /\ pc[p] = "staged"
    /\ Ends(p)
    /\ disk' \in {disk} \cup
           IF disk.manuscript = source.manuscript
           THEN {[disk EXCEPT !.projection = Torn]} ELSE {}
    /\ UNCHANGED <<source, live, challenges, approvals, clicks, crashes>>

(* Mutant: the manuscript is not hashed again.                             *)
IntactProjection(s) == disk.projection = s.package.object

(* _current_package_checks.                                                *)
PackageIntact(s) ==
    /\ disk.projection = s.package.object
    /\ disk.manuscript = s.package.manuscript

(* request_approval; the challenge expires after ttl_seconds.              *)
RequestApproval(p) ==
    /\ pc[p] = "idle"
    /\ Loaded("state")
    /\ PackageIntact(disk.state)
    /\ disk.state.status = "HUMAN_REVIEW_REQUIRED"
    /\ challenges < MaxChallenges
    /\ challenges' = challenges + 1
    /\ live' = live \cup {challenges + 1}
    /\ Writes(p, loc[p],
              <<Written("challenge", [id |-> challenges + 1,
                                      package |-> disk.state.package])>>, "idle")
    /\ UNCHANGED <<source, disk, approvals, clicks, crashes>>

Expire(c) ==
    /\ live' = live \ {c}
    /\ UNCHANGED <<source, disk, challenges, approvals, clicks, crashes, pc, loc>>

(* approve: a person types the phrase that names the package of the        *)
(* challenge.  The status of the sandbox is not looked at.                 *)
Approve(p) ==
    LET s == disk.state
        c == disk.challenge
    IN /\ pc[p] = "idle"
       /\ Loaded("state") /\ Loaded("challenge")
       /\ c.id \in live
       /\ c.package = s.package
       /\ PackageIntact(s)
       /\ approvals < MaxApprovals
       /\ approvals' = approvals + 1
       /\ Writes(p, loc[p],
                 <<Written("approval", [nr |-> approvals + 1, challenge |-> c.id,
                                        package |-> s.package]),
                   Written("state", [s EXCEPT !.status = "APPROVED",
                                              !.approval = TRUE])>>, "idle")
       /\ UNCHANGED <<source, disk, live, challenges, clicks, crashes>>

(* verify_approval, with the state it loads.                               *)
ApprovalValid ==
    LET s == disk.state
        a == disk.approval
        c == disk.challenge
    IN /\ s.approval /\ Loaded("approval") /\ Loaded("challenge")
       /\ s.status = "APPROVED"
       /\ a.challenge = c.id
       /\ a.package = s.package /\ c.package = s.package
       /\ a.challenge \in live
       /\ PackageIntact(s)

(* publish: load, verify, read the manifest.                               *)
PublishStart(p) ==
    /\ pc[p] = "idle"
    /\ Loaded("state")
    /\ ApprovalValid
    /\ pc' = [pc EXCEPT ![p] = "login"]
    /\ loc' = [loc EXCEPT ![p].state = disk.state, ![p].object = disk.projection,
                          ![p].approval = disk.approval.nr]
    /\ UNCHANGED <<source, disk, live, challenges, approvals, clicks, crashes>>

(* Mutant: SUBMITTING is not made durable before the browser starts.       *)
LoginKeepsApproved(p) ==
    /\ pc[p] = "login"
    /\ Saves(p, "APPROVED", "upload")
    /\ UNCHANGED <<source, disk, live, challenges, approvals, clicks, crashes>>

(* authorize_login succeeds and SUBMITTING is saved.                       *)
Login(p) ==
    /\ pc[p] = "login"
    /\ Saves(p, "SUBMITTING", "upload")
    /\ UNCHANGED <<source, disk, live, challenges, approvals, clicks, crashes>>

LoginFails(p) ==
    /\ pc[p] = "login"
    /\ Ends(p)
    /\ UNCHANGED <<source, disk, live, challenges, approvals, clicks, crashes>>

(* The browser reads the manuscript by its path.                           *)
Upload(p) ==
    /\ pc[p] = "upload"
    /\ pc' = [pc EXCEPT ![p] = "click"]
    /\ loc' = [loc EXCEPT ![p].manuscript = disk.manuscript]
    /\ UNCHANGED <<source, disk, live, challenges, approvals, clicks, crashes>>

(* The transport raises before Submit Article is clicked.                  *)
TransportFails(p) ==
    /\ pc[p] \in {"upload", "click"}
    /\ Saves(p, "HOLD_PRE_SUBMIT", "idle")
    /\ UNCHANGED <<source, disk, live, challenges, approvals, clicks, crashes>>

(* A transport passed by the caller returns without the final action:      *)
(* publish raises and saves nothing.                                       *)
TransportIdle(p) ==
    /\ pc[p] = "upload"
    /\ Ends(p)
    /\ UNCHANGED <<source, disk, live, challenges, approvals, clicks, crashes>>

(* A submission that reached arXiv; performed is final_click_performed.    *)
Submission(p, performed) ==
    [object |-> loc[p].object, manuscript |-> loc[p].manuscript,
     approval |-> loc[p].approval, performed |-> performed]

(* submit_button.first.click() returns; arXiv got the request or did not.  *)
Click(p) ==
    /\ pc[p] = "click"
    /\ clicks' \in {clicks, Append(clicks, Submission(p, TRUE))}
    /\ pc' = [pc EXCEPT ![p] = "confirm"]
    /\ UNCHANGED <<source, disk, live, challenges, approvals, crashes, loc>>

(* click() raises after arXiv got the request: final_click_performed is    *)
(* still False.                                                            *)
ClickRaises(p) ==
    /\ ClickRaisesLate
    /\ pc[p] = "click"
    /\ clicks' = Append(clicks, Submission(p, FALSE))
    /\ Saves(p, "HOLD_PRE_SUBMIT", "idle")
    /\ UNCHANGED <<source, disk, live, challenges, approvals, crashes>>

(* The user page lists the title: of this submission or of an earlier one. *)
Confirmed(p) ==
    LET s == [loc[p].state EXCEPT !.status = "SUBMITTED_TO_ARXIV"]
    IN /\ pc[p] = "confirm"
       /\ clicks # <<>>
       /\ Writes(p, loc[p], <<Written("state", s), Written("result", TRUE)>>, "idle")
       /\ UNCHANGED <<source, disk, live, challenges, approvals, clicks, crashes>>

Unconfirmed(p) ==
    LET s == [loc[p].state EXCEPT !.status = "HOLD_RECONCILIATION_REQUIRED"]
    IN /\ pc[p] = "confirm"
       /\ Writes(p, loc[p], <<Written("state", s), Written("result", FALSE)>>, "idle")
       /\ UNCHANGED <<source, disk, live, challenges, approvals, clicks, crashes>>

(* Mutant: every exception is held as if nothing had been clicked.         *)
ConfirmFailsPreSubmit(p) ==
    /\ pc[p] = "confirm"
    /\ Saves(p, "HOLD_PRE_SUBMIT", "idle")
    /\ UNCHANGED <<source, disk, live, challenges, approvals, clicks, crashes>>

(* The transport raises after the click returned.                          *)
ConfirmFails(p) ==
    /\ pc[p] = "confirm"
    /\ Saves(p, "HOLD_RECONCILIATION_REQUIRED", "idle")
    /\ UNCHANGED <<source, disk, live, challenges, approvals, clicks, crashes>>

(* reconcile with a well-formed identifier; only its form is checked.      *)
Reconcile(p) ==
    /\ pc[p] = "idle"
    /\ Loaded("state")
    /\ disk.state.status \in {"SUBMITTED_TO_ARXIV",
                              "HOLD_RECONCILIATION_REQUIRED"}
    /\ Writes(p, loc[p],
              <<Written("state", [disk.state EXCEPT !.status = "RECONCILED"])>>,
              "idle")
    /\ UNCHANGED <<source, disk, live, challenges, approvals, clicks, crashes>>

(* The process is killed, possibly in the middle of a write.               *)
Crash(p) ==
    /\ pc[p] # "idle"
    /\ crashes < MaxCrashes
    /\ crashes' = crashes + 1
    /\ Ends(p)
    /\ disk' \in {disk} \cup
           IF pc[p] = "write"
           THEN {[disk EXCEPT ![Head(loc[p].todo).file] = Torn]} ELSE {}
    /\ UNCHANGED <<source, live, challenges, approvals, clicks>>

Publish(p) ==
    \/ PublishStart(p) \/ Login(p) \/ LoginFails(p) \/ Upload(p)
    \/ TransportFails(p) \/ TransportIdle(p) \/ Click(p) \/ ClickRaises(p)
    \/ Confirmed(p) \/ Unconfirmed(p) \/ ConfirmFails(p)

(* One step of the command line p works on, or of its author's editor.     *)
Command(p) ==
    \/ WriteFile(p)
    \/ \E part \in {"object", "manuscript"} : EditSource(p, part)
    \/ \E r \in Revisions : EditStaged(p, r)
    \/ PrepareStart(p) \/ PrepareProject(p) \/ PrepareFails(p)
    \/ RequestApproval(p) \/ Approve(p)
    \/ Publish(p) \/ Reconcile(p) \/ Crash(p)

SomeExpire == \E c \in live : Expire(c)

Next == (\E p \in Procs : Command(p)) \/ SomeExpire

Spec == Init /\ [][Next]_vars
---------------------------------------------------------------------------
(* publish: a confirmation is spent by the first submission made with it,  *)
(* whatever fails and wherever the process dies.                           *)
OneClickPerApproval ==
    \A i, j \in DOMAIN clicks : clicks[i].approval = clicks[j].approval => i = j

(* "it may submit only the exact approved package" (MARXIV_RUNTIME_        *)
(* PUBLISHER_V1.md:35): what reaches arXiv is what the person confirmed.   *)
ClickedWasApproved ==
    [][\A i \in DOMAIN clicks' \ DOMAIN clicks :
          /\ disk.approval.package.object = clicks'[i].object
          /\ disk.approval.package.manuscript = clicks'[i].manuscript]_vars

(* No command is running, and the current confirmation was used for a      *)
(* submission, which click() may have reported or not.                     *)
Spent(performed) ==
    /\ \A p \in Procs : pc[p] = "idle"
    /\ Loaded("state") /\ Loaded("approval") /\ disk.state.approval
    /\ \E i \in DOMAIN clicks :
          clicks[i].approval = disk.approval.nr /\ clicks[i].performed \in performed

(* publish: a submission click() has reported is on record as submitted,   *)
(* reconciled or held for reconciliation, whatever the transport raised    *)
(* afterwards; SUBMITTING is left only by a process that was killed.       *)
PerformedIsHeld ==
    Spent({TRUE}) =>
        \/ disk.state.status \in {"SUBMITTED_TO_ARXIV", "RECONCILED",
                                  "HOLD_RECONCILIATION_REQUIRED"}
        \/ crashes > 0 /\ disk.state.status = "SUBMITTING"

(* MARXIV_RUNTIME_PUBLISHER_V1.md:124-134: HOLD_PRE_SUBMIT is a failure    *)
(* before the final effect, and an uncertain outcome is held for           *)
(* reconciliation.                                                         *)
UncertainIsHeld ==
    Spent({TRUE, FALSE}) =>
        disk.state.status \in {"SUBMITTED_TO_ARXIV", "RECONCILED",
                               "HOLD_RECONCILIATION_REQUIRED"}
=============================================================================
