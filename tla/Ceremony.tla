------------------------------ MODULE Ceremony ------------------------------
(***************************************************************************)
(* The two ceremonies beside the publisher's own approve, over the same    *)
(* sandbox:                                                                *)
(*  - marxiv_human_authority.py: a person with an Ed25519 key of her own   *)
(*    signs the challenge, and an evidence pack is built.  Her commands    *)
(*    are processes of their own and interleave with the publisher's;      *)
(*  - marxiv_approval_seal.py: one process prepares the sandbox, requests, *)
(*    approves and verifies for an intent written beforehand, and keeps    *)
(*    copies as evidence.                                                  *)
(* An authority stands for its random key, and a signature for the key     *)
(* that made it and the fields it covers.                                  *)
(***************************************************************************)
EXTENDS Publisher

CONSTANTS
    Authorities,  \* a private key file and a public registry file each
    Modes         \* which way of approving the operators use: "typed"
                  \* (approve), "sealed" or "signed"

VARIABLES
    mode,
    key, registry, \* files of each authority
    signed, pack,  \* signed approval and evidence pack
    hand,          \* the command the person runs
    seen,          \* the challenge she was shown last
    confirmed,     \* history: signatures made while the challenge was live
    intent, seal, evidence  \* intent file, stage of seal_approval, summary

personVars == <<key, registry, signed, pack, hand, seen, confirmed>>
sealVars == <<intent, seal, evidence>>
ceremonyVars == <<vars, mode, personVars, sealVars>>

Idle == [at |-> "idle"]

CeremonyInit ==
    /\ Init
    /\ mode \in Modes
    /\ key = [a \in Authorities |-> None]
    /\ registry = [a \in Authorities |-> None]
    /\ signed = None /\ pack = None
    /\ hand = Idle /\ seen = 0 /\ confirmed = {}
    /\ intent = None /\ seal = "off" /\ evidence = None
---------------------------------------------------------------------------
(* initialize_authority up to chmod: neither file may exist.               *)
InitKey(a) ==
    /\ hand = Idle
    /\ key[a] = None /\ registry[a] = None
    /\ key' = [key EXCEPT ![a] = a]
    /\ hand' = [at |-> "init", authority |-> a]
    /\ UNCHANGED <<vars, mode, registry, signed, pack, seen, confirmed, sealVars>>

(* ... and the registry, written last.                                     *)
InitRegistry ==
    /\ hand.at = "init"
    /\ registry' = [registry EXCEPT ![hand.authority] = "ACTIVE"]
    /\ hand' = Idle
    /\ UNCHANGED <<vars, mode, key, signed, pack, seen, confirmed, sealVars>>

(* The status in the registry is changed by hand: no command does it.      *)
Withdraw(a) ==
    /\ hand = Idle
    /\ registry[a] = "ACTIVE"
    /\ registry' = [registry EXCEPT ![a] = "REVOKED"]
    /\ UNCHANGED <<vars, mode, key, signed, pack, hand, seen, confirmed, sealVars>>

(* describe_challenge shows the phrase that confirms the challenge.        *)
Describe ==
    /\ hand = Idle
    /\ Loaded("challenge")
    /\ seen' = disk.challenge.id
    /\ UNCHANGED <<vars, mode, key, registry, signed, pack, hand, confirmed,
                   sealVars>>

(* Mutant: the challenge in the file is signed, whichever was shown.       *)
ConfirmsAnything(c) == seen # 0

(* required_human_confirmation: the phrase has the hash of the challenge.  *)
Confirms(c) == seen = c.id

(* sign_challenge, with the key of a and the registry of b, up to the      *)
(* signature.                                                              *)
Sign(a, b) ==
    LET c == disk.challenge
    IN /\ hand = Idle
       /\ Loaded("challenge") /\ registry[b] = "ACTIVE"
       /\ c.id \in live
       /\ Confirms(c)
       /\ key[a] \in Authorities /\ key[a] = b
       /\ approvals < MaxApprovals
       /\ approvals' = approvals + 1
       /\ confirmed' = confirmed \cup
              {[challenge |-> seen, package |-> c.package, key |-> key[a]]}
       /\ hand' = [at |-> "sign", approval |->
                     [challenge |-> c.id, package |-> c.package,
                      authority |-> b, key |-> key[a]]]
       /\ UNCHANGED <<source, disk, live, challenges, clicks, crashes, pc, loc,
                      mode, key, registry, signed, pack, seen, sealVars>>

WriteSigned ==
    /\ hand.at = "sign"
    /\ signed' = hand.approval
    /\ hand' = Idle
    /\ UNCHANGED <<vars, mode, key, registry, pack, seen, confirmed, sealVars>>

(* verify_signed_approval with the registry of a.  signed_at is in the     *)
(* window of the challenge: it is covered by the signature, and Sign       *)
(* looked at the clock.                                                    *)
Verified(a) ==
    LET c == disk.challenge
    IN /\ Loaded("challenge") /\ signed \notin {None, Torn}
       /\ registry[a] = "ACTIVE"
       /\ signed.authority = a /\ signed.key = a
       /\ signed.challenge = c.id /\ signed.package = c.package
       /\ c.id \in live

(* build_evidence_pack verifies ...                                        *)
BundleVerify(a) ==
    /\ hand = Idle
    /\ Verified(a)
    /\ hand' = [at |-> "bundle", authority |-> a,
                challenge |-> signed.challenge, package |-> signed.package]
    /\ UNCHANGED <<vars, mode, key, registry, signed, pack, seen, confirmed,
                   sealVars>>

(* ... reads the three files again for the pack, and writes it.            *)
BundleWrite ==
    /\ hand.at = "bundle"
    /\ Loaded("challenge")
    /\ pack' = [authority |-> hand.authority, challenge |-> hand.challenge,
                package |-> hand.package, object |-> disk.challenge.id,
                approval |-> signed, registry |-> registry[hand.authority]]
    /\ hand' = Idle
    /\ UNCHANGED <<vars, mode, key, registry, signed, seen, confirmed, sealVars>>

(* The challenge is being written when it is read again: a JSON error.     *)
BundleRaises ==
    /\ hand.at = "bundle"
    /\ ~Loaded("challenge")
    /\ hand' = Idle
    /\ UNCHANGED <<vars, mode, key, registry, signed, pack, seen, confirmed,
                   sealVars>>

(* The person's command is killed; the file it was about to write is torn  *)
(* or was not touched.                                                     *)
HandDies ==
    /\ hand # Idle
    /\ crashes < MaxCrashes
    /\ crashes' = crashes + 1
    /\ hand' = Idle
    /\ \/ UNCHANGED <<key, registry>>
       \/ /\ hand.at = "init"
          /\ key' = [key EXCEPT ![hand.authority] = Torn]
          /\ UNCHANGED registry
       \/ /\ hand.at = "init"
          /\ registry' = [registry EXCEPT ![hand.authority] = Torn]
          /\ UNCHANGED key
    /\ signed' \in {signed} \cup (IF hand.at = "sign" THEN {Torn} ELSE {})
    /\ pack' \in {pack} \cup (IF hand.at = "bundle" THEN {Torn} ELSE {})
    /\ UNCHANGED <<source, disk, live, challenges, approvals, clicks, pc, loc,
                   mode, seen, confirmed, sealVars>>

Person ==
    \/ \E a \in Authorities : InitKey(a) \/ Withdraw(a) \/ BundleVerify(a)
    \/ \E a, b \in Authorities : Sign(a, b)
    \/ InitRegistry \/ Describe \/ WriteSigned
    \/ BundleWrite \/ BundleRaises \/ HandDies
---------------------------------------------------------------------------
(* A person writes the intent for the package she reviewed.                *)
WriteIntent ==
    /\ intent = None
    /\ Loaded("state") /\ disk.state.status = "HUMAN_REVIEW_REQUIRED"
    /\ intent' = disk.state.package
    /\ UNCHANGED <<vars, mode, personVars, seal, evidence>>

(* seal_approval prepares the sandbox again ...                            *)
SealStart(p) ==
    /\ seal = "off" /\ intent # None
    /\ PrepareStart(p)
    /\ seal' = "prepare"
    /\ UNCHANGED <<mode, personVars, intent, evidence>>

(* Mutant: the package that was reconstructed is taken to be the one meant.*)
IsIntendedAny(package) == TRUE

IsIntended(package) == package = intent

(* ... asks for its approval if it is the intended package ...             *)
Requestable ==
    Loaded("state") /\ IsIntended(disk.state.package) /\ PackageIntact(disk.state)

SealRequest(p) ==
    /\ seal = "prepare" /\ Requestable
    /\ RequestApproval(p)
    /\ seal' = "request"
    /\ UNCHANGED <<mode, personVars, intent, evidence>>

(* ... and approves it with the phrase of the challenge.                   *)
Approvable ==
    /\ Loaded("state") /\ PackageIntact(disk.state)
    /\ Loaded("challenge") /\ IsIntended(disk.challenge.package)
    /\ disk.challenge.id \in live

SealApprove(p) ==
    /\ seal = "request" /\ Approvable
    /\ Approve(p)
    /\ seal' = "approve"
    /\ UNCHANGED <<mode, personVars, intent, evidence>>

(* No submission-result.json is left from an earlier submission.           *)
Sealable == Loaded("state") /\ ApprovalValid /\ disk.result = None

(* The approval is verified and there is no submission: the files are      *)
(* copied, the summary last.                                               *)
SealEvidence(p) ==
    /\ seal = "approve" /\ pc[p] = "idle"
    /\ Sealable
    /\ evidence' = [state |-> disk.state, approval |-> disk.approval,
                    challenge |-> disk.challenge, submissions |-> Len(clicks)]
    /\ seal' = "off"
    /\ UNCHANGED <<vars, mode, personVars, intent>>

(* One of the checks between the commands fails.                           *)
SealRaises(p) ==
    /\ pc[p] = "idle"
    /\ \/ seal = "prepare" /\ ~Requestable
       \/ seal = "request" /\ ~Approvable
       \/ seal = "approve" /\ ~Sealable
    /\ seal' = "off"
    /\ UNCHANGED <<vars, mode, personVars, intent, evidence>>

Sealing(p) == SealStart(p) \/ SealRequest(p) \/ SealApprove(p)
                \/ SealEvidence(p) \/ SealRaises(p)
---------------------------------------------------------------------------
(* p works on a command of the publisher, one that seals included, or its  *)
(* author edits a file.  Sealing is over when its process dies or prepare  *)
(* raises.                                                                 *)
Publishing(p) ==
    /\ Command(p)
    /\ mode # "typed" => approvals' = approvals
    /\ seal # "off" => pc[p] # "idle" \/ (pc' = pc /\ loc' = loc)
    /\ seal' = IF crashes' # crashes \/ (pc[p] = "staged" /\ pc'[p] = "idle")
               THEN "off" ELSE seal
    /\ UNCHANGED <<mode, personVars, intent, evidence>>

CeremonyNext ==
    \/ \E p \in Procs : Publishing(p)
    \/ SomeExpire /\ UNCHANGED <<mode, personVars, sealVars>>
    \/ mode = "signed" /\ Person
    \/ mode = "sealed" /\ (WriteIntent \/ \E p \in Procs : Sealing(p))

CeremonySpec == CeremonyInit /\ [][CeremonyNext]_ceremonyVars
---------------------------------------------------------------------------
(* build_evidence_pack: a pack says that a package was approved only when  *)
(* the person was shown a challenge for that package and signed it, while  *)
(* it was live, with the key of the authority the pack names, although     *)
(* challenges are reissued, files are torn and commands interleave.        *)
PackIsConfirmed ==
    pack \notin {None, Torn} =>
        [challenge |-> pack.challenge, package |-> pack.package,
         key |-> pack.authority] \in confirmed

(* seal_approval: the evidence tells of the package the person meant, the  *)
(* copies belong together although they are taken one by one, and no       *)
(* submission had been made with the approval ("external_side_effect":     *)
(* False).                                                                 *)
SealedIsIntended ==
    evidence # None =>
        /\ evidence.state.package = intent
        /\ evidence.approval.package = intent
        /\ evidence.approval.challenge = evidence.challenge.id
        /\ \A i \in 1..evidence.submissions :
              clicks[i].approval # evidence.approval.nr
=============================================================================
