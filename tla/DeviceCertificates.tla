-------------------------- MODULE DeviceCertificates --------------------------
(***************************************************************************)
(* The certificate of one device identity (services/aws.ts,                *)
(* models/device.ts, controllers/device.ts): the row of the table          *)
(* "device", the row of the table "certificate", and in AWS IoT the Thing  *)
(* and the certificates minted for it.                                     *)
(*                                                                         *)
(* Three requests change them: create, invalidate-certificate ("rebuild")  *)
(* and destroyOne.  Each is a chain of awaited calls, every one of which   *)
(* may fail, and nothing keeps requests for the same device apart.         *)
(*                                                                         *)
(* AWS IoT is external: deleteCertificate refuses a certificate that is    *)
(* active or attached to a Thing, deleteThing a Thing that still has a     *)
(* certificate.                                                            *)
(***************************************************************************)
EXTENDS Naturals, FiniteSets

CONSTANTS
  Requests,     \* requests of the API
  Certs,        \* certificates AWS may mint
  NoCert,       \* no record, no certificate
  MaxInFlight,  \* how many requests overlap (1: an operator who waits)
  MaxFailures   \* bound: calls that fail and requests that die

ASSUME CertificatesAssumption ==
  /\ NoCert \notin Certs
  /\ MaxInFlight \in Nat
  /\ MaxFailures \in Nat

VARIABLES
  device,     \* the device has a row
  record,     \* certId of the device's row in "certificate" (identity is unique)
  thing,      \* the Thing exists
  minted,     \* certificates created so far
  active, attached, policied, \* certificates that are active, attached to the
              \* Thing, attached to the policy
  op, pc, cert, \* each request: what it does, where it is, the certificate it
              \* terminates or provisions
  faulted,    \* requests one of whose calls failed (history)
  raced,      \* requests another one made throw (history)
  overlapped, \* requests that began while another was in flight (history)
  condemned,  \* certificates whose termination has begun (history)
  failures    \* failures so far

aws  == <<thing, minted, active, attached, policied>>
vars == <<device, record, aws, op, pc, cert, faulted, raced, overlapped, condemned, failures>>

Terminating  == {"detachThing", "detachPolicy", "deactivate", "deleteCert", "removeRecord"}
Provisioning == {"attachPolicy", "attachThing", "save"}
InFlight     == {r \in Requests : pc[r] \notin {"idle", "done"}}

Init ==
  /\ device = FALSE
  /\ record = NoCert
  /\ thing = FALSE
  /\ minted = {} /\ active = {} /\ attached = {} /\ policied = {}
  /\ op = [r \in Requests |-> "none"]
  /\ pc = [r \in Requests |-> "idle"]
  /\ cert = [r \in Requests |-> NoCert]
  /\ faulted = {} /\ raced = {} /\ overlapped = {}
  /\ condemned = {}
  /\ failures = 0

Goto(r, place) == pc' = [pc EXCEPT ![r] = place]

\* A call of request r fails, or its container dies.
Fail(r) == /\ failures < MaxFailures
           /\ failures' = failures + 1
           /\ faulted' = faulted \cup {r}
           /\ UNCHANGED <<raced, overlapped>>

\* A call of request r throws for what an overlapping request did.
LoseRace(r) == raced' = raced \cup {r} /\ UNCHANGED <<faulted, overlapped, failures>>

NoFailure == UNCHANGED <<faulted, raced, overlapped, failures>>

-----------------------------------------------------------------------------
(***************************************************************************)
(* Seeded faults: what a plausible mistake would make of the definitions   *)
(* that follow.  No specification uses them.                               *)
(***************************************************************************)

\* the new certificate goes without the policy
PolicyForgotten(c) == policied
\* a certificate is deleted, and its record kept
RecordKept(r) == record
\* the record is deleted whatever certificate it names by then
AnyRecordRemoved(r) == NoCert
\* a certificate is deleted without being deactivated, which AWS refuses
NotDeactivated(c) == active
-----------------------------------------------------------------------------
(***************************************************************************)
(* The requests begin.                                                     *)
(***************************************************************************)
Begin(r, what, place) ==
  /\ pc[r] = "idle"
  /\ Cardinality(InFlight) < MaxInFlight
  /\ op' = [op EXCEPT ![r] = what]
  /\ Goto(r, place)
  /\ overlapped' = IF InFlight = {} THEN overlapped ELSE overlapped \cup {r}
  /\ UNCHANGED <<record, aws, cert, faulted, raced, condemned, failures>>

\* createDevice inserts the row (identity is unique) before it provisions.
Create(r) ==
  /\ ~device
  /\ device' = TRUE
  /\ Begin(r, "create", "createThing")

\* buildCertificateForDevice finds the device, terminates, and provisions.
Rebuild(r) ==
  /\ device
  /\ device' = device
  /\ Begin(r, "rebuild", "readRecord")

\* destroyOne deletes the row before destroyDevice turns to AWS.
Destroy(r) ==
  /\ device
  /\ device' = FALSE
  /\ Begin(r, "destroy", "findRecord")

(***************************************************************************)
(* terminateDevice, terminateCertificate.                                  *)
(***************************************************************************)
\* terminateDevice gives up without a record.
FindRecord(r) ==
  /\ pc[r] = "findRecord"
  /\ Goto(r, IF record = NoCert THEN "done" ELSE "readRecord")
  /\ UNCHANGED <<device, record, aws, op, cert, condemned>>
  /\ NoFailure

CertOnRecord(r) == record

\* terminateCertificate looks the record up for itself; if there is none it
\* throws a TypeError, which ends the request.  A record whose id is too short to
\* be one of AWS, which it would only remove, is never stored.
ReadRecord(r) ==
  /\ pc[r] = "readRecord"
  /\ IF record = NoCert
       THEN Goto(r, "done") /\ UNCHANGED <<cert, condemned>>
       ELSE /\ Goto(r, "detachThing")
            /\ cert' = [cert EXCEPT ![r] = CertOnRecord(r)]
            /\ condemned' = condemned \cup {record}
  /\ UNCHANGED <<device, record, aws, op>>
  /\ NoFailure

\* Each call of terminateCertificate that fails is logged and passed over.
Swallow(r, place, next) ==
  /\ pc[r] = place
  /\ Goto(r, next)
  /\ UNCHANGED <<device, record, minted, op, cert, condemned>>

DetachThing(r) ==
  /\ Swallow(r, "detachThing", "detachPolicy")
  /\ \/ attached' = attached \ {cert[r]} /\ NoFailure
     \/ attached' = attached /\ Fail(r)
  /\ UNCHANGED <<thing, active, policied>>

DetachPolicy(r) ==
  /\ Swallow(r, "detachPolicy", "deactivate")
  /\ \/ policied' = policied \ {cert[r]} /\ NoFailure
     \/ policied' = policied /\ Fail(r)
  /\ UNCHANGED <<thing, active, attached>>

Deactivated(c) == active \ {c}

\* updateCertificate fails if another request has deleted the certificate; the
\* outcome is the same.
Deactivate(r) ==
  /\ Swallow(r, "deactivate", "deleteCert")
  /\ \/ active' = Deactivated(cert[r]) /\ NoFailure
     \/ active' = active /\ Fail(r)
  /\ UNCHANGED <<thing, attached, policied>>

\* Deleting a certificate that is inactive and detached changes nothing the
\* other variables show, and AWS refuses the others: only its policies go.
DeleteCert(r) ==
  /\ Swallow(r, "deleteCert", "removeRecord")
  /\ \/ /\ policied' = IF cert[r] \in active \cup attached THEN policied ELSE policied \ {cert[r]}
        /\ NoFailure
     \/ policied' = policied /\ Fail(r)
  /\ UNCHANGED <<thing, active, attached>>

RecordRemoved(r) == IF record = cert[r] THEN NoCert ELSE record

RemoveRecord(r) ==
  /\ pc[r] = "removeRecord"
  /\ record' = RecordRemoved(r)
  /\ Goto(r, IF op[r] = "destroy" THEN "deleteThing" ELSE "createThing")
  /\ UNCHANGED <<device, aws, op, cert, condemned>>
  /\ NoFailure

DeleteThing(r) ==
  /\ pc[r] = "deleteThing"
  /\ Goto(r, "done")
  /\ \/ thing' = (thing /\ attached # {}) /\ NoFailure
     \/ thing' = thing /\ Fail(r)
  /\ UNCHANGED <<device, record, minted, active, attached, policied, op, cert, condemned>>

(***************************************************************************)
(* provisionDeviceCertificate.  A call that fails throws, and what was     *)
(* done before it stays.                                                   *)
(***************************************************************************)
CreateThing(r) ==
  /\ pc[r] = "createThing"
  /\ thing' = TRUE
  /\ Goto(r, "mint")
  /\ UNCHANGED <<device, record, minted, active, attached, policied, op, cert, condemned>>
  /\ NoFailure

Mint(r, c) ==
  /\ pc[r] = "mint"
  /\ c \notin minted
  /\ minted' = minted \cup {c}
  /\ active' = active \cup {c}
  /\ cert' = [cert EXCEPT ![r] = c]
  /\ Goto(r, "attachPolicy")
  /\ UNCHANGED <<device, record, thing, attached, policied, op, condemned>>
  /\ NoFailure

WithPolicy(c) == policied \cup {c}

AttachPolicy(r) ==
  /\ pc[r] = "attachPolicy"
  /\ policied' = WithPolicy(cert[r])
  /\ Goto(r, "attachThing")
  /\ UNCHANGED <<device, record, thing, minted, active, attached, op, cert, condemned>>
  /\ NoFailure

\* Another request may have deleted the Thing: then the call throws.
AttachThing(r) ==
  /\ pc[r] = "attachThing"
  /\ IF thing THEN /\ attached' = attached \cup {cert[r]}
                   /\ Goto(r, "save")
                   /\ NoFailure
              ELSE /\ attached' = attached
                   /\ Goto(r, "done")
                   /\ LoseRace(r)
  /\ UNCHANGED <<device, record, thing, minted, active, policied, op, cert, condemned>>

\* Another request may have stored a record: then the save throws.
SaveRecord(r) ==
  /\ pc[r] = "save"
  /\ Goto(r, "done")
  /\ IF record = NoCert THEN record' = cert[r] /\ NoFailure
                        ELSE /\ record' = record
                             /\ LoseRace(r)
  /\ UNCHANGED <<device, aws, op, cert, condemned>>

\* A call of provisionDeviceCertificate throws, or the container dies under
\* the request, wherever it is.
Abort(r) ==
  /\ r \in InFlight
  /\ Goto(r, "done")
  /\ Fail(r)
  /\ UNCHANGED <<device, record, aws, op, cert, condemned>>

Idle == /\ InFlight = {}
        /\ UNCHANGED vars

Step(r) ==
  \/ Create(r) \/ Rebuild(r) \/ Destroy(r)
  \/ FindRecord(r) \/ ReadRecord(r)
  \/ DetachThing(r) \/ DetachPolicy(r) \/ Deactivate(r) \/ DeleteCert(r)
  \/ RemoveRecord(r) \/ DeleteThing(r)
  \/ CreateThing(r) \/ AttachPolicy(r) \/ AttachThing(r) \/ SaveRecord(r)
  \/ \E c \in Certs : Mint(r, c)
  \/ Abort(r)

Next == (\E r \in Requests : Step(r)) \/ Idle

Spec == Init /\ [][Next]_vars

-----------------------------------------------------------------------------
(* Properties *)

Usable(c) == c \in active /\ c \in attached /\ c \in policied

TypeOK ==
  /\ device \in BOOLEAN /\ thing \in BOOLEAN
  /\ record \in Certs \cup {NoCert}
  /\ minted \subseteq Certs
  /\ active \subseteq minted /\ attached \subseteq minted /\ policied \subseteq minted
  /\ condemned \subseteq minted
  /\ op \in [Requests -> {"none", "create", "rebuild", "destroy"}]
  /\ pc \in [Requests -> {"idle", "findRecord", "readRecord", "deleteThing", "createThing", "mint", "done"}
                           \cup Terminating \cup Provisioning]
  /\ cert \in [Requests -> Certs \cup {NoCert}]
  /\ \A r \in Requests : pc[r] \in Terminating \cup Provisioning => cert[r] \in minted
  /\ faulted \subseteq Requests /\ raced \subseteq Requests /\ overlapped \subseteq Requests
  /\ failures \in 0 .. MaxFailures

\* A certificate on record, which downloads and device builds hand out, works:
\* it is active, attached to the Thing and to the policy, whichever calls
\* failed and whichever requests overlapped, until its termination begins.
RecordUsable == record # NoCert /\ record \notin condemned => Usable(record)

\* Without failures and overlaps the database and AWS agree when no request
\* is in flight: the device exists just when it has a Thing and a record, and
\* no other certificate is active.
InAgreement ==
  InFlight = {} /\ failures = 0 /\ overlapped = {} =>
    /\ device <=> thing
    /\ device <=> record # NoCert
    /\ active = {record} \ {NoCert}

\* An active certificate without a record, which only AWS knows of, is left
\* behind by a failure (deactivating it, or after minting it) or by a request
\* that lost a race; each leaves at most one.
OrphansBounded ==
  InFlight = {} => Cardinality(active \ {record}) <= failures + Cardinality(raced)

\* What is promised of the certificates of a device, and refined here.
Usables == {c \in Certs : Usable(c)}
Registry == INSTANCE CertificateOfRecord WITH usable <- Usables

\* Overlapping requests neither record a certificate that lacks something, nor
\* spoil, strike or bring back one that is not theirs.
ImplementsRegistry == Registry!Spec

\* "TERMINATE: FULL THING + CERT DESTRUCTION" (aws.ts:70): a destroy none of
\* whose calls failed leaves no Thing.
FullDestruction ==
  [][\A r \in Requests :
       op[r] = "destroy" /\ pc[r] # "done" /\ pc'[r] = "done" /\ r \notin faulted' => ~thing']_vars
=============================================================================
