---------------------- MODULE DeviceCertificatesProofs ----------------------
(***************************************************************************)
(* Proofs about DeviceCertificates, for any number of requests,            *)
(* certificates, overlaps and failures.  First RecordUsable, which is not  *)
(* inductive: that the certificate a request saves works is known only     *)
(* from what the request did before (Staged), and that nobody undoes it    *)
(* meanwhile from whose certificate it is: a termination touches condemned *)
(* certificates only (OnlyCondemned), and one being provisioned is not     *)
(* condemned, not on record and in no other request's hands (Fresh,        *)
(* Apart).  Then OrphansBounded, by counting, and InAgreement.             *)
(***************************************************************************)
EXTENDS DeviceCertificates, FiniteSetTheorems, TLAPS

RecordMinted == record # NoCert => record \in minted

\* A request terminates only certificates whose termination has begun.
OnlyCondemned == \A r \in Requests : pc[r] \in Terminating => cert[r] \in condemned

\* A certificate being provisioned is active, not yet on record, not condemned.
Fresh ==
  \A r \in Requests : pc[r] \in Provisioning =>
    cert[r] \in active /\ cert[r] \notin condemned /\ cert[r] # record

\* What the request that provisions has done so far holds.
Staged ==
  \A r \in Requests :
    /\ pc[r] \in {"attachThing", "save"} => cert[r] \in policied
    /\ pc[r] = "save" => cert[r] \in attached

\* Two requests never provision the same certificate.
Apart ==
  \A r, s \in Requests :
    r # s /\ pc[r] \in Provisioning /\ pc[s] \in Provisioning => cert[r] # cert[s]

IInv == TypeOK /\ RecordMinted /\ OnlyCondemned /\ Fresh /\ Staged /\ Apart /\ RecordUsable

LEMMA InitIInv == Init => IInv
<1> SUFFICES ASSUME Init PROVE IInv
  OBVIOUS
<1>1. \A r \in Requests : pc[r] = "idle"
  BY DEF Init
<1>2. "idle" \notin Terminating /\ "idle" \notin Provisioning
  BY DEF Terminating, Provisioning
<1>3. op \in [Requests -> {"none", "create", "rebuild", "destroy"}]
      /\ pc \in [Requests -> {"idle", "findRecord", "readRecord", "deleteThing", "createThing",
                              "mint", "done"} \cup Terminating \cup Provisioning]
      /\ cert \in [Requests -> Certs \cup {NoCert}]
  BY DEF Init
<1>4. TypeOK
  <2>1. device \in BOOLEAN /\ thing \in BOOLEAN
    BY DEF Init
  <2>2. failures \in 0 .. MaxFailures
    BY CertificatesAssumption DEF Init, CertificatesAssumption
  <2>3. record \in Certs \cup {NoCert} /\ minted = {} /\ active = {} /\ attached = {}
        /\ policied = {} /\ condemned = {} /\ faulted = {} /\ raced = {}
        /\ overlapped = {}
    BY DEF Init
  <2> QED
    BY <1>1, <1>2, <1>3, <2>1, <2>2, <2>3 DEF TypeOK
<1>5. RecordMinted /\ RecordUsable
  BY DEF Init, RecordMinted, RecordUsable
<1>6. OnlyCondemned /\ Fresh /\ Staged /\ Apart
  BY <1>1, <1>2 DEF OnlyCondemned, Fresh, Staged, Apart
<1> QED
  BY <1>4, <1>5, <1>6 DEF IInv

\* Where a request is after Goto, and that the others are where they were.
LEMMA GotoFacts ==
  ASSUME TypeOK, NEW r \in Requests, NEW place, Goto(r, place)
  PROVE  pc'[r] = place /\ \A s \in Requests : s # r => pc'[s] = pc[s]
  BY DEF TypeOK, Goto

\* A request leaves, or moves on to a place where it holds no certificate,
\* and nothing else changes that concerns certificates.
LEMMA PassingStep ==
  ASSUME IInv, NEW r \in Requests, NEW place, Goto(r, place),
         place \in {"findRecord", "readRecord", "deleteThing", "createThing", "mint", "done"},
         device' \in BOOLEAN, thing' \in BOOLEAN,
         op' \in [Requests -> {"none", "create", "rebuild", "destroy"}],
         faulted' \subseteq Requests, raced' \subseteq Requests, overlapped' \subseteq Requests,
         failures' \in 0 .. MaxFailures,
         record' \in {record, NoCert},
         UNCHANGED <<minted, active, attached, policied, cert, condemned>>
  PROVE  IInv'
<1>1. pc'[r] = place /\ \A s \in Requests : s # r => pc'[s] = pc[s]
  BY GotoFacts DEF IInv
<1>2. place \notin Terminating /\ place \notin Provisioning
  BY DEF Terminating, Provisioning
<1>3. TypeOK'
  BY <1>1, <1>2 DEF IInv, TypeOK, Goto
<1>4. RecordMinted' /\ OnlyCondemned' /\ Staged' /\ Apart' /\ RecordUsable'
  BY <1>1, <1>2
  DEF IInv, RecordMinted, OnlyCondemned, Staged, Apart, RecordUsable, Usable, Provisioning
<1>5. Fresh'
  <2> SUFFICES ASSUME NEW s \in Requests, pc'[s] \in Provisioning
               PROVE  cert'[s] \in active' /\ cert'[s] \notin condemned' /\ cert'[s] # record'
    BY DEF Fresh
  <2>1. pc[s] \in Provisioning
    BY <1>1, <1>2
  <2>2. cert[s] \in minted /\ minted \subseteq Certs
    BY <2>1 DEF IInv, TypeOK
  <2> QED
    BY <2>1, <2>2, CertificatesAssumption DEF IInv, Fresh, CertificatesAssumption
<1> QED
  BY <1>3, <1>4, <1>5 DEF IInv

\* A call of terminateCertificate takes only from condemned certificates.
LEMMA TerminatingStep ==
  ASSUME IInv, NEW r \in Requests, NEW place, NEW next, Swallow(r, place, next),
         place \in Terminating, next \in Terminating \cup {"done"},
         UNCHANGED thing,
         active' \in {active, active \ {cert[r]}},
         attached' \in {attached, attached \ {cert[r]}},
         policied' \in {policied, policied \ {cert[r]}},
         faulted' \subseteq Requests, raced' \subseteq Requests, overlapped' \subseteq Requests,
         failures' \in 0 .. MaxFailures
  PROVE  IInv'
<1>1. pc'[r] = next /\ \A s \in Requests : s # r => pc'[s] = pc[s]
  BY GotoFacts DEF IInv, Swallow
<1>2. next \notin Provisioning
  BY DEF Terminating, Provisioning
<1>3. cert[r] \in condemned
  BY DEF IInv, OnlyCondemned, Swallow
<1>4. TypeOK'
  <2>1. pc' \in [Requests -> {"idle", "findRecord", "readRecord", "deleteThing", "createThing",
                              "mint", "done"} \cup Terminating \cup Provisioning]
    BY DEF IInv, TypeOK, Swallow, Goto
  <2> QED
    BY <1>1, <2>1 DEF IInv, TypeOK, Swallow
<1>5. RecordMinted' /\ OnlyCondemned' /\ Apart'
  BY <1>1, <1>2, <1>3 DEF IInv, RecordMinted, OnlyCondemned, Apart, Swallow
<1>6. Fresh' /\ Staged'
  BY <1>1, <1>2, <1>3 DEF IInv, Fresh, Staged, Provisioning, Swallow
<1>7. RecordUsable'
  BY <1>3 DEF IInv, RecordUsable, Usable, Swallow
<1> QED
  BY <1>4, <1>5, <1>6, <1>7 DEF IInv

\* How a call of a request may end, and what of the history it leaves typed.
LEMMA OutcomeFacts ==
  ASSUME IInv, NEW r \in Requests, NoFailure \/ Fail(r) \/ LoseRace(r)
  PROVE  faulted' \subseteq Requests /\ raced' \subseteq Requests /\ overlapped' \subseteq Requests
         /\ failures' \in 0 .. MaxFailures
  BY CertificatesAssumption
  DEF CertificatesAssumption, IInv, TypeOK, NoFailure, Fail, LoseRace

LEMMA BeginStep ==
  ASSUME IInv, NEW r \in Requests, Create(r) \/ Rebuild(r) \/ Destroy(r)
  PROVE  IInv'
<1>1. PICK what \in {"create", "rebuild", "destroy"},
           place \in {"createThing", "readRecord", "findRecord"} : Begin(r, what, place)
  BY DEF Create, Rebuild, Destroy
<1>2. device' \in BOOLEAN
  BY DEF Create, Rebuild, Destroy, IInv, TypeOK
<1>3. op' \in [Requests -> {"none", "create", "rebuild", "destroy"}]
  BY <1>1 DEF Begin, IInv, TypeOK
<1>4. faulted' \subseteq Requests /\ raced' \subseteq Requests /\ overlapped' \subseteq Requests
      /\ failures' \in 0 .. MaxFailures
  BY <1>1 DEF Begin, IInv, TypeOK
<1> QED
  BY <1>1, <1>2, <1>3, <1>4, PassingStep DEF Begin, aws, IInv, TypeOK

LEMMA TerminateStep ==
  ASSUME IInv, NEW r \in Requests,
         DetachThing(r) \/ DetachPolicy(r) \/ Deactivate(r) \/ DeleteCert(r)
  PROVE  IInv'
<1>1. faulted' \subseteq Requests /\ raced' \subseteq Requests /\ overlapped' \subseteq Requests
         /\ failures' \in 0 .. MaxFailures
  BY OutcomeFacts DEF DetachThing, DetachPolicy, Deactivate, DeleteCert
<1>2. CASE DetachThing(r)
  BY <1>1, <1>2, TerminatingStep DEF DetachThing, Terminating
<1>3. CASE DetachPolicy(r)
  BY <1>1, <1>3, TerminatingStep DEF DetachPolicy, Terminating
<1>4. CASE Deactivate(r)
  BY <1>1, <1>4, TerminatingStep DEF Deactivate, Deactivated, Terminating
<1>5. CASE DeleteCert(r)
  BY <1>1, <1>5, TerminatingStep DEF DeleteCert, Terminating
<1> QED
  BY <1>2, <1>3, <1>4, <1>5

LEMMA ReadRecordStep == ASSUME IInv, NEW r \in Requests, ReadRecord(r) PROVE IInv'
<1>1. CASE record = NoCert
  BY <1>1, OutcomeFacts, PassingStep DEF ReadRecord, aws, IInv, TypeOK
<1>2. CASE record # NoCert
  <2>1. pc'[r] = "detachThing" /\ \A s \in Requests : s # r => pc'[s] = pc[s]
    BY <1>2, GotoFacts DEF ReadRecord, IInv
  <2>2. cert'[r] = record /\ \A s \in Requests : s # r => cert'[s] = cert[s]
    BY <1>2 DEF ReadRecord, CertOnRecord, IInv, TypeOK
  <2>3. condemned' = condemned \cup {record} /\ record \in minted
        /\ UNCHANGED <<device, record, thing, minted, active, attached, policied, op>>
    BY <1>2 DEF ReadRecord, aws, IInv, RecordMinted
  <2>4. TypeOK'
    <3>1. cert' \in [Requests -> Certs \cup {NoCert}]
      BY <1>2 DEF ReadRecord, CertOnRecord, IInv, TypeOK
    <3>2. pc' \in [Requests -> {"idle", "findRecord", "readRecord", "deleteThing", "createThing",
                                "mint", "done"} \cup Terminating \cup Provisioning]
      BY <1>2 DEF ReadRecord, Goto, IInv, TypeOK, Terminating
    <3>3. \A s \in Requests : pc'[s] \in Terminating \cup Provisioning => cert'[s] \in minted'
      BY <2>1, <2>2, <2>3 DEF IInv, TypeOK
    <3> QED
      BY <2>3, <3>1, <3>2, <3>3, OutcomeFacts DEF ReadRecord, IInv, TypeOK
  <2>5. RecordMinted' /\ OnlyCondemned' /\ RecordUsable'
    BY <2>1, <2>2, <2>3 DEF IInv, RecordMinted, OnlyCondemned, RecordUsable, Usable
  <2>6. Fresh' /\ Staged' /\ Apart'
    BY <2>1, <2>2, <2>3 DEF IInv, Fresh, Staged, Apart, Provisioning
  <2> QED
    BY <2>4, <2>5, <2>6 DEF IInv
<1> QED
  BY <1>1, <1>2

LEMMA MintStep ==
  ASSUME IInv, NEW r \in Requests, NEW c \in Certs, Mint(r, c) PROVE IInv'
<1>1. pc'[r] = "attachPolicy" /\ \A s \in Requests : s # r => pc'[s] = pc[s]
  BY GotoFacts DEF Mint, IInv
<1>2. cert'[r] = c /\ \A s \in Requests : s # r => cert'[s] = cert[s]
  BY DEF Mint, IInv, TypeOK
<1>3. c \notin minted /\ minted' = minted \cup {c} /\ active' = active \cup {c}
      /\ UNCHANGED <<device, record, thing, attached, policied, op, condemned>>
  BY DEF Mint
<1>4. c \notin condemned /\ c # record
  BY <1>3, CertificatesAssumption DEF IInv, TypeOK, RecordMinted, CertificatesAssumption
<1>5. TypeOK'
  <2>1. cert' \in [Requests -> Certs \cup {NoCert}]
    BY DEF Mint, IInv, TypeOK
  <2>2. pc' \in [Requests -> {"idle", "findRecord", "readRecord", "deleteThing", "createThing",
                              "mint", "done"} \cup Terminating \cup Provisioning]
    BY DEF Mint, Goto, IInv, TypeOK, Provisioning
  <2>3. \A s \in Requests : pc'[s] \in Terminating \cup Provisioning => cert'[s] \in minted'
    BY <1>1, <1>2, <1>3 DEF IInv, TypeOK
  <2> QED
    BY <1>3, <2>1, <2>2, <2>3, OutcomeFacts DEF Mint, IInv, TypeOK
<1>6. RecordMinted' /\ OnlyCondemned' /\ RecordUsable'
  BY <1>1, <1>2, <1>3 DEF IInv, RecordMinted, OnlyCondemned, RecordUsable, Usable, Terminating
<1>7. Fresh' /\ Staged'
  BY <1>1, <1>2, <1>3, <1>4 DEF IInv, Fresh, Staged
<1>8. Apart'
  <2>1. \A s \in Requests : pc[s] \in Provisioning => cert[s] # c
    BY <1>3 DEF IInv, TypeOK
  <2> QED
    BY <1>1, <1>2, <2>1 DEF IInv, Apart
<1> QED
  BY <1>5, <1>6, <1>7, <1>8 DEF IInv

LEMMA AttachPolicyStep == ASSUME IInv, NEW r \in Requests, AttachPolicy(r) PROVE IInv'
<1>1. pc'[r] = "attachThing" /\ \A s \in Requests : s # r => pc'[s] = pc[s]
  BY GotoFacts DEF AttachPolicy, IInv
<1>2. pc[r] \in Provisioning /\ "attachThing" \in Provisioning /\ "attachThing" \notin Terminating
  BY DEF AttachPolicy, Provisioning, Terminating
<1>3. TypeOK'
  <2>1. pc' \in [Requests -> {"idle", "findRecord", "readRecord", "deleteThing", "createThing",
                              "mint", "done"} \cup Terminating \cup Provisioning]
    BY <1>2 DEF AttachPolicy, Goto, IInv, TypeOK
  <2>2. \A s \in Requests : pc'[s] \in Terminating \cup Provisioning => cert'[s] \in minted'
    BY <1>1, <1>2 DEF AttachPolicy, IInv, TypeOK
  <2>3. policied' \subseteq minted'
    BY <1>2 DEF AttachPolicy, WithPolicy, IInv, TypeOK
  <2> QED
    BY <2>1, <2>2, <2>3, OutcomeFacts DEF AttachPolicy, IInv, TypeOK
<1>4. RecordMinted' /\ OnlyCondemned' /\ Fresh' /\ Apart'
  BY <1>1, <1>2 DEF AttachPolicy, IInv, RecordMinted, OnlyCondemned, Fresh, Apart
<1>5. Staged' /\ RecordUsable'
  BY <1>1 DEF AttachPolicy, WithPolicy, IInv, Staged, RecordUsable, Usable
<1> QED
  BY <1>3, <1>4, <1>5 DEF IInv

LEMMA AttachThingStep == ASSUME IInv, NEW r \in Requests, AttachThing(r) PROVE IInv'
<1>1. CASE ~thing
  BY <1>1, OutcomeFacts, PassingStep DEF AttachThing, IInv, TypeOK
<1>2. CASE thing
  <2>1. pc'[r] = "save" /\ \A s \in Requests : s # r => pc'[s] = pc[s]
    BY <1>2, GotoFacts DEF AttachThing, IInv
  <2>2. pc[r] \in Provisioning /\ "save" \in Provisioning /\ "save" \notin Terminating
    BY DEF AttachThing, Provisioning, Terminating
  <2>3. attached' = attached \cup {cert[r]}
    BY <1>2 DEF AttachThing
  <2>4. TypeOK'
    <3>1. pc' \in [Requests -> {"idle", "findRecord", "readRecord", "deleteThing", "createThing",
                                "mint", "done"} \cup Terminating \cup Provisioning]
      BY <1>2, <2>2 DEF AttachThing, Goto, IInv, TypeOK
    <3>2. \A s \in Requests : pc'[s] \in Terminating \cup Provisioning => cert'[s] \in minted'
      BY <2>1, <2>2 DEF AttachThing, IInv, TypeOK
    <3> QED
      BY <1>2, <2>2, <2>3, <3>1, <3>2, OutcomeFacts DEF AttachThing, IInv, TypeOK
  <2>5. RecordMinted' /\ OnlyCondemned' /\ Fresh' /\ Apart'
    BY <2>1, <2>2 DEF AttachThing, IInv, RecordMinted, OnlyCondemned, Fresh, Apart
  <2>6. Staged' /\ RecordUsable'
    BY <2>1, <2>3 DEF AttachThing, IInv, Staged, RecordUsable, Usable
  <2> QED
    BY <2>4, <2>5, <2>6 DEF IInv
<1> QED
  BY <1>1, <1>2 DEF IInv, TypeOK

LEMMA SaveRecordStep == ASSUME IInv, NEW r \in Requests, SaveRecord(r) PROVE IInv'
<1>1. CASE record # NoCert
  BY <1>1, OutcomeFacts, PassingStep DEF SaveRecord, aws, IInv, TypeOK
<1>2. CASE record = NoCert
  <2>1. pc'[r] = "done" /\ \A s \in Requests : s # r => pc'[s] = pc[s]
    BY GotoFacts DEF SaveRecord, IInv
  <2>2. pc[r] = "save" /\ "save" \in Provisioning /\ "done" \notin Provisioning
        /\ "done" \notin Terminating
    BY DEF SaveRecord, Provisioning, Terminating
  <2>3. record' = cert[r] /\ cert[r] \in minted /\ cert[r] \in Certs
    BY <1>2, <2>2 DEF SaveRecord, IInv, TypeOK
  <2>4. UNCHANGED <<device, thing, minted, active, attached, policied, op, cert, condemned>>
    BY DEF SaveRecord, aws
  <2>5. TypeOK'
    <3>1. pc' \in [Requests -> {"idle", "findRecord", "readRecord", "deleteThing", "createThing",
                                "mint", "done"} \cup Terminating \cup Provisioning]
      BY DEF SaveRecord, Goto, IInv, TypeOK
    <3>2. faulted' \subseteq Requests /\ raced' \subseteq Requests /\ overlapped' \subseteq Requests
         /\ failures' \in 0 .. MaxFailures
      BY <1>2, OutcomeFacts DEF SaveRecord
    <3> QED
      BY <2>1, <2>2, <2>3, <2>4, <3>1, <3>2 DEF IInv, TypeOK
  <2>6. RecordMinted' /\ OnlyCondemned' /\ Staged' /\ Apart'
    BY <2>1, <2>2, <2>3, <2>4 DEF IInv, RecordMinted, OnlyCondemned, Staged, Apart
  <2>7. Fresh'
    BY <2>1, <2>2, <2>3, <2>4 DEF IInv, Fresh, Apart
  <2>8. RecordUsable'
    BY <2>2, <2>3, <2>4 DEF IInv, Fresh, Staged, RecordUsable, Usable
  <2> QED
    BY <2>5, <2>6, <2>7, <2>8 DEF IInv
<1> QED
  BY <1>1, <1>2

LEMMA StepIInv == ASSUME IInv, NEW r \in Requests, Step(r) PROVE IInv'
<1>1. CASE FindRecord(r)
  BY <1>1, OutcomeFacts, PassingStep DEF FindRecord, aws, IInv, TypeOK
<1>2. CASE RemoveRecord(r)
  BY <1>2, OutcomeFacts, PassingStep DEF RemoveRecord, RecordRemoved, aws, IInv, TypeOK
<1>3. CASE DeleteThing(r)
  BY <1>3, OutcomeFacts, PassingStep DEF DeleteThing, IInv, TypeOK
<1>4. CASE CreateThing(r)
  BY <1>4, OutcomeFacts, PassingStep DEF CreateThing, IInv, TypeOK
<1>5. CASE Abort(r)
  BY <1>5, OutcomeFacts, PassingStep DEF Abort, aws, IInv, TypeOK
<1> QED
  BY <1>1, <1>2, <1>3, <1>4, <1>5, BeginStep, TerminateStep, ReadRecordStep, MintStep,
     AttachPolicyStep, AttachThingStep, SaveRecordStep DEF Step

LEMMA StutterIInv == ASSUME IInv, UNCHANGED vars PROVE IInv'
  BY DEF vars, aws, IInv, TypeOK, RecordMinted, OnlyCondemned, Fresh, Staged, Apart,
         RecordUsable, Usable

\* The inductive invariant holds in every reachable state.
LEMMA IInvHolds == Spec => []IInv
<1>1. IInv /\ [Next]_vars => IInv'
  BY StepIInv, StutterIInv DEF Next, Idle
<1> QED
  BY InitIInv, <1>1, PTL DEF Spec

\* The state stays within its types: in particular a request that terminates
\* or provisions has a certificate in hand that AWS minted.
THEOREM TypeCorrect == Spec => []TypeOK
<1>1. IInv => TypeOK
  BY DEF IInv
<1> QED
  BY IInvHolds, <1>1, PTL

\* A certificate on record works until its termination begins, however many
\* requests overlap and whatever fails.
THEOREM RecordWorks == Spec => []RecordUsable
<1>1. IInv => RecordUsable
  BY DEF IInv
<1> QED
  BY IInvHolds, <1>1, PTL

-----------------------------------------------------------------------------
(***************************************************************************)
(* The requests together implement CertificateOfRecord.  Its guards are    *)
(* what the invariant knows of the certificate in a request's hands.       *)
(***************************************************************************)

LEMMA InitRefines == Init => Registry!Init
  BY DEF Init, Registry!Init, Usables, Usable

\* Nothing that the registry shows has changed.
LEMMA Unseen ==
  ASSUME UNCHANGED <<record, active, attached, policied, condemned>>
  PROVE  UNCHANGED Registry!vars
  BY DEF Registry!vars, Usables, Usable

\* One certificate gets to be usable, or stays as it is.
LEMMA ProvisionRefines ==
  ASSUME IInv, NEW c \in Certs, c \notin condemned, c # record,
         UNCHANGED <<record, condemned>>,
         active' \in {active, active \cup {c}},
         attached' \in {attached, attached \cup {c}},
         policied' \in {policied, policied \cup {c}}
  PROVE  Registry!Next \/ UNCHANGED Registry!vars
<1>1. Usables' \in {Usables, Usables \cup {c}}
  BY DEF Usables, Usable
<1>2. CASE Usables' = Usables
  BY <1>2 DEF Registry!vars
<1>3. CASE Usables' = Usables \cup {c}
  <2>1. Registry!Provision(c)
    BY <1>3 DEF Registry!Provision
  <2> QED
    BY <2>1 DEF Registry!Next
<1> QED
  BY <1>1, <1>2, <1>3

\* A call of a termination: its certificate is condemned.
LEMMA SpoilRefines ==
  ASSUME IInv, NEW r \in Requests,
         DetachThing(r) \/ DetachPolicy(r) \/ Deactivate(r) \/ DeleteCert(r)
  PROVE  Registry!Next \/ UNCHANGED Registry!vars
<1>1. /\ active' \in {active, active \ {cert[r]}}
      /\ attached' \in {attached, attached \ {cert[r]}}
      /\ policied' \in {policied, policied \ {cert[r]}}
      /\ UNCHANGED <<record, condemned>> /\ pc[r] \in Terminating
  BY DEF DetachThing, DetachPolicy, Deactivate, Deactivated, DeleteCert, Swallow, Terminating
<1>2. cert[r] \in condemned /\ cert[r] \in Certs
  BY <1>1 DEF IInv, OnlyCondemned, TypeOK
<1>3. Usables' \in {Usables, Usables \ {cert[r]}}
  BY <1>1 DEF Usables, Usable
<1>4. CASE Usables' = Usables
  BY <1>1, <1>4 DEF Registry!vars
<1>5. CASE Usables' = Usables \ {cert[r]}
  <2>1. Registry!Spoil(cert[r])
    BY <1>1, <1>2, <1>5 DEF Registry!Spoil
  <2> QED
    BY <1>2, <2>1 DEF Registry!Next
<1> QED
  BY <1>3, <1>4, <1>5

LEMMA ReadRecordRefines ==
  ASSUME IInv, NEW r \in Requests, ReadRecord(r)
  PROVE  Registry!Next \/ UNCHANGED Registry!vars
<1>1. UNCHANGED <<record, active, attached, policied>>
  BY DEF ReadRecord, aws
<1>2. UNCHANGED Usables
  BY <1>1 DEF Usables, Usable
<1>3. CASE record = NoCert
  BY <1>1, <1>3, Unseen DEF ReadRecord
<1>4. CASE record # NoCert
  <2>1. Registry!Condemn
    BY <1>1, <1>2, <1>4 DEF ReadRecord, Registry!Condemn
  <2> QED
    BY <2>1 DEF Registry!Next
<1> QED
  BY <1>3, <1>4

\* Whoever strikes the record strikes the certificate that he has terminated.
LEMMA RemoveRecordRefines ==
  ASSUME IInv, NEW r \in Requests, RemoveRecord(r)
  PROVE  Registry!Next \/ UNCHANGED Registry!vars
<1>1. UNCHANGED <<active, attached, policied, condemned>> /\ cert[r] \in condemned
  BY DEF RemoveRecord, aws, IInv, OnlyCondemned, Terminating
<1>2. UNCHANGED Usables
  BY <1>1 DEF Usables, Usable
<1>3. CASE record = cert[r]
  <2>1. Registry!Strike
    BY <1>1, <1>2, <1>3 DEF RemoveRecord, RecordRemoved, Registry!Strike
  <2> QED
    BY <2>1 DEF Registry!Next
<1>4. CASE record # cert[r]
  BY <1>1, <1>4, Unseen DEF RemoveRecord, RecordRemoved
<1> QED
  BY <1>3, <1>4

\* Whoever saves a certificate has provisioned it in full.
LEMMA SaveRecordRefines ==
  ASSUME IInv, NEW r \in Requests, SaveRecord(r)
  PROVE  Registry!Next \/ UNCHANGED Registry!vars
<1>1. UNCHANGED <<active, attached, policied, condemned>> /\ pc[r] = "save"
  BY DEF SaveRecord, aws
<1>2. UNCHANGED Usables
  BY <1>1 DEF Usables, Usable
<1>3. cert[r] \in Usables /\ cert[r] \notin condemned /\ cert[r] \in Certs
  BY <1>1 DEF IInv, TypeOK, Fresh, Staged, Usables, Usable, Provisioning
<1>4. CASE record = NoCert
  <2>1. Registry!Store(cert[r])
    BY <1>1, <1>2, <1>3, <1>4 DEF SaveRecord, Registry!Store
  <2> QED
    BY <1>3, <2>1 DEF Registry!Next
<1>5. CASE record # NoCert
  BY <1>1, <1>5, Unseen DEF SaveRecord
<1> QED
  BY <1>4, <1>5

LEMMA StepRefines ==
  ASSUME IInv, NEW r \in Requests, Step(r)
  PROVE  Registry!Next \/ UNCHANGED Registry!vars
<1>1. CASE Create(r) \/ Rebuild(r) \/ Destroy(r) \/ FindRecord(r) \/ DeleteThing(r)
           \/ CreateThing(r) \/ Abort(r)
  <2>1. UNCHANGED <<record, active, attached, policied, condemned>>
    BY <1>1 DEF Create, Rebuild, Destroy, Begin, FindRecord, DeleteThing, CreateThing, Abort, aws
  <2> QED
    BY <2>1, Unseen
<1>2. CASE DetachThing(r) \/ DetachPolicy(r) \/ Deactivate(r) \/ DeleteCert(r)
  BY <1>2, SpoilRefines
<1>3. ASSUME NEW c \in Certs, Mint(r, c) PROVE Registry!Next \/ UNCHANGED Registry!vars
  <2>1. c \notin condemned /\ c # record
    BY <1>3, CertificatesAssumption DEF Mint, IInv, TypeOK, RecordMinted, CertificatesAssumption
  <2> QED
    BY <1>3, <2>1, ProvisionRefines DEF Mint
<1>4. CASE AttachPolicy(r) \/ AttachThing(r)
  <2>1. cert[r] \in Certs /\ cert[r] \notin condemned /\ cert[r] # record
    BY <1>4 DEF AttachPolicy, AttachThing, IInv, TypeOK, Fresh, Provisioning
  <2>2. /\ UNCHANGED <<record, condemned, active>>
        /\ attached' \in {attached, attached \cup {cert[r]}}
        /\ policied' \in {policied, policied \cup {cert[r]}}
    BY <1>4 DEF AttachPolicy, WithPolicy, AttachThing
  <2> QED
    BY <2>1, <2>2, ProvisionRefines
<1> QED
  BY <1>1, <1>2, <1>3, <1>4, ReadRecordRefines, RemoveRecordRefines, SaveRecordRefines DEF Step

\* However requests overlap and wherever they fail, only a certificate that works
\* is put on record, it works until its own termination begins, and only then does
\* it leave the record, for good: no request undoes what another one provisioned.
THEOREM RequestsImplementRegistry == Spec => ImplementsRegistry
<1>1. IInv /\ [Next]_vars => [Registry!Next]_(Registry!vars)
  <2>1. UNCHANGED vars => UNCHANGED <<record, active, attached, policied, condemned>>
    BY DEF vars, aws
  <2> QED
    BY <2>1, StepRefines, Unseen DEF Next, Idle
<1> QED
  BY InitRefines, IInvHolds, <1>1, PTL DEF Spec, ImplementsRegistry, Registry!Spec

-----------------------------------------------------------------------------
(* OrphansBounded, by counting.  A request that has minted a certificate,  *)
(* or that has not yet deactivated the one it terminates, holds it.  Loose *)
(* is every active certificate that nobody holds and that is not on        *)
(* record, or whose termination was begun and given up; each of them is    *)
(* paid for by a failure or a lost race.  The last part is what makes it   *)
(* inductive: a deactivation that fails is counted when it fails, and the  *)
(* record is removed later.                                                *)

Holding == Provisioning \cup {"detachThing", "detachPolicy", "deactivate"}

Held(c) == \E r \in Requests : pc[r] \in Holding /\ cert[r] = c

Loose == {c \in active : ~Held(c) /\ (c = record => c \in condemned)}

\* A request that lost a race is over.
LostIsOver == \A r \in raced : pc[r] = "done"

Counted ==
  /\ IsFiniteSet(active) /\ IsFiniteSet(raced)
  /\ LostIsOver
  /\ Cardinality(Loose) <= failures + Cardinality(raced)

\* A step that looses no certificate.
LEMMA NothingLoosed ==
  ASSUME TypeOK, TypeOK', Counted, IsFiniteSet(active'), LostIsOver', raced' = raced,
         failures <= failures', Loose' \subseteq Loose
  PROVE  Counted'
<1>1. IsFiniteSet(Loose)
  BY FS_Subset DEF Counted, Loose
<1>2. Cardinality(Loose') <= Cardinality(Loose) /\ IsFiniteSet(Loose')
  BY <1>1, FS_Subset
<1>3. /\ Cardinality(Loose) \in Nat /\ Cardinality(Loose') \in Nat /\ Cardinality(raced) \in Nat
      /\ failures \in Nat /\ failures' \in Nat
  BY <1>1, <1>2, FS_CardinalityType, CertificatesAssumption
  DEF Counted, TypeOK, CertificatesAssumption
<1> QED
  BY <1>2, <1>3 DEF Counted

\* A step that looses one certificate, for a failure or for a lost race.
LEMMA OneLoosed ==
  ASSUME TypeOK, TypeOK', Counted, IsFiniteSet(active'), LostIsOver',
         NEW c, Loose' \subseteq Loose \cup {c},
         \/ failures' = failures + 1 /\ raced' = raced
         \/ \E r : r \notin raced /\ raced' = raced \cup {r} /\ failures' = failures
  PROVE  Counted'
<1>1. IsFiniteSet(Loose)
  BY FS_Subset DEF Counted, Loose
<1>2. /\ IsFiniteSet(Loose \cup {c})
      /\ Cardinality(Loose \cup {c}) <= Cardinality(Loose) + 1
      /\ Cardinality(Loose) \in Nat
  <2>1. Cardinality(Loose) \in Nat
    BY <1>1, FS_CardinalityType
  <2>2. /\ IsFiniteSet(Loose \cup {c})
        /\ \/ Cardinality(Loose \cup {c}) = Cardinality(Loose)
           \/ Cardinality(Loose \cup {c}) = Cardinality(Loose) + 1
    BY <1>1, FS_AddElement
  <2> QED
    BY <2>1, <2>2
<1>3. Cardinality(Loose') <= Cardinality(Loose \cup {c}) /\ IsFiniteSet(Loose')
  BY <1>2, FS_Subset
<1>4. /\ Cardinality(Loose') \in Nat /\ Cardinality(Loose \cup {c}) \in Nat
      /\ Cardinality(raced) \in Nat /\ failures \in Nat /\ failures' \in Nat
  BY <1>2, <1>3, FS_CardinalityType, CertificatesAssumption
  DEF Counted, TypeOK, CertificatesAssumption
<1>5. CASE failures' = failures + 1 /\ raced' = raced
  BY <1>2, <1>3, <1>4, <1>5 DEF Counted
<1>6. CASE \E r : r \notin raced /\ raced' = raced \cup {r} /\ failures' = failures
  <2>1. IsFiniteSet(raced') /\ Cardinality(raced') = Cardinality(raced) + 1
    BY <1>6, FS_AddElement DEF Counted
  <2> QED
    BY <1>2, <1>3, <1>4, <1>6, <2>1 DEF Counted
<1> QED
  BY <1>5, <1>6

\* A request that moves leaves those over that were over, and the others'
\* certificates held.
LEMMA MovedFacts ==
  ASSUME TypeOK, NEW r \in Requests, NEW place, Goto(r, place), pc[r] # "done",
         LostIsOver, raced' \in {raced, raced \cup {r}}, raced' = raced \/ place = "done",
         cert' = cert
  PROVE  /\ LostIsOver' /\ r \notin raced
         /\ \A c : Held(c) => Held(c)' \/ c = cert[r]
         /\ place \in Holding => \A c : Held(c) => Held(c)'
         /\ pc[r] \notin Holding => \A c : Held(c) => Held(c)'
<1>1. pc'[r] = place /\ \A s \in Requests : s # r => pc'[s] = pc[s]
  BY GotoFacts
<1>2. r \notin raced /\ LostIsOver'
  BY <1>1 DEF LostIsOver, TypeOK
<1> QED
  BY <1>1, <1>2 DEF Held

\* What a call of a termination, or one that may be lost, leaves behind.
LEMMA CallCounted ==
  ASSUME IInv, IInv', Counted, NEW r \in Requests,
         \/ DetachThing(r) \/ DetachPolicy(r) \/ Deactivate(r) \/ DeleteCert(r)
         \/ AttachThing(r) \/ SaveRecord(r) \/ Abort(r)
  PROVE  Counted'
<1> USE DEF Holding, Provisioning
<1>1. TypeOK /\ TypeOK' /\ LostIsOver /\ IsFiniteSet(active) /\ failures \in Nat
  BY CertificatesAssumption DEF IInv, Counted, TypeOK, CertificatesAssumption
<1>2. CASE DetachThing(r) \/ DetachPolicy(r) \/ DeleteCert(r)
  <2>1. PICK place : Goto(r, place) /\ (place \in Holding \/ pc[r] \notin Holding) /\ pc[r] # "done"
    BY <1>2 DEF DetachThing, DetachPolicy, DeleteCert, Swallow
  <2>2. /\ UNCHANGED <<record, condemned, cert, active, raced>>
        /\ failures' = failures \/ failures' = failures + 1
    BY <1>2 DEF DetachThing, DetachPolicy, DeleteCert, Swallow, NoFailure, Fail
  <2>3. LostIsOver' /\ \A c : Held(c) => Held(c)'
    BY <1>1, <2>1, <2>2, MovedFacts
  <2>4. Loose' \subseteq Loose
    BY <2>2, <2>3 DEF Loose
  <2> QED
    BY <1>1, <2>2, <2>3, <2>4, NothingLoosed
<1>3. CASE Deactivate(r)
  <2>1. /\ UNCHANGED <<record, condemned, cert, raced>> /\ Goto(r, "deleteCert")
        /\ pc[r] = "deactivate"
        /\ \/ active' = active \ {cert[r]} /\ failures' = failures
           \/ active' = active /\ failures' = failures + 1
    BY <1>3 DEF Deactivate, Swallow, Deactivated, NoFailure, Fail
  <2>2. LostIsOver' /\ \A c : Held(c) => Held(c)' \/ c = cert[r]
    BY <1>1, <2>1, MovedFacts
  <2>3. IsFiniteSet(active')
    BY <1>1, <2>1, FS_Subset
  <2>4. CASE active' = active \ {cert[r]} /\ failures' = failures
    <3>1. Loose' \subseteq Loose
      BY <2>1, <2>2, <2>4 DEF Loose
    <3> QED
      BY <1>1, <2>1, <2>2, <2>3, <2>4, <3>1, NothingLoosed
  <2>5. CASE active' = active /\ failures' = failures + 1
    <3>1. Loose' \subseteq Loose \cup {cert[r]}
      BY <2>1, <2>2, <2>5 DEF Loose
    <3> QED
      BY <1>1, <2>1, <2>2, <2>3, <2>5, <3>1, OneLoosed
  <2> QED
    BY <2>1, <2>4, <2>5
<1>4. CASE AttachThing(r) \/ SaveRecord(r)
  <2>1. /\ UNCHANGED <<condemned, cert, active>> /\ pc[r] # "done" /\ pc[r] \in Provisioning
        /\ \/ record' = record /\ Goto(r, "save") /\ raced' = raced /\ failures' = failures
           \/ record' = record /\ Goto(r, "done") /\ raced' = raced \cup {r} /\ failures' = failures
           \/ /\ record = NoCert /\ record' = cert[r] /\ Goto(r, "done")
              /\ raced' = raced /\ failures' = failures
    BY <1>4 DEF AttachThing, SaveRecord, aws, NoFailure, LoseRace
  <2>2. CASE record' = record /\ Goto(r, "save") /\ raced' = raced /\ failures' = failures
    <3>1. LostIsOver' /\ \A c : Held(c) => Held(c)'
      BY <1>1, <2>1, <2>2, MovedFacts
    <3>2. Loose' \subseteq Loose
      BY <2>1, <2>2, <3>1 DEF Loose
    <3> QED
      BY <1>1, <2>1, <2>2, <3>1, <3>2, NothingLoosed
  <2>3. CASE record' = record /\ Goto(r, "done") /\ raced' = raced \cup {r} /\ failures' = failures
    <3>1. LostIsOver' /\ r \notin raced /\ \A c : Held(c) => Held(c)' \/ c = cert[r]
      BY <1>1, <2>1, <2>3, MovedFacts
    <3>2. Loose' \subseteq Loose \cup {cert[r]}
      BY <2>1, <2>3, <3>1 DEF Loose
    <3> QED
      BY <1>1, <2>1, <2>3, <3>1, <3>2, OneLoosed
  <2>4. CASE record = NoCert /\ record' = cert[r] /\ Goto(r, "done")
             /\ raced' = raced /\ failures' = failures
    <3>1. LostIsOver' /\ \A c : Held(c) => Held(c)' \/ c = cert[r]
      BY <1>1, <2>1, <2>4, MovedFacts
    <3>2. cert[r] \notin condemned /\ NoCert \notin active
      BY <1>1, <2>1, CertificatesAssumption DEF IInv, Fresh, TypeOK, CertificatesAssumption
    <3>3. Loose' \subseteq Loose
      BY <2>1, <2>4, <3>1, <3>2 DEF Loose
    <3> QED
      BY <1>1, <2>1, <2>4, <3>1, <3>3, NothingLoosed
  <2> QED
    BY <2>1, <2>2, <2>3, <2>4
<1>5. CASE Abort(r)
  <2>1. /\ UNCHANGED <<record, condemned, cert, active, raced>> /\ Goto(r, "done")
        /\ failures' = failures + 1 /\ pc[r] # "done"
    BY <1>5 DEF Abort, InFlight, aws, Fail
  <2>2. LostIsOver' /\ \A c : Held(c) => Held(c)' \/ c = cert[r]
    BY <1>1, <2>1, MovedFacts
  <2>3. Loose' \subseteq Loose \cup {cert[r]}
    BY <2>1, <2>2 DEF Loose
  <2> QED
    BY <1>1, <2>1, <2>2, <2>3, OneLoosed
<1> QED
  BY <1>2, <1>3, <1>4, <1>5

\* The other steps of a request loose nothing.
LEMMA QuietCounted ==
  ASSUME IInv, IInv', Counted, NEW r \in Requests,
         \/ Create(r) \/ Rebuild(r) \/ Destroy(r) \/ FindRecord(r) \/ ReadRecord(r)
         \/ RemoveRecord(r) \/ DeleteThing(r) \/ CreateThing(r) \/ AttachPolicy(r)
         \/ \E c \in Certs : Mint(r, c)
  PROVE  Counted'
<1> USE DEF Holding, Provisioning
<1>1. TypeOK /\ TypeOK' /\ LostIsOver /\ IsFiniteSet(active) /\ failures \in Nat
  BY CertificatesAssumption DEF IInv, Counted, TypeOK, CertificatesAssumption
<1>2. CASE Create(r) \/ Rebuild(r) \/ Destroy(r) \/ FindRecord(r) \/ DeleteThing(r) \/ CreateThing(r)
           \/ AttachPolicy(r) \/ (ReadRecord(r) /\ record = NoCert)
  <2>1. PICK place : Goto(r, place) /\ (place \in Holding \/ pc[r] \notin Holding) /\ pc[r] # "done"
    BY <1>2 DEF Create, Rebuild, Destroy, Begin, FindRecord, DeleteThing, CreateThing, AttachPolicy,
                ReadRecord
  <2>2. /\ UNCHANGED <<record, condemned, cert, active, raced>>
        /\ failures' = failures \/ failures' = failures + 1
    BY <1>2 DEF Create, Rebuild, Destroy, Begin, FindRecord, DeleteThing, CreateThing, AttachPolicy,
                ReadRecord, aws, NoFailure, Fail
  <2>3. LostIsOver' /\ \A c : Held(c) => Held(c)'
    BY <1>1, <2>1, <2>2, MovedFacts
  <2>4. Loose' \subseteq Loose
    BY <2>2, <2>3 DEF Loose
  <2> QED
    BY <1>1, <2>2, <2>3, <2>4, NothingLoosed
<1>3. CASE RemoveRecord(r)
  <2>1. PICK place : Goto(r, place)
    BY <1>3 DEF RemoveRecord
  <2>2. /\ UNCHANGED <<condemned, cert, active, raced, failures>> /\ pc[r] = "removeRecord"
        /\ record' = record \/ (record = cert[r] /\ record' = NoCert)
    BY <1>3 DEF RemoveRecord, RecordRemoved, aws, NoFailure
  <2>3. LostIsOver' /\ \A c : Held(c) => Held(c)'
    BY <1>1, <2>1, <2>2, MovedFacts
  <2>4. cert[r] \in condemned
    BY <2>2 DEF IInv, OnlyCondemned, Terminating
  <2>5. Loose' \subseteq Loose
    BY <2>2, <2>3, <2>4 DEF Loose
  <2> QED
    BY <1>1, <2>2, <2>3, <2>5, NothingLoosed
<1>4. CASE ReadRecord(r) /\ record # NoCert
  <2>1. /\ UNCHANGED <<record, active, raced, failures>> /\ pc[r] = "readRecord"
        /\ Goto(r, "detachThing") /\ cert' = [cert EXCEPT ![r] = record]
        /\ condemned' = condemned \cup {record}
    BY <1>4 DEF ReadRecord, CertOnRecord, aws, NoFailure
  <2>2. LostIsOver' /\ Held(record)' /\ \A k : Held(k) => Held(k)'
    <3>1. pc'[r] = "detachThing" /\ \A s \in Requests : s # r => pc'[s] = pc[s]
      BY <1>1, <2>1, GotoFacts
    <3>2. cert'[r] = record /\ \A s \in Requests : s # r => cert'[s] = cert[s]
      BY <1>1, <2>1 DEF TypeOK
    <3>3. LostIsOver'
      BY <1>1, <2>1, <3>1 DEF LostIsOver, TypeOK
    <3> QED
      BY <2>1, <3>1, <3>2, <3>3 DEF Held
  <2>3. Loose' \subseteq Loose
    BY <2>1, <2>2 DEF Loose
  <2> QED
    BY <1>1, <2>1, <2>2, <2>3, NothingLoosed
<1>5. CASE \E c \in Certs : Mint(r, c)
  <2>1. PICK c \in Certs : Mint(r, c)
    BY <1>5
  <2>2. /\ UNCHANGED <<record, condemned, raced, failures>> /\ pc[r] = "mint"
        /\ Goto(r, "attachPolicy") /\ cert' = [cert EXCEPT ![r] = c] /\ active' = active \cup {c}
    BY <2>1 DEF Mint, NoFailure
  <2>3. LostIsOver' /\ Held(c)' /\ \A k : Held(k) => Held(k)'
    <3>1. pc'[r] = "attachPolicy" /\ \A s \in Requests : s # r => pc'[s] = pc[s]
      BY <1>1, <2>2, GotoFacts
    <3>2. cert'[r] = c /\ \A s \in Requests : s # r => cert'[s] = cert[s]
      BY <1>1, <2>2 DEF TypeOK
    <3>3. LostIsOver'
      BY <1>1, <2>2, <3>1 DEF LostIsOver, TypeOK
    <3> QED
      BY <2>2, <3>1, <3>2, <3>3 DEF Held
  <2>4. IsFiniteSet(active')
    BY <1>1, <2>2, FS_AddElement
  <2>5. Loose' \subseteq Loose
    BY <2>2, <2>3 DEF Loose
  <2> QED
    BY <1>1, <2>2, <2>3, <2>4, <2>5, NothingLoosed
<1> QED
  BY <1>2, <1>3, <1>4, <1>5

LEMMA CountedHolds == Spec => []Counted
<1>1. Init => Counted
  <2> SUFFICES ASSUME Init PROVE Counted
    OBVIOUS
  <2>1. active = {} /\ raced = {} /\ failures = 0 /\ Loose = {}
    BY DEF Init, Loose
  <2> QED
    BY <2>1, FS_EmptySet DEF Counted, LostIsOver
<1>2. IInv /\ IInv' /\ Counted /\ [Next]_vars => Counted'
  <2>1. ASSUME Counted, UNCHANGED vars PROVE Counted'
    BY <2>1 DEF vars, aws, Counted, LostIsOver, Loose, Held
  <2> QED
    BY <2>1, CallCounted, QuietCounted DEF Next, Step, Idle
<1> QED
  BY IInvHolds, <1>1, <1>2, PTL DEF Spec

\* Every active certificate without a record is paid for by a failure or a lost
\* race, for any number of requests and overlaps.
THEOREM OrphansCounted == Spec => []OrphansBounded
<1>1. IInv /\ Counted => OrphansBounded
  <2> SUFFICES ASSUME IInv, Counted, InFlight = {} PROVE Cardinality(active \ {record}) <= failures + Cardinality(raced)
    BY DEF OrphansBounded
  <2>1. \A c : ~Held(c)
    BY DEF Held, Holding, Provisioning, InFlight
  <2>2. active \ {record} \subseteq Loose /\ IsFiniteSet(Loose)
    BY <2>1, FS_Subset DEF Loose, Counted
  <2>3. /\ Cardinality(active \ {record}) <= Cardinality(Loose)
        /\ Cardinality(active \ {record}) \in Nat /\ Cardinality(Loose) \in Nat
    BY <2>2, FS_Subset, FS_CardinalityType
  <2>4. failures \in Nat /\ Cardinality(raced) \in Nat
    BY FS_CardinalityType, CertificatesAssumption DEF IInv, TypeOK, Counted, CertificatesAssumption
  <2> QED
    BY <2>3, <2>4 DEF Counted
<1> QED
  BY IInvHolds, CountedHolds, <1>1, PTL

-----------------------------------------------------------------------------
(* InAgreement.  While nothing failed and nothing overlapped at most one   *)
(* request is in flight, and what it has done and not yet done follows     *)
(* from its place (Midway).                                                *)

AtRest ==
  /\ device <=> thing
  /\ device <=> record # NoCert
  /\ active = {record} \ {NoCert}
  /\ attached = active

Alone(r) == \A s \in Requests : s # r => pc[s] \in {"idle", "done"}

Midway(r) ==
  /\ device <=> op[r] # "destroy"
  /\ pc[r] \in {"findRecord", "deleteThing"} => op[r] = "destroy"
  /\ pc[r] \in {"createThing", "mint"} \cup Provisioning => op[r] # "destroy"
  /\ pc[r] # "createThing" => thing
  /\ pc[r] \in {"findRecord", "readRecord"} \cup Terminating => record # NoCert
  /\ pc[r] \in {"deleteThing", "createThing", "mint"} \cup Provisioning => record = NoCert
  /\ pc[r] \in Terminating => cert[r] = record
  /\ active = IF pc[r] \in {"findRecord", "readRecord", "detachThing", "detachPolicy", "deactivate"}
                THEN {record} ELSE IF pc[r] \in Provisioning THEN {cert[r]} ELSE {}
  /\ attached = IF pc[r] \in {"findRecord", "readRecord", "detachThing"}
                  THEN {record} ELSE IF pc[r] = "save" THEN {cert[r]} ELSE {}

Sequential ==
  failures = 0 /\ overlapped = {} =>
    /\ InFlight = {} => AtRest
    /\ \A r \in InFlight : Alone(r) /\ Midway(r)

\* The only request in flight moves on, or ends.
LEMMA AloneStep ==
  ASSUME TypeOK, NEW r \in Requests, Alone(r), NEW place, Goto(r, place), place # "idle",
         place = "done" => AtRest', place # "done" => Midway(r)'
  PROVE  Sequential'
<1>1. pc'[r] = place /\ \A s \in Requests : s # r => pc'[s] = pc[s]
  BY GotoFacts
<1>2. Alone(r)'
  BY <1>1 DEF Alone
<1>3. \A s \in InFlight' : s = r
  BY <1>2 DEF Alone, InFlight
<1>4. place = "done" => r \notin InFlight'
  BY <1>1 DEF InFlight
<1>5. place # "done" => r \in InFlight'
  BY <1>1 DEF InFlight
<1>6. CASE place = "done"
  BY <1>3, <1>4, <1>6 DEF Sequential
<1>7. CASE place # "done"
  <2>1. InFlight' = {r}
    BY <1>3, <1>5, <1>7
  <2>2. InFlight' # {} /\ \A s \in InFlight' : Alone(s)' /\ Midway(s)'
    BY <1>2, <1>7, <2>1
  <2> QED
    BY <2>2 DEF Sequential
<1> QED
  BY <1>6, <1>7

\* What a step of a request that has begun may assume.
LEMMA Underway ==
  ASSUME TypeOK, Sequential, failures' = 0, overlapped' = {}, NEW r \in Requests,
         pc[r] \notin {"idle", "done"}, NoFailure \/ Fail(r) \/ LoseRace(r)
  PROVE  Alone(r) /\ Midway(r) /\ ~Fail(r)
<1>1. failures \in Nat /\ overlapped = {}
  BY CertificatesAssumption DEF TypeOK, NoFailure, Fail, LoseRace, CertificatesAssumption
<1>2. ~Fail(r)
  BY <1>1 DEF Fail
<1>3. failures = 0 /\ r \in InFlight
  BY <1>2 DEF NoFailure, LoseRace, InFlight
<1> QED
  BY <1>1, <1>2, <1>3 DEF Sequential

LEMMA BeginSequential ==
  ASSUME TypeOK, Sequential, NEW r \in Requests, Create(r) \/ Rebuild(r) \/ Destroy(r)
  PROVE  Sequential'
<1> SUFFICES ASSUME failures' = 0, overlapped' = {} PROVE Sequential'
  BY DEF Sequential
<1>1. PICK what \in {"create", "rebuild", "destroy"},
           place \in {"createThing", "readRecord", "findRecord"} :
        /\ Begin(r, what, place)
        /\ what = "create" => ~device /\ device' /\ place = "createThing"
        /\ what = "rebuild" => device /\ device' /\ place = "readRecord"
        /\ what = "destroy" => device /\ ~device' /\ place = "findRecord"
  BY DEF Create, Rebuild, Destroy
<1>2. failures = 0 /\ overlapped = {} /\ InFlight = {}
  BY <1>1 DEF Begin, TypeOK
<1>3. AtRest /\ Alone(r)
  BY <1>2 DEF Sequential, Alone, InFlight
<1>4. /\ op'[r] = what /\ pc'[r] = place /\ Goto(r, place)
      /\ UNCHANGED <<record, thing, active, attached, cert>>
  BY <1>1 DEF Begin, aws, Goto, TypeOK
<1>5. Midway(r)'
  BY <1>1, <1>3, <1>4 DEF AtRest, Midway, Terminating, Provisioning, TypeOK
<1> QED
  BY <1>3, <1>4, <1>5, AloneStep

LEMMA TerminateSequential ==
  ASSUME TypeOK, Sequential, NEW r \in Requests,
         \/ FindRecord(r) \/ ReadRecord(r) \/ DetachThing(r) \/ DetachPolicy(r) \/ Deactivate(r)
         \/ DeleteCert(r) \/ RemoveRecord(r) \/ DeleteThing(r)
  PROVE  Sequential'
<1> SUFFICES ASSUME failures' = 0, overlapped' = {} PROVE Sequential'
  BY DEF Sequential
<1> USE DEF Terminating, Provisioning
<1>1. Alone(r) /\ Midway(r) /\ ~Fail(r)
  BY Underway
  DEF FindRecord, ReadRecord, DetachThing, DetachPolicy, Deactivate, DeleteCert, RemoveRecord,
      DeleteThing, Swallow
<1>2. ASSUME NEW place, Goto(r, place) PROVE pc'[r] = place
  BY <1>2, GotoFacts
<1>3. CASE FindRecord(r)
  <2>1. /\ Goto(r, "readRecord") /\ pc[r] = "findRecord"
        /\ UNCHANGED <<device, record, thing, active, attached, op, cert>>
    BY <1>1, <1>3 DEF FindRecord, Midway, aws
  <2>2. Midway(r)'
    BY <1>1, <1>2, <2>1 DEF Midway
  <2> QED
    BY <1>1, <2>1, <2>2, AloneStep
<1>4. CASE ReadRecord(r)
  <2>1. /\ Goto(r, "detachThing") /\ pc[r] = "readRecord" /\ cert'[r] = record
        /\ UNCHANGED <<device, record, thing, active, attached, op>>
    BY <1>1, <1>4 DEF ReadRecord, CertOnRecord, Midway, aws, TypeOK
  <2>2. Midway(r)'
    BY <1>1, <1>2, <2>1 DEF Midway
  <2> QED
    BY <1>1, <2>1, <2>2, AloneStep
<1>5. CASE DetachThing(r) \/ DetachPolicy(r) \/ Deactivate(r) \/ DeleteCert(r)
  <2>1. PICK next \in {"detachPolicy", "deactivate", "deleteCert", "removeRecord"} :
          /\ Goto(r, next)
          /\ UNCHANGED <<device, record, thing, op, cert>>
          /\ \/ /\ pc[r] = "detachThing" /\ next = "detachPolicy"
                /\ attached' = attached \ {cert[r]} /\ active' = active
             \/ pc[r] = "detachPolicy" /\ next = "deactivate" /\ attached' = attached /\ active' = active
             \/ /\ pc[r] = "deactivate" /\ next = "deleteCert"
                /\ active' = active \ {cert[r]} /\ attached' = attached
             \/ pc[r] = "deleteCert" /\ next = "removeRecord" /\ attached' = attached /\ active' = active
    BY <1>1, <1>5 DEF DetachThing, DetachPolicy, Deactivate, DeleteCert, Swallow, Deactivated
  <2>2. Midway(r)'
    BY <1>1, <1>2, <2>1 DEF Midway
  <2> QED
    BY <1>1, <2>1, <2>2, AloneStep
<1>6. CASE RemoveRecord(r)
  <2>1. PICK next \in {"deleteThing", "createThing"} :
          /\ Goto(r, next) /\ (next = "deleteThing" <=> op[r] = "destroy")
          /\ pc[r] = "removeRecord" /\ record' = NoCert
          /\ UNCHANGED <<device, thing, active, attached, op, cert>>
    BY <1>1, <1>6 DEF RemoveRecord, RecordRemoved, Midway, aws
  <2>2. Midway(r)'
    BY <1>1, <1>2, <2>1 DEF Midway
  <2> QED
    BY <1>1, <2>1, <2>2, AloneStep
<1>7. CASE DeleteThing(r)
  <2>1. /\ Goto(r, "done") /\ pc[r] = "deleteThing" /\ thing' = (thing /\ attached # {})
        /\ UNCHANGED <<device, record, active, attached, op, cert>>
    BY <1>1, <1>7 DEF DeleteThing
  <2>2. AtRest'
    BY <1>1, <2>1 DEF Midway, AtRest
  <2> QED
    BY <1>1, <2>1, <2>2, AloneStep
<1> QED
  BY <1>3, <1>4, <1>5, <1>6, <1>7

LEMMA ProvisionSequential ==
  ASSUME TypeOK, Sequential, NEW r \in Requests,
         \/ CreateThing(r) \/ AttachPolicy(r) \/ AttachThing(r) \/ SaveRecord(r) \/ Abort(r)
         \/ \E c \in Certs : Mint(r, c)
  PROVE  Sequential'
<1> SUFFICES ASSUME failures' = 0, overlapped' = {} PROVE Sequential'
  BY DEF Sequential
<1> USE DEF Terminating, Provisioning
<1>1. Alone(r) /\ Midway(r) /\ ~Fail(r)
  BY Underway DEF CreateThing, AttachPolicy, AttachThing, SaveRecord, Abort, Mint, InFlight
<1>2. ASSUME NEW place, Goto(r, place) PROVE pc'[r] = place
  BY <1>2, GotoFacts
<1>3. CASE CreateThing(r)
  <2>1. /\ Goto(r, "mint") /\ pc[r] = "createThing" /\ thing'
        /\ UNCHANGED <<device, record, active, attached, op, cert>>
    BY <1>3 DEF CreateThing
  <2>2. Midway(r)'
    BY <1>1, <1>2, <2>1 DEF Midway
  <2> QED
    BY <1>1, <2>1, <2>2, AloneStep
<1>4. CASE \E c \in Certs : Mint(r, c)
  <2>1. PICK c \in Certs :
          /\ Goto(r, "attachPolicy") /\ pc[r] = "mint" /\ cert'[r] = c /\ active' = active \cup {c}
          /\ UNCHANGED <<device, record, thing, attached, op>>
    BY <1>4 DEF Mint, TypeOK
  <2>2. Midway(r)'
    BY <1>1, <1>2, <2>1 DEF Midway
  <2> QED
    BY <1>1, <2>1, <2>2, AloneStep
<1>5. CASE AttachPolicy(r)
  <2>1. /\ Goto(r, "attachThing") /\ pc[r] = "attachPolicy"
        /\ UNCHANGED <<device, record, thing, active, attached, op, cert>>
    BY <1>5 DEF AttachPolicy
  <2>2. Midway(r)'
    BY <1>1, <1>2, <2>1 DEF Midway
  <2> QED
    BY <1>1, <2>1, <2>2, AloneStep
<1>6. CASE AttachThing(r)
  <2>1. /\ Goto(r, "save") /\ pc[r] = "attachThing" /\ attached' = attached \cup {cert[r]}
        /\ UNCHANGED <<device, record, thing, active, op, cert>>
    BY <1>1, <1>6 DEF AttachThing, Midway
  <2>2. Midway(r)'
    BY <1>1, <1>2, <2>1 DEF Midway
  <2> QED
    BY <1>1, <2>1, <2>2, AloneStep
<1>7. CASE SaveRecord(r)
  <2>1. /\ Goto(r, "done") /\ pc[r] = "save" /\ record' = cert[r]
        /\ UNCHANGED <<device, thing, active, attached>>
    BY <1>1, <1>7 DEF SaveRecord, Midway, aws
  <2>2. cert[r] # NoCert
    BY <2>1, CertificatesAssumption DEF TypeOK, CertificatesAssumption
  <2>3. AtRest'
    BY <1>1, <2>1, <2>2 DEF Midway, AtRest
  <2> QED
    BY <1>1, <2>1, <2>3, AloneStep
<1>8. CASE Abort(r)
  BY <1>1, <1>8 DEF Abort
<1> QED
  BY <1>3, <1>4, <1>5, <1>6, <1>7, <1>8

\* Requests that follow one another without a failure leave the database and
\* AWS in agreement, however many they are.
THEOREM DatabaseAgrees == Spec => []InAgreement
<1>1. Init => Sequential
  <2> SUFFICES ASSUME Init PROVE Sequential
    OBVIOUS
  <2>1. InFlight = {} /\ AtRest
    BY DEF Init, InFlight, AtRest
  <2> QED
    BY <2>1 DEF Sequential
<1>2. IInv /\ Sequential /\ [Next]_vars => Sequential'
  <2>1. ASSUME Sequential, UNCHANGED vars PROVE Sequential'
    BY <2>1 DEF vars, aws, Sequential, AtRest, Alone, Midway, InFlight
  <2> QED
    BY <2>1, BeginSequential, TerminateSequential, ProvisionSequential DEF Next, Step, Idle, IInv
<1>3. Sequential => InAgreement
  BY DEF Sequential, InAgreement, AtRest
<1> QED
  BY IInvHolds, <1>1, <1>2, <1>3, PTL DEF Spec
=============================================================================
