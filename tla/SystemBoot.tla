------------------------------ MODULE SystemBoot ------------------------------
(***************************************************************************)
(* How a container starts: ensureDefaultIdentity (services/aws.ts) and     *)
(* MqttClientManager.connect (mqtt/client.ts), called by index.ts.         *)
(*                                                                         *)
(* The system has an identity of its own with which it connects to the     *)
(* broker: a row of "identity", and a row of "certificate" with what AWS   *)
(* IoT made for it.  A container that finds no primary row makes one, and  *)
(* then a Thing, a certificate, a policy and the record, one awaited call  *)
(* after another; one that finds a row takes it as it is.  A call that     *)
(* throws ends the process (nothing catches it), and the container is      *)
(* started again.                                                          *)
(*                                                                         *)
(* AWS IoT and the database are external.  A certificate is minted once    *)
(* for each identity, and is known here by the identity it was made for.   *)
(***************************************************************************)
EXTENDS Naturals

CONSTANTS
  Containers,
  Identities,  \* the random strings that setDefaults may draw
  Nobody,      \* before an identity is known
  MaxDeaths    \* bound: calls that throw, and containers that die

ASSUME BootAssumption ==
  /\ Nobody \notin Identities
  /\ MaxDeaths \in Nat

VARIABLES
  at,         \* at[c]: the call container c makes next
  identity,   \* identity[c]: the local variable of ensureDefaultIdentity
  primaries,  \* rows of "identity"; all have primary = true
  records,    \* identities with a row in "certificate"
  thing,      \* the Thing SYSTEM_IDENTITY_NAME exists
  policy,     \* the policy AWS_IOT_POLICY_NAME exists
  minted,     \* identities for which AWS has an active certificate ...
  permitted,  \* ... that has the policy ...
  attached,   \* ... that is attached to the Thing
  maker,      \* maker[i]: the container that made identity i (history)
  cut,        \* identities whose maker ended before it had stored their record
              \* (history)
  deaths

\* what is left of the starts so far, in the database and in AWS
made == <<primaries, records, thing, policy, minted, permitted, attached, maker>>

bootVars == <<at, identity, made, cut, deaths>>

\* between the two saves
Incomplete == {"thing", "mint", "policy", "createPolicy", "attachPolicy", "record"}
Places == {"down", "find", "save", "attachThing", "connect", "up"} \cup Incomplete

Init ==
  /\ at = [c \in Containers |-> "down"]
  /\ identity = [c \in Containers |-> Nobody]
  /\ primaries = {} /\ records = {}
  /\ thing = FALSE /\ policy \in BOOLEAN
  /\ minted = {} /\ permitted = {} /\ attached = {}
  /\ maker = [i \in Identities |-> Nobody]
  /\ cut = {} /\ deaths = 0

-----------------------------------------------------------------------------
(***************************************************************************)
(* Seeded faults: what a plausible mistake would make of the definitions   *)
(* that follow.  No specification uses them.                               *)
(***************************************************************************)

\* the certificate's record is looked for instead of the identity
FindsOnRecord == records
\* the record is stored as soon as there is a certificate
RecordAtOnce == "record"
\* the certificate must be attached to the Thing as well
OnRecordAndAttached(c) == identity[c] \in records \cap attached
-----------------------------------------------------------------------------
Goto(c, place) == at' = [at EXCEPT ![c] = place]

\* The process starts, or is started again.
Start(c) ==
  /\ at[c] = "down"
  /\ Goto(c, "find")
  /\ UNCHANGED <<identity, made, cut, deaths>>

Found == primaries

\* findOne({ primary: true }) names no order: any primary row may come back.
FindIdentity(c) ==
  /\ at[c] = "find"
  /\ \/ /\ Found = {}
        /\ Goto(c, "save")
        /\ identity' = identity
     \/ \E i \in Found :
        /\ Goto(c, "connect")
        /\ identity' = [identity EXCEPT ![c] = i]
  /\ UNCHANGED <<made, cut, deaths>>

SaveIdentity(c, i) ==
  /\ at[c] = "save"
  /\ i \notin primaries
  /\ Goto(c, "thing")
  /\ identity' = [identity EXCEPT ![c] = i]
  /\ primaries' = primaries \cup {i}
  /\ maker' = [maker EXCEPT ![i] = c]
  /\ UNCHANGED <<records, thing, policy, minted, permitted, attached, cut, deaths>>

\* A Thing that exists already is as good.
CreateThing(c) ==
  /\ at[c] = "thing"
  /\ Goto(c, "mint")
  /\ thing' = TRUE
  /\ UNCHANGED <<identity, primaries, records, policy, minted, permitted, attached, maker, cut, deaths>>

AfterMint == "policy"

\* createCertificates: createKeysAndCertificate({ setAsActive: true })
Mint(c) ==
  /\ at[c] = "mint"
  /\ Goto(c, AfterMint)
  /\ minted' = minted \cup {identity[c]}
  /\ UNCHANGED <<identity, primaries, records, thing, policy, permitted, attached, maker, cut, deaths>>

\* ensurePolicyExists: a policy that is not there is created, unless another
\* container is faster: then createPolicy throws (Refuse).
GetPolicy(c) ==
  /\ at[c] = "policy"
  /\ Goto(c, IF policy THEN "attachPolicy" ELSE "createPolicy")
  /\ UNCHANGED <<identity, made, cut, deaths>>

CreatePolicy(c) ==
  /\ at[c] = "createPolicy"
  /\ ~policy
  /\ policy' = TRUE
  /\ Goto(c, "attachPolicy")
  /\ UNCHANGED <<identity, primaries, records, thing, minted, permitted, attached, maker, cut, deaths>>

AttachPolicy(c) ==
  /\ at[c] = "attachPolicy"
  /\ Goto(c, "record")
  /\ permitted' = permitted \cup {identity[c]}
  /\ UNCHANGED <<identity, primaries, records, thing, policy, minted, attached, maker, cut, deaths>>

\* Amazon's root certificate is fetched, and the record is stored.
SaveRecord(c) ==
  /\ at[c] = "record"
  /\ Goto(c, "attachThing")
  /\ records' = records \cup {identity[c]}
  /\ UNCHANGED <<identity, primaries, thing, policy, minted, permitted, attached, maker, cut, deaths>>

AttachThing(c) ==
  /\ at[c] = "attachThing"
  /\ thing
  /\ Goto(c, "connect")
  /\ attached' = attached \cup {identity[c]}
  /\ UNCHANGED <<identity, primaries, records, thing, policy, minted, permitted, maker, cut, deaths>>

OnRecord(c) == identity[c] \in records

\* The MQTT client is made from the record.
Connect(c) ==
  /\ at[c] = "connect"
  /\ OnRecord(c)
  /\ Goto(c, "up")
  /\ UNCHANGED <<identity, made, cut, deaths>>

Ended(c) ==
  /\ Goto(c, "down")
  /\ identity' = [identity EXCEPT ![c] = Nobody]
  /\ cut' = IF at[c] \in Incomplete THEN cut \cup {identity[c]} ELSE cut
  /\ UNCHANGED made

\* "No certificate found for identity", or a policy that exists by now.
Refuse(c) ==
  /\ \/ at[c] = "connect" /\ ~OnRecord(c)
     \/ at[c] = "createPolicy" /\ policy
  /\ Ended(c)
  /\ UNCHANGED deaths

\* Any other call that throws, or a container that dies.
Die(c) ==
  /\ at[c] # "down"
  /\ deaths < MaxDeaths
  /\ deaths' = deaths + 1
  /\ Ended(c)

BootStep(c) ==
  \/ Start(c) \/ FindIdentity(c) \/ (\E i \in Identities : SaveIdentity(c, i))
  \/ CreateThing(c) \/ Mint(c) \/ GetPolicy(c) \/ CreatePolicy(c) \/ AttachPolicy(c)
  \/ SaveRecord(c) \/ AttachThing(c) \/ Connect(c) \/ Refuse(c)

\* Every container is up and stays up.
Idle == (\A c \in Containers : at[c] = "up") /\ UNCHANGED bootVars

Next == (\E c \in Containers : BootStep(c) \/ Die(c)) \/ Idle

Spec == Init /\ [][Next]_bootVars

-----------------------------------------------------------------------------
(* Properties *)

TypeOK ==
  /\ at \in [Containers -> Places]
  /\ identity \in [Containers -> Identities \cup {Nobody}]
  /\ primaries \subseteq Identities
  /\ records \subseteq primaries
  /\ thing \in BOOLEAN /\ policy \in BOOLEAN
  /\ minted \subseteq primaries
  /\ permitted \subseteq minted
  /\ attached \subseteq records
  /\ maker \in [Identities -> Containers \cup {Nobody}]
  /\ cut \subseteq primaries
  /\ deaths \in 0 .. MaxDeaths

\* A container that is up connects with an identity of the database whose
\* certificate is active and has its policy, wherever the starts of this and of
\* other containers were cut short.
CertifiedWhenUp ==
  \A c \in Containers : at[c] = "up" =>
    identity[c] \in primaries \cap records \cap minted \cap permitted

\* Starts do not multiply identities: however often a container dies on its
\* way, it makes one at most, so there are two only if two containers looked
\* before either had saved.
OneIdentityEach ==
  \A i, j \in primaries : maker[i] = maker[j] => i = j

\* An identity goes without a certificate on record only while the start that made
\* it is on its way to store one, or because that start was cut short; a start
\* that finds an identity ends over a missing record for no other reason.
CertifiedUnlessCut ==
  \A i \in primaries \ records :
    i \in cut \/ \E c \in Containers : at[c] \in Incomplete /\ identity[c] = i

\* Every container is up at last, whether or not first starts overlap, unless
\* some start was cut short between its two saves: then a later start may find
\* that identity, which never gets a certificate.
ComesUp == (\A c \in Containers : <>[](at[c] = "up")) \/ <>(cut # {})
=============================================================================
