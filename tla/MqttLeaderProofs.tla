--------------------------- MODULE MqttLeaderProofs ---------------------------
(***************************************************************************)
(* Proofs about SystemBoot and MqttLeader, which extends it, for any       *)
(* number of containers, identities they may draw, handlers, deaths and    *)
(* closed connections, and either assumption about the elector.            *)
(***************************************************************************)
EXTENDS MqttLeader, TLAPS

-----------------------------------------------------------------------------
(* SystemBoot: the inductive invariant says what the place of a container   *)
(* vouches for (Vouched), since a record is stored for what the calls       *)
(* before it have done, and that a container about to save an identity has  *)
(* made none before (FirstSave).                                            *)

\* What has been done for the identity of a container that got this far, and
\* for every identity on record.
Vouched ==
  /\ records \subseteq permitted
  /\ \A c \in Containers :
       /\ at[c] \notin {"down", "find", "save"} => identity[c] \in primaries
       /\ at[c] \in {"policy", "createPolicy", "attachPolicy", "record"} => identity[c] \in minted
       /\ at[c] = "record" => identity[c] \in permitted
       /\ at[c] \in {"attachThing", "up"} => identity[c] \in records

\* Only who finds no identity at all makes one, and identities stay.
FirstSave == \A c \in Containers : at[c] = "save" => \A i \in primaries : maker[i] # c

IInv == TypeOK /\ Vouched /\ FirstSave /\ OneIdentityEach

LEMMA InitIInv == Init => IInv
<1> SUFFICES ASSUME Init PROVE IInv
  OBVIOUS
<1>1. TypeOK
  <2>1. /\ at \in [Containers -> Places]
        /\ identity \in [Containers -> Identities \cup {Nobody}]
        /\ maker \in [Identities -> Containers \cup {Nobody}]
    BY DEF Init, Places
  <2>2. thing \in BOOLEAN /\ policy \in BOOLEAN
    BY DEF Init
  <2>3. deaths \in 0 .. MaxDeaths
    BY BootAssumption DEF BootAssumption, Init
  <2>4. /\ primaries \subseteq Identities /\ records \subseteq primaries
        /\ minted \subseteq primaries /\ permitted \subseteq minted
        /\ attached \subseteq records /\ cut \subseteq primaries
    BY DEF Init
  <2> QED
    BY <2>1, <2>2, <2>3, <2>4 DEF TypeOK
<1>2. Vouched /\ FirstSave /\ OneIdentityEach
  BY DEF Init, Vouched, FirstSave, OneIdentityEach
<1> QED
  BY <1>1, <1>2 DEF IInv

\* Most steps move one container and add to the sets; they leave it to show
\* what the new place of that container vouches for.
LEMMA MoveOn ==
  ASSUME IInv, TypeOK', NEW c \in Containers,
         \A d \in Containers : d # c => at'[d] = at[d] /\ identity'[d] = identity[d],
         at'[c] # "save",
         primaries' = primaries, maker' = maker,
         records \subseteq records', minted \subseteq minted', permitted \subseteq permitted',
         records' \subseteq permitted',
         at'[c] \notin {"down", "find"} => identity'[c] \in primaries,
         at'[c] \in {"policy", "createPolicy", "attachPolicy", "record"} => identity'[c] \in minted',
         at'[c] = "record" => identity'[c] \in permitted',
         at'[c] \in {"attachThing", "up"} => identity'[c] \in records'
  PROVE  IInv'
<1>1. Vouched'
  <2> SUFFICES ASSUME NEW d \in Containers
               PROVE  /\ at'[d] \notin {"down", "find", "save"} => identity'[d] \in primaries'
                      /\ at'[d] \in {"policy", "createPolicy", "attachPolicy", "record"} => identity'[d] \in minted'
                      /\ at'[d] = "record" => identity'[d] \in permitted'
                      /\ at'[d] \in {"attachThing", "up"} => identity'[d] \in records'
    BY DEF Vouched
  <2>1. CASE d = c
    BY <2>1
  <2>2. CASE d # c
    BY <2>2 DEF IInv, Vouched
  <2> QED
    BY <2>1, <2>2
<1>2. FirstSave'
  BY DEF IInv, FirstSave
<1>3. OneIdentityEach'
  BY DEF IInv, OneIdentityEach
<1> QED
  BY <1>1, <1>2, <1>3 DEF IInv

LEMMA EndedIInv ==
  ASSUME IInv, NEW c \in Containers, Ended(c), deaths' \in 0 .. MaxDeaths
  PROVE  IInv'
<1>1. UNCHANGED <<primaries, records, thing, policy, minted, permitted, attached, maker>>
  BY DEF Ended, made
<1>2. /\ at' = [at EXCEPT ![c] = "down"] /\ identity' = [identity EXCEPT ![c] = Nobody]
      /\ cut' = IF at[c] \in Incomplete THEN cut \cup {identity[c]} ELSE cut
  BY DEF Ended, Goto
<1>3. cut' \subseteq primaries
  BY <1>2 DEF IInv, TypeOK, Vouched, Incomplete
<1>4. TypeOK'
  BY <1>1, <1>2, <1>3 DEF IInv, TypeOK, Places
<1> QED
  BY <1>1, <1>2, <1>4, MoveOn DEF IInv, TypeOK, Vouched

LEMMA BootStepIInv ==
  ASSUME IInv, NEW c \in Containers, BootStep(c)
  PROVE  IInv'
<1>1. TypeOK /\ Vouched /\ FirstSave /\ OneIdentityEach
  BY DEF IInv
<1>2. at \in [Containers -> Places] /\ identity \in [Containers -> Identities \cup {Nobody}]
  BY <1>1 DEF TypeOK
<1>3. ASSUME Start(c) PROVE IInv'
  <2>1. TypeOK'
    BY <1>1, <1>3 DEF TypeOK, Start, Goto, made, Places
  <2> QED
    BY <1>1, <1>2, <1>3, <2>1, MoveOn DEF Start, Goto, made, Vouched
<1>4. ASSUME FindIdentity(c) PROVE IInv'
  <2>1. UNCHANGED <<primaries, records, thing, policy, minted, permitted, attached, maker, cut, deaths>>
    BY <1>4 DEF FindIdentity, made
  <2>2. ASSUME primaries = {}, at' = [at EXCEPT ![c] = "save"], identity' = identity PROVE IInv'
    <3>1. TypeOK'
      BY <1>1, <2>1, <2>2 DEF TypeOK, Places
    <3>2. Vouched' /\ FirstSave' /\ OneIdentityEach'
      BY <1>1, <1>2, <2>1, <2>2 DEF Vouched, FirstSave, OneIdentityEach
    <3> QED
      BY <3>1, <3>2 DEF IInv
  <2>3. ASSUME NEW i \in primaries,
               at' = [at EXCEPT ![c] = "connect"], identity' = [identity EXCEPT ![c] = i]
        PROVE  IInv'
    <3>1. TypeOK'
      BY <1>1, <2>1, <2>3 DEF TypeOK, Places
    <3> QED
      BY <1>1, <1>2, <2>1, <2>3, <3>1, MoveOn DEF Vouched
  <2> QED
    BY <1>4, <2>2, <2>3 DEF FindIdentity, Found, Goto
<1>5. ASSUME NEW i \in Identities, SaveIdentity(c, i) PROVE IInv'
  <2>1. /\ at[c] = "save" /\ i \notin primaries
        /\ at' = [at EXCEPT ![c] = "thing"] /\ identity' = [identity EXCEPT ![c] = i]
        /\ primaries' = primaries \cup {i} /\ maker' = [maker EXCEPT ![i] = c]
        /\ UNCHANGED <<records, thing, policy, minted, permitted, attached, cut, deaths>>
    BY <1>5 DEF SaveIdentity, Goto
  <2>2. TypeOK'
    BY <1>1, <2>1 DEF TypeOK, Places, Incomplete
  <2>3. Vouched'
    BY <1>1, <1>2, <2>1 DEF Vouched
  <2>4. FirstSave'
    BY <1>1, <1>2, <2>1 DEF FirstSave, TypeOK
  <2>5. OneIdentityEach'
    BY <1>1, <2>1 DEF FirstSave, OneIdentityEach, TypeOK
  <2> QED
    BY <2>2, <2>3, <2>4, <2>5 DEF IInv
<1>6. ASSUME CreateThing(c) PROVE IInv'
  <2>1. TypeOK'
    BY <1>1, <1>6 DEF TypeOK, CreateThing, Goto, Places, Incomplete
  <2> QED
    BY <1>1, <1>2, <1>6, <2>1, MoveOn DEF CreateThing, Goto, Vouched
<1>7. ASSUME Mint(c) PROVE IInv'
  <2>1. identity[c] \in primaries
    BY <1>1, <1>7 DEF Mint, Vouched
  <2>2. TypeOK'
    BY <1>1, <1>7, <2>1 DEF TypeOK, Mint, Goto, AfterMint, Places, Incomplete
  <2> QED
    BY <1>1, <1>2, <1>7, <2>1, <2>2, MoveOn DEF Mint, Goto, AfterMint, Vouched
<1>8. ASSUME GetPolicy(c) PROVE IInv'
  <2>1. TypeOK'
    BY <1>1, <1>8 DEF TypeOK, GetPolicy, Goto, made, Places, Incomplete
  <2> QED
    BY <1>1, <1>2, <1>8, <2>1, MoveOn DEF GetPolicy, Goto, made, Vouched
<1>9. ASSUME CreatePolicy(c) PROVE IInv'
  <2>1. TypeOK'
    BY <1>1, <1>9 DEF TypeOK, CreatePolicy, Goto, Places, Incomplete
  <2> QED
    BY <1>1, <1>2, <1>9, <2>1, MoveOn DEF CreatePolicy, Goto, Vouched
<1>10. ASSUME AttachPolicy(c) PROVE IInv'
  <2>1. identity[c] \in minted /\ identity[c] \in primaries
    BY <1>1, <1>10 DEF AttachPolicy, Vouched
  <2>2. TypeOK'
    BY <1>1, <1>10, <2>1 DEF TypeOK, AttachPolicy, Goto, Places, Incomplete
  <2> QED
    BY <1>1, <1>2, <1>10, <2>1, <2>2, MoveOn DEF AttachPolicy, Goto, Vouched
<1>11. ASSUME SaveRecord(c) PROVE IInv'
  <2>1. identity[c] \in permitted /\ identity[c] \in primaries
    BY <1>1, <1>11 DEF SaveRecord, Vouched
  <2>2. TypeOK'
    BY <1>1, <1>11, <2>1 DEF TypeOK, SaveRecord, Goto, Places
  <2> QED
    BY <1>1, <1>2, <1>11, <2>1, <2>2, MoveOn DEF SaveRecord, Goto, Vouched
<1>12. ASSUME AttachThing(c) PROVE IInv'
  <2>1. identity[c] \in records /\ identity[c] \in primaries
    BY <1>1, <1>12 DEF AttachThing, Vouched
  <2>2. TypeOK'
    BY <1>1, <1>12, <2>1 DEF TypeOK, AttachThing, Goto, Places
  <2> QED
    BY <1>1, <1>2, <1>12, <2>1, <2>2, MoveOn DEF AttachThing, Goto, Vouched
<1>13. ASSUME Connect(c) PROVE IInv'
  <2>1. TypeOK'
    BY <1>1, <1>13 DEF TypeOK, Connect, Goto, made, Places
  <2> QED
    BY <1>1, <1>2, <1>13, <2>1, MoveOn DEF Connect, OnRecord, Goto, made, Vouched
<1>14. ASSUME Refuse(c) PROVE IInv'
  BY <1>1, <1>14, EndedIInv DEF Refuse, TypeOK
<1> QED
  BY <1>3, <1>4, <1>5, <1>6, <1>7, <1>8, <1>9, <1>10, <1>11, <1>12, <1>13, <1>14 DEF BootStep

LEMMA DieIInv == ASSUME IInv, NEW c \in Containers, Die(c) PROVE IInv'
  BY EndedIInv, BootAssumption DEF Die, IInv, TypeOK, BootAssumption

LEMMA QuietIInv == IInv /\ UNCHANGED bootVars => IInv'
  BY DEF bootVars, made, IInv, TypeOK, Vouched, FirstSave, OneIdentityEach

LEMMA Inductive == IInv /\ [Next]_bootVars => IInv'
  BY BootStepIInv, DieIInv, QuietIInv DEF Next, Idle

LEMMA IInvHolds == Spec => []IInv
  BY InitIInv, Inductive, PTL DEF Spec

\* A container is up only with a record, and a record is stored only for a
\* certificate with its policy.
LEMMA UpIsCertified == IInv => CertifiedWhenUp
  BY DEF IInv, TypeOK, Vouched, CertifiedWhenUp

\* A container that is about to store a record for its identity does so, or has
\* it cut off.
LEMMA StepCertified ==
  ASSUME IInv, CertifiedUnlessCut, NEW c \in Containers, BootStep(c) \/ Die(c)
  PROVE  CertifiedUnlessCut'
<1>1. TypeOK
  BY DEF IInv
<1>2. at \in [Containers -> Places] /\ identity \in [Containers -> Identities \cup {Nobody}]
  BY <1>1 DEF TypeOK
<1>3. ASSUME UNCHANGED <<primaries, records>>, cut \subseteq cut',
             \A d \in Containers : d # c => at'[d] = at[d] /\ identity'[d] = identity[d],
             at[c] \in Incomplete =>
               (at'[c] \in Incomplete /\ identity'[c] = identity[c]) \/ identity[c] \in cut'
      PROVE  CertifiedUnlessCut'
  <2> SUFFICES ASSUME NEW i \in primaries \ records
               PROVE  i \in cut' \/ \E d \in Containers : at'[d] \in Incomplete /\ identity'[d] = i
    BY <1>3 DEF CertifiedUnlessCut
  <2>1. CASE i \in cut
    BY <1>3, <2>1
  <2>2. ASSUME NEW d \in Containers, at[d] \in Incomplete, identity[d] = i
        PROVE  i \in cut' \/ \E e \in Containers : at'[e] \in Incomplete /\ identity'[e] = i
    BY <1>3, <2>2
  <2> QED
    BY <2>1, <2>2 DEF CertifiedUnlessCut
<1>4. ASSUME Ended(c) PROVE CertifiedUnlessCut'
  BY <1>2, <1>3, <1>4 DEF Ended, Goto, made
<1>5. ASSUME NEW i \in Identities, SaveIdentity(c, i) PROVE CertifiedUnlessCut'
  <2>1. /\ at[c] = "save" /\ at' = [at EXCEPT ![c] = "thing"] /\ identity' = [identity EXCEPT ![c] = i]
        /\ primaries' = primaries \cup {i} /\ UNCHANGED <<records, cut>>
    BY <1>5 DEF SaveIdentity, Goto
  <2>2. at'[c] \in Incomplete /\ identity'[c] = i /\ at[c] \notin Incomplete
    BY <1>2, <2>1 DEF Incomplete
  <2>3. \A d \in Containers : d # c => at'[d] = at[d] /\ identity'[d] = identity[d]
    BY <1>2, <2>1
  <2>4. \A d \in Containers : at[d] \in Incomplete => at'[d] = at[d] /\ identity'[d] = identity[d]
    BY <2>2, <2>3
  <2>5. ASSUME NEW j \in primaries' \ records', j # i
        PROVE  j \in cut' \/ \E d \in Containers : at'[d] \in Incomplete /\ identity'[d] = j
    BY <2>1, <2>4, <2>5 DEF CertifiedUnlessCut
  <2> QED
    BY <2>2, <2>5 DEF CertifiedUnlessCut
<1>6. ASSUME SaveRecord(c) PROVE CertifiedUnlessCut'
  <2>1. /\ at' = [at EXCEPT ![c] = "attachThing"] /\ records' = records \cup {identity[c]}
        /\ UNCHANGED <<identity, primaries, cut>>
    BY <1>6 DEF SaveRecord, Goto
  <2>2. \A d \in Containers : d # c => at'[d] = at[d]
    BY <1>2, <2>1
  <2> SUFFICES ASSUME NEW i \in primaries' \ records'
               PROVE  i \in cut' \/ \E d \in Containers : at'[d] \in Incomplete /\ identity'[d] = i
    BY DEF CertifiedUnlessCut
  <2>3. i \in primaries \ records /\ i # identity[c]
    BY <2>1
  <2>4. i \in cut \/ \E d \in Containers : at[d] \in Incomplete /\ identity[d] = i
    BY <2>3 DEF CertifiedUnlessCut
  <2> QED
    BY <2>1, <2>2, <2>3, <2>4
<1>7. ASSUME Start(c) \/ FindIdentity(c) \/ AttachThing(c) \/ Connect(c) PROVE CertifiedUnlessCut'
  <2>1. /\ UNCHANGED <<primaries, records, cut>> /\ at[c] \notin Incomplete
        /\ \A d \in Containers : d # c => at'[d] = at[d] /\ identity'[d] = identity[d]
    BY <1>2, <1>7 DEF Start, FindIdentity, AttachThing, Connect, Goto, made, Incomplete
  <2> QED
    BY <1>3, <2>1
<1>8. ASSUME CreateThing(c) \/ Mint(c) \/ GetPolicy(c) \/ CreatePolicy(c) \/ AttachPolicy(c)
      PROVE  CertifiedUnlessCut'
  <2>1. /\ UNCHANGED <<identity, primaries, records, cut>> /\ at'[c] \in Incomplete
        /\ \A d \in Containers : d # c => at'[d] = at[d]
    BY <1>2, <1>8 DEF CreateThing, Mint, AfterMint, GetPolicy, CreatePolicy, AttachPolicy, Goto, made, Incomplete
  <2> QED
    BY <1>3, <2>1
<1> QED
  BY <1>4, <1>5, <1>6, <1>7, <1>8 DEF BootStep, Die, Refuse

LEMMA InitCertified == Init => CertifiedUnlessCut
  BY DEF Init, CertifiedUnlessCut

LEMMA QuietCertified ==
  CertifiedUnlessCut /\ UNCHANGED <<at, identity, made, cut>> => CertifiedUnlessCut'
  BY DEF CertifiedUnlessCut, made

\* The variables of SystemBoot keep their types: AWS and the database hold
\* nothing for an identity that is not stored.
THEOREM TypeCorrect == Spec => []TypeOK
<1>1. IInv => TypeOK
  BY DEF IInv
<1> QED
  BY <1>1, IInvHolds, PTL

\* Whatever starts were cut short where, a container that is up has an identity
\* with an active certificate and its policy.
THEOREM StartsCertified == Spec => []CertifiedWhenUp
  BY UpIsCertified, IInvHolds, PTL

\* However often it is started, a container makes one identity at most.
THEOREM OneIdentityPerContainer == Spec => []OneIdentityEach
<1>1. IInv => OneIdentityEach
  BY DEF IInv
<1> QED
  BY <1>1, IInvHolds, PTL

-----------------------------------------------------------------------------
(* MqttLeader: a container's session and its client agree while it is       *)
(* online (InStep); what the client was asked for last is to subscribe only *)
(* while its elector leads and is heard (Honest); and the shutdown of a     *)
(* first connection, which the excuse of a closed one does not cover,       *)
(* strikes an elector that cannot lead yet (FirstConnection).               *)

Excused(c) == troubled[c] \/ (~tells /\ closed[c])

InStep(c) == online[c] => (subscribed[c] <=> asked[c])

Honest(c) == asked[c] => (leader = c /\ bound[c] > 0) \/ Excused(c)

\* Before a process has lost a connection, its handlers do not overlap, and its
\* elector takes no part in the election before the first of them initializes it.
FirstConnection(c) ==
  ~closed[c] =>
    /\ \A g, h \in Handlers : handler[c][g] # "idle" /\ handler[c][h] # "idle" => g = h
    /\ \A h \in Handlers : handler[c][h] # "closing"
    /\ \A h \in Handlers : handler[c][h] = "shutdown" => leader # c /\ ~running[c]
    /\ ~online[c] => /\ leader # c /\ ~running[c]
                     /\ \A h \in Handlers : handler[c][h] = "idle"

LInv ==
  /\ LeaderTypeOK
  /\ \A c \in Containers : InStep(c) /\ Honest(c) /\ FirstConnection(c)

LEMMA InitLInv == SystemInit => LInv
<1> SUFFICES ASSUME SystemInit PROVE LInv
  OBVIOUS
<1>1. LeaderTypeOK
  <2>1. /\ online \in [Containers -> BOOLEAN] /\ running \in [Containers -> BOOLEAN]
        /\ asked \in [Containers -> BOOLEAN] /\ subscribed \in [Containers -> BOOLEAN]
        /\ closed \in [Containers -> BOOLEAN] /\ troubled \in [Containers -> BOOLEAN]
        /\ late \in [Containers -> BOOLEAN]
    BY DEF SystemInit
  <2>2. tells \in BOOLEAN /\ eager \in BOOLEAN
    BY DEF SystemInit
  <2>3. /\ handler \in [Containers -> [Handlers -> {"idle", "shutdown", "init", "closing"}]]
        /\ bound \in [Containers -> 0 .. MaxBound]
        /\ leader \in Containers \cup {Nobody, Ghost}
        /\ closes \in 0 .. MaxCloses
    BY LeaderAssumption DEF SystemInit, MaxBound, LeaderAssumption
  <2> QED
    BY <2>1, <2>2, <2>3 DEF LeaderTypeOK
<1>2. ASSUME NEW c \in Containers PROVE InStep(c) /\ Honest(c) /\ FirstConnection(c)
  BY <1>2, LeaderAssumption
  DEF SystemInit, InStep, Honest, FirstConnection, LeaderAssumption
<1> QED
  BY <1>1, <1>2 DEF LInv

\* A step of container c that gives up or takes the lead at most for itself
\* does not concern the others.
LEMMA OneContainer ==
  ASSUME LInv, LeaderTypeOK', NEW c \in Containers, tells' = tells,
         leader' = leader \/ {leader, leader'} \subseteq {c, Nobody, Ghost},
         \A d \in Containers : d # c =>
           /\ online'[d] = online[d] /\ subscribed'[d] = subscribed[d] /\ asked'[d] = asked[d]
           /\ handler'[d] = handler[d] /\ bound'[d] = bound[d] /\ running'[d] = running[d]
           /\ closed'[d] = closed[d] /\ troubled'[d] = troubled[d],
         InStep(c)', Honest(c)', FirstConnection(c)'
  PROVE  LInv'
<1>1. Nobody \notin Containers /\ Ghost \notin Containers
  BY LeaderAssumption DEF LeaderAssumption
<1>2. ASSUME NEW d \in Containers, d # c PROVE InStep(d)' /\ Honest(d)' /\ FirstConnection(d)'
  <2>1. InStep(d) /\ Honest(d) /\ FirstConnection(d)
    BY DEF LInv
  <2>2. leader' = d <=> leader = d
    BY <1>1, <1>2
  <2> QED
    BY <1>2, <2>1, <2>2 DEF InStep, Honest, FirstConnection, Excused
<1> QED
  BY <1>2 DEF LInv

\* asked and subscribed after the client is asked for something.
LEMMA AskFacts ==
  ASSUME LeaderTypeOK, NEW c \in Containers, NEW what \in BOOLEAN, Ask(c, what)
  PROVE  /\ asked' \in [Containers -> BOOLEAN] /\ subscribed' \in [Containers -> BOOLEAN]
         /\ asked'[c] <=> what
         /\ online[c] => (subscribed'[c] <=> what)
         /\ \A d \in Containers : d # c => asked'[d] = asked[d] /\ subscribed'[d] = subscribed[d]
  BY DEF Ask, LeaderTypeOK

LEMMA ConnectedLInv ==
  ASSUME LInv, NEW c \in Containers, NEW h \in Handlers, Connected(c, h)
  PROVE  LInv'
<1>1. LeaderTypeOK /\ InStep(c) /\ Honest(c) /\ FirstConnection(c)
  BY DEF LInv
<1>2. /\ ~online[c]
      /\ online' = [online EXCEPT ![c] = TRUE]
      /\ subscribed' = [subscribed EXCEPT ![c] = asked[c]]
      /\ handler' = [handler EXCEPT ![c][h] = "shutdown"]
      /\ UNCHANGED <<asked, running, leader, bound, tells, eager, closed, troubled, late, closes>>
  BY DEF Connected, InHandler, electorVars
<1>3. LeaderTypeOK'
  BY <1>1, <1>2 DEF LeaderTypeOK
<1>4. InStep(c)' /\ Honest(c)'
  BY <1>1, <1>2 DEF LeaderTypeOK, InStep, Honest, Excused
<1>5. FirstConnection(c)'
  BY <1>1, <1>2 DEF LeaderTypeOK, FirstConnection
<1>6. \A d \in Containers : d # c =>
        online'[d] = online[d] /\ subscribed'[d] = subscribed[d] /\ handler'[d] = handler[d]
  BY <1>1, <1>2 DEF LeaderTypeOK
<1> QED
  BY <1>2, <1>3, <1>4, <1>5, <1>6, OneContainer

LEMMA ClosedLInv ==
  ASSUME LInv, NEW c \in Containers, NEW h \in Handlers, Closed(c, h)
  PROVE  LInv'
<1>1. LeaderTypeOK /\ InStep(c) /\ Honest(c) /\ FirstConnection(c)
  BY DEF LInv
<1>2. /\ closes < MaxCloses /\ closes' = closes + 1
      /\ online' = [online EXCEPT ![c] = FALSE]
      /\ closed' = [closed EXCEPT ![c] = TRUE]
      /\ handler' = [handler EXCEPT ![c][h] = "closing"]
      /\ UNCHANGED <<asked, subscribed, running, leader, bound, tells, eager, troubled, late>>
  BY DEF Closed, InHandler, electorVars
<1>3. closes' \in 0 .. MaxCloses
  BY <1>1, <1>2, LeaderAssumption DEF LeaderTypeOK, LeaderAssumption
<1>4. LeaderTypeOK'
  BY <1>1, <1>2, <1>3 DEF LeaderTypeOK
<1>5. InStep(c)' /\ Honest(c)' /\ FirstConnection(c)'
  BY <1>1, <1>2 DEF LeaderTypeOK, InStep, Honest, FirstConnection, Excused
<1>6. \A d \in Containers : d # c =>
        online'[d] = online[d] /\ closed'[d] = closed[d] /\ handler'[d] = handler[d]
  BY <1>1, <1>2 DEF LeaderTypeOK
<1> QED
  BY <1>2, <1>4, <1>5, <1>6, OneContainer

\* What follows a shutdown frees the handler or takes it on to init.
LEMMA AfterShutdownFacts ==
  ASSUME LeaderTypeOK, NEW c \in Containers, NEW h \in Handlers,
         ShuttingDown(c, h), AfterShutdown(c, h)
  PROVE  /\ handler' \in [Containers -> [Handlers -> {"idle", "shutdown", "init", "closing"}]]
         /\ bound' \in [Containers -> 0 .. MaxBound]
         /\ handler'[c][h] \in {"idle", "init"}
         /\ \A g \in Handlers : g # h => handler'[c][g] = handler[c][g]
         /\ \A d \in Containers : d # c => handler'[d] = handler[d] /\ bound'[d] = bound[d]
         /\ bound'[c] # bound[c] => handler[c][h] = "shutdown"
<1>1. handler[c] \in [Handlers -> {"idle", "shutdown", "init", "closing"}] /\ bound[c] \in 0 .. 2
  BY DEF LeaderTypeOK, MaxBound
<1>2. CASE handler[c][h] = "shutdown"
  <2>1. /\ handler' = [handler EXCEPT ![c][h] = "init"]
        /\ bound' = [bound EXCEPT ![c] = IF bound[c] = 0 THEN 0 ELSE bound[c] - 1]
    BY <1>2 DEF AfterShutdown, InHandler
  <2>2. (IF bound[c] = 0 THEN 0 ELSE bound[c] - 1) \in 0 .. 2
    BY <1>1
  <2> QED
    BY <1>1, <1>2, <2>1, <2>2 DEF LeaderTypeOK, MaxBound
<1>3. CASE handler[c][h] # "shutdown"
  <2>1. handler' = [handler EXCEPT ![c][h] = "idle"] /\ bound' = bound
    BY <1>3 DEF AfterShutdown, InHandler
  <2> QED
    BY <1>1, <1>3, <2>1 DEF LeaderTypeOK
<1> QED
  BY <1>2, <1>3

LEMMA ShutdownLInv ==
  ASSUME LInv, NEW c \in Containers, NEW h \in Handlers, Shutdown(c, h)
  PROVE  LInv'
<1>1. LeaderTypeOK /\ InStep(c) /\ Honest(c) /\ FirstConnection(c)
  BY DEF LInv
<1>2. /\ ShuttingDown(c, h) /\ AfterShutdown(c, h)
      /\ running' = [running EXCEPT ![c] = FALSE]
      /\ leader' = IF leader = c THEN Nobody ELSE leader
      /\ late' = [late EXCEPT ![c] = late[c] \/ (handler[c][h] = "closing" /\ online[c])]
      /\ UNCHANGED <<online, tells, eager, closed, troubled, closes>>
  BY DEF Shutdown
<1>3. \/ leader = c /\ tells /\ bound[c] > 0 /\ Ask(c, FALSE)
      \/ ~(leader = c /\ tells /\ bound[c] > 0) /\ UNCHANGED <<asked, subscribed>>
  BY DEF Shutdown, Heard, Unsubscribe
<1>4. /\ handler' \in [Containers -> [Handlers -> {"idle", "shutdown", "init", "closing"}]]
      /\ bound' \in [Containers -> 0 .. MaxBound]
      /\ handler'[c][h] \in {"idle", "init"}
      /\ \A g \in Handlers : g # h => handler'[c][g] = handler[c][g]
      /\ \A d \in Containers : d # c => handler'[d] = handler[d] /\ bound'[d] = bound[d]
  BY <1>1, <1>2, AfterShutdownFacts
<1>5. /\ asked' \in [Containers -> BOOLEAN] /\ subscribed' \in [Containers -> BOOLEAN]
      /\ \A d \in Containers : d # c => asked'[d] = asked[d] /\ subscribed'[d] = subscribed[d]
      /\ leader = c /\ tells /\ bound[c] > 0 => ~asked'[c]
      /\ asked'[c] => asked[c]
      /\ InStep(c)'
  <2>1. CASE Ask(c, FALSE)
    BY <1>1, <1>2, <2>1, AskFacts DEF InStep
  <2>2. CASE ~(leader = c /\ tells /\ bound[c] > 0) /\ UNCHANGED <<asked, subscribed>>
    BY <1>1, <1>2, <2>2 DEF LeaderTypeOK, InStep
  <2> QED
    BY <1>3, <2>1, <2>2
<1>6. LeaderTypeOK'
  <2>1. late' \in [Containers -> BOOLEAN] /\ running' \in [Containers -> BOOLEAN]
    BY <1>1, <1>2 DEF LeaderTypeOK
  <2> QED
    BY <1>1, <1>2, <1>4, <1>5, <2>1 DEF LeaderTypeOK
<1>7. Honest(c)'
  <2> SUFFICES ASSUME asked'[c], ~Excused(c) PROVE FALSE
    BY <1>2 DEF Honest, Excused
  <2>1. leader = c /\ bound[c] > 0 /\ asked[c]
    BY <1>1, <1>5 DEF Honest
  <2>2. ~tells /\ ~closed[c]
    BY <1>1, <1>5, <2>1 DEF Excused, LeaderTypeOK
  <2> QED
    BY <1>1, <1>2, <2>1, <2>2 DEF FirstConnection, ShuttingDown
<1>8. FirstConnection(c)'
  <2>1. running'[c] = FALSE /\ leader' # c
    BY <1>1, <1>2, LeaderAssumption DEF LeaderTypeOK, LeaderAssumption
  <2> QED
    BY <1>1, <1>2, <1>4, <2>1 DEF FirstConnection, ShuttingDown
<1>9. \A d \in Containers : d # c => running'[d] = running[d]
  BY <1>1, <1>2 DEF LeaderTypeOK
<1> QED
  BY <1>2, <1>4, <1>5, <1>6, <1>7, <1>8, <1>9, OneContainer

LEMMA ShutdownThrowsLInv ==
  ASSUME LInv, NEW c \in Containers, NEW h \in Handlers, ShutdownThrows(c, h)
  PROVE  LInv'
<1>1. LeaderTypeOK /\ InStep(c) /\ Honest(c) /\ FirstConnection(c)
  BY DEF LInv
<1>2. /\ ShuttingDown(c, h) /\ AfterShutdown(c, h)
      /\ troubled' = [troubled EXCEPT ![c] = TRUE]
      /\ UNCHANGED <<online, asked, subscribed, running, leader, tells, eager, closed, late, closes>>
  BY DEF ShutdownThrows, clientVars, electorVars
<1>3. /\ handler' \in [Containers -> [Handlers -> {"idle", "shutdown", "init", "closing"}]]
      /\ bound' \in [Containers -> 0 .. MaxBound]
      /\ handler'[c][h] \in {"idle", "init"}
      /\ \A g \in Handlers : g # h => handler'[c][g] = handler[c][g]
      /\ \A d \in Containers : d # c => handler'[d] = handler[d] /\ bound'[d] = bound[d]
  BY <1>1, <1>2, AfterShutdownFacts
<1>4. troubled' \in [Containers -> BOOLEAN] /\ troubled'[c] /\ \A d \in Containers : d # c => troubled'[d] = troubled[d]
  BY <1>1, <1>2 DEF LeaderTypeOK
<1>5. LeaderTypeOK'
  BY <1>1, <1>2, <1>3, <1>4 DEF LeaderTypeOK
<1>6. InStep(c)' /\ Honest(c)'
  BY <1>1, <1>2, <1>4 DEF InStep, Honest, Excused
<1>7. FirstConnection(c)'
  BY <1>1, <1>2, <1>3 DEF FirstConnection, ShuttingDown
<1> QED
  BY <1>2, <1>3, <1>4, <1>5, <1>6, <1>7, OneContainer

\* A handler ends, and the listeners are bound once more.
LEMMA BindLInv ==
  ASSUME LInv, NEW c \in Containers, NEW h \in Handlers, handler[c][h] = "init",
         InHandler(c, h, "idle"), bound' = [bound EXCEPT ![c] = Bind(c)],
         running' \in [Containers -> BOOLEAN], \A d \in Containers : d # c => running'[d] = running[d],
         troubled' \in [Containers -> BOOLEAN], troubled[c] => troubled'[c],
         \A d \in Containers : d # c => troubled'[d] = troubled[d],
         UNCHANGED <<online, asked, subscribed, leader, tells, eager, closed, late, closes>>
  PROVE  LInv'
<1>1. LeaderTypeOK /\ InStep(c) /\ Honest(c) /\ FirstConnection(c)
  BY DEF LInv
<1>2. handler' = [handler EXCEPT ![c][h] = "idle"]
  BY DEF InHandler
<1>3. bound[c] \in 0 .. 2 /\ Bind(c) \in 1 .. 2
  BY <1>1 DEF LeaderTypeOK, Bind, MaxBound
<1>4. bound' \in [Containers -> 0 .. MaxBound] /\ bound'[c] > 0 /\ \A d \in Containers : d # c => bound'[d] = bound[d]
  BY <1>1, <1>3 DEF LeaderTypeOK, MaxBound
<1>5. LeaderTypeOK'
  BY <1>1, <1>2, <1>4 DEF LeaderTypeOK
<1>6. InStep(c)' /\ Honest(c)'
  BY <1>1, <1>4 DEF InStep, Honest, Excused
<1>7. FirstConnection(c)'
  <2>1. /\ handler'[c][h] = "idle" /\ \A g \in Handlers : g # h => handler'[c][g] = handler[c][g]
        /\ \A d \in Containers : d # c => handler'[d] = handler[d]
    BY <1>1, <1>2 DEF LeaderTypeOK
  <2> SUFFICES ASSUME ~closed'[c] PROVE FirstConnection(c)'
    BY DEF FirstConnection
  <2>2. online'[c] /\ \A g \in Handlers : handler'[c][g] = "idle"
    BY <1>1, <2>1 DEF FirstConnection
  <2> QED
    BY <2>2 DEF FirstConnection
<1>8. \A d \in Containers : d # c => handler'[d] = handler[d]
  BY <1>1, <1>2 DEF LeaderTypeOK
<1> QED
  BY <1>4, <1>5, <1>6, <1>7, <1>8, OneContainer

LEMMA InitializedLInv ==
  ASSUME LInv, NEW c \in Containers, NEW h \in Handlers, Initialized(c, h) \/ InitThrows(c, h)
  PROVE  LInv'
<1>1. LeaderTypeOK
  BY DEF LInv
<1>2. CASE Initialized(c, h)
  BY <1>1, <1>2, BindLInv DEF Initialized, clientVars, LeaderTypeOK
<1>3. CASE InitThrows(c, h)
  BY <1>1, <1>3, BindLInv DEF InitThrows, clientVars, electorVars, LeaderTypeOK
<1> QED
  BY <1>2, <1>3

LEMMA ElectedLInv ==
  ASSUME LInv, NEW c \in Containers, Elected(c)
  PROVE  LInv'
<1>1. LeaderTypeOK /\ InStep(c) /\ Honest(c) /\ FirstConnection(c)
  BY DEF LInv
<1>2. /\ leader = Nobody /\ leader' = c /\ Candidate(c)
      /\ UNCHANGED <<online, running, handler, bound, tells, eager, closed, troubled, late, closes>>
      /\ (bound[c] > 0 /\ Ask(c, TRUE)) \/ (~(bound[c] > 0) /\ UNCHANGED <<asked, subscribed>>)
  BY DEF Elected
<1>3. /\ asked' \in [Containers -> BOOLEAN] /\ subscribed' \in [Containers -> BOOLEAN]
      /\ \A d \in Containers : d # c => asked'[d] = asked[d] /\ subscribed'[d] = subscribed[d]
      /\ InStep(c)' /\ Honest(c)'
  <2>1. CASE bound[c] > 0 /\ Ask(c, TRUE)
    BY <1>1, <1>2, <2>1, AskFacts DEF InStep, Honest
  <2>2. CASE ~(bound[c] > 0) /\ UNCHANGED <<asked, subscribed>>
    BY <1>1, <1>2, <2>2 DEF LeaderTypeOK, InStep, Honest, Excused
  <2> QED
    BY <1>2, <2>1, <2>2
<1>4. LeaderTypeOK'
  BY <1>1, <1>2, <1>3 DEF LeaderTypeOK
<1>5. FirstConnection(c)'
  BY <1>1, <1>2 DEF FirstConnection, Candidate
<1> QED
  BY <1>2, <1>3, <1>4, <1>5, OneContainer

LEMMA RevokedLInv ==
  ASSUME LInv, NEW c \in Containers, Revoked(c)
  PROVE  LInv'
<1>1. LeaderTypeOK /\ InStep(c) /\ Honest(c) /\ FirstConnection(c)
  BY DEF LInv
<1>2. /\ leader = c /\ leader' = Nobody
      /\ UNCHANGED <<online, running, handler, bound, tells, eager, closed, troubled, late, closes>>
      /\ (bound[c] > 0 /\ Ask(c, FALSE)) \/ (~(bound[c] > 0) /\ UNCHANGED <<asked, subscribed>>)
  BY DEF Revoked, Unsubscribe
<1>3. /\ asked' \in [Containers -> BOOLEAN] /\ subscribed' \in [Containers -> BOOLEAN]
      /\ \A d \in Containers : d # c => asked'[d] = asked[d] /\ subscribed'[d] = subscribed[d]
      /\ InStep(c)' /\ Honest(c)'
  <2>1. CASE bound[c] > 0 /\ Ask(c, FALSE)
    BY <1>1, <1>2, <2>1, AskFacts DEF InStep, Honest
  <2>2. CASE ~(bound[c] > 0) /\ UNCHANGED <<asked, subscribed>>
    BY <1>1, <1>2, <2>2 DEF LeaderTypeOK, InStep, Honest, Excused
  <2> QED
    BY <1>2, <2>1, <2>2
<1>4. LeaderTypeOK'
  BY <1>1, <1>2, <1>3 DEF LeaderTypeOK
<1>5. FirstConnection(c)'
  BY <1>1, <1>2, LeaderAssumption DEF FirstConnection, LeaderAssumption
<1> QED
  BY <1>2, <1>3, <1>4, <1>5, OneContainer

LEMMA LeaveLInv ==
  ASSUME LInv, NEW c \in Containers, Leave(c)
  PROVE  LInv'
<1>1. LeaderTypeOK
  BY DEF LInv
<1>2. /\ online' = [online EXCEPT ![c] = FALSE] /\ asked' = [asked EXCEPT ![c] = FALSE]
      /\ subscribed' = [subscribed EXCEPT ![c] = FALSE]
      /\ handler' = [handler EXCEPT ![c] = [h \in Handlers |-> "idle"]]
      /\ bound' = [bound EXCEPT ![c] = 0] /\ running' = [running EXCEPT ![c] = FALSE]
      /\ closed' = [closed EXCEPT ![c] = FALSE] /\ troubled' = [troubled EXCEPT ![c] = FALSE]
      /\ late' = [late EXCEPT ![c] = FALSE]
      /\ leader' = IF leader = c THEN Ghost ELSE leader
      /\ UNCHANGED <<tells, eager, closes>>
  BY DEF Leave
<1>3. LeaderTypeOK'
  <2>1. /\ online' \in [Containers -> BOOLEAN] /\ running' \in [Containers -> BOOLEAN]
        /\ asked' \in [Containers -> BOOLEAN] /\ subscribed' \in [Containers -> BOOLEAN]
        /\ closed' \in [Containers -> BOOLEAN] /\ troubled' \in [Containers -> BOOLEAN]
        /\ late' \in [Containers -> BOOLEAN]
    BY <1>1, <1>2 DEF LeaderTypeOK
  <2>2. handler' \in [Containers -> [Handlers -> {"idle", "shutdown", "init", "closing"}]]
    BY <1>1, <1>2 DEF LeaderTypeOK
  <2>3. bound' \in [Containers -> 0 .. MaxBound] /\ leader' \in Containers \cup {Nobody, Ghost}
    BY <1>1, <1>2 DEF LeaderTypeOK, MaxBound
  <2> QED
    BY <1>1, <1>2, <2>1, <2>2, <2>3 DEF LeaderTypeOK
<1>4. /\ ~online'[c] /\ ~asked'[c] /\ ~running'[c] /\ leader' # c
      /\ \A h \in Handlers : handler'[c][h] = "idle"
  BY <1>1, <1>2, LeaderAssumption DEF LeaderTypeOK, LeaderAssumption
<1>5. InStep(c)' /\ Honest(c)' /\ FirstConnection(c)'
  BY <1>4 DEF InStep, Honest, FirstConnection
<1>6. \A d \in Containers : d # c =>
        /\ online'[d] = online[d] /\ subscribed'[d] = subscribed[d] /\ asked'[d] = asked[d]
        /\ handler'[d] = handler[d] /\ bound'[d] = bound[d] /\ running'[d] = running[d]
        /\ closed'[d] = closed[d] /\ troubled'[d] = troubled[d]
  BY <1>1, <1>2 DEF LeaderTypeOK
<1> QED
  BY <1>2, <1>3, <1>5, <1>6, OneContainer

LEMMA ExpiredLInv == LInv /\ Expired => LInv'
<1> SUFFICES ASSUME LInv, Expired PROVE LInv'
  OBVIOUS
<1>1. /\ leader = Ghost /\ leader' = Nobody
      /\ UNCHANGED <<online, asked, subscribed, running, handler, bound, tells, eager, closed, troubled, late, closes>>
  BY DEF Expired, clientVars
<1>2. LeaderTypeOK'
  BY <1>1 DEF LInv, LeaderTypeOK
<1>3. ASSUME NEW c \in Containers PROVE InStep(c)' /\ Honest(c)' /\ FirstConnection(c)'
  BY <1>1, LeaderAssumption DEF LInv, LeaderAssumption, InStep, Honest, FirstConnection, Excused
<1> QED
  BY <1>2, <1>3 DEF LInv

LEMMA QuietLInv == LInv /\ UNCHANGED leaderVars => LInv'
  BY DEF leaderVars, clientVars, electorVars, LInv, LeaderTypeOK, InStep, Honest, FirstConnection, Excused

LEMMA LInvInductive == LInv /\ [SystemNext]_systemVars => LInv'
<1> SUFFICES ASSUME LInv, [SystemNext]_systemVars PROVE LInv'
  OBVIOUS
<1>1. CASE UNCHANGED systemVars
  BY <1>1, QuietLInv DEF systemVars
<1>2. ASSUME NEW c \in Containers, Starting(c) PROVE LInv'
  BY <1>2, QuietLInv DEF Starting
<1>3. ASSUME NEW c \in Containers, Dying(c) PROVE LInv'
  BY <1>3, LeaveLInv DEF Dying
<1>4. ASSUME NEW c \in Containers, Connection(c) PROVE LInv'
  BY <1>4, ConnectedLInv, ClosedLInv DEF Connection
<1>5. ASSUME NEW c \in Containers, Handling(c) PROVE LInv'
  BY <1>5, ShutdownLInv, ShutdownThrowsLInv, InitializedLInv DEF Handling
<1>6. ASSUME NEW c \in Containers, Elected(c) \/ Revoked(c) PROVE LInv'
  BY <1>6, ElectedLInv, RevokedLInv
<1> QED
  BY <1>1, <1>2, <1>3, <1>4, <1>5, <1>6, ExpiredLInv DEF SystemNext

\* Of the start of a container, the rest of the system changes nothing but the
\* number of calls that have thrown.
LEMMA BootInductive == IInv /\ [SystemNext]_systemVars => IInv'
<1> SUFFICES ASSUME IInv, [SystemNext]_systemVars PROVE IInv'
  OBVIOUS
<1>1. CASE UNCHANGED bootVars
  BY <1>1, QuietIInv
<1>2. ASSUME NEW c \in Containers, BootStep(c) \/ Die(c) PROVE IInv'
  BY <1>2, BootStepIInv, DieIInv
<1>3. ASSUME deaths < MaxDeaths, deaths' = deaths + 1, UNCHANGED <<at, identity, made, cut>> PROVE IInv'
  <2>1. deaths' \in 0 .. MaxDeaths
    BY <1>3, BootAssumption DEF IInv, TypeOK, BootAssumption
  <2> QED
    BY <1>3, <2>1 DEF made, IInv, TypeOK, Vouched, FirstSave, OneIdentityEach
<1>4. ASSUME NEW c \in Containers, Connection(c) \/ Elected(c) \/ Revoked(c) PROVE UNCHANGED bootVars
  BY <1>4 DEF Connection, Elected, Revoked
<1>5. ASSUME NEW c \in Containers, Handling(c)
      PROVE  \/ UNCHANGED bootVars
             \/ deaths < MaxDeaths /\ deaths' = deaths + 1 /\ UNCHANGED <<at, identity, made, cut>>
  BY <1>5 DEF Handling, Shutdown, ShutdownThrows, Initialized, InitThrows
<1>6. Expired => UNCHANGED bootVars
  BY DEF Expired
<1>7. UNCHANGED systemVars => UNCHANGED bootVars
  BY DEF systemVars
<1> QED
  BY <1>1, <1>2, <1>3, <1>4, <1>5, <1>6, <1>7 DEF SystemNext, Starting, Dying

LEMMA SystemInvHolds == SystemSpec => [](IInv /\ LInv)
<1>1. SystemInit => IInv /\ LInv
  BY InitIInv, InitLInv DEF SystemInit
<1>2. IInv /\ LInv /\ [SystemNext]_systemVars => IInv' /\ LInv'
  BY BootInductive, LInvInductive
<1> QED
  BY <1>1, <1>2, PTL DEF SystemSpec

\* The variables of MqttLeader keep their types.
THEOREM LeaderTypeCorrect == SystemSpec => []LeaderTypeOK
<1>1. LInv => LeaderTypeOK
  BY DEF LInv
<1> QED
  BY <1>1, SystemInvHolds, PTL

\* Over any overlap of the handlers of "connect" and "close", a container that
\* gets messages leads, or its elector has thrown, or was shut down with a lost
\* connection and did not tell.
THEOREM LeaderAloneListens == SystemSpec => []OnlyLeaderListens
<1>1. LInv => OnlyLeaderListens
  BY DEF LInv, InStep, Honest, Excused, OnlyLeaderListens, Listens
<1> QED
  BY <1>1, SystemInvHolds, PTL

\* With elections and connections around it, too, a start that gets to the end
\* has an identity that works.
THEOREM SystemCertified == SystemSpec => []CertifiedWhenUp
  BY UpIsCertified, SystemInvHolds, PTL

\* ... and a container makes one identity at most.
THEOREM SystemIdentities == SystemSpec => []OneIdentityEach
<1>1. IInv => OneIdentityEach
  BY DEF IInv
<1> QED
  BY <1>1, SystemInvHolds, PTL

\* An identity that never gets a certificate, and at which every later start may
\* stop, is always one whose first start was cut short, whatever else starts,
\* loses its connection or fails meanwhile.
THEOREM OnlyCutStartsLeaveNoCertificate == SystemSpec => []CertifiedUnlessCut
<1>1. SystemInit => CertifiedUnlessCut
  BY InitCertified DEF SystemInit
<1>2. IInv /\ CertifiedUnlessCut /\ [SystemNext]_systemVars => CertifiedUnlessCut'
  <2> SUFFICES ASSUME IInv, CertifiedUnlessCut, [SystemNext]_systemVars PROVE CertifiedUnlessCut'
    OBVIOUS
  <2>1. ASSUME NEW c \in Containers, Handling(c) PROVE UNCHANGED <<at, identity, made, cut>>
    BY <2>1 DEF Handling, Shutdown, ShutdownThrows, Initialized, InitThrows, bootVars
  <2>2. ASSUME NEW c \in Containers, Connection(c) \/ Elected(c) \/ Revoked(c)
        PROVE  UNCHANGED <<at, identity, made, cut>>
    BY <2>2 DEF Connection, Elected, Revoked, bootVars
  <2>3. Expired \/ UNCHANGED systemVars => UNCHANGED <<at, identity, made, cut>>
    BY DEF Expired, systemVars, bootVars
  <2> QED
    BY <2>1, <2>2, <2>3, StepCertified, QuietCertified DEF SystemNext, Starting, Dying
<1> QED
  BY <1>1, <1>2, SystemInvHolds, PTL DEF SystemSpec

-----------------------------------------------------------------------------
(* The converse of OnlyLeaderListens.  An elector takes part only while its *)
(* listeners are bound, since the shutdown that unbinds them also takes it  *)
(* out; so whoever wins is heard and subscribes, and keeps what it asked    *)
(* for as long as it leads (Charged).                                       *)

Charged(c) ==
  ~troubled[c] => /\ running[c] => bound[c] > 0
                  /\ ~eager /\ leader = c => running[c] /\ asked[c]

AllCharged == \A c \in Containers : Charged(c)

\* A step of container c does not concern the others.
LEMMA OneCharged ==
  ASSUME AllCharged, NEW c \in Containers, eager' = eager,
         \A d \in Containers : d # c =>
           /\ running'[d] = running[d] /\ bound'[d] = bound[d]
           /\ asked'[d] = asked[d] /\ troubled'[d] = troubled[d]
           /\ leader' = d => leader = d,
         Charged(c)'
  PROVE  AllCharged'
<1>1. ASSUME NEW d \in Containers, d # c PROVE Charged(d)'
  <2>1. Charged(d)
    BY DEF AllCharged
  <2> QED
    BY <1>1, <2>1 DEF Charged
<1> QED
  BY <1>1 DEF AllCharged

LEMMA HandlingCharged ==
  ASSUME LInv, AllCharged, NEW c \in Containers, Handling(c)
  PROVE  AllCharged'
<1>1. LeaderTypeOK
  BY DEF LInv
<1>2. Charged(c) /\ c # Nobody
  BY LeaderAssumption DEF AllCharged, LeaderAssumption
<1>3. ASSUME NEW h \in Handlers, Shutdown(c, h) PROVE AllCharged'
  <2>1. /\ ShuttingDown(c, h) /\ AfterShutdown(c, h)
        /\ running' = [running EXCEPT ![c] = FALSE]
        /\ leader' = IF leader = c THEN Nobody ELSE leader
        /\ UNCHANGED <<eager, troubled>>
        /\ Ask(c, FALSE) \/ UNCHANGED <<asked, subscribed>>
    BY <1>3 DEF Shutdown, Unsubscribe
  <2>2. \A d \in Containers : d # c => asked'[d] = asked[d]
    BY <1>1, <2>1, AskFacts
  <2>3. \A d \in Containers : d # c => bound'[d] = bound[d] /\ running'[d] = running[d]
    BY <1>1, <2>1, AfterShutdownFacts DEF LeaderTypeOK
  <2>4. ~running'[c] /\ leader' # c
    BY <1>1, <1>2, <2>1 DEF LeaderTypeOK
  <2>5. Charged(c)'
    BY <2>4 DEF Charged
  <2>6. \A d \in Containers : d # c => (leader' = d => leader = d)
    BY <2>1, LeaderAssumption DEF LeaderAssumption
  <2> QED
    BY <2>1, <2>2, <2>3, <2>5, <2>6, OneCharged
<1>4. ASSUME NEW h \in Handlers, ShutdownThrows(c, h) PROVE AllCharged'
  <2>1. /\ ShuttingDown(c, h) /\ AfterShutdown(c, h)
        /\ troubled' = [troubled EXCEPT ![c] = TRUE]
        /\ UNCHANGED <<eager, running, leader, asked>>
    BY <1>4 DEF ShutdownThrows, clientVars, electorVars
  <2>2. \A d \in Containers : d # c => bound'[d] = bound[d] /\ troubled'[d] = troubled[d]
    BY <1>1, <2>1, AfterShutdownFacts DEF LeaderTypeOK
  <2>3. Charged(c)'
    BY <1>1, <2>1 DEF Charged, LeaderTypeOK
  <2> QED
    BY <2>1, <2>2, <2>3, OneCharged
<1>5. ASSUME NEW h \in Handlers, Initialized(c, h) PROVE AllCharged'
  <2>1. /\ running' = [running EXCEPT ![c] = TRUE] /\ bound' = [bound EXCEPT ![c] = Bind(c)]
        /\ UNCHANGED <<eager, leader, asked, troubled>>
    BY <1>5 DEF Initialized, clientVars
  <2>2. bound[c] \in 0 .. 2
    BY <1>1 DEF LeaderTypeOK, MaxBound
  <2>3. Bind(c) > 0
    BY <2>2 DEF Bind, MaxBound
  <2>4. /\ running'[c] /\ bound'[c] > 0
        /\ \A d \in Containers : d # c => bound'[d] = bound[d] /\ running'[d] = running[d]
    BY <1>1, <2>1, <2>3 DEF LeaderTypeOK
  <2>5. Charged(c)'
    BY <1>2, <2>1, <2>4 DEF Charged
  <2> QED
    BY <2>1, <2>4, <2>5, OneCharged
<1>6. ASSUME NEW h \in Handlers, InitThrows(c, h) PROVE AllCharged'
  <2>1. /\ troubled' = [troubled EXCEPT ![c] = TRUE] /\ bound' = [bound EXCEPT ![c] = Bind(c)]
        /\ UNCHANGED <<eager, running, leader, asked>>
    BY <1>6 DEF InitThrows, clientVars, electorVars
  <2>2. \A d \in Containers : d # c => bound'[d] = bound[d] /\ troubled'[d] = troubled[d]
    BY <1>1, <2>1 DEF LeaderTypeOK
  <2>3. Charged(c)'
    BY <1>1, <2>1 DEF Charged, LeaderTypeOK
  <2> QED
    BY <2>1, <2>2, <2>3, OneCharged
<1> QED
  BY <1>3, <1>4, <1>5, <1>6 DEF Handling

LEMMA ElectionCharged ==
  ASSUME LInv, AllCharged, NEW c \in Containers, Elected(c) \/ Revoked(c)
  PROVE  AllCharged'
<1>1. LeaderTypeOK
  BY DEF LInv
<1>2. Charged(c) /\ c # Nobody
  BY LeaderAssumption DEF AllCharged, LeaderAssumption
<1>3. UNCHANGED <<eager, running, bound, troubled>>
  BY DEF Elected, Revoked
<1>4. \A d \in Containers : d # c => (leader' = d => leader = d)
  BY LeaderAssumption DEF Elected, Revoked, LeaderAssumption
<1>5. ASSUME NEW what \in BOOLEAN, Ask(c, what) \/ UNCHANGED <<asked, subscribed>>
      PROVE  \A d \in Containers : d # c => asked'[d] = asked[d]
  BY <1>1, <1>5, AskFacts
<1>6. CASE Revoked(c)
  <2>1. leader' = Nobody /\ (Ask(c, FALSE) \/ UNCHANGED <<asked, subscribed>>)
    BY <1>6 DEF Revoked, Unsubscribe
  <2>2. Charged(c)'
    <3>1. leader' # c
      BY <1>2, <2>1
    <3> QED
      BY <1>2, <1>3, <3>1 DEF Charged
  <2> QED
    BY <1>3, <1>4, <1>5, <2>1, <2>2, OneCharged
<1>7. CASE Elected(c)
  <2>1. /\ leader' = c /\ Candidate(c)
        /\ (bound[c] > 0 /\ Ask(c, TRUE)) \/ (~(bound[c] > 0) /\ UNCHANGED <<asked, subscribed>>)
    BY <1>7 DEF Elected
  <2>2. ~eager => running[c]
    BY <2>1 DEF Candidate
  <2>3. bound[c] > 0 => asked'[c]
    BY <1>1, <2>1, AskFacts
  <2>4. Charged(c)'
    BY <1>2, <1>3, <2>2, <2>3 DEF Charged
  <2> QED
    BY <1>3, <1>4, <1>5, <2>1, <2>4, OneCharged
<1> QED
  BY <1>6, <1>7

LEMMA LeaveCharged ==
  ASSUME LInv, AllCharged, NEW c \in Containers, Leave(c)
  PROVE  AllCharged'
<1>1. LeaderTypeOK
  BY DEF LInv
<1>2. /\ asked' = [asked EXCEPT ![c] = FALSE] /\ bound' = [bound EXCEPT ![c] = 0]
      /\ running' = [running EXCEPT ![c] = FALSE] /\ troubled' = [troubled EXCEPT ![c] = FALSE]
      /\ leader' = IF leader = c THEN Ghost ELSE leader
      /\ eager' = eager
  BY DEF Leave
<1>3. \A d \in Containers : d # c =>
        /\ running'[d] = running[d] /\ bound'[d] = bound[d]
        /\ asked'[d] = asked[d] /\ troubled'[d] = troubled[d]
  BY <1>1, <1>2 DEF LeaderTypeOK
<1>4. ~running'[c] /\ leader' # c
  BY <1>1, <1>2, LeaderAssumption DEF LeaderTypeOK, LeaderAssumption
<1>5. \A d \in Containers : d # c => (leader' = d => leader = d)
  BY <1>2, LeaderAssumption DEF LeaderAssumption
<1>6. Charged(c)'
  BY <1>4 DEF Charged
<1> QED
  BY <1>2, <1>3, <1>5, <1>6, OneCharged

LEMMA OthersCharged ==
  ASSUME AllCharged, UNCHANGED <<running, bound, asked, troubled, eager>>,
         leader' = leader \/ leader' \notin Containers
  PROVE  AllCharged'
<1>1. ASSUME NEW c \in Containers PROVE Charged(c)'
  <2>1. Charged(c) /\ (leader' = c => leader = c)
    BY DEF AllCharged
  <2> QED
    BY <2>1 DEF Charged
<1> QED
  BY <1>1 DEF AllCharged

\* However handlers overlap and connections come and go, whoever leads and is
\* online gets messages, unless its elector has thrown, if no election is won
\* before the listeners are bound.
THEOREM LeaderIsServed == SystemSpec => []LeaderListens
<1>1. SystemInit => AllCharged
  BY LeaderAssumption DEF SystemInit, AllCharged, Charged, LeaderAssumption
<1>2. LInv /\ AllCharged /\ [SystemNext]_systemVars => AllCharged'
  <2> SUFFICES ASSUME LInv, AllCharged, [SystemNext]_systemVars PROVE AllCharged'
    OBVIOUS
  <2>1. UNCHANGED leaderVars => AllCharged'
    BY OthersCharged DEF leaderVars, clientVars, electorVars
  <2>2. ASSUME NEW c \in Containers, Connection(c) PROVE AllCharged'
    <3>1. UNCHANGED <<running, leader, bound, asked, troubled, eager>>
      BY <2>2 DEF Connection, Connected, Closed, electorVars
    <3> QED
      BY <3>1, OthersCharged
  <2>3. Expired => AllCharged'
    BY OthersCharged, LeaderAssumption DEF Expired, clientVars, LeaderAssumption
  <2>4. ASSUME NEW c \in Containers, Starting(c) \/ Dying(c) PROVE AllCharged'
    BY <2>1, <2>4, LeaveCharged DEF Starting, Dying
  <2>5. UNCHANGED systemVars => AllCharged'
    BY <2>1 DEF systemVars
  <2> QED
    BY <2>2, <2>3, <2>4, <2>5, HandlingCharged, ElectionCharged DEF SystemNext
<1>3. LInv /\ AllCharged => LeaderListens
  <2> SUFFICES ASSUME LInv, AllCharged, ~eager, NEW c \in Containers, leader = c, online[c], ~troubled[c]
               PROVE  subscribed[c]
    BY DEF LeaderListens
  <2>1. Charged(c) /\ InStep(c)
    BY DEF AllCharged, LInv
  <2> QED
    BY <2>1 DEF Charged, InStep
<1> QED
  BY <1>1, <1>2, <1>3, SystemInvHolds, PTL DEF SystemSpec
=============================================================================
