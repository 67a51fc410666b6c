------------------------- MODULE BuildArtifactsProofs -------------------------
(***************************************************************************)
(* Proofs about BuildArtifacts, for any number of builds, downloads and    *)
(* failures.  The inductive invariant says how far script, container and   *)
(* archive of a build can be at each call of its request (InStep), and     *)
(* that a download has a file before it and has sent it before it deletes  *)
(* it (Served).                                                            *)
(***************************************************************************)
EXTENDS BuildArtifacts, TLAPS

InStep(b) ==
  /\ build[b] \in {"idle"} \cup Starting => script[b] \in {"idle", "over"} /\ archive[b] = "none"
  /\ build[b] \in {"remove", "look", "announced"} => script[b] = "over"
  /\ archive[b] = "partial" => script[b] = "packing" \/ b \in died \cup raised
  /\ build[b] \in {"inspect", "ready", "post"} => container[b] = "running" \/ b \in died
  /\ build[b] = "look" => container[b] = "none"

Whole(b) == build[b] = "announced" => archive[b] = "whole" \/ b \in died \cup raised

Removed(b) == build[b] \notin InFlight /\ container[b] # "none" => b \in faulted \cup died

Served(d) ==
  /\ get[d] \in Streaming => archive[of[d]] # "none"
  /\ get[d] = "unlink" => (firmware[of[d]] /\ archive[of[d]] = "whole" => of[d] \in sent)

IInv ==
  /\ TypeOK
  /\ \A b \in Builds : InStep(b) /\ Whole(b) /\ Removed(b)
  /\ \A d \in Downloads : Served(d)
  /\ DeletedOnlyWhenSent

LEMMA InitIInv == Init => IInv
<1> SUFFICES ASSUME Init PROVE IInv
  OBVIOUS
<1>1. TypeOK
  <2>1. failures \in 0 .. MaxFailures
    BY BuildAssumption DEF BuildAssumption, Init
  <2> QED
    BY <2>1 DEF Init, TypeOK
<1>2. ASSUME NEW b \in Builds PROVE InStep(b) /\ Whole(b) /\ Removed(b)
  BY DEF Init, InStep, Whole, Removed, Starting
<1>3. (\A d \in Downloads : Served(d)) /\ DeletedOnlyWhenSent
  BY DEF Init, Served, Streaming, DeletedOnlyWhenSent
<1> QED
  BY <1>1, <1>2, <1>3 DEF IInv

-----------------------------------------------------------------------------
(* Steps of a build *)

\* A step of build b, its container or its script leaves the others alone, and
\* nothing about an archive that has been announced; it leaves to show that b
\* is still in step.
LEMMA OneBuild ==
  ASSUME IInv, TypeOK', NEW b \in Builds,
         UNCHANGED getVars, died \subseteq died', raised \subseteq raised', faulted \subseteq faulted',
         \A c \in Builds : c # b =>
           /\ build'[c] = build[c] /\ container'[c] = container[c] /\ script'[c] = script[c]
           /\ archive'[c] = archive[c] /\ firmware'[c] = firmware[c],
         build[b] = "announced" => archive'[b] = archive[b] /\ firmware'[b] = firmware[b],
         archive[b] # "none" => archive'[b] # "none",
         InStep(b)', Whole(b)', Removed(b)'
  PROVE  IInv'
<1>1. ASSUME NEW c \in Builds, c # b PROVE InStep(c)' /\ Whole(c)' /\ Removed(c)'
  <2>1. InStep(c) /\ Whole(c) /\ Removed(c)
    BY DEF IInv
  <2> QED
    BY <1>1, <2>1 DEF InStep, Whole, Removed
<1>2. \A c \in Builds : build[c] = "announced" => archive'[c] = archive[c] /\ firmware'[c] = firmware[c]
  OBVIOUS
<1>3. ASSUME NEW d \in Downloads PROVE Served(d)'
  <2>1. Served(d) /\ (get[d] # "idle" => of[d] \in Builds /\ build[of[d]] = "announced")
    BY DEF IInv, TypeOK
  <2>2. get'[d] = get[d] /\ of'[d] = of[d] /\ sent' = sent
    BY DEF getVars
  <2>3. get[d] # "idle" => archive'[of[d]] = archive[of[d]] /\ firmware'[of[d]] = firmware[of[d]]
    BY <1>2, <2>1
  <2> QED
    BY <2>1, <2>2, <2>3 DEF Served, Streaming
<1>4. DeletedOnlyWhenSent'
  <2>1. \A c \in unlinked : c \in Builds /\ build[c] = "announced"
    BY DEF IInv, TypeOK
  <2> QED
    BY <1>2, <2>1 DEF IInv, DeletedOnlyWhenSent, getVars
<1> QED
  BY <1>1, <1>3, <1>4 DEF IInv

\* What the type invariant says of the functions of a build, and of the rest.
BuildTypes ==
  /\ build \in [Builds -> {"idle", "announced", "failed"} \cup InFlight]
  /\ container \in [Builds -> {"none", "created", "running", "exited"}]
  /\ script \in [Builds -> {"idle", "working", "packing", "over"}]
  /\ archive \in [Builds -> {"none", "partial", "whole"}]
  /\ firmware \in [Builds -> BOOLEAN]
  /\ faulted \subseteq Builds /\ died \subseteq Builds /\ raised \subseteq Builds
  /\ failures \in 0 .. MaxFailures

LEMMA BuildTypeOK ==
  ASSUME IInv, BuildTypes', UNCHANGED getVars,
         \A b \in Builds : build[b] = "announced" => build'[b] = "announced",
         \A b \in Builds : archive[b] # "none" => archive'[b] # "none"
  PROVE  TypeOK'
<1>1. /\ \A d \in Downloads : get'[d] # "idle" => of'[d] \in Builds /\ build'[of'[d]] = "announced"
      /\ unlinked' \subseteq {b \in Builds : build'[b] = "announced" /\ archive'[b] # "none"}
  BY DEF IInv, TypeOK, getVars
<1> QED
  BY <1>1 DEF IInv, TypeOK, BuildTypes, getVars

LEMMA RequestStep ==
  ASSUME IInv, NEW b \in Builds,
         \/ BeginBuild(b) \/ CreateContainer(b) \/ StartContainer(b) \/ Inspect(b)
         \/ CheckReady(b) \/ Await(b) \/ Look(b) \/ Throw(b)
  PROVE  IInv'
<1>1. BuildTypes /\ InStep(b) /\ Whole(b) /\ Removed(b)
  BY DEF IInv, TypeOK, BuildTypes
<1>2. /\ UNCHANGED <<scriptVars, getVars>> /\ died' = died /\ faulted \subseteq faulted'
      /\ \A c \in Builds : c # b => build'[c] = build[c] /\ container'[c] = container[c]
      /\ build[b] # "announced"
  BY <1>1 DEF BuildTypes, BeginBuild, CreateContainer, StartContainer, Inspect, CheckReady, Await,
              Look, Throw, Goto, Untroubled, InFlight, Starting, Unready
<1>3. BuildTypes'
  <2>1. failures' \in 0 .. MaxFailures /\ faulted' \subseteq Builds
    BY <1>1, BuildAssumption DEF BuildAssumption, BuildTypes, BeginBuild, CreateContainer, StartContainer, Inspect,
         CheckReady, Await, Look, Throw, Untroubled
  <2>2. build' \in [Builds -> {"idle", "announced", "failed"} \cup InFlight]
    BY <1>1 DEF BuildTypes, BeginBuild, CreateContainer, StartContainer, Inspect, CheckReady, Await,
         Look, Throw, Goto, InFlight, Starting, Unready
  <2>3. container' \in [Builds -> {"none", "created", "running", "exited"}]
    BY <1>1 DEF BuildTypes, BeginBuild, CreateContainer, StartContainer, Inspect, CheckReady, Await,
         Look, Throw
  <2> QED
    BY <1>1, <1>2, <2>1, <2>2, <2>3 DEF BuildTypes, scriptVars
<1>4. TypeOK'
  BY <1>2, <1>3, BuildTypeOK DEF scriptVars
<1>5. InStep(b)' /\ Whole(b)' /\ Removed(b)'
  <2>1. CASE BeginBuild(b) \/ CreateContainer(b) \/ StartContainer(b) \/ Await(b)
    BY <1>1, <1>2, <2>1 DEF BuildTypes, BeginBuild, CreateContainer, StartContainer, Await, Goto, ScriptEnded,
         Untroubled, scriptVars, InStep, Whole, Removed, InFlight, Starting
  <2>2. CASE Inspect(b) \/ CheckReady(b)
    BY <1>1, <1>2, <2>2 DEF BuildTypes, Inspect, CheckReady, Goto, Untroubled, Unready, scriptVars,
         InStep, Whole, Removed, InFlight, Starting
  <2>3. CASE Look(b)
    BY <1>1, <1>2, <2>3 DEF BuildTypes, Look, Goto, Exists, Untroubled, scriptVars,
         InStep, Whole, Removed, InFlight, Starting
  <2>4. CASE Throw(b)
    BY <1>1, <1>2, <2>4 DEF BuildTypes, Throw, scriptVars, InStep, Whole, Removed, InFlight, Starting
  <2> QED
    BY <2>1, <2>2, <2>3, <2>4
<1> QED
  BY <1>2, <1>4, <1>5, OneBuild DEF scriptVars

LEMMA ContainerStep ==
  ASSUME IInv, NEW b \in Builds,
         Discard(b) \/ Post(b) \/ Remove(b) \/ Compile(b) \/ Pack(b) \/ PackFails(b) \/ Exit(b)
  PROVE  IInv'
<1>1. BuildTypes /\ InStep(b) /\ Whole(b) /\ Removed(b)
  BY DEF IInv, TypeOK, BuildTypes
<1>2. /\ UNCHANGED getVars /\ died \subseteq died' /\ raised \subseteq raised' /\ faulted' = faulted
      /\ \A c \in Builds : c # b =>
           /\ build'[c] = build[c] /\ container'[c] = container[c] /\ script'[c] = script[c]
           /\ archive'[c] = archive[c] /\ firmware'[c] = firmware[c]
      /\ archive[b] # "none" => archive'[b] # "none"
  BY <1>1 DEF BuildTypes, Discard, Post, Remove, Compile, Pack, PackFails, Exit, RemoveContainer, Goto, Untroubled
<1>3. build[b] = "announced" => build'[b] = "announced" /\ archive'[b] = archive[b] /\ firmware'[b] = firmware[b]
  BY <1>1 DEF BuildTypes, Discard, Post, Remove, Compile, Pack, PackFails, Exit, Goto, InStep, Starting
<1>4. BuildTypes'
  <2>1. failures' \in 0 .. MaxFailures /\ died' \subseteq Builds /\ raised' \subseteq Builds
    BY <1>1, BuildAssumption DEF BuildAssumption, BuildTypes, Discard, Post, Remove, Compile, Pack, PackFails, Exit, Untroubled
  <2>2. build' \in [Builds -> {"idle", "announced", "failed"} \cup InFlight]
    BY <1>1 DEF BuildTypes, Discard, Post, Remove, Compile, Pack, PackFails, Exit, Goto, InFlight
  <2>3. /\ container' \in [Builds -> {"none", "created", "running", "exited"}]
        /\ script' \in [Builds -> {"idle", "working", "packing", "over"}]
        /\ archive' \in [Builds -> {"none", "partial", "whole"}]
    BY <1>1 DEF BuildTypes, Discard, Post, Remove, Compile, Pack, PackFails, Exit, RemoveContainer
  <2>4. firmware' \in [Builds -> BOOLEAN]
    BY <1>1 DEF BuildTypes, Discard, Post, Remove, Compile, Pack, PackFails, Exit
  <2> QED
    BY <1>1, <1>2, <2>1, <2>2, <2>3, <2>4 DEF BuildTypes
<1>5. TypeOK'
  BY <1>2, <1>3, <1>4, BuildTypeOK
<1>6. InStep(b)' /\ Whole(b)' /\ Removed(b)'
  <2>1. CASE Discard(b) \/ Post(b) \/ Remove(b)
    BY <1>1, <2>1 DEF BuildTypes, Discard, Post, Remove, RemoveContainer, Goto, Untroubled,
         InStep, Whole, Removed, InFlight, Starting
  <2>2. CASE Compile(b) \/ Pack(b) \/ PackFails(b)
    BY <1>1, <2>2 DEF BuildTypes, Compile, Pack, PackFails, Untroubled, InStep, Whole, Removed, InFlight, Starting
  <2>3. CASE Exit(b)
    BY <1>1, <2>3 DEF BuildTypes, Exit, InStep, Whole, Removed, InFlight, Starting
  <2> QED
    BY <2>1, <2>2, <2>3
<1> QED
  BY <1>2, <1>3, <1>5, <1>6, OneBuild

-----------------------------------------------------------------------------
(* Steps of a download *)

\* A step of download d leaves the builds and the other downloads alone, and
\* may delete an archive that was sent.
LEMMA OneDownload ==
  ASSUME IInv, NEW d \in Downloads,
         UNCHANGED <<build, container, scriptVars>>, Untroubled,
         get' \in [Downloads -> {"idle", "over", "stuck"} \cup Streaming],
         of' \in [Downloads -> Builds \cup {NoBuild}],
         route' \in [Downloads -> {"artifacts", "ota"}],
         sent \subseteq sent', sent' \subseteq Builds,
         \A e \in Downloads : e # d => get'[e] = get[e] /\ of'[e] = of[e],
         get'[d] # "idle" => of'[d] \in Builds /\ build[of'[d]] = "announced",
         Served(d)',
         \/ unlinked' = unlinked
         \/ get[d] = "unlink" /\ unlinked' = unlinked \cup {of[d]}
  PROVE  IInv'
<1>1. TypeOK /\ (\A e \in Downloads : Served(e)) /\ DeletedOnlyWhenSent
  BY DEF IInv
<1>2. /\ build' = build /\ container' = container /\ script' = script /\ archive' = archive
      /\ firmware' = firmware /\ faulted' = faulted /\ died' = died /\ raised' = raised /\ failures' = failures
  BY DEF scriptVars, Untroubled
<1>3. TypeOK'
  <2>1. \A e \in Downloads : get'[e] # "idle" => of'[e] \in Builds /\ build[of'[e]] = "announced"
    BY <1>1 DEF TypeOK
  <2>2. unlinked' \subseteq {b \in Builds : build[b] = "announced" /\ archive[b] # "none"}
    BY <1>1 DEF TypeOK, Served, Streaming
  <2> QED
    BY <1>1, <1>2, <2>1, <2>2 DEF TypeOK
<1>4. \A b \in Builds : InStep(b)' /\ Whole(b)' /\ Removed(b)'
  BY <1>2 DEF IInv, InStep, Whole, Removed
<1>5. \A e \in Downloads : Served(e)'
  BY <1>1, <1>2 DEF Served
<1>6. DeletedOnlyWhenSent'
  BY <1>1, <1>2 DEF DeletedOnlyWhenSent, Served
<1> QED
  BY <1>3, <1>4, <1>5, <1>6 DEF IInv

LEMMA DownloadStep ==
  ASSUME IInv, NEW d \in Downloads,
         \/ \E b \in Builds, r \in {"artifacts", "ota"} : Request(d, b, r)
         \/ Open(d) \/ FindDevice(d) \/ Send(d) \/ ParseFails(d) \/ ClientGone(d) \/ Unlink(d)
  PROVE  IInv'
<1>1. TypeOK /\ Served(d)
  BY DEF IInv
<1>2. CASE \E b \in Builds, r \in {"artifacts", "ota"} : Request(d, b, r)
  <2>1. PICK b \in Builds, r \in {"artifacts", "ota"} : Request(d, b, r)
    BY <1>2
  <2>2. /\ get' = [get EXCEPT ![d] = IF Exists(b) THEN "open" ELSE "over"]
        /\ of' = [of EXCEPT ![d] = b] /\ route' = [route EXCEPT ![d] = r]
        /\ UNCHANGED <<build, container, scriptVars, unlinked, sent>> /\ Untroubled
        /\ build[b] = "announced"
    BY <2>1 DEF Request, Told
  <2>3. Served(d)'
    BY <1>1, <2>2 DEF TypeOK, Served, Streaming, Exists, scriptVars
  <2> QED
    BY <1>1, <2>2, <2>3, OneDownload DEF TypeOK, Streaming
<1>3. ASSUME Open(d) \/ FindDevice(d) \/ ParseFails(d) \/ ClientGone(d)
      PROVE  IInv'
  <2>1. /\ UNCHANGED <<build, container, scriptVars, of, route, unlinked, sent>> /\ Untroubled
        /\ get[d] # "idle"
        /\ get' \in [Downloads -> {"idle", "over", "stuck"} \cup Streaming]
        /\ \A e \in Downloads : e # d => get'[e] = get[e]
        /\ get'[d] \in {"find", "stream", "over", "stuck"}
        /\ get[d] \in Streaming
    BY <1>1, <1>3 DEF TypeOK, Open, FindDevice, ParseFails, ClientGone, Step, Gone, Streaming
  <2>2. Served(d)'
    BY <1>1, <2>1 DEF Served, scriptVars
  <2> QED
    BY <1>1, <2>1, <2>2, OneDownload DEF TypeOK
<1>4. CASE Send(d)
  <2>1. /\ UNCHANGED <<build, container, scriptVars, of, route, unlinked>> /\ Untroubled
        /\ get[d] = "stream" /\ get' = [get EXCEPT ![d] = "unlink"]
        /\ sent' = IF archive[of[d]] = "whole" /\ (route[d] = "artifacts" \/ firmware[of[d]])
                     THEN sent \cup {of[d]} ELSE sent
    BY <1>4 DEF Send, Step
  <2>2. of[d] \in Builds /\ build[of[d]] = "announced" /\ sent' \subseteq Builds
    BY <1>1, <2>1 DEF TypeOK
  <2>3. Served(d)'
    BY <1>1, <2>1 DEF TypeOK, Served, Streaming, scriptVars
  <2> QED
    BY <1>1, <2>1, <2>2, <2>3, OneDownload DEF TypeOK, Streaming
<1>5. CASE Unlink(d)
  <2>1. /\ UNCHANGED <<build, container, scriptVars, of, route, sent>> /\ Untroubled
        /\ get[d] = "unlink" /\ get' = [get EXCEPT ![d] = "over"]
        /\ unlinked' = unlinked \cup {of[d]}
    BY <1>5 DEF Unlink, Step
  <2>2. Served(d)'
    BY <1>1, <2>1 DEF TypeOK, Served, Streaming
  <2> QED
    BY <1>1, <2>1, <2>2, OneDownload DEF TypeOK, Streaming
<1> QED
  BY <1>2, <1>3, <1>4, <1>5

\* When the server goes down, requests fail and downloads are over; archives
\* and containers stay.
LEMMA DownIInv == ASSUME IInv, ServerDown, failures' \in 0 .. MaxFailures PROVE IInv'
<1>1. TypeOK /\ DeletedOnlyWhenSent
  BY DEF IInv
<1>2. /\ container' = container /\ script' = script /\ archive' = archive /\ firmware' = firmware
      /\ unlinked' = unlinked /\ of' = of /\ route' = route /\ sent' = sent /\ died' = died /\ raised' = raised
  BY DEF ServerDown, scriptVars
<1>3. \A b \in Builds : build'[b] = IF build[b] \in InFlight THEN "failed" ELSE build[b]
  BY DEF ServerDown
<1>4. \A d \in Downloads : get'[d] = IF get[d] \in Streaming \cup {"stuck"} THEN "over" ELSE get[d]
  BY DEF ServerDown
<1>5. \A b \in Builds : build'[b] = "announced" <=> build[b] = "announced"
  BY <1>3 DEF InFlight, Starting
<1>6. TypeOK'
  <2>1. build' \in [Builds -> {"idle", "announced", "failed"} \cup InFlight]
    BY <1>1 DEF TypeOK, ServerDown
  <2>2. get' \in [Downloads -> {"idle", "over", "stuck"} \cup Streaming]
    BY <1>1 DEF TypeOK, ServerDown
  <2>3. \A d \in Downloads : get'[d] # "idle" => of[d] \in Builds /\ build'[of[d]] = "announced"
    BY <1>1, <1>4, <1>5 DEF TypeOK, Streaming
  <2>4. unlinked \subseteq {b \in Builds : build'[b] = "announced" /\ archive[b] # "none"}
    BY <1>1, <1>5 DEF TypeOK
  <2>5. faulted' \subseteq Builds
    BY <1>1 DEF TypeOK, ServerDown
  <2> QED
    BY <1>1, <1>2, <2>1, <2>2, <2>3, <2>4, <2>5 DEF TypeOK
<1>7. ASSUME NEW b \in Builds PROVE InStep(b)' /\ Whole(b)' /\ Removed(b)'
  <2>1. InStep(b) /\ Whole(b) /\ Removed(b)
    BY DEF IInv
  <2>2. CASE build[b] \in InFlight
    <3>1. build'[b] = "failed" /\ b \in faulted'
      BY <1>3, <2>2 DEF ServerDown
    <3> QED
      BY <1>2, <2>1, <3>1 DEF InStep, Whole, Removed, Starting
  <2>3. CASE build[b] \notin InFlight
    <3>1. build'[b] = build[b] /\ faulted \subseteq faulted'
      BY <1>3, <2>3 DEF ServerDown
    <3> QED
      BY <1>2, <2>1, <3>1 DEF InStep, Whole, Removed
  <2> QED
    BY <2>2, <2>3
<1>8. \A d \in Downloads : Served(d)'
  BY <1>2, <1>4 DEF IInv, Served, Streaming
<1>9. DeletedOnlyWhenSent'
  BY <1>1, <1>2 DEF DeletedOnlyWhenSent
<1> QED
  BY <1>6, <1>7, <1>8, <1>9 DEF IInv

LEMMA OpenFailsIInv == ASSUME IInv, NEW d \in Downloads, OpenFails(d) PROVE IInv'
<1>1. TypeOK
  BY DEF IInv
<1>2. CASE Step(d, "open", "over") /\ UNCHANGED <<unlinked, sent>> /\ Untroubled
  <2>1. /\ UNCHANGED <<build, container, scriptVars, of, route, unlinked, sent>>
        /\ get[d] = "open" /\ get' = [get EXCEPT ![d] = "over"]
    BY <1>2 DEF Step
  <2>2. Served(d)'
    BY <1>1, <2>1 DEF TypeOK, Served, Streaming
  <2> QED
    BY <1>1, <1>2, <2>1, <2>2, OneDownload DEF TypeOK, Streaming
<1>3. CASE ServerDown /\ UNCHANGED failures
  BY <1>1, <1>3, DownIInv DEF TypeOK
<1> QED
  BY <1>2, <1>3 DEF OpenFails

LEMMA CrashIInv == IInv /\ Crash => IInv'
<1> SUFFICES ASSUME IInv, Crash PROVE IInv'
  OBVIOUS
<1>1. failures' \in 0 .. MaxFailures
  BY BuildAssumption DEF BuildAssumption, Crash, IInv, TypeOK
<1> QED
  BY <1>1, DownIInv DEF Crash

LEMMA Inductive == IInv /\ [Next]_vars => IInv'
<1>1. ASSUME IInv, UNCHANGED vars PROVE IInv'
  BY <1>1 DEF vars, scriptVars, getVars, IInv, TypeOK, InStep, Whole, Removed, Served, DeletedOnlyWhenSent
<1> QED
  BY <1>1, RequestStep, ContainerStep, DownloadStep, OpenFailsIInv, CrashIInv DEF Next

LEMMA IInvHolds == Spec => []IInv
  BY InitIInv, Inductive, PTL DEF Spec

-----------------------------------------------------------------------------
(* Theorems *)

\* The variables of BuildArtifacts keep their types, and only archives of builds
\* whose id was told are downloaded and deleted.
THEOREM TypeCorrect == Spec => []TypeOK
<1>1. IInv => TypeOK
  BY DEF IInv
<1> QED
  BY <1>1, IInvHolds, PTL

\* "Build complete" is told of a whole archive, unless the script raised or the
\* container exited by itself while it was packed, whatever calls of Docker throw and however often the server dies.
THEOREM CompleteIsWhole == Spec => []AnnouncedIsWhole
<1>1. IInv => AnnouncedIsWhole
  BY DEF IInv, Whole, AnnouncedIsWhole
<1> QED
  BY <1>1, IInvHolds, PTL

\* However many downloads race over it, an archive with firmware is deleted only
\* when one of them has sent it in full.
THEOREM NoArchiveLost == Spec => []DeletedOnlyWhenSent
<1>1. IInv => DeletedOnlyWhenSent
  BY DEF IInv
<1> QED
  BY <1>1, IInvHolds, PTL

\* A request that nothing disturbed leaves no container.
THEOREM NoContainerLeft == Spec => []ContainersRemoved
<1>1. IInv => ContainersRemoved
  BY DEF IInv, Removed, ContainersRemoved
<1> QED
  BY <1>1, IInvHolds, PTL

-----------------------------------------------------------------------------
(***************************************************************************)
(* The steps implement ArchiveHandover.                                    *)
(***************************************************************************)

LEMMA InitRefines == Init => Handover!Init
<1> SUFFICES ASSUME Init PROVE Handover!Init
  OBVIOUS
<1>1. Outcome = [b \in Builds |-> "pending"]
  BY DEF Init, Outcome
<1> QED
  BY <1>1 DEF Init, Handover!Init

\* Steps of requests, containers and the server that tell nobody anything.
LEMMA NothingTold ==
  ASSUME \A b \in Builds : \/ build'[b] = build[b]
                           \/ build[b] \notin {"announced", "failed"}
                              /\ build'[b] \notin {"announced", "failed"}
  PROVE  Outcome' = Outcome
  BY DEF Outcome

\* Requests of builds fail, and nothing else changes that a client sees.
LEMMA FailRefines ==
  ASSUME NEW lost \in SUBSET Builds, \A b \in lost : build[b] \in InFlight,
         \A b \in lost : build'[b] = "failed",
         \A b \in Builds : b \notin lost => build'[b] = build[b],
         UNCHANGED <<archive, firmware, sent, unlinked>>
  PROVE  Handover!Next
<1>1. \A b \in lost : Outcome[b] = "pending"
  BY DEF Outcome, InFlight, Starting
<1>2. Outcome' = [b \in Builds |-> IF b \in lost THEN "failed" ELSE Outcome[b]]
  BY DEF Outcome
<1>3. Handover!Fail(lost)
  BY <1>1, <1>2 DEF Handover!Fail
<1> QED
  BY <1>3 DEF Handover!Next

\* A call of a request "local-flash".
LEMMA RequestRefines ==
  ASSUME IInv, NEW b \in Builds,
         \/ BeginBuild(b) \/ CreateContainer(b) \/ StartContainer(b) \/ Inspect(b)
         \/ CheckReady(b) \/ Discard(b) \/ Post(b) \/ Await(b) \/ Remove(b) \/ Look(b)
         \/ Throw(b)
  PROVE  Handover!Next \/ UNCHANGED Handover!vars
<1>1. /\ UNCHANGED <<archive, firmware, sent, unlinked>>
      /\ \A c \in Builds : c # b => build'[c] = build[c]
      /\ build[b] \in {"idle"} \cup InFlight
      /\ build'[b] \in {"announced", "failed"} \cup InFlight
  BY DEF IInv, TypeOK, BeginBuild, CreateContainer, StartContainer, Inspect, CheckReady, Discard,
     Post, Await, Remove, Look, Throw, Goto, scriptVars, getVars, InFlight, Starting, Unready
<1>2. CASE build'[b] \in InFlight
  BY <1>1, <1>2, NothingTold DEF InFlight, Starting, Handover!vars
<1>3. CASE build'[b] = "failed"
  <2>1. build[b] \in InFlight
    BY <1>1, <1>3 DEF IInv, TypeOK, BeginBuild, CreateContainer, StartContainer, Inspect, CheckReady,
       Discard, Post, Await, Remove, Look, Throw, Goto, InFlight, Starting
  <2> DEFINE lost == {b}
  <2>2. lost \in SUBSET Builds /\ \A c \in lost : build[c] \in InFlight /\ build'[c] = "failed"
    BY <1>3, <2>1
  <2>3. \A c \in Builds : c \notin lost => build'[c] = build[c]
    BY <1>1
  <2> HIDE DEF lost
  <2> QED
    BY <1>1, <2>2, <2>3, FailRefines
<1>4. CASE build'[b] = "announced"
  <2>1. build[b] = "look" /\ archive[b] # "none" /\ build' = [build EXCEPT ![b] = "announced"]
    BY <1>1, <1>4 DEF IInv, TypeOK, BeginBuild, CreateContainer, StartContainer, Inspect, CheckReady,
       Discard, Post, Await, Remove, Look, Throw, Goto, Exists, InFlight, Starting, Unready
  <2>2. Outcome[b] = "pending" /\ Outcome' = [Outcome EXCEPT ![b] = "announced"]
    BY <2>1 DEF Outcome, IInv, TypeOK
  <2>3. Handover!Announce(b)
    BY <1>1, <2>1, <2>2 DEF Handover!Announce
  <2> QED
    BY <2>3 DEF Handover!Next
<1> QED
  BY <1>1, <1>2, <1>3, <1>4

\* The script writes only for requests that have not been announced.
LEMMA ContainerRefines ==
  ASSUME IInv, NEW b \in Builds, Compile(b) \/ Pack(b) \/ PackFails(b) \/ Exit(b)
  PROVE  Handover!Next \/ UNCHANGED Handover!vars
<1>1. UNCHANGED <<build, sent, unlinked>>
  BY DEF Compile, Pack, PackFails, Exit, getVars
<1>2. Outcome' = Outcome
  BY <1>1 DEF Outcome
<1>3. CASE UNCHANGED <<archive, firmware>>
  BY <1>1, <1>2, <1>3 DEF Handover!vars
<1>4. CASE ~UNCHANGED <<archive, firmware>>
  <2>1. script[b] \in {"working", "packing"}
    BY <1>4 DEF Compile, Pack, PackFails, Exit
  <2>2. Outcome[b] # "announced"
    BY <2>1 DEF IInv, InStep, Outcome
  <2>3. firmware = [firmware EXCEPT ![b] = firmware[b]] /\ firmware[b] \in BOOLEAN
    BY DEF IInv, TypeOK
  <2>4. \E written \in {"partial", "whole"}, made \in BOOLEAN :
          /\ archive' = [archive EXCEPT ![b] = written]
          /\ firmware' = [firmware EXCEPT ![b] = made]
    BY <1>4, <2>3 DEF Compile, Pack, PackFails, Exit
  <2>5. Handover!Write(b)
    BY <1>1, <1>2, <2>2, <2>4 DEF Handover!Write
  <2> QED
    BY <2>5 DEF Handover!Next
<1> QED
  BY <1>3, <1>4

\* A step of a download.
LEMMA DownloadRefines ==
  ASSUME IInv, NEW d \in Downloads,
         \/ \E b \in Builds, r \in {"artifacts", "ota"} : Request(d, b, r)
         \/ Open(d) \/ FindDevice(d) \/ Send(d) \/ ParseFails(d) \/ ClientGone(d) \/ Unlink(d)
  PROVE  Handover!Next \/ UNCHANGED Handover!vars
<1>1. UNCHANGED <<build, archive, firmware>>
  BY DEF Request, Open, FindDevice, Send, ParseFails, ClientGone, Unlink, Step, scriptVars
<1>2. Outcome' = Outcome
  BY <1>1 DEF Outcome
<1>3. CASE UNCHANGED <<sent, unlinked>>
  BY <1>1, <1>2, <1>3 DEF Handover!vars
<1>4. CASE Send(d) \/ Unlink(d)
  <2>1. of[d] \in Builds /\ Outcome[of[d]] = "announced"
    BY <1>4 DEF IInv, TypeOK, Send, Unlink, Step, Outcome
  <2>2. CASE Unlink(d)
    <3>1. archive[of[d]] = "whole" /\ firmware[of[d]] => of[d] \in sent
      BY <2>2 DEF IInv, Served, Unlink, Step
    <3>2. Handover!Unlink(of[d])
      BY <1>1, <1>2, <2>1, <2>2, <3>1 DEF Unlink, Handover!Unlink
    <3> QED
      BY <2>1, <3>2 DEF Handover!Next
  <2>3. CASE Send(d) /\ archive[of[d]] = "whole" /\ sent' = sent \cup {of[d]}
    <3>1. Handover!Send(of[d])
      BY <1>1, <1>2, <2>1, <2>3 DEF Send, Handover!Send
    <3> QED
      BY <2>1, <3>1 DEF Handover!Next
  <2>4. CASE Send(d) /\ sent' = sent
    BY <1>3, <2>4 DEF Send
  <2> QED
    BY <1>4, <2>2, <2>3, <2>4 DEF Send
<1> QED
  BY <1>3, <1>4 DEF Request, Open, FindDevice, ParseFails, ClientGone

LEMMA DownRefines == ASSUME IInv, ServerDown PROVE Handover!Next
<1> DEFINE lost == {b \in Builds : build[b] \in InFlight}
<1>1. lost \in SUBSET Builds /\ \A b \in lost : build[b] \in InFlight /\ build'[b] = "failed"
  BY DEF ServerDown
<1>2. \A b \in Builds : b \notin lost => build'[b] = build[b]
  BY DEF ServerDown
<1>3. UNCHANGED <<archive, firmware, sent, unlinked>>
  BY DEF ServerDown, scriptVars
<1> HIDE DEF lost
<1> QED
  BY <1>1, <1>2, <1>3, FailRefines

LEMMA OpenFailsRefines ==
  ASSUME IInv, NEW d \in Downloads, OpenFails(d)
  PROVE  Handover!Next \/ UNCHANGED Handover!vars
<1>1. CASE Step(d, "open", "over") /\ UNCHANGED <<unlinked, sent>>
  BY <1>1, NothingTold DEF Step, scriptVars, Handover!vars
<1> QED
  BY <1>1, DownRefines DEF OpenFails

\* However builds, downloads and crashes overlap, each client is told one outcome,
\* nothing writes to an archive that was announced, only announced ones are sent,
\* and one with firmware stays until it was sent in full.
THEOREM BuildsImplementHandover == Spec => ImplementsHandover
<1>1. IInv /\ [Next]_vars => [Handover!Next]_(Handover!vars)
  <2> SUFFICES ASSUME IInv, [Next]_vars PROVE Handover!Next \/ UNCHANGED Handover!vars
    OBVIOUS
  <2>1. CASE UNCHANGED vars
    BY <2>1 DEF vars, scriptVars, getVars, Outcome, Handover!vars
  <2>2. CASE Crash
    BY <2>2, DownRefines DEF Crash
  <2> QED
    BY <2>1, <2>2, RequestRefines, ContainerRefines, DownloadRefines, OpenFailsRefines DEF Next
<1> QED
  BY InitRefines, IInvHolds, <1>1, PTL DEF Spec, ImplementsHandover, Handover!Spec

-----------------------------------------------------------------------------
(* No archive is lost before it is told of: a script runs only while its    *)
(* request awaits it, or after that request has thrown.                      *)

Promised(b) ==
  /\ script[b] \in {"working", "packing"} => build[b] = "await" \/ b \in faulted
  /\ archive[b] # "none" =>
       build[b] \in {"await", "remove", "look", "announced"} \/ b \in faulted

AllPromised == \A b \in Builds : Promised(b)

LEMMA OnePromised ==
  ASSUME AllPromised, NEW b \in Builds, faulted \subseteq faulted',
         \A c \in Builds : c # b =>
           build'[c] = build[c] /\ script'[c] = script[c] /\ archive'[c] = archive[c],
         Promised(b)'
  PROVE  AllPromised'
<1>1. ASSUME NEW c \in Builds, c # b PROVE Promised(c)'
  BY <1>1 DEF AllPromised, Promised
<1> QED
  BY <1>1 DEF AllPromised

LEMMA RequestPromised ==
  ASSUME IInv, AllPromised, NEW b \in Builds,
         \/ BeginBuild(b) \/ CreateContainer(b) \/ StartContainer(b) \/ Inspect(b)
         \/ CheckReady(b) \/ Await(b) \/ Look(b) \/ Throw(b)
  PROVE  AllPromised'
<1>1. TypeOK /\ InStep(b) /\ Promised(b)
  BY DEF IInv, AllPromised
<1>2. /\ UNCHANGED <<script, archive>> /\ faulted \subseteq faulted'
      /\ \A c \in Builds : c # b => build'[c] = build[c]
  BY <1>1 DEF TypeOK, BeginBuild, CreateContainer, StartContainer, Inspect, CheckReady, Await,
              Look, Throw, Goto, Untroubled, scriptVars
<1>3. CASE BeginBuild(b) \/ CreateContainer(b) \/ StartContainer(b) \/ Inspect(b) \/ CheckReady(b)
  <2>1. build[b] \in {"idle"} \cup Starting
    BY <1>3 DEF BeginBuild, CreateContainer, StartContainer, Inspect, CheckReady, Goto, Starting
  <2>2. archive[b] = "none" /\ script[b] \notin {"working", "packing"}
    BY <1>1, <2>1 DEF InStep
  <2>3. Promised(b)'
    BY <1>2, <2>2 DEF Promised
  <2> QED
    BY <1>2, <2>3, OnePromised
<1>4. CASE Await(b)
  <2>1. /\ script[b] = "over" /\ build' = [build EXCEPT ![b] = "remove"]
    BY <1>4 DEF Await, ScriptEnded, Goto
  <2>2. Promised(b)'
    BY <1>1, <1>2, <2>1 DEF TypeOK, Promised
  <2> QED
    BY <1>2, <2>2, OnePromised
<1>5. CASE Look(b)
  <2>1. build[b] = "look" /\ build' = [build EXCEPT ![b] = IF Exists(b) THEN "announced" ELSE "failed"]
    BY <1>5 DEF Look, Goto
  <2>2. b \notin unlinked /\ script[b] = "over"
    BY <1>1, <2>1 DEF TypeOK, InStep
  <2>3. archive[b] # "none" => build'[b] = "announced"
    BY <1>1, <2>1, <2>2 DEF TypeOK, Exists
  <2>4. Promised(b)'
    BY <1>2, <2>2, <2>3 DEF Promised
  <2> QED
    BY <1>2, <2>4, OnePromised
<1>6. CASE Throw(b)
  <2>1. Promised(b)'
    BY <1>6 DEF Throw, Promised
  <2> QED
    BY <1>2, <2>1, OnePromised
<1> QED
  BY <1>3, <1>4, <1>5, <1>6

LEMMA ContainerPromised ==
  ASSUME IInv, AllPromised, NEW b \in Builds,
         Discard(b) \/ Post(b) \/ Remove(b) \/ Compile(b) \/ Pack(b) \/ PackFails(b) \/ Exit(b)
  PROVE  AllPromised'
<1>1. TypeOK /\ InStep(b) /\ Promised(b)
  BY DEF IInv, AllPromised
<1>2. /\ faulted' = faulted
      /\ \A c \in Builds : c # b =>
           build'[c] = build[c] /\ script'[c] = script[c] /\ archive'[c] = archive[c]
  BY <1>1 DEF TypeOK, Discard, Post, Remove, Compile, Pack, PackFails, Exit, RemoveContainer, Goto, Untroubled
<1>3. CASE Discard(b) \/ Post(b)
  <2>1. archive[b] = "none" /\ archive' = archive
    BY <1>1, <1>3 DEF Discard, Post, Goto, InStep, Starting
  <2>2. script'[b] \in {"working", "packing"} => build'[b] = "await"
    BY <1>1, <1>3 DEF Discard, Post, Goto, RemoveContainer, TypeOK, InStep, Starting
  <2>3. Promised(b)'
    BY <2>1, <2>2 DEF Promised
  <2> QED
    BY <1>2, <2>3, OnePromised
<1>4. CASE Remove(b)
  <2>1. Promised(b)'
    BY <1>1, <1>2, <1>4 DEF Remove, Goto, RemoveContainer, TypeOK, Promised
  <2> QED
    BY <1>2, <2>1, OnePromised
<1>5. CASE Compile(b) \/ Pack(b) \/ PackFails(b)
  <2>1. script[b] \in {"working", "packing"} /\ build' = build
    BY <1>5 DEF Compile, Pack, PackFails
  <2>2. Promised(b)'
    BY <1>1, <1>2, <2>1 DEF Promised
  <2> QED
    BY <1>2, <2>2, OnePromised
<1>6. CASE Exit(b)
  <2>1. script' = [script EXCEPT ![b] = "over"] /\ UNCHANGED <<build, archive>>
    BY <1>6 DEF Exit
  <2>2. Promised(b)'
    BY <1>1, <1>2, <2>1 DEF TypeOK, Promised
  <2> QED
    BY <1>2, <2>2, OnePromised
<1> QED
  BY <1>3, <1>4, <1>5, <1>6

LEMMA DownPromised == ASSUME AllPromised, ServerDown PROVE AllPromised'
<1>1. UNCHANGED <<script, archive>>
  BY DEF ServerDown, scriptVars
<1>2. ASSUME NEW b \in Builds PROVE Promised(b)'
  <2>1. Promised(b)
    BY DEF AllPromised
  <2>2. build'[b] = build[b] \/ b \in faulted'
    BY DEF ServerDown
  <2>3. faulted \subseteq faulted'
    BY DEF ServerDown
  <2> QED
    BY <1>1, <2>1, <2>2, <2>3 DEF Promised
<1> QED
  BY <1>2 DEF AllPromised

LEMMA DownloadPromised ==
  ASSUME AllPromised, NEW d \in Downloads,
         \/ \E b \in Builds, r \in {"artifacts", "ota"} : Request(d, b, r)
         \/ Open(d) \/ OpenFails(d) \/ FindDevice(d) \/ Send(d) \/ ParseFails(d)
         \/ ClientGone(d) \/ Unlink(d)
  PROVE  AllPromised'
<1>1. ServerDown \/ UNCHANGED <<build, script, archive, faulted>>
  BY DEF Request, Open, OpenFails, FindDevice, Send, ParseFails, ClientGone, Unlink, Step, Untroubled, scriptVars
<1>2. UNCHANGED <<build, script, archive, faulted>> => AllPromised'
  BY DEF AllPromised, Promised
<1> QED
  BY <1>1, <1>2, DownPromised

\* However containers exit, scripts raise and servers go down, no archive is lost on
\* the way to the client but by a call that threw or a server that died.
THEOREM NoWorkLost == Spec => []PackedIsTold
<1>1. Init => AllPromised
  BY DEF Init, AllPromised, Promised
<1>2. IInv /\ AllPromised /\ [Next]_vars => AllPromised'
  <2>1. ASSUME AllPromised, UNCHANGED vars PROVE AllPromised'
    BY <2>1 DEF vars, scriptVars, AllPromised, Promised
  <2> QED
    BY <2>1, RequestPromised, ContainerPromised, DownloadPromised, DownPromised DEF Next, Crash
<1>3. AllPromised => PackedIsTold
  BY DEF AllPromised, Promised, PackedIsTold
<1> QED
  BY <1>1, <1>2, <1>3, IInvHolds, PTL DEF Spec
=============================================================================
