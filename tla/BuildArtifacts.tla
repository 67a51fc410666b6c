---------------------------- MODULE BuildArtifacts ----------------------------
(***************************************************************************)
(* Firmware builds and what becomes of their archives                      *)
(* (services/imagebuilder.ts, models/device.ts, and server.py of           *)
(* build-system, which runs inside the builder's container).               *)
(*                                                                         *)
(* A request "local-flash" starts a container with a directory of its own, *)
(* has the script in it build, removes the container and tells its client  *)
(* the build id if there is an archive.  With the id, clients download the *)
(* archive, and devices its firmware over the air; each download deletes   *)
(* the archive when it has sent it.  A device may well come twice, because *)
(* its command is repeated until it answers.                               *)
(*                                                                         *)
(* Docker and the clients are external: a call may throw, a container may  *)
(* exit by itself, a client may go away.                                   *)
(***************************************************************************)
EXTENDS Naturals

CONSTANTS
  Builds,      \* requests "local-flash", by build id
  Downloads,   \* requests "artifacts" and "ota"
  NoBuild,
  MaxFailures  \* bound: calls that throw, containers and servers that die

ASSUME BuildAssumption == NoBuild \notin Builds /\ MaxFailures \in Nat

VARIABLES
  build,     \* build[b]: what the request does next
  container, \* its container: "none", "created", "running", "exited"
  script,    \* server.py: "idle", "working", "packing", "over"
  archive,   \* the archive, as it was written: "none", "partial", "whole"
  firmware,  \* the compiler made a firmware.bin
  unlinked,  \* builds whose archive was deleted
  get, of, route, \* each download: what it does next, of which build, by which route
  sent,      \* builds whose archive or firmware was sent in full (history)
  faulted,   \* builds one of whose calls threw, or whose server died (history)
  died,      \* builds whose container exited by itself (history)
  raised,    \* builds whose script raised while it packed (history)
  failures

scriptVars == <<script, archive, firmware, raised>>
getVars    == <<unlinked, get, of, route, sent>>
vars == <<build, container, scriptVars, getVars, faulted, died, failures>>

Starting  == {"create", "start", "inspect", "ready", "discard", "post"}
InFlight  == Starting \cup {"await", "remove", "look"}
Streaming == {"open", "find", "stream", "unlink"}

Init ==
  /\ build = [b \in Builds |-> "idle"]
  /\ container = [b \in Builds |-> "none"]
  /\ script = [b \in Builds |-> "idle"]
  /\ archive = [b \in Builds |-> "none"]
  /\ firmware = [b \in Builds |-> FALSE]
  /\ unlinked = {}
  /\ get = [d \in Downloads |-> "idle"]
  /\ of = [d \in Downloads |-> NoBuild]
  /\ route = [d \in Downloads |-> "artifacts"]
  /\ sent = {} /\ faulted = {} /\ died = {} /\ raised = {}
  /\ failures = 0

Exists(b) == archive[b] # "none" /\ b \notin unlinked

-----------------------------------------------------------------------------
(***************************************************************************)
(* Seeded faults: what a plausible mistake would make of the definitions   *)
(* that follow.  No specification uses them.                               *)
(***************************************************************************)

\* only an answer of the script ends the request, not the end of its container
AnswerAwaited(b) == script[b] = "over" /\ container[b] = "running"
\* the request does not wait for the end of the build
NotAwaited(b) == TRUE
\* a container that does not become ready is forgotten
UnreadyKept == "failed"
\* the archive is deleted even if the client went away
GoneUnlinks == "unlink"
-----------------------------------------------------------------------------
(* runBuildContainer *)

Goto(b, from, to) ==
  /\ build[b] = from
  /\ build' = [build EXCEPT ![b] = to]

Untroubled == UNCHANGED <<faulted, died, failures>>

\* buildSoftwareForDevice finds device, certificates, profile and repository;
\* ensureBuildDir makes the directory.
BeginBuild(b) ==
  /\ Goto(b, "idle", "create")
  /\ UNCHANGED <<container, scriptVars, getVars>> /\ Untroubled

CreateContainer(b) ==
  /\ Goto(b, "create", "start")
  /\ container' = [container EXCEPT ![b] = "created"]
  /\ UNCHANGED <<scriptVars, getVars>> /\ Untroubled

StartContainer(b) ==
  /\ Goto(b, "start", "inspect")
  /\ container' = [container EXCEPT ![b] = "running"]
  /\ UNCHANGED <<scriptVars, getVars>> /\ Untroubled

\* A container that exited at once makes the request throw.
Inspect(b) ==
  /\ Goto(b, "inspect", IF container[b] = "running" THEN "ready" ELSE "failed")
  /\ UNCHANGED <<container, scriptVars, getVars>> /\ Untroubled

Unready == "discard"

\* checkReadyBuild asks twenty times.  Nothing can be asked of a container
\* that has exited: then it throws.
CheckReady(b) ==
  /\ IF container[b] = "running"
       THEN \E next \in {"post", Unready} : Goto(b, "ready", next)
       ELSE Goto(b, "ready", "failed")
  /\ UNCHANGED <<container, scriptVars, getVars>> /\ Untroubled

RemoveContainer(b) ==
  /\ container' = [container EXCEPT ![b] = "none"]
  /\ script' = [script EXCEPT ![b] = "over"]

Discard(b) ==
  /\ Goto(b, "discard", "failed")
  /\ RemoveContainer(b)
  /\ UNCHANGED <<archive, firmware, raised, getVars>> /\ Untroubled

\* executePayload
Post(b) ==
  /\ IF container[b] = "running"
       THEN Goto(b, "post", "await") /\ script' = [script EXCEPT ![b] = "working"]
       ELSE Goto(b, "post", "failed") /\ UNCHANGED script
  /\ UNCHANGED <<container, archive, firmware, raised, getVars>> /\ Untroubled

\* curl has ended: the script has answered, or its container exited.
ScriptEnded(b) == script[b] = "over"

Await(b) ==
  /\ ScriptEnded(b)
  /\ Goto(b, "await", "remove")
  /\ UNCHANGED <<container, scriptVars, getVars>> /\ Untroubled

Remove(b) ==
  /\ Goto(b, "remove", "look")
  /\ RemoveContainer(b)
  /\ UNCHANGED <<archive, firmware, raised, getVars>> /\ Untroubled

\* With an archive the build id is told ("announced"), otherwise the build failed.
Look(b) ==
  /\ Goto(b, "look", IF Exists(b) THEN "announced" ELSE "failed")
  /\ UNCHANGED <<container, scriptVars, getVars>> /\ Untroubled

\* A call of Docker throws; nobody removes the container.
Throw(b) ==
  /\ build[b] \in InFlight \ {"look"}
  /\ failures < MaxFailures
  /\ failures' = failures + 1
  /\ build' = [build EXCEPT ![b] = "failed"]
  /\ faulted' = faulted \cup {b}
  /\ UNCHANGED <<container, scriptVars, getVars, died>>
-----------------------------------------------------------------------------
(* The container and the script in it *)

\* The script raises before it packs (clone, CA chain), or compiles: whether
\* that succeeded it does not ask, and packs what is there.
Compile(b) ==
  /\ script[b] = "working"
  /\ \/ /\ script' = [script EXCEPT ![b] = "over"]
        /\ UNCHANGED <<archive, firmware>>
     \/ /\ script' = [script EXCEPT ![b] = "packing"]
        /\ archive' = [archive EXCEPT ![b] = "partial"]
        /\ \E made \in BOOLEAN : firmware' = [firmware EXCEPT ![b] = made]
  /\ UNCHANGED <<build, container, raised, getVars>> /\ Untroubled

Pack(b) ==
  /\ script[b] = "packing"
  /\ script' = [script EXCEPT ![b] = "over"]
  /\ archive' = [archive EXCEPT ![b] = "whole"]
  /\ UNCHANGED <<build, container, firmware, raised, getVars>> /\ Untroubled

\* Reading a file or writing the archive raises: /build answers 500, which ends
\* curl, and what was written stays.
PackFails(b) ==
  /\ script[b] = "packing"
  /\ script' = [script EXCEPT ![b] = "over"]
  /\ raised' = raised \cup {b}
  /\ UNCHANGED <<build, container, archive, firmware, getVars>> /\ Untroubled

Exit(b) ==
  /\ container[b] = "running"
  /\ failures < MaxFailures
  /\ failures' = failures + 1
  /\ container' = [container EXCEPT ![b] = "exited"]
  /\ script' = [script EXCEPT ![b] = "over"]
  /\ died' = died \cup {b}
  /\ UNCHANGED <<build, archive, firmware, raised, getVars, faulted>>
-----------------------------------------------------------------------------
(* getBuildArtifacts ("artifacts") and getDevicesForOtaUpdate ("ota") *)

Told(b) == build[b] = "announced"

\* existsSync; without an archive the request is refused.
Request(d, b, r) ==
  /\ get[d] = "idle"
  /\ Told(b)
  /\ get' = [get EXCEPT ![d] = IF Exists(b) THEN "open" ELSE "over"]
  /\ of' = [of EXCEPT ![d] = b]
  /\ route' = [route EXCEPT ![d] = r]
  /\ UNCHANGED <<build, container, scriptVars, unlinked, sent>> /\ Untroubled

Step(d, from, to) ==
  /\ get[d] = from
  /\ get' = [get EXCEPT ![d] = to]
  /\ UNCHANGED <<build, container, scriptVars, of, route>>

\* createReadStream opens the file in the background; what is open stays
\* readable when it is deleted.
Open(d) ==
  /\ Step(d, "open", IF route[d] = "ota" THEN "find" ELSE "stream")
  /\ Exists(of[d])
  /\ UNCHANGED <<unlinked, sent>> /\ Untroubled

\* The server goes down, with everything in flight.
ServerDown ==
  /\ build' = [b \in Builds |-> IF build[b] \in InFlight THEN "failed" ELSE build[b]]
  /\ faulted' = faulted \cup {b \in Builds : build[b] \in InFlight}
  /\ get' = [d \in Downloads |-> IF get[d] \in Streaming \cup {"stuck"} THEN "over" ELSE get[d]]
  /\ UNCHANGED <<container, scriptVars, unlinked, of, route, sent, died>>

\* Another download has deleted the file since the test.  "artifacts" answers
\* with an error; "ota" has no listener for it, and an error event that nobody
\* listens for ends the process.
OpenFails(d) ==
  /\ get[d] = "open"
  /\ ~Exists(of[d])
  /\ \/ /\ route[d] = "artifacts"
        /\ Step(d, "open", "over")
        /\ UNCHANGED <<unlinked, sent>> /\ Untroubled
     \/ route[d] = "ota" /\ ServerDown /\ UNCHANGED failures

\* "ota" looks its device up, which may be gone.
FindDevice(d) ==
  /\ \E next \in {"stream", "over"} : Step(d, "find", next)
  /\ UNCHANGED <<unlinked, sent>> /\ Untroubled

\* Everything has been written to the client.  "ota" sends firmware.bin; if it
\* is not there it answers 404.
Send(d) ==
  /\ Step(d, "stream", "unlink")
  /\ sent' = IF archive[of[d]] = "whole" /\ (route[d] = "artifacts" \/ firmware[of[d]])
               THEN sent \cup {of[d]} ELSE sent
  /\ UNCHANGED unlinked /\ Untroubled

\* A partial archive may not parse.
ParseFails(d) ==
  /\ Step(d, "stream", "over")
  /\ route[d] = "ota"
  /\ archive[of[d]] = "partial"
  /\ UNCHANGED <<unlinked, sent>> /\ Untroubled

\* Nothing is read from, or written by, a request whose client is gone: the
\* promise it waits for is never settled.
Gone == "stuck"

ClientGone(d) ==
  /\ Step(d, "stream", Gone)
  /\ UNCHANGED <<unlinked, sent>> /\ Untroubled

Unlink(d) ==
  /\ Step(d, "unlink", "over")
  /\ unlinked' = unlinked \cup {of[d]}
  /\ UNCHANGED sent /\ Untroubled

Crash ==
  /\ failures < MaxFailures
  /\ failures' = failures + 1
  /\ ServerDown

Next ==
  \/ \E b \in Builds :
       \/ BeginBuild(b) \/ CreateContainer(b) \/ StartContainer(b) \/ Inspect(b)
       \/ CheckReady(b) \/ Discard(b) \/ Post(b) \/ Await(b) \/ Remove(b) \/ Look(b)
       \/ Throw(b) \/ Compile(b) \/ Pack(b) \/ PackFails(b) \/ Exit(b)
  \/ \E d \in Downloads :
       \/ \E b \in Builds, r \in {"artifacts", "ota"} : Request(d, b, r)
       \/ Open(d) \/ OpenFails(d) \/ FindDevice(d) \/ Send(d) \/ ParseFails(d)
       \/ ClientGone(d) \/ Unlink(d)
  \/ Crash

Spec == Init /\ [][Next]_vars

(***************************************************************************)
(* Fairness.  The calls of a request "local-flash" end, and so does the    *)
(* script, unless its container exits.  Nothing makes anybody download an  *)
(* archive, or a client stay.                                              *)
(***************************************************************************)
BuildStep(b) ==
  \/ CreateContainer(b) \/ StartContainer(b) \/ Inspect(b) \/ CheckReady(b)
  \/ Discard(b) \/ Post(b) \/ Await(b) \/ Remove(b) \/ Look(b)

FairSpec ==
  Spec /\ \A b \in Builds : WF_vars(BuildStep(b)) /\ WF_vars(Compile(b) \/ Pack(b) \/ PackFails(b))

-----------------------------------------------------------------------------
(* Properties *)

\* The types, and that only archives of builds that were announced are
\* downloaded and deleted.
TypeOK ==
  /\ build \in [Builds -> {"idle", "announced", "failed"} \cup InFlight]
  /\ container \in [Builds -> {"none", "created", "running", "exited"}]
  /\ script \in [Builds -> {"idle", "working", "packing", "over"}]
  /\ archive \in [Builds -> {"none", "partial", "whole"}]
  /\ firmware \in [Builds -> BOOLEAN]
  /\ get \in [Downloads -> {"idle", "over", "stuck"} \cup Streaming]
  /\ of \in [Downloads -> Builds \cup {NoBuild}]
  /\ route \in [Downloads -> {"artifacts", "ota"}]
  /\ \A d \in Downloads : get[d] # "idle" => of[d] \in Builds /\ build[of[d]] = "announced"
  /\ unlinked \subseteq {b \in Builds : build[b] = "announced" /\ archive[b] # "none"}
  /\ sent \subseteq Builds /\ faulted \subseteq Builds
  /\ died \subseteq Builds /\ raised \subseteq Builds
  /\ failures \in 0 .. MaxFailures

\* "Build complete" is told of a whole archive: the request waits for the
\* script and removes its container before it looks, so that nothing writes to
\* the archive any more.  It asks neither for the answer of the script nor for
\* the exit code of its container: a partial archive is announced all the same
\* if the script raised, or the container exited by itself, while it was packed.
AnnouncedIsWhole ==
  \A b \in Builds : build[b] = "announced" => archive[b] = "whole" \/ b \in died \cup raised

\* An archive with firmware is deleted only after some download has sent it in
\* full: neither a client that goes away, nor a device that asks again, nor a
\* crash costs the others the archive.
DeletedOnlyWhenSent ==
  \A b \in unlinked : firmware[b] /\ archive[b] = "whole" => b \in sent

\* A container outlives its request only if a call of the request threw or the
\* container exited by itself; a build that does not become ready, or fails,
\* leaves none.
ContainersRemoved ==
  \A b \in Builds :
    build[b] \notin InFlight /\ container[b] # "none" => b \in faulted \cup died

\* No archive is lost between the script and the client: once there is one, its
\* request is still on the way to look for it, or has announced it, unless a call
\* of the request threw or the server died.
PackedIsTold ==
  \A b \in Builds : archive[b] # "none" =>
    build[b] \in {"await", "remove", "look", "announced"} \/ b \in faulted

\* What is promised of builds and archives, and refined here.
Outcome ==
  [b \in Builds |-> IF build[b] \in {"announced", "failed"} THEN build[b] ELSE "pending"]
Handover == INSTANCE ArchiveHandover WITH told <- Outcome

\* However builds and downloads overlap and fail, a client is told one outcome,
\* nothing writes to an archive once it is announced, and what clients and devices
\* were told of stays there until it was sent in full.
ImplementsHandover == Handover!Spec

\* No request waits for ever, although its container may exit or its script
\* raise at any time; and what the script has packed is announced at last,
\* unless a call of the request threw or the server died.
BuildsEnd ==
  \A b \in Builds :
    /\ build[b] \in InFlight ~> build[b] \in {"announced", "failed"}
    /\ archive[b] = "whole" ~> build[b] = "announced" \/ b \in faulted
=============================================================================
