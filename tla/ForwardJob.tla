------------------------------ MODULE ForwardJob ------------------------------
(***************************************************************************)
(* Delivery of one payload to the targets of a forwarder                   *)
(* (processPayloadForwardMessage, services/device-shadow.ts).              *)
(*                                                                         *)
(* A job of the queue "forward-request" renders and sends the targets in   *)
(* order.  The first one that throws ends the run; a new job with the same *)
(* targets, the context as it is by then and one more attempt is added,    *)
(* unless the retry policy of the template is exhausted.                   *)
(*                                                                         *)
(* HTTP servers, the broker and BullMQ are external: a request may throw   *)
(* although the server has processed it (the answer is lost, or is not     *)
(* JSON: sendHttp then reads the same body twice, which throws), and a job *)
(* whose container crashed is run again from its stored data, or dropped.  *)
(***************************************************************************)
EXTENDS Integers, FiniteSets

CONSTANTS
  NumTargets,   \* length of the forwarder's list of targets
  HttpTargets,  \* those of kind HTTP; the others are MQTT
  Policies,     \* what retryPolicy?.maxAttempts || 0 may be; -1 is "for ever"
  Jobs,         \* identifiers of BullMQ jobs
  Count,        \* bound: attempts and receipts are counted up to Count
  MaxCrashes    \* bound: crashes of a container in the middle of a job

Targets == 1 .. NumTargets

ASSUME ForwardAssumption ==
  /\ NumTargets \in Nat
  /\ HttpTargets \subseteq Targets
  /\ Policies \subseteq Nat \cup {-1}
  /\ Jobs # {}
  /\ Count \in Nat \ {0} /\ \A n \in Policies : n + 2 <= Count
  /\ MaxCrashes \in Nat

VARIABLES
  maxAttempts, \* the policy of the forwarder's template
  at,        \* at[j]: where job j is
  attempts,  \* attempts[j]: data.attempts
  stored,    \* stored[j]: ctx.artifacts in the job's stored data: i is a response
             \* of target i that is an object, -i one that is not, 0 is none
  artifact,  \* artifact[j]: ctx.artifacts in the running job
  pos,       \* pos[j]: the target job j sends next
  receipts,  \* receipts[i]: how often target i received the payload (history)
  processed, \* targets whose turn in the loop ended without a throw (history)
  rendered,  \* rendered[i]: whose response the body of target i was made of in
             \* the first attempt, 0 is the payload, -1 before (history)
  objects,   \* targets whose response was an object in the first attempt (history)
  outcome,   \* how jobs have ended: "completed", "gaveUp", "dropped" (history)
  crashes

vars == <<maxAttempts, at, attempts, stored, artifact, pos, receipts, processed, rendered, objects, outcome, crashes>>

\* which of the free identifiers a job gets makes no difference
FirstJob == CHOOSE j \in Jobs : TRUE

Init ==
  /\ maxAttempts \in Policies
  /\ at = [j \in Jobs |-> IF j = FirstJob THEN "queued" ELSE "none"]
  /\ attempts = [j \in Jobs |-> 0]
  /\ stored = [j \in Jobs |-> 0]
  /\ artifact = [j \in Jobs |-> 0]
  /\ pos = [j \in Jobs |-> 1]
  /\ receipts = [i \in Targets |-> 0]
  /\ processed = {}
  /\ rendered = [i \in Targets |-> -1]
  /\ objects = {}
  /\ outcome = {}
  /\ crashes = 0

-----------------------------------------------------------------------------
(***************************************************************************)
(* Seeded faults: what a plausible mistake would make of the definitions   *)
(* that follow.  No specification uses them.                               *)
(***************************************************************************)

\* the try block is inside the loop: a target that throws is skipped
SkipTarget(j) ==
  /\ at' = at
  /\ pos' = [pos EXCEPT ![j] = @ + 1]
\* the catch block does nothing but log
ForgetJob(j) ==
  /\ at' = [at EXCEPT ![j] = "none"]
  /\ pos' = pos
\* whatever was answered is taken for the content
AnyResponse(a) == IF a < 0 THEN -a ELSE a
\* the last attempt is allowed one more
ExhaustedLate(j) == attempts[j] > maxAttempts + 1 /\ maxAttempts # -1
\* -1 is a limit like any other
ExhaustedAtOnce(j) == attempts[j] > maxAttempts
\* a retry takes over the attempts of the run that failed
AttemptsKept(j) == attempts[j]
\* the job is not finished when its successor is added
AddedTwice(j) == "adding"
-----------------------------------------------------------------------------
Counted(n) == IF n > Count THEN Count ELSE n

\* A worker starts a job from its stored data.
Take(j) ==
  /\ at[j] = "queued"
  /\ at' = [at EXCEPT ![j] = "running"]
  /\ artifact' = [artifact EXCEPT ![j] = stored[j]]
  /\ pos' = [pos EXCEPT ![j] = 1]
  /\ UNCHANGED <<maxAttempts, attempts, stored, receipts, processed, rendered, objects, outcome, crashes>>

Sending(j, i) == at[j] = "running" /\ pos[j] = i

FirstAttempt(j) == attempts[j] = 0 /\ crashes = 0

\* createBodyContext takes ctx.artifacts if it is an object, and otherwise
\* ctx.payload.
BodySource(a) == IF a > 0 THEN a ELSE 0

\* renderTargetDeliverables reads the context at the last moment.
Render(j, i) ==
  rendered' = IF FirstAttempt(j) THEN [rendered EXCEPT ![i] = BodySource(artifact[j])] ELSE rendered

Receive(i) == receipts' = [receipts EXCEPT ![i] = Counted(@ + 1)]

\* sendHttpMessage: the response becomes the artifacts of the context, also one
\* that is a string, a number, a boolean or null.
KeepResponse(j, i, object) == [artifact EXCEPT ![j] = IF object THEN i ELSE -i]

SendHttp(j, i) ==
  /\ Sending(j, i) /\ i \in HttpTargets
  /\ Render(j, i)
  /\ Receive(i)
  /\ processed' = processed \cup {i}
  /\ \E object \in BOOLEAN :
       /\ artifact' = KeepResponse(j, i, object)
       /\ objects' = IF ~FirstAttempt(j) THEN objects
                     ELSE IF object THEN objects \cup {i} ELSE objects \ {i}
  /\ pos' = [pos EXCEPT ![j] = i + 1]
  /\ UNCHANGED <<maxAttempts, at, attempts, stored, outcome, crashes>>

SendMqtt(j, i) ==
  /\ Sending(j, i) /\ i \notin HttpTargets
  /\ Render(j, i)
  /\ Receive(i)
  /\ processed' = processed \cup {i}
  /\ pos' = [pos EXCEPT ![j] = i + 1]
  /\ UNCHANGED <<maxAttempts, at, attempts, stored, artifact, objects, outcome, crashes>>

\* The catch block ends the loop.
Thrown(j) ==
  /\ at' = [at EXCEPT ![j] = "failing"]
  /\ pos' = pos

\* A target throws: an HTTP request before or after the server has processed
\* it, an MQTT target when its topic is rendered empty, before it is sent.
TargetThrows(j, i) ==
  /\ Sending(j, i)
  /\ \/ UNCHANGED <<receipts, rendered>>
     \/ i \in HttpTargets /\ Render(j, i) /\ Receive(i)
  /\ Thrown(j)
  /\ UNCHANGED <<maxAttempts, attempts, stored, artifact, processed, objects, outcome, crashes>>

\* The memory of the run of job j is gone, or also the job's stored data.
RunOver(j) ==
  /\ artifact' = [artifact EXCEPT ![j] = 0]
  /\ pos' = [pos EXCEPT ![j] = 1]

JobOver(j) ==
  /\ at' = [at EXCEPT ![j] = "none"]
  /\ attempts' = [attempts EXCEPT ![j] = 0]
  /\ stored' = [stored EXCEPT ![j] = 0]
  /\ RunOver(j)

Complete(j) ==
  /\ Sending(j, NumTargets + 1)
  /\ JobOver(j)
  /\ outcome' = outcome \cup {"completed"}
  /\ UNCHANGED <<maxAttempts, receipts, processed, rendered, objects, crashes>>

Exhausted(j) == attempts[j] > maxAttempts /\ maxAttempts # -1

GiveUp(j) ==
  /\ at[j] = "failing"
  /\ Exhausted(j)
  /\ JobOver(j)
  /\ outcome' = outcome \cup {"gaveUp"}
  /\ UNCHANGED <<maxAttempts, receipts, processed, rendered, objects, crashes>>

\* runForwardJob calls add and does not await it: the job may be over before
\* its successor is stored.
Retry(j) ==
  /\ at[j] = "failing"
  /\ ~Exhausted(j)
  /\ at' = [at EXCEPT ![j] = "adding"]
  /\ UNCHANGED <<maxAttempts, attempts, stored, artifact, pos, receipts, processed, rendered, objects, outcome, crashes>>

AfterAdd(j) == "added"

NextAttempt(j) == Counted(attempts[j] + 1)

AddDone(j, k) ==
  /\ at[j] = "adding"
  /\ at[k] = "none" /\ k = CHOOSE l \in Jobs : at[l] = "none"
  /\ at' = [at EXCEPT ![j] = AfterAdd(j), ![k] = "queued"]
  /\ attempts' = [attempts EXCEPT ![k] = NextAttempt(j)]
  /\ stored' = [stored EXCEPT ![k] = artifact[j]]
  /\ UNCHANGED <<maxAttempts, artifact, pos, receipts, processed, rendered, objects, outcome, crashes>>

\* BullMQ marks the failed run as over.
Finish(j) ==
  /\ at[j] = "added"
  /\ JobOver(j)
  /\ UNCHANGED <<maxAttempts, receipts, processed, rendered, objects, outcome, crashes>>

\* The container dies under job j.  A stalled job is run again from its stored
\* data, or dropped; a job that was over when the add was in flight is lost.
Crash(j) ==
  /\ crashes < MaxCrashes
  /\ crashes' = crashes + 1
  /\ at[j] \in {"running", "failing", "adding", "added"}
  /\ \/ /\ at' = [at EXCEPT ![j] = "queued"]
        /\ RunOver(j)
        /\ UNCHANGED <<attempts, stored, outcome>>
     \/ /\ JobOver(j)
        /\ outcome' = outcome \cup {"dropped"}
  /\ UNCHANGED <<maxAttempts, receipts, processed, rendered, objects>>

JobStep(j) ==
  \/ Take(j) \/ Complete(j) \/ GiveUp(j) \/ Retry(j) \/ Finish(j)
  \/ \E i \in Targets : SendHttp(j, i) \/ SendMqtt(j, i) \/ TargetThrows(j, i)
  \/ \E k \in Jobs : AddDone(j, k)

Live == {j \in Jobs : at[j] # "none"}

\* jobs that are not about to be marked over
AtWork == {j \in Live : at[j] # "added"}

\* The system comes to rest when no job is left.
Idle == Live = {} /\ UNCHANGED vars

Next == (\E j \in Jobs : JobStep(j) \/ Crash(j)) \/ Idle

Spec == Init /\ [][Next]_vars

(***************************************************************************)
(* Fairness.  BullMQ runs every job and every await of it ends.            *)
(***************************************************************************)
FairSpec == Spec /\ \A j \in Jobs : WF_vars(JobStep(j))

-----------------------------------------------------------------------------
(* Properties *)

TypeOK ==
  /\ maxAttempts \in Policies
  /\ at \in [Jobs -> {"none", "queued", "running", "failing", "adding", "added"}]
  /\ attempts \in [Jobs -> 0 .. Count]
  /\ stored \in [Jobs -> -NumTargets .. NumTargets]
  /\ artifact \in [Jobs -> -NumTargets .. NumTargets]
  /\ pos \in [Jobs -> 1 .. NumTargets + 1]
  /\ receipts \in [Targets -> 0 .. Count]
  /\ processed \subseteq Targets
  /\ rendered \in [Targets -> -1 .. NumTargets]
  /\ objects \subseteq HttpTargets
  /\ outcome \subseteq {"completed", "gaveUp", "dropped"}
  /\ crashes \in 0 .. MaxCrashes

\* Targets are reached in order, over all runs: none before every target in
\* front of it in the list has received the payload.
ReachedInOrder ==
  \A i, k \in Targets : i < k /\ receipts[k] > 0 => receipts[i] > 0

\* A job that completes leaves no target without the payload, although each
\* run starts from the first target and runs may end anywhere.
CompletedReachedAll ==
  "completed" \in outcome => \A i \in Targets : receipts[i] > 0

Delivery ==
  INSTANCE PayloadDelivery WITH
    Length <- NumTargets,
    policy <- maxAttempts,
    received <- {i \in Targets : receipts[i] > 0},
    ended <- outcome

\* Over all its runs, jobs and crashes a payload is delivered as PayloadDelivery
\* says: in order, completely when it completes, and given up only under a
\* policy that ends.
ImplementsDelivery == Delivery!Spec

\* The payload is not forgotten: while a target lacks it, a job is at it,
\* unless the retry policy or a crash ended the attempts.
NotForgotten ==
  (\E i \in Targets : receipts[i] = 0) => Live # {} \/ outcome \cap {"gaveUp", "dropped"} # {}

\* A retry takes the place of the run that failed and does not multiply it:
\* apart from a run about to be marked over there is one job, and one more for
\* each crash that struck between an add and the end of its job.
OneJobAtATime == Cardinality(AtWork) <= 1 + crashes

\* The attempts that a job counts never exceed the policy by more than one:
\* processPayloadForwardMessage compares data.attempts, which starts at 0, with
\* ">".  A run that a crash cut short and that is run again does not count again.
RunsBounded == maxAttempts # -1 => \A j \in Live : attempts[j] <= maxAttempts + 1

\* a is the last HTTP target before i, 0 if there is none
LastHttpBefore(a, i) ==
  LET before == {k \in HttpTargets : k < i} IN
  /\ before = {} => a = 0
  /\ before # {} => a \in before /\ \A k \in before : k <= a

\* In a first attempt each target is rendered from the response of the last
\* HTTP target before it if that is an object, and from the device's payload if
\* it is not or there is none; responses of earlier targets are forgotten.
RenderedFromPredecessor ==
  \A i \in Targets : rendered[i] # -1 =>
    \E a \in 0 .. NumTargets :
      /\ LastHttpBefore(a, i)
      /\ rendered[i] = IF a \in objects THEN a ELSE 0

\* A finite retry policy brings every payload to an end.
Ends == maxAttempts # -1 => <>[](Live = {})

\* A target that is tried for ever answers at last.
Answering == \A i \in Targets : SF_vars(\E j \in Jobs : SendHttp(j, i) \/ SendMqtt(j, i))

\* With maxAttempts -1 every target is reached in the end, however often it
\* and the others throw, if it answers at last and no crash drops the job.
ReachedAtLast ==
  Answering =>
    (maxAttempts = -1 => <>((\A i \in Targets : receipts[i] > 0) \/ "dropped" \in outcome))

\* "we remove the target once processed" (device-shadow.ts:591): a target whose
\* turn ended without an error is not sent again by a retry.
NotSentAgain ==
  [][\A j \in Jobs, i \in Targets :
       (SendHttp(j, i) \/ SendMqtt(j, i)) => i \notin processed]_vars
=============================================================================
