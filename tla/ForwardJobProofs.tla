---------------------------- MODULE ForwardJobProofs ----------------------------
(***************************************************************************)
(* Proofs about ForwardJob, for every list of targets, retry policy and    *)
(* number of crashes.  The inductive invariant adds to the properties what *)
(* a running job has behind it: Next says nothing of earlier runs, so      *)
(* without BehindReceived neither the order in which targets are reached   *)
(* nor the completeness of a completed job is inductive.                   *)
(***************************************************************************)
EXTENDS ForwardJob, FiniteSetTheorems, TLAPS

\* What a running job has behind it has been received.
BehindReceived ==
  \A j \in Jobs : at[j] = "running" => \A i \in Targets : i < pos[j] => receipts[i] > 0

IInv == TypeOK /\ BehindReceived /\ ReachedInOrder /\ CompletedReachedAll

LEMMA FirstJobFact == FirstJob \in Jobs
  BY ForwardAssumption DEF FirstJob, ForwardAssumption

LEMMA InitIInv == Init => IInv
  BY ForwardAssumption
  DEF ForwardAssumption, Init, IInv, TypeOK, BehindReceived, ReachedInOrder,
      CompletedReachedAll, Targets

\* Counting receipts never makes one disappear.
LEMMA ReceiveFacts ==
  ASSUME TypeOK, NEW i \in Targets, Receive(i)
  PROVE  /\ receipts' \in [Targets -> 0 .. Count]
         /\ receipts'[i] > 0
         /\ \A k \in Targets : k # i => receipts'[k] = receipts[k]
<1>1. receipts' = [receipts EXCEPT ![i] = Counted(receipts[i] + 1)]
  BY DEF Receive
<1>2. receipts[i] \in 0 .. Count /\ Count \in Nat /\ Count > 0
  BY ForwardAssumption DEF TypeOK, ForwardAssumption
<1>3. Counted(receipts[i] + 1) \in 0 .. Count /\ Counted(receipts[i] + 1) > 0
  BY <1>2 DEF Counted
<1> QED
  BY <1>1, <1>3 DEF TypeOK

LEMMA RenderTyped ==
  ASSUME TypeOK, NEW j \in Jobs, NEW i \in Targets, Render(j, i)
  PROVE  rendered' \in [Targets -> -1 .. NumTargets]
<1>1. artifact[j] \in -NumTargets .. NumTargets /\ NumTargets \in Nat
  BY ForwardAssumption DEF TypeOK, ForwardAssumption
<1>2. BodySource(artifact[j]) \in -1 .. NumTargets
  BY <1>1 DEF BodySource
<1>3. rendered \in [Targets -> -1 .. NumTargets]
  BY DEF TypeOK
<1> QED
  BY <1>2, <1>3 DEF Render

\* The end of a job or of a run of it keeps the types of its variables.
LEMMA OverFacts ==
  ASSUME TypeOK, NEW j \in Jobs, JobOver(j) \/ (RunOver(j) /\ UNCHANGED <<attempts, stored>>)
  PROVE  /\ attempts' \in [Jobs -> 0 .. Count]
         /\ stored' \in [Jobs -> -NumTargets .. NumTargets]
         /\ artifact' \in [Jobs -> -NumTargets .. NumTargets]
         /\ pos' \in [Jobs -> 1 .. NumTargets + 1]
<1>1. NumTargets \in Nat /\ Count \in Nat
  BY ForwardAssumption DEF ForwardAssumption
<1> QED
  BY <1>1 DEF JobOver, RunOver, TypeOK

\* A step of one job that leaves the receipts alone.
LEMMA QuietStep ==
  ASSUME IInv, TypeOK', receipts' = receipts,
         "completed" \in outcome' => "completed" \in outcome,
         \A j \in Jobs : at'[j] = "running" =>
           \/ at[j] = "running" /\ pos'[j] = pos[j]
           \/ pos'[j] = 1
  PROVE  IInv'
<1>1. BehindReceived'
  BY DEF IInv, BehindReceived, Targets
<1>2. ReachedInOrder' /\ CompletedReachedAll'
  BY DEF IInv, ReachedInOrder, CompletedReachedAll
<1> QED
  BY <1>1, <1>2 DEF IInv

\* The turn of target i in job j: all before it have received the payload, so
\* i may.
LEMMA TurnStep ==
  ASSUME IInv, TypeOK', NEW j \in Jobs, NEW i \in Targets,
         Sending(j, i), Receive(i), outcome' = outcome,
         \A l \in Jobs : at'[l] = "running" =>
           \/ at[l] = "running" /\ pos'[l] = pos[l]
           \/ l = j /\ pos'[l] = i + 1
  PROVE  IInv'
<1>1. TypeOK /\ BehindReceived /\ ReachedInOrder /\ CompletedReachedAll
  BY DEF IInv
<1>2. \A k \in Targets : receipts[k] \in Nat /\ (receipts[k] > 0 => receipts'[k] > 0)
  BY <1>1, ReceiveFacts, ForwardAssumption DEF TypeOK, ForwardAssumption
<1>3. receipts'[i] > 0 /\ \A k \in Targets : k # i => receipts'[k] = receipts[k]
  BY <1>1, ReceiveFacts
<1>4. \A k \in Targets : k < i => receipts[k] > 0
  BY <1>1 DEF Sending, BehindReceived
<1>5. BehindReceived'
  <2> SUFFICES ASSUME NEW l \in Jobs, at'[l] = "running", NEW k \in Targets, k < pos'[l]
               PROVE  receipts'[k] > 0
    BY DEF BehindReceived
  <2>1. CASE at[l] = "running" /\ pos'[l] = pos[l]
    BY <1>1, <1>2, <2>1 DEF BehindReceived
  <2>2. CASE l = j /\ pos'[l] = i + 1
    <3>1. k = i \/ k < i
      BY <2>2, ForwardAssumption DEF Targets, ForwardAssumption
    <3> QED
      BY <1>2, <1>3, <1>4, <3>1
  <2> QED
    BY <2>1, <2>2
<1>6. ReachedInOrder'
  <2> SUFFICES ASSUME NEW k \in Targets, NEW l \in Targets, k < l, receipts'[l] > 0
               PROVE  receipts'[k] > 0
    BY DEF ReachedInOrder
  <2>1. CASE l = i
    BY <1>2, <1>4, <2>1
  <2>2. CASE l # i
    BY <1>1, <1>2, <1>3, <2>2 DEF ReachedInOrder
  <2> QED
    BY <2>1, <2>2
<1>7. CompletedReachedAll'
  BY <1>1, <1>2 DEF CompletedReachedAll
<1> QED
  BY <1>5, <1>6, <1>7 DEF IInv

LEMMA JobStepIInv == ASSUME IInv, NEW j \in Jobs, JobStep(j) PROVE IInv'
<1> USE DEF IInv
<1>1. DOMAIN at = Jobs /\ DOMAIN pos = Jobs
  BY DEF TypeOK
<1>2. ASSUME Take(j) PROVE IInv'
  <2>1. TypeOK'
    BY <1>2, ForwardAssumption DEF Take, TypeOK, ForwardAssumption
  <2> QED
    BY <1>1, <1>2, <2>1, QuietStep DEF Take
<1>3. ASSUME NEW i \in Targets, SendHttp(j, i) PROVE IInv'
  <2>1. receipts' \in [Targets -> 0 .. Count]
    BY <1>3, ReceiveFacts DEF SendHttp
  <2>2. rendered' \in [Targets -> -1 .. NumTargets]
    BY <1>3, RenderTyped DEF SendHttp
  <2>3. pos' \in [Jobs -> 1 .. NumTargets + 1] /\ artifact' \in [Jobs -> -NumTargets .. NumTargets]
    <3>1. /\ i \in 1 .. NumTargets /\ NumTargets \in Nat
          /\ pos \in [Jobs -> 1 .. NumTargets + 1] /\ artifact \in [Jobs -> -NumTargets .. NumTargets]
      BY ForwardAssumption DEF TypeOK, Targets, ForwardAssumption
    <3>2. i + 1 \in 1 .. NumTargets + 1 /\ i \in -NumTargets .. NumTargets /\ -i \in -NumTargets .. NumTargets
      BY <3>1
    <3>3. /\ pos' = [pos EXCEPT ![j] = i + 1]
          /\ \E a \in {i, -i} : artifact' = [artifact EXCEPT ![j] = a]
      BY <1>3 DEF SendHttp, KeepResponse
    <3> QED
      BY <3>1, <3>2, <3>3
  <2>5. objects' \subseteq HttpTargets
    BY <1>3 DEF SendHttp, TypeOK
  <2>4. TypeOK'
    BY <1>3, <2>1, <2>2, <2>3, <2>5 DEF SendHttp, TypeOK
  <2> QED
    BY <1>1, <1>3, <2>4, TurnStep DEF SendHttp
<1>4. ASSUME NEW i \in Targets, SendMqtt(j, i) PROVE IInv'
  <2>1. receipts' \in [Targets -> 0 .. Count]
    BY <1>4, ReceiveFacts DEF SendMqtt
  <2>2. rendered' \in [Targets -> -1 .. NumTargets]
    BY <1>4, RenderTyped DEF SendMqtt
  <2>3. pos' \in [Jobs -> 1 .. NumTargets + 1]
    BY <1>4, ForwardAssumption DEF SendMqtt, TypeOK, Targets, ForwardAssumption
  <2>4. TypeOK'
    BY <1>4, <2>1, <2>2, <2>3 DEF SendMqtt, TypeOK
  <2> QED
    BY <1>1, <1>4, <2>4, TurnStep DEF SendMqtt
<1>5. ASSUME NEW i \in Targets, TargetThrows(j, i) PROVE IInv'
  <2>1. /\ at' = [at EXCEPT ![j] = "failing"] /\ pos' = pos /\ Sending(j, i)
        /\ UNCHANGED <<maxAttempts, attempts, stored, artifact, processed, objects, outcome, crashes>>
    BY <1>5 DEF TargetThrows, Thrown
  <2>2. CASE UNCHANGED <<receipts, rendered>>
    <3>1. TypeOK'
      BY <2>1, <2>2 DEF TypeOK
    <3> QED
      BY <1>1, <2>1, <2>2, <3>1, QuietStep
  <2>3. CASE Render(j, i) /\ Receive(i)
    <3>1. receipts' \in [Targets -> 0 .. Count]
      BY <2>3, ReceiveFacts
    <3>2. rendered' \in [Targets -> -1 .. NumTargets]
      BY <2>3, RenderTyped
    <3>3. TypeOK'
      BY <2>1, <3>1, <3>2 DEF TypeOK
    <3> QED
      BY <1>1, <2>1, <2>3, <3>3, TurnStep
  <2> QED
    BY <1>5, <2>2, <2>3 DEF TargetThrows
<1>6. ASSUME Complete(j) PROVE IInv'
  <2>1. TypeOK'
    BY <1>6, OverFacts DEF Complete, JobOver, TypeOK
  <2>2. \A i \in Targets : receipts[i] > 0
    BY <1>6, ForwardAssumption DEF Complete, Sending, BehindReceived, Targets, ForwardAssumption
  <2>3. receipts' = receipts /\ outcome' = outcome \cup {"completed"}
    BY <1>6 DEF Complete
  <2> QED
    BY <2>1, <2>2, <2>3 DEF BehindReceived, ReachedInOrder, CompletedReachedAll
<1>7. CASE GiveUp(j) \/ Finish(j)
  <2>1. TypeOK'
    BY <1>7, OverFacts DEF GiveUp, Finish, JobOver, TypeOK
  <2> QED
    BY <1>1, <1>7, <2>1, QuietStep DEF GiveUp, Finish, JobOver, RunOver
<1>9. CASE Retry(j)
  <2>1. TypeOK'
    BY <1>9 DEF Retry, TypeOK
  <2> QED
    BY <1>1, <1>9, <2>1, QuietStep DEF Retry
<1>8. ASSUME NEW k \in Jobs, AddDone(j, k) PROVE IInv'
  <2>1. attempts' \in [Jobs -> 0 .. Count]
    BY <1>8, ForwardAssumption DEF AddDone, NextAttempt, Counted, TypeOK, ForwardAssumption
  <2>2. TypeOK'
    BY <1>8, <2>1 DEF AddDone, AfterAdd, NextAttempt, TypeOK
  <2> QED
    BY <1>1, <1>8, <2>2, QuietStep DEF AddDone, AfterAdd
<1> QED
  BY <1>2, <1>3, <1>4, <1>5, <1>6, <1>7, <1>8, <1>9 DEF JobStep

LEMMA CrashIInv == ASSUME IInv, NEW j \in Jobs, Crash(j) PROVE IInv'
<1>1. DOMAIN at = Jobs
  BY DEF IInv, TypeOK
<1>2. TypeOK'
  <2>1. crashes' \in 0 .. MaxCrashes
    BY ForwardAssumption DEF IInv, Crash, TypeOK, ForwardAssumption
  <2>2. at' \in [Jobs -> {"none", "queued", "running", "failing", "adding", "added"}]
    BY DEF IInv, Crash, JobOver, TypeOK
  <2>3. outcome' \subseteq {"completed", "gaveUp", "dropped"}
    BY DEF IInv, Crash, TypeOK
  <2>4. UNCHANGED <<maxAttempts, receipts, processed, rendered, objects>>
    BY DEF Crash
  <2> QED
    BY <2>1, <2>2, <2>3, <2>4, OverFacts DEF IInv, TypeOK, Crash
<1>3. \A l \in Jobs : at'[l] = "running" => at[l] = "running" /\ pos'[l] = pos[l]
  BY <1>1 DEF IInv, TypeOK, Crash, JobOver, RunOver
<1> QED
  BY <1>2, <1>3, QuietStep DEF Crash

LEMMA Inductive == IInv /\ [Next]_vars => IInv'
<1>1. ASSUME IInv, UNCHANGED vars PROVE IInv'
  BY <1>1 DEF vars, IInv, TypeOK, BehindReceived, ReachedInOrder, CompletedReachedAll
<1> QED
  BY <1>1, JobStepIInv, CrashIInv DEF Next, Idle

LEMMA IInvHolds == Spec => []IInv
<1>1. Init => IInv
  BY InitIInv
<1>2. IInv /\ [Next]_vars => IInv'
  BY Inductive
<1> QED
  BY <1>1, <1>2, PTL DEF Spec

\* The variables of ForwardJob keep their types.
THEOREM TypeCorrect == Spec => []TypeOK
<1>1. IInv => TypeOK
  BY DEF IInv
<1> QED
  BY <1>1, IInvHolds, PTL

\* Whatever throws, is retried or crashes, targets are reached in list order.
THEOREM OrderHolds == Spec => []ReachedInOrder
<1>1. IInv => ReachedInOrder
  BY DEF IInv
<1> QED
  BY <1>1, IInvHolds, PTL

\* A forward job that completes has delivered the payload to every target.
THEOREM CompletionHolds == Spec => []CompletedReachedAll
<1>1. IInv => CompletedReachedAll
  BY DEF IInv
<1> QED
  BY <1>1, IInvHolds, PTL

-----------------------------------------------------------------------------
(* The bound on the runs: only a job whose policy is not exhausted adds one. *)

LEMMA PolicyStays == [Next]_vars => maxAttempts' = maxAttempts
  BY DEF Next, Idle, vars, JobStep, Take, Complete, GiveUp, Retry, Finish, SendHttp, SendMqtt,
         TargetThrows, AddDone, Crash

\* Under a policy that ends, at each job:
WithinPolicy(l) ==
  /\ at[l] # "none" => attempts[l] <= maxAttempts + 1
  /\ at[l] = "adding" => attempts[l] <= maxAttempts

LEMMA BoundStep ==
  ASSUME TypeOK, [Next]_vars, maxAttempts # -1, \A l \in Jobs : WithinPolicy(l)
  PROVE  \A l \in Jobs : WithinPolicy(l)'
<1>1. maxAttempts \in Nat /\ at \in [Jobs -> {"none", "queued", "running", "failing", "adding", "added"}]
      /\ attempts \in [Jobs -> 0 .. Count] /\ Count \in Nat
  BY ForwardAssumption DEF TypeOK, ForwardAssumption
<1>2. \A l \in Jobs : /\ at[l] # "none" => attempts[l] <= maxAttempts + 1
                     /\ at[l] = "adding" => attempts[l] <= maxAttempts
  BY DEF WithinPolicy
<1>3. maxAttempts' = maxAttempts
  BY PolicyStays
<1>4. CASE UNCHANGED vars
  BY <1>2, <1>4 DEF vars, WithinPolicy
<1>5. ASSUME NEW j \in Jobs, Take(j)
      PROVE  \A l \in Jobs : WithinPolicy(l)'
  BY <1>1, <1>2, <1>3, <1>5 DEF Take, WithinPolicy
<1>6. ASSUME NEW j \in Jobs, JobOver(j)
      PROVE  \A l \in Jobs : WithinPolicy(l)'
  <2>1. at'[j] = "none" /\ \A l \in Jobs \ {j} : at'[l] = at[l] /\ attempts'[l] = attempts[l]
    BY <1>1, <1>6 DEF JobOver
  <2> QED
    BY <1>2, <1>3, <2>1 DEF WithinPolicy
<1>7. ASSUME NEW j \in Jobs, Retry(j)
      PROVE  \A l \in Jobs : WithinPolicy(l)'
  BY <1>1, <1>2, <1>7, <1>3 DEF Retry, Exhausted, WithinPolicy
<1>8. ASSUME NEW j \in Jobs, NEW i \in Targets, SendHttp(j, i) \/ SendMqtt(j, i) \/ TargetThrows(j, i)
      PROVE  attempts' = attempts /\ \A l \in Jobs : at'[l] = at[l] \/ (l = j /\ at[l] = "running" /\ at'[l] = "failing")
  BY <1>1, <1>8 DEF SendHttp, SendMqtt, TargetThrows, Thrown, Sending
<1>9. ASSUME NEW j \in Jobs, NEW k \in Jobs, AddDone(j, k)
      PROVE  \A l \in Jobs : WithinPolicy(l)'
  <2>1. attempts[j] \in Nat /\ attempts[j] <= maxAttempts
    <3>1. at[j] = "adding"
      BY <1>9 DEF AddDone
    <3>2. attempts[j] \in Nat
      BY <1>1
    <3>3. attempts[j] <= maxAttempts
      BY <3>1 DEF WithinPolicy
    <3> QED
      BY <3>2, <3>3
  <2>2. NextAttempt(j) \in Nat /\ NextAttempt(j) <= maxAttempts + 1
    BY <1>1, <2>1 DEF NextAttempt, Counted
  <2>3. /\ attempts' = [attempts EXCEPT ![k] = NextAttempt(j)] /\ at[k] = "none" /\ at[j] = "adding"
        /\ at' = [at EXCEPT ![j] = "added", ![k] = "queued"]
    BY <1>9 DEF AddDone, AfterAdd
  <2> QED
    BY <1>1, <1>2, <1>3, <2>2, <2>3 DEF WithinPolicy
<1>10. ASSUME NEW j \in Jobs, Crash(j)
      PROVE  \A l \in Jobs : WithinPolicy(l)'
  <2>1. CASE JobOver(j)
    BY <1>6, <2>1
  <2>2. CASE at' = [at EXCEPT ![j] = "queued"] /\ attempts' = attempts
    <3>1. at[j] # "none"
      BY <1>10 DEF Crash
    <3> QED
      BY <1>1, <1>2, <1>3, <2>2, <3>1 DEF WithinPolicy
  <2> QED
    BY <1>10, <2>1, <2>2 DEF Crash
<1>11. ASSUME NEW j \in Jobs, Complete(j) \/ GiveUp(j) \/ Finish(j)
      PROVE  \A l \in Jobs : WithinPolicy(l)'
  BY <1>6, <1>11 DEF Complete, GiveUp, Finish
<1>12. ASSUME NEW j \in Jobs, NEW i \in Targets, SendHttp(j, i) \/ SendMqtt(j, i) \/ TargetThrows(j, i)
      PROVE  \A l \in Jobs : WithinPolicy(l)'
  BY <1>2, <1>3, <1>8, <1>12 DEF WithinPolicy
<1> QED
  BY <1>4, <1>5, <1>7, <1>9, <1>10, <1>11, <1>12 DEF Next, JobStep, Idle

BoundInv == maxAttempts # -1 => \A l \in Jobs : WithinPolicy(l)

LEMMA BoundInductive == TypeOK /\ BoundInv /\ [Next]_vars => BoundInv'
  BY PolicyStays, BoundStep DEF BoundInv

-----------------------------------------------------------------------------
(* What keeps a payload that some target lacks from being forgotten is a job *)
(* at work; one about to be marked over does not count.                      *)

Kept ==
  (\E i \in Targets : receipts[i] = 0) =>
    AtWork # {} \/ outcome \cap {"gaveUp", "dropped"} # {}

LEMMA KeptInductive == IInv /\ Kept /\ [Next]_vars => Kept'
<1> SUFFICES ASSUME IInv, Kept, [Next]_vars PROVE Kept'
  OBVIOUS
<1>1. TypeOK /\ BehindReceived
  BY DEF IInv
<1>2. at \in [Jobs -> {"none", "queued", "running", "failing", "adding", "added"}]
  BY <1>1 DEF TypeOK
<1>3. ASSUME \A i \in Targets : receipts'[i] = 0 => receipts[i] = 0,
             outcome \subseteq outcome',
             NEW j \in Jobs, at'[j] \notin {"none", "added"},
             \A l \in Jobs : l # j => at'[l] = at[l]
      PROVE  Kept'
  BY <1>3 DEF AtWork, Live, Kept
<1>4. CASE UNCHANGED vars
  BY <1>4 DEF vars, AtWork, Live, Kept
<1>5. ASSUME NEW j \in Jobs, Take(j) \/ Retry(j) PROVE Kept'
  BY <1>2, <1>3, <1>5 DEF Take, Retry
<1>6. ASSUME NEW j \in Jobs, NEW i \in Targets, SendHttp(j, i) \/ SendMqtt(j, i) PROVE Kept'
  BY <1>1, <1>2, <1>3, <1>6, ReceiveFacts DEF SendHttp, SendMqtt, Sending
<1>7. ASSUME NEW j \in Jobs, NEW i \in Targets, TargetThrows(j, i) PROVE Kept'
  <2>1. \A k \in Targets : receipts'[k] = 0 => receipts[k] = 0
    BY <1>1, <1>7, ReceiveFacts DEF TargetThrows
  <2> QED
    BY <1>2, <1>3, <1>7, <2>1 DEF TargetThrows, Thrown
<1>8. ASSUME NEW j \in Jobs, Complete(j) PROVE Kept'
  <2>1. \A i \in Targets : receipts[i] > 0
    BY <1>1, <1>8, ForwardAssumption DEF Complete, Sending, BehindReceived, Targets, ForwardAssumption
  <2> QED
    BY <1>8, <2>1 DEF Complete, Kept
<1>9. ASSUME NEW j \in Jobs, GiveUp(j) PROVE Kept'
  BY <1>9 DEF GiveUp, Kept
<1>10. ASSUME NEW j \in Jobs, Finish(j) PROVE Kept'
  <2>1. /\ at' = [at EXCEPT ![j] = "none"] /\ at[j] = "added"
        /\ UNCHANGED <<receipts, outcome>>
    BY <1>10 DEF Finish, JobOver
  <2> QED
    BY <1>2, <2>1 DEF AtWork, Live, Kept
<1>11. ASSUME NEW j \in Jobs, NEW k \in Jobs, AddDone(j, k) PROVE Kept'
  BY <1>2, <1>11 DEF AddDone, AtWork, Live, Kept
<1>12. ASSUME NEW j \in Jobs, Crash(j) PROVE Kept'
  BY <1>2, <1>3, <1>12 DEF Crash, Kept
<1> QED
  BY <1>4, <1>5, <1>6, <1>7, <1>8, <1>9, <1>10, <1>11, <1>12 DEF Next, JobStep, Idle

-----------------------------------------------------------------------------
(* The first attempt of a job without crashes is the only one: it starts     *)
(* without artifacts, and behind the target whose turn it is the bodies are  *)
(* made of what their predecessors answered.                                 *)

\* the artifacts after the answer of a, which is 0 before any answer
Artifacts(a) == IF a \in objects THEN a ELSE -a

Fresh(j) == at[j] # "none" /\ attempts[j] = 0

FreshWell(j) ==
  /\ at[j] = "queued" => \A k \in Targets : rendered[k] = -1
  /\ at[j] = "running" =>
       /\ \A k \in Targets : rendered[k] # -1 => k < pos[j]
       /\ \E a \in 0 .. NumTargets : LastHttpBefore(a, pos[j]) /\ artifact[j] = Artifacts(a)

RenderInv ==
  /\ \A j \in Jobs : attempts[j] = 0 => stored[j] = 0
  /\ \A j, k \in Jobs : Fresh(j) /\ Fresh(k) => j = k
  /\ crashes = 0 => \A j \in Jobs : Fresh(j) => FreshWell(j)
  /\ RenderedFromPredecessor

LEMMA InitRender == Init => RenderInv
<1> SUFFICES ASSUME Init PROVE RenderInv
  OBVIOUS
<1>1. \A j \in Jobs : Fresh(j) => j = FirstJob /\ at[j] = "queued"
  BY DEF Init, Fresh
<1>2. \A j \in Jobs : stored[j] = 0
  BY DEF Init
<1>3. \A k \in Targets : rendered[k] = -1
  BY DEF Init
<1> QED
  BY <1>1, <1>2, <1>3 DEF RenderInv, FreshWell, RenderedFromPredecessor

\* A turn of target i, whose body is rendered as Render says.
LEMMA TurnRendered ==
  ASSUME TypeOK, RenderInv, NEW j \in Jobs, NEW i \in Targets, Sending(j, i), Render(j, i),
         objects' \in {objects, objects \cup {i}, objects \ {i}},
         ~FirstAttempt(j) => objects' = objects
  PROVE  RenderedFromPredecessor'
<1>1. /\ rendered \in [Targets -> -1 .. NumTargets] /\ artifact \in [Jobs -> -NumTargets .. NumTargets]
      /\ NumTargets \in Nat /\ HttpTargets \subseteq Targets /\ objects \subseteq HttpTargets
      /\ at[j] = "running" /\ pos[j] = i /\ i \in 1 .. NumTargets
  BY ForwardAssumption DEF TypeOK, ForwardAssumption, Sending, Targets
<1>2. \A k \in Targets : rendered[k] # -1 =>
        \E a \in 0 .. NumTargets : LastHttpBefore(a, k) /\ rendered[k] = IF a \in objects THEN a ELSE 0
  BY DEF RenderInv, RenderedFromPredecessor
<1>3. \A k \in Targets, a \in 0 .. NumTargets : LastHttpBefore(a, k) => a < k
  BY <1>1 DEF LastHttpBefore, Targets
<1>4. CASE FirstAttempt(j)
  <2>1. FreshWell(j)
    BY <1>1, <1>4 DEF FirstAttempt, RenderInv, Fresh
  <2>2. \A k \in Targets : rendered[k] # -1 => k < i
    BY <1>1, <2>1 DEF FreshWell
  <2>3. PICK a \in 0 .. NumTargets : LastHttpBefore(a, i) /\ artifact[j] = Artifacts(a)
    BY <1>1, <2>1 DEF FreshWell
  <2>4. BodySource(artifact[j]) = IF a \in objects THEN a ELSE 0
    <3>1. CASE a \in objects
      BY <1>1, <2>3, <3>1 DEF Artifacts, BodySource, Targets
    <3>2. CASE a \notin objects
      BY <1>1, <2>3, <3>2 DEF Artifacts, BodySource
    <3> QED
      BY <3>1, <3>2
  <2>5. rendered' = [rendered EXCEPT ![i] = BodySource(artifact[j])]
    BY <1>4 DEF Render
  <2>6. \A b \in 0 .. NumTargets : b < i => (b \in objects' <=> b \in objects)
    BY <1>1
  <2>7. ASSUME NEW k \in Targets, rendered'[k] # -1
        PROVE  \E b \in 0 .. NumTargets : LastHttpBefore(b, k) /\ rendered'[k] = IF b \in objects' THEN b ELSE 0
    <3>1. CASE k = i
      BY <1>1, <1>3, <2>3, <2>4, <2>5, <2>6, <3>1
    <3>2. CASE k # i
      BY <1>1, <1>2, <1>3, <2>2, <2>5, <2>6, <2>7, <3>2 DEF Targets
    <3> QED
      BY <3>1, <3>2
  <2> QED
    BY <2>7 DEF RenderedFromPredecessor, LastHttpBefore
<1>5. CASE ~FirstAttempt(j)
  BY <1>2, <1>5 DEF Render, RenderedFromPredecessor, LastHttpBefore
<1> QED
  BY <1>4, <1>5

LEMMA RenderInductive == TypeOK /\ TypeOK' /\ RenderInv /\ [Next]_vars => RenderInv'
<1> SUFFICES ASSUME TypeOK, TypeOK', RenderInv, [Next]_vars PROVE RenderInv'
  OBVIOUS
<1>1. /\ at \in [Jobs -> {"none", "queued", "running", "failing", "adding", "added"}]
      /\ attempts \in [Jobs -> 0 .. Count] /\ stored \in [Jobs -> -NumTargets .. NumTargets]
      /\ artifact \in [Jobs -> -NumTargets .. NumTargets] /\ pos \in [Jobs -> 1 .. NumTargets + 1]
      /\ rendered \in [Targets -> -1 .. NumTargets] /\ objects \subseteq HttpTargets
      /\ NumTargets \in Nat /\ Count \in Nat \ {0} /\ HttpTargets \subseteq Targets
      /\ crashes \in Nat
  BY ForwardAssumption DEF TypeOK, ForwardAssumption
<1>2. /\ \A j \in Jobs : attempts[j] = 0 => stored[j] = 0
      /\ \A j, k \in Jobs : Fresh(j) /\ Fresh(k) => j = k
      /\ crashes = 0 => \A j \in Jobs : Fresh(j) => FreshWell(j)
      /\ RenderedFromPredecessor
  BY DEF RenderInv
<1>3. rendered' = rendered /\ objects' = objects => RenderedFromPredecessor'
  BY <1>2 DEF RenderedFromPredecessor, LastHttpBefore
\* what is left to show of a step that renders nothing
<1>4. ASSUME UNCHANGED <<rendered, objects>>, crashes' # 0 \/ crashes' = crashes,
             \A l \in Jobs : attempts'[l] = 0 => stored'[l] = 0,
             \A l \in Jobs : Fresh(l)' =>
               /\ Fresh(l)
               /\ crashes' = 0 => \/ at'[l] \notin {"queued", "running"}
                                  \/ at'[l] = at[l] /\ pos'[l] = pos[l] /\ artifact'[l] = artifact[l]
      PROVE  RenderInv'
  <2>1. ASSUME crashes' = 0, NEW l \in Jobs, Fresh(l)' PROVE FreshWell(l)'
    <3>1. FreshWell(l)
      BY <1>2, <1>4, <2>1
    <3> QED
      BY <1>4, <2>1, <3>1 DEF FreshWell, Artifacts, LastHttpBefore
  <2> QED
    BY <1>2, <1>3, <1>4, <2>1 DEF RenderInv
<1>5. CASE UNCHANGED vars
  <2>1. \A l \in Jobs : Fresh(l)' <=> Fresh(l)
    BY <1>5 DEF vars, Fresh
  <2> QED
    BY <1>2, <1>4, <1>5, <2>1 DEF vars
<1>6. ASSUME NEW j \in Jobs, Take(j) PROVE RenderInv'
  <2>1. /\ at[j] = "queued"
        /\ at' = [at EXCEPT ![j] = "running"] /\ artifact' = [artifact EXCEPT ![j] = stored[j]]
        /\ pos' = [pos EXCEPT ![j] = 1] /\ UNCHANGED <<attempts, stored, rendered, objects, crashes>>
    BY <1>6 DEF Take
  <2>2. LastHttpBefore(0, 1)
    <3>1. \A k \in HttpTargets : ~(k < 1)
      BY <1>1 DEF Targets
    <3>2. {k \in HttpTargets : k < 1} = {}
      BY <3>1
    <3> QED
      BY <3>2 DEF LastHttpBefore
  <2>3. \A l \in Jobs : Fresh(l)' <=> Fresh(l)
    BY <1>1, <2>1 DEF Fresh
  <2>4. ASSUME crashes' = 0, NEW l \in Jobs, Fresh(l)' PROVE FreshWell(l)'
    <3>1. FreshWell(l)
      BY <1>2, <2>1, <2>3, <2>4
    <3>2. CASE l # j
      <4>1. at'[l] = at[l] /\ pos'[l] = pos[l] /\ artifact'[l] = artifact[l]
        BY <1>1, <2>1, <3>2
      <4> QED
        BY <2>1, <3>1, <4>1 DEF FreshWell, Artifacts, LastHttpBefore
    <3>3. CASE l = j
      <4>1. at'[l] = "running" /\ pos'[l] = 1 /\ artifact'[l] = 0
        BY <1>1, <1>2, <2>1, <2>3, <2>4, <3>3 DEF Fresh
      <4>2. \A k \in Targets : rendered'[k] = -1
        BY <2>1, <3>1, <3>3 DEF FreshWell
      <4>3. artifact'[l] = Artifacts(0)'
        BY <1>1, <2>1, <4>1 DEF Artifacts, Targets
      <4> QED
        BY <1>1, <2>2, <4>1, <4>2, <4>3 DEF FreshWell, LastHttpBefore
    <3> QED
      BY <3>2, <3>3
  <2> QED
    BY <1>2, <1>3, <2>1, <2>3, <2>4 DEF RenderInv
\* after a turn that does not throw
<1>7. ASSUME NEW j \in Jobs, NEW i \in Targets, Sending(j, i), Render(j, i),
             objects' \in {objects, objects \cup {i}, objects \ {i}},
             ~FirstAttempt(j) => objects' = objects,
             \A l \in Jobs \ {j} : artifact'[l] = artifact[l],
             pos' = [pos EXCEPT ![j] = i + 1],
             FirstAttempt(j) => \E a \in 0 .. NumTargets : LastHttpBefore(a, i + 1) /\ artifact'[j] = Artifacts(a)',
             UNCHANGED <<at, attempts, stored, crashes>>
      PROVE  RenderInv'
  <2>1. RenderedFromPredecessor'
    BY <1>7, TurnRendered
  <2>2. \A l \in Jobs : Fresh(l)' <=> Fresh(l)
    BY <1>7 DEF Fresh
  <2>3. at[j] = "running" /\ pos[j] = i
    BY <1>7 DEF Sending
  <2>4. ASSUME crashes' = 0, NEW l \in Jobs, Fresh(l)' PROVE FreshWell(l)'
    <3>1. FreshWell(l) /\ Fresh(l)
      BY <1>2, <1>7, <2>2, <2>4
    <3>2. CASE l = j
      <4>1. FirstAttempt(j) /\ at'[l] = "running" /\ pos'[l] = i + 1
        BY <1>1, <1>7, <2>3, <2>4, <3>1, <3>2 DEF FirstAttempt, Fresh
      <4>2. rendered' = [rendered EXCEPT ![i] = BodySource(artifact[j])]
        BY <1>7, <4>1 DEF Render
      <4>3. \A k \in Targets : rendered[k] # -1 => k < i
        BY <2>3, <3>1, <3>2 DEF FreshWell
      <4>4. \A k \in Targets : rendered'[k] # -1 => k < i + 1
        BY <1>1, <4>2, <4>3 DEF Targets
      <4> QED
        BY <1>7, <3>2, <4>1, <4>4 DEF FreshWell, LastHttpBefore
    <3>3. CASE l # j
      <4>1. ~FirstAttempt(j)
        BY <1>2, <2>3, <3>1, <3>3 DEF Fresh, FirstAttempt
      <4>2. UNCHANGED <<rendered, objects>> /\ at'[l] = at[l] /\ pos'[l] = pos[l] /\ artifact'[l] = artifact[l]
        BY <1>1, <1>7, <3>3, <4>1 DEF Render
      <4> QED
        BY <3>1, <4>2 DEF FreshWell, Artifacts, LastHttpBefore
    <3> QED
      BY <3>2, <3>3
  <2> QED
    BY <1>2, <1>7, <2>1, <2>2, <2>4 DEF RenderInv
<1>8. ASSUME NEW j \in Jobs, NEW i \in Targets, SendHttp(j, i) PROVE RenderInv'
  <2>1. PICK object \in BOOLEAN :
          /\ artifact' = [artifact EXCEPT ![j] = IF object THEN i ELSE -i]
          /\ objects' = IF ~FirstAttempt(j) THEN objects
                        ELSE IF object THEN objects \cup {i} ELSE objects \ {i}
    BY <1>8 DEF SendHttp, KeepResponse
  <2>2. /\ Sending(j, i) /\ Render(j, i) /\ i \in HttpTargets
        /\ pos' = [pos EXCEPT ![j] = i + 1] /\ UNCHANGED <<at, attempts, stored, crashes>>
    BY <1>8 DEF SendHttp
  <2>3. LastHttpBefore(i, i + 1) /\ i \in 0 .. NumTargets
    BY <1>1, <2>2 DEF LastHttpBefore, Targets
  <2>4. FirstAttempt(j) => artifact'[j] = Artifacts(i)'
    BY <1>1, <2>1 DEF Artifacts
  <2> QED
    BY <1>1, <1>7, <2>1, <2>2, <2>3, <2>4
<1>9. ASSUME NEW j \in Jobs, NEW i \in Targets, SendMqtt(j, i) PROVE RenderInv'
  <2>1. /\ Sending(j, i) /\ Render(j, i) /\ i \notin HttpTargets
        /\ pos' = [pos EXCEPT ![j] = i + 1]
        /\ UNCHANGED <<at, attempts, stored, artifact, objects, crashes>>
    BY <1>9 DEF SendMqtt
  <2>2. ASSUME NEW a \in 0 .. NumTargets, LastHttpBefore(a, i) PROVE LastHttpBefore(a, i + 1)
    <3>1. \A k \in HttpTargets : k \in Int /\ i \in Int /\ k # i
      BY <1>1, <2>1 DEF Targets
    <3>2. \A k \in HttpTargets : k < i <=> k < i + 1
      BY <3>1
    <3>3. {k \in HttpTargets : k < i} = {k \in HttpTargets : k < i + 1}
      BY <3>2
    <3> QED
      BY <2>2, <3>3 DEF LastHttpBefore
  <2>3. FirstAttempt(j) => \E a \in 0 .. NumTargets : LastHttpBefore(a, i + 1) /\ artifact'[j] = Artifacts(a)'
    <3> SUFFICES ASSUME FirstAttempt(j)
                 PROVE  \E a \in 0 .. NumTargets : LastHttpBefore(a, i + 1) /\ artifact'[j] = Artifacts(a)'
      OBVIOUS
    <3>1. FreshWell(j) /\ at[j] = "running" /\ pos[j] = i
      BY <1>2, <2>1 DEF FirstAttempt, Fresh, Sending
    <3>2. PICK a \in 0 .. NumTargets : LastHttpBefore(a, i) /\ artifact[j] = Artifacts(a)
      BY <3>1 DEF FreshWell
    <3> QED
      BY <2>1, <2>2, <3>2 DEF Artifacts
  <2> QED
    BY <1>7, <2>1, <2>3
<1>10. ASSUME NEW j \in Jobs, NEW i \in Targets, TargetThrows(j, i) PROVE RenderInv'
  <2>1. /\ at' = [at EXCEPT ![j] = "failing"] /\ Sending(j, i)
        /\ UNCHANGED <<attempts, stored, artifact, pos, objects, crashes>>
        /\ rendered' = rendered \/ Render(j, i)
    BY <1>10 DEF TargetThrows, Thrown
  <2>2. CASE rendered' = rendered
    <3>1. \A l \in Jobs : Fresh(l)' => Fresh(l) /\ (at'[l] \notin {"queued", "running"} \/ at'[l] = at[l])
      BY <1>1, <2>1 DEF Fresh, Sending
    <3> QED
      BY <1>2, <1>4, <2>1, <2>2, <3>1
  <2>3. CASE Render(j, i)
    <3>1. RenderedFromPredecessor'
      BY <2>1, <2>3, TurnRendered
    <3>2. \A l \in Jobs : Fresh(l)' => Fresh(l)
      BY <1>1, <2>1 DEF Fresh, Sending
    <3>3. ASSUME crashes' = 0, NEW l \in Jobs, Fresh(l)' PROVE FreshWell(l)'
      <4>1. FreshWell(l) /\ Fresh(l)
        BY <1>2, <2>1, <3>2, <3>3
      <4>2. CASE l = j
        BY <1>1, <2>1, <4>2 DEF FreshWell
      <4>3. CASE l # j
        <5>1. ~FirstAttempt(j)
          BY <1>2, <2>1, <4>1, <4>3 DEF Fresh, FirstAttempt, Sending
        <5>2. rendered' = rendered /\ at'[l] = at[l]
          BY <1>1, <2>1, <2>3, <4>3, <5>1 DEF Render
        <5> QED
          BY <2>1, <4>1, <5>2 DEF FreshWell, Artifacts, LastHttpBefore
      <4> QED
        BY <4>2, <4>3
    <3> QED
      BY <1>2, <2>1, <3>1, <3>2, <3>3 DEF RenderInv
  <2> QED
    BY <2>1, <2>2, <2>3
\* the end of a job
<1>11. ASSUME NEW j \in Jobs, JobOver(j), UNCHANGED <<rendered, objects>>, crashes' # 0 \/ crashes' = crashes
       PROVE  RenderInv'
  <2>1. /\ at' = [at EXCEPT ![j] = "none"] /\ attempts' = [attempts EXCEPT ![j] = 0]
        /\ stored' = [stored EXCEPT ![j] = 0] /\ artifact' = [artifact EXCEPT ![j] = 0]
        /\ pos' = [pos EXCEPT ![j] = 1]
    BY <1>11 DEF JobOver, RunOver
  <2>2. \A l \in Jobs : attempts'[l] = 0 => stored'[l] = 0
    BY <1>1, <1>2, <2>1
  <2>3. \A l \in Jobs : Fresh(l)' =>
          Fresh(l) /\ at'[l] = at[l] /\ pos'[l] = pos[l] /\ artifact'[l] = artifact[l]
    BY <1>1, <2>1 DEF Fresh
  <2> QED
    BY <1>4, <1>11, <2>2, <2>3
<1>12. ASSUME NEW j \in Jobs, Complete(j) \/ GiveUp(j) \/ Finish(j) PROVE RenderInv'
  BY <1>11, <1>12 DEF Complete, GiveUp, Finish
<1>13. ASSUME NEW j \in Jobs, Retry(j) PROVE RenderInv'
  <2>1. at' = [at EXCEPT ![j] = "adding"] /\ at[j] = "failing"
        /\ UNCHANGED <<attempts, stored, artifact, pos, rendered, objects, crashes>>
    BY <1>13 DEF Retry
  <2>2. \A l \in Jobs : Fresh(l)' => Fresh(l) /\ (at'[l] \notin {"queued", "running"} \/ at'[l] = at[l])
    BY <1>1, <2>1 DEF Fresh
  <2> QED
    BY <1>2, <1>4, <2>1, <2>2
<1>14. ASSUME NEW j \in Jobs, NEW k \in Jobs, AddDone(j, k) PROVE RenderInv'
  <2>1. /\ at[j] = "adding" /\ at[k] = "none" /\ at' = [at EXCEPT ![j] = "added", ![k] = "queued"]
        /\ attempts' = [attempts EXCEPT ![k] = NextAttempt(j)]
        /\ stored' = [stored EXCEPT ![k] = artifact[j]]
        /\ UNCHANGED <<artifact, pos, rendered, objects, crashes>>
    BY <1>14 DEF AddDone, AfterAdd
  <2>2. NextAttempt(j) # 0
    BY <1>1 DEF NextAttempt, Counted
  <2>3. \A l \in Jobs : attempts'[l] = 0 => l # k /\ attempts[l] = 0 /\ stored'[l] = stored[l]
    BY <1>1, <2>1, <2>2
  <2>4. \A l \in Jobs : l # k /\ at'[l] # "none" => at[l] # "none" /\ (at'[l] \notin {"queued", "running"} \/ at'[l] = at[l])
    BY <1>1, <2>1
  <2>5. \A l \in Jobs : Fresh(l)' => Fresh(l) /\ (at'[l] \notin {"queued", "running"} \/ at'[l] = at[l])
    BY <2>3, <2>4 DEF Fresh
  <2> QED
    BY <1>2, <1>4, <2>1, <2>3, <2>5
<1>15. ASSUME NEW j \in Jobs, Crash(j) PROVE RenderInv'
  <2>1. UNCHANGED <<rendered, objects>> /\ crashes' # 0 /\ at[j] # "none"
    BY <1>1, <1>15 DEF Crash
  <2>2. CASE at' = [at EXCEPT ![j] = "queued"] /\ UNCHANGED <<attempts, stored>>
    <3>1. \A l \in Jobs : Fresh(l)' => Fresh(l)
      BY <1>1, <2>1, <2>2 DEF Fresh
    <3> QED
      BY <1>2, <1>4, <2>1, <2>2, <3>1
  <2>3. CASE JobOver(j)
    BY <1>11, <2>1, <2>3
  <2> QED
    BY <1>15, <2>2, <2>3 DEF Crash
<1> QED
  BY <1>5, <1>6, <1>8, <1>9, <1>10, <1>12, <1>13, <1>14, <1>15 DEF Next, JobStep, Idle

-----------------------------------------------------------------------------
(* One job at work at a time: an add frees one and makes one, and only a     *)
(* crash revives a job whose successor is stored.                            *)

SingleInv == IsFiniteSet(AtWork) /\ OneJobAtATime

LEMMA InitSingle == Init => SingleInv
<1> SUFFICES ASSUME Init PROVE SingleInv
  OBVIOUS
<1>1. AtWork = {FirstJob}
  BY FirstJobFact DEF Init, AtWork, Live
<1> QED
  <2>1. crashes = 0
    BY DEF Init
  <2>2. IsFiniteSet(AtWork) /\ Cardinality(AtWork) = 1
    BY <1>1, FS_Singleton
  <2> QED
    BY <2>1, <2>2 DEF SingleInv, OneJobAtATime

\* What a step may do to the jobs at work.
LEMMA AtWorkSteps ==
  ASSUME TypeOK, [Next]_vars
  PROVE  \/ AtWork' \subseteq AtWork /\ crashes' \in {crashes, crashes + 1}
         \/ \E j, k \in Jobs : j \in AtWork /\ AtWork' = (AtWork \ {j}) \cup {k} /\ crashes' = crashes
         \/ \E j \in Jobs : AtWork' \subseteq AtWork \cup {j} /\ crashes' = crashes + 1
<1>1. at \in [Jobs -> {"none", "queued", "running", "failing", "adding", "added"}]
  BY DEF TypeOK
<1>2. CASE UNCHANGED vars
  BY <1>2 DEF vars, AtWork, Live
<1>3. ASSUME NEW j \in Jobs, Take(j) \/ Complete(j) \/ GiveUp(j) \/ Retry(j) \/ Finish(j)
      PROVE  AtWork' \subseteq AtWork /\ crashes' = crashes
  <2>1. CASE Take(j) \/ Retry(j)
    BY <1>1, <2>1 DEF Take, Retry, AtWork, Live
  <2>2. CASE Complete(j) \/ GiveUp(j) \/ Finish(j)
    <3>1. at' = [at EXCEPT ![j] = "none"] /\ crashes' = crashes
      BY <2>2 DEF Complete, GiveUp, Finish, JobOver
    <3> QED
      BY <1>1, <3>1 DEF AtWork, Live
  <2> QED
    BY <1>3, <2>1, <2>2
<1>4. ASSUME NEW j \in Jobs, NEW i \in Targets, SendHttp(j, i) \/ SendMqtt(j, i) \/ TargetThrows(j, i)
      PROVE  AtWork' \subseteq AtWork /\ crashes' = crashes
  <2>1. crashes' = crashes /\ \A l \in Jobs : at'[l] = at[l] \/ (at[l] = "running" /\ at'[l] = "failing")
    BY <1>1, <1>4 DEF SendHttp, SendMqtt, TargetThrows, Thrown, Sending
  <2> QED
    BY <1>1, <2>1 DEF AtWork, Live
<1>5. ASSUME NEW j \in Jobs, NEW k \in Jobs, AddDone(j, k)
      PROVE  j \in AtWork /\ AtWork' = (AtWork \ {j}) \cup {k} /\ crashes' = crashes
  <2>1. /\ at[j] = "adding" /\ at[k] = "none" /\ crashes' = crashes
        /\ at' = [at EXCEPT ![j] = "added", ![k] = "queued"]
    BY <1>5 DEF AddDone, AfterAdd
  <2>2. /\ at'[j] = "added" /\ at'[k] = "queued"
        /\ \A l \in Jobs : l # j /\ l # k => at'[l] = at[l]
    BY <1>1, <2>1
  <2> QED
    BY <2>1, <2>2 DEF AtWork, Live
<1>6. ASSUME NEW j \in Jobs, Crash(j)
      PROVE  AtWork' \subseteq AtWork \cup {j} /\ crashes' = crashes + 1
  <2>1. crashes' = crashes + 1 /\ \A l \in Jobs : l # j => at'[l] = at[l]
    BY <1>1, <1>6 DEF Crash, JobOver
  <2> QED
    BY <2>1 DEF AtWork, Live
<1> QED
  BY <1>2, <1>3, <1>4, <1>5, <1>6 DEF Next, JobStep, Idle

LEMMA SingleInductive == TypeOK /\ SingleInv /\ [Next]_vars => SingleInv'
<1> SUFFICES ASSUME TypeOK, SingleInv, [Next]_vars PROVE SingleInv'
  OBVIOUS
<1>1. IsFiniteSet(AtWork) /\ Cardinality(AtWork) \in Nat /\ Cardinality(AtWork) <= 1 + crashes
  BY FS_CardinalityType DEF SingleInv, OneJobAtATime
<1>2. crashes \in Nat
  BY ForwardAssumption DEF TypeOK, ForwardAssumption
<1>3. CASE AtWork' \subseteq AtWork /\ crashes' \in {crashes, crashes + 1}
  <2>1. IsFiniteSet(AtWork') /\ Cardinality(AtWork') <= Cardinality(AtWork)
    BY <1>1, <1>3, FS_Subset
  <2>2. Cardinality(AtWork') \in Nat
    BY <2>1, FS_CardinalityType
  <2>3. Cardinality(AtWork') <= 1 + crashes'
    BY <1>1, <1>2, <1>3, <2>1, <2>2
  <2> QED
    BY <2>1, <2>3 DEF SingleInv, OneJobAtATime
<1>4. ASSUME NEW j \in Jobs, NEW k \in Jobs,
             j \in AtWork, AtWork' = (AtWork \ {j}) \cup {k}, crashes' = crashes
      PROVE  SingleInv'
  <2>1. IsFiniteSet(AtWork \ {j}) /\ Cardinality(AtWork \ {j}) = Cardinality(AtWork) - 1
    BY <1>1, <1>4, FS_RemoveElement
  <2>2. IsFiniteSet(AtWork') /\ Cardinality(AtWork') \in {Cardinality(AtWork \ {j}), Cardinality(AtWork \ {j}) + 1}
    BY <1>4, <2>1, FS_AddElement
  <2>3. Cardinality(AtWork') <= 1 + crashes'
    BY <1>1, <1>2, <1>4, <2>1, <2>2
  <2> QED
    BY <2>2, <2>3 DEF SingleInv, OneJobAtATime
<1>5. ASSUME NEW j \in Jobs, AtWork' \subseteq AtWork \cup {j}, crashes' = crashes + 1
      PROVE  SingleInv'
  <2>1. IsFiniteSet(AtWork \cup {j}) /\ Cardinality(AtWork \cup {j}) \in {Cardinality(AtWork), Cardinality(AtWork) + 1}
    BY <1>1, FS_AddElement
  <2>2. IsFiniteSet(AtWork') /\ Cardinality(AtWork') <= Cardinality(AtWork \cup {j})
    BY <1>5, <2>1, FS_Subset
  <2>3. Cardinality(AtWork') \in Nat
    BY <2>2, FS_CardinalityType
  <2>4. Cardinality(AtWork') <= 1 + crashes'
    BY <1>1, <1>2, <1>5, <2>1, <2>2, <2>3
  <2> QED
    BY <2>2, <2>4 DEF SingleInv, OneJobAtATime
<1> QED
  BY <1>3, <1>4, <1>5, AtWorkSteps

-----------------------------------------------------------------------------
(* The refinement: the targets received, over all jobs and runs, grow in the *)
(* order of the list.                                                        *)

Received == {i \in Targets : receipts[i] > 0}

\* A receipt of target i in its turn is a delivery.
LEMMA DeliverStep ==
  ASSUME IInv, NEW j \in Jobs, NEW i \in Targets, Sending(j, i), Receive(i),
         UNCHANGED <<maxAttempts, outcome>>
  PROVE  Delivery!Next
<1>1. TypeOK /\ BehindReceived
  BY DEF IInv
<1>2. 1 .. i - 1 \subseteq Received
  <2>1. \A k \in 1 .. i - 1 : k \in Targets /\ k < i
    BY ForwardAssumption DEF Targets, ForwardAssumption
  <2> QED
    BY <1>1, <2>1 DEF Sending, BehindReceived, Received
<1>3. Received' = Received \cup {i}
  BY <1>1, ReceiveFacts DEF Received
<1>4. Delivery!Deliver(i)
  BY <1>2, <1>3 DEF Delivery!Deliver, Received
<1> QED
  BY <1>4 DEF Delivery!Next, Targets

LEMMA InitDelivery == Init => Delivery!Init
<1> SUFFICES ASSUME Init PROVE Delivery!Init
  OBVIOUS
<1>1. maxAttempts \in Nat \cup {-1}
  BY ForwardAssumption DEF Init, ForwardAssumption
<1>2. {i \in Targets : receipts[i] > 0} = {} /\ outcome = {}
  BY DEF Init
<1> QED
  BY <1>1, <1>2 DEF Delivery!Init

LEMMA StepDelivers == IInv /\ [Next]_vars => [Delivery!Next]_(Delivery!vars)
<1> SUFFICES ASSUME IInv, [Next]_vars
             PROVE  Delivery!Next \/ UNCHANGED <<maxAttempts, receipts, outcome>>
  BY DEF Delivery!vars
<1>1. CASE UNCHANGED vars
  BY <1>1 DEF vars
<1>2. ASSUME NEW j \in Jobs, Take(j) \/ Retry(j) \/ Finish(j)
      PROVE  UNCHANGED <<maxAttempts, receipts, outcome>>
  BY <1>2 DEF Take, Retry, Finish
<1>3. ASSUME NEW j \in Jobs, NEW i \in Targets, SendHttp(j, i) \/ SendMqtt(j, i) PROVE Delivery!Next
  BY <1>3, DeliverStep DEF SendHttp, SendMqtt
<1>4. ASSUME NEW j \in Jobs, NEW i \in Targets, TargetThrows(j, i)
      PROVE  Delivery!Next \/ UNCHANGED <<maxAttempts, receipts, outcome>>
  <2>1. Sending(j, i) /\ UNCHANGED <<maxAttempts, outcome>> /\ (receipts' = receipts \/ Receive(i))
    BY <1>4 DEF TargetThrows
  <2> QED
    BY <2>1, DeliverStep
<1>5. ASSUME NEW j \in Jobs, Complete(j) PROVE Delivery!Next
  <2>1. \A i \in Targets : receipts[i] > 0
    BY <1>5, ForwardAssumption DEF IInv, Complete, Sending, BehindReceived, Targets, ForwardAssumption
  <2>2. {i \in Targets : receipts[i] > 0} = 1 .. NumTargets
    BY <2>1 DEF Targets
  <2>3. outcome' = outcome \cup {"completed"} /\ UNCHANGED <<maxAttempts, receipts>>
    BY <1>5 DEF Complete
  <2> QED
    BY <2>2, <2>3 DEF Delivery!Next, Delivery!Complete
<1>6. ASSUME NEW j \in Jobs, GiveUp(j) PROVE Delivery!Next
  BY <1>6 DEF GiveUp, Exhausted, Delivery!Next, Delivery!GiveUp
<1>7. ASSUME NEW j \in Jobs, Crash(j)
      PROVE  Delivery!Next \/ UNCHANGED <<maxAttempts, receipts, outcome>>
  <2>1. /\ UNCHANGED <<maxAttempts, receipts>>
        /\ outcome' = outcome \/ outcome' = outcome \cup {"dropped"}
    BY <1>7 DEF Crash
  <2> QED
    BY <2>1 DEF Delivery!Next, Delivery!Drop
<1>8. ASSUME NEW j \in Jobs, JobStep(j)
      PROVE  Delivery!Next \/ UNCHANGED <<maxAttempts, receipts, outcome>>
  <2>1. ASSUME NEW k \in Jobs, AddDone(j, k) PROVE UNCHANGED <<maxAttempts, receipts, outcome>>
    BY <2>1 DEF AddDone
  <2> QED
    BY <1>2, <1>3, <1>4, <1>5, <1>6, <1>8, <2>1 DEF JobStep
<1> QED
  BY <1>1, <1>7, <1>8 DEF Next, Idle

-----------------------------------------------------------------------------
LEMMA AllHold == Spec => [](IInv /\ BoundInv /\ Kept /\ RenderInv /\ SingleInv)
<1>1. Init => BoundInv
  BY ForwardAssumption DEF Init, BoundInv, WithinPolicy, ForwardAssumption
<1>2. Init => Kept
  BY FirstJobFact DEF Init, Kept, AtWork, Live
<1>3. IInv => TypeOK
  BY DEF IInv
<1> QED
  BY <1>1, <1>2, <1>3, InitIInv, InitRender, InitSingle, Inductive, BoundInductive, KeptInductive,
     RenderInductive, SingleInductive, PTL DEF Spec

\* The runs of a payload exceed no finite policy by more than the first and one.
THEOREM BoundHolds == Spec => []RunsBounded
<1>1. BoundInv => RunsBounded
  BY DEF BoundInv, WithinPolicy, RunsBounded, Live
<1> QED
  BY <1>1, AllHold, PTL

\* A payload that some target lacks has a job, was given up, or was dropped by a
\* crash.
THEOREM NothingForgotten == Spec => []NotForgotten
<1>1. Kept => NotForgotten
  BY DEF Kept, NotForgotten, AtWork, Live
<1> QED
  BY <1>1, AllHold, PTL

\* A first attempt renders each target from the response of the last HTTP target
\* before it if that is an object, and from the device's payload otherwise.
THEOREM RenderingHolds == Spec => []RenderedFromPredecessor
<1>1. RenderInv => RenderedFromPredecessor
  BY DEF RenderInv
<1> QED
  BY <1>1, AllHold, PTL

\* Retries do not multiply a payload's jobs; only crashes may.
THEOREM OneAtATime == Spec => []OneJobAtATime
<1>1. SingleInv => OneJobAtATime
  BY DEF SingleInv
<1> QED
  BY <1>1, AllHold, PTL

\* Over all runs and jobs, a payload is delivered as PayloadDelivery promises.
THEOREM JobsImplementDelivery == Spec => ImplementsDelivery
<1>1. Init => Delivery!Init
  BY InitDelivery
<1>2. IInv /\ [Next]_vars => [Delivery!Next]_(Delivery!vars)
  BY StepDelivers
<1> QED
  BY <1>1, <1>2, IInvHolds, PTL DEF Spec, ImplementsDelivery, Delivery!Spec
=============================================================================
