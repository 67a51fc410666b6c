------------------------- MODULE ConfigDeliveryProofs -------------------------
(***************************************************************************)
(* Proofs about ConfigDelivery, for every set of devices, commands, bases, *)
(* workers and senders, and every bound.  The inductive invariant is       *)
(* TypeOK /\ Causality: the row an answer settles is executed because      *)
(* answers are, all the way back to Execute, and what the device executes  *)
(* was stored because everything in flight was.                            *)
(***************************************************************************)
EXTENDS ConfigDelivery, FiniteSetTheorems, TLAPS

\* A bag stays a bag, and only the element put in can appear.
LEMMA PutFacts ==
  ASSUME NEW S, NEW bag \in [S -> 0 .. MaxCopies], NEW e \in S
  PROVE  /\ Put(bag, e) \in [S -> 0 .. MaxCopies]
         /\ \A x \in S : x # e => Put(bag, e)[x] = bag[x]
  BY ConstantsAssumption DEF ConstantsAssumption, Put, Capped

\* Removing a copy, of which there is one.
LEMMA TakeOutFacts ==
  ASSUME NEW S, NEW bag \in [S -> 0 .. MaxCopies], NEW e \in S, bag[e] > 0
  PROVE  /\ [bag EXCEPT ![e] = @ - 1] \in [S -> 0 .. MaxCopies]
         /\ \A x \in S : [bag EXCEPT ![e] = @ - 1][x] > 0 => bag[x] > 0
  BY ConstantsAssumption DEF ConstantsAssumption

\* Where each message belongs.
LEMMA MessageFacts ==
  /\ \A r \in Rows : Result(r) \in Results /\ Result(r) \in Messages /\ Result(r).row = r
  /\ \A d \in Devices : /\ Echo(d) \in Messages \ Results
                        /\ Contact(d) \in Messages \ Results
                        /\ TimeReq(d) \in Messages \ Results
  /\ \A m \in Results : m \in Messages /\ m.row \in Rows
  /\ \A r \in Rows : DeviceOf(r) \in Devices /\ r[1] \in Commands
  BY ConstantsAssumption
  DEF ConstantsAssumption, Result, Echo, Contact, TimeReq, Results, Messages,
      DeviceMessages, Rows, DeviceOf

\* What a publication adds: copies of the command of a row, and an echo, which
\* is no answer.
LEMMA PublishFacts ==
  ASSUME TypeOK, NEW r \in Rows, PublishCommand(r)
  PROVE  /\ cmds' \in [Rows -> 0 .. MaxCopies]
         /\ inbox' \in [Messages -> 0 .. MaxCopies]
         /\ \A q \in Rows : q # r => cmds'[q] = cmds[q]
         /\ \A m \in Results : inbox'[m] = inbox[m]
<1>1. cmds \in [Rows -> 0 .. MaxCopies] /\ inbox \in [Messages -> 0 .. MaxCopies]
  BY DEF TypeOK
<1>2. cmds' = cmds \/ cmds' = Put(cmds, r)
  BY DEF PublishCommand
<1>3. inbox' = inbox \/ inbox' = Put(inbox, Echo(DeviceOf(r)))
  BY DEF PublishCommand
<1>4. Echo(DeviceOf(r)) \in Messages \ Results /\ \A m \in Results : m \in Messages
  BY MessageFacts
<1>5. Put(cmds, r) \in [Rows -> 0 .. MaxCopies] /\ \A q \in Rows : q # r => Put(cmds, r)[q] = cmds[q]
  BY <1>1, PutFacts
<1>6. LET b == Put(inbox, Echo(DeviceOf(r)))
      IN  b \in [Messages -> 0 .. MaxCopies] /\ \A m \in Results : b[m] = inbox[m]
  BY <1>1, <1>4, PutFacts
<1> QED
  BY <1>1, <1>2, <1>3, <1>5, <1>6

-----------------------------------------------------------------------------
(* Types *)

LEMMA InitTypes == Init => TypeOK
  BY ConstantsAssumption DEF ConstantsAssumption, Init, TypeOK

LEMMA OperatorTypes == TypeOK /\ Operator => TypeOK'
<1> SUFFICES ASSUME TypeOK, Operator PROVE TypeOK'
  OBVIOUS
<1>1. ASSUME NEW c \in Commands, NEW b \in Bases, StoreConfig(c, b) PROVE TypeOK'
  <2>1. <<c, b>> \in Rows
    BY DEF Rows
  <2> QED
    BY <1>1, <2>1 DEF StoreConfig, TypeOK
<1>2. ASSUME NEW r \in Rows, SendConfigDetails(r) PROVE TypeOK'
  <2>1. PublishCommand(r)
    BY <1>2 DEF SendConfigDetails
  <2>2. cmds' \in [Rows -> 0 .. MaxCopies] /\ inbox' \in [Messages -> 0 .. MaxCopies]
    BY <2>1, PublishFacts
  <2> QED
    BY <1>2, <2>2 DEF SendConfigDetails, TypeOK
<1>3. ASSUME NEW r \in Rows, CancelConfig(r) PROVE TypeOK'
  BY <1>3 DEF CancelConfig, TypeOK
<1> QED
  BY <1>1, <1>2, <1>3 DEF Operator

LEMMA SenderTypes == TypeOK /\ SenderStep => TypeOK'
<1> SUFFICES ASSUME TypeOK, SenderStep PROVE TypeOK'
  OBVIOUS
<1>1. ASSUME NEW s \in Senders, SendConfig(s) PROVE TypeOK'
  <2>1. sender[s] \in Rows /\ PublishCommand(sender[s])
    BY <1>1 DEF SendConfig, TypeOK
  <2>2. cmds' \in [Rows -> 0 .. MaxCopies] /\ inbox' \in [Messages -> 0 .. MaxCopies]
    BY <2>1, PublishFacts
  <2> QED
    BY <1>1, <2>2 DEF SendConfig, TypeOK
<1>2. ASSUME NEW s \in Senders, NEW r \in Rows, ReadConfig(s, r) PROVE TypeOK'
  <2>1. jobs' \in [Rows -> 0 .. MaxCopies]
    BY <1>2, TakeOutFacts DEF ReadConfig, TypeOK
  <2> QED
    BY <1>2, <2>1 DEF ReadConfig, TypeOK
<1> QED
  BY <1>1, <1>2 DEF SenderStep

LEMMA WorkerTypes == TypeOK /\ Causality /\ WorkerStep => TypeOK'
<1> SUFFICES ASSUME TypeOK, Causality, NEW w \in Workers,
                    \/ \E m \in Messages : HandleOther(w, m)
                    \/ \E d \in Devices : HandleTime(w, d)
                    \/ \E r \in Rows : HandleResult(w, r) \/ EnqueuePending(w, r)
                    \/ SaveResolved(w)
                    \/ ReadPending(w)
             PROVE  TypeOK'
  BY DEF WorkerStep
<1>1. ASSUME NEW m \in Messages, HandleOther(w, m) PROVE TypeOK'
  <2>1. inbox' \in [Messages -> 0 .. MaxCopies]
    BY <1>1, TakeOutFacts DEF HandleOther, Take, Consume, TypeOK
  <2> QED
    BY <1>1, <2>1 DEF HandleOther, ActionsDone, Proceed, TypeOK
<1>2. ASSUME NEW d \in Devices, HandleTime(w, d) PROVE TypeOK'
  <2>1. TimeReq(d) \in Messages /\ Contact(d) \in Messages
    BY MessageFacts
  <2>2. inbox' \in [Messages -> 0 .. MaxCopies]
    BY <1>2, <2>1, ConstantsAssumption
    DEF HandleTime, Take, Capped, TypeOK, ConstantsAssumption
  <2> QED
    BY <1>2, <2>1, <2>2 DEF HandleTime, ActionsDone, Proceed, TypeOK
<1>3. ASSUME NEW r \in Rows, HandleResult(w, r) PROVE TypeOK'
  <2>1. Result(r) \in Messages
    BY MessageFacts
  <2>2. inbox' \in [Messages -> 0 .. MaxCopies]
    BY <1>3, <2>1, TakeOutFacts DEF HandleResult, Take, Consume, TypeOK
  <2> QED
    BY <1>3, <2>1, <2>2 DEF HandleResult, ActionsDone, Proceed, TypeOK
<1>4. ASSUME NEW r \in Rows, EnqueuePending(w, r) PROVE TypeOK'
  <2>1. jobs' \in [Rows -> 0 .. MaxCopies]
    BY <1>4, ConstantsAssumption DEF EnqueuePending, TypeOK, ConstantsAssumption
  <2> QED
    BY <1>4, <2>1 DEF EnqueuePending, TypeOK
<1>5. ASSUME SaveResolved(w) PROVE TypeOK'
  <2>1. msg[w] \in Results /\ msg[w] \in Messages
    BY <1>5, MessageFacts DEF SaveResolved, Causality
  <2>2. AnsweredRow(msg[w]) \in Rows
    BY <2>1, MessageFacts DEF AnsweredRow
  <2> QED
    BY <1>5, <2>1, <2>2 DEF SaveResolved, ActionsDone, Proceed, TypeOK
<1>6. ASSUME ReadPending(w) PROVE TypeOK'
  <2>1. PendingConfigs(MsgDevice(msg[w])) \subseteq Rows
    BY DEF PendingConfigs
  <2> QED
    BY <1>6, <2>1 DEF ReadPending, TypeOK
<1> QED
  BY <1>1, <1>2, <1>3, <1>4, <1>5, <1>6

LEMMA DeviceTypes == TypeOK /\ DeviceStep => TypeOK'
<1> SUFFICES ASSUME TypeOK, DeviceStep PROVE TypeOK'
  OBVIOUS
<1>1. ASSUME NEW d \in Devices, GoOnline(d) PROVE TypeOK'
  BY <1>1 DEF GoOnline, serverVars, TypeOK
<1>2. ASSUME NEW d \in Devices, GoOffline(d) PROVE TypeOK'
  <2>1. cmds' \in [Rows -> 0 .. MaxCopies]
    BY <1>2, ConstantsAssumption DEF GoOffline, TypeOK, ConstantsAssumption
  <2> QED
    BY <1>2, <2>1 DEF GoOffline, serverVars, TypeOK
<1>3. ASSUME NEW d \in Devices, NEW m \in Messages, Speak(d, m) PROVE TypeOK'
  <2>1. inbox' \in [Messages -> 0 .. MaxCopies]
    BY <1>3, PutFacts DEF Speak, TypeOK
  <2> QED
    BY <1>3, <2>1 DEF Speak, serverVars, TypeOK
<1>4. ASSUME NEW r \in Rows, Execute(r) PROVE TypeOK'
  <2>1. cmds' \in [Rows -> 0 .. MaxCopies]
    BY <1>4, TakeOutFacts DEF Execute, TypeOK
  <2>2. Put(inbox, Result(r)) \in [Messages -> 0 .. MaxCopies]
    BY PutFacts, MessageFacts DEF TypeOK
  <2> QED
    BY <1>4, <2>1, <2>2 DEF Execute, serverVars, TypeOK
<1> QED
  BY <1>1, <1>2, <1>3, <1>4 DEF DeviceStep

LEMMA CrashTypes == TypeOK /\ Causality /\ Crashes => TypeOK'
<1> SUFFICES ASSUME TypeOK, Causality, Crashes PROVE TypeOK'
  OBVIOUS
<1>1. Crash => crashes' \in 0 .. MaxCrashes
  BY ConstantsAssumption DEF Crash, TypeOK, ConstantsAssumption
<1>2. ASSUME NEW w \in Workers, WorkerStall(w) PROVE TypeOK'
  <2>1. msg[w] \in Messages
    BY <1>2 DEF WorkerStall, Causality
  <2>2. Put(inbox, msg[w]) \in [Messages -> 0 .. MaxCopies]
    BY <2>1, PutFacts DEF TypeOK
  <2> QED
    BY <1>1, <1>2, <2>2 DEF WorkerStall, TypeOK
<1>3. ASSUME NEW s \in Senders, SenderStall(s) PROVE TypeOK'
  <2>1. sender[s] \in Rows
    BY <1>3 DEF SenderStall, TypeOK
  <2>2. Put(jobs, sender[s]) \in [Rows -> 0 .. MaxCopies]
    BY <2>1, PutFacts DEF TypeOK
  <2> QED
    BY <1>1, <1>3, <2>2 DEF SenderStall, TypeOK
<1>4. ASSUME NEW r \in Rows, TimerLost(r) PROVE TypeOK'
  BY <1>1, <1>4 DEF TimerLost, TypeOK
<1>5. ASSUME NEW c \in Commands, RequestLost(c) PROVE TypeOK'
  BY <1>1, <1>5 DEF RequestLost, TypeOK
<1> QED
  BY <1>2, <1>3, <1>4, <1>5 DEF Crashes

LEMMA NotifyTypes == TypeOK /\ (\E r \in Rows : NotifyUI(r)) => TypeOK'
<1> SUFFICES ASSUME TypeOK, NEW r \in Rows, NotifyUI(r) PROVE TypeOK'
  OBVIOUS
<1>1. timer[r] \in Nat /\ timer[r] > 0 /\ ui[r] \in Nat
  BY DEF NotifyUI, TimerDue, TypeOK
<1>2. timer[r] - 1 \in Nat /\ ui[r] + 1 \in Nat
  BY <1>1
<1> QED
  BY <1>2 DEF NotifyUI, TypeOK

-----------------------------------------------------------------------------
(* Causality *)

LEMMA InitCausality == Init => Causality
<1> SUFFICES ASSUME Init PROVE Causality
  OBVIOUS
<1>1. \A m \in Results : inbox[m] = 0
  BY MessageFacts DEF Init
<1> QED
  BY <1>1 DEF Init, Causality, ResolvedOnlyIfExecuted, Settled

LEMMA OperatorCausality == TypeOK /\ Causality /\ Operator => Causality'
<1> SUFFICES ASSUME TypeOK, Causality, Operator PROVE Causality'
  OBVIOUS
<1>1. ASSUME NEW c \in Commands, NEW b \in Bases, StoreConfig(c, b) PROVE Causality'
  <2>1. <<c, b>> \in Rows
    BY DEF Rows
  <2>2. /\ row' = [row EXCEPT ![<<c, b>>] = "waiting"]
        /\ row[<<c, b>>] = "absent"
        /\ toPublish' = toPublish \cup {<<c, b>>}
        /\ UNCHANGED <<jobs, sender, pc, msg, todo, timer, ui, cmds, inbox, executed>>
    BY <1>1 DEF StoreConfig
  <2> QED
    BY <2>1, <2>2 DEF Causality, ResolvedOnlyIfExecuted, Settled, TypeOK
<1>2. ASSUME NEW r \in Rows, SendConfigDetails(r) PROVE Causality'
  <2>1. PublishCommand(r) /\ r \in toPublish /\ toPublish' = toPublish \ {r}
    BY <1>2 DEF SendConfigDetails
  <2>2. /\ \A q \in Rows : q # r => cmds'[q] = cmds[q]
        /\ \A m \in Results : inbox'[m] = inbox[m]
    BY <2>1, PublishFacts
  <2>3. UNCHANGED <<row, jobs, sender, pc, msg, todo, timer, ui, executed>>
    BY <1>2 DEF SendConfigDetails
  <2> QED
    BY <2>1, <2>2, <2>3 DEF Causality, ResolvedOnlyIfExecuted, Settled
<1>3. ASSUME NEW r \in Rows, CancelConfig(r) PROVE Causality'
  BY <1>3 DEF CancelConfig, Causality, ResolvedOnlyIfExecuted, Settled, TypeOK
<1> QED
  BY <1>1, <1>2, <1>3 DEF Operator

LEMMA SenderCausality == TypeOK /\ Causality /\ SenderStep => Causality'
<1> SUFFICES ASSUME TypeOK, Causality, SenderStep PROVE Causality'
  OBVIOUS
<1>1. ASSUME NEW s \in Senders, SendConfig(s) PROVE Causality'
  <2>1. /\ sender[s] \in Rows /\ row[sender[s]] # "absent"
        /\ PublishCommand(sender[s])
        /\ sender' = [sender EXCEPT ![s] = NoRow]
        /\ UNCHANGED <<row, toPublish, jobs, pc, msg, todo, timer, ui, executed>>
    BY <1>1 DEF SendConfig, TypeOK, Causality
  <2>2. /\ \A q \in Rows : q # sender[s] => cmds'[q] = cmds[q]
        /\ \A m \in Results : inbox'[m] = inbox[m]
    BY <2>1, PublishFacts
  <2> QED
    BY <2>1, <2>2 DEF Causality, ResolvedOnlyIfExecuted, Settled, TypeOK
<1>2. ASSUME NEW s \in Senders, NEW r \in Rows, ReadConfig(s, r) PROVE Causality'
  <2>1. \A q \in Rows : jobs'[q] > 0 => jobs[q] > 0
    BY <1>2, TakeOutFacts DEF ReadConfig, TypeOK
  <2>2. row[r] # "absent" /\ r # NoRow
    BY <1>2, ConstantsAssumption DEF ReadConfig, Causality, ConstantsAssumption
  <2>3. \A s2 \in Senders : sender'[s2] \in {sender[s2], r}
    BY <1>2 DEF ReadConfig, TypeOK
  <2>4. UNCHANGED <<row, toPublish, pc, msg, todo, timer, ui, cmds, inbox, executed>>
    BY <1>2 DEF ReadConfig
  <2> QED
    BY <2>1, <2>2, <2>3, <2>4 DEF Causality, ResolvedOnlyIfExecuted, Settled
<1> QED
  BY <1>1, <1>2 DEF SenderStep

\* What the end of processActions does to the worker, and to no other.
LEMMA ActionsDoneFacts ==
  ASSUME TypeOK, NEW w \in Workers, NEW m, ActionsDone(w, m)
  PROVE  /\ (pc'[w] = "pending" /\ msg'[w] = m) \/ (pc'[w] = pc[w] /\ msg'[w] = msg[w])
         /\ \A v \in Workers : v # w => pc'[v] = pc[v] /\ msg'[v] = msg[v]
<1>1. DOMAIN pc = Workers /\ DOMAIN msg = Workers
  BY DEF TypeOK
<1>2. CASE IsConfigActionTopic(m)
  BY <1>2 DEF ActionsDone
<1>3. CASE ~IsConfigActionTopic(m)
  <2>1. pc' = [pc EXCEPT ![w] = "pending"] /\ msg' = [msg EXCEPT ![w] = m]
    BY <1>3 DEF ActionsDone, Proceed
  <2>2. pc'[w] = "pending" /\ \A v \in Workers : v # w => pc'[v] = pc[v]
    BY <1>1, <2>1
  <2>3. msg'[w] = m /\ \A v \in Workers : v # w => msg'[v] = msg[v]
    BY <1>1, <2>1
  <2> QED
    BY <2>2, <2>3
<1> QED
  BY <1>2, <1>3

LEMMA WorkerCausality == TypeOK /\ Causality /\ WorkerStep => Causality'
<1> SUFFICES ASSUME TypeOK, Causality, NEW w \in Workers,
                    \/ \E m \in Messages : HandleOther(w, m)
                    \/ \E d \in Devices : HandleTime(w, d)
                    \/ \E r \in Rows : HandleResult(w, r) \/ EnqueuePending(w, r)
                    \/ SaveResolved(w)
                    \/ ReadPending(w)
             PROVE  Causality'
  BY DEF WorkerStep
<1>1. ASSUME NEW m \in Messages, HandleOther(w, m) PROVE Causality'
  <2>1. m \notin Results
    BY <1>1 DEF HandleOther, Results
  <2>2. /\ inbox' = [inbox EXCEPT ![m] = @ - 1]
        /\ UNCHANGED <<row, toPublish, jobs, sender, todo, timer, ui, cmds, executed>>
        /\ ActionsDone(w, m)
    BY <1>1 DEF HandleOther, Consume
  <2>3. \A n \in Results : inbox'[n] = inbox[n]
    BY <2>1, <2>2, MessageFacts DEF TypeOK
  <2>4. /\ (pc'[w] = "pending" /\ msg'[w] = m) \/ (pc'[w] = pc[w] /\ msg'[w] = msg[w])
        /\ \A v \in Workers : v # w => pc'[v] = pc[v] /\ msg'[v] = msg[v]
    BY <2>2, ActionsDoneFacts
  <2> QED
    BY <2>1, <2>2, <2>3, <2>4 DEF Causality, ResolvedOnlyIfExecuted, Settled
<1>2. ASSUME NEW d \in Devices, HandleTime(w, d) PROVE Causality'
  <2>1. TimeReq(d) \in Messages \ Results /\ Contact(d) \in Messages \ Results
    BY MessageFacts
  <2>2. /\ UNCHANGED <<row, toPublish, jobs, sender, todo, timer, ui, cmds, executed>>
        /\ ActionsDone(w, TimeReq(d))
    BY <1>2 DEF HandleTime
  <2>3. \A n \in Results : inbox'[n] = inbox[n]
    BY <1>2, <2>1, MessageFacts DEF HandleTime, TypeOK
  <2>4. /\ (pc'[w] = "pending" /\ msg'[w] = TimeReq(d)) \/ (pc'[w] = pc[w] /\ msg'[w] = msg[w])
        /\ \A v \in Workers : v # w => pc'[v] = pc[v] /\ msg'[v] = msg[v]
    BY <2>2, ActionsDoneFacts
  <2> QED
    BY <2>1, <2>2, <2>3, <2>4 DEF Causality, ResolvedOnlyIfExecuted, Settled
<1>3. ASSUME NEW r \in Rows, HandleResult(w, r) PROVE Causality'
  <2>1. Result(r) \in Messages /\ Result(r) \in Results /\ Result(r).row = r
    BY MessageFacts
  <2>2. r \in executed
    BY <1>3, <2>1 DEF HandleResult, Take, Causality
  <2>3. \A n \in Results : inbox'[n] > 0 => inbox[n] > 0
    BY <1>3, <2>1, TakeOutFacts, MessageFacts DEF HandleResult, Take, Consume, TypeOK
  <2>4. UNCHANGED <<row, toPublish, jobs, sender, todo, timer, ui, cmds, executed>>
    BY <1>3 DEF HandleResult
  <2>5. /\ \/ pc'[w] \in {"save", "pending"} /\ msg'[w] = Result(r)
           \/ pc'[w] = pc[w] /\ msg'[w] = msg[w]
        /\ \A v \in Workers : v # w => pc'[v] = pc[v] /\ msg'[v] = msg[v]
    BY <1>3 DEF HandleResult, ActionsDone, Proceed, TypeOK
  <2> QED
    BY <2>1, <2>2, <2>3, <2>4, <2>5 DEF Causality, ResolvedOnlyIfExecuted, Settled
<1>4. ASSUME NEW r \in Rows, EnqueuePending(w, r) PROVE Causality'
  <2>1. row[r] # "absent"
    BY <1>4 DEF EnqueuePending, Causality
  <2>2. \A q \in Rows : q # r => jobs'[q] = jobs[q]
    BY <1>4 DEF EnqueuePending, TypeOK
  <2>3. UNCHANGED <<row, toPublish, sender, timer, ui, cmds, inbox, executed>>
    BY <1>4 DEF EnqueuePending
  <2>4. DOMAIN pc = Workers /\ DOMAIN msg = Workers /\ DOMAIN todo = Workers
    BY DEF TypeOK
  <2>5. pc'[w] \in {"idle", "enqueue"} /\ \A v \in Workers : v # w => pc'[v] = pc[v]
    BY <1>4, <2>4 DEF EnqueuePending
  <2>6. pc'[w] = "enqueue" => msg'[w] = msg[w] /\ pc[w] = "enqueue"
    BY <1>4, <2>4 DEF EnqueuePending
  <2>7. todo'[w] \subseteq todo[w]
    BY <1>4, <2>4 DEF EnqueuePending
  <2>8. \A v \in Workers : v # w => msg'[v] = msg[v] /\ todo'[v] = todo[v]
    BY <1>4, <2>4 DEF EnqueuePending
  <2> QED
    BY <2>1, <2>2, <2>3, <2>5, <2>6, <2>7, <2>8 DEF Causality, ResolvedOnlyIfExecuted, Settled
<1>5. ASSUME SaveResolved(w) PROVE Causality'
  <2> DEFINE r == AnsweredRow(msg[w])
  <2>1. msg[w] \in Results /\ msg[w].row \in executed
    BY <1>5 DEF SaveResolved, Causality
  <2>2. r \in Rows /\ r \in executed
    BY <2>1, MessageFacts DEF AnsweredRow
  <2>3. /\ row' = [row EXCEPT ![r] = "resolved"]
        /\ timer' = [timer EXCEPT ![r] = @ + 1]
        /\ UNCHANGED <<toPublish, jobs, sender, todo, ui, cmds, inbox, executed>>
    BY <1>5 DEF SaveResolved
  <2>4. /\ pc[w] = "save"
        /\ (pc'[w] = "pending" /\ msg'[w] = msg[w]) \/ (pc'[w] = pc[w] /\ msg'[w] = msg[w])
        /\ \A v \in Workers : v # w => pc'[v] = pc[v] /\ msg'[v] = msg[v]
    BY <1>5, ActionsDoneFacts DEF SaveResolved
  <2>5. \A q \in Rows : row[q] # "absent" => row'[q] # "absent"
    BY <2>2, <2>3 DEF TypeOK
  <2>6. /\ row'[r] = "resolved"
        /\ \A q \in Rows : q # r => row'[q] = row[q] /\ timer'[q] = timer[q]
    BY <2>2, <2>3 DEF TypeOK
  <2>7. \A s \in Senders : sender[s] # NoRow => sender[s] \in Rows
    BY DEF TypeOK
  <2>8. \A v \in Workers : todo[v] \subseteq Rows
    BY DEF TypeOK
  <2> HIDE DEF r
  <2>9. ResolvedOnlyIfExecuted'
    BY <2>2, <2>3, <2>6 DEF Causality, ResolvedOnlyIfExecuted
  <2>10. \A q \in Rows : timer'[q] > 0 \/ ui'[q] > 0 => Settled(q)'
    BY <2>2, <2>3, <2>6 DEF Causality, Settled
  <2>11. \A v \in Workers : /\ pc'[v] # "idle" => msg'[v] \in Messages
                            /\ pc'[v] = "save" => msg'[v] \in Results
                            /\ pc'[v] # "idle" /\ msg'[v] \in Results => msg'[v].row \in executed
    BY <2>1, <2>4 DEF Causality
  <2> QED
    BY <2>3, <2>5, <2>7, <2>8, <2>9, <2>10, <2>11 DEF Causality
<1>6. ASSUME ReadPending(w) PROVE Causality'
  <2>1. UNCHANGED <<row, toPublish, jobs, sender, timer, ui, cmds, inbox, executed>>
    BY <1>6 DEF ReadPending
  <2>2. \A q \in todo'[w] : row[q] # "absent"
    BY <1>6 DEF ReadPending, PendingConfigs, TypeOK
  <2>3. DOMAIN pc = Workers /\ DOMAIN msg = Workers /\ DOMAIN todo = Workers
    BY DEF TypeOK
  <2>4. pc'[w] \in {"idle", "enqueue"} /\ \A v \in Workers : v # w => pc'[v] = pc[v]
    BY <1>6, <2>3 DEF ReadPending
  <2>5. pc'[w] = "enqueue" => msg'[w] = msg[w] /\ pc[w] = "pending"
    BY <1>6, <2>3 DEF ReadPending
  <2>6. \A v \in Workers : v # w => msg'[v] = msg[v] /\ todo'[v] = todo[v]
    BY <1>6, <2>3 DEF ReadPending
  <2> QED
    BY <2>1, <2>2, <2>4, <2>5, <2>6 DEF Causality, ResolvedOnlyIfExecuted, Settled
<1> QED
  BY <1>1, <1>2, <1>3, <1>4, <1>5, <1>6

LEMMA NotifyCausality == TypeOK /\ Causality /\ (\E r \in Rows : NotifyUI(r)) => Causality'
<1> SUFFICES ASSUME TypeOK, Causality, NEW r \in Rows, NotifyUI(r) PROVE Causality'
  OBVIOUS
<1>1. timer[r] \in Nat /\ timer[r] > 0
  BY DEF NotifyUI, TimerDue, TypeOK
<1>2. \A q \in Rows : /\ q # r => timer'[q] = timer[q] /\ ui'[q] = ui[q]
                      /\ timer'[q] > 0 => timer[q] > 0
  BY <1>1 DEF NotifyUI, TypeOK
<1>3. UNCHANGED <<row, toPublish, jobs, sender, pc, msg, todo, cmds, inbox, executed>>
  BY DEF NotifyUI
<1> QED
  BY <1>1, <1>2, <1>3 DEF Causality, ResolvedOnlyIfExecuted, Settled

LEMMA DeviceCausality == TypeOK /\ Causality /\ DeviceStep => Causality'
<1> SUFFICES ASSUME TypeOK, Causality, DeviceStep PROVE Causality'
  OBVIOUS
<1>1. ASSUME NEW d \in Devices, GoOnline(d) PROVE Causality'
  BY <1>1 DEF GoOnline, serverVars, Causality, ResolvedOnlyIfExecuted, Settled
<1>2. ASSUME NEW d \in Devices, GoOffline(d) PROVE Causality'
  <2>1. \A r \in Rows : cmds'[r] > 0 => cmds[r] > 0
    BY <1>2 DEF GoOffline, TypeOK
  <2> QED
    BY <1>2, <2>1 DEF GoOffline, serverVars, Causality, ResolvedOnlyIfExecuted, Settled
<1>3. ASSUME NEW d \in Devices, NEW m \in Messages, Speak(d, m) PROVE Causality'
  <2>1. m \notin Results
    BY <1>3, ConstantsAssumption DEF Speak, Results, ConstantsAssumption
  <2>2. inbox \in [Messages -> 0 .. MaxCopies] /\ inbox' = Put(inbox, m)
    BY <1>3 DEF Speak, TypeOK
  <2>3. \A n \in Results : inbox'[n] = inbox[n]
    BY <2>1, <2>2, PutFacts, MessageFacts
  <2> QED
    BY <1>3, <2>3 DEF Speak, serverVars, Causality, ResolvedOnlyIfExecuted, Settled
<1>4. ASSUME NEW r \in Rows, Execute(r) PROVE Causality'
  <2>1. Result(r) \in Messages /\ Result(r).row = r /\ \A n \in Results : n \in Messages
    BY MessageFacts
  <2>2. \A q \in Rows : cmds'[q] > 0 => cmds[q] > 0
    BY <1>4, TakeOutFacts DEF Execute, TypeOK
  <2>3. \A n \in Results : inbox'[n] > 0 => inbox[n] > 0 \/ n = Result(r)
    <3>1. inbox \in [Messages -> 0 .. MaxCopies] /\ inbox' \in {inbox, Put(inbox, Result(r))}
      BY <1>4 DEF Execute, TypeOK
    <3>2. \A n \in Messages : n # Result(r) => Put(inbox, Result(r))[n] = inbox[n]
      BY <2>1, <3>1, PutFacts
    <3> QED
      BY <2>1, <3>1, <3>2
  <2>4. row[r] # "absent"
    BY <1>4 DEF Execute, Causality
  <2>5. UNCHANGED serverVars /\ executed' = executed \cup {r}
    BY <1>4 DEF Execute
  <2> QED
    BY <2>1, <2>2, <2>3, <2>4, <2>5 DEF serverVars, Causality, ResolvedOnlyIfExecuted, Settled
<1> QED
  BY <1>1, <1>2, <1>3, <1>4 DEF DeviceStep

LEMMA CrashCausality == TypeOK /\ Causality /\ Crashes => Causality'
<1> SUFFICES ASSUME TypeOK, Causality, Crashes PROVE Causality'
  OBVIOUS
<1>1. ASSUME NEW w \in Workers, WorkerStall(w) PROVE Causality'
  <2>1. msg[w] \in Messages /\ (msg[w] \in Results => msg[w].row \in executed)
    BY <1>1 DEF WorkerStall, Causality
  <2>2. \A n \in Results : inbox'[n] > 0 => inbox[n] > 0 \/ n = msg[w]
    <3>1. inbox \in [Messages -> 0 .. MaxCopies] /\ inbox' \in {inbox, Put(inbox, msg[w])}
      BY <1>1 DEF WorkerStall, TypeOK
    <3>2. \A n \in Messages : n # msg[w] => Put(inbox, msg[w])[n] = inbox[n]
      BY <2>1, <3>1, PutFacts
    <3> QED
      BY <3>1, <3>2, MessageFacts
  <2>3. /\ pc'[w] = "idle" /\ todo'[w] = {}
        /\ \A v \in Workers : v # w => pc'[v] = pc[v] /\ msg'[v] = msg[v] /\ todo'[v] = todo[v]
        /\ UNCHANGED <<row, toPublish, jobs, sender, timer, ui, cmds, executed>>
    BY <1>1 DEF WorkerStall, TypeOK
  <2> QED
    BY <2>1, <2>2, <2>3 DEF Causality, ResolvedOnlyIfExecuted, Settled
<1>2. ASSUME NEW s \in Senders, SenderStall(s) PROVE Causality'
  <2>1. sender[s] \in Rows /\ row[sender[s]] # "absent"
    BY <1>2 DEF SenderStall, TypeOK, Causality
  <2>2. \A q \in Rows : jobs'[q] > 0 => jobs[q] > 0 \/ q = sender[s]
    BY <1>2, <2>1, PutFacts DEF SenderStall, TypeOK
  <2>3. /\ \A t \in Senders : sender'[t] \in {sender[t], NoRow}
        /\ UNCHANGED <<row, toPublish, pc, msg, todo, timer, ui, cmds, inbox, executed>>
    BY <1>2 DEF SenderStall, TypeOK
  <2> QED
    BY <2>1, <2>2, <2>3 DEF Causality, ResolvedOnlyIfExecuted, Settled
<1>3. ASSUME NEW r \in Rows, TimerLost(r) PROVE Causality'
  <2>1. \A q \in Rows : timer'[q] > 0 => timer[q] > 0
    BY <1>3 DEF TimerLost, TypeOK
  <2> QED
    BY <1>3, <2>1 DEF TimerLost, Causality, ResolvedOnlyIfExecuted, Settled
<1>4. ASSUME NEW c \in Commands, RequestLost(c) PROVE Causality'
  BY <1>4 DEF RequestLost, Causality, ResolvedOnlyIfExecuted, Settled
<1> QED
  BY <1>1, <1>2, <1>3, <1>4 DEF Crashes

LEMMA StutterCausality == TypeOK /\ Causality /\ UNCHANGED vars => (TypeOK /\ Causality)'
  BY DEF vars, serverVars, TypeOK, Causality, ResolvedOnlyIfExecuted, Settled

\* The inductive step.
LEMMA Inductive == TypeOK /\ Causality /\ [Next]_vars => (TypeOK /\ Causality)'
<1>1. TypeOK /\ Causality /\ Next => TypeOK'
  BY OperatorTypes, SenderTypes, WorkerTypes, NotifyTypes, DeviceTypes, CrashTypes DEF Next
<1>2. TypeOK /\ Causality /\ Next => Causality'
  BY OperatorCausality, SenderCausality, WorkerCausality, NotifyCausality,
     DeviceCausality, CrashCausality DEF Next
<1> QED
  BY <1>1, <1>2, StutterCausality

\* The variables of ConfigDelivery keep their types.
THEOREM TypeCorrect == Spec => []TypeOK
<1>1. Init => TypeOK /\ Causality
  BY InitTypes, InitCausality
<1> QED
  BY <1>1, Inductive, PTL DEF Spec

\* Nothing precedes its cause between an operator's request and the UI.
THEOREM CausalityHolds == Spec => []Causality
<1>1. Init => TypeOK /\ Causality
  BY InitTypes, InitCausality
<1> QED
  BY <1>1, Inductive, PTL DEF Spec

\* processRequest marks a row RESOLVED, and has the UI told, only when the
\* device has executed that row's command.
THEOREM ResolutionIsHonest == Spec => []ResolvedOnlyIfExecuted
<1>1. Causality => ResolvedOnlyIfExecuted
  BY DEF Causality
<1> QED
  BY <1>1, CausalityHolds, PTL

-----------------------------------------------------------------------------
(* Settled rows fall silent *)

\* A step that begins no publication of a row and makes none.
LEMMA NoPublication ==
  ASSUME NEW r \in Rows, TypeOK, Settled(r) => Settled(r)',
         cmds'[r] \in Nat, cmds'[r] <= cmds[r],
         r \in toPublish' => r \in toPublish,
         \A s \in Senders : sender'[s] = r => sender[s] = r
  PROVE  FallsSilent(r)
<1>1. Sending(r)' \subseteq Sending(r)
  BY DEF Sending
<1>2. cmds[r] \in Nat
  BY ConstantsAssumption DEF TypeOK, ConstantsAssumption
<1>3. ~(cmds'[r] > cmds[r])
  BY <1>2
<1> QED
  BY <1>1, <1>3 DEF FallsSilent

LEMMA CmdsNat == ASSUME TypeOK, NEW r \in Rows PROVE cmds[r] \in Nat /\ cmds[r] <= cmds[r]
  BY ConstantsAssumption DEF TypeOK, ConstantsAssumption

LEMMA OperatorSilent == ASSUME NEW r \in Rows, TypeOK, Operator PROVE FallsSilent(r)
<1>1. ASSUME NEW c \in Commands, NEW b \in Bases, StoreConfig(c, b), Settled(r)
      PROVE  FallsSilent(r)
  <2>1. <<c, b>> \in Rows /\ row[<<c, b>>] = "absent" /\ r # <<c, b>>
    BY <1>1 DEF StoreConfig, Settled, Rows
  <2>2. row'[r] = row[r] /\ (r \in toPublish' => r \in toPublish) /\ UNCHANGED <<sender, cmds>>
    BY <1>1, <2>1 DEF StoreConfig, TypeOK
  <2> QED
    BY <2>2, NoPublication, CmdsNat DEF Settled
<1>2. ASSUME NEW q \in Rows, SendConfigDetails(q) PROVE FallsSilent(r)
  <2>1. /\ q \in toPublish /\ toPublish' = toPublish \ {q}
        /\ PublishCommand(q) /\ UNCHANGED <<row, sender>>
    BY <1>2 DEF SendConfigDetails
  <2>2. CASE r = q
    BY <2>1, <2>2 DEF FallsSilent, Settled, Sending
  <2>3. CASE r # q
    <3>1. cmds'[r] = cmds[r]
      BY <2>1, <2>3, PublishFacts
    <3> QED
      BY <2>1, <3>1, NoPublication, CmdsNat DEF Settled
  <2> QED
    BY <2>2, <2>3
<1>3. ASSUME NEW q \in Rows, CancelConfig(q) PROVE FallsSilent(r)
  <2>1. Settled(r) => Settled(r)'
    BY <1>3 DEF CancelConfig, Settled, TypeOK
  <2> QED
    BY <1>3, <2>1, NoPublication, CmdsNat DEF CancelConfig
<1> QED
  BY <1>1, <1>2, <1>3 DEF Operator, FallsSilent

LEMMA SenderSilent == ASSUME NEW r \in Rows, TypeOK, SenderStep PROVE FallsSilent(r)
<1>1. ASSUME NEW s \in Senders, SendConfig(s) PROVE FallsSilent(r)
  <2>1. /\ sender[s] \in Rows /\ PublishCommand(sender[s])
        /\ sender' = [sender EXCEPT ![s] = NoRow]
        /\ UNCHANGED <<row, toPublish>>
    BY <1>1 DEF SendConfig, TypeOK
  <2>2. DOMAIN sender = Senders /\ r # NoRow
    BY ConstantsAssumption DEF TypeOK, ConstantsAssumption
  <2>3. Sending(r)' = Sending(r) \ {s}
    BY <2>1, <2>2 DEF Sending
  <2>4. CASE sender[s] = r
    <3>1. s \in Sending(r)
      BY <2>4 DEF Sending
    <3> QED
      BY <2>1, <2>3, <3>1 DEF FallsSilent, Settled
  <2>5. CASE sender[s] # r
    <3>1. cmds'[r] = cmds[r]
      BY <2>1, <2>5, PublishFacts
    <3> QED
      BY <2>1, <2>2, <3>1, NoPublication, CmdsNat DEF Settled
  <2> QED
    BY <2>4, <2>5
<1>2. ASSUME NEW s \in Senders, NEW q \in Rows, ReadConfig(s, q), Settled(r)
      PROVE  FallsSilent(r)
  <2>1. UNCHANGED <<row, cmds, toPublish>>
    BY <1>2 DEF ReadConfig
  <2>2. \A t \in Senders : sender'[t] = r => sender[t] = r
    <3>1. DOMAIN sender = Senders
      BY DEF TypeOK
    <3>2. StillWaiting(q) => r # q
      BY <1>2 DEF StillWaiting, Settled
    <3> QED
      BY <1>2, <3>1, <3>2 DEF ReadConfig
  <2> QED
    BY <2>1, <2>2, NoPublication, CmdsNat DEF Settled
<1> QED
  BY <1>1, <1>2 DEF SenderStep, FallsSilent

LEMMA WorkerSilent ==
  ASSUME NEW r \in Rows, TypeOK, Causality, WorkerStep
  PROVE  FallsSilent(r)
<1>1. UNCHANGED <<cmds, toPublish, sender>>
  BY DEF WorkerStep, HandleOther, HandleTime, HandleResult, EnqueuePending, SaveResolved, ReadPending
<1>2. Settled(r) => Settled(r)'
  <2>1. CASE row' = row
    BY <2>1 DEF Settled
  <2>2. ASSUME NEW w \in Workers, SaveResolved(w) PROVE Settled(r) => Settled(r)'
    <3>1. row' = [row EXCEPT ![AnsweredRow(msg[w])] = "resolved"]
      BY <2>2 DEF SaveResolved
    <3> QED
      BY <3>1 DEF Settled, TypeOK
  <2> QED
    BY <2>1, <2>2 DEF WorkerStep, HandleOther, HandleTime, HandleResult, EnqueuePending, ReadPending
<1> QED
  BY <1>1, <1>2, NoPublication, CmdsNat

LEMMA OtherStepsSilent ==
  ASSUME NEW r \in Rows, TypeOK,
         \/ \E q \in Rows : NotifyUI(q)
         \/ DeviceStep
         \/ Crashes
         \/ UNCHANGED vars
  PROVE  FallsSilent(r)
<1>1. /\ row' = row /\ (r \in toPublish' => r \in toPublish)
      /\ \A s \in Senders : sender'[s] = r => sender[s] = r
  <2>1. CASE Crashes
    <3>1. ASSUME NEW s \in Senders, SenderStall(s) PROVE \A t \in Senders : sender'[t] = r => sender[t] = r
      <4>1. DOMAIN sender = Senders /\ r # NoRow
        BY ConstantsAssumption DEF TypeOK, ConstantsAssumption
      <4> QED
        BY <3>1, <4>1 DEF SenderStall
    <3> QED
      BY <2>1, <3>1 DEF Crashes, WorkerStall, SenderStall, TimerLost, RequestLost
  <2>2. CASE UNCHANGED serverVars
    BY <2>2 DEF serverVars
  <2>3. CASE \E q \in Rows : NotifyUI(q)
    BY <2>3 DEF NotifyUI
  <2> QED
    BY <2>1, <2>2, <2>3 DEF DeviceStep, GoOnline, GoOffline, Speak, Execute, vars
<1>2. cmds'[r] \in Nat /\ cmds'[r] <= cmds[r]
  <2>1. cmds[r] \in Nat
    BY CmdsNat
  <2>2. CASE cmds' = cmds
    BY <2>1, <2>2
  <2>3. ASSUME NEW d \in Devices, GoOffline(d) PROVE cmds'[r] \in Nat /\ cmds'[r] <= cmds[r]
    BY <2>1, <2>3 DEF GoOffline
  <2>4. ASSUME NEW q \in Rows, Execute(q) PROVE cmds'[r] \in Nat /\ cmds'[r] <= cmds[r]
    <3>1. cmds' = [cmds EXCEPT ![q] = cmds[q] - 1] /\ cmds[q] > 0 /\ cmds[q] \in Nat
      BY <2>4, CmdsNat DEF Execute
    <3>2. DOMAIN cmds = Rows
      BY DEF TypeOK
    <3> QED
      BY <2>1, <3>1, <3>2
  <2> QED
    BY <2>2, <2>3, <2>4 DEF NotifyUI, DeviceStep, GoOnline, Speak, Crashes, WorkerStall,
       SenderStall, TimerLost, RequestLost, vars
<1> QED
  BY <1>1, <1>2, NoPublication DEF Settled

\* A command that is answered or canceled stays so, and is published again
\* only by a publication already begun: the queue, the workers' lists and the
\* device's later reports cause no new one.
THEOREM SettledRowsFallSilent == Spec => SettledFallsSilent
<1>1. TypeOK /\ Causality /\ [Next]_vars => \A r \in Rows : FallsSilent(r)
  BY OperatorSilent, SenderSilent, WorkerSilent, OtherStepsSilent DEF Next
<1>2. TypeOK /\ Causality /\ [Next]_vars => [\A r \in Rows : FallsSilent(r)]_vars
  BY <1>1
<1> QED
  BY <1>2, TypeCorrect, CausalityHolds, PTL DEF Spec, SettledFallsSilent

-----------------------------------------------------------------------------
(* Notifications: a worker enters Savers(r) only while the row is WAITING, *)
(* when the UI has not heard of it yet; a save turns one of them into a    *)
(* timer, and a timer becomes a notification.                              *)

Savers(r) == {w \in Workers : pc[w] = "save" /\ msg[w].row = r}

Load(r) == timer[r] + ui[r] + Cardinality(Savers(r))

LEMMA LoadFacts ==
  ASSUME TypeOK, NEW r \in Rows
  PROVE  /\ IsFiniteSet(Savers(r))
         /\ Cardinality(Savers(r)) \in Nat /\ Cardinality(Workers) \in Nat
         /\ Cardinality(Savers(r)) <= Cardinality(Workers)
         /\ timer[r] \in Nat /\ ui[r] \in Nat
<1>1. Savers(r) \subseteq Workers /\ IsFiniteSet(Workers)
  BY ConstantsAssumption DEF Savers, ConstantsAssumption
<1> QED
  BY <1>1, FS_Subset, FS_CardinalityType DEF TypeOK

\* A step after which no more is known of a row than before.
LEMMA LoadShrinks ==
  ASSUME TypeOK, TypeOK', NEW r \in Rows, Load(r) <= Cardinality(Workers),
         timer'[r] + ui'[r] <= timer[r] + ui[r], Savers(r)' \subseteq Savers(r)
  PROVE  Load(r)' <= Cardinality(Workers)
<1>1. Cardinality(Savers(r)') <= Cardinality(Savers(r)) /\ Cardinality(Savers(r)') \in Nat
  BY LoadFacts, FS_Subset, FS_CardinalityType
<1>2. timer'[r] \in Nat /\ ui'[r] \in Nat
  BY DEF TypeOK
<1> QED
  BY <1>1, <1>2, LoadFacts DEF Load

LEMMA SaveLoad ==
  ASSUME TypeOK, TypeOK', Causality, NEW r \in Rows, Load(r) <= Cardinality(Workers),
         NEW w \in Workers, SaveResolved(w)
  PROVE  Load(r)' <= Cardinality(Workers)
<1>1. /\ pc[w] = "save" /\ msg[w] \in Results /\ ui' = ui
      /\ timer' = [timer EXCEPT ![msg[w].row] = @ + 1] /\ ActionsDone(w, msg[w])
  BY DEF SaveResolved, AnsweredRow, Causality
<1>2. msg[w].row \in Rows /\ msg[w].kind = "result"
  BY <1>1 DEF Results
<1>3. pc' = [pc EXCEPT ![w] = "pending"] /\ msg' = [msg EXCEPT ![w] = msg[w]]
  BY <1>1, <1>2 DEF ActionsDone, IsConfigActionTopic, Proceed
<1>4. Savers(r)' = Savers(r) \ {w}
  BY <1>3 DEF Savers, TypeOK
<1>5. CASE msg[w].row = r
  <2>1. w \in Savers(r) /\ timer'[r] = timer[r] + 1
    BY <1>1, <1>5 DEF Savers, TypeOK
  <2>2. Cardinality(Savers(r)') = Cardinality(Savers(r)) - 1
    BY <1>4, <2>1, LoadFacts, FS_RemoveElement
  <2> QED
    BY <1>1, <2>1, <2>2, LoadFacts DEF Load
<1>6. CASE msg[w].row # r
  <2>1. timer'[r] = timer[r] /\ Savers(r)' \subseteq Savers(r)
    BY <1>1, <1>4, <1>6 DEF TypeOK
  <2> QED
    BY <1>1, <2>1, LoadShrinks, LoadFacts
<1> QED
  BY <1>5, <1>6

LEMMA ResultLoad ==
  ASSUME TypeOK, TypeOK', Causality, NEW r \in Rows, Load(r) <= Cardinality(Workers),
         NEW w \in Workers, NEW q \in Rows, HandleResult(w, q)
  PROVE  Load(r)' <= Cardinality(Workers)
<1>1. UNCHANGED <<row, timer, ui>> /\ pc[w] = "idle" /\ Result(q).row = q
  BY MessageFacts DEF HandleResult, Take
<1>2. /\ pc'[w] = "save" => row[q] = "waiting" /\ msg'[w].row = q
      /\ \A v \in Workers : v # w => pc'[v] = pc[v] /\ msg'[v] = msg[v]
  BY <1>1 DEF HandleResult, Answerable, AnsweredRow, ActionsDone, Proceed, TypeOK
<1>3. CASE pc'[w] = "save" /\ q = r
  <2>1. timer[r] = 0 /\ ui[r] = 0
    BY <1>2, <1>3, LoadFacts DEF Causality, Settled
  <2>2. Cardinality(Savers(r))' <= Cardinality(Workers) /\ Cardinality(Savers(r))' \in Nat
    <3>1. Savers(r)' \subseteq Workers /\ IsFiniteSet(Workers)
      BY ConstantsAssumption DEF Savers, ConstantsAssumption
    <3> QED
      BY <3>1, FS_Subset, FS_CardinalityType
  <2> QED
    BY <1>1, <2>1, <2>2 DEF Load
<1>4. CASE ~(pc'[w] = "save" /\ q = r)
  <2>1. Savers(r)' \subseteq Savers(r)
    BY <1>2, <1>4 DEF Savers
  <2> QED
    BY <1>1, <2>1, LoadShrinks, LoadFacts
<1> QED
  BY <1>3, <1>4

\* Steps that put no worker before a save and no row before the UI.
LEMMA OtherLoad ==
  ASSUME TypeOK, TypeOK', NEW r \in Rows, Load(r) <= Cardinality(Workers),
         \/ Operator \/ SenderStep \/ DeviceStep \/ Crashes \/ UNCHANGED vars
         \/ \E q \in Rows : NotifyUI(q)
         \/ \E w \in Workers :
              \/ \E m \in Messages : HandleOther(w, m)
              \/ \E d \in Devices : HandleTime(w, d)
              \/ \E q \in Rows : EnqueuePending(w, q)
              \/ ReadPending(w)
  PROVE  Load(r)' <= Cardinality(Workers)
<1>1. Savers(r)' \subseteq Savers(r)
  <2>1. CASE UNCHANGED <<pc, msg>>
    BY <2>1 DEF Savers
  <2>2. ASSUME NEW w \in Workers, NEW m, ActionsDone(w, m), pc[w] = "idle"
        PROVE  Savers(r)' \subseteq Savers(r)
    BY <2>2, ActionsDoneFacts DEF Savers
  <2>3. ASSUME NEW w \in Workers, (\E q \in Rows : EnqueuePending(w, q)) \/ ReadPending(w) \/ WorkerStall(w)
        PROVE  Savers(r)' \subseteq Savers(r)
    <3>1. /\ pc'[w] \in {"idle", "enqueue"}
          /\ \A v \in Workers : v # w => pc'[v] = pc[v] /\ msg'[v] = msg[v]
      BY <2>3 DEF EnqueuePending, ReadPending, WorkerStall, TypeOK
    <3> QED
      BY <3>1 DEF Savers
  <2>4. CASE \E w \in Workers : (\E m \in Messages : HandleOther(w, m)) \/ (\E d \in Devices : HandleTime(w, d))
    BY <2>2, <2>4 DEF HandleOther, HandleTime, Take
  <2>5. CASE Operator \/ SenderStep \/ DeviceStep \/ UNCHANGED vars \/ \E q \in Rows : NotifyUI(q)
    BY <2>1, <2>5 DEF Operator, StoreConfig, SendConfigDetails, CancelConfig, SenderStep, SendConfig,
       ReadConfig, DeviceStep, GoOnline, GoOffline, Speak, Execute, NotifyUI, serverVars, vars
  <2>6. CASE Crashes
    BY <2>1, <2>3, <2>6 DEF Crashes, SenderStall, TimerLost, RequestLost
  <2> QED
    BY <2>3, <2>4, <2>5, <2>6
<1>2. timer'[r] + ui'[r] <= timer[r] + ui[r]
  <2>1. CASE UNCHANGED <<timer, ui>>
    BY <2>1, LoadFacts
  <2>2. ASSUME NEW q \in Rows, NotifyUI(q) PROVE timer'[r] + ui'[r] <= timer[r] + ui[r]
    <3>1. /\ timer' = [timer EXCEPT ![q] = timer[q] - 1] /\ ui' = [ui EXCEPT ![q] = ui[q] + 1]
      BY <2>2 DEF NotifyUI
    <3> QED
      BY <3>1, LoadFacts DEF TypeOK
  <2>3. ASSUME NEW q \in Rows, TimerLost(q) PROVE timer'[r] + ui'[r] <= timer[r] + ui[r]
    <3>1. timer' = [timer EXCEPT ![q] = 0] /\ ui' = ui
      BY <2>3 DEF TimerLost
    <3> QED
      BY <3>1, LoadFacts DEF TypeOK
  <2>4. CASE Crashes
    BY <2>1, <2>3, <2>4 DEF Crashes, WorkerStall, SenderStall, RequestLost
  <2> QED
    BY <2>1, <2>2, <2>4 DEF Operator, StoreConfig, SendConfigDetails, CancelConfig, SenderStep, SendConfig,
       ReadConfig, DeviceStep, GoOnline, GoOffline, Speak, Execute, HandleOther, HandleTime,
       EnqueuePending, ReadPending, serverVars, vars
<1> QED
  BY <1>1, <1>2, LoadShrinks

\* The UI hears of a row at most once per worker, whatever is delivered twice,
\* stalls or is canceled.
THEOREM FewNotifications == Spec => []NotificationsBounded
<1> DEFINE Bounded == \A r \in Rows : Load(r) <= Cardinality(Workers)
<1>1. Init => Bounded
  <2> SUFFICES ASSUME Init, NEW r \in Rows PROVE Load(r) <= Cardinality(Workers)
    OBVIOUS
  <2>1. timer[r] = 0 /\ ui[r] = 0
    BY DEF Init
  <2>2. TypeOK
    BY InitTypes
  <2> QED
    BY <2>1, <2>2, LoadFacts DEF Load
<1>2. TypeOK /\ TypeOK' /\ Causality /\ Bounded /\ [Next]_vars => Bounded'
  <2> SUFFICES ASSUME TypeOK, TypeOK', Causality, Bounded, [Next]_vars, NEW r \in Rows
               PROVE  Load(r)' <= Cardinality(Workers)
    OBVIOUS
  <2>1. Load(r) <= Cardinality(Workers)
    OBVIOUS
  <2> HIDE DEF Bounded
  <2> QED
    BY <2>1, SaveLoad, ResultLoad, OtherLoad DEF Next, WorkerStep
<1>3. Bounded => NotificationsBounded
  BY DEF NotificationsBounded, Load, Savers
<1> QED
  BY <1>1, <1>2, <1>3, TypeCorrect, CausalityHolds, PTL DEF Spec

-----------------------------------------------------------------------------
(* Refinement *)

LEMMA InitRefines == Init => Lifecycle!Init
<1> SUFFICES ASSUME Init PROVE Lifecycle!Init
  OBVIOUS
<1>1. \A r \in Rows : ~(ui[r] > 0)
  BY DEF Init
<1> QED
  BY <1>1 DEF Init, Lifecycle!Init

LEMMA StepRefines ==
  TypeOK /\ Causality /\ [Next]_vars => [Lifecycle!Next]_(Lifecycle!vars)
<1> SUFFICES ASSUME TypeOK, Causality, [Next]_vars
             PROVE  Lifecycle!Next \/ UNCHANGED <<row, executed, ui>>
  BY DEF Lifecycle!vars
<1>1. ASSUME NEW c \in Commands, NEW b \in Bases, StoreConfig(c, b) PROVE Lifecycle!Next
  <2>1. <<c, b>> \in Rows
    BY DEF Rows
  <2>2. Lifecycle!Request(<<c, b>>)
    BY <1>1 DEF StoreConfig, Lifecycle!Request
  <2> QED
    BY <2>1, <2>2 DEF Lifecycle!Next
<1>2. ASSUME NEW r \in Rows, CancelConfig(r) PROVE Lifecycle!Next
  <2>1. Lifecycle!Cancel(r)
    BY <1>2 DEF CancelConfig, Lifecycle!Cancel
  <2> QED
    BY <2>1 DEF Lifecycle!Next
<1>3. ASSUME NEW w \in Workers, SaveResolved(w)
      PROVE  Lifecycle!Next \/ UNCHANGED <<row, executed, ui>>
  <2> DEFINE r == AnsweredRow(msg[w])
  <2>1. msg[w] \in Results /\ msg[w].row \in executed
    BY <1>3 DEF SaveResolved, Causality
  <2>2. r \in Rows /\ r \in executed
    BY <2>1, MessageFacts DEF AnsweredRow
  <2>3. row' = [row EXCEPT ![r] = "resolved"] /\ UNCHANGED <<executed, ui>>
    BY <1>3 DEF SaveResolved
  <2>4. row[r] \in {"waiting", "canceled", "resolved"}
    BY <2>2 DEF Causality, TypeOK
  <2>5. CASE row[r] = "resolved"
    BY <2>2, <2>3, <2>5 DEF TypeOK
  <2>6. CASE row[r] \in {"waiting", "canceled"}
    <3>1. Lifecycle!Resolve(r)
      BY <2>2, <2>3, <2>6 DEF Lifecycle!Resolve
    <3> QED
      BY <2>2, <3>1 DEF Lifecycle!Next
  <2> QED
    BY <2>4, <2>5, <2>6
<1>4. ASSUME NEW r \in Rows, NotifyUI(r) PROVE Lifecycle!Next
  <2>1. timer[r] > 0 /\ ui' = [ui EXCEPT ![r] = @ + 1] /\ UNCHANGED <<row, executed>>
    BY <1>4 DEF NotifyUI, TimerDue
  <2>2. Settled(r) /\ r \in executed
    BY <2>1 DEF Causality, ResolvedOnlyIfExecuted
  <2>3. \A q \in Rows : ui[q] \in Nat
    BY DEF TypeOK
  <2>4. \A q \in Rows : ui'[q] = IF q = r THEN ui[q] + 1 ELSE ui[q]
    BY <2>1 DEF TypeOK
  <2>5. {q \in Rows : ui'[q] > 0} = {q \in Rows : ui[q] > 0} \cup {r}
    BY <2>3, <2>4
  <2>6. Lifecycle!Notify(r)
    BY <2>1, <2>2, <2>5 DEF Lifecycle!Notify, Settled
  <2> QED
    BY <2>6 DEF Lifecycle!Next
<1>5. ASSUME NEW r \in Rows, Execute(r) PROVE Lifecycle!Next
  <2>1. row[r] # "absent" /\ executed' = executed \cup {r} /\ UNCHANGED <<row, ui>>
    BY <1>5 DEF Execute, serverVars, Causality
  <2>2. Lifecycle!Execute(r)
    BY <2>1 DEF Lifecycle!Execute
  <2> QED
    BY <2>2 DEF Lifecycle!Next
<1>6. CASE SenderStep \/ Crashes
  BY <1>6 DEF SenderStep, SendConfig, ReadConfig, Crashes, WorkerStall, SenderStall,
     TimerLost, RequestLost
<1>7. ASSUME NEW r \in Rows, SendConfigDetails(r) PROVE UNCHANGED <<row, executed, ui>>
  BY <1>7 DEF SendConfigDetails
<1>8. CASE WorkerStep
  BY <1>3, <1>8 DEF WorkerStep, HandleOther, HandleTime, HandleResult, EnqueuePending, ReadPending
<1>9. CASE DeviceStep
  BY <1>5, <1>9 DEF DeviceStep, GoOnline, GoOffline, Speak, serverVars
<1>10. CASE UNCHANGED vars
  BY <1>10 DEF vars, serverVars
<1> QED
  BY <1>1, <1>2, <1>4, <1>6, <1>7, <1>8, <1>9, <1>10 DEF Next, Operator

\* Through queues, retries, races and crashes, ConfigDelivery does to each row
\* only what CommandLifecycle promises.
THEOREM DeliveryImplementsLifecycle == Spec => ImplementsLifecycle
<1>1. Spec => []TypeOK /\ []Causality
  BY TypeCorrect, CausalityHolds
<1> QED
  BY <1>1, InitRefines, StepRefines, PTL DEF Spec, ImplementsLifecycle, Lifecycle!Spec

-----------------------------------------------------------------------------
(* Only a save resolves a row, and it starts a timer; only a crash loses one. *)

\* A step that resolves no row, and loses no timer and no notification.
LEMMA NothingUntold ==
  ASSUME TypeOK, ResolvedIsTold,
         \A r \in Rows : row'[r] = "resolved" => row[r] = "resolved",
         UNCHANGED <<timer, ui>>, crashes' = crashes \/ crashes' > 0
  PROVE  ResolvedIsTold'
BY DEF ResolvedIsTold

LEMMA SaveTells ==
  ASSUME TypeOK, Causality, ResolvedIsTold, NEW w \in Workers, SaveResolved(w)
  PROVE  ResolvedIsTold'
<1> DEFINE r == AnsweredRow(msg[w])
<1>1. /\ row' = [row EXCEPT ![r] = "resolved"] /\ timer' = [timer EXCEPT ![r] = @ + 1]
      /\ UNCHANGED <<ui, crashes>>
  BY DEF SaveResolved
<1>2. row \in [Rows -> {"absent", "waiting", "resolved", "canceled"}] /\ timer \in [Rows -> Nat]
  BY DEF TypeOK
<1> HIDE DEF r
<1>3. ASSUME NEW q \in Rows, q # r PROVE row'[q] = row[q] /\ timer'[q] = timer[q]
  BY <1>1, <1>2, <1>3
<1>4. ASSUME NEW q \in Rows, q = r PROVE timer'[q] > 0
  <2>1. timer[q] \in Nat /\ timer'[q] = timer[q] + 1
    BY <1>1, <1>2, <1>4
  <2> QED
    BY <2>1
<1> QED
  BY <1>1, <1>3, <1>4 DEF ResolvedIsTold

LEMMA NotifyTells ==
  ASSUME TypeOK, ResolvedIsTold, NEW r \in Rows, NotifyUI(r)
  PROVE  ResolvedIsTold'
<1>1. /\ timer' = [timer EXCEPT ![r] = @ - 1] /\ ui' = [ui EXCEPT ![r] = @ + 1]
      /\ UNCHANGED <<row, crashes>>
  BY DEF NotifyUI
<1>2. timer \in [Rows -> Nat] /\ ui \in [Rows -> Nat]
  BY DEF TypeOK
<1>3. ASSUME NEW q \in Rows, q # r PROVE ui'[q] = ui[q] /\ timer'[q] = timer[q]
  BY <1>1, <1>2, <1>3
<1>4. ui'[r] > 0
  BY <1>1, <1>2
<1> QED
  BY <1>1, <1>3, <1>4 DEF ResolvedIsTold

LEMMA OthersTell ==
  ASSUME TypeOK, ResolvedIsTold, Operator \/ SenderStep \/ DeviceStep \/ Crashes
  PROVE  ResolvedIsTold'
<1>1. crashes \in Nat
  BY ConstantsAssumption DEF TypeOK, ConstantsAssumption
<1>2. ASSUME Operator PROVE ResolvedIsTold'
  <2>1. \A r \in Rows : row'[r] = "resolved" => row[r] = "resolved"
    BY <1>2 DEF Operator, StoreConfig, SendConfigDetails, CancelConfig, TypeOK
  <2>2. UNCHANGED <<timer, ui, crashes>>
    BY <1>2 DEF Operator, StoreConfig, SendConfigDetails, CancelConfig
  <2> QED
    BY <2>1, <2>2, NothingUntold
<1>3. ASSUME SenderStep PROVE UNCHANGED <<row, timer, ui, crashes>>
  BY <1>3 DEF SenderStep, SendConfig, ReadConfig
<1>4. ASSUME DeviceStep PROVE UNCHANGED <<row, timer, ui, crashes>>
  BY <1>4 DEF DeviceStep, GoOnline, GoOffline, Speak, Execute, serverVars
<1>5. ASSUME Crashes PROVE crashes' > 0
  BY <1>1, <1>5 DEF Crashes, WorkerStall, SenderStall, TimerLost, RequestLost, Crash
<1>6. ASSUME Crashes PROVE ResolvedIsTold'
  BY <1>5, <1>6 DEF ResolvedIsTold
<1> QED
  BY <1>2, <1>3, <1>4, <1>6, NothingUntold

LEMMA WorkersTell ==
  ASSUME TypeOK, Causality, ResolvedIsTold, WorkerStep
  PROVE  ResolvedIsTold'
<1>1. PICK w \in Workers :
        \/ SaveResolved(w)
        \/ ReadPending(w)
        \/ \E m \in Messages : HandleOther(w, m)
        \/ \E d \in Devices : HandleTime(w, d)
        \/ \E r \in Rows : HandleResult(w, r) \/ EnqueuePending(w, r)
  BY DEF WorkerStep
<1>2. CASE SaveResolved(w)
  BY <1>2, SaveTells
<1>3. CASE ~SaveResolved(w)
  <2>1. UNCHANGED <<row, timer, ui, crashes>>
    BY <1>1, <1>3 DEF ReadPending, HandleOther, HandleTime, HandleResult, EnqueuePending
  <2> QED
    BY <2>1, NothingUntold
<1> QED
  BY <1>2, <1>3

\* Of every row that is resolved the UI has been told, or is about to be, for any
\* number of answers, workers and cancels, until a crash.
THEOREM ResolutionsAreTold == Spec => []ResolvedIsTold
<1>1. Init => ResolvedIsTold
  BY DEF Init, ResolvedIsTold
<1>2. TypeOK /\ Causality /\ ResolvedIsTold /\ [Next]_vars => ResolvedIsTold'
  <2>1. ASSUME UNCHANGED vars, ResolvedIsTold PROVE ResolvedIsTold'
    BY <2>1 DEF vars, serverVars, ResolvedIsTold
  <2> QED
    BY <2>1, WorkersTell, OthersTell, NotifyTells DEF Next
<1> QED
  BY <1>1, <1>2, TypeCorrect, CausalityHolds, PTL DEF Spec
=============================================================================
