---------------------------- MODULE ConfigDelivery ----------------------------
(***************************************************************************)
(* Delivery of commands to devices (services/device-shadow.ts,             *)
(* models/deviceconfig.ts, controllers/deviceconfig.ts).                   *)
(*                                                                         *)
(* An operator's request becomes one row per subscription base, each       *)
(* published over MQTT as soon as it is stored.  Devices are mostly        *)
(* asleep and publications are QoS 0, so most commands are lost; whenever  *)
(* a device is heard of, every row still WAITING for it is put on a        *)
(* delayed queue and published again.  The device answers on a result      *)
(* topic, the answer settles the row, and two seconds later the UI is      *)
(* told.                                                                   *)
(*                                                                         *)
(* Every step between two awaits of the code that touch the database, a    *)
(* queue or the broker is an action.  MQTT, BullMQ and the devices are     *)
(* external: publications may be lost, and the crash of a container is     *)
(* modelled by its consequences (a stalled job is run again or dropped, a  *)
(* timer or a request is forgotten), each of which may strike alone.       *)
(***************************************************************************)
EXTENDS Naturals, FiniteSets

CONSTANTS
  Devices,      \* device identities
  Commands,     \* calls of createConfig
  NumBases,     \* length of ServiceRunner.getSubscriptionsBase()
  Identity,     \* Identity[c]: the device command c is addressed to
  HomeBase,     \* HomeBase[d]: the base device d's firmware was built with
  Workers,      \* concurrent jobs of "process-device-stream"
  Senders,      \* concurrent jobs of "process-device-config-stream"
  Topics,       \* the topics devices speak on: "contact", "time"
  NoRow, NoMsg, \* what an idle sender and an idle worker hold
  MaxCopies,    \* bound: copies of one message, or of one job, at a time
  MaxCrashes    \* bound: stalled jobs, lost timers and lost requests

Bases == 1 .. NumBases
Rows  == Commands \X Bases
DeviceOf(r) == Identity[r[1]]

(***************************************************************************)
(* What the server hears: the answer of a device to a row, its own         *)
(* publication of a command to a device, a request for the time, and, as   *)
(* "contact", anything else on a topic of a device (heartbeats, payloads,  *)
(* registrations, the server's own time messages).                         *)
(***************************************************************************)
Result(r)  == [kind |-> "result", row |-> r]
Echo(d)    == [kind |-> "echo", dev |-> d]
Contact(d) == [kind |-> "contact", dev |-> d]
TimeReq(d) == [kind |-> "time", dev |-> d]

Results        == [kind : {"result"}, row : Rows]
DeviceMessages == [kind : {"echo", "contact", "time"}, dev : Devices]
Messages       == Results \cup DeviceMessages

ASSUME ConstantsAssumption ==
  /\ NumBases \in Nat \ {0}
  /\ Identity \in [Commands -> Devices]
  /\ HomeBase \in [Devices -> Bases]
  /\ Topics \subseteq {"contact", "time"}
  /\ NoRow \notin Rows
  /\ NoMsg \notin Messages
  /\ IsFiniteSet(Workers)
  /\ MaxCopies \in Nat \ {0}
  /\ MaxCrashes \in Nat

VARIABLES
  row,       \* the column "state" of each row, "absent" before it is created
  toPublish, \* rows createConfig has stored and not yet published
  aborted,   \* commands whose createConfig died with its container
  cmds,      \* copies of a row's command on their way to the device
  inbox,     \* jobs of the queue "process-device-stream", by message
  jobs,      \* delayed jobs of the queue "process-device-config-stream"
  sender,    \* the row a processConfig has found WAITING and not yet sent
  pc, msg, todo, \* a worker's place in processDeviceStream, its message, and
                 \* the rows applyPendingConfig has read and not yet enqueued
  timer,     \* pending setTimeouts of processRequest
  ui,        \* jobs added to "processed-pending-config" for the UI
  executed,  \* rows whose command the device has carried out (history)
  online,    \* devices that are awake and connected to the broker
  crashes    \* crash consequences so far

serverVars == <<row, toPublish, aborted, jobs, sender, pc, msg, todo, timer, ui>>
vars == <<serverVars, cmds, inbox, executed, online, crashes>>

Settled(r) == row[r] \in {"resolved", "canceled"}

Init ==
  /\ row = [r \in Rows |-> "absent"]
  /\ toPublish = {}
  /\ aborted = {}
  /\ cmds = [r \in Rows |-> 0]
  /\ inbox = [m \in Messages |-> 0]
  /\ jobs = [r \in Rows |-> 0]
  /\ sender = [s \in Senders |-> NoRow]
  /\ pc = [w \in Workers |-> "idle"]
  /\ msg = [w \in Workers |-> NoMsg]
  /\ todo = [w \in Workers |-> {}]
  /\ timer = [r \in Rows |-> 0]
  /\ ui = [r \in Rows |-> 0]
  /\ executed = {}
  /\ online = {}
  /\ crashes = 0

-----------------------------------------------------------------------------
(***************************************************************************)
(* Seeded faults: what a plausible mistake would make of the definitions   *)
(* that follow.  No specification uses them.                               *)
(***************************************************************************)

\* processConfig trusts its job and does not look at the row again
SendsUnchecked(r) == TRUE
\* processRequest forgets the test of the state
AnswersUnchecked(r) == TRUE
\* the server's own echoes count as a sign of life of the device
EchoesAreContacts(m) == FALSE
\* the query of applyPendingConfig asks for the rows already settled
PendingSettled(d) == {r \in Rows : row[r] = "resolved" /\ DeviceOf(r) = d}
\* the UI is told as soon as the row is stored
TimerDueEarly(r) == timer[r] > 0 \/ row[r] = "waiting"
\* the UI is told only if the row has been canceled meanwhile
TimerDueIfCanceled(r) == timer[r] > 0 /\ row[r] = "canceled"
-----------------------------------------------------------------------------
(***************************************************************************)
(* MQTT at QoS 0: a publication reaches a device that is connected and     *)
(* subscribed, or is lost on its way; a copy beyond MaxCopies counts as    *)
(* lost.  What has reached the queue of the server stays there.            *)
(***************************************************************************)
Capped(n)   == IF n > MaxCopies THEN MaxCopies ELSE n
Put(bag, e) == [bag EXCEPT ![e] = Capped(@ + 1)]

\* A device hears only the base its firmware was built with.
Hears(d, r) == d \in online /\ d = DeviceOf(r) /\ r[2] = HomeBase[d]

\* The server subscribes to <base>/# and so hears its own publications.
PublishCommand(r) ==
  /\ cmds' \in {cmds} \cup {Put(cmds, r) : d \in {d2 \in Devices : Hears(d2, r)}}
  /\ inbox' \in {inbox, Put(inbox, Echo(DeviceOf(r)))}

-----------------------------------------------------------------------------
(***************************************************************************)
(* createConfig, called by the controller's create.  For each base in      *)
(* turn it stores a row and then publishes it.                             *)
(***************************************************************************)
StoreConfig(c, b) ==
  LET r == <<c, b>> IN
  /\ c \notin aborted
  /\ row[r] = "absent"
  /\ \A b2 \in Bases : b2 < b => row[<<c, b2>>] # "absent" /\ <<c, b2>> \notin toPublish
  /\ row' = [row EXCEPT ![r] = "waiting"]
  /\ toPublish' = toPublish \cup {r}
  /\ UNCHANGED <<aborted, jobs, sender, pc, msg, todo, timer, ui, cmds, inbox, executed, online, crashes>>

SendConfigDetails(r) ==
  /\ r \in toPublish
  /\ toPublish' = toPublish \ {r}
  /\ PublishCommand(r)
  /\ UNCHANGED <<row, aborted, jobs, sender, pc, msg, todo, timer, ui, executed, online, crashes>>

\* The controller's update sets CANCELED, whatever the row's state.
CancelConfig(r) ==
  /\ row[r] # "absent"
  /\ row' = [row EXCEPT ![r] = "canceled"]
  /\ UNCHANGED <<toPublish, aborted, jobs, sender, pc, msg, todo, timer, ui, cmds, inbox, executed, online, crashes>>

(***************************************************************************)
(* processConfig, the worker of the delayed queue: read the row again, and *)
(* one await later publish it.                                             *)
(***************************************************************************)
StillWaiting(r) == row[r] = "waiting"

ReadConfig(s, r) ==
  /\ sender[s] = NoRow
  /\ jobs[r] > 0
  /\ jobs' = [jobs EXCEPT ![r] = @ - 1]
  /\ sender' = IF StillWaiting(r) THEN [sender EXCEPT ![s] = r] ELSE sender
  /\ UNCHANGED <<row, toPublish, aborted, pc, msg, todo, timer, ui, cmds, inbox, executed, online, crashes>>

SendConfig(s) ==
  /\ sender[s] # NoRow
  /\ PublishCommand(sender[s])
  /\ sender' = [sender EXCEPT ![s] = NoRow]
  /\ UNCHANGED <<row, toPublish, aborted, jobs, pc, msg, todo, timer, ui, executed, online, crashes>>

(***************************************************************************)
(* processDeviceStream: a worker takes a message, processActions does what *)
(* its topic calls for, and unless the topic is that of a command itself   *)
(* applyPendingConfig enqueues the rows still WAITING for the device.      *)
(***************************************************************************)
IsConfigActionTopic(m) == m.kind = "echo"

Take(w, m) ==
  /\ pc[w] = "idle"
  /\ inbox[m] > 0

Proceed(w, m, place) ==
  /\ pc' = [pc EXCEPT ![w] = place]
  /\ msg' = [msg EXCEPT ![w] = m]

\* processActions is over.
ActionsDone(w, m) == IF IsConfigActionTopic(m)
                       THEN UNCHANGED <<pc, msg>>
                       ELSE Proceed(w, m, "pending")

Consume(m) == inbox' = [inbox EXCEPT ![m] = @ - 1]

\* The branches of processActions that touch nothing of this module.
HandleOther(w, m) ==
  /\ m.kind \in {"echo", "contact"}
  /\ Take(w, m)
  /\ Consume(m)
  /\ ActionsDone(w, m)
  /\ UNCHANGED <<row, toPublish, aborted, jobs, sender, todo, timer, ui, cmds, executed, online, crashes>>

\* sendTimeConfig publishes the time on every base, and the server hears it.
HandleTime(w, d) ==
  /\ Take(w, TimeReq(d))
  /\ inbox' = [inbox EXCEPT ![TimeReq(d)] = @ - 1,
                            ![Contact(d)] = Capped(@ + NumBases)]
  /\ ActionsDone(w, TimeReq(d))
  /\ UNCHANGED <<row, toPublish, aborted, jobs, sender, todo, timer, ui, cmds, executed, online, crashes>>

\* processRequest: look up the row the answer names; only a WAITING row is
\* saved, one await later.
AnsweredRow(m) == m.row
Answerable(r)  == row[r] = "waiting"

HandleResult(w, r) ==
  /\ Take(w, Result(r))
  /\ Consume(Result(r))
  /\ IF Answerable(AnsweredRow(Result(r))) THEN Proceed(w, Result(r), "save")
                                           ELSE ActionsDone(w, Result(r))
  /\ UNCHANGED <<row, toPublish, aborted, jobs, sender, todo, timer, ui, cmds, executed, online, crashes>>

SaveResolved(w) ==
  LET r == AnsweredRow(msg[w]) IN
  /\ pc[w] = "save"
  /\ row' = [row EXCEPT ![r] = "resolved"]
  /\ timer' = [timer EXCEPT ![r] = @ + 1]
  /\ ActionsDone(w, msg[w])
  /\ UNCHANGED <<toPublish, aborted, jobs, sender, todo, ui, cmds, inbox, executed, online, crashes>>

\* The setTimeout of processRequest fires.
TimerDue(r) == timer[r] > 0

NotifyUI(r) ==
  /\ TimerDue(r)
  /\ timer' = [timer EXCEPT ![r] = @ - 1]
  /\ ui' = [ui EXCEPT ![r] = @ + 1]
  /\ UNCHANGED <<row, toPublish, aborted, jobs, sender, pc, msg, todo, cmds, inbox, executed, online, crashes>>

\* applyPendingConfig
MsgDevice(m) == IF m.kind = "result" THEN DeviceOf(m.row) ELSE m.dev
PendingConfigs(d) == {r \in Rows : row[r] = "waiting" /\ DeviceOf(r) = d}

ReadPending(w) ==
  LET found == PendingConfigs(MsgDevice(msg[w])) IN
  /\ pc[w] = "pending"
  /\ todo' = [todo EXCEPT ![w] = found]
  /\ pc' = [pc EXCEPT ![w] = IF found = {} THEN "idle" ELSE "enqueue"]
  /\ msg' = IF found = {} THEN [msg EXCEPT ![w] = NoMsg] ELSE msg
  /\ UNCHANGED <<row, toPublish, aborted, jobs, sender, timer, ui, cmds, inbox, executed, online, crashes>>

EnqueuePending(w, r) ==
  /\ pc[w] = "enqueue"
  /\ r \in todo[w]
  /\ jobs[r] < MaxCopies
  /\ jobs' = [jobs EXCEPT ![r] = @ + 1]
  /\ todo' = [todo EXCEPT ![w] = @ \ {r}]
  /\ pc' = [pc EXCEPT ![w] = IF todo[w] = {r} THEN "idle" ELSE @]
  /\ msg' = [msg EXCEPT ![w] = IF todo[w] = {r} THEN NoMsg ELSE @]
  /\ UNCHANGED <<row, toPublish, aborted, sender, timer, ui, cmds, inbox, executed, online, crashes>>

(***************************************************************************)
(* The devices.                                                            *)
(***************************************************************************)
GoOnline(d) ==
  /\ online' = online \cup {d}
  /\ UNCHANGED <<serverVars, cmds, inbox, executed, crashes>>

GoOffline(d) ==
  /\ online' = online \ {d}
  /\ cmds' = [r \in Rows |-> IF DeviceOf(r) = d THEN 0 ELSE cmds[r]]
  /\ UNCHANGED <<serverVars, inbox, executed, crashes>>

\* A heartbeat, a payload, a registration, or a request for the time.
Speak(d, m) ==
  /\ d \in online
  /\ m \in [kind : Topics, dev : {d}]
  /\ inbox[m] < MaxCopies
  /\ inbox' = Put(inbox, m)
  /\ UNCHANGED <<serverVars, cmds, executed, online, crashes>>

\* The device carries the command out and answers.
Execute(r) ==
  /\ cmds[r] > 0
  /\ cmds' = [cmds EXCEPT ![r] = @ - 1]
  /\ executed' = executed \cup {r}
  /\ inbox' \in {inbox, Put(inbox, Result(r))}
  /\ UNCHANGED <<serverVars, online, crashes>>

(***************************************************************************)
(* Crashes.                                                                *)
(***************************************************************************)
Crash == /\ crashes < MaxCrashes
         /\ crashes' = crashes + 1

\* BullMQ runs a stalled job again, or fails it.
WorkerStall(w) ==
  /\ Crash
  /\ pc[w] # "idle"
  /\ inbox' \in {inbox, Put(inbox, msg[w])}
  /\ pc' = [pc EXCEPT ![w] = "idle"]
  /\ msg' = [msg EXCEPT ![w] = NoMsg]
  /\ todo' = [todo EXCEPT ![w] = {}]
  /\ UNCHANGED <<row, toPublish, aborted, jobs, sender, timer, ui, cmds, executed, online>>

SenderStall(s) ==
  /\ Crash
  /\ sender[s] # NoRow
  /\ jobs' \in {jobs, Put(jobs, sender[s])}
  /\ sender' = [sender EXCEPT ![s] = NoRow]
  /\ UNCHANGED <<row, toPublish, aborted, pc, msg, todo, timer, ui, cmds, inbox, executed, online>>

TimerLost(r) ==
  /\ Crash
  /\ timer[r] > 0
  /\ timer' = [timer EXCEPT ![r] = 0]
  /\ UNCHANGED <<row, toPublish, aborted, jobs, sender, pc, msg, todo, ui, cmds, inbox, executed, online>>

RequestLost(c) ==
  /\ Crash
  /\ c \notin aborted
  /\ aborted' = aborted \cup {c}
  /\ toPublish' = {r \in toPublish : r[1] # c}
  /\ UNCHANGED <<row, jobs, sender, pc, msg, todo, timer, ui, cmds, inbox, executed, online>>

-----------------------------------------------------------------------------
Operator == \/ \E c \in Commands, b \in Bases : StoreConfig(c, b)
            \/ \E r \in Rows : SendConfigDetails(r) \/ CancelConfig(r)

SenderStep == \E s \in Senders : SendConfig(s) \/ \E r \in Rows : ReadConfig(s, r)

WorkerStep ==
  \E w \in Workers :
    \/ \E m \in Messages : HandleOther(w, m)
    \/ \E d \in Devices : HandleTime(w, d)
    \/ \E r \in Rows : HandleResult(w, r) \/ EnqueuePending(w, r)
    \/ SaveResolved(w)
    \/ ReadPending(w)

DeviceStep == \/ \E d \in Devices : GoOnline(d) \/ GoOffline(d) \/ \E m \in Messages : Speak(d, m)
              \/ \E r \in Rows : Execute(r)

Crashes == \/ \E w \in Workers : WorkerStall(w)
           \/ \E s \in Senders : SenderStall(s)
           \/ \E r \in Rows : TimerLost(r)
           \/ \E c \in Commands : RequestLost(c)

Next == \/ Operator
        \/ SenderStep
        \/ WorkerStep
        \/ \E r \in Rows : NotifyUI(r)
        \/ DeviceStep
        \/ Crashes

Spec == Init /\ [][Next]_vars

(***************************************************************************)
(* Fairness.  The server's own steps are weakly fair: every await of a     *)
(* live container ends.  BullMQ gives every job a turn in the end, among   *)
(* others that keep coming; a device that is awake speaks in the end; and  *)
(* a publication that is repeated for ever gets through in the end: strong *)
(* fairness.                                                               *)
(***************************************************************************)
TakeMessage(m) ==
  \E w \in Workers : \/ HandleOther(w, m)
                     \/ \E d \in Devices : m = TimeReq(d) /\ HandleTime(w, d)
                     \/ \E r \in Rows : m = Result(r) /\ HandleResult(w, r)

ServerFairness ==
  /\ \A w \in Workers : WF_vars(SaveResolved(w) \/ ReadPending(w) \/ \E r \in Rows : EnqueuePending(w, r))
  /\ \A s \in Senders : WF_vars(SendConfig(s))
  /\ \A r \in Rows : /\ SF_vars(\E s \in Senders : ReadConfig(s, r))
                     /\ WF_vars(NotifyUI(r))
                     /\ WF_vars(SendConfigDetails(r))
  /\ \A m \in Messages : SF_vars(TakeMessage(m))

DeviceFairness ==
  /\ \A d \in Devices : SF_vars(Speak(d, Contact(d)))
  /\ \A r \in Rows :
       /\ SF_vars(\E s \in Senders : sender[s] = r /\ SendConfig(s) /\ cmds'[r] > 0)
       /\ WF_vars(Execute(r))
       /\ SF_vars(Execute(r) /\ inbox'[Result(r)] > 0)

FairSpec == Spec /\ ServerFairness /\ DeviceFairness

-----------------------------------------------------------------------------
(* Properties *)

\* The variables keep their types, and the bounds on copies hold.
TypeOK ==
  /\ row \in [Rows -> {"absent", "waiting", "resolved", "canceled"}]
  /\ toPublish \subseteq Rows
  /\ aborted \subseteq Commands
  /\ cmds \in [Rows -> 0 .. MaxCopies]
  /\ inbox \in [Messages -> 0 .. MaxCopies]
  /\ jobs \in [Rows -> 0 .. MaxCopies]
  /\ sender \in [Senders -> Rows \cup {NoRow}]
  /\ pc \in [Workers -> {"idle", "save", "pending", "enqueue"}]
  /\ msg \in [Workers -> Messages \cup {NoMsg}]
  /\ todo \in [Workers -> SUBSET Rows]
  /\ timer \in [Rows -> Nat]
  /\ ui \in [Rows -> Nat]
  /\ executed \subseteq Rows
  /\ online \subseteq Devices
  /\ crashes \in 0 .. MaxCrashes

\* A row is RESOLVED, and the UI told so, only for a command its device has
\* carried out: processRequest settles the row the answer names, whatever
\* other rows of the device are in flight, re-published or canceled.
ResolvedOnlyIfExecuted ==
  \A r \in Rows : row[r] = "resolved" \/ timer[r] > 0 \/ ui[r] > 0 => r \in executed

\* Nothing precedes its cause, anywhere on the way from a request to the UI:
\* only stored rows are in flight, only answers of executed rows are, and only
\* a settled row has a timer.
Causality ==
  /\ ResolvedOnlyIfExecuted
  /\ \A r \in Rows : /\ r \in executed => row[r] # "absent"
                     /\ r \in toPublish \/ jobs[r] > 0 \/ cmds[r] > 0 => row[r] # "absent"
                     /\ timer[r] > 0 \/ ui[r] > 0 => Settled(r)
  /\ \A s \in Senders : sender[s] # NoRow => row[sender[s]] # "absent"
  /\ \A m \in Results : inbox[m] > 0 => m.row \in executed
  /\ \A w \in Workers :
       /\ pc[w] # "idle" => msg[w] \in Messages
       /\ pc[w] = "save" => msg[w] \in Results
       /\ pc[w] # "idle" /\ msg[w] \in Results => msg[w].row \in executed
       /\ \A r \in todo[w] : row[r] # "absent"

\* The UI hears of a row at most once per concurrent worker: an answer that
\* comes twice may pass the WAITING test in several workers before the first
\* save, and after it no worker passes it again.
NotificationsBounded ==
  \A r \in Rows :
    timer[r] + ui[r] + Cardinality({w \in Workers : pc[w] = "save" /\ msg[w].row = r})
      <= Cardinality(Workers)

\* The processConfigs that have found row r WAITING and will publish it.
Sending(r) == {s \in Senders : sender[s] = r}

\* A settled row stays settled and falls silent: no new publication of it is
\* begun, and each one made uses up one begun before it settled (a
\* processConfig past its test, or the first publication by createConfig),
\* whatever is left of it on the delayed queue or in a worker's list.
FallsSilent(r) ==
  Settled(r) => /\ Settled(r)'
                /\ Sending(r)' \subseteq Sending(r)
                /\ r \in toPublish' => r \in toPublish
                /\ cmds'[r] > cmds[r] => \/ Sending(r)' # Sending(r)
                                         \/ r \in toPublish \ toPublish'

SettledFallsSilent == [][\A r \in Rows : FallsSilent(r)]_vars

\* ConfigDelivery implements the life cycle promised for every row.
Lifecycle == INSTANCE CommandLifecycle WITH notified <- {r \in Rows : ui[r] > 0}
ImplementsLifecycle == Lifecycle!Spec

HomeRow(c) == <<c, HomeBase[Identity[c]]>>

\* A device that stays awake executes, or sees canceled, every command it has
\* waiting: applyPendingConfig publishes it again until an answer arrives.
Delivered ==
  \A c \in Commands :
    <>[](Identity[c] \in online) => (row[HomeRow(c)] = "waiting" ~> Settled(HomeRow(c)))

Quiet == /\ \A r \in Rows : jobs[r] = 0
         /\ \A m \in Messages : inbox[m] = 0
         /\ \A w \in Workers : pc[w] = "idle"
         /\ \A s \in Senders : sender[s] = NoRow

\* As long as no crash has forgotten it, the notification of a resolved row is under
\* way or the UI has it, whichever of several answers was saved last and whatever
\* was canceled in between.
ResolvedIsTold ==
  \A r \in Rows : row[r] = "resolved" => ui[r] > 0 \/ timer[r] > 0 \/ crashes > 0

\* The server hears its own publications, and must not answer them with new
\* ones: when every device is gone for good, it comes to rest.
NoFeedbackLoop == <>[](online = {}) => <>[]Quiet

\* The UI is told of every resolved row, unless a crash forgot the timer.
ToldUnlessCrash == \A r \in Rows : row[r] = "resolved" ~> (ui[r] > 0 \/ crashes > 0)
=============================================================================
