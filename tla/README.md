# Verification of the Hyphen Command Center API

This directory holds TLA+ specifications of the command centre, the TLC
instances that check them, and proofs that TLAPS checks. Every definition is
translated from the TypeScript code in `src/src/`; `PROJECT.json` names the
lines that each definition stands for.

Contents: [the system](#the-system) · [the modules](#the-modules) ·
[the runs](#the-runs) · [fairness](#fairness) · [the proofs](#the-proofs) ·
[findings](#findings) · [what is left out](#what-is-left-out) · [plan](#plan)

## The system

The command centre is an HTTP and MQTT server for field devices that mostly
sleep. Several containers run the same program; they share a PostgreSQL
database (TypeORM), BullMQ queues in Redis, an MQTT broker (AWS IoT), and AWS
IoT itself as the registry of devices and certificates. One container, the
leader, subscribes to the broker; every container works on the queues.

| Component | State | Operations | What is hard | What makes it correct |
|---|---|---|---|---|
| **Command delivery** `services/device-shadow.ts`, `models/deviceconfig.ts`, `controllers/deviceconfig.ts` | a row of `devicesconfig` per command and base (WAITING, RESOLVED, CANCELED); queues `process-device-stream`, `process-device-config-stream`, `processed-pending-config`; a two-second timer per answer | `createConfig`, `update`, `processConfig`, `processDeviceStream`, `processRequest`, `applyPendingConfig`, `sendTimeConfig` | QoS 0 to sleeping devices; answers that are late or come twice; workers that read a row and save it later; crashes; the server hears its own publications | a row is resolved only if its command was executed; settled rows fall silent; the UI is told; a device that stays awake gets its commands; the server does not feed itself |
| **Forward jobs** `device-shadow.ts` 412-432, 550-630 | queue `forward-request`: targets, context, attempts | `processPayloadForwardMessage`, `runForwardJob` | targets that throw before or after they received; a retry that starts afresh; an `add` that is not awaited; stalled jobs | targets reached in order, none skipped, the payload neither forgotten nor multiplied, attempts as the policy says |
| **Forwarder pipeline** `services/forwarder.ts`, `device-shadow.ts` 632-686 | forwarders, templates, decoders, maps, transformers, parameter values; one context object per pass | `processForwarder`, `processMessageForDevice`, `runForwarder`, `pullKeys` | forwarders of a pass share one mutable context; tables read without order, with listed rows that are gone; a forwarder that throws; reruns | no forwarder's job carries another's keys or template; a message is rendered by what was found of its template, in order; the system's pass sees nothing the device's did; one that fails costs the others nothing |
| **Topic patterns** `forwarder.ts` 20-35 | none | `mqttTopicMatch` | wildcards, empty levels | it selects nothing that MQTT would not; what MQTT selects and it does not is a finding |
| **Device certificates** `services/aws.ts`, `models/device.ts`, `controllers/device.ts` | rows of `device` and `certificate`; in AWS a Thing, certificates (active, attached, with policy) | create, rebuild, destroy: `createDevice`, `provisionDeviceCertificate`, `terminateCertificate`, `terminateDevice` | a dozen awaited calls, each may fail, with or without being noticed; requests for one device overlap | the certificate on record works; each failure leaves at most one orphan; the database and AWS agree |
| **Device sensors** `services/sensor.ts`, `models/sensor.ts`, `models/device.ts` 562-639, `device-shadow.ts` 330-357 | rows of `device_sensor`; a command per operation and base; what the device has | `addSensorToDevice`, `removeSensorFromDevice`, `setDevicesApplied` | nothing keeps two operations apart; addresses with gaps and repetitions; waiting commands are published in any order, and again; cancelling one of several, which may have gone; a report replaces all rows, one by one | addresses distinct; a report stored as it came, but for what overlapped it; the device ends up with what the rows say |
| **Firmware builds** `services/imagebuilder.ts`, `models/device.ts` 362-528 and 683-754, `src/build-system/hyphen/server.py` | a directory and a container per build; the archive the script leaves there | `buildSoftwareForDevice`, `runBuildContainer`, `getBuildArtifacts`, `getDevicesForOtaUpdate` | downloads that delete what they serve, and race; clients that go away; containers that exit; a script that raises while it writes the archive | an announced archive is whole; it is deleted only once sent; containers are removed |
| **System start** `services/aws.ts` 28-67 and 240-306, `models/identity.ts`, `index.ts` | rows of `identity` and `certificate`; in AWS a Thing, a policy, certificates | `ensureDefaultIdentity`, `createCertificates`, `ensurePolicyExists`, `connect` | several containers start at once; each call may be the last of its container, and the next start looks only at the first row | whoever is up has a certificate that works; starts do not multiply identities; everyone is up at last |
| **MQTT client, leader election** `mqtt/client.ts`, `services/runner.ts` 61-71 | the subscriptions of a persistent session; the listeners on the elector; whether the elector takes part | `connect`, the handlers of "connect" and "close", `onElected`, `onRevoked` | the handlers await and overlap; the listeners come and go while the elector leads; a lost connection unsubscribes nobody | whoever listens leads; somebody listens again and again |
| **Device cache** `device-shadow.ts` 152-204, `models/device.ts` 756-809 | a copy of each device in Redis, for a day | `deviceFromIdentity`, `createDevice`, `buildCertificateForDevice`, `destroyOne` | a lookup sets the copy after the row has changed; a destroy leaves it | a device created again is not taken for the one it was; what is stale is gone at last |
| Broadcast to the UI `runner.ts` 85-112 | queue `mqtt-message` | `deviceProcessor` | job ids with a resolution of 1 ms | no message is dropped |
| Builder images `services/docker-manager.ts` | images of Docker | `buildRepositoryImage` | - | - |
| Telemetry, secrets, REST controllers | rows that nothing reads back into a decision | insert, query, encrypt | - | - |

How they interact: a message from the broker becomes a job of
`process-device-stream`. Its worker stores the telemetry, applies reports of
sensors (*Device sensors*), settles the row that an answer names and enqueues
the waiting rows of the device (*Command delivery*), and runs the event through
the forwarders (*Forwarder pipeline*, with *Topic patterns*), which hand jobs
to the queue of *Forward jobs*. Adding and removing sensors, rebuilding
certificates and OTA updates send commands through *Command delivery*. What
the server publishes it hears again, because it subscribes to its own bases. All of this
happens only while some container is subscribed, which is the business of the
leader election, and after the system has an identity to connect with, which
is that of its start. The device that a message belongs to comes from the
*Device cache*.

`PROJECT.json` lists the hazards of this code at the line where each one bites,
with the properties that would catch it, or the reason why none does yet.

## The modules

A module per component, an MC module with the values of its constants for TLC,
and a Proofs module. An action is what happens between two awaits that reach
the database, a queue or a service; what happens in memory between two such
points is part of the action. A handler that several workers run has a place
(`pc`, `at`, `stage`) per worker, job or request, so that all interleavings are
explored. In each module a block "Seeded faults" holds variants of definitions
with a plausible bug; no specification uses them: they serve to show that each
property can fail.

**CommandLifecycle** is the abstract specification of a command's row: it is
requested, executed, resolved only when executed, cancelled, notified.

**ConfigDelivery** implements it. `row` is the column `state`; `toPublish` is
what `createConfig` has stored and not published; `cmds` are publications under
way to the device, `inbox` the jobs of `process-device-stream`, `jobs` those of
`process-device-config-stream` (delayed by five seconds), `sender` a
`processConfig` between its test and its publication, `pc`/`msg`/`todo` a
worker in `processDeviceStream`, `timer` the `setTimeout` of `processRequest`,
`ui` the notifications. A message is abstracted to its kind: an answer to a row
(`Result`), the echo of a command the server published itself (`Echo`), a
request for the time, or any other sign of life (`Contact`). The code tells
these apart by tests on the topic, in the order that `HandleResult`,
`HandleTime` and `HandleOther` keep. Only a `Contact`, a `TimeReq` and a
`Result` make the server enqueue the waiting rows. A worker that found a row
WAITING saves it later (`SaveResolved`), over whatever it has become; an
operator's `update` cancels a row in any state. Devices and the broker are
external: publications get lost, a device carries out a command once or more,
and answers. A crash is modelled by its consequences: a stalled job is run
again or dropped, a timer or the rest of a request is forgotten.

**ForwardJob** is one payload on the queue `forward-request`. `at[j]` is the
place of BullMQ job `j`, `attempts` and `stored` its data, `artifact` and `pos`
the run of the loop. The policy of the template is `maxAttempts`, fixed by
`Init`. A target may throw before it was sent, or, over HTTP, after the server
has received it. The response of an HTTP target becomes `ctx.artifacts` whatever
it is; if it is no object (`-i`), `createBodyContext` goes back to the payload of
the device (`BodySource`). `Retry` starts an `add` that nobody awaits: the failed run may
be marked as over, or crash and be run again, before or after its successor is
stored (`AddDone`, `Finish`, `Crash`).

**PayloadDelivery** is what those jobs promise together: targets receive the
payload in the order of their list, no attempt completes before all have it,
and a policy "for ever" never gives up. ForwardJob implements it
(`ImplementsDelivery`).

**ForwardPipeline** is one event on its way through the forwarders of the
device and then of the system. The context is a record of what was done to the
message and by whom, whether the payload is an object by now, and whose keys
and template it carries. What a codec computes is abstracted to that it ran.
`find(In(ids))` returns the listed decoders or transformers that still have a
row: `Enter` takes any part of the list, the others are skipped without an error
and the job is handed over all the same; `found` records which were there.
Patterns and templates are not edited while the event is processed.

**TopicMatch** has the regular expression of `mqttTopicMatch` as a cut of the
topic into runs of levels, and the rules of MQTT as the reference. ForwardPipeline
extends it. **MCTopicMatch** makes it a system for TLC, in which topics arrive and
patterns are edited.

**CertificateOfRecord** is what the requests for one device promise together:
only a certificate that works is put on record, into an empty record; it works
until its termination begins, only then does it leave, and it never comes back.
DeviceCertificates implements it, with `usable` mapped to the certificates that
are active, attached and have the policy (`ImplementsRegistry`).

**DeviceCertificates** is one device identity with its rows and what AWS knows
of it. `pc[r]` is the call that request `r` makes next; each call of
`terminateCertificate` may fail and is passed over, each of
`provisionDeviceCertificate` may throw. AWS is external: it refuses to delete a
certificate that is active or attached, and a Thing that has one. `condemned`,
`faulted`, `raced`, `overlapped` and `failures` are histories for the
properties.

**DeviceSensors** is one device: `rows` of its sensors with the operation each
is by, and `pc[r]`, the call that operation `r` makes next. Operations and
reports overlap and may be cut short (`Die`) anywhere. `commands` has the row of
a command for each base, because `createConfig` stores one per base, one after
the other (`Store`); `sendRemoveToChannel` cancels one that waits, whichever
`findOne` returns (`FindAdd`, `CancelAdd`), and a row waits until it is
answered. How a command reaches the device is ConfigDelivery: here the device
carries out a command that waits at any time and any number of times, in no
order with others, and copies of it may arrive (`air`) after it was answered or
cancelled. `installed` is what the device has. A key `sensor:address:pin` is a
record; `assignUniqueIdentity`, `getPin` and `TooMany` are translated as
operators, their peculiarities included: an address that occurs twice ends the
search, a key of one segment counts as address 1.

Some histories do break what one would wish of the rows, and the code does
nothing against them. The properties name them, as histories that the actions
record where they arise, and are claimed for everything else, overlaps included:

* `tainted`: an add or a report read the rows while another was about to store
  its own, or the device reported an address twice or none. Two such adds take
  the same address. The next report that nothing disturbs ends it.
* `disputed`, a set of keys: operations on one key overlapped; it was added when
  it had a row; it was reported; an operation on it was cut short; an add or a
  remove of it was stored while the device might still carry out the opposite
  command; or several adds of it waited, of which a remove cancels one.
* `last`, `met[r]`: the operation that ended last, and the operations that
  overlapped report `r`, whose rows may be added or missing.

**ArchiveHandover** is what clients are promised of builds and archives: one
outcome per build, an archive that exists and that nothing writes to once it is
announced, and that is deleted, if it has firmware, only after it was sent in
full. BuildArtifacts implements it (`ImplementsHandover`).

**BuildArtifacts** is a number of builds and downloads. `build[b]` is the call
that the request "local-flash" makes next, `container` and `script` what Docker
and `server.py` do meanwhile, `archive` the zip file as it was written. The
script may raise before it packs or while it packs (`PackFails`); what it wrote
stays, and the server asks neither for its answer nor for the exit code. A
download (`get`, `of`, `route`) tests that the file exists, opens it later,
sends it and deletes it, and others do the same. A failure to open it, when
another download was faster, ends an "artifacts" request with an error; for
"ota" nobody listens to the stream's error event, and that ends the process
(`ServerDown`). A request whose client goes away waits for ever (`"stuck"`).

**SystemBoot** is `ensureDefaultIdentity` and the beginning of `connect` in
several containers. `at[c]` is the call that container `c` makes next;
`primaries` and `records` are the rows of "identity" and "certificate", the
other sets what AWS knows. Any call may throw, or the container may die
(`Die`); it starts again and takes any primary row it finds. `maker` and `cut`
are histories: who made an identity, and which identities were left without a
certificate.

**MqttLeader** extends SystemBoot: a container that is up connects.
`handler[c]` holds the calls that the handlers of "connect" and "close" under
way in container `c` make next, because two events are not kept apart by
anything. `bound` counts how often the two listeners are bound, `asked` is what
the MQTT client was last told, which it sends when it is online again, and
`subscribed` what the broker keeps for the session. Of the elector, which is a
library, it is assumed that one container leads at a time, that it emits
"elected" and "revoked" when it wins and loses, and that the claim of a
container that died runs out. Two things about it are left open, and so both
are checked: whether shutting down a leader emits "revoked" (`tells`), and
whether an election may be won before `init` has returned (`eager`).

**DeviceCache** is one device with its row, the copy in Redis, the workers that
look it up and the requests that set it. A row has an id, by which forwarders
and sensors belong to it, and a version for whatever else an update changes.
`age` says whether the day of the copy is over.

Bounds of counters that the code does not bound: `MaxCopies`, `MaxCrashes`
(ConfigDelivery), `Count`, `MaxCrashes` and the number of `Jobs` (ForwardJob),
`MaxRuns` (ForwardPipeline), `MaxInFlight`, `MaxFailures`
(DeviceCertificates), `MaxInFlight`, `MaxDeaths` (DeviceSensors), `MaxFailures`
(BuildArtifacts), `MaxTopic`, `MaxPattern` (TopicMatch), `MaxDeaths`
(SystemBoot), `MaxCloses`, `MaxBound` and the number of `Handlers`
(MqttLeader), `MaxRows`, `MaxFailures` (DeviceCache).

## The runs

| Run | Question | Instance |
|---|---|---|
| `delivery_races` | Does anything precede its cause, and does each row do only what CommandLifecycle promises? Do racing workers tell the UI more than once each, or publish a settled row anew? | one command, two workers, two senders, two copies of every message and job, one crash |
| `delivery_liveness` | Does a device that stays awake get its command, does the UI hear of it, and does the server come to rest when every device is gone? | one command, all kinds of messages, one crash, `FairSpec` |
| `forward_delivery` | Do the jobs of a payload do what PayloadDelivery promises? Is it neither forgotten nor multiplied, are attempts bounded, bodies rendered from the right response, or from the payload if that is no object? Does a finite policy end, and does "for ever" (-1) reach every target? | an HTTP and an MQTT target, policies 0 and -1, one crash, three job identifiers, `FairSpec` |
| `forward_resend` | *violation*: is a target "removed once processed"? | two targets, policy 1 |
| `forward_pipeline` | Does every job carry its own keys and template, does one failure spare the others, is the system's pass untouched? Is a message rendered last by what was found of its own pipeline, in order, and does MQTT too select its topic? | two forwarders of the device, one of the system, decoders, a map, a transformer, a condition, one rerun |
| `topic_match` | *violation*: are `+` and `#` supported "per MQTT rules"? | all topics and patterns of up to three levels over two names, empty levels and the wildcards |
| `certificates_overlap` | Does the certificate on record work, does the record do only what CertificateOfRecord promises, how many orphans are there, do the database and AWS agree? | four requests, three at a time, one failure |
| `certificates_thing` | *violation*: is a destroy a "FULL THING + CERT DESTRUCTION"? | two requests, one failure |
| `device_sensors` | Are addresses distinct, is a report stored as it came but for what overlapped it, does the device end up with the sensors that have rows, in whatever order it carries out its commands? | three operations, two at a time, on an SDI-12 sensor and a battery with a pin, two bases, two possible reports (one with an unknown sensor, one without an address), one death |
| `build_artifacts` | Is an announced archive whole, is it handed over as ArchiveHandover promises and deleted only once it was sent in full, are containers removed? Does every request end, and is what was packed announced at last? | two builds, two downloads by either route, two failures, `FairSpec` |
| `system_start` | Has whoever is up a certificate that works, does one container make one identity, does whoever listens lead? Is every container up at last, and does somebody listen again and again? | two containers, two handlers each, one lost connection, one death or failing call, `FairSystemSpec` |
| `device_cache` | Is a device that was created again ever taken for the one it was? Is what is stale gone at last? | one device with two rows one after the other and two versions, two lookups, two requests, one failure, `FairSpec` |

Why the bounds are enough. The races of ConfigDelivery are between two workers
over one row (the test in `processRequest` and its save), between two senders
over one row, and between a row's cancel and either; two copies let a message
or job arrive twice while the first is under way. Rows of two commands do not
share state except through the list a worker reads; that, and a second base
with a row its device never hears of, is within the theorems, which hold for
any number of commands, devices and bases. In ForwardJob a retry starts from
the beginning, so two targets show a failure before, at and behind a target,
and an artifact that travels from one to the next; policy 0 allows one retry
and shows the step from allowed to exhausted, -1 never comes to it; three
identifiers are enough for the jobs that one crash and two attempts can have
alive. The safety properties of this run are proved for every list and policy.
In DeviceCertificates three overlapping requests include each pair of
operations with a third that has changed the ground under both. Of two
downloads of one build one deletes, while the other has the file open or comes
too late; the safety properties are proved for every number. The topics and
patterns of three levels include each wildcard
at the start, in the middle and at the end; that the expression selects nothing
else than MQTT is proved for any length. Three operations on sensors, two at a
time, are an add, a remove or a report that overlaps another and a third that
finds what they left, among it a gap in the addresses, a command that waits and
one that is cancelled while it is under way; two bases leave an add waiting
whose other row was cancelled. The properties of this run are proved for any
number of operations, bases and interruptions, and without a bound on overlaps. Two containers are enough for a
first start that finds the other's half-made identity, and for an election that
passes from one to the other and back; two handlers are a "close" that is not
over when the "connect" after it begins; a container binds its listeners a
second time only if two of its "connect" handlers overlap, and `MaxBound` stops
at two because an unbinding takes one away and a single listener is heard. Two
rows of a device are the one it was and the one it is; a lookup and a request
of each can be under way with the old one. The safety properties of both runs
are proved for every number of each.

`CHECK_DEADLOCK FALSE` stands where the system may stop: ConfigDelivery when
every device is gone and every row settled, ForwardPipeline when the event has
ended, DeviceSensors and BuildArtifacts when all requests have; in MqttLeader when every
container is up and has lost its connections, and in DeviceCache, nothing need
happen any more. The others have an action
`Idle`, so that a stop anywhere else would be reported.

Each property of a passing run has a mutant in `PROJECT.json`: a definition, and
the seeded fault that TLC must find with it.

## Fairness

ConfigDelivery: every step of a live container is weakly fair, because an await
ends; taking a job is strongly fair per message or row, because BullMQ gives
each job its turn among others that keep coming; a device that is awake again
and again says something at last (it sends heartbeats), a publication repeated
for ever gets through at last, and so does an answer. Nothing makes an operator act, a
device wake up, or a crash happen. `Delivered` is about devices that stay awake
from some point on, and `NoFeedbackLoop` about the time after every device has
gone.

ForwardJob: jobs take their steps (weak fairness). `Ends` needs no more: the
targets may throw for ever. `ReachedAtLast` has its own condition, `Answering`:
a target that is tried for ever answers at last (strong fairness of its
sending, by whichever job).

MqttLeader: a container that ended is started again and each call of its start
ends; the client reconnects (`reconnectPeriod`); the calls of a handler end,
well or badly; an election that can be won is won by someone; the claim of a
dead leader runs out. No container need die, lose its connection or lose an
election. `ComesUp` and `SomebodyListens` name what they cannot overcome: a
first start that was cut short, an elector that has thrown, or shutdowns that
took effect too late in every container.

DeviceCache: calls that have begun end, and so does a day. Nothing makes a
message come or an operator act; `ServedAtLast` is about a row that stays as it
is from some point on.

BuildArtifacts: the calls of a request "local-flash" end, and so does the
script, unless its container exits. Nobody need ask for a build or an archive,
and no client need stay. `BuildsEnd` excepts, of its second half, the requests
one of whose calls threw or whose server died.

## The proofs

All theorems hold for all values of the constants that satisfy the module's
named assumption (types of the constants, in ConfigDelivery that the workers are
finitely many, and in ForwardJob that `Count` leaves room for every attempt).
No theorem has a hypothesis besides.

| Module | Theorem | Argument |
|---|---|---|
| ConfigDeliveryProofs | `TypeCorrect`, `CausalityHolds`, `ResolutionIsHonest` | `TypeOK /\ Causality` is inductive. `ResolvedOnlyIfExecuted` alone is not: that a row about to be saved was executed is known only because the answer in the worker's hands, and before it in the inbox, came from an execution, so the invariant follows the evidence along the whole way. |
| | `SettledRowsFallSilent` | an action property from the same invariant: one lemma per action shows that a settled row gains no sender and no place in `toPublish`. |
| | `DeliveryImplementsLifecycle` | a refinement: `notified` is mapped to the rows with a notification; every action maps to an action of CommandLifecycle or to a stutter. `Causality` gives the guards of `Resolve` and `Notify`. |
| | `FewNotifications` | inductive is the sum of timers, notifications and workers about to save a row (`Load`): a worker joins them only while the row is WAITING, and then `Causality` says that timers and notifications are none. |
| | `ResolutionsAreTold` | the safety half of `ToldUnlessCrash`: only a save resolves a row and it starts a timer, only a crash loses one. |
| ForwardJobProofs | `TypeCorrect`, `OrderHolds`, `CompletionHolds` | inductive is that a job that is to send target `i` has behind it targets that have all received the payload; receipts never shrink, so runs of other jobs and retries do not disturb it. |
| | `BoundHolds` | inductive is that a job counts at most `maxAttempts + 1` attempts while it is queued or running, and at most `maxAttempts` when it goes on to retry. |
| | `NothingForgotten`, `OneAtATime` | both rest on the jobs at work, which leave out a run about to be marked over: a run that ends hands its place to one successor, and only a crash brings a job back beside its successor. |
| | `RenderingHolds` | inductive with what a run in its first attempt holds: the response of the last HTTP target it has passed, if it was an object (`objects`), and otherwise one that `BodySource` passes over. |
| | `JobsImplementDelivery` | a refinement, from `OrderHolds` and `CompletionHolds`: every action maps to one of PayloadDelivery or to a stutter. |
| ForwardPipelineProofs | `TypeCorrect`, `JobsCarryTheirOwn`, `SystemJobsUntouched` | inductive with what the context looks like while a forwarder runs: its keys are the forwarder's, its template too once it is read, and in the system's pass only forwarders of the system have touched the message. |
| | `NobodyPassedOver` | inductive is that a forwarder that matched waits for its turn, is at work, was dropped or has its job of this run (`Accounted`). |
| | `RenderedLastAndInOrder` | inductive is what each stage has done to the message so far (`RInv`): the work of the forwarder at hand is the end of the message, it is without repetition, it is what was found in the stages so far, and what is still to be done comes later in the order of the stages. |
| | `NobodyElseGetsIt` | inductive is that a forwarder that waits or is at work was selected; with `SelectsAsMqtt`. |
| ForwardPipelineProofs (TopicMatch) | `SelectsAsMqtt` | by cuts: a cut of the topic that the expression accepts gives each wildcard `+` one level and each name its own (`CutIsMqtt`), and conversely (`MqttIsCut`), unless a wildcard stands for nothing (`NothingEmpty`, the deviation that `topic_match` shows). Where one would use induction over the levels, the least level at which a cut departs is taken (`MinimalNat`, from the well-foundedness of the naturals). |
| DeviceCertificatesProofs | `TypeCorrect`, `RecordWorks` | inductive with four facts: a termination touches only condemned certificates; one being provisioned is active, not condemned and not on record; it has what the calls so far gave it; two requests never provision the same one. |
| | `OrphansCounted` | by counting: an active certificate that no request holds and that is not on record, or was given up half terminated (`Loose`), is paid for by one failure or one request that lost a race. A deactivation that fails is counted when it fails, and the record goes later; that is why `OrphansBounded` alone is not inductive. |
| | `DatabaseAgrees` | inductive is that without overlaps one request at most is in flight, and what its place says of record, Thing and certificates (`Midway`). |
| | `RequestsImplementRegistry` | a refinement, from `RecordWorks` and the facts above: each call of a termination spoils a condemned certificate, only the last call of a provisioning makes one usable, and every other step is a stutter. |
| DeviceSensorsProofs | `TypeCorrect` | with what the place of each operation implies (`Housekept`): what it holds between two calls, what it has met, which commands it has stored. |
| | `AddressesStayDistinct` | inductive is `Undisturbed`, for as long as nothing is tainted: one operation at most is about to store, the address an add has chosen is free, the keys a report stores have addresses of their own. That `FirstGap` is an address no row has, for any finite set of rows, is a pigeonhole argument (`GapExists`). |
| | `ReportsStored` | inductive is how far each report has come (`ReportedSoFar`): every row is of its keys or of an operation it has met, and each key it is through with has a row, unless an operation it has met took it. |
| | `DevicesStayAgreed` | inductive is, for each key that is not disputed, that one operation at most is at work on it, that what the device may still carry out is not contradictory and agrees with what it has, and how far that operation is (`Agreed`, `At`). A command that was stored is answered only after it was carried out, so that a key with nothing outstanding is settled. |
| MqttLeaderProofs (SystemBoot) | `TypeCorrect`, `StartsCertified`, `OneIdentityPerContainer` | inductive is what the place of a container vouches for (`Vouched`: what the calls before it have made of its identity), and that one about to save an identity has made none before (`FirstSave`). |
| MqttLeaderProofs | `LeaderTypeCorrect`, `LeaderAloneListens` | `OnlyLeaderListens` is not inductive: what a client is asked for offline takes effect later. The invariant says that session and client agree while online (`InStep`), that a client was last asked to subscribe only while its elector leads and is heard (`Honest`), and that the shutdown of a first connection, for which there is no exception, strikes an elector that cannot lead yet (`FirstConnection`). |
| | `SystemCertified`, `SystemIdentities` | every step of the composition is a step of SystemBoot or leaves its variables alone, so that its theorems carry over. |
| | `LeaderIsServed` | the converse (`LeaderListens`): an elector takes part only while its listeners are bound, because the shutdown that unbinds them also takes it out; who wins is heard, and keeps what it asked for while it leads (`Charged`). |
| | `OnlyCutStartsLeaveNoCertificate` | an identity without a certificate belongs to a start under way or to one that was cut short (`CertifiedUnlessCut`), over all steps of the composed system. |
| DeviceCacheProofs | `TypeCorrect`, `CopyIsOfThisRow` | inductive with the rows that lookups and requests under way have in their hands: unless something was under way when the row before was destroyed, each of them has this row. |
| | `NoStaleCopyReturns` | an action property (`StaysFresh`), the safety half of `ServedAtLast`: while the row stays, every step keeps the copies that are there or makes one of the row. |
| BuildArtifactsProofs | `TypeCorrect`, `CompleteIsWhole`, `NoArchiveLost`, `NoContainerLeft` | inductive is how far script, container and archive of a build can be at each call of its request (`InStep`: an archive is never partial once the script is over, unless the container exited or the script raised), and that a download has a file before it and has sent it before it deletes it (`Served`). |
| | `NoWorkLost` | the safety half of `BuildsEnd`: a script runs only while its request awaits it or after that has thrown (`Promised`), so that an archive finds a request to announce it. |
| | `BuildsImplementHandover` | a refinement: `told` is mapped to the outcome of a request; `InStep` says that nothing writes to an archive that has been announced, and `Served` that a download which deletes it has sent it. |

Every safety property, action property and refinement that a passing run checks
is a theorem. Only model-checked is liveness, because the prover has no rule
for fairness that reaches it:
`Delivered`, `ToldUnlessCrash`, `NoFeedbackLoop`, `Ends`, `ReachedAtLast`,
`BuildsEnd`, `ComesUp`, `SomebodyListens` and `ServedAtLast`. What can be said
of some of them without fairness is proved: that the exception they make or the
state they wait for has no other cause (`ResolutionsAreTold`, `NoWorkLost`,
`OnlyCutStartsLeaveNoCertificate`, `LeaderIsServed`, `NoStaleCopyReturns`). TLC
checked `ResolvedIsTold`, `PackedIsTold`, `CertifiedUnlessCut`, `LeaderListens`
and `StaysFresh` on the instances of their modules' runs before they were
proved. The three violations are TLC's.
The type invariants of ConfigDelivery, ForwardJob, SystemBoot, MqttLeader,
DeviceCache, DeviceCertificates, ForwardPipeline and BuildArtifacts are proved
and need no run; that of DeviceSensors has both, because it says which sensors the
table may hold.

## Findings

* **A retry sends processed targets again** (`forward_resend`).
  `data.targets.unshift()` (`device-shadow.ts:592`) is meant to remove the
  target; without an argument it changes nothing.
* **A destroy may leave the Thing** (`certificates_thing`). `terminateDevice`
  returns when there is no certificate record (`aws.ts:79`), and a failed
  provisioning leaves a Thing without one.
* **Patterns do not follow the rules of MQTT** (`topic_match`). The comment at
  `forwarder.ts:21` says "supports + and # per MQTT rules". `+` becomes `[^/]+`
  and `#` becomes `.+` (`forwarder.ts:29`), so that `Hy/#` does not select `Hy`,
  and no wildcard stands for an empty level. The deviation goes one way only:
  what the expression selects for a valid filter MQTT selects too
  (`OnlyMqttSelects`), and `SelectsAsMqtt` proves that there is no other.

Of the start and the leader election, each named by an exception in a property:

* A first start that is cut short between saving the identity and storing its
  certificate leaves an identity that never gets one. Every later start that
  finds it ends with "No certificate found for identity" (`aws.ts:36`,
  `cut` in `ComesUp`). Two first starts at once are enough for it, because the
  slower `createPolicy` throws (`aws.ts:282`). A Thing that the certificate was
  not attached to is never repaired either (`aws.ts:54`), which does not keep
  the container from connecting.
* The listeners are bound after `init` (`client.ts:81`): an election won
  meanwhile subscribes nobody (`eager` in `SomebodyListens`).
* The shutdown of a "close" is not awaited by the "connect" that follows
  (`client.ts:99`): if it takes effect after that one's `init`, the container
  is out of the election until its next reconnection (`late`).
* A shutdown that throws (`client.ts:62`) leaves an elector that may lead while
  its listeners are rebound (`troubled`): it neither subscribes nor
  unsubscribes.
* If shutting down does not emit "revoked", a container that loses its
  connection resumes its session with the subscriptions of the leader it was
  (`~tells` in `OnlyLeaderListens`, `client.ts:95`).

Of the sensors, each named by an exception in a property:

* Two adds that overlap read the same rows and take the same address
  (`sensor.ts:41`, `tainted`).
* "First, cancel any existing addDevice requests for this key"
  (`sensor.ts:105`) cancels one (`findOne`); with two bases the add of the other
  goes on waiting, and the device may carry it out after the remove (`disputed`).
* An add cancels no remove that waits, and `applyPendingConfig` publishes waiting
  rows in no order: a sensor that is removed and added again while the device
  sleeps may end up with a row and without the sensor (`disputed`).
* A report that is cut short has deleted the rows and stored only some
  (`device-shadow.ts:344`, `last = Nobody`).

Seen while modelling, and without a run of their own: an incomplete archive is
announced as "Build complete" when the script raises while it writes it, for
instance on a full disk (`server.py:159`), because nobody asks for the answer or
the exit code (`imagebuilder.ts:165`, `raised` in `AnnouncedIsWhole`); a listed
decoder or transformer whose row is gone is skipped, and the job is sent as if it
had run (`forwarder.ts:248`); a policy of `maxAttempts` n makes n + 2 attempts
(`device-shadow.ts:603`, `RunsBounded`); an address that occurs twice makes
`assignUniqueIdentity` assign one that is in use (`sensor.ts:41`); a device
gets one sensor more than the maximum of its type, because the count before the
new one is compared with `>` (`sensor.ts:160`, `TooMany`); a failed compilation
is announced as "Build complete", with an archive that lacks the firmware
(`server.py:147`, `Compile`).

## What is left out

* The contents of payloads, templates, conditions and maps: no property depends
  on them. Parsing of topics, except in TopicMatch.
* Time: the five and two seconds are "later".
* Telemetry, encryption and the generated REST operations: they store and
  return values and take no decision.
* A cancel that is overwritten by an answer in flight is permitted by
  CommandLifecycle, as the code does it; growth of the delayed queue cannot be
  seen with bounded copies.
* Rebuilds of several devices at once (a sequence of rebuilds of one); the raw
  `/publish` endpoint.
* The token of an OTA command, which is valid for 15 minutes and waits for the
  device like any command (`models/device.ts:343`): time is not modelled.
* Forwarders, templates and patterns that are edited while an event is on its
  way, except that rows of decoders, transformers, maps and templates may be gone.
* Forwarders that forward what they sent themselves: the topics that operators
  configure decide on it, and no step of the code.
* The broadcast queue: a job is added and read by another program. Its job id
  holds the time in ms, so that two messages of a topic within a millisecond
  become one job (`runner.ts:80`).
* Builder images: one call of Docker per repository at every start, whose
  result nothing here reads.
* Decoders looked up by name or id are cached for an hour (`models/decoder.ts`),
  but only the check of a name in the editor uses it; forwarders read them from
  the database.

## Plan

Done, in this order, the most important behaviour first: CommandLifecycle and
ConfigDelivery; ForwardJob; DeviceCertificates; ForwardPipeline with
TopicMatch; DeviceSensors; BuildArtifacts; SystemBoot and MqttLeader, which
composes the start of the containers with the election; DeviceCache;
the abstract specifications PayloadDelivery, CertificateOfRecord and
ArchiveHandover with their refinements; the proofs listed above, of every safety
property that is checked.

What would come next: how far a device and its rows may be apart after a disputed
operation on a sensor, and until when; a bound on the publications that follow one sign of life, as the safety half of
`NoFeedbackLoop`; MqttLeader with the code of LeaderElector in place of what is
assumed of it.
