---------------------------- MODULE DeviceSensors ----------------------------
(***************************************************************************)
(* The sensors of one device (services/sensor.ts, models/sensor.ts, the    *)
(* sensor operations of models/device.ts, setDevicesApplied in             *)
(* services/device-shadow.ts): the rows of the table "device_sensor", the  *)
(* commands that tell the device to add and remove sensors, and what the   *)
(* device makes of them.                                                   *)
(*                                                                         *)
(* An operator adds and removes sensors; a report of the device replaces   *)
(* all rows.  Each is a chain of awaited calls, and nothing keeps two of   *)
(* them apart.  How a command reaches the device is ConfigDelivery: here   *)
(* one that waits may be carried out at any time and any number of times,  *)
(* in no order with others, and copies of it may arrive even after it was  *)
(* answered or canceled.                                                   *)
(***************************************************************************)
EXTENDS Integers, FiniteSets, Sequences

CONSTANTS
  Requests,    \* operations of operators, and reports
  Nobody,      \* no request
  Sensors,     \* rows of the table "sensor"
  TypeOf,      \* sensor -> its type
  RuleOf,      \* type -> the sensor whose limits apply: the first found
  MaxOf,       \* sensor -> how many a device may have (0: any number)
  PinsOf,      \* sensor -> the sequence of its pins
  Reports,     \* the sets of keys that the device may report
  Bases,       \* topics the server subscribes to: a command is a row for each
  MaxInFlight, \* bound: how many operations overlap
  MaxDeaths    \* bound: operations cut short

\* A key "sensor:address:pin", where address and pin may be missing.
None == -1
NoPin == ""
Keys == [sensor : STRING, address : {None} \cup Nat, pin : STRING]
Key(s, a, p) == [sensor |-> s, address |-> a, pin |-> p]
NoKey == Key("", None, NoPin)
SDI == "sdi-12"

ASSUME SensorsAssumption ==
  /\ Sensors \subseteq STRING
  /\ TypeOf \in [Sensors -> DOMAIN RuleOf]
  /\ \A t \in DOMAIN RuleOf : RuleOf[t] \in Sensors /\ TypeOf[RuleOf[t]] = t
  /\ MaxOf \in [Sensors -> Nat] /\ PinsOf \in [Sensors -> Seq(STRING)]
  /\ Reports \subseteq SUBSET Keys /\ NoPin \in STRING
  /\ Nobody \notin Requests
  /\ Bases \in Nat \ {0} /\ MaxInFlight \in Nat /\ MaxDeaths \in Nat

VARIABLES
  rows,      \* rows of "device_sensor": their key and the operation they are by
  op, pc,    \* each operation: what it does, where it is,
  key,       \* the key it works on,
  chosen,    \* the row it has read and will remove (a set),
  found,     \* the command it has read and will cancel (a set),
  left,      \* the reported keys it has not applied
  commands,  \* <<request, base>> -> the state of the row of its command
  ran,       \* commands that wait though the device has carried them out, and
  air,       \* commands of which copies are under way though they do not wait
  installed, \* the keys of the sensors that the device has
  report, met, last, tainted, disputed,  \* history, see below
  deaths

vars == <<rows, op, pc, key, chosen, found, left, commands, ran, air, installed,
          report, met, last, tainted, disputed, deaths>>

InFlight == {r \in Requests : pc[r] \notin {"idle", "done"}}

\* The commands stored for a key, and those that the device may still carry out.
Ids == Requests \X (1 .. Bases)
CommandsOf(kind, k) ==
  {i \in Ids : commands[i] # "none" /\ op[i[1]] = kind /\ key[i[1]] = k}
Outstanding(kind, k) ==
  {i \in CommandsOf(kind, k) : commands[i] = "waiting" \/ i \in air}

HasRow(k) == \E c \in rows : c.key = k

-----------------------------------------------------------------------------
(***************************************************************************)
(* Seeded faults: what a plausible mistake would make of the definitions   *)
(* that follow.  No specification uses them.                               *)
(***************************************************************************)

\* the number of sensors is taken for a free address
CountOfSensors(current) == Cardinality(current)
\* the report is added to what is there
RowsKept == rows
\* any key is stored
AnySensor(k) == TRUE
\* the request that is canceled is one that was answered already
AnsweredAlready(k) == {i \in CommandsOf("add", k) : commands[i] = "resolved"}
-----------------------------------------------------------------------------
(* SensorTypeRules: the key of a new sensor *)

\* Ids in ascending order, from 0: the first place where the list does not
\* hold its own position.  An id that occurs twice ends the search as well.
Unbroken(current, n) ==
  /\ \E c \in current : c.key.address = n
  /\ n > 0 => Cardinality({c \in current : c.key.address = n - 1}) = 1
FirstGap(current) ==
  CHOOSE n \in 0 .. Cardinality(current) :
    ~Unbroken(current, n) /\ \A m \in 0 .. n - 1 : Unbroken(current, m)

\* A key of one segment stops the search at "1".
assignUniqueIdentity(current) ==
  IF \E c \in current : c.key.address = None /\ c.key.pin = NoPin THEN 1 ELSE FirstGap(current)

\* A pin counts as used only in the third segment of a key.
UsedPins(current) == {c.key.pin : c \in {d \in current : d.key.address # None}}

\* The first of the sensor's pins that is not used.
getPin(s, current) ==
  LET free == {i \in DOMAIN PinsOf[s] : PinsOf[s][i] \notin UsedPins(current)}
  IN  IF free = {} THEN NoPin
      ELSE PinsOf[s][CHOOSE i \in free : \A j \in free : i <= j]

OfType(t) == {c \in rows : TypeOf[c.key.sensor] = t}

\* The limit of the type's first sensor, whatever sensor is being added; the new
\* one is not counted.
TooMany(t) == MaxOf[RuleOf[t]] > 0 /\ Cardinality(OfType(t)) > MaxOf[RuleOf[t]]

build(s) ==
  LET t == TypeOf[s] IN
    Key(s, IF t = SDI THEN assignUniqueIdentity(OfType(t)) ELSE None,
        getPin(RuleOf[t], OfType(t)))

-----------------------------------------------------------------------------
(***************************************************************************)
(* History.  A run of operations that overlap, or that contradict each     *)
(* other while the device sleeps, may well leave addresses that are used   *)
(* twice, or a device that disagrees with the rows.  These say which.      *)
(***************************************************************************)

\* Operations that have read the rows and not stored their own yet.
Storing == {r \in Requests : pc[r] \in {"saveRow", "applySync", "saveSync"}}

\* SDI-12 sensors that are reported at distinct addresses.
Bused(k) == k.sensor \in Sensors /\ TypeOf[k.sensor] = SDI
Addressed(keys) ==
  /\ \A k \in keys : Bused(k) => k.address \in Nat
  /\ \A k, l \in keys : Bused(k) /\ Bused(l) /\ k.address = l.address => k = l

\* An operation on k is under way.
Busy(k) == \E r \in InFlight : key[r] = k

-----------------------------------------------------------------------------
Init ==
  /\ rows = {} /\ installed = {}
  /\ op = [r \in Requests |-> "none"] /\ pc = [r \in Requests |-> "idle"]
  /\ key = [r \in Requests |-> NoKey]
  /\ chosen = [r \in Requests |-> {}] /\ found = [r \in Requests |-> {}]
  /\ left = [r \in Requests |-> {}]
  /\ commands = [i \in Ids |-> "none"] /\ ran = {} /\ air = {}
  /\ report = [r \in Requests |-> {}] /\ met = [r \in Requests |-> {}]
  /\ last = Nobody /\ tainted = FALSE /\ disputed = {}
  /\ deaths = 0

Goto(r, place) ==
  /\ pc' = [pc EXCEPT ![r] = place]
  /\ last' = IF place = "done" THEN r ELSE last

\* met: which operations overlapped a report.
Begin(r, what) ==
  /\ pc[r] = "idle"
  /\ Cardinality(InFlight) < MaxInFlight
  /\ op' = [op EXCEPT ![r] = what]
  /\ met' = [q \in Requests |->
               IF q = r /\ what = "sync" THEN InFlight
               ELSE IF q \in InFlight /\ op[q] = "sync" THEN met[q] \cup {r} ELSE met[q]]
  /\ UNCHANGED <<commands, ran, air, installed, deaths>>

\* addSensorToDevice builds the key from the rows it reads, or throws.  Tainted:
\* another operation was about to store.  Disputed: a key that has a row already,
\* or that another operation is at work on.
Add(r, s) ==
  /\ Begin(r, "add")
  /\ \/ /\ TooMany(TypeOf[s])
        /\ Goto(r, "done")
        /\ UNCHANGED <<key, tainted, disputed>>
     \/ /\ ~TooMany(TypeOf[s])
        /\ Goto(r, "saveRow")
        /\ key' = [key EXCEPT ![r] = build(s)]
        /\ tainted' = (tainted \/ Storing # {})
        /\ disputed' = disputed \cup {k \in {build(s)} : HasRow(k) \/ Busy(k)}
  /\ UNCHANGED <<rows, chosen, found, left, report>>

SaveRow(r) ==
  /\ pc[r] = "saveRow"
  /\ rows' = rows \cup {[by |-> r, key |-> key[r]]}
  /\ Goto(r, "sendAdd")
  /\ UNCHANGED <<op, key, chosen, found, left, commands, ran, air, installed, report, met,
                 tainted, disputed, deaths>>

\* createConfig stores a row for one base after the other.  Disputed: the command
\* may be carried out before the opposite one that was stored before it.
Store(r, opposite) ==
  \E b \in 1 .. Bases :
    /\ commands[<<r, b>>] = "none" /\ \A a \in 1 .. b - 1 : commands[<<r, a>>] # "none"
    /\ commands' = [commands EXCEPT ![<<r, b>>] = "waiting"]
    /\ Goto(r, IF b = Bases THEN "done" ELSE pc[r])
    /\ disputed' = IF opposite = {} THEN disputed ELSE disputed \cup {key[r]}
    /\ UNCHANGED <<rows, op, key, chosen, found, left, ran, air, installed, report, met,
                   tainted, deaths>>

\* An add cancels nothing: a remove that waits goes on waiting.
SendAdd(r) ==
  /\ pc[r] = "sendAdd"
  /\ Store(r, Outstanding("remove", key[r]))

\* removeSensorFromDevice reads the rows with the key and takes the last.
Remove(r, c) ==
  /\ Begin(r, "remove")
  /\ key' = [key EXCEPT ![r] = c.key]
  /\ chosen' = [chosen EXCEPT ![r] = {c}]
  /\ Goto(r, "removeRow")
  /\ disputed' = disputed \cup {k \in {c.key} : Busy(k)}
  /\ UNCHANGED <<rows, found, left, report, tainted>>

RemoveRow(r) ==
  /\ pc[r] = "removeRow"
  /\ rows' = rows \ chosen[r]
  /\ chosen' = [chosen EXCEPT ![r] = {}]
  /\ Goto(r, "findAdd")
  /\ UNCHANGED <<op, key, found, left, commands, ran, air, installed, report, met,
                 tainted, disputed, deaths>>

\* sendRemoveToChannel looks for one addDevice request that waits.  Disputed: there
\* are more of them, and they go on waiting.
AddWaiting(k) == {i \in CommandsOf("add", k) : commands[i] = "waiting"}

FindAdd(r) ==
  /\ pc[r] = "findAdd"
  /\ LET waiting == AddWaiting(key[r]) IN
       /\ \E one \in SUBSET waiting :
            /\ Cardinality(one) = IF waiting = {} THEN 0 ELSE 1
            /\ found' = [found EXCEPT ![r] = one]
            /\ disputed' = IF waiting = one THEN disputed ELSE disputed \cup {key[r]}
  /\ Goto(r, "cancelAdd")
  /\ UNCHANGED <<rows, op, key, chosen, left, commands, ran, air, installed, report, met,
                 tainted, deaths>>

\* It is saved as canceled, whatever became of it meanwhile.
CancelAdd(r) ==
  /\ pc[r] = "cancelAdd"
  /\ commands' = [i \in Ids |-> IF i \in found[r] THEN "canceled" ELSE commands[i]]
  /\ ran' = ran \ found[r]
  /\ \E copies \in SUBSET found[r] : air' = air \cup copies
  /\ found' = [found EXCEPT ![r] = {}]
  /\ Goto(r, "sendRemove")
  /\ UNCHANGED <<rows, op, key, chosen, left, installed, report, met, tainted,
                 disputed, deaths>>

SendRemove(r) ==
  /\ pc[r] = "sendRemove"
  /\ Store(r, Outstanding("add", key[r]) \cap air)

\* What a report leaves of the rows.
RowsLeft == {}

\* setDevicesApplied deletes the rows of the device, then applies each key.
Sync(r, keys) ==
  /\ Begin(r, "sync")
  /\ rows' = RowsLeft
  /\ left' = [left EXCEPT ![r] = keys]
  /\ Goto(r, "applySync")
  /\ report' = [report EXCEPT ![r] = keys]
  /\ tainted' = (Storing # {} \/ ~Addressed(keys))
  /\ disputed' = disputed \cup {c.key : c \in rows} \cup keys
  /\ UNCHANGED <<key, chosen, found>>

\* Does the key name a sensor?
Known(k) == k.sensor \in Sensors

\* applyDeviceSync passes over a key that has a row or names no sensor.
ApplySync(r, k) ==
  /\ pc[r] = "applySync"
  /\ k \in left[r]
  /\ left' = [left EXCEPT ![r] = @ \ {k}]
  /\ IF HasRow(k) \/ ~Known(k)
       THEN UNCHANGED <<key, pc, last>>
       ELSE key' = [key EXCEPT ![r] = k] /\ Goto(r, "saveSync")
  /\ UNCHANGED <<rows, op, chosen, found, commands, ran, air, installed, report, met, tainted,
                 disputed, deaths>>

SaveSync(r) ==
  /\ pc[r] = "saveSync"
  /\ rows' = rows \cup {[by |-> r, key |-> key[r]]}
  /\ Goto(r, "applySync")
  /\ UNCHANGED <<op, key, chosen, found, left, commands, ran, air, installed, report, met,
                 tainted, disputed, deaths>>

EndSync(r) ==
  /\ pc[r] = "applySync"
  /\ left[r] = {}
  /\ Goto(r, "done")
  /\ UNCHANGED <<rows, op, key, chosen, found, left, commands, ran, air, installed, report,
                 met, tainted, disputed, deaths>>

\* A call throws, or the container dies under the operation.
Die(r) ==
  /\ r \in InFlight
  /\ deaths < MaxDeaths
  /\ deaths' = deaths + 1
  /\ pc' = [pc EXCEPT ![r] = "done"]
  /\ last' = Nobody
  /\ disputed' = disputed \cup {key[r]}
  /\ chosen' = [chosen EXCEPT ![r] = {}]
  /\ found' = [found EXCEPT ![r] = {}]
  /\ left' = [left EXCEPT ![r] = {}]
  /\ UNCHANGED <<rows, op, key, commands, ran, air, installed, report,
                 met, tainted>>

\* The device carries out a command that waits, or a copy that was under way.
Execute(i) ==
  /\ commands[i] = "waiting" \/ i \in air
  /\ installed' = IF op[i[1]] = "add" THEN installed \cup {key[i[1]]}
                                      ELSE installed \ {key[i[1]]}
  /\ ran' = IF commands[i] = "waiting" THEN ran \cup {i} ELSE ran
  /\ UNCHANGED <<rows, op, pc, key, chosen, found, left, commands, air, report, met, last,
                 tainted, disputed, deaths>>

\* Its answer arrives; a copy may still be under way.
Answer(i) ==
  /\ commands[i] = "waiting" /\ i \in ran
  /\ commands' = [commands EXCEPT ![i] = "resolved"]
  /\ ran' = ran \ {i}
  /\ air' \in {air, air \cup {i}}
  /\ UNCHANGED <<rows, op, pc, key, chosen, found, left, installed, report, met, last,
                 tainted, disputed, deaths>>

\* The last copy has arrived or is lost.
Lapse(i) ==
  /\ i \in air
  /\ air' = air \ {i}
  /\ UNCHANGED <<rows, op, pc, key, chosen, found, left, commands, ran, installed, report, met,
                 last, tainted, disputed, deaths>>

Step(r) ==
  \/ \E s \in Sensors : Add(r, s)
  \/ SaveRow(r) \/ SendAdd(r)
  \/ \E c \in rows : Remove(r, c)
  \/ RemoveRow(r) \/ FindAdd(r) \/ CancelAdd(r) \/ SendRemove(r)
  \/ \E keys \in Reports : Sync(r, keys)
  \/ \E k \in left[r] : ApplySync(r, k)
  \/ SaveSync(r) \/ EndSync(r)
  \/ Die(r)

Next ==
  \/ \E r \in Requests : Step(r)
  \/ \E i \in Ids : Execute(i) \/ Answer(i) \/ Lapse(i)

Spec == Init /\ [][Next]_vars

-----------------------------------------------------------------------------
(* Properties *)

Rows == [by : Requests, key : {k \in Keys : k.sensor \in Sensors}]
Places == {"idle", "saveRow", "sendAdd", "removeRow", "findAdd", "cancelAdd", "sendRemove",
           "applySync", "saveSync", "done"}

TypeOK ==
  /\ rows \subseteq Rows
  /\ op \in [Requests -> {"none", "add", "remove", "sync"}]
  /\ pc \in [Requests -> Places]
  /\ key \in [Requests -> Keys]
  /\ chosen \in [Requests -> SUBSET Rows]
  /\ found \in [Requests -> SUBSET Ids]
  /\ left \in [Requests -> SUBSET Keys]
  /\ commands \in [Ids -> {"none", "waiting", "resolved", "canceled"}]
  /\ ran \subseteq Ids /\ air \subseteq Ids
  /\ installed \subseteq Keys /\ disputed \subseteq Keys
  /\ report \in [Requests -> SUBSET Keys]
  /\ met \in [Requests -> SUBSET Requests]
  /\ last \in Requests \cup {Nobody}
  /\ tainted \in BOOLEAN
  /\ deaths \in 0 .. MaxDeaths
  /\ \A r \in Requests :
       /\ pc[r] \notin {"idle", "applySync", "done"} => key[r].sensor \in Sensors
       /\ \A c \in chosen[r] : c.key = key[r]
       /\ op[r] # "sync" => left[r] = {}

\* No two SDI-12 sensors of the device have the same address, which would make
\* both unreadable on their bus: not unless an add or a report read the rows while
\* another was about to store its own, or the device reported an address twice; and
\* the next report that nothing disturbs makes it true again.
AddressesDistinct ==
  ~tainted => \A c, d \in OfType(SDI) : c # d => c.key.address # d.key.address

\* After a report, whatever overlapped it, each row is of the report or of an
\* operation that overlapped it, the rows of the report are of its keys, and every
\* key with a known sensor has one, unless it was removed or wiped by such an
\* operation.
RowsAsReported ==
  InFlight = {} /\ last # Nobody /\ op[last] = "sync" =>
    /\ \A c \in rows : c.by \in met[last] \/ (c.by = last /\ c.key \in report[last])
    /\ \A k \in report[last] : Known(k) =>
         \/ HasRow(k)
         \/ \E q \in met[last] : op[q] = "sync" \/ (op[q] = "remove" /\ key[q] = k)

\* Whatever becomes of its commands, in whatever order they are carried out, the
\* device ends up with a sensor if and only if it has a row: what it may still carry
\* out agrees with the rows, and once that is nothing, the device does.  Said of
\* keys that no operation is at work on and that are not disputed.
DeviceAgrees ==
  \A k \in ({key[r] : r \in Requests} \cup installed) \ disputed : ~Busy(k) =>
    /\ Outstanding(IF HasRow(k) THEN "remove" ELSE "add", k) = {}
    /\ Outstanding("add", k) \cup Outstanding("remove", k) = {} =>
         (k \in installed <=> HasRow(k))
=============================================================================
