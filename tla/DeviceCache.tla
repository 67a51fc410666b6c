----------------------------- MODULE DeviceCache -----------------------------
(***************************************************************************)
(* The cached copy of one device, by which every message is attributed to  *)
(* a device (deviceFromIdentity, services/device-shadow.ts), and the       *)
(* requests that change the device or its copy (models/device.ts).         *)
(*                                                                         *)
(* A device keeps its identity when it is destroyed and created again; its *)
(* row gets a new id, by which its forwarders and sensors are found.  The  *)
(* copy lives in Redis for a day from its last set.  A lookup that misses  *)
(* reads the row and sets the copy, a create and a rebuild of the          *)
(* certificate set it too, a destroy and an update leave it alone.         *)
(*                                                                         *)
(* Redis and the database are external.                                    *)
(***************************************************************************)
EXTENDS Naturals

CONSTANTS
  MaxRows,     \* bound: rows that the device has one after the other
  Versions,    \* contents of a row, as far as an update changes them
  NoDevice,
  Lookups,     \* workers that look the device up for a message
  Requests,    \* creates and rebuilds under way
  MaxFailures  \* bound: calls that fail, and containers that die

Ids == 1 .. MaxRows
Copies == [id : Ids, version : Versions]

ASSUME CacheAssumption ==
  /\ MaxRows \in Nat
  /\ NoDevice \notin Copies
  /\ MaxFailures \in Nat

VARIABLES
  row,       \* the row of the device
  used,      \* how many rows it had so far; ids are not used again
  cache,     \* the copy in Redis
  age,       \* how long ago it was set: "old" when the day is over
  at,        \* at[l]: the call lookup l makes next
  found,     \* found[l]: the device it has
  pc,        \* pc[q]: the call request q makes next
  held,      \* held[q]: the device it has
  disturbed, \* something was under way when the last row was destroyed, or the
             \* create of this one ended before the copy was set (history)
  failures

vars == <<row, used, cache, age, at, found, pc, held, disturbed, failures>>

Init ==
  /\ row = NoDevice /\ used = 0
  /\ cache = NoDevice /\ age = "new"
  /\ at = [l \in Lookups |-> "idle"]
  /\ found = [l \in Lookups |-> NoDevice]
  /\ pc = [q \in Requests |-> "idle"]
  /\ held = [q \in Requests |-> NoDevice]
  /\ disturbed = FALSE
  /\ failures = 0

-----------------------------------------------------------------------------
(***************************************************************************)
(* Seeded faults: what a plausible mistake would make of the definitions   *)
(* that follow.  No specification uses them.                               *)
(***************************************************************************)

\* a copy that is used is kept for another day
KeptAnotherDay == "new"
\* a create leaves the copy to the first lookup
LeftToLookup(q) == UNCHANGED <<cache, age>>
-----------------------------------------------------------------------------
Set(copy) ==
  /\ cache' = copy
  /\ age' = "new"

AgeAfterHit == age

\* deviceFromIdentity: the copy is looked for.
Look(l) ==
  /\ at[l] = "idle"
  /\ \/ /\ cache # NoDevice
        /\ at' = [at EXCEPT ![l] = "done"]
        /\ found' = [found EXCEPT ![l] = cache]
        /\ age' = AgeAfterHit
     \/ /\ cache = NoDevice
        /\ at' = [at EXCEPT ![l] = "query"]
        /\ UNCHANGED <<found, age>>
  /\ UNCHANGED <<row, used, cache, pc, held, disturbed, failures>>

\* The row is read; without one nothing is cached.
Query(l) ==
  /\ at[l] = "query"
  /\ at' = [at EXCEPT ![l] = IF row = NoDevice THEN "done" ELSE "fill"]
  /\ found' = [found EXCEPT ![l] = row]
  /\ UNCHANGED <<row, used, cache, age, pc, held, disturbed, failures>>

Fill(l) ==
  /\ at[l] = "fill"
  /\ at' = [at EXCEPT ![l] = "done"]
  /\ Set(found[l])
  /\ UNCHANGED <<row, used, found, pc, held, disturbed, failures>>

\* The message is handed on with the device that was found.
Attribute(l) ==
  /\ at[l] = "done"
  /\ at' = [at EXCEPT ![l] = "idle"]
  /\ found' = [found EXCEPT ![l] = NoDevice]
  /\ UNCHANGED <<row, used, cache, age, pc, held, disturbed, failures>>

\* A call throws: pullDevice takes the whole message for an identity, and
\* finds no device.
LookupFails(l) ==
  /\ at[l] \in {"query", "fill"}
  /\ failures < MaxFailures
  /\ failures' = failures + 1
  /\ at' = [at EXCEPT ![l] = "done"]
  /\ found' = [found EXCEPT ![l] = NoDevice]
  /\ UNCHANGED <<row, used, cache, age, pc, held, disturbed>>

\* createDevice: the row is stored; its identity is unique.
Create(q, copy) ==
  /\ pc[q] = "idle"
  /\ row = NoDevice
  /\ copy.id = used + 1
  /\ row' = copy
  /\ used' = copy.id
  /\ pc' = [pc EXCEPT ![q] = "created"]
  /\ held' = [held EXCEPT ![q] = copy]
  /\ UNCHANGED <<cache, age, at, found, disturbed, failures>>

SetCreated(q) == Set(held[q])

\* ... and the copy is set.  The certificate is provisioned afterwards.
Created(q) ==
  /\ pc[q] = "created"
  /\ pc' = [pc EXCEPT ![q] = "idle"]
  /\ held' = [held EXCEPT ![q] = NoDevice]
  /\ SetCreated(q)
  /\ UNCHANGED <<row, used, at, found, disturbed, failures>>

\* buildCertificateForDevice: the row is read, its certificate is terminated
\* and provisioned anew, and the row as it was read becomes the copy.
Rebuild(q) ==
  /\ pc[q] = "idle"
  /\ row # NoDevice
  /\ pc' = [pc EXCEPT ![q] = "rebuilding"]
  /\ held' = [held EXCEPT ![q] = row]
  /\ UNCHANGED <<row, used, cache, age, at, found, disturbed, failures>>

Rebuilt(q) ==
  /\ pc[q] = "rebuilding"
  /\ pc' = [pc EXCEPT ![q] = "idle"]
  /\ held' = [held EXCEPT ![q] = NoDevice]
  /\ Set(held[q])
  /\ UNCHANGED <<row, used, at, found, disturbed, failures>>

\* A call of either throws, or its container dies.
RequestFails(q) ==
  /\ pc[q] # "idle"
  /\ failures < MaxFailures
  /\ failures' = failures + 1
  /\ pc' = [pc EXCEPT ![q] = "idle"]
  /\ held' = [held EXCEPT ![q] = NoDevice]
  /\ disturbed' = (disturbed \/ pc[q] = "created")
  /\ UNCHANGED <<row, used, cache, age, at, found>>

UnderWay == (\E l \in Lookups : at[l] = "fill") \/ (\E q \in Requests : pc[q] # "idle")

\* destroyOne: the row goes, and then the certificate; nobody tells Redis.
Destroy ==
  /\ row # NoDevice
  /\ row' = NoDevice
  /\ disturbed' = UnderWay
  /\ UNCHANGED <<used, cache, age, at, found, pc, held, failures>>

\* updateTimezoneOnDevice, or update of the framework, for instance with another
\* profile: the row changes, and nobody tells Redis.
Update(v) ==
  /\ row # NoDevice
  /\ row' = [row EXCEPT !.version = v]
  /\ UNCHANGED <<used, cache, age, at, found, pc, held, disturbed, failures>>

\* A day goes by, and the copy expires.
GrowOld ==
  /\ age = "new"
  /\ age' = "old"
  /\ UNCHANGED <<row, used, cache, at, found, pc, held, disturbed, failures>>

Expire ==
  /\ age = "old" /\ cache # NoDevice
  /\ cache' = NoDevice
  /\ UNCHANGED <<row, used, age, at, found, pc, held, disturbed, failures>>

LookupStep(l) == Query(l) \/ Fill(l) \/ Attribute(l) \/ LookupFails(l)
RequestStep(q) == Created(q) \/ Rebuilt(q) \/ RequestFails(q)

Next ==
  \/ \E l \in Lookups : Look(l) \/ LookupStep(l)
  \/ \E q \in Requests : RequestStep(q) \/ Rebuild(q) \/ \E copy \in Copies : Create(q, copy)
  \/ Destroy \/ (\E v \in Versions : Update(v))
  \/ GrowOld \/ Expire

Spec == Init /\ [][Next]_vars

(***************************************************************************)
(* Fairness.  Calls end, and so does a day.  Nothing makes a message come, *)
(* or an operator act.                                                     *)
(***************************************************************************)
FairSpec ==
  /\ Spec
  /\ \A l \in Lookups : WF_vars(LookupStep(l))
  /\ \A q \in Requests : WF_vars(RequestStep(q))
  /\ WF_vars(GrowOld) /\ WF_vars(Expire)

-----------------------------------------------------------------------------
(* Properties *)

TypeOK ==
  /\ row \in Copies \cup {NoDevice}
  /\ used \in 0 .. MaxRows
  /\ row # NoDevice => row.id = used
  /\ cache \in Copies \cup {NoDevice}
  /\ age \in {"new", "old"}
  /\ at \in [Lookups -> {"idle", "query", "fill", "done"}]
  /\ found \in [Lookups -> Copies \cup {NoDevice}]
  /\ \A l \in Lookups : at[l] = "fill" => found[l] # NoDevice
  /\ pc \in [Requests -> {"idle", "created", "rebuilding"}]
  /\ held \in [Requests -> Copies \cup {NoDevice}]
  /\ \A q \in Requests : pc[q] # "idle" => held[q] # NoDevice
  /\ disturbed \in BOOLEAN
  /\ failures \in 0 .. MaxFailures

\* A device that was destroyed and created again is never taken for the one it
\* was, although a destroy leaves the copy in Redis: the create overwrites it.
\* The exceptions are a lookup, rebuild or create that was under way when the
\* device was destroyed, and a create that is or was cut off before its set.
CreatedIsServed ==
  row # NoDevice /\ cache # NoDevice /\ ~disturbed /\ (\A q \in Requests : pc[q] # "created")
    => cache.id = row.id

\* Once no copy differs from the row, neither the one in Redis nor one that a
\* lookup or request is about to set, none does until the row changes: no order of
\* lookups, rebuilds and failures brings a stale one back.
Fresh ==
  /\ cache \in {row, NoDevice}
  /\ \A l \in Lookups : at[l] = "fill" => found[l] = row
  /\ \A q \in Requests : pc[q] # "idle" => held[q] = row

StaysFresh == [][Fresh /\ row' = row => Fresh']_vars

\* Whatever overtook what: once the device stays as it is, changed, created
\* anew or destroyed, messages are at last attributed to just that.
ServedAtLast ==
  \A copy \in Copies \cup {NoDevice} :
    <>[](row = copy) => <>[](\A l \in Lookups : at[l] = "done" => found[l] = copy)
=============================================================================
