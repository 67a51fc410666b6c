-------------------------- MODULE DeviceSensorsProofs --------------------------
(***************************************************************************)
(* Proofs about DeviceSensors, for any number of operations, sensors,      *)
(* pins, limits, bases and interruptions, however operations overlap.      *)
(***************************************************************************)
EXTENDS DeviceSensors, FiniteSetTheorems, WellFoundedInduction, TLAPS

-----------------------------------------------------------------------------
(* The numbers that SensorTypeRules finds *)

LEMMA MinimalNat ==
  ASSUME NEW S \in SUBSET Nat, S # {}
  PROVE  \E n \in S : \A m \in S : n <= m
<1> DEFINE R == {ss \in Nat \X Nat : ss[1] < ss[2]}
<1>1. R = OpToRel(<, Nat)
  BY DEF OpToRel
<1>2. IsWellFoundedOn(R, Nat)
  BY <1>1, NatLessThanWellFounded
<1>3. \E n \in S : \A m \in S : <<m, n>> \notin R
  <2> HIDE DEF R
  <2> QED BY <1>2, WFMin
<1>4. ASSUME NEW m \in S, NEW n \in S, <<m, n>> \notin R
      PROVE  n <= m
  <2>1. m \in Nat /\ n \in Nat
    OBVIOUS
  <2>2. ~(m < n)
    BY <2>1, <1>4
  <2> QED
    BY <2>1, <2>2
<1> HIDE DEF R
<1> QED
  BY <1>3, <1>4

\* However the addresses of the rows lie, the search ends at a place that the
\* list does not hold, and all places before it are held once.
LEMMA GapExists ==
  ASSUME NEW current, IsFiniteSet(current)
  PROVE  /\ FirstGap(current) \in Nat
         /\ ~Unbroken(current, FirstGap(current))
         /\ \A m \in 0 .. FirstGap(current) - 1 : Unbroken(current, m)
<1> DEFINE n == Cardinality(current)
           S == {m \in 0 .. n : ~Unbroken(current, m)}
<1>1. n \in Nat
  BY FS_CardinalityType
<1>2. S # {}
  <2> SUFFICES ASSUME \A m \in 0 .. n : Unbroken(current, m) PROVE FALSE
    OBVIOUS
  <2> DEFINE f == [m \in 0 .. n |-> CHOOSE c \in current : c.key.address = m]
  <2>1. \A m \in 0 .. n : f[m] \in current /\ f[m].key.address = m
    BY DEF Unbroken
  <2>2. f \in [0 .. n -> current]
    BY <2>1
  <2>3. IsFiniteSet(0 .. n) /\ Cardinality(0 .. n) = n + 1
    BY <1>1, FS_Interval
  <2>4. n < n + 1
    BY <1>1
  <2> HIDE DEF f
  <2>5. \E x, y \in 0 .. n : x # y /\ f[x] = f[y]
    BY <2>2, <2>3, <2>4, FS_PigeonHole
  <2> QED
    BY <2>1, <2>5
<1>3. S \in SUBSET Nat
  BY <1>1
<1> HIDE DEF S
<1>4. PICK g \in S : \A m \in S : g <= m
  BY <1>2, <1>3, MinimalNat
<1>5. g \in 0 .. n /\ ~Unbroken(current, g)
  BY <1>4 DEF S
<1>6. \A m \in 0 .. g - 1 : Unbroken(current, m)
  <2> SUFFICES ASSUME NEW m \in 0 .. g - 1, m \in S PROVE FALSE
    BY <1>1, <1>5 DEF S
  <2>1. g <= m
    BY <1>4
  <2> QED
    BY <1>5, <2>1
<1>7. /\ FirstGap(current) \in 0 .. n
      /\ ~Unbroken(current, FirstGap(current))
      /\ \A m \in 0 .. FirstGap(current) - 1 : Unbroken(current, m)
  BY <1>5, <1>6 DEF FirstGap
<1> QED
  BY <1>1, <1>7

\* While no address occurs twice, it is an address that no row has.
LEMMA GapIsFree ==
  ASSUME NEW current, IsFiniteSet(current),
         \A c, d \in current : c.key.address = d.key.address => c = d
  PROVE  \A c \in current : c.key.address # FirstGap(current)
<1> DEFINE g == FirstGap(current)
<1> HIDE DEF g
<1>1. g \in Nat /\ ~Unbroken(current, g) /\ \A m \in 0 .. g - 1 : Unbroken(current, m)
  BY GapExists DEF g
<1> SUFFICES ASSUME NEW c \in current, c.key.address = g PROVE FALSE
  BY DEF g
<1>2. g > 0 /\ Cardinality({d \in current : d.key.address = g - 1}) # 1
  BY <1>1 DEF Unbroken
<1>3. g - 1 \in 0 .. g - 1
  BY <1>1, <1>2
<1>4. PICK d \in current : d.key.address = g - 1
  BY <1>1, <1>3 DEF Unbroken
<1>5. {e \in current : e.key.address = g - 1} = {d}
  BY <1>4
<1> QED
  BY <1>2, <1>5, FS_Singleton

\* getPin answers with a pin of the sensor, or none.
LEMMA PinTyped ==
  ASSUME NEW s \in Sensors, NEW current
  PROVE  getPin(s, current) \in STRING
<1> DEFINE free == {i \in DOMAIN PinsOf[s] : PinsOf[s][i] \notin UsedPins(current)}
<1>0. PinsOf \in [Sensors -> Seq(STRING)] /\ NoPin \in STRING
  BY SensorsAssumption DEF SensorsAssumption
<1>1. free \in SUBSET Nat
  BY <1>0
<1> HIDE DEF free
<1>2. CASE free = {}
  BY <1>0, <1>2 DEF getPin, free
<1>3. CASE free # {}
  <2>1. \E i \in free : \A j \in free : i <= j
    BY <1>1, <1>3, MinimalNat
  <2> DEFINE i == CHOOSE i \in free : \A j \in free : i <= j
  <2>2. i \in free
    BY <2>1
  <2>3. getPin(s, current) = PinsOf[s][i]
    BY <1>3 DEF getPin, free
  <2> HIDE DEF i
  <2>4. i \in DOMAIN PinsOf[s]
    BY <2>2 DEF free
  <2> QED
    BY <1>0, <2>3, <2>4
<1> QED
  BY <1>2, <1>3

-----------------------------------------------------------------------------
(* Types *)

\* What an operation is and what it holds follows from its place; what was stored
\* and published belongs to the request of an operator that is past its row.
PlacesFit ==
  \A r \in Requests :
    /\ pc[r] = "idle" <=> op[r] = "none"
    /\ pc[r] \in {"saveRow", "sendAdd"} => op[r] = "add"
    /\ pc[r] \in {"removeRow", "findAdd", "cancelAdd", "sendRemove"} => op[r] = "remove"
    /\ pc[r] \in {"applySync", "saveSync"} => op[r] = "sync"
    /\ chosen[r] # {} => pc[r] = "removeRow"
    /\ found[r] # {} => pc[r] = "cancelAdd"
    /\ left[r] # {} => pc[r] \in {"applySync", "saveSync"}
MetFit == \A r \in Requests : \A q \in met[r] : pc[q] # "idle"
FoundFit ==
  \A r \in Requests : \A i \in found[r] :
    commands[i] # "none" /\ op[i[1]] = "add" /\ key[i[1]] = key[r]
CommandsFit ==
  \A i \in Ids :
    /\ commands[i] # "none" => /\ pc[i[1]] \in {"sendAdd", "sendRemove", "done"}
                               /\ op[i[1]] \in {"add", "remove"}
    /\ commands[i] = "canceled" => op[i[1]] = "add"
    /\ i \in ran => commands[i] = "waiting"
    /\ i \in air => commands[i] # "none"

\* Rows are finite, since a report is stored key by key.
Housekept == IsFiniteSet(rows) /\ PlacesFit /\ MetFit /\ FoundFit /\ CommandsFit

TInv == TypeOK /\ Housekept

LEMMA NoKeyTyped == NoKey \in Keys
  BY SensorsAssumption DEF SensorsAssumption, NoKey, Key, Keys, NoPin

LEMMA InitTInv == Init => TInv
<1> SUFFICES ASSUME Init PROVE TInv
  OBVIOUS
<1>1. MaxDeaths \in Nat
  BY SensorsAssumption DEF SensorsAssumption
<1>2. key \in [Requests -> Keys] /\ \A r \in Requests : pc[r] = "idle"
  BY NoKeyTyped DEF Init
<1>3. TypeOK
  <2>1. /\ pc \in [Requests -> Places] /\ op \in [Requests -> {"none", "add", "remove", "sync"}]
        /\ commands \in [Ids -> {"none", "waiting", "resolved", "canceled"}]
    BY DEF Init, Places
  <2>2. /\ chosen \in [Requests -> SUBSET Rows] /\ found \in [Requests -> SUBSET Ids]
        /\ left \in [Requests -> SUBSET Keys] /\ report \in [Requests -> SUBSET Keys]
        /\ met \in [Requests -> SUBSET Requests]
    BY DEF Init
  <2>3. \A r \in Requests : chosen[r] = {} /\ left[r] = {}
    BY DEF Init
  <2>4. /\ rows \subseteq Rows /\ ran \subseteq Ids /\ air \subseteq Ids
        /\ installed \subseteq Keys /\ disputed \subseteq Keys
    BY DEF Init
  <2>5. last \in Requests \cup {Nobody} /\ tainted \in BOOLEAN
    BY DEF Init
  <2>6. deaths \in 0 .. MaxDeaths
    BY <1>1 DEF Init
  <2> QED
    BY <1>2, <2>1, <2>2, <2>3, <2>4, <2>5, <2>6 DEF TypeOK
<1>4. Housekept
  BY FS_EmptySet DEF Init, Housekept, PlacesFit, MetFit, FoundFit, CommandsFit
<1> QED
  BY <1>3, <1>4 DEF TInv

\* The key of a new sensor is one of a known sensor, and on the bus has an address.
LEMMA BuildTyped ==
  ASSUME TInv, NEW s \in Sensors
  PROVE  /\ build(s) \in Keys /\ Known(build(s)) /\ build(s).sensor = s
         /\ TypeOf[s] = SDI => /\ build(s).address = assignUniqueIdentity(OfType(SDI))
                               /\ build(s).address \in Nat
<1> DEFINE t == TypeOf[s]
           a == IF t = SDI THEN assignUniqueIdentity(OfType(t)) ELSE None
           p == getPin(RuleOf[t], OfType(t))
<1>1. IsFiniteSet(OfType(t))
  BY FS_Subset DEF TInv, Housekept, OfType
<1>2. assignUniqueIdentity(OfType(t)) \in Nat
  BY <1>1, GapExists DEF assignUniqueIdentity
<1>3. RuleOf[t] \in Sensors /\ s \in STRING
  BY SensorsAssumption DEF SensorsAssumption
<1>4. p \in STRING
  BY <1>3, PinTyped
<1>5. build(s) = Key(s, a, p)
  BY DEF build
<1>6. a \in {None} \cup Nat /\ (t = SDI => a \in Nat /\ a = assignUniqueIdentity(OfType(SDI)))
  BY <1>2
<1> HIDE DEF a, p
<1> QED
  BY <1>3, <1>4, <1>5, <1>6 DEF Key, Keys, Known

\* An operation gets to another place.
LEMMA GotoTyped ==
  ASSUME TInv, NEW r \in Requests, NEW place \in Places \ {"idle"}, Goto(r, place)
  PROVE  /\ pc' \in [Requests -> Places] /\ pc'[r] = place
         /\ \A q \in Requests : q # r => pc'[q] = pc[q]
         /\ last' \in Requests \cup {Nobody}
  BY DEF Goto, TInv, TypeOK

LEMMA BeginTyped ==
  ASSUME TInv, NEW r \in Requests, NEW what \in {"add", "remove", "sync"}, Begin(r, what)
  PROVE  /\ pc[r] = "idle" /\ op[r] = "none"
         /\ op' \in [Requests -> {"none", "add", "remove", "sync"}] /\ op'[r] = what
         /\ \A q \in Requests : q # r => op'[q] = op[q]
         /\ met' \in [Requests -> SUBSET Requests]
         /\ \A q \in Requests : \A p \in met'[q] : p \in Requests /\ (p = r \/ pc[p] # "idle")
         /\ left[r] = {} /\ chosen[r] = {} /\ found[r] = {}
         /\ \A i \in Ids : commands[i] # "none" => i[1] # r
         /\ \A q \in Requests : \A i \in found[q] : i[1] # r
         /\ UNCHANGED <<commands, ran, air, installed, deaths>>
<1>1. /\ pc[r] = "idle" /\ op' = [op EXCEPT ![r] = what]
      /\ UNCHANGED <<commands, ran, air, installed, deaths>>
  BY DEF Begin
<1>2. op[r] = "none" /\ left[r] = {} /\ chosen[r] = {} /\ found[r] = {}
  BY <1>1 DEF TInv, Housekept, PlacesFit
<1>3. \A i \in Ids : commands[i] # "none" => i[1] # r
  BY <1>1 DEF TInv, Housekept, CommandsFit
<1>4. \A q \in Requests : \A i \in found[q] : i[1] # r
  BY <1>3 DEF TInv, TypeOK, Housekept, FoundFit
<1>5. /\ met' \in [Requests -> SUBSET Requests]
      /\ \A q \in Requests : \A p \in met'[q] : p \in Requests /\ (p = r \/ pc[p] # "idle")
  BY DEF Begin, InFlight, TInv, TypeOK, Housekept, MetFit
<1> QED
  BY <1>1, <1>2, <1>3, <1>4, <1>5 DEF TInv, TypeOK

\* Operations that begin.
LEMMA AddTInv == ASSUME TInv, NEW r \in Requests, NEW s \in Sensors, Add(r, s) PROVE TInv'
<1>1. Begin(r, "add") /\ UNCHANGED <<rows, chosen, found, left, report>>
  BY DEF Add
<1>2. /\ pc[r] = "idle" /\ op[r] = "none"
      /\ op' \in [Requests -> {"none", "add", "remove", "sync"}] /\ op'[r] = "add"
      /\ \A q \in Requests : q # r => op'[q] = op[q]
      /\ met' \in [Requests -> SUBSET Requests]
      /\ \A q \in Requests : \A p \in met'[q] : p \in Requests /\ (p = r \/ pc[p] # "idle")
      /\ left[r] = {} /\ chosen[r] = {} /\ found[r] = {}
      /\ \A i \in Ids : commands[i] # "none" => i[1] # r
      /\ \A q \in Requests : \A i \in found[q] : i[1] # r
      /\ UNCHANGED <<commands, ran, air, installed, deaths>>
  BY <1>1, BeginTyped
<1>3. \E place \in {"saveRow", "done"} :
        /\ Goto(r, place)
        /\ key' \in [Requests -> Keys] /\ (place = "saveRow" => Known(key'[r]))
        /\ \A q \in Requests : q # r => key'[q] = key[q]
        /\ tainted' \in BOOLEAN /\ disputed' \subseteq Keys
  <2>1. build(s) \in Keys /\ Known(build(s))
    BY BuildTyped
  <2> QED
    BY <2>1 DEF Add, TInv, TypeOK
<1>4. PICK place \in {"saveRow", "done"} :
        /\ Goto(r, place)
        /\ key' \in [Requests -> Keys] /\ (place = "saveRow" => Known(key'[r]))
        /\ \A q \in Requests : q # r => key'[q] = key[q]
        /\ tainted' \in BOOLEAN /\ disputed' \subseteq Keys
  BY <1>3
<1>5. /\ pc' \in [Requests -> Places] /\ pc'[r] = place
      /\ \A q \in Requests : q # r => pc'[q] = pc[q]
      /\ last' \in Requests \cup {Nobody}
  BY <1>4, GotoTyped DEF Places
<1>6. TypeOK'
  BY <1>1, <1>2, <1>4, <1>5 DEF TInv, TypeOK, Known
<1>7. Housekept'
  <2>1. IsFiniteSet(rows')
    BY <1>1 DEF TInv, Housekept
  <2>2. PlacesFit'
    BY <1>1, <1>2, <1>4, <1>5 DEF TInv, TypeOK, Housekept, PlacesFit
  <2>3. MetFit'
    BY <1>2, <1>4, <1>5 DEF MetFit
  <2>4. FoundFit'
    BY <1>1, <1>2, <1>4, <1>5 DEF TInv, TypeOK, Housekept, FoundFit, Ids
  <2>5. CommandsFit'
    BY <1>1, <1>2, <1>4, <1>5 DEF TInv, TypeOK, Housekept, CommandsFit, Ids
  <2> QED
    BY <2>1, <2>2, <2>3, <2>4, <2>5 DEF Housekept
<1> QED
  BY <1>6, <1>7 DEF TInv

LEMMA RemoveTInv == ASSUME TInv, NEW r \in Requests, NEW c \in rows, Remove(r, c) PROVE TInv'
<1>1. /\ Begin(r, "remove") /\ Goto(r, "removeRow") /\ key' = [key EXCEPT ![r] = c.key]
      /\ chosen' = [chosen EXCEPT ![r] = {c}]
      /\ disputed' \subseteq disputed \cup {c.key}
      /\ UNCHANGED <<rows, found, left, report, tainted>>
  BY DEF Remove
<1>2. /\ pc[r] = "idle" /\ op[r] = "none"
      /\ op' \in [Requests -> {"none", "add", "remove", "sync"}] /\ op'[r] = "remove"
      /\ \A q \in Requests : q # r => op'[q] = op[q]
      /\ met' \in [Requests -> SUBSET Requests]
      /\ \A q \in Requests : \A p \in met'[q] : p \in Requests /\ (p = r \/ pc[p] # "idle")
      /\ left[r] = {} /\ chosen[r] = {} /\ found[r] = {}
      /\ \A i \in Ids : commands[i] # "none" => i[1] # r
      /\ \A q \in Requests : \A i \in found[q] : i[1] # r
      /\ UNCHANGED <<commands, ran, air, installed, deaths>>
  BY <1>1, BeginTyped
<1>3. c \in Rows /\ c.key \in Keys /\ Known(c.key)
  BY DEF TInv, TypeOK, Rows, Known
<1>4. /\ pc' \in [Requests -> Places] /\ pc'[r] = "removeRow"
      /\ \A q \in Requests : q # r => pc'[q] = pc[q]
      /\ last' \in Requests \cup {Nobody}
  BY <1>1, GotoTyped DEF Places
<1>5. TypeOK'
  BY <1>1, <1>2, <1>3, <1>4 DEF TInv, TypeOK, Known
<1>6. Housekept'
  <2>1. IsFiniteSet(rows')
    BY <1>1 DEF TInv, Housekept
  <2>2. PlacesFit'
    BY <1>1, <1>2, <1>4 DEF TInv, TypeOK, Housekept, PlacesFit
  <2>3. MetFit'
    BY <1>2, <1>4 DEF MetFit
  <2>4. FoundFit'
    BY <1>1, <1>2, <1>4 DEF TInv, TypeOK, Housekept, FoundFit, Ids
  <2>5. CommandsFit'
    BY <1>1, <1>2, <1>4 DEF TInv, TypeOK, Housekept, CommandsFit, Ids
  <2> QED
    BY <2>1, <2>2, <2>3, <2>4, <2>5 DEF Housekept
<1> QED
  BY <1>5, <1>6 DEF TInv

LEMMA SyncTInv ==
  ASSUME TInv, NEW r \in Requests, NEW keys \in Reports, Sync(r, keys) PROVE TInv'
<1>1. /\ Begin(r, "sync") /\ Goto(r, "applySync") /\ rows' = {}
      /\ left' = [left EXCEPT ![r] = keys] /\ report' = [report EXCEPT ![r] = keys]
      /\ tainted' \in BOOLEAN
      /\ disputed' = disputed \cup {c.key : c \in rows} \cup keys
      /\ UNCHANGED <<key, chosen, found>>
  BY DEF Sync, RowsLeft
<1>2. /\ pc[r] = "idle" /\ op[r] = "none"
      /\ op' \in [Requests -> {"none", "add", "remove", "sync"}] /\ op'[r] = "sync"
      /\ \A q \in Requests : q # r => op'[q] = op[q]
      /\ met' \in [Requests -> SUBSET Requests]
      /\ \A q \in Requests : \A p \in met'[q] : p \in Requests /\ (p = r \/ pc[p] # "idle")
      /\ left[r] = {} /\ chosen[r] = {} /\ found[r] = {}
      /\ \A i \in Ids : commands[i] # "none" => i[1] # r
      /\ \A q \in Requests : \A i \in found[q] : i[1] # r
      /\ UNCHANGED <<commands, ran, air, installed, deaths>>
  BY <1>1, BeginTyped
<1>3. keys \subseteq Keys
  BY SensorsAssumption DEF SensorsAssumption
<1>4. /\ pc' \in [Requests -> Places] /\ pc'[r] = "applySync"
      /\ \A q \in Requests : q # r => pc'[q] = pc[q]
      /\ last' \in Requests \cup {Nobody}
  BY <1>1, GotoTyped DEF Places
<1>5. {c.key : c \in rows} \subseteq Keys
  BY DEF TInv, TypeOK, Rows
<1>6. TypeOK'
  BY <1>1, <1>2, <1>3, <1>4, <1>5 DEF TInv, TypeOK, Known
<1>7. Housekept'
  <2>1. IsFiniteSet(rows')
    BY <1>1, FS_EmptySet
  <2>2. PlacesFit'
    BY <1>1, <1>2, <1>4 DEF TInv, TypeOK, Housekept, PlacesFit
  <2>3. MetFit'
    BY <1>2, <1>4 DEF MetFit
  <2>4. FoundFit'
    BY <1>1, <1>2, <1>4 DEF TInv, TypeOK, Housekept, FoundFit, Ids
  <2>5. CommandsFit'
    BY <1>1, <1>2, <1>4 DEF TInv, TypeOK, Housekept, CommandsFit, Ids
  <2> QED
    BY <2>1, <2>2, <2>3, <2>4, <2>5 DEF Housekept
<1> QED
  BY <1>6, <1>7 DEF TInv

\* A row is saved with the key of its operation.
LEMMA SaveTInv ==
  ASSUME TInv, NEW r \in Requests, SaveRow(r) \/ SaveSync(r) PROVE TInv'
<1> DEFINE place == IF pc[r] = "saveRow" THEN "sendAdd" ELSE "applySync"
<1>1. /\ pc[r] \in {"saveRow", "saveSync"} /\ Goto(r, place)
      /\ rows' = rows \cup {[by |-> r, key |-> key[r]]}
      /\ UNCHANGED <<op, key, chosen, found, left, commands, ran, air, installed, report, met,
                     tainted, disputed, deaths>>
  BY DEF SaveRow, SaveSync
<1>2. place \in Places \ {"idle"}
  BY DEF Places
<1>3. /\ pc' \in [Requests -> Places] /\ pc'[r] = place
      /\ \A q \in Requests : q # r => pc'[q] = pc[q]
      /\ last' \in Requests \cup {Nobody}
  BY <1>1, <1>2, GotoTyped
<1>4. key[r] \in Keys /\ Known(key[r])
  BY <1>1 DEF TInv, TypeOK, Known
<1>5. [by |-> r, key |-> key[r]] \in Rows /\ IsFiniteSet(rows')
  BY <1>1, <1>4, FS_AddElement DEF Rows, TInv, Housekept, Known
<1>6. TypeOK'
  BY <1>1, <1>3, <1>4, <1>5 DEF TInv, TypeOK, Known
<1>7. Housekept'
  <2>1. IsFiniteSet(rows')
    BY <1>5
  <2>2. PlacesFit'
    BY <1>1, <1>3, <1>5 DEF TInv, TypeOK, Housekept, PlacesFit
  <2>3. MetFit'
    BY <1>1, <1>3, <1>5 DEF TInv, TypeOK, Housekept, MetFit
  <2>4. FoundFit'
    BY <1>1, <1>3, <1>5 DEF TInv, TypeOK, Housekept, FoundFit, Ids
  <2>5. CommandsFit'
    BY <1>1, <1>3, <1>5 DEF TInv, TypeOK, Housekept, CommandsFit, Ids
  <2> QED
    BY <2>1, <2>2, <2>3, <2>4, <2>5 DEF Housekept
<1> QED
  BY <1>6, <1>7 DEF TInv

\* What storing the next row of a command does.
LEMMA Stores ==
  ASSUME NEW r \in Requests, SendAdd(r) \/ SendRemove(r)
  PROVE  \E b \in 1 .. Bases, opposite \in {Outstanding("remove", key[r]),
                                                Outstanding("add", key[r]) \cap air} :
           /\ pc[r] \in {"sendAdd", "sendRemove"}
           /\ pc[r] = "sendAdd" => opposite = Outstanding("remove", key[r])
           /\ pc[r] = "sendRemove" => opposite = Outstanding("add", key[r]) \cap air
           /\ commands[<<r, b>>] = "none"
           /\ commands' = [commands EXCEPT ![<<r, b>>] = "waiting"]
           /\ Goto(r, IF b = Bases THEN "done" ELSE pc[r])
           /\ disputed' = IF opposite = {} THEN disputed ELSE disputed \cup {key[r]}
           /\ UNCHANGED <<rows, op, key, chosen, found, left, ran, air, installed, report, met,
                          tainted, deaths>>
<1> DEFINE R == Outstanding("remove", key[r])
           A == Outstanding("add", key[r]) \cap air
<1>1. (pc[r] = "sendAdd" /\ Store(r, R)) \/ (pc[r] = "sendRemove" /\ Store(r, A))
  BY DEF SendAdd, SendRemove
<1> HIDE DEF R, A
<1>2. \A o : Store(r, o) => \E b \in 1 .. Bases :
        /\ commands[<<r, b>>] = "none"
        /\ commands' = [commands EXCEPT ![<<r, b>>] = "waiting"]
        /\ Goto(r, IF b = Bases THEN "done" ELSE pc[r])
        /\ disputed' = IF o = {} THEN disputed ELSE disputed \cup {key[r]}
        /\ UNCHANGED <<rows, op, key, chosen, found, left, ran, air, installed, report, met,
                       tainted, deaths>>
  BY DEF Store
<1>3. CASE pc[r] = "sendAdd" /\ Store(r, R)
  BY <1>2, <1>3 DEF R
<1>4. CASE pc[r] = "sendRemove" /\ Store(r, A)
  BY <1>2, <1>4 DEF A
<1> QED
  BY <1>1, <1>3, <1>4

LEMMA StoreTInv ==
  ASSUME TInv, NEW r \in Requests, SendAdd(r) \/ SendRemove(r) PROVE TInv'
<1>1. PICK b \in 1 .. Bases, opposite \in {Outstanding("remove", key[r]),
                                             Outstanding("add", key[r]) \cap air} :
        /\ pc[r] \in {"sendAdd", "sendRemove"}
        /\ commands[<<r, b>>] = "none"
        /\ commands' = [commands EXCEPT ![<<r, b>>] = "waiting"]
        /\ Goto(r, IF b = Bases THEN "done" ELSE pc[r])
        /\ disputed' = IF opposite = {} THEN disputed ELSE disputed \cup {key[r]}
        /\ UNCHANGED <<rows, op, key, chosen, found, left, ran, air, installed, report, met,
                       tainted, deaths>>
  BY Stores
<1>2. (IF b = Bases THEN "done" ELSE pc[r]) \in Places \ {"idle"}
  BY <1>1 DEF Places
<1>3. /\ pc' \in [Requests -> Places] /\ pc'[r] = (IF b = Bases THEN "done" ELSE pc[r])
      /\ \A q \in Requests : q # r => pc'[q] = pc[q]
      /\ last' \in Requests \cup {Nobody}
  BY <1>1, <1>2, GotoTyped
<1>4. <<r, b>> \in Ids
  BY DEF Ids
<1>5. /\ commands' \in [Ids -> {"none", "waiting", "resolved", "canceled"}]
      /\ \A i \in Ids : commands'[i] = IF i = <<r, b>> THEN "waiting" ELSE commands[i]
  BY <1>1, <1>4 DEF TInv, TypeOK
<1>6. key[r] \in Keys
  BY DEF TInv, TypeOK
<1>7. TypeOK'
  BY <1>1, <1>3, <1>5, <1>6 DEF TInv, TypeOK, Known
<1>8. op[r] \in {"add", "remove"}
  BY <1>1 DEF TInv, Housekept, PlacesFit
<1>9. Housekept'
  <2>1. IsFiniteSet(rows')
    BY <1>1 DEF TInv, Housekept
  <2>2. PlacesFit'
    BY <1>1, <1>3 DEF TInv, TypeOK, Housekept, PlacesFit
  <2>3. MetFit'
    BY <1>1, <1>3 DEF TInv, TypeOK, Housekept, MetFit
  <2>4. FoundFit'
    BY <1>1, <1>5 DEF TInv, TypeOK, Housekept, FoundFit
  <2>5. CommandsFit'
    BY <1>1, <1>3, <1>5, <1>8 DEF TInv, TypeOK, Housekept, CommandsFit, Ids
  <2> QED
    BY <2>1, <2>2, <2>3, <2>4, <2>5 DEF Housekept
<1> QED
  BY <1>7, <1>9 DEF TInv

\* Steps of an operation that go on.
LEMMA RemoveRowTInv == ASSUME TInv, NEW r \in Requests, RemoveRow(r) PROVE TInv'
<1>1. /\ pc[r] = "removeRow" /\ Goto(r, "findAdd") /\ rows' = rows \ chosen[r]
      /\ chosen' = [chosen EXCEPT ![r] = {}]
      /\ UNCHANGED <<op, key, found, left, commands, ran, air, installed, report, met,
                     tainted, disputed, deaths>>
  BY DEF RemoveRow
<1>2. /\ pc' \in [Requests -> Places] /\ pc'[r] = "findAdd"
      /\ \A q \in Requests : q # r => pc'[q] = pc[q]
      /\ last' \in Requests \cup {Nobody}
  BY <1>1, GotoTyped DEF Places
<1>3. IsFiniteSet(rows') /\ rows' \subseteq rows
  BY <1>1, FS_Subset DEF TInv, Housekept
<1>4. TypeOK'
  BY <1>1, <1>2, <1>3 DEF TInv, TypeOK, Known
<1>5. Housekept'
  <2>1. IsFiniteSet(rows')
    BY <1>3
  <2>2. PlacesFit'
    BY <1>1, <1>2 DEF TInv, TypeOK, Housekept, PlacesFit
  <2>3. MetFit'
    BY <1>1, <1>2 DEF TInv, TypeOK, Housekept, MetFit
  <2>4. FoundFit'
    BY <1>1, <1>2 DEF TInv, TypeOK, Housekept, FoundFit, PlacesFit, Ids
  <2>5. CommandsFit'
    BY <1>1, <1>2 DEF TInv, TypeOK, Housekept, CommandsFit, Ids
  <2> QED
    BY <2>1, <2>2, <2>3, <2>4, <2>5 DEF Housekept
<1> QED
  BY <1>4, <1>5 DEF TInv

\* What FindAdd finds are requests for the key.
LEMMA Finds ==
  ASSUME TInv, NEW r \in Requests, FindAdd(r)
  PROVE  \E one \in SUBSET Ids :
           /\ pc[r] = "findAdd" /\ Goto(r, "cancelAdd")
           /\ found' = [found EXCEPT ![r] = one]
           /\ one \subseteq AddWaiting(key[r])
           /\ disputed' = IF AddWaiting(key[r]) = one THEN disputed ELSE disputed \cup {key[r]}
           /\ UNCHANGED <<rows, op, key, chosen, left, commands, ran, air, installed, report,
                          met, tainted, deaths>>
<1>1. \A k : AddWaiting(k) \subseteq Ids
  BY DEF AddWaiting, CommandsOf
<1> QED
  BY <1>1 DEF FindAdd

LEMMA FindAddTInv == ASSUME TInv, NEW r \in Requests, FindAdd(r) PROVE TInv'
<1>1. PICK one \in SUBSET Ids :
        /\ pc[r] = "findAdd" /\ Goto(r, "cancelAdd")
        /\ found' = [found EXCEPT ![r] = one]
        /\ one \subseteq AddWaiting(key[r])
        /\ disputed' = IF AddWaiting(key[r]) = one THEN disputed ELSE disputed \cup {key[r]}
        /\ UNCHANGED <<rows, op, key, chosen, left, commands, ran, air, installed, report,
                       met, tainted, deaths>>
  BY Finds
<1>2. /\ pc' \in [Requests -> Places] /\ pc'[r] = "cancelAdd"
      /\ \A q \in Requests : q # r => pc'[q] = pc[q]
      /\ last' \in Requests \cup {Nobody}
  BY <1>1, GotoTyped DEF Places
<1>3. \A i \in one : commands[i] # "none" /\ op[i[1]] = "add" /\ key[i[1]] = key[r]
  BY <1>1 DEF AddWaiting, CommandsOf
<1>4. disputed' \subseteq Keys
  BY <1>1 DEF TInv, TypeOK
<1>5. TypeOK'
  BY <1>1, <1>2, <1>4 DEF TInv, TypeOK, Known
<1>6. Housekept'
  <2>1. IsFiniteSet(rows')
    BY <1>1 DEF TInv, Housekept
  <2>2. PlacesFit'
    BY <1>1, <1>2 DEF TInv, TypeOK, Housekept, PlacesFit
  <2>3. MetFit'
    BY <1>1, <1>2 DEF TInv, TypeOK, Housekept, MetFit
  <2>4. FoundFit'
    BY <1>1, <1>2, <1>3 DEF TInv, TypeOK, Housekept, FoundFit, PlacesFit, Ids
  <2>5. CommandsFit'
    BY <1>1, <1>2 DEF TInv, TypeOK, Housekept, CommandsFit, Ids
  <2> QED
    BY <2>1, <2>2, <2>3, <2>4, <2>5 DEF Housekept
<1> QED
  BY <1>5, <1>6 DEF TInv

LEMMA CancelAddTInv == ASSUME TInv, NEW r \in Requests, CancelAdd(r) PROVE TInv'
<1>1. PICK copies \in SUBSET found[r] :
        /\ pc[r] = "cancelAdd" /\ Goto(r, "sendRemove")
        /\ commands' = [i \in Ids |-> IF i \in found[r] THEN "canceled" ELSE commands[i]]
        /\ ran' = ran \ found[r] /\ air' = air \cup copies
        /\ found' = [found EXCEPT ![r] = {}]
        /\ UNCHANGED <<rows, op, key, chosen, left, installed, report, met, tainted,
                       disputed, deaths>>
  BY DEF CancelAdd
<1>2. /\ pc' \in [Requests -> Places] /\ pc'[r] = "sendRemove"
      /\ \A q \in Requests : q # r => pc'[q] = pc[q]
      /\ last' \in Requests \cup {Nobody}
  BY <1>1, GotoTyped DEF Places
<1>3. found[r] \subseteq Ids
  BY DEF TInv, TypeOK
<1>4. \A i \in found[r] : /\ commands[i] # "none" /\ op[i[1]] = "add"
  BY DEF TInv, Housekept, FoundFit
<1>5. TypeOK'
  BY <1>1, <1>2, <1>3 DEF TInv, TypeOK, Known
<1>6. Housekept'
  <2>1. IsFiniteSet(rows')
    BY <1>1 DEF TInv, Housekept
  <2>2. PlacesFit'
    BY <1>1, <1>2 DEF TInv, TypeOK, Housekept, PlacesFit
  <2>3. MetFit'
    BY <1>1, <1>2 DEF TInv, TypeOK, Housekept, MetFit
  <2>4. FoundFit'
    BY <1>1, <1>2, <1>3 DEF TInv, TypeOK, Housekept, FoundFit, PlacesFit, Ids
  <2>5. CommandsFit'
    BY <1>1, <1>2, <1>3, <1>4 DEF TInv, TypeOK, Housekept, CommandsFit, Ids
  <2> QED
    BY <2>1, <2>2, <2>3, <2>4, <2>5 DEF Housekept
<1> QED
  BY <1>5, <1>6 DEF TInv

LEMMA ApplySyncTInv ==
  ASSUME TInv, NEW r \in Requests, NEW k \in left[r], ApplySync(r, k) PROVE TInv'
<1>1. /\ pc[r] = "applySync" /\ left' = [left EXCEPT ![r] = @ \ {k}]
      /\ UNCHANGED <<rows, op, chosen, found, commands, ran, air, installed, report, met,
                     tainted, disputed, deaths>>
  BY DEF ApplySync
<1>2. /\ op[r] = "sync" /\ k \in Keys /\ found[r] = {} /\ chosen[r] = {}
  BY <1>1 DEF TInv, TypeOK, Housekept, PlacesFit
<1>3. \A q \in Requests : \A i \in found[q] : i \in Ids /\ i[1] # r
  BY <1>2 DEF TInv, TypeOK, Housekept, FoundFit
<1>4. CASE UNCHANGED <<key, pc, last>>
  <2>1. TypeOK'
    BY <1>1, <1>2, <1>4 DEF TInv, TypeOK, Known
  <2>2. Housekept'
    <3>1. PlacesFit'
      BY <1>1, <1>4 DEF TInv, TypeOK, Housekept, PlacesFit
    <3> QED
      BY <1>1, <1>4, <3>1 DEF TInv, Housekept, MetFit, FoundFit, CommandsFit
  <2> QED
    BY <2>1, <2>2 DEF TInv
<1>5. CASE Known(k) /\ key' = [key EXCEPT ![r] = k] /\ Goto(r, "saveSync")
  <2>1. /\ pc' \in [Requests -> Places] /\ pc'[r] = "saveSync"
        /\ \A q \in Requests : q # r => pc'[q] = pc[q]
        /\ last' \in Requests \cup {Nobody}
    BY <1>5, GotoTyped DEF Places
  <2>2. TypeOK'
    BY <1>1, <1>2, <1>5, <2>1 DEF TInv, TypeOK, Known
  <2>3. Housekept'
    <3>1. PlacesFit'
      BY <1>1, <2>1 DEF TInv, TypeOK, Housekept, PlacesFit
    <3>2. MetFit'
      BY <1>1, <2>1 DEF TInv, TypeOK, Housekept, MetFit
    <3>3. FoundFit'
      BY <1>1, <1>2, <1>3, <1>5 DEF TInv, TypeOK, Housekept, FoundFit, Ids
    <3>4. CommandsFit'
      BY <1>1, <2>1 DEF TInv, TypeOK, Housekept, CommandsFit, Ids
    <3> QED
      BY <1>1, <3>1, <3>2, <3>3, <3>4 DEF TInv, Housekept
  <2> QED
    BY <2>2, <2>3 DEF TInv
<1> QED
  BY <1>4, <1>5 DEF ApplySync

LEMMA EndSyncTInv == ASSUME TInv, NEW r \in Requests, EndSync(r) PROVE TInv'
<1>1. /\ pc[r] = "applySync" /\ Goto(r, "done") /\ left[r] = {}
      /\ UNCHANGED <<rows, op, key, chosen, found, left, commands, ran, air, installed,
                     report, met, tainted, disputed, deaths>>
  BY DEF EndSync
<1>2. /\ pc' \in [Requests -> Places] /\ pc'[r] = "done"
      /\ \A q \in Requests : q # r => pc'[q] = pc[q]
      /\ last' \in Requests \cup {Nobody}
  BY <1>1, GotoTyped DEF Places
<1>3. TypeOK'
  BY <1>1, <1>2 DEF TInv, TypeOK, Known
<1>4. Housekept'
  <2>1. IsFiniteSet(rows')
    BY <1>1 DEF TInv, Housekept
  <2>2. PlacesFit'
    BY <1>1, <1>2 DEF TInv, TypeOK, Housekept, PlacesFit
  <2>3. MetFit'
    BY <1>1, <1>2 DEF TInv, TypeOK, Housekept, MetFit
  <2>4. FoundFit'
    BY <1>1, <1>2 DEF TInv, TypeOK, Housekept, FoundFit, PlacesFit, Ids
  <2>5. CommandsFit'
    BY <1>1, <1>2 DEF TInv, TypeOK, Housekept, CommandsFit, Ids
  <2> QED
    BY <2>1, <2>2, <2>3, <2>4, <2>5 DEF Housekept
<1> QED
  BY <1>3, <1>4 DEF TInv

LEMMA DieTInv == ASSUME TInv, NEW r \in Requests, Die(r) PROVE TInv'
<1>1. /\ pc[r] \notin {"idle", "done"} /\ deaths < MaxDeaths /\ deaths' = deaths + 1
      /\ pc' = [pc EXCEPT ![r] = "done"] /\ last' = Nobody
      /\ disputed' = disputed \cup {key[r]}
      /\ chosen' = [chosen EXCEPT ![r] = {}] /\ found' = [found EXCEPT ![r] = {}]
      /\ left' = [left EXCEPT ![r] = {}]
      /\ UNCHANGED <<rows, op, key, commands, ran, air, installed, report, met, tainted>>
  BY DEF Die, InFlight
<1>2. /\ pc' \in [Requests -> Places] /\ pc'[r] = "done"
      /\ \A q \in Requests : q # r => pc'[q] = pc[q]
  BY <1>1 DEF TInv, TypeOK, Places
<1>3. deaths' \in 0 .. MaxDeaths /\ disputed' \subseteq Keys
  BY <1>1, SensorsAssumption DEF TInv, TypeOK, SensorsAssumption
<1>4. TypeOK'
  BY <1>1, <1>2, <1>3 DEF TInv, TypeOK, Known
<1>5. Housekept'
  <2>1. IsFiniteSet(rows')
    BY <1>1 DEF TInv, Housekept
  <2>2. PlacesFit'
    BY <1>1, <1>2 DEF TInv, TypeOK, Housekept, PlacesFit
  <2>3. MetFit'
    BY <1>1, <1>2 DEF TInv, TypeOK, Housekept, MetFit
  <2>4. FoundFit'
    BY <1>1, <1>2 DEF TInv, TypeOK, Housekept, FoundFit, PlacesFit, Ids
  <2>5. CommandsFit'
    BY <1>1, <1>2 DEF TInv, TypeOK, Housekept, CommandsFit, Ids
  <2> QED
    BY <2>1, <2>2, <2>3, <2>4, <2>5 DEF Housekept
<1> QED
  BY <1>4, <1>5 DEF TInv

\* Steps of the device and of what is under way to it.
LEMMA DeviceTInv ==
  ASSUME TInv, NEW i \in Ids, Execute(i) \/ Answer(i) \/ Lapse(i) PROVE TInv'
<1>1. UNCHANGED <<rows, op, pc, key, chosen, found, left, report, met, last, tainted,
                  disputed, deaths>>
  BY DEF Execute, Answer, Lapse
<1>2. key[i[1]] \in Keys
  BY DEF TInv, TypeOK, Ids
<1>3. /\ installed' \subseteq Keys /\ ran' \subseteq Ids /\ air' \subseteq Ids
      /\ commands' \in [Ids -> {"none", "waiting", "resolved", "canceled"}]
  BY <1>2 DEF Execute, Answer, Lapse, TInv, TypeOK
<1>4. TypeOK'
  BY <1>1, <1>3 DEF TInv, TypeOK, Known
<1>5. \A j \in Ids : /\ commands'[j] = "none" <=> commands[j] = "none"
                     /\ commands'[j] = "canceled" => commands[j] = "canceled"
                     /\ j \in ran' => commands'[j] = "waiting"
                     /\ j \in air' => commands[j] # "none"
  BY DEF Execute, Answer, Lapse, TInv, TypeOK, Housekept, CommandsFit
<1>6. Housekept'
  <2>1. PlacesFit' /\ MetFit' /\ IsFiniteSet(rows')
    BY <1>1 DEF TInv, Housekept, PlacesFit, MetFit
  <2>2. FoundFit'
    BY <1>1, <1>5 DEF TInv, TypeOK, Housekept, FoundFit
  <2>3. CommandsFit'
    BY <1>1, <1>5 DEF TInv, Housekept, CommandsFit
  <2> QED
    BY <2>1, <2>2, <2>3 DEF Housekept
<1> QED
  BY <1>4, <1>6 DEF TInv

LEMMA NextTInv == TInv /\ [Next]_vars => TInv'
<1> SUFFICES ASSUME TInv, [Next]_vars PROVE TInv'
  OBVIOUS
<1>1. ASSUME NEW r \in Requests, Step(r) PROVE TInv'
  BY <1>1, AddTInv, SaveTInv, StoreTInv, RemoveTInv, RemoveRowTInv, FindAddTInv, CancelAddTInv,
     SyncTInv, ApplySyncTInv, EndSyncTInv, DieTInv DEF Step
<1>2. ASSUME NEW i \in Ids, Execute(i) \/ Answer(i) \/ Lapse(i) PROVE TInv'
  BY <1>2, DeviceTInv
<1>3. CASE UNCHANGED vars
  BY <1>3 DEF vars, TInv, TypeOK, Housekept, PlacesFit, MetFit, FoundFit, CommandsFit, Known
<1> QED
  BY <1>1, <1>2, <1>3 DEF Next

\* The variables of DeviceSensors keep their types: in particular every row and every
\* operation that will store one is of a sensor that the server knows
\* (services/sensor.ts, applyDeviceSync), whatever overlaps and whatever is cut short.
THEOREM TypeCorrect == Spec => []TypeOK
<1>1. TInv => TypeOK
  BY DEF TInv
<1> QED
  BY <1>1, InitTInv, NextTInv, PTL DEF Spec

-----------------------------------------------------------------------------
(* Addresses *)

\* While nothing disturbed it: one operation at most is about to store; the rows
\* have addresses, each its own; the one that an add has chosen is free; what a
\* report stores is of its keys, and they have addresses of their own.
Undisturbed ==
  /\ \A q, r \in Storing : q = r
  /\ \A c, d \in OfType(SDI) : /\ c.key.address \in Nat
                               /\ c # d => c.key.address # d.key.address
  /\ \A r \in Requests : pc[r] = "saveRow" /\ Bused(key[r]) =>
       /\ key[r].address \in Nat
       /\ \A c \in OfType(SDI) : c.key.address # key[r].address
  /\ \A r \in Requests : pc[r] \in {"applySync", "saveSync"} =>
       /\ Addressed(report[r]) /\ left[r] \subseteq report[r]
       /\ \A c \in rows : c.key \in report[r]
       /\ pc[r] = "saveSync" => key[r] \in report[r] /\ ~HasRow(key[r])

AInv == ~tainted => Undisturbed

\* Steps that store nothing and go nowhere from where an operation stores.
LEMMA QuietAInv ==
  ASSUME TInv, AInv, tainted' = tainted, rows' \subseteq rows, report' = report,
         \A q \in Requests : pc'[q] \in {"saveRow", "applySync", "saveSync"} =>
           pc'[q] = pc[q] /\ key'[q] = key[q] /\ left'[q] = left[q]
  PROVE  AInv'
<1> SUFFICES ASSUME ~tainted PROVE Undisturbed'
  BY DEF AInv
<1>1. Undisturbed
  BY DEF AInv
<1>2. Storing' \subseteq Storing
  BY DEF Storing
<1>3. OfType(SDI)' \subseteq OfType(SDI)
  BY DEF OfType
<1>4. \A q, r \in Storing' : q = r
  BY <1>1, <1>2 DEF Undisturbed
<1>5. \A c, d \in OfType(SDI)' : /\ c.key.address \in Nat
                                 /\ c # d => c.key.address # d.key.address
  BY <1>1, <1>3 DEF Undisturbed
<1>6. \A r \in Requests : pc'[r] = "saveRow" /\ Bused(key'[r]) =>
        /\ key'[r].address \in Nat
        /\ \A c \in OfType(SDI)' : c.key.address # key'[r].address
  BY <1>1, <1>3 DEF Undisturbed
<1>7. \A r \in Requests : pc'[r] \in {"applySync", "saveSync"} =>
        /\ Addressed(report'[r]) /\ left'[r] \subseteq report'[r]
        /\ \A c \in rows' : c.key \in report'[r]
        /\ pc'[r] = "saveSync" => key'[r] \in report'[r] /\ \A c \in rows' : c.key # key'[r]
  BY <1>1 DEF Undisturbed, HasRow
<1> QED
  BY <1>4, <1>5, <1>6, <1>7 DEF Undisturbed, Bused, HasRow

LEMMA AddAInv ==
  ASSUME TInv, AInv, NEW r \in Requests, NEW s \in Sensors, Add(r, s) PROVE AInv'
<1>1. UNCHANGED <<rows, left, report>>
  BY DEF Add
<1>2. CASE Goto(r, "done") /\ UNCHANGED <<key, tainted>>
  BY <1>1, <1>2, QuietAInv DEF Goto, TInv, TypeOK
<1>3. CASE /\ Goto(r, "saveRow") /\ key' = [key EXCEPT ![r] = build(s)]
           /\ tainted' = (tainted \/ Storing # {})
  <2> SUFFICES ASSUME ~tainted, Storing = {} PROVE Undisturbed'
    BY <1>3 DEF AInv
  <2>1. Undisturbed
    BY DEF AInv
  <2>2. /\ pc'[r] = "saveRow" /\ key'[r] = build(s)
        /\ \A q \in Requests : q # r => pc'[q] = pc[q] /\ key'[q] = key[q]
    BY <1>3 DEF Goto, TInv, TypeOK
  <2>3. \A q \in Requests : pc'[q] \in {"saveRow", "applySync", "saveSync"} => q = r
    BY <2>2 DEF Storing
  <2>4. OfType(SDI)' = OfType(SDI) /\ IsFiniteSet(OfType(SDI))
    BY <1>1, FS_Subset DEF OfType, TInv, Housekept
  <2>5. /\ build(s).sensor = s
        /\ TypeOf[s] = SDI => /\ build(s).address = assignUniqueIdentity(OfType(SDI))
                              /\ build(s).address \in Nat
    BY BuildTyped
  <2>6. assignUniqueIdentity(OfType(SDI)) = FirstGap(OfType(SDI))
    <3>1. \A c \in OfType(SDI) : c.key.address # None
      BY <2>1 DEF Undisturbed, None
    <3> QED
      BY <3>1 DEF assignUniqueIdentity
  <2>7. \A c \in OfType(SDI) : c.key.address # FirstGap(OfType(SDI))
    BY <2>1, <2>4, GapIsFree DEF Undisturbed
  <2>8. Bused(key'[r]) => /\ key'[r].address \in Nat
                          /\ \A c \in OfType(SDI)' : c.key.address # key'[r].address
    BY <2>2, <2>4, <2>5, <2>6, <2>7 DEF Bused
  <2> QED
    BY <2>1, <2>2, <2>3, <2>4, <2>8 DEF Undisturbed, Storing, Bused
<1> QED
  BY <1>2, <1>3 DEF Add

LEMMA SaveAInv ==
  ASSUME TInv, AInv, NEW r \in Requests, SaveRow(r) \/ SaveSync(r) PROVE AInv'
<1> SUFFICES ASSUME ~tainted' PROVE Undisturbed'
  BY DEF AInv
<1> DEFINE new == [by |-> r, key |-> key[r]]
<1>1. /\ pc[r] \in {"saveRow", "saveSync"}
      /\ Goto(r, IF pc[r] = "saveRow" THEN "sendAdd" ELSE "applySync")
      /\ rows' = rows \cup {new} /\ UNCHANGED <<key, left, report, tainted>>
  BY DEF SaveRow, SaveSync
<1>2. Undisturbed
  BY <1>1 DEF AInv
<1>3. /\ pc'[r] = (IF pc[r] = "saveRow" THEN "sendAdd" ELSE "applySync")
      /\ \A q \in Requests : q # r => pc'[q] = pc[q]
  BY <1>1 DEF Goto, TInv, TypeOK
<1>4. r \in Storing /\ \A q \in Storing : q = r
  BY <1>1, <1>2 DEF Undisturbed, Storing
<1>5. \A q \in Requests : pc'[q] \in {"saveRow", "applySync", "saveSync"} =>
        q = r /\ pc[r] = "saveSync" /\ pc'[r] = "applySync"
  BY <1>1, <1>3, <1>4 DEF Storing
<1>6. OfType(SDI)' \subseteq OfType(SDI) \cup {new}
      /\ (new \in OfType(SDI)' => Bused(key[r]))
  BY <1>1 DEF OfType, Bused, TInv, TypeOK, Rows, Known
<1>7. Bused(key[r]) => /\ key[r].address \in Nat
                       /\ \A c \in OfType(SDI) : c.key.address # key[r].address
  <2>1. CASE pc[r] = "saveRow"
    BY <1>2, <2>1 DEF Undisturbed
  <2>2. CASE pc[r] = "saveSync"
    <3>1. /\ Addressed(report[r]) /\ key[r] \in report[r] /\ ~HasRow(key[r])
          /\ \A c \in rows : c.key \in report[r]
      BY <1>2, <2>2 DEF Undisturbed
    <3>2. \A c \in OfType(SDI) : Bused(c.key) /\ c.key \in report[r] /\ c.key # key[r]
      BY <3>1 DEF OfType, Bused, HasRow, TInv, TypeOK, Rows, Known
    <3> QED
      BY <3>1, <3>2 DEF Addressed
  <2> QED
    BY <1>1, <2>1, <2>2
<1>8. \A c, d \in OfType(SDI)' : /\ c.key.address \in Nat
                                 /\ c # d => c.key.address # d.key.address
  <2>1. new.key = key[r]
    OBVIOUS
  <2> HIDE DEF new
  <2> QED
    BY <1>2, <1>6, <1>7, <2>1 DEF Undisturbed
<1>9. pc[r] = "saveSync" => /\ Addressed(report[r]) /\ left[r] \subseteq report[r]
                            /\ \A c \in rows' : c.key \in report[r]
  BY <1>1, <1>2 DEF Undisturbed
<1> QED
  BY <1>1, <1>3, <1>5, <1>8, <1>9 DEF Undisturbed, Storing

LEMMA SyncAInv ==
  ASSUME TInv, AInv, NEW r \in Requests, NEW keys \in Reports, Sync(r, keys) PROVE AInv'
<1> SUFFICES ASSUME ~tainted' PROVE Undisturbed'
  BY DEF AInv
<1>1. /\ Goto(r, "applySync") /\ rows' = {} /\ Storing = {} /\ Addressed(keys)
      /\ left' = [left EXCEPT ![r] = keys] /\ report' = [report EXCEPT ![r] = keys]
  BY DEF Sync, RowsLeft
<1>2. /\ pc'[r] = "applySync" /\ left'[r] = keys /\ report'[r] = keys
      /\ \A q \in Requests : q # r => pc'[q] = pc[q]
  BY <1>1 DEF Goto, TInv, TypeOK
<1>3. \A q \in Requests : pc'[q] \in {"saveRow", "applySync", "saveSync"} => q = r
  BY <1>1, <1>2 DEF Storing
<1>4. OfType(SDI)' = {}
  BY <1>1 DEF OfType
<1> QED
  BY <1>1, <1>2, <1>3, <1>4 DEF Undisturbed, Storing

LEMMA ApplySyncAInv ==
  ASSUME TInv, AInv, NEW r \in Requests, NEW k \in left[r], ApplySync(r, k) PROVE AInv'
<1> SUFFICES ASSUME ~tainted' PROVE Undisturbed'
  BY DEF AInv
<1>1. /\ pc[r] = "applySync" /\ left' = [left EXCEPT ![r] = @ \ {k}]
      /\ UNCHANGED <<rows, report, tainted>>
      /\ \/ UNCHANGED <<key, pc>>
         \/ key' = [key EXCEPT ![r] = k] /\ Goto(r, "saveSync") /\ ~HasRow(k)
  BY DEF ApplySync
<1>2. Undisturbed
  BY <1>1 DEF AInv
<1>3. /\ left'[r] \subseteq left[r]
      /\ pc'[r] \in {"applySync", "saveSync"}
      /\ pc'[r] = "saveSync" => key'[r] = k /\ ~HasRow(k)
      /\ \A q \in Requests : q # r => pc'[q] = pc[q] /\ key'[q] = key[q] /\ left'[q] = left[q]
  BY <1>1 DEF Goto, TInv, TypeOK
<1>4. r \in Storing /\ \A q \in Storing : q = r
  BY <1>1, <1>2 DEF Undisturbed, Storing
<1>5. \A q \in Requests : pc'[q] \in {"saveRow", "applySync", "saveSync"} => q = r
  BY <1>3, <1>4 DEF Storing
<1>6. OfType(SDI)' = OfType(SDI)
  BY <1>1 DEF OfType
<1>7. /\ Addressed(report'[r]) /\ left'[r] \subseteq report'[r]
      /\ \A c \in rows' : c.key \in report'[r]
      /\ pc'[r] = "saveSync" => key'[r] \in report'[r] /\ \A c \in rows' : c.key # key'[r]
  BY <1>1, <1>2, <1>3 DEF Undisturbed, HasRow
<1>8. \A c, d \in OfType(SDI)' : /\ c.key.address \in Nat
                                 /\ c # d => c.key.address # d.key.address
  BY <1>2, <1>6 DEF Undisturbed
<1> QED
  BY <1>3, <1>5, <1>7, <1>8 DEF Undisturbed, Storing, HasRow

LEMMA NextAInv == TInv /\ AInv /\ [Next]_vars => AInv'
<1> SUFFICES ASSUME TInv, AInv, [Next]_vars PROVE AInv'
  OBVIOUS
<1>1. ASSUME NEW r \in Requests, Step(r) PROVE AInv'
  <2>1. ASSUME NEW s \in Sensors, Add(r, s) PROVE AInv'
    BY <2>1, AddAInv
  <2>2. CASE SaveRow(r) \/ SaveSync(r)
    BY <2>2, SaveAInv
  <2>3. ASSUME NEW keys \in Reports, Sync(r, keys) PROVE AInv'
    BY <2>3, SyncAInv
  <2>4. ASSUME NEW k \in left[r], ApplySync(r, k) PROVE AInv'
    BY <2>4, ApplySyncAInv
  <2>5. CASE SendAdd(r) \/ SendRemove(r)
    <3>1. PICK b \in 1 .. Bases :
            /\ pc[r] \in {"sendAdd", "sendRemove"}
            /\ Goto(r, IF b = Bases THEN "done" ELSE pc[r])
            /\ UNCHANGED <<rows, key, left, report, tainted>>
      BY <2>5, Stores
    <3>2. /\ pc'[r] \notin {"saveRow", "applySync", "saveSync"}
          /\ \A q \in Requests : q # r => pc'[q] = pc[q]
      BY <3>1 DEF Goto, TInv, TypeOK
    <3> QED
      BY <3>1, <3>2, QuietAInv
  <2>6. ASSUME NEW c \in rows, Remove(r, c) PROVE AInv'
    BY <2>6, QuietAInv DEF Remove, Goto, TInv, TypeOK
  <2>7. CASE RemoveRow(r)
    BY <2>7, QuietAInv DEF RemoveRow, Goto, TInv, TypeOK
  <2>8. CASE FindAdd(r)
    BY <2>8, QuietAInv DEF FindAdd, Goto, TInv, TypeOK
  <2>9. CASE CancelAdd(r)
    BY <2>9, QuietAInv DEF CancelAdd, Goto, TInv, TypeOK
  <2>10. CASE EndSync(r)
    BY <2>10, QuietAInv DEF EndSync, Goto, TInv, TypeOK
  <2>11. CASE Die(r)
    BY <2>11, QuietAInv DEF Die, TInv, TypeOK
  <2> QED
    BY <1>1, <2>1, <2>2, <2>3, <2>4, <2>5, <2>6, <2>7, <2>8, <2>9, <2>10, <2>11 DEF Step
<1>2. ASSUME NEW i \in Ids, Execute(i) \/ Answer(i) \/ Lapse(i) PROVE AInv'
  BY <1>2, QuietAInv DEF Execute, Answer, Lapse
<1>3. CASE UNCHANGED vars
  BY <1>3, QuietAInv DEF vars
<1> QED
  BY <1>1, <1>2, <1>3 DEF Next

\* No two SDI-12 sensors have the same address (SensorTypeRules.assignUniqueIdentity),
\* for every number of sensors, operations and interruptions, unless two operations
\* read the rows before either stored, or the device itself reported one twice; and
\* the first report after that which nothing disturbs repairs it.
THEOREM AddressesStayDistinct == Spec => []AddressesDistinct
<1>1. Init => AInv
  BY DEF Init, AInv, Undisturbed, Storing, OfType
<1>2. AInv => AddressesDistinct
  BY DEF AInv, Undisturbed, AddressesDistinct
<1> QED
  BY <1>1, <1>2, InitTInv, NextTInv, NextAInv, PTL DEF Spec

-----------------------------------------------------------------------------
(* Reports *)

\* The operations that overlap a report, or came after it and are not done yet.
Others(r) == (met[r] \cup InFlight) \ {r}

\* A report is under way, or was the last operation that was done.
Reporting(r) == op[r] = "sync" /\ (r \in InFlight \/ last = r)

\* A row that has gone was removed or wiped by one of the others.
Lost(r, k) ==
  \E q \in Others(r) : op[q] = "sync" \/ (op[q] = "remove" /\ key[q] = k)

\* The rows are of the report or of others, and its keys that are neither waiting
\* nor being stored have a row, unless one of the others took it.
ReportedSoFar(r) ==
  /\ r \in InFlight => InFlight \subseteq met[r] \cup {r}
  /\ left[r] \subseteq report[r]
  /\ pc[r] = "saveSync" => key[r] \in report[r]
  /\ \A c \in rows : c.by \in Others(r) \/ (c.by = r /\ c.key \in report[r])
  /\ \A k \in report[r] :
       Known(k) /\ k \notin left[r] /\ ~(pc[r] = "saveSync" /\ key[r] = k) =>
         HasRow(k) \/ Lost(r, k)

RInv == \A r \in Requests : Reporting(r) => ReportedSoFar(r)

\* What Goto does to the operations that are under way.
LEMMA GoesOn ==
  ASSUME TInv, NEW r \in Requests, NEW place \in Places \ {"idle"}, Goto(r, place)
  PROVE  /\ place # "done" => InFlight' = InFlight \cup {r} /\ last' = last
         /\ place = "done" => InFlight' = InFlight \ {r} /\ last' = r
  BY DEF Goto, InFlight, TInv, TypeOK

\* Steps that store nothing and apply nothing, and remove at most what a request to
\* remove has chosen.
LEMMA QuietRInv ==
  ASSUME TInv, RInv, UNCHANGED <<op, report, met, left, key>>,
         rows' \subseteq rows,
         \A c \in rows : c \in rows' \/ \E q \in InFlight : op[q] = "remove" /\ key[q] = c.key,
         \A q \in Requests : (pc'[q] = "saveSync") <=> (pc[q] = "saveSync"),
         \/ InFlight' = InFlight /\ last' = last
         \/ \E p \in InFlight : InFlight' = InFlight \ {p} /\ last' = p
  PROVE  RInv'
<1> SUFFICES ASSUME NEW r \in Requests, Reporting(r)' PROVE ReportedSoFar(r)'
  BY DEF RInv
<1>1. Reporting(r) /\ ReportedSoFar(r)
  BY DEF Reporting, RInv
<1>2. InFlight' \subseteq InFlight
  OBVIOUS
<1>3. Others(r)' = Others(r)
  <2>1. CASE InFlight' = InFlight
    BY <2>1 DEF Others
  <2>2. CASE InFlight' # InFlight
    <3>1. PICK p \in InFlight : InFlight' = InFlight \ {p} /\ last' = p
      BY <2>2
    <3>2. r \in InFlight
      BY <3>1 DEF Reporting
    <3>3. InFlight \subseteq met[r] \cup {r}
      BY <1>1, <3>2 DEF ReportedSoFar
    <3> QED
      BY <3>1, <3>3 DEF Others
  <2> QED
    BY <2>1, <2>2
<1>4. r \in InFlight' => InFlight' \subseteq met'[r] \cup {r}
  BY <1>1, <1>2 DEF ReportedSoFar
<1>5. \A c \in rows' : c.by \in Others(r)' \/ (c.by = r /\ c.key \in report'[r])
  BY <1>1, <1>3 DEF ReportedSoFar
<1>6. \A k : Lost(r, k)' <=> Lost(r, k)
  BY <1>3 DEF Lost
<1>7. \A k : HasRow(k) => HasRow(k)' \/ Lost(r, k)
  <2> SUFFICES ASSUME NEW c \in rows, c \notin rows' PROVE Lost(r, c.key)
    BY DEF HasRow
  <2>1. PICK q \in InFlight : op[q] = "remove" /\ key[q] = c.key
    OBVIOUS
  <2>2. q \in Others(r)
    BY <1>1, <2>1 DEF Others, Reporting
  <2> QED
    BY <2>1, <2>2 DEF Lost
<1>8. \A k \in report'[r] :
        Known(k) /\ k \notin left'[r] /\ ~(pc'[r] = "saveSync" /\ key'[r] = k) =>
          HasRow(k)' \/ Lost(r, k)'
  BY <1>1, <1>6, <1>7 DEF ReportedSoFar
<1>9. left'[r] \subseteq report'[r] /\ (pc'[r] = "saveSync" => key'[r] \in report'[r])
  BY <1>1 DEF ReportedSoFar
<1> QED
  BY <1>4, <1>5, <1>8, <1>9 DEF ReportedSoFar, Known

\* A request of an operator begins.
LEMMA BeginRInv ==
  ASSUME TInv, RInv, NEW r \in Requests, NEW what \in {"add", "remove"}, Begin(r, what),
         NEW place \in Places \ {"idle", "applySync", "saveSync"}, Goto(r, place),
         UNCHANGED <<rows, left, report>>,
         \A q \in Requests : q # r => key'[q] = key[q]
  PROVE  RInv'
<1> SUFFICES ASSUME NEW q \in Requests, Reporting(q)' PROVE ReportedSoFar(q)'
  BY DEF RInv
<1>1. /\ pc[r] = "idle" /\ op'[r] = what /\ \A p \in Requests : p # r => op'[p] = op[p]
      /\ met' = [p \in Requests |-> IF p \in InFlight /\ op[p] = "sync" THEN met[p] \cup {r}
                                                                        ELSE met[p]]
  BY DEF Begin, InFlight, TInv, TypeOK
<1>2. /\ pc'[r] = place /\ \A p \in Requests : p # r => pc'[p] = pc[p]
  BY GotoTyped
<1>3. /\ r \notin InFlight /\ InFlight' \subseteq InFlight \cup {r} /\ InFlight \subseteq InFlight'
      /\ last' \in {last, r}
  BY <1>1, GoesOn DEF InFlight
<1>4. q # r /\ Reporting(q)
  BY <1>1, <1>3 DEF Reporting
<1>5. ReportedSoFar(q)
  BY <1>4 DEF RInv
<1>6. met[q] \subseteq met'[q] /\ met'[q] \subseteq met[q] \cup {r} /\ r \notin met[q]
  BY <1>1 DEF TInv, Housekept, MetFit
<1>7. Others(q) \subseteq Others(q)' /\ r \notin Others(q)
  BY <1>3, <1>6 DEF Others
<1>8. q \in InFlight' => InFlight' \subseteq met'[q] \cup {q}
  BY <1>1, <1>3, <1>4, <1>5 DEF ReportedSoFar, Reporting
<1>9. \A k : Lost(q, k) => Lost(q, k)'
  <2>1. \A p \in Others(q) : op'[p] = op[p] /\ key'[p] = key[p]
    BY <1>1, <1>7 DEF Others, InFlight, TInv, TypeOK
  <2> QED
    BY <1>7, <2>1 DEF Lost
<1>10. \A k \in report'[q] :
        Known(k) /\ k \notin left'[q] /\ ~(pc'[q] = "saveSync" /\ key'[q] = k) =>
          HasRow(k)' \/ Lost(q, k)'
  BY <1>2, <1>4, <1>5, <1>9 DEF ReportedSoFar, HasRow
<1>11. \A c \in rows' : c.by \in Others(q)' \/ (c.by = q /\ c.key \in report'[q])
  BY <1>5, <1>7 DEF ReportedSoFar
<1>12. left'[q] \subseteq report'[q] /\ (pc'[q] = "saveSync" => key'[q] \in report'[q])
  BY <1>2, <1>4, <1>5 DEF ReportedSoFar
<1> QED
  BY <1>8, <1>10, <1>11, <1>12 DEF ReportedSoFar, Known

LEMMA SyncRInv ==
  ASSUME TInv, RInv, NEW r \in Requests, NEW keys \in Reports, Sync(r, keys) PROVE RInv'
<1> SUFFICES ASSUME NEW q \in Requests, Reporting(q)' PROVE ReportedSoFar(q)'
  BY DEF RInv
<1>1. /\ pc[r] = "idle" /\ op'[r] = "sync" /\ \A p \in Requests : p # r => op'[p] = op[p]
      /\ met' = [p \in Requests |->
                   IF p = r THEN InFlight
                   ELSE IF p \in InFlight /\ op[p] = "sync" THEN met[p] \cup {r} ELSE met[p]]
      /\ Goto(r, "applySync") /\ rows' = {} /\ key' = key
      /\ left' = [left EXCEPT ![r] = keys] /\ report' = [report EXCEPT ![r] = keys]
  BY DEF Sync, RowsLeft, Begin, InFlight, TInv, TypeOK
<1>2. /\ pc'[r] = "applySync" /\ \A p \in Requests : p # r => pc'[p] = pc[p]
      /\ InFlight' = InFlight \cup {r} /\ last' = last
  BY <1>1, GotoTyped, GoesOn DEF Places
<1>3. left'[r] = keys /\ report'[r] = keys
      /\ \A p \in Requests : p # r => left'[p] = left[p] /\ report'[p] = report[p]
  BY <1>1 DEF TInv, TypeOK
<1>4. CASE q = r
  BY <1>1, <1>2, <1>3, <1>4 DEF ReportedSoFar, InFlight
<1>5. CASE q # r
  <2>1. ReportedSoFar(q)
    BY <1>1, <1>2, <1>5 DEF Reporting, RInv
  <2>2. r \in Others(q)'
    BY <1>2, <1>5 DEF Others
  <2>3. \A k : Lost(q, k)'
    BY <1>1, <2>2 DEF Lost
  <2>4. q \in InFlight' => InFlight' \subseteq met'[q] \cup {q}
    BY <1>1, <1>2, <1>5, <2>1 DEF ReportedSoFar, Reporting
  <2> QED
    BY <1>1, <1>2, <1>3, <1>5, <2>1, <2>3, <2>4 DEF ReportedSoFar
<1> QED
  BY <1>4, <1>5

LEMMA SaveRInv ==
  ASSUME TInv, RInv, NEW r \in Requests, SaveRow(r) \/ SaveSync(r) PROVE RInv'
<1> DEFINE place == IF pc[r] = "saveRow" THEN "sendAdd" ELSE "applySync"
           new == [by |-> r, key |-> key[r]]
<1>1. /\ pc[r] \in {"saveRow", "saveSync"} /\ Goto(r, place) /\ rows' = rows \cup {new}
      /\ UNCHANGED <<op, key, left, report, met>>
  BY DEF SaveRow, SaveSync
<1>2. /\ pc'[r] = place /\ place \in {"sendAdd", "applySync"}
      /\ \A p \in Requests : p # r => pc'[p] = pc[p]
      /\ InFlight' = InFlight \cup {r} /\ last' = last
  BY <1>1, GotoTyped, GoesOn DEF Places
<1>3. r \in InFlight /\ InFlight' = InFlight
  BY <1>1, <1>2 DEF InFlight
<1> SUFFICES ASSUME NEW q \in Requests, Reporting(q)' PROVE ReportedSoFar(q)'
  BY DEF RInv
<1>4. Reporting(q) /\ ReportedSoFar(q)
  BY <1>1, <1>2, <1>3 DEF Reporting, RInv
<1>5. Others(q)' = Others(q) /\ \A k : Lost(q, k)' <=> Lost(q, k)
  BY <1>1, <1>3 DEF Others, Lost
<1>6. new.by = r /\ new.key = key[r]
  OBVIOUS
<1>7. r \in Others(q) \/ (r = q /\ pc[r] = "saveSync")
  BY <1>1, <1>3, <1>4 DEF Others, Reporting, TInv, Housekept, PlacesFit
<1> HIDE DEF new, place
<1>8. \A c \in rows' : c.by \in Others(q)' \/ (c.by = q /\ c.key \in report'[q])
  BY <1>1, <1>4, <1>5, <1>6, <1>7 DEF ReportedSoFar
<1>9. \A k : HasRow(k) => HasRow(k)'
  BY <1>1 DEF HasRow
<1>10. HasRow(key[r])'
  BY <1>1, <1>6 DEF HasRow
<1>11. \A k \in report'[q] :
         Known(k) /\ k \notin left'[q] /\ ~(pc'[q] = "saveSync" /\ key'[q] = k) =>
           HasRow(k)' \/ Lost(q, k)'
  BY <1>1, <1>2, <1>4, <1>5, <1>9, <1>10 DEF ReportedSoFar
<1>12. /\ left'[q] \subseteq report'[q] /\ (pc'[q] = "saveSync" => key'[q] \in report'[q])
       /\ q \in InFlight' => InFlight' \subseteq met'[q] \cup {q}
  BY <1>1, <1>2, <1>3, <1>4 DEF ReportedSoFar
<1> QED
  BY <1>8, <1>11, <1>12 DEF ReportedSoFar, Known

LEMMA ApplySyncRInv ==
  ASSUME TInv, RInv, NEW r \in Requests, NEW j \in left[r], ApplySync(r, j) PROVE RInv'
<1>1. /\ pc[r] = "applySync" /\ op[r] = "sync" /\ left' = [left EXCEPT ![r] = @ \ {j}]
      /\ UNCHANGED <<rows, op, report, met>>
      /\ \/ (HasRow(j) \/ ~Known(j)) /\ UNCHANGED <<key, pc, last>>
         \/ key' = [key EXCEPT ![r] = j] /\ Goto(r, "saveSync")
  BY DEF ApplySync, TInv, Housekept, PlacesFit
<1>2. /\ pc'[r] \in {"applySync", "saveSync"}
      /\ \/ HasRow(j) \/ ~Known(j)
         \/ pc'[r] = "saveSync" /\ key'[r] = j
      /\ pc'[r] = "saveSync" => key'[r] = j
      /\ \A p \in Requests : p # r => pc'[p] = pc[p] /\ key'[p] = key[p]
      /\ InFlight' = InFlight /\ last' = last
  BY <1>1, GotoTyped, GoesOn DEF Places, InFlight, TInv, TypeOK
<1>3. /\ left'[r] = left[r] \ {j} /\ \A p \in Requests : p # r => left'[p] = left[p]
  BY <1>1 DEF TInv, TypeOK
<1> SUFFICES ASSUME NEW q \in Requests, Reporting(q)' PROVE ReportedSoFar(q)'
  BY DEF RInv
<1>4. Reporting(q) /\ ReportedSoFar(q)
  BY <1>1, <1>2 DEF Reporting, RInv
<1>5. Others(q)' = Others(q)
  BY <1>1, <1>2 DEF Others
<1>6. \A k : Lost(q, k) => Lost(q, k)'
  <2>1. \A p \in Others(q) : op[p] = "remove" => key'[p] = key[p]
    BY <1>1, <1>2 DEF Others, InFlight, TInv, TypeOK
  <2> QED
    BY <1>1, <1>5, <2>1 DEF Lost
<1>7. \A c \in rows' : c.by \in Others(q)' \/ (c.by = q /\ c.key \in report'[q])
  BY <1>1, <1>4, <1>5 DEF ReportedSoFar
<1>8. \A k \in report'[q] :
         Known(k) /\ k \notin left'[q] /\ ~(pc'[q] = "saveSync" /\ key'[q] = k) =>
           HasRow(k)' \/ Lost(q, k)'
  BY <1>1, <1>2, <1>3, <1>4, <1>6 DEF ReportedSoFar, HasRow
<1>9. left'[q] \subseteq report'[q] /\ (pc'[q] = "saveSync" => key'[q] \in report'[q])
  BY <1>1, <1>2, <1>3, <1>4 DEF ReportedSoFar
<1>10. q \in InFlight' => InFlight' \subseteq met'[q] \cup {q}
  BY <1>1, <1>2, <1>3, <1>4 DEF ReportedSoFar
<1> QED
  BY <1>7, <1>8, <1>9, <1>10 DEF ReportedSoFar

LEMMA DieRInv == ASSUME TInv, RInv, NEW r \in Requests, Die(r) PROVE RInv'
<1>1. /\ r \in InFlight /\ pc' = [pc EXCEPT ![r] = "done"] /\ last' = Nobody
      /\ left' = [left EXCEPT ![r] = {}]
      /\ UNCHANGED <<rows, op, key, report, met>>
  BY DEF Die
<1>2. InFlight' = InFlight \ {r}
  BY <1>1 DEF InFlight, TInv, TypeOK
<1> SUFFICES ASSUME NEW q \in Requests, Reporting(q)' PROVE ReportedSoFar(q)'
  BY DEF RInv
<1>3. Nobody \notin Requests
  BY SensorsAssumption DEF SensorsAssumption
<1>4. q \in InFlight /\ q # r /\ ReportedSoFar(q)
  BY <1>1, <1>2, <1>3 DEF Reporting, RInv
<1>5. pc'[q] = pc[q] /\ left'[q] = left[q]
  BY <1>1, <1>4 DEF TInv, TypeOK
<1>6. Others(q)' = Others(q)
  BY <1>1, <1>2, <1>4 DEF ReportedSoFar, Others
<1>7. \A k : Lost(q, k)' <=> Lost(q, k)
  BY <1>1, <1>6 DEF Lost
<1>8. \A c \in rows' : c.by \in Others(q)' \/ (c.by = q /\ c.key \in report'[q])
  BY <1>1, <1>4, <1>6 DEF ReportedSoFar
<1>9. \A k \in report'[q] :
        Known(k) /\ k \notin left'[q] /\ ~(pc'[q] = "saveSync" /\ key'[q] = k) =>
          HasRow(k)' \/ Lost(q, k)'
  BY <1>1, <1>4, <1>5, <1>7 DEF ReportedSoFar, HasRow
<1>10. /\ left'[q] \subseteq report'[q] /\ (pc'[q] = "saveSync" => key'[q] \in report'[q])
       /\ q \in InFlight' => InFlight' \subseteq met'[q] \cup {q}
  BY <1>1, <1>2, <1>4, <1>5 DEF ReportedSoFar
<1> QED
  BY <1>8, <1>9, <1>10 DEF ReportedSoFar, Known

LEMMA NextRInv == TInv /\ RInv /\ [Next]_vars => RInv'
<1> SUFFICES ASSUME TInv, RInv, [Next]_vars PROVE RInv'
  OBVIOUS
<1>1. ASSUME NEW r \in Requests, Step(r) PROVE RInv'
  <2>1. ASSUME NEW s \in Sensors, Add(r, s) PROVE RInv'
    <3>1. PICK place \in {"saveRow", "done"} :
            /\ Begin(r, "add") /\ Goto(r, place)
            /\ UNCHANGED <<rows, left, report>>
            /\ \A q \in Requests : q # r => key'[q] = key[q]
      BY <2>1 DEF Add, TInv, TypeOK
    <3> QED
      BY <3>1, BeginRInv DEF Places
  <2>2. CASE SaveRow(r) \/ SaveSync(r)
    BY <2>2, SaveRInv
  <2>3. ASSUME NEW keys \in Reports, Sync(r, keys) PROVE RInv'
    BY <2>3, SyncRInv
  <2>4. ASSUME NEW k \in left[r], ApplySync(r, k) PROVE RInv'
    BY <2>4, ApplySyncRInv
  <2>5. CASE SendAdd(r) \/ SendRemove(r)
    <3>1. PICK b \in 1 .. Bases :
            /\ pc[r] \in {"sendAdd", "sendRemove"}
            /\ Goto(r, IF b = Bases THEN "done" ELSE pc[r])
            /\ UNCHANGED <<rows, op, key, left, report, met>>
      BY <2>5, Stores
    <3>2. (IF b = Bases THEN "done" ELSE pc[r]) \in Places \ {"idle"}
      BY <3>1 DEF Places
    <3> QED
      BY <3>1, <3>2, GotoTyped, GoesOn, QuietRInv DEF InFlight
  <2>6. ASSUME NEW c \in rows, Remove(r, c) PROVE RInv'
    <3>1. /\ Begin(r, "remove") /\ Goto(r, "removeRow")
          /\ UNCHANGED <<rows, left, report>>
          /\ \A q \in Requests : q # r => key'[q] = key[q]
      BY <2>6 DEF Remove, TInv, TypeOK
    <3> QED
      BY <3>1, BeginRInv DEF Places
  <2>7. CASE RemoveRow(r)
    <3>1. /\ pc[r] = "removeRow" /\ op[r] = "remove" /\ Goto(r, "findAdd")
          /\ rows' = rows \ chosen[r] /\ \A c \in chosen[r] : c.key = key[r]
          /\ UNCHANGED <<op, key, left, report, met>>
      BY <2>7 DEF RemoveRow, TInv, TypeOK, Housekept, PlacesFit
    <3>2. /\ pc'[r] = "findAdd" /\ \A q \in Requests : q # r => pc'[q] = pc[q]
          /\ InFlight' = InFlight \cup {r} /\ last' = last
      BY <3>1, GotoTyped, GoesOn DEF Places
    <3>3. r \in InFlight
      BY <3>1 DEF InFlight
    <3> QED
      BY <3>1, <3>2, <3>3, QuietRInv
  <2>8. CASE FindAdd(r)
    <3>1. pc[r] = "findAdd" /\ Goto(r, "cancelAdd") /\ UNCHANGED <<rows, op, key, left, report, met>>
      BY <2>8 DEF FindAdd
    <3> QED
      BY <3>1, GotoTyped, GoesOn, QuietRInv DEF Places, InFlight
  <2>9. CASE CancelAdd(r)
    <3>1. pc[r] = "cancelAdd" /\ Goto(r, "sendRemove") /\ UNCHANGED <<rows, op, key, left, report, met>>
      BY <2>9 DEF CancelAdd
    <3> QED
      BY <3>1, GotoTyped, GoesOn, QuietRInv DEF Places, InFlight
  <2>10. CASE EndSync(r)
    <3>1. pc[r] = "applySync" /\ Goto(r, "done") /\ UNCHANGED <<rows, op, key, left, report, met>>
      BY <2>10 DEF EndSync
    <3> QED
      BY <3>1, GotoTyped, GoesOn, QuietRInv DEF Places, InFlight
  <2>11. CASE Die(r)
    BY <2>11, DieRInv
  <2> QED
    BY <1>1, <2>1, <2>2, <2>3, <2>4, <2>5, <2>6, <2>7, <2>8, <2>9, <2>10, <2>11 DEF Step
<1>2. ASSUME NEW i \in Ids, Execute(i) \/ Answer(i) \/ Lapse(i) PROVE RInv'
  BY <1>2, QuietRInv DEF Execute, Answer, Lapse, InFlight
<1>3. CASE UNCHANGED vars
  BY <1>3, QuietRInv DEF vars, InFlight
<1> QED
  BY <1>1, <1>2, <1>3 DEF Next

\* Once everything has ended and a report ended last, the rows are those of that
\* report, but for what operations that overlapped it stored, removed or wiped
\* (setDevicesApplied, applyDeviceSync): for every number of keys and operations.
THEOREM ReportsStored == Spec => []RowsAsReported
<1>1. Init => RInv
  BY DEF Init, RInv, Reporting
<1>2. TInv /\ RInv => RowsAsReported
  <2> SUFFICES ASSUME TInv, RInv, InFlight = {}, last \in Requests, op[last] = "sync"
               PROVE  /\ \A c \in rows : \/ c.by \in met[last]
                                         \/ c.by = last /\ c.key \in report[last]
                      /\ \A k \in report[last] : Known(k) =>
                           \/ HasRow(k)
                           \/ \E q \in met[last] :
                                op[q] = "sync" \/ (op[q] = "remove" /\ key[q] = k)
    BY DEF RowsAsReported, TInv, TypeOK
  <2>1. ReportedSoFar(last)
    BY DEF RInv, Reporting
  <2>2. Others(last) \subseteq met[last]
    BY DEF Others
  <2>3. left[last] = {} /\ pc[last] # "saveSync"
    BY DEF TInv, Housekept, PlacesFit, InFlight
  <2>4. \A c \in rows : c.by \in met[last] \/ (c.by = last /\ c.key \in report[last])
    BY <2>1, <2>2 DEF ReportedSoFar
  <2>5. \A k \in report[last] : Known(k) => HasRow(k) \/ Lost(last, k)
    BY <2>1, <2>3 DEF ReportedSoFar
  <2> QED
    BY <2>2, <2>4, <2>5 DEF Lost
<1> QED
  BY <1>1, <1>2, InitTInv, NextTInv, NextRInv, PTL DEF Spec

-----------------------------------------------------------------------------
(* Commands *)

Adds(k) == Outstanding("add", k)
Removes(k) == Outstanding("remove", k)

\* The device has the sensor, or will once its commands have been carried out; it
\* has not, or will not.
Has(k) ==
  /\ Removes(k) = {}
  /\ Adds(k) = {} => k \in installed
  /\ \A i \in CommandsOf("add", k) : commands[i] = "canceled" => i \notin air
Lacks(k) ==
  /\ Adds(k) = {}
  /\ Removes(k) = {} => k \notin installed

\* What was carried out, and may still be again, has had its effect.
CarriedOut(k) ==
  /\ \A i \in CommandsOf("add", k) :
       i \in ran \/ (commands[i] = "resolved" /\ i \in air) => k \in installed
  /\ \A i \in CommandsOf("remove", k) :
       i \in ran \/ (commands[i] = "resolved" /\ i \in air) => k \notin installed

\* The requests of operators at work on a key.
On(k) == {r \in InFlight : op[r] # "sync" /\ key[r] = k}
Sent(r) == \E b \in 1 .. Bases : commands[<<r, b>>] # "none"

\* What an operation may rely on at its place.
At(r, k) ==
  /\ pc[r] = "saveRow" => ~HasRow(k) /\ Lacks(k)
  /\ pc[r] = "sendAdd" => HasRow(k) /\ (Sent(r) => Has(k)) /\ (~Sent(r) => Lacks(k))
  /\ pc[r] = "removeRow" => Has(k) /\ \A c \in rows : c.key = k => c \in chosen[r]
  /\ pc[r] \in {"findAdd", "cancelAdd", "sendRemove"} => ~HasRow(k)
  /\ pc[r] \in {"findAdd", "cancelAdd"} => Removes(k) = {}
  /\ pc[r] = "cancelAdd" => AddWaiting(k) \subseteq found[r]
  /\ pc[r] = "sendRemove" => /\ Sent(r) => Lacks(k)
                             /\ ~Sent(r) => Removes(k) = {} /\ AddWaiting(k) = {}

Agreed(k) ==
  /\ \A q, r \in On(k) : q = r
  /\ Adds(k) = {} \/ Removes(k) = {}
  /\ CarriedOut(k)
  /\ \A c, d \in rows : c.key = k /\ d.key = k => c = d
  /\ \A r \in On(k) : At(r, k)
  /\ On(k) = {} => (HasRow(k) => Has(k)) /\ (~HasRow(k) => Lacks(k))

\* Keys that are reported are disputed.
DInv ==
  /\ \A k \in Keys \ disputed : Agreed(k)
  /\ \A r \in Requests : /\ left[r] \subseteq disputed
                         /\ pc[r] = "saveSync" => key[r] \in disputed

\* What a step that does not store a command for the key leaves as good as it was.
Kept(k) ==
  /\ Has(k) => Has(k)'
  /\ Lacks(k) => Lacks(k)'
  /\ AddWaiting(k)' \subseteq AddWaiting(k)
  /\ Adds(k) = {} => Adds(k)' = {}
  /\ Removes(k) = {} => Removes(k)' = {}
  /\ CarriedOut(k) => CarriedOut(k)'

\* A step that leaves the commands for a key alone.
LEMMA SameKept ==
  ASSUME NEW k,
         \A i \in Ids : (commands[i] # "none" \/ commands'[i] # "none") /\
                        (key[i[1]] = k \/ key'[i[1]] = k) =>
           /\ op'[i[1]] = op[i[1]] /\ key'[i[1]] = key[i[1]] /\ commands'[i] = commands[i]
           /\ i \in ran' <=> i \in ran
           /\ i \in air' <=> i \in air,
         k \in installed' <=> k \in installed
  PROVE  Kept(k)
<1>1. /\ CommandsOf("add", k)' = CommandsOf("add", k)
      /\ CommandsOf("remove", k)' = CommandsOf("remove", k)
  BY DEF CommandsOf
<1>2. \A i \in CommandsOf("add", k) \cup CommandsOf("remove", k) :
        /\ commands'[i] = commands[i]
        /\ i \in ran' <=> i \in ran
        /\ i \in air' <=> i \in air
  BY DEF CommandsOf
<1>3. Adds(k)' = Adds(k) /\ Removes(k)' = Removes(k)
  BY <1>1, <1>2 DEF Adds, Removes, Outstanding
<1>4. AddWaiting(k)' = AddWaiting(k)
  BY <1>1, <1>2 DEF AddWaiting
<1>5. CarriedOut(k) => CarriedOut(k)'
  BY <1>1, <1>2 DEF CarriedOut
<1>6. (Has(k) => Has(k)') /\ (Lacks(k) => Lacks(k)')
  BY <1>1, <1>2, <1>3 DEF Has, Lacks
<1> QED
  BY <1>3, <1>4, <1>5, <1>6 DEF Kept

\* And one that leaves all commands alone.
LEMMA AllKept ==
  ASSUME UNCHANGED <<commands, ran, air, installed>>, NEW k,
         \A i \in Ids : commands[i] # "none" =>
           op'[i[1]] = op[i[1]] /\ key'[i[1]] = key[i[1]]
  PROVE  Kept(k)
  BY SameKept

\* A step of an operation that is not at work on the key.
LEMMA ElsewhereAgreed ==
  ASSUME NEW k, Agreed(k), Kept(k),
         \A c \in rows \cup rows' : c.key = k => (c \in rows' <=> c \in rows),
         On(k)' = On(k),
         \A r \in On(k) : /\ pc'[r] = pc[r] /\ chosen'[r] = chosen[r] /\ found'[r] = found[r]
                          /\ Sent(r)' <=> Sent(r)
  PROVE  Agreed(k)'
<1>1. HasRow(k)' <=> HasRow(k)
  BY DEF HasRow
<1>2. \A r \in On(k) : At(r, k)'
  <2> SUFFICES ASSUME NEW r \in On(k) PROVE At(r, k)'
    OBVIOUS
  <2>1. At(r, k)
    BY DEF Agreed
  <2>2. /\ pc'[r] = "saveRow" => ~HasRow(k)' /\ Lacks(k)'
        /\ pc'[r] = "sendAdd" => HasRow(k)' /\ (Sent(r)' => Has(k)') /\ (~Sent(r)' => Lacks(k)')
        /\ pc'[r] = "removeRow" => Has(k)' /\ \A c \in rows' : c.key = k => c \in chosen'[r]
    BY <1>1, <2>1 DEF At, Kept
  <2>3. /\ pc'[r] \in {"findAdd", "cancelAdd", "sendRemove"} => ~HasRow(k)'
        /\ pc'[r] \in {"findAdd", "cancelAdd"} => Removes(k)' = {}
        /\ pc'[r] = "cancelAdd" => AddWaiting(k)' \subseteq found'[r]
        /\ pc'[r] = "sendRemove" => /\ Sent(r)' => Lacks(k)'
                                    /\ ~Sent(r)' => Removes(k)' = {} /\ AddWaiting(k)' = {}
    BY <1>1, <2>1 DEF At, Kept
  <2> QED
    BY <2>2, <2>3 DEF At
<1>3. \A c, d \in rows' : c.key = k /\ d.key = k => c = d
  BY DEF Agreed
<1>4. On(k)' = {} => (HasRow(k)' => Has(k)') /\ (~HasRow(k)' => Lacks(k)')
  BY <1>1 DEF Agreed, Kept
<1>5. /\ \A q, r \in On(k)' : q = r
      /\ Adds(k)' = {} \/ Removes(k)' = {}
      /\ CarriedOut(k)'
  BY DEF Agreed, Kept
<1> QED
  BY <1>2, <1>3, <1>4, <1>5 DEF Agreed

\* A request of an operator that begins has no commands yet.
LEMMA BeginKept ==
  ASSUME TInv, NEW r \in Requests, NEW what \in {"add", "remove", "sync"}, Begin(r, what),
         \A q \in Requests : q # r => key'[q] = key[q], NEW k
  PROVE  Kept(k) /\ \A q \in Requests : Sent(q)' <=> Sent(q)
<1>1. /\ \A q \in Requests : q # r => op'[q] = op[q]
      /\ \A i \in Ids : commands[i] # "none" => i[1] # r
      /\ UNCHANGED <<commands, ran, air, installed>>
  BY BeginTyped
<1>2. Kept(k)
  BY <1>1, AllKept DEF Ids
<1> QED
  BY <1>1, <1>2 DEF Sent

LEMMA NotSent ==
  ASSUME TInv, NEW r \in Requests, pc[r] \notin {"sendAdd", "sendRemove", "done"}
  PROVE  ~Sent(r)
<1>1. \A b \in 1 .. Bases : <<r, b>> \in Ids /\ <<r, b>>[1] = r
  BY DEF Ids
<1> QED
  BY <1>1 DEF Sent, TInv, Housekept, CommandsFit

LEMMA AddDInv ==
  ASSUME TInv, DInv, NEW r \in Requests, NEW s \in Sensors, Add(r, s) PROVE DInv'
<1>1. /\ Begin(r, "add") /\ UNCHANGED <<rows, chosen, found, left>>
      /\ \A q \in Requests : q # r => key'[q] = key[q]
  BY DEF Add, TInv, TypeOK
<1>2. /\ pc[r] = "idle" /\ op'[r] = "add" /\ \A q \in Requests : q # r => op'[q] = op[q]
  BY <1>1, BeginTyped
<1>3. \A k : Kept(k) /\ \A q \in Requests : Sent(q)' <=> Sent(q)
  BY <1>1, BeginKept
<1>4. CASE Goto(r, "done") /\ UNCHANGED disputed
  <2>1. pc'[r] = "done" /\ \A q \in Requests : q # r => pc'[q] = pc[q]
    BY <1>4, GotoTyped DEF Places
  <2>2. \A k : On(k)' = On(k)
    BY <1>1, <1>2, <2>1 DEF On, InFlight
  <2>3. ASSUME NEW k \in Keys \ disputed PROVE Agreed(k)'
    <3>1. Agreed(k)
      BY DEF DInv
    <3>2. \A q \in On(k) : pc'[q] = pc[q] /\ q \in Requests
      BY <1>2, <2>1 DEF On, InFlight
    <3> QED
      BY <1>1, <1>3, <2>2, <3>1, <3>2, ElsewhereAgreed
  <2> QED
    BY <1>1, <1>4, <2>1, <2>3 DEF DInv
<1>5. CASE /\ Goto(r, "saveRow") /\ key' = [key EXCEPT ![r] = build(s)]
           /\ disputed' = disputed \cup {k \in {build(s)} : HasRow(k) \/ Busy(k)}
  <2>1. /\ pc'[r] = "saveRow" /\ key'[r] = build(s)
        /\ \A q \in Requests : q # r => pc'[q] = pc[q]
    BY <1>5, GotoTyped DEF Places, TInv, TypeOK
  <2>2. ASSUME NEW k \in Keys \ disputed' PROVE Agreed(k)'
    <3>1. Agreed(k)
      BY <1>5 DEF DInv
    <3>2. \A q \in On(k) : pc'[q] = pc[q] /\ q \in Requests
      BY <1>2, <2>1 DEF On, InFlight
    <3>3. CASE k # build(s)
      <4>1. On(k)' = On(k)
        BY <1>1, <1>2, <2>1, <3>3 DEF On, InFlight
      <4> QED
        BY <1>1, <1>3, <3>1, <3>2, <4>1, ElsewhereAgreed
    <3>4. CASE k = build(s)
      <4>1. ~HasRow(k) /\ ~Busy(k)
        BY <1>5, <3>4
      <4>2. On(k) = {} /\ On(k)' = {r}
        BY <1>1, <1>2, <2>1, <3>4, <4>1 DEF On, Busy, InFlight
      <4>3. ~HasRow(k)' /\ Lacks(k)' /\ CarriedOut(k)'
        BY <1>1, <1>3, <3>1, <4>1, <4>2 DEF Agreed, HasRow, Kept
      <4>4. At(r, k)'
        BY <2>1, <4>3 DEF At
      <4>5. Adds(k)' = {} /\ \A c, d \in rows' : c.key = k /\ d.key = k => c = d
        BY <1>1, <3>1, <4>3 DEF Lacks, Agreed
      <4> QED
        BY <4>2, <4>3, <4>4, <4>5 DEF Agreed
    <3> QED
      BY <3>3, <3>4
  <2>3. \A q \in Requests : left'[q] \subseteq disputed' /\
                            (pc'[q] = "saveSync" => key'[q] \in disputed')
    BY <1>1, <1>5, <2>1 DEF DInv
  <2> QED
    BY <2>2, <2>3 DEF DInv
<1> QED
  BY <1>4, <1>5 DEF Add

LEMMA RemoveDInv ==
  ASSUME TInv, DInv, NEW r \in Requests, NEW c \in rows, Remove(r, c) PROVE DInv'
<1>1. /\ Begin(r, "remove") /\ UNCHANGED <<rows, found, left>>
      /\ key' = [key EXCEPT ![r] = c.key] /\ chosen' = [chosen EXCEPT ![r] = {c}]
      /\ Goto(r, "removeRow")
      /\ disputed' = disputed \cup {k \in {c.key} : Busy(k)}
  BY DEF Remove
<1>2. /\ pc[r] = "idle" /\ op'[r] = "remove" /\ \A q \in Requests : q # r => op'[q] = op[q]
  BY <1>1, BeginTyped
<1>3. /\ key'[r] = c.key /\ chosen'[r] = {c}
      /\ \A q \in Requests : q # r => key'[q] = key[q] /\ chosen'[q] = chosen[q]
  BY <1>1 DEF TInv, TypeOK
<1>4. \A k : Kept(k) /\ \A q \in Requests : Sent(q)' <=> Sent(q)
  BY <1>1, <1>3, BeginKept
<1>5. /\ pc'[r] = "removeRow" /\ \A q \in Requests : q # r => pc'[q] = pc[q]
  BY <1>1, GotoTyped DEF Places
<1>6. ASSUME NEW k \in Keys \ disputed' PROVE Agreed(k)'
  <2>1. Agreed(k)
    BY <1>1 DEF DInv
  <2>2. \A q \in On(k) : pc'[q] = pc[q] /\ q # r /\ q \in Requests
    BY <1>2, <1>5 DEF On, InFlight
  <2>3. CASE k # c.key
    <3>1. On(k)' = On(k)
      BY <1>2, <1>3, <1>5, <2>3 DEF On, InFlight
    <3>2. \A q \in On(k) : chosen'[q] = chosen[q] /\ found'[q] = found[q]
      BY <1>1, <1>3, <2>2
    <3> QED
      BY <1>1, <1>4, <2>1, <2>2, <3>1, <3>2, ElsewhereAgreed
  <2>4. CASE k = c.key
    <3>1. HasRow(k) /\ ~Busy(k)
      BY <1>1, <2>4 DEF HasRow
    <3>2. On(k) = {} /\ On(k)' = {r}
      BY <1>2, <1>3, <1>5, <2>4, <3>1 DEF On, Busy, InFlight
    <3>3. Has(k)' /\ CarriedOut(k)'
      BY <1>4, <2>1, <3>1, <3>2 DEF Agreed, Kept
    <3>4. \A d, e \in rows' : d.key = k /\ e.key = k => d = e
      BY <1>1, <2>1 DEF Agreed
    <3>5. \A d \in rows' : d.key = k => d \in chosen'[r]
      BY <1>1, <1>3, <2>4, <3>4
    <3>6. At(r, k)'
      BY <1>5, <3>3, <3>5 DEF At
    <3>7. Removes(k)' = {}
      BY <3>3 DEF Has
    <3> QED
      BY <3>2, <3>3, <3>4, <3>6, <3>7 DEF Agreed
  <2> QED
    BY <2>3, <2>4
<1>7. \A q \in Requests : left'[q] \subseteq disputed' /\
                          (pc'[q] = "saveSync" => key'[q] \in disputed')
  BY <1>1, <1>3, <1>5 DEF DInv
<1> QED
  BY <1>6, <1>7 DEF DInv

LEMMA SyncDInv ==
  ASSUME TInv, DInv, NEW r \in Requests, NEW keys \in Reports, Sync(r, keys) PROVE DInv'
<1>1. /\ Begin(r, "sync") /\ Goto(r, "applySync") /\ rows' = {}
      /\ left' = [left EXCEPT ![r] = keys]
      /\ disputed' = disputed \cup {c.key : c \in rows} \cup keys
      /\ UNCHANGED <<key, chosen, found>>
  BY DEF Sync, RowsLeft
<1>2. /\ pc[r] = "idle" /\ op'[r] = "sync" /\ \A q \in Requests : q # r => op'[q] = op[q]
  BY <1>1, BeginTyped
<1>3. \A k : Kept(k) /\ \A q \in Requests : Sent(q)' <=> Sent(q)
  BY <1>1, BeginKept
<1>4. pc'[r] = "applySync" /\ \A q \in Requests : q # r => pc'[q] = pc[q]
  BY <1>1, GotoTyped DEF Places
<1>5. ASSUME NEW k \in Keys \ disputed' PROVE Agreed(k)'
  <2>1. Agreed(k)
    BY <1>1 DEF DInv
  <2>2. \A q \in On(k) : pc'[q] = pc[q] /\ q \in Requests
    BY <1>2, <1>4 DEF On, InFlight
  <2>3. On(k)' = On(k)
    BY <1>1, <1>2, <1>4 DEF On, InFlight
  <2>4. \A c \in rows \cup rows' : c.key # k
    BY <1>1, <1>5
  <2> QED
    BY <1>1, <1>3, <2>1, <2>2, <2>3, <2>4, ElsewhereAgreed
<1>6. \A q \in Requests : left'[q] \subseteq disputed' /\
                          (pc'[q] = "saveSync" => key'[q] \in disputed')
  <2>1. left'[r] = keys /\ \A q \in Requests : q # r => left'[q] = left[q]
    BY <1>1 DEF TInv, TypeOK
  <2> QED
    BY <1>1, <1>4, <2>1 DEF DInv
<1> QED
  BY <1>5, <1>6 DEF DInv

\* A step of an operation that is under way keeps its kind and goes to another place.
LEMMA MovesOn ==
  ASSUME TInv, NEW r \in InFlight, NEW place \in Places \ {"idle"}, Goto(r, place),
         op' = op, \A q \in Requests : op[q] # "sync" => key'[q] = key[q], NEW k
  PROVE  /\ pc'[r] = place /\ \A q \in Requests : q # r => pc'[q] = pc[q]
         /\ place # "done" => On(k)' = On(k)
         /\ place = "done" => On(k)' = On(k) \ {r}
         /\ r \in On(k) <=> op[r] # "sync" /\ key[r] = k
<1>1. r \in Requests /\ pc[r] \notin {"idle", "done"}
  BY DEF InFlight
<1>2. pc'[r] = place /\ \A q \in Requests : q # r => pc'[q] = pc[q]
  BY <1>1, GotoTyped
<1>3. /\ place # "done" => InFlight' = InFlight \cup {r}
      /\ place = "done" => InFlight' = InFlight \ {r}
  BY <1>1, GoesOn
<1>4. \A q \in Requests : q \in On(k)' <=> q \in InFlight' /\ op[q] # "sync" /\ key[q] = k
  BY DEF On, InFlight
<1> QED
  BY <1>1, <1>2, <1>3, <1>4 DEF On, InFlight

LEMMA SaveDInv ==
  ASSUME TInv, DInv, NEW r \in Requests, SaveRow(r) \/ SaveSync(r) PROVE DInv'
<1> DEFINE place == IF pc[r] = "saveRow" THEN "sendAdd" ELSE "applySync"
           new == [by |-> r, key |-> key[r]]
<1>1. /\ pc[r] \in {"saveRow", "saveSync"} /\ Goto(r, place) /\ rows' = rows \cup {new}
      /\ UNCHANGED <<op, key, chosen, found, left, commands, ran, air, installed, disputed>>
  BY DEF SaveRow, SaveSync
<1>2. /\ r \in InFlight /\ place \in Places \ {"idle", "done"}
      /\ op[r] = "sync" <=> pc[r] = "saveSync"
  BY <1>1 DEF InFlight, Places, TInv, Housekept, PlacesFit
<1>3. new.key = key[r]
  OBVIOUS
<1>4. /\ pc'[r] = place /\ \A q \in Requests : q # r => pc'[q] = pc[q]
      /\ \A k : /\ On(k)' = On(k)
                /\ r \in On(k) <=> op[r] # "sync" /\ key[r] = k
  <2> HIDE DEF place
  <2> QED BY <1>1, <1>2, MovesOn
<1>5. \A k : Kept(k)
  BY <1>1, AllKept
<1>6. ASSUME NEW k \in Keys \ disputed PROVE Agreed(k)'
  <2>1. Agreed(k)
    BY DEF DInv
  <2>2. CASE k # key[r]
    <3>1. \A q \in On(k) : pc'[q] = pc[q] /\ q \in Requests
      BY <1>4, <2>2 DEF On, InFlight
    <3>2. \A c \in rows \cup rows' : c.key = k => (c \in rows' <=> c \in rows)
      BY <1>1, <1>3, <2>2
    <3> HIDE DEF new
    <3> QED
      BY <1>1, <1>4, <1>5, <2>1, <3>1, <3>2, ElsewhereAgreed DEF Sent
  <2>3. CASE k = key[r]
    <3>1. pc[r] = "saveRow" /\ pc'[r] = "sendAdd"
      BY <1>1, <1>4, <2>3 DEF DInv
    <3>2. r \in On(k) /\ On(k) = {r} /\ At(r, k)
      BY <1>2, <1>4, <2>1, <2>3, <3>1 DEF Agreed
    <3>3. ~HasRow(k) /\ Lacks(k)
      BY <3>1, <3>2 DEF At
    <3>4. Lacks(k)' /\ CarriedOut(k)'
      BY <1>5, <2>1, <3>3 DEF Agreed, Kept
    <3> HIDE DEF new
    <3>5. HasRow(k)' /\ \A c, d \in rows' : c.key = k /\ d.key = k => c = d
      BY <1>1, <1>3, <2>3, <3>3 DEF HasRow
    <3>6. ~Sent(r)'
      BY <1>1, <3>1, NotSent DEF Sent
    <3>7. At(r, k)'
      BY <3>1, <3>4, <3>5, <3>6 DEF At
    <3>8. Adds(k)' = {} /\ On(k)' = {r}
      BY <1>4, <3>2, <3>4 DEF Lacks
    <3> QED
      BY <3>4, <3>5, <3>7, <3>8 DEF Agreed
  <2> QED
    BY <2>2, <2>3
<1>7. \A q \in Requests : left'[q] \subseteq disputed' /\
                          (pc'[q] = "saveSync" => key'[q] \in disputed')
  BY <1>1, <1>4 DEF DInv
<1> QED
  BY <1>1, <1>6, <1>7 DEF DInv

LEMMA RemoveRowDInv == ASSUME TInv, DInv, NEW r \in Requests, RemoveRow(r) PROVE DInv'
<1>1. /\ pc[r] = "removeRow" /\ Goto(r, "findAdd") /\ rows' = rows \ chosen[r]
      /\ chosen' = [chosen EXCEPT ![r] = {}]
      /\ UNCHANGED <<op, key, found, left, commands, ran, air, installed, disputed>>
  BY DEF RemoveRow
<1>2. r \in InFlight /\ op[r] = "remove" /\ \A c \in chosen[r] : c.key = key[r]
  BY <1>1 DEF InFlight, TInv, TypeOK, Housekept, PlacesFit
<1>3. /\ pc'[r] = "findAdd" /\ \A q \in Requests : q # r => pc'[q] = pc[q]
      /\ \A k : /\ On(k)' = On(k)
                /\ r \in On(k) <=> op[r] # "sync" /\ key[r] = k
  BY <1>1, <1>2, MovesOn DEF Places
<1>4. \A k : Kept(k)
  BY <1>1, AllKept
<1>5. ASSUME NEW k \in Keys \ disputed PROVE Agreed(k)'
  <2>1. Agreed(k)
    BY DEF DInv
  <2>2. CASE k # key[r]
    <3>1. \A q \in On(k) : pc'[q] = pc[q] /\ chosen'[q] = chosen[q] /\ q \in Requests
      BY <1>1, <1>3, <2>2 DEF On, InFlight, TInv, TypeOK
    <3>2. \A c \in rows \cup rows' : c.key = k => (c \in rows' <=> c \in rows)
      BY <1>1, <1>2, <2>2
    <3> QED
      BY <1>1, <1>3, <1>4, <2>1, <3>1, <3>2, ElsewhereAgreed DEF Sent
  <2>3. CASE k = key[r]
    <3>1. On(k) = {r} /\ At(r, k)
      BY <1>2, <1>3, <2>1, <2>3 DEF Agreed
    <3>2. Has(k) /\ \A c \in rows : c.key = k => c \in chosen[r]
      BY <1>1, <3>1 DEF At
    <3>3. Has(k)' /\ CarriedOut(k)'
      BY <1>4, <2>1, <3>2 DEF Agreed, Kept
    <3>4. \A c \in rows' : c.key # k
      BY <1>1, <3>2
    <3>5. ~HasRow(k)' /\ Removes(k)' = {} /\ On(k)' = {r}
      BY <1>3, <3>1, <3>3, <3>4 DEF HasRow, Has
    <3>6. At(r, k)'
      BY <1>3, <3>5 DEF At
    <3> QED
      BY <3>3, <3>4, <3>5, <3>6 DEF Agreed
  <2> QED
    BY <2>2, <2>3
<1>6. \A q \in Requests : left'[q] \subseteq disputed' /\
                          (pc'[q] = "saveSync" => key'[q] \in disputed')
  BY <1>1, <1>3 DEF DInv
<1> QED
  BY <1>1, <1>5, <1>6 DEF DInv

LEMMA FindAddDInv == ASSUME TInv, DInv, NEW r \in Requests, FindAdd(r) PROVE DInv'
<1>1. PICK one \in SUBSET Ids :
        /\ pc[r] = "findAdd" /\ Goto(r, "cancelAdd")
        /\ found' = [found EXCEPT ![r] = one]
        /\ one \subseteq AddWaiting(key[r])
        /\ disputed' = IF AddWaiting(key[r]) = one THEN disputed ELSE disputed \cup {key[r]}
        /\ UNCHANGED <<rows, op, key, chosen, left, commands, ran, air, installed, report,
                       met, tainted, deaths>>
  BY Finds
<1>2. r \in InFlight /\ op[r] = "remove"
  BY <1>1 DEF InFlight, TInv, Housekept, PlacesFit
<1>3. /\ pc'[r] = "cancelAdd" /\ \A q \in Requests : q # r => pc'[q] = pc[q]
      /\ \A k : /\ On(k)' = On(k)
                /\ r \in On(k) <=> op[r] # "sync" /\ key[r] = k
  BY <1>1, <1>2, MovesOn DEF Places
<1>4. \A k : Kept(k)
  BY <1>1, AllKept
<1>5. found'[r] = one /\ \A q \in Requests : q # r => found'[q] = found[q]
  BY <1>1 DEF TInv, TypeOK
<1>6. ASSUME NEW k \in Keys \ disputed' PROVE Agreed(k)'
  <2>1. Agreed(k)
    BY <1>1 DEF DInv
  <2>2. CASE k # key[r]
    <3>1. \A q \in On(k) : pc'[q] = pc[q] /\ found'[q] = found[q] /\ q \in Requests
      BY <1>3, <1>5, <2>2 DEF On, InFlight
    <3> QED
      BY <1>1, <1>3, <1>4, <2>1, <3>1, ElsewhereAgreed DEF Sent
  <2>3. CASE k = key[r]
    <3>1. On(k) = {r} /\ At(r, k)
      BY <1>2, <1>3, <2>1, <2>3 DEF Agreed
    <3>2. ~HasRow(k) /\ Removes(k) = {}
      BY <1>1, <3>1 DEF At
    <3>3. AddWaiting(k)' \subseteq found'[r]
      BY <1>1, <1>4, <1>5, <2>3 DEF Kept
    <3>4. ~HasRow(k)' /\ Removes(k)' = {} /\ CarriedOut(k)' /\ On(k)' = {r}
      BY <1>1, <1>3, <1>4, <2>1, <3>1, <3>2 DEF HasRow, Kept, Agreed
    <3>5. At(r, k)'
      BY <1>3, <3>3, <3>4 DEF At
    <3>6. \A c, d \in rows' : c.key = k /\ d.key = k => c = d
      BY <1>1, <2>1 DEF Agreed
    <3> QED
      BY <3>4, <3>5, <3>6 DEF Agreed
  <2> QED
    BY <2>2, <2>3
<1>7. \A q \in Requests : left'[q] \subseteq disputed' /\
                          (pc'[q] = "saveSync" => key'[q] \in disputed')
  BY <1>1, <1>3 DEF DInv
<1> QED
  BY <1>6, <1>7 DEF DInv

LEMMA CancelAddDInv == ASSUME TInv, DInv, NEW r \in Requests, CancelAdd(r) PROVE DInv'
<1>1. PICK copies \in SUBSET found[r] :
        /\ pc[r] = "cancelAdd" /\ Goto(r, "sendRemove")
        /\ commands' = [i \in Ids |-> IF i \in found[r] THEN "canceled" ELSE commands[i]]
        /\ ran' = ran \ found[r] /\ air' = air \cup copies
        /\ found' = [found EXCEPT ![r] = {}]
        /\ UNCHANGED <<rows, op, key, chosen, left, installed, report, met, tainted,
                       disputed, deaths>>
  BY DEF CancelAdd
<1>2. r \in InFlight /\ op[r] = "remove"
  BY <1>1 DEF InFlight, TInv, Housekept, PlacesFit
<1>3. /\ pc'[r] = "sendRemove" /\ \A q \in Requests : q # r => pc'[q] = pc[q]
      /\ \A k : /\ On(k)' = On(k)
                /\ r \in On(k) <=> op[r] # "sync" /\ key[r] = k
  BY <1>1, <1>2, MovesOn DEF Places
<1>4. \A i \in found[r] : i \in Ids /\ commands[i] # "none" /\ op[i[1]] = "add" /\ key[i[1]] = key[r]
  BY DEF TInv, TypeOK, Housekept, FoundFit
<1>5. \A i \in Ids : commands'[i] = IF i \in found[r] THEN "canceled" ELSE commands[i]
  BY <1>1
<1>6. \A q \in Requests : Sent(q)' <=> Sent(q)
  <2>1. \A i \in Ids : commands'[i] = "none" <=> commands[i] = "none"
    BY <1>4, <1>5
  <2> QED
    BY <2>1 DEF Sent, Ids
<1>7. found'[r] = {} /\ \A q \in Requests : q # r => found'[q] = found[q]
  BY <1>1 DEF TInv, TypeOK
<1>8. ASSUME NEW k \in Keys \ disputed PROVE Agreed(k)'
  <2>1. Agreed(k)
    BY DEF DInv
  <2>2. CASE k # key[r]
    <3>1. \A q \in On(k) : pc'[q] = pc[q] /\ found'[q] = found[q] /\ q \in Requests
      BY <1>3, <1>7, <2>2 DEF On, InFlight
    <3>2. Kept(k)
      <4>1. \A i \in Ids : key[i[1]] = k \/ key'[i[1]] = k => i \notin found[r]
        BY <1>1, <1>4, <2>2
      <4>2. \A i \in Ids : (commands[i] # "none" \/ commands'[i] # "none") /\
                           (key[i[1]] = k \/ key'[i[1]] = k) =>
              /\ op'[i[1]] = op[i[1]] /\ key'[i[1]] = key[i[1]] /\ commands'[i] = commands[i]
              /\ i \in ran' <=> i \in ran
              /\ i \in air' <=> i \in air
        BY <1>1, <1>5, <4>1
      <4> QED
        BY <1>1, <4>2, SameKept
    <3> QED
      BY <1>1, <1>3, <1>6, <2>1, <3>1, <3>2, ElsewhereAgreed
  <2>3. CASE k = key[r]
    <3>1. On(k) = {r} /\ At(r, k)
      BY <1>2, <1>3, <2>1, <2>3 DEF Agreed
    <3>2. ~HasRow(k) /\ Removes(k) = {} /\ AddWaiting(k) \subseteq found[r]
      BY <1>1, <3>1 DEF At
    <3>3. /\ CommandsOf("add", k)' = CommandsOf("add", k)
          /\ CommandsOf("remove", k)' = CommandsOf("remove", k)
      BY <1>1, <1>4, <1>5 DEF CommandsOf
    <3>4. AddWaiting(k)' = {}
      BY <1>5, <3>2, <3>3 DEF AddWaiting, CommandsOf
    <3>5. Removes(k)' = {}
      <4>1. \A i \in CommandsOf("remove", k) : i \notin found[r]
        BY <1>4 DEF CommandsOf
      <4>2. \A i \in CommandsOf("remove", k) : commands'[i] = commands[i] /\ (i \in air' <=> i \in air)
        BY <1>1, <1>5, <4>1 DEF CommandsOf
      <4> QED
        BY <3>2, <3>3, <4>2 DEF Removes, Outstanding
    <3>6. CarriedOut(k)'
      <4>1. \A i \in Ids : i \in ran' \/ (commands'[i] = "resolved" /\ i \in air') =>
                             i \in ran \/ (commands[i] = "resolved" /\ i \in air)
        BY <1>1, <1>5
      <4>2. CarriedOut(k)
        BY <2>1 DEF Agreed
      <4> QED
        BY <1>1, <3>3, <4>1, <4>2 DEF CarriedOut, CommandsOf
    <3>7. ~Sent(r)'
      BY <1>1, <1>6, NotSent
    <3>8. ~HasRow(k)' /\ \A c, d \in rows' : c.key = k /\ d.key = k => c = d
      BY <1>1, <2>1, <3>2 DEF HasRow, Agreed
    <3>9. At(r, k)'
      BY <1>3, <3>4, <3>5, <3>7, <3>8 DEF At
    <3> QED
      BY <1>3, <3>1, <3>5, <3>6, <3>8, <3>9 DEF Agreed
  <2> QED
    BY <2>2, <2>3
<1>9. \A q \in Requests : left'[q] \subseteq disputed' /\
                          (pc'[q] = "saveSync" => key'[q] \in disputed')
  BY <1>1, <1>3 DEF DInv
<1> QED
  BY <1>1, <1>8, <1>9 DEF DInv

LEMMA ApplySyncDInv ==
  ASSUME TInv, DInv, NEW r \in Requests, NEW l \in left[r], ApplySync(r, l) PROVE DInv'
<1>1. /\ pc[r] = "applySync" /\ op[r] = "sync" /\ left' = [left EXCEPT ![r] = @ \ {l}]
      /\ UNCHANGED <<rows, op, chosen, found, commands, ran, air, installed, disputed>>
      /\ \A q \in Requests : q # r => key'[q] = key[q]
      /\ key' = key \/ key'[r] = l
      /\ \/ UNCHANGED <<pc, key>>
         \/ key'[r] = l /\ Goto(r, "saveSync")
  BY DEF ApplySync, TInv, TypeOK, Housekept, PlacesFit
<1>2. r \in InFlight
  BY <1>1 DEF InFlight
<1>3. /\ \A q \in Requests : q # r => pc'[q] = pc[q]
      /\ pc'[r] \in {"applySync", "saveSync"} /\ (pc'[r] = "saveSync" => key'[r] = l)
  BY <1>1, GotoTyped DEF Places
<1>4. \A k : On(k)' = On(k) /\ r \notin On(k)
  BY <1>1, <1>3 DEF On, InFlight
<1>5. \A k : Kept(k)
  <2>1. \A i \in Ids : commands[i] # "none" => i[1] # r
    BY <1>1 DEF TInv, Housekept, CommandsFit
  <2>2. \A i \in Ids : commands[i] # "none" => key'[i[1]] = key[i[1]]
    BY <1>1, <2>1 DEF Ids
  <2> QED
    BY <1>1, <2>2, AllKept
<1>6. ASSUME NEW k \in Keys \ disputed PROVE Agreed(k)'
  <2>1. Agreed(k)
    BY DEF DInv
  <2>2. \A q \in On(k) : pc'[q] = pc[q] /\ q \in Requests
    BY <1>3, <1>4 DEF On, InFlight
  <2> QED
    BY <1>1, <1>4, <1>5, <2>1, <2>2, ElsewhereAgreed DEF Sent
<1>7. \A q \in Requests : left'[q] \subseteq disputed' /\
                          (pc'[q] = "saveSync" => key'[q] \in disputed')
  <2>1. left'[r] \subseteq left[r] /\ \A q \in Requests : q # r => left'[q] = left[q]
    BY <1>1 DEF TInv, TypeOK
  <2>2. l \in disputed
    BY DEF DInv
  <2> QED
    BY <1>1, <1>3, <2>1, <2>2 DEF DInv
<1> QED
  BY <1>1, <1>6, <1>7 DEF DInv

\* A report ends, or an operation is cut short.
LEMMA EndDInv ==
  ASSUME TInv, DInv, NEW r \in Requests, EndSync(r) \/ Die(r) PROVE DInv'
<1>1. /\ r \in InFlight /\ pc' = [pc EXCEPT ![r] = "done"]
      /\ op[r] = "sync" \/ key[r] \in disputed'
      /\ disputed \subseteq disputed' /\ \A q \in Requests : left'[q] \subseteq left[q]
      /\ \A q \in Requests : q # r => chosen'[q] = chosen[q] /\ found'[q] = found[q]
      /\ UNCHANGED <<rows, op, key, commands, ran, air, installed>>
  BY DEF EndSync, Goto, Die, InFlight, TInv, TypeOK, Housekept, PlacesFit
<1>2. pc'[r] = "done" /\ \A q \in Requests : q # r => pc'[q] = pc[q]
  BY <1>1 DEF TInv, TypeOK, InFlight
<1>3. ASSUME NEW k \in Keys \ disputed' PROVE Agreed(k)'
  <2>1. Agreed(k)
    BY <1>1 DEF DInv
  <2>2. r \notin On(k) /\ On(k)' = On(k)
    BY <1>1, <1>2 DEF On, InFlight
  <2>3. \A q \in On(k) : pc'[q] = pc[q] /\ chosen'[q] = chosen[q] /\ found'[q] = found[q]
    BY <1>1, <1>2, <2>2 DEF On, InFlight
  <2>4. Kept(k)
    BY <1>1, AllKept
  <2> QED
    BY <1>1, <2>1, <2>2, <2>3, <2>4, ElsewhereAgreed DEF Sent
<1>4. \A q \in Requests : left'[q] \subseteq disputed' /\
                          (pc'[q] = "saveSync" => key'[q] \in disputed')
  BY <1>1, <1>2 DEF DInv
<1> QED
  BY <1>3, <1>4 DEF DInv

\* The row that is stored waits and was not published yet.
LEMMA StoreDInv ==
  ASSUME TInv, DInv, NEW r \in Requests, SendAdd(r) \/ SendRemove(r) PROVE DInv'
<1>1. PICK b \in 1 .. Bases, opposite \in {Outstanding("remove", key[r]),
                                             Outstanding("add", key[r]) \cap air} :
        /\ pc[r] \in {"sendAdd", "sendRemove"}
        /\ pc[r] = "sendAdd" => opposite = Outstanding("remove", key[r])
        /\ pc[r] = "sendRemove" => opposite = Outstanding("add", key[r]) \cap air
        /\ commands[<<r, b>>] = "none"
        /\ commands' = [commands EXCEPT ![<<r, b>>] = "waiting"]
        /\ Goto(r, IF b = Bases THEN "done" ELSE pc[r])
        /\ disputed' = IF opposite = {} THEN disputed ELSE disputed \cup {key[r]}
        /\ UNCHANGED <<rows, op, key, chosen, found, left, ran, air, installed, report, met,
                       tainted, deaths>>
  BY Stores
<1> DEFINE place == IF b = Bases THEN "done" ELSE pc[r]
           new == <<r, b>>
<1>2. /\ r \in InFlight /\ place \in Places \ {"idle"} /\ op[r] # "sync"
      /\ pc[r] = "sendAdd" <=> op[r] = "add"
      /\ pc[r] = "sendRemove" <=> op[r] = "remove"
  BY <1>1 DEF InFlight, Places, TInv, Housekept, PlacesFit
<1>3. /\ pc'[r] = place /\ \A q \in Requests : q # r => pc'[q] = pc[q]
      /\ \A k : /\ On(k)' = IF place = "done" THEN On(k) \ {r} ELSE On(k)
                /\ r \in On(k) <=> key[r] = k
  <2> HIDE DEF place
  <2>1. Goto(r, place) /\ op' = op /\ key' = key
    BY <1>1 DEF place
  <2> QED
    BY <1>2, <2>1, MovesOn
<1>4. /\ new \in Ids /\ new[1] = r
      /\ \A i \in Ids : i # new => commands'[i] = commands[i]
      /\ commands[new] = "none" /\ commands'[new] = "waiting"
  BY <1>1 DEF Ids, TInv, TypeOK
<1>5. new \notin ran /\ new \notin air
  BY <1>4 DEF TInv, Housekept, CommandsFit
<1>6. /\ Sent(r)'
      /\ \A q \in Requests : q # r => (Sent(q)' <=> Sent(q))
  <2>1. Sent(r)'
    BY <1>4 DEF Sent
  <2>2. \A q \in Requests : \A a \in 1 .. Bases : <<q, a>> \in Ids /\ (q # r => <<q, a>> # new)
    BY DEF Ids
  <2> HIDE DEF new
  <2>3. \A q \in Requests : q # r => (Sent(q)' <=> Sent(q))
    BY <1>4, <2>2 DEF Sent
  <2> QED
    BY <2>1, <2>3
<1> HIDE DEF new
<1>7. ASSUME NEW k \in Keys \ disputed' PROVE Agreed(k)'
  <2>1. Agreed(k)
    BY <1>1 DEF DInv
  <2>2. CASE k # key[r]
    <3>1. r \notin On(k) /\ On(k)' = On(k)
      BY <1>3, <2>2
    <3>2. \A q \in On(k) : pc'[q] = pc[q] /\ (Sent(q)' <=> Sent(q))
      BY <1>3, <1>6, <3>1 DEF On, InFlight
    <3>3. Kept(k)
      <4>1. \A i \in Ids : key[i[1]] = k \/ key'[i[1]] = k => i # new
        BY <1>1, <1>4, <2>2
      <4>2. \A i \in Ids : (commands[i] # "none" \/ commands'[i] # "none") /\
                           (key[i[1]] = k \/ key'[i[1]] = k) =>
              /\ op'[i[1]] = op[i[1]] /\ key'[i[1]] = key[i[1]] /\ commands'[i] = commands[i]
              /\ i \in ran' <=> i \in ran
              /\ i \in air' <=> i \in air
        BY <1>1, <1>4, <4>1
      <4> QED
        BY <1>1, <4>2, SameKept
    <3> QED
      BY <1>1, <2>1, <3>1, <3>2, <3>3, ElsewhereAgreed
  <2>3. CASE k = key[r]
    <3>1. On(k) = {r} /\ At(r, k) /\ opposite = {}
      BY <1>1, <1>3, <2>1, <2>3 DEF Agreed
    <3>2. On(k)' = {} \/ (On(k)' = {r} /\ pc'[r] = pc[r])
      BY <1>3, <3>1
    <3>3. /\ HasRow(k)' <=> HasRow(k)
          /\ \A c, d \in rows' : c.key = k /\ d.key = k => c = d
      BY <1>1, <2>1 DEF HasRow, Agreed
    <3>4. /\ pc[r] = "sendAdd" => /\ CommandsOf("add", k)' = CommandsOf("add", k) \cup {new}
                                  /\ CommandsOf("remove", k)' = CommandsOf("remove", k)
          /\ pc[r] = "sendRemove" => /\ CommandsOf("add", k)' = CommandsOf("add", k)
                                     /\ CommandsOf("remove", k)' = CommandsOf("remove", k) \cup {new}
          /\ new \notin CommandsOf("add", k) \cup CommandsOf("remove", k)
          /\ CommandsOf("add", k) \cup CommandsOf("remove", k) \subseteq Ids
      BY <1>1, <1>2, <1>4, <2>3 DEF CommandsOf
    <3>5. CarriedOut(k)'
      <4>1. CarriedOut(k)
        BY <2>1 DEF Agreed
      <4>2. \A i \in (CommandsOf("add", k) \cup CommandsOf("remove", k))' :
              i \in ran' \/ (commands'[i] = "resolved" /\ i \in air') =>
                /\ i \in ran \/ (commands[i] = "resolved" /\ i \in air)
                /\ i # new
        BY <1>1, <1>4, <1>5, <3>4
      <4> QED
        BY <1>1, <3>4, <4>1, <4>2 DEF CarriedOut
    <3>6. CASE pc[r] = "sendAdd"
      <4>1. HasRow(k) /\ Removes(k) = {} /\ (Sent(r) => Has(k)) /\ (~Sent(r) => Lacks(k))
        BY <1>1, <2>3, <3>1, <3>6 DEF At, Removes
      <4>2. Removes(k)' = {}
        BY <1>1, <1>4, <3>4, <3>6, <4>1 DEF Removes, Outstanding
      <4>3. new \in Adds(k)'
        BY <1>4, <3>4, <3>6 DEF Adds, Outstanding
      <4>4. \A i \in CommandsOf("add", k)' : commands'[i] = "canceled" => i \notin air'
        <5>1. \A i \in CommandsOf("add", k) : commands[i] = "canceled" => i \notin air
          BY <4>1 DEF Has, Lacks, Adds, Outstanding
        <5> QED
          BY <1>1, <1>4, <1>5, <3>4, <3>6, <5>1
      <4>5. Has(k)'
        BY <4>2, <4>3, <4>4 DEF Has
      <4>6. On(k)' # {} => At(r, k)'
        BY <1>6, <3>2, <3>3, <3>6, <4>1, <4>5 DEF At
      <4> QED
        BY <3>2, <3>3, <3>5, <4>1, <4>2, <4>5, <4>6 DEF Agreed
    <3>7. CASE pc[r] = "sendRemove"
      <4>1. /\ ~HasRow(k) /\ Adds(k) \cap air = {}
            /\ Sent(r) => Lacks(k)
            /\ ~Sent(r) => AddWaiting(k) = {}
        BY <1>1, <2>3, <3>1, <3>7 DEF At, Adds
      <4>2. Adds(k) = {}
        BY <4>1 DEF Lacks, Adds, AddWaiting, Outstanding
      <4>3. Adds(k)' = {}
        BY <1>1, <1>4, <3>4, <3>7, <4>2 DEF Adds, Outstanding
      <4>4. new \in Removes(k)'
        BY <1>4, <3>4, <3>7 DEF Removes, Outstanding
      <4>5. Lacks(k)'
        BY <4>3, <4>4 DEF Lacks
      <4>6. On(k)' # {} => At(r, k)'
        BY <1>6, <3>2, <3>3, <3>7, <4>1, <4>5 DEF At
      <4> QED
        BY <3>2, <3>3, <3>5, <4>1, <4>3, <4>5, <4>6 DEF Agreed
    <3> QED
      BY <1>1, <3>6, <3>7
  <2> QED
    BY <2>2, <2>3
<1>8. \A q \in Requests : left'[q] \subseteq disputed' /\
                          (pc'[q] = "saveSync" => key'[q] \in disputed')
  BY <1>1, <1>3 DEF DInv
<1> QED
  BY <1>1, <1>7, <1>8 DEF DInv

\* What the device carries out, answers or no longer carries out has had its effect,
\* and no request to the contrary is outstanding.
LEMMA DeviceDInv ==
  ASSUME TInv, DInv, NEW i \in Ids, Execute(i) \/ Answer(i) \/ Lapse(i) PROVE DInv'
<1>1. UNCHANGED <<rows, op, pc, key, chosen, found, left, disputed>>
  BY DEF Execute, Answer, Lapse
<1>2. /\ \A j \in Ids : j # i => /\ commands'[j] = commands[j]
                                 /\ j \in ran' <=> j \in ran
                                 /\ j \in air' <=> j \in air
      /\ \A j \in Ids : commands'[j] = "none" <=> commands[j] = "none"
      /\ commands[i] # "none" /\ op[i[1]] \in {"add", "remove"}
  BY DEF Execute, Answer, Lapse, TInv, TypeOK, Housekept, CommandsFit
<1>3. \A q \in Requests : Sent(q)' <=> Sent(q)
  BY <1>2 DEF Sent, Ids
<1>4. \A k : On(k)' = On(k)
  BY <1>1 DEF On, InFlight
<1>5. \A k : /\ CommandsOf("add", k)' = CommandsOf("add", k)
             /\ CommandsOf("remove", k)' = CommandsOf("remove", k)
  BY <1>1, <1>2 DEF CommandsOf
<1>6. ASSUME NEW k \in Keys \ disputed PROVE Kept(k)
  <2>1. /\ Adds(k) = {} \/ Removes(k) = {}
        /\ CarriedOut(k)
    BY DEF DInv, Agreed
  <2>2. CASE key[i[1]] # k
    <3>1. k \in installed' <=> k \in installed
      BY <2>2 DEF Execute, Answer, Lapse
    <3>2. \A j \in Ids : (commands[j] # "none" \/ commands'[j] # "none") /\
                         (key[j[1]] = k \/ key'[j[1]] = k) =>
            /\ op'[j[1]] = op[j[1]] /\ key'[j[1]] = key[j[1]] /\ commands'[j] = commands[j]
            /\ j \in ran' <=> j \in ran
            /\ j \in air' <=> j \in air
      BY <1>1, <1>2, <2>2
    <3> QED
      BY <3>1, <3>2, SameKept
  <2>3. CASE key[i[1]] = k
    <3>1. i \in Outstanding(op[i[1]], k)
      BY <1>2, <2>3 DEF Execute, Answer, Lapse, Outstanding, CommandsOf, TInv, Housekept, CommandsFit
    <3>2. CASE Execute(i)
      <4>1. /\ commands' = commands /\ air' = air
            /\ ran' \subseteq ran \cup {i}
            /\ installed' = IF op[i[1]] = "add" THEN installed \cup {k} ELSE installed \ {k}
        BY <2>3, <3>2 DEF Execute
      <4>2. Adds(k)' = Adds(k) /\ Removes(k)' = Removes(k) /\ AddWaiting(k)' = AddWaiting(k)
        BY <1>5, <4>1 DEF Adds, Removes, AddWaiting, Outstanding
      <4>3. \A j \in Ids : j \in ran' => commands[j] = "waiting"
        BY <3>2 DEF Execute, TInv, Housekept, CommandsFit
      <4>4. CASE op[i[1]] = "add"
        <5>1. i \in Adds(k) /\ Removes(k) = {} /\ k \in installed'
          BY <2>1, <3>1, <4>1, <4>4 DEF Adds
        <5>2. \A j \in CommandsOf("remove", k) :
                j \notin ran' /\ ~(commands[j] = "resolved" /\ j \in air)
          BY <4>3, <5>1 DEF Removes, Outstanding, CommandsOf
        <5>3. CarriedOut(k)'
          BY <1>5, <4>1, <5>1, <5>2 DEF CarriedOut
        <5>4. (Has(k) => Has(k)') /\ (Lacks(k) => Lacks(k)')
          BY <1>5, <4>1, <4>2, <5>1 DEF Has, Lacks
        <5> QED
          BY <4>2, <5>3, <5>4 DEF Kept
      <4>5. CASE op[i[1]] = "remove"
        <5>1. i \in Removes(k) /\ Adds(k) = {} /\ k \notin installed'
          BY <2>1, <3>1, <4>1, <4>5 DEF Removes
        <5>2. \A j \in CommandsOf("add", k) :
                j \notin ran' /\ ~(commands[j] = "resolved" /\ j \in air)
          BY <4>3, <5>1 DEF Adds, Outstanding, CommandsOf
        <5>3. CarriedOut(k)'
          BY <1>5, <4>1, <5>1, <5>2 DEF CarriedOut
        <5>4. (Has(k) => Has(k)') /\ (Lacks(k) => Lacks(k)')
          BY <1>5, <4>1, <4>2, <5>1 DEF Has, Lacks
        <5> QED
          BY <4>2, <5>3, <5>4 DEF Kept
      <4> QED
        BY <1>2, <4>4, <4>5
    <3>3. CASE Answer(i) \/ Lapse(i)
      <4>1. /\ installed' = installed
            /\ i \in ran' => i \in ran
            /\ commands'[i] = "waiting" => commands[i] = "waiting"
            /\ commands'[i] = "resolved" /\ i \in air' =>
                 i \in ran \/ (commands[i] = "resolved" /\ i \in air)
            /\ commands'[i] = "canceled" /\ i \in air' => commands[i] = "canceled" /\ i \in air
            /\ \/ i \in ran
               \/ commands[i] \in {"waiting", "resolved", "canceled"} /\ i \in air
            /\ commands[i] = "waiting" /\ i \notin ran => commands'[i] = "waiting"
        BY <3>3 DEF Answer, Lapse, TInv, TypeOK, Housekept, CommandsFit
      <4>2. Adds(k)' \subseteq Adds(k) /\ Removes(k)' \subseteq Removes(k)
            /\ AddWaiting(k)' \subseteq AddWaiting(k)
        <5>1. \A j \in Ids : /\ commands'[j] = "waiting" => commands[j] = "waiting"
                             /\ commands'[j] = "waiting" \/ j \in air' =>
                                  commands[j] = "waiting" \/ j \in air
          BY <1>2, <3>3 DEF Answer, Lapse, TInv, TypeOK
        <5> QED
          BY <1>5, <5>1 DEF Adds, Removes, AddWaiting, Outstanding, CommandsOf
      <4>3. CarriedOut(k)'
        <5>1. \A j \in Ids : j \in ran' \/ (commands'[j] = "resolved" /\ j \in air') =>
                               j \in ran \/ (commands[j] = "resolved" /\ j \in air)
          BY <1>2, <4>1
        <5> QED
          BY <1>5, <2>1, <4>1, <5>1 DEF CarriedOut, CommandsOf
      <4>4. CASE op[i[1]] = "add"
        <5>1. i \in Adds(k) /\ i \in CommandsOf("add", k) /\ Removes(k) = {}
          BY <2>1, <3>1, <4>4 DEF Adds, Outstanding
        <5>2. Has(k) => (Adds(k)' = {} => k \in installed')
          <6> SUFFICES ASSUME Has(k), Adds(k)' = {} PROVE k \in installed
            BY <4>1
          <6>1. commands'[i] # "waiting"
            BY <1>5, <5>1 DEF Adds, Outstanding
          <6>2. i \in ran \/ (commands[i] = "resolved" /\ i \in air)
            BY <4>1, <5>1, <6>1 DEF Has
          <6> QED
            BY <2>1, <5>1, <6>2 DEF CarriedOut
        <5>3. Has(k) => \A j \in CommandsOf("add", k)' : commands'[j] = "canceled" => j \notin air'
          BY <1>2, <1>5, <4>1 DEF Has, CommandsOf
        <5> QED
          BY <4>2, <4>3, <5>1, <5>2, <5>3 DEF Kept, Has, Lacks
      <4>5. CASE op[i[1]] = "remove"
        <5>1. i \in Removes(k) /\ i \in CommandsOf("remove", k) /\ Adds(k) = {}
          BY <2>1, <3>1, <4>5 DEF Removes, Outstanding
        <5>2. commands[i] # "canceled"
          BY <4>5 DEF TInv, Housekept, CommandsFit
        <5>3. Removes(k)' = {} => k \notin installed'
          <6> SUFFICES ASSUME Removes(k)' = {} PROVE k \notin installed
            BY <4>1
          <6>1. commands'[i] # "waiting"
            BY <1>5, <5>1 DEF Removes, Outstanding
          <6>2. i \in ran \/ (commands[i] = "resolved" /\ i \in air)
            BY <4>1, <5>2, <6>1
          <6> QED
            BY <2>1, <5>1, <6>2 DEF CarriedOut
        <5> QED
          BY <4>2, <4>3, <5>1, <5>3 DEF Kept, Has, Lacks
      <4> QED
        BY <1>2, <4>4, <4>5
    <3> QED
      BY <3>2, <3>3
  <2> QED
    BY <2>2, <2>3
<1>7. ASSUME NEW k \in Keys \ disputed PROVE Agreed(k)'
  <2>1. Agreed(k) /\ Kept(k)
    BY <1>6 DEF DInv
  <2>2. \A q \in On(k) : q \in Requests
    BY DEF On, InFlight
  <2> QED
    BY <1>1, <1>3, <1>4, <2>1, <2>2, ElsewhereAgreed
<1> QED
  BY <1>1, <1>7 DEF DInv

LEMMA NextDInv == TInv /\ DInv /\ [Next]_vars => DInv'
<1> SUFFICES ASSUME TInv, DInv, [Next]_vars PROVE DInv'
  OBVIOUS
<1>1. ASSUME NEW r \in Requests, Step(r) PROVE DInv'
  BY <1>1, AddDInv, SaveDInv, StoreDInv, RemoveDInv, RemoveRowDInv, FindAddDInv, CancelAddDInv,
     SyncDInv, ApplySyncDInv, EndDInv DEF Step
<1>2. ASSUME NEW i \in Ids, Execute(i) \/ Answer(i) \/ Lapse(i) PROVE DInv'
  BY <1>2, DeviceDInv
<1>3. CASE UNCHANGED vars
  <2>1. \A k : On(k)' = On(k) /\ Kept(k)
    BY <1>3, AllKept DEF vars, On, InFlight
  <2>2. ASSUME NEW k \in Keys \ disputed PROVE Agreed(k)'
    BY <1>3, <2>1, ElsewhereAgreed DEF vars, DInv, Sent
  <2> QED
    BY <1>3, <2>2 DEF vars, DInv
<1> QED
  BY <1>1, <1>2, <1>3 DEF Next

\* The device ends up with a sensor if and only if the sensor has a row, in whatever
\* order, how often and how late its commands are carried out (addSensorToDevice,
\* removeSensorFromDevice, sendRemoveToChannel): for every number of operations,
\* sensors and bases, and every key that is not disputed.
THEOREM DevicesStayAgreed == Spec => []DeviceAgrees
<1>1. Init => DInv
  <2> SUFFICES ASSUME Init, NEW k PROVE Agreed(k)
    BY DEF Init, DInv
  <2>1. \A kind : CommandsOf(kind, k) = {}
    BY DEF Init, CommandsOf
  <2>2. Adds(k) = {} /\ Removes(k) = {} /\ CarriedOut(k)
    BY <2>1 DEF Adds, Removes, Outstanding, CarriedOut
  <2>3. On(k) = {} /\ ~HasRow(k) /\ Lacks(k)
    BY <2>2 DEF Init, On, InFlight, HasRow, Lacks
  <2> QED
    BY <2>2, <2>3 DEF Init, Agreed
<1>2. TInv /\ DInv => DeviceAgrees
  <2> SUFFICES ASSUME TInv, DInv PROVE DeviceAgrees
    OBVIOUS
  <2>1. ({key[r] : r \in Requests} \cup installed) \ disputed \subseteq Keys \ disputed
    BY DEF TInv, TypeOK
  <2>2. ASSUME NEW k \in Keys \ disputed, ~Busy(k)
        PROVE  /\ Outstanding(IF HasRow(k) THEN "remove" ELSE "add", k) = {}
               /\ Outstanding("add", k) \cup Outstanding("remove", k) = {} =>
                    (k \in installed <=> HasRow(k))
    <3>1. Agreed(k) /\ On(k) = {}
      BY <2>2 DEF DInv, On, Busy
    <3>2. CASE HasRow(k)
      BY <3>1, <3>2 DEF Agreed, Has, Adds, Removes
    <3>3. CASE ~HasRow(k)
      BY <3>1, <3>3 DEF Agreed, Lacks, Adds, Removes
    <3> QED
      BY <3>2, <3>3
  <2> QED
    BY <2>1, <2>2 DEF DeviceAgrees
<1> QED
  BY <1>1, <1>2, InitTInv, NextTInv, NextDInv, PTL DEF Spec
=============================================================================
