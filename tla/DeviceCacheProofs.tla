--------------------------- MODULE DeviceCacheProofs ---------------------------
(***************************************************************************)
(* Proofs about DeviceCache, for any number of rows, lookups, requests and *)
(* failures.  What is in the cache is what somebody held when he set it,   *)
(* so the inductive invariant speaks of those who may still set it         *)
(* (HeldIsServed): unless the last destroy disturbed somebody, they all    *)
(* hold the row there is, and nobody holds anything while there is none.   *)
(***************************************************************************)
EXTENDS DeviceCache, TLAPS

Filling(l) == at[l] = "fill"
Holding(q) == pc[q] # "idle"

HeldIsServed ==
  ~disturbed =>
    /\ \A l \in Lookups : Filling(l) => row # NoDevice /\ found[l].id = row.id
    /\ \A q \in Requests : Holding(q) => row # NoDevice /\ held[q].id = row.id

IInv == TypeOK /\ HeldIsServed /\ CreatedIsServed

LEMMA InitIInv == Init => IInv
<1> SUFFICES ASSUME Init PROVE IInv
  OBVIOUS
<1>1. TypeOK
  <2>1. used \in 0 .. MaxRows /\ failures \in 0 .. MaxFailures
    BY CacheAssumption DEF CacheAssumption, Init
  <2>2. disturbed \in BOOLEAN
    BY DEF Init
  <2> QED
    BY <2>1, <2>2 DEF Init, TypeOK
<1>2. HeldIsServed /\ CreatedIsServed
  BY DEF Init, HeldIsServed, CreatedIsServed, Filling, Holding
<1> QED
  BY <1>1, <1>2 DEF IInv

\* A step that sets the copy to what somebody holds, or leaves it or removes it,
\* while nobody takes hold of anything but the row.
LEMMA RowStays ==
  ASSUME IInv, TypeOK', UNCHANGED <<row, used>>, disturbed' = disturbed,
         \A l \in Lookups : Filling(l)' =>
           \/ Filling(l) /\ found'[l] = found[l]
           \/ row # NoDevice /\ found'[l] = row,
         \A q \in Requests : Holding(q)' =>
           \/ Holding(q) /\ held'[q] = held[q]
           \/ row # NoDevice /\ held'[q] = row,
         (\A q \in Requests : pc'[q] # "created") =>
           \/ cache' = NoDevice
           \/ cache' = cache /\ \A q \in Requests : pc[q] # "created"
           \/ \E l \in Lookups : Filling(l) /\ cache' = found[l]
           \/ \E q \in Requests : Holding(q) /\ cache' = held[q]
  PROVE  IInv'
<1>1. TypeOK /\ HeldIsServed /\ CreatedIsServed
  BY DEF IInv
<1>2. HeldIsServed'
  BY <1>1 DEF HeldIsServed
<1>3. CreatedIsServed'
  <2> SUFFICES ASSUME row # NoDevice, cache' # NoDevice, ~disturbed, \A q \in Requests : pc'[q] # "created"
               PROVE  cache'.id = row.id
    BY DEF CreatedIsServed
  <2>1. CASE cache' = cache /\ \A q \in Requests : pc[q] # "created"
    BY <1>1, <2>1 DEF CreatedIsServed
  <2>2. CASE \E l \in Lookups : Filling(l) /\ cache' = found[l]
    BY <1>1, <2>2 DEF HeldIsServed
  <2>3. CASE \E q \in Requests : Holding(q) /\ cache' = held[q]
    BY <1>1, <2>3 DEF HeldIsServed
  <2> QED
    BY <2>1, <2>2, <2>3
<1> QED
  BY <1>2, <1>3 DEF IInv

LEMMA LookupIInv ==
  ASSUME IInv, NEW l \in Lookups, Look(l) \/ LookupStep(l)
  PROVE  IInv'
<1>1. TypeOK
  BY DEF IInv
<1>2. ASSUME Look(l) PROVE IInv'
  <2>1. age' \in {"new", "old"}
    BY <1>1, <1>2 DEF Look, AgeAfterHit, TypeOK
  <2>2. /\ at' \in [Lookups -> {"idle", "query", "fill", "done"}]
        /\ found' \in [Lookups -> Copies \cup {NoDevice}]
        /\ \A m \in Lookups : at'[m] = "fill" => at[m] = "fill" /\ found'[m] = found[m]
    BY <1>1, <1>2 DEF Look, TypeOK
  <2>3. UNCHANGED <<row, used, cache, pc, held, disturbed, failures>>
    BY <1>2 DEF Look
  <2>4. TypeOK'
    BY <1>1, <2>1, <2>2, <2>3 DEF TypeOK
  <2> QED
    BY <2>2, <2>3, <2>4, RowStays DEF Filling, Holding
<1>3. ASSUME Query(l) PROVE IInv'
  <2>1. /\ at' \in [Lookups -> {"idle", "query", "fill", "done"}]
        /\ found' \in [Lookups -> Copies \cup {NoDevice}]
        /\ \A m \in Lookups : at'[m] = "fill" =>
             \/ at[m] = "fill" /\ found'[m] = found[m]
             \/ row # NoDevice /\ found'[m] = row
    BY <1>1, <1>3 DEF Query, TypeOK
  <2>2. UNCHANGED <<row, used, cache, age, pc, held, disturbed, failures>>
    BY <1>3 DEF Query
  <2>3. TypeOK'
    BY <1>1, <2>1, <2>2 DEF TypeOK
  <2> QED
    BY <2>1, <2>2, <2>3, RowStays DEF Filling, Holding
<1>4. ASSUME Fill(l) PROVE IInv'
  <2>1. TypeOK'
    BY <1>1, <1>4 DEF Fill, Set, TypeOK
  <2> QED
    BY <1>1, <1>4, <2>1, RowStays DEF Fill, Set, Filling, Holding, TypeOK
<1>5. ASSUME Attribute(l) \/ LookupFails(l) PROVE IInv'
  <2>1. /\ at' \in [Lookups -> {"idle", "query", "fill", "done"}]
        /\ found' \in [Lookups -> Copies \cup {NoDevice}]
        /\ \A m \in Lookups : at'[m] = "fill" => at[m] = "fill" /\ found'[m] = found[m]
    BY <1>1, <1>5 DEF Attribute, LookupFails, TypeOK
  <2>2. UNCHANGED <<row, used, cache, age, pc, held, disturbed>>
    BY <1>5 DEF Attribute, LookupFails
  <2>3. failures' \in 0 .. MaxFailures
    BY <1>1, <1>5, CacheAssumption DEF Attribute, LookupFails, TypeOK, CacheAssumption
  <2>4. TypeOK'
    BY <1>1, <2>1, <2>2, <2>3 DEF TypeOK
  <2> QED
    BY <2>1, <2>2, <2>4, RowStays DEF Filling, Holding
<1> QED
  BY <1>2, <1>3, <1>4, <1>5 DEF LookupStep

LEMMA CreateIInv ==
  ASSUME IInv, NEW q \in Requests, NEW copy \in Copies, Create(q, copy)
  PROVE  IInv'
<1>1. TypeOK /\ HeldIsServed
  BY DEF IInv
<1>2. /\ row = NoDevice /\ copy.id = used + 1 /\ row' = copy /\ used' = copy.id
      /\ pc' = [pc EXCEPT ![q] = "created"] /\ held' = [held EXCEPT ![q] = copy]
      /\ UNCHANGED <<cache, age, at, found, disturbed, failures>>
  BY DEF Create
<1>3. copy.id \in 1 .. MaxRows /\ copy # NoDevice
  BY CacheAssumption DEF Copies, Ids, CacheAssumption
<1>4. used' \in 0 .. MaxRows /\ used' > used
  BY <1>1, <1>2, <1>3, CacheAssumption DEF TypeOK, CacheAssumption
<1>5. /\ pc' \in [Requests -> {"idle", "created", "rebuilding"}]
      /\ held' \in [Requests -> Copies \cup {NoDevice}]
      /\ \A r \in Requests : pc'[r] # "idle" => held'[r] # NoDevice
      /\ pc'[q] = "created" /\ held'[q] = copy
      /\ \A r \in Requests : r # q => pc'[r] = pc[r] /\ held'[r] = held[r]
  BY <1>1, <1>2, <1>3 DEF TypeOK
<1>6. TypeOK'
  BY <1>1, <1>2, <1>3, <1>4, <1>5 DEF TypeOK
<1>7. HeldIsServed'
  BY <1>1, <1>2, <1>3, <1>5 DEF HeldIsServed, Filling, Holding
<1>8. CreatedIsServed'
  BY <1>5 DEF CreatedIsServed
<1> QED
  BY <1>6, <1>7, <1>8 DEF IInv

LEMMA RequestIInv ==
  ASSUME IInv, NEW q \in Requests, RequestStep(q) \/ Rebuild(q)
  PROVE  IInv'
<1>1. TypeOK /\ HeldIsServed /\ CreatedIsServed
  BY DEF IInv
<1>2. ASSUME Created(q) \/ Rebuilt(q) PROVE IInv'
  <2>1. /\ pc[q] # "idle" /\ cache' = held[q] /\ age' = "new"
        /\ pc' = [pc EXCEPT ![q] = "idle"] /\ held' = [held EXCEPT ![q] = NoDevice]
        /\ UNCHANGED <<row, used, at, found, disturbed, failures>>
    BY <1>2 DEF Created, Rebuilt, SetCreated, Set
  <2>2. TypeOK'
    BY <1>1, <2>1 DEF TypeOK
  <2> QED
    BY <1>1, <2>1, <2>2, RowStays DEF TypeOK, Filling, Holding
<1>3. ASSUME Rebuild(q) PROVE IInv'
  <2>1. TypeOK'
    BY <1>1, <1>3 DEF Rebuild, TypeOK
  <2> QED
    BY <1>1, <1>3, <2>1, RowStays DEF Rebuild, TypeOK, Filling, Holding
<1>4. ASSUME RequestFails(q) PROVE IInv'
  <2>1. /\ pc' = [pc EXCEPT ![q] = "idle"] /\ held' = [held EXCEPT ![q] = NoDevice]
        /\ disturbed' = (disturbed \/ pc[q] = "created")
        /\ failures < MaxFailures /\ failures' = failures + 1
        /\ UNCHANGED <<row, used, cache, age, at, found>>
    BY <1>4 DEF RequestFails
  <2>2. failures' \in 0 .. MaxFailures
    BY <1>1, <2>1, CacheAssumption DEF TypeOK, CacheAssumption
  <2>3. TypeOK'
    BY <1>1, <2>1, <2>2 DEF TypeOK
  <2>4. HeldIsServed' /\ CreatedIsServed'
    BY <1>1, <2>1 DEF TypeOK, HeldIsServed, CreatedIsServed, Filling, Holding
  <2> QED
    BY <2>3, <2>4 DEF IInv
<1> QED
  BY <1>2, <1>3, <1>4 DEF RequestStep

LEMMA DestroyIInv == IInv /\ Destroy => IInv'
<1> SUFFICES ASSUME IInv, Destroy PROVE IInv'
  OBVIOUS
<1>1. TypeOK
  BY DEF IInv
<1>2. /\ row' = NoDevice /\ disturbed' = UnderWay
      /\ UNCHANGED <<used, cache, age, at, found, pc, held, failures>>
  BY DEF Destroy
<1>3. disturbed' \in BOOLEAN
  BY <1>2 DEF UnderWay
<1>4. TypeOK'
  BY <1>1, <1>2, <1>3 DEF TypeOK
<1>5. HeldIsServed' /\ CreatedIsServed'
  BY <1>2 DEF HeldIsServed, CreatedIsServed, UnderWay, Filling, Holding
<1> QED
  BY <1>4, <1>5 DEF IInv

LEMMA UpdateIInv == ASSUME IInv, NEW v \in Versions, Update(v) PROVE IInv'
<1>1. TypeOK
  BY DEF IInv
<1>2. row # NoDevice /\ row' = [row EXCEPT !.version = v]
      /\ UNCHANGED <<used, cache, age, at, found, pc, held, disturbed, failures>>
  BY DEF Update
<1>3. row' \in Copies /\ row'.id = row.id
  BY <1>1, <1>2 DEF TypeOK, Copies
<1>4. row' # NoDevice
  BY <1>3, CacheAssumption DEF CacheAssumption
<1>5. TypeOK'
  BY <1>1, <1>2, <1>3 DEF TypeOK
<1>6. HeldIsServed' /\ CreatedIsServed'
  BY <1>2, <1>3, <1>4 DEF IInv, HeldIsServed, CreatedIsServed, Filling, Holding
<1> QED
  BY <1>5, <1>6 DEF IInv

LEMMA AgeIInv == IInv /\ (GrowOld \/ Expire) => IInv'
<1> SUFFICES ASSUME IInv, GrowOld \/ Expire PROVE IInv'
  OBVIOUS
<1>1. TypeOK'
  BY DEF IInv, TypeOK, GrowOld, Expire
<1> QED
  BY <1>1 DEF GrowOld, Expire, IInv, HeldIsServed, CreatedIsServed, Filling, Holding

LEMMA Inductive == IInv /\ [Next]_vars => IInv'
<1>1. IInv /\ UNCHANGED vars => IInv'
  BY DEF vars, IInv, TypeOK, HeldIsServed, CreatedIsServed, Filling, Holding
<1> QED
  BY <1>1, LookupIInv, CreateIInv, RequestIInv, DestroyIInv, UpdateIInv, AgeIInv DEF Next

LEMMA IInvHolds == Spec => []IInv
  BY InitIInv, Inductive, PTL DEF Spec

\* The variables of DeviceCache keep their types.
THEOREM TypeCorrect == Spec => []TypeOK
<1>1. IInv => TypeOK
  BY DEF IInv
<1> QED
  BY <1>1, IInvHolds, PTL

\* A device created anew is not taken for the one it was, unless something was
\* under way when that was destroyed.
THEOREM CopyIsOfThisRow == Spec => []CreatedIsServed
<1>1. IInv => CreatedIsServed
  BY DEF IInv
<1> QED
  BY <1>1, IInvHolds, PTL

-----------------------------------------------------------------------------
(* The row stays as it is: whoever sets the copy holds the row by then. *)

LEMMA LookupFresh ==
  ASSUME TypeOK, Fresh, NEW l \in Lookups, Look(l) \/ LookupStep(l)
  PROVE  Fresh'
<1>1. ASSUME Look(l) PROVE Fresh'
  BY <1>1 DEF Look, Fresh, TypeOK
<1>2. ASSUME Query(l) PROVE Fresh'
  BY <1>2 DEF Query, Fresh, TypeOK
<1>3. ASSUME Fill(l) PROVE Fresh'
  BY <1>3 DEF Fill, Set, Fresh, TypeOK
<1>4. ASSUME Attribute(l) \/ LookupFails(l) PROVE Fresh'
  BY <1>4 DEF Attribute, LookupFails, Fresh, TypeOK
<1> QED
  BY <1>1, <1>2, <1>3, <1>4 DEF LookupStep

LEMMA RequestFresh ==
  ASSUME TypeOK, Fresh, NEW q \in Requests, RequestStep(q) \/ Rebuild(q)
  PROVE  Fresh'
<1>1. ASSUME Created(q) \/ Rebuilt(q) PROVE Fresh'
  BY <1>1 DEF Created, Rebuilt, SetCreated, Set, Fresh, TypeOK
<1>2. ASSUME RequestFails(q) \/ Rebuild(q) PROVE Fresh'
  BY <1>2 DEF RequestFails, Rebuild, Fresh, TypeOK
<1> QED
  BY <1>1, <1>2 DEF RequestStep

\* However often the device is looked up and its certificate rebuilt, no stale copy
\* comes back while its row stays as it is, once none is left.
THEOREM NoStaleCopyReturns == Spec => StaysFresh
<1>1. TypeOK /\ [Next]_vars => [Fresh /\ row' = row => Fresh']_vars
  <2> SUFFICES ASSUME TypeOK, Next, Fresh, row' = row PROVE Fresh'
    OBVIOUS
  <2>1. ASSUME NEW q \in Requests, NEW copy \in Copies, Create(q, copy) PROVE FALSE
    BY <2>1, CacheAssumption DEF Create, CacheAssumption
  <2>2. ~Destroy
    BY DEF Destroy
  <2>3. ASSUME NEW v \in Versions, Update(v) PROVE Fresh'
    BY <2>3 DEF Update, Fresh
  <2>4. GrowOld \/ Expire => Fresh'
    BY DEF GrowOld, Expire, Fresh
  <2> QED
    BY <2>1, <2>2, <2>3, <2>4, LookupFresh, RequestFresh DEF Next
<1> QED
  BY <1>1, TypeCorrect, PTL DEF Spec, StaysFresh
=============================================================================
