------------------------ MODULE ForwardPipelineProofs ------------------------
(***************************************************************************)
(* Proofs about services/forwarder.ts, for any forwarders, decoders,       *)
(* transformers and topics.  ForwardPipeline: a job carries nothing but    *)
(* its own forwarder's keys and template, nothing the device's forwarders  *)
(* did reaches those of the system, and a job shows its forwarder's work   *)
(* last, in order.  All are about jobs; what makes them inductive is what  *)
(* the context looks like while a forwarder runs (OwnCtx, SystemCtx,       *)
(* AtWork).  TopicMatch: the expression selects what MQTT selects.         *)
(***************************************************************************)
EXTENDS ForwardPipeline, SequenceTheorems, WellFoundedInduction, TLAPS

\* While a forwarder runs the context holds its keys and, once read, its template.
OwnCtx ==
  /\ current # NoForwarder => ctx.keys \subseteq {current}
  /\ stage \notin {"idle", "template"} => ctx.template = current

\* In the system's pass only forwarders of the system have touched the message.
SystemCtx ==
  pass = "system" => \A i \in DOMAIN ctx.message : ctx.message[i][1] \in SystemOwned

IInv == TypeOK /\ OwnCtx /\ SystemCtx /\ OwnContext /\ PassesIndependent

Contexts == [message : Seq(Steps), object : BOOLEAN, keys : SUBSET Forwarders,
             template : Forwarders \cup {NoForwarder}]

LEMMA FreshIsContext == Fresh \in Contexts /\ Fresh.keys = {} /\ Fresh.message = <<>>
  BY DEF Fresh, Contexts

LEMMA InitIInv == Init => IInv
<1> SUFFICES ASSUME Init PROVE IInv
  OBVIOUS
<1>1. ctx \in Contexts /\ ctx.message = <<>>
  BY FreshIsContext DEF Init
<1>2. TypeOK
  BY <1>1, PipelineAssumption DEF Init, TypeOK, Contexts, Selected, OwnersOf, PipelineAssumption
<1>3. OwnCtx /\ SystemCtx /\ OwnContext /\ PassesIndependent
  BY <1>1 DEF Init, OwnCtx, SystemCtx, OwnContext, PassesIndependent
<1> QED
  BY <1>2, <1>3 DEF IInv

\* A forwarder ends without a job.
LEMMA LeaveStep ==
  ASSUME IInv, NEW rest \in SUBSET pending, Leave(rest), UNCHANGED <<ctx, jobs>>,
         dropped' \subseteq Forwarders
  PROVE  IInv'
<1>1. TypeOK'
  BY PipelineAssumption DEF IInv, TypeOK, Leave, PipelineAssumption
<1>2. OwnCtx' /\ SystemCtx' /\ OwnContext' /\ PassesIndependent'
  BY DEF IInv, Leave, OwnCtx, SystemCtx, OwnContext, PassesIndependent
<1> QED
  BY <1>1, <1>2 DEF IInv

\* What is listed for a stage and what was found for it.
LEMMA EnterTypes ==
  ASSUME IInv, current # NoForwarder,
         NEW s \in {"decode", "condition", "map", "transform", "handOver"}, Enter(s)
  PROVE  /\ s = "decode" => left' \subseteq DecodersOf[current]
         /\ s = "transform" => left' \subseteq TransformersOf[current]
         /\ s \notin {"decode", "transform"} => left' = {}
         /\ found' \subseteq {"decode", "transform"} \X Codecs
<1>1. current \in Forwarders /\ found \subseteq {"decode", "transform"} \X Codecs
  BY DEF IInv, TypeOK
<1>2. left' \in SUBSET Listed(s) /\ found' = found \cup ({s} \X left')
  BY DEF Enter
<1>3. CASE s = "decode"
  BY <1>1, <1>2, <1>3 DEF Listed, Codecs
<1>4. CASE s = "transform"
  BY <1>1, <1>2, <1>4 DEF Listed, Codecs
<1>5. CASE s \notin {"decode", "transform"}
  BY <1>1, <1>2, <1>5 DEF Listed
<1> QED
  BY <1>3, <1>4, <1>5

\* The forwarder at work moves to another stage.
LEMMA StageStep ==
  ASSUME IInv, NEW next \in {"condition", "map", "transform", "handOver"},
         stage \notin {"idle", "template"}, Enter(next),
         UNCHANGED <<topic, run, pass, pending, current, ctx, jobs, matched, dropped>>
  PROVE  IInv'
<1>1. TypeOK'
  BY EnterTypes DEF Enter, IInv, TypeOK
<1>2. OwnCtx' /\ SystemCtx' /\ OwnContext' /\ PassesIndependent'
  BY DEF IInv, OwnCtx, SystemCtx, OwnContext, PassesIndependent
<1> QED
  BY <1>1, <1>2 DEF IInv

\* The forwarder at work does something to the message.
LEMMA DidStep ==
  ASSUME IInv, current # NoForwarder, pass # "end",
         NEW what \in {"decode", "map", "transform"} \X (Codecs \cup {"maps"}),
         NEW object \in BOOLEAN,
         ctx' = [ctx EXCEPT !.message = Did(what), !.object = object],
         UNCHANGED <<pass, current, jobs>>
  PROVE  /\ ctx' \in Contexts
         /\ ctx'.keys = ctx.keys /\ ctx'.template = ctx.template
         /\ SystemCtx' /\ OwnContext' /\ PassesIndependent'
<1>1. ctx \in Contexts /\ current \in Forwarders /\ (pass = "system" => current \in SystemOwned)
  BY DEF IInv, TypeOK, Contexts
<1>2. <<current, what>> \in Steps
  BY <1>1 DEF Steps
<1>3. Did(what) \in Seq(Steps)
  BY <1>1, <1>2 DEF Did, Contexts
<1>4. ctx' \in Contexts /\ ctx'.keys = ctx.keys /\ ctx'.template = ctx.template
      /\ ctx'.message = Did(what)
  BY <1>1, <1>3 DEF Contexts
<1>5. SystemCtx'
  <2> SUFFICES ASSUME pass = "system", NEW i \in DOMAIN Did(what)
               PROVE  Did(what)[i][1] \in SystemOwned
    BY <1>4 DEF SystemCtx
  <2>1. ctx.message \in Seq(Steps)
    BY <1>1 DEF Contexts
  <2>2. i \in DOMAIN ctx.message \/ Did(what)[i] = <<current, what>>
    BY <2>1, <1>2 DEF Did
  <2>3. i \in DOMAIN ctx.message => Did(what)[i] = ctx.message[i]
    BY <2>1, <1>2 DEF Did
  <2> QED
    BY <1>1, <2>2, <2>3 DEF IInv, SystemCtx
<1> QED
  BY <1>4, <1>5 DEF IInv, OwnContext, PassesIndependent

LEMMA BeginStep == ASSUME IInv, NEW f \in Forwarders, Begin(f) PROVE IInv'
<1>1. ctx' \in Contexts /\ ctx'.keys \subseteq {f} /\ ctx'.message = ctx.message
  BY DEF Begin, WithKeys, IInv, TypeOK, Contexts
<1>2. f \in pending /\ pass # "end"
  BY DEF Begin, IInv, TypeOK
<1>3. TypeOK'
  BY <1>1, <1>2, PipelineAssumption DEF Begin, IInv, TypeOK, Contexts, PipelineAssumption
<1>4. OwnCtx' /\ SystemCtx'
  BY <1>1 DEF Begin, IInv, OwnCtx, SystemCtx
<1>5. OwnContext' /\ PassesIndependent'
  BY DEF Begin, IInv, OwnContext, PassesIndependent
<1> QED
  BY <1>3, <1>4, <1>5 DEF IInv

LEMMA ReadTemplateStep == ASSUME IInv, ReadTemplate PROVE IInv'
<1>1. current \in Forwarders /\ pass # "end"
  BY DEF ReadTemplate, IInv, TypeOK
<1>2. ctx' \in Contexts /\ ctx'.keys = ctx.keys /\ ctx'.message = ctx.message
      /\ ctx'.template = current
  BY <1>1 DEF ReadTemplate, IInv, TypeOK, Contexts
<1>3. TypeOK'
  BY <1>1, <1>2, EnterTypes DEF ReadTemplate, Enter, IInv, TypeOK, Contexts
<1>4. OwnCtx' /\ SystemCtx' /\ OwnContext' /\ PassesIndependent'
  BY <1>1, <1>2 DEF ReadTemplate, Enter, IInv, OwnCtx, SystemCtx, OwnContext, PassesIndependent
<1> QED
  BY <1>3, <1>4 DEF IInv

LEMMA DecodeStep == ASSUME IInv, NEW d \in left, Decode(d) PROVE IInv'
<1>1. current \in Forwarders /\ pass # "end" /\ current # NoForwarder
  BY PipelineAssumption DEF Decode, IInv, TypeOK, PipelineAssumption
<1>2. d \in Codecs
  BY <1>1 DEF Decode, IInv, TypeOK, Codecs
<1>3. <<stage, d>> \in {"decode", "map", "transform"} \X (Codecs \cup {"maps"})
  BY <1>2 DEF Decode
<1>4. PICK object \in BOOLEAN :
        ctx' = [ctx EXCEPT !.message = Did(<<stage, d>>), !.object = object]
  BY DEF Decode
<1>5. /\ ctx' \in Contexts
      /\ ctx'.keys = ctx.keys /\ ctx'.template = ctx.template
      /\ SystemCtx' /\ OwnContext' /\ PassesIndependent'
  BY <1>1, <1>3, <1>4, DidStep DEF Decode
<1>6. TypeOK'
  BY <1>5 DEF Decode, IInv, TypeOK, Contexts
<1>7. OwnCtx'
  BY <1>5 DEF Decode, IInv, OwnCtx
<1> QED
  BY <1>5, <1>6, <1>7 DEF IInv

LEMMA MapStep == ASSUME IInv, Map PROVE IInv'
<1>1. current \in Forwarders /\ pass # "end" /\ current # NoForwarder
  BY PipelineAssumption DEF Map, IInv, TypeOK, PipelineAssumption
<1>2. After("map") = "transform"
  BY DEF After
<1>3. CASE ctx' = ctx
  BY <1>2, <1>3, StageStep DEF Map
<1>4. CASE ctx' = [ctx EXCEPT !.message = Did(<<"map", "maps">>)]
  <2>1. ctx' = [ctx EXCEPT !.message = Did(<<"map", "maps">>), !.object = ctx.object]
        /\ ctx.object \in BOOLEAN
    BY <1>4 DEF IInv, TypeOK
  <2>2. <<"map", "maps">> \in {"decode", "map", "transform"} \X (Codecs \cup {"maps"})
    OBVIOUS
  <2>3. /\ ctx' \in Contexts
        /\ ctx'.keys = ctx.keys /\ ctx'.template = ctx.template
        /\ SystemCtx' /\ OwnContext' /\ PassesIndependent'
    BY <1>1, <2>1, <2>2, DidStep DEF Map
  <2>4. TypeOK'
    BY <1>1, <1>2, <2>3, EnterTypes DEF Map, Enter, IInv, TypeOK, Contexts
  <2>5. OwnCtx'
    BY <1>2, <2>3 DEF Map, Enter, IInv, OwnCtx
  <2> QED
    BY <2>3, <2>4, <2>5 DEF IInv
<1> QED
  BY <1>3, <1>4 DEF Map

LEMMA HandOverStep == ASSUME IInv, HandOver PROVE IInv'
<1>1. current \in Forwarders /\ (current \in SystemOwned => pass = "system")
  BY DEF HandOver, IInv, TypeOK
<1> DEFINE job == [fwd |-> current, run |-> run, message |-> ctx.message,
                   keys |-> ctx.keys, template |-> ctx.template, found |-> found]
<1>2. jobs' = jobs \cup {job}
  BY DEF HandOver
<1>3. TypeOK'
  <2>1. job \in [fwd : Forwarders, run : 1 .. MaxRuns, message : Seq(Steps),
                 keys : SUBSET Forwarders, template : Forwarders \cup {NoForwarder},
                 found : SUBSET ({"decode", "transform"} \X Codecs)]
    BY <1>1 DEF IInv, TypeOK
  <2> QED
    BY <1>2, <2>1, PipelineAssumption DEF HandOver, Leave, IInv, TypeOK, PipelineAssumption
<1>4. OwnCtx' /\ SystemCtx'
  BY DEF HandOver, Leave, IInv, OwnCtx, SystemCtx
<1>5. OwnContext'
  <2>1. job.keys \subseteq {job.fwd} /\ job.template = job.fwd
    BY <1>1, PipelineAssumption DEF HandOver, IInv, OwnCtx, PipelineAssumption
  <2> QED
    BY <1>2, <2>1 DEF IInv, OwnContext
<1>6. PassesIndependent'
  BY <1>1, <1>2 DEF IInv, PassesIndependent, SystemCtx
<1> QED
  BY <1>3, <1>4, <1>5, <1>6 DEF IInv

\* The event begins a pass with a context of its own.
LEMMA PassStep ==
  ASSUME IInv, NEW p \in {"device", "system"}, pass' = p, pending' \subseteq OwnersOf(p),
         current' = NoForwarder, stage' = "idle", left' = {}, found' = {}, ctx' = Fresh, jobs' = jobs, topic' = topic,
         run' \in 1 .. MaxRuns, matched' \subseteq Forwarders, dropped' \subseteq Forwarders
  PROVE  IInv'
<1>1. ctx' \in Contexts /\ ctx'.message = <<>>
  BY FreshIsContext
<1>2. TypeOK'
  BY <1>1, PipelineAssumption DEF IInv, TypeOK, Contexts, OwnersOf, PipelineAssumption
<1>3. OwnCtx' /\ SystemCtx' /\ OwnContext' /\ PassesIndependent'
  BY <1>1 DEF IInv, OwnCtx, SystemCtx, OwnContext, PassesIndependent
<1> QED
  BY <1>2, <1>3 DEF IInv

LEMMA NextIInv == IInv /\ [Next]_vars => IInv'
<1> SUFFICES ASSUME IInv, [Next]_vars PROVE IInv'
  OBVIOUS
<1>1. current # NoForwarder => dropped \cup {current} \subseteq Forwarders
  BY DEF IInv, TypeOK
<1>2. stage # "idle" => current # NoForwarder
  BY DEF IInv, TypeOK
<1>3. CASE NoTemplate \/ FilterOut \/ Throw
  BY <1>1, <1>2, <1>3, LeaveStep DEF NoTemplate, FilterOut, Throw, Surviving
<1>4. CASE Proceed \/ TestCondition
  BY <1>4, StageStep DEF Proceed, TestCondition, After
<1>0. Selected("system") \subseteq OwnersOf("system") /\ Selected("device") \subseteq OwnersOf("device")
  BY DEF Selected
<1>5. CASE SystemPass
  <2>1. PICK ms \in SUBSET Selected("system") :
          pass' = "system" /\ pending' = ms /\ matched' = matched \cup ms /\ ctx' = Fresh
    BY <1>5 DEF SystemPass, EnterPass, NextContext
  <2>2. current = NoForwarder /\ left = {} /\ found' = found /\ topic' = topic /\ run \in 1 .. MaxRuns /\ dropped \subseteq Forwarders
    BY <1>5 DEF SystemPass, IInv, TypeOK
  <2>3. matched' \subseteq Forwarders
    BY <1>0, <2>1, PipelineAssumption DEF IInv, TypeOK, OwnersOf, PipelineAssumption
  <2>4. found' = {}
    BY <1>5, <2>2 DEF SystemPass, IInv, TypeOK
  <2> QED
    BY <1>0, <1>5, <2>1, <2>2, <2>3, <2>4, PassStep DEF SystemPass
<1>6. CASE Rerun
  <2>1. pending' \subseteq OwnersOf("device") /\ matched' \subseteq Forwarders
    BY <1>0, <1>6 DEF Rerun, OwnersOf
  <2>2. run' \in 1 .. MaxRuns
    BY <1>6, PipelineAssumption DEF Rerun, IInv, TypeOK, PipelineAssumption
  <2> QED
    BY <1>6, <2>1, <2>2, PassStep DEF Rerun
<1>7. CASE Finish
  <2>1. TypeOK'
    BY <1>7 DEF Finish, IInv, TypeOK
  <2> QED
    BY <1>7, <2>1 DEF Finish, IInv, OwnCtx, SystemCtx, OwnContext, PassesIndependent
<1>8. CASE UNCHANGED vars
  BY <1>8 DEF vars, IInv, TypeOK, OwnCtx, SystemCtx, OwnContext, PassesIndependent
<1> QED
  BY <1>3, <1>4, <1>5, <1>6, <1>7, <1>8, BeginStep, ReadTemplateStep, DecodeStep, MapStep,
     HandOverStep DEF Next

\* The inductive invariant holds in every reachable state.
LEMMA IInvHolds == Spec => []IInv
  BY InitIInv, NextIInv, PTL DEF Spec

\* The state stays within its types: in particular a forwarder at work belongs
\* to the pass, and nothing is left to do once both passes are over.
THEOREM TypeCorrect == Spec => []TypeOK
<1>1. IInv => TypeOK
  BY DEF IInv
<1> QED
  BY IInvHolds, <1>1, PTL

\* A job carries the keys and the template of its own forwarder only.
THEOREM JobsCarryTheirOwn == Spec => []OwnContext
<1>1. IInv => OwnContext
  BY DEF IInv
<1> QED
  BY IInvHolds, <1>1, PTL

\* Nothing the device's forwarders did to a message reaches the system's jobs.
THEOREM SystemJobsUntouched == Spec => []PassesIndependent
<1>1. IInv => PassesIndependent
  BY DEF IInv
<1> QED
  BY IInvHolds, <1>1, PTL

-----------------------------------------------------------------------------
(* A forwarder that fails costs no other its job *)

\* Where the matching forwarders of a run are: a forwarder waits for its turn,
\* is at work, was dropped or has its job.
HasJob(f) == \E j \in jobs : j.fwd = f /\ j.run = run

Accounted == \A f \in matched : f \in pending \cup {current} \cup dropped \/ HasJob(f)

LEMMA AccountedStep == IInv /\ Accounted /\ [Next]_vars => Accounted'
<1> SUFFICES ASSUME IInv, Accounted, [Next]_vars PROVE Accounted'
  OBVIOUS
<1>1. ASSUME run' = run, jobs \subseteq jobs', NEW f, HasJob(f) PROVE HasJob(f)'
  BY <1>1 DEF HasJob
<1>2. CASE \E f \in Forwarders : Begin(f)
  <2>1. run' = run /\ jobs' = jobs /\ matched' = matched /\ dropped' = dropped
    BY <1>2 DEF Begin
  <2>2. pending \subseteq pending' \cup {current'} /\ current = NoForwarder
    BY <1>2 DEF Begin, IInv, TypeOK
  <2>3. NoForwarder \notin matched
    BY PipelineAssumption DEF IInv, TypeOK, PipelineAssumption
  <2> QED
    BY <1>1, <2>1, <2>2, <2>3 DEF Accounted
<1>3. CASE NoTemplate \/ FilterOut \/ Throw
  <2>1. /\ run' = run /\ jobs' = jobs /\ matched' = matched /\ pending' = pending
        /\ dropped' = dropped \cup {current}
    BY <1>3 DEF NoTemplate, FilterOut, Throw, Leave, Surviving
  <2> QED
    BY <1>1, <2>1 DEF Accounted
<1>4. CASE HandOver
  <2>1. /\ run' = run /\ jobs \subseteq jobs' /\ matched' = matched /\ pending' = pending
        /\ dropped' = dropped
    BY <1>4 DEF HandOver, Leave
  <2>2. ASSUME NEW f, f = current PROVE HasJob(f)'
    <3> DEFINE job == [fwd |-> current, run |-> run, message |-> ctx.message,
                       keys |-> ctx.keys, template |-> ctx.template, found |-> found]
    <3>1. job \in jobs' /\ job.fwd = f /\ job.run = run
      BY <1>4, <2>2 DEF HandOver
    <3> QED
      BY <2>1, <3>1 DEF HasJob
  <2> QED
    BY <1>1, <2>1, <2>2 DEF Accounted
<1>5. CASE SystemPass
  <2>1. /\ run' = run /\ jobs' = jobs /\ dropped' = dropped /\ current' = current
        /\ pending = {} /\ matched' = matched \cup pending'
    BY <1>5 DEF SystemPass, EnterPass
  <2> QED
    BY <1>1, <2>1 DEF Accounted
<1>6. CASE Rerun
  BY <1>6 DEF Rerun, Accounted
<1>7. CASE ReadTemplate \/ (\E d \in left : Decode(d)) \/ Proceed \/ TestCondition \/ Map \/ Finish
  <2>1. UNCHANGED <<run, pending, current, jobs, matched, dropped>>
    BY <1>7 DEF ReadTemplate, Decode, Proceed, TestCondition, Map, Finish
  <2> QED
    BY <1>1, <2>1 DEF Accounted
<1>8. CASE UNCHANGED vars
  BY <1>1, <1>8 DEF vars, Accounted
<1> QED
  BY <1>2, <1>3, <1>4, <1>5, <1>6, <1>7, <1>8 DEF Next

\* When the event is through, every forwarder that matched in this run and was
\* not dropped has its job, whatever failed and however often it was run again.
THEOREM NobodyPassedOver == Spec => []EachServed
<1>1. Init => Accounted
  BY DEF Init, Accounted
<1>2. IInv /\ Accounted => EachServed
  BY PipelineAssumption DEF IInv, TypeOK, Accounted, HasJob, EachServed, PipelineAssumption
<1> QED
  BY IInvHolds, <1>1, <1>2, AccountedStep, PTL DEF Spec

-----------------------------------------------------------------------------
(* A job shows its own forwarder's work last and in order *)

\* What the forwarder at work has done of what was found: with a decoder or
\* transformer gone from left, the message shows it.
Made == found \ ({stage} \X left)

\* What was found until now is listed, and for no stage to come.
FoundListed ==
  /\ {stage} \X left \subseteq found
  /\ found \subseteq IF stage \in {"transform", "handOver"} THEN ListedBy(current)
                       ELSE {"decode"} \X DecodersOf[current]

\* No later stage has begun.
Reached == CASE stage = "template" -> 0
             [] stage \in {"decode", "condition", "map"} -> 1
             [] OTHER -> 3

AtWork ==
  /\ InOrder(current, ctx.message)
  /\ Worked(current, ctx.message) \ {<<"map", "maps">>} = Made
  /\ \A w \in Worked(current, ctx.message) : Rank(w[1]) <= Reached
  /\ FoundListed

RInv ==
  /\ current \notin pending
  /\ \A f \in pending : OwnWork(f, ctx.message) = {}
  /\ current # NoForwarder => AtWork
  /\ RenderedInOrder

Whats == {"decode", "map", "transform"} \X (Codecs \cup {"maps"})

LEMMA RankOf ==
  /\ Rank("decode") = 1 /\ Rank("map") = 2 /\ Rank("transform") = 3
  /\ \A w \in Whats : Rank(w[1]) \in 1 .. 3
  BY DEF Rank, Whats

\* What a step of a forwarder does to the message.
LEMMA AppendInOrder ==
  ASSUME NEW m \in Seq(Steps), NEW f \in Forwarders, NEW w \in Whats, InOrder(f, m),
         \A v \in Worked(f, m) : Rank(v[1]) <= Rank(w[1]) /\ v # w
  PROVE  /\ InOrder(f, Append(m, <<f, w>>))
         /\ Worked(f, Append(m, <<f, w>>)) = Worked(f, m) \cup {w}
         /\ \A g \in Forwarders : g # f =>
              OwnWork(g, Append(m, <<f, w>>)) = OwnWork(g, m)
<1> DEFINE n == Len(m) + 1
           mm == Append(m, <<f, w>>)
<1>1. /\ Len(m) \in Nat /\ DOMAIN m = 1 .. Len(m) /\ DOMAIN mm = 1 .. n /\ Len(mm) = n
      /\ mm[n] = <<f, w>> /\ \A i \in DOMAIN m : mm[i] = m[i]
  BY DEF Whats, Steps
<1> HIDE DEF mm
<1>2. \A g : OwnWork(g, mm) = OwnWork(g, m) \cup (IF g = f THEN {n} ELSE {})
  BY <1>1 DEF OwnWork
<1>3. \A i \in OwnWork(f, m) : i \in 1 .. Len(m) /\ mm[i] = m[i] /\ m[i][2] \in Worked(f, m)
  BY <1>1 DEF OwnWork, Worked
<1>4. Worked(f, mm) = Worked(f, m) \cup {w}
  <2>1. mm[n][2] = w
    BY <1>1
  <2>2. Worked(f, mm) = {mm[i][2] : i \in OwnWork(f, m) \cup {n}}
    BY <1>2 DEF Worked
  <2>3. \A i \in OwnWork(f, m) : mm[i][2] = m[i][2]
    BY <1>3
  <2> QED
    BY <2>1, <2>2, <2>3 DEF Worked
<1>5. \A i \in OwnWork(f, mm) : i .. Len(mm) \subseteq OwnWork(f, mm)
  <2> SUFFICES ASSUME NEW i \in OwnWork(f, mm), NEW k \in i .. n PROVE k \in OwnWork(f, mm)
    BY <1>1
  <2>1. CASE k = n
    BY <1>2, <2>1
  <2>2. CASE k # n
    <3>1. i \in OwnWork(f, m)
      BY <1>1, <1>2, <1>3, <2>2
    <3>2. k \in i .. Len(m)
      BY <1>1, <1>3, <2>2, <3>1
    <3> QED
      BY <1>2, <3>1, <3>2 DEF InOrder
  <2> QED
    BY <2>1, <2>2
<1>6. ASSUME NEW a \in OwnWork(f, mm), NEW b \in OwnWork(f, mm), a < b
      PROVE  Rank(mm[a][2][1]) <= Rank(mm[b][2][1]) /\ mm[a][2] # mm[b][2]
  <2>1. a \in OwnWork(f, m)
    BY <1>1, <1>2, <1>3, <1>6
  <2>2. CASE b = n
    <3>1. mm[b] = <<f, w>>
      BY <1>1, <2>2
    <3>2. mm[a][2] \in Worked(f, m)
      BY <1>3, <2>1
    <3> QED
      BY <3>1, <3>2
  <2>3. CASE b \in OwnWork(f, m)
    BY <1>3, <1>6, <2>1, <2>3 DEF InOrder
  <2> QED
    BY <1>2, <2>2, <2>3
<1>7. InOrder(f, mm)
  BY <1>5, <1>6 DEF InOrder
<1> QED
  BY <1>2, <1>4, <1>7 DEF mm

\* The forwarder at work ends: nothing is said of a message at rest.
LEMMA LeaveRInv ==
  ASSUME IInv, RInv, Leave(pending), UNCHANGED <<ctx, jobs>>
  PROVE  RInv'
  BY PipelineAssumption DEF Leave, IInv, TypeOK, RInv, RenderedInOrder, PipelineAssumption

\* A pass begins, with a message that nobody has touched.
LEMMA PassRInv ==
  ASSUME RInv, NEW p \in {"device", "system"}, pending' \subseteq OwnersOf(p),
         ctx' = Fresh, current' = NoForwarder, UNCHANGED jobs
  PROVE  RInv'
<1>1. current' \notin pending'
  BY PipelineAssumption DEF OwnersOf, PipelineAssumption
<1> QED
  BY <1>1 DEF RInv, RenderedInOrder, Fresh, OwnWork

LEMMA WorkedWhats ==
  ASSUME NEW m \in Seq(Steps), NEW f
  PROVE  \A w \in Worked(f, m) : w \in Whats
  BY DEF Worked, OwnWork, Steps, Whats

\* A stage begins: nothing of it is found yet, and nothing of the last is left.
LEMMA EnterFound ==
  ASSUME FoundListed, left = {}, NEW s, Enter(s), current' = current,
         \/ s \in {"condition", "map", "handOver"}
         \/ s = "decode" /\ found = {}
         \/ s = "transform" /\ stage \notin {"transform", "handOver"},
         stage \in {"transform", "handOver"} => s = "handOver"
  PROVE  Made' = Made /\ FoundListed'
<1>1. stage' = s /\ left' \in SUBSET Listed(s) /\ found' = found \cup ({s} \X left')
  BY DEF Enter
<1>2. Made = found /\ Made' = found' \ ({s} \X left')
  BY <1>1 DEF Made
<1>3. CASE s \in {"condition", "map", "handOver"}
  <2>1. left' = {} /\ found' = found
    BY <1>1, <1>3 DEF Listed
  <2>2. {"decode"} \X DecodersOf[current] \subseteq ListedBy(current)
    BY DEF ListedBy
  <2> QED
    BY <1>1, <1>2, <1>3, <2>1, <2>2 DEF FoundListed
<1>4. CASE s = "decode"
  <2>1. left' \subseteq DecodersOf[current] /\ found' = {"decode"} \X left'
    BY <1>1, <1>4 DEF Listed
  <2> QED
    BY <1>1, <1>2, <1>4, <2>1 DEF FoundListed
<1>5. CASE s = "transform"
  <2>1. left' \subseteq TransformersOf[current] /\ found \subseteq {"decode"} \X DecodersOf[current]
    BY <1>1, <1>5 DEF Listed, FoundListed
  <2> QED
    BY <1>1, <1>2, <1>5, <2>1 DEF FoundListed, ListedBy
<1> QED
  BY <1>3, <1>4, <1>5

\* The forwarder at work gets to another place and leaves the message alone.
LEMMA StageRInv ==
  ASSUME IInv, RInv, Made' = Made, FoundListed', Reached \in Nat, Reached' \in Nat, Reached <= Reached',
         UNCHANGED <<pending, current, ctx, jobs>>
  PROVE  RInv'
<1>1. \A w \in Worked(current, ctx.message) : Rank(w[1]) \in Nat
  BY WorkedWhats, RankOf DEF IInv, TypeOK
<1> QED
  BY <1>1 DEF RInv, AtWork, RenderedInOrder

LEMMA BeginRInv == ASSUME IInv, RInv, NEW f \in Forwarders, Begin(f) PROVE RInv'
<1>1. ctx'.message = ctx.message
  BY DEF Begin, WithKeys, IInv, TypeOK
<1>2. OwnWork(f, ctx.message) = {}
  BY DEF Begin, RInv
<1>3. found' = {} /\ left' = {} /\ Made' = {}
  BY DEF Begin, Made, IInv, TypeOK
<1>4. InOrder(f, ctx.message) /\ Worked(f, ctx.message) = {}
  BY <1>2 DEF InOrder, Worked
<1> QED
  BY <1>1, <1>3, <1>4 DEF Begin, RInv, AtWork, FoundListed, RenderedInOrder

LEMMA ReadTemplateRInv == ASSUME IInv, RInv, ReadTemplate PROVE RInv'
<1>1. ctx'.message = ctx.message
  BY DEF ReadTemplate, IInv, TypeOK
<1>2. Made' = Made /\ FoundListed'
  <2>1. stage = "template" /\ Enter("decode") /\ current' = current
    BY DEF ReadTemplate
  <2>2. left = {} /\ found = {} /\ current # NoForwarder
    BY <2>1 DEF IInv, TypeOK
  <2>3. FoundListed
    BY <2>2 DEF RInv, AtWork
  <2> QED
    BY <2>1, <2>2, <2>3, EnterFound
<1>3. Reached = 0 /\ Reached' = 1
  BY DEF ReadTemplate, Enter, Reached
<1>4. \A w \in Worked(current, ctx.message) : Rank(w[1]) \in Nat
  BY WorkedWhats, RankOf DEF IInv, TypeOK
<1> QED
  BY <1>1, <1>2, <1>3, <1>4 DEF ReadTemplate, Enter, RInv, AtWork, RenderedInOrder

\* The forwarder at work adds what it did to the message.
LEMMA AppendRInv ==
  ASSUME IInv, RInv, current # NoForwarder, NEW w \in Whats, ctx'.message = Did(w),
         \A v \in Worked(current, ctx.message) : Rank(v[1]) <= Rank(w[1]) /\ v # w,
         Made' = Made \cup ({w} \ {<<"map", "maps">>}), FoundListed',
         Reached \in Nat, Reached' \in Nat, Reached <= Reached', Rank(w[1]) <= Reached',
         UNCHANGED <<pending, current, jobs>>
  PROVE  RInv'
<1> DEFINE m == ctx.message
<1>1. m \in Seq(Steps) /\ current \in Forwarders
  BY DEF IInv, TypeOK
<1>2. AtWork
  BY DEF RInv
<1>3. /\ InOrder(current, Did(w))
      /\ Worked(current, Did(w)) = Worked(current, m) \cup {w}
      /\ \A g \in Forwarders : g # current => OwnWork(g, Did(w)) = OwnWork(g, m)
  BY <1>1, <1>2, AppendInOrder DEF AtWork, Did
<1>4. current \notin pending
  BY DEF RInv
<1>5. \A v \in Worked(current, m) : Rank(v[1]) \in Nat
  BY <1>1, WorkedWhats, RankOf
<1>6. AtWork'
  BY <1>2, <1>3, <1>5 DEF AtWork
<1> QED
  BY <1>3, <1>4, <1>6 DEF RInv, RenderedInOrder, IInv, TypeOK

LEMMA DecodeRInv == ASSUME IInv, RInv, NEW d \in left, Decode(d) PROVE RInv'
<1> DEFINE w == <<stage, d>>
<1>1. stage \in {"decode", "transform"} /\ current \in Forwarders /\ current # NoForwarder
  BY PipelineAssumption DEF Decode, IInv, TypeOK, PipelineAssumption
<1>2. w \in Whats /\ w # <<"map", "maps">>
  BY <1>1 DEF IInv, TypeOK, Codecs, Whats
<1>3. ctx'.message = Did(w)
  BY DEF Decode, IInv, TypeOK
<1>4. Made' = Made \cup {w} /\ w \notin Made /\ FoundListed'
  <2>1. stage' = stage /\ current' = current /\ left' = left \ {d} /\ found' = found
    BY DEF Decode
  <2>2. FoundListed /\ w \in {stage} \X left
    BY <1>1 DEF RInv, AtWork
  <2>3. {stage} \X (left \ {d}) = ({stage} \X left) \ {w}
    OBVIOUS
  <2> QED
    BY <2>1, <2>2, <2>3 DEF Made, FoundListed
<1>5. Reached' = Reached /\ Reached = Rank(w[1])
  BY <1>1 DEF Decode, Reached, Rank
<1>6. Reached \in Nat
  BY DEF Reached
<1>7. \A v \in Worked(current, ctx.message) : Rank(v[1]) <= Rank(w[1]) /\ v # w
  BY <1>1, <1>2, <1>4, <1>5 DEF RInv, AtWork
<1>8. Made' = Made \cup ({w} \ {<<"map", "maps">>}) /\ FoundListed'
  BY <1>2, <1>4
<1>9. UNCHANGED <<pending, current, jobs>>
  BY DEF Decode
<1> HIDE DEF w
<1> QED
  BY <1>1, <1>2, <1>3, <1>5, <1>6, <1>7, <1>8, <1>9, AppendRInv

LEMMA MapRInv == ASSUME IInv, RInv, Map PROVE RInv'
<1> DEFINE w == <<"map", "maps">>
<1>1. stage = "map" /\ stage' = "transform" /\ Enter("transform")
      /\ UNCHANGED <<pending, current, jobs>>
  BY DEF Map, Enter, After
<1>2. Made' = Made /\ FoundListed'
  <2>1. left = {} /\ current # NoForwarder
    BY <1>1 DEF IInv, TypeOK
  <2>2. FoundListed
    BY <2>1 DEF RInv, AtWork
  <2> QED
    BY <1>1, <2>1, <2>2, EnterFound
<1>3. Reached = 1 /\ Reached' = 3
  BY <1>1 DEF Reached
<1>4. CASE ctx' = ctx
  BY <1>1, <1>2, <1>3, <1>4, StageRInv
<1>5. CASE ctx' = [ctx EXCEPT !.message = Did(w)]
  <2>1. ctx'.message = Did(w)
    BY <1>5 DEF IInv, TypeOK
  <2>2. w \in Whats /\ Rank(w[1]) = 2
    BY DEF Whats, Rank
  <2>3. current # NoForwarder
    BY <1>1 DEF IInv, TypeOK
  <2>4. \A v \in Worked(current, ctx.message) : Rank(v[1]) <= Rank(w[1]) /\ v # w
    <3> SUFFICES ASSUME NEW v \in Worked(current, ctx.message)
                 PROVE  Rank(v[1]) <= Rank(w[1]) /\ v # w
      OBVIOUS
    <3>1. Rank(v[1]) <= 1 /\ Rank(v[1]) \in 1 .. 3
      BY <1>3, <2>3, WorkedWhats, RankOf DEF RInv, AtWork, IInv, TypeOK
    <3> QED
      BY <2>2, <3>1
  <2> HIDE DEF w
  <2>5. Made' = Made \cup ({w} \ {<<"map", "maps">>})
    BY <1>2 DEF w
  <2> QED
    BY <1>1, <1>2, <1>3, <2>1, <2>2, <2>3, <2>4, <2>5, AppendRInv
<1> QED
  BY <1>4, <1>5 DEF Map

LEMMA HandOverRInv == ASSUME IInv, RInv, HandOver PROVE RInv'
<1> DEFINE job == [fwd |-> current, run |-> run, message |-> ctx.message,
                   keys |-> ctx.keys, template |-> ctx.template, found |-> found]
<1>1. current # NoForwarder /\ AtWork
  BY DEF HandOver, IInv, TypeOK, RInv
<1>2. Made = found /\ found \subseteq ListedBy(current)
  <2>1. stage = "handOver" /\ left = {}
    BY DEF HandOver, IInv, TypeOK
  <2> QED
    BY <1>1, <2>1 DEF Made, AtWork, FoundListed
<1>3. jobs' = jobs \cup {job} /\ ctx' = ctx /\ Leave(pending)
  BY DEF HandOver
<1>4. RenderedInOrder'
  BY <1>1, <1>2, <1>3 DEF RInv, RenderedInOrder, AtWork
<1> QED
  BY <1>3, <1>4, PipelineAssumption DEF Leave, RInv, IInv, TypeOK, PipelineAssumption

LEMMA RenderedStep == IInv /\ RInv /\ [Next]_vars => RInv'
<1> SUFFICES ASSUME IInv, RInv, [Next]_vars PROVE RInv'
  OBVIOUS
<1>1. CASE NoTemplate \/ FilterOut \/ Throw
  BY <1>1, LeaveRInv DEF NoTemplate, FilterOut, Throw, Surviving
<1>2. CASE Proceed \/ TestCondition
  <2>1. UNCHANGED <<pending, current, ctx, jobs>>
    BY <1>2 DEF Proceed, TestCondition
  <2>2. /\ left = {}
        /\ \/ stage = "decode" /\ stage' = "condition"
           \/ stage = "condition" /\ stage' = "map"
           \/ stage = "transform" /\ stage' = "handOver"
    BY <1>2 DEF Proceed, TestCondition, Enter, After, IInv, TypeOK
  <2>3. Made' = Made /\ FoundListed'
    <3>1. Enter(After(stage)) /\ FoundListed /\ After(stage) = stage' /\ current' = current
      BY <1>2, <2>1 DEF Proceed, TestCondition, Enter, RInv, AtWork, IInv, TypeOK
    <3> QED
      BY <2>2, <3>1, EnterFound
  <2>4. Reached \in Nat /\ Reached' = Reached
    BY <2>2 DEF Reached
  <2> QED
    BY <2>1, <2>3, <2>4, StageRInv
<1>3. CASE SystemPass \/ Rerun
  <2>1. ctx' = Fresh /\ current' = NoForwarder /\ jobs' = jobs
    BY <1>3 DEF SystemPass, EnterPass, NextContext, Rerun, IInv, TypeOK
  <2>2. pending' \subseteq OwnersOf("device") \/ pending' \subseteq OwnersOf("system")
    BY <1>3 DEF SystemPass, EnterPass, Rerun, Selected
  <2> QED
    BY <2>1, <2>2, PassRInv
<1>4. CASE Finish \/ UNCHANGED vars
  <2>1. UNCHANGED <<pending, current, stage, left, found, ctx, jobs>>
    BY <1>4 DEF Finish, vars
  <2>2. Made' = Made /\ Reached' = Reached /\ (FoundListed => FoundListed')
    BY <2>1 DEF Made, Reached, FoundListed
  <2> QED
    BY <2>1, <2>2 DEF RInv, AtWork, RenderedInOrder
<1> QED
  BY <1>1, <1>2, <1>3, <1>4, BeginRInv, ReadTemplateRInv, DecodeRInv, MapRInv, HandOverRInv
  DEF Next

\* What the forwarder of a job did to the message came last, in order: every
\* decoder and transformer that it found once, whatever the forwarders before it
\* left in the context they share, however often the event was run.  A listed one
\* whose row is gone leaves no trace in the job.
THEOREM RenderedLastAndInOrder == Spec => []RenderedInOrder
<1>1. Init => RInv
  <2> SUFFICES ASSUME Init PROVE RInv
    OBVIOUS
  <2>1. ctx.message = <<>> /\ jobs = {} /\ current = NoForwarder /\ NoForwarder \notin pending
    BY FreshIsContext, PipelineAssumption DEF Init, Selected, OwnersOf, PipelineAssumption
  <2> QED
    BY <2>1 DEF RInv, RenderedInOrder, OwnWork
<1>2. RInv => RenderedInOrder
  BY DEF RInv
<1> QED
  BY IInvHolds, <1>1, <1>2, RenderedStep, PTL DEF Spec

-----------------------------------------------------------------------------
(* The expression of a pattern selects what MQTT selects *)

LEMMA MinimalNat ==
  ASSUME NEW S \in SUBSET Nat, S # {}
  PROVE  \E n \in S : \A m \in S : n <= m
<1> DEFINE R == {ss \in Nat \X Nat : ss[1] < ss[2]}
<1>1. R = OpToRel(<, Nat)
  BY DEF OpToRel
<1>2. IsWellFoundedOn(R, Nat)
  BY <1>1, NatLessThanWellFounded
<1>3. \E n \in S : \A m \in S : <<m, n>> \notin R
  <2> HIDE DEF R
  <2> QED BY <1>2, WFMin
<1>4. ASSUME NEW m \in S, NEW n \in S, <<m, n>> \notin R
      PROVE  n <= m
  <2>1. m \in Nat /\ n \in Nat
    OBVIOUS
  <2>2. ~(m < n)
    BY <2>1, <1>4
  <2> QED
    BY <2>1, <2>2
<1> HIDE DEF R
<1> QED
  BY <1>3, <1>4

\* A cut that begins at the first level and takes one level for each of the
\* first n segments is at level i with segment i.
LEMMA OneLevelEach ==
  ASSUME NEW n \in Nat, NEW cut, cut[1] = 1,
         \A i \in 1 .. n : cut[i] \in Int /\ cut[i + 1] = cut[i] + 1
  PROVE  \A i \in 1 .. n + 1 : cut[i] = i
<1> SUFFICES ASSUME NEW i \in 1 .. n + 1, cut[i] # i PROVE FALSE
  OBVIOUS
<1> DEFINE S == {k \in 1 .. n + 1 : cut[k] # k}
<1>1. S \in SUBSET Nat /\ S # {}
  OBVIOUS
<1> HIDE DEF S
<1>2. PICK k \in S : \A m \in S : k <= m
  BY <1>1, MinimalNat
<1>3. k \in 1 .. n + 1 /\ cut[k] # k
  BY DEF S
<1>4. k # 1 /\ k - 1 \in 1 .. n
  BY <1>3
<1>5. k - 1 \notin S
  BY <1>2, <1>3
<1>6. cut[k - 1] = k - 1
  BY <1>4, <1>5 DEF S
<1>7. cut[k] = (k - 1) + 1
  BY <1>4, <1>6, <1>3
<1> QED
  BY <1>3, <1>7

Topic == Seq(Levels \cup {""})

LEMMA TopicLen ==
  ASSUME NEW t \in Topic
  PROVE  /\ Len(t) \in Nat /\ DOMAIN t = 1 .. Len(t)
         /\ \A i \in 1 .. Len(t) : t[i] \in Levels \cup {""}
  BY LenProperties, ElementOfSeq DEF Topic

\* A run of whole levels.
LEMMA RunOfLevels ==
  ASSUME NEW t \in Topic, NEW a \in Int, NEW b \in Int, 1 <= a, a < b, b <= Len(t) + 1
  PROVE  /\ Len(SubSeq(t, a, b - 1)) = b - a
         /\ b = a + 1 => SubSeq(t, a, b - 1) = <<t[a]>>
<1> DEFINE levels == SubSeq(t, a, b - 1)
           L == Levels \cup {""}
<1> HIDE DEF L
<1>1. Len(t) \in Nat /\ \A i \in 1 .. Len(t) : t[i] \in L
  BY TopicLen DEF L
<1>2. \A i \in a .. b - 1 : t[i] \in L
  BY <1>1
<1>3. b - 1 \in Int /\ a <= b - 1 /\ a + 1 - 1 = a /\ (b - 1) - a + 1 = b - a
  OBVIOUS
<1>4. /\ levels \in Seq(L) /\ Len(levels) = (b - 1) - a + 1
      /\ \A i \in 1 .. (b - 1) - a + 1 : levels[i] = t[a + i - 1]
  BY <1>2, <1>3, SubSeqProperties
<1>5. Len(levels) = b - a
  BY <1>3, <1>4
<1>6. ASSUME b = a + 1 PROVE levels = <<t[a]>>
  <2>1. Len(levels) = 1 /\ levels[1] = t[a]
    BY <1>3, <1>4, <1>6
  <2>2. <<t[a]>> \in Seq(L) /\ Len(<<t[a]>>) = 1 /\ <<t[a]>>[1] = t[a]
    <3>1. t[a] \in L
      BY <1>2
    <3> QED
      BY <3>1
  <2>3. \A i \in 1 .. Len(levels) : levels[i] = <<t[a]>>[i]
    BY <2>1, <2>2
  <2> HIDE DEF levels
  <2>4. levels \in Seq(L)
    BY <1>4 DEF levels
  <2> QED
    BY <2>1, <2>2, <2>3, <2>4, SeqEqual
<1> QED
  BY <1>5, <1>6

\* What a segment other than "#" matches is one level.
LEMMA PlainSegment ==
  ASSUME NEW t \in Topic, NEW a \in Int, NEW b \in Int, 1 <= a, a < b, b <= Len(t) + 1
  PROVE  \A seg : seg # "#" =>
           (SegmentMatch(seg, SubSeq(t, a, b - 1)) <=>
              /\ b = a + 1
              /\ seg \in {"+", t[a]}
              /\ seg = "+" => t[a] # "")
<1> DEFINE levels == SubSeq(t, a, b - 1)
<1>1. Len(levels) = b - a /\ (b = a + 1 => levels = <<t[a]>>)
  BY RunOfLevels
<1>2. a \in 1 .. Len(t)
  <2>1. Len(t) \in Nat
    BY TopicLen
  <2> QED
    BY <2>1
<1>3. t[a] \in Levels \cup {""}
  BY <1>2, TopicLen
<1>4. t[a] # "+" /\ t[a] # "#"
  BY TopicAssumption, <1>3 DEF TopicAssumption
<1> HIDE DEF levels
<1>5. ASSUME Len(levels) = 1 PROVE b = a + 1
  <2>1. b - a = 1
    BY <1>1, <1>5
  <2> QED
    BY <2>1
<1>6. \A seg : Len(<<seg>>) = 1
  OBVIOUS
<1>7. b = a + 1 => Len(levels) = 1
  BY <1>1, <1>2
<1>8. \A x, y : <<x>> = <<y>> => x = y
  OBVIOUS
<1> SUFFICES ASSUME NEW seg, seg # "#"
             PROVE  SegmentMatch(seg, levels) <=>
                      b = a + 1 /\ seg \in {"+", t[a]} /\ (seg = "+" => t[a] # "")
  BY DEF levels
<1>9. CASE seg = "+"
  BY <1>1, <1>5, <1>7, <1>8, <1>9 DEF SegmentMatch
<1>10. CASE seg # "+"
  BY <1>1, <1>4, <1>5, <1>6, <1>8, <1>10 DEF SegmentMatch
<1> QED
  BY <1>9, <1>10

\* A cut of the topic for a pattern, as the expression finds it.
IsCut(t, p, cut) ==
  /\ cut \in [1 .. Len(p) + 1 -> 1 .. Len(t) + 1]
  /\ cut[1] = 1 /\ cut[Len(p) + 1] = Len(t) + 1
  /\ \A i \in DOMAIN p :
       /\ cut[i] < cut[i + 1]
       /\ SegmentMatch(p[i], SubSeq(t, cut[i], cut[i + 1] - 1))

\* How many segments come before a last "#": each takes one level.
Fixed(p) == IF MultiLevel(p) THEN Len(p) - 1 ELSE Len(p)

LEMMA BoundsAreNat == 1 .. MaxTopic \subseteq Nat \ {0} /\ 1 .. MaxPattern \subseteq Nat \ {0}
<1>1. MaxTopic \in Nat /\ MaxPattern \in Nat
  BY TopicAssumption DEF TopicAssumption
<1> QED
  BY <1>1

\* A function on 1 .. n is a sequence of length n.
LEMMA SeqOfLength ==
  ASSUME NEW S, NEW n \in Nat \ {0}, NEW s \in [1 .. n -> S]
  PROVE  s \in Seq(S) /\ Len(s) = n /\ DOMAIN s = 1 .. n
  OBVIOUS

LEMMA PatternFacts ==
  ASSUME NEW p \in Patterns, ValidFilter(p)
  PROVE  /\ Len(p) \in Nat \ {0} /\ DOMAIN p = 1 .. Len(p)
         /\ MultiLevel(p) <=> p[Len(p)] = "#"
         /\ Fixed(p) \in Nat /\ Fixed(p) <= Len(p)
         /\ MultiLevel(p) => Fixed(p) = Len(p) - 1
         /\ ~MultiLevel(p) => Fixed(p) = Len(p)
         /\ \A i \in 1 .. Fixed(p) : p[i] # "#"
<1>1. PICK n \in 1 .. MaxPattern : p \in [1 .. n -> Levels \cup {"", "+", "#"}]
  BY DEF Patterns
<1>2. n \in Nat \ {0}
  BY BoundsAreNat
<1>3. Len(p) = n /\ DOMAIN p = 1 .. n
  BY <1>1, <1>2, SeqOfLength
<1>4. Len(p) \in Nat \ {0} /\ DOMAIN p = 1 .. Len(p)
  BY <1>2, <1>3
<1>5. MultiLevel(p) <=> p[Len(p)] = "#"
  BY DEF MultiLevel, Last
<1>6. /\ Fixed(p) \in Nat /\ Fixed(p) <= Len(p)
      /\ MultiLevel(p) => Fixed(p) = Len(p) - 1
      /\ ~MultiLevel(p) => Fixed(p) = Len(p)
  <2>1. /\ MultiLevel(p) => Fixed(p) = Len(p) - 1
        /\ ~MultiLevel(p) => Fixed(p) = Len(p)
    BY DEF Fixed
  <2> QED
    BY <1>4, <2>1
<1>7. \A i \in 1 .. Fixed(p) : p[i] # "#"
  <2> SUFFICES ASSUME NEW i \in 1 .. Fixed(p), p[i] = "#" PROVE FALSE
    OBVIOUS
  <2>1. i \in 1 .. Len(p)
    BY <1>4, <1>6
  <2>2. i = Len(p)
    BY <1>4, <2>1 DEF ValidFilter
  <2> QED
    BY <1>4, <1>5, <1>6, <2>2
<1> QED
  BY <1>4, <1>5, <1>6, <1>7

LEMMA TopicFacts ==
  ASSUME NEW t \in Topics
  PROVE  t \in Topic /\ Len(t) \in Nat \ {0}
<1>1. PICK n \in 1 .. MaxTopic : t \in [1 .. n -> Levels \cup {""}]
  BY DEF Topics
<1>2. n \in Nat \ {0}
  BY BoundsAreNat
<1> QED
  BY <1>1, <1>2, SeqOfLength DEF Topic

\* In a cut, the segments before a last "#" are at the levels with their numbers.
LEMMA CutIsFixed ==
  ASSUME NEW t \in Topic, NEW p \in Patterns, ValidFilter(p), NEW cut, IsCut(t, p, cut)
  PROVE  \A i \in 1 .. Fixed(p) + 1 : cut[i] = i
<1>1. \A i \in 1 .. Fixed(p) : cut[i] \in Int /\ cut[i + 1] = cut[i] + 1
  <2> SUFFICES ASSUME NEW i \in 1 .. Fixed(p)
               PROVE  cut[i] \in Int /\ cut[i + 1] = cut[i] + 1
    OBVIOUS
  <2>1. Len(t) \in Nat
    BY TopicLen
  <2>2. i \in 1 .. Len(p) /\ i \in 1 .. Len(p) + 1 /\ i + 1 \in 1 .. Len(p) + 1 /\ i \in DOMAIN p
        /\ p[i] # "#"
    BY PatternFacts
  <2>3. cut[i] \in 1 .. Len(t) + 1 /\ cut[i + 1] \in 1 .. Len(t) + 1
    BY <2>2 DEF IsCut
  <2>4. /\ cut[i] \in Int /\ cut[i + 1] \in Int /\ 1 <= cut[i] /\ cut[i + 1] <= Len(t) + 1
    BY <2>1, <2>3
  <2>5. cut[i] < cut[i + 1] /\ SegmentMatch(p[i], SubSeq(t, cut[i], cut[i + 1] - 1))
    BY <2>2 DEF IsCut
  <2> DEFINE a == cut[i]
             b == cut[i + 1]
             seg == p[i]
  <2>6. SegmentMatch(seg, SubSeq(t, a, b - 1)) /\ seg # "#"
        /\ a \in Int /\ b \in Int /\ 1 <= a /\ a < b /\ b <= Len(t) + 1
    BY <2>2, <2>4, <2>5
  <2> HIDE DEF a, b, seg
  <2>7. b = a + 1
    BY <2>6, PlainSegment
  <2>8. cut[i + 1] = cut[i] + 1
    BY <2>7 DEF a, b
  <2> QED
    BY <2>4, <2>8
<1>2. cut[1] = 1 /\ Fixed(p) \in Nat
  BY PatternFacts DEF IsCut
<1> QED
  BY <1>1, <1>2, OneLevelEach

\* Segment i at level i, when it is not a last "#".
LEMMA SegmentAt ==
  ASSUME NEW t \in Topic, NEW p \in Patterns, ValidFilter(p),
         NEW i \in 1 .. Fixed(p), i <= Len(t)
  PROVE  SegmentMatch(p[i], SubSeq(t, i, (i + 1) - 1)) <=>
           p[i] \in {"+", t[i]} /\ (p[i] = "+" => t[i] # "")
<1> DEFINE seg == p[i]
           b == i + 1
<1>1. seg # "#" /\ Fixed(p) \in Nat
  BY PatternFacts
<1>2. Len(t) \in Nat
  BY TopicLen
<1>3. i \in Int /\ b \in Int /\ 1 <= i /\ i < b /\ b <= Len(t) + 1
  BY <1>1, <1>2
<1>4. b = i + 1
  OBVIOUS
<1> HIDE DEF seg, b
<1>5. SegmentMatch(seg, SubSeq(t, i, b - 1)) <=>
        b = i + 1 /\ seg \in {"+", t[i]} /\ (seg = "+" => t[i] # "")
  BY <1>1, <1>3, PlainSegment
<1> QED
  BY <1>4, <1>5 DEF seg, b

\* The segments of a cut before a last "#", at a topic that has enough levels.
LEMMA SegmentsAtLevels ==
  ASSUME NEW t \in Topic, NEW p \in Patterns, ValidFilter(p), NEW cut, IsCut(t, p, cut),
         Fixed(p) <= Len(t)
  PROVE  \A i \in 1 .. Fixed(p) : p[i] \in {"+", t[i]} /\ (p[i] = "+" => t[i] # "")
<1> SUFFICES ASSUME NEW i \in 1 .. Fixed(p)
             PROVE  p[i] \in {"+", t[i]} /\ (p[i] = "+" => t[i] # "")
  OBVIOUS
<1>1. Len(t) \in Nat
  BY TopicLen
<1>2. Len(p) \in Nat /\ DOMAIN p = 1 .. Len(p) /\ Fixed(p) \in Nat /\ Fixed(p) <= Len(p)
  BY PatternFacts
<1>3. i \in DOMAIN p /\ i \in 1 .. Fixed(p) + 1 /\ i + 1 \in 1 .. Fixed(p) + 1 /\ i <= Len(t)
  BY <1>1, <1>2
<1>4. cut[i] = i /\ cut[i + 1] = i + 1
  BY <1>3, CutIsFixed
<1>5. SegmentMatch(p[i], SubSeq(t, cut[i], cut[i + 1] - 1))
  BY <1>3 DEF IsCut
<1>6. SegmentMatch(p[i], SubSeq(t, i, (i + 1) - 1))
  BY <1>4, <1>5
<1> QED
  BY <1>3, <1>6, SegmentAt

\* What the expression finds, MQTT selects, and no wildcard stands for nothing.
LEMMA CutIsMqtt ==
  ASSUME NEW t \in Topics, NEW p \in Patterns, ValidFilter(p), NEW cut, IsCut(t, p, cut)
  PROVE  MqttMatch(t, p) /\ NothingEmpty(t, p)
<1>1. t \in Topic /\ Len(t) \in Nat
  BY TopicFacts
<1>2. /\ Len(p) \in Nat \ {0} /\ DOMAIN p = 1 .. Len(p) /\ Fixed(p) \in Nat /\ Fixed(p) <= Len(p)
      /\ MultiLevel(p) => Fixed(p) = Len(p) - 1
      /\ ~MultiLevel(p) => Fixed(p) = Len(p)
  BY PatternFacts
<1>3. \A i \in 1 .. Fixed(p) + 1 : cut[i] = i
  BY <1>1, CutIsFixed
<1>4. \A i \in DOMAIN p : cut[i] < cut[i + 1]
                         /\ SegmentMatch(p[i], SubSeq(t, cut[i], cut[i + 1] - 1))
  BY DEF IsCut
<1>5. cut[Len(p) + 1] = Len(t) + 1
  BY DEF IsCut
<1>6. CASE MultiLevel(p)
  <2>1. cut[Len(p)] = Len(p) /\ Len(p) \in DOMAIN p
    BY <1>2, <1>3, <1>6
  <2>2. Len(p) < Len(t) + 1 /\ SegmentMatch(p[Len(p)], SubSeq(t, Len(p), (Len(t) + 1) - 1))
    BY <1>4, <1>5, <2>1
  <2>3. (Len(t) + 1) - 1 = Len(t) /\ Len(p) <= Len(t)
    BY <1>1, <1>2, <2>2
  <2>4. p[Len(p)] = "#"
    BY <1>6, PatternFacts
  <2>5. SubSeq(t, Len(p), Len(t)) # <<"">>
    BY <2>2, <2>3, <2>4 DEF SegmentMatch
  <2>6. Fixed(p) = Len(p) - 1 /\ Fixed(p) <= Len(t) /\ Len(t) >= Len(p) - 1 /\ Len(t) >= Len(p)
    BY <1>1, <1>2, <1>6, <2>3
  <2>7. \A i \in 1 .. Fixed(p) : p[i] \in {"+", t[i]} /\ (p[i] = "+" => t[i] # "")
    BY <1>1, <2>6, SegmentsAtLevels
  <2>8. MqttMatch(t, p)
    BY <1>6, <2>6, <2>7 DEF MqttMatch
  <2>9. \A i \in DOMAIN p : i # Len(p) => i \in 1 .. Fixed(p)
    <3>1. \A n \in Nat : \A i \in 1 .. n : i # n => i \in 1 .. n - 1
      OBVIOUS
    <3> QED
      BY <1>2, <2>6, <3>1
  <2>10. \A i \in DOMAIN p : p[i] = "+" => t[i] # ""
    <3>1. "#" # "+"
      OBVIOUS
    <3> QED
      BY <2>4, <2>7, <2>9, <3>1
  <2> QED
    BY <2>5, <2>6, <2>8, <2>10 DEF NothingEmpty
<1>7. CASE ~MultiLevel(p)
  <2>1. Len(p) + 1 = Len(t) + 1
    BY <1>2, <1>3, <1>5, <1>7
  <2>2. Len(p) = Len(t)
    BY <1>1, <1>2, <2>1
  <2> QED
    BY <1>1, <1>2, <1>7, <2>2, SegmentsAtLevels DEF MqttMatch, NothingEmpty, Fixed
<1> QED
  BY <1>6, <1>7

\* What MQTT selects without a wildcard that stands for nothing can be cut.
LEMMA MqttIsCut ==
  ASSUME NEW t \in Topics, NEW p \in Patterns, ValidFilter(p),
         MqttMatch(t, p), NothingEmpty(t, p)
  PROVE  \E cut : IsCut(t, p, cut)
<1>1. t \in Topic /\ Len(t) \in Nat
  BY TopicFacts
<1>2. /\ Len(p) \in Nat \ {0} /\ DOMAIN p = 1 .. Len(p) /\ Fixed(p) \in Nat /\ Fixed(p) <= Len(p)
      /\ MultiLevel(p) => Fixed(p) = Len(p) - 1
      /\ ~MultiLevel(p) => Fixed(p) = Len(p)
  BY PatternFacts
<1>3. Len(p) <= Len(t) /\ (~MultiLevel(p) => Len(p) = Len(t)) /\ Fixed(p) <= Len(t)
  <2>1. CASE MultiLevel(p)
    <3>1. Len(t) >= Len(p)
      BY <2>1 DEF NothingEmpty
    <3> QED
      BY <1>1, <1>2, <2>1, <3>1
  <2>2. CASE ~MultiLevel(p)
    <3>1. Len(t) = Len(p)
      BY <2>2 DEF MqttMatch
    <3> QED
      BY <1>1, <1>2, <2>2, <3>1
  <2> QED
    BY <2>1, <2>2
<1>4. \A i \in 1 .. Fixed(p) : p[i] \in {"+", t[i]} /\ (p[i] = "+" => t[i] # "")
  <2>1. \A i \in 1 .. Fixed(p) : p[i] \in {"+", t[i]}
    BY DEF MqttMatch, Fixed
  <2>2. \A i \in 1 .. Fixed(p) : i \in DOMAIN p
    BY <1>2
  <2> QED
    BY <2>1, <2>2 DEF NothingEmpty
<1> DEFINE cut == [i \in 1 .. Len(p) + 1 |-> IF i <= Len(p) THEN i ELSE Len(t) + 1]
<1>5. cut \in [1 .. Len(p) + 1 -> 1 .. Len(t) + 1]
  BY <1>1, <1>2, <1>3
<1>6. cut[1] = 1 /\ cut[Len(p) + 1] = Len(t) + 1
  BY <1>1, <1>2
<1>7. \A i \in 1 .. Len(p) : cut[i] = i
  BY <1>1, <1>2
<1>8. \A i \in 1 .. Fixed(p) : cut[i + 1] = i + 1
  BY <1>1, <1>2, <1>3, <1>6, <1>7
<1> HIDE DEF cut
<1>9. ASSUME NEW i \in DOMAIN p
      PROVE  cut[i] < cut[i + 1] /\ SegmentMatch(p[i], SubSeq(t, cut[i], cut[i + 1] - 1))
  <2>1. CASE i \in 1 .. Fixed(p)
    <3>1. i < i + 1 /\ i <= Len(t)
      BY <1>1, <1>2, <1>3, <2>1
    <3>2. SegmentMatch(p[i], SubSeq(t, i, (i + 1) - 1))
      BY <1>1, <1>4, <2>1, <3>1, SegmentAt
    <3>3. cut[i] = i /\ cut[i + 1] = i + 1
      BY <1>2, <1>7, <1>8, <2>1
    <3> QED
      BY <3>1, <3>2, <3>3
  <2>2. CASE i \notin 1 .. Fixed(p)
    <3>1. MultiLevel(p) /\ i = Len(p)
      BY <1>2, <2>2
    <3>2. p[i] = "#" /\ SubSeq(t, Len(p), Len(t)) # <<"">>
      BY <3>1, PatternFacts DEF NothingEmpty
    <3>3. Len(p) < Len(t) + 1 /\ (Len(t) + 1) - 1 = Len(t)
      BY <1>1, <1>2, <1>3
    <3>4. cut[i] = Len(p) /\ cut[i + 1] = Len(t) + 1
      BY <1>2, <1>6, <1>7, <3>1
    <3>5. SubSeq(t, cut[i], cut[i + 1] - 1) # <<"">>
      BY <3>2, <3>3, <3>4
    <3> QED
      BY <3>2, <3>3, <3>4, <3>5 DEF SegmentMatch
  <2> QED
    BY <2>1, <2>2
<1>10. IsCut(t, p, cut)
  BY <1>5, <1>6, <1>9 DEF IsCut
<1> QED
  BY <1>10

\* For every topic and every valid filter, of any length: the expression selects
\* what MQTT selects, except that no wildcard ever stands for nothing.
LEMMA ExpressionIsMqtt ==
  ASSUME NEW t \in Topics, NEW p \in Patterns, ValidFilter(p)
  PROVE  mqttTopicMatch(t, p) <=> MqttMatch(t, p) /\ NothingEmpty(t, p)
<1>1. mqttTopicMatch(t, p) => \E cut : IsCut(t, p, cut)
  BY DEF mqttTopicMatch, IsCut
<1>2. (\E cut : IsCut(t, p, cut)) => mqttTopicMatch(t, p)
  BY DEF mqttTopicMatch, IsCut
<1> QED
  BY <1>1, <1>2, CutIsMqtt, MqttIsCut

\* For every topic and every valid filter, of any length over any names of
\* levels: the expression selects what MQTT selects, except that no wildcard ever
\* stands for an empty level and a last "#" never for nothing.
THEOREM SelectsAsMqtt ==
  \A t \in Topics, p \in Patterns :
    ValidFilter(p) => (mqttTopicMatch(t, p) <=> MqttMatch(t, p) /\ NothingEmpty(t, p))
  BY ExpressionIsMqtt

-----------------------------------------------------------------------------
(* A message goes only where its topic is selected *)

\* Whoever is to run, runs or has a job was selected by the expression.
Chosen == pending \cup {current} \cup {j.fwd : j \in jobs}

SInv == \A f \in Chosen \ {NoForwarder} : mqttTopicMatch(topic, PatternOf[f])

LEMMA ChosenStep == IInv /\ SInv /\ [Next]_vars => SInv'
<1> SUFFICES ASSUME IInv, SInv, [Next]_vars PROVE SInv'
  OBVIOUS
<1>1. topic' = topic
  BY DEF Next, Begin, NoTemplate, ReadTemplate, Decode, Proceed, TestCondition, FilterOut, Map,
     HandOver, Throw, SystemPass, Finish, Rerun, Leave, vars
<1>2. CASE SystemPass \/ Rerun
  <2>1. /\ pending' \subseteq Selected("device") \cup Selected("system")
        /\ current' = NoForwarder \/ current' = current
        /\ jobs' = jobs
    BY <1>2 DEF SystemPass, EnterPass, Rerun
  <2> QED
    BY <1>1, <2>1 DEF SInv, Chosen, Selected
<1>3. CASE HandOver
  <2>1. Chosen' \subseteq Chosen \cup {NoForwarder}
    BY <1>3 DEF HandOver, Leave, Chosen
  <2> QED
    BY <1>1, <2>1 DEF SInv
<1>4. CASE ~(SystemPass \/ Rerun \/ HandOver)
  <2>1. Chosen' \subseteq Chosen \cup {NoForwarder}
    BY <1>4 DEF Chosen, Next, Begin, NoTemplate, ReadTemplate, Decode, Proceed, TestCondition,
       FilterOut, Map, Throw, Finish, Leave, Surviving, vars
  <2> QED
    BY <1>1, <2>1 DEF SInv
<1> QED
  BY <1>2, <1>3, <1>4

\* No job is ever handed over for a forwarder whose pattern, by the rules of MQTT,
\* does not select the topic of the message.
THEOREM NobodyElseGetsIt == Spec => []OnlyMqttSelects
<1>1. Init => SInv
  BY DEF Init, SInv, Chosen, Selected
<1>2. IInv /\ SInv => OnlyMqttSelects
  <2> SUFFICES ASSUME IInv, SInv, NEW j \in jobs, ValidFilter(PatternOf[j.fwd])
               PROVE  MqttMatch(topic, PatternOf[j.fwd])
    BY DEF OnlyMqttSelects
  <2>1. j.fwd \in Forwarders /\ topic \in Topics
    BY DEF IInv, TypeOK
  <2>2. PatternOf[j.fwd] \in Patterns /\ j.fwd # NoForwarder
    BY <2>1, PipelineAssumption DEF PipelineAssumption
  <2>3. mqttTopicMatch(topic, PatternOf[j.fwd])
    BY <2>2 DEF SInv, Chosen
  <2> QED
    BY <2>1, <2>2, <2>3, ExpressionIsMqtt
<1> QED
  BY IInvHolds, <1>1, <1>2, ChosenStep, PTL DEF Spec
=============================================================================
