--------------------------- MODULE ForwardPipeline ---------------------------
(***************************************************************************)
(* From a device's message to the jobs that forward it (processForwarder   *)
(* in services/device-shadow.ts, ForwarderService in                       *)
(* services/forwarder.ts).                                                 *)
(*                                                                         *)
(* The message passes first through the matching forwarders of the device, *)
(* then through those of the system, one after another.  Each reads its    *)
(* keys and its template, decodes the message, tests a condition, maps and *)
(* transforms, and hands a job over to the forward queue.  The forwarders  *)
(* of a pass share one context: what one did to the message is what the    *)
(* next begins with.                                                       *)
(*                                                                         *)
(* Tables are read without an order, so forwarders, decoders and           *)
(* transformers run in any; a listed one whose row is gone is skipped.  If *)
(* the worker's container dies, the queue runs the event again, from the   *)
(* start.                                                                  *)
(***************************************************************************)
EXTENDS TopicMatch

CONSTANTS
  Forwarders,
  SystemOwned,   \* forwarders owned by the system; the others by the device
  PatternOf,     \* forwarder -> its topicPattern
  Keyed,         \* forwarders with values of their own (ParameterValue)
  DecodersOf,    \* forwarder -> the decoders its template lists
  TransformersOf,\* forwarder -> the transformers its template lists
  Mapped,        \* forwarders whose template lists maps
  Conditional,   \* forwarders whose template has a condition
  NoForwarder,
  MaxRuns        \* bound: how often the queue runs the event

ASSUME PipelineAssumption ==
  /\ SystemOwned \subseteq Forwarders /\ Keyed \subseteq Forwarders
  /\ Mapped \subseteq Forwarders /\ Conditional \subseteq Forwarders
  /\ PatternOf \in [Forwarders -> Patterns]
  /\ DOMAIN DecodersOf = Forwarders /\ DOMAIN TransformersOf = Forwarders
  /\ NoForwarder \notin Forwarders
  /\ MaxRuns \in Nat \ {0}

VARIABLES
  topic,   \* of the message
  run,     \* the run of the event, and
  pass,    \* the pass it is in: "device", "system", "end"
  pending, \* matching forwarders whose turn has not come
  current, \* the one that runs
  stage,   \* what it does next
  left,    \* decoders or transformers that it has not applied
  found,   \* those with a row when they were read, by stage (history)
  ctx,     \* the context of the pass
  jobs,    \* jobs handed over
  matched, \* forwarders that matched, and
  dropped  \* those that ended without a job, in this run (history)

vars == <<topic, run, pass, pending, current, stage, left, found, ctx, jobs,
          matched, dropped>>

\* The context: what was done to the message, and by whom; whether the payload
\* is an object; whose keys and template it carries.
Fresh == [message |-> <<>>, object |-> FALSE, keys |-> {}, template |-> NoForwarder]

-----------------------------------------------------------------------------
(***************************************************************************)
(* Seeded faults: what a plausible mistake would make of the definitions   *)
(* that follow.  No specification uses them.                               *)
(***************************************************************************)

\* one context for both passes
ContextShared(c) == c
\* pullKeys adds to the keys that are there
KeysAdded(c, f) == [c EXCEPT !.keys = IF f \in Keyed THEN @ \cup {f} ELSE @]
\* a forwarder that fails ends the loop
LoopEnded(rest) == {}
\* transforms run before the maps
TransformFirst(s) ==
  CASE s = "decode" -> "condition" [] s = "condition" -> "transform"
    [] s = "transform" -> "map" [] OTHER -> "handOver"
-----------------------------------------------------------------------------
\* processForwarder asks for the forwarders of the device, then of the system.
OwnersOf(p) == IF p = "device" THEN Forwarders \ SystemOwned ELSE SystemOwned

\* processMessageForDevice reads the enabled forwarders of one owner, and keeps
\* those whose pattern matches.
Selected(p) == {f \in OwnersOf(p) : mqttTopicMatch(topic, PatternOf[f])}

\* Each pass gets a copy of the payload of its own.
NextContext(c) == Fresh

EnterPass(p, c) ==
  \E ms \in SUBSET Selected(p) :
    /\ pass' = p
    /\ pending' = ms
    /\ matched' = matched \cup ms
    /\ ctx' = c

Init ==
  /\ topic \in Topics
  /\ run = 1
  /\ pass = "device"
  /\ pending \in SUBSET Selected("device")
  /\ matched = pending
  /\ current = NoForwarder /\ stage = "idle" /\ left = {} /\ found = {}
  /\ ctx = Fresh
  /\ jobs = {}
  /\ dropped = {}

\* pullKeys replaces the keys of the context.
WithKeys(c, f) == [c EXCEPT !.keys = IF f \in Keyed THEN {f} ELSE {}]

Begin(f) ==
  /\ stage = "idle"
  /\ f \in pending
  /\ pending' = pending \ {f}
  /\ current' = f
  /\ stage' = "template"
  /\ ctx' = WithKeys(ctx, f)
  /\ UNCHANGED <<topic, run, pass, left, found, jobs, matched, dropped>>

\* The forwarder ends; the loop goes on with those in rest.
Leave(rest) ==
  /\ stage' = "idle" /\ left' = {} /\ found' = {}
  /\ current' = NoForwarder
  /\ pending' = rest
  /\ UNCHANGED <<topic, run, pass, matched>>

\* A forwarder whose template is gone does nothing.
NoTemplate ==
  /\ stage = "template"
  /\ Leave(pending)
  /\ dropped' = dropped \cup {current}
  /\ UNCHANGED <<ctx, jobs>>

Listed(s) ==
  CASE s = "decode" -> DecodersOf[current] [] s = "transform" -> TransformersOf[current]
    [] OTHER -> {}

\* The forwarder goes on to stage s.  find(In(ids)) returns the listed rows that
\* still exist.
Enter(s) ==
  /\ stage' = s
  /\ left' \in SUBSET Listed(s)
  /\ found' = found \cup ({s} \X left')

ReadTemplate ==
  /\ stage = "template"
  /\ ctx' = [ctx EXCEPT !.template = current]
  /\ Enter("decode")
  /\ UNCHANGED <<topic, run, pass, pending, current, jobs, matched, dropped>>

\* The stage that follows in runForwarder.
After(s) ==
  CASE s = "decode" -> "condition" [] s = "condition" -> "map"
    [] s = "map" -> "transform" [] OTHER -> "handOver"

Did(what) == Append(ctx.message, <<current, what>>)

\* The next decoder, or transformer, gets what the last one returned.
Decode(d) ==
  /\ stage \in {"decode", "transform"}
  /\ d \in left
  /\ left' = left \ {d}
  /\ \E object \in BOOLEAN :
       ctx' = [ctx EXCEPT !.message = Did(<<stage, d>>), !.object = object]
  /\ UNCHANGED <<topic, run, pass, pending, current, stage, found, jobs, matched, dropped>>

\* All that were found are through.
Proceed ==
  /\ stage \in {"decode", "transform"}
  /\ left = {}
  /\ Enter(After(stage))
  /\ UNCHANGED <<topic, run, pass, pending, current, ctx, jobs, matched, dropped>>

TestCondition ==
  /\ stage = "condition"
  /\ Enter(After(stage))
  /\ UNCHANGED <<topic, run, pass, pending, current, ctx, jobs, matched, dropped>>

\* The condition does not hold.
FilterOut ==
  /\ stage = "condition"
  /\ current \in Conditional
  /\ Leave(pending)
  /\ dropped' = dropped \cup {current}
  /\ UNCHANGED <<ctx, jobs>>

\* Maps apply only to a payload that is an object, and if a row of one is left.
Map ==
  /\ stage = "map"
  /\ \/ /\ current \in Mapped /\ ctx.object
        /\ ctx' = [ctx EXCEPT !.message = Did(<<"map", "maps">>)]
     \/ UNCHANGED ctx
  /\ Enter(After(stage))
  /\ UNCHANGED <<topic, run, pass, pending, current, jobs, matched, dropped>>

\* processForwarderCallback adds a job with a copy of the context.  What was
\* found is recorded with it (history).
HandOver ==
  /\ stage = "handOver"
  /\ jobs' = jobs \cup {[fwd |-> current, run |-> run, message |-> ctx.message,
                         keys |-> ctx.keys, template |-> ctx.template, found |-> found]}
  /\ Leave(pending)
  /\ UNCHANGED <<ctx, dropped>>

\* What is left of the loop when a forwarder throws: it is caught and logged.
Surviving(rest) == rest

\* A query, a decoder, the condition or a map throws.
Throw ==
  /\ stage \in {"template", "decode", "condition", "map", "transform"}
  /\ Leave(Surviving(pending))
  /\ dropped' = dropped \cup {current}
  /\ UNCHANGED <<ctx, jobs>>

SystemPass ==
  /\ pass = "device" /\ stage = "idle" /\ pending = {}
  /\ EnterPass("system", NextContext(ctx))
  /\ UNCHANGED <<topic, run, current, stage, left, found, jobs, dropped>>

Finish ==
  /\ pass = "system" /\ stage = "idle" /\ pending = {}
  /\ pass' = "end"
  /\ UNCHANGED <<topic, run, pending, current, stage, left, found, ctx, jobs, matched,
                 dropped>>

\* The container dies under the event: the queue runs it once more.
Rerun ==
  /\ pass # "end"
  /\ run < MaxRuns
  /\ run' = run + 1
  /\ pass' = "device"
  /\ \E ms \in SUBSET Selected("device") : pending' = ms /\ matched' = ms
  /\ current' = NoForwarder /\ stage' = "idle" /\ left' = {} /\ found' = {}
  /\ ctx' = Fresh
  /\ dropped' = {}
  /\ UNCHANGED <<topic, jobs>>

Next ==
  \/ \E f \in Forwarders : Begin(f)
  \/ NoTemplate \/ ReadTemplate
  \/ \E d \in left : Decode(d)
  \/ Proceed \/ TestCondition \/ FilterOut \/ Map \/ HandOver \/ Throw
  \/ SystemPass \/ Finish \/ Rerun

Spec == Init /\ [][Next]_vars

-----------------------------------------------------------------------------
(* Properties *)

\* What a context may record of a message.
Codecs == UNION {DecodersOf[f] \cup TransformersOf[f] : f \in Forwarders}
Steps  == Forwarders \X ({"decode", "map", "transform"} \X (Codecs \cup {"maps"}))

TypeOK ==
  /\ topic \in Topics
  /\ run \in 1 .. MaxRuns
  /\ pass \in {"device", "system", "end"}
  /\ current \in Forwarders \cup {NoForwarder}
  /\ pending \subseteq Forwarders
  /\ pass = "device" => pending \cup ({current} \ {NoForwarder}) \subseteq Forwarders \ SystemOwned
  /\ pass = "system" => pending \cup ({current} \ {NoForwarder}) \subseteq SystemOwned
  /\ pass = "end" => pending = {} /\ current = NoForwarder
  /\ stage \in {"idle", "template", "decode", "condition", "map", "transform", "handOver"}
  /\ stage = "idle" <=> current = NoForwarder
  /\ stage = "decode" => left \subseteq DecodersOf[current]
  /\ stage = "transform" => left \subseteq TransformersOf[current]
  /\ stage \notin {"decode", "transform"} => left = {}
  /\ found \subseteq {"decode", "transform"} \X Codecs
  /\ stage \in {"idle", "template"} => found = {}
  /\ ctx \in [message : Seq(Steps), object : BOOLEAN, keys : SUBSET Forwarders,
               template : Forwarders \cup {NoForwarder}]
  /\ jobs \subseteq [fwd : Forwarders, run : 1 .. MaxRuns, message : Seq(Steps),
                     keys : SUBSET Forwarders, template : Forwarders \cup {NoForwarder},
                     found : SUBSET ({"decode", "transform"} \X Codecs)]
  /\ matched \subseteq Forwarders /\ dropped \subseteq Forwarders

\* A job carries the keys and the template of its own forwarder and of no other
\* that shared the context.
OwnContext ==
  \A j \in jobs : j.keys \subseteq {j.fwd} /\ j.template = j.fwd

\* What the device's forwarders did to the message does not reach the system's.
PassesIndependent ==
  \A j \in jobs : j.fwd \in SystemOwned =>
    \A i \in DOMAIN j.message : j.message[i][1] \in SystemOwned

\* When the event is through, each forwarder that matched and was not dropped
\* has handed over one job in this run: one that fails costs no other its job.
EachServed ==
  pass = "end" =>
    \A f \in matched \ dropped : \E j \in jobs : j.fwd = f /\ j.run = run

Rank(what) == CASE what = "decode" -> 1 [] what = "map" -> 2 [] what = "transform" -> 3

OwnWork(f, m) == {i \in DOMAIN m : m[i][1] = f}
Worked(f, m) == {m[i][2] : i \in OwnWork(f, m)}

InOrder(f, m) ==
  /\ \A i \in OwnWork(f, m) : i .. Len(m) \subseteq OwnWork(f, m)
  /\ \A a, b \in OwnWork(f, m) : a < b =>
       Rank(m[a][2][1]) <= Rank(m[b][2][1]) /\ m[a][2] # m[b][2]

ListedBy(f) ==
  ({"decode"} \X DecodersOf[f]) \cup ({"transform"} \X TransformersOf[f])

\* What the forwarder of a job did to the message came last: the decoders that
\* were found, the maps, the transformers that were found, each of them once.
RenderedInOrder ==
  \A j \in jobs :
    /\ InOrder(j.fwd, j.message)
    /\ Worked(j.fwd, j.message) \ {<<"map", "maps">>} = j.found
    /\ j.found \subseteq ListedBy(j.fwd)

\* A message goes to no forwarder whose pattern, by the rules of MQTT, does not
\* select its topic.
OnlyMqttSelects ==
  \A j \in jobs :
    ValidFilter(PatternOf[j.fwd]) => MqttMatch(topic, PatternOf[j.fwd])
=============================================================================
