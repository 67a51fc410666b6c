------------------------------ MODULE TopicMatch ------------------------------
(***************************************************************************)
(* Which topics the pattern of a forwarder selects (mqttTopicMatch in      *)
(* services/forwarder.ts).  The code turns the pattern into a regular      *)
(* expression, "+" into [^/]+ and "#" into .+, wherever they stand, and    *)
(* tests the whole topic with it.                                          *)
(*                                                                         *)
(* A topic is the sequence of its levels, a pattern that of its segments.  *)
(* No level begins with "$": the subscriptions of the server ("Hy/#")      *)
(* never deliver such a topic.                                             *)
(***************************************************************************)
EXTENDS Naturals, Sequences, SequencesExt

CONSTANTS
  Levels,     \* the names of levels
  MaxTopic,   \* bound: levels of a topic
  MaxPattern  \* bound: segments of a pattern

ASSUME TopicAssumption ==
  /\ "+" \notin Levels /\ "#" \notin Levels /\ "" \notin Levels
  /\ MaxTopic \in Nat /\ MaxPattern \in Nat

\* "Hy//temp" has an empty level; the empty string is no topic.
Topics   == UNION {[1 .. n -> Levels \cup {""}] : n \in 1 .. MaxTopic} \ {<<"">>}
Patterns == UNION {[1 .. n -> Levels \cup {"", "+", "#"}] : n \in 1 .. MaxPattern}

\* A plausible mistake, which no specification uses: "+" becomes .+ too.
PlusSpans(seg, levels) ==
  IF seg \in {"+", "#"} THEN levels # <<"">> ELSE levels = <<seg>>

\* Segment seg of the expression matches the run of levels: since literals and
\* "+" hold no "/", each segment matches whole levels.
SegmentMatch(seg, levels) ==
  \/ seg = "+" /\ Len(levels) = 1 /\ levels # <<"">>
  \/ seg = "#" /\ levels # <<"">>
  \/ seg \notin {"+", "#"} /\ levels = <<seg>>

\* The topic can be cut into runs, one per segment, that match.
mqttTopicMatch(t, p) ==
  \E cut \in [1 .. Len(p) + 1 -> 1 .. Len(t) + 1] :
    /\ cut[1] = 1 /\ cut[Len(p) + 1] = Len(t) + 1
    /\ \A i \in DOMAIN p :
         /\ cut[i] < cut[i + 1]
         /\ SegmentMatch(p[i], SubSeq(t, cut[i], cut[i + 1] - 1))

-----------------------------------------------------------------------------
(* The reference *)

\* Section 4.7.1 of the MQTT standard: "+" selects one level, also an empty one;
\* "#" is the last segment and selects what is left of the topic, its parent
\* included.
MultiLevel(p) == Last(p) = "#"
ValidFilter(p) == \A i \in DOMAIN p : p[i] = "#" => i = Len(p)

MqttMatch(t, p) ==
  LET fixed == IF MultiLevel(p) THEN Len(p) - 1 ELSE Len(p) IN
    /\ IF MultiLevel(p) THEN Len(t) >= fixed ELSE Len(t) = fixed
    /\ \A i \in 1 .. fixed : p[i] \in {"+", t[i]}

\* No wildcard of p stands for nothing in t.
NothingEmpty(t, p) ==
  /\ \A i \in DOMAIN p : p[i] = "+" => t[i] # ""
  /\ MultiLevel(p) => Len(t) >= Len(p) /\ SubSeq(t, Len(p), Len(t)) # <<"">>
=============================================================================
