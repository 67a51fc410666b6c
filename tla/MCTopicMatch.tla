----------------------------- MODULE MCTopicMatch -----------------------------
(***************************************************************************)
(* TopicMatch for TLC: topics arrive and patterns are edited.              *)
(***************************************************************************)
EXTENDS TopicMatch

VARIABLES
  topic,   \* of the message that arrived last; <<>> before the first
  pattern  \* topicPattern of a forwarder

topicVars == <<topic, pattern>>

TopicInit == topic = <<>> /\ pattern \in Patterns

\* A message arrives.
Arrive == /\ topic' \in Topics
          /\ pattern' = pattern

\* An operator stores another pattern.
Edit == /\ pattern' \in Patterns
        /\ topic' = topic

TopicNext == Arrive \/ Edit

TopicSpec == TopicInit /\ [][TopicNext]_topicVars

-----------------------------------------------------------------------------
\* "supports + and # per MQTT rules" (services/forwarder.ts:21): what the
\* expression selects for a valid filter is what MQTT selects.
SelectsPerMqttRules ==
  topic \in Topics /\ ValidFilter(pattern) =>
    (mqttTopicMatch(topic, pattern) <=> MqttMatch(topic, pattern))
=============================================================================
