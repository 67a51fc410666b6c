\* Topics of up to three levels against patterns of up to three segments.
SPECIFICATION TopicSpec
CONSTANTS
  Levels = {"Hy", "temp"}
  MaxTopic = 3
  MaxPattern = 3
INVARIANTS
  SelectsPerMqttRules
