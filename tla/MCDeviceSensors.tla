--------------------------- MODULE MCDeviceSensors ---------------------------
(***************************************************************************)
(* DeviceSensors for TLC, with two of the seeded sensors.                  *)
(***************************************************************************)
EXTENDS DeviceSensors, TLC

SeedTypes == [s \in Sensors |-> IF s = "battery" THEN "i2c" ELSE SDI]
\* A maximum that few operations reach.
SmallMax  == [s \in Sensors |-> IF s = "soil_moisture" THEN 2 ELSE 1]
\* No sensor is seeded with pins; here one has one.
OnePin   == [s \in Sensors |-> IF s = "battery" THEN <<"A1">> ELSE <<>>]

\* The sensor of each type that is found first.
FirstOfType == (SDI :> "soil_moisture") @@ ("i2c" :> "battery")

\* A sensor on the bus, and one that the server does not know; a sensor of the bus
\* without an address.
SomeReports == {{Key("soil_moisture", 1, NoPin), Key("rain", 2, NoPin)},
                {Key("soil_moisture", None, NoPin)}}

RequestSymmetry == Permutations(Requests)
=============================================================================
