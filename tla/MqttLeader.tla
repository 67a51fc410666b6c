------------------------------ MODULE MqttLeader ------------------------------
(***************************************************************************)
(* Which containers listen to the broker: the event handlers that          *)
(* MqttClientManager.connect installs (mqtt/client.ts), from the start of  *)
(* a container (SystemBoot) on.                                            *)
(*                                                                         *)
(* An elector per container takes part in an election; only its winner is  *)
(* to subscribe.  Each "connect" event of the MQTT client shuts the        *)
(* elector down, unbinds its listeners, starts it and binds them again;    *)
(* each "close" event shuts it down.  Both handlers await, and the events  *)
(* do not wait for them: handlers of one container overlap.                *)
(*                                                                         *)
(* The elector (LeaderElector) and the MQTT client are libraries.  Of the  *)
(* elector it is assumed that one container leads at a time, and that it   *)
(* emits "elected" and "revoked" when it wins and loses; whether shutting  *)
(* a leader down emits "revoked" (tells) and whether an election may be    *)
(* won before init has returned (eager) is left open.  The client sends    *)
(* what it was asked to while offline when it is online again, and the     *)
(* broker keeps the subscriptions of a session that is not clean.          *)
(***************************************************************************)
EXTENDS SystemBoot

CONSTANTS
  Handlers,   \* places for the handlers under way in one container
  Ghost,      \* who leads when a leader's process is gone
  MaxCloses   \* bound: connections that close

ASSUME LeaderAssumption ==
  /\ Nobody \notin Containers /\ Ghost \notin Containers /\ Ghost # Nobody
  /\ MaxCloses \in Nat

VARIABLES
  online,      \* online[c]: the client of container c is connected
  handler,     \* handler[c][h]: the call that handler h makes next
  bound,       \* bound[c]: how often the listeners are bound
  running,     \* running[c]: its elector takes part in the election
  leader,      \* whose elector leads
  asked,       \* asked[c]: the client was last told to subscribe
  subscribed,  \* subscribed[c]: the broker holds the subscriptions of its session
  tells, eager,
  closed,      \* closed[c]: this process has lost its connection (history)
  troubled,    \* troubled[c]: a call of its elector has thrown (history)
  late,        \* late[c]: the shutdown that a lost connection began was not over
               \* when the connection was back (history)
  closes

clientVars == <<online, asked, subscribed>>
electorVars == <<running, leader>>
leaderVars == <<clientVars, electorVars, handler, bound, tells, eager, closed, troubled, late, closes>>
systemVars == <<bootVars, leaderVars>>

MaxBound == 2

SystemInit ==
  /\ Init
  /\ online = [c \in Containers |-> FALSE]
  /\ handler = [c \in Containers |-> [h \in Handlers |-> "idle"]]
  /\ bound = [c \in Containers |-> 0]
  /\ running = [c \in Containers |-> FALSE]
  /\ leader = Nobody
  /\ asked = [c \in Containers |-> FALSE]
  /\ subscribed = [c \in Containers |-> FALSE]
  /\ tells \in BOOLEAN /\ eager \in BOOLEAN
  /\ closed = [c \in Containers |-> FALSE]
  /\ troubled = [c \in Containers |-> FALSE]
  /\ late = [c \in Containers |-> FALSE]
  /\ closes = 0

-----------------------------------------------------------------------------
(***************************************************************************)
(* Seeded faults: what a plausible mistake would make of the definitions   *)
(* that follow.  No specification uses them.                               *)
(***************************************************************************)

\* the listeners are unbound before the elector is shut down
UnboundFirst(c, h) == bound[c] - (IF handler[c][h] = "shutdown" THEN 1 ELSE 0) > 0
\* the listeners are bound at the first connection only
BoundOnce(c) == IF closed[c] THEN bound[c] ELSE 1
-----------------------------------------------------------------------------
InHandler(c, h, place) == handler' = [handler EXCEPT ![c][h] = place]

\* A new handler takes a place that is free; which one makes no difference.
Free(c) == {h \in Handlers : handler[c][h] = "idle"}
NewHandler(c, h) == Free(c) # {} /\ h = CHOOSE g \in Free(c) : TRUE

\* The client is asked to subscribe, or to unsubscribe; what it is asked for
\* offline it sends once it is online.
Ask(c, what) ==
  /\ asked' = [asked EXCEPT ![c] = what]
  /\ subscribed' = [subscribed EXCEPT ![c] = IF online[c] THEN what ELSE @]

Unsubscribe(c) == Ask(c, FALSE)

\* client.on("connect"): the handler begins with the elector's shutdown.
Connected(c, h) ==
  /\ at[c] = "up" /\ ~online[c]
  /\ NewHandler(c, h)
  /\ online' = [online EXCEPT ![c] = TRUE]
  /\ subscribed' = [subscribed EXCEPT ![c] = asked[c]]
  /\ InHandler(c, h, "shutdown")
  /\ UNCHANGED <<asked, electorVars, bound, tells, eager, closed, troubled, late, closes>>

\* client.on("close"): the handler shuts the elector down.
Closed(c, h) ==
  /\ online[c]
  /\ NewHandler(c, h)
  /\ closes < MaxCloses
  /\ closes' = closes + 1
  /\ online' = [online EXCEPT ![c] = FALSE]
  /\ closed' = [closed EXCEPT ![c] = TRUE]
  /\ InHandler(c, h, "closing")
  /\ UNCHANGED <<asked, subscribed, electorVars, bound, tells, eager, troubled, late>>

ShuttingDown(c, h) == handler[c][h] \in {"shutdown", "closing"}

\* What follows the shutdown in either handler: off, and the call of init.
AfterShutdown(c, h) ==
  IF handler[c][h] = "shutdown"
  THEN /\ InHandler(c, h, "init")
       /\ bound' = [bound EXCEPT ![c] = IF @ = 0 THEN 0 ELSE @ - 1]
  ELSE /\ InHandler(c, h, "idle")
       /\ bound' = bound

\* Somebody listens to the events of c's elector.
Heard(c, h) == bound[c] > 0

Shutdown(c, h) ==
  /\ ShuttingDown(c, h)
  /\ running' = [running EXCEPT ![c] = FALSE]
  /\ leader' = IF leader = c THEN Nobody ELSE leader
  /\ IF leader = c /\ tells /\ Heard(c, h) THEN Unsubscribe(c) ELSE UNCHANGED <<asked, subscribed>>
  /\ AfterShutdown(c, h)
  /\ late' = [late EXCEPT ![c] = @ \/ (handler[c][h] = "closing" /\ online[c])]
  /\ UNCHANGED <<bootVars, online, tells, eager, closed, troubled, closes>>

\* The shutdown throws, which is logged.
ShutdownThrows(c, h) ==
  /\ ShuttingDown(c, h)
  /\ deaths < MaxDeaths
  /\ deaths' = deaths + 1
  /\ troubled' = [troubled EXCEPT ![c] = TRUE]
  /\ AfterShutdown(c, h)
  /\ UNCHANGED <<at, identity, made, cut, clientVars, electorVars, tells, eager, closed, late, closes>>

Bind(c) == IF bound[c] = MaxBound THEN MaxBound ELSE bound[c] + 1

\* init returns, and the listeners are bound.
Initialized(c, h) ==
  /\ handler[c][h] = "init"
  /\ InHandler(c, h, "idle")
  /\ running' = [running EXCEPT ![c] = TRUE]
  /\ bound' = [bound EXCEPT ![c] = Bind(c)]
  /\ UNCHANGED <<bootVars, clientVars, leader, tells, eager, closed, troubled, late, closes>>

\* init throws, which is logged; the listeners are bound all the same.
InitThrows(c, h) ==
  /\ handler[c][h] = "init"
  /\ deaths < MaxDeaths
  /\ deaths' = deaths + 1
  /\ troubled' = [troubled EXCEPT ![c] = TRUE]
  /\ InHandler(c, h, "idle")
  /\ bound' = [bound EXCEPT ![c] = Bind(c)]
  /\ UNCHANGED <<at, identity, made, cut, clientVars, electorVars, tells, eager, closed, late, closes>>

Candidate(c) == running[c] \/ (eager /\ \E h \in Handlers : handler[c][h] = "init")

\* The elector wins and emits "elected"; onElected subscribes.
Elected(c) ==
  /\ leader = Nobody
  /\ Candidate(c)
  /\ leader' = c
  /\ IF bound[c] > 0 THEN Ask(c, TRUE) ELSE UNCHANGED <<asked, subscribed>>
  /\ UNCHANGED <<bootVars, online, running, handler, bound, tells, eager, closed, troubled, late, closes>>

\* The elector loses the election it had won and emits "revoked"; onRevoked
\* unsubscribes.
Revoked(c) ==
  /\ leader = c
  /\ leader' = Nobody
  /\ IF bound[c] > 0 THEN Unsubscribe(c) ELSE UNCHANGED <<asked, subscribed>>
  /\ UNCHANGED <<bootVars, online, running, handler, bound, tells, eager, closed, troubled, late, closes>>

\* The claim of a leader that is gone runs out.
Expired ==
  /\ leader = Ghost
  /\ leader' = Nobody
  /\ UNCHANGED <<bootVars, clientVars, running, handler, bound, tells, eager, closed, troubled, late, closes>>

\* With a process its handlers, listeners, elector and MQTT session end: the
\* client id of the next one is another.
Leave(c) ==
  /\ online' = [online EXCEPT ![c] = FALSE]
  /\ asked' = [asked EXCEPT ![c] = FALSE]
  /\ subscribed' = [subscribed EXCEPT ![c] = FALSE]
  /\ handler' = [handler EXCEPT ![c] = [h \in Handlers |-> "idle"]]
  /\ bound' = [bound EXCEPT ![c] = 0]
  /\ running' = [running EXCEPT ![c] = FALSE]
  /\ closed' = [closed EXCEPT ![c] = FALSE]
  /\ troubled' = [troubled EXCEPT ![c] = FALSE]
  /\ late' = [late EXCEPT ![c] = FALSE]
  /\ leader' = IF leader = c THEN Ghost ELSE leader
  /\ UNCHANGED <<tells, eager, closes>>

Connection(c) ==
  \E h \in Handlers : (Connected(c, h) \/ Closed(c, h)) /\ UNCHANGED bootVars

Handling(c) ==
  \E h \in Handlers : Shutdown(c, h) \/ ShutdownThrows(c, h) \/ Initialized(c, h) \/ InitThrows(c, h)

Starting(c) == BootStep(c) /\ UNCHANGED leaderVars
Dying(c) == Die(c) /\ Leave(c)

SystemNext ==
  \/ \E c \in Containers :
       Starting(c) \/ Dying(c) \/ Connection(c) \/ Handling(c) \/ Elected(c) \/ Revoked(c)
  \/ Expired

SystemSpec == SystemInit /\ [][SystemNext]_systemVars

(***************************************************************************)
(* Fairness.  A container that ended is started again, and every call of   *)
(* its start ends; the client reconnects (reconnectPeriod); the calls of a *)
(* handler end; while nobody leads and some elector takes part, one wins;  *)
(* the claim of a dead leader runs out.                                    *)
(***************************************************************************)
Fairness ==
  /\ \A c \in Containers :
       /\ WF_systemVars(Starting(c))
       /\ WF_systemVars(\E h \in Handlers : Connected(c, h) /\ UNCHANGED bootVars)
       /\ \A h \in Handlers :
            WF_systemVars(Shutdown(c, h) \/ ShutdownThrows(c, h) \/ Initialized(c, h) \/ InitThrows(c, h))
  /\ WF_systemVars(\E c \in Containers : Elected(c))
  /\ WF_systemVars(Expired)

FairSystemSpec == SystemSpec /\ Fairness

-----------------------------------------------------------------------------
(* Properties *)

LeaderTypeOK ==
  /\ online \in [Containers -> BOOLEAN]
  /\ handler \in [Containers -> [Handlers -> {"idle", "shutdown", "init", "closing"}]]
  /\ bound \in [Containers -> 0 .. MaxBound]
  /\ running \in [Containers -> BOOLEAN]
  /\ leader \in Containers \cup {Nobody, Ghost}
  /\ asked \in [Containers -> BOOLEAN]
  /\ subscribed \in [Containers -> BOOLEAN]
  /\ tells \in BOOLEAN /\ eager \in BOOLEAN
  /\ closed \in [Containers -> BOOLEAN]
  /\ troubled \in [Containers -> BOOLEAN]
  /\ late \in [Containers -> BOOLEAN]
  /\ closes \in 0 .. MaxCloses

Listens(c) == online[c] /\ subscribed[c]

\* "only the leader should subscribe to MQTT topics" (mqtt/client.ts:79): a
\* container that gets messages leads, over any overlap of its handlers, unless
\* its elector has thrown, or was shut down with a lost connection and did not
\* tell: then the session that it resumes still holds the subscriptions.
OnlyLeaderListens ==
  \A c \in Containers : Listens(c) =>
    leader = c \/ troubled[c] \/ (~tells /\ closed[c])

\* The converse, while no election is won before the listeners are bound: whoever
\* leads and is online gets messages, whatever its handlers are doing and however
\* often it lost its connection, unless its elector has thrown.
LeaderListens ==
  ~eager => \A c \in Containers : leader = c /\ online[c] => subscribed[c] \/ troubled[c]

\* Somebody listens again and again, after elections lost, connections closed
\* and containers that died, if no election is won before the listeners are
\* bound, no first start was cut short, no call of an elector has thrown, and
\* those of some elector have taken effect in the order they were made.
SomebodyListens ==
  ~eager => \/ []<>(\E c \in Containers : Listens(c))
            \/ <>(cut # {})
            \/ <>(\E c \in Containers : troubled[c])
            \/ <>(\A c \in Containers : late[c])
=============================================================================
