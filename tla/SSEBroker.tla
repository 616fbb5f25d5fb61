------------------------------ MODULE SSEBroker ------------------------------
(***************************************************************************)
(* The broker of Server-Sent Events, internal/ui/sse.go: one goroutine, in *)
(* run, that registers clients, unregisters them and broadcasts events to  *)
(* their channels; one goroutine per client, in ServeHTTP; SendEvent from  *)
(* anywhere.  register and unregister are unbuffered: who sends meets the  *)
(* broker in its select.  A client stands for one connection and for the   *)
(* channel made for it; events are numbered as they are sent.              *)
(***************************************************************************)
EXTENDS Integers, Sequences, FiniteSets

CONSTANTS Clients,
          Readers,      \* the clients that never stop reading for good
          QueueCap,     \* the events broadcast holds; 100 in the code
          BufferCap,    \* the events a client's channel holds; 10 in the code
          MaxEvents,    \* bound on the events sent, for TLC
          NoClient

ASSUME CapAssumption ==
  QueueCap \in Nat \ {0} /\ BufferCap \in Nat \ {0} /\ MaxEvents \in Nat
ASSUME ClientAssumption == Readers \subseteq Clients /\ NoClient \notin Clients

VARIABLES broker,       \* the statement the broker is at
          client,       \* the client it registers or unregisters
          message, todo,\* the event it broadcasts, and to whom it has yet to
          cancelled,    \* Stop has been called since Start
          registered,   \* b.clients
          closed,       \* the clients' channels that are closed
          queue,        \* b.broadcast
          buffer,       \* per client, its channel
          handler,      \* per client, the statement its ServeHTTP is at
          msg,          \* per client, the event its handler writes, 0 for none
          sent,         \* ghost: how many events have been sent
          got           \* ghost: per client, the event last written to it

brokerVars == <<broker, client, message, todo>>
streamVars == <<msg, got>>
clientVars == <<buffer, handler, streamVars>>
bvars == <<brokerVars, cancelled, registered, closed, queue, sent, clientVars>>

BrokerStates == {"off", "running", "parked", "registering", "unregistering", "sending"}
HandlerStates == {"away", "registering", "writing", "streaming", "leaving", "left"}
Events == 1..MaxEvents

BrokerInit ==
  /\ broker = "off" /\ client = NoClient /\ message = 0 /\ todo = {}
  /\ cancelled = FALSE
  /\ registered = {} /\ closed = {} /\ queue = <<>>
  /\ buffer = [c \in Clients |-> <<>>]
  /\ handler = [c \in Clients |-> "away"]
  /\ sent = 0
  /\ msg = [c \in Clients |-> 0] /\ got = msg

------------------------------------------------------------------------------
(* Start and Stop, which waits for the broker to be off. *)

Start == /\ broker = "off"
         /\ broker' = "running" /\ cancelled' = FALSE
         /\ UNCHANGED <<client, message, todo, registered, closed, queue, sent, clientVars>>

Stop == /\ broker # "off" /\ ~cancelled
        /\ cancelled' = TRUE
        /\ UNCHANGED <<brokerVars, registered, closed, queue, sent, clientVars>>

(* The broker.  It waits in its select, parked, only when no case of it is *)
(* ready; otherwise it takes any that is.                                  *)

AtSelect == broker \in {"running", "parked"}
Ready == cancelled \/ queue # <<>> \/ \E c \in Clients : handler[c] = "registering"

Park == /\ broker = "running" /\ ~Ready
        /\ broker' = "parked"
        /\ UNCHANGED <<client, message, todo, cancelled, registered, closed>>
        /\ UNCHANGED <<queue, sent, clientVars>>

\* Mutant: the clients are forgotten but not told.
ShutSilently ==
  /\ AtSelect /\ cancelled
  /\ registered' = {}
  /\ broker' = "off"
  /\ UNCHANGED <<client, message, todo, cancelled, closed, queue, sent, clientVars>>

Shut == /\ AtSelect /\ cancelled
        /\ closed' = closed \cup registered
        /\ registered' = {}
        /\ broker' = "off"
        /\ UNCHANGED <<client, message, todo, cancelled, queue, sent, clientVars>>

(* The rendezvous with a client that waits to be registered, and is        *)
(* greeted next.                                                           *)
TakeRegister(c) ==
  /\ AtSelect /\ handler[c] = "registering"
  /\ broker' = "registering" /\ client' = c
  /\ handler' = [handler EXCEPT ![c] = "writing"]
  /\ UNCHANGED <<message, todo, cancelled, registered, closed, queue, sent, buffer, streamVars>>

Register == /\ broker = "registering"
            /\ registered' = registered \cup {client}
            /\ broker' = "running" /\ client' = NoClient
            /\ UNCHANGED <<message, todo, cancelled, closed, queue, sent, clientVars>>

\* Mutant: the client is told but not forgotten.
CloseOnly ==
  /\ broker = "unregistering"
  /\ closed' = closed \cup ({client} \cap registered)
  /\ broker' = "running" /\ client' = NoClient
  /\ UNCHANGED <<message, todo, cancelled, registered, queue, sent, clientVars>>

Unregister == /\ broker = "unregistering"
              /\ closed' = closed \cup ({client} \cap registered)
              /\ registered' = registered \ {client}
              /\ broker' = "running" /\ client' = NoClient
              /\ UNCHANGED <<message, todo, cancelled, queue, sent, clientVars>>

TakeEvent == /\ AtSelect /\ queue # <<>>
             /\ message' = Head(queue) /\ queue' = Tail(queue)
             /\ todo' = registered
             /\ broker' = "sending"
             /\ UNCHANGED <<client, cancelled, registered, closed, sent, clientVars>>

\* Mutant: an event that finds a client's buffer full is queued once more.
SendOrRequeue(c) ==
  /\ broker = "sending" /\ c \in todo
  /\ todo' = todo \ {c}
  /\ \/ /\ Len(buffer[c]) < BufferCap
        /\ buffer' = [buffer EXCEPT ![c] = Append(@, message)]
        /\ UNCHANGED queue
     \/ /\ Len(buffer[c]) = BufferCap
        /\ queue' = IF Len(queue) < QueueCap THEN Append(queue, message) ELSE queue
        /\ UNCHANGED buffer
  /\ UNCHANGED <<broker, client, message, cancelled, registered, closed, sent>>
  /\ UNCHANGED <<handler, streamVars>>

\* Mutant: the broker waits for room in a client's buffer.
SendBlocking(c) ==
  /\ broker = "sending" /\ c \in todo
  /\ Len(buffer[c]) < BufferCap
  /\ todo' = todo \ {c}
  /\ buffer' = [buffer EXCEPT ![c] = Append(@, message)]
  /\ UNCHANGED <<broker, client, message, cancelled, registered, closed, queue, sent>>
  /\ UNCHANGED <<handler, streamVars>>

\* Mutant: the broadcast ends with the first client whose buffer is full.
OthersIfRoom(c) == IF Len(buffer[c]) < BufferCap THEN todo \ {c} ELSE {}

(* Whom a broadcast has yet to reach after c. *)
Others(c) == todo \ {c}

(* The clients are served in any order; one whose buffer is full misses    *)
(* the event.                                                              *)
Send(c) ==
  /\ broker = "sending" /\ c \in todo
  /\ todo' = Others(c)
  /\ buffer' = [buffer EXCEPT ![c] =
                  IF Len(@) < BufferCap THEN Append(@, message) ELSE @]
  /\ UNCHANGED <<broker, client, message, cancelled, registered, closed, queue, sent>>
  /\ UNCHANGED <<handler, streamVars>>

Sent == /\ broker = "sending" /\ todo = {}
        /\ broker' = "running" /\ message' = 0
        /\ UNCHANGED <<client, todo, cancelled, registered, closed, queue, sent, clientVars>>

------------------------------------------------------------------------------
(* SendEvent: an event that finds the queue full is dropped. *)
SendEvent ==
  /\ sent < MaxEvents
  /\ sent' = sent + 1
  /\ queue' = IF Len(queue) < QueueCap THEN Append(queue, sent') ELSE queue
  /\ UNCHANGED <<brokerVars, cancelled, registered, closed, clientVars>>

(* ServeHTTP: from one statement that another can see to the next.         *)
Handler(c, here, there) ==
  /\ handler[c] = here /\ handler' = [handler EXCEPT ![c] = there]
  /\ UNCHANGED <<brokerVars, cancelled, registered, closed, queue, sent>>

Connect(c) == Handler(c, "away", "registering") /\ UNCHANGED <<buffer, streamVars>>

(* The select takes an event from the channel, or the ticker's keep-alive, *)
(* and writes it.  The server sets no timeout for that: a client that does *)
(* not read its connection can hold the handler for good.                  *)
Receive(c) ==
  /\ Handler(c, "streaming", "writing") /\ buffer[c] # <<>>
  /\ buffer' = [buffer EXCEPT ![c] = Tail(@)]
  /\ msg' = [msg EXCEPT ![c] = Head(buffer[c])]
  /\ UNCHANGED got

KeepAlive(c) == Handler(c, "streaming", "writing") /\ UNCHANGED <<buffer, streamVars>>

Written(c) ==
  /\ Handler(c, "writing", "streaming")
  /\ got' = IF msg[c] = 0 THEN got ELSE [got EXCEPT ![c] = msg[c]]
  /\ msg' = [msg EXCEPT ![c] = 0]
  /\ UNCHANGED buffer

(* The select finds the context done, or the channel closed and empty.     *)
(* Nobody looks at a write's error, but it ends the context too; what the  *)
(* select takes before it notices is lost, and left out here.              *)
EndStream(c, here) ==
  /\ Handler(c, here, "leaving")
  /\ msg' = [msg EXCEPT ![c] = 0] /\ got' = [got EXCEPT ![c] = 0]
  /\ UNCHANGED buffer
Hangup(c) == EndStream(c, "streaming")
SeeClosed(c) == c \in closed /\ buffer[c] = <<>> /\ EndStream(c, "streaming")
WriteFails(c) == EndStream(c, "writing")

(* The deferred unregister: it meets a parked broker, or gives up. *)
Leave(c) ==
  /\ handler[c] = "leaving"
  /\ handler' = [handler EXCEPT ![c] = "left"]
  /\ \/ /\ broker = "parked" /\ ~Ready
        /\ broker' = "unregistering" /\ client' = c
        /\ UNCHANGED <<message, todo>>
     \/ /\ broker # "parked" \/ Ready
        /\ UNCHANGED brokerVars
  /\ UNCHANGED <<cancelled, registered, closed, queue, sent, buffer, streamVars>>

------------------------------------------------------------------------------
Run == \/ Park \/ Shut \/ Register \/ Unregister \/ TakeEvent \/ Sent
       \/ \E c \in Clients : TakeRegister(c) \/ Send(c)
Stream(c) == Receive(c) \/ SeeClosed(c)
Write(c) == Written(c) \/ WriteFails(c)
ServeHTTP(c) == \/ Connect(c) \/ Stream(c) \/ KeepAlive(c) \/ Write(c)
                \/ Hangup(c) \/ Leave(c)

BrokerNext == Start \/ Stop \/ Run \/ SendEvent \/ \E c \in Clients : ServeHTTP(c)
BrokerSpec == BrokerInit /\ [][BrokerNext]_bvars

(* The broker runs when it can, and a select takes each of its ready cases *)
(* now and then.  The handler of a client that goes on reading ends its    *)
(* writes and goes on too; nothing is assumed of the others.  Nobody is    *)
(* obliged to connect, to hang up, or to call Start, Stop or SendEvent.    *)
BrokerFairness ==
  /\ WF_bvars(Run) /\ SF_bvars(Shut) /\ SF_bvars(TakeEvent)
  /\ \A c \in Clients : SF_bvars(TakeRegister(c))
  /\ \A c \in Readers : SF_bvars(Stream(c)) /\ WF_bvars(Write(c)) /\ WF_bvars(Leave(c))

BrokerFairSpec == BrokerSpec /\ BrokerFairness

------------------------------------------------------------------------------
(* Properties *)

(* Type invariant of the broker, its channels and its clients. *)
BrokerTypeOK ==
  /\ broker \in BrokerStates /\ client \in Clients \cup {NoClient}
  /\ message \in Events \cup {0} /\ todo \subseteq Clients
  /\ cancelled \in BOOLEAN
  /\ registered \subseteq Clients /\ closed \subseteq Clients
  /\ queue \in Seq(Events) /\ Len(queue) <= QueueCap
  /\ buffer \in [Clients -> Seq(Events)]
  /\ \A c \in Clients : Len(buffer[c]) <= BufferCap
  /\ handler \in [Clients -> HandlerStates]
  /\ sent \in Events \cup {0}
  /\ msg \in [Clients -> Events \cup {0}] /\ got \in [Clients -> Events \cup {0}]

(* The broker sends on no closed channel and closes none twice, either of  *)
(* which would end the program: those it knows are open, also when a       *)
(* client leaves or the broker stops amid a broadcast (sse.go:57-66).      *)
KnownAreOpen == (registered \cup todo) \cap closed = {}

(* What run has in hand: a client it registers is a new one, and those it  *)
(* writes to are all still known.                                          *)
InHand ==
  /\ broker \in {"registering", "unregistering"} => client \in Clients
  /\ broker = "registering" =>
       client \notin registered \cup closed /\ handler[client] \notin {"away", "registering"}
  /\ todo \subseteq registered
  /\ IF broker = "sending" THEN message \in Events ELSE todo = {}

(* A client the broker has not met has a channel nobody else knows. *)
StrangersUnknown ==
  \A c \in Clients : handler[c] \in {"away", "registering"} => c \notin registered \cup closed

(* Type correctness and the safety of the channels, with what they rest on. *)
BrokerInv == BrokerTypeOK /\ KnownAreOpen /\ InHand /\ StrangersUnknown

(* What is written to a client is newer than all that was written to it    *)
(* before: events reach it in the order in which they were sent, each at   *)
(* most once, whatever it misses.                                          *)
DeliveredInOrder == \A c \in Clients : msg[c] = 0 \/ got[c] < msg[c]

(* The broadcast of event e finds the channel of client c full. *)
Misses(c, e) ==
  broker = "sending" /\ message = e /\ c \in todo /\ Len(buffer[c]) = BufferCap

(* "Real-time status updates via Server-Sent Events" (README.md:21): an    *)
(* event queued while a client is connected is written to it if it reads,  *)
(* however other clients stall, unless its channel is full at the event's  *)
(* turn, its connection ends, or the broker stops.                         *)
EventsArrive ==
  \A c \in Readers, e \in Events :
    (c \in registered /\ e \in {queue[i] : i \in 1..Len(queue)})
      ~> (got[c] = e \/ Misses(c, e) \/ handler[c] \in {"leaving", "left"} \/ cancelled)

(* The clients of a broker that is stopped are told so and leave if they   *)
(* read, those that hang up or are being written to at that moment         *)
(* included, however other clients stall.                                  *)
StopEndsStreams ==
  \A c \in Readers : (c \in registered /\ cancelled) ~> handler[c] = "left"

(* A client waits to be registered only while no broker runs: no other     *)
(* client, gone or slow, can hold the broker up.                           *)
ConnectIsServed ==
  \A c \in Clients : handler[c] = "registering"
                       ~> (handler[c] # "registering" \/ broker = "off")
==============================================================================
