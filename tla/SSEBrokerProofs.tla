-------------------------- MODULE SSEBrokerProofs ---------------------------
(***************************************************************************)
(* Proofs about SSEBroker, for any clients and any capacities of the queue *)
(* and of the clients' channels.                                           *)
(***************************************************************************)
EXTENDS SSEBroker, TLAPS

(* The initial state has the invariant. *)
LEMMA InitHolds == BrokerInit => BrokerInv
<1> SUFFICES ASSUME BrokerInit PROVE BrokerInv
  OBVIOUS
<1>1. queue \in Seq(Events) /\ Len(queue) = 0
  BY DEF BrokerInit
<1>2. /\ buffer \in [Clients -> Seq(Events)]
      /\ \A c \in Clients : Len(buffer[c]) = 0
  BY DEF BrokerInit
<1>3. /\ handler \in [Clients -> HandlerStates]
      /\ msg \in [Clients -> Events \cup {0}] /\ got \in [Clients -> Events \cup {0}]
  BY DEF BrokerInit, HandlerStates
<1>4. BrokerTypeOK
  <2>1. Len(queue) <= QueueCap /\ \A c \in Clients : Len(buffer[c]) <= BufferCap
    BY <1>1, <1>2, CapAssumption
  <2>2. /\ broker \in BrokerStates /\ client \in Clients \cup {NoClient}
        /\ message \in Events \cup {0} /\ todo \subseteq Clients /\ cancelled \in BOOLEAN
        /\ registered \subseteq Clients /\ closed \subseteq Clients
        /\ sent \in Events \cup {0}
    BY DEF BrokerInit, BrokerStates
  <2> QED BY <1>1, <1>2, <1>3, <2>1, <2>2 DEF BrokerTypeOK
<1>5. KnownAreOpen /\ InHand /\ StrangersUnknown
  BY DEF BrokerInit, KnownAreOpen, InHand, StrangersUnknown
<1> QED BY <1>4, <1>5 DEF BrokerInv

(* What the broker's goroutine does on its own, and who starts and stops it. *)
LEMMA BrokerSteps ==
  ASSUME BrokerInv, Start \/ Stop \/ Park \/ Shut \/ Register \/ Unregister \/ TakeEvent \/ Sent
  PROVE  BrokerInv'
<1> USE CapAssumption, ClientAssumption
    DEF BrokerInv, BrokerTypeOK, KnownAreOpen, InHand, StrangersUnknown,
        BrokerStates, HandlerStates, brokerVars, streamVars, clientVars, AtSelect
<1>1. CASE Start
  BY <1>1 DEF Start
<1>2. CASE Stop
  BY <1>2 DEF Stop
<1>3. CASE Park
  BY <1>3 DEF Park
<1>4. CASE Shut
  BY <1>4 DEF Shut
<1>5. CASE Register
  BY <1>5 DEF Register
<1>6. CASE Unregister
  BY <1>6 DEF Unregister
<1>7. CASE TakeEvent
  <2>1. /\ message' \in Events /\ queue' \in Seq(Events)
        /\ Len(queue') <= QueueCap
    BY <1>7 DEF TakeEvent
  <2> QED BY <1>7, <2>1 DEF TakeEvent
<1>8. CASE Sent
  BY <1>8 DEF Sent
<1> QED BY <1>1, <1>2, <1>3, <1>4, <1>5, <1>6, <1>7, <1>8

(* The steps of one client's handler, and the broker's for it. *)
LEMMA ClientSteps ==
  ASSUME BrokerInv, NEW c \in Clients, TakeRegister(c) \/ Send(c) \/ ServeHTTP(c)
  PROVE  BrokerInv'
<1> USE CapAssumption, ClientAssumption
    DEF BrokerInv, BrokerTypeOK, KnownAreOpen, InHand, StrangersUnknown,
        BrokerStates, HandlerStates, brokerVars, streamVars, clientVars, AtSelect
<1>1. CASE TakeRegister(c)
  BY <1>1 DEF TakeRegister
<1>2. CASE Send(c)
  <2>1. /\ buffer' \in [Clients -> Seq(Events)]
        /\ \A d \in Clients : Len(buffer'[d]) <= BufferCap
    BY <1>2 DEF Send
  <2> QED BY <1>2, <2>1 DEF Send, Others
<1>3. CASE Connect(c) \/ KeepAlive(c)
  BY <1>3 DEF Connect, KeepAlive, Handler
<1>4. CASE Receive(c)
  <2>1. /\ buffer' \in [Clients -> Seq(Events)]
        /\ \A d \in Clients : Len(buffer'[d]) <= BufferCap
        /\ Head(buffer[c]) \in Events
    BY <1>4 DEF Receive
  <2> QED BY <1>4, <2>1 DEF Receive, Handler
<1>5. CASE Written(c)
  <2>1. msg' \in [Clients -> Events \cup {0}] /\ got' \in [Clients -> Events \cup {0}]
    BY <1>5 DEF Written
  <2> QED BY <1>5, <2>1 DEF Written, Handler
<1>6. ASSUME NEW here \in {"streaming", "writing"}, EndStream(c, here) PROVE BrokerInv'
  <2>1. msg' \in [Clients -> Events \cup {0}] /\ got' \in [Clients -> Events \cup {0}]
    BY <1>6 DEF EndStream
  <2> QED BY <1>6, <2>1 DEF EndStream, Handler
<1>7. CASE Leave(c)
  BY <1>7 DEF Leave, Ready
<1> QED BY <1>1, <1>2, <1>3, <1>4, <1>5, <1>6, <1>7
     DEF ServeHTTP, Stream, Write, Hangup, SeeClosed, WriteFails

(* SendEvent preserves the invariant. *)
LEMMA SendEventStep ==
  ASSUME BrokerInv, SendEvent
  PROVE  BrokerInv'
<1>1. sent' \in Events
  BY CapAssumption DEF SendEvent, BrokerInv, BrokerTypeOK, Events
<1>2. queue' \in Seq(Events) /\ Len(queue') <= QueueCap
  BY <1>1, CapAssumption DEF SendEvent, BrokerInv, BrokerTypeOK
<1> QED BY <1>1, <1>2
     DEF SendEvent, BrokerInv, BrokerTypeOK, KnownAreOpen, InHand, StrangersUnknown,
         brokerVars, streamVars, clientVars

(* Every step preserves the invariant. *)
LEMMA StepHolds == BrokerInv /\ [BrokerNext]_bvars => BrokerInv'
<1> SUFFICES ASSUME BrokerInv, [BrokerNext]_bvars PROVE BrokerInv'
  OBVIOUS
<1>1. CASE SendEvent
  BY <1>1, SendEventStep
<1>2. CASE \E c \in Clients : TakeRegister(c) \/ Send(c) \/ ServeHTTP(c)
  BY <1>2, ClientSteps
<1>3. CASE Start \/ Stop \/ Park \/ Shut \/ Register \/ Unregister \/ TakeEvent \/ Sent
  BY <1>3, BrokerSteps
<1>4. CASE UNCHANGED bvars
  BY <1>4 DEF bvars, brokerVars, streamVars, clientVars, BrokerInv, BrokerTypeOK, KnownAreOpen,
              InHand, StrangersUnknown
<1> QED BY <1>1, <1>2, <1>3, <1>4 DEF BrokerNext, Run

(* The broker writes to no closed channel and closes none twice, whichever *)
(* clients come and go and whenever it is stopped (sse.go:51-90).          *)
THEOREM BrokerInvariant == BrokerSpec => []BrokerInv
BY InitHolds, StepHolds, PTL DEF BrokerSpec

------------------------------------------------------------------------------
(* The order of delivery.  The events the queue holds are the latest that  *)
(* were sent, in order; the one being broadcast is older than those; what  *)
(* lies in a client's channel is in order, and older than what has yet to  *)
(* reach it; what is being written to it and what was written last are     *)
(* older still, in that order.                                             *)
Increasing(s) == \A i, j \in 1..Len(s) : i < j => s[i] < s[j]
Above(e, s) == \A i \in 1..Len(s) : e < s[i]

QueueInOrder ==
  /\ Increasing(queue) /\ \A i \in 1..Len(queue) : queue[i] <= sent
  /\ broker = "sending" => message <= sent /\ Above(message, queue)

(* An event that client c has, or has lying in its channel. *)
Passed(c, e) ==
  /\ e <= sent /\ Above(e, queue)
  /\ c \in todo => e < message

ClientInOrder(c) ==
  /\ Increasing(buffer[c])
  /\ \A i \in 1..Len(buffer[c]) : Passed(c, buffer[c][i])
  /\ \A e \in {msg[c], got[c]} : Passed(c, e) /\ Above(e, buffer[c])
  /\ msg[c] = 0 \/ got[c] < msg[c]

InOrder == BrokerInv /\ QueueInOrder /\ \A c \in Clients : ClientInOrder(c)

(* An increasing sequence stays so with a larger number at its end ... *)
LEMMA AppendIncreasing ==
  ASSUME NEW s \in Seq(Events), NEW e \in Events, Increasing(s),
         \A i \in 1..Len(s) : s[i] < e
  PROVE  Increasing(Append(s, e))
BY DEF Increasing, Events

(* ... and without its first. *)
LEMMA TailIncreasing ==
  ASSUME NEW s \in Seq(Events), s # <<>>, Increasing(s)
  PROVE  /\ Increasing(Tail(s)) /\ Above(Head(s), Tail(s))
         /\ \A i \in 1..Len(Tail(s)) : Tail(s)[i] = s[i + 1] /\ i + 1 \in 1..Len(s)
         /\ Head(s) = s[1] /\ 1 \in 1..Len(s) /\ Head(s) \in Events
         /\ Tail(s) \in Seq(Events)
BY DEF Increasing, Above

(* Zero, which stands for no event, is older than all of them. *)
LEMMA ZeroPassed ==
  ASSUME BrokerInv, NEW c \in Clients
  PROVE  Passed(c, 0) /\ Above(0, buffer[c])
<1>1. \A e \in Events : 0 < e
  BY CapAssumption DEF Events
<1>2. ASSUME NEW s \in Seq(Events) PROVE Above(0, s)
  <2> SUFFICES ASSUME NEW i \in 1..Len(s) PROVE 0 < s[i]
    BY DEF Above
  <2>1. s[i] \in Events
    OBVIOUS
  <2> QED BY <1>1, <2>1
<1>3. Above(0, queue) /\ Above(0, buffer[c])
  BY <1>2 DEF BrokerInv, BrokerTypeOK
<1>4. 0 <= sent
  BY CapAssumption DEF BrokerInv, BrokerTypeOK, Events
<1>5. c \in todo => 0 < message
  BY <1>1 DEF BrokerInv, InHand
<1> QED BY <1>3, <1>4, <1>5 DEF Passed

(* Nothing has been sent in the initial state. *)
LEMMA InitInOrder == BrokerInit => InOrder
<1> SUFFICES ASSUME BrokerInit PROVE InOrder
  OBVIOUS
<1>1. BrokerInv
  BY InitHolds
<1>2. QueueInOrder
  BY DEF BrokerInit, QueueInOrder, Increasing
<1>3. ASSUME NEW c \in Clients PROVE ClientInOrder(c)
  <2>1. buffer[c] = <<>> /\ msg[c] = 0 /\ got[c] = 0
    BY DEF BrokerInit
  <2> QED BY <1>1, <2>1, ZeroPassed DEF ClientInOrder, Increasing
<1> QED BY <1>1, <1>2, <1>3 DEF InOrder

(* A step that gives the clients nothing and leaves the queue and the      *)
(* message as they are.                                                    *)
LEMMA OtherSteps ==
  ASSUME InOrder, BrokerInv', todo' \subseteq todo,
         UNCHANGED <<queue, sent, buffer, msg, got>>,
         broker' = "sending" => broker = "sending" /\ message' = message
  PROVE  QueueInOrder' /\ \A c \in Clients : ClientInOrder(c)'
<1>1. QueueInOrder'
  BY DEF InOrder, QueueInOrder, Increasing, Above
<1>2. ASSUME NEW c \in Clients PROVE ClientInOrder(c)'
  <2>1. ASSUME NEW e, Passed(c, e) PROVE Passed(c, e)'
    BY <2>1 DEF Passed, Above, BrokerInv, InHand
  <2> QED BY <2>1 DEF InOrder, ClientInOrder, Increasing, Above
<1> QED BY <1>1, <1>2

(* The broker takes the oldest event of the queue. *)
LEMMA TakeEventInOrder ==
  ASSUME InOrder, TakeEvent
  PROVE  QueueInOrder' /\ \A c \in Clients : ClientInOrder(c)'
<1>1. /\ queue \in Seq(Events) /\ queue # <<>> /\ Increasing(queue)
      /\ queue' = Tail(queue) /\ message' = Head(queue)
      /\ UNCHANGED <<sent, buffer, msg, got>>
  BY DEF InOrder, BrokerInv, BrokerTypeOK, QueueInOrder, TakeEvent, clientVars, streamVars
<1>2. QueueInOrder'
  BY <1>1, TailIncreasing DEF InOrder, QueueInOrder
<1>3. ASSUME NEW c \in Clients PROVE ClientInOrder(c)'
  <2>1. ASSUME NEW e, Passed(c, e) PROVE Passed(c, e)'
    BY <1>1, <2>1, TailIncreasing DEF Passed, Above
  <2> QED BY <1>1, <2>1 DEF InOrder, ClientInOrder, Increasing, Above
<1> QED BY <1>2, <1>3

(* A client's channel gets the event, or is full. *)
LEMMA SendInOrder ==
  ASSUME InOrder, NEW c \in Clients, Send(c)
  PROVE  QueueInOrder' /\ \A d \in Clients : ClientInOrder(d)'
<1>1. /\ broker = "sending" /\ c \in todo /\ todo' = todo \ {c}
      /\ UNCHANGED <<broker, message, queue, sent, msg, got>>
      /\ message \in Events
      /\ buffer \in [Clients -> Seq(Events)]
  BY DEF InOrder, BrokerInv, BrokerTypeOK, InHand, Send, Others, streamVars
<1>2. QueueInOrder'
  BY <1>1 DEF InOrder, QueueInOrder, Increasing, Above
<1>3. ASSUME NEW d \in Clients PROVE ClientInOrder(d)'
  <2>1. ASSUME NEW e, Passed(d, e) PROVE Passed(d, e)'
    BY <1>1, <2>1 DEF Passed, Above
  <2>2. CASE buffer'[d] = buffer[d]
    BY <1>1, <2>1, <2>2 DEF InOrder, ClientInOrder, Increasing, Above
  <2>3. CASE d = c /\ buffer'[c] = Append(buffer[c], message)
    <3>1. ClientInOrder(c)
      BY DEF InOrder
    <3>2. \A i \in 1..Len(buffer[c]) : buffer[c][i] < message
      BY <1>1, <3>1 DEF Passed, ClientInOrder
    <3>3. Increasing(buffer'[c])
      BY <1>1, <2>3, <3>1, <3>2, AppendIncreasing DEF ClientInOrder
    <3>4. ASSUME NEW e, e = message PROVE Passed(c, e)'
      BY <1>1, <3>4 DEF InOrder, QueueInOrder, Passed, Above
    <3>5. ASSUME NEW i \in 1..Len(buffer'[c]), NEW e, e = buffer'[c][i] PROVE Passed(c, e)'
      <4>1. CASE i = Len(buffer[c]) + 1
        <5>1. e = message
          BY <1>1, <2>3, <3>5, <4>1
        <5> QED BY <5>1, <3>4
      <4>2. CASE i \in 1..Len(buffer[c])
        <5>1. e = buffer[c][i]
          BY <1>1, <2>3, <3>5, <4>2
        <5>2. Passed(c, e)
          BY <3>1, <4>2, <5>1 DEF ClientInOrder
        <5> QED BY <2>1, <2>3, <5>2
      <4> QED BY <1>1, <2>3, <4>1, <4>2
    <3>6. ASSUME NEW e \in {msg[c], got[c]} PROVE Passed(c, e)' /\ Above(e, buffer'[c])
      <4>1. Passed(c, e) /\ Above(e, buffer[c]) /\ e < message
        BY <1>1, <3>1 DEF Passed, ClientInOrder
      <4>2. Passed(c, e)'
        BY <2>1, <2>3, <4>1
      <4> QED BY <1>1, <2>3, <4>1, <4>2 DEF Above
    <3>7. msg'[c] = msg[c] /\ got'[c] = got[c]
      BY <1>1
    <3> QED BY <2>3, <3>1, <3>3, <3>5, <3>6, <3>7 DEF ClientInOrder
  <2> QED BY <1>1, <2>2, <2>3 DEF Send
<1> QED BY <1>2, <1>3

(* A handler takes the oldest event of its channel. *)
LEMMA ReceiveInOrder ==
  ASSUME InOrder, NEW c \in Clients, Receive(c)
  PROVE  QueueInOrder' /\ \A d \in Clients : ClientInOrder(d)'
<1>1. /\ buffer[c] # <<>> /\ buffer' = [buffer EXCEPT ![c] = Tail(@)]
      /\ msg' = [msg EXCEPT ![c] = Head(buffer[c])]
      /\ UNCHANGED <<broker, message, todo, queue, sent, got>>
      /\ buffer \in [Clients -> Seq(Events)] /\ msg \in [Clients -> Events \cup {0}]
  BY DEF InOrder, BrokerInv, BrokerTypeOK, Receive, Handler, brokerVars
<1>2. QueueInOrder'
  BY <1>1 DEF InOrder, QueueInOrder, Increasing, Above
<1>3. ClientInOrder(c)
  BY DEF InOrder
<1> DEFINE s == buffer[c]
<1>4. /\ Increasing(Tail(s)) /\ Above(Head(s), Tail(s))
      /\ \A i \in 1..Len(Tail(s)) : Tail(s)[i] = s[i + 1] /\ i + 1 \in 1..Len(s)
      /\ Head(s) = s[1] /\ 1 \in 1..Len(s)
  BY <1>1, <1>3, TailIncreasing DEF ClientInOrder
<1>5. ASSUME NEW d \in Clients, NEW e, Passed(d, e) PROVE Passed(d, e)'
  BY <1>1, <1>5 DEF Passed, Above
<1>6. ASSUME NEW d \in Clients, d # c PROVE ClientInOrder(d)'
  <2>1. buffer'[d] = buffer[d] /\ msg'[d] = msg[d] /\ got'[d] = got[d]
    BY <1>1, <1>6
  <2> QED BY <1>5, <2>1 DEF InOrder, ClientInOrder, Increasing, Above
<1>7. ClientInOrder(c)'
  <2>1. buffer'[c] = Tail(s) /\ msg'[c] = Head(s) /\ got'[c] = got[c]
    BY <1>1
  <2>2. ASSUME NEW i \in 1..Len(buffer'[c]), NEW e, e = buffer'[c][i] PROVE Passed(c, e)'
    <3>1. Passed(c, e)
      BY <1>3, <1>4, <2>1, <2>2 DEF ClientInOrder
    <3> QED BY <1>5, <3>1
  <2>3. ASSUME NEW e \in {msg'[c], got'[c]} PROVE Passed(c, e)' /\ Above(e, buffer'[c])
    <3>1. CASE e = Head(s)
      BY <1>3, <1>4, <1>5, <2>1, <3>1 DEF ClientInOrder
    <3>2. CASE e = got[c]
      <4>1. Passed(c, e) /\ Above(e, buffer[c])
        BY <1>3, <3>2 DEF ClientInOrder
      <4> QED BY <1>4, <1>5, <2>1, <4>1 DEF Above
    <3> QED BY <2>1, <2>3, <3>1, <3>2
  <2>4. got'[c] < msg'[c]
    BY <1>3, <1>4, <2>1 DEF ClientInOrder, Above
  <2>5. Increasing(buffer'[c])
    BY <1>4, <2>1
  <2> QED BY <2>1, <2>2, <2>3, <2>4, <2>5 DEF ClientInOrder
<1> QED BY <1>2, <1>6, <1>7

(* A handler's write ends: what it wrote is the last that was, or its      *)
(* connection is over.                                                     *)
LEMMA WriteInOrder ==
  ASSUME InOrder, NEW c \in Clients,
         UNCHANGED <<broker, message, todo, queue, sent, buffer>>,
         \E e \in {0, msg[c], got[c]} : got' = [got EXCEPT ![c] = e],
         msg' = [msg EXCEPT ![c] = 0]
  PROVE  QueueInOrder' /\ \A d \in Clients : ClientInOrder(d)'
<1>1. msg \in [Clients -> Events \cup {0}] /\ got \in [Clients -> Events \cup {0}]
  BY DEF InOrder, BrokerInv, BrokerTypeOK
<1>2. QueueInOrder'
  BY DEF InOrder, QueueInOrder, Increasing, Above
<1>3. ASSUME NEW d \in Clients, NEW e, Passed(d, e) PROVE Passed(d, e)'
  BY <1>3 DEF Passed, Above
<1>4. ASSUME NEW d \in Clients PROVE ClientInOrder(d)'
  <2>1. ClientInOrder(d) /\ Passed(d, 0) /\ Above(0, buffer[d])
    BY ZeroPassed DEF InOrder
  <2>2. /\ msg'[d] \in {0, msg[d]} /\ got'[d] \in {0, msg[d], got[d]}
        /\ msg'[d] # 0 => msg'[d] = msg[d] /\ got'[d] = got[d]
    BY <1>1
  <2>3. ASSUME NEW e \in {msg'[d], got'[d]} PROVE Passed(d, e)' /\ Above(e, buffer'[d])
    <3>1. Passed(d, e) /\ Above(e, buffer[d])
      BY <2>1, <2>2 DEF ClientInOrder
    <3> QED BY <1>3, <3>1
  <2>4. Increasing(buffer'[d])
    BY <2>1 DEF ClientInOrder
  <2>6. ASSUME NEW i \in 1..Len(buffer'[d]), NEW e, e = buffer'[d][i] PROVE Passed(d, e)'
    <3>1. Passed(d, e)
      BY <2>1, <2>6 DEF ClientInOrder
    <3> QED BY <1>3, <3>1
  <2>5. msg'[d] = 0 \/ got'[d] < msg'[d]
    BY <2>1, <2>2 DEF ClientInOrder
  <2> QED BY <2>3, <2>4, <2>5, <2>6 DEF ClientInOrder
<1> QED BY <1>2, <1>4

(* An event joins the queue, as the latest, or is dropped. *)
LEMMA SendEventInOrder ==
  ASSUME InOrder, SendEvent
  PROVE  QueueInOrder' /\ \A c \in Clients : ClientInOrder(c)'
<1>0. Events \subseteq Nat
  BY CapAssumption DEF Events
<1>1. /\ UNCHANGED <<broker, message, todo, buffer, msg, got>>
      /\ queue \in Seq(Events) /\ sent \in Nat /\ sent' = sent + 1 /\ sent' \in Events
      /\ queue' = Append(queue, sent') \/ queue' = queue
      /\ buffer \in [Clients -> Seq(Events)]
      /\ msg \in [Clients -> Events \cup {0}] /\ got \in [Clients -> Events \cup {0}]
      /\ message \in Nat
  BY CapAssumption
     DEF InOrder, BrokerInv, BrokerTypeOK, SendEvent, brokerVars, clientVars, streamVars, Events
<1>2. /\ Increasing(queue) /\ \A i \in 1..Len(queue) : queue[i] <= sent
      /\ broker = "sending" => message <= sent /\ Above(message, queue)
  BY DEF InOrder, QueueInOrder
<1>3. \A i \in 1..Len(queue) : queue[i] \in Nat /\ queue[i] < sent'
  <2> TAKE i \in 1..Len(queue)
  <2>1. queue[i] \in Events /\ queue[i] <= sent
    BY <1>1, <1>2
  <2>2. queue[i] \in Nat
    BY <1>0, <2>1
  <2>3. sent \in Nat /\ sent' = sent + 1
    BY <1>1
  <2> QED BY <2>1, <2>2, <2>3
<1>4. Increasing(queue')
  BY <1>1, <1>2, <1>3, AppendIncreasing
<1>5. ASSUME NEW e \in Nat, e <= sent, Above(e, queue) PROVE e <= sent' /\ Above(e, queue')
  BY <1>1, <1>5 DEF Above
<1>6. QueueInOrder'
  <2>1. \A i \in 1..Len(queue') : queue'[i] <= sent'
    <3> TAKE i \in 1..Len(queue')
    <3>1. CASE i \in 1..Len(queue)
      <4>1. queue'[i] = queue[i]
        BY <1>1, <3>1
      <4>2. queue[i] \in Nat /\ queue[i] < sent'
        BY <1>3, <3>1
      <4> QED BY <1>1, <4>1, <4>2
    <3>2. CASE i \notin 1..Len(queue)
      <4>1. queue'[i] = sent'
        BY <1>1, <3>2
      <4> QED BY <1>1, <4>1
    <3> QED BY <3>1, <3>2
  <2>2. broker = "sending" => message <= sent' /\ Above(message, queue')
    BY <1>1, <1>2, <1>5
  <2> QED BY <1>1, <1>4, <2>1, <2>2 DEF QueueInOrder, Increasing, Above
<1>7. ASSUME NEW c \in Clients PROVE ClientInOrder(c)'
  <2>1. ASSUME NEW e \in Nat, Passed(c, e) PROVE Passed(c, e)'
    BY <1>1, <1>5, <2>1 DEF Passed, Above
  <2>2. \A i \in 1..Len(buffer[c]) : buffer[c][i] \in Nat
    <3> TAKE i \in 1..Len(buffer[c])
    <3>1. buffer[c] \in Seq(Events)
      BY <1>1
    <3>2. buffer[c][i] \in Events
      BY <3>1
    <3> QED BY <1>0, <3>2
  <2>3. msg[c] \in Nat /\ got[c] \in Nat
    <3>1. msg[c] \in Events \cup {0} /\ got[c] \in Events \cup {0}
      BY <1>1
    <3>2. Events \cup {0} \subseteq Nat
      BY <1>0
    <3> QED BY <3>1, <3>2
  <2> QED BY <1>1, <2>1, <2>2, <2>3 DEF InOrder, ClientInOrder, Increasing, Above
<1> QED BY <1>6, <1>7

(* Every step keeps the order. *)
LEMMA StepInOrder == InOrder /\ [BrokerNext]_bvars => InOrder'
<1> SUFFICES ASSUME InOrder, [BrokerNext]_bvars
             PROVE  QueueInOrder' /\ \A c \in Clients : ClientInOrder(c)'
  BY StepHolds DEF InOrder
<1>1. BrokerInv'
  BY StepHolds DEF InOrder
<1>2. CASE SendEvent
  BY <1>2, SendEventInOrder
<1>3. CASE TakeEvent
  BY <1>3, TakeEventInOrder
<1>4. CASE \E c \in Clients : Send(c)
  BY <1>4, SendInOrder
<1>5. CASE \E c \in Clients : Receive(c)
  BY <1>5, ReceiveInOrder
<1>6. CASE \E c \in Clients : Written(c)
  <2>1. PICK c \in Clients : Written(c)
    BY <1>6
  <2>2. got' = [got EXCEPT ![c] = msg[c]] \/ got' = [got EXCEPT ![c] = got[c]]
    BY <2>1 DEF Written, InOrder, BrokerInv, BrokerTypeOK
  <2> QED BY <2>1, <2>2, WriteInOrder DEF Written, Handler, brokerVars
<1>7. CASE \E c \in Clients : Hangup(c) \/ SeeClosed(c) \/ WriteFails(c)
  BY <1>7, WriteInOrder
     DEF Hangup, SeeClosed, WriteFails, EndStream, Handler, brokerVars
<1>8. CASE Start \/ Stop \/ Park \/ Shut \/ Register \/ Unregister \/ Sent \/ UNCHANGED bvars
  BY <1>1, <1>8, OtherSteps
     DEF Start, Stop, Park, Shut, Register, Unregister, Sent, bvars, brokerVars, clientVars,
         streamVars, AtSelect
<1>9. CASE \E c \in Clients : TakeRegister(c) \/ Connect(c) \/ KeepAlive(c) \/ Leave(c)
  BY <1>1, <1>9, OtherSteps
     DEF TakeRegister, Connect, KeepAlive, Handler, Leave, brokerVars, streamVars
<1> QED BY <1>2, <1>3, <1>4, <1>5, <1>6, <1>7, <1>8, <1>9
     DEF BrokerNext, Run, ServeHTTP, Stream, Write

(* Whatever a client misses because its channel or the queue is full, what *)
(* is written to it is in the order of the calls of SendEvent, and nothing *)
(* is written twice (sse.go:80-86 and 149-160).                            *)
THEOREM BrokerDeliversInOrder == BrokerSpec => []DeliveredInOrder
<1>1. InOrder => DeliveredInOrder
  BY DEF InOrder, ClientInOrder, DeliveredInOrder
<1> QED BY <1>1, InitInOrder, StepInOrder, PTL DEF BrokerSpec
==============================================================================
