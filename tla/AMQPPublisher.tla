--------------------------- MODULE AMQPPublisher ---------------------------
(***************************************************************************)
(* The publisher all isochrone handlers share: one lazily dialled channel   *)
(* in confirm mode behind a one-slot semaphore, one outstanding publish at  *)
(* a time, and a health check that never queues for the semaphore.  The     *)
(* broker and the client library are modelled from how the code uses them:  *)
(* a message that cannot be routed is returned and then acked, and a        *)
(* channel that closes settles its outstanding confirm as not acked and     *)
(* closes the channel the returns arrive on.                                *)
(***************************************************************************)
CONSTANTS
  Messages,      \* one Publish call per message
  NoMessage,     \* an empty returns buffer
  Ping, Nobody   \* who holds the semaphore when no Publish does

ASSUME AMQPPublisherAssumption ==
  /\ NoMessage \notin Messages /\ Ping \notin Messages /\ Nobody \notin Messages
  /\ Ping # Nobody

VARIABLES
  pc,        \* where each Publish is, then what it returned
  ping,      \* where the health check's goroutine is
  lock,      \* who holds the semaphore
  channel,   \* p.ch: none, open, or closed under the publisher
  returns,   \* the return buffered for the current channel
  confirm,   \* each publish's deferred confirmation
  wire,      \* how far the broker is with each message
  queue      \* the messages the broker has queued

publisherVars == <<pc, ping, lock, channel, returns, confirm, wire, queue>>
broker == <<confirm, wire, queue>>

Busy     == {"acquire", "connect", "dial", "send", "confirm", "drain"}
Outcomes == {"nil", "failed", "returned", "nacked"}

\* Sent and unanswered; queued; bounced; answered; or sent on a channel that
\* is gone, so the broker may still queue it but nothing comes back.
WireStates == {"none", "sent", "routed", "bounced", "answered", "adrift"}

PublisherInit ==
  /\ pc = [m \in Messages |-> "idle"]
  /\ ping = "idle"
  /\ lock = Nobody
  /\ channel = "none"
  /\ returns = NoMessage
  /\ confirm = [m \in Messages |-> "pending"]
  /\ wire = [m \in Messages |-> "none"]
  /\ queue = {}

----------------------------------------------------------------------------
Move(m, l)  == pc' = [pc EXCEPT ![m] = l]

\* The deferred release.
Return(m, outcome) == Move(m, outcome) /\ lock' = Nobody

\* Nothing the broker sends about these messages is heard any more.
Unheard == [m \in Messages |-> IF wire[m] \in {"none", "answered"} THEN wire[m]
                                                                  ELSE "adrift"]

\* reset: channel and connection closed and forgotten, returns with them.
Reset == channel' = "none" /\ returns' = NoMessage /\ wire' = Unheard

Call(m) ==
  /\ pc[m] = "idle"
  /\ Move(m, "acquire")
  /\ UNCHANGED <<ping, lock, channel, returns, broker>>

Acquire(m) ==
  /\ pc[m] = "acquire" /\ lock = Nobody
  /\ lock' = m
  /\ Move(m, "connect")
  /\ UNCHANGED <<ping, channel, returns, broker>>

\* The request's context ends while it waits.
AcquireCancelled(m) ==
  /\ pc[m] = "acquire"
  /\ Move(m, "failed")
  /\ UNCHANGED <<ping, lock, channel, returns, broker>>

\* connect reuses an open channel, or resets and dials.
Connect(m) ==
  /\ pc[m] = "connect"
  /\ IF channel = "open"
     THEN Move(m, "send") /\ UNCHANGED <<channel, returns, wire>>
     ELSE Move(m, "dial") /\ Reset
  /\ UNCHANGED <<ping, lock, confirm, queue>>

Dial(m) ==
  /\ pc[m] = "dial"
  /\ channel' = "open"
  /\ returns' = NoMessage
  /\ Move(m, "send")
  /\ UNCHANGED <<ping, lock, broker>>

\* Dial, channel, queue declaration or confirm mode fails.
DialError(m) ==
  /\ pc[m] = "dial"
  /\ Return(m, "failed")
  /\ UNCHANGED <<ping, channel, returns, broker>>

Send(m) ==
  /\ pc[m] = "send" /\ channel = "open"
  /\ wire' = [wire EXCEPT ![m] = "sent"]
  /\ Move(m, "confirm")
  /\ UNCHANGED <<ping, lock, channel, returns, confirm, queue>>

\* The channel closed meanwhile, or the write fails, perhaps when the bytes had
\* left; the next publish redials.
SendError(m) ==
  /\ pc[m] = "send"
  /\ channel' = "none" /\ returns' = NoMessage
  /\ \E w \in {"none", "adrift"} : wire' = [Unheard EXCEPT ![m] = w]
  /\ Return(m, "failed")
  /\ UNCHANGED <<ping, confirm, queue>>

WaitConfirm(m) ==
  /\ pc[m] = "confirm" /\ confirm[m] # "pending"
  /\ Move(m, "drain")
  /\ UNCHANGED <<ping, lock, channel, returns, broker>>

\* Mutant of WaitCancelled: the semaphore is not given back.
WaitCancelledHolding(m) ==
  /\ pc[m] = "confirm"
  /\ Reset
  /\ Move(m, "failed")
  /\ UNCHANGED <<ping, lock, confirm, queue>>

\* The context ends before the confirm.
WaitCancelled(m) ==
  /\ pc[m] = "confirm"
  /\ Reset
  /\ Return(m, "failed")
  /\ UNCHANGED <<ping, confirm, queue>>

\* Mutants of Drain: the ack judged before the return is drained, and a return
\* never looked at.
DrainAfterAck(m) ==
  /\ pc[m] = "drain"
  /\ IF confirm[m] = "nack"
     THEN Return(m, "nacked") /\ UNCHANGED returns
     ELSE IF returns # NoMessage \/ channel = "closed"
          THEN Return(m, "returned") /\ returns' = NoMessage
          ELSE Return(m, "nil") /\ UNCHANGED returns
  /\ UNCHANGED <<ping, channel, broker>>
DrainNothing(m) ==
  /\ pc[m] = "drain"
  /\ Return(m, IF confirm[m] = "nack" THEN "nacked" ELSE "nil")
  /\ UNCHANGED <<ping, channel, returns, broker>>

\* The return, if there is one, is taken before the ack is judged; a receive
\* from a closed returns channel looks like a return too.
Drain(m) ==
  /\ pc[m] = "drain"
  /\ \/ /\ returns # NoMessage \/ channel = "closed"
        /\ Return(m, "returned")
        /\ returns' = NoMessage
     \/ /\ returns = NoMessage /\ channel # "closed"
        /\ Return(m, IF confirm[m] = "nack" THEN "nacked" ELSE "nil")
        /\ UNCHANGED returns
  /\ UNCHANGED <<ping, channel, broker>>

----------------------------------------------------------------------------
(* Ping's goroutine, which holds the semaphore while it connects and goes on *)
(* when the check that started it gave up.  A check that finds the semaphore *)
(* taken answers from p.up and changes nothing.                              *)

PingStart ==
  /\ lock = Nobody
  /\ lock' = Ping
  /\ ping' = "connect"
  /\ UNCHANGED <<pc, channel, returns, broker>>

PingConnect ==
  /\ ping = "connect"
  /\ IF channel = "open"
     THEN ping' = "idle" /\ lock' = Nobody /\ UNCHANGED <<channel, returns, wire>>
     ELSE ping' = "dial" /\ Reset /\ UNCHANGED lock
  /\ UNCHANGED <<pc, confirm, queue>>

PingDial ==
  /\ ping = "dial"
  /\ channel' \in {"open", "none"}
  /\ returns' = NoMessage
  /\ ping' = "idle"
  /\ lock' = Nobody
  /\ UNCHANGED <<pc, broker>>

\* Close, at exit.
Close ==
  /\ lock = Nobody
  /\ channel # "none"
  /\ Reset
  /\ UNCHANGED <<pc, ping, lock, confirm, queue>>

----------------------------------------------------------------------------
(* The broker and the client library. *)

BrokerQueue(m) ==
  /\ wire[m] \in {"sent", "adrift"}
  /\ m \notin queue
  /\ queue' = queue \cup {m}
  /\ wire' = [wire EXCEPT ![m] = IF @ = "sent" THEN "routed" ELSE @]
  /\ UNCHANGED <<pc, ping, lock, channel, returns, confirm>>

\* basic.return, mandatory message without a queue; it arrives before the ack.
BrokerReturn(m) ==
  /\ wire[m] = "sent" /\ channel = "open"
  /\ returns = NoMessage
  /\ returns' = m
  /\ wire' = [wire EXCEPT ![m] = "bounced"]
  /\ UNCHANGED <<pc, ping, lock, channel, confirm, queue>>

BrokerAck(m) ==
  /\ wire[m] \in {"routed", "bounced"}
  /\ wire' = [wire EXCEPT ![m] = "answered"]
  /\ confirm' = [confirm EXCEPT ![m] = "ack"]
  /\ UNCHANGED <<pc, ping, lock, channel, returns, queue>>

\* A bounced message too, when the broker fails after returning it.
BrokerNack(m) ==
  /\ wire[m] \in {"sent", "bounced"}
  /\ wire' = [wire EXCEPT ![m] = "answered"]
  /\ confirm' = [confirm EXCEPT ![m] = "nack"]
  /\ UNCHANGED <<pc, ping, lock, channel, returns, queue>>

\* The connection drops, or misses its heartbeats.
Drop ==
  /\ channel = "open"
  /\ channel' = "closed"
  /\ confirm' = [m \in Messages |-> IF confirm[m] = "pending" /\ wire[m] # "none"
                                    THEN "nack" ELSE confirm[m]]
  /\ wire' = Unheard
  /\ UNCHANGED <<pc, ping, lock, returns, queue>>

PublishStep(m) ==
  \/ Call(m) \/ Acquire(m) \/ AcquireCancelled(m) \/ Connect(m) \/ Dial(m)
  \/ DialError(m) \/ Send(m) \/ SendError(m) \/ WaitConfirm(m) \/ WaitCancelled(m)
  \/ Drain(m)

BrokerStep(m) == BrokerQueue(m) \/ BrokerReturn(m) \/ BrokerAck(m) \/ BrokerNack(m)

PublisherNext ==
  \/ \E m \in Messages : PublishStep(m) \/ BrokerStep(m)
  \/ PingStart \/ PingConnect \/ PingDial \/ Close
  \/ Drop

PublisherSpec == PublisherInit /\ [][PublisherNext]_publisherVars

\* Dials end (dialTimeout), waiters for the semaphore are served (a Go channel
\* serves its senders in order), and a broker that is silent for ever misses
\* its heartbeats.  The caller's context may live for ever.
FairPublisherSpec ==
  /\ PublisherSpec
  /\ \A m \in Messages :
       /\ SF_publisherVars(Acquire(m))
       /\ WF_publisherVars(Connect(m) \/ Dial(m) \/ DialError(m) \/ Send(m) \/ SendError(m)
                  \/ WaitConfirm(m) \/ Drain(m))
       /\ WF_publisherVars(BrokerAck(m) \/ BrokerNack(m) \/ Drop)
  /\ WF_publisherVars(PingConnect \/ PingDial)

----------------------------------------------------------------------------
(* Properties. *)

\* Every variable has its type.
PublisherTypeOK ==
  /\ pc \in [Messages -> {"idle"} \cup Busy \cup Outcomes]
  /\ ping \in {"idle", "connect", "dial"}
  /\ lock \in Messages \cup {Ping, Nobody}
  /\ channel \in {"none", "open", "closed"}
  /\ returns \in Messages \cup {NoMessage}
  /\ confirm \in [Messages -> {"pending", "ack", "nack"}]
  /\ wire \in [Messages -> WireStates]
  /\ queue \subseteq Messages

\* The publisher keeps its promise to enqueueIsochrone: nil means queued.
Contract == INSTANCE PublishContract
              WITH call <- [m \in Messages |->
                              CASE pc[m] = "idle" -> "none"
                                [] pc[m] \in Busy -> "open"
                                [] pc[m] = "nil"  -> "nil"
                                [] OTHER          -> "error"],
                   queued <- queue
ImplementsContract == Contract!ContractSpec

\* A publish whose message was queued and acked finds no return to drain while
\* its channel lives: a return never outlives the publish it belongs to, which
\* is why it is drained on every path out.  (With the types.)
DeliveredIsNotReturned ==
  /\ PublisherTypeOK
  /\ \A m \in Messages :
       pc[m] = "drain" /\ m \in queue /\ channel = "open" /\ confirm[m] = "ack"
         => returns = NoMessage

\* Every Publish returns, however the health checks poll (acquire, release).
EveryPublishReturns == \A m \in Messages : pc[m] \in Busy ~> pc[m] \in Outcomes

============================================================================
