------------------------- MODULE MessagePersistence -------------------------
(***************************************************************************)
(* internal/infra/rabbitmq: how the messages of a session reach the        *)
(* database.  The session's turns, one at a time, call PublishOrPersist;   *)
(* one goroutine, Consume, stores what the broker delivers.  They share    *)
(* one AMQP channel.  Nothing is confirmed to the publisher, and the       *)
(* consumer's answers (Ack, Nack) are not confirmed to it either: all of   *)
(* them are only written to the socket.                                    *)
(*                                                                         *)
(* The broker and the client library are external.  The broker keeps a     *)
(* delivery until its answer arrives, puts a rejected one back at the      *)
(* front, and when the connection is gone puts back everything whose       *)
(* answer has not arrived, marked as redelivered.  The library may notice  *)
(* that later than the broker; until it does, what is published or         *)
(* answered goes nowhere, and the deliveries it holds are still handled.   *)
(* The consumer sets no prefetch limit.                                    *)
(***************************************************************************)
EXTENDS Integers, Sequences, FiniteSets, SequencesExt

CONSTANTS MaxMessages,   \* messages the session sends
          MaxBreaks      \* times the connection breaks

ASSUME PersistenceAssumption == MaxMessages \in Nat \ {0} /\ MaxBreaks \in Nat

VARIABLES sent,          \* messages handed to PublishOrPersist
          persisting,    \* is the last of them being written directly?
          channel,       \* the shared AMQP channel: open, dead (the library does
                         \* not know yet) or closed
          wire,          \* frames published and not yet at the broker
          queue,         \* the broker's queue
          unacked,       \* deliveries without an answer at the broker
          answers,       \* the consumer's answers on their way there
          subscription,  \* the consumer's basic.consume and the channel under it
          buffer,        \* deliveries at the client; the first may be in hand
          stage,         \* where the consumer goroutine stands with it
          rows,          \* the messages table, in the order of created_at
          breaks,
          direct, failed, lost,    \* history: written by the fallback; a write has
                                   \* failed; where a message was lost
          doubtful       \* history: rows of writes that reported an error

publisherVars == <<sent, persisting>>
brokerVars == <<channel, wire, queue, unacked, answers>>
consumerVars == <<subscription, buffer, stage>>
history == <<direct, failed, lost, doubtful>>
vars == <<publisherVars, brokerVars, consumerVars, rows, breaks, history>>

Messages == 1 .. MaxMessages
Delivery == [msg : Messages, redelivered : BOOLEAN]
Answers == {"ack", "requeue", "drop"}

live == subscription = "live"

TypeOK ==
  /\ sent \in 0 .. MaxMessages /\ persisting \in BOOLEAN
  /\ channel \in {"open", "dead", "closed"} /\ wire \in Seq(Messages)
  /\ queue \in Seq(Delivery) /\ unacked \in Seq(Delivery) /\ answers \in Seq(Answers)
  /\ subscription \in {"none", "live", "dead", "closed"} /\ buffer \in Seq(Delivery)
  /\ live => channel = "open"
  \* the broker and the client count the same deliveries
  /\ live => /\ Len(unacked) = Len(answers) + Len(buffer)
             /\ \A i \in 1 .. Len(buffer) : buffer[i] = unacked[Len(answers) + i]
  /\ ~live => unacked = <<>> /\ answers = <<>>
  /\ subscription = "none" => buffer = <<>>
  /\ stage \in {"waiting", "handling", "acking", "nacking"}
  /\ stage # "waiting" => buffer # <<>>
  /\ rows \in Seq(Messages) /\ breaks \in 0 .. MaxBreaks
  /\ direct \subseteq Messages /\ failed \subseteq Messages /\ doubtful \in [Messages -> Nat]
  /\ lost \in [Messages -> {"nowhere", "wire", "database", "poison"}]

Init == /\ sent = 0 /\ persisting = FALSE
        /\ channel \in {"open", "closed"}
        /\ wire = <<>> /\ queue = <<>> /\ unacked = <<>> /\ answers = <<>>
        /\ subscription = "none" /\ buffer = <<>> /\ stage = "waiting"
        /\ rows = <<>> /\ breaks = 0
        /\ direct = {} /\ failed = {} /\ doubtful = [m \in Messages |-> 0]
        /\ lost = [m \in Messages |-> "nowhere"]
-----------------------------------------------------------------------------
(* PersistMessage, for the publisher and the consumer *)

\* Of a write that reports an error the row may be there all the same.
Write(m, ok) ==
  /\ failed' = IF ok THEN failed ELSE failed \cup {m}
  /\ \/ /\ rows' = Append(rows, m)
        /\ doubtful' = IF ok THEN doubtful ELSE [doubtful EXCEPT ![m] = @ + 1]
     \/ ~ok /\ UNCHANGED <<rows, doubtful>>
-----------------------------------------------------------------------------
(* PublishOrPersist *)

\* basic.publish has been written to the socket; nobody confirms it, and on a
\* connection that is dead nobody reads it.
Publish == /\ sent < MaxMessages /\ ~persisting /\ channel # "closed"
           /\ sent' = sent + 1
           /\ IF channel = "open"
                THEN wire' = Append(wire, sent') /\ UNCHANGED lost
                ELSE lost' = [lost EXCEPT ![sent'] = "wire"] /\ UNCHANGED wire
           /\ UNCHANGED <<persisting, channel, queue, unacked, answers, consumerVars,
                          rows, breaks, direct, failed, doubtful>>

\* No channel, and no new one to be had (the dial cooldown included).
PublishFails == /\ sent < MaxMessages /\ ~persisting /\ channel = "closed"
                /\ sent' = sent + 1 /\ persisting' = TRUE
                /\ UNCHANGED <<brokerVars, consumerVars, rows, breaks, history>>

\* The synchronous fallback; an error of the database is only logged.
PersistDirectly(ok) ==
  /\ persisting /\ persisting' = FALSE
  /\ Write(sent, ok)
  /\ direct' = direct \cup {sent}
  /\ lost' = IF ok THEN lost ELSE [lost EXCEPT ![sent] = "database"]
  /\ UNCHANGED <<sent, brokerVars, consumerVars, breaks>>
-----------------------------------------------------------------------------
(* The channel and the broker *)

\* ensureChannel, by the publisher or the consumer.
Reconnect == /\ channel = "closed" /\ channel' = "open"
             /\ UNCHANGED <<publisherVars, wire, queue, unacked, answers, consumerVars,
                            rows, breaks, history>>

Redelivered(d) == [d EXCEPT !.redelivered = TRUE]
Returned(s) == [i \in 1 .. Len(s) |-> Redelivered(s[i])]

\* Mutant: the consumer goes on as if the subscription were alive.
BreakUnnoticed == /\ breaks < MaxBreaks /\ channel = "open"
                  /\ breaks' = breaks + 1
                  /\ channel' = "dead"
                  /\ wire' = <<>> /\ answers' = <<>> /\ unacked' = <<>>
                  /\ queue' = Returned(unacked) \o queue
                  /\ lost' = [m \in Messages |-> IF Contains(wire, m) THEN "wire" ELSE lost[m]]
                  /\ UNCHANGED <<publisherVars, consumerVars, rows, direct, failed, doubtful>>

\* The connection breaks.  Frames on their way are gone in both directions,
\* and every delivery the broker has no answer for goes back.
Break == /\ breaks < MaxBreaks /\ channel = "open"
         /\ breaks' = breaks + 1
         /\ channel' = "dead" /\ subscription' = IF live THEN "dead" ELSE subscription
         /\ wire' = <<>> /\ answers' = <<>> /\ unacked' = <<>>
         /\ queue' = Returned(unacked) \o queue
         /\ lost' = [m \in Messages |-> IF Contains(wire, m) THEN "wire" ELSE lost[m]]
         /\ UNCHANGED <<publisherVars, buffer, stage, rows, direct, failed, doubtful>>

\* The library notices, by a failed read or write or a missed heartbeat.
Closes == /\ channel = "dead" /\ channel' = "closed"
          /\ subscription' = IF subscription = "dead" THEN "closed" ELSE subscription
          /\ UNCHANGED <<publisherVars, wire, queue, unacked, answers, buffer, stage,
                         rows, breaks, history>>

Arrive == /\ wire # <<>>
          /\ queue' = Append(queue, [msg |-> Head(wire), redelivered |-> FALSE])
          /\ wire' = Tail(wire)
          /\ UNCHANGED <<publisherVars, channel, unacked, answers, consumerVars, rows,
                         breaks, history>>

\* Mutant: the subscription is made with autoAck.
DeliverAutoAck == /\ live /\ queue # <<>>
                  /\ buffer' = Append(buffer, Head(queue))
                  /\ queue' = Tail(queue)
                  /\ UNCHANGED <<publisherVars, channel, wire, unacked, answers, subscription,
                                 stage, rows, breaks, history>>

Deliver == /\ live /\ queue # <<>>
           /\ unacked' = Append(unacked, Head(queue))
           /\ buffer' = Append(buffer, Head(queue))
           /\ queue' = Tail(queue)
           /\ UNCHANGED <<publisherVars, channel, wire, answers, subscription, stage, rows,
                          breaks, history>>

\* The next answer arrives at the broker.
Settle == /\ answers # <<>>
          /\ answers' = Tail(answers) /\ unacked' = Tail(unacked)
          /\ queue' = IF Head(answers) = "requeue"
                        THEN <<Redelivered(Head(unacked))>> \o queue ELSE queue
          /\ lost' = IF Head(answers) = "drop"
                       THEN [lost EXCEPT ![Head(unacked).msg] = "poison"] ELSE lost
          /\ UNCHANGED <<publisherVars, channel, wire, consumerVars, rows, breaks,
                         direct, failed, doubtful>>
-----------------------------------------------------------------------------
(* Consume and consumeOnce *)

Subscribe == /\ channel = "open" /\ subscription = "none"
             /\ subscription' = "live"
             /\ UNCHANGED <<publisherVars, brokerVars, buffer, stage, rows, breaks, history>>

Take == /\ stage = "waiting" /\ buffer # <<>>
        /\ stage' = "handling"
        /\ UNCHANGED <<publisherVars, brokerVars, subscription, buffer, rows, breaks, history>>

inHand == Head(buffer)

Handle(ok) ==
  /\ stage = "handling"
  /\ Write(inHand.msg, ok)
  /\ stage' = IF ok THEN "acking" ELSE "nacking"
  /\ UNCHANGED <<publisherVars, brokerVars, subscription, buffer, breaks, direct, lost>>

\* The error of Ack and Nack is thrown away: written to a dead connection, an
\* answer is simply lost.
Answer(a) == /\ answers' = IF live THEN Append(answers, a) ELSE answers
             /\ buffer' = Tail(buffer) /\ stage' = "waiting"
             /\ UNCHANGED <<publisherVars, channel, wire, queue, unacked, subscription, rows,
                            breaks, history>>

Ack == stage = "acking" /\ Answer("ack")

\* Nack(requeue): once more.
Requeue == stage = "nacking" /\ ~inHand.redelivered /\ Answer("requeue")

\* Mutant: a poison message is tried again and again.
RequeuePoison == stage = "nacking" /\ inHand.redelivered /\ Answer("requeue")

\* A redelivered message that fails is dropped, with a line in the log.
Drop == stage = "nacking" /\ inHand.redelivered /\ Answer("drop")

\* Between two deliveries consumeOnce hears that its channel is closed, and
\* Consume starts again; what the library still holds is thrown away.
Notice == /\ stage = "waiting" /\ subscription = "closed"
          /\ subscription' = "none" /\ buffer' = <<>>
          /\ UNCHANGED <<publisherVars, brokerVars, stage, rows, breaks, history>>
-----------------------------------------------------------------------------
InBroker(m) == \/ Contains(wire, m)
               \/ \E d \in ToSet(queue) \cup ToSet(unacked) : d.msg = m

\* Everything has been sent and settled.
Over == /\ sent = MaxMessages /\ ~persisting /\ stage = "waiting"
        /\ channel = "open" /\ live
        /\ \A m \in Messages : ~InBroker(m)
        /\ UNCHANGED vars

Consumer == \/ Subscribe \/ Take \/ (\E ok \in BOOLEAN : Handle(ok))
            \/ Ack \/ Requeue \/ Drop \/ Notice

Next == \/ Publish \/ PublishFails \/ (\E ok \in BOOLEAN : PersistDirectly(ok))
        \/ Reconnect \/ Break \/ Closes \/ Arrive \/ Deliver \/ Settle \/ Consumer \/ Over

\* The consumer goroutine runs and reconnects, the library notices a dead
\* connection (the broker asks for heartbeats), and the broker delivers and
\* settles; whether the database works is left open.
Spec == Init /\ [][Next]_vars
             /\ WF_vars(Reconnect) /\ WF_vars(Closes) /\ WF_vars(Arrive)
             /\ WF_vars(Deliver) /\ WF_vars(Settle) /\ WF_vars(Consumer)
-----------------------------------------------------------------------------
\* A message handed over is on its way to the database or in it, or lost in
\* one of three places: unconfirmed on the wire, in a fallback write that
\* failed, or dropped after its second delivery failed.  A connection that
\* breaks between the write and the answer, or before the answer has arrived,
\* loses nothing.
EveryMessageAccounted ==
  \A m \in 1 .. sent : (persisting /\ m = sent) \/ InBroker(m) \/ Contains(rows, m) \/ lost[m] # "nowhere"

\* A message comes into the table before an earlier one only if it took the
\* fallback around the queue or a write of the earlier one had failed (one
\* consumer, one queue, deliveries handled one at a time).  A second copy of
\* a row, left by an answer that was lost, may stand anywhere behind it.
OvertakenOnlyAfterFailure ==
  \A i, j \in 1 .. Len(rows) : i < j /\ rows[i] > rows[j] =>
     \/ rows[i] \in direct
     \/ rows[j] \in failed
     \/ \E k \in 1 .. j - 1 : rows[k] = rows[j]

\* PersistMessage knows no duplicates, so a lost answer, or a write that reported
\* an error and was made all the same, is one more row of the same message; but
\* there are no more of them than broken connections and such writes.
Copies(m) == {i \in 1 .. Len(rows) : rows[i] = m}
CopiedOnlyByFailures == \A m \in Messages : Cardinality(Copies(m)) <= 1 + breaks + doubtful[m]

\* No message is lost, copied or out of order anywhere but in the places named
\* above.
MessagesAccounted == EveryMessageAccounted /\ OvertakenOnlyAfterFailure /\ CopiedOnlyByFailures

\* No message circles for ever between the queue and a handler that cannot
\* store it.
EveryMessageLeaves == \A m \in Messages : InBroker(m) ~> ~InBroker(m)
=============================================================================
