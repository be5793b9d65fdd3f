---------------------------- MODULE SSETransport ----------------------------
(***************************************************************************)
(* mcp.SSETransport: event-stream sessions with bounded message queues.    *)
(* Broadcast copies the sessions under the read lock and then offers its   *)
(* message to each queue without waiting; the handler of a session writes  *)
(* what is queued, and may leave at any time.                              *)
(***************************************************************************)
EXTENDS Naturals, Sequences, FiniteSets, SequencesExt

CONSTANTS Sessions,
          Broadcasts,       \* calls of Broadcast, each with a message of its own
          QueueSize         \* 100 in the code

\* Assumed by the module that instantiates this one.
SSEAssumption == QueueSize \in Nat

VARIABLES handler,          \* handler[s]: where handleSSE stands
          sessions,         \* t.sessions
          messages,         \* messages[s]: the queue of s
          written,          \* written[s]: the messages written to the client
          call,             \* call[b]: where Broadcast stands
          todo,             \* todo[b]: the copied sessions it has not looked at yet
          aimed,            \* history: aimed[b], all it has copied
          earlier           \* history: earlier[b], the broadcasts that ended before b
sseVars == <<handler, sessions, messages, written, call, todo, aimed, earlier>>

TypeOK ==
  /\ handler \in [Sessions -> {"new", "greet", "open", "gone"}]
  /\ sessions \subseteq Sessions
  /\ messages \in [Sessions -> Seq(Broadcasts)]
  /\ written \in [Sessions -> Seq(Broadcasts)]
  /\ call \in [Broadcasts -> {"idle", "send", "done"}]
  /\ todo \in [Broadcasts -> SUBSET Sessions]
  /\ aimed \in [Broadcasts -> SUBSET Sessions]
  /\ earlier \in [Broadcasts -> SUBSET Broadcasts]

Init ==
  /\ handler = [s \in Sessions |-> "new"]
  /\ sessions = {}
  /\ messages = [s \in Sessions |-> <<>>]
  /\ written = [s \in Sessions |-> <<>>]
  /\ call = [b \in Broadcasts |-> "idle"]
  /\ todo = [b \in Broadcasts |-> {}]
  /\ aimed = [b \in Broadcasts |-> {}]
  /\ earlier = [b \in Broadcasts |-> {}]

-----------------------------------------------------------------------------
(* handleSSE *)

\* The session is registered before its endpoint event is written.
Connect(s) ==
  /\ handler[s] = "new"
  /\ handler' = [handler EXCEPT ![s] = "greet"]
  /\ sessions' = sessions \cup {s}
  /\ UNCHANGED <<messages, written, call, todo, aimed, earlier>>

Greet(s) ==
  /\ handler[s] = "greet"
  /\ handler' = [handler EXCEPT ![s] = "open"]
  /\ UNCHANGED <<sessions, messages, written, call, todo, aimed, earlier>>

\* The select takes a queued message.
WriteMessage(s) ==
  /\ handler[s] = "open"
  /\ messages[s] # <<>>
  /\ written' = [written EXCEPT ![s] = Append(@, Head(messages[s]))]
  /\ messages' = [messages EXCEPT ![s] = Tail(@)]
  /\ UNCHANGED <<handler, sessions, call, todo, aimed, earlier>>

\* The client goes away; the deferred function unregisters the session.
Disconnect(s) ==
  /\ handler[s] = "open"
  /\ handler' = [handler EXCEPT ![s] = "gone"]
  /\ sessions' = sessions \ {s}
  /\ UNCHANGED <<messages, written, call, todo, aimed, earlier>>

-----------------------------------------------------------------------------
(* Broadcast *)

BroadcastBegins(b) ==
  /\ call[b] = "idle"
  /\ call' = [call EXCEPT ![b] = "send"]
  /\ todo' = [todo EXCEPT ![b] = sessions]
  /\ aimed' = [aimed EXCEPT ![b] = sessions]
  /\ earlier' = [earlier EXCEPT ![b] = {d \in Broadcasts : call[d] = "done"}]
  /\ UNCHANGED <<handler, sessions, messages, written>>

\* Mutant: a full queue loses its oldest message.
OfferDropsOldest(q, b) == IF Len(q) < QueueSize THEN Append(q, b) ELSE Append(Tail(q), b)

\* The select with a default: a full queue drops the message.
Offer(q, b) == IF Len(q) < QueueSize THEN Append(q, b) ELSE q

\* The order of the sessions is that of a map: any.
BroadcastSends(b) ==
  /\ call[b] = "send"
  /\ \E s \in todo[b] :
       /\ messages' = [messages EXCEPT ![s] = Offer(@, b)]
       /\ todo' = [todo EXCEPT ![b] = @ \ {s}]
  /\ UNCHANGED <<handler, sessions, written, call, aimed, earlier>>

BroadcastEnds(b) ==
  /\ call[b] = "send"
  /\ todo[b] = {}
  /\ call' = [call EXCEPT ![b] = "done"]
  /\ UNCHANGED <<handler, sessions, messages, written, todo, aimed, earlier>>

\* All clients are gone and nothing is left to send.
Quiet ==
  /\ \A s \in Sessions : handler[s] = "gone"
  /\ \A b \in Broadcasts : call[b] = "done"
  /\ UNCHANGED sseVars

Next ==
  \/ \E s \in Sessions : Connect(s) \/ Greet(s) \/ WriteMessage(s) \/ Disconnect(s)
  \/ \E b \in Broadcasts : BroadcastBegins(b) \/ BroadcastSends(b) \/ BroadcastEnds(b)
  \/ Quiet

\* The goroutine that broadcasts runs on; the handlers of sessions, which write to
\* the network, may stand still for ever.
Fairness == \A b \in Broadcasts : WF_sseVars(BroadcastSends(b) \/ BroadcastEnds(b))

Spec == Init /\ [][Next]_sseVars /\ Fairness

-----------------------------------------------------------------------------
(* What is claimed *)

\* What has reached session s, in order.
Reached(s) == written[s] \o messages[s]

\* Every session gets each message once at most and in an order that agrees with
\* that of the calls of Broadcast; and a message that a session was to get
\* is missing only if a queue full of other messages came no later.
SessionsKeepOrder ==
  \A s \in Sessions :
    /\ IsInjective(Reached(s))
    /\ \A i, j \in 1 .. Len(Reached(s)) : Reached(s)[i] \in earlier[Reached(s)[j]] => i < j
    /\ \A b \in Broadcasts :
         /\ b \in ToSet(Reached(s)) => s \in aimed[b]
         /\ s \in aimed[b] \ todo[b] /\ b \notin ToSet(Reached(s)) =>
              Cardinality({d \in ToSet(Reached(s)) : b \notin earlier[d]}) >= QueueSize

\* A session whose client is slow or gone holds no broadcast up.
BroadcastsReturn == \A b \in Broadcasts : call[b] = "send" ~> call[b] = "done"
=============================================================================
