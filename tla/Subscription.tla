---------------------------- MODULE Subscription ----------------------------
(***************************************************************************)
(* GraphQL subscriptions served as event streams.  A request's handler     *)
(* subscribes at the upstream, which starts a goroutine that reads events  *)
(* from the response body into a bounded channel; the handler enters its   *)
(* cancel function into activeSubs, streams what the channel gives, and    *)
(* removes it again.  Close cancels all that activeSubs holds.             *)
(***************************************************************************)
EXTENDS Naturals, Sequences, FiniteSets, SequencesExt

CONSTANTS Requests,
          Ids,              \* of subscriptions: the field and a time in nanoseconds
          Capacity,         \* of the channel of events, 16 in the code
          MaxEvents,        \* bound: MaxEvents[r], the events r's upstream sends
          None

\* Assumed by the module that instantiates this one.
SubscriptionAssumption == None \notin Requests \cup Ids

VARIABLES handler,          \* handler[r]: where ServeHTTP stands
          activeSubs,       \* activeSubs[i]: whose cancel function is there, or None
          subID,            \* subID[r], or None
          cancelled,        \* the requests whose ctx is done
          ended,            \* the requests whose upstream body has ended
          reader,           \* reader[r]: where the goroutine of Subscribe stands
          reads,            \* reads[r]: how many events it has read
          events,           \* events[r]: the channel
          written,          \* written[r]: the events written, in order
          completed,        \* the requests that were told "complete"
          interrupted,      \* history: those whose client left or that Close ended
          shared            \* history: those that drew an id in use
subVars == <<handler, activeSubs, subID, cancelled, ended, reader, reads,
             events, written, completed, interrupted, shared>>

Event == Nat \ {0}

TypeOK ==
  /\ handler \in [Requests -> {"new", "subscribed", "stream", "leave", "done"}]
  /\ activeSubs \in [Ids -> Requests \cup {None}]
  /\ subID \in [Requests -> Ids \cup {None}]
  /\ reader \in [Requests -> {"off", "read", "send", "ended"}]
  /\ reads \in [Requests -> Nat]
  /\ events \in [Requests -> Seq(Event)]
  /\ written \in [Requests -> Seq(Event)]
  /\ \A R \in {cancelled, ended, completed, interrupted, shared} : R \subseteq Requests

Init ==
  /\ handler = [r \in Requests |-> "new"]
  /\ activeSubs = [i \in Ids |-> None]
  /\ subID = [r \in Requests |-> None]
  /\ reader = [r \in Requests |-> "off"]
  /\ reads = [r \in Requests |-> 0]
  /\ events = [r \in Requests |-> <<>>]
  /\ written = [r \in Requests |-> <<>>]
  /\ cancelled = {} /\ ended = {} /\ completed = {} /\ interrupted = {} /\ shared = {}

-----------------------------------------------------------------------------
(* The goroutine of HTTPSubscriptionClient.Subscribe *)

\* A whole event was scanned.  (Buffered input is read also after a cancellation.)
ReadEvent(r) ==
  /\ reader[r] = "read"
  /\ r \notin ended /\ reads[r] < MaxEvents[r]
  /\ reads' = [reads EXCEPT ![r] = @ + 1]
  /\ reader' = [reader EXCEPT ![r] = "send"]
  /\ UNCHANGED <<handler, activeSubs, subID, cancelled, ended, events, written,
                 completed, interrupted, shared>>

\* Mutant: an event that finds the channel full is dropped.
SendEventDrops(r) ==
  /\ reader[r] = "send"
  /\ events' = IF Len(events[r]) < Capacity THEN [events EXCEPT ![r] = Append(@, reads[r])] ELSE events
  /\ reader' = [reader EXCEPT ![r] = "read"]
  /\ UNCHANGED <<handler, activeSubs, subID, cancelled, ended, reads, written,
                 completed, interrupted, shared>>

SendEvent(r) ==
  /\ reader[r] = "send"
  /\ Len(events[r]) < Capacity
  /\ events' = [events EXCEPT ![r] = Append(@, reads[r])]
  /\ reader' = [reader EXCEPT ![r] = "read"]
  /\ UNCHANGED <<handler, activeSubs, subID, cancelled, ended, reads, written,
                 completed, interrupted, shared>>

\* Mutant: the goroutine waits for room only.
SendWaits(r) == FALSE

SendGivesUp(r) == reader[r] = "send" /\ r \in cancelled

\* Scan fails at the end of the body, and once the context is done.
ScanFails(r) == reader[r] = "read" /\ (r \in ended \/ r \in cancelled)

\* The deferred functions close the channel and the body.
ReaderEnds(r) ==
  /\ SendGivesUp(r) \/ ScanFails(r)
  /\ reader' = [reader EXCEPT ![r] = "ended"]
  /\ UNCHANGED <<handler, activeSubs, subID, cancelled, ended, reads, events, written,
                 completed, interrupted, shared>>

\* The upstream ends the body, or the connection breaks: the error that tells them
\* apart is not looked at.
UpstreamEnds(r) ==
  /\ reader[r] \in {"read", "send"}
  /\ r \notin ended
  /\ ended' = ended \cup {r}
  /\ UNCHANGED <<handler, activeSubs, subID, cancelled, reader, reads, events, written,
                 completed, interrupted, shared>>

-----------------------------------------------------------------------------
(* SubscriptionHandler.ServeHTTP *)

SubscribeFails(r) ==
  /\ handler[r] = "new"
  /\ handler' = [handler EXCEPT ![r] = "done"]
  /\ cancelled' = cancelled \cup {r}
  /\ UNCHANGED <<activeSubs, subID, ended, reader, reads, events, written,
                 completed, interrupted, shared>>

Subscribe(r) ==
  /\ handler[r] = "new"
  /\ handler' = [handler EXCEPT ![r] = "subscribed"]
  /\ reader' = [reader EXCEPT ![r] = "read"]
  /\ UNCHANGED <<activeSubs, subID, cancelled, ended, reads, events, written,
                 completed, interrupted, shared>>

\* The section under h.mu: an entry with the same id is overwritten.
Track(r) ==
  /\ handler[r] = "subscribed"
  /\ handler' = [handler EXCEPT ![r] = "stream"]
  /\ \E i \in Ids :
       /\ subID' = [subID EXCEPT ![r] = i]
       /\ activeSubs' = [activeSubs EXCEPT ![i] = r]
       /\ shared' = LET same == {q \in Requests : subID[q] = i}
                    IN IF same = {} THEN shared ELSE shared \cup same \cup {r}
  /\ UNCHANGED <<cancelled, ended, reader, reads, events, written, completed, interrupted>>

WriteEvent(r) ==
  /\ handler[r] = "stream"
  /\ events[r] # <<>>
  /\ written' = [written EXCEPT ![r] = Append(@, Head(events[r]))]
  /\ events' = [events EXCEPT ![r] = Tail(@)]
  /\ UNCHANGED <<handler, activeSubs, subID, cancelled, ended, reader, reads,
                 completed, interrupted, shared>>

\* The channel is closed and empty.
Complete(r) ==
  /\ handler[r] = "stream"
  /\ events[r] = <<>> /\ reader[r] = "ended"
  /\ completed' = completed \cup {r}
  /\ handler' = [handler EXCEPT ![r] = "leave"]
  /\ UNCHANGED <<activeSubs, subID, cancelled, ended, reader, reads, events, written,
                 interrupted, shared>>

SeeCancelled(r) ==
  /\ handler[r] = "stream"
  /\ r \in cancelled
  /\ handler' = [handler EXCEPT ![r] = "leave"]
  /\ UNCHANGED <<activeSubs, subID, cancelled, ended, reader, reads, events, written,
                 completed, interrupted, shared>>

\* Mutant: the entry is left behind.
Untracked(r) == activeSubs

Untrack(r) == [activeSubs EXCEPT ![subID[r]] = None]

\* The deferred functions: the entry is deleted, whoever made it, and ctx cancelled.
Leave(r) ==
  /\ handler[r] = "leave"
  /\ handler' = [handler EXCEPT ![r] = "done"]
  /\ activeSubs' = Untrack(r)
  /\ cancelled' = cancelled \cup {r}
  /\ UNCHANGED <<subID, ended, reader, reads, events, written, completed, interrupted, shared>>

ClientLeaves(r) ==
  /\ handler[r] \in {"subscribed", "stream"}
  /\ r \notin cancelled
  /\ cancelled' = cancelled \cup {r}
  /\ interrupted' = interrupted \cup {r}
  /\ UNCHANGED <<handler, activeSubs, subID, ended, reader, reads, events, written,
                 completed, shared>>

Close ==
  LET all == {activeSubs[i] : i \in Ids} \ {None}
  IN /\ cancelled' = cancelled \cup all
     /\ interrupted' = interrupted \cup all
     /\ activeSubs' = [i \in Ids |-> None]
     /\ UNCHANGED <<handler, subID, ended, reader, reads, events, written, completed, shared>>

HandlerRuns(r) == Track(r) \/ WriteEvent(r) \/ Complete(r) \/ SeeCancelled(r) \/ Leave(r)

Next ==
  \/ \E r \in Requests :
       \/ ReadEvent(r) \/ SendEvent(r) \/ ReaderEnds(r) \/ UpstreamEnds(r)
       \/ SubscribeFails(r) \/ Subscribe(r)
       \/ Track(r) \/ WriteEvent(r) \/ Complete(r) \/ SeeCancelled(r) \/ Leave(r)
       \/ ClientLeaves(r)
  \/ Close

\* Goroutines run on.  (A select between an event and the end of the context
\* takes the latter at last: an upstream sends finitely many events here.)
Fairness ==
  \A r \in Requests : WF_subVars(HandlerRuns(r)) /\ WF_subVars(SendEvent(r) \/ ReaderEnds(r))

Spec == Init /\ [][Next]_subVars /\ Fairness

-----------------------------------------------------------------------------
(* What is claimed *)

InHand(r) == IF reader[r] = "send" THEN <<reads[r]>> ELSE <<>>

\* Events reach the client in order and without a gap, however slow it is; and
\* "complete" means that all were written, unless the client left or Close was called.
EventsComplete ==
  \A r \in Requests :
    /\ r \notin cancelled =>
         written[r] \o events[r] \o InHand(r) = [n \in 1 .. reads[r] |-> n]
    /\ r \in completed \ interrupted =>
         r \in ended /\ written[r] = [n \in 1 .. reads[r] |-> n]

\* As long as no two requests draw one id, activeSubs holds every stream that was
\* not cancelled, so that Close reaches it, and none that is over.
StreamsTracked ==
  shared = {} =>
    /\ \A r \in Requests : handler[r] = "stream" /\ r \notin cancelled => activeSubs[subID[r]] = r
    /\ \A i \in Ids : activeSubs[i] # None => handler[activeSubs[i]] \in {"stream", "leave"}

\* Once a stream is cancelled, or over, its handler and its reader end.
StreamsEnd ==
  \A r \in Requests :
    r \in cancelled \/ handler[r] = "done" ~> handler[r] = "done" /\ reader[r] \in {"off", "ended"}
=============================================================================
