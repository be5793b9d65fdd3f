------------------------------ MODULE Metrics ------------------------------
(***************************************************************************)
(* gateway/metrics: requests counted by the middleware in a gauge, a       *)
(* counter and a histogram, each a map from labels to atomic numbers behind*)
(* an RWMutex, and scrapes that write them out.  A scrape holds a map's    *)
(* read lock while it writes to its client, so it may be slow.  The second *)
(* histogram (sizes) and the sums are like the one and its count, and are  *)
(* left out.  A request has one label, where the code has its method for   *)
(* the gauge, and its path, and its status too, for the others.            *)
(***************************************************************************)
EXTENDS Naturals, Integers, FiniteSets, Sequences, SequencesExt

CONSTANTS None,
          Requests, Labels, Scrapes,
          Labelings,  \* the labels, of method and path, that requests may have together
          RankOf,     \* the first bucket that takes a request's duration, or Buckets + 1
          Buckets     \* how many buckets a histogram has, besides the last one for all

VARIABLES label,      \* label[r]: the label of a request's method and path
          values,     \* the maps: which object is in use for a label, named by its maker
          amount,     \* what the objects hold
          stage,      \* how far a request is
          lookup,     \* how far its With is
          object,     \* the object With has returned
          next,       \* the bucket that Observe comes to next
          scrape,     \* what a scrape reads: the map, the labels left, the numbers read
          during      \* the requests whose Observe overlapped the series being read

vars == <<label, values, amount, stage, lookup, object, next, scrape, during>>

Vecs == {"gauge", "counter", "histogram"}

MetricsAssumption ==
  /\ Buckets \in Nat
  /\ IsFiniteSet(Requests) /\ None \notin Requests \cup Labels \cup Vecs
  /\ Labelings \subseteq [Requests -> Labels]
  /\ RankOf \in [Requests -> 1 .. Buckets + 1]

\* The stages that begin with With, and the map it looks into.
VecAt == [active |-> "gauge", total |-> "counter", duration |-> "histogram", leave |-> "gauge"]
Stages == DOMAIN VecAt \cup {"handler", "buckets", "done"}
Numbers == [number : Int, buckets : [1 .. Buckets -> Nat]]
\* A scrape goes through the counters, the gauges and the histograms.
Idle == [vec |-> None, label |-> None, left |-> {}, read |-> <<>>,
         todo |-> <<"counter", "gauge", "histogram">>]

Init ==
  /\ label \in Labelings
  /\ values = [v \in Vecs |-> [l \in Labels |-> None]]
  /\ amount = [v \in Vecs |-> [r \in Requests |-> [number |-> 0, buckets |-> [i \in 1 .. Buckets |-> 0]]]]
  /\ stage = [r \in Requests |-> "active"]
  /\ lookup = [r \in Requests |-> "look"]
  /\ object = [r \in Requests |-> None]
  /\ next = [r \in Requests |-> 0]
  /\ scrape = [s \in Scrapes |-> Idle]
  /\ during = [s \in Scrapes |-> {}]

-----------------------------------------------------------------------------
(* With: the object of a label, made by the first that asks *)

Looks(r) == stage[r] \in DOMAIN VecAt
VecOf(r) == VecAt[stage[r]]
Waiting(v) == \E r \in Requests : Looks(r) /\ VecOf(r) = v /\ lookup[r] = "wait"
Held(v) == \E s \in Scrapes : scrape[s].vec = v

Look(r) ==
  LET o == values[VecOf(r)][label[r]]
  IN /\ Looks(r) /\ lookup[r] = "look"
     /\ ~Waiting(VecOf(r))
     /\ lookup' = [lookup EXCEPT ![r] = IF o = None THEN "lock" ELSE "have"]
     /\ object' = [object EXCEPT ![r] = o]
     /\ UNCHANGED <<label, values, amount, stage, next, scrape, during>>

\* From here on no reader gets the lock.
AskForLock(r) ==
  /\ Looks(r) /\ lookup[r] = "lock"
  /\ ~Waiting(VecOf(r))
  /\ lookup' = [lookup EXCEPT ![r] = "wait"]
  /\ UNCHANGED <<label, values, amount, stage, object, next, scrape, during>>

\* Mutant: whoever gets the lock makes an object.
Made(r) == r

\* The object that another request made meanwhile, if there is one.
Found(r) == IF values[VecOf(r)][label[r]] = None THEN r ELSE values[VecOf(r)][label[r]]

Make(r) ==
  /\ Looks(r) /\ lookup[r] = "wait"
  /\ ~Held(VecOf(r))
  /\ lookup' = [lookup EXCEPT ![r] = "have"]
  /\ values' = [values EXCEPT ![VecOf(r)][label[r]] = Found(r)]
  /\ object' = [object EXCEPT ![r] = Found(r)]
  /\ UNCHANGED <<label, amount, stage, next, scrape, during>>

-----------------------------------------------------------------------------
(* A request in the middleware *)

To(r, s) ==
  /\ stage' = [stage EXCEPT ![r] = s]
  /\ lookup' = [lookup EXCEPT ![r] = "look"]

\* An atomic addition to the object that With has returned.
Adds(r, n, s) ==
  /\ lookup[r] = "have"
  /\ amount' = [amount EXCEPT ![VecOf(r)][object[r]].number = @ + n]
  /\ To(r, s)

Enter(r) ==
  /\ stage[r] = "active" /\ Adds(r, 1, "handler")
  /\ UNCHANGED <<label, values, object, next, scrape, during>>

HandlerReturns(r) ==
  /\ stage[r] = "handler" /\ To(r, "total")
  /\ UNCHANGED <<label, values, amount, object, next, scrape, during>>

\* Mutant: the gauge is not lowered by a defer.
LeavesBehind == "done"

AfterPanic == "leave"
HandlerPanics(r) ==
  /\ stage[r] = "handler" /\ To(r, AfterPanic)
  /\ UNCHANGED <<label, values, amount, object, next, scrape, during>>

CountTotal(r) ==
  /\ stage[r] = "total" /\ Adds(r, 1, "duration")
  /\ UNCHANGED <<label, values, object, next, scrape, during>>

\* Observe: the count first, then each bucket that takes the value.
Observe(r) ==
  /\ stage[r] = "duration" /\ Adds(r, 1, "buckets")
  /\ next' = [next EXCEPT ![r] = RankOf[r]]
  /\ during' = [s \in Scrapes |-> IF scrape[s].vec = "histogram" /\ scrape[s].label = label[r]
                                    THEN during[s] \cup {r} ELSE during[s]]
  /\ UNCHANGED <<label, values, object, scrape>>

AddToBucket(r) ==
  /\ stage[r] = "buckets" /\ next[r] <= Buckets
  /\ amount' = [amount EXCEPT !["histogram"][object[r]].buckets[next[r]] = @ + 1]
  /\ next' = [next EXCEPT ![r] = @ + 1]
  /\ UNCHANGED <<label, values, stage, lookup, object, scrape, during>>

Observed(r) ==
  /\ stage[r] = "buckets" /\ next[r] > Buckets /\ To(r, "leave")
  /\ UNCHANGED <<label, values, amount, object, next, scrape, during>>

Leave(r) ==
  /\ stage[r] = "leave" /\ Adds(r, -1, "done")
  /\ UNCHANGED <<label, values, object, next, scrape, during>>

-----------------------------------------------------------------------------
(* A scrape: the maps one after the other, the labels of each in any order *)

Present(v) == {l \in Labels : values[v][l] # None}

BeginVec(s) ==
  LET v == Head(scrape[s].todo)
  IN /\ scrape[s].vec = None /\ scrape[s].todo # <<>> /\ ~Waiting(v)
     /\ scrape' = [scrape EXCEPT ![s].vec = v, ![s].left = Present(v), ![s].todo = Tail(@)]
     /\ UNCHANGED <<label, values, amount, stage, lookup, object, next, during>>

\* A histogram is written as its buckets and then its count, twice.
Width(v) == IF v = "histogram" THEN Buckets + 2 ELSE 1
NumberAt(v, l, i) ==
  LET a == amount[v][values[v][l]]
  IN IF v = "histogram" /\ i <= Buckets THEN a.buckets[i] ELSE a.number

\* Mutant: the map is gone through again and again.
Again(left, l) == left

Rest(left, l) == left \ {l}
BeginSeries(s) ==
  LET c == scrape[s]
  IN /\ c.vec # None /\ c.label = None
     /\ \E l \in c.left :
          /\ scrape' = [scrape EXCEPT ![s].label = l, ![s].left = Rest(@, l),
                                     ![s].read = <<NumberAt(c.vec, l, 1)>>]
          /\ during' = [during EXCEPT ![s] =
                          {r \in Requests : stage[r] = "buckets" /\ label[r] = l}]
     /\ UNCHANGED <<label, values, amount, stage, lookup, object, next>>

WriteNumber(s) ==
  LET c == scrape[s]
  IN /\ c.label # None /\ Len(c.read) < Width(c.vec)
     /\ scrape' = [scrape EXCEPT ![s].read = Append(@, NumberAt(c.vec, c.label, Len(@) + 1))]
     /\ UNCHANGED <<label, values, amount, stage, lookup, object, next, during>>

EndSeries(s) ==
  /\ scrape[s].label # None /\ Len(scrape[s].read) = Width(scrape[s].vec)
  /\ scrape' = [scrape EXCEPT ![s].label = None]
  /\ UNCHANGED <<label, values, amount, stage, lookup, object, next, during>>

EndVec(s) ==
  /\ scrape[s].vec # None /\ scrape[s].label = None /\ scrape[s].left = {}
  /\ scrape' = [scrape EXCEPT ![s].vec = None, ![s].read = <<>>]
  /\ UNCHANGED <<label, values, amount, stage, lookup, object, next, during>>

\* Another scrape comes.
ScrapeAgain(s) ==
  /\ scrape[s].vec = None /\ scrape[s].todo = <<>>
  /\ scrape' = [scrape EXCEPT ![s] = Idle]
  /\ during' = [during EXCEPT ![s] = {}]
  /\ UNCHANGED <<label, values, amount, stage, lookup, object, next>>

-----------------------------------------------------------------------------
With(r) == Look(r) \/ AskForLock(r) \/ Make(r)
Middleware(r) ==
  \/ With(r) \/ Enter(r) \/ CountTotal(r) \/ Observe(r) \/ AddToBucket(r) \/ Observed(r) \/ Leave(r)
Writes(s) ==
  BeginVec(s) \/ BeginSeries(s) \/ WriteNumber(s) \/ EndSeries(s) \/ EndVec(s) \/ ScrapeAgain(s)

Next ==
  \/ \E r \in Requests : Middleware(r) \/ HandlerReturns(r) \/ HandlerPanics(r)
  \/ \E s \in Scrapes : Writes(s)

-----------------------------------------------------------------------------
TypeOK ==
  /\ label \in [Requests -> Labels]
  /\ values \in [Vecs -> [Labels -> Requests \cup {None}]]
  /\ amount \in [Vecs -> [Requests -> Numbers]]
  /\ stage \in [Requests -> Stages]
  /\ lookup \in [Requests -> {"look", "lock", "wait", "have"}]
  /\ object \in [Requests -> Requests \cup {None}]
  /\ next \in [Requests -> 0 .. Buckets + 1]
  /\ during \in [Scrapes -> SUBSET Requests]

\* What the exposed object of a label holds is what the requests of that label have done,
\* whoever made it: none is counted in an object that is not exposed, and a request that
\* panicked is not active any more.
Exposed(v, l) == IF values[v][l] = None THEN [number |-> 0, buckets |-> [i \in 1 .. Buckets |-> 0]]
                 ELSE amount[v][values[v][l]]
NothingIsLost ==
  \A l \in Labels :
    LET Of(S) == Cardinality({r \in S : label[r] = l})
        Counted == {r \in Requests : next[r] > 0}
    IN /\ Exposed("gauge", l).number = Of({r \in Requests : stage[r] \notin {"active", "done"}})
       /\ Exposed("counter", l).number = Of(Counted \cup {r \in Requests : stage[r] = "duration"})
       /\ Exposed("histogram", l).number = Of(Counted)
       /\ \A i \in 1 .. Buckets :
            Exposed("histogram", l).buckets[i] = Of({r \in Counted : RankOf[r] <= i /\ i < next[r]})

\* Of a series that was read, each bucket is at most the count.  A bucket is at most the next
\* one too, but for the requests whose Observe overlapped the reading: with them a scrape may
\* show a histogram that is not cumulative.
ScrapesAreCumulative ==
  \A s \in Scrapes :
    LET read == scrape[s].read
        Overtaken(j) == IF j > Buckets THEN 0 ELSE Cardinality(during[s])
    IN scrape[s].vec = "histogram" =>
         \A i, j \in DOMAIN read : i < j => read[i] <= read[j] + Overtaken(j)

\* As long as the clients of scrapes take what is written, every request leaves the
\* middleware once its handler has returned.
RequestsLeave == \A r \in Requests : stage[r] # "handler" ~> stage[r] \in {"handler", "done"}
=============================================================================
