------------------------------ MODULE RPCServer ------------------------------
(***************************************************************************)
(* mcp.Server: JSON-RPC requests, alone or in a batch.  The elements of a  *)
(* batch are handled one after the other; each looks its method up under   *)
(* the read lock and runs its handler without a lock, so that methods may  *)
(* be registered and removed meanwhile.                                    *)
(***************************************************************************)
EXTENDS Naturals, Sequences, FiniteSets

CONSTANTS Methods,
          Connections,
          Bodies,           \* what is posted: see Body
          None

\* An element of a batch: null, or a request with its method ("" if it has none), its
\* id (None for a notification), and whether its version is that of JSON-RPC.
Null == [method |-> "null"]
Element == {Null} \cup [method : Methods \cup {""}, id : Nat \cup {None}, version : BOOLEAN]

\* A posted body: text that is not JSON, one element, or a batch.
Garbage == [kind |-> "garbage", elements |-> <<>>]
IsBody(b) ==
  /\ b.kind \in {"garbage", "single", "batch"}
  /\ b.elements \in Seq(Element)
  /\ b.kind = "garbage" => b.elements = <<>>
  /\ b.kind = "single" => Len(b.elements) = 1 /\ b.elements[1] # Null

BodiesAssumption == \A b \in Bodies : IsBody(b)

VARIABLES handlers,         \* the registered methods
          at,               \* at[c]: where the connection c stands
          body,             \* body[c], or None
          next,             \* next[c]: the element that is handled next
          running,          \* running[c]: is a handler running?
          responses,        \* responses[c]: [id, outcome] in order
          answer,           \* answer[c]: what is written: a status and responses
          absent            \* history: absent[c], methods not registered at some time
rpcVars == <<handlers, at, body, next, running, responses, answer, absent>>

Outcome == {"result", "error", "missing", "invalid", "parse"}
Response == [id : Nat \cup {None}, outcome : Outcome]

TypeOK ==
  /\ handlers \subseteq Methods
  /\ at \in [Connections -> {"idle", "handle", "done"}]
  /\ \A c \in Connections : body[c] # None => body[c] \in Bodies /\ IsBody(body[c])
  /\ next \in [Connections -> Nat \ {0}]
  /\ running \in [Connections -> BOOLEAN]
  /\ responses \in [Connections -> Seq(Response)]
  /\ \A c \in Connections : answer[c] # None =>
       answer[c].status \in {200, 204} /\ answer[c].responses \in Seq(Response)
  /\ absent \in [Connections -> SUBSET Methods]

Init ==
  /\ handlers \in SUBSET Methods
  /\ at = [c \in Connections |-> "idle"]
  /\ body = [c \in Connections |-> None]
  /\ next = [c \in Connections |-> 1]
  /\ running = [c \in Connections |-> FALSE]
  /\ responses = [c \in Connections |-> <<>>]
  /\ answer = [c \in Connections |-> None]
  /\ absent = [c \in Connections |-> {}]

-----------------------------------------------------------------------------
IsNotification(e) == e.id = None
IsAnswered(e) == e = Null \/ ~IsNotification(e)
IsValid(e) == e.method # "" /\ e.version

Answer(id, outcome) == [id |-> id, outcome |-> outcome]

Write(c, status, rs) ==
  /\ at' = [at EXCEPT ![c] = "done"]
  /\ answer' = [answer EXCEPT ![c] = [status |-> status, responses |-> rs]]

\* ServeHTTP: what cannot be parsed, and an empty batch, are answered at once.
Post(c, b) ==
  /\ at[c] = "idle"
  /\ body' = [body EXCEPT ![c] = b]
  /\ absent' = [absent EXCEPT ![c] = Methods \ handlers]
  /\ CASE b.kind = "garbage" -> Write(c, 200, <<Answer(None, "parse")>>)
       [] b.kind # "garbage" /\ b.elements = <<>> -> Write(c, 200, <<Answer(None, "invalid")>>)
       [] OTHER -> at' = [at EXCEPT ![c] = "handle"] /\ UNCHANGED answer
  /\ UNCHANGED <<handlers, next, running, responses>>

\* The loop of HandleBatch appends r, unless e is a notification, and goes on.
Append1(c, e, r) ==
  /\ responses' = [responses EXCEPT ![c] =
                     IF IsAnswered(e) THEN Append(@, r) ELSE @]
  /\ next' = [next EXCEPT ![c] = @ + 1]

Handling(c) == at[c] = "handle" /\ next[c] <= Len(body[c].elements)
Current(c) == body[c].elements[next[c]]

\* Mutant: an element that is no request is passed over.
NullSkipped(c) ==
  /\ Handling(c) /\ Current(c) = Null
  /\ next' = [next EXCEPT ![c] = @ + 1]
  /\ UNCHANGED <<handlers, at, body, running, responses, answer, absent>>

HandleNull(c) ==
  /\ Handling(c) /\ Current(c) = Null
  /\ Append1(c, Null, Answer(None, "invalid"))
  /\ UNCHANGED <<handlers, at, body, running, answer, absent>>

\* Handle, up to the look-up: the request is invalid, its method is missing, or the
\* handler starts.
Handle(c) ==
  /\ Handling(c) /\ Current(c) # Null /\ ~running[c]
  /\ LET e == Current(c)
     IN CASE ~IsValid(e) -> Append1(c, e, Answer(e.id, "invalid")) /\ UNCHANGED running
          [] IsValid(e) /\ e.method \notin handlers ->
               Append1(c, e, Answer(e.id, "missing")) /\ UNCHANGED running
          [] OTHER -> running' = [running EXCEPT ![c] = TRUE] /\ UNCHANGED <<responses, next>>
  /\ UNCHANGED <<handlers, at, body, answer, absent>>

HandlerReturns(c) ==
  /\ running[c]
  /\ running' = [running EXCEPT ![c] = FALSE]
  /\ \E outcome \in {"result", "error"} :
       Append1(c, Current(c), Answer(Current(c).id, outcome))
  /\ UNCHANGED <<handlers, at, body, answer, absent>>

\* All elements are handled; 204 if there is nothing to answer.
Finish(c) ==
  /\ at[c] = "handle" /\ next[c] > Len(body[c].elements)
  /\ Write(c, IF responses[c] = <<>> THEN 204 ELSE 200, responses[c])
  /\ UNCHANGED <<handlers, body, next, running, responses, absent>>

Register(m) ==
  /\ handlers' = handlers \cup {m}
  /\ UNCHANGED <<at, body, next, running, responses, answer, absent>>

Unregister(m) ==
  /\ handlers' = handlers \ {m}
  /\ absent' = [c \in Connections |-> absent[c] \cup {m}]
  /\ UNCHANGED <<at, body, next, running, responses, answer>>

Next ==
  \/ \E c \in Connections :
       \/ \E b \in Bodies : Post(c, b)
       \/ HandleNull(c) \/ Handle(c) \/ HandlerReturns(c) \/ Finish(c)
  \/ \E m \in Methods : Register(m) \/ Unregister(m)

Spec == Init /\ [][Next]_rpcVars

-----------------------------------------------------------------------------
(* What is claimed *)

\* r answers the element e: it has its id; it is "invalid" exactly if e is, and "missing" only
\* if the method of e is in M.
Fits(e, r, M) ==
  /\ r.id = IF e = Null THEN None ELSE e.id
  /\ r.outcome = "invalid" <=> e = Null \/ ~IsValid(e)
  /\ r.outcome = "missing" => e.method \in M

\* How many of the first p elements are answered: the place of the p-th one's response.
Place(es, p) == Cardinality({q \in 1 .. p : IsAnswered(es[q])})

\* Every element but a notification gets one response, in the order of the batch and
\* with its own id; it is "missing" only if its method was not registered at some
\* time, and "invalid" exactly if it is.
BatchesAreAnswered ==
  \A c \in Connections :
    at[c] = "done" /\ body[c].elements # <<>> =>
      LET es == body[c].elements
          rs == answer[c].responses
      IN /\ Len(rs) = Place(es, Len(es))
         /\ answer[c].status = 204 <=> Place(es, Len(es)) = 0
         /\ \A p \in DOMAIN es : IsAnswered(es[p]) => Fits(es[p], rs[Place(es, p)], absent[c])
=============================================================================
