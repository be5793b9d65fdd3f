------------------------------- MODULE Requests -------------------------------
(***************************************************************************)
(* The decisions about a request that are algorithms over its data: in     *)
(* which order the upstreams of an operation are asked (SchemaTools), and  *)
(* where a request goes, whether it is let in and what it is answered      *)
(* (RequestChain).  A behaviour takes one topic and one input of it, out   *)
(* of sets that are parameters; the invariants say that the results are    *)
(* right for that input.                                                   *)
(***************************************************************************)
EXTENDS Integers, FiniteSets, Sequences

CONSTANTS FieldsAsked,      \* the fields of operations
          Routes,           \* configurations of the router, and paths
          Tokens,           \* options of the jwt command, of the gateway, and times
          Chains,           \* layers with their limits, and requests
          Writers,          \* layers around a handler, and what it writes
          Origins,          \* configurations of CORS, origins and headers
          None

VARIABLES topic, input

Tools == INSTANCE SchemaTools
Chain == INSTANCE RequestChain

Text == Seq(STRING)
PlanField == [path : STRING, upstream : STRING, dependencies : Seq(STRING), mutation : BOOLEAN]
LayerConfig == [enabled : SUBSET STRING, threshold : Nat, burst : Nat]
Visit == [path : STRING, known : BOOLEAN, outcome : {"ok", "failed", "panic"}]

\* (The second follows from the first, but no prover knows that a string is in STRING.)
ASSUME NoneAssumption == None \notin STRING /\ None \notin {"HS256", "error"}
ASSUME FieldsAskedAssumption == FieldsAsked \subseteq Seq(PlanField)
ASSUME RoutesAssumption ==
  \A route \in Routes :
    LET prefixes == DOMAIN route[1].upstreams
    IN prefixes \subseteq Text /\ IsFiniteSet(prefixes) /\ {route[1].rest, route[2]} \subseteq Text
ASSUME TokensAssumption ==
  \A token \in Tokens :
    /\ {token[2].expires, token[4], token[5]} \subseteq Int
    /\ "exp" \in DOMAIN token[3] /\ token[3].exp[1] = "number" => token[3].exp[2] \in Int
    /\ Chain!GenerateJWT("s", "HS256", Chain!GenerateClaims(token[2], token[3], token[4])) # None
ASSUME ChainsAssumption == Chains \subseteq LayerConfig \X Seq(Visit)
ASSUME WritersAssumption == Writers \subseteq Seq({"recovery", "capture"}) \X Seq(STRING)
ASSUME OriginsAssumption == \A origin \in Origins : origin[3] \in Seq(STRING \X BOOLEAN)

RequestTopics == {"plan", "route", "token", "chain", "writer", "origin"}

TakeRequest ==
  \/ topic = "plan" /\ input' \in FieldsAsked
  \/ topic = "route" /\ input' \in Routes
  \/ topic = "token" /\ input' \in Tokens
  \/ topic = "chain" /\ input' \in Chains
  \/ topic = "writer" /\ input' \in Writers
  \/ topic = "origin" /\ input' \in Origins

RequestNext == input = None /\ TakeRequest /\ UNCHANGED topic
RequestSpec == topic \in RequestTopics /\ input = None /\ [][RequestNext]_<<topic, input>>

-----------------------------------------------------------------------------
(* The properties *)

\* A plan has every field once and after the fields that it depends on, and cyclic
\* dependencies are refused (schema/planner.go).
PlansAreOrdered == topic = "plan" /\ input # None => Tools!PlansAreOrdered(input)

\* A request goes to the longest prefix; a token is checked as it was made; the layers
\* around the handlers are charged for what they let through; a panic is answered and
\* captured as it is sent; a preflight promises what the answer allows (proxy/router,
\* cmd/tentaserve, gateway/auth, gateway/middleware, gateway/cors).
RequestsAreAdmitted ==
  input # None =>
    /\ topic = "route" => Chain!LongestPrefixWins(input[1], input[2])
    /\ topic = "token" =>
         Chain!TokensAreChecked(input[1], input[2], input[3], input[4], input[5])
    /\ topic = "chain" => Chain!LayersAreCharged(input[1], input[2])
    /\ topic = "writer" => Chain!PanicsAreAnswered(input[1], input[2])
    /\ topic = "origin" => Chain!PreflightsAgree(input[1], input[2], input[3])
=============================================================================
