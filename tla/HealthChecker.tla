---------------------------- MODULE HealthChecker ----------------------------
(***************************************************************************)
(* gateway/health.Checker: Check returns the cached response while it is   *)
(* fresh; else it copies the registered checks under the read lock, runs   *)
(* each in a goroutine without a lock, and stores the response under the   *)
(* write lock.  Register and Unregister drop the cached response.          *)
(***************************************************************************)
EXTENDS FiniteSets, Folds

CONSTANTS Names,            \* of checks
          Checkers,         \* goroutines that call Check
          None

\* Assumed by the modules that instantiate this one.
HealthAssumption == None \notin Names

VARIABLES checks,           \* the registered checks
          cache,            \* c.cache, or None
          fresh,            \* time.Now().Before(c.cacheUntil)
          running,          \* running[c]: the checks c's Check has copied, or None
          results,          \* results[c]: their results so far
          overtaken         \* history: the Checks that a registration has overtaken
healthVars == <<checks, cache, fresh, running, results, overtaken>>

Status == {"healthy", "degraded", "unhealthy"}

\* A Response: the results by name, the overall status, and (history) whether
\* a Register or Unregister came between the copy of the checks and the end.
Results == UNION {[S -> Status] : S \in SUBSET Names}
Response == [results : Results, status : Status, late : BOOLEAN]

TypeOK ==
  /\ checks \subseteq Names
  /\ cache \in Response \cup {None}
  /\ fresh \in BOOLEAN
  /\ running \in [Checkers -> (SUBSET Names) \cup {None}]
  /\ results \in [Checkers -> Results]
  /\ overtaken \subseteq Checkers

NoResults == [n \in {} |-> "healthy"]

Init ==
  /\ checks = {}
  /\ cache = None
  /\ fresh = FALSE
  /\ running = [c \in Checkers |-> None]
  /\ results = [c \in Checkers |-> NoResults]
  /\ overtaken = {}

-----------------------------------------------------------------------------
Underway == {c \in Checkers : running[c] # None}

\* Mutant: the cached response stays when a check is removed.
CacheKept == UNCHANGED cache

Invalidate == cache' = None

Register(n) ==
  /\ checks' = checks \cup {n}
  /\ cache' = None
  /\ overtaken' = Underway
  /\ UNCHANGED <<fresh, running, results>>

Unregister(n) ==
  /\ checks' = checks \ {n}
  /\ Invalidate
  /\ overtaken' = Underway
  /\ UNCHANGED <<fresh, running, results>>

\* The cache's time-to-live ends.
Expire ==
  /\ fresh
  /\ fresh' = FALSE
  /\ UNCHANGED <<checks, cache, running, results, overtaken>>

-----------------------------------------------------------------------------
(* Check *)

\* A fresh cached response is returned as it is.  Otherwise the checks are copied
\* under the read lock, then started.
CheckStart(c) ==
  /\ running[c] = None
  /\ ~(cache # None /\ fresh)
  /\ running' = [running EXCEPT ![c] = checks]
  /\ overtaken' = overtaken \ {c}
  /\ UNCHANGED <<checks, cache, fresh, results>>

\* One goroutine ends: fn returned, or SimpleCheckWithTimeout gave it up.
CheckRuns(c, n) ==
  /\ running[c] # None
  /\ n \in running[c] \ DOMAIN results[c]
  /\ \E st \in Status :
       results' = [results EXCEPT ![c] = [m \in DOMAIN @ \cup {n} |->
                                            IF m = n THEN st ELSE @[m]]]
  /\ UNCHANGED <<checks, cache, fresh, running, overtaken>>

\* Mutant: a degraded result that follows an unhealthy one replaces it.
LastBad(st, overall) == IF st = "healthy" THEN overall ELSE st

\* The loop over the results: an unhealthy one decides, a degraded one is noted.
Worse(st, overall) ==
  CASE overall = "unhealthy" \/ st = "unhealthy" -> "unhealthy"
    [] st = "degraded" /\ overall = "healthy" -> "degraded"
    [] OTHER -> overall

\* Mutant: the overall status is declared and not initialised.
OverallUnset(r) ==
  MapThenFoldSet(Worse, "", LAMBDA n : r[n], LAMBDA S : CHOOSE n \in S : TRUE, DOMAIN r)

Overall(r) ==
  MapThenFoldSet(Worse, "healthy", LAMBDA n : r[n], LAMBDA S : CHOOSE n \in S : TRUE, DOMAIN r)

\* After wg.Wait(): the response is made and stored over whatever is cached.
CheckEnds(c) ==
  /\ running[c] # None
  /\ running[c] = DOMAIN results[c]
  /\ cache' = [results |-> results[c], status |-> Overall(results[c]), late |-> c \in overtaken]
  /\ fresh' = TRUE
  /\ running' = [running EXCEPT ![c] = None]
  /\ results' = [results EXCEPT ![c] = NoResults]
  /\ overtaken' = overtaken \ {c}
  /\ UNCHANGED checks

Next ==
  \/ \E n \in Names : Register(n) \/ Unregister(n)
  \/ Expire
  \/ \E c \in Checkers :
       CheckStart(c) \/ CheckEnds(c) \/ \E n \in Names : CheckRuns(c, n)

Spec == Init /\ [][Next]_healthVars

-----------------------------------------------------------------------------
(* What is claimed *)

\* A cached response tells of the registered checks, no more and no fewer, unless
\* a registration overtook the very Check that made it: two Checks, or a Check
\* that follows, never bring an older set of checks back.
CacheCoversChecks == cache # None /\ ~cache.late => DOMAIN cache.results = checks

\* A response is healthy only if all its results are, and unhealthy if one is,
\* in whatever order the results are looked at.
StatusIsWorst ==
  cache # None =>
    LET seen == {cache.results[n] : n \in DOMAIN cache.results}
    IN cache.status = IF "unhealthy" \in seen THEN "unhealthy"
                      ELSE IF "degraded" \in seen THEN "degraded" ELSE "healthy"

=============================================================================
