--------------------------- MODULE Services_proofs ---------------------------
(***************************************************************************)
(* Proofs about the services of MC_Services, for any names of checks,      *)
(* upstreams, documents, sessions and requests, and any queue sizes: each  *)
(* service is the only one to change its variables, in the behaviours of   *)
(* its own focus, so that an invariant of it holds in all behaviours.      *)
(***************************************************************************)
EXTENDS MC_Services, FiniteSetTheorems, SequenceTheorems, WellFoundedInduction, TLAPS

-----------------------------------------------------------------------------
(* The health checker *)

Worst(seen) ==
  IF "unhealthy" \in seen THEN "unhealthy"
  ELSE IF "degraded" \in seen THEN "degraded" ELSE "healthy"

\* One more result.
LEMMA WorstAdds ==
  ASSUME NEW seen, NEW st \in Health!Status
  PROVE  Worst(seen \cup {st}) = Health!Worse(st, Worst(seen))
<1>1. CASE st = "unhealthy" BY <1>1 DEF Worst, Health!Worse
<1>2. CASE st = "degraded" BY <1>2 DEF Worst, Health!Worse
<1>3. CASE st = "healthy" BY <1>3 DEF Worst, Health!Worse
<1> QED BY <1>1, <1>2, <1>3 DEF Health!Status

SeenIn(r, S) == {r[n] : n \in S}

\* The equation of the recursive function behind Overall.
HealthIterates(r, S, g) ==
  g = [s \in SUBSET S |-> IF s = {} THEN "healthy"
                          ELSE Health!Worse(r[CHOOSE x \in s : TRUE], g[s \ {CHOOSE x \in s : TRUE}])]

\* The loop over the results finds the worst of them, in whatever order it meets them.
LEMMA OverallIsWorst ==
  ASSUME NEW r, IsFiniteSet(DOMAIN r), \A n \in DOMAIN r : r[n] \in Health!Status
  PROVE  Health!Overall(r) = Worst(SeenIn(r, DOMAIN r))
<1> DEFINE S == DOMAIN r
           h == [s \in SUBSET S |-> Worst(SeenIn(r, s))]
           g == CHOOSE k : HealthIterates(r, S, k)
           pick(s) == CHOOSE x \in s : TRUE
<1>1. ASSUME NEW s \in SUBSET S
      PROVE  h[s] = IF s = {} THEN "healthy" ELSE Health!Worse(r[pick(s)], h[s \ {pick(s)}])
  <2>1. CASE s = {}
    BY <2>1 DEF Worst, SeenIn
  <2>2. CASE s # {}
    <3> DEFINE x == pick(s)
               t == s \ {x}
    <3>1. x \in s /\ t \in SUBSET S /\ h[s] = Worst(SeenIn(r, s)) /\ h[t] = Worst(SeenIn(r, t))
      BY <2>2
    <3>2. SeenIn(r, s) = SeenIn(r, t) \cup {r[x]}
      BY <3>1 DEF SeenIn
    <3>3. r[x] \in Health!Status
      BY <3>1
    <3> HIDE DEF x, t, h
    <3>4. Worst(SeenIn(r, s)) = Health!Worse(r[x], Worst(SeenIn(r, t)))
      BY <3>2, <3>3, WorstAdds, Zenon
    <3> QED
      BY <2>2, <3>1, <3>4 DEF x, t
  <2> QED
    BY <2>1, <2>2
<1>2. HealthIterates(r, S, h)
  BY <1>1, Zenon DEF HealthIterates
<1>3. HealthIterates(r, S, g)
  BY <1>2, Zenon
<1>4. Health!Overall(r) = g[S]
  BY DEF Health!Overall, Health!MapThenFoldSet, HealthIterates
<1> HIDE DEF g, h
<1>5. ASSUME NEW s \in SUBSET S
      PROVE  g[s] = IF s = {} THEN "healthy" ELSE Health!Worse(r[pick(s)], g[s \ {pick(s)}])
  BY <1>3, Zenon DEF HealthIterates
<1>6. g[S] = h[S]
  <2> DEFINE T == {s \in SUBSET S : g[s] # h[s]}
  <2> SUFFICES ASSUME T # {} PROVE FALSE
    OBVIOUS
  <2>1. T \subseteq FiniteSubsetsOf(S)
    BY FS_Subset DEF FiniteSubsetsOf
  <2>2. PICK s \in T : \A t \in T : <<t, s>> \notin StrictSubsetOrdering(S)
    BY <2>1, FS_StrictSubsetOrderingWellFounded, WFMin, Zenon
  <2>3. s # {}
    BY <1>1, <1>5
  <2>4. pick(s) \in s
    BY <2>3
  <2>5. s \ {pick(s)} \notin T
    <3> DEFINE t == s \ {pick(s)}
    <3>1. t \in SUBSET S /\ s \in SUBSET S /\ t \subseteq s /\ t # s
      BY <2>4
    <3>2. <<t, s>> \in StrictSubsetOrdering(S)
      BY <3>1 DEF StrictSubsetOrdering
    <3> QED
      BY <2>2, <3>2, Zenon
  <2> QED
    BY <1>1, <1>5, <2>3, <2>5
<1> QED
  BY <1>4, <1>6 DEF h

\* A Check that no registration has overtaken has copied what is registered.
CopiesAreCurrent ==
  \A c \in Checkers : running[c] # None /\ c \notin overtaken => running[c] = checks

HealthTypes ==
  /\ running \in [Checkers -> (SUBSET Names) \cup {None}]
  /\ checks \subseteq Names /\ IsFiniteSet(checks)
  /\ \A c \in Checkers : running[c] # None => IsFiniteSet(running[c])
  /\ results \in [Checkers -> Health!Results]

HealthInv ==
  /\ HealthTypes
  /\ CopiesAreCurrent
  /\ Health!CacheCoversChecks
  /\ Health!StatusIsWorst

LEMMA HealthStarts == Health!Init => HealthInv
<1> SUFFICES ASSUME Health!Init PROVE HealthInv
  OBVIOUS
<1>1. Health!NoResults \in Health!Results
  <2>1. Health!NoResults \in [{} -> Health!Status]
    BY DEF Health!NoResults
  <2> QED
    BY <2>1 DEF Health!Results
<1>2. HealthTypes
  BY <1>1, FS_EmptySet DEF Health!Init, HealthTypes
<1>3. CopiesAreCurrent /\ Health!CacheCoversChecks /\ Health!StatusIsWorst
  BY DEF Health!Init, CopiesAreCurrent, Health!CacheCoversChecks, Health!StatusIsWorst
<1> QED
  BY <1>2, <1>3 DEF HealthInv

\* A registration drops the cached response and marks every Check under way.
LEMMA RegistrationKeeps ==
  ASSUME HealthInv, NEW n \in Names, Health!Register(n) \/ Health!Unregister(n)
  PROVE  HealthInv'
<1>1. /\ cache' = None
      /\ overtaken' = Health!Underway
      /\ running' = running /\ results' = results
      /\ checks' = checks \cup {n} \/ checks' = checks \ {n}
  BY DEF Health!Register, Health!Unregister, Health!Invalidate
<1>2. IsFiniteSet(checks')
  BY <1>1, FS_AddElement, FS_RemoveElement DEF HealthInv, HealthTypes
<1>3. CopiesAreCurrent'
  BY <1>1 DEF HealthInv, HealthTypes, CopiesAreCurrent, Health!Underway
<1>4. HealthTypes'
  BY <1>1, <1>2 DEF HealthInv, HealthTypes
<1> QED
  BY <1>1, <1>3, <1>4 DEF HealthInv, Health!CacheCoversChecks, Health!StatusIsWorst

LEMMA CheckStartKeeps ==
  ASSUME HealthInv, NEW c \in Checkers, Health!CheckStart(c)
  PROVE  HealthInv'
<1>1. /\ running' = [running EXCEPT ![c] = checks]
      /\ overtaken' = overtaken \ {c}
      /\ checks' = checks /\ cache' = cache /\ results' = results
  BY DEF Health!CheckStart
<1>2. CopiesAreCurrent' /\ HealthTypes'
  BY <1>1 DEF HealthInv, HealthTypes, CopiesAreCurrent
<1> QED
  BY <1>1, <1>2 DEF HealthInv, Health!CacheCoversChecks, Health!StatusIsWorst

LEMMA CheckRunsKeeps ==
  ASSUME HealthInv, NEW c \in Checkers, NEW n \in Names, Health!CheckRuns(c, n)
  PROVE  HealthInv'
<1>1. UNCHANGED <<checks, cache, running, overtaken>>
  BY DEF Health!CheckRuns
<1>2. PICK st \in Health!Status :
        results' = [results EXCEPT ![c] = [m \in DOMAIN results[c] \cup {n} |->
                                             IF m = n THEN st ELSE results[c][m]]]
  BY DEF Health!CheckRuns
<1>3. PICK S \in SUBSET Names : results[c] \in [S -> Health!Status]
  BY DEF HealthInv, HealthTypes, Health!Results
<1>4. results'[c] \in [S \cup {n} -> Health!Status] /\ S \cup {n} \in SUBSET Names
  BY <1>2, <1>3 DEF HealthInv, HealthTypes
<1>5. results'[c] \in Health!Results
  BY <1>4, Zenon DEF Health!Results
<1>6. results' \in [Checkers -> Health!Results]
  BY <1>2, <1>5 DEF HealthInv, HealthTypes
<1> QED
  BY <1>1, <1>6 DEF HealthInv, HealthTypes, CopiesAreCurrent, Health!CacheCoversChecks, Health!StatusIsWorst

\* The response is made of exactly what the Check has copied.
LEMMA CheckEndsKeeps ==
  ASSUME HealthInv, NEW c \in Checkers, Health!CheckEnds(c)
  PROVE  HealthInv'
<1>1. /\ running[c] # None /\ running[c] = DOMAIN results[c]
      /\ running' = [running EXCEPT ![c] = None]
      /\ overtaken' = overtaken \ {c}
      /\ checks' = checks
      /\ results' = [results EXCEPT ![c] = Health!NoResults]
  BY DEF Health!CheckEnds
<1>2. /\ cache'.results = results[c] /\ cache'.late = (c \in overtaken)
      /\ cache'.status = Health!Overall(results[c])
  BY DEF Health!CheckEnds
<1>3. CopiesAreCurrent'
  BY <1>1 DEF HealthInv, HealthTypes, CopiesAreCurrent
<1>4. Health!CacheCoversChecks'
  BY <1>1, <1>2, Zenon DEF HealthInv, CopiesAreCurrent, Health!CacheCoversChecks
<1>5. Health!StatusIsWorst'
  <2>1. IsFiniteSet(DOMAIN results[c]) /\ \A n \in DOMAIN results[c] : results[c][n] \in Health!Status
    BY <1>1 DEF HealthInv, HealthTypes, Health!Results
  <2>2. cache'.status = Worst(SeenIn(results[c], DOMAIN results[c]))
    BY <1>2, <2>1, OverallIsWorst
  <2> QED
    BY <1>2, <2>2, Zenon DEF Health!StatusIsWorst, Worst, SeenIn
<1>6. HealthTypes'
  <2>1. Health!NoResults \in [{} -> Health!Status]
    BY DEF Health!NoResults
  <2>2. Health!NoResults \in Health!Results
    BY <2>1 DEF Health!Results
  <2> QED
    BY <1>1, <2>2 DEF HealthInv, HealthTypes
<1> QED
  BY <1>3, <1>4, <1>5, <1>6 DEF HealthInv

LEMMA HealthKeeps == HealthInv /\ [Health!Next]_healthVars => HealthInv'
<1> SUFFICES ASSUME HealthInv, [Health!Next]_healthVars PROVE HealthInv'
  OBVIOUS
<1>1. CASE UNCHANGED <<checks, cache, running, results, overtaken>>
  BY <1>1 DEF HealthInv, HealthTypes, CopiesAreCurrent, Health!CacheCoversChecks, Health!StatusIsWorst
<1> QED
  BY <1>1, RegistrationKeeps, CheckStartKeeps, CheckRunsKeeps, CheckEndsKeeps
     DEF Health!Next, Health!Expire, healthVars

\* A cached response tells of the registered checks, unless a Register or Unregister
\* overtook the Check that made it, for any number of Checks that run at once; its status
\* is the worst of its results.
THEOREM HealthTold == Spec => []HealthIsTruthful
<1>1. Init => HealthInv
  BY HealthStarts DEF Init
<1>2. [Next]_vars => [Health!Next]_healthVars
  BY DEF Next, vars, healthVars
<1>3. HealthInv => HealthIsTruthful
  BY DEF HealthInv, HealthIsTruthful
<1> QED
  BY <1>1, <1>2, <1>3, HealthKeeps, PTL DEF Spec
-----------------------------------------------------------------------------
(* The OpenAPI provider *)

Made == 1 .. made

Shapes ==
  /\ made \in 0 .. MaxRegistrations
  /\ MaxRegistrations \in Nat
  /\ None \notin OpenAPI!Objects
  /\ specs \in [Upstreams -> OpenAPI!Objects \cup {None}]
  /\ spec \in [OpenAPI!Objects -> OpenAPI!Document \cup {None}]
  /\ source \in [OpenAPI!Objects -> Sources \cup {None}]
  /\ document \in [Sources -> OpenAPI!Document \cup {None}]

\* A document is found where it belongs.
DocumentsAtHome == \A src \in Sources : document[src] # None => document[src].at = src

\* A registered object was made, is registered under one name, has a source and an
\* open stop channel.
Registered ==
  /\ \A n \in Upstreams : specs[n] # None =>
       specs[n] \in Made /\ specs[n] \notin stopped /\ source[specs[n]] \in Sources
  /\ \A n, m \in Upstreams : specs[n] # None /\ specs[n] = specs[m] => n = m
  /\ stopped \subseteq Made

OwnSpecs == \A o \in OpenAPI!Objects : spec[o] # None => spec[o].at = source[o]

\* OpenAPI!Objects that are not made yet have no specification.
UnmadeIsEmpty == \A o \in OpenAPI!Objects \ Made : spec[o] = None

\* A loop refreshes the upstream its object was made for.
LoopsHaveNames ==
  /\ name \in [OpenAPI!Objects -> Upstreams \cup {None}]
  /\ loop \in [OpenAPI!Objects -> {"off", "wait", "refresh", "ended"}]
  /\ \A o \in OpenAPI!Objects : loop[o] # "off" => name[o] \in Upstreams

\* All but LoopsHaveNames, which is shown on its own.
SpecsInv == Shapes /\ DocumentsAtHome /\ Registered /\ OwnSpecs /\ UnmadeIsEmpty /\ ~panicked

ProviderInv == SpecsInv /\ LoopsHaveNames

\* What no step does to a specification.
SpecStays == \A o \in OpenAPI!Objects : spec[o] # None => spec'[o] # None

LEMMA ProviderStarts == OpenAPI!ProviderAssumption /\ OpenAPI!Init => ProviderInv
<1> SUFFICES ASSUME OpenAPI!ProviderAssumption, OpenAPI!Init PROVE ProviderInv
  OBVIOUS
<1>1. Shapes
  BY DEF OpenAPI!ProviderAssumption, OpenAPI!Init, Shapes
<1>2. DocumentsAtHome /\ Registered /\ OwnSpecs /\ UnmadeIsEmpty /\ ~panicked
  BY DEF OpenAPI!Init, DocumentsAtHome, Registered, OwnSpecs, UnmadeIsEmpty
<1>3. LoopsHaveNames
  BY DEF OpenAPI!Init, LoopsHaveNames
<1> QED
  BY <1>1, <1>2, <1>3 DEF ProviderInv, SpecsInv

LEMMA RegisterInv ==
  ASSUME SpecsInv, NEW n \in Upstreams, NEW src \in Sources, OpenAPI!RegisterUpstream(n, src)
  PROVE  SpecsInv' /\ SpecStays
<1> DEFINE o == made + 1
<1>1. /\ specs' = [specs EXCEPT ![n] = o]
      /\ source' = [source EXCEPT ![o] = src]
      /\ spec' = [spec EXCEPT ![o] = document[src]]
      /\ UNCHANGED <<document, stopped, panicked>>
      /\ made' = o /\ made < MaxRegistrations
  <2>1. OpenAPI!Loaded(None, src) = document[src]
    BY DEF OpenAPI!Loaded
  <2> QED
    BY <2>1 DEF OpenAPI!RegisterUpstream
<1>2. /\ o \in OpenAPI!Objects /\ o \notin Made /\ Made' = Made \cup {o}
      /\ made' \in 0 .. MaxRegistrations
  BY <1>1 DEF SpecsInv, Shapes, OpenAPI!Objects, Made
<1>3. Shapes'
  BY <1>1, <1>2 DEF SpecsInv, Shapes, OpenAPI!Objects
<1> HIDE DEF o
<1>4. Registered'
  BY <1>1, <1>2 DEF SpecsInv, Shapes, Registered
<1>5. OwnSpecs' /\ UnmadeIsEmpty' /\ DocumentsAtHome'
  BY <1>1, <1>2 DEF SpecsInv, Shapes, OwnSpecs, UnmadeIsEmpty, DocumentsAtHome
<1>6. SpecStays
  BY <1>1, <1>2 DEF SpecsInv, Shapes, UnmadeIsEmpty, SpecStays
<1> QED
  BY <1>1, <1>3, <1>4, <1>5, <1>6 DEF SpecsInv

\* OpenAPI!Objects that are taken out of the map have open stop channels.
LEMMA RemoveInv ==
  ASSUME SpecsInv, NEW N \in SUBSET Upstreams,
         OpenAPI!CloseAll({specs[n] : n \in N} \ {None}),
         specs' = [n \in Upstreams |-> IF n \in N THEN None ELSE specs[n]],
         UNCHANGED <<document, made, name, source, spec, loop>>
  PROVE  SpecsInv' /\ SpecStays
<1> DEFINE S == {specs[n] : n \in N} \ {None}
<1>1. S \subseteq Made /\ S \cap stopped = {}
  BY DEF SpecsInv, Registered
<1>2. stopped' = stopped \cup S /\ ~panicked'
  BY <1>1 DEF OpenAPI!CloseAll, SpecsInv
<1>3. Registered'
  <2>1. \A n \in Upstreams : specs'[n] # None => n \notin N /\ specs'[n] = specs[n]
    OBVIOUS
  <2>2. \A n \in Upstreams : specs'[n] # None => specs'[n] \notin S
    BY <2>1 DEF SpecsInv, Registered
  <2> HIDE DEF S
  <2> QED
    BY <1>1, <1>2, <2>1, <2>2 DEF SpecsInv, Registered, Made
<1>4. Shapes' /\ DocumentsAtHome' /\ OwnSpecs' /\ UnmadeIsEmpty' /\ SpecStays
  BY DEF SpecsInv, Shapes, DocumentsAtHome, OwnSpecs, UnmadeIsEmpty, Made, SpecStays
<1> QED
  BY <1>2, <1>3, <1>4 DEF SpecsInv

\* A refresh by name gives the object found a document of its own source, if any.
LEMMA RefreshInv ==
  ASSUME SpecsInv, NEW n \in Upstreams, OpenAPI!RefreshSpec(n),
         UNCHANGED <<document, specs, made, source, stopped, panicked>>
  PROVE  SpecsInv' /\ SpecStays
<1>1. CASE specs[n] = None
  BY <1>1 DEF OpenAPI!RefreshSpec, SpecsInv, Shapes, DocumentsAtHome, Registered, OwnSpecs, UnmadeIsEmpty,
              Made, SpecStays
<1>2. CASE specs[n] # None
  <2> DEFINE o == specs[n]
             d == OpenAPI!Loaded(spec[o], source[o])
  <2>1. o \in Made /\ o \in OpenAPI!Objects /\ source[o] \in Sources
    BY <1>2 DEF SpecsInv, Shapes, Registered
  <2>2. spec' = [spec EXCEPT ![o] = d]
    BY <1>2, <2>1 DEF OpenAPI!RefreshSpec, SpecsInv, Shapes
  <2>3. /\ d \in OpenAPI!Document \cup {None}
        /\ d # None => d.at = source[o]
        /\ spec[o] # None => d # None
    BY <2>1 DEF SpecsInv, Shapes, DocumentsAtHome, OwnSpecs, OpenAPI!Loaded
  <2> HIDE DEF d, o
  <2>4. Shapes' /\ DocumentsAtHome' /\ Registered'
    BY <2>1, <2>2, <2>3 DEF SpecsInv, Shapes, DocumentsAtHome, Registered, Made
  <2>5. OwnSpecs' /\ UnmadeIsEmpty' /\ SpecStays
    BY <2>1, <2>2, <2>3 DEF SpecsInv, Shapes, OwnSpecs, UnmadeIsEmpty, Made, SpecStays
  <2> QED
    BY <2>4, <2>5 DEF SpecsInv
<1> QED
  BY <1>1, <1>2

\* The document at a source changes, or can no longer be loaded.
LEMMA SourceInv ==
  ASSUME SpecsInv, NEW src \in Sources, OpenAPI!SourceChanges(src)
  PROVE  SpecsInv' /\ SpecStays
<1>1. UNCHANGED <<specs, made, source, spec, stopped, panicked>>
  BY DEF OpenAPI!SourceChanges
<1>2. PICK d \in OpenAPI!Document \cup {None} :
        /\ document' = [document EXCEPT ![src] = d]
        /\ d # None => d.at = src
  BY DEF OpenAPI!SourceChanges, OpenAPI!Document
<1>3. document' \in [Sources -> OpenAPI!Document \cup {None}] /\ DocumentsAtHome'
  BY <1>2 DEF SpecsInv, Shapes, DocumentsAtHome
<1> QED
  BY <1>1, <1>3 DEF SpecsInv, Shapes, Registered, OwnSpecs, UnmadeIsEmpty, Made, SpecStays

\* Steps that leave everything but the loops alone.
LEMMA StutterInv ==
  ASSUME SpecsInv, UNCHANGED <<document, specs, made, source, spec, stopped, panicked>>
  PROVE  SpecsInv' /\ SpecStays
BY DEF SpecsInv, Shapes, DocumentsAtHome, Registered, OwnSpecs, UnmadeIsEmpty, Made, SpecStays

LEMMA NextSpecsInv ==
  ASSUME ProviderInv, [OpenAPI!Next]_providerVars
  PROVE  SpecsInv' /\ SpecStays
<1>1. CASE UNCHANGED providerVars
  BY <1>1, StutterInv DEF ProviderInv, providerVars
<1>2. ASSUME NEW n \in Upstreams, OpenAPI!UnregisterUpstream(n) PROVE SpecsInv' /\ SpecStays
  <2>1. OpenAPI!CloseAll({specs[m] : m \in {n}} \ {None})
    <3>1. {specs[m] : m \in {n}} \ {None} = {specs[n]}
      BY <1>2 DEF OpenAPI!UnregisterUpstream
    <3> QED
      BY <1>2, <3>1 DEF OpenAPI!UnregisterUpstream
  <2>2. specs' = [m \in Upstreams |-> IF m \in {n} THEN None ELSE specs[m]]
    BY <1>2 DEF OpenAPI!UnregisterUpstream, ProviderInv, SpecsInv, Shapes
  <2> QED
    BY <1>2, <2>1, <2>2, RemoveInv DEF OpenAPI!UnregisterUpstream, ProviderInv
<1>3. CASE OpenAPI!Shutdown
  <2>1. specs' = [m \in Upstreams |-> IF m \in Upstreams THEN None ELSE specs[m]]
    BY <1>3 DEF OpenAPI!Shutdown
  <2> QED
    BY <1>3, <2>1, RemoveInv DEF OpenAPI!Shutdown, ProviderInv
<1>4. ASSUME NEW n \in Upstreams, OpenAPI!RefreshByHand(n) PROVE SpecsInv' /\ SpecStays
  BY <1>4, RefreshInv DEF OpenAPI!RefreshByHand, ProviderInv
<1>5. ASSUME NEW o \in OpenAPI!Objects, OpenAPI!LoopRefreshes(o) PROVE SpecsInv' /\ SpecStays
  <2>1. name[o] \in Upstreams
    BY <1>5 DEF OpenAPI!LoopRefreshes, ProviderInv, LoopsHaveNames
  <2> QED
    BY <1>5, <2>1, RefreshInv DEF OpenAPI!LoopRefreshes, ProviderInv
<1>6. ASSUME NEW o \in OpenAPI!Objects, OpenAPI!TickTaken(o) \/ OpenAPI!LoopEnds(o) PROVE SpecsInv' /\ SpecStays
  BY <1>6, StutterInv DEF OpenAPI!TickTaken, OpenAPI!LoopEnds, ProviderInv
<1> QED
  BY <1>1, <1>2, <1>3, <1>4, <1>5, <1>6, RegisterInv, SourceInv DEF OpenAPI!Next, ProviderInv

LEMMA NextLoops ==
  ASSUME ProviderInv, [OpenAPI!Next]_providerVars
  PROVE  LoopsHaveNames'
<1> USE DEF ProviderInv, LoopsHaveNames
<1>1. CASE UNCHANGED <<name, loop>>
  BY <1>1
<1>2. ASSUME NEW n \in Upstreams, NEW src \in Sources, OpenAPI!RegisterUpstream(n, src)
      PROVE  LoopsHaveNames'
  BY <1>2 DEF OpenAPI!RegisterUpstream
<1>3. ASSUME NEW o \in OpenAPI!Objects, OpenAPI!TickTaken(o) \/ OpenAPI!LoopRefreshes(o) \/ OpenAPI!LoopEnds(o)
      PROVE  LoopsHaveNames'
  BY <1>3 DEF OpenAPI!TickTaken, OpenAPI!LoopRefreshes, OpenAPI!LoopEnds, OpenAPI!AfterRefresh
<1> QED
  BY <1>1, <1>2, <1>3 DEF OpenAPI!Next, providerVars, OpenAPI!UnregisterUpstream, OpenAPI!RefreshByHand, OpenAPI!Shutdown, OpenAPI!SourceChanges

\* An upstream that has a specification keeps one through failing refreshes, and it
\* came from the upstream's own source, whichever loop refreshed it; no stop
\* channel is closed twice, by any calls of Unregister, Register and Shutdown.
THEOREM SpecIsKept == Spec => KeepsSpec
<1>1. Init => ProviderInv
  BY ProviderStarts, OpenAPINone DEF Init
<1>2. [Next]_vars => [OpenAPI!Next]_providerVars
  BY DEF Next, vars, providerVars
<1>3. ProviderInv /\ [OpenAPI!Next]_providerVars => ProviderInv'
  BY NextSpecsInv, NextLoops DEF ProviderInv
<1>4. ProviderInv /\ [OpenAPI!Next]_providerVars =>
        [\A o \in OpenAPI!Objects : spec[o] # None => spec'[o] # None]_(OpenAPI!providerVars)
  BY NextSpecsInv DEF SpecStays
<1>5. ProviderInv => (\A o \in OpenAPI!Objects : spec[o] # None => spec[o].at = source[o]) /\ ~panicked
  BY DEF ProviderInv, SpecsInv, OwnSpecs
<1> QED
  BY <1>1, <1>2, <1>3, <1>4, <1>5, PTL DEF Spec, KeepsSpec, OpenAPI!KeepsSpec
-----------------------------------------------------------------------------
(* The event-stream sessions *)

LEMMA HeadMoves ==
  ASSUME NEW S, NEW w \in Seq(S), NEW q \in Seq(S), q # <<>>
  PROVE  Append(w, Head(q)) \o Tail(q) = w \o q
<1>1. /\ Append(w, Head(q)) \in Seq(S) /\ Tail(q) \in Seq(S)
      /\ Append(w, Head(q)) \o Tail(q) \in Seq(S) /\ w \o q \in Seq(S)
  OBVIOUS
<1>2. Len(Append(w, Head(q)) \o Tail(q)) = Len(w \o q)
  OBVIOUS
<1>3. \A i \in 1 .. Len(w \o q) : (Append(w, Head(q)) \o Tail(q))[i] = (w \o q)[i]
  OBVIOUS
<1> QED
  BY <1>1, <1>2, <1>3, SeqEqual

LEMMA AppendLast ==
  ASSUME NEW S, NEW w \in Seq(S), NEW q \in Seq(S), NEW b \in S
  PROVE  w \o Append(q, b) = Append(w \o q, b)
<1>1. w \o Append(q, b) \in Seq(S) /\ Append(w \o q, b) \in Seq(S)
  OBVIOUS
<1>2. Len(w \o Append(q, b)) = Len(Append(w \o q, b))
  OBVIOUS
<1>3. \A i \in 1 .. Len(w \o Append(q, b)) : (w \o Append(q, b))[i] = Append(w \o q, b)[i]
  OBVIOUS
<1> QED
  BY <1>1, <1>2, <1>3, SeqEqual

LEMMA SetOfSequence ==
  ASSUME NEW S, NEW q \in Seq(S)
  PROVE  /\ \A x : x \in SSE!ToSet(q) <=> \E i \in 1 .. Len(q) : x = q[i]
         /\ SSE!IsInjective(q) <=> \A i, j \in 1 .. Len(q) : q[i] = q[j] => i = j
BY DEF SSE!ToSet, SSE!IsInjective

LEMMA SetOfAppend ==
  ASSUME NEW S, NEW q \in Seq(S), NEW b \in S
  PROVE  SSE!ToSet(Append(q, b)) = SSE!ToSet(q) \cup {b}
<1> DEFINE p == Append(q, b)
<1>1. p \in Seq(S) /\ Len(q) \in Nat /\ Len(p) = Len(q) + 1 /\ p[Len(q) + 1] = b
      /\ \A i \in 1 .. Len(q) : p[i] = q[i]
  OBVIOUS
<1> HIDE DEF p
<1>2. \A x : x \in SSE!ToSet(p) <=> \E i \in 1 .. Len(p) : x = p[i]
  BY <1>1, SetOfSequence
<1>3. \A x : x \in SSE!ToSet(q) <=> \E i \in 1 .. Len(q) : x = q[i]
  BY SetOfSequence
<1>4. \A x : x \in SSE!ToSet(p) => x \in SSE!ToSet(q) \cup {b}
  BY <1>1, <1>2, <1>3
<1>5. \A x : x \in SSE!ToSet(q) \cup {b} => x \in SSE!ToSet(p)
  BY <1>1, <1>2, <1>3
<1>6. SSE!ToSet(p) = SSE!ToSet(q) \cup {b}
  BY <1>4, <1>5, Zenon
<1> QED
  BY <1>6 DEF p

LEMMA SuffixOf ==
  ASSUME NEW S, NEW w \in Seq(S), NEW q \in Seq(S)
  PROVE  /\ SSE!ToSet(q) \subseteq SSE!ToSet(w \o q) /\ SSE!ToSet(q) \subseteq S
         /\ SSE!IsInjective(w \o q) => SSE!IsInjective(q)
<1> DEFINE p == w \o q
           n == Len(w)
<1>1. /\ p \in Seq(S) /\ n \in Nat /\ Len(q) \in Nat /\ Len(p) = n + Len(q)
      /\ \A i \in 1 .. Len(q) : n + i \in 1 .. Len(p) /\ p[n + i] = q[i] /\ q[i] \in S
  OBVIOUS
<1> HIDE DEF p, n
<1>2. /\ \A x : x \in SSE!ToSet(p) <=> \E i \in 1 .. Len(p) : x = p[i]
      /\ SSE!IsInjective(p) <=> \A i, j \in 1 .. Len(p) : p[i] = p[j] => i = j
  BY <1>1, SetOfSequence
<1>3. /\ \A x : x \in SSE!ToSet(q) <=> \E i \in 1 .. Len(q) : x = q[i]
      /\ SSE!IsInjective(q) <=> \A i, j \in 1 .. Len(q) : q[i] = q[j] => i = j
  BY SetOfSequence
<1>4. ASSUME NEW x \in SSE!ToSet(q) PROVE x \in SSE!ToSet(p) /\ x \in S
  <2>1. PICK i \in 1 .. Len(q) : x = q[i]
    BY <1>3
  <2>2. n + i \in 1 .. Len(p) /\ p[n + i] = x /\ x \in S
    BY <1>1, <2>1
  <2> QED
    BY <1>2, <2>2
<1>5. ASSUME SSE!IsInjective(p), NEW i \in 1 .. Len(q), NEW j \in 1 .. Len(q), q[i] = q[j]
      PROVE  i = j
  <2>1. n + i = n + j
    BY <1>1, <1>2, <1>5
  <2> QED
    BY <2>1, <1>1
<1> QED
  BY <1>3, <1>4, <1>5 DEF p

\* A sequence of different messages holds as many as it is long.
LEMMA SequenceCounts ==
  ASSUME NEW S, NEW q \in Seq(S), SSE!IsInjective(q)
  PROVE  IsFiniteSet(SSE!ToSet(q)) /\ Cardinality(SSE!ToSet(q)) = Len(q)
<1>1. q \in Bijection(1 .. Len(q), SSE!ToSet(q))
  BY SetOfSequence DEF Bijection, Injection, Surjection, IsInjective
<1>2. ExistsBijection(1 .. Len(q), SSE!ToSet(q))
  BY <1>1, Zenon DEF ExistsBijection
<1>3. Len(q) \in Nat
  OBVIOUS
<1> QED
  BY <1>2, <1>3, FS_NatBijection, FS_CountingElements, Zenon

SSETypes ==
  /\ sessions \subseteq Sessions
  /\ messages \in [Sessions -> Seq(Broadcasts)]
  /\ sent \in [Sessions -> Seq(Broadcasts)]
  /\ call \in [Broadcasts -> {"idle", "send", "done"}]
  /\ todo \in [Broadcasts -> SUBSET Sessions]
  /\ aimed \in [Broadcasts -> SUBSET Sessions]
  /\ earlier \in [Broadcasts -> SUBSET Broadcasts]

\* A message has reached a session as soon as its broadcast has looked at it, and a
\* broadcast that came before another one is over.
Delivered ==
  \A b \in Broadcasts :
    /\ call[b] = "idle" => aimed[b] = {}
    /\ call[b] = "done" => todo[b] = {}
    /\ todo[b] \subseteq aimed[b]
    /\ \A d \in earlier[b] : call[d] = "done"
    /\ \A s \in Sessions : b \in SSE!ToSet(SSE!Reached(s)) => s \in aimed[b] \ todo[b]

\* The messages that may stand for b in the queue that was full.
NotBefore(b, s) == {d \in SSE!ToSet(SSE!Reached(s)) : b \notin earlier[d]}

\* SessionsKeepOrder in parts.
InOrder(s) ==
  /\ SSE!IsInjective(SSE!Reached(s))
  /\ \A i, j \in 1 .. Len(SSE!Reached(s)) :
       SSE!Reached(s)[i] \in earlier[SSE!Reached(s)[j]] => i < j
LostToFull(s) ==
  \A b \in Broadcasts :
    s \in aimed[b] \ todo[b] /\ b \notin SSE!ToSet(SSE!Reached(s)) =>
      Cardinality(NotBefore(b, s)) >= QueueSize

SSEInv == SSETypes /\ Delivered /\ \A s \in Sessions : InOrder(s) /\ LostToFull(s)

\* A finite set that contains so many has so many.
LEMMA AtLeast ==
  ASSUME NEW S, NEW T, IsFiniteSet(T), S \subseteq T, NEW n \in Nat, Cardinality(S) >= n
  PROVE  Cardinality(T) >= n
<1>1. IsFiniteSet(S) /\ Cardinality(S) <= Cardinality(T)
  BY FS_Subset
<1>2. Cardinality(S) \in Nat /\ Cardinality(T) \in Nat
  BY <1>1, FS_CardinalityType
<1> QED
  BY <1>1, <1>2

LEMMA ReachedType ==
  SSETypes => \A s \in Sessions : SSE!Reached(s) \in Seq(Broadcasts)
  BY DEF SSETypes, SSE!Reached

LEMMA SSECount == \A S : SSE!Cardinality(S) = Cardinality(S)
  BY Zenon DEF SSE!Cardinality, Cardinality

LEMMA SSEImplies == SSEInv => SSE!SessionsKeepOrder
  BY SSECount, Zenon DEF SSEInv, Delivered, InOrder, LostToFull, NotBefore, SSE!SessionsKeepOrder

LEMMA SSEStarts == SSE!SSEAssumption /\ SSE!Init => SSEInv
<1> SUFFICES ASSUME SSE!SSEAssumption, SSE!Init PROVE SSEInv
  OBVIOUS
<1>1. SSETypes
  BY DEF SSE!Init, SSETypes
<1>2. \A s \in Sessions : SSE!Reached(s) = <<>>
  BY DEF SSE!Init, SSE!Reached
<1>3. SSE!ToSet(<<>>) = {} /\ SSE!IsInjective(<<>>)
  BY DEF SSE!ToSet, SSE!IsInjective
<1>4. Delivered
  BY <1>2, <1>3 DEF SSE!Init, Delivered
<1>5. \A s \in Sessions : InOrder(s) /\ LostToFull(s)
  BY <1>2, <1>3 DEF SSE!Init, InOrder, LostToFull
<1> QED
  BY <1>1, <1>4, <1>5 DEF SSEInv

\* Steps of the handlers: a message that is written has reached the session already.
LEMMA HandlerKeeps ==
  ASSUME SSEInv, SSETypes', \A s \in Sessions : SSE!Reached(s)' = SSE!Reached(s),
         UNCHANGED <<call, todo, aimed, earlier>>
  PROVE  SSEInv'
BY DEF SSEInv, Delivered, InOrder, LostToFull, NotBefore

LEMMA WriteMessageKeeps ==
  ASSUME SSEInv, NEW s \in Sessions, SSE!WriteMessage(s)
  PROVE  SSEInv'
<1>1. /\ messages[s] # <<>> /\ messages[s] \in Seq(Broadcasts) /\ sent[s] \in Seq(Broadcasts)
      /\ sent' = [sent EXCEPT ![s] = Append(@, Head(messages[s]))]
      /\ messages' = [messages EXCEPT ![s] = Tail(@)]
      /\ UNCHANGED <<sessions, call, todo, aimed, earlier>>
  BY DEF SSE!WriteMessage, SSEInv, SSETypes
<1>2. SSETypes'
  <2>1. Append(sent[s], Head(messages[s])) \in Seq(Broadcasts) /\ Tail(messages[s]) \in Seq(Broadcasts)
    BY <1>1
  <2> QED
    BY <1>1, <2>1 DEF SSEInv, SSETypes
<1>3. ASSUME NEW r \in Sessions PROVE SSE!Reached(r)' = SSE!Reached(r)
  <2>1. CASE r = s
    BY <2>1, <1>1, HeadMoves DEF SSEInv, SSETypes, SSE!Reached
  <2>2. CASE r # s
    BY <2>2, <1>1 DEF SSEInv, SSETypes, SSE!Reached
  <2> QED
    BY <2>1, <2>2
<1> QED
  BY <1>1, <1>2, <1>3, HandlerKeeps

\* A broadcast begins: no session has its message yet.
LEMMA BroadcastBeginsKeeps ==
  ASSUME SSEInv, NEW b \in Broadcasts, SSE!BroadcastBegins(b)
  PROVE  SSEInv'
<1>1. /\ call[b] = "idle" /\ sessions' = sessions
      /\ call' = [call EXCEPT ![b] = "send"]
      /\ todo' = [todo EXCEPT ![b] = sessions]
      /\ aimed' = [aimed EXCEPT ![b] = sessions]
      /\ earlier' = [earlier EXCEPT ![b] = {d \in Broadcasts : call[d] = "done"}]
      /\ UNCHANGED <<messages, sent>>
  BY DEF SSE!BroadcastBegins
<1>2. SSETypes'
  BY <1>1 DEF SSEInv, SSETypes
<1>3. \A s \in Sessions : /\ SSE!Reached(s)' = SSE!Reached(s)
                          /\ b \notin SSE!ToSet(SSE!Reached(s))
  BY <1>1 DEF SSEInv, Delivered, SSE!Reached
<1>4. Delivered'
  BY <1>1, <1>3 DEF SSEInv, SSETypes, Delivered
<1>5. ASSUME NEW s \in Sessions PROVE InOrder(s)' /\ LostToFull(s)'
  <2>1. \A d \in SSE!ToSet(SSE!Reached(s)) : earlier'[d] = earlier[d]
    BY <1>1, <1>3 DEF SSEInv, SSETypes
  <2>2. \A j \in 1 .. Len(SSE!Reached(s)) : SSE!Reached(s)[j] \in SSE!ToSet(SSE!Reached(s))
    BY SetOfSequence, ReachedType DEF SSEInv
  <2>3. InOrder(s)'
    BY <1>3, <2>1, <2>2 DEF SSEInv, InOrder
  <2>4. \A d \in Broadcasts : NotBefore(d, s)' = NotBefore(d, s)
    BY <1>3, <2>1 DEF NotBefore
  <2>5. LostToFull(s)'
    BY <1>1, <1>3, <2>4 DEF SSEInv, SSETypes, LostToFull
  <2> QED
    BY <2>3, <2>5
<1> QED
  BY <1>2, <1>4, <1>5 DEF SSEInv

\* The message is queued behind all that the session got.  Those who got theirs and
\* came before are before it, and it came before none of them: it is under way.
LEMMA QueuedKeeps ==
  ASSUME SSEInv, NEW b \in Broadcasts, NEW s \in todo[b], call[b] = "send",
         SSETypes',
         SSE!Reached(s)' = Append(SSE!Reached(s), b),
         \A r \in Sessions \ {s} : SSE!Reached(r)' = SSE!Reached(r),
         todo' = [todo EXCEPT ![b] = @ \ {s}],
         UNCHANGED <<call, aimed, earlier>>
  PROVE  SSEInv'
<1> DEFINE R == SSE!Reached(s)
           n == Len(R)
<1>1. R \in Seq(Broadcasts) /\ s \in Sessions /\ n \in Nat /\ s \in aimed[b]
  <2>1. s \in Sessions
    BY DEF SSEInv, SSETypes
  <2> QED
    BY <2>1, ReachedType DEF SSEInv, Delivered
<1>2. /\ SSE!Reached(s)' \in Seq(Broadcasts) /\ Len(SSE!Reached(s)') = n + 1
      /\ SSE!Reached(s)'[n + 1] = b
      /\ \A i \in 1 .. n : SSE!Reached(s)'[i] = R[i]
  BY <1>1
<1>3. SSE!ToSet(SSE!Reached(s)') = SSE!ToSet(R) \cup {b}
  BY <1>1, SetOfAppend DEF R
<1>4. b \notin SSE!ToSet(R)
  BY <1>1 DEF SSEInv, Delivered
<1> HIDE DEF R
<1>5. Delivered'
  <2>1. ASSUME NEW d \in Broadcasts PROVE call'[d] = "done" => todo'[d] = {}
    BY DEF SSEInv, SSETypes, Delivered
  <2>2. ASSUME NEW d \in Broadcasts, NEW r \in Sessions, d \in SSE!ToSet(SSE!Reached(r)')
        PROVE  r \in aimed'[d] \ todo'[d]
    <3>1. CASE r = s /\ d = b
      BY <3>1, <1>1 DEF SSEInv, SSETypes
    <3>2. CASE ~(r = s /\ d = b)
      <4>1. d \in SSE!ToSet(SSE!Reached(r))
        BY <3>2, <2>2, <1>3 DEF R
      <4> QED
        BY <4>1 DEF SSEInv, SSETypes, Delivered
    <3> QED
      BY <3>1, <3>2
  <2> QED
    BY <2>1, <2>2 DEF SSEInv, Delivered
<1>6. InOrder(s)'
  <2>1. \A i \in 1 .. n : R[i] # b /\ R[i] \in Broadcasts
    BY <1>1, <1>4, SetOfSequence
  <2>2. \A d \in Broadcasts : b \notin earlier[d]
    BY DEF SSEInv, Delivered
  <2>3. /\ \A i, j \in 1 .. n : R[i] = R[j] => i = j
        /\ \A i, j \in 1 .. n : R[i] \in earlier[R[j]] => i < j
    BY <1>1, SetOfSequence DEF SSEInv, InOrder, R
  <2> DEFINE Q == SSE!Reached(s)'
  <2>4. Q \in Seq(Broadcasts) /\ Len(Q) = n + 1 /\ Q[n + 1] = b /\ \A i \in 1 .. n : Q[i] = R[i]
    BY <1>2
  <2> HIDE DEF Q, n
  <2>5. \A i, j \in 1 .. Len(Q) : Q[i] = Q[j] => i = j
    BY <1>1, <2>1, <2>3, <2>4
  <2>6. \A i, j \in 1 .. Len(Q) : Q[i] \in earlier[Q[j]] => i < j
    BY <1>1, <2>1, <2>2, <2>3, <2>4
  <2>7. SSE!IsInjective(Q)
    BY <2>4, <2>5, SetOfSequence
  <2> QED
    BY <2>6, <2>7 DEF InOrder, Q
<1>7. LostToFull(s)'
  <2>1. SUFFICES ASSUME NEW d \in Broadcasts, s \in aimed[d] \ todo'[d],
                        d \notin SSE!ToSet(SSE!Reached(s)')
                 PROVE  Cardinality(NotBefore(d, s)') >= QueueSize
    BY DEF LostToFull
  <2>2. d # b /\ d \notin SSE!ToSet(R) /\ s \in aimed[d] \ todo[d]
    BY <2>1, <1>3 DEF SSEInv, SSETypes
  <2>3. Cardinality(NotBefore(d, s)) >= QueueSize
    BY <2>2, <1>1 DEF SSEInv, LostToFull, R
  <2>4. NotBefore(d, s) \subseteq NotBefore(d, s)'
    BY <1>3 DEF NotBefore, R
  <2>5. IsFiniteSet(SSE!ToSet(SSE!Reached(s)'))
    BY <1>2, <1>6, SequenceCounts DEF InOrder
  <2>6. NotBefore(d, s)' \subseteq SSE!ToSet(SSE!Reached(s)')
    BY DEF NotBefore
  <2>7. IsFiniteSet(NotBefore(d, s)')
    BY <2>5, <2>6, FS_Subset
  <2> QED
    BY <2>3, <2>4, <2>7, AtLeast, SSENumber DEF SSE!SSEAssumption
<1>8. ASSUME NEW r \in Sessions \ {s} PROVE InOrder(r)' /\ LostToFull(r)'
  <2>1. \A d \in Broadcasts : NotBefore(d, r)' = NotBefore(d, r) /\ (r \in todo'[d] <=> r \in todo[d])
    BY DEF NotBefore, SSEInv, SSETypes
  <2> QED
    BY <2>1 DEF SSEInv, InOrder, LostToFull
<1> QED
  BY <1>5, <1>6, <1>7, <1>8 DEF SSEInv

\* The queue is full of messages of broadcasts this one did not come before.
LEMMA DroppedKeeps ==
  ASSUME SSEInv, NEW b \in Broadcasts, NEW s \in todo[b], call[b] = "send",
         Len(messages[s]) >= QueueSize,
         UNCHANGED <<sessions, messages, sent, call, aimed, earlier>>,
         todo' = [todo EXCEPT ![b] = @ \ {s}]
  PROVE  SSEInv'
<1>1. s \in Sessions /\ messages[s] \in Seq(Broadcasts) /\ sent[s] \in Seq(Broadcasts)
  BY DEF SSEInv, SSETypes
<1>2. \A r \in Sessions : SSE!Reached(r)' = SSE!Reached(r)
  BY DEF SSE!Reached
<1>3. SSETypes' /\ Delivered'
  BY <1>2 DEF SSEInv, SSETypes, Delivered
<1>4. SSE!IsInjective(SSE!Reached(s)) /\ SSE!Reached(s) \in Seq(Broadcasts)
  BY <1>1, ReachedType DEF SSEInv, InOrder
<1>5. /\ SSE!ToSet(messages[s]) \subseteq SSE!ToSet(SSE!Reached(s))
      /\ SSE!ToSet(messages[s]) \subseteq Broadcasts
      /\ SSE!IsInjective(messages[s])
  BY <1>1, <1>4, SuffixOf DEF SSE!Reached
<1>6. \A d \in Broadcasts : b \notin earlier[d]
  BY DEF SSEInv, Delivered
<1>7. SSE!ToSet(messages[s]) \subseteq NotBefore(b, s)
  BY <1>5, <1>6 DEF NotBefore
<1>8. Cardinality(NotBefore(b, s)) >= QueueSize
  <2>1. IsFiniteSet(SSE!ToSet(SSE!Reached(s)))
    BY <1>4, SequenceCounts
  <2>2. NotBefore(b, s) \subseteq SSE!ToSet(SSE!Reached(s))
    BY DEF NotBefore
  <2>3. IsFiniteSet(NotBefore(b, s))
    BY <2>1, <2>2, FS_Subset
  <2>4. Cardinality(SSE!ToSet(messages[s])) = Len(messages[s])
    BY <1>1, <1>5, SequenceCounts
  <2> QED
    BY <1>7, <2>3, <2>4, AtLeast, SSENumber DEF SSE!SSEAssumption
<1>9. ASSUME NEW r \in Sessions PROVE InOrder(r)' /\ LostToFull(r)'
  <2>1. \A d \in Broadcasts : /\ NotBefore(d, r)' = NotBefore(d, r)
                              /\ r \in todo'[d] \/ r \notin todo[d] \/ (d = b /\ r = s)
    BY <1>2 DEF NotBefore, SSEInv, SSETypes
  <2>2. LostToFull(r)'
    BY <1>2, <1>8, <2>1 DEF SSEInv, LostToFull
  <2> QED
    BY <1>2, <2>2 DEF SSEInv, InOrder
<1> QED
  BY <1>3, <1>9 DEF SSEInv

LEMMA BroadcastSendsKeeps ==
  ASSUME SSEInv, NEW b \in Broadcasts, SSE!BroadcastSends(b)
  PROVE  SSEInv'
<1>1. PICK s \in todo[b] :
        /\ messages' = [messages EXCEPT ![s] = SSE!Offer(messages[s], b)]
        /\ todo' = [todo EXCEPT ![b] = @ \ {s}]
  BY DEF SSE!BroadcastSends
<1>2. /\ s \in Sessions /\ messages[s] \in Seq(Broadcasts) /\ sent[s] \in Seq(Broadcasts)
      /\ call[b] = "send" /\ UNCHANGED <<sessions, sent, call, aimed, earlier>>
  BY DEF SSE!BroadcastSends, SSEInv, SSETypes
<1>3. CASE Len(messages[s]) < QueueSize
  <2>1. messages' = [messages EXCEPT ![s] = Append(messages[s], b)]
    BY <1>1, <1>3 DEF SSE!Offer
  <2>2. SSETypes'
    <3>1. Append(messages[s], b) \in Seq(Broadcasts)
      BY <1>2
    <3> QED
      BY <1>1, <1>2, <2>1, <3>1 DEF SSEInv, SSETypes
  <2>3. SSE!Reached(s)' = Append(SSE!Reached(s), b)
    BY <1>2, <2>1, AppendLast DEF SSEInv, SSETypes, SSE!Reached
  <2>4. \A r \in Sessions \ {s} : SSE!Reached(r)' = SSE!Reached(r)
    BY <1>2, <2>1 DEF SSEInv, SSETypes, SSE!Reached
  <2> QED
    BY <1>1, <1>2, <2>2, <2>3, <2>4, QueuedKeeps
<1>4. CASE ~(Len(messages[s]) < QueueSize)
  <2>1. messages' = messages
    BY <1>1, <1>4 DEF SSE!Offer, SSEInv, SSETypes
  <2>2. Len(messages[s]) >= QueueSize
    BY <1>2, <1>4, SSENumber DEF SSE!SSEAssumption
  <2> QED
    BY <1>1, <1>2, <2>1, <2>2, DroppedKeeps
<1> QED
  BY <1>3, <1>4

LEMMA BroadcastEndsKeeps ==
  ASSUME SSEInv, NEW b \in Broadcasts, SSE!BroadcastEnds(b)
  PROVE  SSEInv'
<1>1. /\ call[b] = "send" /\ todo[b] = {}
      /\ call' = [call EXCEPT ![b] = "done"]
      /\ UNCHANGED <<sessions, messages, sent, todo, aimed, earlier>>
  BY DEF SSE!BroadcastEnds
<1>2. \A s \in Sessions : SSE!Reached(s)' = SSE!Reached(s)
  BY <1>1 DEF SSE!Reached
<1>3. SSETypes' /\ Delivered'
  BY <1>1, <1>2 DEF SSEInv, SSETypes, Delivered
<1> QED
  BY <1>1, <1>2, <1>3 DEF SSEInv, InOrder, LostToFull, NotBefore

LEMMA SSEKeeps == SSEInv /\ [SSE!Next]_sseVars => SSEInv'
<1> SUFFICES ASSUME SSEInv, [SSE!Next]_sseVars PROVE SSEInv'
  OBVIOUS
<1>1. ASSUME UNCHANGED <<messages, sent, call, todo, aimed, earlier>>, sessions' \subseteq Sessions
      PROVE  SSEInv'
  <2>1. \A s \in Sessions : SSE!Reached(s)' = SSE!Reached(s)
    BY <1>1 DEF SSE!Reached
  <2>2. SSETypes'
    BY <1>1 DEF SSEInv, SSETypes
  <2> QED
    BY <1>1, <2>1, <2>2, HandlerKeeps
<1>2. ASSUME NEW s \in Sessions, SSE!Connect(s) \/ SSE!Greet(s) \/ SSE!Disconnect(s) PROVE SSEInv'
  BY <1>1, <1>2 DEF SSE!Connect, SSE!Greet, SSE!Disconnect, SSEInv, SSETypes
<1>3. CASE UNCHANGED sseVars
  BY <1>1, <1>3 DEF sseVars, SSEInv, SSETypes
<1>4. CASE SSE!Quiet
  BY <1>1, <1>4 DEF SSE!Quiet, SSE!sseVars, SSEInv, SSETypes
<1> QED
  BY <1>2, <1>3, <1>4, WriteMessageKeeps, BroadcastBeginsKeeps, BroadcastSendsKeeps, BroadcastEndsKeeps
     DEF SSE!Next
-----------------------------------------------------------------------------
(* The subscriptions *)

\* What an upstream has sent, when n events of it were read.
UpTo(n) == [k \in 1 .. n |-> k]

\* The events between the upstream and the client, those that were written first.
OnTheWay(r) == written[r] \o events[r] \o Sub!InHand(r)

LEMMA JoinEnds ==
  ASSUME NEW w \in Seq(Nat), NEW n \in Nat
  PROVE  /\ w \o <<>> = w /\ w \o <<n>> = Append(w, n)
         /\ \A q \in Seq(Nat) : w \o Append(q, n) = Append(w \o q, n)
<1>1. \A q \in Seq(Nat) : w \o Append(q, n) = Append(w \o q, n)
  BY AppendLast
<1> QED
  BY <1>1

LEMMA UpToNext ==
  ASSUME NEW n \in Nat
  PROVE  /\ UpTo(n) \in Seq(Nat) /\ UpTo(n + 1) = Append(UpTo(n), n + 1)
         /\ UpTo(0) = <<>>
<1>1. UpTo(n) \in Seq(Nat) /\ UpTo(n + 1) \in Seq(Nat) /\ UpTo(0) \in Seq(Nat)
  BY DEF UpTo
<1>2. Len(UpTo(n)) = n /\ Len(UpTo(n + 1)) = n + 1 /\ Len(UpTo(0)) = 0
  BY <1>1 DEF UpTo
<1>3. UpTo(0) = <<>>
  BY <1>1, <1>2
<1>4. Append(UpTo(n), n + 1) \in Seq(Nat) /\ Len(Append(UpTo(n), n + 1)) = n + 1
  BY <1>1, <1>2
<1>5. \A k \in 1 .. n + 1 : UpTo(n + 1)[k] = Append(UpTo(n), n + 1)[k]
  BY <1>1, <1>2 DEF UpTo
<1>6. UpTo(n + 1) = Append(UpTo(n), n + 1)
  BY <1>1, <1>2, <1>4, <1>5, SeqEqual
<1> QED
  BY <1>1, <1>3, <1>6

SubTypes ==
  /\ handler \in [Requests -> {"new", "subscribed", "stream", "leave", "done"}]
  /\ activeSubs \in [Ids -> Requests \cup {None}]
  /\ subID \in [Requests -> Ids \cup {None}]
  /\ reader \in [Requests -> {"off", "read", "send", "ended"}]
  /\ reads \in [Requests -> Nat]
  /\ events \in [Requests -> Seq(Nat)]
  /\ written \in [Requests -> Seq(Nat)]

\* Nothing is lost, doubled or out of order before the context is done.
Faithful == \A r \in Requests : r \notin cancelled => OnTheWay(r) = UpTo(reads[r])

\* A context is done early only by the client or by Close; the goroutine ends with the
\* body or the context; a stream that was told "complete" stands still.
Phases ==
  \A r \in Requests :
    /\ r \in cancelled \ interrupted => handler[r] = "done"
    /\ reader[r] = "ended" => r \in ended \cup cancelled
    /\ handler[r] = "new" => reader[r] = "off"
    /\ r \in completed =>
         /\ handler[r] \in {"leave", "done"} /\ reader[r] = "ended"
         /\ r \notin interrupted => r \in ended /\ written[r] = UpTo(reads[r])

\* An entry of activeSubs is that of the one stream with its id.
OwnIds ==
  /\ \A r \in Requests :
       /\ handler[r] \in {"new", "subscribed"} => subID[r] = None
       /\ handler[r] \in {"stream", "leave"} => subID[r] # None
  /\ shared = {} =>
       /\ \A q, r \in Requests : subID[q] # None /\ subID[q] = subID[r] => q = r
       /\ \A i \in Ids : activeSubs[i] # None => subID[activeSubs[i]] = i

SubInv == SubTypes /\ Faithful /\ Phases /\ OwnIds /\ Sub!StreamsTracked

LEMMA SubImplies == SubInv => Sub!EventsComplete /\ Sub!StreamsTracked
  BY DEF SubInv, Faithful, Phases, OnTheWay, UpTo, Sub!EventsComplete

LEMMA SubStarts == Sub!Init => SubInv
<1> SUFFICES ASSUME Sub!Init PROVE SubInv
  OBVIOUS
<1>1. SubTypes
  BY DEF Sub!Init, SubTypes
<1>2. Faithful
  BY UpToNext DEF Sub!Init, Faithful, OnTheWay, Sub!InHand
<1>3. Phases /\ OwnIds /\ Sub!StreamsTracked
  BY DEF Sub!Init, Phases, OwnIds, Sub!StreamsTracked
<1> QED
  BY <1>1, <1>2, <1>3 DEF SubInv

\* Steps that move no entry of activeSubs and start or end no stream.
LEMMA TrackedStays ==
  ASSUME SubInv, cancelled \subseteq cancelled',
         UNCHANGED <<activeSubs, subID, shared>>,
         \A r \in Requests :
           \/ handler'[r] = handler[r]
           \/ handler[r] = "new" /\ handler'[r] \in {"subscribed", "done"}
           \/ handler[r] = "stream" /\ handler'[r] = "leave"
  PROVE  OwnIds' /\ Sub!StreamsTracked'
<1>1. OwnIds'
  BY DEF SubInv, SubTypes, OwnIds
<1>2. Sub!StreamsTracked'
  <2>1. SUFFICES ASSUME shared = {} PROVE Sub!StreamsTracked'
    BY DEF Sub!StreamsTracked
  <2>2. ASSUME NEW r \in Requests, handler'[r] = "stream", r \notin cancelled'
        PROVE  activeSubs'[subID'[r]] = r
    BY <2>1, <2>2 DEF SubInv, Sub!StreamsTracked
  <2>3. ASSUME NEW i \in Ids, activeSubs'[i] # None
        PROVE  handler'[activeSubs'[i]] \in {"stream", "leave"}
    <3>1. activeSubs[i] \in Requests /\ handler[activeSubs[i]] \in {"stream", "leave"}
      BY <2>1, <2>3 DEF SubInv, SubTypes, Sub!StreamsTracked
    <3> QED
      BY <3>1
  <2> QED
    BY <2>2, <2>3 DEF Sub!StreamsTracked
<1> QED
  BY <1>1, <1>2

LEMMA ReadEventKeeps == ASSUME SubInv, NEW r \in Requests, Sub!ReadEvent(r) PROVE SubInv'
<1>1. /\ reader[r] = "read" /\ r \notin ended
      /\ reads' = [reads EXCEPT ![r] = @ + 1]
      /\ reader' = [reader EXCEPT ![r] = "send"]
      /\ UNCHANGED <<handler, activeSubs, subID, cancelled, ended, events, written,
                     completed, interrupted, shared>>
  BY DEF Sub!ReadEvent
<1>2. SubTypes'
  BY <1>1 DEF SubInv, SubTypes
<1>3. ASSUME NEW q \in Requests, q \notin cancelled PROVE OnTheWay(q)' = UpTo(reads'[q])
  <2>1. CASE q # r
    BY <2>1, <1>1, <1>3 DEF SubInv, SubTypes, Faithful, OnTheWay, Sub!InHand
  <2>2. CASE q = r
    <3> DEFINE w == written[r] \o events[r]
    <3>1. w \in Seq(Nat) /\ reads[r] \in Nat
      BY DEF SubInv, SubTypes
    <3>2. OnTheWay(r) = w \o <<>> /\ OnTheWay(r)' = w \o <<reads[r] + 1>>
      BY <1>1 DEF SubInv, SubTypes, OnTheWay, Sub!InHand
    <3>3. w = UpTo(reads[r])
      <4>1. OnTheWay(r) = UpTo(reads[r])
        BY <1>3, <2>2 DEF SubInv, Faithful
      <4>2. w \o <<>> = w
        BY <3>1, JoinEnds, Zenon
      <4> QED
        BY <3>2, <4>1, <4>2, Zenon
    <3> HIDE DEF w
    <3>4. w \o <<reads[r] + 1>> = Append(w, reads[r] + 1)
      BY <3>1
    <3>5. reads'[r] = reads[r] + 1
      BY <1>1 DEF SubInv, SubTypes
    <3> QED
      BY <2>2, <3>1, <3>2, <3>3, <3>4, <3>5, UpToNext
  <2> QED
    BY <2>1, <2>2
<1>4. Faithful'
  BY <1>1, <1>3 DEF Faithful
<1>5. Phases'
  BY <1>1 DEF SubInv, SubTypes, Phases
<1> QED
  BY <1>1, <1>2, <1>4, <1>5, TrackedStays DEF SubInv

LEMMA SendEventKeeps == ASSUME SubInv, NEW r \in Requests, Sub!SendEvent(r) PROVE SubInv'
<1>1. /\ reader[r] = "send"
      /\ events' = [events EXCEPT ![r] = Append(events[r], reads[r])]
      /\ reader' = [reader EXCEPT ![r] = "read"]
      /\ UNCHANGED <<handler, activeSubs, subID, cancelled, ended, reads, written,
                     completed, interrupted, shared>>
  BY DEF Sub!SendEvent
<1>2. written[r] \in Seq(Nat) /\ events[r] \in Seq(Nat) /\ reads[r] \in Nat
      /\ Append(events[r], reads[r]) \in Seq(Nat)
  BY DEF SubInv, SubTypes
<1>3. SubTypes'
  BY <1>1, <1>2 DEF SubInv, SubTypes
<1>4. ASSUME NEW q \in Requests PROVE OnTheWay(q)' = OnTheWay(q)
  <2>1. CASE q # r
    BY <2>1, <1>1 DEF SubInv, SubTypes, OnTheWay, Sub!InHand
  <2>2. CASE q = r
    <3>1. OnTheWay(r) = written[r] \o events[r] \o <<reads[r]>>
      BY <1>1 DEF OnTheWay, Sub!InHand
    <3>2. OnTheWay(r)' = written[r] \o Append(events[r], reads[r]) \o <<>>
      BY <1>1, <1>3 DEF SubInv, SubTypes, OnTheWay, Sub!InHand
    <3>3. written[r] \o Append(events[r], reads[r]) = Append(written[r] \o events[r], reads[r])
      BY <1>2, JoinEnds, Zenon
    <3>4. written[r] \o events[r] \in Seq(Nat) /\ written[r] \o Append(events[r], reads[r]) \in Seq(Nat)
      BY <1>2
    <3>5. /\ written[r] \o Append(events[r], reads[r]) \o <<>> = written[r] \o Append(events[r], reads[r])
          /\ written[r] \o events[r] \o <<reads[r]>> = Append(written[r] \o events[r], reads[r])
      BY <1>2, <3>4, JoinEnds, Zenon
    <3> QED
      BY <2>2, <3>1, <3>2, <3>3, <3>5, Zenon
  <2> QED
    BY <2>1, <2>2
<1>5. Faithful'
  BY <1>1, <1>4 DEF SubInv, Faithful
<1>6. Phases'
  BY <1>1 DEF SubInv, SubTypes, Phases
<1> QED
  BY <1>1, <1>3, <1>5, <1>6, TrackedStays DEF SubInv

LEMMA WriteEventKeeps == ASSUME SubInv, NEW r \in Requests, Sub!WriteEvent(r) PROVE SubInv'
<1>1. /\ handler[r] = "stream" /\ events[r] # <<>>
      /\ written' = [written EXCEPT ![r] = Append(written[r], Head(events[r]))]
      /\ events' = [events EXCEPT ![r] = Tail(events[r])]
      /\ UNCHANGED <<handler, activeSubs, subID, cancelled, ended, reader, reads,
                     completed, interrupted, shared>>
  BY DEF Sub!WriteEvent
<1>2. written[r] \in Seq(Nat) /\ events[r] \in Seq(Nat)
      /\ Append(written[r], Head(events[r])) \in Seq(Nat) /\ Tail(events[r]) \in Seq(Nat)
  BY <1>1 DEF SubInv, SubTypes
<1>3. SubTypes'
  BY <1>1, <1>2 DEF SubInv, SubTypes
<1>4. ASSUME NEW q \in Requests PROVE OnTheWay(q)' = OnTheWay(q)
  <2>1. CASE q # r
    BY <2>1, <1>1 DEF SubInv, SubTypes, OnTheWay, Sub!InHand
  <2>2. CASE q = r
    BY <2>2, <1>1, <1>2, HeadMoves DEF SubInv, SubTypes, OnTheWay, Sub!InHand
  <2> QED
    BY <2>1, <2>2
<1>5. Faithful'
  BY <1>1, <1>4 DEF SubInv, Faithful
<1>6. Phases'
  BY <1>1 DEF SubInv, SubTypes, Phases
<1> QED
  BY <1>1, <1>3, <1>5, <1>6, TrackedStays DEF SubInv

\* The goroutine ends only when nothing is in hand, unless the context is done.
LEMMA ReaderEndsKeeps == ASSUME SubInv, NEW r \in Requests, Sub!ReaderEnds(r) PROVE SubInv'
<1>1. /\ Sub!SendGivesUp(r) \/ Sub!ScanFails(r)
      /\ reader' = [reader EXCEPT ![r] = "ended"]
      /\ UNCHANGED <<handler, activeSubs, subID, cancelled, ended, reads, events, written,
                     completed, interrupted, shared>>
  BY DEF Sub!ReaderEnds
<1>2. SubTypes'
  BY <1>1 DEF SubInv, SubTypes
<1>3. ASSUME NEW q \in Requests, q \notin cancelled PROVE OnTheWay(q)' = OnTheWay(q)
  BY <1>1, <1>3 DEF SubInv, SubTypes, OnTheWay, Sub!InHand, Sub!SendGivesUp, Sub!ScanFails
<1>4. Faithful'
  BY <1>1, <1>3 DEF SubInv, Faithful
<1>5. Phases'
  BY <1>1 DEF SubInv, SubTypes, Phases, Sub!SendGivesUp, Sub!ScanFails
<1> QED
  BY <1>1, <1>2, <1>4, <1>5, TrackedStays DEF SubInv

\* "complete" is told of a closed and empty channel: all events were written.
LEMMA CompleteKeeps == ASSUME SubInv, NEW r \in Requests, Sub!Complete(r) PROVE SubInv'
<1>1. /\ handler[r] = "stream" /\ events[r] = <<>> /\ reader[r] = "ended"
      /\ completed' = completed \cup {r}
      /\ handler' = [handler EXCEPT ![r] = "leave"]
      /\ UNCHANGED <<activeSubs, subID, cancelled, ended, reader, reads, events, written,
                     interrupted, shared>>
  BY DEF Sub!Complete
<1>2. SubTypes' /\ Faithful'
  BY <1>1 DEF SubInv, SubTypes, Faithful, OnTheWay, Sub!InHand
<1>3. r \notin interrupted => r \in ended /\ written[r] = UpTo(reads[r])
  <2>1. SUFFICES ASSUME r \notin interrupted PROVE r \in ended /\ written[r] = UpTo(reads[r])
    OBVIOUS
  <2>2. r \notin cancelled /\ r \in ended
    BY <1>1, <2>1 DEF SubInv, Phases
  <2>3. OnTheWay(r) = written[r]
    <3>1. written[r] \in Seq(Nat)
      BY DEF SubInv, SubTypes
    <3> QED
      BY <1>1, <3>1 DEF OnTheWay, Sub!InHand
  <2> QED
    BY <2>2, <2>3 DEF SubInv, Faithful
<1>4. Phases'
  BY <1>1, <1>3 DEF SubInv, SubTypes, Phases
<1> QED
  BY <1>1, <1>2, <1>4, TrackedStays DEF SubInv

\* Steps that leave the events alone and no stream untracked.
LEMMA QuietKeeps ==
  ASSUME SubInv, NEW r \in Requests,
         Sub!UpstreamEnds(r) \/ Sub!SubscribeFails(r) \/ Sub!Subscribe(r)
           \/ Sub!SeeCancelled(r) \/ Sub!ClientLeaves(r)
  PROVE  SubInv'
<1>1. /\ UNCHANGED <<activeSubs, subID, shared, reads, events, written, completed>>
      /\ cancelled \subseteq cancelled' /\ ended \subseteq ended'
      /\ SubTypes'
  BY DEF SubInv, SubTypes, Sub!UpstreamEnds, Sub!SubscribeFails, Sub!Subscribe, Sub!SeeCancelled,
         Sub!ClientLeaves
<1>2. Faithful'
  BY <1>1 DEF SubInv, SubTypes, Faithful, Phases, OnTheWay, Sub!InHand, Sub!UpstreamEnds,
              Sub!SubscribeFails, Sub!Subscribe, Sub!SeeCancelled, Sub!ClientLeaves
<1>3. Phases'
  BY <1>1 DEF SubInv, SubTypes, Phases, Sub!UpstreamEnds, Sub!SubscribeFails, Sub!Subscribe,
              Sub!SeeCancelled, Sub!ClientLeaves
<1>4. \A q \in Requests :
           \/ handler'[q] = handler[q]
           \/ handler[q] = "new" /\ handler'[q] \in {"subscribed", "done"}
           \/ handler[q] = "stream" /\ handler'[q] = "leave"
  BY DEF SubInv, SubTypes, Sub!UpstreamEnds, Sub!SubscribeFails, Sub!Subscribe, Sub!SeeCancelled,
         Sub!ClientLeaves
<1> QED
  BY <1>1, <1>2, <1>3, <1>4, TrackedStays DEF SubInv

\* Of an id of its own the entry is free.
LEMMA TrackKeeps == ASSUME SubInv, NEW r \in Requests, Sub!Track(r) PROVE SubInv'
<1>1. PICK i \in Ids :
        /\ subID' = [subID EXCEPT ![r] = i]
        /\ activeSubs' = [activeSubs EXCEPT ![i] = r]
        /\ shared' = LET same == {q \in Requests : subID[q] = i}
                     IN IF same = {} THEN shared ELSE shared \cup same \cup {r}
  BY DEF Sub!Track
<1>2. /\ handler[r] = "subscribed"
      /\ handler' = [handler EXCEPT ![r] = "stream"]
      /\ UNCHANGED <<cancelled, ended, reader, reads, events, written, completed, interrupted>>
  BY DEF Sub!Track
<1>3. SubTypes' /\ Faithful' /\ Phases'
  BY <1>1, <1>2 DEF SubInv, SubTypes, Faithful, Phases, OnTheWay, Sub!InHand
<1>4. r # None /\ i # None
  BY SubscriptionNone DEF Sub!SubscriptionAssumption
<1>5. shared' = {} => shared = {} /\ \A q \in Requests : subID[q] # i
  BY <1>1
<1>6. OwnIds'
  <2>1. \A q \in Requests :
          /\ handler'[q] \in {"new", "subscribed"} => subID'[q] = None
          /\ handler'[q] \in {"stream", "leave"} => subID'[q] # None
    BY <1>1, <1>2, <1>4 DEF SubInv, SubTypes, OwnIds
  <2>2. ASSUME shared' = {}, NEW p \in Requests, NEW q \in Requests, subID'[p] # None, subID'[p] = subID'[q]
        PROVE  p = q
    BY <2>2, <1>1, <1>4, <1>5 DEF SubInv, SubTypes, OwnIds
  <2>3. ASSUME shared' = {}, NEW j \in Ids, activeSubs'[j] # None PROVE subID'[activeSubs'[j]] = j
    <3>1. CASE j = i
      BY <3>1, <1>1 DEF SubInv, SubTypes
    <3>2. CASE j # i
      <4>1. activeSubs'[j] = activeSubs[j] /\ activeSubs[j] \in Requests /\ subID[activeSubs[j]] = j
        BY <3>2, <2>3, <1>1, <1>5 DEF SubInv, SubTypes, OwnIds
      <4>2. activeSubs[j] # r
        BY <4>1, <1>2, SubscriptionNone DEF SubInv, OwnIds, Sub!SubscriptionAssumption
      <4> QED
        BY <4>1, <4>2, <1>1 DEF SubInv, SubTypes
    <3> QED
      BY <3>1, <3>2
  <2> QED
    BY <2>1, <2>2, <2>3 DEF OwnIds
<1>7. Sub!StreamsTracked'
  <2>1. ASSUME shared' = {}, NEW q \in Requests, handler'[q] = "stream", q \notin cancelled'
        PROVE  activeSubs'[subID'[q]] = q
    <3>1. CASE q = r
      BY <3>1, <1>1 DEF SubInv, SubTypes
    <3>2. CASE q # r
      <4>1. handler[q] = "stream" /\ activeSubs[subID[q]] = q /\ subID[q] # i /\ subID'[q] = subID[q]
        BY <3>2, <2>1, <1>1, <1>2, <1>5 DEF SubInv, SubTypes, Sub!StreamsTracked
      <4>2. subID[q] \in Ids
        BY <4>1 DEF SubInv, SubTypes, OwnIds
      <4> QED
        BY <4>1, <4>2, <1>1 DEF SubInv, SubTypes
    <3> QED
      BY <3>1, <3>2
  <2>2. ASSUME shared' = {}, NEW j \in Ids, activeSubs'[j] # None
        PROVE  handler'[activeSubs'[j]] \in {"stream", "leave"}
    <3>1. CASE j = i
      BY <3>1, <1>1, <1>2 DEF SubInv, SubTypes
    <3>2. CASE j # i
      <4>1. activeSubs'[j] = activeSubs[j] /\ activeSubs[j] \in Requests
            /\ handler[activeSubs[j]] \in {"stream", "leave"}
        BY <3>2, <2>2, <1>1, <1>5 DEF SubInv, SubTypes, Sub!StreamsTracked
      <4> QED
        BY <4>1, <1>2 DEF SubInv, SubTypes
    <3> QED
      BY <3>1, <3>2
  <2> QED
    BY <2>1, <2>2 DEF Sub!StreamsTracked
<1> QED
  BY <1>3, <1>6, <1>7 DEF SubInv

\* The entry that is deleted is the stream's own, as long as ids differ.
LEMMA LeaveKeeps == ASSUME SubInv, NEW r \in Requests, Sub!Leave(r) PROVE SubInv'
<1>1. /\ handler[r] = "leave" /\ subID[r] \in Ids
      /\ handler' = [handler EXCEPT ![r] = "done"]
      /\ activeSubs' = [activeSubs EXCEPT ![subID[r]] = None]
      /\ cancelled' = cancelled \cup {r}
      /\ UNCHANGED <<subID, ended, reader, reads, events, written, completed, interrupted, shared>>
  BY DEF Sub!Leave, Sub!Untrack, SubInv, SubTypes, OwnIds
<1>2. SubTypes' /\ Faithful' /\ Phases'
  BY <1>1 DEF SubInv, SubTypes, Faithful, Phases, OnTheWay, Sub!InHand
<1>3. OwnIds'
  BY <1>1 DEF SubInv, SubTypes, OwnIds
<1>4. Sub!StreamsTracked'
  <2>1. ASSUME shared = {}, NEW q \in Requests, handler'[q] = "stream", q \notin cancelled'
        PROVE  activeSubs'[subID'[q]] = q
    <3>1. handler[q] = "stream" /\ q # r /\ activeSubs[subID[q]] = q /\ subID[q] \in Ids
      BY <2>1, <1>1 DEF SubInv, SubTypes, OwnIds, Sub!StreamsTracked
    <3>2. subID[q] # subID[r]
      BY <2>1, <3>1, <1>1 DEF SubInv, OwnIds
    <3> QED
      BY <3>1, <3>2, <1>1 DEF SubInv, SubTypes
  <2>2. ASSUME shared = {}, NEW j \in Ids, activeSubs'[j] # None
        PROVE  handler'[activeSubs'[j]] \in {"stream", "leave"}
    <3>1. j # subID[r] /\ activeSubs'[j] = activeSubs[j] /\ activeSubs[j] \in Requests
      BY <2>2, <1>1 DEF SubInv, SubTypes
    <3>2. handler[activeSubs[j]] \in {"stream", "leave"} /\ subID[activeSubs[j]] = j
      BY <2>2, <3>1 DEF SubInv, OwnIds, Sub!StreamsTracked
    <3> QED
      BY <3>1, <3>2, <1>1 DEF SubInv, SubTypes
  <2> QED
    BY <1>1, <2>1, <2>2 DEF Sub!StreamsTracked
<1> QED
  BY <1>2, <1>3, <1>4 DEF SubInv

\* Close reaches every stream, as long as ids differ.
LEMMA CloseKeeps == ASSUME SubInv, Sub!Close PROVE SubInv'
<1> DEFINE all == {activeSubs[i] : i \in Ids} \ {None}
<1>1. /\ cancelled' = cancelled \cup all
      /\ interrupted' = interrupted \cup all
      /\ activeSubs' = [i \in Ids |-> None]
      /\ UNCHANGED <<handler, subID, ended, reader, reads, events, written, completed, shared>>
  BY DEF Sub!Close
<1>2. shared = {} => \A q \in Requests : handler[q] = "stream" /\ q \notin cancelled => q \in all
  <2>1. SUFFICES ASSUME shared = {}, NEW q \in Requests, handler[q] = "stream", q \notin cancelled
                 PROVE  q \in all
    OBVIOUS
  <2>2. activeSubs[subID[q]] = q /\ subID[q] \in Ids
    BY <2>1 DEF SubInv, SubTypes, OwnIds, Sub!StreamsTracked
  <2>3. q # None
    BY SubscriptionNone DEF Sub!SubscriptionAssumption
  <2> QED
    BY <2>2, <2>3
<1> HIDE DEF all
<1>3. SubTypes'
  BY <1>1 DEF SubInv, SubTypes
<1>4. Faithful'
  BY <1>1 DEF SubInv, Faithful, OnTheWay, Sub!InHand
<1>5. Phases'
  BY <1>1 DEF SubInv, Phases
<1>6. OwnIds' /\ Sub!StreamsTracked'
  BY <1>1, <1>2 DEF SubInv, OwnIds, Sub!StreamsTracked
<1> QED
  BY <1>3, <1>4, <1>5, <1>6 DEF SubInv

LEMMA SubKeeps == SubInv /\ [Sub!Next]_subVars => SubInv'
<1> SUFFICES ASSUME SubInv, [Sub!Next]_subVars PROVE SubInv'
  OBVIOUS
<1>1. CASE UNCHANGED subVars
  BY <1>1 DEF SubInv, SubTypes, Faithful, Phases, OwnIds, OnTheWay, Sub!InHand, Sub!StreamsTracked, subVars
<1> QED
  BY <1>1, ReadEventKeeps, SendEventKeeps, WriteEventKeeps, ReaderEndsKeeps, CompleteKeeps, QuietKeeps,
     TrackKeeps, LeaveKeeps, CloseKeeps DEF Sub!Next

\* What is broadcast and what is subscribed to arrives in order and once; a message is lost
\* only to a full queue, an event to nothing before "complete" but the end of its context;
\* Close reaches every stream as long as ids differ: for any number of sessions, broadcasts
\* and requests, and queues of any size.
THEOREM StreamsFaithful == Spec => []StreamsAreFaithful
<1>1. Init => SSEInv /\ SubInv
  BY SSEStarts, SSENumber, SubStarts DEF Init
<1>2. [Next]_vars => [SSE!Next]_sseVars /\ [Sub!Next]_subVars
  BY DEF Next, vars, sseVars, subVars
<1>3. SSEInv /\ SubInv => StreamsAreFaithful
  BY SSEImplies, SubImplies DEF StreamsAreFaithful
<1> QED
  BY <1>1, <1>2, <1>3, SSEKeeps, SubKeeps, PTL DEF Spec
=============================================================================
