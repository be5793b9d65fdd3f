--------------------------- MODULE CacheMiddleware ---------------------------
(***************************************************************************)
(* gateway/cache's middleware in front of one shard of the cache: look up, *)
(* serve a fresh entry, serve a stale one and revalidate it in a goroutine *)
(* of its own, or run the handler and store its response; and PURGE.  One  *)
(* element of Requests is a connection that sends one request at a time.   *)
(***************************************************************************)
EXTENDS Integers, Sequences, FiniteSets, SequencesExt

CONSTANTS Requests, Keys, Elems, None,
          MaxSize, MaxCount,    \* the limits of the shard
          TTL, StaleDuration,   \* in ticks
          MaxTime,              \* bound: ticks of the clock
          Statuses              \* the kinds of responses the handler gives

ASSUME TimesAssumption == TTL \in Nat /\ StaleDuration \in Nat /\ MaxTime \in Nat

\* What the two filters on responses tell apart: 200, 301 or 302 ("ok"), the
\* same with Cache-Control: no-store, the same with a body that is too large,
\* the other 2xx and redirects, 404 and 410 ("other"), the rest.
Status == {"ok", "nostore", "large", "other", "error"}
ASSUME StatusAssumption == Statuses \subseteq Status

\* An Entry: what its response was made for, and ExpiresAt.
Entry == [key : Keys, private : BOOLEAN, status : Status, expires : 0 .. MaxTime + TTL]

EntrySize == [e \in Entry |->
  CASE e.status = "large" -> MaxSize [] e.status \in {"other", "nostore"} -> 2 [] OTHER -> 1]

VARIABLES entries, lru, elem, size, held, asked, got, seen, since, last,  \* Shard
          now,              \* the clock
          pc,               \* pc[r]: where the handler of r's request stands
          req,              \* req[r]: its key, and does it carry credentials?
          reval,            \* reval[r]: the key that r's goroutine revalidates, or None
          ended,            \* is the context of r's revalidation done?
          filled            \* history: the keys that a fill's handler has answered with 200, 301 or 302

shardVars == <<entries, lru, elem, size, held, asked, got, seen, since, last>>
vars == <<shardVars, now, pc, req, reval, ended, filled>>

Shard == INSTANCE Shard WITH
  Values <- Entry, SizeOf <- EntrySize, Callers <- Requests

ASSUME CacheAssumption == Shard!ShardAssumption

Request == [key : Keys, private : BOOLEAN]

TypeOK ==
  /\ Shard!TypeOK
  /\ now \in 0 .. MaxTime
  /\ pc \in [Requests -> {"idle", "read", "check", "fill", "bypass"}]
  /\ req \in [Requests -> Request \cup {None}]
  /\ reval \in [Requests -> Keys \cup {None}]
  /\ ended \in [Requests -> BOOLEAN]
  /\ filled \subseteq Keys

Init ==
  /\ Shard!Init
  /\ now = 0
  /\ pc = [r \in Requests |-> "idle"]
  /\ req = [r \in Requests |-> None]
  /\ reval = [r \in Requests |-> None]
  /\ ended = [r \in Requests |-> FALSE]
  /\ filled = {}

-----------------------------------------------------------------------------
IsExpired(e) == now > e.expires
IsStale(e) == IsExpired(e) /\ now < e.expires + StaleDuration

\* Mutant: the filter of revalidate is used here too.
CaptureStoresOther(st) == st \in {"ok", "large", "other"}

\* captureAndCache stores a status that is both in IsCacheable and among the
\* default StatusCodes, whatever the response's Cache-Control says.
CaptureStores(st) == st \in {"ok", "nostore", "large"}

\* Mutant: every response is stored.
RevalidateStoresAll(st) == TRUE

\* revalidate stores what is not IsUncacheableResponse.
RevalidateStores(st) == st \in {"ok", "large", "other"}

NewEntry(q, st) == [key |-> q.key, private |-> q.private, status |-> st, expires |-> now + TTL]

\* Cache.Set, which refuses an entry that is too large.
Store(q, st) ==
  IF Shard!Accepted(NewEntry(q, st))
    THEN Shard!Set(q.key, NewEntry(q, st))
    ELSE UNCHANGED shardVars

\* Mutant: requests with credentials are looked up like any other.
IsCacheableAlways(q) == TRUE

\* Not IsUncacheableRequest.
IsCacheableRequest(q) == ~q.private

\* A request arrives.  One that is not cacheable goes to the handler and
\* leaves the cache alone; the others look their key up.  (Bound: a connection
\* has at most one revalidation under way.)
Arrive(r) ==
  /\ pc[r] = "idle" /\ reval[r] = None
  /\ \E q \in Request :
       /\ req' = [req EXCEPT ![r] = q]
       /\ IF IsCacheableRequest(q)
            THEN /\ Shard!Lookup(r, q.key)
                 /\ pc' = [pc EXCEPT ![r] = IF entries[q.key] = None THEN "fill" ELSE "read"]
            ELSE /\ UNCHANGED shardVars
                 /\ pc' = [pc EXCEPT ![r] = "bypass"]
  /\ UNCHANGED <<now, reval, ended, filled>>

\* The second half of Get.
Read(r) ==
  /\ pc[r] = "read"
  /\ Shard!ReadBack(r)
  /\ pc' = [pc EXCEPT ![r] = "check"]
  /\ UNCHANGED <<now, req, reval, ended, filled>>

ServeFresh(r) ==
  /\ pc[r] = "check"
  /\ ~IsExpired(got[r])
  /\ Shard!Take(r)
  /\ pc' = [pc EXCEPT ![r] = "idle"]
  /\ req' = [req EXCEPT ![r] = None]
  /\ UNCHANGED <<now, reval, ended, filled>>

ServeStale(r) ==
  /\ pc[r] = "check"
  /\ IsStale(got[r])
  /\ Shard!Take(r)
  /\ pc' = [pc EXCEPT ![r] = "idle"]
  /\ reval' = [reval EXCEPT ![r] = req[r].key]
  /\ req' = [req EXCEPT ![r] = None]
  /\ UNCHANGED <<now, ended, filled>>

TooOld(r) ==
  /\ pc[r] = "check"
  /\ IsExpired(got[r]) /\ ~IsStale(got[r])
  /\ Shard!Take(r)
  /\ pc' = [pc EXCEPT ![r] = "fill"]
  /\ UNCHANGED <<now, req, reval, ended, filled>>

\* The handler answers, and captureAndCache stores what may be stored.
Fill(r) ==
  /\ pc[r] = "fill"
  /\ \E st \in Statuses :
       /\ IF CaptureStores(st) THEN Store(req[r], st) ELSE UNCHANGED shardVars
       /\ filled' = IF st \in {"ok", "nostore", "large"} THEN filled \cup {req[r].key} ELSE filled
  /\ pc' = [pc EXCEPT ![r] = "idle"]
  /\ req' = [req EXCEPT ![r] = None]
  /\ UNCHANGED <<now, reval, ended>>

Bypass(r) ==
  /\ pc[r] = "bypass"
  /\ pc' = [pc EXCEPT ![r] = "idle"]
  /\ req' = [req EXCEPT ![r] = None]
  /\ UNCHANGED <<shardVars, now, reval, ended, filled>>

\* net/http cancels the request's context once ServeHTTP has returned; that
\* matters to the request's revalidation only.
ContextEnds(r) ==
  /\ reval[r] # None /\ ~ended[r]
  /\ ended' = [ended EXCEPT ![r] = TRUE]
  /\ UNCHANGED <<shardVars, now, pc, req, reval, filled>>

\* The revalidating goroutine runs the handler on a clone of the request, with
\* the request's context; the proxies' upstream calls fail once that is done.
Revalidate(r) ==
  /\ reval[r] # None
  /\ \E st \in IF ended[r] THEN {"error"} ELSE Statuses :
       IF RevalidateStores(st)
         THEN Store([key |-> reval[r], private |-> FALSE], st)
         ELSE UNCHANGED shardVars
  /\ reval' = [reval EXCEPT ![r] = None]
  /\ ended' = [ended EXCEPT ![r] = FALSE]
  /\ UNCHANGED <<now, pc, req, filled>>

\* handlePurge, when "PURGE" is among the configured methods.
Purge(k) ==
  /\ Shard!Delete(k)
  /\ UNCHANGED <<now, pc, req, reval, ended, filled>>

Clear ==
  /\ Shard!Clear
  /\ UNCHANGED <<now, pc, req, reval, ended, filled>>

Tick ==
  /\ now < MaxTime
  /\ now' = now + 1
  /\ UNCHANGED <<shardVars, pc, req, reval, ended, filled>>

Next ==
  \/ \E r \in Requests :
       \/ Arrive(r) \/ Read(r) \/ ServeFresh(r) \/ ServeStale(r) \/ TooOld(r)
       \/ Fill(r) \/ Bypass(r) \/ ContextEnds(r) \/ Revalidate(r)
  \/ \E k \in Keys : Purge(k)
  \/ Clear
  \/ Tick

\* Handlers return, goroutines run, and the server cancels contexts.
Fairness ==
  \A r \in Requests :
    /\ WF_vars(Read(r)) /\ WF_vars(ServeFresh(r) \/ ServeStale(r) \/ TooOld(r))
    /\ WF_vars(Fill(r)) /\ WF_vars(Bypass(r))
    /\ WF_vars(ContextEnds(r)) /\ WF_vars(Revalidate(r))

Spec == Init /\ [][Next]_vars /\ Fairness

-----------------------------------------------------------------------------
(* What is claimed *)

\* The shard's own properties, with the calls that the middleware makes.
ShardConsistent == Shard!Consistent /\ Shard!WithinLimits
ShardImplementsContract == Shard!ImplementsContract
ShardEvictsLeastRecent == Shard!LeastRecentlyUsed

\* What the cache holds and what a hit is about to serve answers a request
\* without credentials for that key, is no error, and is a 2xx or a redirect
\* beyond 200, 301 and 302, or a 404 or 410, only as the refresh of a key that a
\* fill had stored 200, 301 or 302 for: the two filters (captureAndCache and
\* revalidate) differ, and the laxer one on statuses is never the first.  It does
\* not say that the response wanted to be cached: captureAndCache does not look
\* at its Cache-Control (SPECIFICATION.md:338), and revalidate takes 404 and 410
\* for successes (the comment at middleware.go:168).
HitsMayBeServed ==
  LET MayServe(e, k) ==
        /\ e.key = k /\ ~e.private /\ e.status # "error"
        /\ e.status = "other" => k \in filled
  IN /\ \A k \in Keys : Shard!Mapping[k] # None => MayServe(Shard!Mapping[k], k)
     /\ \A r \in Requests : pc[r] = "check" => MayServe(got[r], req[r].key)

\* SPECIFICATION.md:343, "serve stale entry while refreshing in background": after
\* a stale hit the key gets a fresh entry (or is dropped), as long as the handler
\* answers with 200.
StaleIsRefreshed ==
  \A r \in Requests, k \in Keys :
    reval[r] = k ~> \/ Shard!Mapping[k] = None
                    \/ Shard!Mapping[k] # None /\ ~IsExpired(Shard!Mapping[k])
=============================================================================
