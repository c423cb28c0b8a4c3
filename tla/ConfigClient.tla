---------------------------- MODULE ConfigClient ----------------------------
(***************************************************************************)
(* Asterloom.Sdk.Config: the snapshot cache of AsterloomConfigClient, fed  *)
(* by an environment whose configuration changes as ConfigFeed says.       *)
(*                                                                         *)
(* Callers of GetSnapshotAsync share one refresh lock over all cache keys  *)
(* (evaluation contexts).  Time is seen by what the code asks of it: a     *)
(* cached snapshot is fresh (within CacheDuration), stale, or dead (beyond *)
(* LastKnownGoodDuration).  A snapshot is known by its version.            *)
(***************************************************************************)
EXTENDS Naturals

CONSTANTS
  Keys,         \* evaluation contexts
  Callers,
  KeyOf,        \* caller -> the context it asks for
  MaxPublished, \* bound: published versions
  MaxFaults,    \* bound: failed requests and cancelled waits
  Nothing

ASSUME CallersAsk == KeyOf \in [Callers -> Keys]
ASSUME ClientBounds == MaxPublished \in Nat /\ MaxFaults \in Nat

VARIABLES
  version,      \* what the server has published
  cache,        \* _cache
  permits,      \* of _refreshLock
  watched,      \* key -> version, to one who listens to SnapshotUpdated
  faults,       \* failed requests and cancelled waits so far
  at, call, cached, response, answer

shared == <<version, cache, permits, watched, faults>>
callers == <<at, call, cached, response, answer>>
clientVars == <<shared, callers>>

Ages == {"fresh", "stale", "dead"}
Cached == [version : 0..MaxPublished, age : Ages]
Answer == [version : 0..MaxPublished, lkg : BOOLEAN]
Call == [force : BOOLEAN, since : 0..MaxPublished]

ASSUME NothingIsDistinct == Nothing \notin Cached \cup Answer \cup Call \cup Nat

ClientInit ==
  /\ version = 0
  /\ cache = [k \in Keys |-> Nothing]
  /\ permits = 1
  /\ watched = [k \in Keys |-> Nothing]
  /\ faults = 0
  /\ at = [c \in Callers |-> "idle"]
  /\ call = [c \in Callers |-> Nothing]
  /\ cached = [c \in Callers |-> Nothing]
  /\ response = [c \in Callers |-> Nothing]
  /\ answer = [c \in Callers |-> Nothing]

MoveTo(c, step) == at' = [at EXCEPT ![c] = step]

(* The call ends with an answer, or Nothing if it throws.                  *)
ReturnAnswer(c, result) ==
  /\ MoveTo(c, "idle")
  /\ answer' = [answer EXCEPT ![c] = result]
  /\ cached' = [cached EXCEPT ![c] = Nothing]
  /\ response' = [response EXCEPT ![c] = Nothing]

IsFreshEvenForced(entry, force) == entry # Nothing /\ entry.age = "fresh"

IsFresh(entry, force) == ~force /\ entry # Nothing /\ entry.age = "fresh"

-----------------------------------------------------------------------------
(* A snapshot is published (ConfigFeed).                                   *)
Publish ==
  /\ version < MaxPublished
  /\ version' = version + 1
  /\ UNCHANGED <<cache, permits, watched, faults, callers>>

(* Time passes for a cached snapshot.                                      *)
Age(k) ==
  /\ cache[k] # Nothing /\ cache[k].age # "dead"
  /\ cache' = [cache EXCEPT ![k].age = IF @ = "fresh" THEN "stale" ELSE "dead"]
  /\ UNCHANGED <<version, permits, watched, faults, callers>>

(* GetSnapshotAsync: a fresh snapshot is returned without the lock.        *)
Ask(c) ==
  LET entry == cache[KeyOf[c]] IN
  /\ at[c] = "idle"
  /\ \E force \in BOOLEAN :
       /\ call' = [call EXCEPT ![c] = [force |-> force, since |-> version]]
       /\ IF IsFresh(entry, force)
          THEN ReturnAnswer(c, [version |-> entry.version, lkg |-> FALSE])
          ELSE /\ MoveTo(c, "wait")
               /\ cached' = [cached EXCEPT ![c] = entry]
               /\ answer' = [answer EXCEPT ![c] = Nothing]
               /\ UNCHANGED response
  /\ UNCHANGED shared

AcquireLock(c) ==
  /\ at[c] = "wait"
  /\ permits > 0
  /\ permits' = permits - 1
  /\ MoveTo(c, "locked")
  /\ UNCHANGED <<version, cache, watched, faults, call, cached, response, answer>>

CancelWaitReleasing(c) ==
  /\ at[c] = "wait"
  /\ faults < MaxFaults
  /\ faults' = faults + 1
  /\ permits' = permits + 1
  /\ ReturnAnswer(c, Nothing)
  /\ UNCHANGED <<version, cache, watched, call>>

(* The caller's token ends the wait: the lock is not his to release.       *)
CancelWait(c) ==
  /\ at[c] = "wait"
  /\ faults < MaxFaults
  /\ faults' = faults + 1
  /\ ReturnAnswer(c, Nothing)
  /\ UNCHANGED <<version, cache, permits, watched, call>>

ReadBeforeLock(c) == cached[c]

ReadUnderLock(c) == cache[KeyOf[c]]

(* Another caller may have refreshed it meanwhile.                         *)
Recheck(c) ==
  LET entry == ReadUnderLock(c) IN
  /\ at[c] = "locked"
  /\ IF IsFresh(entry, call[c].force)
     THEN ReturnAnswer(c, [version |-> entry.version, lkg |-> FALSE]) /\ permits' = permits + 1
     ELSE /\ MoveTo(c, "request")
          /\ cached' = [cached EXCEPT ![c] = entry]
          /\ UNCHANGED <<permits, response, answer>>
  /\ UNCHANGED <<version, cache, watched, faults, call>>

ServedByKey(c) == IF cached[c] # Nothing THEN cached[c].version ELSE version

(* The latest snapshot, or "not modified" if its ETag is the cached one's. *)
Served(c) == version

Serve(c) ==
  /\ at[c] = "request"
  /\ response' = [response EXCEPT ![c] = Served(c)]
  /\ MoveTo(c, "response")
  /\ UNCHANGED <<shared, call, cached, answer>>

(* Stores the snapshot as fetched now, and raises SnapshotUpdated when the *)
(* cached one had another version; the first one is known by its caller.   *)
Receive(c) ==
  LET k == KeyOf[c]
      raises == cached[c] # Nothing /\ cached[c].version # response[c] IN
  /\ at[c] = "response"
  /\ cache' = [cache EXCEPT ![k] = [version |-> response[c], age |-> "fresh"]]
  /\ watched' = IF raises \/ cache[k] = Nothing THEN [watched EXCEPT ![k] = response[c]] ELSE watched
  /\ permits' = permits + 1
  /\ ReturnAnswer(c, [version |-> response[c], lkg |-> FALSE])
  /\ UNCHANGED <<version, faults, call>>

LastKnownGood(c) ==
  IF cached[c] # Nothing /\ cached[c].age # "dead"
  THEN [version |-> cached[c].version, lkg |-> TRUE]
  ELSE Nothing

(* The request fails, times out, is cancelled, or returns bad JSON: the    *)
(* last known good snapshot is returned, if there is one.  Exceptions of   *)
(* other kinds (the cache notices the cancellation) are passed on.         *)
Fail(c) ==
  /\ at[c] \in {"request", "response"}
  /\ faults < MaxFaults
  /\ faults' = faults + 1
  /\ permits' = permits + 1
  /\ \E result \in {LastKnownGood(c), Nothing} : ReturnAnswer(c, result)
  /\ UNCHANGED <<version, cache, watched, call>>

CallerStep(c) == Recheck(c) \/ Serve(c) \/ Receive(c)

ClientNext ==
  \/ Publish
  \/ \E k \in Keys : Age(k)
  \/ \E c \in Callers : Ask(c) \/ AcquireLock(c) \/ CancelWait(c) \/ CallerStep(c) \/ Fail(c)

ClientSpec == ClientInit /\ [][ClientNext]_clientVars

(* Applications keep asking, time passes, requests end within their        *)
(* timeout, and SemaphoreSlim serves waiters in the order they came.       *)
Fairness ==
  /\ \A k \in Keys : WF_clientVars(Age(k))
  /\ \A c \in Callers :
       WF_clientVars(Ask(c)) /\ SF_clientVars(AcquireLock(c)) /\ WF_clientVars(CallerStep(c))

FairSpec == ClientSpec /\ Fairness

-----------------------------------------------------------------------------
(* Properties.                                                             *)

(* A cached configuration is never replaced by an older one, whichever of  *)
(* the racing refreshes is answered last.                                  *)
CacheNeverGoesBack ==
  [][\A k \in Keys : cache[k] # Nothing =>
       cache'[k] # Nothing /\ cache'[k].version >= cache[k].version]_clientVars

(* One who listens to SnapshotUpdated knows the version that is cached:    *)
(* the event is raised for every change, and for nothing else.             *)
ListenersAreRight ==
  \A k \in Keys : cache[k] # Nothing => watched[k] = cache[k].version

(* A forced refresh that does not call its answer last-known-good returns  *)
(* nothing older than what was published when it was asked for.            *)
ForcedAnswersAreCurrent ==
  \A c \in Callers :
    answer[c] # Nothing /\ call[c].force /\ ~answer[c].lkg => answer[c].version >= call[c].since

(* Publications, rollbacks included, are observed through cache expiry by  *)
(* every context someone asks for, once requests stop failing.             *)
ClientsCatchUp ==
  \A c \in Callers : \A v \in 1..MaxPublished :
    version >= v ~> cache[KeyOf[c]] # Nothing /\ cache[KeyOf[c]].version >= v
=============================================================================
