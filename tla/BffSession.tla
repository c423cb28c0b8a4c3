----------------------------- MODULE BffSession -----------------------------
(***************************************************************************)
(* One browser session of the web console's BFF (Next.js): the login       *)
(* callback that creates it, the requests that use and refresh it, the     *)
(* logout that deletes it.  The session lives in Redis under an opaque id; *)
(* every request is a handler of its own, possibly in another instance, so *)
(* handlers interleave at every await.                                     *)
(*                                                                         *)
(* A record of the session is known by the generation of the tokens in it: *)
(* the callback stores generation 1, each refresh the next one.  Access    *)
(* and refresh token of one exchange carry the same generation.            *)
(***************************************************************************)
EXTENDS Integers, FiniteSets

CONSTANTS Requests,      \* handler invocations
          Callbacks,     \* those of /api/auth/callback, all with one state
          Logouts,       \* those of /api/auth/logout
          Proxies,       \* those of /api/asterloom/[...path]; the others ask
                         \* /api/auth/session
          MaxPolls,      \* looks of a request without the lock, 20 in the code
          MaxGeneration, \* bound: token pairs Passport issues for the session
          Nobody         \* the lock key is absent

ASSUME KindsAssumption ==
    /\ Callbacks \subseteq Requests
    /\ Logouts \subseteq Requests
    /\ Proxies \subseteq Requests
    /\ Callbacks \cap (Logouts \cup Proxies) = {}
    /\ Logouts \cap Proxies = {}
ASSUME BoundsAssumption ==
    /\ MaxPolls \in Nat \ {0}
    /\ MaxGeneration \in Nat \ {0}
ASSUME NobodyAssumption == Nobody \notin Requests

VARIABLES
    transaction, \* is the login transaction of the state still stored
    session,     \* generation stored under the session id, 0 when absent
    over,        \* the session's absolute expiry has passed
    refreshable, \* Passport issued a refresh token at login
    lock,        \* owner of the refresh lock, or Nobody
    stale,       \* generations whose access token expires within 30 s
    current,     \* Passport's side: the generation it will exchange
    redeemed,    \* generations whose refresh token was presented
    reused,      \* some refresh token was presented twice
    pc,          \* where each handler is
    held,        \* the record each handler works with, or Null or an error
    force,       \* is the handler refreshing after a 401 of the backend
    polls,       \* its looks without the lock since it asked for it
    answer,      \* what it answered
    mishaps      \* what went wrong around the handlers so far

vars == <<transaction, session, over, refreshable, lock, stale, current,
          redeemed, reused, pc, held, force, polls, answer, mishaps>>
login == <<transaction, refreshable>>
tokens == <<stale, current, redeemed, reused>>

Generations == 1 .. MaxGeneration

\* Results of ensureFreshSession that are no record.
Null == 0             \* null: the caller answers 401
Unavailable == -1     \* SessionStoreUnavailableError
Failed == -2          \* an error of the store, thrown on

\* Where a handler awaits.  "exchange": before Passport takes the refresh
\* token; "granted" and "refused": Passport took it and the reply is on its way.
Places == {"start", "code", "store", "locking", "waiting", "recheck",
           "exchange", "granted", "refused", "release", "drop", "upstream",
           "logout", "done"}
Critical == {"recheck", "exchange", "granted", "refused", "release"}
Answers == {"none", "ok", "401", "403", "500", "502", "503",
            "signed in", "not signed in", "signed out", "died"}
Mishaps == {"lapse", "lost", "unverified", "withdrawn", "ended"}

Init ==
    /\ transaction = TRUE
    /\ session = Null
    /\ over = FALSE
    /\ refreshable = FALSE
    /\ lock = Nobody
    /\ stale = {}
    /\ current = 0
    /\ redeemed = {}
    /\ reused = FALSE
    /\ pc = [r \in Requests |-> "start"]
    /\ held = [r \in Requests |-> Null]
    /\ force = [r \in Requests |-> FALSE]
    /\ polls = [r \in Requests |-> 0]
    /\ answer = [r \in Requests |-> "none"]
    /\ mishaps = {}

Fresh(g) == g \notin stale

\* readSession: a record past its absolute expiry counts as absent.
Readable == session # Null /\ ~over

\* Each handler ends with one answer.
Finish(r, a) ==
    /\ pc' = [pc EXCEPT ![r] = "done"]
    /\ answer' = [answer EXCEPT ![r] = a]

Goto(r, place) ==
    /\ pc' = [pc EXCEPT ![r] = place]
    /\ UNCHANGED answer

\* What a handler does with the result of ensureFreshSession: the proxy goes
\* on to the backend, /api/auth/session answers at once.
Continue(r, result) ==
    /\ held' = [held EXCEPT ![r] = result]
    /\ IF result > 0
         THEN IF r \in Proxies THEN Goto(r, "upstream") ELSE Finish(r, "ok")
         ELSE Finish(r,
                CASE result = Null -> "401"
                  [] r \notin Proxies -> "500"
                  [] force[r] -> "502"
                  [] result = Unavailable -> "503"
                  [] OTHER -> "500")

-----------------------------------------------------------------------------
(* Login: /api/auth/login stored the transaction; the callback takes it.   *)

TransactionExpires ==
    /\ transaction
    /\ transaction' = FALSE
    /\ UNCHANGED <<session, over, refreshable, lock, tokens, pc, held, force,
                   polls, answer, mishaps>>

\* The state or its cookie is missing or differs, or Passport sent an error.
CallbackRefused(r) ==
    /\ r \in Callbacks
    /\ pc[r] = "start"
    /\ Finish(r, "not signed in")
    /\ UNCHANGED <<login, session, over, lock, tokens, held, force, polls,
                   mishaps>>

TakeTransaction(r) ==
    /\ r \in Callbacks
    /\ pc[r] = "start"
    /\ transaction' = FALSE
    /\ IF transaction THEN Goto(r, "code") ELSE Finish(r, "not signed in")
    /\ UNCHANGED <<session, over, refreshable, lock, tokens, held, force,
                   polls, mishaps>>

ExchangeCode(r) ==
    /\ pc[r] = "code"
    /\ \/ /\ refreshable' \in BOOLEAN
          /\ current' = 1
          /\ Goto(r, "store")
       \/ /\ Finish(r, "not signed in")
          /\ UNCHANGED <<refreshable, current>>
    /\ UNCHANGED <<transaction, session, over, lock, stale, redeemed, reused,
                   held, force, polls, mishaps>>

StoreSession(r) ==
    /\ pc[r] = "store"
    /\ \/ session' = 1 /\ Finish(r, "signed in")
       \/ UNCHANGED session /\ Finish(r, "not signed in")
    /\ UNCHANGED <<login, over, lock, tokens, held, force, polls, mishaps>>

-----------------------------------------------------------------------------
(* A request of the signed-in browser.                                     *)

SignedIn == \E c \in Callbacks : answer[c] = "signed in"

Load(r) ==
    /\ r \notin Callbacks
    /\ pc[r] = "start"
    /\ SignedIn
    /\ \/ /\ ~Readable
          /\ session' = Null
          /\ Finish(r, "401")
          /\ UNCHANGED held
       \/ /\ Readable
          /\ r \in Logouts \cup Proxies
          /\ Finish(r, "403")
          /\ UNCHANGED <<session, held>>
       \/ /\ Readable
          /\ r \in Logouts
          /\ Goto(r, "logout")
          /\ UNCHANGED <<session, held>>
       \/ /\ Readable
          /\ r \notin Logouts
          /\ UNCHANGED session
          /\ IF Fresh(session)
               THEN Continue(r, session)
               ELSE /\ held' = [held EXCEPT ![r] = session]
                    /\ Goto(r, IF refreshable THEN "locking" ELSE "drop")
    /\ UNCHANGED <<login, over, lock, tokens, force, polls, mishaps>>

\* No refresh token: the session ends with its access token.
Drop(r) ==
    /\ pc[r] = "drop"
    /\ session' = Null
    /\ Continue(r, Null)
    /\ UNCHANGED <<login, over, lock, tokens, force, polls, mishaps>>

\* One call to the backend; a 401 is retried once with a refreshed token.
Upstream(r) ==
    /\ pc[r] = "upstream"
    /\ \/ Finish(r, "ok") /\ UNCHANGED force
       \/ Finish(r, "502") /\ UNCHANGED force
       \/ /\ ~force[r] /\ refreshable
          /\ force' = [force EXCEPT ![r] = TRUE]
          /\ Goto(r, "locking")
    /\ UNCHANGED <<login, session, over, lock, tokens, held, polls, mishaps>>

Logout(r) ==
    /\ pc[r] = "logout"
    /\ session' = Null
    /\ mishaps' = mishaps \cup {"ended"}
    /\ Finish(r, "signed out")
    /\ UNCHANGED <<login, over, lock, tokens, held, force, polls>>

-----------------------------------------------------------------------------
(* ensureFreshSession.                                                     *)

\* (As it would be if the lock were taken whoever has it.)
LockIsFreeOrNot == TRUE

LockIsFree == lock = Nobody

TryLock(r) ==
    /\ pc[r] = "locking"
    /\ IF LockIsFree
         THEN lock' = r /\ Goto(r, "recheck")
         ELSE UNCHANGED lock /\ Goto(r, "waiting")
    /\ polls' = [polls EXCEPT ![r] = 0]
    /\ UNCHANGED <<login, session, over, tokens, held, force, mishaps>>

\* (As it would be with an off-by-one.)
MayPollOnceMore(r) == polls[r] <= MaxPolls

MayPoll(r) == polls[r] < MaxPolls

\* Without the lock: look every 100 ms for what its holder stored.
Poll(r) ==
    /\ pc[r] = "waiting"
    /\ MayPoll(r)
    /\ session' = IF Readable THEN session ELSE Null
    /\ polls' = [polls EXCEPT ![r] = @ + 1]
    /\ IF Readable /\ session = held[r] /\ ~Fresh(session)
         THEN UNCHANGED <<pc, held, answer>>
         ELSE Continue(r, session')
    /\ UNCHANGED <<login, over, lock, tokens, force, mishaps>>

PollsExhausted(r) ==
    /\ pc[r] = "waiting"
    /\ ~MayPoll(r)
    /\ Continue(r, Unavailable)
    /\ UNCHANGED <<login, session, over, lock, tokens, force, polls, mishaps>>

\* (As it would be without the second read.)
LatestAsLoaded(r) == held[r]

\* Under the lock the session is read again; the caller's own record stands
\* in for one that is gone.
Latest(r) == IF Readable THEN session ELSE held[r]

Recheck(r) ==
    /\ pc[r] = "recheck"
    /\ session' = IF Readable THEN session ELSE Null
    /\ held' = [held EXCEPT ![r] = Latest(r)]
    /\ Goto(r, IF ~force[r] /\ Fresh(Latest(r)) THEN "release" ELSE "exchange")
    /\ UNCHANGED <<login, over, lock, tokens, force, polls, mishaps>>

\* Passport, with no reuse grace: a refresh token is exchanged once, the next
\* pair replaces it; one presented again is refused and ends the whole chain.
Present(r) ==
    /\ pc[r] = "exchange"
    /\ redeemed' = redeemed \cup {held[r]}
    /\ reused' = (reused \/ held[r] \in redeemed)
    /\ \/ /\ held[r] = current /\ ~reused /\ current < MaxGeneration
          /\ current' = current + 1
          /\ Goto(r, "granted")
          /\ UNCHANGED mishaps
       \/ /\ held[r] # current \/ reused
          /\ Goto(r, "refused")
          /\ UNCHANGED <<current, mishaps>>
       \/ /\ mishaps' = mishaps \cup {"withdrawn"}   \* the account lost access
          /\ Goto(r, "refused")
          /\ UNCHANGED current
    /\ UNCHANGED <<login, session, over, lock, stale, held, force, polls>>

\* No usable reply within 10 s, or a server error: transient.
Unanswered(r) ==
    /\ pc[r] \in {"exchange", "granted", "refused"}
    /\ mishaps' = IF pc[r] = "exchange" THEN mishaps
                  ELSE mishaps \cup {"lost"}
    /\ held' = [held EXCEPT ![r] = Unavailable]
    /\ Goto(r, "release")
    /\ UNCHANGED <<login, session, over, lock, tokens, force, polls>>

\* The ID token in the reply cannot be verified, the key set being out of
\* reach included: an error the code calls permanent.
Unverified(r) ==
    /\ pc[r] = "granted"
    /\ mishaps' = mishaps \cup {"unverified"}
    /\ Goto(r, "refused")
    /\ UNCHANGED <<login, session, over, lock, tokens, held, force, polls>>

\* (As it would be if the old refresh token were kept.)
MergedKeepingOld(r) == held[r]

\* The stored record takes the tokens of the reply over its own.
Merged(r) == held[r] + 1

SaveRefreshed(r) ==
    /\ pc[r] = "granted"
    /\ session' = Merged(r)
    /\ held' = [held EXCEPT ![r] = Merged(r)]
    /\ Goto(r, "release")
    /\ UNCHANGED <<login, over, lock, tokens, force, polls, mishaps>>

\* A permanent error ends the session, whoever has refreshed it meanwhile.
DeleteRefused(r) ==
    /\ pc[r] = "refused"
    /\ session' = Null
    /\ held' = [held EXCEPT ![r] = Null]
    /\ Goto(r, "release")
    /\ UNCHANGED <<login, over, lock, tokens, force, polls, mishaps>>

\* The lock goes only if it is still the handler's own.
Release(r) ==
    /\ pc[r] = "release"
    /\ lock' = IF lock = r THEN Nobody ELSE lock
    /\ Continue(r, held[r])
    /\ UNCHANGED <<login, session, over, tokens, force, polls, mishaps>>

-----------------------------------------------------------------------------
(* Faults and the clock.                                                   *)

\* Redis fails under a handler: before the lock is held the error is thrown
\* on; under it a save that fails counts as unavailability, and its write may
\* have been applied; the lock itself stays when its release fails.
StoreFails(r) ==
    /\ \/ /\ pc[r] \in {"locking", "waiting", "drop", "release"}
          /\ Continue(r, Failed)
          /\ UNCHANGED <<session, mishaps>>
       \/ /\ pc[r] \in {"recheck", "refused"}
          /\ held' = [held EXCEPT ![r] = Failed]
          /\ Goto(r, "release")
          /\ UNCHANGED <<session, mishaps>>
       \/ /\ pc[r] = "granted"
          /\ session' \in {session, Merged(r)}
          /\ mishaps' = mishaps \cup {"lost"}
          /\ held' = [held EXCEPT ![r] = Unavailable]
          /\ Goto(r, "release")
       \/ /\ pc[r] = "logout"
          /\ Finish(r, "500")
          /\ UNCHANGED <<session, held, mishaps>>
    /\ UNCHANGED <<login, over, lock, tokens, force, polls>>

\* The instance stops under a handler: a rolling restart or a crash.
Dies(r) ==
    /\ pc[r] \notin {"start", "done"}
    /\ mishaps' = IF pc[r] = "granted" THEN mishaps \cup {"lost"} ELSE mishaps
    /\ Finish(r, "died")
    /\ UNCHANGED <<login, session, over, lock, tokens, held, force, polls>>

\* The lock's own time to live, 10 s, as long as one token request may take.
LockLapses ==
    /\ lock # Nobody
    /\ lock' = Nobody
    /\ mishaps' = IF pc[lock] \in Critical THEN mishaps \cup {"lapse"}
                  ELSE mishaps
    /\ UNCHANGED <<login, session, over, tokens, pc, held, force, polls, answer>>

TokenAges ==
    /\ \E g \in 1 .. current : g \notin stale /\ stale' = stale \cup {g}
    /\ UNCHANGED <<login, session, over, lock, current, redeemed, reused, pc,
                   held, force, polls, answer, mishaps>>

\* The absolute expiry passes; Redis drops the key no earlier.
SessionExpires ==
    /\ session # Null
    /\ over' = TRUE
    /\ session' \in {session, Null}
    /\ mishaps' = mishaps \cup {"ended"}
    /\ UNCHANGED <<login, lock, tokens, pc, held, force, polls, answer>>

-----------------------------------------------------------------------------
Step(r) ==
    \/ CallbackRefused(r) \/ TakeTransaction(r) \/ ExchangeCode(r)
    \/ StoreSession(r) \/ Load(r) \/ Drop(r) \/ Upstream(r) \/ Logout(r)
    \/ TryLock(r) \/ Poll(r) \/ PollsExhausted(r) \/ Recheck(r) \/ Present(r)
    \/ Unanswered(r) \/ SaveRefreshed(r) \/ DeleteRefused(r) \/ Release(r)

Fault(r) == Unverified(r) \/ StoreFails(r) \/ Dies(r)

Next ==
    \/ \E r \in Requests : Step(r) \/ Fault(r)
    \/ TransactionExpires \/ LockLapses \/ TokenAges \/ SessionExpires

Spec == Init /\ [][Next]_vars

-----------------------------------------------------------------------------
TypeOK ==
    /\ transaction \in BOOLEAN
    /\ session \in {Null} \cup Generations
    /\ over \in BOOLEAN
    /\ refreshable \in BOOLEAN
    /\ lock \in Requests \cup {Nobody}
    /\ stale \subseteq Generations
    /\ current \in 0 .. MaxGeneration
    /\ redeemed \subseteq Generations
    /\ reused \in BOOLEAN
    /\ pc \in [Requests -> Places]
    /\ held \in [Requests -> {Null, Unavailable, Failed} \cup Generations]
    /\ force \in [Requests -> BOOLEAN]
    /\ polls \in [Requests -> 0 .. MaxPolls]
    /\ answer \in [Requests -> Answers]
    /\ mishaps \subseteq Mishaps

\* Concurrency alone never presents a refresh token twice: that takes a lock
\* that lapses under its holder, a reply or a save that is lost, a reply that
\* cannot be verified, or a session that ended while a handler still held its
\* record (session.ts, the lock and the second read under it).
ReuseNeedsMishap == reused => mishaps # {}

\* Concurrency alone never signs the user out: a signed-in, refreshable
\* session is there as long as nobody signed out, it did not expire, Passport
\* did not withdraw it and nothing was lost.
SignOutNeedsMishap ==
    (SignedIn /\ refreshable /\ session = Null) => mishaps # {}

\* The stored tokens are the ones Passport will exchange, except between the
\* grant of a refresh and its save.
StoredTokensAreCurrent ==
    (SignedIn /\ refreshable /\ mishaps = {}) =>
        \/ session = current
        \/ \E r \in Requests : pc[r] = "granted" /\ held[r] = session
=============================================================================
