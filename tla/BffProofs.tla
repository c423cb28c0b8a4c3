----------------------------- MODULE BffProofs -----------------------------
(***************************************************************************)
(* Safety of BffSession for any number of handlers, polls and refreshes.   *)
(***************************************************************************)
EXTENDS BffSession, TLAPS

(* Places at which a handler works with a record of the session.           *)
Working == {"locking", "waiting", "recheck", "exchange", "granted", "refused",
            "drop", "upstream"}

HoldersHaveRecords ==
  \A r \in Requests :
    /\ pc[r] \in Working => held[r] \in Generations
    /\ pc[r] = "granted" => held[r] < MaxGeneration

TypeInv == TypeOK /\ HoldersHaveRecords

(* Callbacks and the other handlers keep to their own places.              *)
KindsInv ==
  \A r \in Requests :
    /\ r \in Callbacks => pc[r] \in {"start", "code", "store", "done"}
    /\ r \notin Callbacks => pc[r] \notin {"code", "store"}
    /\ answer[r] = "signed in" => r \in Callbacks /\ pc[r] = "done"

(* The login transaction admits one callback.                              *)
Admitted(c) == pc[c] \in {"code", "store"} \/ answer[c] = "signed in"

LoginInv ==
  /\ transaction => \A c \in Callbacks : ~Admitted(c)
  /\ \A c, d \in Callbacks : Admitted(c) /\ Admitted(d) => c = d
  /\ (transaction \/ \E c \in Callbacks : pc[c] = "code") => current = 0
  /\ \A c \in Callbacks : pc[c] = "store" => current = 1
  /\ SignedIn => current >= 1

(* Nothing happens to the session before the callback stored it.           *)
BeforeLogin ==
  ~SignedIn =>
    /\ session = Null /\ redeemed = {} /\ ~reused
    /\ \A r \in Requests : r \notin Callbacks => pc[r] = "start"

(* Only a session with a refresh token is refreshed, and only one without  *)
(* ends with its access token.                                             *)
Refreshing == {"locking", "waiting", "recheck", "exchange", "granted", "refused"}

DropInv ==
  /\ \A r \in Requests : pc[r] = "drop" => ~refreshable
  /\ \A r \in Requests : pc[r] \in Refreshing => refreshable
  /\ ~refreshable => ~reused
  /\ over => mishaps # {}

(* The refresh lock excludes, unless it lapsed under its holder.           *)
LockInv ==
  "lapse" \notin mishaps => \A r \in Requests : pc[r] \in Critical => lock = r

(* As long as nothing went wrong, the chain of tokens is unbroken: what is *)
(* stored is what Passport exchanges next, but for a grant on its way.     *)
ChainInv ==
  (SignedIn /\ refreshable /\ mishaps = {}) =>
    /\ ~reused
    /\ session # Null
    /\ \A g \in redeemed : g < current
    /\ (\A r \in Requests : pc[r] # "granted") => session = current
    /\ \A r \in Requests :
         /\ pc[r] = "exchange" => held[r] = session
         /\ pc[r] = "granted" => held[r] = session /\ current = session + 1
         /\ pc[r] # "refused"

IInv == /\ TypeInv /\ KindsInv /\ LoginInv /\ BeforeLogin /\ DropInv
        /\ LockInv /\ ChainInv

-----------------------------------------------------------------------------
(* A request that continues with a result moves on or answers, and nothing *)
(* else of it changes.                                                     *)
LEMMA ContinueMoves ==
  ASSUME TypeOK, NEW r \in Requests, NEW result \in Generations \cup {Null, Unavailable, Failed},
         Continue(r, result)
  PROVE  /\ held' = [held EXCEPT ![r] = result]
         /\ \/ /\ pc' = [pc EXCEPT ![r] = "upstream"]
               /\ result \in Generations
               /\ answer' = answer
            \/ /\ pc' = [pc EXCEPT ![r] = "done"]
               /\ \E a \in Answers \ {"signed in"} : answer' = [answer EXCEPT ![r] = a]
<1>1. held' = [held EXCEPT ![r] = result]
  BY DEF Continue
<1>2. CASE result > 0
  <2>1. result \in Generations
    BY <1>2, BoundsAssumption DEF Null, Unavailable, Failed, Generations
  <2>2. CASE r \in Proxies
    BY <1>1, <1>2, <2>1, <2>2 DEF Continue, Goto
  <2>3. CASE r \notin Proxies
    BY <1>1, <1>2, <2>1, <2>3 DEF Continue, Finish, Answers
  <2>. QED  BY <2>2, <2>3
<1>3. CASE ~(result > 0)
  <2>1. PICK a : Finish(r, a) /\ a \in {"401", "500", "502", "503"}
    BY <1>3 DEF Continue
  <2>. QED  BY <1>1, <2>1 DEF Finish, Answers
<1>. QED  BY <1>2, <1>3

-----------------------------------------------------------------------------
LEMMA InitIInv == Init => IInv
<1> SUFFICES ASSUME Init PROVE IInv
  OBVIOUS
<1>1. TypeInv
  <2>1. \A r \in Requests : pc[r] = "start"
    BY DEF Init
  <2>2. TypeOK
    <3>1. /\ pc \in [Requests -> Places] /\ answer \in [Requests -> Answers]
          /\ force \in [Requests -> BOOLEAN]
      BY DEF Init, Places, Answers
    <3>2. /\ polls \in [Requests -> 0 .. MaxPolls] /\ current \in 0 .. MaxGeneration
          /\ held \in [Requests -> {Null, Unavailable, Failed} \cup Generations]
      BY BoundsAssumption DEF Init
    <3>. QED  BY <3>1, <3>2 DEF Init, TypeOK
  <2>. QED  BY <2>1, <2>2 DEF TypeInv, HoldersHaveRecords, Working
<1>2. KindsInv /\ LoginInv /\ BeforeLogin
  BY KindsAssumption DEF Init, KindsInv, LoginInv, Admitted, BeforeLogin, SignedIn, Null
<1>3. DropInv /\ LockInv /\ ChainInv
  BY KindsAssumption DEF Init, DropInv, Refreshing, LockInv, Critical, ChainInv, SignedIn
<1>. QED  BY <1>1, <1>2, <1>3 DEF IInv

-----------------------------------------------------------------------------
(* A quiet step: one handler moves on, no token is granted or stored, and  *)
(* the session is not touched, or goes for a reason.                       *)
Quiet(r, p, h) ==
  /\ pc[r] # "done"
  /\ p \in Places \ {"start", "code", "store", "granted"}
  /\ r \in Callbacks => p = "done"
  /\ r \notin Callbacks => SignedIn
  /\ h \in {Null, Unavailable, Failed} \cup Generations
  /\ p \in Working => h \in Generations
  /\ p = "drop" => ~refreshable
  /\ p \in Refreshing => refreshable
  /\ pc' = [pc EXCEPT ![r] = p]
  /\ held' = [held EXCEPT ![r] = h]
  /\ answer' = answer \/ \E a \in Answers \ {"signed in"} : answer' = [answer EXCEPT ![r] = a]
  /\ UNCHANGED <<transaction, refreshable, over, stale, current, redeemed, reused>>
  /\ force' \in [Requests -> BOOLEAN]
  /\ polls' \in [Requests -> 0 .. MaxPolls]
  /\ mishaps \subseteq mishaps' /\ mishaps' \subseteq Mishaps
  /\ (p = "refused" \/ pc[r] = "granted") => mishaps' # {}
  /\ session' = session \/ (session' = Null /\ (mishaps' # {} \/ ~refreshable))
  /\ p = "exchange" => (h = session' \/ mishaps' # {} \/ ~refreshable)
  /\ \/ lock' = lock /\ (p \in Critical => pc[r] \in Critical)
     \/ lock = Nobody /\ lock' = r
     \/ lock = r /\ lock' = Nobody /\ p \notin Critical

LEMMA SignedInStays ==
  ASSUME TypeOK, KindsInv, NEW r \in Requests, pc[r] # "done",
         answer' = answer \/ \E a \in Answers \ {"signed in"} : answer' = [answer EXCEPT ![r] = a]
  PROVE  /\ \A q \in Requests : answer'[q] = "signed in" <=> answer[q] = "signed in"
         /\ SignedIn' <=> SignedIn
<1>1. ASSUME NEW q \in Requests PROVE answer'[q] = "signed in" <=> answer[q] = "signed in"
  <2>1. answer[r] # "signed in"
    BY DEF KindsInv
  <2>2. answer \in [Requests -> Answers]
    BY DEF TypeOK
  <2>. QED  BY <2>1, <2>2
<1>. QED  BY <1>1, KindsAssumption DEF SignedIn

LEMMA QuietKeeps ==
  ASSUME IInv, NEW r \in Requests, NEW p, NEW h, Quiet(r, p, h)
  PROVE  IInv'
<1>1. /\ \A q \in Requests : answer'[q] = "signed in" <=> answer[q] = "signed in"
      /\ SignedIn' <=> SignedIn
  BY SignedInStays DEF IInv, TypeInv, Quiet
<1>2. /\ pc \in [Requests -> Places] /\ held \in [Requests -> {Null, Unavailable, Failed} \cup Generations]
      /\ \A q \in Requests : pc'[q] = IF q = r THEN p ELSE pc[q]
      /\ \A q \in Requests : held'[q] = IF q = r THEN h ELSE held[q]
  BY DEF IInv, TypeInv, TypeOK, Quiet
<1>3. TypeOK'
  <2>1. /\ transaction' \in BOOLEAN /\ over' \in BOOLEAN /\ refreshable' \in BOOLEAN
        /\ stale' \subseteq Generations /\ current' \in 0 .. MaxGeneration
        /\ redeemed' \subseteq Generations /\ reused' \in BOOLEAN
    BY DEF IInv, TypeInv, TypeOK, Quiet
  <2>2. pc' \in [Requests -> Places] /\ held' \in [Requests -> {Null, Unavailable, Failed} \cup Generations]
    BY <1>2 DEF Quiet
  <2>3. answer' \in [Requests -> Answers]
    BY DEF IInv, TypeInv, TypeOK, Quiet
  <2>4. session' \in {Null} \cup Generations /\ lock' \in Requests \cup {Nobody}
    BY DEF IInv, TypeInv, TypeOK, Quiet
  <2>5. /\ force' \in [Requests -> BOOLEAN] /\ polls' \in [Requests -> 0 .. MaxPolls]
        /\ mishaps' \subseteq Mishaps
    BY DEF Quiet
  <2>. QED  BY <2>1, <2>2, <2>3, <2>4, <2>5 DEF TypeOK
<1>4. HoldersHaveRecords'
  BY <1>2 DEF IInv, TypeInv, HoldersHaveRecords, Quiet
<1>5. KindsInv'
  BY <1>1, <1>2 DEF IInv, KindsInv, Quiet
<1>6. LoginInv'
  <2>1. \A c \in Callbacks : Admitted(c)' => Admitted(c)
    BY <1>1, <1>2, KindsAssumption DEF Admitted, Quiet
  <2>2. \A c \in Callbacks : pc'[c] \in {"code", "store"} => pc'[c] = pc[c]
    BY <1>2, KindsAssumption DEF Quiet
  <2>3. transaction' = transaction /\ current' = current
    BY DEF Quiet
  <2>. QED  BY <1>1, <2>1, <2>2, <2>3 DEF IInv, LoginInv
<1>7. BeforeLogin'
  BY <1>1, <1>2 DEF IInv, BeforeLogin, Quiet
<1>8. DropInv'
  BY <1>2 DEF IInv, DropInv, Quiet
<1>9. LockInv'
  <2> SUFFICES ASSUME "lapse" \notin mishaps', NEW q \in Requests, pc'[q] \in Critical PROVE lock' = q
    BY DEF LockInv
  <2>1. \A s \in Requests : pc[s] \in Critical => lock = s
    BY DEF IInv, LockInv, Quiet
  <2>2. CASE q = r
    BY <1>2, <2>1, <2>2 DEF Quiet
  <2>3. CASE q # r
    <3>1. lock = q
      BY <1>2, <2>1, <2>3
    <3>. QED  BY <2>3, <3>1, NobodyAssumption DEF Quiet
  <2>. QED  BY <2>2, <2>3
<1>10. ChainInv'
  <2> SUFFICES ASSUME SignedIn', refreshable', mishaps' = {}
               PROVE  /\ ~reused' /\ session' # Null
                      /\ \A g \in redeemed' : g < current'
                      /\ (\A q \in Requests : pc'[q] # "granted") => session' = current'
                      /\ \A q \in Requests :
                           /\ pc'[q] = "exchange" => held'[q] = session'
                           /\ pc'[q] = "granted" => held'[q] = session' /\ current' = session' + 1
                           /\ pc'[q] # "refused"
    BY DEF ChainInv
  <2>1. SignedIn /\ refreshable /\ mishaps = {}
    BY <1>1 DEF Quiet
  <2>2. /\ session' = session /\ current' = current /\ redeemed' = redeemed /\ reused' = reused
        /\ pc[r] # "granted" /\ p # "granted" /\ p # "refused"
        /\ p = "exchange" => h = session'
    BY <2>1 DEF Quiet
  <2>. QED  BY <1>2, <2>1, <2>2 DEF IInv, ChainInv
<1>. QED  BY <1>3, <1>4, <1>5, <1>6, <1>7, <1>8, <1>9, <1>10 DEF IInv, TypeInv

-----------------------------------------------------------------------------
(* What the invariant says of a handler at work.                           *)
LEMMA HandlerFacts ==
  ASSUME IInv, NEW r \in Requests
  PROVE  /\ pc[r] \in Working \cup {"logout", "release"} => r \notin Callbacks /\ SignedIn
         /\ pc[r] \in Working => held[r] \in Generations
         /\ held[r] \in {Null, Unavailable, Failed} \cup Generations
         /\ pc[r] \in Refreshing => refreshable
         /\ held = [held EXCEPT ![r] = held[r]]
         /\ force \in [Requests -> BOOLEAN] /\ polls \in [Requests -> 0 .. MaxPolls]
         /\ mishaps \subseteq Mishaps
         /\ ~Readable => (session = Null \/ mishaps # {})
         /\ (SignedIn /\ ~Readable) => (mishaps # {} \/ ~refreshable)
         /\ Readable => session \in Generations
         /\ pc[r] = "refused" => (mishaps # {} \/ ~refreshable)
<1>1. pc[r] \in Working \cup {"logout", "release"} => r \notin Callbacks /\ SignedIn
  BY DEF IInv, KindsInv, BeforeLogin, Working
<1>2. /\ pc[r] \in Working => held[r] \in Generations
      /\ held[r] \in {Null, Unavailable, Failed} \cup Generations
      /\ held = [held EXCEPT ![r] = held[r]]
      /\ force \in [Requests -> BOOLEAN] /\ polls \in [Requests -> 0 .. MaxPolls]
      /\ mishaps \subseteq Mishaps
      /\ Readable => session \in Generations
  BY DEF IInv, TypeInv, TypeOK, HoldersHaveRecords, Readable
<1>3. /\ ~Readable => (session = Null \/ mishaps # {})
      /\ (SignedIn /\ ~Readable) => (mishaps # {} \/ ~refreshable)
  BY DEF IInv, DropInv, ChainInv, Readable
<1>4. pc[r] = "refused" => (mishaps # {} \/ ~refreshable)
  <2>1. pc[r] = "refused" => SignedIn
    BY <1>1 DEF Working
  <2>. QED  BY <2>1 DEF IInv, ChainInv
<1>5. pc[r] \in Refreshing => refreshable
  BY DEF IInv, DropInv
<1>. QED  BY <1>1, <1>2, <1>3, <1>4, <1>5

(* A handler that continues takes a quiet step.                            *)
LEMMA ContinueKeeps ==
  ASSUME IInv, NEW r \in Requests, NEW result \in Generations \cup {Null, Unavailable, Failed},
         Continue(r, result), pc[r] # "done", r \notin Callbacks, SignedIn,
         UNCHANGED <<transaction, refreshable, over, stale, current, redeemed, reused, mishaps>>,
         force' \in [Requests -> BOOLEAN], polls' \in [Requests -> 0 .. MaxPolls],
         pc[r] # "granted",
         session' = session \/ (session' = Null /\ (mishaps # {} \/ ~refreshable)),
         lock' = lock \/ (lock = r /\ lock' = Nobody)
  PROVE  IInv'
<1>1. TypeOK /\ mishaps \subseteq Mishaps
  BY DEF IInv, TypeInv, TypeOK
<1>2. held' = [held EXCEPT ![r] = result]
  BY <1>1, ContinueMoves
<1>3. CASE pc' = [pc EXCEPT ![r] = "upstream"] /\ result \in Generations /\ answer' = answer
  <2>1. Quiet(r, "upstream", result)
    BY <1>1, <1>2, <1>3 DEF Quiet, Working, Critical, Refreshing, Places
  <2>. QED  BY <2>1, QuietKeeps
<1>4. CASE pc' = [pc EXCEPT ![r] = "done"] /\ \E a \in Answers \ {"signed in"} : answer' = [answer EXCEPT ![r] = a]
  <2>1. Quiet(r, "done", result)
    BY <1>1, <1>2, <1>4 DEF Quiet, Working, Critical, Refreshing, Places
  <2>. QED  BY <2>1, QuietKeeps
<1>. QED  BY <1>1, <1>3, <1>4, ContinueMoves

-----------------------------------------------------------------------------
(* Login.                                                                  *)
LEMMA CallbackRefusedKeeps ==
  ASSUME IInv, NEW r \in Requests, CallbackRefused(r)
  PROVE  IInv'
<1>1. Quiet(r, "done", held[r])
  BY HandlerFacts DEF Quiet, CallbackRefused, Finish, Places, Answers, Working, Critical, Refreshing, login, tokens
<1>. QED  BY <1>1, QuietKeeps

(* What a step of login leaves alone.                                      *)
LoginStep(r) ==
  /\ r \in Callbacks
  /\ UNCHANGED <<over, lock, stale, redeemed, reused, held, force, polls, mishaps>>

LEMMA LoginStepKeeps ==
  ASSUME IInv, NEW r \in Requests, LoginStep(r), pc[r] \in {"start", "code", "store"},
         NEW p \in {"code", "store", "done"}, pc' = [pc EXCEPT ![r] = p],
         NEW a \in Answers, answer' = IF p = "done" THEN [answer EXCEPT ![r] = a] ELSE answer,
         transaction' \in BOOLEAN, refreshable' \in BOOLEAN,
         current' \in 0 .. MaxGeneration, session' \in {Null} \cup Generations
  PROVE  TypeInv' /\ KindsInv' /\ LockInv'
<1>1. /\ pc \in [Requests -> Places] /\ answer \in [Requests -> Answers]
      /\ \A q \in Requests : pc'[q] = IF q = r THEN p ELSE pc[q]
      /\ held' = held
  BY DEF IInv, TypeInv, TypeOK, LoginStep
<1>2. TypeOK'
  <2>1. pc' \in [Requests -> Places] /\ answer' \in [Requests -> Answers]
    BY <1>1 DEF Places
  <2>. QED  BY <2>1 DEF IInv, TypeInv, TypeOK, LoginStep
<1>3. HoldersHaveRecords'
  BY <1>1 DEF IInv, TypeInv, HoldersHaveRecords, Working
<1>4. KindsInv'
  <2>1. \A q \in Requests : q # r => answer'[q] = answer[q]
    BY <1>1
  <2>2. answer'[r] = "signed in" => p = "done"
    BY <1>1 DEF IInv, KindsInv
  <2>. QED  BY <1>1, <2>1, <2>2 DEF IInv, KindsInv, LoginStep
<1>5. LockInv'
  BY <1>1 DEF IInv, LockInv, Critical, LoginStep
<1>. QED  BY <1>2, <1>3, <1>4, <1>5 DEF TypeInv

LEMMA TakeTransactionKeeps ==
  ASSUME IInv, NEW r \in Requests, TakeTransaction(r)
  PROVE  IInv'
<1>1. CASE ~transaction
  <2>1. Quiet(r, "done", held[r])
    <3>1. transaction' = transaction
      BY <1>1 DEF TakeTransaction, IInv, TypeInv, TypeOK
    <3>. QED  BY <1>1, <3>1, HandlerFacts DEF Quiet, TakeTransaction, Finish, Places, Answers, Working, Critical, Refreshing, tokens
  <2>. QED  BY <2>1, QuietKeeps
<1>2. CASE transaction
  <2>1. /\ LoginStep(r) /\ pc[r] = "start" /\ pc' = [pc EXCEPT ![r] = "code"] /\ answer' = answer
        /\ session' = session /\ current' = current /\ refreshable' = refreshable /\ transaction' = FALSE
        /\ pc \in [Requests -> Places]
    BY <1>2 DEF TakeTransaction, LoginStep, Goto, tokens, IInv, TypeInv, TypeOK
  <2>2. TypeInv' /\ KindsInv' /\ LockInv'
    <3>1. /\ session' \in {Null} \cup Generations /\ current' \in 0 .. MaxGeneration
          /\ refreshable' \in BOOLEAN /\ transaction' \in BOOLEAN
      BY <2>1 DEF IInv, TypeInv, TypeOK
    <3>2. "none" \in Answers
      BY DEF Answers
    <3>. QED  BY <2>1, <3>1, <3>2, LoginStepKeeps
  <2>3. \A c \in Callbacks : ~Admitted(c)
    BY <1>2 DEF IInv, LoginInv
  <2>4. ~SignedIn /\ ~SignedIn'
    BY <2>1, <2>3 DEF SignedIn, Admitted
  <2>5. LoginInv'
    <3>1. \A c \in Callbacks : Admitted(c)' => c = r
      BY <2>1, <2>3, KindsAssumption DEF Admitted
    <3>2. current' = 0
      BY <1>2, <2>1 DEF IInv, LoginInv
    <3>3. \A c \in Callbacks : pc'[c] # "store"
      BY <2>1, <2>3, KindsAssumption DEF Admitted
    <3>. QED  BY <2>1, <2>4, <3>1, <3>2, <3>3 DEF LoginInv
  <2>6. BeforeLogin' /\ DropInv' /\ ChainInv'
    <3>1. UNCHANGED <<redeemed, reused, over, mishaps, session>>
      BY <2>1 DEF LoginStep
    <3>2. \A q \in Requests : q # r => pc'[q] = pc[q]
      BY <2>1
    <3>3. pc'[r] = "code" /\ r \in Callbacks
      BY <2>1 DEF LoginStep
    <3>. QED  BY <2>1, <2>4, <3>1, <3>2, <3>3 DEF IInv, BeforeLogin, DropInv, Refreshing, ChainInv
  <2>. QED  BY <2>2, <2>5, <2>6 DEF IInv
<1>. QED  BY <1>1, <1>2

LEMMA ExchangeCodeKeeps ==
  ASSUME IInv, NEW r \in Requests, ExchangeCode(r)
  PROVE  IInv'
<1>1. /\ r \in Callbacks /\ pc[r] = "code" /\ ~transaction /\ current = 0
      /\ \A c \in Callbacks : Admitted(c) => c = r
      /\ pc \in [Requests -> Places]
  BY DEF ExchangeCode, IInv, KindsInv, LoginInv, Admitted, TypeInv, TypeOK
<1>2. ~SignedIn
  BY <1>1 DEF SignedIn, Admitted, IInv, KindsInv
<1>3. CASE Finish(r, "not signed in") /\ UNCHANGED <<refreshable, current>>
  <2>1. Quiet(r, "done", held[r])
    BY <1>1, <1>3, HandlerFacts DEF Quiet, ExchangeCode, Finish, Places, Answers, Working, Critical, Refreshing
  <2>. QED  BY <2>1, QuietKeeps
<1>4. CASE refreshable' \in BOOLEAN /\ current' = 1 /\ Goto(r, "store")
  <2>1. /\ LoginStep(r) /\ pc' = [pc EXCEPT ![r] = "store"] /\ answer' = answer
        /\ session' = session /\ transaction' = transaction
    BY <1>1, <1>4 DEF ExchangeCode, LoginStep, Goto
  <2>2. TypeInv' /\ KindsInv' /\ LockInv'
    <3>1. /\ session' \in {Null} \cup Generations /\ current' \in 0 .. MaxGeneration
          /\ transaction' \in BOOLEAN
      BY <1>4, <2>1, BoundsAssumption DEF IInv, TypeInv, TypeOK
    <3>2. "none" \in Answers
      BY DEF Answers
    <3>. QED  BY <1>1, <1>4, <2>1, <3>1, <3>2, LoginStepKeeps
  <2>3. ~SignedIn'
    BY <1>2, <2>1 DEF SignedIn
  <2>4. LoginInv'
    <3>1. \A c \in Callbacks : Admitted(c)' => c = r
      BY <1>1, <2>1, KindsAssumption DEF Admitted
    <3>2. \A c \in Callbacks : pc'[c] # "code"
      BY <1>1, <2>1, KindsAssumption DEF Admitted
    <3>. QED  BY <1>1, <1>4, <2>1, <2>3, <3>1, <3>2 DEF LoginInv
  <2>5. BeforeLogin' /\ DropInv' /\ ChainInv'
    <3>1. UNCHANGED <<redeemed, reused, over, mishaps, session>>
      BY <2>1 DEF LoginStep
    <3>2. \A q \in Requests : q # r => pc'[q] = pc[q]
      BY <2>1
    <3>3. pc'[r] = "store"
      BY <1>1, <2>1
    <3>4. \A q \in Requests : pc'[q] # "drop"
      BY <1>1, <1>2, <3>2, <3>3, KindsAssumption DEF IInv, BeforeLogin, KindsInv
    <3>5. BeforeLogin'
      BY <1>1, <1>2, <2>3, <3>1, <3>2 DEF IInv, BeforeLogin
    <3>6. \A q \in Requests : pc'[q] \notin Refreshing
      BY <1>1, <1>2, <3>2, <3>3, KindsAssumption DEF IInv, BeforeLogin, KindsInv, Refreshing
    <3>7. DropInv'
      BY <1>2, <3>1, <3>4, <3>6 DEF IInv, DropInv, BeforeLogin
    <3>. QED  BY <2>3, <3>5, <3>7 DEF ChainInv
  <2>. QED  BY <2>2, <2>4, <2>5 DEF IInv
<1>. QED  BY <1>3, <1>4 DEF ExchangeCode

LEMMA StoreSessionKeeps ==
  ASSUME IInv, NEW r \in Requests, StoreSession(r)
  PROVE  IInv'
<1>1. /\ r \in Callbacks /\ pc[r] = "store" /\ ~transaction /\ current = 1
      /\ \A c \in Callbacks : Admitted(c) => c = r
      /\ pc \in [Requests -> Places] /\ answer \in [Requests -> Answers]
  BY DEF StoreSession, IInv, KindsInv, LoginInv, Admitted, TypeInv, TypeOK
<1>2. ~SignedIn
  BY <1>1 DEF SignedIn, Admitted, IInv, KindsInv
<1>3. CASE UNCHANGED session /\ Finish(r, "not signed in")
  <2>1. Quiet(r, "done", held[r])
    BY <1>1, <1>3, HandlerFacts DEF Quiet, StoreSession, Finish, Places, Answers, Working, Critical, Refreshing, login, tokens
  <2>. QED  BY <2>1, QuietKeeps
<1>4. CASE session' = 1 /\ Finish(r, "signed in")
  <2>1. /\ LoginStep(r) /\ pc' = [pc EXCEPT ![r] = "done"] /\ answer' = [answer EXCEPT ![r] = "signed in"]
        /\ transaction' = transaction /\ current' = 1 /\ refreshable' = refreshable
    BY <1>1, <1>4 DEF StoreSession, LoginStep, Finish, login, tokens
  <2>2. TypeInv' /\ KindsInv' /\ LockInv'
    <3>1. /\ session' \in {Null} \cup Generations /\ current' \in 0 .. MaxGeneration
          /\ transaction' \in BOOLEAN /\ refreshable' \in BOOLEAN
      <4>1. 1 \in Generations /\ 1 \in 0 .. MaxGeneration
        BY BoundsAssumption DEF Generations
      <4>. QED  BY <1>4, <2>1, <4>1 DEF IInv, TypeInv, TypeOK
    <3>2. "signed in" \in Answers
      BY DEF Answers
    <3>. QED  BY <1>1, <1>4, <2>1, <3>1, <3>2, LoginStepKeeps
  <2>3. SignedIn'
    BY <1>1, <2>1 DEF SignedIn
  <2>4. /\ \A q \in Requests : q # r => pc'[q] = pc[q]
        /\ pc'[r] = "done"
    BY <1>1, <2>1
  <2>5. LoginInv'
    <3>1. \A c \in Callbacks : Admitted(c)' => c = r
      BY <1>1, <2>1, KindsAssumption DEF Admitted
    <3>2. \A c \in Callbacks : pc'[c] \notin {"code", "store"}
      BY <1>1, <2>1, <2>4, KindsAssumption DEF Admitted
    <3>3. ~transaction'
      BY <1>1, <2>1
    <3>4. current' = 1
      BY <2>1
    <3>5. current' >= 1
      BY <3>4
    <3>. QED  BY <3>1, <3>2, <3>3, <3>5 DEF LoginInv
  <2>6. BeforeLogin' /\ DropInv'
    BY <2>1, <2>3, <2>4 DEF IInv, BeforeLogin, DropInv, Refreshing, LoginStep
  <2>7. ChainInv'
    <3>1. \A q \in Requests : pc'[q] \notin {"exchange", "granted", "refused"}
      BY <1>2, <2>2, <2>4 DEF IInv, BeforeLogin, KindsInv
    <3>2. ~reused' /\ redeemed' = {}
      BY <1>2, <2>1 DEF IInv, BeforeLogin, LoginStep
    <3>3. session' = 1 /\ current' = 1
      BY <1>4, <2>1
    <3>4. session' = current' /\ session' # Null
      BY <3>3 DEF Null
    <3>. QED  BY <3>1, <3>2, <3>4 DEF ChainInv
  <2>. QED  BY <2>2, <2>5, <2>6, <2>7 DEF IInv
<1>. QED  BY <1>3, <1>4 DEF StoreSession

-----------------------------------------------------------------------------
(* Requests of the signed-in browser.                                      *)
LEMMA LoadKeeps ==
  ASSUME IInv, NEW r \in Requests, Load(r)
  PROVE  IInv'
<1>1. /\ r \notin Callbacks /\ pc[r] = "start" /\ SignedIn
      /\ UNCHANGED <<transaction, refreshable, over, stale, current, redeemed, reused, mishaps, force, polls, lock>>
  BY DEF Load, login, tokens
<1>2. CASE ~Readable /\ session' = Null /\ Finish(r, "401") /\ UNCHANGED held
  <2>1. Quiet(r, "done", held[r])
    BY <1>1, <1>2, HandlerFacts DEF Quiet, Finish, Places, Answers, Working, Critical, Refreshing
  <2>. QED  BY <2>1, QuietKeeps
<1>3. CASE Finish(r, "403") /\ UNCHANGED <<session, held>>
  <2>1. Quiet(r, "done", held[r])
    BY <1>1, <1>3, HandlerFacts DEF Quiet, Finish, Places, Answers, Working, Critical, Refreshing
  <2>. QED  BY <2>1, QuietKeeps
<1>4. CASE Goto(r, "logout") /\ UNCHANGED <<session, held>>
  <2>1. Quiet(r, "logout", held[r])
    BY <1>1, <1>4, HandlerFacts DEF Quiet, Goto, Places, Answers, Working, Critical, Refreshing
  <2>. QED  BY <2>1, QuietKeeps
<1>5. CASE Readable /\ UNCHANGED session /\ Continue(r, session)
  BY <1>1, <1>5, HandlerFacts, ContinueKeeps
<1>6. CASE Readable /\ UNCHANGED session /\ held' = [held EXCEPT ![r] = session]
           /\ Goto(r, IF refreshable THEN "locking" ELSE "drop")
  <2>1. Quiet(r, IF refreshable THEN "locking" ELSE "drop", session)
    BY <1>1, <1>6, HandlerFacts DEF Quiet, Goto, Places, Answers, Working, Critical, Refreshing
  <2>. QED  BY <2>1, QuietKeeps
<1>. QED  BY <1>2, <1>3, <1>4, <1>5, <1>6 DEF Load

LEMMA DropKeeps ==
  ASSUME IInv, NEW r \in Requests, Drop(r)
  PROVE  IInv'
<1>1. ~refreshable
  BY DEF IInv, DropInv, Drop
<1>. QED  BY <1>1, HandlerFacts, ContinueKeeps DEF Drop, Working, login, tokens

LEMMA UpstreamKeeps ==
  ASSUME IInv, NEW r \in Requests, Upstream(r)
  PROVE  IInv'
<1>1. /\ pc[r] = "upstream" /\ r \notin Callbacks /\ SignedIn /\ held[r] \in Generations
      /\ UNCHANGED <<transaction, refreshable, over, stale, current, redeemed, reused, mishaps, polls, lock, session>>
      /\ held' = [held EXCEPT ![r] = held[r]]
  BY HandlerFacts DEF Upstream, login, tokens, Working
<1>2. CASE (Finish(r, "ok") \/ Finish(r, "502")) /\ UNCHANGED force
  <2>1. Quiet(r, "done", held[r])
    BY <1>1, <1>2, HandlerFacts DEF Quiet, Finish, Places, Answers, Working, Critical, Refreshing
  <2>. QED  BY <2>1, QuietKeeps
<1>3. CASE refreshable /\ force' = [force EXCEPT ![r] = TRUE] /\ Goto(r, "locking")
  <2>1. Quiet(r, "locking", held[r])
    BY <1>1, <1>3, HandlerFacts DEF Quiet, Goto, Places, Answers, Working, Critical, Refreshing
  <2>. QED  BY <2>1, QuietKeeps
<1>. QED  BY <1>2, <1>3 DEF Upstream

LEMMA LogoutKeeps ==
  ASSUME IInv, NEW r \in Requests, Logout(r)
  PROVE  IInv'
<1>1. Quiet(r, "done", held[r])
  BY HandlerFacts DEF Logout, Quiet, Finish, Places, Answers, Working, Critical, Refreshing, Mishaps, login, tokens
<1>. QED  BY <1>1, QuietKeeps

-----------------------------------------------------------------------------
(* Refreshing.                                                             *)
LEMMA TryLockKeeps ==
  ASSUME IInv, NEW r \in Requests, TryLock(r)
  PROVE  IInv'
<1>1. /\ pc[r] = "locking" /\ r \notin Callbacks /\ SignedIn /\ held[r] \in Generations
      /\ UNCHANGED <<transaction, refreshable, over, stale, current, redeemed, reused, mishaps, force, session>>
      /\ held' = [held EXCEPT ![r] = held[r]]
  BY HandlerFacts DEF TryLock, login, tokens, Working
<1>2. polls' \in [Requests -> 0 .. MaxPolls]
  BY HandlerFacts, BoundsAssumption DEF TryLock
<1>3. CASE lock = Nobody /\ lock' = r /\ Goto(r, "recheck")
  <2>1. Quiet(r, "recheck", held[r])
    BY <1>1, <1>2, <1>3, HandlerFacts DEF Quiet, Goto, Places, Answers, Working, Critical, Refreshing
  <2>. QED  BY <2>1, QuietKeeps
<1>4. CASE UNCHANGED lock /\ Goto(r, "waiting")
  <2>1. Quiet(r, "waiting", held[r])
    BY <1>1, <1>2, <1>4, HandlerFacts DEF Quiet, Goto, Places, Answers, Working, Critical, Refreshing
  <2>. QED  BY <2>1, QuietKeeps
<1>. QED  BY <1>3, <1>4 DEF TryLock, LockIsFree

LEMMA PollKeeps ==
  ASSUME IInv, NEW r \in Requests, Poll(r)
  PROVE  IInv'
<1>1. /\ pc[r] = "waiting" /\ r \notin Callbacks /\ SignedIn /\ held[r] \in Generations
      /\ UNCHANGED <<transaction, refreshable, over, stale, current, redeemed, reused, mishaps, lock, force>>
      /\ session' = session \/ (session' = Null /\ (mishaps # {} \/ ~refreshable))
      /\ session' \in Generations \cup {Null, Unavailable, Failed}
  BY HandlerFacts DEF Poll, login, tokens, Working
<1>2. polls' \in [Requests -> 0 .. MaxPolls]
  BY BoundsAssumption DEF Poll, MayPoll, IInv, TypeInv, TypeOK
<1>3. CASE UNCHANGED <<pc, held, answer>>
  <2>1. Quiet(r, "waiting", held[r])
    <3>1. pc' = [pc EXCEPT ![r] = "waiting"] /\ held' = [held EXCEPT ![r] = held[r]] /\ answer' = answer
      BY <1>1, <1>3 DEF IInv, TypeInv, TypeOK
    <3>. QED  BY <1>1, <1>2, <3>1, HandlerFacts DEF Quiet, Places, Working, Critical, Refreshing
  <2>. QED  BY <2>1, QuietKeeps
<1>4. CASE Continue(r, session')
  <2>1. force' \in [Requests -> BOOLEAN]
    BY <1>1, HandlerFacts
  <2>2. PICK s \in Generations \cup {Null, Unavailable, Failed} : s = session'
    BY <1>1
  <2>3. Continue(r, s)
    BY <1>4, <2>2 DEF Continue, Finish, Goto, Null, Unavailable
  <2>. QED  BY <1>1, <1>2, <2>1, <2>3, ContinueKeeps
<1>. QED  BY <1>3, <1>4 DEF Poll

LEMMA PollsExhaustedKeeps ==
  ASSUME IInv, NEW r \in Requests, PollsExhausted(r)
  PROVE  IInv'
BY HandlerFacts, ContinueKeeps DEF PollsExhausted, Working, login, tokens

LEMMA RecheckKeeps ==
  ASSUME IInv, NEW r \in Requests, Recheck(r)
  PROVE  IInv'
<1>1. /\ pc[r] = "recheck" /\ r \notin Callbacks /\ SignedIn /\ held[r] \in Generations
      /\ UNCHANGED <<transaction, refreshable, over, stale, current, redeemed, reused, mishaps, lock, force, polls>>
  BY HandlerFacts DEF Recheck, login, tokens, Working
<1>2. /\ session' = session \/ (session' = Null /\ (mishaps # {} \/ ~refreshable))
      /\ Latest(r) \in Generations
      /\ Latest(r) = session' \/ mishaps # {} \/ ~refreshable
  BY <1>1, HandlerFacts DEF Recheck, Latest
<1>3. CASE Goto(r, "release")
  <2>1. Quiet(r, "release", Latest(r))
    BY <1>1, <1>2, <1>3, HandlerFacts DEF Recheck, Quiet, Goto, Places, Working, Critical, Refreshing
  <2>. QED  BY <2>1, QuietKeeps
<1>4. CASE Goto(r, "exchange")
  <2>1. Quiet(r, "exchange", Latest(r))
    BY <1>1, <1>2, <1>4, HandlerFacts DEF Recheck, Quiet, Goto, Places, Working, Critical, Refreshing
  <2>. QED  BY <2>1, QuietKeeps
<1>. QED  BY <1>3, <1>4 DEF Recheck

LEMMA UnansweredKeeps ==
  ASSUME IInv, NEW r \in Requests, Unanswered(r)
  PROVE  IInv'
<1>1. /\ pc[r] \in Working \cap Critical
      /\ UNCHANGED <<transaction, refreshable, over, stale, current, redeemed, reused, lock, force, polls, session>>
  BY DEF Unanswered, Working, Critical, Refreshing, login, tokens
<1>2. mishaps \subseteq mishaps' /\ mishaps' \subseteq Mishaps /\ (pc[r] = "granted" => mishaps' # {})
  BY HandlerFacts DEF Unanswered, Mishaps
<1>3. Quiet(r, "release", Unavailable)
  BY <1>1, <1>2, HandlerFacts DEF Unanswered, Quiet, Goto, Places, Working, Critical, Refreshing
<1>. QED  BY <1>3, QuietKeeps

LEMMA UnverifiedKeeps ==
  ASSUME IInv, NEW r \in Requests, Unverified(r)
  PROVE  IInv'
<1>1. Quiet(r, "refused", held[r])
  BY HandlerFacts DEF Unverified, Quiet, Goto, Places, Answers, Working, Critical, Refreshing, Mishaps, login, tokens
<1>. QED  BY <1>1, QuietKeeps

LEMMA DeleteRefusedKeeps ==
  ASSUME IInv, NEW r \in Requests, DeleteRefused(r)
  PROVE  IInv'
<1>1. Quiet(r, "release", Null)
  BY HandlerFacts DEF DeleteRefused, Quiet, Goto, Places, Answers, Working, Critical, Refreshing, login, tokens
<1>. QED  BY <1>1, QuietKeeps

LEMMA ReleaseKeeps ==
  ASSUME IInv, NEW r \in Requests, Release(r)
  PROVE  IInv'
BY HandlerFacts, ContinueKeeps DEF Release, login, tokens

LEMMA DiesKeeps ==
  ASSUME IInv, NEW r \in Requests, Dies(r)
  PROVE  IInv'
<1>1. /\ mishaps \subseteq mishaps' /\ mishaps' \subseteq Mishaps /\ (pc[r] = "granted" => mishaps' # {})
      /\ pc[r] \notin {"start", "done"}
  BY HandlerFacts DEF Dies, Mishaps
<1>2. r \notin Callbacks => SignedIn
  BY <1>1 DEF IInv, BeforeLogin
<1>3. Quiet(r, "done", held[r])
  BY <1>1, <1>2, HandlerFacts DEF Dies, Quiet, Finish, Places, Answers, Working, Critical, Refreshing, login, tokens
<1>. QED  BY <1>3, QuietKeeps

-----------------------------------------------------------------------------
(* At Passport.                                                            *)
LEMMA PresentKeeps ==
  ASSUME IInv, NEW r \in Requests, Present(r)
  PROVE  IInv'
<1>1. /\ pc[r] = "exchange" /\ r \notin Callbacks /\ SignedIn /\ held[r] \in Generations
      /\ UNCHANGED <<transaction, refreshable, session, over, lock, stale, held, force, polls>>
      /\ redeemed' = redeemed \cup {held[r]}
      /\ reused' = (reused \/ held[r] \in redeemed)
      /\ answer' = answer
  BY HandlerFacts DEF Present, Goto, login, Working
<1>2. PICK p \in {"granted", "refused"} :
         /\ pc' = [pc EXCEPT ![r] = p]
         /\ p = "granted" => /\ held[r] = current /\ ~reused /\ current < MaxGeneration
                             /\ current' = current + 1 /\ mishaps' = mishaps
         /\ p = "refused" => current' = current
         /\ (p = "refused" /\ mishaps' = {}) => held[r] # current \/ reused
         /\ mishaps \subseteq mishaps' /\ mishaps' \subseteq mishaps \cup {"withdrawn"}
  BY <1>1 DEF Present, Goto
<1>3. /\ \A q \in Requests : pc'[q] = IF q = r THEN p ELSE pc[q]
      /\ pc \in [Requests -> Places] /\ current \in 0 .. MaxGeneration
      /\ pc' \in [Requests -> Places]
  BY <1>2 DEF IInv, TypeInv, TypeOK, Places
<1>4. TypeInv'
  <2>1. current' \in 0 .. MaxGeneration
    BY <1>2, <1>3, BoundsAssumption
  <2>2. TypeOK'
    BY <1>1, <1>2, <1>3, <2>1 DEF IInv, TypeInv, TypeOK, Mishaps
  <2>3. HoldersHaveRecords'
    BY <1>1, <1>2, <1>3 DEF IInv, TypeInv, HoldersHaveRecords, Working
  <2>. QED  BY <2>2, <2>3 DEF TypeInv
<1>5. KindsInv'
  BY <1>1, <1>3 DEF IInv, KindsInv
<1>6. SignedIn' /\ current >= 1
  BY <1>1 DEF SignedIn, IInv, LoginInv
<1>7. LoginInv'
  <2>1. \A c \in Callbacks : Admitted(c)' <=> Admitted(c)
    BY <1>1, <1>3, KindsAssumption DEF Admitted
  <2>2. PICK d \in Callbacks : answer[d] = "signed in" /\ pc[d] = "done"
    BY <1>1, KindsAssumption DEF SignedIn, IInv, KindsInv
  <2>3. ~transaction /\ \A c \in Callbacks : pc[c] \notin {"code", "store"}
    BY <2>2 DEF IInv, LoginInv, Admitted
  <2>4. ~transaction' /\ \A c \in Callbacks : pc'[c] \notin {"code", "store"}
    BY <1>1, <1>3, <2>3, KindsAssumption
  <2>5. current' >= 1
    BY <1>2, <1>3, <1>6
  <2>. QED  BY <2>1, <2>4, <2>5 DEF IInv, LoginInv
<1>8. BeforeLogin' /\ DropInv'
  BY <1>1, <1>2, <1>3, <1>6 DEF IInv, BeforeLogin, DropInv, Refreshing
<1>9. LockInv'
  BY <1>1, <1>2, <1>3 DEF IInv, LockInv, Critical
<1>10. ChainInv'
  <2> SUFFICES ASSUME refreshable', mishaps' = {}
               PROVE  /\ ~reused' /\ session' # Null
                      /\ \A g \in redeemed' : g < current'
                      /\ (\A q \in Requests : pc'[q] # "granted") => session' = current'
                      /\ \A q \in Requests :
                           /\ pc'[q] = "exchange" => held'[q] = session'
                           /\ pc'[q] = "granted" => held'[q] = session' /\ current' = session' + 1
                           /\ pc'[q] # "refused"
    BY DEF ChainInv
  <2>1. mishaps = {} /\ refreshable
    BY <1>1, <1>2
  <2>2. /\ ~reused /\ session # Null /\ held[r] = session
        /\ \A g \in redeemed : g < current
        /\ \A q \in Requests : pc[q] = "exchange" => held[q] = session
        /\ \A q \in Requests : pc[q] # "refused"
    BY <1>1, <2>1 DEF IInv, ChainInv
  <2>3. \A q \in Requests : pc[q] # "granted"
    BY <1>1, <2>1 DEF IInv, LockInv, Critical
  <2>4. session = current
    BY <1>1, <2>1, <2>3 DEF IInv, ChainInv
  <2>5. p = "granted" /\ current' = current + 1
    BY <1>2, <2>2, <2>4
  <2>6. held[r] \notin redeemed
    BY <1>3, <2>2, <2>4
  <2>7. \A g \in redeemed' : g < current'
    BY <1>1, <1>3, <2>2, <2>4, <2>5 DEF IInv, TypeInv, TypeOK, Generations
  <2>8. \A q \in Requests : pc'[q] = "granted" <=> q = r
    BY <1>3, <2>3, <2>5
  <2>. QED  BY <1>1, <1>3, <2>2, <2>4, <2>5, <2>6, <2>7, <2>8
<1>. QED  BY <1>4, <1>5, <1>7, <1>8, <1>9, <1>10 DEF IInv

(* The session is stored while its grant is at hand: by its holder, or by a *)
(* save of which nobody hears.                                              *)
LEMMA StoredKeeps ==
  ASSUME IInv, NEW r \in Requests, pc[r] = "granted",
         NEW h \in {Unavailable} \cup Generations,
         session' \in {session, Merged(r)}, held' = [held EXCEPT ![r] = h],
         (session' = Merged(r) /\ h = Merged(r)) \/ mishaps' # {},
         pc' = [pc EXCEPT ![r] = "release"], answer' = answer,
         mishaps \subseteq mishaps', mishaps' \subseteq Mishaps,
         UNCHANGED <<login, over, lock, tokens, force, polls>>
  PROVE  IInv'
<1>1. /\ r \notin Callbacks /\ SignedIn /\ held[r] \in Generations /\ held[r] < MaxGeneration
  BY HandlerFacts DEF Working, IInv, TypeInv, HoldersHaveRecords
<1>2. /\ \A q \in Requests : pc'[q] = IF q = r THEN "release" ELSE pc[q]
      /\ \A q \in Requests : held'[q] = IF q = r THEN h ELSE held[q]
      /\ pc' \in [Requests -> Places]
      /\ held' \in [Requests -> {Null, Unavailable, Failed} \cup Generations]
  BY DEF IInv, TypeInv, TypeOK, Places
<1>3. Merged(r) \in Generations
  BY <1>1, BoundsAssumption DEF Merged, Generations
<1>4. TypeInv'
  <2>1. TypeOK'
    BY <1>2, <1>3 DEF IInv, TypeInv, TypeOK, login, tokens
  <2>2. HoldersHaveRecords'
    BY <1>2 DEF IInv, TypeInv, HoldersHaveRecords, Working
  <2>. QED  BY <2>1, <2>2 DEF TypeInv
<1>5. KindsInv' /\ (SignedIn' <=> SignedIn)
  BY <1>1, <1>2 DEF IInv, KindsInv, SignedIn
<1>6. LoginInv'
  <2>1. \A c \in Callbacks : Admitted(c)' <=> Admitted(c)
    BY <1>1, <1>2, KindsAssumption DEF Admitted
  <2>2. \A c \in Callbacks : pc'[c] = pc[c]
    BY <1>1, <1>2, KindsAssumption
  <2>. QED  BY <1>5, <2>1, <2>2 DEF IInv, LoginInv, login, tokens
<1>7. BeforeLogin' /\ DropInv'
  BY <1>1, <1>2, <1>5 DEF IInv, BeforeLogin, DropInv, Refreshing, login, tokens
<1>8. LockInv'
  BY <1>2 DEF IInv, LockInv, Critical
<1>9. ChainInv'
  <2>1. CASE mishaps' # {}
    BY <2>1 DEF ChainInv
  <2>2. CASE mishaps' = {} /\ ~refreshable'
    BY <2>2 DEF ChainInv
  <2>3. CASE mishaps' = {} /\ refreshable'
    <3>1. mishaps = {} /\ refreshable
      BY <2>3 DEF login
    <3>2. /\ ~reused /\ held[r] = session /\ current = session + 1
          /\ \A g \in redeemed : g < current
          /\ \A q \in Requests : pc[q] # "refused"
      BY <1>1, <3>1 DEF IInv, ChainInv
    <3>3. \A q \in Requests : q # r => pc[q] \notin {"exchange", "granted"}
      BY <3>1 DEF IInv, LockInv, Critical
    <3>4. session' = current' /\ session' # Null
      BY <1>3, <2>3, <3>2 DEF Merged, tokens, Generations, Null
    <3>5. \A q \in Requests : pc'[q] \notin {"exchange", "granted", "refused"}
      BY <1>2, <3>2, <3>3
    <3>. QED  BY <3>2, <3>4, <3>5 DEF ChainInv, tokens
  <2>. QED  BY <2>1, <2>2, <2>3
<1>. QED  BY <1>4, <1>5, <1>6, <1>7, <1>8, <1>9 DEF IInv

LEMMA SaveRefreshedKeeps ==
  ASSUME IInv, NEW r \in Requests, SaveRefreshed(r)
  PROVE  IInv'
<1>1. held[r] \in Generations /\ held[r] < MaxGeneration
  BY DEF IInv, TypeInv, HoldersHaveRecords, SaveRefreshed, Working
<1>2. Merged(r) \in Generations
  BY <1>1, BoundsAssumption DEF Merged, Generations
<1>3. mishaps' = mishaps /\ mishaps \subseteq Mishaps
  BY DEF SaveRefreshed, IInv, TypeInv, TypeOK
<1>. QED  BY <1>2, <1>3, StoredKeeps DEF SaveRefreshed, Goto

LEMMA StoreFailsKeeps ==
  ASSUME IInv, NEW r \in Requests, StoreFails(r)
  PROVE  IInv'
<1>1. UNCHANGED <<transaction, refreshable, over, stale, current, redeemed, reused, lock, force, polls>>
  BY DEF StoreFails, login, tokens
<1>2. CASE pc[r] \in {"locking", "waiting", "drop", "release"} /\ Continue(r, Failed) /\ UNCHANGED <<session, mishaps>>
  BY <1>1, <1>2, HandlerFacts, ContinueKeeps DEF Working
<1>3. CASE pc[r] \in {"recheck", "refused"} /\ held' = [held EXCEPT ![r] = Failed] /\ Goto(r, "release")
           /\ UNCHANGED <<session, mishaps>>
  <2>1. Quiet(r, "release", Failed)
    BY <1>1, <1>3, HandlerFacts DEF Quiet, Goto, Places, Working, Critical, Refreshing
  <2>. QED  BY <2>1, QuietKeeps
<1>4. CASE pc[r] = "granted" /\ session' \in {session, Merged(r)} /\ mishaps' = mishaps \cup {"lost"}
           /\ held' = [held EXCEPT ![r] = Unavailable] /\ Goto(r, "release")
  <2>1. mishaps' # {} /\ mishaps \subseteq mishaps' /\ mishaps' \subseteq Mishaps
    BY <1>4, HandlerFacts DEF Mishaps
  <2>. QED  BY <1>1, <1>4, <2>1, StoredKeeps DEF Goto, login, tokens
<1>5. CASE pc[r] = "logout" /\ Finish(r, "500") /\ UNCHANGED <<session, held, mishaps>>
  <2>1. Quiet(r, "done", held[r])
    BY <1>1, <1>5, HandlerFacts DEF Quiet, Finish, Places, Answers, Working, Critical, Refreshing
  <2>. QED  BY <2>1, QuietKeeps
<1>. QED  BY <1>2, <1>3, <1>4, <1>5 DEF StoreFails

-----------------------------------------------------------------------------
(* The clock.                                                              *)
LEMMA ClockKeeps ==
  ASSUME IInv, TransactionExpires \/ TokenAges \/ SessionExpires \/ LockLapses
  PROVE  IInv'
<1>1. UNCHANGED <<refreshable, current, redeemed, reused, pc, held, force, polls, answer>>
  BY DEF TransactionExpires, TokenAges, SessionExpires, LockLapses, login, tokens
<1>2. /\ transaction' \in BOOLEAN /\ over' \in BOOLEAN /\ stale' \subseteq Generations
      /\ session' \in {session, Null} /\ lock' \in {lock, Nobody}
      /\ mishaps \subseteq mishaps' /\ mishaps' \subseteq Mishaps
      /\ transaction' => transaction
      /\ session' # session => mishaps' # {}
      /\ over' => over \/ mishaps' # {}
  <2>1. CASE TransactionExpires
    BY <2>1 DEF TransactionExpires, IInv, TypeInv, TypeOK, login, tokens
  <2>2. CASE TokenAges
    <3>1. stale' \subseteq Generations
      BY <2>2, BoundsAssumption DEF TokenAges, IInv, TypeInv, TypeOK, Generations
    <3>. QED  BY <2>2, <3>1 DEF TokenAges, IInv, TypeInv, TypeOK, login
  <2>3. CASE SessionExpires
    BY <2>3 DEF SessionExpires, IInv, TypeInv, TypeOK, Mishaps, login, tokens
  <2>4. CASE LockLapses
    BY <2>4 DEF LockLapses, IInv, TypeInv, TypeOK, Mishaps, login, tokens
  <2>. QED  BY <2>1, <2>2, <2>3, <2>4
<1>3. TypeInv'
  <2>1. TypeOK'
    BY <1>1, <1>2 DEF IInv, TypeInv, TypeOK
  <2>. QED  BY <1>1, <2>1 DEF IInv, TypeInv, HoldersHaveRecords
<1>4. KindsInv' /\ (SignedIn' <=> SignedIn)
  BY <1>1 DEF IInv, KindsInv, SignedIn
<1>5. LoginInv'
  <2>1. \A c \in Callbacks : Admitted(c)' <=> Admitted(c)
    BY <1>1 DEF Admitted
  <2>. QED  BY <1>1, <1>2, <1>4, <2>1 DEF IInv, LoginInv
<1>6. BeforeLogin'
  <2>1. ~SignedIn => session' = Null
    BY <1>2 DEF IInv, BeforeLogin
  <2>. QED  BY <1>1, <1>4, <2>1 DEF IInv, BeforeLogin
<1>7. DropInv'
  BY <1>1, <1>2 DEF IInv, DropInv
<1>8. LockInv'
  <2>1. CASE LockLapses
    <3>1. lock # Nobody /\ lock \in Requests
      BY <2>1 DEF LockLapses, IInv, TypeInv, TypeOK
    <3>2. CASE pc[lock] \in Critical
      BY <2>1, <3>2 DEF LockLapses, LockInv
    <3>3. CASE pc[lock] \notin Critical
      BY <1>1, <2>1, <3>3 DEF LockLapses, IInv, LockInv
    <3>. QED  BY <3>2, <3>3
  <2>2. CASE ~LockLapses
    <3>1. lock' = lock
      BY <2>2 DEF TransactionExpires, TokenAges, SessionExpires
    <3>. QED  BY <1>1, <1>2, <3>1 DEF IInv, LockInv
  <2>. QED  BY <2>1, <2>2
<1>9. ChainInv'
  <2>1. CASE mishaps' # {}
    BY <2>1 DEF ChainInv
  <2>2. CASE mishaps' = {}
    <3>1. session' = session /\ mishaps = {}
      BY <1>2, <2>2
    <3>. QED  BY <1>1, <1>4, <3>1 DEF IInv, ChainInv
  <2>. QED  BY <2>1, <2>2
<1>. QED  BY <1>3, <1>4, <1>5, <1>6, <1>7, <1>8, <1>9 DEF IInv

-----------------------------------------------------------------------------
LEMMA NextKeeps ==
  ASSUME IInv, [Next]_vars
  PROVE  IInv'
<1>1. CASE UNCHANGED vars
  BY <1>1 DEF vars, login, tokens, IInv, TypeInv, TypeOK, HoldersHaveRecords, KindsInv, LoginInv,
     Admitted, BeforeLogin, SignedIn, DropInv, LockInv, ChainInv
<1>2. ASSUME NEW r \in Requests, Step(r) PROVE IInv'
  BY <1>2, CallbackRefusedKeeps, TakeTransactionKeeps, ExchangeCodeKeeps, StoreSessionKeeps, LoadKeeps,
     DropKeeps, UpstreamKeeps, LogoutKeeps, TryLockKeeps, PollKeeps, PollsExhaustedKeeps, RecheckKeeps,
     PresentKeeps, UnansweredKeeps, SaveRefreshedKeeps, DeleteRefusedKeeps, ReleaseKeeps DEF Step
<1>3. ASSUME NEW r \in Requests, Fault(r) PROVE IInv'
  BY <1>3, UnverifiedKeeps, StoreFailsKeeps, DiesKeeps DEF Fault
<1>. QED  BY <1>1, <1>2, <1>3, ClockKeeps DEF Next

LEMMA Inductive == Spec => []IInv
BY InitIInv, NextKeeps, PTL DEF Spec

(* Every variable of the session keeps its range, whatever the number of   *)
(* handlers.                                                               *)
THEOREM TypeCorrect == Spec => []TypeOK
<1>1. IInv => TypeOK
  BY DEF IInv, TypeInv
<1>. QED  BY <1>1, Inductive, PTL

(* Handlers that only race never present a refresh token twice             *)
(* (session.ts, ensureFreshSession).                                       *)
THEOREM NoReuseByRacing == Spec => []ReuseNeedsMishap
<1>1. IInv => (SignedIn \/ ~reused)
  BY DEF IInv, BeforeLogin
<1>2. IInv => (reused => refreshable)
  BY DEF IInv, DropInv
<1>3. IInv => ReuseNeedsMishap
  BY <1>1, <1>2 DEF IInv, ChainInv, ReuseNeedsMishap
<1>. QED  BY <1>3, Inductive, PTL

(* Handlers that only race never sign the user out.                        *)
THEOREM NoSignOutByRacing == Spec => []SignOutNeedsMishap
<1>1. IInv => SignOutNeedsMishap
  BY DEF IInv, ChainInv, SignOutNeedsMishap
<1>. QED  BY <1>1, Inductive, PTL

(* The stored tokens are the ones Passport exchanges next.                 *)
THEOREM StoredTokensCurrent == Spec => []StoredTokensAreCurrent
<1>1. IInv => StoredTokensAreCurrent
  BY DEF IInv, ChainInv, StoredTokensAreCurrent
<1>. QED  BY <1>1, Inductive, PTL
=============================================================================
