------------------------- MODULE MediaStreamProofs -------------------------
(***************************************************************************)
(* Theorems about RequestHandler and MediaStream: whatever threads share   *)
(* the token, none sends one that has expired, and however many requests   *)
(* for a media configuration overlap, one worker runs.                     *)
(***************************************************************************)
EXTENDS MediaStream, TLAPS

\* What the margin pays for.  The expiry that is stored may belong to another
\* login than the token beside it, and is then late by less than two logins.
Slack == 2 * LoginDelay

Ages ==
    /\ age \in 0..Lifetime /\ expiresIn \in 0..Lifetime
    /\ stage \in [Threads -> Stages]
    /\ carried \in [Threads -> 0..Lifetime]
    /\ waited \in [Threads -> 0..SendDelay]
    /\ loginFailed \in [Threads -> BOOLEAN]

ExpiryNearAge == expiresIn + age <= Lifetime + Slack

LoginsAreShort ==
    \A t \in Threads :
        /\ stage[t] \in {"issued", "stored"} => carried[t] <= LoginDelay
        /\ stage[t] = "stored" => age <= carried[t] + LoginDelay

RequestsAreShort ==
    \A t \in Threads : ~loginFailed[t] =>
        /\ stage[t] = "token" => age + Margin < Lifetime + Slack + waited[t]
        /\ stage[t] = "sent" => carried[t] + Margin < Lifetime + Slack + waited[t]

TokenInv == Ages /\ ExpiryNearAge /\ LoginsAreShort /\ RequestsAreShort

USE DelayAssumption

LEMMA TokenInvInit == HandlerInit => TokenInv
  BY DEF HandlerInit, TokenInv, Ages, ExpiryNearAge, LoginsAreShort,
         RequestsAreShort, Slack, Stages

LEMMA TokenInvThread ==
  ASSUME TokenInv, NEW t \in Threads,
         \/ GetToken(t) \/ LoginIssued(t) \/ LoginRefused(t) \/ LoginRaises(t)
         \/ StoreToken(t) \/ StoreExpiry(t) \/ TakeToken(t) \/ RequestEnds(t)
  PROVE  TokenInv'
<1> USE DEF TokenInv, Ages, ExpiryNearAge, LoginsAreShort, RequestsAreShort,
            Slack, Stages, StageTo, Carries, Returns, Done
<1>1. CASE GetToken(t)
  <2>1. CASE expiresIn > Margin
    <3>1. age + Margin < Lifetime + Slack
      BY <2>1
    <3>2. Ages'
      <4>1. /\ stage' = [stage EXCEPT ![t] = "token"]
            /\ waited' = [waited EXCEPT ![t] = 0]
            /\ loginFailed' = [loginFailed EXCEPT ![t] = FALSE]
            /\ UNCHANGED <<age, expiresIn, carried>>
        BY <1>1, <2>1 DEF GetToken
      <4>2. /\ stage' \in [Threads -> Stages]
            /\ loginFailed' \in [Threads -> BOOLEAN]
        BY <4>1
      <4>3. waited' \in [Threads -> 0..SendDelay]
        BY <4>1
      <4>4. QED
        BY <4>1, <4>2, <4>3
    <3>3. ExpiryNearAge'
      BY <1>1 DEF GetToken
    <3>4. LoginsAreShort'
      BY <1>1, <2>1 DEF GetToken
    <3>5. RequestsAreShort'
      BY <1>1, <2>1, <3>1 DEF GetToken
    <3>6. QED
      BY <3>2, <3>3, <3>4, <3>5
  <2>2. CASE ~(expiresIn > Margin)
    BY <1>1, <2>2 DEF GetToken
  <2>3. QED
    BY <2>1, <2>2
<1>2. CASE LoginIssued(t)
  BY <1>2 DEF LoginIssued
<1>3. CASE LoginRefused(t)
  BY <1>3 DEF LoginRefused
<1>4. CASE LoginRaises(t)
  BY <1>4 DEF LoginRaises
<1>5. CASE StoreToken(t)
  BY <1>5 DEF StoreToken
<1>6. CASE StoreExpiry(t)
  BY <1>6 DEF StoreExpiry
<1>7. CASE TakeToken(t)
  BY <1>7 DEF TakeToken
<1>8. CASE RequestEnds(t)
  BY <1>8 DEF RequestEnds
<1>9. QED
  BY <1>1, <1>2, <1>3, <1>4, <1>5, <1>6, <1>7, <1>8

LEMMA TokenInvTick == TokenInv /\ HandlerTick => TokenInv'
<1> SUFFICES ASSUME TokenInv, HandlerTick PROVE TokenInv'
  OBVIOUS
<1> USE DEF TokenInv, Ages, ExpiryNearAge, LoginsAreShort, RequestsAreShort,
            Slack, HandlerTick, Older
<1>1. Ages'
  OBVIOUS
<1>2. ExpiryNearAge'
  OBVIOUS
<1>3. LoginsAreShort'
  OBVIOUS
<1>4. RequestsAreShort'
  OBVIOUS
<1>5. QED
  BY <1>1, <1>2, <1>3, <1>4

\* The three facts together: TokenInv is an invariant, and implies the property.
LEMMA TokenInvNext == TokenInv /\ [HandlerNext]_handlerVars => TokenInv'
<1> SUFFICES ASSUME TokenInv, [HandlerNext]_handlerVars PROVE TokenInv'
  OBVIOUS
<1>1. CASE HandlerTick
  BY <1>1, TokenInvTick
<1>2. CASE \E t \in Threads :
              \/ GetToken(t) \/ LoginIssued(t) \/ LoginRefused(t) \/ LoginRaises(t)
              \/ StoreToken(t) \/ StoreExpiry(t) \/ TakeToken(t) \/ RequestEnds(t)
  BY <1>2, TokenInvThread
<1>3. CASE UNCHANGED handlerVars
  BY <1>3 DEF handlerVars, TokenInv, Ages, ExpiryNearAge, LoginsAreShort,
              RequestsAreShort, Slack
<1>4. QED
  BY <1>1, <1>2, <1>3 DEF HandlerNext

LEMMA TokenInvFresh == TokenInv => TokenIsFresh
  BY DEF TokenInv, Ages, RequestsAreShort, Slack, TokenIsFresh

LEMMA HandlerTokenInv == HandlerSpec => []TokenInv
  BY TokenInvInit, TokenInvNext, PTL DEF HandlerSpec

\* A request never carries an expired token, unless its own login was refused:
\* for any number of threads and any interleaving of their logins, if the margin
\* of get_token covers two logins and the way of a request.
THEOREM HandlerTokenFresh == HandlerSpec => []TokenIsFresh
  BY HandlerTokenInv, TokenInvFresh, PTL

-----------------------------------------------------------------------------
(* MediaStream drives RequestHandler as HandlerSpec says, so that what was *)
(* proved of any threads holds for its own.                                *)

LEMMA StreamStepsHandler == [Next]_vars => [HandlerNext]_handlerVars
<1> SUFFICES ASSUME [Next]_vars PROVE [HandlerNext]_handlerVars
  OBVIOUS
<1> USE ThreadsAssumption
<1>1. ASSUME NEW t \in Threads, RequestToken(t) \/ RequestRaises(t)
      PROVE  HandlerNext
  BY <1>1 DEF RequestToken, RequestRaises, HandlerNext
<1>2. ASSUME NEW c \in Callers, CallerStep(c)
      PROVE  [HandlerNext]_handlerVars
  <2>1. CASE Call(c) \/ AcquireLock(c) \/ CheckWorker(c) \/ StartWorker(c)
    BY <2>1 DEF Call, AcquireLock, CheckWorker, StartWorker, handlerVars
  <2>2. CASE RequestToken(c) \/ RequestRaises(c)
    BY <2>2, <1>1
  <2>3. CASE LiveviewAnswered(c)
    BY <2>3 DEF LiveviewAnswered, HandlerNext
  <2>4. QED
    BY <1>2, <2>1, <2>2, <2>3 DEF CallerStep
<1>3. ASSUME NEW w \in Workers, WorkerStep(w)
      PROVE  [HandlerNext]_handlerVars
  <2>1. CASE WorkerChecks(w) \/ WorkerWakes(w)
    BY <2>1 DEF WorkerChecks, WorkerWakes, handlerVars
  <2>2. CASE RequestToken(w) \/ RequestRaises(w)
    BY <2>2, <1>1
  <2>3. CASE SourcesAnswered(w) \/ TracksAnswered(w)
    BY <2>3 DEF SourcesAnswered, TracksAnswered, HandlerNext
  <2>4. QED
    BY <1>3, <2>1, <2>2, <2>3 DEF WorkerStep
<1>4. CASE Tick
  BY <1>4 DEF Tick, HandlerNext
<1>5. CASE UpOrDown
  BY <1>5 DEF UpOrDown
<1>6. CASE UNCHANGED vars
  BY <1>6 DEF vars
<1>7. QED
  BY <1>2, <1>3, <1>4, <1>5, <1>6 DEF Next

LEMMA StreamImplementsHandler == Spec => HandlerSpec
<1>1. Init => HandlerInit
  BY DEF Init
<1>2. QED
  BY <1>1, StreamStepsHandler, PTL DEF Spec, HandlerSpec

\* TokenIsFresh for the threads of MediaStream: the requests of the worker and
\* of those who ask for a configuration do not send an expired token.
THEOREM StreamTokenFresh == Spec => []TokenIsFresh
  BY StreamImplementsHandler, HandlerTokenFresh, PTL

-----------------------------------------------------------------------------
(* One worker.                                                             *)

Places ==
    /\ call \in [Callers -> {"idle", "activate", "locked", "start", "liveview"}]
    /\ place \in [Workers -> {"none", "loop", "sources", "tracks", "keepalive", "retry"}]
    /\ stage \in [Threads -> Stages]

\* A caller is behind the lock only as its holder, and starts a worker only when
\* there is none.
LockGuards ==
    \A c \in Callers :
        /\ call[c] \in {"locked", "start"} => lock = c
        /\ call[c] = "start" => \A w \in Workers : ~Alive(w)

\* A worker that has ended has no request under way with which to come back.
RequestsOfWorkers ==
    \A w \in Workers : stage[w] # "idle" => place[w] \in {"sources", "tracks"}

WorkerInv == Places /\ LockGuards /\ RequestsOfWorkers /\ OneWorker

LEMMA WorkerInvInit == Init => WorkerInv
  BY ThreadsAssumption
  DEF Init, HandlerInit, WorkerInv, Places, LockGuards, RequestsOfWorkers,
      OneWorker, Alive, Stages

LEMMA WorkerInvCaller ==
  ASSUME WorkerInv, NEW c \in Callers, CallerStep(c)
  PROVE  WorkerInv'
<1> USE ThreadsAssumption DEF WorkerInv, Places, LockGuards, RequestsOfWorkers,
        OneWorker, Alive, CallTo, WorkerTo, Timers
<1>1. CASE Call(c)
  BY <1>1 DEF Call, handlerVars
<1>2. CASE AcquireLock(c)
  BY <1>2 DEF AcquireLock, handlerVars
<1>3. CASE CheckWorker(c)
  BY <1>3 DEF CheckWorker, Unlock, ThreadAlive, handlerVars
<1>4. CASE StartWorker(c)
  <2>1. PICK w : /\ thread' = w
                 /\ place' = [place EXCEPT ![w] = "loop"]
    BY <1>4 DEF StartWorker
  <2>2. /\ call[c] = "start"
        /\ lock' = None /\ call' = [call EXCEPT ![c] = "liveview"]
        /\ UNCHANGED stage
    BY <1>4 DEF StartWorker, Unlock, handlerVars
  <2>3. LockGuards'
    BY <2>2
  <2>4. Places' /\ RequestsOfWorkers' /\ OneWorker'
    BY <2>1, <2>2
  <2>5. QED
    BY <2>3, <2>4
<1>5. CASE RequestToken(c)
  BY <1>5 DEF RequestToken, Requesting, GetToken, LoginIssued, StoreToken,
              StoreExpiry, TakeToken, LoginRefused, Returns, StageTo, streamVars,
              Stages
<1>6. CASE RequestRaises(c)
  BY <1>6 DEF RequestRaises, LoginRaises, Done, StageTo, Stages
<1>7. CASE LiveviewAnswered(c)
  BY <1>7 DEF LiveviewAnswered, RequestEnds, Done, StageTo, Stages
<1>8. QED
  BY <1>1, <1>2, <1>3, <1>4, <1>5, <1>6, <1>7 DEF CallerStep

LEMMA WorkerInvWorker ==
  ASSUME WorkerInv, NEW w \in Workers, WorkerStep(w)
  PROVE  WorkerInv'
<1> USE ThreadsAssumption DEF WorkerInv, Places, LockGuards, RequestsOfWorkers,
        OneWorker, Alive, WorkerTo, WorkersOnly, Ends
<1>1. CASE WorkerChecks(w)
  BY <1>1 DEF WorkerChecks, handlerVars
<1>2. CASE SourcesAnswered(w)
  BY <1>2 DEF SourcesAnswered, AttemptFails, RequestEnds, Done, StageTo, Stages
<1>3. CASE TracksAnswered(w)
  BY <1>3 DEF TracksAnswered, AttemptFails, RequestEnds, Done, StageTo, Stages
<1>4. CASE WorkerWakes(w)
  BY <1>4 DEF WorkerWakes, handlerVars
<1>5. CASE RequestToken(w)
  BY <1>5 DEF RequestToken, Requesting, GetToken, LoginIssued, StoreToken,
              StoreExpiry, TakeToken, LoginRefused, Returns, StageTo, streamVars,
              Stages
<1>6. CASE RequestRaises(w)
  BY <1>6 DEF RequestRaises, LoginRaises, AttemptFails, Done, StageTo, Stages
<1>7. QED
  BY <1>1, <1>2, <1>3, <1>4, <1>5, <1>6 DEF WorkerStep

LEMMA WorkerInvNext == WorkerInv /\ [Next]_vars => WorkerInv'
<1> SUFFICES ASSUME WorkerInv, [Next]_vars PROVE WorkerInv'
  OBVIOUS
<1> USE DEF WorkerInv, Places, LockGuards, RequestsOfWorkers, OneWorker, Alive
<1>1. CASE Tick
  BY <1>1 DEF Tick, HandlerTick
<1>2. CASE UpOrDown
  BY <1>2 DEF UpOrDown, handlerVars, streamVars
<1>3. CASE UNCHANGED vars
  BY <1>3 DEF vars, handlerVars, streamVars
<1>4. QED
  BY <1>1, <1>2, <1>3, WorkerInvCaller, WorkerInvWorker DEF Next

\* One thread at most keeps the cameras active, for any number of requests that
\* overlap: activate_stream checks and starts under its lock.
THEOREM OneWorkerRuns == Spec => []OneWorker
<1>1. WorkerInv => OneWorker
  BY DEF WorkerInv
<1>2. QED
  BY <1>1, WorkerInvInit, WorkerInvNext, PTL DEF Spec

-----------------------------------------------------------------------------
(* The deadline of the worker.                                             *)

\* The holder of the lock and the thread activate_stream knows have their types.
HoldersInv ==
    /\ lock \in Callers \union {None} /\ thread \in Workers \union {None}
    /\ up \in BOOLEAN

\* The time a worker has left and the time it has been without success make up
\* the recovery window, so that the two clocks tell the same.
DeadlineInv ==
    /\ left \in [Workers -> 0..Recovery] /\ quiet \in [Workers -> 0..Recovery]
    /\ \A w \in Workers :
          IF Alive(w) THEN left[w] + quiet[w] = Recovery
          ELSE left[w] = 0 /\ quiet[w] = 0

\* What the two halves of GivesUpInTime come to for one worker and one step.
InTime(w) ==
    /\ place[w] # "tracks" /\ place'[w] = "tracks" => quiet[w] < Recovery
    /\ up /\ Alive(w) /\ place'[w] = "none" => quiet[w] = Recovery

\* There is no worker yet.
LEMMA DeadlineInit == Init => HoldersInv /\ DeadlineInv
<1> SUFFICES ASSUME Init PROVE HoldersInv /\ DeadlineInv
  OBVIOUS
<1>1. up \in BOOLEAN
  BY Zenon DEF Init
<1>2. QED
  BY <1>1, RecoveryAssumption DEF Init, HoldersInv, DeadlineInv, Alive

\* The worker a request starts is one of the workers, and none has run before.
LEMMA NewWorkerIsFree ==
  ASSUME WorkerInv, NEW c \in Callers, StartWorker(c)
  PROVE  /\ NewWorker \in Workers /\ \A w \in Workers : ~Alive(w)
BY ThreadsAssumption DEF WorkerInv, LockGuards, StartWorker, NewWorker

\* Who holds the lock, and which thread is known.
LEMMA HoldersStep ==
  ASSUME WorkerInv, HoldersInv, [Next]_vars
  PROVE  HoldersInv'
<1>1. up' \in BOOLEAN
  <2>1. up' = up \/ up' = ~up
    BY DEF Next, vars, CallerStep, WorkerStep, Call, AcquireLock, CheckWorker, StartWorker,
           RequestToken, RequestRaises, LiveviewAnswered, WorkerChecks, SourcesAnswered,
           TracksAnswered, WorkerWakes, WorkersOnly, Tick, UpOrDown
  <2>2. QED
    BY <2>1, Zenon DEF HoldersInv
<1>2. ASSUME NEW c \in Callers, StartWorker(c)
      PROVE  lock' = None /\ thread' \in Workers
  BY <1>2, NewWorkerIsFree DEF StartWorker, Unlock
<1>3. ASSUME NEW c \in Callers, CallerStep(c), ~StartWorker(c)
      PROVE  lock' \in {lock, None, c} /\ thread' = thread
  BY <1>3 DEF CallerStep, Call, AcquireLock, CheckWorker, Unlock, RequestToken, RequestRaises,
              LiveviewAnswered, streamVars, WorkersOnly
<1>4. CASE Tick \/ UpOrDown \/ UNCHANGED vars \/ \E w \in Workers : WorkerStep(w)
  <2>1. UNCHANGED <<lock, thread>>
    BY <1>4, ThreadsAssumption
    DEF vars, WorkerStep, RequestToken, RequestRaises, WorkerChecks, SourcesAnswered,
        TracksAnswered, WorkerWakes, WorkersOnly, Tick, UpOrDown, streamVars
  <2>2. QED
    BY <1>1, <2>1 DEF HoldersInv
<1>5. QED
  BY <1>1, <1>2, <1>3, <1>4 DEF Next, HoldersInv

\* A worker that ends, or goes on with its clocks as they are.
LEMMA ClocksStay ==
  ASSUME WorkerInv, DeadlineInv, NEW w \in Workers, Alive(w),
         \/ Ends(w)
         \/ UNCHANGED Timers /\ \E at : at # "none" /\ WorkerTo(w, at)
  PROVE  DeadlineInv'
<1>1. /\ place \in [Workers -> {"none", "loop", "sources", "tracks", "keepalive", "retry"}]
      /\ left \in [Workers -> 0..Recovery] /\ quiet \in [Workers -> 0..Recovery]
  BY DEF WorkerInv, Places, DeadlineInv
<1>2. CASE Ends(w)
  <2>1. /\ place' = [place EXCEPT ![w] = "none"]
        /\ left' = [left EXCEPT ![w] = 0] /\ quiet' = [quiet EXCEPT ![w] = 0]
    BY <1>2 DEF Ends, WorkerTo
  <2>2. left' \in [Workers -> 0..Recovery] /\ quiet' \in [Workers -> 0..Recovery]
    BY <1>1, <2>1, RecoveryAssumption
  <2>3. QED
    BY <1>1, <2>1, <2>2 DEF DeadlineInv, Alive
<1>3. ASSUME UNCHANGED Timers, NEW at, at # "none", WorkerTo(w, at)
      PROVE  DeadlineInv'
  <2>1. /\ \A v \in Workers : (place'[v] # "none") <=> (place[v] # "none")
        /\ UNCHANGED <<left, quiet>>
    BY <1>1, <1>3 DEF WorkerTo, Timers, Alive
  <2>2. QED
    BY <2>1 DEF DeadlineInv, Alive
<1>4. QED
  BY <1>2, <1>3

\* What a worker does with an answer: it starts its window again, or goes on in
\* what is left of it, or ends -- with a service that works, only at its deadline.
LEMMA WorkerInTime ==
  ASSUME WorkerInv, DeadlineInv, NEW w \in Workers, WorkerStep(w)
  PROVE  DeadlineInv' /\ \A v \in Workers : InTime(v)
<1> DEFINE Others == \A v \in Workers \ {w} : place'[v] = place[v]
<1>1. /\ place \in [Workers -> {"none", "loop", "sources", "tracks", "keepalive", "retry"}]
      /\ left \in [Workers -> 0..Recovery] /\ quiet \in [Workers -> 0..Recovery]
  BY DEF WorkerInv, Places, DeadlineInv
<1>2. ASSUME Others, InTime(w)
      PROVE  \A v \in Workers : InTime(v)
  BY <1>2 DEF InTime, Alive
<1>3. Ends(w) => Others /\ place'[w] = "none"
  BY <1>1 DEF Ends, WorkerTo
<1>4. ASSUME NEW at, WorkerTo(w, at)
      PROVE  Others /\ place'[w] = at
  BY <1>1, <1>4 DEF WorkerTo
<1>5. Alive(w) => left[w] + quiet[w] = Recovery /\ left[w] \in 0..Recovery /\ quiet[w] \in 0..Recovery
  BY <1>1 DEF DeadlineInv
<1>6. Alive(w) /\ left[w] > 0 => quiet[w] < Recovery
  BY <1>5, RecoveryAssumption
<1>7. Alive(w) /\ ~(left[w] > 0) => quiet[w] = Recovery
  BY <1>5, RecoveryAssumption
<1> HIDE DEF Others
<1>8. ASSUME AttemptFails(w), Alive(w)
      PROVE  DeadlineInv' /\ \A v \in Workers : InTime(v)
  <2>1. CASE left[w] > 0
    <3>1. WorkerTo(w, "retry") /\ UNCHANGED Timers
      BY <1>8, <2>1 DEF AttemptFails
    <3>2. QED
      BY <1>2, <1>4, <1>8, <3>1, ClocksStay DEF InTime
  <2>2. CASE ~(left[w] > 0)
    BY <1>2, <1>3, <1>7, <1>8, <2>2, ClocksStay DEF AttemptFails, InTime
  <2>3. QED
    BY <2>1, <2>2
<1>9. CASE WorkerChecks(w)
  <2>1. Alive(w)
    BY <1>9 DEF WorkerChecks, Alive
  <2>2. CASE left[w] > 0
    <3>1. WorkerTo(w, "sources") /\ UNCHANGED Timers
      BY <1>9, <2>2 DEF WorkerChecks
    <3>2. QED
      BY <1>2, <1>4, <2>1, <3>1, ClocksStay DEF InTime
  <2>3. CASE ~(left[w] > 0)
    BY <1>2, <1>3, <1>7, <1>9, <2>1, <2>3, ClocksStay DEF WorkerChecks, InTime
  <2>4. QED
    BY <2>2, <2>3
<1>10. CASE SourcesAnswered(w)
  <2>1. Alive(w)
    BY <1>10 DEF SourcesAnswered, Alive
  <2>2. CASE left[w] > 0 /\ WorkerTo(w, "tracks") /\ UNCHANGED Timers
    BY <1>2, <1>4, <1>6, <2>1, <2>2, ClocksStay DEF InTime
  <2>3. CASE Ends(w) /\ (~up \/ ~(left[w] > 0))
    BY <1>2, <1>3, <1>7, <2>1, <2>3, ClocksStay DEF InTime
  <2>4. CASE AttemptFails(w)
    BY <1>8, <2>1, <2>4
  <2>5. QED
    BY <1>10, <2>2, <2>3, <2>4 DEF SourcesAnswered
<1>11. CASE TracksAnswered(w)
  <2>1. Alive(w) /\ place[w] = "tracks"
    BY <1>11 DEF TracksAnswered, Alive
  <2>2. CASE AttemptFails(w)
    BY <1>8, <2>1, <2>2
  <2>3. CASE /\ WorkerTo(w, "keepalive")
             /\ left' = [left EXCEPT ![w] = Recovery]
             /\ quiet' = [quiet EXCEPT ![w] = 0]
    <3>1. place' = [place EXCEPT ![w] = "keepalive"]
      BY <2>3 DEF WorkerTo
    <3>2. left' \in [Workers -> 0..Recovery] /\ quiet' \in [Workers -> 0..Recovery]
      BY <1>1, <2>3, RecoveryAssumption
    <3>3. DeadlineInv'
      BY <1>1, <2>3, <3>1, <3>2, RecoveryAssumption DEF DeadlineInv, Alive
    <3>4. QED
      BY <1>2, <1>4, <2>3, <3>3 DEF InTime
  <2>4. CASE Ends(w) /\ ~up
    BY <1>2, <1>3, <1>7, <2>1, <2>4, ClocksStay DEF InTime
  <2>5. QED
    BY <1>11, <2>2, <2>3, <2>4 DEF TracksAnswered
<1>12. CASE WorkerWakes(w)
  <2>1. Alive(w) /\ WorkerTo(w, "loop") /\ UNCHANGED Timers
    BY <1>12 DEF WorkerWakes, Alive
  <2>2. QED
    BY <1>2, <1>4, <2>1, ClocksStay DEF InTime
<1>13. CASE RequestToken(w)
  <2>1. UNCHANGED <<place, left, quiet>>
    BY <1>13 DEF RequestToken, streamVars
  <2>2. QED
    BY <2>1 DEF DeadlineInv, Alive, InTime
<1>14. CASE RequestRaises(w)
  <2>1. Alive(w) /\ AttemptFails(w)
    BY <1>14, ThreadsAssumption
    DEF RequestRaises, LoginRaises, Alive, WorkerInv, RequestsOfWorkers
  <2>2. QED
    BY <1>8, <2>1
<1>15. QED
  BY <1>9, <1>10, <1>11, <1>12, <1>13, <1>14 DEF WorkerStep

\* A caller touches the clocks only of the worker it starts.
LEMMA CallerInTime ==
  ASSUME WorkerInv, DeadlineInv, NEW c \in Callers, CallerStep(c)
  PROVE  DeadlineInv' /\ \A v \in Workers : InTime(v)
<1>1. /\ place \in [Workers -> {"none", "loop", "sources", "tracks", "keepalive", "retry"}]
      /\ left \in [Workers -> 0..Recovery] /\ quiet \in [Workers -> 0..Recovery]
  BY DEF WorkerInv, Places, DeadlineInv
<1>2. CASE StartWorker(c)
  <2> DEFINE w == NewWorker
  <2>1. w \in Workers /\ \A v \in Workers : ~Alive(v)
    BY <1>2, NewWorkerIsFree
  <2>2. /\ place' = [place EXCEPT ![w] = "loop"]
        /\ left' = [left EXCEPT ![w] = Recovery] /\ quiet' = quiet
    BY <1>2 DEF StartWorker, WorkerTo
  <2> HIDE DEF w
  <2>3. left' \in [Workers -> 0..Recovery]
    BY <1>1, <2>1, <2>2, RecoveryAssumption
  <2>4. DeadlineInv'
    BY <1>1, <2>1, <2>2, <2>3, RecoveryAssumption DEF DeadlineInv, Alive
  <2>5. \A v \in Workers : InTime(v)
    BY <1>1, <2>1, <2>2 DEF InTime
  <2>6. QED
    BY <2>4, <2>5
<1>3. CASE ~StartWorker(c)
  <2>1. UNCHANGED <<place, left, quiet>>
    BY <1>3, ThreadsAssumption
    DEF CallerStep, Call, AcquireLock, CheckWorker, RequestToken, RequestRaises,
        LiveviewAnswered, streamVars, Timers
  <2>2. QED
    BY <2>1 DEF DeadlineInv, Alive, InTime
<1>4. QED
  BY <1>2, <1>3

\* Time takes from one clock what it adds to the other.
LEMMA TickInTime ==
  ASSUME WorkerInv, DeadlineInv, Tick
  PROVE  DeadlineInv' /\ \A v \in Workers : InTime(v)
<1>1. /\ place' = place
      /\ left' = [w \in Workers |-> IF left[w] = 0 THEN 0 ELSE left[w] - 1]
      /\ quiet' = [w \in Workers |->
            IF Alive(w) /\ quiet[w] < Recovery THEN quiet[w] + 1 ELSE quiet[w]]
  BY DEF Tick
<1>2. ASSUME NEW w \in Workers
      PROVE  /\ left'[w] \in 0..Recovery /\ quiet'[w] \in 0..Recovery
             /\ IF Alive(w) THEN left'[w] + quiet'[w] = Recovery
                ELSE left'[w] = 0 /\ quiet'[w] = 0
  <2>1. left[w] \in 0..Recovery /\ quiet[w] \in 0..Recovery
    BY DEF DeadlineInv
  <2>2. CASE Alive(w)
    BY <1>1, <2>1, <2>2, RecoveryAssumption DEF DeadlineInv
  <2>3. CASE ~Alive(w)
    BY <1>1, <2>1, <2>3, RecoveryAssumption DEF DeadlineInv
  <2>4. QED
    BY <2>2, <2>3
<1>3. left' \in [Workers -> 0..Recovery] /\ quiet' \in [Workers -> 0..Recovery]
  BY <1>1, <1>2
<1>4. QED
  BY <1>1, <1>2, <1>3 DEF DeadlineInv, Alive, InTime

\* Every step keeps the two clocks together, and every worker in time.
LEMMA DeadlineStep ==
  WorkerInv /\ DeadlineInv /\ [Next]_vars => DeadlineInv' /\ \A w \in Workers : InTime(w)
<1>1. ASSUME DeadlineInv, UpOrDown \/ UNCHANGED vars
      PROVE  DeadlineInv' /\ \A w \in Workers : InTime(w)
  BY <1>1 DEF UpOrDown, vars, streamVars, DeadlineInv, Alive, InTime
<1>2. QED
  BY <1>1, WorkerInTime, CallerInTime, TickInTime DEF Next

\* The clocks of every worker add up to its recovery window.
LEMMA DeadlineAlways == Spec => [](WorkerInv /\ HoldersInv /\ DeadlineInv)
BY WorkerInvInit, WorkerInvNext, DeadlineInit, HoldersStep, DeadlineStep, PTL DEF Spec

\* Every variable has its type, those of the token included.
THEOREM StreamTypeCorrect == Spec => []TypeOK
<1>1. WorkerInv /\ HoldersInv /\ DeadlineInv /\ TokenInv => TypeOK
  BY DEF WorkerInv, Places, HoldersInv, DeadlineInv, TokenInv, Ages, TypeOK, HandlerTypeOK
<1>2. QED
  BY <1>1, DeadlineAlways, StreamImplementsHandler, HandlerTokenInv, PTL

\* A worker begins a keep-alive only within a recovery window after its last
\* success, and with a service that works it does not end before that window is
\* over, however long requests take and whichever worker it is.
THEOREM WorkersGiveUpInTime == Spec => GivesUpInTime
<1>1. WorkerInv /\ DeadlineInv /\ [Next]_vars =>
          [\A w \in Workers :
              /\ place[w] # "tracks" /\ place'[w] = "tracks" => quiet[w] < Recovery
              /\ up /\ Alive(w) /\ place'[w] = "none" => quiet[w] = Recovery]_vars
  BY DeadlineStep DEF InTime
<1>2. QED
  BY <1>1, DeadlineAlways, PTL DEF Spec, GivesUpInTime

=============================================================================
