---------------------------- MODULE MediaStream ----------------------------
(***************************************************************************)
(* MediaStream and generate_media_config: requests for a media             *)
(* configuration (ISAR, and each capture of the recorder) see to it that   *)
(* one worker thread keeps the cameras active.  The worker gives up when   *)
(* it has had no success for a recovery window, and the next request has   *)
(* to start another.  All threads make their requests with the token of    *)
(* RequestHandler.                                                         *)
(*                                                                         *)
(* Ticks are long compared with the waits of the worker (3 to 30 s), whose *)
(* lengths are therefore left out: waking up is a step of its own.         *)
(***************************************************************************)
EXTENDS RequestHandler, FiniteSets

CONSTANTS
    Callers, Workers,   \* the threads; a worker's slot is free again when it ends
    None,
    Recovery            \* RECOVERY_TIMEOUT: 15 minutes

ASSUME ThreadsAssumption ==
    /\ Threads = Callers \union Workers /\ Callers \intersect Workers = {}
    /\ Workers # {}
    /\ None \notin Threads
ASSUME RecoveryAssumption == Recovery \in Nat \ {0}

VARIABLES
    lock,     \* holder of _activation_lock
    thread,   \* activate_stream_thread
    call,     \* where each caller is in generate_media_config
    place,    \* where each worker is in its loop, "none" when it does not run
    left,     \* the time to the deadline of each worker
    quiet,    \* history: time since its start or its last keep-alive
    up        \* robot and server answer and offer a camera

streamVars == <<lock, thread, call, place, left, quiet>>
vars == <<handlerVars, streamVars, up>>

Init ==
    /\ HandlerInit
    /\ lock = None /\ thread = None
    /\ call = [c \in Callers |-> "idle"]
    /\ place = [w \in Workers |-> "none"]
    /\ left = [w \in Workers |-> 0]
    /\ quiet = left
    /\ up = TRUE

CallTo(c, at) == call' = [call EXCEPT ![c] = at]
WorkerTo(w, at) == place' = [place EXCEPT ![w] = at]
Alive(w) == place[w] # "none"
ThreadAlive == thread \in {w \in Workers : Alive(w)}
NewWorker == CHOOSE w \in Workers : ~Alive(w)
Timers == <<left, quiet>>
Ends(w) ==
    /\ WorkerTo(w, "none")
    /\ left' = [left EXCEPT ![w] = 0] /\ quiet' = [quiet EXCEPT ![w] = 0]
WorkersOnly == UNCHANGED <<lock, thread, call, up>>

-----------------------------------------------------------------------------
(* generate_media_config: activate_stream, then get_liveview_info.         *)

Call(c) ==
    /\ call[c] = "idle" /\ CallTo(c, "activate")
    /\ UNCHANGED <<handlerVars, lock, thread, place, Timers, up>>

\* Mutant: there is no lock.
AcquireLock_None(c) ==
    /\ call[c] = "activate"
    /\ lock' = c /\ CallTo(c, "locked")
    /\ UNCHANGED <<handlerVars, thread, place, Timers, up>>

AcquireLock(c) ==
    /\ call[c] = "activate" /\ lock = None
    /\ lock' = c /\ CallTo(c, "locked")
    /\ UNCHANGED <<handlerVars, thread, place, Timers, up>>

Unlock(c) == lock' = None /\ CallTo(c, "liveview")

\* Mutant: a worker that has ended counts as one.
CheckWorker_Any(c) ==
    /\ call[c] = "locked"
    /\ IF thread # None THEN Unlock(c) ELSE CallTo(c, "start") /\ UNCHANGED lock
    /\ UNCHANGED <<handlerVars, thread, place, Timers, up>>

\* A worker that is alive may come to its deadline right after.
CheckWorker(c) ==
    /\ call[c] = "locked"
    /\ IF ThreadAlive THEN Unlock(c) ELSE CallTo(c, "start") /\ UNCHANGED lock
    /\ UNCHANGED <<handlerVars, thread, place, Timers, up>>

\* The last worker has ended, so that join returns at once.
StartWorker(c) ==
    /\ call[c] = "start"
    /\ LET w == NewWorker
       IN  /\ thread' = w /\ WorkerTo(w, "loop")
           /\ left' = [left EXCEPT ![w] = Recovery]
           /\ UNCHANGED quiet
    /\ Unlock(c)
    /\ UNCHANGED <<handlerVars, up>>

\* The configuration is handed out, or the exception is.
LiveviewAnswered(c) ==
    /\ RequestEnds(c) /\ CallTo(c, "idle")
    /\ UNCHANGED <<lock, thread, place, Timers, up>>

-----------------------------------------------------------------------------
(* activate_when_active_and_keep_active                                    *)

WorkerChecks(w) ==
    /\ place[w] = "loop"
    /\ IF left[w] > 0 THEN WorkerTo(w, "sources") /\ UNCHANGED Timers ELSE Ends(w)
    /\ UNCHANGED handlerVars /\ WorkersOnly

\* No camera, or a RequestException.
AttemptFails(w) ==
    IF left[w] > 0 THEN WorkerTo(w, "retry") /\ UNCHANGED Timers ELSE Ends(w)

\* The server rejects an expired token; when it works it accepts any other.
Accepted(t) == carried[t] < Lifetime

\* Mutant: readiness alone extends the deadline.
SourcesAnswered_Extends(w) ==
    /\ place[w] = "sources" /\ RequestEnds(w)
    /\ \/ /\ Accepted(w) /\ left[w] > 0 /\ WorkerTo(w, "tracks")
          /\ left' = [left EXCEPT ![w] = Recovery] /\ UNCHANGED quiet
       \/ Accepted(w) /\ left[w] = 0 /\ Ends(w)
       \/ ~(up /\ Accepted(w)) /\ AttemptFails(w)
       \/ ~up /\ Ends(w)
    /\ WorkersOnly

\* A camera is ready, unless the answer took too long; or the attempt fails; or
\* the answer is not understood, which ends the thread (KeyError).
SourcesAnswered(w) ==
    /\ place[w] = "sources" /\ RequestEnds(w)
    /\ \/ /\ Accepted(w)
          /\ IF left[w] > 0 THEN WorkerTo(w, "tracks") /\ UNCHANGED Timers ELSE Ends(w)
       \/ ~(up /\ Accepted(w)) /\ AttemptFails(w)
       \/ ~up /\ Ends(w)
    /\ WorkersOnly

\* Mutant: a success adds a window to the deadline.
TracksAnswered_Adds(w) ==
    /\ place[w] = "tracks" /\ RequestEnds(w)
    /\ \/ /\ Accepted(w) /\ WorkerTo(w, "keepalive")
          /\ left' = [left EXCEPT ![w] = @ + Recovery]
          /\ quiet' = [quiet EXCEPT ![w] = 0]
       \/ ~(up /\ Accepted(w)) /\ AttemptFails(w)
       \/ ~up /\ Ends(w)
    /\ WorkersOnly

\* The keep-alive: only its success moves the deadline.  A refusal whose body is
\* not understood ends the thread: RequestHandler raises something else.
TracksAnswered(w) ==
    /\ place[w] = "tracks" /\ RequestEnds(w)
    /\ \/ /\ Accepted(w) /\ WorkerTo(w, "keepalive")
          /\ left' = [left EXCEPT ![w] = Recovery]
          /\ quiet' = [quiet EXCEPT ![w] = 0]
       \/ ~(up /\ Accepted(w)) /\ AttemptFails(w)
       \/ ~up /\ Ends(w)
    /\ WorkersOnly

WorkerWakes(w) ==
    /\ place[w] \in {"keepalive", "retry"} /\ WorkerTo(w, "loop")
    /\ UNCHANGED <<handlerVars, Timers>> /\ WorkersOnly

-----------------------------------------------------------------------------
(* The token on the way of a request, for callers and workers.             *)

Requesting(t) ==
    \/ t \in Callers /\ call[t] = "liveview"
    \/ t \in Workers /\ place[t] \in {"sources", "tracks"}

RequestToken(t) ==
    /\ \/ Requesting(t) /\ GetToken(t)
       \/ LoginIssued(t) \/ StoreToken(t) \/ StoreExpiry(t) \/ TakeToken(t)
       \/ ~up /\ LoginRefused(t)
    /\ UNCHANGED <<streamVars, up>>

\* The login raises in the middle of the request.
RequestRaises(t) ==
    /\ ~up /\ LoginRaises(t)
    /\ \/ /\ t \in Callers /\ CallTo(t, "idle")
          /\ UNCHANGED <<lock, thread, place, Timers, up>>
       \/ t \in Workers /\ AttemptFails(t) /\ WorkersOnly

-----------------------------------------------------------------------------
UpOrDown == up' = ~up /\ UNCHANGED <<handlerVars, streamVars>>

\* A worker takes no time between its requests, nor a working server to log in.
Tick ==
    /\ HandlerTick
    /\ \A w \in Workers :
          place[w] \in {"loop", "sources", "tracks"} => stage[w] # "idle"
    /\ up => \A t \in Threads : stage[t] # "login"
    /\ left' = [w \in Workers |-> IF left[w] = 0 THEN 0 ELSE left[w] - 1]
    /\ quiet' = [w \in Workers |->
          IF Alive(w) /\ quiet[w] < Recovery THEN quiet[w] + 1 ELSE quiet[w]]
    /\ UNCHANGED <<lock, thread, call, place, up>>

\* What a thread does is one sequence of steps.
CallerStep(c) ==
    \/ Call(c) \/ AcquireLock(c) \/ CheckWorker(c) \/ StartWorker(c)
    \/ RequestToken(c) \/ RequestRaises(c) \/ LiveviewAnswered(c)
WorkerStep(w) ==
    \/ WorkerChecks(w) \/ SourcesAnswered(w) \/ TracksAnswered(w) \/ WorkerWakes(w)
    \/ RequestToken(w) \/ RequestRaises(w)

Next ==
    \/ \E c \in Callers : CallerStep(c)
    \/ \E w \in Workers : WorkerStep(w)
    \/ Tick \/ UpOrDown

\* Media configurations are asked for again and again: by ISAR, and by a capture
\* every 20 seconds.  Threads are scheduled; the lock is not fair and need not
\* be.  Logins are answered in the end, of which the code makes no sure: they
\* have no timeout.
Fairness ==
    /\ \A c \in Callers : WF_vars(CallerStep(c))
    /\ \A w \in Workers : WF_vars(WorkerStep(w))

Spec == Init /\ [][Next]_vars
FairSpec == Spec /\ Fairness

-----------------------------------------------------------------------------
TypeOK ==
    /\ HandlerTypeOK
    /\ lock \in Callers \union {None} /\ thread \in Workers \union {None}
    /\ call \in [Callers -> {"idle", "activate", "locked", "start", "liveview"}]
    /\ place \in [Workers ->
          {"none", "loop", "sources", "tracks", "keepalive", "retry"}]
    /\ left \in [Workers -> 0..Recovery] /\ quiet \in [Workers -> 0..Recovery]
    /\ up \in BOOLEAN

\* However many requests for a configuration overlap, and whether or not they
\* meet a worker about to end, one thread at most sets the tracks of the robot,
\* and it is the one activate_stream knows.
OneWorker == \A w \in Workers : Alive(w) => w = thread

\* A worker begins a keep-alive only within a recovery window after its last
\* success, whatever its sources say, and with a service that works it does not
\* end before that window is over.
GivesUpInTime ==
    [][\A w \in Workers :
          /\ place[w] # "tracks" /\ place'[w] = "tracks" => quiet[w] < Recovery
          /\ up /\ Alive(w) /\ place'[w] = "none" => quiet[w] = Recovery]_vars

\* Once the service works for good, cameras are kept active again and again,
\* whatever became of the workers and of the token before.
StreamsComeBack == <>[]up => []<>(\E w \in Workers : place[w] = "keepalive")
=============================================================================
