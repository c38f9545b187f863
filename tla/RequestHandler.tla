--------------------------- MODULE RequestHandler ---------------------------
(***************************************************************************)
(* RequestHandler: the bearer token that every request of the plugin       *)
(* carries.  Threads share it without a lock: each decides by itself that  *)
(* the token is about to expire, logs in, and stores the token and its     *)
(* expiry one after the other.                                             *)
(*                                                                         *)
(* Time is counted in ticks, as what has passed or is left and never as a  *)
(* clock, so that it needs no bound.  A missing token is an expired one.   *)
(***************************************************************************)
EXTENDS Naturals

CONSTANTS
    Threads,
    Lifetime,     \* of a token: 15 minutes
    Margin,       \* get_token refreshes this long before the expiry: 5 minutes
    LoginDelay,   \* longest time from the issue of a token to its stored expiry
    SendDelay     \* longest time from the check of the expiry to the server

\* Two logins can overlap, so that the expiry which is stored is late by twice
\* the delay of a login; with the way of the request this must fit the margin.
ASSUME DelayAssumption ==
    /\ Lifetime \in Nat /\ Margin \in Nat /\ LoginDelay \in Nat /\ SendDelay \in Nat
    /\ 2 * LoginDelay + SendDelay <= Margin /\ Margin < Lifetime

VARIABLES
    age,         \* of self.token, since the server issued it
    expiresIn,   \* token_expires_at minus the time
    stage,       \* where each thread is in _base_request
    carried,     \* the age of the token each thread has in hand
    waited,      \* since get_token of each thread was decided
    loginFailed  \* the request goes on with what an unsuccessful login left

handlerVars == <<age, expiresIn, stage, carried, waited, loginFailed>>

Stages == {"idle", "login", "issued", "stored", "token", "sent"}

HandlerInit ==
    /\ age = Lifetime /\ expiresIn = 0
    /\ stage = [t \in Threads |-> "idle"]
    /\ carried = [t \in Threads |-> 0]
    /\ waited = carried
    /\ loginFailed = [t \in Threads |-> FALSE]

StageTo(t, at) == stage' = [stage EXCEPT ![t] = at]

Carries(t, tokenAge) == carried' = [carried EXCEPT ![t] = tokenAge]

\* get_token returns self.token, which it has yet to read.
Returns(t, failed) ==
    /\ StageTo(t, "token")
    /\ waited' = [waited EXCEPT ![t] = 0]
    /\ loginFailed' = [loginFailed EXCEPT ![t] = failed]

\* The thread forgets the request, however it ended.
Done(t) ==
    /\ StageTo(t, "idle")
    /\ Carries(t, 0)
    /\ waited' = [waited EXCEPT ![t] = 0]
    /\ loginFailed' = [loginFailed EXCEPT ![t] = FALSE]
    /\ UNCHANGED <<age, expiresIn>>

\* Mutant: the token is refreshed one tick later.
GetToken_LateRefresh(t) ==
    /\ stage[t] = "idle"
    /\ IF expiresIn >= Margin
       THEN Returns(t, FALSE)
       ELSE StageTo(t, "login") /\ UNCHANGED <<waited, loginFailed>>
    /\ UNCHANGED <<age, expiresIn, carried>>

GetToken(t) ==
    /\ stage[t] = "idle"
    /\ IF expiresIn > Margin
       THEN Returns(t, FALSE)
       ELSE StageTo(t, "login") /\ UNCHANGED <<waited, loginFailed>>
    /\ UNCHANGED <<age, expiresIn, carried>>

\* request_token.  The login has no timeout: how long the server takes to issue
\* a token is not bounded.
LoginIssued(t) ==
    /\ stage[t] = "login"
    /\ StageTo(t, "issued")
    /\ Carries(t, 0)
    /\ UNCHANGED <<age, expiresIn, waited, loginFailed>>

\* Any status but 201: the old token is returned.
LoginRefused(t) ==
    /\ stage[t] = "login"
    /\ Returns(t, TRUE)
    /\ UNCHANGED <<age, expiresIn, carried>>

\* Lost connection or answer: the request raises before it is sent.
LoginRaises(t) == stage[t] \in {"login", "issued"} /\ Done(t)

StoreToken(t) ==
    /\ stage[t] = "issued"
    /\ age' = carried[t]
    /\ StageTo(t, "stored")
    /\ UNCHANGED <<expiresIn, carried, waited, loginFailed>>

StoreExpiry(t) ==
    /\ stage[t] = "stored"
    /\ expiresIn' = Lifetime
    /\ Returns(t, FALSE)
    /\ UNCHANGED <<age, carried>>

\* The return of get_token reads the token again, which can be another by now.
TakeToken(t) ==
    /\ stage[t] = "token"
    /\ Carries(t, age)
    /\ StageTo(t, "sent")
    /\ UNCHANGED <<age, expiresIn, waited, loginFailed>>

\* The request has been answered, or has failed.
RequestEnds(t) == stage[t] = "sent" /\ Done(t)

Older(time) == IF time < Lifetime THEN time + 1 ELSE time

\* Time does not pass a thread that has come to the end of its delay.
HandlerTick ==
    /\ \A t \in Threads :
          /\ stage[t] \in {"issued", "stored"} => carried[t] < LoginDelay
          /\ stage[t] \in {"token", "sent"} => waited[t] < SendDelay
    /\ age' = Older(age)
    /\ expiresIn' = IF expiresIn = 0 THEN 0 ELSE expiresIn - 1
    /\ carried' = [t \in Threads |->
          IF stage[t] \in {"issued", "stored", "sent"} THEN Older(carried[t])
          ELSE carried[t]]
    /\ waited' = [t \in Threads |->
          IF stage[t] \in {"token", "sent"} THEN waited[t] + 1 ELSE waited[t]]
    /\ UNCHANGED <<stage, loginFailed>>

HandlerNext ==
    \/ HandlerTick
    \/ \E t \in Threads :
          \/ GetToken(t) \/ LoginIssued(t) \/ LoginRefused(t) \/ LoginRaises(t)
          \/ StoreToken(t) \/ StoreExpiry(t) \/ TakeToken(t) \/ RequestEnds(t)

HandlerSpec == HandlerInit /\ [][HandlerNext]_handlerVars

-----------------------------------------------------------------------------
HandlerTypeOK ==
    /\ age \in 0..Lifetime /\ expiresIn \in 0..Lifetime
    /\ stage \in [Threads -> Stages]
    /\ carried \in [Threads -> 0..Lifetime]
    /\ waited \in [Threads -> 0..SendDelay]
    /\ loginFailed \in [Threads -> BOOLEAN]

\* No request is on its way with an expired token, whatever the order in which
\* threads log in and store the two halves of what they got -- except one whose
\* own login was refused, which goes out with the old token.
TokenIsFresh ==
    \A t \in Threads :
        stage[t] = "sent" /\ ~loginFailed[t] => carried[t] < Lifetime
=============================================================================
