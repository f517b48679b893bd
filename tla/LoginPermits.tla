---------------------------- MODULE LoginPermits ----------------------------
(***************************************************************************)
(* Human verification before a sign-in (shared/login-permit.ts, with its   *)
(* callers auth/human-verification.ts and cognito-pre-authentication.ts).  *)
(* A client opens an attempt, a browser completes its challenge, the       *)
(* client polls until the attempt is verified and exchanges it for a       *)
(* one-time permit, and the Cognito trigger consumes the permit of one     *)
(* sign-in.  The requests of one attempt overlap: clients poll in          *)
(* parallel, Cognito calls a slow trigger again, an answer gets lost after *)
(* its write took effect, and DynamoDB removes rows whose time is over.    *)
(*                                                                         *)
(* A request reads the clock once, when it starts, and judges every expiry *)
(* by that reading.  The verifier, hostname, action and client bindings    *)
(* are equality checks on values fixed when the attempt opens; the model   *)
(* keeps one of them, the account.  The trigger is in its "enforce" mode.  *)
(***************************************************************************)
EXTENDS Integers, FiniteSets
LOCAL INSTANCE Sequences

CONSTANTS Account,      \* whose sign-in a permit admits
          Attempt,      \* attempt ids: random, never drawn twice
          Permit,       \* permit hashes: random, never drawn twice
          Request,      \* requests being served
          AttemptTtl,   \* ATTEMPT_TTL_MS, in ticks
          PermitTtl,    \* PERMIT_TTL_MS, in ticks
          RateWindow,   \* ATTEMPT_RATE_WINDOW_MS, in ticks
          RateLimit,    \* ATTEMPT_RATE_LIMIT
          LastTick      \* bound: the clock stops here

ASSUME TtlAssumption == /\ AttemptTtl \in Nat \ {0}
                        /\ PermitTtl \in Nat \ {0}
                        /\ RateWindow \in Nat \ {0}
                        /\ RateLimit \in Nat
                        /\ LastTick \in Nat

VARIABLES tick,      \* the clock the requests read
          budget,    \* the rate rows: attempts counted per account and window
          attempts,  \* the attempt rows, or NoRow
          permits,   \* the permit rows, or NoRow
          request,   \* the requests being served
          admitted   \* history: the sign-ins each attempt has admitted

loginVars == <<tick, budget, attempts, permits, request, admitted>>

NoRow == [state |-> "no row"]
Waiting == [at |-> "waiting"]
EarlierOf(a, b) == IF a < b THEN a ELSE b

AttemptRow == [state : {"pending", "verified", "exchanged", "expired away"},
               account : Account, issued : Nat, expires : Nat]
PermitRow == [state : {"issued", "consumed", "expired away"},
              attempt : Attempt, account : Account, expires : Nat]
RequestState ==
    {Waiting}
    \cup [at : {"open"}, account : Account, now : Nat]
    \cup [at : {"complete", "exchange read", "exchange write"}, attempt : Attempt, now : Nat]

WindowOf(t) == t \div RateWindow
Windows == 0 .. WindowOf(LastTick)

(* Everything the clients hold is lost with them: only the rows matter.    *)
LoginInit ==
    /\ tick = 0
    /\ budget = [a \in Account |-> [w \in Windows |-> 0]]
    /\ attempts = [a \in Attempt |-> NoRow]
    /\ permits = [p \in Permit |-> NoRow]
    /\ request = [r \in Request |-> Waiting]
    /\ admitted = [a \in Attempt |-> <<>>]

Ends(r) == request' = [request EXCEPT ![r] = Waiting]

(* A conditional write that the table applies.  Its answer may be lost,    *)
(* which the code reports as a failure: the request ends in either case,   *)
(* so that one step stands for both.  A write that fails changes nothing.  *)
RequestFails(r) ==
    /\ request[r] # Waiting
    /\ Ends(r)
    /\ UNCHANGED <<tick, budget, attempts, permits, admitted>>

--------------------------------------------------------------------------
(* A mutant: the limit is compared with <=.                                *)
WithinBudgetLax(a, w) == budget[a][w] <= RateLimit

(* consumeHumanVerificationAttemptBudget: count the attempt in the window  *)
(* of the request's clock, unless the window is full.  An answer lost here *)
(* counts an attempt that is never opened.                                 *)
WithinBudget(a, w) == budget[a][w] < RateLimit

CountAttempt(r, a) ==
    /\ request[r] = Waiting
    /\ WithinBudget(a, WindowOf(tick))
    /\ budget' = [budget EXCEPT ![a][WindowOf(tick)] = @ + 1]
    /\ request' = [request EXCEPT ![r] = [at |-> "open", account |-> a, now |-> tick]]
    /\ UNCHANGED <<tick, attempts, permits, admitted>>

(* createHumanVerificationAttempt: put the pending row under a new id.     *)
OpenAttempt(r, a) ==
    /\ request[r].at = "open"
    /\ attempts[a] = NoRow
    /\ attempts' = [attempts EXCEPT ![a] =
                      [state |-> "pending", account |-> request[r].account,
                       issued |-> request[r].now,
                       expires |-> request[r].now + AttemptTtl]]
    /\ Ends(r)
    /\ UNCHANGED <<tick, budget, permits, admitted>>

(* POST complete: the attempt must be pending and in time; the challenge   *)
(* is then checked by its provider, which may refuse.                      *)
ReadPending(r, a) ==
    /\ request[r] = Waiting
    /\ attempts[a].state = "pending"
    /\ attempts[a].expires > tick
    /\ request' = [request EXCEPT ![r] = [at |-> "complete", attempt |-> a, now |-> tick]]
    /\ UNCHANGED <<tick, budget, attempts, permits, admitted>>

(* markHumanVerificationAttemptVerified.                                   *)
MarkVerified(r) ==
    LET a == request[r].attempt IN
    /\ request[r].at = "complete"
    /\ attempts[a].state = "pending"
    /\ attempts[a].expires > request[r].now
    /\ attempts' = [attempts EXCEPT ![a].state = "verified"]
    /\ Ends(r)
    /\ UNCHANGED <<tick, budget, permits, admitted>>

(* POST poll: the handler reads the attempt, and a verified one goes on to *)
(* exchangeVerifiedAttempt, which reads it again.                          *)
PollVerified(r, a) ==
    /\ request[r] = Waiting
    /\ attempts[a].state = "verified"
    /\ attempts[a].expires > tick
    /\ request' = [request EXCEPT ![r] = [at |-> "exchange read", attempt |-> a, now |-> tick]]
    /\ UNCHANGED <<tick, budget, attempts, permits, admitted>>

ReadVerified(r) ==
    LET a == request[r].attempt IN
    /\ request[r].at = "exchange read"
    /\ attempts[a].state = "verified"
    /\ attempts[a].expires > request[r].now
    /\ request' = [request EXCEPT ![r].at = "exchange write"]
    /\ UNCHANGED <<tick, budget, attempts, permits, admitted>>

(* A mutant: the update drops its condition on the state.                  *)
ExchangeableTwice(a, now) ==
    attempts[a].state \in {"verified", "exchanged"} /\ attempts[a].expires > now

(* The transaction: the attempt is still verified and becomes exchanged,   *)
(* and the permit's row is put under a new hash.                           *)
Exchangeable(a, now) == attempts[a].state = "verified" /\ attempts[a].expires > now

Exchange(r, p) ==
    LET a == request[r].attempt
        now == request[r].now IN
    /\ request[r].at = "exchange write"
    /\ Exchangeable(a, now)
    /\ permits[p] = NoRow
    /\ attempts' = [attempts EXCEPT ![a].state = "exchanged"]
    /\ permits' = [permits EXCEPT ![p] =
                     [state |-> "issued", attempt |-> a, account |-> attempts[a].account,
                      expires |-> EarlierOf(attempts[a].expires, now + PermitTtl)]]
    /\ Ends(r)
    /\ UNCHANGED <<tick, budget, admitted>>

(* consumeLoginPermit, called by the trigger of a sign-in that names the   *)
(* permit and the attempt and that Cognito vouches is of the account.      *)
(* One conditional update decides it; its clock was read at `now`.  The    *)
(* sign-in goes on only if the answer arrives (admits); a lost answer      *)
(* makes Cognito call the trigger again, or the sign-in fails.             *)
Consumable(p, a, account, now) ==
    /\ permits[p] # NoRow
    /\ permits[p].state = "issued"
    /\ permits[p].expires > now
    /\ permits[p].attempt = a
    /\ permits[p].account = account

ConsumePermit(p, a, account, now, admits) ==
    /\ Consumable(p, a, account, now)
    /\ permits' = [permits EXCEPT ![p].state = "consumed"]
    /\ admitted' = IF admits
                   THEN [admitted EXCEPT ![a] = Append(@, [account |-> account, at |-> now])]
                   ELSE admitted
    /\ UNCHANGED <<tick, budget, attempts, request>>

(* The table may remove a row once the clock has passed expiresAtTtl.      *)
ExpireAttempt(a) ==
    /\ attempts[a] # NoRow
    /\ attempts[a].state # "expired away"
    /\ attempts[a].expires <= tick
    /\ attempts' = [attempts EXCEPT ![a].state = "expired away"]
    /\ UNCHANGED <<tick, budget, permits, request, admitted>>

ExpirePermit(p) ==
    /\ permits[p] # NoRow
    /\ permits[p].state # "expired away"
    /\ permits[p].expires <= tick
    /\ permits' = [permits EXCEPT ![p].state = "expired away"]
    /\ UNCHANGED <<tick, budget, attempts, request, admitted>>

LoginTick ==
    /\ tick < LastTick
    /\ tick' = tick + 1
    /\ UNCHANGED <<budget, attempts, permits, request, admitted>>

RequestStep(r) ==
    \/ \E a \in Account : CountAttempt(r, a)
    \/ \E a \in Attempt : OpenAttempt(r, a) \/ ReadPending(r, a) \/ PollVerified(r, a)
    \/ MarkVerified(r)
    \/ ReadVerified(r)
    \/ \E p \in Permit : Exchange(r, p)
    \/ RequestFails(r)

LoginNext ==
    \/ \E r \in Request : RequestStep(r)
    \/ \E p \in Permit, a \in Attempt, account \in Account, now \in 0 .. tick, admits \in BOOLEAN :
          ConsumePermit(p, a, account, now, admits)
    \/ \E a \in Attempt : ExpireAttempt(a)
    \/ \E p \in Permit : ExpirePermit(p)
    \/ LoginTick

LoginSpec == LoginInit /\ [][LoginNext]_loginVars

--------------------------------------------------------------------------
LoginTypeOK ==
    /\ tick \in 0 .. LastTick
    /\ budget \in [Account -> [Windows -> Nat]]
    /\ attempts \in [Attempt -> AttemptRow \cup {NoRow}]
    /\ permits \in [Permit -> PermitRow \cup {NoRow}]
    /\ request \in [Request -> RequestState]
    /\ admitted \in [Attempt -> Seq([account : Account, at : Nat])]

(* A completed challenge admits at most one sign-in, of the account the    *)
(* attempt was opened for and judged in time by the trigger's own clock,   *)
(* however the polls, the exchanges, the retries of the trigger and the    *)
(* losses of their answers interleave (login-permit.ts:278-413).           *)
OneSignInPerAttempt ==
    \A a \in Attempt :
        /\ Len(admitted[a]) <= 1
        /\ \A i \in 1 .. Len(admitted[a]) :
              /\ attempts[a] # NoRow
              /\ attempts[a].state \in {"exchanged", "expired away"}
              /\ admitted[a][i].account = attempts[a].account
              /\ admitted[a][i].at < attempts[a].expires

(* What makes it inductive: an attempt has at most one permit, none before *)
(* it is exchanged, and an admitted one has no permit left to consume.     *)
PermitsAreTraced ==
    /\ \A p \in Permit : permits[p] # NoRow =>
          /\ attempts[permits[p].attempt] # NoRow
          /\ attempts[permits[p].attempt].state \in {"exchanged", "expired away"}
          /\ permits[p].account = attempts[permits[p].attempt].account
          /\ permits[p].expires <= attempts[permits[p].attempt].expires
    /\ \A p, q \in Permit :
          permits[p] # NoRow /\ permits[q] # NoRow /\ permits[p].attempt = permits[q].attempt => p = q
    /\ \A p \in Permit :
          permits[p] # NoRow /\ permits[p].state = "issued" => admitted[permits[p].attempt] = <<>>
    /\ \A a \in Attempt :
          attempts[a] = NoRow \/ attempts[a].state \in {"pending", "verified"} => admitted[a] = <<>>
    /\ \A r \in Request : request[r].at \in {"complete", "exchange read", "exchange write"} =>
          attempts[request[r].attempt] # NoRow

LoginInv == LoginTypeOK /\ PermitsAreTraced /\ OneSignInPerAttempt

(* No more attempts are opened for an account in one window than the       *)
(* budget allows, although counting and opening are separate writes        *)
(* (login-permit.ts:142-166).                                              *)
AttemptsWithinBudget ==
    \A account \in Account, w \in Windows :
        Cardinality({a \in Attempt : /\ attempts[a] # NoRow
                                     /\ attempts[a].account = account
                                     /\ WindowOf(attempts[a].issued) = w}) <= RateLimit
=============================================================================
