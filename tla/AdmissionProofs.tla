---------------------------- MODULE AdmissionProofs ----------------------------
(***************************************************************************)
(* Theorems about the three places where the server decides by one         *)
(* conditional write who may go on: the permits of a sign-in, the lease    *)
(* over a vault's authorization, and the route of a vault.  They hold for  *)
(* every number of requests, every lease length and every clock.           *)
(***************************************************************************)
EXTENDS LoginPermits, AuthorizationLease, CohortRouting, Sequences, FiniteSetTheorems, TLAPS

(***************************************************************************)
(* Sign-ins: LoginInv is inductive.                                        *)
(***************************************************************************)
\* The two records that stand for nothing have states of their own.
LEMMA NoRowState == NoRow.state = "no row"
  BY DEF NoRow

LEMMA WaitingStands == Waiting.at = "waiting"
  BY DEF Waiting

LEMMA InitLogin == LoginInit => LoginInv
<1> SUFFICES ASSUME LoginInit PROVE LoginInv
  OBVIOUS
<1>1. LoginTypeOK
  <2>1. admitted \in [Attempt -> Seq([account : Account, at : Nat])]
    <3>1. <<>> \in Seq([account : Account, at : Nat])
      OBVIOUS
    <3> QED
      BY <3>1 DEF LoginInit
  <2>2. budget \in [Account -> [Windows -> Nat]]
    BY DEF LoginInit
  <2> QED
    BY <2>1, <2>2, TtlAssumption DEF LoginInit, LoginTypeOK, RequestState
<1>2. PermitsAreTraced
  BY WaitingStands DEF LoginInit, PermitsAreTraced
<1>3. OneSignInPerAttempt
  BY DEF LoginInit, OneSignInPerAttempt
<1> QED
  BY <1>1, <1>2, <1>3 DEF LoginInv

\* What a request holds, by where it stands.
LEMMA RequestHolds ==
  ASSUME LoginTypeOK, NEW r \in Request
  PROVE  /\ request[r].at = "open" =>
              request[r].account \in Account /\ request[r].now \in Nat
         /\ request[r].at \in {"complete", "exchange read", "exchange write"} =>
              request[r].attempt \in Attempt /\ request[r].now \in Nat
<1>1. request[r] \in RequestState
  BY DEF LoginTypeOK
<1> QED
  BY <1>1, WaitingStands DEF RequestState

\* A row with a state other than "no row" is a row.
LEMMA RowsAreRows ==
  ASSUME LoginTypeOK
  PROVE  /\ \A a \in Attempt : attempts[a] # NoRow => attempts[a] \in AttemptRow
         /\ \A p \in Permit : permits[p] # NoRow => permits[p] \in PermitRow
         /\ \A a \in Attempt : attempts[a].state = "no row" <=> attempts[a] = NoRow
<1>1. \A a \in Attempt : attempts[a] \in AttemptRow \cup {NoRow}
  BY DEF LoginTypeOK
<1>2. \A p \in Permit : permits[p] \in PermitRow \cup {NoRow}
  BY DEF LoginTypeOK
<1> QED
  BY <1>1, <1>2, NoRowState DEF AttemptRow

LEMMA TickIsNat == LoginTypeOK => tick \in Nat
  BY TtlAssumption DEF LoginTypeOK

LEMMA EndsTyped ==
  ASSUME LoginTypeOK, NEW r \in Request, Ends(r)
  PROVE  request' \in [Request -> RequestState]
  BY DEF LoginTypeOK, Ends, RequestState

LEMMA CountingTyped ==
  ASSUME NEW S, NEW f \in [S -> Nat], NEW w
  PROVE  [f EXCEPT ![w] = @ + 1] \in [S -> Nat]
<1>1. \A x \in S : [f EXCEPT ![w] = @ + 1][x] = IF x = w THEN f[x] + 1 ELSE f[x]
  OBVIOUS
<1>2. \A x \in S : f[x] \in Nat /\ f[x] + 1 \in Nat
  OBVIOUS
<1> QED
  BY <1>1, <1>2

LEMMA LoginTypesKept ==
  ASSUME LoginTypeOK, [LoginNext]_loginVars
  PROVE  LoginTypeOK'
<1>1. ASSUME NEW r \in Request, NEW a \in Account, CountAttempt(r, a)
      PROVE  LoginTypeOK'
  <2>1. [at |-> "open", account |-> a, now |-> tick] \in RequestState
    BY TickIsNat DEF RequestState
  <2> DEFINE w == WindowOf(tick)
             b == [budget[a] EXCEPT ![w] = @ + 1]
  <2>2. b \in [Windows -> Nat]
    <3>1. budget[a] \in [Windows -> Nat]
      BY DEF LoginTypeOK
    <3> QED
      BY <3>1, CountingTyped
  <2>3. budget' = [budget EXCEPT ![a] = b]
    BY <1>1 DEF CountAttempt
  <2>4. budget' \in [Account -> [Windows -> Nat]]
    <3> HIDE DEF b
    <3> QED
      BY <2>2, <2>3 DEF LoginTypeOK
  <2> QED
    BY <1>1, <2>1, <2>4 DEF LoginTypeOK, CountAttempt
<1>2. ASSUME NEW r \in Request, NEW a \in Attempt, OpenAttempt(r, a)
      PROVE  LoginTypeOK'
  <2>1. [state |-> "pending", account |-> request[r].account,
         issued |-> request[r].now, expires |-> request[r].now + AttemptTtl]
          \in AttemptRow
    <3>1. request[r].account \in Account /\ request[r].now \in Nat
      BY <1>2, RequestHolds DEF OpenAttempt
    <3>2. request[r].now + AttemptTtl \in Nat
      BY <3>1, TtlAssumption
    <3> QED
      BY <3>1, <3>2 DEF AttemptRow
  <2> QED
    BY <1>2, <2>1, EndsTyped DEF LoginTypeOK, OpenAttempt
<1>3. ASSUME NEW r \in Request, NEW a \in Attempt, ReadPending(r, a) \/ PollVerified(r, a)
      PROVE  LoginTypeOK'
  <2>1. \A at \in {"complete", "exchange read"} :
          [at |-> at, attempt |-> a, now |-> tick] \in RequestState
    BY TickIsNat DEF RequestState
  <2> QED
    BY <1>3, <2>1 DEF LoginTypeOK, ReadPending, PollVerified
<1>4. ASSUME NEW r \in Request, MarkVerified(r) PROVE LoginTypeOK'
  <2>1. attempts[request[r].attempt] \in AttemptRow
    BY <1>4, RequestHolds, RowsAreRows, NoRowState DEF MarkVerified
  <2>2. [attempts[request[r].attempt] EXCEPT !.state = "verified"] \in AttemptRow
    BY <2>1 DEF AttemptRow
  <2> QED
    BY <1>4, <2>2, EndsTyped DEF LoginTypeOK, MarkVerified
<1>5. ASSUME NEW r \in Request, ReadVerified(r) PROVE LoginTypeOK'
  <2>1. request[r] \in [at : {"complete", "exchange read", "exchange write"},
                        attempt : Attempt, now : Nat]
    BY <1>5, WaitingStands DEF ReadVerified, LoginTypeOK, RequestState
  <2>2. [request[r] EXCEPT !.at = "exchange write"] \in RequestState
    BY <2>1 DEF RequestState
  <2> QED
    BY <1>5, <2>2 DEF LoginTypeOK, ReadVerified
<1>6. ASSUME NEW r \in Request, NEW p \in Permit, Exchange(r, p) PROVE LoginTypeOK'
  <2>1. /\ request[r].attempt \in Attempt /\ request[r].now \in Nat
        /\ attempts[request[r].attempt] \in AttemptRow
    BY <1>6, RequestHolds, RowsAreRows, NoRowState DEF Exchange, Exchangeable
  <2>2. [attempts[request[r].attempt] EXCEPT !.state = "exchanged"] \in AttemptRow
    BY <2>1 DEF AttemptRow
  <2>3. EarlierOf(attempts[request[r].attempt].expires, request[r].now + PermitTtl) \in Nat
    <3>1. attempts[request[r].attempt].expires \in Nat
      BY <2>1 DEF AttemptRow
    <3>2. request[r].now + PermitTtl \in Nat
      BY <2>1, TtlAssumption
    <3> QED
      BY <3>1, <3>2 DEF EarlierOf
  <2>4. [state |-> "issued", attempt |-> request[r].attempt,
         account |-> attempts[request[r].attempt].account,
         expires |-> EarlierOf(attempts[request[r].attempt].expires,
                               request[r].now + PermitTtl)] \in PermitRow
    BY <2>1, <2>3 DEF AttemptRow, PermitRow
  <2> QED
    BY <1>6, <2>2, <2>4, EndsTyped DEF LoginTypeOK, Exchange
<1>7. ASSUME NEW p \in Permit, NEW a \in Attempt, NEW account \in Account,
             NEW now \in 0 .. tick, NEW admits \in BOOLEAN,
             ConsumePermit(p, a, account, now, admits)
      PROVE  LoginTypeOK'
  <2>1. [permits[p] EXCEPT !.state = "consumed"] \in PermitRow
    BY <1>7, RowsAreRows DEF ConsumePermit, Consumable, PermitRow
  <2>2. now \in Nat
    BY TickIsNat
  <2>3. Append(admitted[a], [account |-> account, at |-> now])
          \in Seq([account : Account, at : Nat])
    <3>1. admitted[a] \in Seq([account : Account, at : Nat])
      BY DEF LoginTypeOK
    <3> QED
      BY <2>2, <3>1
  <2>4. admitted' \in [Attempt -> Seq([account : Account, at : Nat])]
    BY <1>7, <2>3 DEF LoginTypeOK, ConsumePermit
  <2> QED
    BY <1>7, <2>1, <2>4 DEF LoginTypeOK, ConsumePermit
<1>8. ASSUME NEW a \in Attempt, ExpireAttempt(a) PROVE LoginTypeOK'
  <2>1. [attempts[a] EXCEPT !.state = "expired away"] \in AttemptRow
    BY <1>8, RowsAreRows DEF ExpireAttempt, AttemptRow
  <2> QED
    BY <1>8, <2>1 DEF LoginTypeOK, ExpireAttempt
<1>9. ASSUME NEW p \in Permit, ExpirePermit(p) PROVE LoginTypeOK'
  <2>1. [permits[p] EXCEPT !.state = "expired away"] \in PermitRow
    BY <1>9, RowsAreRows DEF ExpirePermit, PermitRow
  <2> QED
    BY <1>9, <2>1 DEF LoginTypeOK, ExpirePermit
<1>10. CASE LoginTick
  <2>1. tick' \in 0 .. LastTick
    BY <1>10, TtlAssumption DEF LoginTypeOK, LoginTick
  <2> QED
    BY <1>10, <2>1 DEF LoginTypeOK, LoginTick
<1>11. ASSUME NEW r \in Request, RequestFails(r) PROVE LoginTypeOK'
  BY <1>11, EndsTyped DEF LoginTypeOK, RequestFails
<1>12. CASE UNCHANGED loginVars
  BY <1>12 DEF LoginTypeOK, loginVars
<1> QED
  BY <1>1, <1>2, <1>3, <1>4, <1>5, <1>6, <1>7, <1>8, <1>9, <1>10, <1>11, <1>12
     DEF LoginNext, RequestStep

\* What every step but an exchange and a consumption leaves true: rows stay
\* rows of the same account and expiry, a pending or verified state is left only
\* for one of the later ones, and requests take up existing attempts.
LoginAges ==
  /\ admitted' = admitted
  /\ \A a \in Attempt : attempts[a] # NoRow =>
       /\ attempts'[a] # NoRow
       /\ attempts'[a].account = attempts[a].account
       /\ attempts'[a].expires = attempts[a].expires
       /\ attempts[a].state \in {"exchanged", "expired away"} =>
            attempts'[a].state \in {"exchanged", "expired away"}
       /\ attempts'[a].state \in {"pending", "verified"} =>
            attempts[a].state \in {"pending", "verified"}
  /\ \A p \in Permit :
       /\ permits'[p] # NoRow => permits[p] # NoRow
       /\ permits[p] # NoRow =>
            /\ permits'[p].attempt = permits[p].attempt
            /\ permits'[p].account = permits[p].account
            /\ permits'[p].expires = permits[p].expires
            /\ permits'[p].state = "issued" => permits[p].state = "issued"
  /\ \A r \in Request :
       request'[r].at \in {"complete", "exchange read", "exchange write"} =>
         attempts[request'[r].attempt] # NoRow /\ request'[r].attempt \in Attempt

Consumes ==
  \E p \in Permit, a \in Attempt, account \in Account, now \in 0 .. tick,
     admits \in BOOLEAN : ConsumePermit(p, a, account, now, admits)

LEMMA LoginAgeing ==
  ASSUME LoginTypeOK, LoginInv, [LoginNext]_loginVars
  PROVE  \/ LoginAges
         \/ \E r \in Request, p \in Permit : Exchange(r, p)
         \/ Consumes
<1>a. /\ attempts \in [Attempt -> AttemptRow \cup {NoRow}]
      /\ permits \in [Permit -> PermitRow \cup {NoRow}]
      /\ request \in [Request -> RequestState]
      /\ Waiting.at = "waiting" /\ NoRow.state = "no row"
  BY WaitingStands, NoRowState DEF LoginTypeOK
<1>b. \A r \in Request :
        request[r].at \in {"complete", "exchange read", "exchange write"} =>
          attempts[request[r].attempt] # NoRow /\ request[r].attempt \in Attempt
  BY RequestHolds DEF LoginInv, PermitsAreTraced
<1>r. /\ \A a \in Attempt : attempts[a] # NoRow => attempts[a] \in AttemptRow
      /\ \A p \in Permit : permits[p] # NoRow => permits[p] \in PermitRow
  BY RowsAreRows
<1>1. ASSUME NEW r \in Request, NEW a \in Account, CountAttempt(r, a) PROVE LoginAges
  <2>1. /\ UNCHANGED <<attempts, permits, admitted>>
        /\ \A s \in Request : request'[s] = request[s] \/ request'[s].at = "open"
    BY <1>1, <1>a DEF CountAttempt
  <2> QED
    BY <1>b, <2>1 DEF LoginAges
<1>2. ASSUME NEW r \in Request, NEW a \in Attempt, OpenAttempt(r, a) PROVE LoginAges
  <2>1. /\ UNCHANGED <<permits, admitted>>
        /\ \A s \in Request : request'[s] = request[s] \/ request'[s] = Waiting
        /\ attempts[a] = NoRow
        /\ \A b \in Attempt : b # a => attempts'[b] = attempts[b]
    BY <1>2, <1>a DEF OpenAttempt, Ends
  <2> QED
    BY <1>a, <1>b, <2>1 DEF LoginAges
<1>3. ASSUME NEW r \in Request, NEW a \in Attempt, ReadPending(r, a) \/ PollVerified(r, a)
      PROVE  LoginAges
  <2>1. /\ UNCHANGED <<attempts, permits, admitted>> /\ attempts[a] # NoRow
        /\ \E at \in {"complete", "exchange read"} : request' =
             [request EXCEPT ![r] = [at |-> at, attempt |-> a, now |-> tick]]
    BY <1>3, <1>a DEF ReadPending, PollVerified
  <2>2. \A s \in Request : request'[s] = request[s] \/ request'[s].attempt = a
    <3>1. PICK at : request' =
            [request EXCEPT ![r] = [at |-> at, attempt |-> a, now |-> tick]]
      BY <2>1
    <3>2. request'[r].attempt = a
      BY <1>a, <3>1
    <3>3. \A s \in Request : s # r => request'[s] = request[s]
      BY <1>a, <3>1
    <3> QED
      BY <3>2, <3>3
  <2> QED
    BY <1>b, <2>1, <2>2 DEF LoginAges
<1>4. ASSUME NEW r \in Request, ReadVerified(r) PROVE LoginAges
  <2>1. request[r] \in [at : {"complete", "exchange read", "exchange write"},
                        attempt : Attempt, now : Nat]
    BY <1>4, <1>a DEF ReadVerified, RequestState
  <2>2. /\ UNCHANGED <<attempts, permits, admitted>>
        /\ \A s \in Request : request'[s] = request[s]
             \/ request'[s].attempt = request[r].attempt
    BY <1>4, <1>a, <2>1 DEF ReadVerified
  <2>3. attempts[request[r].attempt] # NoRow /\ request[r].attempt \in Attempt
    BY <1>b, <2>1
  <2> QED
    BY <1>b, <2>2, <2>3 DEF LoginAges
<1>5. ASSUME NEW r \in Request, MarkVerified(r) PROVE LoginAges
  <2> DEFINE a == request[r].attempt
  <2>1. /\ UNCHANGED <<permits, admitted>>
        /\ \A s \in Request : request'[s] = request[s] \/ request'[s] = Waiting
        /\ attempts[a] # NoRow /\ attempts[a].state = "pending" /\ a \in Attempt
        /\ attempts' = [attempts EXCEPT ![a].state = "verified"]
    BY <1>5, <1>a, <1>b DEF MarkVerified, Ends
  <2>2. /\ attempts'[a].state = "verified"
        /\ attempts'[a].account = attempts[a].account
        /\ attempts'[a].expires = attempts[a].expires
        /\ \A b \in Attempt : b # a => attempts'[b] = attempts[b]
    BY <1>a, <1>r, <2>1 DEF AttemptRow
  <2> HIDE DEF a
  <2> QED
    BY <1>a, <1>b, <2>1, <2>2 DEF LoginAges
<1>6. ASSUME NEW a \in Attempt, ExpireAttempt(a) PROVE LoginAges
  <2>1. /\ UNCHANGED <<permits, admitted, request>> /\ attempts[a] # NoRow
        /\ attempts' = [attempts EXCEPT ![a].state = "expired away"]
    BY <1>6 DEF ExpireAttempt
  <2>2. /\ attempts'[a].state = "expired away"
        /\ attempts'[a].account = attempts[a].account
        /\ attempts'[a].expires = attempts[a].expires
        /\ \A b \in Attempt : b # a => attempts'[b] = attempts[b]
    BY <1>a, <1>r, <2>1 DEF AttemptRow
  <2> QED
    BY <1>a, <1>b, <2>1, <2>2 DEF LoginAges
<1>7. ASSUME NEW p \in Permit, ExpirePermit(p) PROVE LoginAges
  <2>1. /\ UNCHANGED <<attempts, admitted, request>> /\ permits[p] # NoRow
        /\ permits' = [permits EXCEPT ![p].state = "expired away"]
    BY <1>7 DEF ExpirePermit
  <2>2. /\ permits'[p].state = "expired away"
        /\ permits'[p].attempt = permits[p].attempt
        /\ permits'[p].account = permits[p].account
        /\ permits'[p].expires = permits[p].expires
        /\ \A q \in Permit : q # p => permits'[q] = permits[q]
    BY <1>a, <1>r, <2>1 DEF PermitRow
  <2> QED
    BY <1>b, <2>1, <2>2 DEF LoginAges
<1>8. ASSUME NEW r \in Request, RequestFails(r) PROVE LoginAges
  <2>1. /\ UNCHANGED <<attempts, permits, admitted>>
        /\ \A s \in Request : request'[s] = request[s] \/ request'[s] = Waiting
    BY <1>8, <1>a DEF RequestFails, Ends
  <2> QED
    BY <1>a, <1>b, <2>1 DEF LoginAges
<1>9. CASE LoginTick \/ UNCHANGED loginVars
  BY <1>9, <1>b DEF LoginTick, loginVars, LoginAges
<1>10. ASSUME NEW r \in Request, RequestStep(r)
       PROVE  LoginAges \/ \E p \in Permit : Exchange(r, p)
  BY <1>1, <1>2, <1>3, <1>4, <1>5, <1>8, <1>10 DEF RequestStep
<1> QED
  <2>1. CASE \E r \in Request : RequestStep(r)
    BY <1>10, <2>1
  <2>2. CASE Consumes
    BY <2>2
  <2>3. CASE \/ \E a \in Attempt : ExpireAttempt(a)
             \/ \E p \in Permit : ExpirePermit(p)
             \/ LoginTick
             \/ UNCHANGED loginVars
    BY <1>6, <1>7, <1>9, <2>3
  <2> QED
    BY <2>1, <2>2, <2>3 DEF LoginNext, Consumes
LEMMA AgeingKeeps ==
  ASSUME LoginTypeOK, PermitsAreTraced, OneSignInPerAttempt, LoginAges, LoginTypeOK'
  PROVE  PermitsAreTraced' /\ OneSignInPerAttempt'
<1>a. /\ \A p \in Permit : permits[p] # NoRow => permits[p] \in PermitRow
      /\ \A a \in Attempt : attempts[a] # NoRow => attempts[a] \in AttemptRow
      /\ \A a \in Attempt : attempts'[a] # NoRow => attempts'[a] \in AttemptRow
  BY RowsAreRows DEF LoginTypeOK
<1>b. \A p \in Permit : permits[p] # NoRow =>
        /\ permits[p].attempt \in Attempt
        /\ permits'[p].attempt = permits[p].attempt
  BY <1>a DEF LoginAges, PermitRow
<1>c. \A p \in Permit : permits'[p] # NoRow =>
        /\ permits[p] # NoRow
        /\ permits'[p].account = permits[p].account
        /\ permits'[p].expires = permits[p].expires
        /\ permits'[p].state = "issued" => permits[p].state = "issued"
  BY DEF LoginAges
<1>d. admitted' = admitted /\ \A a \in Attempt : attempts[a] # NoRow =>
        /\ attempts'[a] # NoRow
        /\ attempts'[a].account = attempts[a].account
        /\ attempts'[a].expires = attempts[a].expires
        /\ attempts[a].state \in {"exchanged", "expired away"} =>
             attempts'[a].state \in {"exchanged", "expired away"}
  BY DEF LoginAges
<1>1. ASSUME NEW p \in Permit, permits'[p] # NoRow
      PROVE  /\ attempts'[permits'[p].attempt] # NoRow
             /\ attempts'[permits'[p].attempt].state \in {"exchanged", "expired away"}
             /\ permits'[p].account = attempts'[permits'[p].attempt].account
             /\ permits'[p].expires <= attempts'[permits'[p].attempt].expires
  <2> DEFINE a == permits[p].attempt
  <2>1. permits[p] # NoRow /\ permits'[p].attempt = a /\ a \in Attempt
    BY <1>1, <1>b, <1>c
  <2>2. /\ attempts[a] # NoRow /\ attempts[a].state \in {"exchanged", "expired away"}
        /\ permits[p].account = attempts[a].account
        /\ permits[p].expires <= attempts[a].expires
    BY <2>1 DEF PermitsAreTraced
  <2> HIDE DEF a
  <2> QED
    BY <1>1, <1>c, <1>d, <2>1, <2>2
<1>2. ASSUME NEW p \in Permit, NEW q \in Permit, permits'[p] # NoRow,
             permits'[q] # NoRow, permits'[p].attempt = permits'[q].attempt
      PROVE  p = q
  <2>1. permits[p] # NoRow /\ permits[q] # NoRow /\ permits[p].attempt = permits[q].attempt
    BY <1>2, <1>b, <1>c
  <2> QED
    BY <2>1 DEF PermitsAreTraced
<1>3. ASSUME NEW p \in Permit, permits'[p] # NoRow, permits'[p].state = "issued"
      PROVE  admitted'[permits'[p].attempt] = <<>>
  <2>1. permits[p] # NoRow /\ permits[p].state = "issued"
    BY <1>3, <1>c
  <2> QED
    BY <1>b, <1>d, <2>1 DEF PermitsAreTraced
<1>4. \A a \in Attempt : attempts'[a] = NoRow
        \/ attempts'[a].state \in {"pending", "verified"} => admitted'[a] = <<>>
  BY DEF PermitsAreTraced, LoginAges
<1>5. \A r \in Request :
        request'[r].at \in {"complete", "exchange read", "exchange write"} =>
          attempts'[request'[r].attempt] # NoRow
  BY DEF LoginAges
<1>6. OneSignInPerAttempt'
  <2> SUFFICES ASSUME NEW a \in Attempt
               PROVE  /\ Len(admitted'[a]) <= 1
                      /\ \A i \in 1 .. Len(admitted'[a]) :
                            /\ attempts'[a] # NoRow
                            /\ attempts'[a].state \in {"exchanged", "expired away"}
                            /\ admitted'[a][i].account = attempts'[a].account
                            /\ admitted'[a][i].at < attempts'[a].expires
    BY DEF OneSignInPerAttempt
  <2>1. /\ Len(admitted[a]) <= 1
        /\ \A i \in 1 .. Len(admitted[a]) :
              /\ attempts[a] # NoRow
              /\ attempts[a].state \in {"exchanged", "expired away"}
              /\ admitted[a][i].account = attempts[a].account
              /\ admitted[a][i].at < attempts[a].expires
    BY DEF OneSignInPerAttempt
  <2> QED
    BY <1>d, <2>1
<1> QED
  BY <1>1, <1>2, <1>3, <1>4, <1>5, <1>6 DEF PermitsAreTraced

\* An exchange gives the one permit of an attempt that has none.
LEMMA ExchangeKeeps ==
  ASSUME LoginTypeOK, PermitsAreTraced, OneSignInPerAttempt, LoginTypeOK',
         NEW r \in Request, NEW p \in Permit, Exchange(r, p)
  PROVE  PermitsAreTraced' /\ OneSignInPerAttempt'
<1> DEFINE a == request[r].attempt
<1>a. /\ attempts \in [Attempt -> AttemptRow \cup {NoRow}]
      /\ permits \in [Permit -> PermitRow \cup {NoRow}]
      /\ request \in [Request -> RequestState]
      /\ Waiting.at = "waiting" /\ NoRow.state = "no row"
      /\ a \in Attempt /\ request[r].now \in Nat
      /\ \A q \in Permit : permits[q] # NoRow => permits[q] \in PermitRow
  BY WaitingStands, NoRowState, RowsAreRows, RequestHolds DEF LoginTypeOK, Exchange
<1>1. /\ attempts[a].state = "verified" /\ attempts[a] # NoRow
      /\ attempts[a] \in AttemptRow /\ permits[p] = NoRow /\ admitted' = admitted
      /\ attempts' = [attempts EXCEPT ![a].state = "exchanged"]
  BY <1>a, RowsAreRows DEF Exchange, Exchangeable
<1>2. /\ attempts'[a].state = "exchanged" /\ attempts'[a] # NoRow
      /\ attempts'[a].account = attempts[a].account
      /\ attempts'[a].expires = attempts[a].expires
      /\ \A b \in Attempt : b # a => attempts'[b] = attempts[b]
  BY <1>a, <1>1 DEF AttemptRow
<1> DEFINE e == EarlierOf(attempts[a].expires, request[r].now + PermitTtl)
<1>3. /\ permits'[p].attempt = a /\ permits'[p].account = attempts[a].account
      /\ permits'[p].expires = e /\ permits'[p].state = "issued"
      /\ \A q \in Permit : q # p => permits'[q] = permits[q]
  BY <1>a DEF Exchange
<1>4. e <= attempts[a].expires
  <2>1. attempts[a].expires \in Nat
    BY <1>1 DEF AttemptRow
  <2>2. \A n \in Nat : n + PermitTtl \in Nat
    BY TtlAssumption
  <2>3. request[r].now + PermitTtl \in Nat
    BY <1>a, <2>2
  <2> QED
    BY <2>1, <2>3 DEF EarlierOf
<1>5. \A s \in Request : request'[s] = request[s] \/ request'[s] = Waiting
  BY <1>a DEF Exchange, Ends
<1>6. \A q \in Permit : permits[q] # NoRow =>
        permits[q].attempt # a /\ permits[q].attempt \in Attempt
  BY <1>1, <1>a DEF PermitsAreTraced, PermitRow
<1>7. admitted[a] = <<>>
  BY <1>1, <1>a DEF PermitsAreTraced
<1>8. \A s \in Request : request[s].at \in {"complete", "exchange read", "exchange write"} =>
        attempts[request[s].attempt] # NoRow /\ request[s].attempt \in Attempt
  BY RequestHolds DEF PermitsAreTraced
<1> HIDE DEF a, e
<1>9. ASSUME NEW q \in Permit, permits'[q] # NoRow
      PROVE  /\ attempts'[permits'[q].attempt] # NoRow
             /\ attempts'[permits'[q].attempt].state \in {"exchanged", "expired away"}
             /\ permits'[q].account = attempts'[permits'[q].attempt].account
             /\ permits'[q].expires <= attempts'[permits'[q].attempt].expires
  <2>1. CASE q = p
    BY <1>2, <1>3, <1>4, <2>1
  <2>2. CASE q # p
    <3>1. permits'[q] = permits[q] /\ permits[q] # NoRow
      BY <1>3, <1>9, <2>2
    <3>2. attempts'[permits[q].attempt] = attempts[permits[q].attempt]
      BY <1>2, <1>6, <3>1
    <3> QED
      BY <3>1, <3>2 DEF PermitsAreTraced
  <2> QED
    BY <2>1, <2>2
<1>10. ASSUME NEW q \in Permit, NEW s \in Permit, permits'[q] # NoRow,
              permits'[s] # NoRow, permits'[q].attempt = permits'[s].attempt
       PROVE  q = s
  <2>1. CASE q # p /\ s # p
    BY <1>3, <1>10, <2>1 DEF PermitsAreTraced
  <2>2. CASE q = p /\ s # p
    BY <1>3, <1>6, <1>10, <2>2
  <2>3. CASE q # p /\ s = p
    BY <1>3, <1>6, <1>10, <2>3
  <2> QED
    BY <2>1, <2>2, <2>3
<1>11. \A q \in Permit : permits'[q] # NoRow /\ permits'[q].state = "issued" =>
         admitted'[permits'[q].attempt] = <<>>
  BY <1>1, <1>3, <1>7, ZenonT(40) DEF PermitsAreTraced
<1>12. \A b \in Attempt : attempts'[b] = NoRow
         \/ attempts'[b].state \in {"pending", "verified"} => admitted'[b] = <<>>
  BY <1>1, <1>2 DEF PermitsAreTraced
<1>13. \A s \in Request :
         request'[s].at \in {"complete", "exchange read", "exchange write"} =>
           attempts'[request'[s].attempt] # NoRow
  BY <1>a, <1>2, <1>5, <1>8
<1>14. OneSignInPerAttempt'
  <2> SUFFICES ASSUME NEW b \in Attempt
               PROVE  /\ Len(admitted'[b]) <= 1
                      /\ \A i \in 1 .. Len(admitted'[b]) :
                            /\ attempts'[b] # NoRow
                            /\ attempts'[b].state \in {"exchanged", "expired away"}
                            /\ admitted'[b][i].account = attempts'[b].account
                            /\ admitted'[b][i].at < attempts'[b].expires
    BY DEF OneSignInPerAttempt
  <2>1. CASE b = a
    <3>1. admitted'[b] = <<>>
      BY <1>1, <1>7, <2>1
    <3> QED
      BY <3>1
  <2>2. CASE b # a
    <3>1. attempts'[b] = attempts[b] /\ admitted'[b] = admitted[b]
      BY <1>1, <1>2, <2>2
    <3> QED
      BY <3>1 DEF OneSignInPerAttempt
  <2> QED
    BY <2>1, <2>2
<1> QED
  BY <1>9, <1>10, <1>11, <1>12, <1>13, <1>14 DEF PermitsAreTraced
\* A consumption uses up the one permit of its attempt.
LEMMA ConsumingKeeps ==
  ASSUME LoginTypeOK, PermitsAreTraced, OneSignInPerAttempt, LoginTypeOK',
         NEW p \in Permit, NEW a \in Attempt, NEW account \in Account,
         NEW now \in 0 .. tick, NEW admits \in BOOLEAN,
         ConsumePermit(p, a, account, now, admits)
  PROVE  PermitsAreTraced' /\ OneSignInPerAttempt'
<1>a. /\ permits[p] # NoRow /\ permits[p].state = "issued"
      /\ permits[p].expires > now /\ permits[p].attempt = a
      /\ permits[p].account = account /\ permits[p] \in PermitRow
      /\ permits \in [Permit -> PermitRow \cup {NoRow}]
      /\ UNCHANGED <<attempts, request>>
  BY RowsAreRows DEF ConsumePermit, Consumable, LoginTypeOK
<1>b. /\ attempts[a] # NoRow /\ attempts[a].state \in {"exchanged", "expired away"}
      /\ account = attempts[a].account /\ permits[p].expires <= attempts[a].expires
      /\ admitted[a] = <<>>
      /\ \A q \in Permit : permits[q] # NoRow /\ permits[q].attempt = a => q = p
  BY <1>a DEF PermitsAreTraced
<1>1. /\ permits'[p].state = "consumed" /\ permits'[p] # NoRow
      /\ permits'[p].attempt = a /\ permits'[p].account = account
      /\ permits'[p].expires = permits[p].expires
      /\ \A q \in Permit : q # p => permits'[q] = permits[q]
  <2>1. permits' = [permits EXCEPT ![p].state = "consumed"]
    BY DEF ConsumePermit
  <2>2. /\ permits'[p].state = "consumed"
        /\ permits'[p].attempt = a /\ permits'[p].account = account
        /\ permits'[p].expires = permits[p].expires
        /\ \A q \in Permit : q # p => permits'[q] = permits[q]
    BY <1>a, <2>1 DEF PermitRow
  <2> QED
    BY <2>2, NoRowState
<1>2. admitted \in [Attempt -> Seq([account : Account, at : Nat])]
  BY DEF LoginTypeOK
<1>3. \A b \in Attempt : b # a => admitted'[b] = admitted[b]
  BY <1>2 DEF ConsumePermit
<1>4. admitted'[a] \in {<<>>, <<[account |-> account, at |-> now]>>}
  <2>1. CASE ~admits
    BY <1>b, <2>1 DEF ConsumePermit
  <2>2. CASE admits
    <3>1. admitted'[a] = Append(<<>>, [account |-> account, at |-> now])
      BY <1>b, <1>2, <2>2 DEF ConsumePermit
    <3> QED
      BY <3>1
  <2> QED
    BY <2>1, <2>2
<1>5. ASSUME NEW q \in Permit, permits'[q] # NoRow
      PROVE  /\ permits[q] # NoRow /\ permits'[q].attempt = permits[q].attempt
             /\ permits'[q].account = permits[q].account
             /\ permits'[q].expires = permits[q].expires
             /\ permits'[q].state = "issued" => permits[q].state = "issued" /\ q # p
  BY <1>a, <1>1, <1>5
<1>6. ASSUME NEW q \in Permit, permits'[q] # NoRow
      PROVE  /\ attempts[permits'[q].attempt] # NoRow
             /\ attempts[permits'[q].attempt].state \in {"exchanged", "expired away"}
             /\ permits'[q].account = attempts[permits'[q].attempt].account
             /\ permits'[q].expires <= attempts[permits'[q].attempt].expires
  BY <1>5, <1>6, ZenonT(40) DEF PermitsAreTraced
<1>7. ASSUME NEW q \in Permit, NEW s \in Permit, permits'[q] # NoRow,
             permits'[s] # NoRow, permits'[q].attempt = permits'[s].attempt
      PROVE  q = s
  <2>1. permits[q] # NoRow /\ permits[s] # NoRow /\ permits[q].attempt = permits[s].attempt
    BY <1>5, <1>7
  <2> QED
    BY <2>1 DEF PermitsAreTraced
<1>8. ASSUME NEW q \in Permit, permits'[q] # NoRow, permits'[q].state = "issued"
      PROVE  admitted'[permits'[q].attempt] = <<>>
  <2>1. permits[q] # NoRow /\ permits[q].state = "issued" /\ q # p
    BY <1>5, <1>8
  <2>2. permits[q].attempt # a /\ permits[q].attempt \in Attempt
    BY <1>b, <2>1, RowsAreRows DEF PermitRow
  <2>3. permits'[q].attempt = permits[q].attempt
    BY <1>5, <1>8
  <2>4. admitted[permits[q].attempt] = <<>>
    BY <2>1 DEF PermitsAreTraced
  <2> QED
    BY <1>3, <2>2, <2>3, <2>4
<1>9. \A b \in Attempt : attempts[b] = NoRow
        \/ attempts[b].state \in {"pending", "verified"} => admitted'[b] = <<>>
  BY <1>b, <1>3, NoRowState DEF PermitsAreTraced
<1>10. OneSignInPerAttempt'
  <2> SUFFICES ASSUME NEW b \in Attempt
               PROVE  /\ Len(admitted'[b]) <= 1
                      /\ \A i \in 1 .. Len(admitted'[b]) :
                            /\ attempts'[b] # NoRow
                            /\ attempts'[b].state \in {"exchanged", "expired away"}
                            /\ admitted'[b][i].account = attempts'[b].account
                            /\ admitted'[b][i].at < attempts'[b].expires
    BY DEF OneSignInPerAttempt
  <2>1. CASE b # a
    BY <1>a, <1>3, <2>1 DEF OneSignInPerAttempt
  <2>2. CASE b = a /\ admitted'[a] = <<>>
    BY <2>2
  <2>3. CASE b = a /\ admitted'[a] = <<[account |-> account, at |-> now]>>
    <3>1. Len(admitted'[b]) = 1 /\ admitted'[b][1] = [account |-> account, at |-> now]
      BY <2>3
    <3>2. now < attempts[a].expires
      <4>1. now \in Nat
        BY TickIsNat
      <4>2. permits[p].expires \in Nat
        BY <1>a DEF PermitRow
      <4>3. attempts[a] \in AttemptRow
        BY <1>b, RowsAreRows
      <4>4. attempts[a].expires \in Nat
        BY <4>3 DEF AttemptRow
      <4>5. permits[p].expires > now /\ permits[p].expires <= attempts[a].expires
        BY <1>a, <1>b
      <4> QED
        BY <4>1, <4>2, <4>4, <4>5
    <3>3. attempts'[b] = attempts[a]
      BY <1>a, <2>3
    <3>4. \A i \in 1 .. Len(admitted'[b]) : i = 1
      BY <3>1
    <3>5. admitted'[b][1].account = account /\ admitted'[b][1].at = now
      BY <3>1
    <3>6. ASSUME NEW i \in 1 .. Len(admitted'[b])
          PROVE  /\ attempts'[b] # NoRow
                 /\ attempts'[b].state \in {"exchanged", "expired away"}
                 /\ admitted'[b][i].account = attempts'[b].account
                 /\ admitted'[b][i].at < attempts'[b].expires
      <4>1. i = 1
        BY <3>4
      <4> QED
        BY <1>b, <3>2, <3>3, <3>5, <4>1
    <3>7. Len(admitted'[b]) <= 1
      BY <3>1
    <3> QED
      BY <3>6, <3>7
  <2> QED
    BY <1>4, <2>1, <2>2, <2>3
<1> QED
  BY <1>a, <1>6, <1>7, <1>8, <1>9, <1>10 DEF PermitsAreTraced

LEMMA NextLogin == LoginInv /\ [LoginNext]_loginVars => LoginInv'
<1> SUFFICES ASSUME LoginInv, [LoginNext]_loginVars PROVE LoginInv'
  OBVIOUS
<1>1. LoginTypeOK /\ PermitsAreTraced /\ OneSignInPerAttempt
  BY DEF LoginInv
<1>2. LoginTypeOK'
  BY <1>1, LoginTypesKept
<1>3. PermitsAreTraced' /\ OneSignInPerAttempt'
  <2>1. CASE LoginAges
    BY <1>1, <1>2, <2>1, AgeingKeeps
  <2>2. CASE \E r \in Request, p \in Permit : Exchange(r, p)
    BY <1>1, <1>2, <2>2, ExchangeKeeps
  <2>3. CASE Consumes
    BY <1>1, <1>2, <2>3, ConsumingKeeps DEF Consumes
  <2> QED
    BY <1>1, <2>1, <2>2, <2>3, LoginAgeing
<1> QED
  BY <1>2, <1>3 DEF LoginInv

\* Budgets, attempts, permits and requests keep their types through lost answers,
\* expiry and repeated calls (login-permit.ts).
THEOREM LoginTypesHold == LoginSpec => []LoginTypeOK
<1>1. LoginInv => LoginTypeOK
  BY DEF LoginInv
<1> QED
  BY <1>1, InitLogin, NextLogin, PTL DEF LoginSpec

\* A completed challenge admits at most one sign-in, of the account it was opened
\* for and in time, however the polls, exchanges and retries of the trigger meet.
THEOREM SignInsHold == LoginSpec => []OneSignInPerAttempt
<1>1. LoginInv => OneSignInPerAttempt
  BY DEF LoginInv
<1> QED
  BY <1>1, InitLogin, NextLogin, PTL DEF LoginSpec

\* The attempts an account has opened in a window, and the requests that were
\* counted there and have not opened theirs yet.
OpenedIn(account, w) ==
  {a \in Attempt : /\ attempts[a] # NoRow
                   /\ attempts[a].account = account
                   /\ WindowOf(attempts[a].issued) = w}
OpeningIn(account, w) ==
  {r \in Request : /\ request[r].at = "open"
                   /\ request[r].account = account
                   /\ WindowOf(request[r].now) = w}

\* An attempt is counted before it is opened: the rate row covers those that are
\* open and those that are still to be opened, and never passes the limit.
BudgetCounts ==
  \A account \in Account, w \in Windows :
     /\ IsFiniteSet(OpenedIn(account, w)) /\ IsFiniteSet(OpeningIn(account, w))
     /\ Cardinality(OpenedIn(account, w)) + Cardinality(OpeningIn(account, w))
          <= budget[account][w]
     /\ budget[account][w] <= RateLimit

LEMMA InitBudget == LoginInit => BudgetCounts
<1> SUFFICES ASSUME LoginInit PROVE BudgetCounts
  OBVIOUS
<1>1. ASSUME NEW account \in Account, NEW w \in Windows
      PROVE  /\ OpenedIn(account, w) = {} /\ OpeningIn(account, w) = {}
             /\ budget[account][w] = 0
  <2>1. OpenedIn(account, w) = {} /\ budget[account][w] = 0
    BY DEF LoginInit, OpenedIn
  <2>2. OpeningIn(account, w) = {}
    BY WaitingStands DEF LoginInit, OpeningIn
  <2> QED
    BY <2>1, <2>2
<1>2. IsFiniteSet({}) /\ Cardinality({}) = 0 /\ 0 + 0 <= 0 /\ 0 <= RateLimit
  BY FS_EmptySet, TtlAssumption
<1> QED
  BY <1>1, <1>2 DEF BudgetCounts

\* A step that counts nothing and opens nothing.
LEMMA CountsStay ==
  ASSUME BudgetCounts, LoginTypeOK, UNCHANGED budget,
         \A account \in Account, w \in Windows :
            /\ OpenedIn(account, w)' \subseteq OpenedIn(account, w)
            /\ OpeningIn(account, w)' \subseteq OpeningIn(account, w)
  PROVE  BudgetCounts'
<1> SUFFICES ASSUME NEW account \in Account, NEW w \in Windows
             PROVE  /\ IsFiniteSet(OpenedIn(account, w)') /\ IsFiniteSet(OpeningIn(account, w)')
                    /\ Cardinality(OpenedIn(account, w)') + Cardinality(OpeningIn(account, w)')
                         <= budget[account][w]
                    /\ budget[account][w] <= RateLimit
  BY DEF BudgetCounts
<1> DEFINE O == OpenedIn(account, w)
           R == OpeningIn(account, w)
<1>1. /\ IsFiniteSet(O) /\ IsFiniteSet(R) /\ O' \subseteq O /\ R' \subseteq R
      /\ Cardinality(O) + Cardinality(R) <= budget[account][w]
      /\ budget[account][w] <= RateLimit
  BY DEF BudgetCounts
<1>2. /\ IsFiniteSet(O') /\ IsFiniteSet(R') /\ Cardinality(O') <= Cardinality(O)
      /\ Cardinality(R') <= Cardinality(R)
  <2> HIDE DEF O, R
  <2> QED
    BY <1>1, FS_Subset
<1>3. /\ Cardinality(O') \in Nat /\ Cardinality(R') \in Nat
      /\ Cardinality(O) \in Nat /\ Cardinality(R) \in Nat
      /\ budget[account][w] \in Nat
  <2>1. budget[account][w] \in Nat
    BY DEF LoginTypeOK
  <2> HIDE DEF O, R
  <2> QED
    BY <1>1, <1>2, <2>1, FS_CardinalityType
<1>4. Cardinality(O') + Cardinality(R') <= budget[account][w]
  <2> HIDE DEF O, R
  <2> QED
    BY <1>1, <1>2, <1>3
<1> QED
  BY <1>1, <1>2, <1>4

\* Counting an attempt takes one more of the budget and has one more to open.
LEMMA CountingCounts ==
  ASSUME LoginTypeOK, BudgetCounts, NEW r \in Request, NEW a \in Account, CountAttempt(r, a)
  PROVE  BudgetCounts'
<1> DEFINE v == WindowOf(tick)
<1>1. /\ request[r] = Waiting /\ budget[a][v] < RateLimit
      /\ budget' = [budget EXCEPT ![a][v] = @ + 1]
      /\ request' = [request EXCEPT ![r] = [at |-> "open", account |-> a, now |-> tick]]
      /\ UNCHANGED attempts
  BY DEF CountAttempt, WithinBudget
<1>2. request[r].at # "open"
  BY <1>1, WaitingStands
<1> SUFFICES ASSUME NEW account \in Account, NEW w \in Windows
             PROVE  /\ IsFiniteSet(OpenedIn(account, w)')
                    /\ IsFiniteSet(OpeningIn(account, w)')
                    /\ Cardinality(OpenedIn(account, w)') + Cardinality(OpeningIn(account, w)')
                         <= budget'[account][w]
                    /\ budget'[account][w] <= RateLimit
  BY DEF BudgetCounts
<1> DEFINE O == OpenedIn(account, w)
           R == OpeningIn(account, w)
<1>3. /\ IsFiniteSet(O) /\ IsFiniteSet(R) /\ Cardinality(O) \in Nat /\ Cardinality(R) \in Nat
      /\ Cardinality(O) + Cardinality(R) <= budget[account][w]
      /\ budget[account][w] <= RateLimit
  BY FS_CardinalityType DEF BudgetCounts
<1>4. budget \in [Account -> [Windows -> Nat]] /\ request \in [Request -> RequestState]
  BY DEF LoginTypeOK
<1>5. O' = O
  BY <1>1 DEF OpenedIn
<1>6. CASE account = a /\ w = v
  <2>1. R' = R \cup {r} /\ r \notin R
    BY <1>1, <1>2, <1>4, <1>6 DEF OpeningIn
  <2>2. budget'[account][w] = budget[account][w] + 1 /\ budget[account][w] \in Nat
    BY <1>1, <1>4, <1>6
  <2> HIDE DEF O, R, v
  <2>3. IsFiniteSet(R') /\ Cardinality(R') = Cardinality(R) + 1
    BY <1>3, <2>1, FS_AddElement
  <2>4. budget[account][w] < RateLimit /\ RateLimit \in Nat
    BY <1>1, <1>6, TtlAssumption
  <2> QED
    BY <1>3, <1>5, <2>2, <2>3, <2>4 DEF O, R
<1>7. CASE ~(account = a /\ w = v)
  <2>1. R' = R
    BY <1>1, <1>2, <1>4, <1>7 DEF OpeningIn
  <2>2. budget'[account][w] = budget[account][w]
    BY <1>1, <1>4, <1>7
  <2> HIDE DEF O, R
  <2> QED
    BY <1>3, <1>5, <2>1, <2>2 DEF O, R
<1> QED
  BY <1>6, <1>7

\* Opening takes the attempt from those to be opened to those that are open.
LEMMA OpeningCounts ==
  ASSUME LoginTypeOK, BudgetCounts, NEW r \in Request, NEW a \in Attempt, OpenAttempt(r, a)
  PROVE  BudgetCounts'
<1> DEFINE opened == [state |-> "pending", account |-> request[r].account,
                   issued |-> request[r].now, expires |-> request[r].now + AttemptTtl]
<1>1. /\ request[r].at = "open" /\ attempts[a] = NoRow /\ UNCHANGED budget
      /\ attempts' = [attempts EXCEPT ![a] = opened]
      /\ request' = [request EXCEPT ![r] = Waiting]
  BY DEF OpenAttempt, Ends
<1>2. /\ opened.account = request[r].account /\ opened.issued = request[r].now
      /\ opened # NoRow
  <2>1. opened.state = "pending"
    OBVIOUS
  <2>2. /\ opened.account = request[r].account /\ opened.issued = request[r].now
    OBVIOUS
  <2> HIDE DEF opened
  <2> QED
    BY <2>1, <2>2, NoRowState
<1>3. /\ attempts \in [Attempt -> AttemptRow \cup {NoRow}]
      /\ request \in [Request -> RequestState] /\ budget \in [Account -> [Windows -> Nat]]
  BY DEF LoginTypeOK
<1> HIDE DEF opened
<1> SUFFICES ASSUME NEW account \in Account, NEW w \in Windows
             PROVE  /\ IsFiniteSet(OpenedIn(account, w)')
                    /\ IsFiniteSet(OpeningIn(account, w)')
                    /\ Cardinality(OpenedIn(account, w)') + Cardinality(OpeningIn(account, w)')
                         <= budget[account][w]
                    /\ budget[account][w] <= RateLimit
  BY <1>1 DEF BudgetCounts
<1> DEFINE O == OpenedIn(account, w)
           R == OpeningIn(account, w)
<1>4. /\ IsFiniteSet(O) /\ IsFiniteSet(R) /\ Cardinality(O) \in Nat /\ Cardinality(R) \in Nat
      /\ Cardinality(O) + Cardinality(R) <= budget[account][w]
      /\ budget[account][w] <= RateLimit /\ budget[account][w] \in Nat
  BY <1>3, FS_CardinalityType DEF BudgetCounts
<1>5. CASE request[r].account = account /\ WindowOf(request[r].now) = w
  <2>1. R' = R \ {r} /\ r \in R
    BY <1>1, <1>3, <1>5, WaitingStands DEF OpeningIn
  <2>2. O' = O \cup {a} /\ a \notin O
    BY <1>1, <1>2, <1>3, <1>5 DEF OpenedIn
  <2> HIDE DEF O, R
  <2>3. IsFiniteSet(R') /\ Cardinality(R') = Cardinality(R) - 1
    BY <1>4, <2>1, FS_RemoveElement
  <2>4. IsFiniteSet(O') /\ Cardinality(O') = Cardinality(O) + 1
    BY <1>4, <2>2, FS_AddElement
  <2> QED
    BY <1>4, <2>3, <2>4 DEF O, R
<1>6. CASE ~(request[r].account = account /\ WindowOf(request[r].now) = w)
  <2>1. R' = R
    BY <1>1, <1>3, <1>6, WaitingStands DEF OpeningIn
  <2>2. O' = O
    BY <1>1, <1>2, <1>3, <1>6 DEF OpenedIn
  <2> HIDE DEF O, R
  <2> QED
    BY <1>4, <2>1, <2>2 DEF O, R
<1> QED
  BY <1>5, <1>6

\* The other steps change the state of rows, and let requests go on or end.
LEMMA OthersCount ==
  ASSUME LoginTypeOK, [LoginNext]_loginVars
  PROVE  \/ \E r \in Request, a \in Account : CountAttempt(r, a)
         \/ \E r \in Request, a \in Attempt : OpenAttempt(r, a)
         \/ /\ UNCHANGED budget
            /\ \A a \in Attempt : attempts'[a] # NoRow =>
                 /\ attempts[a] # NoRow
                 /\ attempts'[a].account = attempts[a].account
                 /\ attempts'[a].issued = attempts[a].issued
            /\ \A r \in Request : request'[r].at = "open" => request'[r] = request[r]
<1> DEFINE Others ==
             /\ UNCHANGED budget
             /\ \A a \in Attempt : attempts'[a] # NoRow =>
                  /\ attempts[a] # NoRow
                  /\ attempts'[a].account = attempts[a].account
                  /\ attempts'[a].issued = attempts[a].issued
             /\ \A r \in Request : request'[r].at = "open" => request'[r] = request[r]
<1>a. /\ attempts \in [Attempt -> AttemptRow \cup {NoRow}]
      /\ request \in [Request -> RequestState]
  BY DEF LoginTypeOK
<1>b. ASSUME NEW a \in Attempt, attempts[a] # NoRow, NEW state,
             attempts' = [attempts EXCEPT ![a].state = state]
      PROVE  \A x \in Attempt : attempts'[x] # NoRow =>
                 /\ attempts[x] # NoRow
                 /\ attempts'[x].account = attempts[x].account
                 /\ attempts'[x].issued = attempts[x].issued
  <2>1. attempts[a] \in AttemptRow
    BY <1>b, RowsAreRows
  <2>2. /\ attempts'[a].account = attempts[a].account
        /\ attempts'[a].issued = attempts[a].issued
    BY <1>a, <1>b, <2>1 DEF AttemptRow
  <2> QED
    BY <1>a, <1>b, <2>2
<1>c. ASSUME NEW r \in Request, Ends(r)
      PROVE  \A x \in Request : request'[x].at = "open" => request'[x] = request[x]
  BY <1>a, <1>c, WaitingStands DEF Ends
<1>1. ASSUME NEW r \in Request, NEW a \in Attempt, ReadPending(r, a) \/ PollVerified(r, a)
      PROVE  Others
  <2>1. PICK at \in {"complete", "exchange read"} :
          request' = [request EXCEPT ![r] = [at |-> at, attempt |-> a, now |-> tick]]
    BY <1>1 DEF ReadPending, PollVerified
  <2>2. request'[r].at # "open" /\ \A x \in Request \ {r} : request'[x] = request[x]
    BY <1>a, <2>1
  <2> QED
    BY <1>1, <2>2 DEF ReadPending, PollVerified
<1>2. ASSUME NEW r \in Request, MarkVerified(r) PROVE Others
  BY <1>b, <1>c, <1>2, RequestHolds, NoRowState DEF MarkVerified
<1>3. ASSUME NEW r \in Request, ReadVerified(r) PROVE Others
  <2>1. request[r] \in [at : {"complete", "exchange read", "exchange write"},
                        attempt : Attempt, now : Nat]
    BY <1>a, <1>3, WaitingStands DEF ReadVerified, RequestState
  <2>2. request'[r].at = "exchange write"
    BY <1>a, <1>3, <2>1 DEF ReadVerified
  <2> QED
    BY <1>a, <1>3, <2>2 DEF ReadVerified
<1>4. ASSUME NEW r \in Request, NEW p \in Permit, Exchange(r, p) PROVE Others
  BY <1>b, <1>c, <1>4, RequestHolds, NoRowState DEF Exchange, Exchangeable
<1>5. ASSUME NEW a \in Attempt, ExpireAttempt(a) PROVE Others
  BY <1>b, <1>5 DEF ExpireAttempt
<1>6. ASSUME NEW r \in Request, RequestFails(r) PROVE Others
  BY <1>c, <1>6 DEF RequestFails
<1>7. CASE UNCHANGED <<budget, attempts, request>>
  BY <1>7
<1>8. CASE \/ Consumes
           \/ \E p \in Permit : ExpirePermit(p)
           \/ LoginTick
           \/ UNCHANGED loginVars
  BY <1>7, <1>8 DEF Consumes, ConsumePermit, ExpirePermit, LoginTick, loginVars
<1> QED
  BY <1>1, <1>2, <1>3, <1>4, <1>5, <1>6, <1>8 DEF LoginNext, RequestStep, Consumes

LEMMA NextBudget ==
  LoginTypeOK /\ BudgetCounts /\ [LoginNext]_loginVars => BudgetCounts'
<1> SUFFICES ASSUME LoginTypeOK, BudgetCounts, [LoginNext]_loginVars PROVE BudgetCounts'
  OBVIOUS
<1>1. CASE /\ UNCHANGED budget
           /\ \A a \in Attempt : attempts'[a] # NoRow =>
                /\ attempts[a] # NoRow
                /\ attempts'[a].account = attempts[a].account
                /\ attempts'[a].issued = attempts[a].issued
           /\ \A r \in Request : request'[r].at = "open" => request'[r] = request[r]
  BY <1>1, CountsStay DEF OpenedIn, OpeningIn
<1> QED
  BY <1>1, OthersCount, CountingCounts, OpeningCounts

\* No account opens more attempts in a window than its budget, whatever requests
\* are counted before others have opened theirs.
THEOREM BudgetHolds == LoginSpec => []AttemptsWithinBudget
<1>1. LoginTypeOK /\ BudgetCounts => AttemptsWithinBudget
  <2> SUFFICES ASSUME LoginTypeOK, BudgetCounts, NEW account \in Account, NEW w \in Windows
               PROVE  Cardinality(OpenedIn(account, w)) <= RateLimit
    BY DEF AttemptsWithinBudget, OpenedIn
  <2>1. /\ Cardinality(OpenedIn(account, w)) + Cardinality(OpeningIn(account, w))
             <= budget[account][w]
        /\ budget[account][w] <= RateLimit
        /\ Cardinality(OpenedIn(account, w)) \in Nat
        /\ Cardinality(OpeningIn(account, w)) \in Nat
        /\ budget[account][w] \in Nat /\ RateLimit \in Nat
    BY FS_CardinalityType, TtlAssumption DEF BudgetCounts, LoginTypeOK
  <2> QED
    BY <2>1
<1>2. LoginInv => LoginTypeOK
  BY DEF LoginInv
<1> QED
  BY <1>1, <1>2, InitLogin, NextLogin, InitBudget, NextBudget, PTL DEF LoginSpec

(***************************************************************************)
(* The authorization lease.                                                *)
(***************************************************************************)
\* l was taken, is read for or relied on, and has not expired.
InForce(l) == acquirer[l].at \in {"reading", "held"} /\ hour < acquirer[l].expires

\* Why the lease excludes: it is in the row from the moment it was taken, and the
\* announcements its holder has read past, or that came later, are its own.
ForceHolds(l) ==
  InForce(l) =>
    /\ row = LeaseOf(l)
    /\ \A w \in announced \cap AuthWriter :
         acquirer[l].at = "held" \/ Place[w] <= acquirer[l].cursor =>
           author[w].under = LeaseOf(l)

ClocksOfLease ==
  /\ \A w \in Announcer : /\ author[w].now <= hour
                          /\ w \in announced => author[w].at = "sent"
  /\ \A l \in Lease : /\ acquirer[l].now <= hour
                      /\ acquirer[l].at \in {"new", "sending"} => acquirer[l].cursor = 0

LeaseInv == LeaseTypeOK /\ ClocksOfLease /\ \A l \in Lease : ForceHolds(l)

LEMMA NoLeaseFields == NoLease.id = "none" /\ NoLease.expires = 0
  BY DEF NoLease

\* A lease in force is in the row, is a lease, and refuses what it should.
LEMMA LeaseFields ==
  ASSUME LeaseTypeOK, NEW l \in Lease
  PROVE  /\ LeaseOf(l) \in LeaseRow /\ LeaseOf(l).id = l
         /\ LeaseOf(l).expires = acquirer[l].expires
         /\ LeaseOf(l) # NoLease
         /\ acquirer[l] \in AcquirerState /\ acquirer[l].expires \in Nat
         /\ acquirer[l].now \in Nat /\ acquirer[l].cursor \in Nat
         /\ hour \in Nat
<1>1. acquirer[l] \in AcquirerState
  BY DEF LeaseTypeOK
<1>2. /\ acquirer[l].expires \in Nat /\ acquirer[l].now \in Nat
      /\ acquirer[l].cursor \in Nat
  BY <1>1 DEF AcquirerState
<1>3. /\ LeaseOf(l) \in LeaseRow /\ LeaseOf(l).id = l
      /\ LeaseOf(l).expires = acquirer[l].expires
  BY <1>2 DEF LeaseOf, LeaseRow
<1>4. LeaseOf(l) # NoLease
  BY <1>3, NoLeaseFields, LeaseAssumption
<1>5. hour \in Nat
  BY LeaseAssumption DEF LeaseTypeOK
<1> QED
  BY <1>1, <1>2, <1>3, <1>4, <1>5

LEMMA InitLease == LeaseInit => LeaseInv
<1> SUFFICES ASSUME LeaseInit PROVE LeaseInv
  OBVIOUS
<1>1. LeaseTypeOK
  BY LeaseAssumption DEF LeaseInit, LeaseTypeOK, AuthorState, AcquirerState
<1>2. ClocksOfLease
  BY DEF LeaseInit, ClocksOfLease
<1>3. \A l \in Lease : ForceHolds(l)
  BY DEF LeaseInit, ForceHolds, InForce
<1> QED
  BY <1>1, <1>2, <1>3 DEF LeaseInv

\* An acquisition that stands somewhere else only changes its place.
LEMMA Standing ==
  ASSUME LeaseTypeOK, NEW l \in Lease, NEW at, Stand(l, at)
  PROVE  /\ acquirer'[l].at = at
         /\ acquirer'[l].now = acquirer[l].now
         /\ acquirer'[l].expires = acquirer[l].expires
         /\ acquirer'[l].cursor = acquirer[l].cursor
         /\ \A m \in Lease \ {l} : acquirer'[m] = acquirer[m]
         /\ at \in {"reading", "held", "leaving", "done"} =>
              acquirer' \in [Lease -> AcquirerState]
<1>1. acquirer[l] \in AcquirerState /\ acquirer \in [Lease -> AcquirerState]
  BY DEF LeaseTypeOK
<1>2. acquirer' = [acquirer EXCEPT ![l].at = at]
  BY DEF Stand
<1>3. /\ acquirer'[l].at = at
      /\ acquirer'[l].now = acquirer[l].now
      /\ acquirer'[l].expires = acquirer[l].expires
      /\ acquirer'[l].cursor = acquirer[l].cursor
      /\ \A m \in Lease \ {l} : acquirer'[m] = acquirer[m]
  BY <1>1, <1>2 DEF AcquirerState
<1>4. at \in {"reading", "held", "leaving", "done"} =>
        [acquirer[l] EXCEPT !.at = at] \in AcquirerState
  BY <1>1 DEF AcquirerState
<1>5. acquirer' = [acquirer EXCEPT ![l] = [acquirer[l] EXCEPT !.at = at]]
  BY <1>1, <1>2
<1> QED
  BY <1>1, <1>3, <1>4, <1>5

\* What is in force stays so as long as its row, its acquisition and what was
\* announced before it stay.
LEMMA ForceStays ==
  ASSUME LeaseTypeOK, NEW l \in Lease, ForceHolds(l), acquirer'[l] = acquirer[l],
         InForce(l)' => InForce(l),
         InForce(l) => row' = row,
         \A w \in AuthWriter : w \in announced' =>
           w \in announced /\ author'[w].under = author[w].under
  PROVE  ForceHolds(l)'
<1>1. LeaseOf(l)' = LeaseOf(l)
  BY DEF LeaseOf
<1> QED
  BY <1>1 DEF ForceHolds

LEMMA PreparingKeeps ==
  ASSUME LeaseInv, NEW w \in Announcer, PrepareChange(w)
  PROVE  LeaseInv'
<1>a. LeaseTypeOK /\ ClocksOfLease /\ \A l \in Lease : ForceHolds(l)
  BY DEF LeaseInv
<1>1. PICK under \in LeaseRow \cup {NoLease} :
        author' = [author EXCEPT ![w] = [at |-> "sending", now |-> hour, under |-> under]]
  <2>1. \A l \in Lease : LeaseOf(l) \in LeaseRow
    BY <1>a, LeaseFields
  <2> QED
    BY <2>1 DEF PrepareChange
<1>2. /\ UNCHANGED <<hour, row, announced, acquirer>>
      /\ w \notin announced /\ author \in [Announcer -> AuthorState] /\ hour \in Nat
  BY <1>a, LeaseAssumption DEF PrepareChange, LeaseTypeOK, ClocksOfLease
<1>3. [at |-> "sending", now |-> hour, under |-> under] \in AuthorState
  BY <1>2 DEF AuthorState
<1>4. /\ LeaseTypeOK'
      /\ author'[w].now = hour
      /\ \A v \in Announcer \ {w} : author'[v] = author[v]
  BY <1>a, <1>1, <1>2, <1>3 DEF LeaseTypeOK
<1>5. ClocksOfLease'
  BY <1>a, <1>2, <1>4 DEF ClocksOfLease
<1>6. ASSUME NEW l \in Lease PROVE ForceHolds(l)'
  <2>1. \A v \in AuthWriter : v \in announced' => v \in announced /\ author'[v] = author[v]
    BY <1>2, <1>4 DEF Announcer
  <2> QED
    BY <1>a, <1>2, <2>1, ForceStays DEF InForce
<1> QED
  BY <1>4, <1>5, <1>6 DEF LeaseInv

LEMMA AnnouncingKeeps ==
  ASSUME LeaseInv, NEW w \in Announcer, Announce(w)
  PROVE  LeaseInv'
<1>a. LeaseTypeOK /\ ClocksOfLease /\ \A l \in Lease : ForceHolds(l)
  BY DEF LeaseInv
<1>1. /\ UNCHANGED <<hour, row, acquirer>>
      /\ author' = [author EXCEPT ![w].at = "sent"]
      /\ author \in [Announcer -> AuthorState] /\ author[w] \in AuthorState
      /\ announced' \subseteq announced \cup {w} /\ announced \subseteq Announcer
  BY <1>a DEF Announce, LeaseTypeOK
<1>2. /\ author'[w].now = author[w].now /\ author'[w].under = author[w].under
      /\ author'[w].at = "sent" /\ author'[w] \in AuthorState
      /\ \A v \in Announcer \ {w} : author'[v] = author[v]
  BY <1>1 DEF AuthorState
<1>3. LeaseTypeOK'
  <2>1. author' \in [Announcer -> AuthorState]
    BY <1>1, <1>2
  <2> QED
    BY <1>a, <1>1, <2>1 DEF LeaseTypeOK
<1>4. ClocksOfLease'
  BY <1>a, <1>1, <1>2 DEF ClocksOfLease
<1>5. ASSUME NEW l \in Lease PROVE ForceHolds(l)'
  <2> SUFFICES ASSUME InForce(l), NEW v \in announced' \cap AuthWriter,
                      acquirer[l].at = "held" \/ Place[v] <= acquirer[l].cursor
               PROVE  author'[v].under = LeaseOf(l)
    <3>1. LeaseOf(l)' = LeaseOf(l)
      BY <1>1 DEF LeaseOf
    <3>2. InForce(l)' <=> InForce(l)
      BY <1>1 DEF InForce
    <3> QED
      BY <1>a, <1>1, <3>1, <3>2 DEF ForceHolds
  <2>1. row = LeaseOf(l)
    BY <1>a DEF ForceHolds
  <2>2. CASE v \in announced
    <3>1. author[v].under = LeaseOf(l)
      BY <1>a, <2>2 DEF ForceHolds
    <3>2. author'[v].under = author[v].under
      BY <1>2, <1>1, <2>2
    <3> QED
      BY <3>1, <3>2
  <2>3. CASE v \notin announced
    <3>1. v = w /\ w \notin FileWriter
      BY <1>1, <2>3, LeaseAssumption
    <3>2. Admits(author[w].now, author[w].under)
      BY <2>3, <3>1 DEF Announce
    <3>3. /\ row # NoLease /\ row.expires = acquirer[l].expires
          /\ acquirer[l].expires \in Nat /\ hour \in Nat
      BY <1>a, <2>1, LeaseFields
    <3>4. author[w].now <= hour /\ author[w].now \in Nat
      BY <1>a, <1>1 DEF ClocksOfLease, AuthorState
    <3>5. row = author[w].under
      BY <3>2, <3>3, <3>4 DEF Admits, InForce
    <3> QED
      BY <1>2, <2>1, <3>1, <3>5
  <2> QED
    BY <2>2, <2>3
<1> QED
  BY <1>3, <1>4, <1>5 DEF LeaseInv

LEMMA ResolvingKeeps ==
  ASSUME LeaseInv, NEW w \in Announcer, Resolve(w)
  PROVE  LeaseInv'
<1>a. LeaseTypeOK /\ ClocksOfLease /\ \A l \in Lease : ForceHolds(l)
  BY DEF LeaseInv
<1>1. UNCHANGED <<hour, row, author, acquirer>> /\ announced' \subseteq announced
  BY DEF Resolve
<1>2. LeaseTypeOK' /\ ClocksOfLease'
  BY <1>a, <1>1 DEF LeaseTypeOK, ClocksOfLease
<1>3. \A l \in Lease : ForceHolds(l)'
  BY <1>a, <1>1, ForceStays DEF InForce
<1> QED
  BY <1>2, <1>3 DEF LeaseInv

LEMMA HourKeeps ==
  ASSUME LeaseInv, HourPasses \/ UNCHANGED leaseVars
  PROVE  LeaseInv'
<1>a. LeaseTypeOK /\ ClocksOfLease /\ \A l \in Lease : ForceHolds(l)
  BY DEF LeaseInv
<1>1. /\ UNCHANGED <<row, announced, author, acquirer>>
      /\ hour' \in 0 .. LastHour /\ hour <= hour' /\ hour \in Nat /\ hour' \in Nat
  BY <1>a, LeaseAssumption DEF HourPasses, leaseVars, LeaseTypeOK
<1>2. LeaseTypeOK'
  BY <1>a, <1>1 DEF LeaseTypeOK
<1>3. \A w \in Announcer : author[w].now \in Nat
  BY <1>a DEF LeaseTypeOK, AuthorState
<1>4. \A l \in Lease : acquirer[l].now \in Nat /\ acquirer[l].expires \in Nat
  BY <1>a, LeaseFields
<1>5. ClocksOfLease'
  BY <1>a, <1>1, <1>3, <1>4 DEF ClocksOfLease
<1>6. \A l \in Lease : InForce(l)' => InForce(l)
  BY <1>1, <1>4 DEF InForce
<1>7. \A l \in Lease : ForceHolds(l)'
  BY <1>a, <1>1, <1>6, ForceStays
<1> QED
  BY <1>2, <1>5, <1>7 DEF LeaseInv

\* One acquisition moves: the others keep what they hold if the row is theirs.
LEMMA OthersKeep ==
  ASSUME LeaseInv, NEW l \in Lease, UNCHANGED <<hour, announced, author>>,
         acquirer' \in [Lease -> AcquirerState], row' \in LeaseRow \cup {NoLease},
         \A m \in Lease \ {l} : acquirer'[m] = acquirer[m],
         \A m \in Lease \ {l} : InForce(m) => row' = row,
         acquirer'[l].now <= hour,
         acquirer'[l].at \in {"new", "sending"} => acquirer'[l].cursor = 0,
         ForceHolds(l)'
  PROVE  LeaseInv'
<1>a. LeaseTypeOK /\ ClocksOfLease /\ \A m \in Lease : ForceHolds(m)
  BY DEF LeaseInv
<1>1. LeaseTypeOK'
  BY <1>a DEF LeaseTypeOK
<1>2. ClocksOfLease'
  BY <1>a DEF ClocksOfLease
<1>3. ASSUME NEW m \in Lease \ {l} PROVE ForceHolds(m)'
  <2>1. InForce(m)' => InForce(m)
    BY DEF InForce
  <2> QED
    BY <1>a, <2>1, ForceStays
<1> QED
  BY <1>1, <1>2, <1>3 DEF LeaseInv

LEMMA AskingKeeps ==
  ASSUME LeaseInv, NEW l \in Lease, Ask(l)
  PROVE  LeaseInv'
<1>a. LeaseTypeOK /\ ClocksOfLease /\ acquirer[l] \in AcquirerState /\ hour \in Nat
      /\ acquirer \in [Lease -> AcquirerState] /\ row \in LeaseRow \cup {NoLease}
  BY LeaseFields DEF LeaseInv, LeaseTypeOK
<1> DEFINE b == [acquirer[l] EXCEPT !.at = "sending", !.now = hour,
                                    !.expires = hour + LeaseTtl]
<1>1. acquirer' = [acquirer EXCEPT ![l] = b] /\ UNCHANGED <<hour, row, announced, author>>
  BY <1>a DEF Ask
<1>2. acquirer[l].cursor = 0
  BY <1>a DEF Ask, ClocksOfLease
<1>3. hour + LeaseTtl \in Nat
  BY <1>a, LeaseAssumption
<1>4. b \in AcquirerState /\ b.at = "sending" /\ b.now = hour /\ b.cursor = 0
  BY <1>a, <1>2, <1>3 DEF AcquirerState
<1> HIDE DEF b
<1>5. /\ acquirer' \in [Lease -> AcquirerState] /\ acquirer'[l] = b
      /\ \A m \in Lease \ {l} : acquirer'[m] = acquirer[m]
  BY <1>a, <1>1, <1>4
<1>6. ForceHolds(l)'
  BY <1>4, <1>5 DEF ForceHolds, InForce
<1>7. hour <= hour
  BY <1>a
<1> QED
  BY <1>a, <1>1, <1>4, <1>5, <1>6, <1>7, OthersKeep

\* While a lease is in force the row admits no one else.
LEMMA ForceRefuses ==
  ASSUME LeaseInv, NEW l \in Lease, InForce(l), NEW now \in Nat, now <= hour
  PROVE  ~Admits(now, NoLease)
<1>1. /\ row = LeaseOf(l) /\ LeaseOf(l) # NoLease
      /\ LeaseOf(l).expires = acquirer[l].expires /\ acquirer[l].expires \in Nat
      /\ hour \in Nat
  BY LeaseFields DEF LeaseInv, ForceHolds
<1> QED
  BY <1>1 DEF Admits, InForce

LEMMA TakingALeaseKeeps ==
  ASSUME LeaseInv, NEW l \in Lease, TakeLease(l)
  PROVE  LeaseInv'
<1>a. LeaseTypeOK /\ ClocksOfLease /\ (\A m \in Lease : ForceHolds(m))
      /\ row \in LeaseRow \cup {NoLease}
  BY DEF LeaseInv, LeaseTypeOK
<1>1. PICK at \in {"reading", "leaving"} : Stand(l, at)
  BY DEF TakeLease
<1>2. /\ acquirer'[l].at = at /\ acquirer'[l].now = acquirer[l].now
      /\ acquirer'[l].expires = acquirer[l].expires
      /\ acquirer'[l].cursor = acquirer[l].cursor
      /\ \A m \in Lease \ {l} : acquirer'[m] = acquirer[m]
      /\ acquirer' \in [Lease -> AcquirerState]
  BY <1>1, <1>a, Standing
<1>3. /\ acquirer[l].cursor = 0 /\ acquirer[l].now <= hour
      /\ acquirer[l].now \in Nat /\ LeaseOf(l) \in LeaseRow
      /\ UNCHANGED <<hour, announced, author>>
  BY <1>a, LeaseFields DEF TakeLease, ClocksOfLease
<1>4. LeaseOf(l)' = LeaseOf(l)
  BY <1>2 DEF LeaseOf
<1>5. CASE Admits(acquirer[l].now, NoLease) /\ row' = LeaseOf(l)
  <2>1. \A m \in Lease : ~InForce(m)
    BY <1>3, <1>5, ForceRefuses
  <2>2. \A w \in Announcer : ~(Place[w] <= 0)
    BY LeaseAssumption
  <2>3. announced' \cap AuthWriter \subseteq Announcer
    BY DEF Announcer
  <2>4. ForceHolds(l)'
    BY <1>2, <1>3, <1>4, <1>5, <2>2, <2>3 DEF ForceHolds
  <2> QED
    BY <1>2, <1>3, <1>5, <2>1, <2>4, OthersKeep
<1>6. CASE row' = row /\ Stand(l, "leaving")
  <2>1. acquirer'[l].at = "leaving"
    BY <1>6, <1>a, Standing
  <2>2. ForceHolds(l)'
    BY <2>1 DEF ForceHolds, InForce
  <2> QED
    BY <1>a, <1>2, <1>3, <1>6, <2>1, <2>2, OthersKeep
<1> QED
  BY <1>5, <1>6 DEF TakeLease

\* A page without an announcement moves the cursor, the last one ends the query.
LEMMA ReadingPagesKeeps ==
  ASSUME LeaseInv, NEW l \in Lease, ReadPage(l)
  PROVE  LeaseInv'
<1>a. LeaseTypeOK /\ ClocksOfLease /\ ForceHolds(l) /\ announced \subseteq Announcer
      /\ row' = row /\ row \in LeaseRow \cup {NoLease}
      /\ UNCHANGED <<hour, announced, author>> /\ acquirer[l].at = "reading"
      /\ acquirer[l] \in AcquirerState /\ acquirer \in [Lease -> AcquirerState]
      /\ acquirer[l].cursor \in Nat /\ acquirer[l].now <= hour
  BY LeaseFields DEF LeaseInv, LeaseTypeOK, ReadPage, ClocksOfLease
<1>1. PICK p \in {Place[w] : w \in Announcer} :
        /\ p > acquirer[l].cursor
        /\ \/ Stand(l, "leaving")
           \/ /\ PageBetween(acquirer[l].cursor, p) = {}
              /\ acquirer' = [acquirer EXCEPT ![l].cursor = p]
           \/ /\ PageBetween(acquirer[l].cursor, p) = {}
              /\ ~MorePages(p)
              /\ Stand(l, "held")
  BY DEF ReadPage
<1>2. p \in Nat /\ \A w \in Announcer : Place[w] \in Nat
  BY LeaseAssumption
<1>3. CASE Stand(l, "leaving")
  <2>1. /\ acquirer'[l].at = "leaving" /\ acquirer'[l].now = acquirer[l].now
        /\ \A m \in Lease \ {l} : acquirer'[m] = acquirer[m]
        /\ acquirer' \in [Lease -> AcquirerState]
    BY <1>3, <1>a, Standing
  <2>2. ForceHolds(l)'
    BY <2>1 DEF ForceHolds, InForce
  <2> QED
    BY <1>a, <2>1, <2>2, OthersKeep
<1>4. CASE PageBetween(acquirer[l].cursor, p) = {}
           /\ acquirer' = [acquirer EXCEPT ![l].cursor = p]
  <2> DEFINE b == [acquirer[l] EXCEPT !.cursor = p]
  <2>1. /\ b \in AcquirerState /\ b.at = "reading" /\ b.now = acquirer[l].now
        /\ b.expires = acquirer[l].expires /\ b.cursor = p
    BY <1>a, <1>2 DEF AcquirerState
  <2>2. acquirer' = [acquirer EXCEPT ![l] = b]
    BY <1>a, <1>4
  <2> HIDE DEF b
  <2>3. /\ acquirer' \in [Lease -> AcquirerState] /\ acquirer'[l] = b
        /\ \A m \in Lease \ {l} : acquirer'[m] = acquirer[m]
    BY <1>a, <2>1, <2>2
  <2>4. InForce(l)' => InForce(l)
    BY <1>a, <2>1, <2>3 DEF InForce
  <2>5. LeaseOf(l)' = LeaseOf(l)
    BY <2>1, <2>3 DEF LeaseOf
  <2>6. \A w \in announced : Place[w] <= p => Place[w] <= acquirer[l].cursor
    BY <1>a, <1>2, <1>4 DEF PageBetween
  <2>7. ForceHolds(l)'
    BY <1>a, <2>1, <2>3, <2>4, <2>5, <2>6 DEF ForceHolds
  <2> QED
    BY <1>a, <2>1, <2>3, <2>7, OthersKeep
<1>5. CASE PageBetween(acquirer[l].cursor, p) = {} /\ ~MorePages(p) /\ Stand(l, "held")
  <2>1. /\ acquirer'[l].at = "held" /\ acquirer'[l].now = acquirer[l].now
        /\ acquirer'[l].expires = acquirer[l].expires
        /\ acquirer'[l].cursor = acquirer[l].cursor
        /\ \A m \in Lease \ {l} : acquirer'[m] = acquirer[m]
        /\ acquirer' \in [Lease -> AcquirerState]
    BY <1>5, <1>a, Standing
  <2>2. InForce(l)' => InForce(l)
    BY <1>a, <2>1 DEF InForce
  <2>3. LeaseOf(l)' = LeaseOf(l)
    BY <2>1 DEF LeaseOf
  <2>4. \A w \in announced : Place[w] <= acquirer[l].cursor
    BY <1>a, <1>2, <1>5 DEF PageBetween, MorePages
  <2>5. ForceHolds(l)'
    BY <1>a, <2>2, <2>3, <2>4 DEF ForceHolds
  <2> QED
    BY <1>a, <2>1, <2>5, OthersKeep
<1> QED
  BY <1>1, <1>3, <1>4, <1>5

LEMMA LeavingKeeps ==
  ASSUME LeaseInv, NEW l \in Lease, GiveUp(l) \/ Finish(l) \/ ReleaseLease(l)
  PROVE  LeaseInv'
<1>a. LeaseTypeOK /\ row \in LeaseRow \cup {NoLease} /\ acquirer[l].now <= hour
  BY DEF LeaseInv, LeaseTypeOK, ClocksOfLease
<1>1. PICK at \in {"leaving", "done"} : Stand(l, at)
  BY DEF GiveUp, Finish, ReleaseLease
<1>2. /\ acquirer'[l].at = at /\ acquirer'[l].now = acquirer[l].now
      /\ \A m \in Lease \ {l} : acquirer'[m] = acquirer[m]
      /\ acquirer' \in [Lease -> AcquirerState]
  BY <1>1, <1>a, Standing
<1>3. ForceHolds(l)'
  BY <1>2 DEF ForceHolds, InForce
<1>4. UNCHANGED <<hour, announced, author>> /\ row' \in {row, NoLease}
      /\ (row' # row => row.id = l)
  BY DEF GiveUp, Finish, ReleaseLease
<1>5. \A m \in Lease \ {l} : InForce(m) => row' = row
  BY <1>a, <1>4, LeaseFields DEF LeaseInv, ForceHolds
<1> QED
  BY <1>a, <1>2, <1>3, <1>4, <1>5, OthersKeep

LEMMA NextLease == LeaseInv /\ [LeaseNext]_leaseVars => LeaseInv'
<1> SUFFICES ASSUME LeaseInv, [LeaseNext]_leaseVars PROVE LeaseInv'
  OBVIOUS
<1>1. CASE \E w \in Announcer : PrepareChange(w) \/ Announce(w) \/ Resolve(w)
  BY <1>1, PreparingKeeps, AnnouncingKeeps, ResolvingKeeps
<1>2. CASE \E l \in Lease : AcquirerStep(l)
  BY <1>2, AskingKeeps, TakingALeaseKeeps, ReadingPagesKeeps, LeavingKeeps
     DEF AcquirerStep
<1>3. CASE HourPasses \/ UNCHANGED leaseVars
  BY <1>3, HourKeeps
<1> QED
  BY <1>1, <1>2, <1>3 DEF LeaseNext

\* The lease's row, the announced intents and what authors and acquirers remember of
\* them keep their types (authorization-mutation-lease.ts).
THEOREM LeaseTypesHold == LeaseSpec => []LeaseTypeOK
<1>1. LeaseInv => LeaseTypeOK
  BY DEF LeaseInv
<1> QED
  BY <1>1, InitLease, NextLease, PTL DEF LeaseSpec

\* While an acquired lease has not expired, every pending change of authorization
\* was announced under it.
THEOREM LeaseHolds == LeaseSpec => []LeaseExcludesWriters
<1>1. LeaseInv => LeaseExcludesWriters
  BY DEF LeaseInv, LeaseExcludesWriters, ForceHolds, InForce
<1> QED
  BY <1>1, InitLease, NextLease, PTL DEF LeaseSpec

(***************************************************************************)
(* The route of a vault.                                                   *)
(***************************************************************************)
\* w writes, and its permit has not run out.
Writes(w) == mutation[w].at = "writing" /\ instant <= PermitEnds(w)

\* Why the route stays: a permit that has not run out is in the fence row, where
\* it keeps every transition away that was sent by now.
PermitHolds(w) ==
  /\ mutation[w].now <= instant
  /\ mutation[w].at \in {"routed", "writing"} =>
       AdmitsContract(mutation[w].route, mutation[w].contract)
  /\ Writes(w) => /\ fence.writer.owner = w
                  /\ fence.writer.expires = PermitEnds(w)
                  /\ route = mutation[w].route

ClocksOfOperators ==
  /\ \A o \in Operator : operation[o].now <= instant
  /\ \A f \in flying : f.now <= instant

CohortInv ==
  CohortTypeOK /\ ClocksOfOperators /\ \A w \in CohortWriter : PermitHolds(w)

\* The types as the proofs use them.
LEMMA CohortTyped ==
  ASSUME CohortTypeOK
  PROVE  /\ instant \in 0 .. LastInstant /\ instant \in Nat /\ instant \in Ticks
         /\ instant + FenceTtl \in Ticks
         /\ fence.rotation \in Side /\ fence.writer \in Side
         /\ fence.rotation.expires \in Nat /\ fence.writer.expires \in Nat
         /\ \A w \in CohortWriter : /\ mutation[w] \in MutationState
                                    /\ mutation[w].now \in Nat
         /\ \A o \in Operator : /\ operation[o] \in OperationState
                                /\ operation[o].now \in Nat
         /\ \A f \in flying : f.intention \in Intention /\ f.now \in Nat
<1>1. instant \in 0 .. LastInstant /\ LastInstant \in Nat /\ FenceTtl \in Nat
  BY CohortAssumption DEF CohortTypeOK
<1>2. \A t \in Ticks : t \in Nat
  BY <1>1 DEF Ticks
<1>3. instant \in Nat /\ instant \in Ticks /\ instant + FenceTtl \in Ticks
  BY <1>1 DEF Ticks
<1>4. /\ fence.rotation \in Side /\ fence.writer \in Side
      /\ fence.rotation.expires \in Nat /\ fence.writer.expires \in Nat
  BY <1>2 DEF CohortTypeOK, Side
<1>5. \A w \in CohortWriter : mutation[w] \in MutationState /\ mutation[w].now \in Nat
  BY <1>2 DEF CohortTypeOK, MutationState
<1>6. \A o \in Operator : operation[o] \in OperationState /\ operation[o].now \in Nat
  BY <1>2 DEF CohortTypeOK, OperationState
<1>7. \A f \in flying : f.intention \in Intention /\ f.now \in Nat
  BY <1>2 DEF CohortTypeOK
<1> QED
  BY <1>1, <1>3, <1>4, <1>5, <1>6, <1>7

LEMMA InitCohort == CohortInit => CohortInv
<1> SUFFICES ASSUME CohortInit PROVE CohortInv
  OBVIOUS
<1>a. FirstControl \in Control \cup {FirstControl} /\ 0 \in 0 .. MaxGeneration
      /\ 0 \in Ticks /\ 0 \in 0 .. LastInstant
  BY CohortAssumption DEF Ticks
<1>b. FirstRoute \in CohortRoute /\ NoSide \in Side
  BY <1>a DEF FirstRoute, CohortRoute, NoSide, Side
<1>c. NoMutation \in MutationState /\ NoMutation.at = "idle" /\ NoMutation.now = 0
  BY <1>a, <1>b DEF NoMutation, MutationState, Contract
<1>1. CohortTypeOK
  <2>1. instant \in 0 .. LastInstant /\ route \in CohortRoute
    BY <1>a, <1>b DEF CohortInit
  <2>2. audit \in [1 .. MaxGeneration -> Intention \cup {NoIntention}] /\ flying = {}
    BY DEF CohortInit
  <2>3. fence \in [rotation : Side, writer : Side]
    BY <1>b DEF CohortInit
  <2>4. mutation \in [CohortWriter -> MutationState]
    BY <1>c DEF CohortInit
  <2>5. operation \in [Operator -> OperationState]
    BY <1>a, <1>b DEF CohortInit, OperationState
  <2> QED
    BY <2>1, <2>2, <2>3, <2>4, <2>5 DEF CohortTypeOK
<1>2. ClocksOfOperators
  BY DEF CohortInit, ClocksOfOperators
<1>3. \A w \in CohortWriter : PermitHolds(w)
  BY <1>c DEF CohortInit, PermitHolds, Writes
<1> QED
  BY <1>1, <1>2, <1>3 DEF CohortInv

\* A writer that takes no part keeps its permit: the fence's writer side and the
\* route do not change under it.
LEMMA PermitStays ==
  ASSUME CohortTypeOK, NEW w \in CohortWriter, PermitHolds(w),
         mutation'[w] = mutation[w], instant' \in Nat, instant <= instant',
         Writes(w) => fence'.writer = fence.writer /\ route' = route
  PROVE  PermitHolds(w)'
<1>1. mutation[w].now \in Nat /\ instant \in Nat
  BY CohortTyped
<1>2. PermitEnds(w)' = PermitEnds(w)
  BY DEF PermitEnds
<1>3. PermitEnds(w) \in Nat
  BY <1>1, CohortAssumption DEF PermitEnds
<1>4. Writes(w)' => Writes(w)
  BY <1>1, <1>2, <1>3 DEF Writes
<1>5. mutation'[w].now <= instant'
  BY <1>1 DEF PermitHolds
<1> QED
  BY <1>2, <1>4, <1>5 DEF PermitHolds

\* While w writes, no request that reads the fence with a clock of now or before
\* finds its side lapsed.
LEMMA PermitKeepsAway ==
  ASSUME CohortInv, NEW w \in CohortWriter, Writes(w), NEW now \in Nat, now <= instant
  PROVE  ~Lapsed(fence.writer, now)
<1>1. /\ fence.writer.owner = w /\ fence.writer.expires = PermitEnds(w)
      /\ instant <= PermitEnds(w) /\ w # NoOwner
  BY CohortAssumption DEF CohortInv, PermitHolds, Writes, NoOwner
<1>2. fence.writer.expires \in Nat /\ instant \in Nat
  BY CohortTyped DEF CohortInv
<1> QED
  BY <1>1, <1>2 DEF Lapsed

\* One writer moves.
LEMMA WriterMoves ==
  ASSUME CohortInv, NEW w \in CohortWriter, NEW b \in MutationState,
         mutation' = [mutation EXCEPT ![w] = b],
         UNCHANGED <<instant, route, audit, operation, flying>>,
         fence' \in [rotation : Side, writer : Side],
         \A x \in CohortWriter \ {w} : Writes(x) => fence'.writer = fence.writer,
         PermitHolds(w)'
  PROVE  CohortInv'
<1>1. CohortTypeOK' /\ ClocksOfOperators' /\ instant \in Nat /\ instant <= instant
  BY CohortTyped DEF CohortInv, CohortTypeOK, ClocksOfOperators
<1>2. ASSUME NEW x \in CohortWriter \ {w} PROVE PermitHolds(x)'
  <2>1. mutation'[x] = mutation[x]
    BY DEF CohortInv, CohortTypeOK
  <2> QED
    BY <1>1, <2>1, PermitStays DEF CohortInv
<1> QED
  BY <1>1, <1>2 DEF CohortInv

LEMMA BeginningKeeps ==
  ASSUME CohortInv, NEW w \in CohortWriter, NEW contract \in Contract,
         BeginMutation(w, contract)
  PROVE  CohortInv'
<1> DEFINE b == [mutation[w] EXCEPT !.at = "begun", !.now = instant, !.contract = contract]
<1>1. /\ mutation[w] \in MutationState /\ instant \in Ticks /\ instant \in Nat
      /\ mutation \in [CohortWriter -> MutationState]
      /\ fence \in [rotation : Side, writer : Side]
  BY CohortTyped DEF CohortInv, CohortTypeOK
<1>2. b \in MutationState /\ b.at = "begun" /\ b.now = instant
  BY <1>1 DEF MutationState
<1>3. mutation' = [mutation EXCEPT ![w] = b]
      /\ UNCHANGED <<instant, route, audit, fence, operation, flying>>
  BY <1>1 DEF BeginMutation
<1> HIDE DEF b
<1>4. mutation'[w] = b
  BY <1>1, <1>3
<1>5. PermitHolds(w)'
  BY <1>1, <1>2, <1>3, <1>4 DEF PermitHolds, Writes
<1> QED
  BY <1>1, <1>2, <1>3, <1>5, WriterMoves

LEMMA RoutingKeeps ==
  ASSUME CohortInv, NEW w \in CohortWriter, ReadRoute(w)
  PROVE  CohortInv'
<1> DEFINE b == [mutation[w] EXCEPT !.at = "routed", !.route = route]
<1>1. /\ mutation[w] \in MutationState /\ route \in CohortRoute
      /\ mutation \in [CohortWriter -> MutationState]
      /\ fence \in [rotation : Side, writer : Side]
      /\ mutation[w].now <= instant
  BY CohortTyped DEF CohortInv, CohortTypeOK, PermitHolds
<1>2. /\ b \in MutationState /\ b.at = "routed" /\ b.now = mutation[w].now
      /\ b.route = route /\ b.contract = mutation[w].contract
  BY <1>1 DEF MutationState
<1>3. /\ mutation' = [mutation EXCEPT ![w] = b]
      /\ UNCHANGED <<instant, route, audit, fence, operation, flying>>
      /\ AdmitsContract(route, mutation[w].contract)
  BY <1>1 DEF ReadRoute
<1> HIDE DEF b
<1>4. mutation'[w] = b
  BY <1>1, <1>3
<1>5. PermitHolds(w)'
  BY <1>1, <1>2, <1>3, <1>4 DEF PermitHolds, Writes
<1> QED
  BY <1>1, <1>2, <1>3, <1>5, WriterMoves

LEMMA NoMutationTyped ==
  NoMutation \in MutationState /\ NoMutation.at = "idle" /\ NoMutation.now = 0
<1>1. FirstRoute \in CohortRoute /\ 0 \in Ticks
  BY CohortAssumption DEF FirstRoute, CohortRoute, Ticks
<1> QED
  BY <1>1 DEF NoMutation, MutationState, Contract

\* A request that ends holds nothing more.
LEMMA EndedHolds ==
  ASSUME CohortInv, NEW w \in CohortWriter, UNCHANGED instant,
         mutation' = [mutation EXCEPT ![w] = NoMutation]
  PROVE  PermitHolds(w)'
<1>1. mutation'[w] = NoMutation /\ instant \in Nat
  BY CohortTyped DEF CohortInv, CohortTypeOK
<1> QED
  BY <1>1, NoMutationTyped DEF PermitHolds, Writes

LEMMA TakingAPermitKeeps ==
  ASSUME CohortInv, NEW w \in CohortWriter, TakePermit(w)
  PROVE  CohortInv'
<1>1. /\ mutation[w] \in MutationState /\ mutation[w].now \in Nat
      /\ mutation \in [CohortWriter -> MutationState]
      /\ fence \in [rotation : Side, writer : Side] /\ fence.rotation \in Side
      /\ mutation[w].now <= instant /\ instant \in 0 .. LastInstant
      /\ AdmitsContract(mutation[w].route, mutation[w].contract)
      /\ mutation[w].at = "routed"
  BY CohortTyped DEF CohortInv, CohortTypeOK, PermitHolds, TakePermit
<1>2. /\ UNCHANGED <<instant, route, audit, operation, flying>>
      /\ route = mutation[w].route /\ Lapsed(fence.writer, mutation[w].now)
      /\ fence' = [fence EXCEPT !.writer = [owner |-> w, expires |-> PermitEnds(w)]]
  BY DEF TakePermit, RouteUnchanged
<1>3. PermitEnds(w) \in Ticks
  BY <1>1, CohortAssumption DEF PermitEnds, Ticks
<1>4. [owner |-> w, expires |-> PermitEnds(w)] \in Side
  BY <1>3 DEF Side
<1>5. /\ fence' \in [rotation : Side, writer : Side]
      /\ fence'.writer = [owner |-> w, expires |-> PermitEnds(w)]
  BY <1>1, <1>2, <1>4
<1>6. \A x \in CohortWriter : ~Writes(x)
  BY <1>1, <1>2, PermitKeepsAway
<1>7. CASE mutation' = [mutation EXCEPT ![w].at = "writing"]
  <2> DEFINE b == [mutation[w] EXCEPT !.at = "writing"]
  <2>1. /\ b \in MutationState /\ b.at = "writing" /\ b.now = mutation[w].now
        /\ b.route = mutation[w].route /\ b.contract = mutation[w].contract
    BY <1>1 DEF MutationState
  <2>2. mutation' = [mutation EXCEPT ![w] = b]
    BY <1>1, <1>7
  <2> HIDE DEF b
  <2>3. mutation'[w] = b
    BY <1>1, <2>2
  <2>4. PermitEnds(w)' = PermitEnds(w)
    BY <2>1, <2>3 DEF PermitEnds
  <2>5. fence'.writer.owner = w /\ fence'.writer.expires = PermitEnds(w)
    BY <1>5
  <2>6. PermitHolds(w)'
    BY <1>1, <1>2, <2>1, <2>3, <2>4, <2>5 DEF PermitHolds
  <2> QED
    BY <1>2, <1>5, <1>6, <2>1, <2>2, <2>6, WriterMoves
<1>8. CASE mutation' = [mutation EXCEPT ![w] = NoMutation]
  <2>1. PermitHolds(w)'
    BY <1>2, <1>8, EndedHolds
  <2> QED
    BY <1>2, <1>5, <1>6, <1>8, <2>1, NoMutationTyped, WriterMoves
<1> QED
  BY <1>7, <1>8 DEF TakePermit

LEMMA EndingAMutationKeeps ==
  ASSUME CohortInv, NEW w \in CohortWriter, EndMutation(w)
  PROVE  CohortInv'
<1>1. /\ UNCHANGED <<instant, route, audit, operation, flying>>
      /\ mutation' = [mutation EXCEPT ![w] = NoMutation]
      /\ fence \in [rotation : Side, writer : Side] /\ NoSide \in Side
  BY CohortAssumption DEF EndMutation, CohortInv, CohortTypeOK, NoSide, Side, Ticks
<1>2. PermitHolds(w)'
  BY <1>1, EndedHolds
<1>3. CASE /\ fence.writer = [owner |-> w, expires |-> PermitEnds(w)]
           /\ fence' = [fence EXCEPT !.writer = NoSide]
  <2>1. fence' \in [rotation : Side, writer : Side]
    BY <1>1, <1>3
  <2>2. \A x \in CohortWriter \ {w} : ~Writes(x)
    BY <1>3 DEF CohortInv, PermitHolds
  <2> QED
    BY <1>1, <1>2, <2>1, <2>2, NoMutationTyped, WriterMoves
<1>4. CASE fence' = fence
  BY <1>1, <1>2, <1>4, NoMutationTyped, WriterMoves
<1> QED
  BY <1>3, <1>4 DEF EndMutation

\* An operator moves: it leaves the writer's side of the fence alone, and the
\* route too as long as a writer's permit lasts.
LEMMA OperatorMoves ==
  ASSUME CohortInv, UNCHANGED <<instant, mutation>>, ClocksOfOperators',
         operation' \in [Operator -> OperationState],
         flying' \subseteq [intention : Intention, now : Ticks],
         fence' \in [rotation : Side, writer : Side], fence'.writer = fence.writer,
         route' \in CohortRoute,
         audit' \in [1 .. MaxGeneration -> Intention \cup {NoIntention}],
         \A w \in CohortWriter : Writes(w) => route' = route
  PROVE  CohortInv'
<1>1. CohortTypeOK' /\ instant \in Nat /\ instant <= instant
  BY CohortTyped DEF CohortInv, CohortTypeOK
<1>2. \A w \in CohortWriter : PermitHolds(w)'
  BY <1>1, PermitStays DEF CohortInv
<1> QED
  BY <1>1, <1>2 DEF CohortInv

\* Most of its steps move the operator alone.
LEMMA OperationMoves ==
  ASSUME CohortInv, NEW o \in Operator, NEW b \in OperationState, b.now <= instant,
         operation' = [operation EXCEPT ![o] = b],
         UNCHANGED <<instant, route, audit, mutation, flying>>,
         fence' \in [rotation : Side, writer : Side], fence'.writer = fence.writer
  PROVE  CohortInv'
<1>1. /\ operation' \in [Operator -> OperationState] /\ route \in CohortRoute
      /\ flying \subseteq [intention : Intention, now : Ticks]
      /\ audit \in [1 .. MaxGeneration -> Intention \cup {NoIntention}]
  BY DEF CohortInv, CohortTypeOK
<1>2. ClocksOfOperators'
  BY DEF CohortInv, CohortTypeOK, ClocksOfOperators
<1> QED
  BY <1>1, <1>2, OperatorMoves

Places == {"idle", "fencing", "fenced", "decided", "checking", "sending", "confirming",
           "refused", "answered"}

\* What MoveTo and Tells make of the operator's state.
LEMMA OperationTyped ==
  ASSUME CohortInv, NEW o \in Operator
  PROVE  /\ fence \in [rotation : Side, writer : Side] /\ fence.writer \in Side
         /\ operation \in [Operator -> OperationState]
         /\ operation[o] \in OperationState /\ operation[o].now <= instant
         /\ operation[o].expires \in Ticks /\ operation[o].now \in Ticks
         /\ operation[o].before \in CohortRoute /\ operation[o].after \in CohortRoute
         /\ IntentionOf(o) \in Intention
         /\ operation[o].now \in Nat
<1>1. /\ fence \in [rotation : Side, writer : Side] /\ fence.writer \in Side
      /\ operation \in [Operator -> OperationState]
      /\ operation[o] \in OperationState /\ operation[o].now <= instant
      /\ operation[o].now \in Nat
  BY CohortTyped DEF CohortInv, CohortTypeOK, ClocksOfOperators
<1>2. /\ operation[o].expires \in Ticks /\ operation[o].now \in Ticks
      /\ operation[o].before \in CohortRoute /\ operation[o].after \in CohortRoute
  BY <1>1 DEF OperationState
<1>3. IntentionOf(o) \in Intention
  BY <1>2 DEF IntentionOf, Intention
<1> QED
  BY <1>1, <1>2, <1>3

LEMMA MovingTo ==
  ASSUME CohortInv, NEW o \in Operator, NEW at \in Places, MoveTo(o, at)
  PROVE  \E b \in OperationState : /\ b.now <= instant
                                   /\ operation' = [operation EXCEPT ![o] = b]
<1> DEFINE b == [operation[o] EXCEPT !.at = at]
<1>1. b \in OperationState /\ b.now = operation[o].now
  BY OperationTyped DEF OperationState, Places
<1>2. operation' = [operation EXCEPT ![o] = b]
  BY OperationTyped DEF MoveTo
<1>3. operation[o].now <= instant
  BY OperationTyped
<1> HIDE DEF b
<1>4. b \in OperationState /\ b.now <= instant /\ operation' = [operation EXCEPT ![o] = b]
  BY <1>1, <1>2, <1>3
<1> QED
  BY <1>4

LEMMA Telling ==
  ASSUME CohortInv, NEW o \in Operator,
         NEW answer \in {"applied", "changed", "unknown"}, Tells(o, answer)
  PROVE  \E b \in OperationState : /\ b.now <= instant
                                   /\ operation' = [operation EXCEPT ![o] = b]
<1> DEFINE b == [operation[o] EXCEPT !.at = "answered", !.told = answer]
<1>1. b \in OperationState /\ b.now = operation[o].now
  BY OperationTyped DEF OperationState
<1>2. operation' = [operation EXCEPT ![o] = b]
  BY OperationTyped DEF Tells
<1>3. operation[o].now <= instant
  BY OperationTyped
<1> HIDE DEF b
<1>4. b \in OperationState /\ b.now <= instant /\ operation' = [operation EXCEPT ![o] = b]
  BY <1>1, <1>2, <1>3
<1> QED
  BY <1>4

LEMMA FencingKeeps ==
  ASSUME CohortInv, NEW o \in Operator,
         BeginFence(o) \/ TakeFence(o) \/ ReturnFence(o)
  PROVE  CohortInv'
<1>a. /\ instant \in Ticks /\ instant \in Nat /\ instant + FenceTtl \in Ticks
      /\ NoSide \in Side
  BY CohortTyped, CohortAssumption DEF CohortInv, NoSide, Side, Ticks
<1>1. CASE BeginFence(o)
  <2> DEFINE b == [operation[o] EXCEPT !.at = "fencing", !.now = instant,
                                       !.expires = instant + FenceTtl]
  <2>1. b \in OperationState /\ b.now = instant
    <3>1. operation[o] \in OperationState
      BY OperationTyped
    <3> QED
      BY <1>a, <3>1 DEF OperationState
  <2>3. instant <= instant
    BY <1>a
  <2>2. operation' = [operation EXCEPT ![o] = b]
        /\ UNCHANGED <<instant, route, audit, fence, mutation, flying>>
    BY <1>1, OperationTyped DEF BeginFence
  <2> HIDE DEF b
  <2> QED
    BY <2>1, <2>2, <2>3, OperationTyped, OperationMoves
<1>2. CASE TakeFence(o)
  <2>1. /\ UNCHANGED <<instant, route, audit, mutation, flying>>
        /\ fence' = [fence EXCEPT !.rotation =
                       [owner |-> o, expires |-> operation[o].expires]]
        /\ MoveTo(o, "fenced")
    BY <1>2 DEF TakeFence
  <2>2. [owner |-> o, expires |-> operation[o].expires] \in Side
    BY OperationTyped DEF Side
  <2>3. fence' \in [rotation : Side, writer : Side] /\ fence'.writer = fence.writer
    BY <2>1, <2>2, OperationTyped
  <2> QED
    BY <2>1, <2>3, MovingTo, OperationMoves DEF Places
<1>3. CASE ReturnFence(o)
  <2>1. /\ UNCHANGED <<instant, route, audit, mutation, operation, flying>>
        /\ fence' = [fence EXCEPT !.rotation = NoSide]
    BY <1>3 DEF ReturnFence
  <2>2. fence' \in [rotation : Side, writer : Side] /\ fence'.writer = fence.writer
    BY <1>a, <2>1, OperationTyped
  <2>3. operation' = [operation EXCEPT ![o] = operation[o]]
    BY <2>1, OperationTyped
  <2> QED
    BY <2>1, <2>2, <2>3, OperationTyped, OperationMoves
<1> QED
  BY <1>1, <1>2, <1>3
LEMMA DecidingKeeps ==
  ASSUME CohortInv, NEW o \in Operator,
         ReadExpected(o) \/ BeginTransition(o) \/ ReadRecord(o) \/ Confirm(o) \/ Repeat(o)
  PROVE  CohortInv'
<1>a. /\ instant \in Ticks /\ instant \in Nat /\ instant <= instant
      /\ UNCHANGED <<instant, route, audit, fence, mutation, flying>>
  <2>1. instant \in Ticks /\ instant \in Nat
    BY CohortTyped DEF CohortInv
  <2>2. instant <= instant
    BY <2>1
  <2>3. UNCHANGED <<instant, route, audit, fence, mutation, flying>>
    BY DEF ReadExpected, BeginTransition, ReadRecord, Confirm, Repeat
  <2> QED
    BY <2>1, <2>2, <2>3
<1>b. operation[o] \in OperationState /\ operation \in [Operator -> OperationState]
      /\ operation[o].now <= instant /\ fence \in [rotation : Side, writer : Side]
  BY OperationTyped
<1>1. CASE ReadExpected(o)
  <2>1. PICK c \in Control : operation' = [operation EXCEPT ![o] =
          [@ EXCEPT !.at = "decided", !.before = route,
             !.after = [generation |-> route.generation + 1, decision |-> o,
                        control |-> c]]]
    BY <1>1 DEF ReadExpected
  <2> DEFINE after == [generation |-> route.generation + 1, decision |-> o, control |-> c]
             b == [operation[o] EXCEPT !.at = "decided", !.before = route, !.after = after]
  <2>2. route \in CohortRoute
    BY DEF CohortInv, CohortTypeOK
  <2>3. route.generation + 1 \in 0 .. MaxGeneration
    <3>1. route.generation \in 0 .. MaxGeneration
      BY <2>2 DEF CohortRoute
    <3>2. route.generation < MaxGeneration /\ MaxGeneration \in Nat
      BY <1>1, CohortAssumption DEF ReadExpected
    <3> QED
      BY <3>1, <3>2
  <2>4. after \in CohortRoute
    BY <2>3 DEF CohortRoute
  <2> HIDE DEF after
  <2>5. b \in OperationState /\ b.now = operation[o].now
    BY <1>b, <2>2, <2>4 DEF OperationState
  <2>6. operation' = [operation EXCEPT ![o] = b]
    BY <1>b, <2>1 DEF after
  <2> HIDE DEF b
  <2> QED
    BY <1>a, <1>b, <2>5, <2>6, OperationMoves
<1>2. CASE BeginTransition(o)
  <2> DEFINE b == [operation[o] EXCEPT !.at = "checking", !.now = instant]
  <2>1. b \in OperationState /\ b.now = instant
    BY <1>a, <1>b DEF OperationState
  <2>2. operation' = [operation EXCEPT ![o] = b]
    BY <1>b, <1>2 DEF BeginTransition
  <2> HIDE DEF b
  <2> QED
    BY <1>a, <1>b, <2>1, <2>2, OperationMoves
<1>3. CASE ReadRecord(o) \/ Confirm(o) \/ Repeat(o)
  <2>1. \/ \E at \in Places : MoveTo(o, at)
        \/ \E answer \in {"applied", "changed", "unknown"} : Tells(o, answer)
    BY <1>3 DEF ReadRecord, Confirm, Repeat, Places
  <2> QED
    BY <1>a, <1>b, <2>1, MovingTo, Telling, OperationMoves
<1> QED
  BY <1>1, <1>2, <1>3

\* A transition replaces the route only when no writer's permit lasts.
LEMMA Transiting ==
  ASSUME CohortInv, NEW i \in Intention, NEW now \in Nat, now <= instant,
         Transits(i, now), Transit(i)
  PROVE  /\ route' \in CohortRoute
         /\ audit' \in [1 .. MaxGeneration -> Intention \cup {NoIntention}]
         /\ \A w \in CohortWriter : ~Writes(w)
<1>1. \A w \in CohortWriter : ~Writes(w)
  BY PermitKeepsAway DEF Transits
<1>2. route' \in CohortRoute
  BY DEF Transit, Intention
<1>3. audit' \in [1 .. MaxGeneration -> Intention \cup {NoIntention}]
  BY DEF Transit, CohortInv, CohortTypeOK
<1> QED
  BY <1>1, <1>2, <1>3

LEMMA SendingKeeps ==
  ASSUME CohortInv, NEW o \in Operator, SendTransition(o)
  PROVE  CohortInv'
<1>a. /\ UNCHANGED <<instant, fence, mutation>>
      /\ fence \in [rotation : Side, writer : Side]
      /\ IntentionOf(o) \in Intention /\ operation[o].now \in Nat
      /\ operation[o].now \in Ticks /\ operation[o].now <= instant
      /\ route \in CohortRoute
      /\ audit \in [1 .. MaxGeneration -> Intention \cup {NoIntention}]
      /\ flying \subseteq [intention : Intention, now : Ticks]
  BY OperationTyped DEF SendTransition, CohortInv, CohortTypeOK
<1>b. PICK b \in OperationState :
        b.now <= instant /\ operation' = [operation EXCEPT ![o] = b]
  <2>1. \/ \E at \in Places : MoveTo(o, at)
        \/ \E answer \in {"applied", "changed", "unknown"} : Tells(o, answer)
    BY DEF SendTransition, Places
  <2> QED
    BY <2>1, MovingTo, Telling
<1>c. /\ operation' \in [Operator -> OperationState]
      /\ \A x \in Operator : operation'[x].now <= instant'
  BY <1>a, <1>b DEF CohortInv, CohortTypeOK, ClocksOfOperators
<1>1. CASE /\ Transits(IntentionOf(o), operation[o].now)
           /\ Transit(IntentionOf(o))
           /\ UNCHANGED flying
  <2>1. ClocksOfOperators'
    BY <1>a, <1>c, <1>1 DEF CohortInv, ClocksOfOperators
  <2> QED
    BY <1>a, <1>c, <1>1, <2>1, Transiting, OperatorMoves
<1>2. CASE UNCHANGED <<route, audit, flying>>
  <2>1. ClocksOfOperators'
    BY <1>a, <1>c, <1>2 DEF CohortInv, ClocksOfOperators
  <2> QED
    BY <1>a, <1>c, <1>2, <2>1, OperatorMoves
<1>3. CASE /\ flying' = flying \cup {[intention |-> IntentionOf(o),
                                      now |-> operation[o].now]}
           /\ UNCHANGED <<route, audit>>
  <2>1. ClocksOfOperators' /\ flying' \subseteq [intention : Intention, now : Ticks]
    BY <1>a, <1>c, <1>3 DEF CohortInv, ClocksOfOperators
  <2> QED
    BY <1>a, <1>c, <1>3, <2>1, OperatorMoves
<1> QED
  BY <1>1, <1>2, <1>3 DEF SendTransition

LEMMA LandingLateKeeps ==
  ASSUME CohortInv, LandLate
  PROVE  CohortInv'
<1>1. PICK f \in flying :
        /\ flying' = flying \ {f}
        /\ IF Transits(f.intention, f.now) THEN Transit(f.intention)
                                           ELSE UNCHANGED <<route, audit>>
  BY DEF LandLate
<1>a. /\ UNCHANGED <<instant, fence, mutation, operation>>
      /\ f.intention \in Intention /\ f.now \in Nat /\ f.now <= instant
      /\ fence \in [rotation : Side, writer : Side] /\ route \in CohortRoute
      /\ audit \in [1 .. MaxGeneration -> Intention \cup {NoIntention}]
      /\ flying' \subseteq [intention : Intention, now : Ticks]
      /\ operation \in [Operator -> OperationState]
  BY <1>1, CohortTyped DEF LandLate, CohortInv, CohortTypeOK, ClocksOfOperators
<1>2. ClocksOfOperators'
  BY <1>1, <1>a DEF CohortInv, ClocksOfOperators
<1>3. CASE Transits(f.intention, f.now)
  BY <1>1, <1>a, <1>2, <1>3, Transiting, OperatorMoves
<1>4. CASE ~Transits(f.intention, f.now)
  BY <1>1, <1>a, <1>2, <1>4, OperatorMoves
<1> QED
  BY <1>3, <1>4

LEMMA InstantKeeps ==
  ASSUME CohortInv, InstantPasses \/ UNCHANGED cohortVars
  PROVE  CohortInv'
<1>1. /\ UNCHANGED <<route, audit, fence, mutation, operation, flying>>
      /\ instant' \in 0 .. LastInstant /\ instant <= instant'
      /\ instant \in Nat /\ instant' \in Nat
  BY CohortTyped, CohortAssumption DEF CohortInv, InstantPasses, cohortVars
<1>2. CohortTypeOK'
  BY <1>1 DEF CohortInv, CohortTypeOK
<1>3. ClocksOfOperators'
  <2>1. /\ \A o \in Operator : operation[o].now \in Nat /\ operation[o].now <= instant
        /\ \A f \in flying : f.now \in Nat /\ f.now <= instant
    BY CohortTyped DEF CohortInv, ClocksOfOperators
  <2> QED
    BY <1>1, <2>1 DEF ClocksOfOperators
<1>4. \A w \in CohortWriter : PermitHolds(w)'
  BY <1>1, PermitStays DEF CohortInv
<1> QED
  BY <1>2, <1>3, <1>4 DEF CohortInv

LEMMA NextCohort == CohortInv /\ [CohortNext]_cohortVars => CohortInv'
<1> SUFFICES ASSUME CohortInv, [CohortNext]_cohortVars PROVE CohortInv'
  OBVIOUS
<1>1. CASE \E w \in CohortWriter : MutationStep(w)
  BY <1>1, BeginningKeeps, RoutingKeeps, TakingAPermitKeeps, EndingAMutationKeeps
     DEF MutationStep
<1>2. CASE \E o \in Operator : OperationStep(o)
  BY <1>2, FencingKeeps, DecidingKeeps, SendingKeeps DEF OperationStep
<1>3. CASE LandLate \/ InstantPasses \/ UNCHANGED cohortVars
  BY <1>3, LandingLateKeeps, InstantKeeps
<1> QED
  BY <1>1, <1>2, <1>3 DEF CohortNext

\* The route, its records, the fence and the updates on their way keep their types: a
\* late one too carries an intention (workspace-cohort-control.ts).
THEOREM CohortTypesHold == CohortSpec => []CohortTypeOK
<1>1. CohortInv => CohortTypeOK
  BY DEF CohortInv
<1> QED
  BY <1>1, InitCohort, NextCohort, PTL DEF CohortSpec

\* A writer's route is the vault's as long as its permit lasts, however many
\* writers and operators meet and whatever lands late.
THEOREM RouteHolds == CohortSpec => []WritersKeepTheirRoute
<1>1. CohortInv => WritersKeepTheirRoute
  BY DEF CohortInv, PermitHolds, Writes, WritersKeepTheirRoute
<1> QED
  BY <1>1, InitCohort, NextCohort, PTL DEF CohortSpec

\* The transition that follows a route is the one to the next generation.
Follows(i) == /\ i.before.generation < MaxGeneration
              /\ i.after.generation = i.before.generation + 1

\* The records up to the route's generation are its history, and no later one
\* exists.
Recorded ==
  /\ \A g \in 1 .. MaxGeneration :
        IF g > route.generation THEN audit[g] = NoIntention
        ELSE /\ audit[g] # NoIntention
             /\ audit[g].before = IF g = 1 THEN FirstRoute ELSE audit[g - 1].after
             /\ audit[g].after.generation = g
  /\ route.generation > 0 => route = audit[route.generation].after
  /\ route.generation = 0 => route = FirstRoute

\* Where an operator has decided on its transition.
Deciding == {"decided", "checking", "sending", "confirming", "refused", "answered"}

\* What an operator has decided follows the route it read; once it is told
\* "applied" it decides nothing else, and the record is its own.
DecisionStands(o) ==
  /\ operation[o].at \in Deciding => Follows(operation[o])
  /\ operation[o].told = "applied" => /\ operation[o].at = "answered"
                                      /\ RecordOf(o) = IntentionOf(o)

RecordInv ==
  /\ Recorded
  /\ \A o \in Operator : DecisionStands(o)
  /\ \A f \in flying : Follows(f.intention)

LEMMA InitRecord == CohortInit => RecordInv
<1> SUFFICES ASSUME CohortInit PROVE RecordInv
  OBVIOUS
<1>1. route = FirstRoute /\ route.generation = 0 /\ flying = {}
  BY DEF CohortInit, FirstRoute
<1>2. \A g \in 1 .. MaxGeneration : g > route.generation /\ audit[g] = NoIntention
  BY <1>1, CohortAssumption DEF CohortInit
<1>3. \A o \in Operator : operation[o].at = "idle" /\ operation[o].told = "nothing"
  BY DEF CohortInit
<1> QED
  BY <1>1, <1>2, <1>3 DEF RecordInv, Recorded, DecisionStands, Deciding

\* An operator's intention is no empty record, and its generation has a place.
LEMMA IntentionHasPlace ==
  /\ \A i \in Intention : i # NoIntention
  /\ \A i \in Intention : Follows(i) =>
       /\ i.after.generation \in 1 .. MaxGeneration
       /\ i.before.generation \in 0 .. MaxGeneration
  /\ CohortInv => \A o \in Operator : Follows(operation[o]) =>
       Follows(IntentionOf(o)) /\ operation[o].after.generation \in 1 .. MaxGeneration
<1>1. ASSUME NEW i \in Intention PROVE i # NoIntention
  BY CohortAssumption DEF Intention, NoIntention
<1>2. ASSUME NEW i \in Intention, Follows(i)
      PROVE  /\ i.after.generation \in 1 .. MaxGeneration
             /\ i.before.generation \in 0 .. MaxGeneration
  <2>1. i.before.generation \in 0 .. MaxGeneration
    BY DEF Intention, CohortRoute
  <2> QED
    BY <1>2, <2>1, CohortAssumption DEF Follows
<1>3. ASSUME CohortInv, NEW o \in Operator, Follows(operation[o])
      PROVE  Follows(IntentionOf(o)) /\ operation[o].after.generation \in 1 .. MaxGeneration
  <2>1. Follows(IntentionOf(o))
    BY <1>3 DEF Follows, IntentionOf
  <2> QED
    BY <1>2, <1>3, <2>1, OperationTyped DEF IntentionOf
<1> QED
  BY <1>1, <1>2, <1>3

RowsStay == \A g \in 1 .. MaxGeneration : audit[g] # NoIntention => audit'[g] = audit[g]

\* A transition that follows the route adds its record behind the others.
LEMMA Recording ==
  ASSUME CohortInv, Recorded, NEW i \in Intention, Follows(i), route = i.before,
         audit[i.after.generation] = NoIntention, Transit(i)
  PROVE  Recorded' /\ RowsStay /\ audit'[i.after.generation] = i
<1> DEFINE n == i.after.generation
<1>1. /\ n \in 1 .. MaxGeneration /\ n = route.generation + 1 /\ n \in Nat
      /\ route.generation \in Nat /\ MaxGeneration \in Nat
  BY IntentionHasPlace, CohortAssumption DEF Follows
<1>2. /\ route' = i.after /\ route'.generation = n
      /\ audit \in [1 .. MaxGeneration -> Intention \cup {NoIntention}]
      /\ audit' = [audit EXCEPT ![n] = i]
  BY DEF Transit, CohortInv, CohortTypeOK
<1>3. audit'[n] = i /\ \A g \in 1 .. MaxGeneration : g # n => audit'[g] = audit[g]
  BY <1>1, <1>2
<1>4. i # NoIntention /\ i.before = route /\ i.after.generation = n
  BY IntentionHasPlace
<1>5. i.before = IF n = 1 THEN FirstRoute ELSE audit[n - 1].after
  BY <1>1, <1>4 DEF Recorded
<1>6. route'.generation > 0 => route' = audit'[route'.generation].after
  BY <1>2, <1>3
<1> HIDE DEF n
<1>7. ASSUME NEW g \in 1 .. MaxGeneration
      PROVE  IF g > route'.generation THEN audit'[g] = NoIntention
             ELSE /\ audit'[g] # NoIntention
                  /\ audit'[g].before = IF g = 1 THEN FirstRoute ELSE audit'[g - 1].after
                  /\ audit'[g].after.generation = g
  <2>1. CASE g > n
    BY <1>1, <1>2, <1>3, <2>1 DEF Recorded
  <2>2. CASE g = n
    <3>1. g # 1 => g - 1 \in 1 .. MaxGeneration /\ g - 1 # n
      <4>1. g \in Nat /\ g >= 1 /\ g <= MaxGeneration /\ MaxGeneration \in Nat
        BY <1>1
      <4> QED
        BY <4>1, <2>2
    <3>2. audit'[g] = i /\ ~(g > route'.generation)
      BY <1>1, <1>2, <1>3, <2>2
    <3> QED
      BY <1>3, <1>4, <1>5, <2>2, <3>1, <3>2
  <2>3. CASE g < n
    <3>1. /\ g # n /\ ~(g > route.generation) /\ ~(g > route'.generation)
          /\ g # 1 => g - 1 \in 1 .. MaxGeneration /\ g - 1 # n
      BY <1>1, <1>2, <2>3
    <3>2. audit'[g] = audit[g] /\ (g # 1 => audit'[g - 1] = audit[g - 1])
      BY <1>3, <3>1
    <3> QED
      BY <3>1, <3>2 DEF Recorded
  <2> QED
    BY <1>1, <2>1, <2>2, <2>3
<1>8. route'.generation # 0
  BY <1>1, <1>2
<1>9. Recorded'
  BY <1>6, <1>7, <1>8 DEF Recorded
<1>10. RowsStay
  <2>1. audit[n] = NoIntention
    BY DEF n
  <2> QED
    BY <1>3, <2>1 DEF RowsStay
<1> QED
  BY <1>3, <1>9, <1>10 DEF n

\* What one operator knows stays true while another acts.
LEMMA DecisionStays ==
  ASSUME CohortInv, NEW o \in Operator, DecisionStands(o), operation'[o] = operation[o],
         RowsStay
  PROVE  DecisionStands(o)'
<1>1. CASE operation[o].told = "applied"
  <2>1. operation[o].after.generation \in 1 .. MaxGeneration /\ RecordOf(o) # NoIntention
    BY <1>1, IntentionHasPlace, OperationTyped DEF DecisionStands, Deciding
  <2>2. RecordOf(o)' = RecordOf(o) /\ IntentionOf(o)' = IntentionOf(o)
    BY <2>1 DEF RowsStay, RecordOf, IntentionOf
  <2> QED
    BY <2>2 DEF DecisionStands, Follows
<1>2. CASE operation[o].told # "applied"
  BY <1>2 DEF DecisionStands, Follows
<1> QED
  BY <1>1, <1>2

\* A step of an operator that leaves the route and the records alone.
LEMMA RecordStays ==
  ASSUME CohortInv, RecordInv, NEW o \in Operator, UNCHANGED <<route, audit>>,
         \A f \in flying' : Follows(f.intention),
         \A x \in Operator \ {o} : operation'[x] = operation[x], DecisionStands(o)'
  PROVE  RecordInv'
<1>1. RowsStay /\ Recorded'
  BY DEF RowsStay, RecordInv, Recorded
<1>2. \A x \in Operator : DecisionStands(x)'
  BY <1>1, DecisionStays DEF RecordInv
<1> QED
  BY <1>1, <1>2 DEF RecordInv

\* A step of an operator's code changes where it is, its last one also its answer.
LEMMA Moves ==
  ASSUME CohortInv, NEW o \in Operator, NEW at, MoveTo(o, at)
  PROVE  /\ operation'[o].at = at /\ operation'[o].told = operation[o].told
         /\ operation'[o].before = operation[o].before /\ operation'[o].after = operation[o].after
         /\ operation'[o].expires = operation[o].expires
         /\ \A x \in Operator \ {o} : operation'[x] = operation[x]
<1>1. operation[o] \in OperationState /\ operation \in [Operator -> OperationState]
  BY OperationTyped
<1>2. operation'[o] = [operation[o] EXCEPT !.at = at]
  BY <1>1 DEF MoveTo
<1>3. QED
  BY <1>1, <1>2 DEF MoveTo, OperationState

LEMMA Answers ==
  ASSUME CohortInv, NEW o \in Operator, NEW answer, Tells(o, answer)
  PROVE  /\ operation'[o].at = "answered" /\ operation'[o].told = answer
         /\ operation'[o].before = operation[o].before /\ operation'[o].after = operation[o].after
         /\ operation'[o].expires = operation[o].expires
         /\ \A x \in Operator \ {o} : operation'[x] = operation[x]
<1>1. operation[o] \in OperationState /\ operation \in [Operator -> OperationState]
  BY OperationTyped
<1>2. operation'[o] = [operation[o] EXCEPT !.at = "answered", !.told = answer]
  BY <1>1 DEF Tells
<1>3. QED
  BY <1>1, <1>2 DEF Tells, OperationState

\* The operator's steps up to its decision, and its repetitions.
LEMMA DecidingRecords ==
  ASSUME CohortInv, RecordInv, NEW o \in Operator,
         \/ BeginFence(o) \/ TakeFence(o) \/ ReturnFence(o)
         \/ ReadExpected(o) \/ BeginTransition(o) \/ Repeat(o)
  PROVE  RecordInv'
<1>a. /\ operation[o] \in OperationState /\ operation \in [Operator -> OperationState]
      /\ DecisionStands(o) /\ \A f \in flying : Follows(f.intention)
  BY OperationTyped DEF RecordInv
<1>b. UNCHANGED <<route, audit, flying>>
  BY DEF BeginFence, TakeFence, ReturnFence, ReadExpected, BeginTransition, Repeat
<1>c. \A x \in Operator \ {o} : operation'[x] = operation[x]
  BY <1>a DEF BeginFence, TakeFence, ReturnFence, ReadExpected, BeginTransition, Repeat, MoveTo
<1>1. CASE BeginFence(o) \/ TakeFence(o)
  <2>1. operation'[o].at \in {"fencing", "fenced"} /\ operation'[o].told # "applied"
    <3>1. CASE BeginFence(o)
      BY <1>a, <3>1 DEF BeginFence, DecisionStands, OperationState
    <3>2. CASE TakeFence(o)
      BY <1>a, <3>2, Moves DEF TakeFence, DecisionStands
    <3>3. QED
      BY <1>1, <3>1, <3>2
  <2> QED
    BY <2>1, <1>a, <1>b, <1>c, RecordStays DEF DecisionStands, Deciding
<1>2. CASE ReturnFence(o)
  <2>1. DecisionStands(o)'
    BY <1>a, <1>b, <1>2, DecisionStays DEF ReturnFence, RowsStay
  <2> QED
    BY <1>a, <1>b, <1>c, <2>1, RecordStays
<1>3. CASE ReadExpected(o)
  <2>1. /\ operation'[o].before = route /\ operation'[o].after.generation = route.generation + 1
        /\ route.generation < MaxGeneration /\ operation'[o].told = operation[o].told
        /\ operation[o].at = "fenced"
    <3>1. PICK c \in Control : operation' = [operation EXCEPT ![o] =
            [@ EXCEPT !.at = "decided", !.before = route,
               !.after = [generation |-> route.generation + 1, decision |-> o,
                          control |-> c]]]
      BY <1>3 DEF ReadExpected
    <3> DEFINE after == [generation |-> route.generation + 1, decision |-> o, control |-> c]
    <3>2. after.generation = route.generation + 1
      OBVIOUS
    <3> HIDE DEF after
    <3>3. /\ operation'[o].before = route /\ operation'[o].after = after
          /\ operation'[o].told = operation[o].told
      BY <1>a, <3>1 DEF OperationState, after
    <3> QED
      BY <1>3, <3>2, <3>3 DEF ReadExpected
  <2>2. DecisionStands(o)'
    BY <1>a, <2>1 DEF DecisionStands, Follows
  <2> QED
    BY <1>a, <1>b, <1>c, <2>2, RecordStays
<1>4. CASE BeginTransition(o) \/ Repeat(o)
  <2>1. /\ operation'[o].before = operation[o].before /\ operation'[o].after = operation[o].after
        /\ operation[o].at \in Deciding /\ operation'[o].told = operation[o].told
        /\ operation[o].told # "applied"
    <3>1. CASE BeginTransition(o)
      BY <1>a, <3>1 DEF BeginTransition, DecisionStands, Deciding, OperationState
    <3>2. CASE Repeat(o)
      BY <1>a, <3>2, Moves DEF Repeat, Deciding
    <3>3. QED
      BY <1>4, <3>1, <3>2
  <2>2. DecisionStands(o)'
    BY <1>a, <2>1 DEF DecisionStands, Follows
  <2> QED
    BY <1>a, <1>b, <1>c, <2>2, RecordStays
<1> QED
  BY <1>1, <1>2, <1>3, <1>4

\* An operator is told "applied" only when the record is its own.
LEMMA Told ==
  ASSUME CohortInv, RecordInv, NEW o \in Operator, operation[o].at \in Deciding,
         operation[o].at # "answered",
         \/ \E at \in Deciding : MoveTo(o, at)
         \/ \E answer \in {"applied", "changed", "unknown"} :
              Tells(o, answer) /\ (answer = "applied" => RecordOf(o)' = IntentionOf(o))
  PROVE  /\ DecisionStands(o)'
         /\ \A x \in Operator \ {o} : operation'[x] = operation[x]
<1>a. /\ operation[o] \in OperationState /\ operation \in [Operator -> OperationState]
      /\ Follows(operation[o]) /\ operation[o].told # "applied"
  BY OperationTyped DEF RecordInv, DecisionStands
<1>1. /\ operation'[o].before = operation[o].before /\ operation'[o].after = operation[o].after
      /\ operation'[o].expires = operation[o].expires
      /\ \A x \in Operator \ {o} : operation'[x] = operation[x]
  BY Moves, Answers
<1>2. operation'[o].told = "applied" =>
        operation'[o].at = "answered" /\ RecordOf(o)' = IntentionOf(o)
  BY <1>a, Moves, Answers
<1>3. IntentionOf(o)' = IntentionOf(o)
  BY <1>1 DEF IntentionOf
<1> QED
  BY <1>a, <1>1, <1>2, <1>3 DEF DecisionStands, Follows

LEMMA AnsweringRecords ==
  ASSUME CohortInv, RecordInv, NEW o \in Operator, ReadRecord(o) \/ Confirm(o)
  PROVE  RecordInv'
<1>1. UNCHANGED <<route, audit, flying>> /\ operation[o].at \in Deciding
      /\ operation[o].at # "answered"
  BY DEF ReadRecord, Confirm, Deciding
<1>2. \/ \E at \in Deciding : MoveTo(o, at)
      \/ \E answer \in {"applied", "changed", "unknown"} :
           Tells(o, answer) /\ (answer = "applied" => RecordOf(o) = IntentionOf(o))
  BY DEF ReadRecord, Confirm, RecordMatches, Deciding
<1>3. CASE \E at \in Deciding : MoveTo(o, at)
  BY <1>1, <1>3, Told, RecordStays DEF RecordInv
<1>4. ASSUME NEW answer \in {"applied", "changed", "unknown"}, Tells(o, answer),
             answer = "applied" => RecordOf(o) = IntentionOf(o)
      PROVE  RecordInv'
  <2>1. RecordOf(o)' = RecordOf(o)
    BY <1>1, <1>4, OperationTyped DEF RecordOf, Tells
  <2> QED
    BY <1>1, <1>4, <2>1, Told, RecordStays DEF RecordInv
<1> QED
  BY <1>2, <1>3, <1>4

LEMMA SendingRecords ==
  ASSUME CohortInv, RecordInv, NEW o \in Operator, SendTransition(o)
  PROVE  RecordInv'
<1> DEFINE i == IntentionOf(o)
<1>a. /\ operation[o].at = "sending" /\ operation[o].at \in Deciding
      /\ i \in Intention /\ Follows(i) /\ i.after = operation[o].after
      /\ operation[o] \in OperationState /\ operation \in [Operator -> OperationState]
  <2>1. operation[o].at = "sending" /\ operation[o].at \in Deciding
    BY DEF SendTransition, Deciding
  <2> QED
    BY <2>1, OperationTyped, IntentionHasPlace DEF RecordInv, DecisionStands, IntentionOf
<1>1. CASE /\ Transits(i, operation[o].now) /\ Transit(i)
           /\ Tells(o, "applied") \/ MoveTo(o, "confirming")
           /\ UNCHANGED flying
  <2>1. Recorded' /\ RowsStay /\ audit'[i.after.generation] = i
    BY <1>a, <1>1, Recording DEF RecordInv, Transits
  <2>2. RecordOf(o)' = i
    <3>1. operation'[o].after = operation[o].after
      BY <1>1, Moves, Answers
    <3>2. QED
      BY <1>a, <2>1, <3>1 DEF RecordOf
  <2>3. DecisionStands(o)' /\ \A x \in Operator \ {o} : operation'[x] = operation[x]
    BY <1>a, <1>1, <2>2, Told DEF Deciding
  <2>4. \A x \in Operator \ {o} : DecisionStands(x)'
    BY <2>1, <2>3, DecisionStays DEF RecordInv
  <2> QED
    BY <1>1, <2>1, <2>3, <2>4 DEF RecordInv
<1>2. CASE MoveTo(o, "refused") /\ UNCHANGED <<route, audit, flying>>
  BY <1>a, <1>2, Told, RecordStays DEF RecordInv, Deciding
<1>3. CASE /\ flying' = flying \cup {[intention |-> i, now |-> operation[o].now]}
           /\ MoveTo(o, "confirming") /\ UNCHANGED <<route, audit>>
  <2>1. \A f \in flying' : Follows(f.intention)
    BY <1>a, <1>3 DEF RecordInv
  <2> QED
    BY <1>a, <1>3, <2>1, Told, RecordStays DEF Deciding
<1> QED
  BY <1>1, <1>2, <1>3 DEF SendTransition

LEMMA LandingRecords ==
  ASSUME CohortInv, RecordInv, LandLate
  PROVE  RecordInv'
<1>1. PICK f \in flying :
        /\ flying' = flying \ {f}
        /\ IF Transits(f.intention, f.now) THEN Transit(f.intention)
                                           ELSE UNCHANGED <<route, audit>>
  BY DEF LandLate
<1>2. f.intention \in Intention /\ Follows(f.intention) /\ UNCHANGED operation
  BY <1>1, CohortTyped DEF CohortInv, RecordInv, LandLate
<1>3. Recorded' /\ RowsStay
  <2>1. CASE Transits(f.intention, f.now)
    BY <1>1, <1>2, <2>1, Recording DEF RecordInv, Transits
  <2>2. CASE UNCHANGED <<route, audit>>
    BY <2>2 DEF RowsStay, RecordInv, Recorded
  <2> QED
    BY <1>1, <2>1, <2>2
<1>4. \A o \in Operator : DecisionStands(o)'
  BY <1>2, <1>3, DecisionStays DEF RecordInv
<1> QED
  BY <1>1, <1>3, <1>4 DEF RecordInv

LEMMA NextRecord == CohortInv /\ RecordInv /\ [CohortNext]_cohortVars => RecordInv'
<1> SUFFICES ASSUME CohortInv, RecordInv, [CohortNext]_cohortVars PROVE RecordInv'
  OBVIOUS
<1>1. CASE UNCHANGED <<route, audit, operation, flying>>
  <2>1. RowsStay /\ Recorded' /\ \A o \in Operator : operation'[o] = operation[o]
    BY <1>1 DEF RowsStay, RecordInv, Recorded
  <2>2. \A o \in Operator : DecisionStands(o)'
    BY <2>1, DecisionStays DEF RecordInv
  <2> QED
    BY <1>1, <2>1, <2>2 DEF RecordInv
<1>2. CASE \E w \in CohortWriter : MutationStep(w)
  BY <1>1, <1>2 DEF MutationStep, BeginMutation, ReadRoute, TakePermit, EndMutation
<1>3. CASE \E o \in Operator : OperationStep(o)
  BY <1>3, DecidingRecords, AnsweringRecords, SendingRecords DEF OperationStep
<1>4. CASE InstantPasses \/ UNCHANGED cohortVars
  BY <1>1, <1>4 DEF InstantPasses, cohortVars
<1> QED
  BY <1>2, <1>3, <1>4, LandingRecords DEF CohortNext

\* The records of the transitions are the gapless history of the route, and an
\* operator that is told "applied" finds its own record there.
THEOREM RouteIsOnRecord == CohortSpec => []RouteIsRecorded
<1>1. RecordInv => RouteIsRecorded
  BY DEF RecordInv, Recorded, DecisionStands, RouteIsRecorded
<1> QED
  BY <1>1, InitCohort, NextCohort, InitRecord, NextRecord, PTL DEF CohortSpec
===============================================================================
