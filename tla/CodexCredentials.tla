--------------------------- MODULE CodexCredentials ---------------------------
(***************************************************************************)
(* The shared Codex account (providers/codex/auth.ts).                      *)
(*                                                                          *)
(* A refresh token is good for one use: the provider that answers a refresh *)
(* has rotated it, whether the answer arrives or not.  The supervisor is    *)
(* the only one that refreshes.  It keeps the account in its settings, runs *)
(* at most one refresh at a time that every concurrent request waits for,   *)
(* bounds it by a timeout, and hands out copies without the refresh token   *)
(* that have to outlive the action they are made for.  The environment's    *)
(* account is taken into an empty store, or when its login is newer.        *)
(***************************************************************************)
EXTENDS Naturals, FiniteSets

CONSTANTS
    Requests,      \* the launches that may ask for an account at the same time
    Minimums,      \* validities a request may need: its action and the margin
    Leeway,        \* how much earlier than that a refresh is tried
    Lifetime,      \* validity of an access token that is minted
    MaxClock,      \* bound: the clock
    MaxTokens,     \* bound: refresh tokens the provider mints
    MaxDeaths,     \* bound: restarts of the supervisor
    MaxFaults,     \* bound: settings that cannot be written
    NoAccount        \* no account, no refresh

ASSUME CredentialBoundsAssumption ==
    /\ Minimums \subseteq Nat /\ Leeway \in Nat /\ Lifetime \in Nat \ {0}
    /\ MaxClock \in Nat /\ MaxTokens \in Nat \ {0}
    /\ MaxDeaths \in Nat /\ MaxFaults \in Nat
    /\ LET accounts == [token : Nat, expires : Nat, since : Nat]
       IN  NoAccount \notin accounts
             \cup [account : accounts, since : Nat, answer : accounts \cup {NoAccount},
                   state : {"sent", "refused", "answered"}]

VARIABLES
    clock,
    stored,    \* the account in the settings
    env,       \* CODEX_AUTH_JSON of the running process
    login,     \* the last account an operator logged in to
    flight,    \* the refresh in flight: its account, when it started, its answer
    asked,     \* what every request that waits for the refresh needs
    handed,    \* what the last step handed out: the need and what was left of it
    tokens,    \* the number of refresh tokens minted
    spent,     \* the refresh tokens the provider rotated
    lost,      \* history: the rotations that never reached the settings, and when
    reused,    \* history: those that were sent after they were rotated
    deaths, faults

codexVars == <<clock, stored, env, login, flight, asked, handed, tokens, spent,
               lost, reused, deaths, faults>>
provider == <<tokens, spent>>

\* An account: its refresh token, the expiry of its access token (0 when it
\* cannot be read) and its last refresh.
Account == [token : 1..MaxTokens, expires : 0..(MaxClock + Lifetime),
            since : 0..MaxClock]
Flight == [account : Account, since : 0..MaxClock, answer : Account \cup {NoAccount},
           state : {"sent", "refused", "answered"}]
Waiting == {r \in Requests : asked[r] # NoAccount}

CredentialsTypeOK ==
    /\ clock \in 0..MaxClock
    /\ stored \in Account \cup {NoAccount}
    /\ env \in Account /\ login \in Account
    /\ flight \in Flight \cup {NoAccount}
    /\ asked \in [Requests -> Minimums \cup {NoAccount}]
    /\ handed \subseteq [need : Minimums, left : 0..(MaxClock + Lifetime)]
    /\ tokens \in 0..MaxTokens
    /\ spent \subseteq 1..MaxTokens /\ reused \subseteq spent
    /\ lost \subseteq [token : spent, at : 0..MaxClock]
    /\ deaths \in 0..MaxDeaths /\ faults \in 0..MaxFaults

CodexInit ==
    /\ clock = 0 /\ stored = NoAccount
    /\ login = [token |-> 1, expires |-> Lifetime, since |-> 0] /\ env = login
    /\ flight = NoAccount
    /\ asked = [r \in Requests |-> NoAccount] /\ handed = {}
    /\ tokens = 1 /\ spent = {} /\ lost = {} /\ reused = {}
    /\ deaths = 0 /\ faults = 0

-----------------------------------------------------------------------------
(* What a request finds                                                    *)

\* Mutants of Resolved: the environment is taken over the store; a store that
\* is not empty is kept whatever the operator does.
EnvironmentWins == env
StoreWins == IF stored = NoAccount THEN env ELSE stored

\* The environment is a bootstrap: it is taken into an empty store, or when
\* its login is strictly newer than the last refresh of the store.
Resolved ==
    IF stored = NoAccount THEN env
    ELSE IF env.since > stored.since THEN env
    ELSE stored

Readable(account) == account.expires # 0
Covers(account, need, at) ==
    Readable(account) /\ account.expires >= at + need

Copy(account, need) ==
    [need |-> need,
     left |-> IF account.expires >= clock THEN account.expires - clock ELSE 0]

\* Mutant of Granted: the validity is judged by the clock of the refresh.
JudgedBeforeTheWait(account, needs) ==
    {Copy(account, need) : need \in {n \in needs : Covers(account, n, flight.since)}}

\* A copy is handed out only when what it was refreshed or kept to covers the
\* need by the clock after the wait; the other requests are refused.
Granted(account, needs) ==
    {Copy(account, need) : need \in {n \in needs : Covers(account, n, clock)}}

\* A request that finds a refresh in flight waits for it.
Refreshing(current) ==
    IF flight # NoAccount THEN flight' = flight
    ELSE flight' = [account |-> current, since |-> clock, answer |-> NoAccount,
                    state |-> "sent"]

\* A request reads the settings and decides, without a pause in between.
Ask(r, need) ==
    LET current == Resolved
    IN /\ r \notin Waiting
       /\ stored' = current
       /\ \/ /\ Covers(current, need + Leeway, clock)
             /\ handed' = {Copy(current, need)}
             /\ UNCHANGED <<asked, flight>>
          \/ /\ ~Covers(current, need + Leeway, clock)
             /\ asked' = [asked EXCEPT ![r] = need]
             /\ Refreshing(current)
             /\ handed' = {}
       /\ UNCHANGED <<clock, env, login, provider, lost, reused, deaths, faults>>

-----------------------------------------------------------------------------
(* The provider                                                            *)

\* The provider rotates a live token, or answers with a new access token
\* alone; a token it has rotated is refused.
Exchange ==
    /\ flight # NoAccount /\ flight.state = "sent"
    /\ LET t == flight.account.token
       IN \/ /\ t \in spent
             /\ flight' = [flight EXCEPT !.state = "refused"]
             /\ reused' = reused \cup {t}
             /\ UNCHANGED provider
          \/ /\ t \notin spent /\ tokens < MaxTokens
             /\ tokens' = tokens + 1 /\ spent' = spent \cup {t}
             /\ flight' = [flight EXCEPT !.state = "answered", !.answer =
                    [token |-> tokens + 1, expires |-> clock + Lifetime,
                     since |-> flight.since]]
             /\ UNCHANGED reused
          \/ /\ t \notin spent
             /\ \E expires \in {0, clock + Lifetime} :
                   flight' = [flight EXCEPT !.state = "answered", !.answer =
                      [token |-> t, expires |-> expires, since |-> flight.since]]
             /\ UNCHANGED <<provider, reused>>
          \/ /\ t \notin spent
             /\ flight' = [flight EXCEPT !.state = "refused"]
             /\ UNCHANGED <<provider, reused>>
    /\ handed' = {}
    /\ UNCHANGED <<clock, stored, env, login, asked, lost, deaths, faults>>

\* What the flight's end is worth to all that waited for it.
Settle(account) ==
    /\ handed' = Granted(account, {asked[r] : r \in Waiting})
    /\ asked' = [r \in Requests |-> NoAccount]
    /\ flight' = NoAccount

\* The rotation whose answer is dropped.
Dropped ==
    IF flight.state = "answered" /\ flight.account.token \in spent
    THEN {[token |-> flight.account.token, at |-> clock]} ELSE {}

\* The answer is written to the settings before the flight is over.
Answered ==
    /\ flight # NoAccount /\ flight.state = "answered"
    /\ stored' = flight.answer
    /\ Settle(flight.answer)
    /\ UNCHANGED <<clock, env, login, provider, lost, reused, deaths, faults>>

\* A refresh that is refused, that times out, or whose answer cannot be
\* written falls back to the account it started from.
FallBack ==
    /\ lost' = lost \cup Dropped
    /\ Settle(flight.account)
    /\ UNCHANGED <<clock, stored, env, login, provider, reused, deaths>>

Refused == flight # NoAccount /\ flight.state = "refused" /\ FallBack /\ UNCHANGED faults

\* Mutant of TimedOut: an endpoint that never answers is waited for.
NeverTimesOut ==
    /\ flight # NoAccount /\ flight.state = "answered"
    /\ FallBack
    /\ UNCHANGED faults

\* The deadline holds for the headers and for the body, so that it may pass
\* although the provider has rotated the token.  A request that the provider
\* takes only after the deadline ends as one it took just before; one that it
\* takes later than the next request with that token is not modelled.
TimedOut ==
    /\ flight # NoAccount /\ flight.state # "refused"
    /\ FallBack
    /\ UNCHANGED faults

SettingsFail ==
    /\ flight # NoAccount /\ flight.state = "answered" /\ faults < MaxFaults
    /\ faults' = faults + 1
    /\ FallBack

-----------------------------------------------------------------------------
(* Time, the operator and the process                                      *)

Pass ==
    /\ clock < MaxClock
    /\ clock' = clock + 1 /\ handed' = {}
    /\ UNCHANGED <<stored, env, login, flight, asked, provider, lost, reused,
                   deaths, faults>>

\* An operator logs in; nobody refreshes at that very moment.
LogIn ==
    /\ tokens < MaxTokens
    /\ stored # NoAccount => stored.since < clock
    /\ flight # NoAccount => flight.since < clock
    /\ tokens' = tokens + 1
    /\ login' = [token |-> tokens + 1, expires |-> clock + Lifetime, since |-> clock]
    /\ handed' = {}
    /\ UNCHANGED <<clock, stored, env, flight, asked, spent, lost, reused,
                   deaths, faults>>

\* A restart takes the last login into the environment of the process.
Restart ==
    /\ deaths < MaxDeaths
    /\ deaths' = deaths + 1
    /\ env' = login
    /\ flight' = NoAccount
    /\ lost' = IF flight # NoAccount THEN lost \cup Dropped ELSE lost
    /\ asked' = [r \in Requests |-> NoAccount] /\ handed' = {}
    /\ UNCHANGED <<clock, stored, login, provider, reused, faults>>

-----------------------------------------------------------------------------
CodexNext ==
    \/ \E r \in Requests, need \in Minimums : Ask(r, need)
    \/ Exchange \/ Answered \/ Refused \/ TimedOut \/ SettingsFail
    \/ Pass \/ LogIn \/ Restart

CodexSpec == CodexInit /\ [][CodexNext]_codexVars

\* The timer of a refresh fires and the answers that arrive are handled.
CodexFairness == WF_codexVars(Answered) /\ WF_codexVars(Refused) /\ WF_codexVars(TimedOut)
FairCodexSpec == CodexSpec /\ CodexFairness

-----------------------------------------------------------------------------
\* However many launches ask at once, and whatever account the process was
\* started with, a refresh token is sent again after its rotation only when
\* the answer that brought its successor was lost.
SpentOnce == reused \subseteq {rotation.token : rotation \in lost}

\* The access token that is handed out outlives, by the clock of that moment,
\* the action it was asked for, also after a wait for the refresh of another.
SeedOutlivesItsAction == \A copy \in handed : copy.left >= copy.need

\* After a rotation was lost, a process that has a later login refreshes from
\* that one: an operator can recover an account that was spent.
LoginReplacesSpent ==
    [][\A rotation \in lost :
         (flight = NoAccount /\ flight' # NoAccount /\ env.since > rotation.at)
         => flight'.account.token # rotation.token]_codexVars

\* Every request for an account is answered, although the endpoint may not.
EveryRequestAnswered == \A r \in Requests : r \in Waiting ~> r \notin Waiting

\* A refresh token is good for one use: none is spent twice unless its answer was
\* lost, a login replaces one that was, and a seed outlives the action it is for.
CredentialsSafe ==
    /\ [](SpentOnce /\ SeedOutlivesItsAction)
    /\ LoginReplacesSpent
=============================================================================
