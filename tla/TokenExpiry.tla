------------------------------ MODULE TokenExpiry ------------------------------
(***************************************************************************)
(* The near-expiry test of keystone tokens, dccommon/utils.py              *)
(* is_token_expiring_soon, and the identity client that uses it to renew   *)
(* its cached token before every audit cycle (spec.md 4.1; the client is   *)
(* not in this repository).  Time is in whole seconds.                     *)
(***************************************************************************)
EXTENDS Integers

CONSTANTS
    StaleMin, StaleMax, StaleStep,  \* STALE_TOKEN_DURATION_MIN/MAX/STEP
    TokenLife,                      \* lifetime of a newly issued token
    TickStep,                       \* time between two observations
    Horizon                         \* last instant considered

VARIABLES
    now,        \* the current time
    expiresAt,  \* token['expires_at'] of the cached token
    drawn,      \* the duration drawn by the last check (0 before any)
    renewed     \* whether the last check renewed the token

vars == <<now, expiresAt, drawn, renewed>>

\* Mutant: randrange read as including its stop value.
RandRangeInclusive(start, stop, step) ==
    {start + k * step : k \in 0..((stop - start) \div step)}

\* random.randrange(start, stop, step) for step > 0: the values it can return.
RandRange(start, stop, step) ==
    {start + k * step : k \in 0..((stop - start - 1) \div step)}

\* The durations is_token_expiring_soon draws from.
Durations == RandRange(StaleMin, StaleMax, StaleStep)

\* Mutant: the comparison made strict.
IsSoonStrict(dt, window) == dt < now + window

\* timeutils.is_soon: the time dt lies no later than window seconds from now.
IsSoon(dt, window) == dt <= now + window

\* is_token_expiring_soon with the duration d drawn.
IsTokenExpiringSoon(d) == IsSoon(expiresAt, d)

Init ==
    /\ now = 0
    /\ expiresAt = TokenLife
    /\ drawn = 0
    /\ renewed = FALSE

\* The client checks its cached token and obtains a new one when the check
\* says it is expiring soon.
CheckToken ==
    \E d \in Durations :
        /\ drawn' = d
        /\ renewed' = IsTokenExpiringSoon(d)
        /\ expiresAt' = IF IsTokenExpiringSoon(d) THEN now + TokenLife
                                                   ELSE expiresAt
        /\ UNCHANGED now

\* Time passes.
Tick ==
    /\ now + TickStep <= Horizon
    /\ now' = now + TickStep
    /\ UNCHANGED <<expiresAt, drawn, renewed>>

Next == CheckToken \/ Tick

Spec == Init /\ [][Next]_vars

-----------------------------------------------------------------------------
\* The duration drawn lies in [StaleMin, StaleMax), as spec.md 4.1 requires.
TypeOK ==
    /\ now \in 0..Horizon
    /\ expiresAt \in 0..(Horizon + TokenLife)
    /\ drawn \in {0} \cup StaleMin..(StaleMax - 1)
    /\ renewed \in BOOLEAN

\* Whatever the draw, a check renews a token that has StaleMin seconds or
\* less to live, and keeps one that has StaleMax seconds or more: renewals
\* are spread over the window and never outside it.
RenewalWithinWindow ==
    [][CheckToken =>
         /\ expiresAt - now <= StaleMin => renewed'
         /\ expiresAt - now >= StaleMax => ~renewed']_vars

\* spec.md 4.1: a token is near expiry when its remaining life is less than
\* the duration drawn.
NearExpiryAsSpecified ==
    [][CheckToken => (renewed' <=> expiresAt - now < drawn')]_vars

=============================================================================
