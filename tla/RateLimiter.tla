---------------------------- MODULE RateLimiter ----------------------------
(***************************************************************************)
(* The limiter of API requests in pkd-management (api_rate_limiter.cpp).   *)
(* Every client has three windows of fixed length. A window starts with    *)
(* the first request after the one before ended, and a request counts in   *)
(* all three or, when one is full, in none. Every CleanupInterval accepted *)
(* requests the clients whose day ended are forgotten.                     *)
(*                                                                         *)
(* The whole check runs under one mutex, so that it is one step. Time      *)
(* passes in ticks; the clock readings of one check are the same tick.     *)
(***************************************************************************)
EXTENDS Integers, Functions

CONSTANTS
    Client,          \* the ids of API clients
    Length,          \* [Window -> Nat]: the length of each window in ticks
    Limit,           \* [Client -> [Window -> Nat]]: 0 stands for "no limit"
    CleanupInterval, \* accepted requests between two clean-ups (100 in the code)
    MaxTime,         \* bound: the last tick
    MaxPerTick       \* bound: requests of a client accepted in one tick

Window == {"minute", "hour", "day"}

ASSUME LimiterAssumption ==
    /\ Length \in [Window -> Nat \ {0}]
    /\ Length["minute"] <= Length["hour"] /\ Length["hour"] <= Length["day"]
    /\ Limit \in [Client -> [Window -> Nat]]
    /\ CleanupInterval \in Nat \ {0} /\ MaxTime \in Nat /\ MaxPerTick \in Nat

VARIABLES
    windows,    \* windows_: the windows of the clients that have any
    checkCount, \* checkCount_
    clock,      \* steady_clock, in ticks
    accepted    \* for the properties: the requests accepted of each client until each tick

limiterVars == <<windows, checkCount, clock, accepted>>

Opened == [count |-> 0, start |-> clock]

LimiterInit ==
    /\ windows = <<>>
    /\ checkCount = 0
    /\ clock = 0
    /\ accepted = [c \in Client |-> [t \in -1 .. MaxTime |-> 0]]

-----------------------------------------------------------------------------

resetIfExpired(w, k) == IF clock - w.start >= Length[k] THEN Opened ELSE w

\* The windows of a client when it asks: new on the first access, and each of
\* them started again if it ended.
Current(c) ==
    [k \in Window |-> IF c \in DOMAIN windows THEN resetIfExpired(windows[c][k], k) ELSE Opened]

Full(c) == {k \in Window : Limit[c][k] > 0 /\ Current(c)[k].count >= Limit[c][k]}

\* Those of the others with them.
Stored(c, ws) == [d \in DOMAIN windows \cup {c} |-> IF d = c THEN ws ELSE windows[d]]

\* A refused request leaves the windows started again, and nothing else.
Refuse(c) ==
    /\ Full(c) # {}
    /\ windows' = Stored(c, Current(c))
    /\ UNCHANGED <<checkCount, clock, accepted>>

\* Mutant of Kept: the age of the other clients' windows is not looked at.
KeptFresh(c, ws) == Restrict(ws, {c})

\* What a clean-up on behalf of client c keeps: c itself and every client
\* whose day is not over. Minute and hour are not looked at.
Kept(c, ws) ==
    Restrict(ws, {d \in DOMAIN ws : d = c \/ clock - ws[d]["day"].start <= Length["day"]})

Accept(c) ==
    /\ Full(c) = {}
    /\ accepted[c][clock] - accepted[c][clock - 1] < MaxPerTick
    /\ accepted' = [accepted EXCEPT ![c] = [t \in -1 .. MaxTime |-> IF t < clock THEN @[t] ELSE @[t] + 1]]
    /\ LET counted == Stored(c, [k \in Window |-> [Current(c)[k] EXCEPT !.count = @ + 1]])
           due     == checkCount + 1 >= CleanupInterval
       IN  /\ checkCount' = IF due THEN 0 ELSE checkCount + 1
           /\ windows' = IF due THEN Kept(c, counted) ELSE counted
    /\ UNCHANGED clock

LimiterTick ==
    /\ clock < MaxTime
    /\ clock' = clock + 1
    /\ UNCHANGED <<windows, checkCount, accepted>>

LimiterNext ==
    \/ \E c \in Client : Accept(c)
    \/ \E c \in Client : Refuse(c)
    \/ LimiterTick

LimiterSpec == LimiterInit /\ [][LimiterNext]_limiterVars

-----------------------------------------------------------------------------

WindowState == [count : Nat, start : 0 .. MaxTime]

\* The limiter's maps have their shapes, and the counter stays below the interval.
LimiterTypeOK ==
    /\ DOMAIN windows \subseteq Client
    /\ \A c \in DOMAIN windows : windows[c] \in [Window -> WindowState]
    /\ checkCount \in 0 .. CleanupInterval - 1
    /\ clock \in 0 .. MaxTime
    /\ accepted \in [Client -> [-1 .. MaxTime -> Nat]]

StretchEnd(from, k) == IF from + Length[k] - 1 < MaxTime THEN from + Length[k] - 1 ELSE MaxTime
AcceptedIn(c, from, k) == accepted[c][StretchEnd(from, k)] - accepted[c][from - 1]

(* In any minute no more than three times the limit of a minute is accepted,  *)
(* in any hour three times that of an hour, in any day twice that of a day: a *)
(* window of fixed length meets two others, and the clean-up, which looks at  *)
(* the day only, may cut one more in two (api_rate_limiter.cpp:41-86).        *)
RateIsBounded ==
    \A c \in Client, k \in Window, from \in 0 .. clock :
        Limit[c][k] > 0 => AcceptedIn(c, from, k) <= (IF k = "day" THEN 2 ELSE 3) * Limit[c][k]

(* A client that would be refused now has had its limit accepted within the   *)
(* length of the window that refuses it: neither the clean-up, nor another    *)
(* client, nor a refused request uses up what it has (:46-66).                *)
RefusalIsEarned ==
    \A c \in Client : \A k \in Full(c) :
        AcceptedIn(c, IF clock + 1 < Length[k] THEN 0 ELSE clock + 1 - Length[k], k) >= Limit[c][k]

(* The claim of the header, "sliding window rate limiter"                     *)
(* (api_rate_limiter.h:5): no stretch of a window's length has more than the  *)
(* limit. TLC refutes it: the windows are fixed.                             *)
WindowSlides ==
    \A c \in Client, k \in Window, from \in 0 .. clock :
        Limit[c][k] > 0 => AcceptedIn(c, from, k) <= Limit[c][k]

(* What fixed windows would promise by themselves: twice the limit. TLC       *)
(* refutes it: the clean-up forgets a client whose day                        *)
(* is over while its minute and its hour still count (:79).                   *)
TwiceAtMost ==
    \A c \in Client, k \in Window, from \in 0 .. clock :
        Limit[c][k] > 0 => AcceptedIn(c, from, k) <= 2 * Limit[c][k]
=============================================================================
