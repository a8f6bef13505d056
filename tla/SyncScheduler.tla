---------------------------- MODULE SyncScheduler ----------------------------
(***************************************************************************)
(* The daily sync scheduler of pkd-relay-service and the HTTP handlers     *)
(* that drive it: PUT /api/sync/config stops it, configures it and starts  *)
(* it again, POST /api/sync/trigger-daily asks for a run at once, and      *)
(* main() stops it when the server ends.                                   *)
(*                                                                         *)
(* start() makes two threads: a detached one that checks once after ten    *)
(* seconds, and dailyThread_, which sleeps until the scheduled time.       *)
(* Threads of the g-th start() are called g.                               *)
(***************************************************************************)
EXTENDS Integers, FiniteSets

CONSTANTS Handler,    \* the HTTP threads that serve the two requests
          Main,
          Config,     \* what sync_config may hold
          MaxStarts   \* calls of start() in a behaviour: bounds the PUTs

ASSUME MainAssumption == Main \notin Handler
ASSUME ConfigAssumption ==
    Config # {} /\ Config \subseteq [enabled : BOOLEAN, revalidate : BOOLEAN, reconcile : BOOLEAN]
ASSUME StartsAssumption == MaxStarts \in Nat \ {0}

Caller == Handler \cup {Main}
Gen == 1..MaxStarts

VARIABLES running,  \* running_
          force,    \* forceDailySync_
          due,      \* lastDailySyncDate_ is not today
          cfg,      \* the scheduler's configuration
          starts,   \* how often start() was called
          thread,   \* dailyThread_: the thread it stands for, 0 when not joinable
          daily,    \* where each daily thread is
          first,    \* where each initial check is
          mutex,    \* dailyMutex_: the daily thread that holds it, 0 when free
          pc,       \* where each caller is
          joins,    \* the thread each caller waits for in join(), or is creating
          crashed,  \* std::terminate was called
          down,     \* main() has destroyed the services
    overlap   \* two PUTs were under way at a time

threads == <<starts, thread, daily, first>>
callers == <<pc, joins>>
vars == <<running, force, due, cfg, threads, mutex, callers, crashed, down, overlap>>

Free == 0
NoThread == 0

DailyPc == {"none", "top", "eval", "falling", "asleep", "woken", "late", "go",
            "check", "revalidate", "reconcile", "done"}
CallerPc == {"idle", "notify", "stopping", "notified", "join", "stopped",
             "configured", "starting", "ended"}

Live(g) == daily[g] \notin {"none", "done"}
Goto(g, l) == daily' = [daily EXCEPT ![g] = l]
CallerGoto(c, l) == pc' = [pc EXCEPT ![c] = l]
Up == ~crashed

NotifyAll == daily' = [g \in Gen |-> IF daily[g] = "asleep" THEN "woken" ELSE daily[g]]

\* main() has configured and started the scheduler.
Init ==
    /\ running = TRUE /\ force = FALSE /\ due = TRUE
    /\ cfg \in Config
    /\ starts = 1
    /\ thread = IF cfg.enabled THEN 1 ELSE NoThread
    /\ daily = [g \in Gen |-> IF g = 1 /\ cfg.enabled THEN "top" ELSE "none"]
    /\ first = [g \in Gen |-> IF g = 1 THEN "pause" ELSE "none"]
    /\ mutex = Free
    /\ pc = [c \in Caller |-> "idle"]
    /\ joins = [c \in Caller |-> NoThread]
    /\ crashed = FALSE /\ down = FALSE /\ overlap = FALSE

-----------------------------------------------------------------------------
(* The daily thread.                                                       *)

dailyRest == <<running, cfg, starts, thread, first, callers, crashed, down, overlap>>

\* while (running_), then the lock.
Top(g) ==
    /\ Up /\ daily[g] = "top"
    /\ \/ running /\ mutex = Free /\ mutex' = g /\ Goto(g, "eval")
       \/ ~running /\ Goto(g, "done") /\ UNCHANGED mutex
    /\ UNCHANGED <<force, due, dailyRest>>

\* The predicate of wait_for.
Eval(g) ==
    /\ Up /\ daily[g] = "eval"
    /\ Goto(g, IF ~running \/ force THEN "go" ELSE "falling")
    /\ UNCHANGED <<mutex, force, due, dailyRest>>

FallAsleep(g) ==
    /\ Up /\ daily[g] = "falling"
    /\ Goto(g, "asleep")
    /\ mutex' = Free
    /\ UNCHANGED <<force, due, dailyRest>>

\* The scheduled time is reached, or the condition variable wakes for nothing.
TimeReached(g) ==
    /\ Up /\ daily[g] = "asleep"
    /\ Goto(g, "late")
    /\ UNCHANGED <<mutex, force, due, dailyRest>>
WakeUp(g) ==
    /\ Up /\ daily[g] = "asleep"
    /\ Goto(g, "woken")
    /\ UNCHANGED <<mutex, force, due, dailyRest>>

\* wait_for returns whatever its predicate says once the time is reached.
Relock(g) ==
    /\ Up /\ mutex = Free
    /\ \/ daily[g] = "woken" /\ Goto(g, "eval")
       \/ daily[g] = "late" /\ Goto(g, "go")
    /\ mutex' = g
    /\ UNCHANGED <<force, due, dailyRest>>

\* Mutant of Go: a request does not count on a day that was synced already.
GoOnlyWhenDue(g) ==
    /\ Up /\ daily[g] = "go"
    /\ \/ ~running /\ Goto(g, "done") /\ mutex' = Free /\ UNCHANGED <<force, due>>
       \/ running /\ due
          /\ force' = FALSE /\ due' = FALSE /\ Goto(g, "check") /\ UNCHANGED mutex
       \/ running /\ ~due
          /\ Goto(g, "top") /\ mutex' = Free /\ UNCHANGED <<force, due>>
    /\ UNCHANGED dailyRest

Go(g) ==
    /\ Up /\ daily[g] = "go"
    /\ \/ ~running /\ Goto(g, "done") /\ mutex' = Free /\ UNCHANGED <<force, due>>
       \/ running /\ (force \/ due)
          /\ force' = FALSE /\ due' = FALSE /\ Goto(g, "check") /\ UNCHANGED mutex
       \/ running /\ ~force /\ ~due
          /\ Goto(g, "top") /\ mutex' = Free /\ UNCHANGED <<force, due>>
    /\ UNCHANGED dailyRest

\* The three tasks run with the mutex held; an exception ends them all.
TaskEnds(g, l) ==
    /\ Goto(g, l)
    /\ mutex' = IF l = "top" THEN Free ELSE mutex
Task(g) ==
    /\ Up
    /\ \/ daily[g] = "check"
          /\ TaskEnds(g, IF cfg.revalidate THEN "revalidate"
                         ELSE IF cfg.reconcile THEN "reconcile" ELSE "top")
       \/ daily[g] = "revalidate" /\ TaskEnds(g, IF cfg.reconcile THEN "reconcile" ELSE "top")
       \/ daily[g] = "reconcile" /\ TaskEnds(g, "top")
    /\ UNCHANGED <<force, due, dailyRest>>
TaskThrows(g) ==
    /\ Up /\ daily[g] \in {"check", "revalidate", "reconcile"}
    /\ TaskEnds(g, "top")
    /\ UNCHANGED <<force, due, dailyRest>>

-----------------------------------------------------------------------------
(* The detached check after startup.                                       *)

firstRest ==
    <<running, force, due, cfg, starts, thread, daily, mutex, callers, crashed, down, overlap>>

FirstCheck(g) ==
    /\ Up /\ first[g] = "pause"
    /\ first' = [first EXCEPT ![g] = IF running THEN "check" ELSE "done"]
    /\ UNCHANGED firstRest
FirstCheckEnds(g) ==
    /\ Up /\ first[g] = "check"
    /\ first' = [first EXCEPT ![g] = "done"]
    /\ UNCHANGED firstRest

Midnight ==
    /\ Up /\ ~due
    /\ due' = TRUE
    /\ UNCHANGED <<running, force, cfg, threads, mutex, callers, crashed, down, overlap>>

-----------------------------------------------------------------------------
(* stop(), configure() and start(), and the two requests.                  *)

callerRest == <<due, first, crashed, down, overlap>>

\* triggerDailySync: the flag is set with the mutex held.
Trigger(h) ==
    /\ Up /\ pc[h] = "idle" /\ mutex = Free /\ pc[Main] = "idle"
    /\ force' = TRUE
    /\ CallerGoto(h, "notify")
    /\ UNCHANGED <<running, cfg, starts, thread, daily, mutex, joins, callerRest>>
TriggerNotifies(h) ==
    /\ Up /\ pc[h] = "notify"
    /\ NotifyAll
    /\ CallerGoto(h, "idle")
    /\ UNCHANGED <<running, force, cfg, starts, thread, mutex, joins, callerRest>>

\* A PUT, or the end of main() once the server has served its requests.
Stop(c) ==
    /\ Up /\ pc[c] = "idle" /\ pc[Main] = "idle"
    /\ IF c = Main THEN \A h \in Handler : pc[h] = "idle" ELSE starts < MaxStarts
    /\ running' = FALSE
    /\ CallerGoto(c, "stopping")
    /\ overlap' = (overlap \/ \E d \in Caller : pc[d] \notin {"idle", "notify"})
    /\ UNCHANGED <<force, cfg, threads, due, mutex, joins, crashed, down>>

\* The mutex is not taken.
StopNotifies(c) ==
    /\ Up /\ pc[c] = "stopping"
    /\ NotifyAll
    /\ CallerGoto(c, "notified")
    /\ UNCHANGED <<running, force, cfg, starts, thread, mutex, joins, callerRest>>

\* Mutant of Joinable: the thread is not joined.
JoinableSkips(c) ==
    /\ Up /\ pc[c] = "notified"
    /\ CallerGoto(c, "stopped")
    /\ UNCHANGED <<running, force, cfg, starts, thread, daily, mutex, joins, callerRest>>

\* Mutant of Joinable: join() is called with the mutex held.
JoinableLocks(c) ==
    /\ Up /\ pc[c] = "notified"
    /\ IF thread = NoThread THEN CallerGoto(c, "stopped") /\ UNCHANGED <<joins, mutex>>
       ELSE /\ mutex = Free /\ mutex' = MaxStarts + 1
            /\ CallerGoto(c, "join") /\ joins' = [joins EXCEPT ![c] = thread]
    /\ UNCHANGED <<running, force, cfg, starts, thread, daily, callerRest>>

Joinable(c) ==
    /\ Up /\ pc[c] = "notified"
    /\ IF thread = NoThread THEN CallerGoto(c, "stopped") /\ UNCHANGED joins
       ELSE CallerGoto(c, "join") /\ joins' = [joins EXCEPT ![c] = thread]
    /\ UNCHANGED <<running, force, cfg, starts, thread, daily, mutex, callerRest>>

Joined(c) ==
    /\ Up /\ pc[c] = "join"
    /\ daily[joins[c]] = "done"
    /\ thread' = NoThread
    /\ joins' = [joins EXCEPT ![c] = NoThread]
    /\ CallerGoto(c, "stopped")
    /\ UNCHANGED <<running, force, cfg, starts, daily, mutex, callerRest>>

\* Two callers join the same thread: the later one may get an exception
\* instead, and the handler answers with an error.
JoinThrows(c) ==
    /\ Up /\ pc[c] = "join"
    /\ \/ thread # joins[c]
       \/ \E d \in Caller \ {c} : pc[d] = "join" /\ joins[d] = joins[c]
    /\ joins' = [joins EXCEPT ![c] = NoThread]
    /\ CallerGoto(c, "idle")
    /\ UNCHANGED <<running, force, cfg, starts, thread, daily, mutex, callerRest>>

Configure(h) ==
    /\ Up /\ pc[h] = "stopped" /\ h # Main
    /\ cfg' \in Config
    /\ CallerGoto(h, "configured")
    /\ UNCHANGED <<running, force, starts, thread, daily, mutex, joins, callerRest>>

\* start(): the flag and the detached thread ...
Start(h) ==
    /\ Up /\ pc[h] = "configured" /\ starts < MaxStarts
    /\ running' = TRUE
    /\ starts' = starts + 1
    /\ first' = [first EXCEPT ![starts + 1] = "pause"]
    /\ joins' = [joins EXCEPT ![h] = starts + 1]
    /\ CallerGoto(h, "starting")
    /\ UNCHANGED <<force, due, cfg, thread, daily, mutex, crashed, down, overlap>>

\* ... and the daily thread: assigning to a joinable std::thread is the end of
\* the program.
StartDaily(h) ==
    /\ Up /\ pc[h] = "starting"
    /\ IF cfg.enabled
       THEN /\ thread' = joins[h]
            /\ crashed' = (thread # NoThread)
            /\ Goto(joins[h], "top")
       ELSE UNCHANGED <<thread, crashed, daily>>
    /\ joins' = [joins EXCEPT ![h] = NoThread]
    /\ CallerGoto(h, "idle")
    /\ UNCHANGED <<running, force, due, cfg, starts, first, mutex, down, overlap>>

\* main() goes on to destroy the services.
Teardown ==
    /\ Up /\ pc[Main] = "stopped"
    /\ down' = TRUE
    /\ CallerGoto(Main, "ended")
    /\ UNCHANGED <<running, force, due, cfg, threads, mutex, joins, crashed, overlap>>

-----------------------------------------------------------------------------
DailyStep(g) ==
    \/ Top(g) \/ Eval(g) \/ FallAsleep(g) \/ Relock(g) \/ Go(g) \/ Task(g)
FirstStep(g) == FirstCheck(g) \/ FirstCheckEnds(g)
CallerStep(c) ==
    \/ TriggerNotifies(c) \/ StopNotifies(c) \/ Joinable(c) \/ Joined(c)
    \/ Configure(c) \/ Start(c) \/ StartDaily(c)

Next ==
    \/ \E g \in Gen :
         \/ DailyStep(g) \/ TimeReached(g) \/ WakeUp(g) \/ TaskThrows(g) \/ FirstStep(g)
    \/ \E c \in Caller : Stop(c) \/ CallerStep(c) \/ JoinThrows(c)
    \/ \E h \in Handler : Trigger(h)
    \/ Midnight
    \/ Teardown

Spec == Init /\ [][Next]_vars

\* Threads run, tasks end, time passes; no request need ever arrive.
FairSpec ==
    /\ Spec
    /\ \A g \in Gen : WF_vars(DailyStep(g)) /\ WF_vars(TimeReached(g)) /\ WF_vars(FirstStep(g))
    /\ \A c \in Caller : WF_vars(CallerStep(c))
    /\ WF_vars(Teardown)

-----------------------------------------------------------------------------
(* Properties.                                                             *)

TypeOK ==
    /\ running \in BOOLEAN /\ force \in BOOLEAN /\ due \in BOOLEAN
    /\ cfg \in Config
    /\ starts \in Gen
    /\ thread \in Gen \cup {NoThread}
    /\ daily \in [Gen -> DailyPc]
    /\ first \in [Gen -> {"none", "pause", "check", "done"}]
    /\ mutex \in Gen \cup {Free}
    /\ pc \in [Caller -> CallerPc]
    /\ joins \in [Caller -> Gen \cup {NoThread}]
    /\ crashed \in BOOLEAN /\ down \in BOOLEAN /\ overlap \in BOOLEAN

\* "Restart scheduler with new settings" (sync_handler.cpp): a restart never
\* ends the program by assigning to a thread that was not joined.
RestartIsSafe == ~crashed

\* PUTs that come one after the other, with triggers, wake-ups, tasks and the end
\* of main() among them, never do so: stop() always joins the thread first.
SerialRestartIsSafe == ~overlap => ~crashed

\* While PUTs come one after the other there is at most one daily thread, however
\* restarts, triggers and timeouts interleave, so daily tasks never run twice at
\* a time.
OneDaily == ~overlap => \A g1, g2 \in Gen : Live(g1) /\ Live(g2) => g1 = g2

\* The configuration changes only while no daily thread is there to read it,
\* again while PUTs come one after the other.
ConfigSettled == [][~overlap /\ cfg' # cfg => \A g \in Gen : ~Live(g)]_vars

\* A thread that holds dailyMutex_ is alive, and threads past the wait hold it.
MutexHeld ==
    /\ mutex # Free => Live(mutex)
    /\ \A g \in Gen :
         daily[g] \in {"eval", "falling", "go", "check", "revalidate", "reconcile"} => mutex = g

\* stop() returns, though the daily thread may be asleep, about to fall asleep
\* or in the middle of its tasks.  (When another PUT starts the scheduler again
\* meanwhile, the daily thread never sees running_ false, and join() waits on.)
InStop(c) == pc[c] \in {"stopping", "notified", "join"}
StopReturns == \A c \in Caller : InStop(c) ~> ~InStop(c) \/ overlap

\* A run that was asked for takes place, also when a restart or the running
\* tasks come between, as long as the daily sync is enabled (and PUTs come one
\* after the other).
TriggerServed == force ~> (~force \/ ~cfg.enabled \/ pc[Main] # "idle" \/ overlap)

\* "Manual trigger via API" (sync_scheduler.h), "Daily sync triggered"
\* (sync_handler.cpp): a run that was asked for takes place.
TriggerRuns == force ~> (~force \/ pc[Main] # "idle")

\* "Stop the scheduler and join threads" (sync_scheduler.h): when main() has
\* stopped the scheduler and destroys the services, no check uses them.
StopJoinsThreads == down => \A g \in Gen : first[g] # "check" /\ ~Live(g)

\* stop() wakes the daily thread it then waits for: it does not sleep on to the
\* next scheduled time.
StopWakesDaily ==
    \A c \in Caller : pc[c] = "join" /\ ~running => daily[joins[c]] # "asleep"
=============================================================================
