------------------------------ MODULE Progress ------------------------------
(***************************************************************************)
(* The progress of uploads in pkd-management (progress_manager.cpp): the   *)
(* thread that processes an upload reports numbered events, the last one   *)
(* is cached, and one callback for each upload passes events on to the     *)
(* stream of a client (GET /api/progress/stream/{id}).                     *)
(*                                                                         *)
(* The two maps are read and written under one mutex; streams are written  *)
(* to outside it, so that each write is a step of its own. The processing  *)
(* of a master list started by a retry or a trigger is Loose: it ends      *)
(* without clearing its progress.                                          *)
(***************************************************************************)
EXTENDS Naturals, Functions

CONSTANTS
    Job,           \* uploads that are being processed, each by one thread
    Loose,         \* those whose thread does not call clearProgress
    Stream,        \* connections of clients
    NoStream,
    LastEvent,     \* bound: the events one thread reports
    StaleAge,      \* the age in ticks beyond which an entry is stale (30 minutes)
    StaleInterval, \* calls of sendProgress between two clean-ups (100 in the code)
    LastHour       \* bound: the last tick

ASSUME ProgressAssumption ==
    /\ Loose \subseteq Job
    /\ NoStream \notin Stream
    /\ StaleInterval \in Nat \ {0} /\ StaleAge \in Nat

VARIABLES
    progressCache, \* progressCache_: the last event of each upload and when it was made
    sseCallbacks,  \* sseCallbacks_: the stream each callback writes to
    callCount,     \* sendProgressCallCount_
    wall,          \* system_clock, in ticks
    job,           \* the threads that process: events so far, callback copied
    stream         \* the connections: where their set-up is, and what came through them

progressVars == <<progressCache, sseCallbacks, callCount, wall, job, stream>>

ProgressInit ==
    /\ progressCache = <<>>
    /\ sseCallbacks = <<>>
    /\ callCount = 0
    /\ wall = 0
    /\ job = [j \in Job |-> [pc |-> "run", n |-> 0, copy |-> NoStream]]
    /\ stream = [s \in Stream |-> [pc |-> "idle", of |-> CHOOSE j \in Job : TRUE, copy |-> 0,
                                   gone |-> FALSE, owed |-> 0, got |-> {}, shown |-> 0]]

-----------------------------------------------------------------------------
(* The threads that process                                                *)

Stale(cache) == {j \in DOMAIN cache : wall - cache[j].at > StaleAge}

\* map[x] = e, and the erasure of S.
Entered(f, x, e) == [y \in DOMAIN f \cup {x} |-> IF y = x THEN e ELSE f[y]]
Without(f, S) == Restrict(f, DOMAIN f \ S)

CallbackOf(j, callbacks) == IF j \in DOMAIN callbacks THEN callbacks[j] ELSE NoStream

\* Mutant of sendProgress: a callback once copied is used for all later events.
sendProgressRemembered(j) ==
    /\ job[j].pc = "run" /\ job[j].n < LastEvent
    /\ LET cache == Entered(progressCache, j, [n |-> job[j].n + 1, at |-> wall])
           due   == callCount + 1 >= StaleInterval
           dead  == IF due THEN Stale(cache) ELSE {}
       IN  /\ progressCache' = Without(cache, dead)
           /\ sseCallbacks' = Without(sseCallbacks, dead)
           /\ callCount' = IF due THEN 0 ELSE callCount + 1
    /\ LET copy == IF job[j].copy # NoStream THEN job[j].copy ELSE CallbackOf(j, sseCallbacks')
       IN  job' = [job EXCEPT ![j] = [pc |-> IF copy = NoStream THEN "run" ELSE "call",
                                      n |-> @.n + 1, copy |-> copy]]
    /\ UNCHANGED <<wall, stream>>

sendProgress(j) ==
    /\ job[j].pc = "run" /\ job[j].n < LastEvent
    /\ LET cache == Entered(progressCache, j, [n |-> job[j].n + 1, at |-> wall])
           due   == callCount + 1 >= StaleInterval
           dead  == IF due THEN Stale(cache) ELSE {}
       IN  /\ progressCache' = Without(cache, dead)
           /\ sseCallbacks' = Without(sseCallbacks, dead)
           /\ callCount' = IF due THEN 0 ELSE callCount + 1
    /\ LET copy == CallbackOf(j, sseCallbacks')
       IN  job' = [job EXCEPT ![j] = [pc |-> IF copy = NoStream THEN "run" ELSE "call",
                                      n |-> @.n + 1, copy |-> copy]]
    /\ UNCHANGED <<wall, stream>>

\* What stream->send does for a client that is still there.
Receive(s, n) == stream' = [stream EXCEPT ![s].got = @ \cup {n}, ![s].shown = n]

Deliver(j) ==
    /\ job[j].pc = "call" /\ ~stream[job[j].copy].gone
    /\ Receive(job[j].copy, job[j].n)
    /\ job' = [job EXCEPT ![j].pc = "run"]
    /\ UNCHANGED <<progressCache, sseCallbacks, callCount, wall>>

\* The client is gone. A send that throws removes the callback of the upload,
\* whoever registered it last; one that returns false is not noticed.
DeliverFails(j) ==
    /\ job[j].pc = "call" /\ stream[job[j].copy].gone
    /\ sseCallbacks' \in {sseCallbacks, Without(sseCallbacks, {j})}
    /\ job' = [job EXCEPT ![j].pc = "run"]
    /\ UNCHANGED <<progressCache, callCount, wall, stream>>

\* The processing ends after any event, with a verdict or an exception.
JobEnds(j) ==
    /\ job[j].pc = "run"
    /\ job' = [job EXCEPT ![j].pc = "done"]
    /\ IF j \in Loose
       THEN UNCHANGED <<progressCache, sseCallbacks>>
       ELSE /\ progressCache' = Without(progressCache, {j})
            /\ sseCallbacks' = Without(sseCallbacks, {j})
    /\ UNCHANGED <<callCount, wall, stream>>

-----------------------------------------------------------------------------
(* The connections: register, send what was cached then, look once more,   *)
(* send what is cached now                                                 *)

Cached(j) == IF j \in DOMAIN progressCache THEN progressCache[j].n ELSE 0

registerSseCallback(s, j) ==
    /\ stream[s].pc = "idle"
    /\ sseCallbacks' = Entered(sseCallbacks, j, s)
    /\ stream' = [stream EXCEPT ![s] = [stream[s] EXCEPT !.of = j, !.copy = Cached(j),
                     !.pc = IF Cached(j) = 0 THEN "look" ELSE "cached",
                     !.owed = IF Cached(j) = 0 THEN job[j].n + 1 ELSE Cached(j)]]
    /\ UNCHANGED <<progressCache, callCount, wall, job>>

SendCached(s) ==
    /\ stream[s].pc \in {"cached", "again"}
    /\ LET next == IF stream[s].pc = "cached" THEN "look" ELSE "open"
       IN  stream' = [stream EXCEPT ![s] =
               IF stream[s].gone THEN [stream[s] EXCEPT !.pc = next]
               ELSE [stream[s] EXCEPT !.pc = next, !.shown = stream[s].copy,
                                      !.got = stream[s].got \cup {stream[s].copy}]]
    /\ UNCHANGED <<progressCache, sseCallbacks, callCount, wall, job>>

getProgress(s) ==
    /\ stream[s].pc = "look"
    /\ stream' = [stream EXCEPT ![s].copy = Cached(stream[s].of),
                                ![s].pc = IF Cached(stream[s].of) = 0 THEN "open" ELSE "again"]
    /\ UNCHANGED <<progressCache, sseCallbacks, callCount, wall, job>>

Leave(s) ==
    /\ stream[s].pc # "idle" /\ ~stream[s].gone
    /\ stream' = [stream EXCEPT ![s].gone = TRUE]
    /\ UNCHANGED <<progressCache, sseCallbacks, callCount, wall, job>>

WallTick ==
    /\ wall < LastHour
    /\ wall' = wall + 1
    /\ UNCHANGED <<progressCache, sseCallbacks, callCount, job, stream>>

ProgressNext ==
    \/ \E j \in Job : sendProgress(j) \/ Deliver(j) \/ DeliverFails(j) \/ JobEnds(j)
    \/ \E s \in Stream : SendCached(s) \/ getProgress(s) \/ Leave(s)
    \/ \E s \in Stream, j \in Job : registerSseCallback(s, j)
    \/ WallTick

ProgressSpec == ProgressInit /\ [][ProgressNext]_progressVars

-----------------------------------------------------------------------------

Registered(s) == CallbackOf(stream[s].of, sseCallbacks) = s

(* A client whose callback is registered has, whenever no call to it is     *)
(* under way, got what was cached when it registered and every event since: *)
(* the register and the look at the cache leave no gap                      *)
(* (progress_manager.cpp:540-611).                                          *)
NothingMissed ==
    \A s \in Stream :
        /\ stream[s].pc = "open" /\ ~stream[s].gone
        /\ Registered(s)
        /\ job[stream[s].of].pc # "call"
        => stream[s].owed .. job[stream[s].of].n \subseteq stream[s].got

(* An upload that cleared its progress is not remembered by the cache, and   *)
(* a callback of it belongs to a client that came after the end, for which   *)
(* no event is left (:422 of upload_handler.cpp and progress_manager.cpp:627) *)
EndedIsForgotten ==
    \A j \in Job \ Loose : job[j].pc = "done" =>
        /\ j \notin DOMAIN progressCache
        /\ j \in DOMAIN sseCallbacks => stream[sseCallbacks[j]].owed > job[j].n

(* The comment of registerSseCallback: a callback "that will be called        *)
(* whenever progress is updated" (progress_manager.h:450). TLC refutes it:   *)
(* there is one callback for each upload, so that a                          *)
(* second client replaces the first.                                          *)
RegisteredIsCalled ==
    \A s \in Stream :
        /\ stream[s].pc = "open" /\ ~stream[s].gone
        /\ job[stream[s].of].pc = "run"
        => stream[s].owed .. job[stream[s].of].n \subseteq stream[s].got

(* What a client shows last is the newest event it got. TLC refutes it:      *)
(* what was cached at the register is sent outside the                       *)
(* mutex and may come after an event that is newer.                           *)
LastIsNewest ==
    \A s \in Stream : stream[s].pc = "open" => \A n \in stream[s].got : n <= stream[s].shown

(* The purpose of the periodic clean-up, "DoS defense: prevent unbounded      *)
(* growth" (upload_handler.cpp:421): a callback is kept no longer than its    *)
(* upload. TLC refutes it: the clean-up goes through the                     *)
(* cache, and a client that connects after the end has no entry there.        *)
CallbackHasEntry ==
    \A j \in DOMAIN sseCallbacks : job[j].pc = "done" => j \in DOMAIN progressCache
=============================================================================
