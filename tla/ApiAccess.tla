----------------------------- MODULE ApiAccess -----------------------------
(***************************************************************************)
(* API clients and their keys: the requests that present a key             *)
(* (auth_middleware.cpp), the administrators who create, change, deactivate *)
(* a client or replace its key (api_client_handler.cpp), and the table both *)
(* work on (api_client_repository.cpp).                                     *)
(*                                                                         *)
(* A statement of the database is one step, so that handlers that read a   *)
(* row and write it back later meet other handlers in between. Statements  *)
(* fail (...Fails), which the repository swallows. Left to chance is what  *)
(* depends on data this module leaves out: whether an address, an endpoint *)
(* or the expiry turns a request away, and what the limiter answers (see   *)
(* RateLimiter).                                                           *)
(***************************************************************************)
EXTENDS Naturals, FiniteSets

CONSTANTS
    ApiClient, \* rows of api_clients
    Key,       \* API keys; a key and its hash are not told apart
    Caller,    \* threads with a request that presents a key
    Keeper,    \* threads with a request of an administrator
    MaxCalls,  \* bound: requests admitted for one client
    MaxLost    \* bound: statements about usage that fail, for one client

ASSUME KeyAssumption == Key \subseteq Nat \ {0}

VARIABLES
    apiRow,   \* api_clients: the row of each client, or NoRow
    call,     \* where each caller is, and on whose behalf
    edit,     \* the request of each administrator and the row it read
    used,     \* keys generated so far
    replaced, \* for the properties: keys another key took the place of
    told,     \* for the properties: the key last shown for each client
    off,      \* for the properties: clients deactivated and not meant to be active since
    tally     \* for the properties: requests admitted, and counts of them that were lost

apiVars == <<apiRow, call, edit, used, replaced, told, off, tally>>

NoRow == [key |-> 0]
NoCall == [at |-> "idle"]
NoEdit == [op |-> "none"]

ApiInit ==
    /\ apiRow = [c \in ApiClient |-> NoRow]
    /\ call = [r \in Caller |-> NoCall]
    /\ edit = [a \in Keeper |-> NoEdit]
    /\ used = {}
    /\ replaced = {}
    /\ told = [c \in ApiClient |-> 0]
    /\ off = {}
    /\ tally = [c \in ApiClient |-> [admitted |-> 0, lostUses |-> 0, lostLogs |-> 0]]

-----------------------------------------------------------------------------
\* Requests that present a key.

findByKeyHash(k) == {c \in ApiClient : apiRow[c] # NoRow /\ apiRow[c].key = k}

Admitted(c) == [tally EXCEPT ![c].admitted = @ + 1]

\* A request with key k passes validateApiKey. A public endpoint goes straight to the
\* usage, the others (and the check for nginx) by way of the limiter.
Validate(r, k, public) ==
    /\ call[r] = NoCall
    /\ \E c \in findByKeyHash(k) :
        /\ apiRow[c].active
        /\ tally[c].admitted < MaxCalls
        /\ call' = [call EXCEPT ![r] = [at |-> IF public THEN "usage" ELSE "limit", client |-> c]]
        /\ tally' = IF public THEN Admitted(c) ELSE tally
    /\ UNCHANGED <<apiRow, edit, used, replaced, told, off>>

PassLimit(r) ==
    /\ call[r].at = "limit"
    /\ tally[call[r].client].admitted < MaxCalls
    /\ call' = [call EXCEPT ![r].at = "usage"]
    /\ tally' = Admitted(call[r].client)
    /\ UNCHANGED <<apiRow, edit, used, replaced, told, off>>

TurnAway(r) ==
    /\ call[r].at = "limit"
    /\ call' = [call EXCEPT ![r] = NoCall]
    /\ UNCHANGED <<apiRow, edit, used, replaced, told, off, tally>>

\* total_requests = total_requests + 1, in one statement; or the statement fails and
\* the request goes on.
updateUsage(r) ==
    /\ call[r].at = "usage"
    /\ \/ /\ apiRow' = [apiRow EXCEPT ![call[r].client].total = @ + 1]
          /\ UNCHANGED tally
       \/ /\ tally[call[r].client].lostUses < MaxLost
          /\ tally' = [tally EXCEPT ![call[r].client].lostUses = @ + 1]
          /\ UNCHANGED apiRow
    /\ call' = [call EXCEPT ![r].at = "log"]
    /\ UNCHANGED <<edit, used, replaced, told, off>>

\* The row of api_client_usage_log, counted in `logged`.
insertUsageLog(r) ==
    /\ call[r].at = "log"
    /\ \/ /\ apiRow' = [apiRow EXCEPT ![call[r].client].logged = @ + 1]
          /\ UNCHANGED tally
       \/ /\ tally[call[r].client].lostLogs < MaxLost
          /\ tally' = [tally EXCEPT ![call[r].client].lostLogs = @ + 1]
          /\ UNCHANGED apiRow
    /\ call' = [call EXCEPT ![r] = NoCall]
    /\ UNCHANGED <<edit, used, replaced, told, off>>

-----------------------------------------------------------------------------
\* Requests of administrators.

\* generateApiKey: a key nobody has had. Keys are numbered as they are generated.
Fresh == {k \in Key : used = 1 .. k - 1}

findById(c) == apiRow[c] # NoRow

\* A new row: active, and not used yet.
insert(k) == [key |-> k, active |-> TRUE, total |-> 0, logged |-> 0]

\* POST: the new row is active and its key is shown in the response.
handleCreate(c, k) ==
    /\ apiRow[c] = NoRow
    /\ k \in Fresh
    /\ apiRow' = [apiRow EXCEPT ![c] = insert(k)]
    /\ used' = used \cup {k}
    /\ told' = [told EXCEPT ![c] = k]
    /\ UNCHANGED <<call, edit, replaced, off, tally>>

\* PUT: findById, and the fields of the body into the copy. `activity` is the set of
\* values the body gives to is_active: none or one.
StartUpdate(a, c, activity) ==
    /\ edit[a] = NoEdit
    /\ findById(c)
    /\ edit' = [edit EXCEPT ![a] =
          [op |-> "update", client |-> c, meant |-> activity,
           copy |-> [apiRow[c] EXCEPT !.active = IF activity = {} THEN @ ELSE TRUE \in activity]]]
    /\ UNCHANGED <<apiRow, call, used, replaced, told, off, tally>>

EndEdit(a) == edit' = [edit EXCEPT ![a] = NoEdit]

\* Mutant of update: every column is written, the key and the counters too.
updateWholeRow(a) ==
    /\ edit[a].op = "update"
    /\ LET c == edit[a].client
       IN  /\ apiRow' = [apiRow EXCEPT ![c] = edit[a].copy]
           /\ off' = IF TRUE \in edit[a].meant THEN off \ {c} ELSE off
    /\ EndEdit(a)
    /\ UNCHANGED <<call, used, replaced, told, tally>>

\* UPDATE api_clients: is_active as the copy has it, given in the body or not. The key
\* and the counters are not among the columns.
update(a) ==
    /\ edit[a].op = "update"
    /\ LET c == edit[a].client
       IN  /\ apiRow' = [apiRow EXCEPT ![c].active = edit[a].copy.active]
           /\ off' = IF TRUE \in edit[a].meant THEN off \ {c} ELSE off
    /\ EndEdit(a)
    /\ UNCHANGED <<call, used, replaced, told, tally>>

updateFails(a) ==
    /\ edit[a].op = "update"
    /\ EndEdit(a)
    /\ UNCHANGED <<apiRow, call, used, replaced, told, off, tally>>

deactivate(c) == apiRow' = [apiRow EXCEPT ![c].active = FALSE]

\* DELETE only deactivates.
handleDelete(c) ==
    /\ apiRow[c] # NoRow
    /\ deactivate(c)
    /\ off' = off \cup {c}
    /\ UNCHANGED <<call, edit, used, replaced, told, tally>>

\* POST .../regenerate: findById, and a new key.
StartRegenerate(a, c, k) ==
    /\ edit[a] = NoEdit
    /\ findById(c)
    /\ k \in Fresh
    /\ edit' = [edit EXCEPT ![a] = [op |-> "regenerate", client |-> c, key |-> k]]
    /\ used' = used \cup {k}
    /\ UNCHANGED <<apiRow, call, replaced, told, off, tally>>

\* The new key is shown, and reported a success, whether or not it was stored.
Show(a) == told' = [told EXCEPT ![edit[a].client] = edit[a].key]

updateKeyHash(a) ==
    /\ edit[a].op = "regenerate"
    /\ apiRow' = [apiRow EXCEPT ![edit[a].client].key = edit[a].key]
    /\ replaced' = replaced \cup {apiRow[edit[a].client].key}
    /\ Show(a)
    /\ EndEdit(a)
    /\ UNCHANGED <<call, used, off, tally>>

updateKeyHashFails(a) ==
    /\ edit[a].op = "regenerate"
    /\ Show(a)
    /\ EndEdit(a)
    /\ UNCHANGED <<apiRow, call, used, replaced, off, tally>>

-----------------------------------------------------------------------------

Request(r) ==
    \/ \E k \in Key, public \in BOOLEAN : Validate(r, k, public)
    \/ PassLimit(r)
    \/ TurnAway(r)
    \/ updateUsage(r)
    \/ insertUsageLog(r)

Administer(a) ==
    \/ \E c \in ApiClient, activity \in {{}, {TRUE}, {FALSE}} : StartUpdate(a, c, activity)
    \/ update(a)
    \/ updateFails(a)
    \/ \E c \in ApiClient, k \in Key : StartRegenerate(a, c, k)
    \/ updateKeyHash(a)
    \/ updateKeyHashFails(a)

ApiNext ==
    \/ \E r \in Caller : Request(r)
    \/ \E a \in Keeper : Administer(a)
    \/ \E c \in ApiClient, k \in Key : handleCreate(c, k)
    \/ \E c \in ApiClient : handleDelete(c)

ApiSpec == ApiInit /\ [][ApiNext]_apiVars

-----------------------------------------------------------------------------

ApiRow == [key : Key, active : BOOLEAN, total : 0 .. MaxCalls, logged : 0 .. MaxCalls]

\* A row is as its columns are declared, and whoever works on a client works on a row.
ApiTypeOK ==
    /\ \A c \in ApiClient : apiRow[c] = NoRow \/ apiRow[c] \in ApiRow
    /\ \A r \in Caller : call[r] # NoCall =>
        call[r].at \in {"limit", "usage", "log"} /\ apiRow[call[r].client] \in ApiRow
    /\ \A a \in Keeper : edit[a] # NoEdit =>
        edit[a].op \in {"update", "regenerate"} /\ apiRow[edit[a].client] \in ApiRow
    /\ replaced \subseteq used /\ used \subseteq Key

(* A key that was replaced opens nothing any more, whatever administrators do  *)
(* at once: an update that read the row before the key was replaced does not   *)
(* write the old key back (api_client_repository.cpp:301).                     *)
KeyNeverReturns == \A k \in replaced : findByKeyHash(k) = {}

InFlight(c, places) == Cardinality({r \in Caller : call[r] # NoCall /\ call[r].client = c /\ call[r].at \in places})

(* Every admitted request is counted in total_requests and in the usage log,   *)
(* is about to be, or is one whose statement failed: concurrent requests and   *)
(* updates of the row lose none (auth_middleware.cpp:242,                      *)
(* api_client_repository.cpp:390).                                             *)
UsageAddsUp ==
    \A c \in ApiClient : apiRow[c] # NoRow =>
        /\ apiRow[c].total + tally[c].lostUses + InFlight(c, {"usage"}) = tally[c].admitted
        /\ apiRow[c].logged + tally[c].lostLogs + InFlight(c, {"usage", "log"}) = tally[c].admitted

(* "DELETE /api/auth/api-clients/{id} - Deactivate" (api_client_handler.cpp:77): *)
(* a client that was deactivated is inactive until somebody asks for it to be   *)
(* active. TLC refutes it: an update of some other field                     *)
(* that read the row before writes is_active back (:343, repository :306).      *)
DeactivationSticks == \A c \in off : ~apiRow[c].active

(* "New API Key is only shown in this response. Store it securely."             *)
(* (api_client_handler.cpp:474): while nobody replaces the key, the one shown   *)
(* last is the one stored. TLC refutes it: the result of                     *)
(* updateKeyHash is not looked at (:469).                                       *)
ShownKeyWorks ==
    \A c \in ApiClient : (\A a \in Keeper : edit[a] = NoEdit) /\ apiRow[c] # NoRow => apiRow[c].key = told[c]
=============================================================================
