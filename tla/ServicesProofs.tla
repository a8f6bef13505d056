--------------------------- MODULE ServicesProofs ---------------------------
(***************************************************************************)
(* The limiter of requests, API clients, accounts, passive authentication, *)
(* progress events, the watch over the versions, the certificates of lists *)
(* and the files of single certificates, for any number of clients, keys,  *)
(* users, documents, streams, checks, uploads, files and certificates.     *)
(***************************************************************************)
EXTENDS RateLimiter, ApiAccess, Accounts, PaVerification, Progress, IcaoVersions, CertImport,
        CertificateFiles, FiniteSetTheorems, WellFoundedInduction, TLAPS

-----------------------------------------------------------------------------
(* ApiAccess: a key belongs to one row, to one request that is about to     *)
(* store it, or to nobody for good.                                         *)

Rows == [key : Key, active : BOOLEAN, total : Nat, logged : Nat]
Calls == [at : {"limit", "usage", "log"}, client : ApiClient]
Updates == [op : {"update"}, client : ApiClient, meant : SUBSET BOOLEAN, copy : Rows]
Regenerations == [op : {"regenerate"}, client : ApiClient, key : Key]

HasApiRow(c) == apiRow[c] \in Rows

ApiShape ==
    /\ apiRow \in [ApiClient -> Rows \cup {NoRow}]
    /\ call \in [Caller -> Calls \cup {NoCall}]
    /\ edit \in [Keeper -> Updates \cup Regenerations \cup {NoEdit}]
    /\ \A r \in Caller : call[r] \in Calls => HasApiRow(call[r].client)
    /\ \A a \in Keeper : edit[a] # NoEdit => HasApiRow(edit[a].client)

KeysOK ==
    /\ replaced \subseteq used
    /\ \A c \in ApiClient : HasApiRow(c) => apiRow[c].key \in used \ replaced
    /\ \A c, d \in ApiClient : HasApiRow(c) /\ HasApiRow(d) /\ apiRow[c].key = apiRow[d].key => c = d
    /\ \A a \in Keeper : edit[a] \in Regenerations =>
           /\ edit[a].key \in used \ replaced
           /\ \A c \in ApiClient : HasApiRow(c) => apiRow[c].key # edit[a].key
           /\ \A b \in Keeper : edit[b] \in Regenerations /\ edit[b].key = edit[a].key => a = b

ApiInv == ApiShape /\ KeysOK

\* The records that stand for nothing are not taken for something.
LEMMA ApiShapes ==
    /\ NoRow \notin Rows /\ NoCall \notin Calls
    /\ NoEdit \notin Updates /\ NoEdit \notin Regenerations
    /\ Updates \cap Regenerations = {}
<1>1. NoRow \notin Rows
    BY KeyAssumption DEF NoRow, Rows
<1> QED
    BY <1>1 DEF NoCall, Calls, NoEdit, Updates, Regenerations

\* What a step does that leaves the keys alone.
LEMMA KeysKept ==
    ASSUME ApiInv, ApiShape', UNCHANGED <<used, replaced>>,
           \A c \in ApiClient : /\ HasApiRow(c)' <=> HasApiRow(c)
                                /\ HasApiRow(c) => apiRow'[c].key = apiRow[c].key,
           \A a \in Keeper : edit'[a] \in Regenerations => edit'[a] = edit[a]
    PROVE  ApiInv'
BY DEF ApiInv, KeysOK

\* A counter or the flag of a row is written.
LEMMA RowWritten ==
    ASSUME ApiInv, NEW c \in ApiClient, HasApiRow(c),
           \/ apiRow' = [apiRow EXCEPT ![c].total = @ + 1]
           \/ apiRow' = [apiRow EXCEPT ![c].logged = @ + 1]
           \/ \E b \in BOOLEAN : apiRow' = [apiRow EXCEPT ![c].active = b]
    PROVE  /\ apiRow' \in [ApiClient -> Rows \cup {NoRow}]
           /\ \A d \in ApiClient : /\ HasApiRow(d)' <=> HasApiRow(d)
                                   /\ HasApiRow(d) => apiRow'[d].key = apiRow[d].key
<1>1. /\ apiRow'[c] \in Rows /\ apiRow'[c].key = apiRow[c].key
      /\ \A d \in ApiClient : d # c => apiRow'[d] = apiRow[d]
      /\ apiRow' = [apiRow EXCEPT ![c] = apiRow'[c]]
    BY DEF ApiInv, ApiShape, HasApiRow, Rows
<1> QED
    BY <1>1 DEF ApiInv, ApiShape, HasApiRow

LEMMA CallerSteps ==
    ASSUME ApiInv, NEW r \in Caller,
           \/ \E k \in Key, public \in BOOLEAN : Validate(r, k, public)
           \/ PassLimit(r) \/ TurnAway(r) \/ updateUsage(r) \/ insertUsageLog(r)
    PROVE  ApiInv'
<1> USE DEF ApiInv
<1>1. UNCHANGED <<edit, used, replaced>>
    BY DEF Validate, PassLimit, TurnAway, updateUsage, insertUsageLog
<1>2. CASE \E k \in Key, public \in BOOLEAN : Validate(r, k, public)
    <2>1. PICK c \in ApiClient, l \in {"usage", "limit"} :
              /\ HasApiRow(c) /\ call' = [call EXCEPT ![r] = [at |-> l, client |-> c]]
              /\ UNCHANGED apiRow
        BY <1>2 DEF Validate, findByKeyHash, HasApiRow, ApiShape
    <2>2. ApiShape'
        BY <1>1, <2>1 DEF ApiShape, Calls, HasApiRow
    <2> QED
        BY <1>1, <2>1, <2>2, KeysKept DEF HasApiRow
<1>3. CASE PassLimit(r) \/ TurnAway(r)
    <2>1. UNCHANGED apiRow /\ \/ call' = [call EXCEPT ![r] = NoCall]
                              \/ call[r] \in Calls /\ call' = [call EXCEPT ![r].at = "usage"]
        BY <1>3 DEF PassLimit, TurnAway, ApiShape, NoCall
    <2>2. ApiShape'
        BY <1>1, <2>1, ApiShapes DEF ApiShape, Calls, HasApiRow
    <2> QED
        BY <1>1, <2>1, <2>2, KeysKept DEF HasApiRow
<1>4. CASE updateUsage(r) \/ insertUsageLog(r)
    <2>1. call[r] \in Calls /\ HasApiRow(call[r].client) /\ call[r].client \in ApiClient
        BY <1>4 DEF updateUsage, insertUsageLog, ApiShape, NoCall, Calls
    <2>2. call' = [call EXCEPT ![r] = NoCall] \/ call' = [call EXCEPT ![r].at = "log"]
        BY <1>4 DEF updateUsage, insertUsageLog
    <2>3. /\ apiRow' \in [ApiClient -> Rows \cup {NoRow}]
          /\ \A d \in ApiClient : /\ HasApiRow(d)' <=> HasApiRow(d)
                                  /\ HasApiRow(d) => apiRow'[d].key = apiRow[d].key
        <3>1. CASE UNCHANGED apiRow
            BY <3>1 DEF ApiShape, HasApiRow
        <3>2. CASE apiRow' # apiRow
            BY <3>2, <1>4, <2>1, RowWritten DEF updateUsage, insertUsageLog
        <3> QED
            BY <3>1, <3>2
    <2>4. ApiShape'
        BY <1>1, <2>1, <2>2, <2>3, ApiShapes DEF ApiShape, Calls, Updates, Regenerations
    <2> QED
        BY <1>1, <2>3, <2>4, KeysKept
<1> QED
    BY <1>2, <1>3, <1>4

LEMMA KeeperSteps ==
    ASSUME ApiInv, NEW a \in Keeper, Administer(a)
    PROVE  ApiInv'
<1> USE DEF ApiInv
<1>1. CASE \E c \in ApiClient, activity \in {{}, {TRUE}, {FALSE}} : StartUpdate(a, c, activity)
    <2>1. PICK c \in ApiClient, activity \in {{}, {TRUE}, {FALSE}} : StartUpdate(a, c, activity)
        BY <1>1
    <2>2. HasApiRow(c) /\ UNCHANGED <<apiRow, call, used, replaced>>
        BY <2>1 DEF StartUpdate, findById, ApiShape, HasApiRow
    <2> DEFINE flag == IF activity = {} THEN apiRow[c].active ELSE TRUE \in activity
               e == [op |-> "update", client |-> c, meant |-> activity,
                     copy |-> [apiRow[c] EXCEPT !.active = flag]]
    <2>3. edit' = [edit EXCEPT ![a] = e]
        BY <2>1 DEF StartUpdate
    <2>4. e \in Updates
        <3>1. flag \in BOOLEAN
            <4>1. apiRow[c].active \in BOOLEAN
                BY <2>2 DEF HasApiRow, Rows
            <4>2. (TRUE \in activity) \in BOOLEAN
                OBVIOUS
            <4> QED
                BY <4>1, <4>2, Zenon
        <3> HIDE DEF flag
        <3>2. [apiRow[c] EXCEPT !.active = flag] \in Rows
            BY <2>2, <3>1 DEF HasApiRow, Rows
        <3> QED
            BY <3>2 DEF Updates
    <2>5. e.client = c
        OBVIOUS
    <2> HIDE DEF e
    <2>6. ApiShape'
        BY <2>2, <2>3, <2>4, <2>5 DEF ApiShape, HasApiRow
    <2>7. \A b \in Keeper : edit'[b] \in Regenerations => edit'[b] = edit[b]
        BY <2>3, <2>4, ApiShapes DEF ApiShape
    <2> QED
        BY <2>2, <2>6, <2>7, KeysKept DEF HasApiRow
<1>2. CASE update(a) \/ updateFails(a) \/ updateKeyHashFails(a)
    <2>1. /\ UNCHANGED <<call, used, replaced>> /\ edit' = [edit EXCEPT ![a] = NoEdit]
          /\ edit[a].op # "none"
        BY <1>2 DEF update, updateFails, updateKeyHashFails, EndEdit
    <2>2. /\ apiRow' \in [ApiClient -> Rows \cup {NoRow}]
          /\ \A d \in ApiClient : /\ HasApiRow(d)' <=> HasApiRow(d)
                                  /\ HasApiRow(d) => apiRow'[d].key = apiRow[d].key
        <3>1. CASE update(a)
            <4>1. edit[a] \in Updates /\ HasApiRow(edit[a].client)
                BY <3>1, <2>1 DEF update, ApiShape, Regenerations, NoEdit
            <4>2. edit[a].client \in ApiClient /\ edit[a].copy.active \in BOOLEAN
                BY <4>1 DEF Updates, Rows
            <4> QED
                BY <3>1, <4>1, <4>2, RowWritten DEF update
        <3>2. CASE updateFails(a) \/ updateKeyHashFails(a)
            BY <3>2 DEF updateFails, updateKeyHashFails, ApiShape, HasApiRow
        <3> QED
            BY <1>2, <3>1, <3>2
    <2>3. ApiShape'
        BY <2>1, <2>2 DEF ApiShape, Calls, Updates, Regenerations
    <2>4. \A b \in Keeper : edit'[b] \in Regenerations => edit'[b] = edit[b]
        BY <2>1, ApiShapes DEF ApiShape
    <2> QED
        BY <2>1, <2>2, <2>3, <2>4, KeysKept
<1>3. CASE \E c \in ApiClient, k \in Key : StartRegenerate(a, c, k)
    <2>1. PICK c \in ApiClient, k \in Key : StartRegenerate(a, c, k)
        BY <1>3
    <2>2. HasApiRow(c) /\ UNCHANGED <<apiRow, call, replaced>> /\ used' = used \cup {k}
        BY <2>1 DEF StartRegenerate, findById, ApiShape, HasApiRow
    <2>3. k \notin used
        BY <2>1, KeyAssumption DEF StartRegenerate, Fresh
    <2>4. /\ edit' = [edit EXCEPT ![a] = edit'[a]] /\ edit'[a] \in Regenerations
          /\ edit'[a].client = c /\ edit'[a].key = k
        BY <2>1 DEF StartRegenerate, Regenerations, ApiShape
    <2>5. ApiShape'
        BY <2>2, <2>4 DEF ApiShape, HasApiRow
    <2>6. KeysOK'
        BY <2>2, <2>3, <2>4 DEF KeysOK, HasApiRow, ApiShape
    <2> QED
        BY <2>5, <2>6
<1>4. CASE updateKeyHash(a)
    <2>1. edit[a] \in Regenerations /\ HasApiRow(edit[a].client)
        BY <1>4 DEF updateKeyHash, ApiShape, Updates, NoEdit
    <2> DEFINE c == edit[a].client
               k == edit[a].key
    <2>2. c \in ApiClient /\ k \in Key
        BY <2>1 DEF Regenerations
    <2>3. /\ UNCHANGED <<call, used>> /\ edit' = [edit EXCEPT ![a] = NoEdit]
          /\ replaced' = replaced \cup {apiRow[c].key}
          /\ apiRow' = [apiRow EXCEPT ![c].key = k]
        BY <1>4 DEF updateKeyHash, EndEdit
    <2>4. PICK e \in Rows : e.key = k /\ apiRow' = [apiRow EXCEPT ![c] = e]
        BY <2>1, <2>2, <2>3 DEF HasApiRow, Rows, ApiShape
    <2> HIDE DEF c, k
    <2>5. ApiShape'
        BY <2>2, <2>3, <2>4 DEF ApiShape, HasApiRow, Calls, Updates, Regenerations
    <2>6. KeysOK'
        BY <2>1, <2>2, <2>3, <2>4, ApiShapes DEF KeysOK, HasApiRow, ApiShape, c, k
    <2> QED
        BY <2>5, <2>6
<1> QED
    BY <1>1, <1>2, <1>3, <1>4 DEF Administer

LEMMA ClientSteps ==
    ASSUME ApiInv, NEW c \in ApiClient, (\E k \in Key : handleCreate(c, k)) \/ handleDelete(c)
    PROVE  ApiInv'
<1> USE DEF ApiInv
<1>1. CASE \E k \in Key : handleCreate(c, k)
    <2>1. PICK k \in Key : handleCreate(c, k)
        BY <1>1
    <2>2. /\ UNCHANGED <<call, edit, replaced>> /\ used' = used \cup {k}
          /\ apiRow' = [apiRow EXCEPT ![c] = insert(k)] /\ apiRow[c] = NoRow
        BY <2>1 DEF handleCreate
    <2>3. k \notin used
        BY <2>1, KeyAssumption DEF handleCreate, Fresh
    <2>4. insert(k) \in Rows /\ insert(k).key = k
        BY DEF insert, Rows
    <2>5. ApiShape'
        BY <2>2, <2>4 DEF ApiShape, HasApiRow, Calls, Updates, Regenerations
    <2>6. KeysOK'
        BY <2>2, <2>3, <2>4 DEF KeysOK, HasApiRow, ApiShape
    <2> QED
        BY <2>5, <2>6
<1>2. CASE handleDelete(c)
    <2>1. /\ UNCHANGED <<call, edit, used, replaced>> /\ HasApiRow(c)
          /\ apiRow' = [apiRow EXCEPT ![c].active = FALSE]
        BY <1>2 DEF handleDelete, deactivate, HasApiRow, ApiShape
    <2>2. /\ apiRow' \in [ApiClient -> Rows \cup {NoRow}]
          /\ \A d \in ApiClient : /\ HasApiRow(d)' <=> HasApiRow(d)
                                  /\ HasApiRow(d) => apiRow'[d].key = apiRow[d].key
        BY <2>1, RowWritten
    <2>3. ApiShape'
        BY <2>1, <2>2 DEF ApiShape, Calls, Updates, Regenerations
    <2> QED
        BY <2>1, <2>2, <2>3, KeysKept
<1> QED
    BY <1>1, <1>2

\* No other key opens what a replaced one opened: KeyNeverReturns, for as many clients,
\* keys, requests and administrators at once as there are.
THEOREM KeysStayReplaced == ApiSpec => []KeyNeverReturns
<1>1. ApiInit => ApiInv
    BY ApiShapes DEF ApiInit, ApiInv, ApiShape, KeysOK, HasApiRow
<1>2. ApiInv /\ [ApiNext]_apiVars => ApiInv'
    <2> SUFFICES ASSUME ApiInv, [ApiNext]_apiVars PROVE ApiInv'
        OBVIOUS
    <2>1. CASE \E r \in Caller : Request(r)
        BY <2>1, CallerSteps DEF Request
    <2>2. CASE \E a \in Keeper : Administer(a)
        BY <2>2, KeeperSteps
    <2>3. CASE \E c \in ApiClient : (\E k \in Key : handleCreate(c, k)) \/ handleDelete(c)
        BY <2>3, ClientSteps
    <2>4. CASE UNCHANGED apiVars
        BY <2>4 DEF apiVars, ApiInv, ApiShape, KeysOK, HasApiRow
    <2> QED
        BY <2>1, <2>2, <2>3, <2>4 DEF ApiNext
<1>3. ApiInv => KeyNeverReturns
    BY DEF ApiInv, ApiShape, KeysOK, KeyNeverReturns, findByKeyHash, HasApiRow
<1> QED
    BY <1>1, <1>2, <1>3, PTL DEF ApiSpec

-----------------------------------------------------------------------------
(* Accounts: what the last statement of a login writes keeps the account.   *)

Users == [pw : Password, active : BOOLEAN, admin : BOOLEAN]
Logins == [at : {"login"}, user : Account, admin : BOOLEAN]
Changes == [at : {"change"}, user : Account, new : Password, proved : SUBSET Password]
Tokens == [user : Account, admin : BOOLEAN, exp : Nat, logged : BOOLEAN]

HasAccount(u) == account[u] \in Users

AccountsShape ==
    /\ account \in [Account -> Users \cup {NoUser}]
    /\ work \in [Session -> Logins \cup Changes \cup {NoWork}]
    /\ tokens \subseteq Tokens
    /\ tick \in Nat

AuditKeeps ==
    /\ \A u \in audited : u \in Account /\ HasAccount(u)
    /\ \A k \in tokens : k.logged => k.user \in audited

AccountsInv == AccountsShape /\ AuditKeeps

LEMMA AccountShapes == NoUser \notin Users
<1>1. DOMAIN NoUser = {"pw"}
    BY DEF NoUser
<1>2. \A e \in Users : DOMAIN e = {"pw", "active", "admin"}
    BY DEF Users
<1> QED
    BY <1>1, <1>2

LEMMA LoginSteps ==
    ASSUME AccountsInv, NEW s \in Session,
           \/ \E u \in Account, pw \in Password : handleLogin(s, u, pw)
           \/ Issue(s) \/ IssueFails(s) \/ updatePassword(s)
    PROVE  AccountsInv'
<1> USE DEF AccountsInv
<1>1. CASE \E u \in Account, pw \in Password : handleLogin(s, u, pw)
    <2>1. PICK u \in Account, pw \in Password : handleLogin(s, u, pw)
        BY <1>1
    <2>2. account[u] \in Users
        BY <2>1 DEF handleLogin, findUser, AccountsShape
    <2>3. [at |-> "login", user |-> u, admin |-> account[u].admin] \in Logins
        BY <2>2 DEF Logins, Users
    <2> QED
        BY <2>1, <2>3 DEF handleLogin, AccountsShape, AuditKeeps, HasAccount
<1>2. CASE Issue(s)
    <2>1. work[s] \in Logins
        BY <1>2 DEF Issue, AccountsShape, Changes, NoWork
    <2>2. PICK logged \in BOOLEAN :
              /\ logged => account[work[s].user] # NoUser
              /\ tokens' = tokens \cup {generateToken(work[s].user, work[s].admin, logged)}
              /\ IF logged THEN Logged(work[s].user) ELSE UNCHANGED audited
        BY <1>2 DEF Issue, GiveToken
    <2> DEFINE k == generateToken(work[s].user, work[s].admin, logged)
    <2>3. k \in Tokens /\ k.user = work[s].user /\ k.logged = logged
        BY <2>1, AccountsAssumption DEF generateToken, Logins, Tokens, AccountsShape
    <2> HIDE DEF k
    <2>4. UNCHANGED account /\ UNCHANGED tick /\ work' = [work EXCEPT ![s] = NoWork]
        BY <1>2 DEF Issue, EndWork
    <2>5. AccountsShape'
        BY <2>2, <2>3, <2>4 DEF AccountsShape, k
    <2>6. CASE logged
        <3>1. audited' = audited \cup {work[s].user} /\ tokens' = tokens \cup {k}
            BY <2>2, <2>6 DEF Logged, k
        <3>2. work[s].user \in Account /\ HasAccount(work[s].user)
            BY <2>1, <2>2, <2>6 DEF AccountsShape, HasAccount, Logins
        <3> QED
            BY <2>3, <2>4, <2>5, <3>1, <3>2 DEF AccountsInv, AuditKeeps, HasAccount
    <2>7. CASE ~logged
        BY <2>2, <2>3, <2>4, <2>5, <2>7 DEF AuditKeeps, HasAccount, k
    <2> QED
        BY <2>6, <2>7
<1>3. CASE IssueFails(s)
    BY <1>3 DEF IssueFails, EndWork, AccountsShape, AuditKeeps, HasAccount
<1>4. CASE updatePassword(s)
    <2>1. work[s] \in Changes
        BY <1>4 DEF updatePassword, AccountsShape, Logins, NoWork
    <2> DEFINE u == work[s].user
    <2>2. u \in Account /\ work[s].new \in Password
        BY <2>1 DEF Changes
    <2>3. /\ UNCHANGED <<tokens, audited, tick>> /\ work' = [work EXCEPT ![s] = NoWork]
          /\ account' = IF account[u] = NoUser THEN account ELSE [account EXCEPT ![u].pw = work[s].new]
        BY <1>4 DEF updatePassword, EndWork
    <2>4. account' \in [Account -> Users \cup {NoUser}] /\ \A v \in Account : HasAccount(v) => HasAccount(v)'
        <3>1. CASE account[u] = NoUser
            BY <2>3, <3>1 DEF AccountsShape, HasAccount
        <3>2. CASE account[u] # NoUser
            <4>1. PICK e \in Users : account' = [account EXCEPT ![u] = e]
                BY <2>2, <2>3, <3>2 DEF AccountsShape, Users
            <4> QED
                BY <2>2, <4>1 DEF AccountsShape, HasAccount
        <3> QED
            BY <3>1, <3>2
    <2> QED
        BY <2>3, <2>4 DEF AccountsShape, AuditKeeps
<1> QED
    BY <1>1, <1>2, <1>3, <1>4

LEMMA TokenSteps ==
    ASSUME AccountsInv,
           (\E k \in tokens : handleRefresh(k)) \/ (\E u \in Account : AuditOnly(u)) \/ AccountsTick
    PROVE  AccountsInv'
<1> USE DEF AccountsInv
<1>1. CASE \E k \in tokens : handleRefresh(k)
    <2>1. PICK k \in tokens : handleRefresh(k)
        BY <1>1
    <2> DEFINE l == generateToken(k.user, k.admin, k.logged)
    <2>2. l \in Tokens /\ l.user = k.user /\ l.logged = k.logged
        BY AccountsAssumption DEF generateToken, Tokens, AccountsShape
    <2>3. tokens' = tokens \cup {l} /\ UNCHANGED <<account, work, audited, tick>>
        BY <2>1 DEF handleRefresh, GiveToken
    <2> HIDE DEF l
    <2> QED
        BY <2>2, <2>3 DEF AccountsShape, AuditKeeps, HasAccount
<1>2. CASE \E u \in Account : AuditOnly(u)
    BY <1>2 DEF AuditOnly, findUser, Logged, AccountsShape, AuditKeeps, HasAccount
<1>3. CASE AccountsTick
    BY <1>3 DEF AccountsTick, AccountsShape, AuditKeeps, HasAccount
<1> QED
    BY <1>1, <1>2, <1>3

LEMMA AdminSteps ==
    ASSUME AccountsInv, NEW k \in tokens, NEW u \in Account,
           \/ \E admin \in BOOLEAN : handleCreateUser(k, u, admin)
           \/ \E admins, actives \in {{}, {TRUE}, {FALSE}} : handleUpdateUser(k, u, admins, actives)
           \/ handleDeleteUser(k, u)
           \/ \E s \in Session, pw, new \in Password : StartChange(s, k, u, pw, new)
    PROVE  AccountsInv'
<1> USE DEF AccountsInv
<1>1. CASE \E admin \in BOOLEAN : handleCreateUser(k, u, admin)
    <2>1. PICK admin \in BOOLEAN : handleCreateUser(k, u, admin)
        BY <1>1
    <2>2. NewUser(admin) \in Users
        BY AccountsAssumption DEF NewUser, Users
    <2> QED
        BY <2>1, <2>2 DEF handleCreateUser, AccountsShape, AuditKeeps, HasAccount
<1>2. CASE \E admins, actives \in {{}, {TRUE}, {FALSE}} : handleUpdateUser(k, u, admins, actives)
    <2>1. PICK admins \in {{}, {TRUE}, {FALSE}}, actives \in {{}, {TRUE}, {FALSE}} :
              handleUpdateUser(k, u, admins, actives)
        BY <1>2
    <2>2. account[u] \in Users
        BY <2>1 DEF handleUpdateUser, AccountsShape
    <2> DEFINE e == updateUser(account[u], admins, actives)
    <2>3. e \in Users
        <3> DEFINE p == IF admins = {} THEN account[u].admin ELSE TRUE \in admins
                   q == IF actives = {} THEN account[u].active ELSE TRUE \in actives
        <3>1. account[u].admin \in BOOLEAN /\ account[u].active \in BOOLEAN
            BY <2>2 DEF Users
        <3>2. (TRUE \in admins) \in BOOLEAN /\ (TRUE \in actives) \in BOOLEAN
            OBVIOUS
        <3>3. p \in BOOLEAN /\ q \in BOOLEAN
            BY <3>1, <3>2, Zenon
        <3>4. e = [account[u] EXCEPT !.admin = p, !.active = q]
            BY DEF updateUser
        <3> HIDE DEF p, q
        <3> QED
            BY <2>2, <3>3, <3>4 DEF Users
    <2> HIDE DEF e
    <2>4. account' = [account EXCEPT ![u] = e] /\ UNCHANGED <<tokens, work, audited, tick>>
        BY <2>1 DEF handleUpdateUser, e
    <2> QED
        BY <2>3, <2>4 DEF AccountsShape, AuditKeeps, HasAccount
<1>3. CASE handleDeleteUser(k, u)
    BY <1>3 DEF handleDeleteUser, remove, AccountsShape, AuditKeeps, HasAccount
<1>4. CASE \E s \in Session, pw, new \in Password : StartChange(s, k, u, pw, new)
    <2>1. PICK s \in Session, pw \in Password, new \in Password : StartChange(s, k, u, pw, new)
        BY <1>4
    <2> DEFINE w == [at |-> "change", user |-> u, new |-> new,
                     proved |-> IF k.user = u THEN {pw} ELSE {}]
    <2>2. w \in Changes
        BY DEF Changes
    <2>3. work' = [work EXCEPT ![s] = w] /\ UNCHANGED <<account, tokens, audited, tick>>
        BY <2>1 DEF StartChange
    <2> HIDE DEF w
    <2> QED
        BY <2>2, <2>3 DEF AccountsShape, AuditKeeps, HasAccount
<1> QED
    BY <1>1, <1>2, <1>3, <1>4

\* Whoever holds a token that left its audit row has an account: AuditedTokenHasAccount,
\* whatever administrators delete meanwhile and however often the token is renewed.
THEOREM AuditKeepsAccounts == AccountsSpec => []AuditedTokenHasAccount
<1>1. AccountsInit => AccountsInv
    <2> SUFFICES ASSUME AccountsInit PROVE AccountsInv
        OBVIOUS
    <2>1. NewUser(TRUE) \in Users
        BY AccountsAssumption DEF NewUser, Users
    <2> QED
        BY <2>1 DEF AccountsInit, AccountsInv, AccountsShape, AuditKeeps
<1>2. AccountsInv /\ [AccountsNext]_accountVars => AccountsInv'
    <2> SUFFICES ASSUME AccountsInv, [AccountsNext]_accountVars PROVE AccountsInv'
        OBVIOUS
    <2>1. CASE \E s \in Session : \/ \E u \in Account, pw \in Password : handleLogin(s, u, pw)
                                 \/ Issue(s) \/ IssueFails(s) \/ updatePassword(s)
        BY <2>1, LoginSteps
    <2>2. CASE (\E k \in tokens : handleRefresh(k)) \/ (\E u \in Account : AuditOnly(u)) \/ AccountsTick
        BY <2>2, TokenSteps
    <2>3. CASE \E k \in tokens, u \in Account :
              \/ \E admin \in BOOLEAN : handleCreateUser(k, u, admin)
              \/ \E admins, actives \in {{}, {TRUE}, {FALSE}} : handleUpdateUser(k, u, admins, actives)
              \/ handleDeleteUser(k, u)
              \/ \E s \in Session, pw, new \in Password : StartChange(s, k, u, pw, new)
        BY <2>3, AdminSteps
    <2>4. CASE UNCHANGED accountVars
        BY <2>4 DEF accountVars, AccountsInv, AccountsShape, AuditKeeps, HasAccount
    <2> QED
        BY <2>1, <2>2, <2>3, <2>4 DEF AccountsNext
<1>3. AccountsInv => AuditedTokenHasAccount
    BY AccountShapes DEF AccountsInv, AuditKeeps, HasAccount, AuditedTokenHasAccount
<1> QED
    BY <1>1, <1>2, <1>3, PTL DEF AccountsSpec

-----------------------------------------------------------------------------
(* PaVerification: what a verification found stays true of the directory,   *)
(* and what was answered stays true of the rows.                            *)

Outcomes == {"equal", "different", "unlisted"}
CrlOutcomes == {Unchecked, "CRL_EXPIRED", "REVOKED", "VALID", "CRL_UNAVAILABLE"}
PaRequests ==
    [pc : {"csca", "lc", "choose", "crl", "save", "groups"}, doc : Documents,
     found : SUBSET Csca, csca : SUBSET Csca, crl : CrlOutcomes, row : Nat]
PaRows == [doc : Documents, status : {"VALID", "INVALID"}, crl : CrlOutcomes, groups : SUBSET Outcomes]
PaAnswers == [ok : BOOLEAN, status : {"VALID", "INVALID", "none"}, row : Nat]

PaShape ==
    /\ request \in PaRequests \cup {Nothing}
    /\ rows \in Seq(PaRows)
    /\ answers \in Seq(PaAnswers)
    /\ day \in Int /\ crls \subseteq [lists : BOOLEAN, next : Int]

\* The directory had a CRL that says so.
Accepting(outcome) ==
    \/ outcome = "VALID" /\ \E e \in crls : ~e.lists
    \/ outcome = "CRL_EXPIRED" /\ \E e \in crls : e.next < day
    \/ outcome = "CRL_UNAVAILABLE"

Verified(d) ==
    /\ \E c \in entries \cap Issuing \cap d.signedBy : c \in SelfIssued => c \in Sound
    /\ d.sod /\ d.signing # "outside" /\ d.groups \subseteq {"equal"}

RequestOK ==
    request # Nothing =>
        /\ request.found \subseteq entries
        /\ request.csca \subseteq entries \cap Issuing
        /\ request.pc \in {"csca", "lc", "choose"} => request.csca = {}
        /\ request.pc = "save" /\ ChainValid(request) => Accepting(request.crl)
        /\ request.pc = "groups" => /\ request.row \in 1 .. Len(rows)
                                   /\ rows[request.row].doc = request.doc

RowsOK ==
    \A i \in 1 .. Len(rows) :
        rows[i].status = "VALID" => Accepting(rows[i].crl) /\ Verified(rows[i].doc)

AnswersOK ==
    \A i \in 1 .. Len(answers) : answers[i].ok =>
        /\ answers[i].row \in 1 .. Len(rows)
        /\ rows[answers[i].row].status = answers[i].status
        /\ rows[answers[i].row].groups = rows[answers[i].row].doc.groups

PaInv == PaShape /\ RequestOK /\ RowsOK /\ AnswersOK

LEMMA NothingIsNoRequest == Nothing \notin PaRequests
BY DEF Nothing, PaRequests

LEMMA AtWork == ASSUME PaInv, request.pc # "idle" PROVE request \in PaRequests
BY DEF PaInv, PaShape, Nothing

\* Neither later CRLs nor later days take a reason away, nor later CSCAs.
LEMMA ReasonsStay ==
    ASSUME PaInv, crls \subseteq crls', day' \in Int, day <= day', entries \subseteq entries'
    PROVE  /\ \A o : Accepting(o) => Accepting(o)'
           /\ \A d : Verified(d) => Verified(d)'
<1>1. \A e \in crls : e.next < day => e.next < day'
    BY DEF PaInv, PaShape
<1> QED
    BY <1>1 DEF Accepting, Verified

\* The directory and the time go on under the verification.
LEMMA AroundIt ==
    ASSUME PaInv, \/ \E c \in Csca : AddCsca(c)
                  \/ \E lists \in BOOLEAN : PublishCrl(lists)
                  \/ NextDay
    PROVE  PaInv'
<1> USE DEF PaInv
<1>1. UNCHANGED <<request, rows, answers>>
    BY DEF AddCsca, PublishCrl, NextDay
<1>2. /\ crls \subseteq crls' /\ crls' \subseteq [lists : BOOLEAN, next : Int]
      /\ day' \in Int /\ day <= day' /\ entries \subseteq entries'
    BY DEF AddCsca, PublishCrl, NextDay, PaShape
<1>3. PaShape'
    BY <1>1, <1>2 DEF PaShape
<1>4. RequestOK'
    BY <1>1, <1>2, ReasonsStay DEF RequestOK, ChainValid
<1>5. RowsOK'
    BY <1>1, <1>2, ReasonsStay DEF RowsOK
<1>6. AnswersOK'
    BY <1>1 DEF AnswersOK
<1> QED
    BY <1>3, <1>4, <1>5, <1>6

\* A step that only moves the request keeps the rest.
LEMMA RequestMoves ==
    ASSUME PaInv, UNCHANGED <<entries, crls, day, rows, answers>>,
           request' \in PaRequests \cup {Nothing}, RequestOK'
    PROVE  PaInv'
BY DEF PaInv, PaShape, RowsOK, AnswersOK, Accepting, Verified

\* The CSCA that is chosen was found, under the right name.
LEMMA ChosenIsFound == ASSUME NEW doc, NEW found PROVE Chosen(doc, found) \subseteq found \cap Issuing
BY DEF Chosen, FirstOf

LEMMA ChainSteps ==
    ASSUME PaInv, \/ \E d \in Document : StartVerify(d)
                  \/ Search("csca", "lc", Csca \ LinkCert) \/ Search("lc", "choose", LinkCert)
                  \/ ChooseCsca \/ CheckCrl \/ PaRestart
    PROVE  PaInv'
<1> USE DEF PaInv
<1>1. UNCHANGED <<entries, crls, day, rows, answers>>
    BY DEF StartVerify, Search, ChooseCsca, CheckCrl, PaRestart
<1>2. CASE \E d \in Document : StartVerify(d)
    <2>1. PICK d \in Document : StartVerify(d)
        BY <1>2
    <2>2. request' = [pc |-> "csca", doc |-> d, found |-> {}, csca |-> {}, crl |-> Unchecked, row |-> 0]
        BY <2>1 DEF StartVerify
    <2>3. request' \in PaRequests /\ d \in Documents
        BY <2>2, PaAssumption DEF PaRequests, CrlOutcomes
    <2>4. RequestOK'
        BY <2>2 DEF RequestOK
    <2> QED
        BY <1>1, <2>3, <2>4, RequestMoves
<1>3. ASSUME NEW from \in {"csca", "lc"}, NEW to \in {"lc", "choose"}, NEW where \in SUBSET Csca,
             Search(from, to, where)
      PROVE  PaInv'
    <2>1. request \in PaRequests /\ request.pc \in {"csca", "lc"}
        BY <1>3, AtWork DEF Search
    <2>2. PICK all \in SUBSET Csca :
              /\ request' = [request EXCEPT !.pc = to, !.found = all]
              /\ all \subseteq request.found \cup entries
        <3>1. CASE request' = [request EXCEPT !.pc = to, !.found = @ \cup (entries \cap where)]
            BY <2>1, <3>1 DEF PaRequests
        <3>2. CASE request' = [request EXCEPT !.pc = to]
            <4>1. request' = [request EXCEPT !.pc = to, !.found = request.found]
                BY <2>1, <3>2 DEF PaRequests
            <4> QED
                BY <2>1, <4>1 DEF PaRequests
        <3> QED
            BY <1>3, <3>1, <3>2 DEF Search
    <2>3. request' \in PaRequests
        BY <2>1, <2>2 DEF PaRequests
    <2>4. RequestOK'
        BY <1>1, <2>1, <2>2, NothingIsNoRequest DEF RequestOK, PaRequests
    <2> QED
        BY <1>1, <2>3, <2>4, RequestMoves
<1>4. CASE ChooseCsca
    <2>1. request \in PaRequests /\ request.pc = "choose"
        <3>1. request.pc = "choose"
            BY <1>4 DEF ChooseCsca
        <3> QED
            BY <3>1, AtWork
    <2> DEFINE chosen == Chosen(request.doc, request.found)
    <2>2. chosen \subseteq entries \cap Issuing
        BY <2>1, ChosenIsFound, NothingIsNoRequest DEF RequestOK
    <2>3. CASE chosen = {}
        <3>1. request' = [request EXCEPT !.pc = "save"]
            BY <1>4, <2>3 DEF ChooseCsca
        <3>2. request' \in PaRequests
            BY <2>1, <3>1 DEF PaRequests
        <3>3. RequestOK'
            BY <1>1, <2>1, <3>1, NothingIsNoRequest DEF RequestOK, PaRequests, ChainValid
        <3> QED
            BY <1>1, <3>2, <3>3, RequestMoves
    <2>4. CASE chosen # {}
        <3>1. PICK c \in chosen, to \in {"save", "crl"} :
                  /\ request' = [request EXCEPT !.csca = {c}, !.found = {}, !.pc = to]
                  /\ to = "save" => c \in request.doc.signedBy /\ c \in SelfIssued \ Sound
            BY <1>4, <2>4 DEF ChooseCsca
        <3>2. c \in Csca
            BY <2>2, PaAssumption
        <3>3. request' \in PaRequests
            BY <2>1, <3>1, <3>2 DEF PaRequests
        <3>4. RequestOK'
            BY <1>1, <2>1, <2>2, <3>1 DEF RequestOK, PaRequests, ChainValid
        <3> QED
            BY <1>1, <3>3, <3>4, RequestMoves
    <2> QED
        BY <2>3, <2>4
<1>5. CASE CheckCrl
    <2>1. request \in PaRequests /\ request.pc = "crl"
        <3>1. request.pc = "crl"
            BY <1>5 DEF CheckCrl
        <3> QED
            BY <3>1, AtWork
    <2>2. PICK o \in CrlOutcomes :
              /\ request' = [request EXCEPT !.pc = "save", !.crl = o]
              /\ o = "REVOKED" \/ Accepting(o)
        <3>1. CASE \E e \in crls : request' = [request EXCEPT !.pc = "save", !.crl = CrlStatus(e)]
            BY <3>1 DEF CrlStatus, CrlOutcomes, Accepting
        <3>2. CASE request' = [request EXCEPT !.pc = "save", !.crl = "CRL_UNAVAILABLE"]
            BY <3>2 DEF CrlOutcomes, Accepting
        <3> QED
            BY <1>5, <3>1, <3>2 DEF CheckCrl
    <2>3. request' \in PaRequests
        BY <2>1, <2>2 DEF PaRequests
    <2>4. RequestOK'
        BY <1>1, <2>1, <2>2, NothingIsNoRequest DEF RequestOK, PaRequests, ChainValid, Accepting
    <2> QED
        BY <1>1, <2>3, <2>4, RequestMoves
<1>6. CASE PaRestart
    <2>1. request' = Nothing
        BY <1>6 DEF PaRestart
    <2>2. RequestOK'
        BY <2>1 DEF RequestOK
    <2> QED
        BY <1>1, <2>1, <2>2, RequestMoves
<1>7. CASE Search("csca", "lc", Csca \ LinkCert) \/ Search("lc", "choose", LinkCert)
    BY <1>3, <1>7, PaAssumption
<1> QED
    BY <1>2, <1>4, <1>5, <1>6, <1>7

LEMMA SavingSteps ==
    ASSUME PaInv, SaveVerification
    PROVE  PaInv'
<1> USE DEF PaInv
<1>1. request.pc = "save" /\ UNCHANGED <<entries, crls, day>>
    BY DEF SaveVerification
<1>2. request \in PaRequests /\ request # Nothing
    BY <1>1, AtWork, NothingIsNoRequest
<1>3. CASE Tell(FALSE, "none") /\ UNCHANGED rows
    <2> DEFINE a == [ok |-> FALSE, status |-> "none", row |-> request.row]
    <2>1. answers' = Append(answers, a) /\ request' = Nothing /\ UNCHANGED rows
        BY <1>3 DEF Tell
    <2>2. a \in PaAnswers /\ ~a.ok
        BY <1>2 DEF PaAnswers, PaRequests
    <2> HIDE DEF a
    <2>3. PaShape'
        BY <1>1, <2>1, <2>2 DEF PaShape
    <2>4. RequestOK' /\ RowsOK'
        BY <1>1, <2>1 DEF RequestOK, RowsOK, Accepting, Verified
    <2>5. AnswersOK'
        BY <2>1, <2>2 DEF AnswersOK, PaShape
    <2> QED
        BY <2>3, <2>4, <2>5
<1>4. CASE /\ rows' = Append(rows, [doc |-> request.doc, status |-> Verdict(request),
                                   crl |-> request.crl, groups |-> {}])
           /\ request' = [request EXCEPT !.pc = "groups", !.row = Len(rows) + 1]
           /\ UNCHANGED answers
    <2> DEFINE w == [doc |-> request.doc, status |-> Verdict(request),
                     crl |-> request.crl, groups |-> {}]
               n == Len(rows) + 1
    <2>1. Verdict(request) \in {"VALID", "INVALID"}
        BY DEF Verdict
    <2>2. w \in PaRows /\ w.doc = request.doc
        BY <1>2, <2>1 DEF PaRows, PaRequests
    <2>3. w.status = "VALID" => Accepting(w.crl) /\ Verified(w.doc)
        <3> SUFFICES ASSUME Verdict(request) = "VALID"
                     PROVE  Accepting(request.crl) /\ Verified(request.doc)
            OBVIOUS
        <3>1. ChainValid(request) /\ request.doc.sod /\ request.doc.groups \subseteq {"equal"}
            BY DEF Verdict
        <3>2. Accepting(request.crl)
            BY <1>1, <1>2, <3>1 DEF RequestOK
        <3>3. PICK c \in request.csca : c \in request.doc.signedBy /\ (c \in SelfIssued => c \in Sound)
            BY <3>1 DEF ChainValid
        <3>4. c \in entries \cap Issuing
            BY <1>2, <3>3 DEF RequestOK
        <3> QED
            BY <3>1, <3>2, <3>3, <3>4 DEF Verified, ChainValid
    <2> HIDE DEF w
    <2>4. /\ Len(rows) \in Nat /\ n \in Nat \ {0} /\ Len(rows') = n /\ rows' \in Seq(PaRows)
          /\ rows'[n] = w /\ \A i \in 1 .. Len(rows) : rows'[i] = rows[i]
        BY <1>4, <2>2 DEF PaShape, w
    <2>5. request' = [request EXCEPT !.pc = "groups", !.row = n]
        BY <1>4
    <2> HIDE DEF n
    <2>6. PaShape'
        BY <1>1, <1>2, <1>4, <2>4, <2>5 DEF PaShape, PaRequests
    <2>7. RequestOK'
        BY <1>1, <1>2, <2>2, <2>4, <2>5 DEF RequestOK, PaRequests
    <2>8. RowsOK'
        <3>1. \A i \in 1 .. n : i = n \/ i \in 1 .. Len(rows)
            BY <2>4 DEF n
        <3> QED
            BY <1>1, <2>3, <2>4, <3>1 DEF RowsOK, Accepting, Verified
    <2>9. AnswersOK'
        <3>1. \A i \in 1 .. Len(rows) : i \in 1 .. n
            BY <2>4 DEF n
        <3> QED
            BY <1>4, <2>4, <3>1 DEF AnswersOK
    <2> QED
        BY <2>6, <2>7, <2>8, <2>9
<1> QED
    BY <1>3, <1>4 DEF SaveVerification

LEMMA GroupSteps ==
    ASSUME PaInv, SaveGroup \/ AnswerCaller
    PROVE  PaInv'
<1> USE DEF PaInv
<1>1. request.pc = "groups" /\ UNCHANGED <<entries, crls, day>>
    BY DEF SaveGroup, AnswerCaller
<1>2. request \in PaRequests /\ request # Nothing
    BY <1>1, AtWork, NothingIsNoRequest
<1> DEFINE n == request.row
<1>3. n \in 1 .. Len(rows) /\ rows[n].doc = request.doc /\ rows[n] \in PaRows
    BY <1>1, <1>2 DEF RequestOK, PaShape
<1>4. ASSUME NEW ok \in BOOLEAN, NEW status \in {"VALID", "INVALID", "none"}, Tell(ok, status), UNCHANGED rows,
             ok => status = rows[n].status /\ rows[n].groups = rows[n].doc.groups
      PROVE  PaInv'
    <2> DEFINE a == [ok |-> ok, status |-> status, row |-> n]
    <2>1. answers' = Append(answers, a) /\ request' = Nothing /\ UNCHANGED rows
        BY <1>4 DEF Tell
    <2>2. a \in PaAnswers /\ a.ok = ok /\ a.status = status /\ a.row = n
        BY <1>2 DEF PaAnswers, PaRequests
    <2> HIDE DEF a, n
    <2>3. PaShape'
        BY <1>1, <2>1, <2>2 DEF PaShape
    <2>4. RequestOK' /\ RowsOK'
        BY <1>1, <2>1 DEF RequestOK, RowsOK, Accepting, Verified
    <2>5. /\ Len(answers) \in Nat /\ Len(answers') = Len(answers) + 1
          /\ answers'[Len(answers) + 1] = a
          /\ \A i \in 1 .. Len(answers) : answers'[i] = answers[i]
        BY <2>1, <2>2 DEF PaShape
    <2>6. \A i \in 1 .. Len(answers') : i = Len(answers) + 1 \/ i \in 1 .. Len(answers)
        BY <2>5
    <2>7. AnswersOK'
        BY <1>3, <1>4, <2>1, <2>2, <2>5, <2>6 DEF AnswersOK
    <2> QED
        BY <2>3, <2>4, <2>7
<1>5. ASSUME NEW g \in request.doc.groups \ rows[n].groups, UNCHANGED <<request, answers>>,
             rows' = [rows EXCEPT ![n].groups = @ \cup {g}]
      PROVE  PaInv'
    <2>1. g \in Outcomes
        BY <1>2 DEF PaRequests, Documents, Outcomes
    <2>2. PICK w \in PaRows : /\ rows' = [rows EXCEPT ![n] = w]
                              /\ w.doc = rows[n].doc /\ w.status = rows[n].status /\ w.crl = rows[n].crl
        <3> DEFINE w == [rows[n] EXCEPT !.groups = @ \cup {g}]
        <3>1. w \in PaRows /\ w.doc = rows[n].doc /\ w.status = rows[n].status /\ w.crl = rows[n].crl
            BY <1>3, <2>1 DEF PaRows
        <3>2. rows' = [rows EXCEPT ![n] = w]
            BY <1>5
        <3> QED
            BY <3>1, <3>2
    <2>3. rows[n].groups # rows[n].doc.groups
        BY <1>3, <1>5
    <2> HIDE DEF n
    <2>4. /\ rows' \in Seq(PaRows) /\ Len(rows') = Len(rows) /\ rows'[n] = w
          /\ \A i \in 1 .. Len(rows) : i # n => rows'[i] = rows[i]
        BY <1>3, <2>2 DEF PaShape
    <2>5. PaShape'
        BY <1>1, <1>5, <2>4 DEF PaShape
    <2>6. RequestOK'
        BY <1>1, <1>5, <1>3, <2>2, <2>4 DEF RequestOK, ChainValid, Accepting, n
    <2>7. RowsOK'
        BY <1>1, <1>3, <2>2, <2>4 DEF RowsOK, Accepting, Verified
    <2>8. AnswersOK'
        BY <1>5, <1>3, <2>2, <2>3, <2>4 DEF AnswersOK
    <2> QED
        BY <2>5, <2>6, <2>7, <2>8
<1>6. CASE SaveGroup
    <2> HIDE DEF PaInv, n
    <2>1. \/ /\ \E g \in request.doc.groups \ rows[n].groups :
                     rows' = [rows EXCEPT ![n].groups = @ \cup {g}]
             /\ UNCHANGED <<request, answers>>
          \/ Tell(FALSE, "none") /\ UNCHANGED rows
        BY <1>6 DEF SaveGroup, n
    <2> QED
        BY <2>1, <1>4, <1>5
<1>7. CASE AnswerCaller
    <2>1. Tell(TRUE, rows[n].status) /\ UNCHANGED rows /\ request.doc.groups = rows[n].groups
        BY <1>7 DEF AnswerCaller
    <2>2. rows[n].status \in {"VALID", "INVALID", "none"}
        BY <1>3 DEF PaRows
    <2> HIDE DEF PaInv, n
    <2> QED
        BY <2>1, <2>2, <1>3, <1>4
<1> QED
    BY <1>6, <1>7

\* What is found is in the directory, and what is answered in the rows.
LEMMA VerdictsHold == PaSpec => [](AcceptedHasReason /\ ValidIsVerified /\ AnswerIsStored)
<1>1. PaInit => PaInv
    BY DEF PaInit, PaInv, PaShape, RequestOK, RowsOK, AnswersOK
<1>2. PaInv /\ [PaNext]_paVars => PaInv'
    <2> SUFFICES ASSUME PaInv, [PaNext]_paVars PROVE PaInv'
        OBVIOUS
    <2>1. CASE UNCHANGED paVars
        BY <2>1 DEF paVars, PaInv, PaShape, RequestOK, RowsOK, AnswersOK, ChainValid, Accepting, Verified
    <2> QED
        BY <2>1, ChainSteps, SavingSteps, GroupSteps, AroundIt DEF PaNext
<1>3. PaInv => AcceptedHasReason /\ ValidIsVerified /\ AnswerIsStored
    <2> SUFFICES ASSUME PaInv PROVE AcceptedHasReason /\ ValidIsVerified /\ AnswerIsStored
        OBVIOUS
    <2>1. DOMAIN rows = 1 .. Len(rows) /\ DOMAIN answers = 1 .. Len(answers)
        BY DEF PaInv, PaShape
    <2>2. AcceptedHasReason
        BY <2>1 DEF PaInv, RowsOK, Accepting, AcceptedHasReason
    <2>3. ValidIsVerified
        BY <2>1 DEF PaInv, RowsOK, Verified, ValidIsVerified
    <2>4. AnswerIsStored
        BY <2>1 DEF PaInv, AnswersOK, AnswerIsStored
    <2> QED
        BY <2>2, <2>3, <2>4
<1> QED
    BY <1>1, <1>2, <1>3, PTL DEF PaSpec

\* A verification that was accepted had a CRL that does not name the signer, one that had
\* ended, or none to be had: AcceptedHasReason, for any documents, CSCAs and CRLs, any
\* number of verifications, and whatever fails.
THEOREM AcceptanceHasReason == PaSpec => []AcceptedHasReason
BY VerdictsHold, PTL

\* A verification that was accepted has its CSCA in the directory and a document that
\* verifies: ValidIsVerified, under the same conditions.
THEOREM AcceptanceIsVerified == PaSpec => []ValidIsVerified
BY VerdictsHold, PTL

\* A verdict that was told is stored with every group of its document: AnswerIsStored.
THEOREM AnswersAreTrue == PaSpec => []AnswerIsStored
BY VerdictsHold, PTL

-----------------------------------------------------------------------------
(* Progress: a registered client is owed nothing but what is on its way.    *)

Thread == [pc : {"run", "call", "done"}, n : Nat, copy : Stream \cup {NoStream}]
Connection == [pc : {"idle", "cached", "look", "again", "open"}, of : Job \cup {CHOOSE j \in Job : TRUE},
               copy : Nat, gone : BOOLEAN, owed : Nat, got : SUBSET Nat, shown : Nat]

ProgressShape ==
    /\ job \in [Job -> Thread]
    /\ stream \in [Stream -> Connection]
    /\ \A j \in Job : job[j].pc = "call" => job[j].copy \in Stream
    /\ \A s \in Stream : stream[s].pc # "idle" => stream[s].of \in Job

\* The cache holds the last event of a thread, a callback writes to a stream.
MapsOK ==
    /\ \A j \in DOMAIN sseCallbacks : sseCallbacks[j] \in Stream
    /\ DOMAIN progressCache \subseteq Job
    /\ \A j \in DOMAIN progressCache : progressCache[j].n = job[j].n

\* Event n is at the client, in the hands of its set-up, or in those of the thread.
Reaches(s, n) ==
    \/ n \in stream[s].got
    \/ stream[s].pc = "cached" /\ n = stream[s].copy
    \/ LET t == job[stream[s].of] IN t.pc = "call" /\ t.copy = s /\ n = t.n

Listens(s) == stream[s].pc # "idle" /\ ~stream[s].gone /\ Registered(s)

Served(s) == Listens(s) => \A n \in stream[s].owed .. job[stream[s].of].n : Reaches(s, n)

ProgressInv == ProgressShape /\ MapsOK /\ \A s \in Stream : Served(s)

\* Dropping entries of a map leaves the others.
LEMMA WithoutSome ==
    ASSUME NEW f, NEW S
    PROVE  /\ DOMAIN Without(f, S) = DOMAIN f \ S
           /\ \A x \in DOMAIN f \ S : Without(f, S)[x] = f[x]
BY DEF Without, Restrict

LEMMA FewerCallbacks ==
    ASSUME NEW S, NEW j
    PROVE  CallbackOf(j, Without(sseCallbacks, S)) \in {CallbackOf(j, sseCallbacks), NoStream}
BY DEF CallbackOf, Without, Restrict

LEMMA CachedIsLast == ASSUME ProgressInv, NEW j \in Job PROVE Cached(j) \in {0, job[j].n}
BY DEF ProgressInv, MapsOK, Cached

\* Nobody is told less when callbacks are dropped and nothing else happens.
LEMMA ServedStay ==
    ASSUME ProgressInv, NEW s \in Stream,
           stream'[s] = stream[s], 
           job'[stream[s].of] = job[stream[s].of],
           CallbackOf(stream[s].of, sseCallbacks') \in {CallbackOf(stream[s].of, sseCallbacks), NoStream}
    PROVE  Served(s)'
BY ProgressAssumption DEF ProgressInv, Served, Listens, Registered, Reaches

LEMMA SendSteps == ASSUME ProgressInv, NEW j \in Job, sendProgress(j) PROVE ProgressInv'
<1> DEFINE n == job[j].n + 1
           cache == Entered(progressCache, j, [n |-> n, at |-> wall])
<1>1. /\ job[j].pc = "run" /\ UNCHANGED <<wall, stream>>
      /\ \E dead : progressCache' = Without(cache, dead) /\ sseCallbacks' = Without(sseCallbacks, dead)
      /\ LET copy == CallbackOf(j, sseCallbacks')
         IN  job' = [job EXCEPT ![j] = [pc |-> IF copy = NoStream THEN "run" ELSE "call",
                                        n |-> n, copy |-> copy]]
    BY DEF sendProgress
<1>2. PICK copy : copy = CallbackOf(j, sseCallbacks')
    OBVIOUS
<1>3. \A k : CallbackOf(k, sseCallbacks') \in {CallbackOf(k, sseCallbacks), NoStream}
    BY <1>1, FewerCallbacks
<1>4. n \in Nat /\ n = job[j].n + 1 /\ job[j].n \in Nat
    BY DEF ProgressInv, ProgressShape, Thread
<1>5. copy \in Stream \cup {NoStream}
    BY <1>2, <1>3 DEF CallbackOf, ProgressInv, MapsOK
<1> HIDE DEF n
<1>6. /\ job'[j] = [pc |-> IF copy = NoStream THEN "run" ELSE "call", n |-> n, copy |-> copy]
      /\ \A k \in Job : k # j => job'[k] = job[k]
    BY <1>1, <1>2 DEF ProgressInv, ProgressShape
<1>7. ProgressShape'
    BY <1>1, <1>2, <1>4, <1>5, <1>6 DEF ProgressInv, ProgressShape, Thread
<1>8. MapsOK'
    BY <1>1, <1>3, <1>6 DEF ProgressInv, MapsOK, Without, Restrict, Entered
<1>9. ASSUME NEW s \in Stream PROVE Served(s)'
    <2>1. CASE stream[s].of # j \/ stream[s].pc = "idle"
        BY <1>1, <1>3, <1>6, <2>1, ServedStay DEF ProgressInv, ProgressShape, Served, Listens
    <2>2. CASE stream[s].of = j /\ stream[s].pc # "idle"
        <3> SUFFICES ASSUME Listens(s)', NEW m \in stream[s].owed .. n PROVE Reaches(s, m)'
            BY <1>1, <1>6, <2>2 DEF Served
        <3>1. copy = s /\ Listens(s)
            BY <1>1, <1>2, <1>3, <2>2, ProgressAssumption DEF Listens, Registered
        <3>2. CASE m = n
            BY <1>1, <1>6, <2>2, <3>1, <3>2, ProgressAssumption DEF Reaches
        <3>3. CASE m # n
            <4>1. stream[s].owed \in Nat
                BY DEF ProgressInv, ProgressShape, Connection
            <4>2. m \in stream[s].owed .. job[j].n
                BY <4>1, <1>4, <3>3
            <4>3. Reaches(s, m)
                BY <4>2, <3>1, <2>2 DEF ProgressInv, Served
            <4> QED
                BY <4>3, <1>1, <2>2 DEF Reaches
        <3> QED
            BY <3>2, <3>3
    <2> QED
        BY <2>1, <2>2
<1> QED
    BY <1>7, <1>8, <1>9 DEF ProgressInv

\* One event comes to its client, or to nobody, and the thread goes on.
LEMMA DeliverSteps ==
    ASSUME ProgressInv, NEW j \in Job, Deliver(j) \/ DeliverFails(j)
    PROVE  ProgressInv'
<1>1. PICK r \in Stream : r = job[j].copy
    BY DEF Deliver, DeliverFails, ProgressInv, ProgressShape
<1>2. /\ job[j].pc = "call" /\ job' = [job EXCEPT ![j].pc = "run"]
      /\ UNCHANGED progressCache
    BY DEF Deliver, DeliverFails
<1>3. /\ job'[j] = [job[j] EXCEPT !.pc = "run"] /\ job'[j].n = job[j].n /\ job'[j].pc = "run"
      /\ \A k \in Job : k # j => job'[k] = job[k]
    BY <1>2 DEF ProgressInv, ProgressShape, Thread
<1>4. \/ ~stream[r].gone /\ stream' = [stream EXCEPT ![r].got = @ \cup {job[j].n}, ![r].shown = job[j].n]
      \/ stream[r].gone /\ stream' = stream
    BY <1>1 DEF Deliver, DeliverFails, Receive
<1>5. job[j].n \in Nat
    BY DEF ProgressInv, ProgressShape, Thread
<1>6. /\ \A s \in Stream : s # r => stream'[s] = stream[s]
      /\ \A s \in Stream : /\ stream'[s].pc = stream[s].pc /\ stream'[s].of = stream[s].of
                           /\ stream'[s].owed = stream[s].owed /\ stream'[s].gone = stream[s].gone
                           /\ stream'[s].copy = stream[s].copy
      /\ stream[r].gone \/ stream'[r].got = stream[r].got \cup {job[j].n}
      /\ stream' \in [Stream -> Connection]
    BY <1>4, <1>5 DEF ProgressInv, ProgressShape, Connection
<1>7. \A k : CallbackOf(k, sseCallbacks') \in {CallbackOf(k, sseCallbacks), NoStream}
    BY FewerCallbacks DEF Deliver, DeliverFails
<1>8. ProgressShape'
    BY <1>2, <1>3, <1>6, SMTT(30) DEF ProgressInv, ProgressShape, Thread
<1>9. MapsOK'
    BY <1>2, <1>3 DEF Deliver, DeliverFails, ProgressInv, MapsOK, Without, Restrict
<1>10. ASSUME NEW s \in Stream PROVE Served(s)'
    <2> SUFFICES ASSUME Listens(s)', NEW m \in stream[s].owed .. job[stream[s].of].n
                 PROVE  Reaches(s, m)'
        <3>1. stream'[s].pc = stream[s].pc /\ stream'[s].of = stream[s].of
              /\ stream'[s].owed = stream[s].owed
            BY <1>6
        <3>2. stream[s].pc # "idle" => stream[s].of \in Job
            BY DEF ProgressInv, ProgressShape
        <3>3. \A k \in Job : job'[k].n = job[k].n
            BY <1>3
        <3> QED
            BY <3>1, <3>2, <3>3 DEF Served, Listens
    <2>1. Listens(s) /\ stream[s].of \in Job
        BY <1>6, <1>7, ProgressAssumption DEF Listens, Registered, ProgressInv, ProgressShape
    <2>2. Reaches(s, m)
        BY <2>1 DEF ProgressInv, Served
    <2>3. CASE job[stream[s].of].pc = "call" /\ job[stream[s].of].copy = s /\ m = job[stream[s].of].n
        <3>1. CASE stream[s].of = j
            BY <1>1, <1>6, <2>1, <2>3, <3>1 DEF Reaches, Listens
        <3>2. CASE stream[s].of # j
            BY <1>3, <1>6, <2>1, <2>3, <3>2 DEF Reaches
        <3> QED
            BY <3>1, <3>2
    <2>4. CASE m \in stream[s].got \/ (stream[s].pc = "cached" /\ m = stream[s].copy)
        BY <1>4, <1>6, <2>4 DEF Reaches, ProgressInv, ProgressShape
    <2> QED
        BY <2>2, <2>3, <2>4 DEF Reaches
<1> QED
    BY <1>8, <1>9, <1>10 DEF ProgressInv

LEMMA EndStep == ASSUME ProgressInv, NEW j \in Job, JobEnds(j) PROVE ProgressInv'
<1>1. /\ job[j].pc = "run" /\ job' = [job EXCEPT ![j].pc = "done"] /\ UNCHANGED stream
      /\ \/ UNCHANGED <<progressCache, sseCallbacks>>
         \/ progressCache' = Without(progressCache, {j}) /\ sseCallbacks' = Without(sseCallbacks, {j})
    BY DEF JobEnds
<1>2. /\ job'[j] = [job[j] EXCEPT !.pc = "done"] /\ job'[j].n = job[j].n /\ job'[j].pc = "done"
      /\ \A k \in Job : k # j => job'[k] = job[k]
    BY <1>1 DEF ProgressInv, ProgressShape, Thread
<1>3. \A k : CallbackOf(k, sseCallbacks') \in {CallbackOf(k, sseCallbacks), NoStream}
    BY <1>1, FewerCallbacks
<1>4. ProgressShape'
    BY <1>1, <1>2 DEF ProgressInv, ProgressShape, Thread
<1>5. MapsOK'
    BY <1>1, <1>2 DEF ProgressInv, MapsOK, Without, Restrict
<1>6. ASSUME NEW s \in Stream PROVE Served(s)'
    <2> SUFFICES ASSUME Listens(s)', NEW m \in stream[s].owed .. job[stream[s].of].n
                 PROVE  Reaches(s, m)'
        BY <1>1, <1>2, <1>4 DEF Served, Listens, ProgressShape
    <2>1. Listens(s) /\ stream[s].of \in Job
        BY <1>1, <1>3, ProgressAssumption DEF Listens, Registered, ProgressInv, ProgressShape
    <2>2. Reaches(s, m)
        BY <2>1 DEF ProgressInv, Served
    <2> QED
        BY <1>1, <1>2, <2>1, <2>2 DEF Reaches
<1> QED
    BY <1>4, <1>5, <1>6 DEF ProgressInv

\* A client that registers is owed what is cached, or the next event.
LEMMA RegisterStep ==
    ASSUME ProgressInv, NEW s \in Stream, NEW j \in Job, registerSseCallback(s, j)
    PROVE  ProgressInv'
<1>1. PICK c : c = Cached(j)
    OBVIOUS
<1>2. c \in {0, job[j].n} /\ job[j].n \in Nat
    BY <1>1, CachedIsLast DEF ProgressInv, ProgressShape, Thread
<1>3. /\ UNCHANGED <<job, progressCache>> /\ sseCallbacks' = Entered(sseCallbacks, j, s)
      /\ stream' = [stream EXCEPT ![s] = [stream[s] EXCEPT !.of = j, !.copy = c,
                       !.pc = IF c = 0 THEN "look" ELSE "cached",
                       !.owed = IF c = 0 THEN job[j].n + 1 ELSE c]]
    BY <1>1 DEF registerSseCallback
<1>4. /\ \A r \in Stream : r # s => stream'[r] = stream[r]
      /\ stream'[s].of = j /\ stream'[s].copy = c
      /\ stream'[s].pc = IF c = 0 THEN "look" ELSE "cached"
      /\ stream'[s].owed = IF c = 0 THEN job[j].n + 1 ELSE c
      /\ stream' \in [Stream -> Connection]
    <2> DEFINE l == IF c = 0 THEN "look" ELSE "cached"
               o == IF c = 0 THEN job[j].n + 1 ELSE c
               e == [stream[s] EXCEPT !.of = j, !.copy = c, !.pc = l, !.owed = o]
    <2>0. l \in {"look", "cached"} /\ o \in Nat /\ c \in Nat
        BY <1>2
    <2>1. stream \in [Stream -> Connection] /\ stream[s] \in Connection
        BY DEF ProgressInv, ProgressShape
    <2>2. stream' = [stream EXCEPT ![s] = e]
        BY <1>3
    <2> HIDE DEF l, o
    <2>3. e \in Connection /\ e.of = j /\ e.copy = c /\ e.pc = l /\ e.owed = o
        BY <2>0, <2>1 DEF Connection
    <2> HIDE DEF e
    <2> QED
        BY <2>1, <2>2, <2>3 DEF l, o
<1>5. ProgressShape'
    BY <1>3, <1>4 DEF ProgressInv, ProgressShape
<1>6. MapsOK'
    BY <1>3 DEF ProgressInv, MapsOK, Entered
<1>7. Served(s)'
    <2> SUFFICES ASSUME NEW m \in stream'[s].owed .. job[j].n PROVE Reaches(s, m)'
        BY <1>3, <1>4 DEF Served
    <2> QED
        BY <1>2, <1>4 DEF Reaches
<1>8. ASSUME NEW r \in Stream, r # s PROVE Served(r)'
    <2>1. CASE stream[r].of = j
        BY <1>3, <1>4, <1>8, <2>1 DEF Served, Listens, Registered, CallbackOf, Entered
    <2>2. CASE stream[r].of # j
        BY <1>3, <1>4, <1>8, <2>2, ServedStay DEF CallbackOf, Entered
    <2> QED
        BY <2>1, <2>2
<1> QED
    BY <1>5, <1>6, <1>7, <1>8 DEF ProgressInv

\* A client's set-up goes on: what it was about to send is sent.
LEMMA StreamSteps ==
    ASSUME ProgressInv, NEW s \in Stream, SendCached(s) \/ getProgress(s) \/ Leave(s)
    PROVE  ProgressInv'
<1>1. stream[s].pc # "idle" /\ UNCHANGED <<progressCache, sseCallbacks, job>>
    BY DEF SendCached, getProgress, Leave
<1>2. /\ \A r \in Stream : r # s => stream'[r] = stream[r]
      /\ stream'[s].of = stream[s].of /\ stream'[s].owed = stream[s].owed
      /\ stream'[s].pc # "idle" /\ stream' \in [Stream -> Connection]
      /\ ~stream'[s].gone => /\ ~stream[s].gone /\ stream[s].got \subseteq stream'[s].got
                             /\ stream[s].pc = "cached" => stream[s].copy \in stream'[s].got
    <2>1. stream[s] \in Connection
        BY DEF ProgressInv, ProgressShape
    <2>2. CASE SendCached(s)
        <3> DEFINE x == stream[s]
                   l == IF x.pc = "cached" THEN "look" ELSE "open"
                   e == IF x.gone THEN [x EXCEPT !.pc = l]
                        ELSE [x EXCEPT !.pc = l, !.shown = x.copy, !.got = x.got \cup {x.copy}]
        <3>1. stream' = [stream EXCEPT ![s] = e]
            BY <2>2 DEF SendCached
        <3>2. /\ e \in Connection /\ e.of = x.of /\ e.owed = x.owed /\ e.gone = x.gone /\ e.pc # "idle"
              /\ x.gone \/ (x.got \subseteq e.got /\ x.copy \in e.got)
            BY <2>1 DEF Connection
        <3> HIDE DEF e
        <3> QED
            BY <3>1, <3>2 DEF ProgressInv, ProgressShape
    <2>3. CASE getProgress(s)
        <3>1. stream[s].of \in Job /\ Cached(stream[s].of) \in Nat
            BY <1>1, CachedIsLast DEF ProgressInv, ProgressShape, Thread
        <3>2. PICK c \in Nat : c = Cached(stream[s].of)
            BY <3>1
        <3>3. /\ stream[s].pc = "look"
              /\ stream' = [stream EXCEPT ![s].copy = c, ![s].pc = IF c = 0 THEN "open" ELSE "again"]
            BY <2>3, <3>2 DEF getProgress
        <3> QED
            BY <2>1, <3>3 DEF ProgressInv, ProgressShape, Connection
    <2>4. CASE Leave(s)
        BY <2>1, <2>4 DEF Leave, ProgressInv, ProgressShape, Connection
    <2> QED
        BY <2>2, <2>3, <2>4
<1>3. ProgressShape' /\ MapsOK'
    BY <1>1, <1>2 DEF ProgressInv, ProgressShape, MapsOK
<1>4. Served(s)'
    <2> SUFFICES ASSUME Listens(s)', NEW m \in stream[s].owed .. job[stream[s].of].n
                 PROVE  Reaches(s, m)'
        BY <1>1, <1>2 DEF Served
    <2>1. Listens(s)
        BY <1>1, <1>2 DEF Listens, Registered
    <2>2. Reaches(s, m)
        BY <2>1 DEF ProgressInv, Served
    <2> QED
        BY <1>1, <1>2, <2>2 DEF Reaches, Listens
<1>5. \A r \in Stream : r # s => Served(r)'
    BY <1>1, <1>2, ServedStay
<1> QED
    BY <1>3, <1>4, <1>5 DEF ProgressInv

LEMMA ProgressStarts == ProgressInit => ProgressInv
<1> SUFFICES ASSUME ProgressInit PROVE ProgressInv
    OBVIOUS
<1>1. ProgressShape
    BY DEF ProgressInit, ProgressShape, Thread, Connection
<1>2. MapsOK
    BY DEF ProgressInit, MapsOK
<1>3. \A s \in Stream : Served(s)
    BY DEF ProgressInit, Served, Listens
<1> QED
    BY <1>1, <1>2, <1>3 DEF ProgressInv

LEMMA ProgressSteps == ProgressInv /\ [ProgressNext]_progressVars => ProgressInv'
<1> SUFFICES ASSUME ProgressInv, [ProgressNext]_progressVars PROVE ProgressInv'
    OBVIOUS
<1>1. CASE UNCHANGED progressVars \/ WallTick
    BY <1>1 DEF progressVars, WallTick, ProgressInv, ProgressShape, MapsOK, Served, Listens, Registered,
                CallbackOf, Reaches
<1> QED
    BY <1>1, SendSteps, DeliverSteps, EndStep, RegisterStep, StreamSteps DEF ProgressNext

\* A client whose callback is registered has, whenever no call to it is under
\* way, got what was cached when it registered and every event since, for any
\* uploads, clients and clean-ups: the register, the look at the cache and the
\* callbacks leave no gap.
THEOREM NoEventIsMissed == ProgressSpec => []NothingMissed
<1>1. ProgressInv => NothingMissed
    BY DEF ProgressInv, NothingMissed, Served, Listens, Reaches
<1> QED
    BY <1>1, ProgressStarts, ProgressSteps, PTL DEF ProgressSpec

-----------------------------------------------------------------------------
(* IcaoVersions: a check knows which versions are in the table, and which   *)
(* of them it inserted itself.                                              *)

CheckPc == {"idle", "read", "exists", "insert", "notify", "uptodate", "failed"}
Checks == [pc : CheckPc, remote : [Types -> Nat], todo : SUBSET Types, new : SUBSET Types, saved : BOOLEAN]
NatRow == [type : Types, version : Nat]

IcaoShape == check \in [Check -> Checks] /\ portal \in [Types -> Nat]

Saving(k) == check[k].pc \in {"exists", "insert"}

\* Everything found is in the table, but for what is still to be inserted.
KnowsTable(k) ==
    /\ Saving(k) /\ check[k].saved => \A t \in Types \ check[k].todo : Remote(k, t) \in versions
    /\ check[k].pc \in {"uptodate", "notify"} => \A t \in Types : Remote(k, t) \in versions

IcaoInv == IcaoShape /\ \A k \in Check : KnowsTable(k)

\* Rows are only added, so that other checks keep what they know.
LEMMA OtherChecks ==
    ASSUME IcaoInv, NEW k \in Check, versions \subseteq versions', UNCHANGED portal,
           \A l \in Check : l # k => check'[l] = check[l],
           check' \in [Check -> Checks], KnowsTable(k)'
    PROVE  IcaoInv'
BY DEF IcaoInv, IcaoShape, KnowsTable, Saving, Remote

\* One version more is dealt with.
LEMMA AdvanceKnows ==
    ASSUME IcaoInv, NEW k \in Check, Saving(k), NEW t \in check[k].todo, NEW inserted \in BOOLEAN,
           Advance(k, t, inserted), versions \subseteq versions', UNCHANGED portal,
           inserted => Remote(k, t) \in versions'
    PROVE  IcaoInv'
<1> DEFINE rest == check[k].todo \ {t}
           all  == check[k].saved /\ inserted
           todo == IF rest = {} /\ all THEN check[k].new ELSE rest
           pc   == IF rest # {} THEN "exists" ELSE IF all THEN "notify" ELSE "failed"
<1>1. check[k] \in Checks /\ check \in [Check -> Checks]
    BY DEF IcaoInv, IcaoShape
<1>2. rest \subseteq Types /\ todo \subseteq Types /\ all \in BOOLEAN /\ pc \in CheckPc
    BY <1>1 DEF Checks, CheckPc
<1>3. check' = [check EXCEPT ![k].todo = todo, ![k].saved = all, ![k].pc = pc]
    BY DEF Advance
<1>4. /\ pc = "exists" => todo = rest
      /\ pc # "exists" /\ all => rest = {}
      /\ pc = "notify" => all
      /\ pc \in {"exists", "notify", "failed"}
    OBVIOUS
<1> HIDE DEF todo, pc, all
<1>5. /\ check'[k].todo = todo /\ check'[k].saved = all /\ check'[k].pc = pc
      /\ check'[k].remote = check[k].remote
      /\ \A l \in Check : l # k => check'[l] = check[l]
      /\ check' \in [Check -> Checks]
    BY <1>1, <1>2, <1>3 DEF Checks
<1>6. ASSUME all, NEW u \in Types \ rest PROVE Remote(k, u)' \in versions'
    <2>1. check[k].saved /\ inserted
        BY <1>6 DEF all
    <2>2. u = t \/ u \in Types \ check[k].todo
        BY <1>6
    <2>3. Remote(k, u) \in versions'
        BY <2>1, <2>2 DEF IcaoInv, KnowsTable
    <2> QED
        BY <2>3, <1>5 DEF Remote
<1>7. KnowsTable(k)'
    BY <1>4, <1>5, <1>6 DEF KnowsTable, Saving
<1> QED
    BY <1>5, <1>7, OtherChecks

LEMMA CheckSteps ==
    ASSUME IcaoInv, NEW k \in Check,
           \/ Fetch(k) \/ FetchFails(k) \/ Compare(k) \/ Answer(k)
           \/ \E t \in Types : Exists(k, t) \/ InsertVersion(k, t) \/ Notify(k, t)
    PROVE  IcaoInv'
<1> USE DEF IcaoInv
<1>1. check[k] \in Checks /\ check \in [Check -> Checks] /\ portal \in [Types -> Nat]
    BY DEF IcaoShape
<1>2. CASE Fetch(k)
    <2>1. /\ check' = [check EXCEPT ![k].pc = "read", ![k].remote = portal]
          /\ UNCHANGED <<portal, versions>>
        BY <1>2 DEF Fetch
    <2>2. /\ check' \in [Check -> Checks] /\ check'[k].pc = "read"
          /\ \A l \in Check : l # k => check'[l] = check[l]
        BY <1>1, <2>1 DEF Checks, CheckPc
    <2> QED
        BY <2>1, <2>2, OtherChecks DEF KnowsTable, Saving
<1>3. CASE FetchFails(k)
    BY <1>3 DEF FetchFails, IcaoShape, KnowsTable, Saving, Remote
<1>4. CASE Compare(k)
    <2>1. PICK ok \in BOOLEAN : LET new == findNewVersions(k, AllVersions(ok)) IN
              check' = [check EXCEPT ![k].todo = new, ![k].new = new,
                                     ![k].pc = IF new = {} THEN "uptodate" ELSE "exists"]
        BY <1>4 DEF Compare
    <2> DEFINE new == findNewVersions(k, AllVersions(ok))
               pc == IF new = {} THEN "uptodate" ELSE "exists"
    <2>2. new \subseteq Types /\ \A t \in Types \ new : Remote(k, t) \in versions
        BY DEF findNewVersions, AllVersions
    <2>3. pc \in {"uptodate", "exists"} /\ (pc = "uptodate" => new = {})
        OBVIOUS
    <2>4. check' = [check EXCEPT ![k].todo = new, ![k].new = new, ![k].pc = pc]
        BY <2>1
    <2> HIDE DEF new, pc
    <2>5. /\ check' \in [Check -> Checks] /\ check'[k].pc = pc /\ check'[k].todo = new
          /\ check'[k].remote = check[k].remote
          /\ \A l \in Check : l # k => check'[l] = check[l]
        BY <1>1, <2>2, <2>3, <2>4 DEF Checks, CheckPc
    <2>6. UNCHANGED <<portal, versions>>
        BY <1>4 DEF Compare
    <2>7. KnowsTable(k)'
        BY <2>2, <2>3, <2>5, <2>6 DEF KnowsTable, Saving, Remote
    <2> QED
        BY <2>5, <2>6, <2>7, OtherChecks
<1>5. CASE Answer(k)
    <2>1. check' = [check EXCEPT ![k] = Idle] /\ UNCHANGED <<portal, versions>>
        BY <1>5 DEF Answer
    <2>2. Idle \in Checks /\ Idle.pc = "idle"
        BY DEF Idle, Blank, Checks, CheckPc
    <2> QED
        BY <1>1, <2>1, <2>2, OtherChecks DEF KnowsTable, Saving
<1>6. ASSUME NEW t \in Types, Exists(k, t) PROVE IcaoInv'
    <2>1. /\ Saving(k) /\ t \in check[k].todo /\ UNCHANGED <<portal, versions>>
          /\ Advance(k, t, FALSE) \/ check' = [check EXCEPT ![k].pc = "insert"]
        BY <1>6 DEF Exists, Saving, InOrder
    <2>2. CASE Advance(k, t, FALSE)
        BY <2>1, <2>2, AdvanceKnows
    <2>3. CASE check' = [check EXCEPT ![k].pc = "insert"]
        <3>1. /\ check' \in [Check -> Checks] /\ check'[k] = [check[k] EXCEPT !.pc = "insert"]
              /\ \A l \in Check : l # k => check'[l] = check[l]
            BY <1>1, <2>3 DEF Checks, CheckPc
        <3>2. KnowsTable(k)'
            BY <1>1, <2>1, <3>1 DEF KnowsTable, Saving, Remote, Checks
        <3> QED
            BY <2>1, <3>1, <3>2, OtherChecks
    <2> QED
        BY <2>1, <2>2, <2>3
<1>7. ASSUME NEW t \in Types, InsertVersion(k, t) PROVE IcaoInv'
    <2>1. /\ Saving(k) /\ t \in check[k].todo /\ UNCHANGED portal
          /\ \/ versions' = versions \cup {Remote(k, t)} /\ Advance(k, t, TRUE)
             \/ versions' = versions /\ Advance(k, t, FALSE)
        BY <1>7 DEF InsertVersion, Saving, InOrder
    <2> QED
        BY <2>1, AdvanceKnows
<1>8. ASSUME NEW t \in Types, Notify(k, t) PROVE IcaoInv'
    <2>1. /\ check[k].pc = "notify" /\ UNCHANGED <<portal, versions>>
          /\ check' = [check EXCEPT ![k].todo = check[k].todo \ {t}]
        BY <1>8 DEF Notify
    <2>2. /\ check' \in [Check -> Checks] /\ check'[k].pc = "notify"
          /\ check'[k].remote = check[k].remote
          /\ \A l \in Check : l # k => check'[l] = check[l]
        BY <1>1, <2>1 DEF Checks
    <2>3. KnowsTable(k)'
        BY <2>1, <2>2 DEF KnowsTable, Saving, Remote
    <2> QED
        BY <2>1, <2>2, <2>3, OtherChecks
<1> QED
    BY <1>2, <1>3, <1>4, <1>5, <1>6, <1>7, <1>8

LEMMA IcaoSteps == IcaoInv /\ [IcaoNext]_icaoVars => IcaoInv'
<1> SUFFICES ASSUME IcaoInv, [IcaoNext]_icaoVars PROVE IcaoInv'
    OBVIOUS
<1>1. CASE UNCHANGED icaoVars \/ \E t \in Types : UploadFile(t)
    BY <1>1 DEF icaoVars, UploadFile, IcaoInv, IcaoShape, KnowsTable, Saving, Remote
<1>2. ASSUME NEW t \in Types, Publish(t) PROVE IcaoInv'
    <2>1. portal' = [portal EXCEPT ![t] = portal[t] + 1] /\ UNCHANGED <<check, versions>>
        BY <1>2 DEF Publish
    <2>2. portal' \in [Types -> Nat]
        BY <2>1 DEF IcaoInv, IcaoShape
    <2> QED
        BY <2>1, <2>2 DEF IcaoInv, IcaoShape, KnowsTable, Saving, Remote
<1>3. CASE IcaoRestart
    BY <1>3 DEF IcaoRestart, IcaoInv, IcaoShape, KnowsTable, Saving, Idle, Blank, Checks, CheckPc
<1> QED
    BY <1>1, <1>2, <1>3, CheckSteps DEF IcaoNext

\* A check that answers with success, "up to date" or not, read a page whose
\* versions are all in the table, for any collections and checks and whatever
\* failed or interleaved: the count of the inserts that failed is kept to the end.
THEOREM SuccessIsStored == IcaoSpec => []SuccessMeansStored
<1>1. IcaoInit => IcaoInv
    BY IcaoAssumption DEF IcaoInit, IcaoInv, IcaoShape, KnowsTable, Saving, Idle, Blank, Checks, CheckPc
<1>2. IcaoInv => SuccessMeansStored
    BY DEF IcaoInv, KnowsTable, SuccessMeansStored
<1> QED
    BY <1>1, <1>2, IcaoSteps, PTL DEF IcaoSpec

-----------------------------------------------------------------------------
(* The certificates of master lists and of single files.                   *)

AtCert == {"look", "insert", "track", "increment", "publish", "flag"}
\* The row that is there is known, and what is still to be written goes by its id.
KnowsRow == {"track", "increment", "publish", "flag"}

StepType == [pc : AtCert \cup {"finish", "fail", "over"}, at : Nat, id : Nat, new : BOOLEAN, csca : Nat]

RowType == [id : Nat, owner : SUBSET Import, seen : SUBSET Import, dup : Nat, flag : BOOLEAN]
UploadType == [status : {"PENDING", "PROCESSING", "COMPLETED", "FAILED", "deleted"}, csca : Nat]

ImportTyped ==
    /\ dbType \in {"postgres", "oracle"}
    /\ contents \in [Import -> Contents]
    /\ upload \in [Import -> UploadType] /\ certRow \in [Item -> RowType]
    /\ ids \in [Item -> Nat] /\ fpCache \in [Item -> Nat]
    /\ step \in [Import -> StepType]

\* A row's id is the last one given out. On Oracle no row is ever deleted.
RowsNumbered ==
    /\ \A x \in Item : IF HasRow(x) THEN certRow[x].id = ids[x] ELSE certRow[x] = NoCert
    /\ \A x \in Item : fpCache[x] # 0 => ids[x] # 0
    /\ \A t \in tracked : t[2] # 0
    /\ dbType = "oracle" => \A x \in Item : ids[x] = certRow[x].id /\ fpCache[x] \in {0, certRow[x].id}

\* The certificate was stored once, or the history says why not.
KeptCert(j, x) == ids[x] # 0 \/ <<j, x>> \in slipped \/ ~HasUpload(j)
\* Its row names the list as its owner or as one of its sources.
Named(j, x) == j \in certRow[x].owner \/ <<x, certRow[x].id, j>> \in tracked \/ <<j, x>> \in slipped

\* Where a thread is, and what that says of the certificate it has in hand.
ThreadOK(j) ==
    /\ step[j].at \in 1..(Len(Items(j)) + 1)
    /\ step[j].pc \in AtCert => step[j].at <= Len(Items(j))
    /\ step[j].pc = "finish" \/ upload[j].status = "COMPLETED" => step[j].at = Len(Items(j)) + 1
    /\ upload[j].status = "COMPLETED" => step[j].pc = "over"
    /\ step[j].pc \in KnowsRow => step[j].id # 0 /\ ids[Now(j)] # 0
    /\ step[j].pc = "flag" => Now(j) \in published
    /\ dbType = "oracle" /\ step[j].pc = "track" => step[j].id = certRow[Now(j)].id
    /\ dbType = "oracle" /\ IsList(j) /\ step[j].pc \in KnowsRow \ {"track"} => Named(j, Now(j))
ThreadsOK == \A j \in Import : ThreadOK(j)

\* Nothing behind the thread was forgotten.
BehindOK ==
    \A j \in Import, x \in Item : (\E k \in 1..(step[j].at - 1) : Items(j)[k] = x) =>
        /\ KeptCert(j, x)
        /\ dbType = "oracle" /\ IsList(j) => Named(j, x)

ImportInv == ImportTyped /\ RowsNumbered /\ ThreadsOK /\ BehindOK /\ FlagMeansEntry

-----------------------------------------------------------------------------
(* What no step takes back.                                                *)

Evolves ==
    /\ dbType' = dbType /\ contents' = contents
    /\ published \subseteq published' /\ slipped \subseteq slipped'
    /\ \A x \in Item : ids[x] # 0 => ids'[x] # 0
    /\ \A j \in Import : upload[j].status = "deleted" => upload'[j].status = "deleted"
    /\ dbType = "oracle" =>
        /\ tracked \subseteq tracked'
        /\ \A x \in Item : HasRow(x) => certRow'[x].id = certRow[x].id /\ certRow'[x].owner = certRow[x].owner

\* A file's certificates are signers and what is listed.
LEMMA ItemsTyped ==
    ASSUME ImportTyped, NEW j \in Import
    PROVE  /\ Items(j) \in Seq(Item) /\ Len(Items(j)) \in Nat
           /\ \A k \in 1..Len(Items(j)) : Items(j)[k] \in Item
<1>1. contents[j].signers \in Seq(Item) /\ contents[j].certs \in Seq(Item)
    BY ContentsAssumption DEF ImportTyped, Item
<1>2. Items(j) \in Seq(Item)
    BY <1>1 DEF Items
<1> QED
    BY <1>2

\* What a row names stays named.
LEMMA NamedStays ==
    ASSUME ImportInv, Evolves, NEW j \in Import, NEW x \in Item
    PROVE  /\ KeptCert(j, x) => KeptCert(j, x)'
           /\ dbType = "oracle" /\ Named(j, x) => Named(j, x)'
<1> USE DEF ImportInv
<1>1. KeptCert(j, x) => KeptCert(j, x)'
    BY DEF KeptCert, Evolves, HasUpload
<1>2. ASSUME dbType = "oracle", Named(j, x), <<j, x>> \notin slipped PROVE Named(j, x)'
    <2>1. HasRow(x)
        BY <1>2 DEF Named, RowsNumbered, HasRow, NoCert
    <2> QED
        BY <1>2, <2>1 DEF Named, Evolves
<1> QED
    BY <1>1, <1>2 DEF Named, Evolves

\* A thread that does not move has what it had.
LEMMA ThreadStays ==
    ASSUME ImportInv, Evolves, NEW i \in Import, step'[i] = step[i],
           upload'[i].status \in {upload[i].status, "deleted"}
    PROVE  ThreadOK(i)'
<1> USE DEF ImportInv
<1>1. Items(i)' = Items(i) /\ Now(i)' = Now(i) /\ IsList(i)' = IsList(i)
    BY DEF Items, Now, IsList, Evolves
<1>2. ThreadOK(i)
    BY DEF ThreadsOK
<1> PICK x : x = Now(i)
    OBVIOUS
<1>3. step[i].pc \in AtCert => x \in Item
    BY <1>2, ItemsTyped DEF Now, ThreadOK, ImportTyped
<1>4. step[i].pc \in KnowsRow => /\ ids'[x] # 0
                                 /\ dbType = "oracle" => HasRow(x) /\ certRow'[x].id = certRow[x].id
    BY <1>2, <1>3 DEF ThreadOK, Evolves, RowsNumbered, HasRow, AtCert, KnowsRow
<1>5. dbType = "oracle" /\ IsList(i) /\ step[i].pc \in KnowsRow \ {"track"} => Named(i, x)'
    BY <1>2, <1>3, NamedStays DEF ThreadOK, AtCert, KnowsRow
<1>6. dbType = "oracle" /\ IsList(i) /\ step[i].pc \in KnowsRow \ {"track"} => Named(i, Now(i))'
    BY <1>1, <1>5 DEF Named
<1>7. "track" \in KnowsRow
    BY DEF KnowsRow
<1> QED
    BY <1>1, <1>2, <1>3, <1>4, <1>6, <1>7 DEF ThreadOK, Evolves, AtCert

\* One thread moves, by no more than one certificate, which it leaves accounted for.
LEMMA ImportStepKeeps ==
    ASSUME ImportInv, Evolves, ImportTyped', RowsNumbered', FlagMeansEntry', NEW j \in Import,
           \A i \in Import \ {j} : step'[i] = step[i] /\ upload'[i].status = upload[i].status,
           ThreadOK(j)', NEW h, h = Now(j),
           \/ step'[j].at = step[j].at
           \/ /\ step'[j].at = step[j].at + 1
              /\ KeptCert(j, h)'
              /\ dbType = "oracle" /\ IsList(j) => Named(j, h)'
    PROVE  ImportInv'
<1> USE DEF ImportInv
<1>1. ThreadsOK'
    BY ThreadStays DEF ThreadsOK
<1>2. \A i \in Import : Items(i)' = Items(i) /\ IsList(i)' = IsList(i)
    BY DEF Items, IsList, Evolves
<1>3. ASSUME NEW i \in Import, NEW x \in Item, NEW k \in 1..(step'[i].at - 1), Items(i)[k] = x
      PROVE  KeptCert(i, x)' /\ (dbType = "oracle" /\ IsList(i) => Named(i, x)')
    <2>1. CASE k \in 1..(step[i].at - 1)
        BY <1>3, <2>1, NamedStays DEF BehindOK
    <2>2. CASE k \notin 1..(step[i].at - 1)
        <3>0. step[i].at \in Nat
            BY DEF ImportTyped, StepType
        <3>1. i = j /\ step'[j].at = step[j].at + 1 /\ k = step[j].at
            BY <2>2, <3>0
        <3>2. x = h
            BY <1>3, <3>1 DEF Now
        <3> QED
            BY <3>1, <3>2
    <2> QED
        BY <2>1, <2>2
<1>4. BehindOK'
    BY <1>2, <1>3 DEF BehindOK, Evolves
<1> QED
    BY <1>1, <1>4

\* No thread moves.
LEMMA AroundKeeps ==
    ASSUME ImportInv, Evolves, ImportTyped', RowsNumbered', FlagMeansEntry', step' = step,
           \A i \in Import : upload'[i].status \in {upload[i].status, "deleted"}
    PROVE  ImportInv'
<1> USE DEF ImportInv
<1>1. ThreadsOK'
    BY ThreadStays DEF ThreadsOK
<1>2. \A i \in Import : Items(i)' = Items(i) /\ IsList(i)' = IsList(i)
    BY DEF Items, IsList, Evolves
<1>3. BehindOK'
    BY <1>2, NamedStays DEF BehindOK, Evolves
<1> QED
    BY <1>1, <1>3

-----------------------------------------------------------------------------
(* The steps of a thread.                                                  *)

\* Control: one thread, to another step of its certificate or to the next one.
Moves(j) ==
    /\ step' \in [Import -> StepType]
    /\ \A i \in Import \ {j} : step'[i] = step[i]

\* Leaving a certificate, a thread comes to the next one or to the end.
LEMMA NextItemMoves ==
    ASSUME ImportTyped, NEW j \in Import, ThreadOK(j), step[j].pc \in AtCert, NextItem(j)
    PROVE  /\ Moves(j) /\ step'[j].at = step[j].at + 1
           /\ step'[j].pc \in {"look", "finish", "fail"}
           /\ step'[j].at \in 1..(Len(Items(j)) + 1)
           /\ step'[j].pc = "look" => step'[j].at <= Len(Items(j))
           /\ step'[j].pc = "finish" => step'[j].at = Len(Items(j)) + 1
<1>1. step[j].at \in Nat /\ Len(Items(j)) \in Nat
    BY ItemsTyped DEF ImportTyped, StepType
<1>2. step[j].at \in 1..Len(Items(j))
    BY DEF ThreadOK
<1> PICK l : l = AtItem(j, step[j].at + 1)
    OBVIOUS
<1>3. /\ l \in {"look", "finish", "fail"}
      /\ l = "look" <=> step[j].at + 1 <= Len(Items(j))
    BY DEF AtItem, Items
<1>4. step' = [step EXCEPT ![j] = [step[j] EXCEPT !.at = step[j].at + 1, !.pc = l]]
    BY DEF NextItem, ImportTyped
<1>5. step'[j].at = step[j].at + 1 /\ step'[j].pc = l
    BY <1>4 DEF ImportTyped, StepType
<1> PICK e : e = [step[j] EXCEPT !.at = step[j].at + 1, !.pc = l]
    OBVIOUS
<1>6. e \in StepType
    <2>1. step[j].at + 1 \in Nat /\ l \in AtCert \cup {"finish", "fail", "over"}
        BY <1>1, <1>3 DEF AtCert
    <2> QED
        BY <2>1 DEF ImportTyped, StepType
<1>7. Moves(j)
    BY <1>4, <1>6 DEF Moves, ImportTyped
<1>8. step[j].at + 1 \in 1..(Len(Items(j)) + 1) /\ (l = "finish" => step[j].at + 1 = Len(Items(j)) + 1)
    BY <1>1, <1>2, <1>3
<1> QED
    BY <1>1, <1>3, <1>5, <1>7, <1>8

\* Any other step keeps the thread at its certificate.
LEMMA StepToMoves ==
    ASSUME ImportTyped, NEW j \in Import, NEW l \in AtCert \cup {"over"}, StepTo(j, l)
    PROVE  Moves(j) /\ step'[j] = [step[j] EXCEPT !.pc = l]
BY DEF ImportTyped, StepType, Moves, StepTo, AtCert

\* So does finding the row that was there.
LEMMA IsDuplicateMoves ==
    ASSUME ImportTyped, NEW j \in Import, NEW id \in Nat, IsDuplicate(j, id)
    PROVE  /\ Moves(j) /\ step'[j].at = step[j].at /\ step'[j].id = id /\ ~step'[j].new
           /\ step'[j].pc = IF IsList(j) THEN "track" ELSE "publish"
<1> DEFINE n == IF IsList(j) THEN step[j].csca ELSE step[j].csca + 1
           l == IF IsList(j) THEN "track" ELSE "publish"
<1>1. n \in Nat /\ l \in AtCert
    BY DEF ImportTyped, StepType, AtCert
<1>2. step' = [step EXCEPT ![j] = [step[j] EXCEPT !.id = id, !.new = FALSE, !.csca = n, !.pc = l]]
    BY DEF IsDuplicate, ImportTyped
<1> HIDE DEF n
<1>3. [step[j] EXCEPT !.id = id, !.new = FALSE, !.csca = n, !.pc = l] \in StepType
    BY <1>1 DEF ImportTyped, StepType
<1> QED
    BY <1>2, <1>3 DEF ImportTyped, Moves, StepType

\* What a thread has in hand is a certificate.
LEMMA NowTyped ==
    ASSUME ImportInv, NEW j \in Import, step[j].pc \in AtCert
    PROVE  Now(j) \in Item /\ upload[j].status # "COMPLETED"
<1>1. ThreadOK(j) /\ ImportTyped
    BY DEF ImportInv, ThreadsOK
<1>2. step[j].at \in 1..Len(Items(j))
    BY <1>1, ItemsTyped DEF ThreadOK, ImportTyped, StepType
<1> QED
    BY <1>1, <1>2, ItemsTyped DEF Now, ThreadOK, AtCert

\* It goes on with the same certificate ...
LEMMA SameCertKeeps ==
    ASSUME ImportInv, Evolves, ImportTyped', RowsNumbered', FlagMeansEntry', NEW j \in Import,
           NEW h, h = Now(j), upload' = upload, Moves(j), step[j].pc \in AtCert,
           step'[j].at = step[j].at, step'[j].pc \in AtCert,
           step'[j].pc \in KnowsRow => step'[j].id # 0 /\ ids'[h] # 0,
           step'[j].pc = "flag" => h \in published',
           dbType = "oracle" /\ step'[j].pc = "track" => step'[j].id = certRow'[h].id,
           dbType = "oracle" /\ IsList(j) /\ step'[j].pc \in KnowsRow \ {"track"} => Named(j, h)'
    PROVE  ImportInv'
<1>1. ThreadOK(j) /\ upload[j].status # "COMPLETED"
    BY NowTyped DEF ImportInv, ThreadsOK
<1>2. Items(j)' = Items(j) /\ Now(j)' = h /\ IsList(j)' = IsList(j) /\ dbType' = dbType
    BY DEF Items, Now, IsList, Evolves
<1>3. Named(j, h)' => Named(j, Now(j))'
    BY <1>2 DEF Named
<1>4. ThreadOK(j)'
    BY <1>1, <1>2, <1>3 DEF ThreadOK, AtCert
<1> QED
    BY <1>4, ImportStepKeeps DEF Moves

\* ... or leaves it for the next.
LEMMA NextCertKeeps ==
    ASSUME ImportInv, Evolves, ImportTyped', RowsNumbered', FlagMeansEntry', NEW j \in Import,
           NEW h, h = Now(j), upload' = upload, step[j].pc \in AtCert, NextItem(j),
           KeptCert(j, h)', dbType = "oracle" /\ IsList(j) => Named(j, h)'
    PROVE  ImportInv'
<1>1. ThreadOK(j) /\ upload[j].status # "COMPLETED" /\ ImportTyped
    BY NowTyped DEF ImportInv, ThreadsOK
<1>2. /\ Moves(j) /\ step'[j].at = step[j].at + 1
      /\ step'[j].pc \in {"look", "finish", "fail"}
      /\ step'[j].at \in 1..(Len(Items(j)) + 1)
      /\ step'[j].pc = "look" => step'[j].at <= Len(Items(j))
      /\ step'[j].pc = "finish" => step'[j].at = Len(Items(j)) + 1
    BY <1>1, NextItemMoves
<1>3. Items(j)' = Items(j)
    BY DEF Items, Evolves
<1>4. ThreadOK(j)'
    BY <1>1, <1>2, <1>3 DEF ThreadOK, AtCert, KnowsRow
<1> QED
    BY <1>2, <1>4, ImportStepKeeps DEF Moves

\* A statement that changes no row, at most the list of sources.
LEMMA RowsAsTheyWere ==
    ASSUME ImportInv, UNCHANGED <<dbType, contents, upload, certRow, ids, fpCache>>, step' \in [Import -> StepType],
           slipped \subseteq slipped', published \subseteq published', tracked \subseteq tracked',
           \A t \in tracked' : t[2] # 0
    PROVE  Evolves /\ ImportTyped' /\ RowsNumbered' /\ FlagMeansEntry'
BY DEF ImportInv, ImportTyped, RowsNumbered, HasRow, FlagMeansEntry, Evolves

\* A failed statement is remembered.
LEMMA SlipFacts ==
    ASSUME NEW j \in Import, NEW h, h = Now(j)
    PROVE  /\ NoSlip => slipped' = slipped
           /\ Slip(j) => slipped \subseteq slipped' /\ KeptCert(j, h)' /\ Named(j, h)'
BY DEF Slip, NoSlip, KeptCert, Named

\* saveCertificateWithDuplicateCheck finds the row or goes on to insert one.
LEMMA LookKeeps ==
    ASSUME ImportInv, NEW j \in Import, Look(j)
    PROVE  ImportInv'
<1> USE DEF ImportInv
<1> PICK h : h = Now(j)
    OBVIOUS
<1>1. step[j].pc = "look" /\ UNCHANGED <<dbType, contents, upload, stores, cached>>
    BY DEF Look
<1>2. step[j].pc \in AtCert /\ h \in Item
    BY <1>1, NowTyped DEF AtCert
<1>3. \A t \in tracked' : t[2] # 0
    BY <1>1 DEF RowsNumbered, stores
<1> DEFINE known == IF cacheOn THEN fpCache[h] ELSE certRow[h].id
<1>4. known \in Nat /\ (known # 0 => ids[h] # 0) /\ (dbType = "oracle" /\ known # 0 => known = certRow[h].id)
    BY <1>2 DEF ImportTyped, RowsNumbered, HasRow
<1>5. \/ known # 0 /\ IsDuplicate(j, known) /\ NoSlip
      \/ StepTo(j, "insert") /\ NoSlip
      \/ Slip(j) /\ NextItem(j)
    BY DEF Look
<1> HIDE DEF known
<1>6. CASE known # 0 /\ IsDuplicate(j, known) /\ NoSlip
    <2>1. /\ Moves(j) /\ step'[j].at = step[j].at /\ step'[j].id = known
          /\ step'[j].pc = IF IsList(j) THEN "track" ELSE "publish"
        BY <1>4, <1>6, IsDuplicateMoves
    <2>2. Evolves /\ ImportTyped' /\ RowsNumbered' /\ FlagMeansEntry'
        BY <1>1, <1>3, <1>6, <2>1, SlipFacts, RowsAsTheyWere DEF stores, cached, Moves
    <2>3. ids' = ids /\ certRow' = certRow
        BY <1>1 DEF stores
    <2> QED
        BY <1>1, <1>2, <1>4, <1>6, <2>1, <2>2, <2>3, SameCertKeeps DEF AtCert, KnowsRow
<1>7. CASE StepTo(j, "insert") /\ NoSlip
    <2>1. Moves(j) /\ step'[j] = [step[j] EXCEPT !.pc = "insert"]
        BY <1>7, StepToMoves DEF AtCert
    <2>2. Evolves /\ ImportTyped' /\ RowsNumbered' /\ FlagMeansEntry'
        BY <1>1, <1>3, <1>7, <2>1, SlipFacts, RowsAsTheyWere DEF stores, cached, Moves
    <2>3. step'[j].pc = "insert" /\ step'[j].at = step[j].at
        BY <2>1 DEF ImportTyped, StepType
    <2> QED
        BY <1>1, <1>2, <2>1, <2>2, <2>3, SameCertKeeps DEF AtCert, KnowsRow
<1>8. CASE Slip(j) /\ NextItem(j)
    <2>1. Moves(j)
        BY <1>2, <1>8, NextItemMoves DEF ThreadsOK
    <2>2. slipped \subseteq slipped' /\ KeptCert(j, h)' /\ Named(j, h)'
        BY <1>8, SlipFacts
    <2>3. Evolves /\ ImportTyped' /\ RowsNumbered' /\ FlagMeansEntry'
        BY <1>1, <1>3, <2>1, <2>2, RowsAsTheyWere DEF stores, cached, Moves
    <2> QED
        BY <1>1, <1>2, <1>8, <2>2, <2>3, NextCertKeeps
<1> QED
    BY <1>5, <1>6, <1>7, <1>8

\* A new row takes nothing away: there was none.
LEMMA CreatedKeeps ==
    ASSUME ImportInv, NEW j \in Import, NEW h \in Item, h = Now(j), MayInsert(j), Created(j),
           UNCHANGED <<dbType, contents, upload, tracked, published>>, slipped \subseteq slipped',
           step' \in [Import -> StepType], fpCache' \in {fpCache, [fpCache EXCEPT ![h] = ids'[h]]}
    PROVE  /\ Evolves /\ ImportTyped' /\ RowsNumbered' /\ FlagMeansEntry'
           /\ ids'[h] \in Nat \ {0} /\ certRow'[h].id = ids'[h] /\ Named(j, h)'
<1> USE DEF ImportInv
<1> DEFINE new == [NoCert EXCEPT !.id = ids[h] + 1, !.owner = {j}]
<1>1. ids[h] \in Nat /\ ids[h] + 1 # 0 /\ ids[h] + 1 \in Nat
    BY DEF ImportTyped
<1>2. /\ new \in RowType
      /\ new.id = ids[h] + 1 /\ new.owner = {j} /\ ~new.flag
    BY <1>1 DEF NoCert, RowType
<1>3. ids' = [ids EXCEPT ![h] = ids[h] + 1] /\ certRow' = [certRow EXCEPT ![h] = new]
    BY DEF Created
<1> HIDE DEF new
<1>4. ids'[h] = ids[h] + 1 /\ certRow'[h] = new
    BY <1>3 DEF ImportTyped
<1>5. \A x \in Item \ {h} : ids'[x] = ids[x] /\ certRow'[x] = certRow[x]
    BY <1>3 DEF ImportTyped
<1>6. ~HasRow(h)
    BY DEF MayInsert
<1>7. /\ certRow' \in [Item -> RowType]
      /\ ids' \in [Item -> Nat] /\ fpCache' \in [Item -> Nat]
      /\ \A x \in Item : fpCache'[x] = fpCache[x] \/ (x = h /\ fpCache'[x] = ids'[h])
    BY <1>1, <1>2, <1>3, <1>4 DEF ImportTyped
<1>8. ImportTyped'
    BY <1>7 DEF ImportTyped
<1>9. RowsNumbered'
    <2>1. ASSUME NEW x \in Item
          PROVE  /\ IF certRow'[x].id # 0 THEN certRow'[x].id = ids'[x] ELSE certRow'[x] = NoCert
                 /\ fpCache'[x] # 0 => ids'[x] # 0
                 /\ dbType = "oracle" => ids'[x] = certRow'[x].id /\ fpCache'[x] \in {0, certRow'[x].id}
        <3>1. CASE x = h
            <4>1. dbType = "oracle" => ids[h] = 0 /\ fpCache[h] = 0
                BY <1>6 DEF RowsNumbered, HasRow
            <4> QED
                BY <1>1, <1>2, <1>4, <1>7, <3>1, <4>1
        <3>2. CASE x # h
            BY <1>5, <1>7, <3>2 DEF RowsNumbered, HasRow
        <3> QED
            BY <3>1, <3>2
    <2> QED
        BY <2>1 DEF RowsNumbered, HasRow
<1>10. Evolves
    BY <1>1, <1>4, <1>5, <1>6 DEF Evolves
<1>11. FlagMeansEntry'
    BY <1>2, <1>4, <1>5 DEF FlagMeansEntry
<1> QED
    BY <1>1, <1>2, <1>4, <1>8, <1>9, <1>10, <1>11 DEF Named

\* Whoever loses the race to insert finds the row of the winner.
LEMMA InsertKeeps ==
    ASSUME ImportInv, NEW j \in Import, Insert(j)
    PROVE  ImportInv'
<1> USE DEF ImportInv
<1> PICK h : h = Now(j)
    OBVIOUS
<1>1. step[j].pc = "insert" /\ UNCHANGED <<dbType, contents, upload, tracked, published, cacheOn>>
    BY DEF Insert
<1>2. step[j].pc \in AtCert /\ h \in Item
    BY <1>1, NowTyped DEF AtCert
<1>3. \A t \in tracked' : t[2] # 0
    BY <1>1 DEF RowsNumbered
<1>4. CASE /\ MayInsert(j) /\ Created(j) /\ NoSlip
           /\ fpCache' = IF cacheOn THEN [fpCache EXCEPT ![h] = ids'[h]] ELSE fpCache
           /\ step' = [step EXCEPT ![j].id = ids'[h], ![j].new = TRUE,
                                   ![j].csca = IF h \in Listed THEN @ + 1 ELSE @,
                                   ![j].pc = IF OfSigner(j) THEN "track" ELSE "publish"]
    <2> DEFINE n == IF h \in Listed THEN step[j].csca + 1 ELSE step[j].csca
               l == IF OfSigner(j) THEN "track" ELSE "publish"
    <2>1. n \in Nat /\ l \in AtCert /\ l \in {"track", "publish"}
        BY DEF ImportTyped, StepType, AtCert
    <2>2. step' = [step EXCEPT ![j] = [step[j] EXCEPT !.id = ids'[h], !.new = TRUE, !.csca = n, !.pc = l]]
        BY <1>4 DEF ImportTyped
    <2>3. ids'[h] \in Nat
        BY <1>2, <1>4 DEF Created, ImportTyped
    <2> HIDE DEF n, l
    <2>4. [step[j] EXCEPT !.id = ids'[h], !.new = TRUE, !.csca = n, !.pc = l] \in StepType
        BY <2>1, <2>3 DEF ImportTyped, StepType
    <2>5. Moves(j) /\ step'[j].at = step[j].at /\ step'[j].id = ids'[h] /\ step'[j].pc = l
        BY <2>2, <2>4 DEF ImportTyped, Moves, StepType
    <2>6. /\ Evolves /\ ImportTyped' /\ RowsNumbered' /\ FlagMeansEntry'
          /\ ids'[h] \in Nat \ {0} /\ certRow'[h].id = ids'[h] /\ Named(j, h)'
        BY <1>1, <1>2, <1>4, <2>5, SlipFacts, CreatedKeeps DEF Moves
    <2> QED
        BY <1>1, <1>2, <2>1, <2>5, <2>6, SameCertKeeps
<1>5. CASE /\ dbType = "oracle" /\ HasRow(h) /\ IsDuplicate(j, certRow[h].id)
           /\ NoSlip /\ UNCHANGED <<certRow, ids, fpCache>>
    <2>1. certRow[h].id \in Nat \ {0} /\ ids[h] # 0
        BY <1>2, <1>5 DEF ImportTyped, HasRow, RowsNumbered
    <2>2. /\ Moves(j) /\ step'[j].at = step[j].at /\ step'[j].id = certRow[h].id
          /\ step'[j].pc = IF IsList(j) THEN "track" ELSE "publish"
        BY <1>5, <2>1, IsDuplicateMoves
    <2>3. Evolves /\ ImportTyped' /\ RowsNumbered' /\ FlagMeansEntry'
        BY <1>1, <1>3, <1>5, <2>2, SlipFacts, RowsAsTheyWere DEF Moves
    <2> QED
        BY <1>1, <1>2, <1>5, <2>1, <2>2, <2>3, SameCertKeeps DEF AtCert, KnowsRow
<1>6. CASE /\ dbType = "postgres" /\ ~MayInsert(j) /\ NextItem(j)
           /\ NoSlip /\ UNCHANGED <<certRow, ids, fpCache>>
    <2>1. Moves(j)
        BY <1>2, <1>6, NextItemMoves DEF ThreadsOK
    <2>2. Evolves /\ ImportTyped' /\ RowsNumbered' /\ FlagMeansEntry'
        BY <1>1, <1>3, <1>6, <2>1, SlipFacts, RowsAsTheyWere DEF Moves
    <2>3. KeptCert(j, h)'
        BY <1>1, <1>2, <1>6 DEF KeptCert, MayInsert, RowsNumbered, HasRow, HasUpload
    <2> QED
        BY <1>1, <1>2, <1>6, <2>2, <2>3, NextCertKeeps
<1>7. CASE /\ Slip(j) /\ NextItem(j) /\ UNCHANGED fpCache
           /\ (MayInsert(j) /\ Created(j)) \/ UNCHANGED <<certRow, ids>>
    <2>1. Moves(j)
        BY <1>2, <1>7, NextItemMoves DEF ThreadsOK
    <2>2. slipped \subseteq slipped' /\ KeptCert(j, h)' /\ Named(j, h)'
        BY <1>7, SlipFacts
    <2>3. Evolves /\ ImportTyped' /\ RowsNumbered' /\ FlagMeansEntry'
        <3>1. CASE MayInsert(j) /\ Created(j)
            BY <1>1, <1>2, <1>7, <2>1, <2>2, <3>1, CreatedKeeps DEF Moves
        <3>2. CASE UNCHANGED <<certRow, ids>>
            BY <1>1, <1>3, <1>7, <2>1, <2>2, <3>2, RowsAsTheyWere DEF Moves
        <3> QED
            BY <1>7, <3>1, <3>2
    <2> QED
        BY <1>1, <1>2, <1>7, <2>2, <2>3, NextCertKeeps
<1> QED
    BY <1>4, <1>5, <1>6, <1>7 DEF Insert

\* On Oracle the source that is written names the row by its id.
LEMMA TrackKeeps ==
    ASSUME ImportInv, NEW j \in Import, TrackDuplicate(j)
    PROVE  ImportInv'
<1> USE DEF ImportInv
<1> PICK h : h = Now(j)
    OBVIOUS
<1>1. step[j].pc = "track" /\ UNCHANGED <<dbType, contents, upload, certRow, ids, published, cached>>
    BY DEF TrackDuplicate
<1>2. step[j].pc \in AtCert /\ h \in Item /\ ids[h] # 0 /\ step[j].id # 0
    BY <1>1, NowTyped DEF AtCert, KnowsRow, ThreadsOK, ThreadOK
<1>3. \/ NoSlip /\ (tracked' = tracked \/ tracked' = tracked \cup {<<h, step[j].id, j>>})
      \/ Slip(j) /\ UNCHANGED tracked
    BY DEF TrackDuplicate
<1>4. /\ slipped \subseteq slipped' /\ tracked \subseteq tracked'
      /\ \A t \in tracked' : t[2] # 0
    BY <1>2, <1>3, SlipFacts DEF RowsNumbered
<1>5. dbType = "oracle" => Named(j, h)'
    <2>1. CASE Slip(j)
        BY <2>1, SlipFacts
    <2>2. CASE dbType = "oracle" /\ ~Slip(j)
        <3>1. <<h, step[j].id, j>> \in tracked' /\ step[j].id = certRow[h].id
            BY <1>1, <2>2 DEF TrackDuplicate, Referable, ThreadsOK, ThreadOK
        <3> QED
            BY <1>1, <3>1 DEF Named
    <2> QED
        BY <2>1, <2>2
<1>6. KeptCert(j, h)'
    BY <1>1, <1>2 DEF KeptCert
<1>7. CASE NextItem(j)
    <2>1. Moves(j)
        BY <1>2, <1>7, NextItemMoves DEF ThreadsOK
    <2>2. Evolves /\ ImportTyped' /\ RowsNumbered' /\ FlagMeansEntry'
        BY <1>1, <1>4, <2>1, RowsAsTheyWere DEF cached, Moves
    <2> QED
        BY <1>1, <1>2, <1>5, <1>6, <1>7, <2>2, NextCertKeeps
<1>8. ASSUME NEW l \in {"publish", "increment"}, StepTo(j, l) PROVE ImportInv'
    <2>1. Moves(j) /\ step'[j] = [step[j] EXCEPT !.pc = l] /\ l \in AtCert
        BY <1>8, StepToMoves DEF AtCert
    <2>2. Evolves /\ ImportTyped' /\ RowsNumbered' /\ FlagMeansEntry'
        BY <1>1, <1>4, <2>1, RowsAsTheyWere DEF cached, Moves
    <2>3. step'[j].pc = l /\ step'[j].at = step[j].at /\ step'[j].id = step[j].id
        BY <2>1 DEF ImportTyped, StepType
    <2> QED
        BY <1>1, <1>2, <1>5, <2>1, <2>2, <2>3, SameCertKeeps
<1> QED
    BY <1>7, <1>8 DEF TrackDuplicate

\* An UPDATE of a row that is there.
LEMMA TouchedKeeps ==
    ASSUME ImportInv, NEW h \in Item, HasRow(h),
           NEW new \in RowType,
           new.id = certRow[h].id, new.owner = certRow[h].owner, new.flag => h \in published,
           certRow' \in {certRow, [certRow EXCEPT ![h] = new]},
           UNCHANGED <<dbType, contents, upload, ids, tracked, published, fpCache>>,
           slipped \subseteq slipped', step' \in [Import -> StepType]
    PROVE  Evolves /\ ImportTyped' /\ RowsNumbered' /\ FlagMeansEntry'
<1> USE DEF ImportInv
<1>1. \A x \in Item : certRow'[x] = certRow[x] \/ (x = h /\ certRow'[x] = new)
    BY DEF ImportTyped
<1>2. ImportTyped'
    BY DEF ImportTyped
<1>3. RowsNumbered'
    BY <1>1 DEF RowsNumbered, HasRow
<1>4. FlagMeansEntry'
    BY <1>1 DEF FlagMeansEntry
<1>5. Evolves
    BY <1>1 DEF Evolves
<1> QED
    BY <1>2, <1>3, <1>4, <1>5

\* The count of duplicates names no one.
LEMMA IncrementKeeps ==
    ASSUME ImportInv, NEW j \in Import, IncrementDuplicateCount(j)
    PROVE  ImportInv'
<1> USE DEF ImportInv
<1> PICK h : h = Now(j)
    OBVIOUS
<1>1. /\ step[j].pc = "increment" /\ NextItem(j)
      /\ UNCHANGED <<dbType, contents, upload, ids, tracked, published, cached>>
    BY DEF IncrementDuplicateCount
<1>2. step[j].pc \in AtCert /\ h \in Item /\ ids[h] # 0 /\ step[j].id # 0
    BY <1>1, NowTyped DEF AtCert, KnowsRow, ThreadsOK, ThreadOK
<1>3. dbType = "oracle" /\ IsList(j) => Named(j, h)
    BY <1>1 DEF KnowsRow, ThreadsOK, ThreadOK
<1> DEFINE new == [certRow[h] EXCEPT !.dup = certRow[h].dup + 1, !.seen = {j}]
<1>4. /\ certRow' = certRow \/ (certRow[h].id = step[j].id /\ certRow' = [certRow EXCEPT ![h] = new])
      /\ NoSlip \/ Slip(j)
    BY DEF IncrementDuplicateCount
<1>5. slipped \subseteq slipped'
    BY <1>4, SlipFacts
<1>6. Moves(j)
    BY <1>1, <1>2, NextItemMoves DEF ThreadsOK
<1>7. /\ new \in RowType
      /\ new.id = certRow[h].id /\ new.owner = certRow[h].owner /\ (new.flag => h \in published)
    <2>1. certRow[h] \in RowType /\ (certRow[h].flag => h \in published)
        BY <1>2 DEF ImportTyped, FlagMeansEntry
    <2>2. certRow[h].dup + 1 \in Nat
        BY <2>1 DEF RowType
    <2> QED
        BY <2>1, <2>2 DEF RowType
<1> HIDE DEF new
<1>8. Evolves /\ ImportTyped' /\ RowsNumbered' /\ FlagMeansEntry'
    <2>1. CASE certRow' = certRow
        BY <1>1, <1>5, <1>6, <2>1, RowsAsTheyWere DEF cached, Moves, RowsNumbered
    <2>2. CASE certRow[h].id = step[j].id /\ certRow' = [certRow EXCEPT ![h] = new]
        <3>1. HasRow(h)
            BY <1>2, <2>2 DEF HasRow
        <3> QED
            BY <1>1, <1>2, <1>5, <1>6, <1>7, <2>2, <3>1, TouchedKeeps DEF cached, Moves
    <2> QED
        BY <1>4, <2>1, <2>2
<1>9. KeptCert(j, h)' /\ (dbType = "oracle" /\ IsList(j) => Named(j, h)')
    BY <1>1, <1>2, <1>3, <1>8, NamedStays DEF KeptCert
<1> QED
    BY <1>1, <1>2, <1>8, <1>9, NextCertKeeps

\* LDAP has the entry before the row is flagged.
LEMMA PublishKeeps ==
    ASSUME ImportInv, NEW j \in Import, PublishEntry(j)
    PROVE  ImportInv'
<1> USE DEF ImportInv
<1> PICK h : h = Now(j)
    OBVIOUS
<1>1. /\ step[j].pc = "publish" /\ NoSlip
      /\ UNCHANGED <<dbType, contents, upload, certRow, ids, tracked, cached>>
      /\ \/ published' = published \cup {h} /\ StepTo(j, "flag")
         \/ published' = published /\ NextItem(j)
    BY DEF PublishEntry
<1>2. step[j].pc \in AtCert /\ h \in Item /\ ids[h] # 0 /\ step[j].id # 0
    BY <1>1, NowTyped DEF AtCert, KnowsRow, ThreadsOK, ThreadOK
<1>3. dbType = "oracle" /\ IsList(j) => Named(j, h)
    BY <1>1 DEF KnowsRow, ThreadsOK, ThreadOK
<1>4. \A t \in tracked' : t[2] # 0
    BY <1>1 DEF RowsNumbered
<1>5. CASE published' = published \cup {h} /\ StepTo(j, "flag")
    <2>1. Moves(j) /\ step'[j] = [step[j] EXCEPT !.pc = "flag"]
        BY <1>5, StepToMoves DEF AtCert
    <2>2. Evolves /\ ImportTyped' /\ RowsNumbered' /\ FlagMeansEntry'
        BY <1>1, <1>4, <1>5, <2>1, SlipFacts, RowsAsTheyWere DEF cached, Moves
    <2>3. step'[j].pc = "flag" /\ step'[j].at = step[j].at /\ step'[j].id = step[j].id
        BY <2>1 DEF ImportTyped, StepType
    <2>4. dbType = "oracle" /\ IsList(j) => Named(j, h)'
        BY <1>2, <1>3, <2>2, NamedStays
    <2> QED
        BY <1>1, <1>2, <1>5, <2>1, <2>2, <2>3, <2>4, SameCertKeeps DEF AtCert
<1>6. CASE published' = published /\ NextItem(j)
    <2>1. Moves(j)
        BY <1>2, <1>6, NextItemMoves DEF ThreadsOK
    <2>2. Evolves /\ ImportTyped' /\ RowsNumbered' /\ FlagMeansEntry'
        BY <1>1, <1>4, <1>6, <2>1, SlipFacts, RowsAsTheyWere DEF cached, Moves
    <2>3. KeptCert(j, h)' /\ (dbType = "oracle" /\ IsList(j) => Named(j, h)')
        BY <1>1, <1>2, <1>3, <2>2, NamedStays DEF KeptCert
    <2> QED
        BY <1>1, <1>2, <1>6, <2>2, <2>3, NextCertKeeps
<1> QED
    BY <1>1, <1>5, <1>6

\* The flag of a row whose entry was published.
LEMMA FlagStoredKeeps ==
    ASSUME ImportInv, NEW j \in Import, FlagStored(j)
    PROVE  ImportInv'
<1> USE DEF ImportInv
<1> PICK h : h = Now(j)
    OBVIOUS
<1>1. /\ step[j].pc = "flag" /\ NextItem(j) /\ NoSlip
      /\ UNCHANGED <<dbType, contents, upload, ids, tracked, published, cached>>
    BY DEF FlagStored
<1>2. step[j].pc \in AtCert /\ h \in Item /\ ids[h] # 0 /\ step[j].id # 0 /\ h \in published
    BY <1>1, NowTyped DEF AtCert, KnowsRow, ThreadsOK, ThreadOK
<1>3. dbType = "oracle" /\ IsList(j) => Named(j, h)
    BY <1>1 DEF KnowsRow, ThreadsOK, ThreadOK
<1> DEFINE new == [certRow[h] EXCEPT !.flag = TRUE]
<1>4. certRow' = certRow \/ (certRow[h].id = step[j].id /\ certRow' = [certRow EXCEPT ![h] = new])
    BY DEF FlagStored
<1>5. slipped \subseteq slipped'
    BY <1>1, SlipFacts
<1>6. Moves(j)
    BY <1>1, <1>2, NextItemMoves DEF ThreadsOK
<1>7. /\ new \in RowType
      /\ new.id = certRow[h].id /\ new.owner = certRow[h].owner /\ (new.flag => h \in published)
    BY <1>2 DEF ImportTyped, RowType
<1> HIDE DEF new
<1>8. Evolves /\ ImportTyped' /\ RowsNumbered' /\ FlagMeansEntry'
    <2>1. CASE certRow' = certRow
        BY <1>1, <1>5, <1>6, <2>1, RowsAsTheyWere DEF cached, Moves, RowsNumbered
    <2>2. CASE certRow[h].id = step[j].id /\ certRow' = [certRow EXCEPT ![h] = new]
        <3>1. HasRow(h)
            BY <1>2, <2>2 DEF HasRow
        <3> QED
            BY <1>1, <1>2, <1>5, <1>6, <1>7, <2>2, <3>1, TouchedKeeps DEF cached, Moves
    <2> QED
        BY <1>4, <2>1, <2>2
<1>9. KeptCert(j, h)' /\ (dbType = "oracle" /\ IsList(j) => Named(j, h)')
    BY <1>1, <1>2, <1>3, <1>8, NamedStays DEF KeptCert
<1> QED
    BY <1>1, <1>2, <1>8, <1>9, NextCertKeeps

\* A thread that has come to the end has every certificate behind it.
LEMMA EndKeeps ==
    ASSUME ImportInv, NEW j \in Import, FinishImport(j) \/ FailImport(j)
    PROVE  ImportInv'
<1> USE DEF ImportInv
<1>1. StepTo(j, "over") /\ NoSlip /\ UNCHANGED <<dbType, contents, stores, cached>>
    BY DEF FinishImport, FailImport
<1>2. Moves(j) /\ step'[j] = [step[j] EXCEPT !.pc = "over"]
    BY <1>1, StepToMoves
<1>3. step'[j].pc = "over" /\ step'[j].at = step[j].at
    BY <1>2 DEF ImportTyped, StepType
<1>4. /\ upload' \in [Import -> UploadType]
      /\ \A i \in Import \ {j} : upload'[i].status = upload[i].status
      /\ upload[j].status = "deleted" => upload'[j].status = "deleted"
      /\ upload'[j].status = "COMPLETED" => step[j].pc = "finish" \/ upload[j].status = "COMPLETED"
    <2>1. \/ upload' = upload
          \/ /\ step[j].pc = "finish" /\ upload[j].status # "deleted"
             /\ upload' = [upload EXCEPT ![j] = [status |-> "COMPLETED", csca |-> step[j].csca]]
          \/ upload[j].status # "deleted" /\ upload' = [upload EXCEPT ![j] = [upload[j] EXCEPT !.status = "FAILED"]]
        BY DEF FinishImport, FailImport, HasUpload
    <2>2. step[j].csca \in Nat
        BY DEF ImportTyped, StepType
    <2> QED
        BY <2>1, <2>2 DEF ImportTyped, UploadType
<1>5. Evolves /\ ImportTyped' /\ RowsNumbered' /\ FlagMeansEntry'
    BY <1>1, <1>2, <1>4, SlipFacts
       DEF stores, cached, Moves, ImportTyped, RowsNumbered, HasRow, FlagMeansEntry, Evolves
<1>6. Items(j)' = Items(j)
    BY <1>1 DEF Items
<1>7. ThreadOK(j)'
    BY <1>3, <1>4, <1>6 DEF ThreadsOK, ThreadOK, AtCert, KnowsRow
<1> QED
    BY <1>2, <1>3, <1>4, <1>5, <1>7, ImportStepKeeps DEF Moves

\* On PostgreSQL rows go with their upload; on Oracle none does.
LEMMA DeleteUploadKeeps ==
    ASSUME ImportInv, NEW j \in Import, DeleteUpload(j)
    PROVE  ImportInv'
<1> USE DEF ImportInv
<1> DEFINE own == {x \in Item : j \in certRow[x].owner}
<1>1. /\ upload' = [upload EXCEPT ![j].status = "deleted"] /\ slipped' = slipped
      /\ UNCHANGED <<dbType, contents, ids, published, cached, step>>
    BY DEF DeleteUpload, NoSlip
<1>2. /\ upload' \in [Import -> UploadType]
      /\ \A i \in Import : upload'[i].status \in {upload[i].status, "deleted"}
    <2>1. upload \in [Import -> UploadType]
        BY DEF ImportTyped
    <2>2. upload' = [upload EXCEPT ![j] = [upload[j] EXCEPT !.status = "deleted"]]
        BY <1>1, <2>1
    <2>3. [upload[j] EXCEPT !.status = "deleted"] \in UploadType
          /\ [upload[j] EXCEPT !.status = "deleted"].status = "deleted"
        BY <2>1 DEF UploadType
    <2> QED
        BY <2>1, <2>2, <2>3
<1>3. \/ certRow' = certRow /\ tracked' = tracked
      \/ /\ dbType = "postgres" /\ tracked' \subseteq tracked
         /\ certRow' = [x \in Item |-> IF x \in own THEN NoCert ELSE certRow[x]]
    BY DEF DeleteUpload
<1> HIDE DEF own
<1>4. /\ certRow' \in [Item -> RowType]
      /\ \A x \in Item : certRow'[x] = certRow[x] \/ (certRow'[x] = NoCert /\ dbType = "postgres")
    <2>1. NoCert \in RowType
        BY DEF NoCert, RowType
    <2> QED
        BY <1>3, <2>1 DEF ImportTyped
<1>5. Evolves
    BY <1>1, <1>2, <1>3, <1>4 DEF Evolves, ImportTyped
<1>6. ImportTyped'
    BY <1>1, <1>2, <1>4 DEF ImportTyped, cached
<1>7. RowsNumbered'
    BY <1>1, <1>3, <1>4 DEF RowsNumbered, HasRow, cached, NoCert
<1>8. FlagMeansEntry'
    BY <1>1, <1>4 DEF FlagMeansEntry, NoCert
<1> QED
    BY <1>1, <1>2, <1>5, <1>6, <1>7, <1>8, AroundKeeps

\* The cache is loaded with the ids of the rows.
LEMMA PreloadCacheKeeps ==
    ASSUME ImportInv, PreloadCache
    PROVE  ImportInv'
<1> USE DEF ImportInv
<1>1. /\ fpCache' = [x \in Item |-> certRow[x].id] /\ slipped' = slipped
      /\ UNCHANGED <<dbType, contents, upload, stores, step>>
    BY DEF PreloadCache, NoSlip
<1>2. fpCache' \in [Item -> Nat] /\ \A x \in Item : fpCache'[x] = certRow[x].id
    BY <1>1 DEF ImportTyped, RowType
<1>3. Evolves /\ ImportTyped' /\ RowsNumbered' /\ FlagMeansEntry'
    BY <1>1, <1>2 DEF stores, ImportTyped, RowsNumbered, HasRow, FlagMeansEntry, Evolves
<1> QED
    BY <1>1, <1>3, AroundKeeps

-----------------------------------------------------------------------------

\* At the start nothing is behind anyone.
LEMMA ImportInitHolds == ImportInit => ImportInv
<1> SUFFICES ASSUME ImportInit PROVE ImportInv
    OBVIOUS
<1>1. /\ dbType \in DbTypes /\ contents \in [Import -> Contents]
      /\ certRow = [x \in Item |-> NoCert] /\ ids = [x \in Item |-> 0] /\ fpCache = [x \in Item |-> 0]
      /\ tracked = {} /\ published = {}
    BY DEF ImportInit
<1>2. ASSUME NEW j \in Import
      PROVE  /\ Items(j) \in Seq(Item) /\ Len(Items(j)) \in Nat
             /\ AtItem(j, 1) \in {"look", "finish", "fail"}
             /\ AtItem(j, 1) = "look" <=> 1 <= Len(Items(j))
    <2>1. contents[j] \in Contents
        BY <1>1
    <2>2. contents[j].signers \in Seq(Item) /\ contents[j].certs \in Seq(Item)
        BY <2>1, ContentsAssumption DEF Item
    <2>3. Items(j) \in Seq(Item)
        BY <2>2 DEF Items
    <2>4. AtItem(j, 1) = IF 1 <= Len(Items(j)) THEN "look" ELSE IF contents[j].body THEN "finish" ELSE "fail"
        BY DEF AtItem, Items
    <2>5. Len(Items(j)) \in Nat
        BY <2>3
    <2> QED
        BY <2>3, <2>4, <2>5
<1>3. ASSUME NEW j \in Import
      PROVE  /\ step[j].at = 1 /\ step[j].pc = AtItem(j, 1)
             /\ upload[j].status \in {"PENDING", "PROCESSING"}
    BY DEF ImportInit
<1>4. ImportTyped
    <2>1. NoCert \in RowType
        BY DEF NoCert, RowType
    <2>2. dbType \in {"postgres", "oracle"}
        BY <1>1, DbTypesAssumption
    <2>3. upload \in [Import -> UploadType]
        BY DEF ImportInit, UploadType
    <2>4. step \in [Import -> StepType]
        BY <1>2 DEF ImportInit, StepType, AtCert
    <2> QED
        BY <1>1, <2>1, <2>2, <2>3, <2>4 DEF ImportTyped
<1>5. RowsNumbered /\ FlagMeansEntry
    BY <1>1 DEF RowsNumbered, FlagMeansEntry, HasRow, NoCert
<1>6. ASSUME NEW j \in Import PROVE ThreadOK(j)
    <2>1. /\ step[j].at = 1 /\ step[j].pc = AtItem(j, 1)
          /\ step[j].pc \in {"look", "finish", "fail"} /\ (step[j].pc = "look" <=> 1 <= Len(Items(j)))
          /\ upload[j].status # "COMPLETED" /\ Len(Items(j)) \in Nat
        <3>1. step[j].at = 1 /\ step[j].pc = AtItem(j, 1) /\ upload[j].status # "COMPLETED"
            BY <1>3
        <3> QED
            BY <1>2, <3>1
    <2>2. step[j].pc \notin KnowsRow /\ (step[j].pc \in AtCert => step[j].pc = "look")
        BY <2>1 DEF KnowsRow, AtCert
    <2>3. "flag" \in KnowsRow /\ "track" \in KnowsRow
        BY DEF KnowsRow
    <2>4. step[j].at \in 1..(Len(Items(j)) + 1) /\ (step[j].pc = "finish" => step[j].at = Len(Items(j)) + 1)
          /\ (step[j].pc \in AtCert => step[j].at <= Len(Items(j)))
        BY <2>1, <2>2
    <2> QED
        BY <2>1, <2>2, <2>3, <2>4 DEF ThreadOK
<1>7. BehindOK
    BY <1>3 DEF BehindOK
<1> QED
    BY <1>4, <1>5, <1>6, <1>7 DEF ImportInv, ThreadsOK

\* Every step keeps the invariant.
LEMMA ImportInvStays == ImportInv /\ [ImportNext]_importVars => ImportInv'
<1> SUFFICES ASSUME ImportInv, [ImportNext]_importVars PROVE ImportInv'
    OBVIOUS
<1>1. ASSUME NEW j \in Import, ImportStep(j) \/ DeleteUpload(j) PROVE ImportInv'
    BY <1>1, LookKeeps, InsertKeeps, TrackKeeps, IncrementKeeps, PublishKeeps, FlagStoredKeeps, EndKeeps,
       DeleteUploadKeeps DEF ImportStep
<1>2. CASE UNCHANGED importVars
    <2>1. Evolves /\ ImportTyped' /\ RowsNumbered' /\ FlagMeansEntry'
        BY <1>2 DEF importVars, stores, cached, ImportInv, ImportTyped, RowsNumbered, HasRow,
                    FlagMeansEntry, Evolves
    <2> QED
        BY <1>2, <2>1, AroundKeeps DEF importVars
<1> QED
    BY <1>1, <1>2, PreloadCacheKeeps DEF ImportNext

\* An upload of certificates that is COMPLETED left a row of each of them, and on
\* Oracle each row names the list, for any lists and whatever was uploaded, deleted
\* or went wrong beside it: what is behind a thread stays accounted for.
THEOREM ImportsAreAccountedFor == ImportSpec => []EachIsAccountedFor
<1>1. ASSUME ImportInv PROVE EachIsAccountedFor
    <2> USE <1>1 DEF ImportInv
    <2> SUFFICES ASSUME NEW j \in Import, upload[j].status = "COMPLETED",
                        NEW k \in 1..Len(Items(j)), NEW x, x = Items(j)[k], <<j, x>> \notin slipped
                 PROVE  /\ HasRow(x) \/ Deleted(x)
                        /\ dbType = "oracle" /\ IsList(j) =>
                               j \in certRow[x].owner \/ <<x, certRow[x].id, j>> \in tracked
        BY DEF EachIsAccountedFor, RowsKept
    <2>1. step[j].at = Len(Items(j)) + 1 /\ x \in Item
        BY ItemsTyped DEF ThreadsOK, ThreadOK
    <2>2. k \in 1..(step[j].at - 1)
        BY <2>1, ItemsTyped
    <2>3. KeptCert(j, x) /\ (dbType = "oracle" /\ IsList(j) => Named(j, x))
        BY <2>1, <2>2 DEF BehindOK
    <2>4. HasRow(x) \/ Deleted(x)
        BY <2>1, <2>3 DEF KeptCert, HasUpload, Deleted, ImportTyped
    <2> QED
        BY <2>3, <2>4 DEF Named
<1> QED
    BY <1>1, ImportInitHolds, ImportInvStays, PTL DEF ImportSpec

\* stored_in_ldap of a certificate of a list or a single file is never set before
\* its entry is in LDAP, for any uploads.
THEOREM ImportFlagsAreTrue == ImportSpec => []FlagMeansEntry
<1>1. ImportInv => FlagMeansEntry
    BY DEF ImportInv
<1> QED
    BY <1>1, ImportInitHolds, ImportInvStays, PTL DEF ImportSpec

-----------------------------------------------------------------------------
(* CertImport: the books of lists.                                         *)

\* Those of them with which nothing failed.
SurelyOwned(j) == {x \in OwnedBy(j) : <<j, x>> \notin slipped}
\* The occurrences that a thread has dealt with, as far as their rows are concerned.
IsPast(j, k) ==
    LET at == Len(contents[j].signers) + k
    IN  at < step[j].at \/ (at = step[j].at /\ step[j].pc \in {"publish", "flag"})
Past(x) == {p \in Occurrences(x) : IsPast(p[1], p[2])}
ListOwners(x) == {j \in certRow[x].owner : IsList(j)}

CscaOK(j) ==
    /\ upload[j].status = "COMPLETED" => upload[j].csca = step[j].csca
    /\ HasUpload(j) /\ IsList(j) =>
        /\ IsFiniteSet(OwnedBy(j))
        /\ step[j].csca <= Cardinality(OwnedBy(j)) /\ Cardinality(SurelyOwned(j)) <= step[j].csca
DupOK(x) ==
    /\ \A i, j \in certRow[x].owner : i = j
    /\ certRow[x].dup + Cardinality(ListOwners(x)) <= Cardinality(Past(x))
\* Only what a list lists is counted as a duplicate.
OnlyListsCount == \A j \in Import :
    step[j].pc = "increment" \/ (step[j].pc = "track" /\ ~step[j].new) => IsList(j)
BooksOK == (\A j \in Import : CscaOK(j)) /\ (\A x \in Listed : DupOK(x))

\* What a finite set is mapped to is finite.
LEMMA ImageIsFinite ==
    ASSUME NEW S, IsFiniteSet(S), NEW f, DOMAIN f = S
    PROVE  IsFiniteSet({f[x] : x \in S})
<1> DEFINE T == {f[x] : x \in S}
           g == [x \in S |-> f[x]]
<1>1. g \in Surjection(S, T)
    BY DEF Surjection
<1> QED
    BY <1>1, FS_Surjection

\* Lists are finite, and so is where they list a certificate.
LEMMA OccurrencesAreFinite ==
    ASSUME ImportTyped, NEW x
    PROVE  IsFiniteSet(Occurrences(x))
<1> DEFINE of == [j \in Import |-> {j} \X (1 .. Len(contents[j].certs))]
           All == UNION {of[j] : j \in Import}
<1>1. ASSUME NEW j \in Import
      PROVE  /\ IsFiniteSet(of[j])
             /\ DOMAIN contents[j].certs = 1..Len(contents[j].certs)
    <2>1. contents[j].certs \in Seq(Listed)
        BY ContentsAssumption DEF ImportTyped
    <2>2. DOMAIN contents[j].certs = 1..Len(contents[j].certs) /\ Len(contents[j].certs) \in Nat
        BY <2>1
    <2>3. IsFiniteSet(1..Len(contents[j].certs))
        BY <2>2, FS_Interval
    <2>4. IsFiniteSet({j})
        BY FS_Singleton
    <2> QED
        BY <2>2, <2>3, <2>4, FS_Product
<1>2. IsFiniteSet({of[j] : j \in Import})
    <2> HIDE DEF of
    <2>1. DOMAIN of = Import
        BY DEF of
    <2> QED
        BY <2>1, ImportAssumption, ImageIsFinite
<1>3. IsFiniteSet(All)
    BY <1>1, <1>2, FS_UNION
<1>4. Occurrences(x) \subseteq All
    BY <1>1 DEF Occurrences
<1> QED
    BY <1>3, <1>4, FS_Subset

LEMMA OccurrencesTyped ==
    ASSUME ImportTyped, NEW x, NEW p \in Occurrences(x)
    PROVE  p = <<p[1], p[2]>> /\ p[1] \in Import /\ p[2] \in Nat \ {0} /\ IsList(p[1])
<1>1. PICK j \in Import : IsList(j) /\ \E k \in DOMAIN contents[j].certs : p = <<j, k>>
    BY DEF Occurrences
<1>2. contents[j].certs \in Seq(Listed)
    BY ContentsAssumption DEF ImportTyped
<1> QED
    BY <1>1, <1>2

LEMMA PastIsFinite ==
    ASSUME ImportTyped, NEW x
    PROVE  IsFiniteSet(Past(x)) /\ Cardinality(Past(x)) \in Nat
BY OccurrencesAreFinite, FS_Subset, FS_CardinalityType DEF Past

\* The rows of one certificate have one owner, if any.
LEMMA OwnersAreFew ==
    ASSUME ImportTyped, NEW x \in Item, \A i, j \in certRow[x].owner : i = j
    PROVE  Cardinality(ListOwners(x)) \in {0, 1} /\ (certRow[x].owner = {} => Cardinality(ListOwners(x)) = 0)
<1>1. ListOwners(x) = {} \/ \E j : ListOwners(x) = {j}
    BY DEF ListOwners
<1> QED
    BY <1>1, FS_Singleton, FS_EmptySet DEF ListOwners

\* A step that counts nothing: rows keep their owners and counts, or are gone with their
\* upload, and threads go on.
LEMMA BooksAreKept ==
    ASSUME ImportInv, ImportInv', BooksOK, contents' = contents, slipped \subseteq slipped',
           \A j \in Import :
               /\ HasUpload(j)' /\ IsList(j) => HasUpload(j) /\ step'[j].csca = step[j].csca
               /\ upload'[j].status = "COMPLETED" => upload'[j].csca = step'[j].csca
               /\ \A k \in Nat : IsPast(j, k) => IsPast(j, k)',
           \A x \in Listed :
               \/ certRow'[x].owner = certRow[x].owner /\ certRow'[x].dup = certRow[x].dup
               \/ certRow'[x] = NoCert /\ \A j \in certRow[x].owner : ~HasUpload(j)'
    PROVE  BooksOK'
<1>1. \A j \in Import : IsList(j)' = IsList(j)
    BY DEF IsList
<1>2. ASSUME NEW j \in Import PROVE CscaOK(j)'
    <2>1. CscaOK(j)
        BY DEF BooksOK
    <2> SUFFICES ASSUME HasUpload(j)', IsList(j)
                 PROVE  /\ IsFiniteSet(OwnedBy(j)')
                        /\ step'[j].csca <= Cardinality(OwnedBy(j)')
                        /\ Cardinality(SurelyOwned(j)') <= step'[j].csca
        BY <1>1 DEF CscaOK
    <2>2. OwnedBy(j)' = OwnedBy(j)
        BY DEF OwnedBy, NoCert, Item
    <2>3. SurelyOwned(j)' \subseteq SurelyOwned(j) /\ SurelyOwned(j) \subseteq OwnedBy(j)
        BY <2>2 DEF SurelyOwned
    <2>4. IsFiniteSet(OwnedBy(j)) /\ step[j].csca <= Cardinality(OwnedBy(j)) /\ Cardinality(SurelyOwned(j)) <= step[j].csca
        BY <2>1 DEF CscaOK
    <2>5. /\ Cardinality(SurelyOwned(j)') <= Cardinality(SurelyOwned(j))
          /\ Cardinality(SurelyOwned(j)') \in Nat /\ Cardinality(SurelyOwned(j)) \in Nat
        BY <2>3, <2>4, FS_Subset, FS_CardinalityType
    <2>6. step[j].csca \in Nat
        BY DEF ImportInv, ImportTyped, StepType
    <2> QED
        BY <2>2, <2>4, <2>5, <2>6
<1>3. ASSUME NEW x \in Listed PROVE DupOK(x)'
    <2>1. DupOK(x) /\ x \in Item
        BY DEF BooksOK, Item
    <2>2. Occurrences(x)' = Occurrences(x)
        BY DEF Occurrences, IsList
    <2>3. Past(x) \subseteq Past(x)'
        BY <2>2, OccurrencesTyped DEF Past, ImportInv
    <2>4. /\ IsFiniteSet(Past(x)') /\ Cardinality(Past(x)') \in Nat
          /\ IsFiniteSet(Past(x)) /\ Cardinality(Past(x)) \in Nat
        BY <2>2, OccurrencesAreFinite, FS_Subset, FS_CardinalityType DEF ImportInv, Past
    <2>5. Cardinality(Past(x)) <= Cardinality(Past(x)')
        BY <2>3, <2>4, FS_Subset
    <2>6. CASE certRow'[x].owner = certRow[x].owner /\ certRow'[x].dup = certRow[x].dup
        <3>1. ListOwners(x)' = ListOwners(x)
            BY <1>1, <2>6, <2>1 DEF ListOwners, ImportInv, ImportTyped, RowType
        <3>2. Cardinality(ListOwners(x)) \in Nat /\ certRow[x].dup \in Nat
            BY <2>1, OwnersAreFew, SMTT(30) DEF DupOK, ImportInv, ImportTyped, RowType
        <3> QED
            BY <2>1, <2>4, <2>5, <2>6, <3>1, <3>2 DEF DupOK
    <2>7. CASE certRow'[x] = NoCert
        <3>1. ListOwners(x)' = {} /\ certRow'[x].dup = 0 /\ certRow'[x].owner = {}
            BY <2>7 DEF NoCert, ListOwners
        <3> QED
            BY <2>4, <3>1, FS_EmptySet DEF DupOK
    <2> QED
        BY <2>1, <2>6, <2>7
<1> QED
    BY <1>2, <1>3 DEF BooksOK

\* Threads only go on.
LEMMA PastStays ==
    ASSUME ImportTyped, NEW j \in Import, Moves(j), contents' = contents,
           \/ step'[j].at = step[j].at + 1
           \/ step'[j].at = step[j].at /\ step[j].pc \notin {"publish", "flag"}
           \/ step'[j].at = step[j].at /\ step'[j].pc \in {"publish", "flag"}
    PROVE  \A i \in Import : \A k \in Nat : IsPast(i, k) => IsPast(i, k)'
<1> SUFFICES ASSUME NEW i \in Import, NEW k \in Nat, IsPast(i, k) PROVE IsPast(i, k)'
    OBVIOUS
<1>1. contents[i].signers \in Seq(Signer)
    BY ContentsAssumption DEF ImportTyped
<1>2. Len(contents[i].signers) + k \in Nat /\ step[j].at \in Nat
    BY <1>1 DEF ImportTyped, StepType
<1>3. CASE i = j
    BY <1>2, <1>3 DEF IsPast
<1>4. CASE i # j
    BY <1>4 DEF IsPast, Moves
<1> QED
    BY <1>3, <1>4

\* What a list lists comes behind its signers.
LEMMA OccursNow ==
    ASSUME ImportInv, NEW j \in Import, step[j].pc \in AtCert, Now(j) \in Listed, IsList(j)
    PROVE  \E k \in Nat : /\ <<j, k>> \in Occurrences(Now(j))
                          /\ step[j].at = Len(contents[j].signers) + k
<1>1. contents[j].signers \in Seq(Signer) /\ contents[j].certs \in Seq(Listed)
    BY ContentsAssumption DEF ImportInv, ImportTyped
<1> DEFINE n == Len(contents[j].signers)
           m == Len(contents[j].certs)
<1>2. n \in Nat /\ m \in Nat /\ step[j].at \in Nat
    BY <1>1 DEF ImportInv, ImportTyped, StepType
<1>3. step[j].at \in 1 .. (n + m)
    <2>1. Len(Items(j)) = n + m
        BY <1>1 DEF Items
    <2>2. step[j].at \in 1 .. (Len(Items(j)) + 1) /\ step[j].at <= Len(Items(j))
        BY DEF ImportInv, ThreadsOK, ThreadOK
    <2> HIDE DEF n, m
    <2> QED
        BY <1>2, <2>1, <2>2
<1>4. step[j].at > n
    <2>1. step[j].at <= n => Now(j) \in Signer
        BY <1>1, <1>3 DEF Now, Items
    <2> QED
        BY <1>2, <2>1, SignerAssumption
<1>5. Now(j) = contents[j].certs[step[j].at - n]
    BY <1>1, <1>3, <1>4 DEF Now, Items
<1>6. step[j].at - n \in 1..m /\ step[j].at - n \in Nat /\ DOMAIN contents[j].certs = 1..m
    <2> HIDE DEF n, m
    <2>1. step[j].at - n \in 1..m /\ step[j].at - n \in Nat
        BY <1>2, <1>3, <1>4
    <2> QED
        BY <1>1, <2>1 DEF m
<1>7. <<j, step[j].at - n>> \in Occurrences(Now(j))
    BY <1>5, <1>6 DEF Occurrences
<1>8. step[j].at = n + (step[j].at - n)
    <2> HIDE DEF n
    <2> QED
        BY <1>2
<1> QED
    BY <1>6, <1>7, <1>8

\* The thread deals with the row of what it has in hand.
LEMMA PastGrows ==
    ASSUME ImportInv, ImportInv', NEW j \in Import, Moves(j), contents' = contents, IsList(j),
           step[j].pc \in AtCert \ {"publish", "flag"}, NEW x \in Listed, x = Now(j),
           \/ step'[j].at = step[j].at + 1
           \/ step'[j].at = step[j].at /\ step'[j].pc = "publish"
    PROVE  Cardinality(Past(x)) + 1 <= Cardinality(Past(x)')
<1>1. PICK k \in Nat : <<j, k>> \in Occurrences(x) /\ step[j].at = Len(contents[j].signers) + k
    BY OccursNow
<1>2. step[j].at \in Nat
    BY DEF ImportInv, ImportTyped, StepType
<1>3. <<j, k>> \notin Past(x)
    BY <1>1, <1>2 DEF Past, IsPast
<1>4. Occurrences(x)' = Occurrences(x)
    BY DEF Occurrences, IsList
<1>5. IsPast(j, k)'
    BY <1>1, <1>2 DEF IsPast
<1>6. \A i \in Import : \A l \in Nat : IsPast(i, l) => IsPast(i, l)'
    BY PastStays DEF ImportInv
<1>7. Past(x) \cup {<<j, k>>} \subseteq Past(x)'
    BY <1>1, <1>4, <1>5, <1>6, OccurrencesTyped DEF Past, ImportInv
<1>8. IsFiniteSet(Past(x)) /\ IsFiniteSet(Past(x)')
    BY <1>4, OccurrencesAreFinite, FS_Subset DEF ImportInv, Past
<1>9. IsFiniteSet(Past(x) \cup {<<j, k>>}) /\ Cardinality(Past(x) \cup {<<j, k>>}) = Cardinality(Past(x)) + 1
    BY <1>3, <1>8, FS_AddElement
<1> QED
    BY <1>7, <1>8, <1>9, FS_Subset

\* A row is made, whether its upload hears of it or not.
LEMMA BooksOfCreated ==
    ASSUME ImportInv, ImportInv', BooksOK, NEW j \in Import, step[j].pc = "insert", NEW x, x = Now(j),
           MayInsert(j), Created(j), Moves(j), contents' = contents, upload' = upload, slipped \subseteq slipped',
           \/ /\ step'[j].csca = step[j].csca + IF x \in Listed THEN 1 ELSE 0
              /\ step'[j].at = step[j].at
              /\ x \in Listed => step'[j].pc = "publish"
           \/ /\ step'[j].csca = step[j].csca /\ step'[j].at = step[j].at + 1
              /\ <<j, x>> \in slipped'
    PROVE  BooksOK'
<1> USE DEF ImportInv
<1>1. x \in Item /\ upload[j].status # "COMPLETED"
    BY NowTyped DEF AtCert
<1>2. certRow[x] = NoCert
    BY <1>1 DEF RowsNumbered, MayInsert
<1>3. /\ certRow'[x].owner = {j} /\ certRow'[x].dup = 0
      /\ \A y \in Item \ {x} : certRow'[y] = certRow[y]
    BY <1>1 DEF Created, NoCert, ImportTyped
<1>4. \A i \in Import : IsList(i)' = IsList(i) /\ HasUpload(i)' = HasUpload(i)
    BY DEF IsList, HasUpload
<1>5. \A i \in Import \ {j} : step'[i] = step[i]
    BY DEF Moves
<1>6. ASSUME NEW i \in Import PROVE CscaOK(i)'
    <2>1. CscaOK(i)
        BY DEF BooksOK
    <2>2. CASE i # j
        <3>1. OwnedBy(i)' = OwnedBy(i)
            BY <1>1, <1>2, <1>3, <2>2 DEF OwnedBy, NoCert, Item
        <3> SUFFICES ASSUME HasUpload(i), IsList(i)
                     PROVE  Cardinality(SurelyOwned(i)') <= step'[i].csca
            BY <1>4, <1>5, <2>1, <2>2, <3>1 DEF CscaOK
        <3>2. SurelyOwned(i)' \subseteq SurelyOwned(i) /\ SurelyOwned(i) \subseteq OwnedBy(i)
            BY <3>1 DEF SurelyOwned
        <3>3. IsFiniteSet(SurelyOwned(i))
            BY <2>1, <3>2, FS_Subset DEF CscaOK
        <3>4. /\ Cardinality(SurelyOwned(i)') <= Cardinality(SurelyOwned(i))
              /\ Cardinality(SurelyOwned(i)') \in Nat /\ Cardinality(SurelyOwned(i)) \in Nat
            BY <3>2, <3>3, FS_Subset, FS_CardinalityType
        <3> QED
            BY <1>5, <2>1, <2>2, <3>4 DEF CscaOK, ImportTyped, StepType
    <2>3. CASE i = j
        <3>1. OwnedBy(j)' = IF x \in Listed THEN OwnedBy(j) \cup {x} ELSE OwnedBy(j)
            BY <1>1, <1>2, <1>3 DEF OwnedBy, NoCert, Item
        <3>2. x \notin OwnedBy(j)
            BY <1>2 DEF OwnedBy, NoCert
        <3> SUFFICES ASSUME HasUpload(j), IsList(j)
                     PROVE  /\ IsFiniteSet(OwnedBy(j)')
                            /\ step'[j].csca <= Cardinality(OwnedBy(j)')
                            /\ Cardinality(SurelyOwned(j)') <= step'[j].csca
            BY <1>1, <1>4, <2>3 DEF CscaOK
        <3>3. /\ IsFiniteSet(OwnedBy(j)) /\ step[j].csca \in Nat
              /\ step[j].csca <= Cardinality(OwnedBy(j)) /\ Cardinality(SurelyOwned(j)) <= step[j].csca
            BY <2>1, <2>3 DEF CscaOK, ImportTyped, StepType
        <3>4. SurelyOwned(j) \subseteq OwnedBy(j)
            BY DEF SurelyOwned
        <3>5. IsFiniteSet(SurelyOwned(j))
            BY <3>3, <3>4, FS_Subset
        <3>6. /\ IsFiniteSet(OwnedBy(j)')
              /\ Cardinality(OwnedBy(j)') = Cardinality(OwnedBy(j)) + IF x \in Listed THEN 1 ELSE 0
              /\ Cardinality(OwnedBy(j)) \in Nat /\ Cardinality(SurelyOwned(j)) \in Nat
            BY <3>1, <3>2, <3>3, <3>5, FS_AddElement, FS_CardinalityType
        <3>7. CASE step'[j].csca = step[j].csca + IF x \in Listed THEN 1 ELSE 0
            <4>1. SurelyOwned(j)' \subseteq IF x \in Listed THEN SurelyOwned(j) \cup {x} ELSE SurelyOwned(j)
                BY <3>1 DEF SurelyOwned
            <4>2. x \notin SurelyOwned(j)
                BY <3>2 DEF SurelyOwned
            <4>3. /\ Cardinality(SurelyOwned(j)') <= Cardinality(SurelyOwned(j)) + IF x \in Listed THEN 1 ELSE 0
                  /\ Cardinality(SurelyOwned(j)') \in Nat
                <5> PICK T : T = IF x \in Listed THEN SurelyOwned(j) \cup {x} ELSE SurelyOwned(j)
                    OBVIOUS
                <5>1. /\ IsFiniteSet(T)
                      /\ Cardinality(T) = Cardinality(SurelyOwned(j)) + IF x \in Listed THEN 1 ELSE 0
                    BY <3>5, <3>6, <4>2, FS_AddElement
                <5> QED
                    BY <4>1, <5>1, FS_Subset, FS_CardinalityType
            <4> QED
                BY <3>3, <3>6, <3>7, <4>3
        <3>8. CASE step'[j].csca = step[j].csca /\ <<j, x>> \in slipped'
            <4>1. SurelyOwned(j)' \subseteq SurelyOwned(j)
                BY <3>1, <3>8 DEF SurelyOwned
            <4>2. Cardinality(SurelyOwned(j)') <= Cardinality(SurelyOwned(j)) /\ Cardinality(SurelyOwned(j)') \in Nat
                BY <3>5, <4>1, FS_Subset, FS_CardinalityType
            <4> QED
                BY <3>3, <3>6, <3>8, <4>2
        <3> QED
            BY <3>7, <3>8
    <2> QED
        BY <2>2, <2>3
<1>7. ASSUME NEW y \in Listed PROVE DupOK(y)'
    <2>1. DupOK(y) /\ y \in Item
        BY DEF BooksOK, Item
    <2>2. Occurrences(y)' = Occurrences(y)
        BY DEF Occurrences, IsList
    <2>3. \A i \in Import : \A k \in Nat : IsPast(i, k) => IsPast(i, k)'
        <3>1. step'[j].at = step[j].at => step[j].pc \notin {"publish", "flag"}
            OBVIOUS
        <3> QED
            BY <3>1, PastStays
    <2>4. Past(y) \subseteq Past(y)'
        BY <2>2, <2>3, OccurrencesTyped DEF Past
    <2>5. /\ IsFiniteSet(Past(y)') /\ Cardinality(Past(y)') \in Nat
          /\ IsFiniteSet(Past(y)) /\ Cardinality(Past(y)) \in Nat
        BY <2>2, OccurrencesAreFinite, FS_Subset, FS_CardinalityType DEF Past
    <2>6. CASE y # x
        <3>1. certRow'[y] = certRow[y]
            BY <1>3, <2>1, <2>6
        <3>2. ListOwners(y)' = ListOwners(y)
            BY <1>4, <2>1, <3>1 DEF ListOwners, ImportTyped, RowType
        <3>3. Cardinality(ListOwners(y)) \in Nat /\ certRow[y].dup \in Nat
            <4>1. Cardinality(ListOwners(y)) \in {0, 1}
                BY <2>1, OwnersAreFew DEF DupOK
            <4>2. certRow[y].dup \in Nat
                BY <2>1 DEF ImportTyped, RowType
            <4> QED
                BY <4>1, <4>2
        <3>4. Cardinality(Past(y)) <= Cardinality(Past(y)')
            BY <2>4, <2>5, FS_Subset
        <3> QED
            BY <2>1, <2>5, <3>1, <3>2, <3>3, <3>4 DEF DupOK
    <2>7. CASE y = x
        <3>1. ListOwners(x)' = IF IsList(j) THEN {j} ELSE {}
            BY <1>3, <1>4 DEF ListOwners
        <3>2. CASE ~IsList(j)
            BY <1>3, <2>5, <2>7, <3>1, <3>2, FS_EmptySet DEF DupOK
        <3>3. CASE IsList(j)
            <4>1. Cardinality(ListOwners(x)') = 1
                BY <3>1, <3>3, FS_Singleton
            <4>2. Cardinality(Past(x)) + 1 <= Cardinality(Past(x)')
                BY <2>7, <3>3, PastGrows DEF AtCert
            <4> QED
                BY <1>3, <2>5, <2>7, <4>1, <4>2 DEF DupOK
        <3> QED
            BY <3>2, <3>3
    <2> QED
        BY <2>6, <2>7
<1> QED
    BY <1>6, <1>7 DEF BooksOK

\* Of threads and uploads that a step leaves alone.
LEMMA QuietBooks ==
    ASSUME ImportInv, ImportInv', BooksOK, NEW j \in Import, Moves(j), step[j].pc \in AtCert,
           UNCHANGED <<contents, upload>>, slipped \subseteq slipped',
           IsList(j) => step'[j].csca = step[j].csca,
           \/ step'[j].at = step[j].at + 1
           \/ step'[j].at = step[j].at /\ step[j].pc \notin {"publish", "flag"}
           \/ step'[j].at = step[j].at /\ step'[j].pc \in {"publish", "flag"},
           \A x \in Item : certRow'[x].owner = certRow[x].owner /\ certRow'[x].dup = certRow[x].dup
    PROVE  BooksOK'
<1>1. \A i \in Import : \A k \in Nat : IsPast(i, k) => IsPast(i, k)'
    BY PastStays DEF ImportInv
<1>2. ASSUME NEW i \in Import
      PROVE  /\ HasUpload(i)' /\ IsList(i) => HasUpload(i) /\ step'[i].csca = step[i].csca
             /\ upload'[i].status = "COMPLETED" => upload'[i].csca = step'[i].csca
    BY NowTyped DEF HasUpload, Moves, BooksOK, CscaOK
<1>3. \A x \in Listed : certRow'[x].owner = certRow[x].owner /\ certRow'[x].dup = certRow[x].dup
    BY DEF Item
<1> QED
    BY <1>1, <1>2, <1>3, BooksAreKept

\* Leaving a certificate does not count it.
LEMMA NextItemCounts ==
    ASSUME ImportInv, NEW j \in Import, step[j].pc \in AtCert, NextItem(j)
    PROVE  Moves(j) /\ step'[j].at = step[j].at + 1 /\ step'[j].csca = step[j].csca
<1>1. Moves(j) /\ step'[j].at = step[j].at + 1
    BY NextItemMoves DEF ImportInv, ThreadsOK
<1>2. step'[j].csca = step[j].csca
    BY DEF NextItem, ImportInv, ImportTyped, StepType
<1> QED
    BY <1>1, <1>2

LEMMA StepToCounts ==
    ASSUME ImportInv, NEW j \in Import, NEW l \in AtCert \cup {"over"}, StepTo(j, l)
    PROVE  Moves(j) /\ step'[j].at = step[j].at /\ step'[j].csca = step[j].csca /\ step'[j].pc = l
<1>1. Moves(j) /\ step'[j] = [step[j] EXCEPT !.pc = l]
    BY StepToMoves DEF ImportInv
<1> QED
    BY <1>1 DEF ImportInv, ImportTyped, StepType

LEMMA IsDuplicateCounts ==
    ASSUME ImportInv, NEW j \in Import, NEW id \in Nat, IsDuplicate(j, id)
    PROVE  /\ Moves(j) /\ step'[j].at = step[j].at
           /\ IsList(j) => step'[j].csca = step[j].csca
<1>1. Moves(j) /\ step'[j].at = step[j].at
    BY IsDuplicateMoves DEF ImportInv
<1>2. IsList(j) => step'[j].csca = step[j].csca
    BY DEF IsDuplicate, ImportInv, ImportTyped, StepType
<1> QED
    BY <1>1, <1>2

LEMMA LookBooks ==
    ASSUME ImportInv, ImportInv', BooksOK, NEW j \in Import, Look(j)
    PROVE  BooksOK'
<1> DEFINE known == IF cacheOn THEN fpCache[Now(j)] ELSE certRow[Now(j)].id
<1>1. /\ step[j].pc = "look" /\ step[j].pc \in AtCert
      /\ UNCHANGED <<contents, upload, certRow>> /\ slipped \subseteq slipped'
    BY DEF Look, NoSlip, Slip, stores, AtCert
<1>2. known \in Nat
    BY <1>1, NowTyped DEF ImportInv, ImportTyped, RowType
<1>3. IsDuplicate(j, known) \/ StepTo(j, "insert") \/ NextItem(j)
    BY DEF Look
<1> HIDE DEF known
<1>4. /\ Moves(j)
      /\ IsList(j) => step'[j].csca = step[j].csca
      /\ step'[j].at \in {step[j].at, step[j].at + 1}
    BY <1>1, <1>2, <1>3, IsDuplicateCounts, StepToCounts, NextItemCounts DEF AtCert
<1> QED
    BY <1>1, <1>4, QuietBooks

LEMMA InsertBooks ==
    ASSUME ImportInv, ImportInv', BooksOK, NEW j \in Import, Insert(j)
    PROVE  BooksOK'
<1> PICK x : x = Now(j)
    OBVIOUS
<1>1. step[j].pc = "insert" /\ step[j].pc \in AtCert /\ UNCHANGED <<contents, upload>>
    BY DEF Insert, AtCert
<1>2. x \in Item
    BY <1>1, NowTyped
<1>3. CASE /\ MayInsert(j) /\ Created(j) /\ NoSlip
           /\ step' = [step EXCEPT ![j].id = ids'[x], ![j].new = TRUE,
                                   ![j].csca = IF x \in Listed THEN @ + 1 ELSE @,
                                   ![j].pc = IF OfSigner(j) THEN "track" ELSE "publish"]
    <2>1. /\ step'[j].at = step[j].at
          /\ step'[j].csca = step[j].csca + IF x \in Listed THEN 1 ELSE 0
          /\ x \in Listed => step'[j].pc = "publish"
          /\ \A i \in Import \ {j} : step'[i] = step[i]
        BY <1>3, SignerAssumption DEF ImportInv, ImportTyped, StepType, OfSigner
    <2>2. Moves(j) /\ slipped' = slipped
        BY <1>3, <2>1 DEF Moves, NoSlip, ImportInv, ImportTyped
    <2> QED
        BY <1>1, <1>3, <2>1, <2>2, BooksOfCreated
<1>4. CASE HasRow(x) /\ IsDuplicate(j, certRow[x].id) /\ NoSlip /\ UNCHANGED certRow
    <2>1. certRow[x].id \in Nat /\ slipped' = slipped
        BY <1>2, <1>4 DEF ImportInv, ImportTyped, RowType, NoSlip
    <2>2. Moves(j) /\ step'[j].at = step[j].at /\ (IsList(j) => step'[j].csca = step[j].csca)
        BY <1>4, <2>1, IsDuplicateCounts
    <2> QED
        BY <1>1, <1>4, <2>1, <2>2, QuietBooks
<1>5. CASE NextItem(j) /\ NoSlip /\ UNCHANGED certRow
    BY <1>1, <1>5, NextItemCounts, QuietBooks DEF NoSlip
<1>6. CASE Slip(j) /\ NextItem(j) /\ ((MayInsert(j) /\ Created(j)) \/ UNCHANGED certRow)
    <2>1. slipped \subseteq slipped' /\ <<j, x>> \in slipped'
        BY <1>6 DEF Slip
    <2> QED
        BY <1>1, <1>6, <2>1, NextItemCounts, QuietBooks, BooksOfCreated
<1> QED
    BY <1>3, <1>4, <1>5, <1>6 DEF Insert

LEMMA TrackBooks ==
    ASSUME ImportInv, ImportInv', BooksOK, NEW j \in Import, TrackDuplicate(j)
    PROVE  BooksOK'
<1>1. /\ step[j].pc = "track" /\ step[j].pc \in AtCert
      /\ UNCHANGED <<contents, upload, certRow>> /\ slipped \subseteq slipped'
    BY DEF TrackDuplicate, NoSlip, Slip, AtCert
<1>2. NextItem(j) \/ StepTo(j, "publish") \/ StepTo(j, "increment")
    BY DEF TrackDuplicate
<1> QED
    BY <1>1, <1>2, NextItemCounts, StepToCounts, QuietBooks DEF AtCert

LEMMA IncrementBooks ==
    ASSUME ImportInv, ImportInv', BooksOK, OnlyListsCount, NEW j \in Import, IncrementDuplicateCount(j)
    PROVE  BooksOK'
<1> PICK x : x = Now(j)
    OBVIOUS
<1>1. /\ step[j].pc = "increment" /\ step[j].pc \in AtCert /\ NextItem(j)
      /\ UNCHANGED <<contents, upload>> /\ slipped \subseteq slipped'
    BY DEF IncrementDuplicateCount, NoSlip, Slip, AtCert
<1>2. x \in Item /\ Moves(j) /\ step'[j].at = step[j].at + 1 /\ step'[j].csca = step[j].csca
    BY <1>1, NowTyped, NextItemCounts
<1>3. CASE certRow' = certRow
    BY <1>1, <1>2, <1>3, QuietBooks
<1>4. CASE certRow' = [certRow EXCEPT ![x].dup = @ + 1, ![x].seen = {j}] /\ IsList(j)
    <2>1. /\ certRow'[x].owner = certRow[x].owner /\ certRow'[x].dup = certRow[x].dup + 1
          /\ \A y \in Item \ {x} : certRow'[y] = certRow[y]
        BY <1>2, <1>4 DEF ImportInv, ImportTyped, RowType
    <2>2. ASSUME NEW i \in Import PROVE CscaOK(i)'
        <3>1. CscaOK(i) /\ step'[i].csca = step[i].csca
            BY <1>2 DEF BooksOK, Moves
        <3>2. OwnedBy(i)' = OwnedBy(i)
            BY <2>1 DEF OwnedBy, Item
        <3>3. SurelyOwned(i)' \subseteq SurelyOwned(i) /\ SurelyOwned(i) \subseteq OwnedBy(i)
            BY <1>1, <3>2 DEF SurelyOwned
        <3> SUFFICES ASSUME HasUpload(i), IsList(i)
                     PROVE  Cardinality(SurelyOwned(i)') <= step'[i].csca
            BY <1>1, <3>1, <3>2 DEF CscaOK, HasUpload, IsList
        <3>4. IsFiniteSet(SurelyOwned(i))
            BY <3>1, <3>3, FS_Subset DEF CscaOK
        <3>5. /\ Cardinality(SurelyOwned(i)') <= Cardinality(SurelyOwned(i))
              /\ Cardinality(SurelyOwned(i)') \in Nat /\ Cardinality(SurelyOwned(i)) \in Nat
            BY <3>3, <3>4, FS_Subset, FS_CardinalityType
        <3> QED
            BY <3>1, <3>5 DEF CscaOK, ImportInv, ImportTyped, StepType
    <2>3. ASSUME NEW y \in Listed PROVE DupOK(y)'
        <3>1. DupOK(y) /\ y \in Item
            BY DEF BooksOK, Item
        <3>2. Occurrences(y)' = Occurrences(y) /\ \A i \in Import : IsList(i)' = IsList(i)
            BY <1>1 DEF Occurrences, IsList
        <3>3. \A i \in Import : \A k \in Nat : IsPast(i, k) => IsPast(i, k)'
            BY <1>1, <1>2, PastStays DEF ImportInv
        <3>4. Past(y) \subseteq Past(y)'
            BY <3>2, <3>3, OccurrencesTyped DEF Past, ImportInv
        <3>5. /\ IsFiniteSet(Past(y)') /\ Cardinality(Past(y)') \in Nat
              /\ IsFiniteSet(Past(y)) /\ Cardinality(Past(y)) \in Nat
            BY <3>2, OccurrencesAreFinite, FS_Subset, FS_CardinalityType DEF Past, ImportInv
        <3>6. certRow'[y].owner = certRow[y].owner
            BY <2>1, <3>1
        <3>7. ListOwners(y)' = ListOwners(y)
            BY <3>1, <3>2, <3>6 DEF ListOwners, ImportInv, ImportTyped, RowType
        <3>8. Cardinality(ListOwners(y)) \in {0, 1}
            BY <3>1, OwnersAreFew DEF DupOK, ImportInv
        <3>9. certRow[y].dup \in Nat
            BY <3>1 DEF ImportInv, ImportTyped, RowType
        <3>10. certRow'[y].dup + Cardinality(ListOwners(y)) <= Cardinality(Past(y)')
            <4>1. CASE y # x
                <5>1. Cardinality(Past(y)) <= Cardinality(Past(y)')
                    BY <3>4, <3>5, FS_Subset
                <5>2. certRow'[y].dup = certRow[y].dup
                    BY <2>1, <3>1, <4>1
                <5> QED
                    BY <3>1, <3>5, <3>8, <3>9, <5>1, <5>2 DEF DupOK
            <4>2. CASE y = x
                <5>1. Cardinality(Past(x)) + 1 <= Cardinality(Past(x)')
                    BY <1>1, <1>2, <1>4, <4>2, PastGrows
                <5> QED
                    BY <2>1, <3>1, <3>5, <3>8, <3>9, <4>2, <5>1 DEF DupOK
            <4> QED
                BY <4>1, <4>2
        <3> QED
            BY <3>1, <3>6, <3>7, <3>10 DEF DupOK
    <2> QED
        BY <2>2, <2>3 DEF BooksOK
<1> QED
    BY <1>1, <1>3, <1>4 DEF IncrementDuplicateCount, OnlyListsCount

LEMMA PublishBooks ==
    ASSUME ImportInv, ImportInv', BooksOK, NEW j \in Import, PublishEntry(j) \/ FlagStored(j)
    PROVE  BooksOK'
<1>1. /\ step[j].pc \in {"publish", "flag"} /\ step[j].pc \in AtCert
      /\ UNCHANGED <<contents, upload>> /\ slipped \subseteq slipped'
      /\ NextItem(j) \/ StepTo(j, "flag")
    BY DEF PublishEntry, FlagStored, NoSlip, AtCert
<1>2. \A x \in Item : certRow'[x].owner = certRow[x].owner /\ certRow'[x].dup = certRow[x].dup
    BY DEF PublishEntry, FlagStored, ImportInv, ImportTyped, RowType
<1>3. /\ Moves(j) /\ step'[j].csca = step[j].csca
      /\ \/ step'[j].at = step[j].at + 1
         \/ step'[j].at = step[j].at /\ step'[j].pc = "flag"
    BY <1>1, NextItemCounts, StepToCounts DEF AtCert
<1> QED
    BY <1>1, <1>2, <1>3, QuietBooks

\* An upload ends, and says what its thread has counted.
LEMMA EndBooks ==
    ASSUME ImportInv, ImportInv', BooksOK, NEW j \in Import, FinishImport(j) \/ FailImport(j)
    PROVE  BooksOK'
<1>1. /\ step[j].pc \in {"finish", "fail"} /\ StepTo(j, "over")
      /\ UNCHANGED <<contents, certRow, slipped>>
    BY DEF FinishImport, FailImport, NoSlip, stores
<1>2. /\ Moves(j) /\ step'[j].at = step[j].at /\ step'[j].csca = step[j].csca /\ step'[j].pc = "over"
    BY <1>1, StepToCounts
<1>3. \A i \in Import : \A k \in Nat : IsPast(i, k) => IsPast(i, k)'
    BY <1>1, <1>2, PastStays DEF ImportInv
<1>4. ASSUME NEW i \in Import
      PROVE  /\ HasUpload(i)' => HasUpload(i) /\ step'[i].csca = step[i].csca
             /\ upload'[i].status = "COMPLETED" => upload'[i].csca = step'[i].csca
    <2>1. CASE i # j
        BY <1>2, <2>1 DEF FinishImport, FailImport, HasUpload, Moves, BooksOK, CscaOK, ImportInv, ImportTyped
    <2>2. CASE i = j /\ FinishImport(j)
        BY <1>2, <2>2 DEF FinishImport, HasUpload, ImportInv, ImportTyped, UploadType
    <2>3. CASE i = j /\ FailImport(j)
        <3>1. upload[j].status # "COMPLETED"
            BY <2>3 DEF FailImport, ImportInv, ThreadsOK, ThreadOK
        <3> QED
            BY <1>2, <2>3, <3>1 DEF FailImport, HasUpload, ImportInv, ImportTyped, UploadType
    <2> QED
        BY <2>1, <2>2, <2>3
<1> QED
    BY <1>1, <1>3, <1>4, BooksAreKept

\* An upload is deleted, on PostgreSQL with its rows. On Oracle they stay.
LEMMA DeleteBooks ==
    ASSUME ImportInv, ImportInv', BooksOK, NEW j \in Import, DeleteUpload(j)
    PROVE  BooksOK'
<1>1. /\ upload' = [upload EXCEPT ![j].status = "deleted"]
      /\ UNCHANGED <<contents, step, slipped>>
    BY DEF DeleteUpload, NoSlip
<1>2. ASSUME NEW i \in Import
      PROVE  /\ HasUpload(i)' => HasUpload(i) /\ step'[i].csca = step[i].csca
             /\ upload'[i].status = "COMPLETED" => upload'[i].csca = step'[i].csca
             /\ \A k \in Nat : IsPast(i, k) => IsPast(i, k)'
             /\ i = j => ~HasUpload(i)'
    BY <1>1 DEF HasUpload, ImportInv, ImportTyped, UploadType, BooksOK, CscaOK, IsPast
<1>3. ASSUME NEW x \in Item
      PROVE  \/ certRow'[x].owner = certRow[x].owner /\ certRow'[x].dup = certRow[x].dup
             \/ certRow'[x] = NoCert /\ j \in certRow[x].owner
    BY DEF DeleteUpload
<1>4. ASSUME NEW x \in Listed
      PROVE  \/ certRow'[x].owner = certRow[x].owner /\ certRow'[x].dup = certRow[x].dup
             \/ certRow'[x] = NoCert /\ \A i \in certRow[x].owner : ~HasUpload(i)'
    <2>1. x \in Item /\ \A i \in certRow[x].owner : certRow[x].owner = certRow[x].owner /\ (j \in certRow[x].owner => i = j)
        BY DEF BooksOK, DupOK, Item
    <2> QED
        BY <1>2, <1>3, <2>1
<1> QED
    BY <1>1, <1>2, <1>4, BooksAreKept

\* Steps that touch neither rows nor threads.
LEMMA StillBooks ==
    ASSUME ImportInv, ImportInv', BooksOK, UNCHANGED <<contents, upload, certRow, step, slipped>>
    PROVE  BooksOK'
<1>1. \A i \in Import :
        /\ HasUpload(i)' => HasUpload(i) /\ step'[i].csca = step[i].csca
        /\ upload'[i].status = "COMPLETED" => upload'[i].csca = step'[i].csca
        /\ \A k \in Nat : IsPast(i, k) => IsPast(i, k)'
    BY DEF HasUpload, BooksOK, CscaOK, IsPast
<1> QED
    BY <1>1, BooksAreKept

\* What a thread remembers of the row it has made.
Inserted(j) ==
    step' = [step EXCEPT ![j].id = ids'[Now(j)], ![j].new = TRUE,
                         ![j].csca = IF Now(j) \in Listed THEN @ + 1 ELSE @,
                         ![j].pc = IF OfSigner(j) THEN "track" ELSE "publish"]

LEMMA OnlyListsCountStays ==
    ASSUME ImportInv, OnlyListsCount, [ImportNext]_importVars
    PROVE  OnlyListsCount'
<1> SUFFICES ASSUME NEW i \in Import, step'[i].pc = "increment" \/ (step'[i].pc = "track" /\ ~step'[i].new)
             PROVE  IsList(i)'
    BY DEF OnlyListsCount
<1>1. CASE UNCHANGED importVars
    BY <1>1 DEF importVars, OnlyListsCount, IsList
<1>2. ASSUME NEW j \in Import, ImportStep(j)
      PROVE  IsList(i)'
    <2>1. contents' = contents /\ (i # j => step'[i] = step[i])
        <3>1. contents' = contents
            BY <1>2 DEF ImportStep, Look, Insert, TrackDuplicate, IncrementDuplicateCount, PublishEntry, FlagStored,
                        FinishImport, FailImport
        <3>2. \/ NextItem(j) \/ (\E l : StepTo(j, l)) \/ \E id : IsDuplicate(j, id)
              \/ Inserted(j)
            BY <1>2 DEF ImportStep, Look, Insert, TrackDuplicate, IncrementDuplicateCount, PublishEntry, FlagStored,
                        FinishImport, FailImport, Inserted
        <3> QED
            BY <3>1, <3>2 DEF ImportInv, ImportTyped, NextItem, StepTo, IsDuplicate, Inserted
    <2>2. CASE i # j
        BY <2>1, <2>2 DEF OnlyListsCount, IsList
    <2>3. CASE i = j
        <3>1. \A k : AtItem(j, k) \in {"look", "finish", "fail"}
            BY DEF AtItem
        <3>2. step \in [Import -> StepType]
            BY DEF ImportInv, ImportTyped
        <3>3. CASE NextItem(j)
            BY <2>3, <3>1, <3>2, <3>3 DEF NextItem, StepType
        <3>4. CASE \E l \in {"insert", "publish", "flag", "over"} : StepTo(j, l)
            BY <2>3, <3>2, <3>4 DEF StepTo, StepType
        <3>5. CASE \E id : IsDuplicate(j, id)
            BY <2>1, <2>3, <3>2, <3>5 DEF IsDuplicate, StepType, IsList
        <3>6. CASE Insert(j)
            <4>1. NextItem(j) \/ (\E id : IsDuplicate(j, id)) \/ Inserted(j)
                BY <3>6 DEF Insert, Inserted
            <4>2. CASE Inserted(j)
                BY <2>3, <3>2, <4>2 DEF Inserted, StepType
            <4> QED
                BY <2>1, <2>3, <3>3, <3>5, <3>6, <4>1, <4>2 DEF IsList
        <3>7. CASE TrackDuplicate(j)
            <4>1. CASE step[j].new
                BY <3>4, <3>7, <4>1 DEF TrackDuplicate
            <4>2. CASE ~step[j].new
                BY <2>1, <2>3, <3>7, <4>2 DEF TrackDuplicate, OnlyListsCount, IsList
            <4> QED
                BY <4>1, <4>2
        <3>8. CASE Look(j)
            <4>1. (\E id : IsDuplicate(j, id)) \/ StepTo(j, "insert") \/ NextItem(j)
                BY <3>8 DEF Look
            <4> QED
                BY <4>1, <3>3, <3>4, <3>5
        <3> QED
            BY <1>2, <3>3, <3>4, <3>6, <3>7, <3>8 DEF ImportStep, IncrementDuplicateCount, PublishEntry, FlagStored, FinishImport, FailImport
    <2> QED
        BY <2>2, <2>3
<1>3. ASSUME NEW j \in Import, DeleteUpload(j)
      PROVE  IsList(i)'
    BY <1>3 DEF DeleteUpload, OnlyListsCount, IsList
<1>4. CASE PreloadCache
    BY <1>4 DEF PreloadCache, OnlyListsCount, IsList
<1> QED
    BY <1>1, <1>2, <1>3, <1>4 DEF ImportNext

LEMMA BooksStay ==
    ASSUME ImportInv, ImportInv', BooksOK, OnlyListsCount, [ImportNext]_importVars
    PROVE  BooksOK'
<1>1. ASSUME NEW j \in Import, ImportStep(j) PROVE BooksOK'
    BY <1>1, LookBooks, InsertBooks, TrackBooks, IncrementBooks, PublishBooks, EndBooks DEF ImportStep
<1>2. CASE PreloadCache
    BY <1>2, StillBooks DEF PreloadCache, stores, NoSlip
<1>3. CASE UNCHANGED importVars
    BY <1>3, StillBooks DEF importVars, stores
<1> QED
    BY <1>1, <1>2, <1>3, DeleteBooks DEF ImportNext

LEMMA BooksInit ==
    ASSUME ImportInit, ImportInv
    PROVE  BooksOK /\ OnlyListsCount
<1>1. ASSUME NEW j \in Import PROVE CscaOK(j)
    <2>1. OwnedBy(j) = {} /\ SurelyOwned(j) = {}
        BY DEF ImportInit, OwnedBy, SurelyOwned, NoCert, Item
    <2>2. step[j].csca = 0 /\ upload[j].csca = 0
        BY DEF ImportInit
    <2> QED
        BY <2>1, <2>2, FS_EmptySet DEF CscaOK
<1>2. ASSUME NEW x \in Listed PROVE DupOK(x)
    <2>1. certRow[x].owner = {} /\ certRow[x].dup = 0 /\ ListOwners(x) = {}
        BY DEF ImportInit, ListOwners, NoCert, Item
    <2>2. Cardinality(Past(x)) \in Nat
        BY PastIsFinite DEF ImportInv
    <2> QED
        BY <2>1, <2>2, FS_EmptySet DEF DupOK
<1>3. OnlyListsCount
    BY DEF OnlyListsCount, ImportInit, AtItem
<1> QED
    BY <1>1, <1>2, <1>3 DEF BooksOK

LEMMA BooksDoBalance ==
    ASSUME ImportInv, BooksOK
    PROVE  BooksBalance
<1>1. ASSUME NEW j \in Import, upload[j].status = "COMPLETED", IsList(j)
      PROVE  /\ upload[j].csca <= Cardinality(OwnedBy(j))
             /\ upload[j].csca >= Cardinality({x \in OwnedBy(j) : <<j, x>> \notin slipped})
    <2>1. CscaOK(j) /\ HasUpload(j)
        BY <1>1 DEF BooksOK, HasUpload
    <2>2. IsFiniteSet(SurelyOwned(j)) /\ IsFiniteSet(OwnedBy(j))
        BY <1>1, <2>1, FS_Subset DEF CscaOK, SurelyOwned
    <2>3. Cardinality(SurelyOwned(j)) \in Nat /\ step[j].csca \in Nat
        BY <2>2, FS_CardinalityType DEF ImportInv, ImportTyped, StepType
    <2> QED
        BY <1>1, <2>1, <2>3 DEF CscaOK, SurelyOwned
<1>2. ASSUME NEW x \in Listed
      PROVE  certRow[x].dup + Cardinality({j \in certRow[x].owner : IsList(j)}) <= Cardinality(Occurrences(x))
    <2>1. DupOK(x) /\ x \in Item
        BY DEF BooksOK, Item
    <2>2. IsFiniteSet(Occurrences(x)) /\ Past(x) \subseteq Occurrences(x)
        BY OccurrencesAreFinite DEF ImportInv, Past
    <2>3. /\ Cardinality(Past(x)) <= Cardinality(Occurrences(x))
          /\ Cardinality(Past(x)) \in Nat /\ Cardinality(Occurrences(x)) \in Nat
        BY <2>2, FS_Subset, FS_CardinalityType
    <2>4. Cardinality(ListOwners(x)) \in {0, 1}
        BY <2>1, OwnersAreFew DEF DupOK, ImportInv
    <2>5. certRow[x].dup \in Nat
        BY <2>1 DEF ImportInv, ImportTyped, RowType
    <2> QED
        BY <2>1, <2>3, <2>4, <2>5 DEF DupOK, ListOwners
<1> QED
    BY <1>1, <1>2 DEF BooksBalance

\* What a completed list or file brought is accounted for, and the counts of all lists
\* agree with it: csca_count with the rows the list owns, the duplicates counted for a
\* certificate with the places where lists have it.
THEOREM ImportsAddUp == ImportSpec => []ImportAddsUp
<1> DEFINE Inv == ImportInv /\ BooksOK /\ OnlyListsCount
<1>1. ImportInit => Inv
    BY ImportInitHolds, BooksInit
<1>2. Inv /\ [ImportNext]_importVars => Inv'
    <2> SUFFICES ASSUME Inv, [ImportNext]_importVars PROVE Inv'
        OBVIOUS
    <2>1. ImportInv'
        BY ImportInvStays
    <2> QED
        BY <2>1, BooksStay, OnlyListsCountStays
<1>3. Inv => BooksBalance
    BY BooksDoBalance
<1>4. ImportSpec => []BooksBalance
    BY <1>1, <1>2, <1>3, PTL DEF ImportSpec
<1>5. EachIsAccountedFor /\ BooksBalance => ImportAddsUp
    BY DEF ImportAddsUp
<1> QED
    BY <1>4, <1>5, ImportsAreAccountedFor, PTL

-----------------------------------------------------------------------------
(* RateLimiter: what was accepted before a window, and in it.              *)

WindowRecord == [count : Nat, start : Nat]

LimiterShape ==
    /\ clock \in 0 .. MaxTime
    /\ DOMAIN windows \subseteq Client
    /\ windows \in [DOMAIN windows -> [Window -> WindowRecord]]
    /\ accepted \in [Client -> [-1 .. MaxTime -> Nat]]

\* The record of what was accepted grows with the ticks, until the present one.
RecordGrows ==
    /\ \A c \in Client : \A t, u \in -1 .. MaxTime : t <= u => accepted[c][t] <= accepted[c][u]
    /\ \A c \in Client : \A t \in clock .. MaxTime : accepted[c][t] = accepted[c][clock]

\* No stretch of the window's length that ends before tick s has more than n.
QuietBefore(c, k, s, n) ==
    \A from \in 0 .. s : from > s - Length[k] => accepted[c][s - 1] - accepted[c][from - 1] <= n

\* A window has counted what was accepted since it began. It follows another one
\* that ended, or began when the client was new or forgotten; then its day began
\* with it or later.
IsWindow(c, k, w, d) ==
    /\ w.start <= clock /\ w.count = accepted[c][clock] - accepted[c][w.start - 1]
    /\ Limit[c][k] > 0 =>
        /\ w.count <= Limit[c][k]
        /\ \/ QuietBefore(c, k, w.start, Limit[c][k])
           \/ k # "day" /\ w.start <= d.start /\ QuietBefore(c, k, w.start, 2 * Limit[c][k])

UsedNow(c) == accepted[c][clock] # accepted[c][clock - 1]

HasWindows(c) ==
    \A k \in Window :
        /\ IsWindow(c, k, windows[c][k], windows[c]["day"])
        /\ UsedNow(c) => clock - windows[c][k].start < Length[k]

\* A client that is new, or whose day is over.
IsForgotten(c) ==
    /\ ~UsedNow(c)
    /\ \A k \in Window : Limit[c][k] > 0 =>
           \A from \in 0 .. clock : from > clock - Length[k] =>
               accepted[c][clock] - accepted[c][from - 1] <= (IF k = "day" THEN 1 ELSE 2) * Limit[c][k]

ClientsOK == \A c \in Client : IF c \in DOMAIN windows THEN HasWindows(c) ELSE IsForgotten(c)

LimiterInv == LimiterShape /\ RecordGrows /\ ClientsOK /\ RateIsBounded

\* The constants, and the records they are compared with, are numbers.
LEMMA LimiterNumbers ==
    ASSUME LimiterShape, NEW c \in Client, NEW k \in Window
    PROVE  /\ Length[k] \in Nat \ {0} /\ Length[k] <= Length["day"] /\ Limit[c][k] \in Nat
           /\ MaxTime \in Nat /\ clock \in 0 .. MaxTime
           /\ \A t \in -1 .. MaxTime : accepted[c][t] \in Nat
           /\ c \in DOMAIN windows => windows[c] \in [Window -> WindowRecord]
    BY LimiterAssumption DEF LimiterShape, Window

\* The windows of a client when it asks, whether it is new, was forgotten or had
\* some: none of them is over, and each has counted what was accepted in it.
LEMMA CurrentHolds ==
    ASSUME LimiterInv, NEW c \in Client
    PROVE  /\ Current(c) \in [Window -> WindowRecord]
           /\ \A k \in Window : /\ IsWindow(c, k, Current(c)[k], Current(c)["day"])
                                /\ clock - Current(c)[k].start < Length[k]
<1> USE DEF LimiterInv
<1> "day" \in Window
    BY DEF Window
<1>1. Opened \in WindowRecord /\ Opened.start = clock /\ Opened.count = 0
    BY DEF Opened, WindowRecord, LimiterShape
<1>2. \A k \in Window : Current(c)[k] = IF c \in DOMAIN windows THEN resetIfExpired(windows[c][k], k) ELSE Opened
    BY DEF Current
<1>3. Current(c) \in [Window -> WindowRecord]
    BY <1>1, LimiterNumbers DEF Current, resetIfExpired
<1>4. ASSUME c \notin DOMAIN windows, NEW k \in Window
      PROVE  /\ IsWindow(c, k, Current(c)[k], Current(c)["day"])
             /\ clock - Current(c)[k].start < Length[k]
    <2>1. Current(c)[k] = Opened /\ Current(c)["day"] = Opened
        BY <1>2, <1>4
    <2>2. accepted[c][clock] = accepted[c][clock - 1]
        BY <1>4 DEF ClientsOK, IsForgotten, UsedNow
    <2>3. Limit[c][k] > 0 => QuietBefore(c, k, clock, (IF k = "day" THEN 1 ELSE 2) * Limit[c][k])
        BY <1>4, <2>2, LimiterNumbers DEF ClientsOK, IsForgotten, QuietBefore
    <2>4. Limit[c][k] > 0 => \/ QuietBefore(c, k, clock, Limit[c][k])
                             \/ k # "day" /\ QuietBefore(c, k, clock, 2 * Limit[c][k])
        <3>1. 1 * Limit[c][k] = Limit[c][k]
            BY LimiterNumbers
        <3> QED
            BY <2>3, <3>1
    <2>5. clock \in Nat /\ Length[k] \in Nat \ {0} /\ Limit[c][k] \in Nat /\ accepted[c][clock] \in Nat
        BY LimiterNumbers
    <2> QED
        BY <1>1, <2>1, <2>2, <2>4, <2>5 DEF IsWindow
<1>5. ASSUME c \in DOMAIN windows, NEW k \in Window
      PROVE  /\ IsWindow(c, k, Current(c)[k], Current(c)["day"])
             /\ clock - Current(c)[k].start < Length[k]
    <2> DEFINE w == windows[c][k]
               d == windows[c]["day"]
    <2>1. /\ w \in WindowRecord /\ d \in WindowRecord /\ d.start <= clock
          /\ IsWindow(c, k, w, d) /\ (UsedNow(c) => clock - w.start < Length[k])
        <3>1. w \in WindowRecord /\ d \in WindowRecord
            BY <1>5, LimiterNumbers
        <3>2. HasWindows(c)
            BY <1>5 DEF ClientsOK
        <3> QED
            BY <3>1, <3>2 DEF HasWindows, IsWindow
    <2>2. Current(c)["day"] \in {Opened, d} /\ d.start <= Current(c)["day"].start
        BY <1>1, <1>2, <1>5, <2>1 DEF resetIfExpired, WindowRecord
    <2> HIDE DEF w, d
    <2>3. CASE clock - w.start >= Length[k]
        <3>1. Current(c)[k] = Opened
            BY <1>2, <1>5, <2>3 DEF resetIfExpired, w
        <3>2. accepted[c][clock] = accepted[c][clock - 1]
            BY <2>1, <2>3, LimiterNumbers DEF UsedNow, WindowRecord
        <3>3. ASSUME Limit[c][k] > 0 PROVE QuietBefore(c, k, clock, Limit[c][k])
            <4> SUFFICES ASSUME NEW from \in 0 .. clock, from > clock - Length[k]
                         PROVE  accepted[c][clock - 1] - accepted[c][from - 1] <= Limit[c][k]
                BY DEF QuietBefore
            <4>1. /\ w.start \in Nat /\ clock \in Nat /\ Length[k] \in Nat
                  /\ w.start - 1 \in -1 .. MaxTime /\ from - 1 \in -1 .. MaxTime /\ w.start - 1 <= from - 1
                BY <2>1, <2>3, LimiterNumbers DEF WindowRecord, IsWindow
            <4>2. accepted[c][w.start - 1] <= accepted[c][from - 1]
                BY <4>1 DEF RecordGrows
            <4>3. accepted[c][clock] - accepted[c][w.start - 1] <= Limit[c][k]
                BY <2>1, <3>3 DEF IsWindow
            <4>4. /\ accepted[c][clock] \in Nat /\ accepted[c][w.start - 1] \in Nat
                  /\ accepted[c][from - 1] \in Nat /\ Limit[c][k] \in Nat
                BY <4>1, LimiterNumbers
            <4> QED
                BY <3>2, <4>2, <4>3, <4>4
        <3> QED
            BY <1>1, <3>1, <3>2, <3>3, LimiterNumbers DEF IsWindow
    <2>4. CASE ~(clock - w.start >= Length[k])
        <3>1. Current(c)[k] = w
            BY <1>2, <1>5, <2>4 DEF resetIfExpired, w
        <3>2. \A x \in Nat : x <= d.start => x <= Current(c)["day"].start
            BY <1>1, <2>1, <2>2, LimiterNumbers DEF WindowRecord
        <3>3. w.start \in Nat /\ clock \in Nat /\ Length[k] \in Nat
            BY <2>1, LimiterNumbers DEF WindowRecord
        <3> QED
            BY <2>1, <2>4, <3>1, <3>2, <3>3 DEF IsWindow
    <2> QED
        BY <2>3, <2>4
<1> QED
    BY <1>3, <1>4, <1>5


\* A client whose day is over can be forgotten: whatever of its minute or its hour
\* is forgotten with it, no more than twice the limit.
LEMMA OverIsForgotten ==
    ASSUME LimiterInv, NEW c \in DOMAIN windows, clock - windows[c]["day"].start > Length["day"]
    PROVE  IsForgotten(c)
<1> USE DEF LimiterInv
<1> c \in Client /\ "day" \in Window
    BY DEF LimiterShape, Window
<1> DEFINE d == windows[c]["day"]
<1>1. HasWindows(c) /\ d \in WindowRecord
    BY LimiterNumbers DEF ClientsOK
<1>2. ~UsedNow(c)
    <2>1. UsedNow(c) => clock - d.start < Length["day"]
        BY <1>1 DEF HasWindows
    <2>2. d.start \in Nat /\ clock \in Nat /\ Length["day"] \in Nat
        BY <1>1, LimiterNumbers DEF WindowRecord
    <2> QED
        BY <2>1, <2>2
<1>3. ASSUME NEW k \in Window, Limit[c][k] > 0, NEW from \in 0 .. clock, from > clock - Length[k]
      PROVE  accepted[c][clock] - accepted[c][from - 1] <= (IF k = "day" THEN 1 ELSE 2) * Limit[c][k]
    <2> DEFINE w == windows[c][k]
               L == Limit[c][k]
               total == accepted[c][clock]
    <2>1. w \in WindowRecord /\ IsWindow(c, k, w, d) /\ (k = "day" => w = d)
        <3>1. w \in WindowRecord
            BY LimiterNumbers
        <3> QED
            BY <1>1, <3>1 DEF HasWindows
    <2> HIDE DEF w
    <2>2. /\ w.start \in 0 .. clock /\ clock \in 0 .. MaxTime /\ MaxTime \in Nat /\ Length[k] \in Nat
          /\ Length["day"] \in Nat /\ Length[k] <= Length["day"] /\ d.start \in Nat
          /\ L \in Nat /\ total \in Nat
          /\ from - 1 \in -1 .. MaxTime /\ w.start - 1 \in -1 .. MaxTime
        BY <1>1, <2>1, LimiterNumbers DEF IsWindow, WindowRecord
    <2>3. accepted[c][from - 1] \in Nat /\ accepted[c][w.start - 1] \in Nat
        BY <2>2, LimiterNumbers
    <2>4. total - accepted[c][w.start - 1] <= L
        BY <1>3, <2>1 DEF IsWindow
    <2>5. CASE w.start <= from
        <3>1. accepted[c][w.start - 1] <= accepted[c][from - 1]
            BY <2>2, <2>5 DEF RecordGrows
        <3>2. total - accepted[c][from - 1] <= L
            BY <2>2, <2>3, <2>4, <3>1
        <3> QED
            BY <2>2, <2>3, <3>2
    <2>6. CASE ~(w.start <= from)
        <3>1. k # "day" /\ ~(w.start <= d.start)
            BY <1>3, <2>1, <2>2, <2>6
        <3>2. QuietBefore(c, k, w.start, L)
            BY <1>3, <2>1, <3>1 DEF IsWindow
        <3>3. accepted[c][w.start - 1] - accepted[c][from - 1] <= L
            BY <1>3, <2>2, <2>6, <3>2 DEF QuietBefore
        <3>4. total - accepted[c][from - 1] <= 2 * L
            BY <2>2, <2>3, <2>4, <3>3
        <3> QED
            BY <3>1, <3>4
    <2> QED
        BY <2>5, <2>6
<1> QED
    BY <1>2, <1>3 DEF IsForgotten

\* The limit on a stretch, for one client.
IsBounded(c) ==
    \A k \in Window, from \in 0 .. clock :
        Limit[c][k] > 0 => AcceptedIn(c, from, k) <= (IF k = "day" THEN 2 ELSE 3) * Limit[c][k]

\* Nothing was accepted of the client, and it keeps its windows or is forgotten
\* when its day is over.
LEMMA OtherClients ==
    ASSUME LimiterInv, clock' = clock, NEW c \in Client, accepted'[c] = accepted[c],
           IF c \in DOMAIN windows' THEN c \in DOMAIN windows /\ windows'[c] = windows[c]
           ELSE c \in DOMAIN windows => clock - windows[c]["day"].start > Length["day"]
    PROVE  /\ IF c \in DOMAIN windows' THEN HasWindows(c)' ELSE IsForgotten(c)'
           /\ IsBounded(c)'
<1> USE DEF LimiterInv
<1>1. IsBounded(c)'
    BY DEF RateIsBounded, IsBounded, AcceptedIn, StretchEnd
<1>2. CASE c \in DOMAIN windows'
    BY <1>1, <1>2 DEF ClientsOK, HasWindows, IsWindow, UsedNow, QuietBefore
<1>3. CASE c \notin DOMAIN windows'
    <2>1. IsForgotten(c)
        BY <1>3, OverIsForgotten DEF ClientsOK
    <2> QED
        BY <1>1, <1>3, <2>1 DEF IsForgotten, UsedNow
<1> QED
    BY <1>2, <1>3

\* A refused request leaves the windows as they are when it asks.
LEMMA RefuseKeeps ==
    ASSUME LimiterInv, NEW c \in Client, Refuse(c)
    PROVE  LimiterInv'
<1> USE DEF LimiterInv
<1>1. clock' = clock /\ accepted' = accepted /\ windows' = Stored(c, Current(c))
    BY DEF Refuse
<1>2. /\ DOMAIN windows' = DOMAIN windows \cup {c} /\ windows'[c] = Current(c)
      /\ \A d \in DOMAIN windows \ {c} : windows'[d] = windows[d]
      /\ windows' \in [DOMAIN windows' -> [Window -> WindowRecord]]
    BY <1>1, CurrentHolds DEF LimiterShape, Stored
<1>3. LimiterShape' /\ RecordGrows'
    BY <1>1, <1>2 DEF LimiterShape, RecordGrows
<1>4. HasWindows(c)'
    <2>1. ASSUME NEW k \in Window
          PROVE  /\ IsWindow(c, k, windows[c][k], windows[c]["day"])'
                 /\ clock' - windows'[c][k].start < Length[k]
        BY <1>1, <1>2, CurrentHolds DEF IsWindow, QuietBefore
    <2> QED
        BY <2>1 DEF HasWindows
<1>5. ASSUME NEW d \in Client \ {c}
      PROVE  /\ IF d \in DOMAIN windows' THEN HasWindows(d)' ELSE IsForgotten(d)'
             /\ IsBounded(d)'
    BY <1>1, <1>2, OtherClients
<1>6. IsBounded(c)'
    BY <1>1 DEF RateIsBounded, IsBounded, AcceptedIn, StretchEnd
<1>7. ClientsOK' /\ RateIsBounded'
    BY <1>2, <1>4, <1>5, <1>6 DEF ClientsOK, RateIsBounded, IsBounded
<1> QED
    BY <1>3, <1>7

\* What an accepted request leaves: its client's windows one higher, the others as
\* they were or, when their day is over, forgotten.
LEMMA AcceptLeaves ==
    ASSUME LimiterInv, NEW c \in Client, Accept(c)
    PROVE  /\ clock' = clock /\ accepted' \in [Client -> [-1 .. MaxTime -> Nat]]
           /\ \A t \in -1 .. MaxTime :
                  accepted'[c][t] = IF t < clock THEN accepted[c][t] ELSE accepted[c][t] + 1
           /\ \A d \in Client \ {c} : accepted'[d] = accepted[d]
           /\ DOMAIN windows' \subseteq Client /\ windows' \in [DOMAIN windows' -> [Window -> WindowRecord]]
           /\ c \in DOMAIN windows'
           /\ \A k \in Window : /\ windows'[c][k].start = Current(c)[k].start
                                /\ windows'[c][k].count = Current(c)[k].count + 1
           /\ \A d \in Client \ {c} :
                  IF d \in DOMAIN windows' THEN d \in DOMAIN windows /\ windows'[d] = windows[d]
                  ELSE d \in DOMAIN windows => clock - windows[d]["day"].start > Length["day"]
<1> USE DEF LimiterInv
<1> "day" \in Window
    BY DEF Window
<1> DEFINE ws == [k \in Window |-> [Current(c)[k] EXCEPT !.count = @ + 1]]
           counted == Stored(c, ws)
<1>1. /\ clock' = clock /\ windows' \in {counted, Kept(c, counted)}
      /\ accepted' = [accepted EXCEPT ![c] =
                          [t \in -1 .. MaxTime |-> IF t < clock THEN accepted[c][t] ELSE accepted[c][t] + 1]]
    BY DEF Accept
<1>2. \A t \in -1 .. MaxTime : accepted[c][t] \in Nat
    BY LimiterNumbers DEF Window
<1>3. /\ accepted' \in [Client -> [-1 .. MaxTime -> Nat]]
      /\ \A t \in -1 .. MaxTime :
             accepted'[c][t] = IF t < clock THEN accepted[c][t] ELSE accepted[c][t] + 1
      /\ \A d \in Client \ {c} : accepted'[d] = accepted[d]
    <2>1. [t \in -1 .. MaxTime |-> IF t < clock THEN accepted[c][t] ELSE accepted[c][t] + 1]
              \in [-1 .. MaxTime -> Nat]
        BY <1>2
    <2> QED
        BY <1>1, <2>1 DEF LimiterShape
<1>4. /\ ws \in [Window -> WindowRecord]
      /\ \A k \in Window : ws[k].start = Current(c)[k].start /\ ws[k].count = Current(c)[k].count + 1
    BY CurrentHolds DEF WindowRecord
<1> HIDE DEF ws
<1>5. /\ DOMAIN counted = DOMAIN windows \cup {c} /\ counted[c] = ws
      /\ \A d \in DOMAIN windows \ {c} : counted[d] = windows[d]
      /\ DOMAIN counted \subseteq Client /\ counted \in [DOMAIN counted -> [Window -> WindowRecord]]
    BY <1>4 DEF Stored, LimiterShape
<1> HIDE DEF counted
<1>6. /\ c \in DOMAIN windows' /\ DOMAIN windows' \subseteq DOMAIN counted
      /\ windows' = [d \in DOMAIN windows' |-> counted[d]]
      /\ \A d \in DOMAIN counted \ DOMAIN windows' : ~(clock - counted[d]["day"].start <= Length["day"])
    <2>1. CASE windows' = counted
        BY <1>5, <2>1
    <2>2. CASE windows' = Kept(c, counted)
        BY <1>5, <2>2 DEF Kept, Restrict
    <2> QED
        BY <1>1, <2>1, <2>2
<1>7. DOMAIN windows' \subseteq Client /\ windows' \in [DOMAIN windows' -> [Window -> WindowRecord]]
    BY <1>5, <1>6
<1>8. windows'[c] = ws
    BY <1>5, <1>6
<1>9. ASSUME NEW d \in Client \ {c}
      PROVE  IF d \in DOMAIN windows' THEN d \in DOMAIN windows /\ windows'[d] = windows[d]
             ELSE d \in DOMAIN windows => clock - windows[d]["day"].start > Length["day"]
    <2>1. CASE d \in DOMAIN windows'
        BY <1>5, <1>6, <2>1
    <2>2. CASE d \notin DOMAIN windows' /\ d \in DOMAIN windows
        <3>1. ~(clock - windows[d]["day"].start <= Length["day"])
            BY <1>5, <1>6, <2>2
        <3>2. windows[d]["day"] \in WindowRecord /\ clock \in Nat /\ Length["day"] \in Nat
            BY <2>2, LimiterNumbers
        <3>3. windows[d]["day"].start \in Nat
            BY <3>2 DEF WindowRecord
        <3> QED
            BY <2>2, <3>1, <3>2, <3>3
    <2> QED
        BY <2>1, <2>2
<1> QED
    BY <1>1, <1>3, <1>4, <1>6, <1>7, <1>8, <1>9

\* An accepted request was within its client's limits; so is every stretch that ends now.
LEMMA AcceptKeeps ==
    ASSUME LimiterInv, NEW c \in Client, Accept(c)
    PROVE  LimiterInv'
<1> USE DEF LimiterInv
<1>0. /\ \A t \in -1 .. MaxTime : accepted'[c][t] = IF t < clock THEN accepted[c][t] ELSE accepted[c][t] + 1
      /\ \A d \in Client \ {c} : accepted'[d] = accepted[d]
      /\ clock' = clock
    BY AcceptLeaves
<1>1. \A d \in Client \ {c} : /\ IF d \in DOMAIN windows' THEN HasWindows(d)' ELSE IsForgotten(d)'
                              /\ IsBounded(d)'
    BY AcceptLeaves, OtherClients
<1>2. LimiterShape'
    BY AcceptLeaves DEF LimiterShape
<1>3. RecordGrows'
    <2>1. \A d \in Client : \A t, u \in -1 .. MaxTime : t <= u => accepted'[d][t] <= accepted'[d][u]
        <3>1. \A t, u \in -1 .. MaxTime : t <= u => accepted'[c][t] <= accepted'[c][u]
            <4> TAKE t, u \in -1 .. MaxTime
            <4>1. t \in Int /\ u \in Int /\ clock \in Int /\ accepted[c][t] \in Nat /\ accepted[c][u] \in Nat
                BY LimiterNumbers DEF Window
            <4>2. t <= u => accepted[c][t] <= accepted[c][u]
                BY DEF RecordGrows
            <4> QED
                BY <1>0, <4>1, <4>2
        <3> QED
            BY <1>0, <3>1 DEF RecordGrows
    <2>2. \A d \in Client : \A t \in clock .. MaxTime : accepted'[d][t] = accepted'[d][clock]
        <3>1. \A t \in clock .. MaxTime : t \in -1 .. MaxTime /\ ~(t < clock)
            BY DEF LimiterShape
        <3>2. clock \in clock .. MaxTime
            BY DEF LimiterShape
        <3> QED
            BY <1>0, <3>1, <3>2 DEF RecordGrows
    <2> QED
        BY <1>0, <2>1, <2>2 DEF RecordGrows
<1>4. ASSUME NEW k \in Window
      PROVE  /\ IsWindow(c, k, windows[c][k], windows[c]["day"])'
             /\ clock - windows'[c][k].start < Length[k]
    <2> DEFINE w == Current(c)[k]
               s == w.start
    <2>1. /\ w \in WindowRecord /\ s \in 0 .. clock /\ s - 1 \in -1 .. MaxTime /\ s - 1 < clock
          /\ clock \in -1 .. MaxTime /\ ~(clock < clock)
          /\ IsWindow(c, k, w, Current(c)["day"]) /\ clock - s < Length[k]
        BY CurrentHolds, LimiterNumbers DEF IsWindow, WindowRecord
    <2>2. /\ windows'[c][k].start = s /\ windows'[c][k].count = w.count + 1
          /\ windows'[c]["day"].start = Current(c)["day"].start
        BY AcceptLeaves DEF Window
    <2> HIDE DEF w, s
    <2>3. accepted'[c][clock] = accepted[c][clock] + 1 /\ accepted'[c][s - 1] = accepted[c][s - 1]
        BY <2>1, AcceptLeaves
    <2>4. w.count + 1 = accepted'[c][clock] - accepted'[c][s - 1]
        BY <2>1, <2>3, LimiterNumbers DEF IsWindow, s
    <2>5. Limit[c][k] > 0 => w.count + 1 <= Limit[c][k]
        <3>1. Limit[c][k] > 0 => ~(w.count >= Limit[c][k])
            BY DEF Accept, Full, w
        <3> QED
            BY <2>1, <3>1, LimiterNumbers DEF WindowRecord
    <2> PICK x : x = s
        OBVIOUS
    <2>6. \A n \in Nat : QuietBefore(c, k, x, n) => QuietBefore(c, k, x, n)'
        <3>1. \A from \in 0 .. x : from - 1 \in -1 .. MaxTime /\ from - 1 < clock
            BY <2>1, LimiterNumbers
        <3>2. \A from \in 0 .. x : accepted'[c][from - 1] = accepted[c][from - 1]
            BY <1>0, <3>1
        <3> QED
            BY <2>3, <3>2 DEF QuietBefore
    <2>7. Limit[c][k] > 0 =>
              \/ QuietBefore(c, k, x, Limit[c][k])'
              \/ k # "day" /\ x <= Current(c)["day"].start /\ QuietBefore(c, k, x, 2 * Limit[c][k])'
        <3>1. Limit[c][k] \in Nat /\ 2 * Limit[c][k] \in Nat
            BY LimiterNumbers
        <3> QED
            BY <2>1, <2>6, <3>1 DEF IsWindow, s
    <2>8. /\ windows'[c][k].start = x /\ windows'[c][k].count = w.count + 1
          /\ w.count + 1 = accepted'[c][clock'] - accepted'[c][x - 1] /\ x <= clock'
        BY <1>0, <2>1, <2>2, <2>4
    <2> QED
        BY <1>0, <2>1, <2>2, <2>5, <2>7, <2>8 DEF IsWindow
<1>5. HasWindows(c)'
    BY <1>4, AcceptLeaves DEF HasWindows
<1>6. ASSUME NEW k \in Window, NEW from \in 0 .. clock, Limit[c][k] > 0
      PROVE  AcceptedIn(c, from, k)' <= (IF k = "day" THEN 2 ELSE 3) * Limit[c][k]
    <2> DEFINE s == Current(c)[k].start
               L == Limit[c][k]
               end == StretchEnd(from, k)
               now == accepted'[c][clock]
    <2>1. /\ clock \in 0 .. MaxTime /\ MaxTime \in Nat /\ Length[k] \in Nat \ {0} /\ L \in Nat /\ L > 0
          /\ from \in 0 .. clock /\ from - 1 \in -1 .. MaxTime /\ from - 1 < clock
        BY <1>6, LimiterNumbers
    <2>2. end \in from .. MaxTime /\ (end >= clock => from > clock - Length[k])
        BY <2>1 DEF StretchEnd
    <2>3. /\ AcceptedIn(c, from, k) = accepted[c][end] - accepted[c][from - 1]
          /\ AcceptedIn(c, from, k)' = accepted'[c][end] - accepted'[c][from - 1]
          /\ accepted'[c][from - 1] = accepted[c][from - 1]
        BY <2>1, AcceptLeaves DEF AcceptedIn, StretchEnd
    <2> HIDE DEF end, L
    <2>4. CASE end < clock
        <3>1. accepted'[c][end] = accepted[c][end]
            BY <2>1, <2>2, <2>4, AcceptLeaves
        <3>2. AcceptedIn(c, from, k) <= (IF k = "day" THEN 2 ELSE 3) * Limit[c][k]
            BY <1>6 DEF RateIsBounded
        <3> QED
            BY <2>3, <3>1, <3>2
    <2>5. CASE ~(end < clock)
        <3>1. accepted'[c][end] = now /\ now \in Nat
            <4>1. end \in clock .. MaxTime /\ clock \in -1 .. MaxTime
                BY <2>1, <2>2, <2>5
            <4> QED
                BY <1>2, <1>3, <1>0, <4>1 DEF RecordGrows, LimiterShape
        <3>2. /\ s \in 0 .. clock /\ s - 1 \in -1 .. MaxTime /\ s - 1 < clock /\ clock - s < Length[k]
              /\ from > clock - Length[k]
            BY <2>1, <2>2, <2>5, CurrentHolds DEF IsWindow, WindowRecord
        <3>3. now - accepted'[c][s - 1] <= L /\ accepted'[c][s - 1] = accepted[c][s - 1]
            <4>1. windows'[c][k].start = s
                BY AcceptLeaves
            <4>2. windows'[c][k].count = now - accepted'[c][s - 1] /\ windows'[c][k].count <= L
                BY <1>4, <1>6, <4>1, AcceptLeaves DEF IsWindow, L
            <4> QED
                BY <3>2, <4>2, AcceptLeaves
        <3>4. accepted[c][s - 1] \in Nat /\ accepted[c][from - 1] \in Nat
            BY <2>1, <3>2, LimiterNumbers
        <3>5. IF k = "day" THEN accepted[c][s - 1] - accepted[c][from - 1] <= L
              ELSE accepted[c][s - 1] - accepted[c][from - 1] <= 2 * L
            <4>1. CASE s <= from
                <5>1. accepted[c][s - 1] <= accepted[c][from - 1]
                    BY <2>1, <3>2, <4>1 DEF RecordGrows
                <5> QED
                    BY <2>1, <3>4, <5>1
            <4>2. CASE ~(s <= from)
                <5>1. from \in 0 .. s /\ from > s - Length[k]
                    BY <2>1, <3>2, <4>2
                <5>2. \/ QuietBefore(c, k, s, L)
                      \/ k # "day" /\ QuietBefore(c, k, s, 2 * L)
                    BY <1>6, CurrentHolds DEF IsWindow, L
                <5>3. \/ accepted[c][s - 1] - accepted[c][from - 1] <= L
                      \/ k # "day" /\ accepted[c][s - 1] - accepted[c][from - 1] <= 2 * L
                    BY <5>1, <5>2 DEF QuietBefore
                <5> QED
                    BY <2>1, <3>4, <5>3
            <4> QED
                BY <4>1, <4>2
        <3> HIDE DEF now, s
        <3>6. now - accepted[c][from - 1] <= (IF k = "day" THEN 2 ELSE 3) * L
            <4>1. CASE k = "day"
                BY <2>1, <3>1, <3>3, <3>4, <3>5, <4>1
            <4>2. CASE k # "day"
                BY <2>1, <3>1, <3>3, <3>4, <3>5, <4>2
            <4> QED
                BY <4>1, <4>2
        <3> QED
            BY <2>3, <3>1, <3>6 DEF L
    <2> QED
        BY <2>4, <2>5
<1>7. IsBounded(c)'
    BY <1>6, AcceptLeaves DEF IsBounded
<1>8. ClientsOK' /\ RateIsBounded'
    BY <1>1, <1>5, <1>7, AcceptLeaves DEF ClientsOK, RateIsBounded, IsBounded
<1> QED
    BY <1>2, <1>3, <1>8

\* When time passes windows end, and nothing is accepted.
LEMMA LimiterTickKeeps ==
    ASSUME LimiterInv, LimiterTick
    PROVE  LimiterInv'
<1> USE DEF LimiterInv
<1>1. windows' = windows /\ accepted' = accepted /\ clock' = clock + 1 /\ clock' \in 0 .. MaxTime
    BY LimiterAssumption DEF LimiterTick, LimiterShape
<1>2. clock \in 0 .. MaxTime /\ MaxTime \in Nat
    BY LimiterAssumption DEF LimiterShape
<1>3. \A c \in Client : accepted[c][clock'] = accepted[c][clock]
    <2>1. clock' \in clock .. MaxTime
        BY <1>1, <1>2
    <2> QED
        BY <2>1 DEF RecordGrows
<1>4. \A c \in Client : ~UsedNow(c)'
    <2>1. clock' - 1 = clock
        BY <1>1, <1>2
    <2> QED
        BY <1>1, <1>3, <2>1 DEF UsedNow
<1>5. LimiterShape'
    BY <1>1 DEF LimiterShape
<1>6. RecordGrows'
    <2>1. \A t \in clock' .. MaxTime : t \in clock .. MaxTime
        BY <1>1, <1>2
    <2> QED
        BY <1>1, <1>3, <2>1 DEF RecordGrows
<1>7. ASSUME NEW c \in DOMAIN windows PROVE HasWindows(c)'
    <2>1. c \in Client
        BY DEF LimiterShape
    <2>2. ASSUME NEW k \in Window PROVE IsWindow(c, k, windows[c][k], windows[c]["day"])'
        <3>1. IsWindow(c, k, windows[c][k], windows[c]["day"])
            BY <2>1 DEF ClientsOK, HasWindows
        <3>2. windows[c][k] \in WindowRecord
            BY <2>1, LimiterNumbers
        <3>3. windows[c][k].start <= clock'
            BY <1>1, <1>2, <3>1, <3>2 DEF IsWindow, WindowRecord
        <3> QED
            BY <1>1, <1>3, <2>1, <3>1, <3>3 DEF IsWindow, QuietBefore
    <2> QED
        BY <1>4, <2>1, <2>2 DEF HasWindows
<1>8. ASSUME NEW c \in Client \ DOMAIN windows PROVE IsForgotten(c)'
    <2>1. ASSUME NEW k \in Window, Limit[c][k] > 0, NEW from \in 0 .. clock', from > clock' - Length[k]
          PROVE  accepted[c][clock'] - accepted[c][from - 1] <= (IF k = "day" THEN 1 ELSE 2) * Limit[c][k]
        <3>1. CASE from = clock'
            <4>1. from - 1 = clock /\ accepted[c][clock] \in Nat /\ Limit[c][k] \in Nat
                BY <1>1, <1>2, <3>1, LimiterNumbers
            <4> QED
                BY <1>3, <4>1
        <3>2. CASE from # clock'
            <4>1. from \in 0 .. clock /\ from > clock - Length[k]
                BY <1>1, <1>2, <2>1, <3>2, LimiterNumbers
            <4> QED
                BY <1>3, <2>1, <4>1 DEF ClientsOK, IsForgotten
        <3> QED
            BY <3>1, <3>2
    <2> QED
        BY <1>1, <1>4, <2>1 DEF IsForgotten
<1>9. RateIsBounded'
    <2> SUFFICES ASSUME NEW c \in Client, NEW k \in Window, NEW from \in 0 .. clock', Limit[c][k] > 0
                 PROVE  AcceptedIn(c, from, k) <= (IF k = "day" THEN 2 ELSE 3) * Limit[c][k]
        BY <1>1 DEF RateIsBounded, AcceptedIn, StretchEnd
    <2>1. CASE from \in 0 .. clock
        BY <2>1 DEF RateIsBounded
    <2>2. CASE from \notin 0 .. clock
        <3>1. from = clock' /\ from - 1 = clock
            BY <1>1, <1>2, <2>2
        <3>2. StretchEnd(from, k) \in clock .. MaxTime
            BY <1>1, <1>2, <3>1, LimiterNumbers DEF StretchEnd
        <3>3. AcceptedIn(c, from, k) = 0
            <4>1. accepted[c][StretchEnd(from, k)] = accepted[c][clock] /\ accepted[c][clock] \in Nat
                BY <1>2, <3>2, LimiterNumbers DEF RecordGrows
            <4> QED
                BY <3>1, <4>1 DEF AcceptedIn
        <3> QED
            BY <3>3, LimiterNumbers
    <2> QED
        BY <2>1, <2>2
<1> QED
    BY <1>1, <1>5, <1>6, <1>7, <1>8, <1>9 DEF ClientsOK

\* Nobody has asked yet.
LEMMA LimiterStarts == LimiterInit => LimiterInv
<1> SUFFICES ASSUME LimiterInit PROVE LimiterInv
    OBVIOUS
<1>1. windows = <<>> /\ DOMAIN windows = {} /\ clock = 0 /\ MaxTime \in Nat
    BY LimiterAssumption DEF LimiterInit
<1>2. \A c \in Client, t \in -1 .. MaxTime : accepted[c][t] = 0
    BY DEF LimiterInit
<1>3. LimiterShape
    BY <1>1 DEF LimiterShape, LimiterInit
<1>4. RecordGrows
    BY <1>1, <1>2 DEF RecordGrows
<1>5. \A c \in Client, k \in Window : Limit[c][k] \in Nat /\ Length[k] \in Nat \ {0}
    BY LimiterAssumption
<1>6. ClientsOK
    BY <1>1, <1>2, <1>5 DEF ClientsOK, IsForgotten, UsedNow
<1>7. RateIsBounded
    <2>1. ASSUME NEW c \in Client, NEW k \in Window, NEW from \in 0 .. clock PROVE AcceptedIn(c, from, k) = 0
        BY <1>1, <1>2, <1>5 DEF AcceptedIn, StretchEnd
    <2> QED
        BY <1>5, <2>1 DEF RateIsBounded
<1> QED
    BY <1>3, <1>4, <1>6, <1>7 DEF LimiterInv

\* Every step keeps the invariant.
LEMMA LimiterSteps == LimiterInv /\ [LimiterNext]_limiterVars => LimiterInv'
<1> SUFFICES ASSUME LimiterInv, [LimiterNext]_limiterVars PROVE LimiterInv'
    OBVIOUS
<1>1. CASE UNCHANGED limiterVars
    BY <1>1 DEF limiterVars, LimiterInv, LimiterShape, RecordGrows, ClientsOK, HasWindows, IsForgotten,
                IsWindow, QuietBefore, UsedNow, RateIsBounded, AcceptedIn, StretchEnd
<1> QED
    BY <1>1, AcceptKeeps, RefuseKeeps, LimiterTickKeeps DEF LimiterNext

\* For any clients, limits, lengths of the windows and intervals between clean-ups: no
\* minute has more than three times the limit of a minute, no hour more than three
\* times that of an hour, no day more than twice that of a day. The third comes from
\* the clean-up, which forgets a minute and an hour that still count.
THEOREM RatesAreBounded == LimiterSpec => []RateIsBounded
<1>1. LimiterInv => RateIsBounded
    BY DEF LimiterInv
<1> QED
    BY <1>1, LimiterStarts, LimiterSteps, PTL DEF LimiterSpec

\* A client that is refused had its limit accepted within the length of the window that
\* refuses it, whatever other clients, refusals and clean-ups came between.
THEOREM RefusalsAreEarned == LimiterSpec => []RefusalIsEarned
<1>1. ASSUME LimiterInv PROVE RefusalIsEarned
    <2> USE <1>1 DEF LimiterInv
    <2> SUFFICES ASSUME NEW c \in Client, NEW k \in Full(c),
                        NEW from, from = IF clock + 1 < Length[k] THEN 0 ELSE clock + 1 - Length[k]
                 PROVE  AcceptedIn(c, from, k) >= Limit[c][k]
        BY DEF RefusalIsEarned
    <2> DEFINE w == Current(c)[k]
               s == w.start
    <2>1. k \in Window /\ Limit[c][k] > 0 /\ w.count >= Limit[c][k]
        BY DEF Full
    <2>2. /\ clock \in 0 .. MaxTime /\ MaxTime \in Nat /\ Length[k] \in Nat \ {0} /\ Limit[c][k] \in Nat
          /\ s \in 0 .. clock /\ clock - s < Length[k]
          /\ w.count = accepted[c][clock] - accepted[c][s - 1]
        BY <2>1, LimiterNumbers, CurrentHolds DEF IsWindow, WindowRecord
    <2> HIDE DEF w, s
    <2>3. /\ from \in 0 .. s /\ from - 1 \in -1 .. MaxTime /\ s - 1 \in -1 .. MaxTime
          /\ StretchEnd(from, k) \in clock .. MaxTime
        BY <2>2 DEF StretchEnd
    <2>4. /\ accepted[c][StretchEnd(from, k)] = accepted[c][clock]
          /\ accepted[c][from - 1] <= accepted[c][s - 1]
        BY <2>2, <2>3 DEF RecordGrows
    <2>5. accepted[c][from - 1] \in Nat /\ accepted[c][s - 1] \in Nat /\ accepted[c][clock] \in Nat
        BY <2>1, <2>2, <2>3, LimiterNumbers
    <2>6. w.count <= accepted[c][clock] - accepted[c][from - 1]
        BY <2>2, <2>4, <2>5
    <2> QED
        BY <2>1, <2>2, <2>4, <2>5, <2>6 DEF AcceptedIn
<1> QED
    BY <1>1, LimiterStarts, LimiterSteps, PTL DEF LimiterSpec
-----------------------------------------------------------------------------
(* CertificateFiles: the parsers of certificates and of deviation lists.   *)

\* Every set of naturals has a least element, and a set that has 0 and with each
\* natural the next one has them all.
LEMMA Least ==
    ASSUME NEW T \in SUBSET Nat, T # {}
    PROVE  \E n \in T : \A m \in T : n <= m
<1> DEFINE R == OpToRel(<, Nat)
<1>1. IsWellFoundedOn(R, Nat)
    BY NatLessThanWellFounded
<1>2. \A m, n \in Nat : <<m, n>> \in R <=> m < n
    BY DEF OpToRel
<1> HIDE DEF R
<1>3. PICK n \in T : \A m \in T : ~ (<<m, n>> \in R)
    BY <1>1, WFMin
<1>4. \A m \in T : m \in Nat /\ n \in Nat /\ ~(m < n)
    BY <1>2, <1>3
<1> QED
    BY <1>4

\* Induction over the naturals, for sets: no operator is a parameter.
LEMMA Induction ==
    ASSUME NEW S, 0 \in S, \A n \in Nat : n \in S => n + 1 \in S
    PROVE  Nat \subseteq S
<1> SUFFICES ASSUME Nat \ S # {} PROVE FALSE
    OBVIOUS
<1>1. PICK n \in Nat \ S : \A m \in Nat \ S : n <= m
    BY Least
<1>2. n # 0 /\ n - 1 \in Nat
    BY <1>1
<1>3. n - 1 \in S
    BY <1>1, <1>2
<1> QED
    BY <1>1, <1>2, <1>3

\* What has been kept after each round of the loop.
LEMMA OnlyRounds ==
    ASSUME NEW S, NEW s \in Seq(S), NEW T
    PROVE  \E w : /\ Only(s, T) = w[Len(s)] /\ w[0] = <<>>
                  /\ \A n \in 1..Len(s) : w[n] = IF s[n] \in T THEN Append(w[n - 1], s[n]) ELSE w[n - 1]
<1> DEFINE l == Len(s)
           Round(w, n) == IF n = 0 THEN <<>> ELSE IF s[n] \in T THEN Append(w[n - 1], s[n]) ELSE w[n - 1]
<1>1. l \in Nat
    OBVIOUS
<1>2. ASSUME NEW v, NEW w, NEW n \in 0..l, n # 0 => v[n - 1] = w[n - 1]
      PROVE  Round(v, n) = Round(w, n)
    BY <1>2
<1>3. \A n : Only(s, T) = (CHOOSE w : w = [i \in 0..l |-> Round(w, i)])[l]
    BY DEF Only
<1>3a. \A w : Round(w, 0) = <<>> /\ \A n \in 1..l :
            Round(w, n) = IF s[n] \in T THEN Append(w[n - 1], s[n]) ELSE w[n - 1]
    BY <1>1
<1> HIDE DEF Round, l
<1>4. \A m \in Nat : m <= l => \E w : w = [i \in 0..m |-> Round(w, i)]
    <2> DEFINE P(m) == m <= l => \E w : w = [i \in 0..m |-> Round(w, i)]
               K == {m \in Nat : P(m)}
    <2>1. 0 \in K
        <3> DEFINE w == [i \in 0..0 |-> Round(<<>>, i)]
        <3>1. \A i \in 0..0 : Round(w, i) = Round(<<>>, i)
            BY <1>1, <1>2
        <3>2. w = [i \in 0..0 |-> Round(w, i)]
            BY <3>1
        <3> QED
            BY <3>2
    <2>2. ASSUME NEW m \in Nat, m \in K PROVE m + 1 \in K
        <3> SUFFICES ASSUME m + 1 <= l PROVE \E w : w = [i \in 0..(m + 1) |-> Round(w, i)]
            OBVIOUS
        <3>1. PICK v : v = [i \in 0..m |-> Round(v, i)]
            BY <2>2, <1>1
        <3> DEFINE w == [i \in 0..(m + 1) |-> IF i = m + 1 THEN Round(v, i) ELSE v[i]]
        <3>2. \A i \in 0..m : v[i] = Round(v, i)
            BY <3>1
        <3>3. (\A i \in 0..m : w[i] = v[i]) /\ w[m + 1] = Round(v, m + 1)
            OBVIOUS
        <3>4. w = [i \in 0..(m + 1) |-> w[i]]
            OBVIOUS
        <3> HIDE DEF w
        <3>5. \A i \in 0..(m + 1) : w[i] = Round(w, i)
            <4> TAKE i \in 0..(m + 1)
            <4>1. i \in 0..l /\ (i # 0 => i - 1 \in 0..m)
                BY <1>1
            <4>2. Round(v, i) = Round(w, i)
                BY <1>2, <3>3, <4>1
            <4>3. i = m + 1 \/ i \in 0..m
                OBVIOUS
            <4> QED
                BY <3>2, <3>3, <4>2, <4>3
        <3> QED
            BY <3>4, <3>5
    <2> HIDE DEF P
    <2>3. \A m \in Nat : m \in K
        BY <2>1, <2>2, Induction
    <2> QED
        BY <2>3 DEF P
<1> DEFINE upTo == CHOOSE w : w = [i \in 0..l |-> Round(w, i)]
<1>5. upTo = [i \in 0..l |-> Round(upTo, i)]
    <2>1. l <= l
        BY <1>1
    <2>2. \E w : w = [i \in 0..l |-> Round(w, i)]
        BY <1>1, <1>4, <2>1
    <2> QED
        BY <2>2
<1>6. Only(s, T) = upTo[l]
    BY <1>3
<1> HIDE DEF upTo
<1>7. \A i \in 0..l : upTo[i] = Round(upTo, i)
    BY <1>5
<1>8. upTo[0] = <<>> /\ \A n \in 1..l : upTo[n] = IF s[n] \in T THEN Append(upTo[n - 1], s[n]) ELSE upTo[n - 1]
    <2>1. 0 \in 0..l /\ \A n \in 1..l : n \in 0..l
        BY <1>1
    <2> QED
        BY <1>3a, <1>7, <2>1
<1> QED
    BY <1>6, <1>8 DEF l

\* What is kept, and in what order: the place in s of each element that is kept.
LEMMA OnlyPlaces ==
    ASSUME NEW S, NEW s \in Seq(S), NEW T
    PROVE  /\ Only(s, T) \in Seq(S \cap T) /\ Len(Only(s, T)) <= Len(s)
           /\ \E g \in [1..Len(Only(s, T)) -> 1..Len(s)] :
                /\ \A i, k \in 1..Len(Only(s, T)) : i < k => g[i] < g[k]
                /\ \A k \in 1..Len(Only(s, T)) : Only(s, T)[k] = s[g[k]]
                /\ \A i \in 1..Len(s) : s[i] \in T => \E k \in 1..Len(Only(s, T)) : g[k] = i
<1> PICK w : /\ Only(s, T) = w[Len(s)] /\ w[0] = <<>>
             /\ \A n \in 1..Len(s) : w[n] = IF s[n] \in T THEN Append(w[n - 1], s[n]) ELSE w[n - 1]
    BY OnlyRounds
<1> DEFINE Fits(n, m, g) ==
             /\ g \in [1..m -> 1..n]
             /\ \A i, k \in 1..m : i < k => g[i] < g[k]
             /\ \A k \in 1..m : w[n][k] = s[g[k]]
             /\ \A i \in 1..n : s[i] \in T => \E k \in 1..m : g[k] = i
        Placed(n) == w[n] \in Seq(S \cap T) /\ Len(w[n]) <= n /\ \E g : Fits(n, Len(w[n]), g)
        P(n) == n <= Len(s) => Placed(n)
        K == {n \in Nat : P(n)}
<1> HIDE DEF Placed, Fits
<1>1. 0 \in K
    <2>1. w[0] \in Seq(S \cap T) /\ Len(w[0]) = 0 /\ 0 \in Nat /\ w[0] = <<>>
        OBVIOUS
    <2>2. (<<>> \in [1..0 -> 1..0]) /\ 1..0 = {}
        OBVIOUS
    <2>3. Fits(0, 0, <<>>)
        BY <2>2 DEF Fits
    <2>4. Placed(0)
        BY <2>1, <2>3 DEF Placed
    <2> QED
        BY <2>4
<1>2. ASSUME NEW n \in Nat, n \in K, n + 1 <= Len(s) PROVE Placed(n + 1)
    <2>0. n <= Len(s) /\ Len(s) \in Nat
        BY <1>2
    <2>1. Placed(n)
        BY <1>2, <2>0
    <2>2. PICK g : Fits(n, Len(w[n]), g)
        BY <2>1 DEF Placed
    <2> DEFINE m == Len(w[n])
    <2>3. m \in Nat /\ w[n] \in Seq(S \cap T) /\ m <= n
        BY <2>1 DEF Placed
    <2> HIDE DEF m
    <2>7. /\ g \in [1..m -> 1..n] /\ \A k \in 1..m : g[k] \in 1..n
          /\ \A i, k \in 1..m : i < k => g[i] < g[k]
          /\ \A k \in 1..m : w[n][k] = s[g[k]]
          /\ \A i \in 1..n : s[i] \in T => \E k \in 1..m : g[k] = i
        BY <2>2 DEF m, Fits
    <2>4. w[n + 1] = IF s[n + 1] \in T THEN Append(w[n], s[n + 1]) ELSE w[n]
        BY <1>2
    <2>5. CASE s[n + 1] \notin T
        <3>1. g \in [1..m -> 1..(n + 1)] /\ w[n + 1] = w[n]
            BY <2>4, <2>5, <2>7
        <3>2. \A i \in 1..(n + 1) : s[i] \in T => i \in 1..n
            BY <2>5
        <3>3. Fits(n + 1, m, g)
            BY <2>7, <3>1, <3>2 DEF Fits
        <3> QED
            BY <2>3, <3>1, <3>3 DEF Placed, m
    <2>6. CASE s[n + 1] \in T
        <3>1. w[n + 1] = Append(w[n], s[n + 1]) /\ s[n + 1] \in S \cap T
            BY <1>2, <2>4, <2>6
        <3>2. /\ w[n + 1] \in Seq(S \cap T) /\ Len(w[n + 1]) = m + 1
              /\ w[n + 1][m + 1] = s[n + 1] /\ \A k \in 1..m : w[n + 1][k] = w[n][k]
            BY <2>3, <3>1 DEF m
        <3> DEFINE h == [k \in 1..(m + 1) |-> IF k = m + 1 THEN n + 1 ELSE g[k]]
        <3>3. h \in [1..(m + 1) -> 1..(n + 1)] /\ h[m + 1] = n + 1 /\ \A k \in 1..m : h[k] = g[k]
            BY <2>7, <2>3
        <3>a. \A k \in 1..(m + 1) : k = m + 1 \/ k \in 1..m
            BY <2>3
        <3> HIDE DEF h
        <3>4. ASSUME NEW i \in 1..(m + 1), NEW k \in 1..(m + 1), i < k PROVE h[i] < h[k]
            <4>1. i \in 1..m /\ g[i] \in 1..n
                BY <2>3, <2>7, <3>4
            <4>2. CASE k = m + 1
                BY <4>1, <4>2, <3>3
            <4>3. CASE k \in 1..m
                BY <4>1, <4>3, <3>3, <2>7, <3>4
            <4> QED
                BY <4>2, <4>3, <3>a
        <3>5. ASSUME NEW k \in 1..(m + 1) PROVE w[n + 1][k] = s[h[k]]
            BY <2>7, <3>2, <3>3, <3>a
        <3>6. ASSUME NEW i \in 1..(n + 1), s[i] \in T PROVE \E k \in 1..(m + 1) : h[k] = i
            <4>1. CASE i = n + 1
                <5>1. m + 1 \in 1..(m + 1)
                    BY <2>3
                <5> QED
                    BY <4>1, <5>1, <3>3
            <4>2. CASE i \in 1..n
                <5>1. PICK k \in 1..m : g[k] = i
                    BY <2>7, <4>2, <3>6
                <5>2. k \in 1..(m + 1) /\ h[k] = i
                    BY <2>3, <3>3, <5>1
                <5> QED
                    BY <5>2
            <4> QED
                BY <4>1, <4>2
        <3>7. Fits(n + 1, m + 1, h)
            BY <3>3, <3>4, <3>5, <3>6 DEF Fits
        <3> QED
            BY <2>3, <3>2, <3>7 DEF Placed
    <2> QED
        BY <2>5, <2>6
<1>3. \A n \in Nat : n \in K
    <2>1. \A n \in Nat : n \in K => n + 1 \in K
        BY <1>2
    <2> HIDE DEF K
    <2> QED
        BY <1>1, <2>1, Induction
<1>4. Placed(Len(s))
    <2>1. Len(s) \in Nat /\ Len(s) <= Len(s)
        OBVIOUS
    <2> QED
        BY <1>3, <2>1
<1> QED
    BY <1>4 DEF Placed, Fits

\* The next deviation is a later one, or there is none.
LEMMA NextIsLater ==
    ASSUME NEW list \in Seq(Deviation), NEW i \in 1..Len(list)
    PROVE  NextDeviation(list, i) \in (i + 1)..(Len(list) + 1)
<1> DEFINE skipped == FoldSeq(+, 0, list[i].defects)
           Fits(j) == FoldSeq(+, 0, [k \in 1 .. j - i - 1 |-> CertificateLength(list[i + k])]) = skipped
           fits == {j \in i + 1 .. Len(list) + 1 : Fits(j)}
<1>1. NextDeviation(list, i) = IF fits = {} THEN Len(list) + 1 ELSE CHOOSE j \in fits : \A k \in fits : j <= k
    BY DEF NextDeviation
<1> HIDE DEF Fits
<1>2. fits \subseteq (i + 1)..(Len(list) + 1) /\ Len(list) \in Nat
    OBVIOUS
<1> HIDE DEF fits
<1>3. CASE fits = {}
    BY <1>1, <1>2, <1>3
<1>4. CASE fits # {}
    <2>1. fits \subseteq Nat
        BY <1>2
    <2>2. PICK j \in fits : \A k \in fits : j <= k
        BY <2>1, <1>4, Least
    <2> QED
        BY <2>2, <1>1, <1>2, <1>4
<1> QED
    BY <1>3, <1>4

\* What is read from the i-th deviation on: nothing of those before it, and nothing twice.
ReadFrom(i) == {s \in Seq(Nat \X Nat) : /\ \A k \in 1..Len(s) : s[k][1] >= i
                                      /\ \A k, l \in 1..Len(s) : k # l => s[k] # s[l]}
OfDeviation(list, i) == [k \in DOMAIN list[i].defects |-> <<i, k>>]

LEMMA OneDeviation ==
    ASSUME NEW list \in Seq(Deviation), NEW i \in 1..Len(list), NEW j \in Nat, j > i, NEW s \in ReadFrom(j)
    PROVE  /\ OfDeviation(list, i) \in Seq(Nat \X Nat)
           /\ OfDeviation(list, i) \o s \in ReadFrom(i)
<1>1. list[i] \in Deviation /\ i \in Nat
    OBVIOUS
<1>2. list[i].defects \in Seq(Nat \ {0})
    BY <1>1 DEF Deviation
<1> DEFINE d == list[i].defects
           m == Len(d)
           f == OfDeviation(list, i)
<1>3. d \in Seq(Nat \ {0}) /\ DOMAIN d = 1..m /\ m \in Nat
    BY <1>2
<1>4. f = [k \in 1..m |-> <<i, k>>]
    BY <1>3 DEF OfDeviation
<1> HIDE DEF d, m, f
<1>5. f \in [1..m -> Nat \X Nat]
    BY <1>1, <1>3, <1>4
<1>6. f \in Seq(Nat \X Nat) /\ Len(f) = m /\ \A k \in 1..m : f[k] = <<i, k>>
    BY <1>3, <1>4, <1>5
<1>7. s \in Seq(Nat \X Nat) /\ \A k \in 1..Len(s) : s[k][1] >= j
    BY DEF ReadFrom
<1> DEFINE t == f \o s
<1>8. /\ t \in Seq(Nat \X Nat) /\ Len(t) = m + Len(s) /\ Len(s) \in Nat
      /\ \A k \in 1..m : t[k] = <<i, k>>
      /\ \A k \in (m + 1)..(m + Len(s)) : t[k] = s[k - m] /\ k - m \in 1..Len(s)
    <2>0. f \in Seq(Nat \X Nat) /\ Len(f) = m /\ s \in Seq(Nat \X Nat)
        BY <1>6, <1>7
    <2>a. t \in Seq(Nat \X Nat) /\ Len(t) = Len(f) + Len(s)
        <3>1. ASSUME NEW v \in Seq(Nat \X Nat), NEW w \in Seq(Nat \X Nat)
              PROVE  v \o w \in Seq(Nat \X Nat) /\ Len(v \o w) = Len(v) + Len(w)
            OBVIOUS
        <3> QED
            BY <2>0, <3>1
    <2>1. t \in Seq(Nat \X Nat) /\ Len(t) = m + Len(s) /\ Len(s) \in Nat
        BY <2>0, <2>a
    <2>2. ASSUME NEW k \in 1..m PROVE t[k] = <<i, k>>
        BY <1>3, <1>6, <1>7, <2>1
    <2>3. ASSUME NEW k \in (m + 1)..(m + Len(s)) PROVE t[k] = s[k - m] /\ k - m \in 1..Len(s)
        BY <1>3, <1>6, <1>7, <2>1, SMTT(30)
    <2> QED
        BY <2>1, <2>2, <2>3
<1> HIDE DEF t
<1>9. \A k \in (m + 1)..(m + Len(s)) : t[k][1] >= j /\ s[k - m] \in Nat \X Nat
    BY <1>7, <1>8
<1>10. ASSUME NEW k \in 1..Len(t) PROVE t[k][1] >= i
    <2>1. CASE k \in 1..m
        <3>1. t[k][1] = i
            BY <1>8, <2>1
        <3> QED
            BY <1>1, <3>1
    <2>2. CASE k \in (m + 1)..(m + Len(s))
        <3>1. t[k][1] >= j /\ t[k][1] \in Nat
            BY <1>8, <1>9, <2>2
        <3> QED
            BY <1>1, <3>1
    <2> QED
        BY <1>3, <1>8, <2>1, <2>2
<1>11. ASSUME NEW k \in 1..Len(t), NEW l \in 1..Len(t), k # l PROVE t[k] # t[l]
    <2>1. CASE k \in 1..m /\ l \in 1..m
        BY <1>8, <1>11, <2>1
    <2>2. CASE k \in 1..m /\ l \in (m + 1)..(m + Len(s))
        <3>1. t[k][1] = i /\ t[l][1] >= j
            BY <1>8, <1>9, <2>2
        <3> QED
            BY <3>1, <1>1
    <2>3. CASE l \in 1..m /\ k \in (m + 1)..(m + Len(s))
        <3>1. t[l][1] = i /\ t[k][1] >= j
            BY <1>8, <1>9, <2>3
        <3> QED
            BY <3>1, <1>1
    <2>4. CASE k \in (m + 1)..(m + Len(s)) /\ l \in (m + 1)..(m + Len(s))
        <3>1. k - m # l - m /\ k - m \in 1..Len(s) /\ l - m \in 1..Len(s)
            BY <1>3, <1>8, <1>11, <2>4
        <3>2. s[k - m] # s[l - m]
            BY <3>1 DEF ReadFrom
        <3> QED
            BY <1>8, <2>4, <3>2
    <2> QED
        BY <1>3, <1>8, <2>1, <2>2, <2>3, <2>4, SMTT(30)
<1> QED
    BY <1>6, <1>8, <1>10, <1>11 DEF ReadFrom, t, f

\* All of the first deviation is read, and nothing twice, whatever is skipped.
LEMMA DeviationsAreRead ==
    ASSUME NEW list \in Seq(Deviation)
    PROVE  /\ extractDeviationsFromCms(list) \in ReadFrom(1)
           /\ list # <<>> => IsPrefix(OfDeviation(list, 1), extractDeviationsFromCms(list))
<1> DEFINE n == Len(list)
           Rest(w, i) == IF i > n THEN <<>>
                         ELSE [k \in DOMAIN list[i].defects |-> <<i, k>>] \o w[NextDeviation(list, i)]
<1>1. n \in Nat /\ \A i \in 1..n : NextDeviation(list, i) \in (i + 1)..(n + 1)
    BY NextIsLater
<1> HIDE DEF n
<1>3. ASSUME NEW v, NEW w, NEW i \in 1..(n + 1),
             i <= n => v[NextDeviation(list, i)] = w[NextDeviation(list, i)]
      PROVE  Rest(v, i) = Rest(w, i)
    BY <1>1, <1>3
<1>4. ASSUME NEW w, NEW i \in 1..(n + 1), i <= n => w[NextDeviation(list, i)] \in ReadFrom(NextDeviation(list, i))
      PROVE  Rest(w, i) \in ReadFrom(i)
    <2>1. CASE i > n
        BY <2>1 DEF ReadFrom
    <2>2. CASE i <= n
        <3>1. i \in 1..n
            BY <2>2, <1>1
        <3>2. Rest(w, i) = OfDeviation(list, i) \o w[NextDeviation(list, i)]
            BY <2>2, <1>1 DEF OfDeviation
        <3>3. NextDeviation(list, i) \in Nat /\ NextDeviation(list, i) > i
            BY <3>1, <1>1
        <3>4. OfDeviation(list, i) \o w[NextDeviation(list, i)] \in ReadFrom(i)
            BY <3>1, <3>3, <1>4, <2>2, OneDeviation DEF n
        <3> QED
            BY <3>2, <3>4
    <2> QED
        BY <1>1, <2>1, <2>2
<1> HIDE DEF Rest
<1>5. \A m \in Nat : m <= n => \E w : w = [i \in (n + 1 - m)..(n + 1) |-> Rest(w, i)]
    <2> DEFINE P(m) == m <= n => \E w : w = [i \in (n + 1 - m)..(n + 1) |-> Rest(w, i)]
               S == {m \in Nat : P(m)}
    <2>1. 0 \in S
        <3> DEFINE w == [i \in (n + 1 - 0)..(n + 1) |-> Rest(<<>>, i)]
        <3>1. \A i \in (n + 1 - 0)..(n + 1) : Rest(w, i) = Rest(<<>>, i)
            BY <1>1, <1>3
        <3>2. w = [i \in (n + 1 - 0)..(n + 1) |-> Rest(w, i)]
            BY <3>1
        <3> QED
            BY <3>2
    <2>2. ASSUME NEW m \in Nat, m \in S PROVE m + 1 \in S
        <3> SUFFICES ASSUME m + 1 <= n PROVE \E w : w = [i \in (n + 1 - (m + 1))..(n + 1) |-> Rest(w, i)]
            OBVIOUS
        <3>1. PICK v : v = [i \in (n + 1 - m)..(n + 1) |-> Rest(v, i)]
            BY <2>2, <1>1
        <3> DEFINE w == [i \in (n + 1 - (m + 1))..(n + 1) |-> IF i = n - m THEN Rest(v, i) ELSE v[i]]
        <3>a. \A i \in (n + 1 - m)..(n + 1) : v[i] = Rest(v, i)
            BY <3>1
        <3>2. \A i \in (n + 1 - m)..(n + 1) : w[i] = v[i]
            BY <1>1
        <3>3. w[n - m] = Rest(v, n - m)
            BY <1>1
        <3>4. w = [i \in (n + 1 - (m + 1))..(n + 1) |-> w[i]]
            OBVIOUS
        <3> HIDE DEF w
        <3>5. \A i \in (n + 1 - (m + 1))..(n + 1) : w[i] = Rest(w, i)
            <4> TAKE i \in (n + 1 - (m + 1))..(n + 1)
            <4>1. i \in 1..(n + 1)
                BY <1>1
            <4>2. i <= n => NextDeviation(list, i) \in (n + 1 - m)..(n + 1)
                <5>1. i <= n => NextDeviation(list, i) \in (i + 1)..(n + 1)
                    BY <1>1, <4>1
                <5> QED
                    BY <5>1, <1>1
            <4>3. Rest(w, i) = Rest(v, i)
                BY <1>3, <3>2, <4>1, <4>2
            <4>4. i = n - m \/ i \in (n + 1 - m)..(n + 1)
                BY <1>1
            <4> QED
                BY <3>a, <3>2, <3>3, <4>3, <4>4
        <3> QED
            BY <3>4, <3>5
    <2> HIDE DEF P
    <2>3. \A m \in Nat : m \in S
        BY <2>1, <2>2, Induction
    <2> QED
        BY <2>3 DEF P
<1> DEFINE from == CHOOSE w : w = [i \in 1..(n + 1) |-> Rest(w, i)]
<1>6. from = [i \in 1..(n + 1) |-> Rest(from, i)]
    <2>1. \E w : w = [i \in (n + 1 - n)..(n + 1) |-> Rest(w, i)]
        BY <1>1, <1>5, SMTT(30)
    <2>2. n + 1 - n = 1
        BY <1>1
    <2> QED
        BY <2>1, <2>2
<1>7. extractDeviationsFromCms(list) = from[1]
    BY DEF extractDeviationsFromCms, Rest, n
<1> HIDE DEF from
<1>8. \A m \in Nat : m <= n => \A i \in (n + 1 - m)..(n + 1) : from[i] \in ReadFrom(i)
    <2> DEFINE P(m) == m <= n => \A i \in (n + 1 - m)..(n + 1) : from[i] \in ReadFrom(i)
               S == {m \in Nat : P(m)}
    <2>0. \A i \in 1..(n + 1) : from[i] = Rest(from, i)
        BY <1>6
    <2>1. 0 \in S
        <3>1. from[n + 1] = Rest(from, n + 1) /\ Rest(from, n + 1) \in ReadFrom(n + 1)
            BY <2>0, <1>1, <1>4
        <3> QED
            BY <3>1, <1>1
    <2>2. ASSUME NEW m \in Nat, m \in S PROVE m + 1 \in S
        <3> SUFFICES ASSUME m + 1 <= n, NEW i \in (n + 1 - (m + 1))..(n + 1)
                     PROVE  from[i] \in ReadFrom(i)
            OBVIOUS
        <3>1. CASE i \in (n + 1 - m)..(n + 1)
            BY <3>1, <2>2, <1>1
        <3>2. CASE i = n - m
            <4>1. i \in 1..n
                BY <3>2, <1>1
            <4>2. NextDeviation(list, i) \in (i + 1)..(n + 1)
                BY <4>1, <1>1
            <4>3. NextDeviation(list, i) \in (n + 1 - m)..(n + 1)
                BY <4>2, <3>2, <1>1
            <4>4. from[NextDeviation(list, i)] \in ReadFrom(NextDeviation(list, i))
                BY <4>3, <2>2, <1>1
            <4>5. Rest(from, i) \in ReadFrom(i)
                BY <4>1, <4>4, <1>1, <1>4
            <4> QED
                BY <4>1, <4>5, <2>0, <1>1
        <3> QED
            BY <3>1, <3>2, <1>1
    <2> HIDE DEF P
    <2>3. \A m \in Nat : m \in S
        BY <2>1, <2>2, Induction
    <2> QED
        BY <2>3 DEF P
<1>9. from[1] \in ReadFrom(1)
    <2>1. 1 \in (n + 1 - n)..(n + 1) /\ n <= n
        BY <1>1
    <2> QED
        BY <1>8, <1>1, <2>1
<1>10. ASSUME list # <<>> PROVE IsPrefix(OfDeviation(list, 1), from[1])
    <2>1. 1 \in 1..n /\ 1 <= n
        BY <1>1, <1>10 DEF n
    <2>2. from[1] = OfDeviation(list, 1) \o from[NextDeviation(list, 1)]
        <3>1. from[1] = Rest(from, 1)
            BY <1>1, <1>6, <2>1, SMTT(30)
        <3> QED
            BY <1>1, <2>1, <3>1 DEF Rest, OfDeviation
    <2>3. NextDeviation(list, 1) \in 1..(n + 1)
        BY <1>1, <2>1
    <2>4. from[NextDeviation(list, 1)] \in Seq(Nat \X Nat)
        <3>1. NextDeviation(list, 1) \in (n + 1 - n)..(n + 1) /\ n <= n
            BY <1>1, <2>3
        <3> QED
            BY <1>1, <1>8, <3>1 DEF ReadFrom
    <2>5. OfDeviation(list, 1) \in Seq(Nat \X Nat)
        <3>1. <<>> \in ReadFrom(2)
            BY DEF ReadFrom
        <3> QED
            BY <2>1, <3>1, OneDeviation DEF n
    <2> QED
        BY <2>2, <2>4, <2>5 DEF IsPrefix
<1> QED
    BY <1>7, <1>9, <1>10

-----------------------------------------------------------------------------
(* CertificateFiles: what an upload brought is kept. Each upload of a CRL or *)
(* a deviation list takes a turn when its row is claimed, inserted or saved. *)
(* A row is as its latest turn left it, unless an upload whose turn came at  *)
(* that one or later was deleted; behind it stand the entries that its       *)
(* threads have passed: of a deviation list its own thread's, of a CRL each  *)
(* entry as often as threads with that row have passed it.                   *)

TodoOf(f) == ParseFor(detectFormat(f), f)
FileTodos == {TodoOf(f) : f \in Files}
FilePcs == {"insert", "certs", "findCrl", "claimCrl", "insertCrl", "revoke", "saveDl", "entries", "finish", "done"}
FileRequest ==
    [pc : FilePcs, file : Files, status : {"none", "PROCESSING", "COMPLETED", "FAILED", "deleted"},
     todo : FileTodos, at : Nat, stored : Seq({"CSCA", "MLSC", "DSC"}), id : FileUpload \cup {"none"},
     turn : Nat, late : BOOLEAN, slipped : BOOLEAN]
ListRow == [id : FileUpload, owner : FileUpload]

Begun(u) == up[u].pc # "none"
BringsCrl(u) == up[u].todo.crls > 0
BringsDl(u) == up[u].todo.list
\* The uploads that a CRL or a deviation list passed through.
Turned == {v \in FileUpload : up[v].pc # "none" /\ up[v].turn > 0}

FilesShape ==
    /\ database \in {"postgres", "oracle"}
    /\ up \in [FileUpload -> FileRequest \cup {NoFile}]
    /\ crl \in [Name -> ListRow \cup {NoListRow}] /\ dl \in [Name -> ListRow \cup {NoListRow}]
    /\ revokedRows \in [FileUpload -> [Serial -> Nat]]
    /\ entryRows \subseteq FileUpload \X (Nat \X Nat)

\* Where a request is, and what that says of it.
RequestFits(u) ==
    /\ up[u].todo = TodoOf(up[u].file)
    /\ up[u].pc \in {"insert", "certs", "findCrl", "claimCrl", "insertCrl", "saveDl"} =>
           up[u].turn = 0 /\ ~up[u].late
    /\ up[u].pc \in {"findCrl", "claimCrl", "insertCrl", "revoke"} => BringsCrl(u)
    /\ up[u].pc \in {"saveDl", "entries"} => BringsDl(u)
    /\ up[u].pc = "certs" => ~BringsCrl(u)
    /\ up[u].pc \in {"revoke", "entries"} => up[u].turn > 0 /\ up[u].at > 0
    /\ up[u].pc = "insert" => up[u].status = "none"
    /\ up[u].todo.failed => up[u].status \in {"none", "FAILED", "deleted"}
    /\ up[u].pc \in {"finish", "done"} /\ ~up[u].slipped /\ ~up[u].late /\ ~up[u].todo.failed
       /\ (BringsCrl(u) \/ BringsDl(u)) => up[u].turn > 0

\* The row that an upload found, or inserted, came with an upload of the same list.
IdFits(u) ==
    /\ u \in Turned => BringsCrl(u) \/ BringsDl(u)
    /\ u \in Turned /\ BringsDl(u) => up[u].id = u
    /\ BringsCrl(u) /\ (u \in Turned \/ up[u].pc = "claimCrl") =>
           up[u].id \in Turned /\ BringsCrl(up[u].id) /\ up[up[u].id].file.name = up[u].file.name

RequestsOK == \A u \in FileUpload : Begun(u) => RequestFits(u) /\ IdFits(u)

\* A row came with one upload and belongs to one.
DlRowsOK ==
    \A n \in Name :
        dl[n] # NoListRow => LET u == dl[n].id IN
            u \in Turned /\ ~up[u].late /\ BringsDl(u) /\ up[u].file.name = n /\ dl[n].owner = u
CrlRowsOK ==
    \A n \in Name :
        /\ crl[n] # NoListRow => LET u == crl[n].id IN
               u \in Turned /\ ~up[u].late /\ BringsCrl(u) /\ up[u].file.name = n /\ up[u].id = u
        /\ crl[n] # NoListRow => LET u == crl[n].owner IN
               u \in Turned /\ BringsCrl(u) /\ up[u].file.name = n

\* No two uploads have had their turn at the same time.
TurnsOK ==
    /\ IsFiniteSet(Turned)
    /\ \A v \in Turned : up[v].turn <= Cardinality(Turned)
    /\ \A v, w \in Turned : up[v].turn = up[w].turn => v = w

\* Whose turn was later than this one's.
LaterThan(u, v) == v \in Turned /\ up[v].file.name = up[u].file.name /\ up[v].turn >= up[u].turn

\* What came is there, or went with an upload that was deleted.
DlIsKept ==
    \A u \in Turned : ~up[u].late /\ BringsDl(u) =>
        dl[up[u].file.name] = [id |-> u, owner |-> u] \/ up[u].status = "deleted"
CrlIsKept ==
    \A u \in Turned : ~up[u].late /\ BringsCrl(u) =>
        LET n == up[u].file.name IN
        \/ crl[n] # NoListRow /\ LaterThan(u, crl[n].owner)
        \/ \E v \in FileUpload : LaterThan(u, v) /\ up[v].status = "deleted"

\* The entries of a list that is there, as far as the thread has come.
Written(u) == {up[u].todo.deviations[k] : k \in 1 .. (IF up[u].pc = "entries" THEN up[u].at - 1
                                                     ELSE Len(up[u].todo.deviations))}
EntriesOK ==
    /\ \A u \in FileUpload : up[u].pc = "entries" => up[u].at <= Len(up[u].todo.deviations) + 1
    /\ \A x \in entryRows : x[1] \in Turned
    /\ \A n \in Name : dl[n] # NoListRow => LET u == dl[n].id IN
           ~up[u].slipped => \A d \in Nat \X Nat : <<u, d>> \in entryRows <=> d \in Written(u)

\* The uploads of the CRL that came with w; those that have passed an entry of it.
Sharing(w) == {u \in FileUpload : up[u].pc # "none" /\ up[u].id = w /\ up[u].turn > 0}
Beyond(u, s) == up[u].pc # "revoke" \/ up[u].at > s
PassedBy(w, s) == {u \in Sharing(w) : Beyond(u, s)}

RevokedOK ==
    /\ \A w \in FileUpload : w \notin Turned => \A s \in Serial : revokedRows[w][s] = 0
    /\ database = "postgres" => \A n \in Name : crl[n] # NoListRow => LET w == crl[n].id IN
           (\A u \in Sharing(w) : ~up[u].slipped) =>
               \A s \in 1 .. up[w].file.revoked : revokedRows[w][s] = Cardinality(PassedBy(w, s))

FilesInv ==
    /\ FilesShape /\ RequestsOK /\ TurnsOK
    /\ DlRowsOK /\ DlIsKept /\ EntriesOK
    /\ CrlRowsOK /\ CrlIsKept /\ RevokedOK

LEMMA TodoFacts ==
    ASSUME NEW f \in Files
    PROVE  /\ TodoOf(f).crls \in {0, 1}
           /\ TodoOf(f).list \in BOOLEAN /\ TodoOf(f).failed \in BOOLEAN
           /\ TodoOf(f).list => TodoOf(f).crls = 0
           /\ TodoOf(f).deviations \in Seq(Nat \X Nat)
<1>1. f.deviations \in Seq(Deviation)
    BY FilesAssumption DEF Content
<1>2. extractDeviationsFromCms(f.deviations) \in Seq(Nat \X Nat)
    BY <1>1, DeviationsAreRead DEF ReadFrom
<1> DEFINE format == detectFormat(f)
           Plain(t) == t.crls = 0 /\ t.list = FALSE /\ t.failed \in BOOLEAN /\ t.deviations = <<>>
<1>3. \A c : Plain(WhatIsFound(c))
    BY DEF WhatIsFound, Parsed
<1>4. CASE format = "crl"
    <2>1. TodoOf(f) = [Parsed(<<>>, f.kind # "crl") EXCEPT !.crls = 1]
        BY <1>4 DEF TodoOf, ParseFor
    <2> QED
        BY <2>1 DEF Parsed
<1>5. CASE format = "dl" /\ DlParses(f)
    <2>1. TodoOf(f) = [Parsed(extractCertificatesFromCms(f), FALSE) EXCEPT
                          !.list = TRUE, !.deviations = extractDeviationsFromCms(f.deviations)]
        BY <1>5 DEF TodoOf, ParseFor
    <2> QED
        BY <2>1, <1>2 DEF Parsed
<1>6. CASE format # "crl" /\ ~(format = "dl" /\ DlParses(f))
    <2>1. \E c : TodoOf(f) = WhatIsFound(c)
        BY <1>6 DEF TodoOf, ParseFor
    <2>2. Plain(TodoOf(f)) /\ <<>> \in Seq(Nat \X Nat)
        BY <2>1, <1>3
    <2> QED
        BY <2>2
<1> QED
    BY <1>4, <1>5, <1>6

\* What is known of a request and its list.
LEMMA RequestFacts ==
    ASSUME FilesShape, NEW u \in FileUpload, Begun(u)
    PROVE  /\ up[u] \in FileRequest
           /\ up[u].file \in Files /\ up[u].file.name \in Name /\ up[u].file.revoked \in Nat
           /\ 1 .. up[u].file.revoked \subseteq Serial
           /\ up[u].turn \in Nat /\ up[u].at \in Nat
           /\ up[u].late \in BOOLEAN /\ up[u].slipped \in BOOLEAN
           /\ RequestFits(u) =>
                /\ up[u].todo.crls \in {0, 1} /\ up[u].todo.list \in BOOLEAN
                /\ up[u].todo.failed \in BOOLEAN
                /\ ~(BringsCrl(u) /\ BringsDl(u))
                /\ up[u].todo.deviations \in Seq(Nat \X Nat)
                /\ Len(up[u].todo.deviations) \in Nat
<1>1. up[u] \in FileRequest
    BY DEF FilesShape, Begun, NoFile
<1>2. up[u].file \in Files
    BY <1>1 DEF FileRequest
<1>3. up[u].file.name \in Name /\ up[u].file.revoked \in Nat /\ 1 .. up[u].file.revoked \subseteq Serial
    BY <1>2, FilesAssumption DEF Name, Serial, Content
<1>4. RequestFits(u) => up[u].todo = TodoOf(up[u].file)
    BY DEF RequestFits
<1> QED
    BY <1>1, <1>2, <1>3, <1>4, TodoFacts DEF FileRequest, BringsCrl, BringsDl

\* A step that lets no request take its turn.
Quiet(u) ==
    /\ database' = database
    /\ up' = [up EXCEPT ![u] = up'[u]]
    /\ up'[u] \in FileRequest
    /\ up[u].pc = "none" => up'[u].turn = 0
    /\ up[u].pc # "none" =>
        /\ up'[u].file = up[u].file /\ up'[u].todo = up[u].todo
        /\ up'[u].turn = up[u].turn
        /\ up[u].slipped => up'[u].slipped
        /\ up[u].status = "deleted" => up'[u].status = "deleted"
        /\ up[u].turn > 0 => up'[u].id = up[u].id /\ up'[u].late = up[u].late

\* Without a failure it has written, and passed, as much as before.
SameWritten(u) == u \in Turned /\ BringsDl(u) /\ ~up'[u].slipped => Written(u)' = Written(u)
SamePassed(u) ==
    database = "postgres" /\ u \in Turned /\ ~up'[u].slipped =>
        \A s \in 1 .. up[u].file.revoked : Beyond(u, s)' <=> Beyond(u, s)

LEMMA QuietStep ==
    ASSUME FilesInv, NEW u \in FileUpload, Quiet(u), RequestFits(u)', IdFits(u)'
    PROVE  /\ \A v \in FileUpload : v # u => up'[v] = up[v]
           /\ up' \in [FileUpload -> FileRequest \cup {NoFile}]
           /\ Turned' = Turned
           /\ \A v \in Turned : /\ v \in FileUpload /\ up[v].pc # "none" /\ up'[v].pc # "none"
                               /\ up'[v].file = up[v].file /\ up'[v].todo = up[v].todo
                               /\ up'[v].turn = up[v].turn /\ up'[v].late = up[v].late
                               /\ up'[v].id = up[v].id
           /\ \A v \in Turned : up[v].slipped => up'[v].slipped
           /\ RequestsOK' /\ TurnsOK'
<1> USE DEF FilesInv
<1>1. /\ \A v \in FileUpload : v # u => up'[v] = up[v]
      /\ up'[u].pc # "none"
    BY DEF Quiet, FileRequest, FilePcs, FilesShape
<1>2. up' \in [FileUpload -> FileRequest \cup {NoFile}]
    BY <1>1 DEF Quiet, FilesShape
<1>3. Turned' = Turned
    <2>1. u \in Turned' <=> u \in Turned
        BY <1>1 DEF Quiet, Turned
    <2>2. \A v \in FileUpload : v # u => (v \in Turned' <=> v \in Turned)
        BY <1>1 DEF Turned
    <2>3. \A v : (v \in Turned' => v \in FileUpload) /\ (v \in Turned => v \in FileUpload)
        BY DEF Turned
    <2>4. \A v : v \in Turned' <=> v \in Turned
        BY <2>1, <2>2, <2>3, Zenon
    <2> QED
        BY ONLY <2>4
<1>4. \A v \in Turned : /\ up[v].pc # "none" /\ up'[v].file = up[v].file /\ up'[v].todo = up[v].todo
                        /\ up'[v].turn = up[v].turn /\ up'[v].late = up[v].late /\ up'[v].id = up[v].id
                        /\ v \in FileUpload
    BY <1>1 DEF Quiet, Turned
<1>5. RequestsOK'
    <2> SUFFICES ASSUME NEW v \in FileUpload, v # u, Begun(v)' PROVE RequestFits(v)' /\ IdFits(v)'
        BY DEF RequestsOK
    <2>1. up'[v] = up[v] /\ Begun(v) /\ RequestFits(v) /\ IdFits(v)
        BY <1>1 DEF RequestsOK, Begun
    <2>2. RequestFits(v)'
        BY <2>1 DEF RequestFits, BringsCrl, BringsDl
    <2>3. IdFits(v)'
        BY <2>1, <1>3, <1>4 DEF IdFits, BringsCrl, BringsDl
    <2> QED
        BY <2>2, <2>3
<1>7. TurnsOK'
    BY <1>3, <1>4 DEF TurnsOK
<1>9. \A v \in Turned : up'[v].pc # "none"
    BY <1>1, <1>4
<1>10. \A v \in Turned : up[v].slipped => up'[v].slipped
    BY <1>1, <1>4 DEF Quiet
<1> QED
    BY <1>1, <1>2, <1>3, <1>4, <1>5, <1>7, <1>9, <1>10

\* The lists stay with the uploads they belong to.
LEMMA RowsStay ==
    ASSUME FilesInv, NEW u \in FileUpload, Quiet(u), RequestFits(u)', IdFits(u)', UNCHANGED <<crl, dl>>
    PROVE  DlRowsOK' /\ DlIsKept' /\ CrlRowsOK' /\ CrlIsKept'
<1> USE DEF FilesInv
<1>1. /\ \A v \in FileUpload : v # u => up'[v] = up[v]
      /\ crl' = crl /\ dl' = dl
    BY QuietStep
<1>3. Turned' = Turned
    BY QuietStep
<1>4. \A v \in Turned : /\ up[v].pc # "none" /\ up'[v].file = up[v].file /\ up'[v].todo = up[v].todo
                        /\ up'[v].turn = up[v].turn /\ up'[v].late = up[v].late /\ up'[v].id = up[v].id
                        /\ v \in FileUpload
    BY QuietStep
<1>5. DlRowsOK' /\ CrlRowsOK'
    <2>1. DlRowsOK'
        BY <1>1, <1>3, <1>4 DEF DlRowsOK, BringsDl
    <2>2. CrlRowsOK'
        BY <1>1, <1>3, <1>4 DEF CrlRowsOK, BringsCrl
    <2> QED
        BY <2>1, <2>2
<1>6. DlIsKept' /\ CrlIsKept'
    <2>1. \A w \in Turned : up[w].status = "deleted" => up'[w].status = "deleted"
        BY <1>1, <1>4 DEF Quiet
    <2>2. DlIsKept'
        BY <2>1, <1>1, <1>3, <1>4 DEF DlIsKept, BringsDl
    <2>3. ASSUME NEW v \in Turned, ~up[v].late, BringsCrl(v)
          PROVE  \/ crl[up[v].file.name] # NoListRow /\ LaterThan(v, crl[up[v].file.name].owner)'
                 \/ \E w \in FileUpload : LaterThan(v, w)' /\ up'[w].status = "deleted"
        <3>1. \A w : LaterThan(v, w) => LaterThan(v, w)' /\ w \in Turned
            BY <1>3, <1>4 DEF LaterThan
        <3>2. LaterThan(v, crl[up[v].file.name].owner) => LaterThan(v, crl[up[v].file.name].owner)'
            BY <1>1, <1>3, <1>4 DEF LaterThan
        <3>3. \/ crl[up[v].file.name] # NoListRow /\ LaterThan(v, crl[up[v].file.name].owner)
              \/ \E w \in FileUpload : LaterThan(v, w) /\ up[w].status = "deleted"
            BY <2>3 DEF CrlIsKept
        <3>4. ASSUME NEW w \in FileUpload, LaterThan(v, w), up[w].status = "deleted"
              PROVE  LaterThan(v, w)' /\ up'[w].status = "deleted"
            BY <2>1, <3>1, <3>4
        <3> QED
            BY <3>2, <3>3, <3>4
    <2>4. CrlIsKept'
        BY <2>3, <1>1, <1>3, <1>4 DEF CrlIsKept, BringsCrl
    <2> QED
        BY <2>2, <2>4
<1> QED
    BY <1>5, <1>6

\* Entries are written for the upload only.
LEMMA EntriesStep ==
    ASSUME FilesInv, NEW u \in FileUpload, Quiet(u), RequestFits(u)', IdFits(u)', UNCHANGED <<crl, dl>>,
           up'[u].pc = "entries" => up'[u].at <= Len(up'[u].todo.deviations) + 1,
           \A x \in entryRows' : x \in entryRows \/ x[1] \in Turned,
           \A v, d : v # u => (<<v, d>> \in entryRows' <=> <<v, d>> \in entryRows),
           ~up'[u].slipped /\ (\E n \in Name : dl[n] # NoListRow /\ dl[n].id = u) =>
               \A d \in Nat \X Nat : <<u, d>> \in entryRows' <=> d \in Written(u)'
    PROVE  EntriesOK'
<1> USE DEF FilesInv
<1>1. /\ \A v \in FileUpload : v # u => up'[v] = up[v]
      /\ Turned' = Turned
    BY QuietStep
<1>2. dl' = dl
    OBVIOUS
<1>3. \A v \in FileUpload : up'[v].pc = "entries" => up'[v].at <= Len(up'[v].todo.deviations) + 1
    BY <1>1 DEF EntriesOK
<1>4. \A x \in entryRows' : x[1] \in Turned'
    BY <1>1 DEF EntriesOK
<1>5. ASSUME NEW n \in Name, dl'[n] # NoListRow, NEW v, v = dl'[n].id, ~up'[v].slipped,
             NEW d \in Nat \X Nat
      PROVE  <<v, d>> \in entryRows' <=> d \in Written(v)'
    <2>1. dl[n] # NoListRow /\ v = dl[n].id /\ v \in FileUpload
        BY <1>2, <1>5 DEF DlRowsOK, Turned
    <2>2. CASE v = u
        BY <2>1, <2>2, <1>5
    <2>3. CASE v # u
        <3>1. up'[v] = up[v]
            BY <2>1, <2>3, <1>1
        <3>2. ~up[v].slipped /\ Written(v)' = Written(v)
            BY <3>1, <1>5 DEF Written
        <3>3. <<v, d>> \in entryRows <=> d \in Written(v)
            BY <2>1, <3>2 DEF EntriesOK
        <3> QED
            BY <2>3, <3>2, <3>3
    <2> QED
        BY <2>2, <2>3
<1> QED
    BY <1>3, <1>4, <1>5 DEF EntriesOK

LEMMA RevokedStay ==
    ASSUME FilesInv, NEW u \in FileUpload, Quiet(u), RequestFits(u)', IdFits(u)', UNCHANGED <<crl, dl>>,
           SamePassed(u), UNCHANGED revokedRows
    PROVE  RevokedOK'
<1> USE DEF FilesInv
<1>1. /\ \A v \in FileUpload : v # u => up'[v] = up[v]
      /\ database' = database /\ crl' = crl /\ dl' = dl
    BY QuietStep DEF Quiet
<1>3. Turned' = Turned
    BY QuietStep
<1>4. \A v \in Turned : v \in FileUpload /\ up'[v].file = up[v].file /\ up'[v].id = up[v].id
    BY QuietStep
<1>a. \A v \in Turned : up[v].slipped => up'[v].slipped
    BY QuietStep
<1>5. \A w \in FileUpload : w \notin Turned' => \A s \in Serial : revokedRows'[w][s] = 0
    BY <1>1, <1>3 DEF RevokedOK
<1>6. ASSUME database' = "postgres", NEW n \in Name, crl'[n] # NoListRow, NEW w, w = crl'[n].id,
             \A v \in Sharing(w)' : ~up'[v].slipped, NEW s \in 1 .. up'[w].file.revoked
      PROVE  revokedRows'[w][s] = Cardinality(PassedBy(w, s)')
    <2>1. crl[n] # NoListRow /\ w = crl[n].id /\ w \in Turned /\ BringsCrl(w) /\ up[w].file.name = n
          /\ s \in 1 .. up[w].file.revoked /\ database = "postgres"
        BY <1>6, <1>1, <1>4 DEF CrlRowsOK
    <2>2. Sharing(w)' = Sharing(w) /\ Sharing(w) \subseteq Turned
        <3>1. \A v : v \in Sharing(w) <=> v \in Turned /\ up[v].id = w
            BY DEF Sharing, Turned
        <3>2. \A v : v \in Sharing(w)' <=> v \in Turned' /\ up'[v].id = w
            BY DEF Sharing, Turned
        <3> QED
            BY <3>1, <3>2, <1>3, <1>4
    <2>3. \A v \in Sharing(w) : ~up[v].slipped
        BY <1>6, <2>2, <1>1, <1>4, <1>a
    <2>4. ASSUME NEW v \in Sharing(w) PROVE Beyond(v, s)' <=> Beyond(v, s)
        <3>1. v \in Turned /\ up[v].id = w /\ ~up'[v].slipped
            BY <1>6, <2>2 DEF Sharing
        <3>2. CASE v # u
            BY <3>1, <3>2, <1>1, <2>2 DEF Beyond, Turned
        <3>3. CASE v = u
            <4>1. BringsCrl(u) => up[w].file.name = up[u].file.name
                BY <3>1, <3>3 DEF RequestsOK, IdFits, Turned, Begun
            <4>2. BringsDl(u) => u = w
                BY <3>1, <3>3 DEF RequestsOK, IdFits, Turned, Begun
            <4>3. BringsCrl(u) \/ BringsDl(u)
                BY <3>1, <3>3 DEF RequestsOK, IdFits, Turned, Begun
            <4>4. up[w].file.name = up[u].file.name
                BY <4>1, <4>2, <4>3
            <4>5. up[u].file \in Files /\ up[w].file \in Files
                BY <2>1, <3>1, <3>3, RequestFacts DEF Turned, Begun
            <4>6. s \in 1 .. up[u].file.revoked
                BY <4>4, <4>5, <2>1, NamesAssumption
            <4> QED
                BY <4>6, <2>1, <3>1, <3>3 DEF SamePassed
        <3> QED
            BY <3>2, <3>3
    <2>5. PassedBy(w, s)' = PassedBy(w, s)
        BY <2>2, <2>4 DEF PassedBy
    <2>6. revokedRows[w][s] = Cardinality(PassedBy(w, s))
        BY <2>1, <2>3 DEF RevokedOK
    <2> QED
        BY <2>5, <2>6, <1>1
<1> QED
    BY <1>5, <1>6 DEF RevokedOK

\* A step of a request that touches no row and takes no turn.
LEMMA PrivateStep ==
    ASSUME FilesInv, NEW u \in FileUpload, Quiet(u), RequestFits(u)', IdFits(u)', UNCHANGED <<crl, dl>>,
           SameWritten(u), SamePassed(u), UNCHANGED <<revokedRows, entryRows>>,
           up'[u].pc = "entries" => up'[u].at <= Len(up'[u].todo.deviations) + 1
    PROVE  FilesInv'
<1>1. /\ up' \in [FileUpload -> FileRequest \cup {NoFile}]
      /\ RequestsOK' /\ TurnsOK' /\ DlRowsOK' /\ DlIsKept' /\ CrlRowsOK' /\ CrlIsKept'
    BY QuietStep, RowsStay
<1>2. FilesShape'
    BY <1>1 DEF FilesInv, FilesShape, Quiet
<1>3. EntriesOK'
    <2>1. \A x \in entryRows' : x \in entryRows
        OBVIOUS
    <2>2. ASSUME ~up'[u].slipped, NEW n \in Name, dl[n] # NoListRow, dl[n].id = u
          PROVE  \A d \in Nat \X Nat : <<u, d>> \in entryRows' <=> d \in Written(u)'
        <3>1. u \in Turned /\ BringsDl(u)
            BY <2>2 DEF FilesInv, DlRowsOK
        <3>2. Written(u)' = Written(u)
            BY <3>1, <2>2 DEF SameWritten
        <3>3. up[u].slipped => up'[u].slipped
            BY <3>1, QuietStep
        <3>4. \A d \in Nat \X Nat : <<u, d>> \in entryRows <=> d \in Written(u)
            BY <3>3, <2>2 DEF FilesInv, EntriesOK
        <3> QED
            BY <3>2, <3>4
    <2> QED
        BY <2>1, <2>2, EntriesStep
<1>4. RevokedOK'
    BY RevokedStay
<1> QED
    BY <1>1, <1>2, <1>3, <1>4 DEF FilesInv


\* A request takes its turn with a list.
TakesTurn(u, l, i, late) ==
    /\ Begun(u) /\ u \notin Turned
    /\ l \in FilePcs /\ i \in FileUpload /\ late \in BOOLEAN
    /\ up' = [up EXCEPT ![u] = Owning(u, l, i, late)]
    /\ database' = database

\* It is the last so far.
LEMMA TurnTaken ==
    ASSUME FilesInv, NEW u \in FileUpload, NEW l, NEW i, NEW late, TakesTurn(u, l, i, late)
    PROVE  /\ up'[u] \in FileRequest /\ up' \in [FileUpload -> FileRequest \cup {NoFile}]
           /\ up'[u] = Owning(u, l, i, late) /\ up'[u].pc = l /\ up'[u].at = 1 /\ up'[u].id = i
           /\ up'[u].late = late /\ up'[u].turn = Cardinality(Turned) + 1
           /\ up'[u].file = up[u].file /\ up'[u].todo = up[u].todo /\ up'[u].status = up[u].status
           /\ up'[u].slipped = up[u].slipped
           /\ \A v \in FileUpload : v # u => up'[v] = up[v]
           /\ \A v \in Turned : v # u /\ up'[v] = up[v] /\ v \in FileUpload /\ Begun(v) /\ up[v].turn \in Nat
           /\ \A v \in Turned : up[v].turn < up'[u].turn
           /\ Turned' = Turned \cup {u}
           /\ TurnsOK'
<1> USE DEF FilesInv
<1>0. IsFiniteSet(Turned) /\ Cardinality(Turned) \in Nat
    BY FS_CardinalityType DEF TurnsOK
<1>1. up[u] \in FileRequest /\ up \in [FileUpload -> FileRequest \cup {NoFile}]
    BY RequestFacts DEF TakesTurn, FilesShape
<1>2. up'[u] = Owning(u, l, i, late) /\ \A v \in FileUpload : v # u => up'[v] = up[v]
    BY <1>1 DEF TakesTurn
<1>3. Turn(u) = Cardinality(Turned) + 1
    BY DEF Turn, Turned
<1>4. /\ up'[u] \in FileRequest /\ up'[u].pc = l /\ up'[u].at = 1 /\ up'[u].id = i
      /\ up'[u].late = late /\ up'[u].turn = Cardinality(Turned) + 1
      /\ up'[u].file = up[u].file /\ up'[u].todo = up[u].todo /\ up'[u].status = up[u].status
      /\ up'[u].slipped = up[u].slipped
    <2> DEFINE q == up[u]
               c == Cardinality(Turned) + 1
    <2>1. up'[u] = [q EXCEPT !.id = i, !.pc = l, !.at = 1, !.turn = c, !.late = late]
        BY <1>2, <1>3 DEF Owning
    <2>2. q \in FileRequest /\ c \in Nat /\ l \in FilePcs /\ i \in FileUpload /\ late \in BOOLEAN
        BY <1>0, <1>1 DEF TakesTurn
    <2> HIDE DEF q, c
    <2>a. /\ q.file \in Files /\ q.status \in {"none", "PROCESSING", "COMPLETED", "FAILED", "deleted"}
          /\ q.todo \in FileTodos /\ q.stored \in Seq({"CSCA", "MLSC", "DSC"}) /\ q.slipped \in BOOLEAN
        BY <2>2 DEF FileRequest
    <2>b. up'[u] = [pc |-> l, file |-> q.file, status |-> q.status, todo |-> q.todo, at |-> 1,
                    stored |-> q.stored, id |-> i, turn |-> c, late |-> late, slipped |-> q.slipped]
        BY <2>1, <2>2 DEF FileRequest
    <2>3. up'[u] \in FileRequest
        BY <2>a, <2>b, <2>2 DEF FileRequest
    <2>4. /\ up'[u].pc = l /\ up'[u].at = 1 /\ up'[u].id = i /\ up'[u].late = late /\ up'[u].turn = c
          /\ up'[u].file = q.file /\ up'[u].todo = q.todo /\ up'[u].status = q.status
          /\ up'[u].slipped = q.slipped
        BY <2>1, <2>2 DEF FileRequest
    <2> QED
        BY <2>3, <2>4 DEF q, c
<1>5. up' \in [FileUpload -> FileRequest \cup {NoFile}]
    BY <1>1, <1>2, <1>4 DEF TakesTurn
<1>6. \A v \in Turned : v # u /\ up'[v] = up[v] /\ v \in FileUpload /\ Begun(v) /\ up[v].turn \in Nat
    <2> TAKE v \in Turned
    <2>1. v \in FileUpload /\ Begun(v) /\ v # u
        BY DEF Turned, Begun, TakesTurn
    <2> QED
        BY <2>1, <1>2, RequestFacts
<1>7. \A v \in Turned : up[v].turn < up'[u].turn
    <2> TAKE v \in Turned
    <2>1. up[v].turn <= Cardinality(Turned) /\ up[v].turn \in Nat
        BY <1>6 DEF TurnsOK
    <2> QED
        BY <2>1, <1>0, <1>4
<1>8. Turned' = Turned \cup {u}
    <2>1. u \in Turned'
        BY <1>0, <1>4 DEF Turned, TakesTurn, FilePcs
    <2>2. \A v \in FileUpload : v # u => (v \in Turned' <=> v \in Turned)
        BY <1>2 DEF Turned
    <2>3. \A v : (v \in Turned' => v \in FileUpload) /\ (v \in Turned => v \in FileUpload)
        BY DEF Turned
    <2>4. \A v : v \in Turned' <=> v \in Turned \cup {u}
        BY <2>1, <2>2, <2>3
    <2> QED
        BY ONLY <2>4
<1>9. TurnsOK'
    <2>1. IsFiniteSet(Turned \cup {u}) /\ Cardinality(Turned \cup {u}) = Cardinality(Turned) + 1
        BY <1>0, FS_AddElement DEF TakesTurn
    <2>2. \A v \in Turned' : up'[v].turn <= Cardinality(Turned')
        BY <1>0, <1>4, <1>6, <1>8, <2>1 DEF TurnsOK
    <2>3. ASSUME NEW v \in Turned', NEW w \in Turned', up'[v].turn = up'[w].turn PROVE v = w
        <3>1. CASE v \in Turned /\ w \in Turned
            BY <3>1, <2>3, <1>6 DEF TurnsOK
        <3>2. CASE v = u /\ w \in Turned
            <4>1. up[w].turn < up'[u].turn /\ up'[w] = up[w] /\ up[w].turn \in Nat
                BY <3>2, <1>6, <1>7
            <4> QED
                BY <4>1, <3>2, <2>3, <1>0, <1>4
        <3>3. CASE w = u /\ v \in Turned
            <4>1. up[v].turn < up'[u].turn /\ up'[v] = up[v] /\ up[v].turn \in Nat
                BY <3>3, <1>6, <1>7
            <4> QED
                BY <4>1, <3>3, <2>3, <1>0, <1>4
        <3> QED
            BY <3>1, <3>2, <3>3, <1>8
    <2> QED
        BY <1>8, <2>1, <2>2, <2>3 DEF TurnsOK
<1> QED
    BY <1>1, <1>2, <1>4, <1>5, <1>6, <1>7, <1>8, <1>9

\* Other requests are where they were, and who shares a CRL is as before but for u.
LEMMA TurnOthers ==
    ASSUME FilesInv, NEW u \in FileUpload, NEW l, NEW i, NEW late, TakesTurn(u, l, i, late),
           RequestFits(u)', IdFits(u)'
    PROVE  /\ RequestsOK'
           /\ Sharing(i)' = Sharing(i) \cup {u} /\ \A w : w # i => Sharing(w)' = Sharing(w)
           /\ \A w : Sharing(w) \subseteq Turned
           /\ \A v \in Turned : \A s : Beyond(v, s)' <=> Beyond(v, s)
           /\ \A v \in Turned : Written(v)' = Written(v)
<1> USE DEF FilesInv
<1>1. RequestsOK'
    <2> SUFFICES ASSUME NEW v \in FileUpload, v # u, Begun(v)' PROVE RequestFits(v)' /\ IdFits(v)'
        BY DEF RequestsOK
    <2>1. up'[v] = up[v] /\ Begun(v) /\ RequestFits(v) /\ IdFits(v)
        BY TurnTaken DEF RequestsOK, Begun
    <2>2. RequestFits(v)'
        BY <2>1 DEF RequestFits, BringsCrl, BringsDl
    <2>3. IdFits(v)'
        BY <2>1, TurnTaken DEF IdFits, BringsCrl, BringsDl
    <2> QED
        BY <2>2, <2>3
<1>a. ASSUME NEW w PROVE Sharing(w)' = Sharing(w) \cup (IF w = i THEN {u} ELSE {})
    <2>1. \A v : v \in Sharing(w) <=> v \in Turned /\ up[v].id = w
        BY DEF Sharing, Turned
    <2>2. \A v : v \in Sharing(w)' <=> v \in Turned' /\ up'[v].id = w
        BY DEF Sharing, Turned
    <2>3. \A v : v \in Sharing(w)' <=> v \in Sharing(w) \/ (v = u /\ w = i)
        BY <2>1, <2>2, TurnTaken
    <2> QED
        BY ONLY <2>3
<1>2. Sharing(i)' = Sharing(i) \cup {u} /\ \A w : w # i => Sharing(w)' = Sharing(w)
    BY <1>a
<1>3. \A w : Sharing(w) \subseteq Turned
    BY DEF Sharing, Turned
<1>4. \A v \in Turned : up'[v] = up[v]
    BY TurnTaken
<1>5. \A v \in Turned : \A s : Beyond(v, s)' <=> Beyond(v, s)
    BY <1>4 DEF Beyond
<1>6. \A v \in Turned : Written(v)' = Written(v)
    BY <1>4 DEF Written
<1> QED
    BY <1>1, <1>2, <1>3, <1>5, <1>6


\* A request that takes its turn is where it should be.
LEMMA TurnFits ==
    ASSUME FilesInv, NEW u \in FileUpload, NEW l, NEW i, NEW late, TakesTurn(u, l, i, late),
           \/ l = "revoke" /\ BringsCrl(u)
           \/ l = "entries" /\ BringsDl(u) /\ i = u,
           i = u \/ (i \in Turned /\ BringsCrl(i) /\ up[i].file.name = up[u].file.name)
    PROVE  /\ RequestFits(u)' /\ IdFits(u)'
           /\ up'[u].pc = "entries" => up'[u].at <= Len(up'[u].todo.deviations) + 1
<1> USE DEF FilesInv
<1>1. RequestFits(u) /\ Begun(u)
    BY DEF RequestsOK, TakesTurn
<1>2. /\ up'[u].pc = l /\ up'[u].at = 1 /\ up'[u].id = i /\ up'[u].turn = Cardinality(Turned) + 1
      /\ up'[u].file = up[u].file /\ up'[u].todo = up[u].todo /\ up'[u].status = up[u].status
      /\ \A v \in Turned : up'[v] = up[v]
      /\ Turned' = Turned \cup {u}
    BY TurnTaken
<1>3. Cardinality(Turned) \in Nat
    BY FS_CardinalityType DEF TurnsOK
<1>4. RequestFits(u)'
    BY <1>1, <1>2, <1>3 DEF RequestFits, BringsCrl, BringsDl
<1>5. IdFits(u)'
    <2>1. ~(BringsCrl(u) /\ BringsDl(u))
        BY <1>1, RequestFacts
    <2> QED
        BY <2>1, <1>2 DEF IdFits, BringsCrl, BringsDl
<1>6. Len(up[u].todo.deviations) \in Nat
    BY <1>1, RequestFacts
<1> QED
    BY <1>2, <1>4, <1>5, <1>6

\* Its turn changes nothing for deviation lists that are there.
LEMMA TurnKeepsDl ==
    ASSUME FilesInv, NEW u \in FileUpload, NEW l, NEW i, NEW late, TakesTurn(u, l, i, late),
           RequestFits(u)', IdFits(u)', UNCHANGED <<dl, entryRows>>,
           up'[u].pc = "entries" => up'[u].at <= Len(up'[u].todo.deviations) + 1,
           late \/ BringsCrl(u)
    PROVE  DlRowsOK' /\ DlIsKept' /\ EntriesOK'
<1> USE DEF FilesInv
<1>1. /\ up'[u].late = late /\ up'[u].todo = up[u].todo
      /\ \A v \in FileUpload : v # u => up'[v] = up[v]
      /\ \A v \in Turned : v # u /\ up'[v] = up[v]
      /\ Turned' = Turned \cup {u}
    BY TurnTaken
<1>2. \A v \in Turned : Written(v)' = Written(v)
    BY TurnOthers
<1>3. DlRowsOK'
    BY <1>1 DEF DlRowsOK, BringsDl
<1>4. DlIsKept'
    <2>1. late \/ ~BringsDl(u)
        BY RequestFacts DEF RequestsOK, TakesTurn
    <2> QED
        BY <2>1, <1>1 DEF DlIsKept, BringsDl
<1>5. EntriesOK'
    <2>1. \A v \in FileUpload : up'[v].pc = "entries" => up'[v].at <= Len(up'[v].todo.deviations) + 1
        BY <1>1 DEF EntriesOK
    <2>2. \A x \in entryRows' : x[1] \in Turned'
        BY <1>1 DEF EntriesOK
    <2>3. ASSUME NEW n \in Name, dl'[n] # NoListRow, NEW v, v = dl'[n].id, ~up'[v].slipped,
                 NEW d \in Nat \X Nat
          PROVE  <<v, d>> \in entryRows' <=> d \in Written(v)'
        <3>1. dl[n] # NoListRow /\ v = dl[n].id /\ v \in Turned /\ entryRows' = entryRows
            BY <2>3 DEF DlRowsOK
        <3>2. ~up[v].slipped /\ Written(v)' = Written(v)
            BY <3>1, <2>3, <1>1, <1>2
        <3> QED
            BY <3>1, <3>2 DEF EntriesOK
    <2> QED
        BY <2>1, <2>2, <2>3 DEF EntriesOK
<1> QED
    BY <1>3, <1>4, <1>5

\* Nor for CRLs, unless it has one that is there.
LEMMA TurnKeepsCrl ==
    ASSUME FilesInv, NEW u \in FileUpload, NEW l, NEW i, NEW late, TakesTurn(u, l, i, late),
           RequestFits(u)', IdFits(u)', UNCHANGED <<crl, revokedRows>>,
           late \/ BringsDl(u), \A n \in Name : crl[n] # NoListRow => crl[n].id # i
    PROVE  CrlRowsOK' /\ CrlIsKept' /\ RevokedOK'
<1> USE DEF FilesInv
<1>1. /\ up'[u].late = late /\ up'[u].todo = up[u].todo
      /\ \A v \in FileUpload : v # u => up'[v] = up[v]
      /\ \A v \in Turned : v # u /\ up'[v] = up[v]
      /\ Turned' = Turned \cup {u}
    BY TurnTaken
<1>2. /\ \A w : Sharing(w) \subseteq Turned
      /\ \A w : w # i => Sharing(w)' = Sharing(w)
      /\ \A v \in Turned : \A s : Beyond(v, s)' <=> Beyond(v, s)
    BY TurnOthers
<1>3. CrlRowsOK'
    BY <1>1 DEF CrlRowsOK, BringsCrl
<1>4. CrlIsKept'
    <2>1. late \/ ~BringsCrl(u)
        BY RequestFacts DEF RequestsOK, TakesTurn
    <2>2. ASSUME NEW v \in Turned, ~up[v].late, BringsCrl(v)
          PROVE  \/ crl[up[v].file.name] # NoListRow /\ LaterThan(v, crl[up[v].file.name].owner)'
                 \/ \E w \in FileUpload : LaterThan(v, w)' /\ up'[w].status = "deleted"
        <3>1. \A w : LaterThan(v, w) => LaterThan(v, w)' /\ w \in Turned /\ up'[w] = up[w]
            BY <1>1 DEF LaterThan
        <3>2. LaterThan(v, crl[up[v].file.name].owner) => LaterThan(v, crl[up[v].file.name].owner)'
            BY <1>1 DEF LaterThan
        <3>3. \/ crl[up[v].file.name] # NoListRow /\ LaterThan(v, crl[up[v].file.name].owner)
              \/ \E w \in FileUpload : LaterThan(v, w) /\ up[w].status = "deleted"
            BY <2>2 DEF CrlIsKept
        <3>4. ASSUME NEW w \in FileUpload, LaterThan(v, w), up[w].status = "deleted"
              PROVE  LaterThan(v, w)' /\ up'[w].status = "deleted"
            BY <3>1, <3>4
        <3> QED
            BY <3>2, <3>3, <3>4
    <2> QED
        BY <2>1, <2>2, <1>1 DEF CrlIsKept, BringsCrl
<1>5. RevokedOK'
    <2>1. \A w \in FileUpload : w \notin Turned' => \A s \in Serial : revokedRows'[w][s] = 0
        BY <1>1 DEF RevokedOK
    <2>2. ASSUME database' = "postgres", NEW n \in Name, crl'[n] # NoListRow, NEW w, w = crl'[n].id,
                 \A v \in Sharing(w)' : ~up'[v].slipped, NEW s \in 1 .. up'[w].file.revoked
          PROVE  revokedRows'[w][s] = Cardinality(PassedBy(w, s)')
        <3>1. crl[n] # NoListRow /\ w = crl[n].id /\ w # i
            BY <2>2
        <3>2. w \in Turned
            BY <3>1 DEF CrlRowsOK
        <3>3. up'[w] = up[w]
            BY <3>2, <1>1
        <3>4. s \in 1 .. up[w].file.revoked /\ database = "postgres"
            BY <2>2, <3>3 DEF TakesTurn
        <3>5. Sharing(w)' = Sharing(w)
            BY <3>1, <1>2
        <3>6. \A v \in Sharing(w) : v \in Turned /\ ~up[v].slipped
            BY <2>2, <3>5, <1>1, <1>2
        <3>7. PassedBy(w, s)' = PassedBy(w, s)
            BY <3>5, <3>6, <1>2 DEF PassedBy
        <3>8. revokedRows[w][s] = Cardinality(PassedBy(w, s))
            BY <3>1, <3>4, <3>6 DEF RevokedOK
        <3> QED
            BY <3>7, <3>8, <2>2
    <2> QED
        BY <2>1, <2>2 DEF RevokedOK
<1> QED
    BY <1>3, <1>4, <1>5

\* One that comes too late finds rows of others, or none.
LEMMA LateTurn ==
    ASSUME FilesInv, NEW u \in FileUpload, NEW l, NEW i, TakesTurn(u, l, i, TRUE),
           \/ l = "revoke" /\ BringsCrl(u)
           \/ l = "entries" /\ BringsDl(u) /\ i = u,
           i = u \/ (i \in Turned /\ BringsCrl(i) /\ up[i].file.name = up[u].file.name),
           UNCHANGED <<crl, dl, revokedRows, entryRows>>,
           \A n \in Name : crl[n] # NoListRow => crl[n].id # i
    PROVE  FilesInv'
<1>0. TRUE \in BOOLEAN
    OBVIOUS
<1>1. /\ RequestFits(u)' /\ IdFits(u)'
      /\ up'[u].pc = "entries" => up'[u].at <= Len(up'[u].todo.deviations) + 1
    BY TurnFits, <1>0
<1>2. TurnsOK' /\ up' \in [FileUpload -> FileRequest \cup {NoFile}]
    BY TurnTaken, <1>0
<1>3. RequestsOK'
    BY <1>1, TurnOthers, <1>0
<1>4. DlRowsOK' /\ DlIsKept' /\ EntriesOK'
    BY <1>1, TurnKeepsDl, <1>0
<1>5. CrlRowsOK' /\ CrlIsKept' /\ RevokedOK'
    BY <1>1, TurnKeepsCrl, <1>0
<1>6. FilesShape'
    BY <1>2 DEF FilesInv, FilesShape, TakesTurn
<1> QED
    BY <1>2, <1>3, <1>4, <1>5, <1>6 DEF FilesInv

\* A deviation list that was not there has no entries yet.
LEMMA NewDl ==
    ASSUME FilesInv, NEW u \in FileUpload, NEW late, late = FALSE, TakesTurn(u, "entries", u, late), BringsDl(u),
           dl[up[u].file.name] = NoListRow,
           dl' = [dl EXCEPT ![up[u].file.name] = [id |-> u, owner |-> u]],
           UNCHANGED <<crl, revokedRows, entryRows>>
    PROVE  FilesInv'
<1> DEFINE m == up[u].file.name
<1>0. late \in BOOLEAN /\ [id |-> u, owner |-> u] \in ListRow /\ [id |-> u, owner |-> u] # NoListRow
    BY NoUploadAssumption DEF ListRow, NoListRow
<1>1. /\ RequestFits(u)' /\ IdFits(u)'
      /\ up'[u].pc = "entries" => up'[u].at <= Len(up'[u].todo.deviations) + 1
    BY TurnFits, <1>0
<1>2. /\ TurnsOK' /\ up' \in [FileUpload -> FileRequest \cup {NoFile}]
      /\ ~up'[u].late /\ up'[u].todo = up[u].todo /\ up'[u].file = up[u].file
      /\ up'[u].pc = "entries" /\ up'[u].at = 1
      /\ \A v \in FileUpload : v # u => up'[v] = up[v]
      /\ \A v \in Turned : v # u /\ up'[v] = up[v]
      /\ Turned' = Turned \cup {u}
    <2>0. TurnsOK' /\ up' \in [FileUpload -> FileRequest \cup {NoFile}]
        BY TurnTaken, <1>0
    <2>3. up'[u].late = late
        BY TurnTaken
    <2>1. /\ up'[u].todo = up[u].todo /\ up'[u].file = up[u].file
          /\ up'[u].pc = "entries" /\ up'[u].at = 1
        BY TurnTaken, <1>0
    <2>2. /\ \A v \in FileUpload : v # u => up'[v] = up[v]
          /\ \A v \in Turned : v # u /\ up'[v] = up[v]
          /\ Turned' = Turned \cup {u}
        BY TurnTaken, <1>0
    <2> QED
        BY <2>0, <2>1, <2>2, <2>3
<1> USE DEF FilesInv
<1>3. RequestsOK'
    BY <1>1, TurnOthers, <1>0
<1>4. CrlRowsOK' /\ CrlIsKept' /\ RevokedOK'
    <2>1. \A n \in Name : crl[n] # NoListRow => crl[n].id # u
        BY DEF CrlRowsOK, TakesTurn
    <2> QED
        BY <1>1, <2>1, TurnKeepsCrl, <1>0
<1>5. m \in Name /\ dl \in [Name -> ListRow \cup {NoListRow}]
    BY RequestFacts DEF TakesTurn, FilesShape
<1>6. dl'[m] = [id |-> u, owner |-> u] /\ \A n \in Name : n # m => dl'[n] = dl[n]
    BY <1>5
<1>7. FilesShape'
    <2>1. dl' \in [Name -> ListRow \cup {NoListRow}]
        <3> HIDE DEF m
        <3> QED
            BY <1>0, <1>5 DEF m
    <2> QED
        BY <2>1, <1>2 DEF FilesShape, TakesTurn
<1>8. DlRowsOK'
    <2> SUFFICES ASSUME NEW n \in Name, dl'[n] # NoListRow, NEW v, v = dl'[n].id
                 PROVE  /\ v \in Turned' /\ ~up'[v].late /\ BringsDl(v)'
                        /\ up'[v].file.name = n /\ dl'[n].owner = v
        BY DEF DlRowsOK, BringsDl
    <2>1. CASE n = m
        BY <2>1, <1>2, <1>6 DEF BringsDl
    <2>2. CASE n # m
        <3>1. dl'[n] = dl[n]
            BY <2>2, <1>6
        <3> QED
            BY <3>1, <1>2 DEF DlRowsOK, BringsDl
    <2> QED
        BY <2>1, <2>2
<1>9. DlIsKept'
    <2> SUFFICES ASSUME NEW v \in Turned', ~up'[v].late, BringsDl(v)'
                 PROVE  dl'[up'[v].file.name] = [id |-> v, owner |-> v] \/ up'[v].status = "deleted"
        BY DEF DlIsKept
    <2>1. CASE v = u
        BY <2>1, <1>2, <1>6
    <2>2. CASE v # u
        <3>1. v \in Turned /\ up'[v] = up[v] /\ BringsDl(v)
            BY <2>2, <1>2 DEF BringsDl
        <3>2. dl[up[v].file.name] = [id |-> v, owner |-> v] \/ up[v].status = "deleted"
            BY <3>1 DEF DlIsKept
        <3>3. [id |-> v, owner |-> v] # NoListRow
            BY NoUploadAssumption DEF NoListRow, Turned
        <3>4. up[v].file.name \in Name
            BY <3>1, RequestFacts DEF Turned, Begun
        <3> QED
            BY <3>1, <3>2, <3>3, <3>4, <1>6
    <2> QED
        BY <2>1, <2>2
<1>10. EntriesOK'
    <2>1. \A v \in FileUpload : up'[v].pc = "entries" => up'[v].at <= Len(up'[v].todo.deviations) + 1
        BY <1>1, <1>2 DEF EntriesOK
    <2>2. \A x \in entryRows' : x[1] \in Turned'
        BY <1>2 DEF EntriesOK
    <2>3. ASSUME NEW n \in Name, dl'[n] # NoListRow, NEW v, v = dl'[n].id, ~up'[v].slipped,
                 NEW d \in Nat \X Nat
          PROVE  <<v, d>> \in entryRows' <=> d \in Written(v)'
        <3>1. CASE n = m
            <4>1. v = u /\ u \notin Turned
                BY <3>1, <2>3, <1>6 DEF TakesTurn
            <4>2. <<v, d>> \notin entryRows'
                BY <4>1 DEF EntriesOK
            <4>3. Written(v)' = {}
                BY <4>1, <1>2 DEF Written
            <4> QED
                BY <4>2, <4>3
        <3>2. CASE n # m
            <4>1. dl[n] # NoListRow /\ v = dl[n].id
                BY <3>2, <2>3, <1>6
            <4>2. v \in Turned
                BY <4>1 DEF DlRowsOK
            <4>a. up'[v] = up[v] /\ ~up[v].slipped
                BY <4>2, <2>3, <1>2
            <4>b. Written(v)' = Written(v)
                BY <4>a DEF Written
            <4>3. ~up[v].slipped /\ Written(v)' = Written(v)
                BY <4>a, <4>b
            <4> QED
                BY <4>1, <4>3 DEF EntriesOK
        <3> QED
            BY <3>1, <3>2
    <2> QED
        BY <2>1, <2>2, <2>3 DEF EntriesOK
<1> QED
    BY <1>2, <1>3, <1>4, <1>7, <1>8, <1>9, <1>10

\* A CRL that was not there comes with the upload; one that was becomes the upload's. Its
\* rows of revoked certificates are those of the uploads before.
LEMMA CrlTurn ==
    ASSUME FilesInv, NEW u \in FileUpload, NEW i, NEW late, late = FALSE, TakesTurn(u, "revoke", i, late),
           BringsCrl(u),
           \/ i = u /\ crl[up[u].file.name] = NoListRow
           \/ crl[up[u].file.name] # NoListRow /\ crl[up[u].file.name].id = i,
           crl' = [crl EXCEPT ![up[u].file.name] = [id |-> i, owner |-> u]],
           UNCHANGED <<dl, revokedRows, entryRows>>
    PROVE  FilesInv'
<1> DEFINE m == up[u].file.name
<1>0. late \in BOOLEAN /\ i \in FileUpload
      /\ [id |-> i, owner |-> u] \in ListRow /\ [id |-> i, owner |-> u] # NoListRow
    BY NoUploadAssumption DEF ListRow, NoListRow, TakesTurn
<1>a. m \in Name /\ crl \in [Name -> ListRow \cup {NoListRow}] /\ Begun(u) /\ u \notin Turned
    BY RequestFacts DEF FilesInv, TakesTurn, FilesShape
<1>b. /\ i = u /\ crl[m] = NoListRow
      \/ /\ crl[m] # NoListRow /\ crl[m].id = i /\ i # u
         /\ i \in Turned /\ BringsCrl(i) /\ up[i].file.name = m /\ ~up[i].late /\ up[i].id = i
    BY <1>a DEF FilesInv, CrlRowsOK
<1>1. /\ RequestFits(u)' /\ IdFits(u)'
      /\ up'[u].pc = "entries" => up'[u].at <= Len(up'[u].todo.deviations) + 1
    BY <1>0, <1>b, TurnFits
<1>2. /\ TurnsOK' /\ up' \in [FileUpload -> FileRequest \cup {NoFile}]
      /\ ~up'[u].late /\ up'[u].todo = up[u].todo /\ up'[u].file = up[u].file
      /\ up'[u].pc = "revoke" /\ up'[u].at = 1 /\ up'[u].id = i
      /\ \A v \in FileUpload : v # u => up'[v] = up[v]
      /\ \A v \in Turned : v # u /\ up'[v] = up[v] /\ up[v].turn \in Nat /\ up[v].turn < up'[u].turn
      /\ Turned' = Turned \cup {u}
      /\ up'[u].turn = Cardinality(Turned) + 1
    <2>0. TurnsOK' /\ up' \in [FileUpload -> FileRequest \cup {NoFile}]
        BY TurnTaken, <1>0
    <2>3. up'[u].late = late
        BY TurnTaken
    <2>1. /\ up'[u].todo = up[u].todo /\ up'[u].file = up[u].file
          /\ up'[u].pc = "revoke" /\ up'[u].at = 1 /\ up'[u].id = i
          /\ up'[u].turn = Cardinality(Turned) + 1
        BY TurnTaken, <1>0
    <2>2. /\ \A v \in FileUpload : v # u => up'[v] = up[v]
          /\ \A v \in Turned : v # u /\ up'[v] = up[v] /\ up[v].turn \in Nat /\ up[v].turn < up'[u].turn
          /\ Turned' = Turned \cup {u}
        BY TurnTaken, <1>0
    <2> QED
        BY <2>0, <2>1, <2>2, <2>3
<1> USE DEF FilesInv
<1>3. RequestsOK'
    BY <1>1, TurnOthers, <1>0
<1>4. DlRowsOK' /\ DlIsKept' /\ EntriesOK'
    BY <1>1, TurnKeepsDl, <1>0
<1>6. crl'[m] = [id |-> i, owner |-> u] /\ \A n \in Name : n # m => crl'[n] = crl[n]
    BY <1>a
<1>7. FilesShape'
    <2>1. crl' \in [Name -> ListRow \cup {NoListRow}]
        BY <1>0, <1>a
    <2> QED
        BY <2>1, <1>2 DEF FilesShape, TakesTurn
<1>8. CrlRowsOK'
    <2> SUFFICES ASSUME NEW n \in Name, crl'[n] # NoListRow,
                        NEW v, v = crl'[n].id, NEW w, w = crl'[n].owner
                 PROVE  /\ v \in Turned' /\ ~up'[v].late /\ BringsCrl(v)'
                        /\ up'[v].file.name = n /\ up'[v].id = v
                        /\ w \in Turned' /\ BringsCrl(w)' /\ up'[w].file.name = n
        BY DEF CrlRowsOK, BringsCrl
    <2>1. CASE n = m
        <3>1. i \in Turned' /\ ~up'[i].late /\ BringsCrl(i)' /\ up'[i].file.name = m /\ up'[i].id = i
            BY <1>b, <1>2 DEF BringsCrl
        <3>2. u \in Turned' /\ BringsCrl(u)' /\ up'[u].file.name = m
            BY <1>2 DEF BringsCrl
        <3> QED
            BY <2>1, <3>1, <3>2, <1>6
    <2>2. CASE n # m
        <3>1. crl'[n] = crl[n]
            BY <2>2, <1>6
        <3> QED
            BY <3>1, <1>2 DEF CrlRowsOK, BringsCrl
    <2> QED
        BY <2>1, <2>2
<1>9. CrlIsKept'
    <2> SUFFICES ASSUME NEW v \in Turned', ~up'[v].late, BringsCrl(v)'
                 PROVE  \/ /\ crl'[up'[v].file.name] # NoListRow
                           /\ \E w : w = crl'[up'[v].file.name].owner /\ LaterThan(v, w)'
                        \/ \E w \in FileUpload : LaterThan(v, w)' /\ up'[w].status = "deleted"
        BY DEF CrlIsKept, LaterThan
    <2>a. \A v2 \in Turned' : up'[v2].turn \in Nat
        BY <1>2, FS_CardinalityType DEF TurnsOK
    <2>1. CASE up'[v].file.name = m
        <3>1. up'[u].turn >= up'[v].turn /\ u \in Turned' /\ up'[u].file.name = m
            BY <2>a, <1>2
        <3>2. LaterThan(v, u)'
            BY <3>1, <2>1 DEF LaterThan
        <3> QED
            BY <2>1, <3>2, <1>0, <1>6
    <2>2. CASE up'[v].file.name # m
        <3>1. v \in Turned /\ up'[v] = up[v] /\ BringsCrl(v)
            BY <2>2, <1>2 DEF BringsCrl
        <3>2. up[v].file.name \in Name
            BY <3>1, RequestFacts DEF Turned, Begun
        <3>3. crl'[up[v].file.name] = crl[up[v].file.name]
            BY <3>1, <3>2, <2>2, <1>6
        <3>4. \A w : LaterThan(v, w) => LaterThan(v, w)' /\ w \in Turned /\ up'[w] = up[w]
            BY <3>1, <1>2 DEF LaterThan
        <3>5. \/ crl[up[v].file.name] # NoListRow /\ LaterThan(v, crl[up[v].file.name].owner)
              \/ \E w \in FileUpload : LaterThan(v, w) /\ up[w].status = "deleted"
            BY <3>1 DEF CrlIsKept
        <3>6. \A w : w = crl[up[v].file.name].owner /\ LaterThan(v, w) => w = crl'[up'[v].file.name].owner
            BY <3>1, <3>3
        <3>7. ASSUME NEW w \in FileUpload, LaterThan(v, w), up[w].status = "deleted"
              PROVE  LaterThan(v, w)' /\ up'[w].status = "deleted"
            BY <3>4, <3>7
        <3> QED
            BY <3>1, <3>3, <3>4, <3>5, <3>6, <3>7
    <2> QED
        BY <2>1, <2>2
<1>b2. /\ \A w : Sharing(w) \subseteq Turned
       /\ Sharing(i)' = Sharing(i) \cup {u} /\ \A w : w # i => Sharing(w)' = Sharing(w)
       /\ \A v \in Turned : \A s : Beyond(v, s)' <=> Beyond(v, s)
    BY <1>0, <1>1, TurnOthers
<1>10. RevokedOK'
    <2>1. \A w \in FileUpload : w \notin Turned' => \A s \in Serial : revokedRows'[w][s] = 0
        BY <1>2 DEF RevokedOK
    <2>2. ASSUME database' = "postgres", NEW n \in Name, crl'[n] # NoListRow, NEW w, w = crl'[n].id,
                 \A v \in Sharing(w)' : ~up'[v].slipped, NEW s \in 1 .. up'[w].file.revoked
          PROVE  revokedRows'[w][s] = Cardinality(PassedBy(w, s)')
        <3>1. ~Beyond(u, s)'
            BY <1>2, <2>2 DEF Beyond
        <3>2. PassedBy(w, s)' = PassedBy(w, s)
            <4>1. \A v : v \in PassedBy(w, s) <=> v \in Sharing(w) /\ Beyond(v, s)
                BY DEF PassedBy, Sharing
            <4>2. \A v : v \in PassedBy(w, s)' <=> v \in Sharing(w)' /\ Beyond(v, s)'
                BY DEF PassedBy, Sharing
            <4>3. \A v : v \in PassedBy(w, s)' <=> v \in PassedBy(w, s)
                BY <4>1, <4>2, <3>1, <1>b2
            <4> QED
                BY ONLY <4>3
        <3>3. CASE n = m /\ i = u
            <4>1. w = u /\ u \notin Turned
                BY <3>3, <1>6, <1>a, <2>2
            <4>2. Sharing(u) = {}
                <5>1. ASSUME NEW v \in Sharing(u) PROVE FALSE
                    <6>1. v \in Turned /\ up[v].id = u /\ Begun(v) /\ IdFits(v)
                        BY <1>b2 DEF Sharing, RequestsOK, Begun
                    <6> QED
                        BY <6>1, <1>a DEF IdFits
                <5> QED
                    BY <5>1
            <4>3. PassedBy(w, s) = {}
                BY <4>1, <4>2 DEF PassedBy
            <4>4. s \in Serial
                BY <2>2, <4>1, <1>2, <1>a, RequestFacts
            <4>5. revokedRows[w][s] = 0
                BY <4>1, <4>4 DEF RevokedOK
            <4> QED
                BY <3>2, <4>3, <4>5, FS_EmptySet
        <3>4. CASE ~(n = m /\ i = u)
            <4>1. crl[n] # NoListRow /\ w = crl[n].id
                BY <3>4, <2>2, <1>6, <1>b
            <4>2. w \in Turned /\ up'[w] = up[w]
                BY <4>1, <1>2 DEF CrlRowsOK
            <4>3. s \in 1 .. up[w].file.revoked /\ database = "postgres"
                BY <2>2, <4>2 DEF TakesTurn
            <4>4. \A v \in Sharing(w) : ~up[v].slipped
                BY <2>2, <1>2, <1>b2
            <4>5. revokedRows[w][s] = Cardinality(PassedBy(w, s))
                BY <4>1, <4>3, <4>4 DEF RevokedOK
            <4> QED
                BY <3>2, <4>5
        <3> QED
            BY <3>3, <3>4
    <2> QED
        BY <2>1, <2>2 DEF RevokedOK
<1> QED
    BY <1>2, <1>3, <1>4, <1>7, <1>8, <1>9, <1>10

\* The request is the next place of its list further.
LEMMA NextPlace ==
    ASSUME FilesInv, NEW u \in FileUpload, up[u].pc \in {"revoke", "entries"},
           NEW slip \in BOOLEAN, database' = database,
           \/ ~slip /\ up' = [up EXCEPT ![u].at = @ + 1]
           \/ slip /\ up' = [up EXCEPT ![u].at = @ + 1, ![u].slipped = TRUE]
    PROVE  /\ Begun(u) /\ u \in Turned /\ up[u] \in FileRequest
           /\ up'[u].at = up[u].at + 1 /\ up[u].at \in Nat /\ up[u].at > 0
           /\ up'[u].pc = up[u].pc /\ up'[u].file = up[u].file /\ up'[u].todo = up[u].todo
           /\ up'[u].id = up[u].id
           /\ slip => up'[u].slipped
           /\ ~slip => up'[u].slipped = up[u].slipped
           /\ Quiet(u) /\ RequestFits(u)' /\ IdFits(u)'
<1> USE DEF FilesInv
<1>1. Begun(u) /\ up[u] \in FileRequest /\ up[u].at \in Nat
    BY RequestFacts DEF Begun
<1>2. u \in Turned /\ up[u].at > 0 /\ RequestFits(u) /\ IdFits(u)
    BY <1>1 DEF RequestsOK, RequestFits, Turned, Begun
<1> DEFINE q == up[u]
<1>3. /\ up' = [up EXCEPT ![u] = up'[u]]
      /\ ~slip => up'[u] = [q EXCEPT !.at = @ + 1]
      /\ slip => up'[u] = [q EXCEPT !.at = @ + 1, !.slipped = TRUE]
    BY DEF FilesShape
<1> HIDE DEF q
<1>4. /\ up'[u].at = q.at + 1 /\ up'[u].pc = q.pc /\ up'[u].file = q.file /\ up'[u].todo = q.todo
      /\ up'[u].id = q.id /\ up'[u].turn = q.turn /\ up'[u].late = q.late /\ up'[u].status = q.status
    BY <1>1, <1>3 DEF FileRequest, q
<1>5. (slip => up'[u].slipped) /\ (~slip => up'[u].slipped = q.slipped)
    BY <1>1, <1>3 DEF FileRequest, q
<1>a. up'[u] \in FileRequest
    <2>1. q \in FileRequest /\ q.at + 1 \in Nat
        BY <1>1 DEF q
    <2>2. [q EXCEPT !.at = @ + 1] \in FileRequest
        BY <2>1 DEF FileRequest
    <2>3. [q EXCEPT !.at = @ + 1, !.slipped = TRUE] \in FileRequest
        BY <2>1 DEF FileRequest
    <2> QED
        BY <2>2, <2>3, <1>3
<1>b. q.slipped \in BOOLEAN /\ slip \in BOOLEAN
    BY <1>1 DEF FileRequest, q
<1>c. q.slipped => up'[u].slipped
    BY <1>5, <1>b
<1>d. up' = [up EXCEPT ![u] = up'[u]]
    BY <1>3
<1>6. Quiet(u)
    BY <1>1, <1>d, <1>4, <1>c, <1>a DEF Quiet, q, Begun
<1>7. RequestFits(u)'
    BY <1>1, <1>2, <1>4, <1>5 DEF RequestFits, BringsCrl, BringsDl, q
<1>8. IdFits(u)'
    <2>1. BringsCrl(u) => up[u].id \in Turned /\ BringsCrl(up[u].id)
        BY <1>2 DEF IdFits
    <2>2. u \in Turned' /\ (up[u].id \in Turned => up[u].id \in Turned')
        BY <1>2, <1>4 DEF Turned, q, FilesShape
    <2>3. up[u].id \in Turned => up'[up[u].id].todo = up[up[u].id].todo
                              /\ up'[up[u].id].file = up[up[u].id].file
        BY <1>4 DEF Turned, q, FilesShape
    <2> QED
        BY <1>2, <1>4, <2>1, <2>2, <2>3 DEF IdFits, BringsCrl, BringsDl, q
<1> QED
    BY <1>1, <1>2, <1>4, <1>5, <1>6, <1>7, <1>8 DEF q, Begun

\* A revoked certificate is stored, if its CRL is there: one more upload has passed it.
LEMMA RevokedRow ==
    ASSUME FilesInv, NEW u \in FileUpload, up[u].pc = "revoke", up[u].at <= up[u].file.revoked,
           up' = [up EXCEPT ![u].at = @ + 1], database = "postgres",
           revokedRows' = IF CrlOf(u).id = up[u].id THEN [revokedRows EXCEPT ![up[u].id][up[u].at] = @ + 1]
                          ELSE revokedRows,
           UNCHANGED <<database, crl, dl, entryRows>>
    PROVE  FilesInv'
<1> USE DEF FilesInv
<1> DEFINE i == up[u].id
           k == up[u].at
           m == up[u].file.name
<1>0. FALSE \in BOOLEAN /\ ~FALSE
    OBVIOUS
<1>1. /\ Begun(u) /\ u \in Turned /\ k \in Nat /\ k > 0
      /\ up'[u].at = k + 1 /\ up'[u].pc = "revoke" /\ up'[u].file = up[u].file
      /\ Quiet(u) /\ RequestFits(u)' /\ IdFits(u)'
    <2>1. \A slip \in BOOLEAN : ~slip =>
              /\ Begun(u) /\ u \in Turned /\ k \in Nat /\ k > 0
              /\ up'[u].at = k + 1 /\ up'[u].pc = "revoke" /\ up'[u].file = up[u].file
              /\ Quiet(u) /\ RequestFits(u)' /\ IdFits(u)'
        BY NextPlace
    <2> QED
        BY <2>1, <1>0
<1>2. /\ \A v \in FileUpload : v # u => up'[v] = up[v]
      /\ up' \in [FileUpload -> FileRequest \cup {NoFile}]
      /\ RequestsOK' /\ TurnsOK' /\ DlRowsOK' /\ DlIsKept' /\ CrlRowsOK' /\ CrlIsKept'
    BY <1>1, QuietStep, RowsStay
<1>3. Turned' = Turned
    BY <1>1, QuietStep
<1>4. \A v \in Turned : v \in FileUpload /\ up'[v].file = up[v].file /\ up'[v].id = up[v].id
    BY <1>1, QuietStep
<1>5. \A v \in Turned : up[v].slipped => up'[v].slipped
    BY <1>1, QuietStep
<1>6. RequestFits(u) /\ IdFits(u) /\ BringsCrl(u) /\ ~BringsDl(u)
    <2>1. RequestFits(u) /\ IdFits(u)
        BY <1>1 DEF RequestsOK
    <2> QED
        BY <2>1, <1>1, RequestFacts DEF RequestFits
<1>7. i \in Turned /\ i \in FileUpload /\ up[i].file.name = m
    BY <1>1, <1>6 DEF IdFits, Turned
<1>8. k \in Serial /\ m \in Name
    BY <1>1, RequestFacts
<1>9. EntriesOK'
    <2>1. \A n \in Name : dl[n] # NoListRow => dl[n].id # u
        BY <1>6 DEF DlRowsOK
    <2>2. /\ \A x \in entryRows' : x \in entryRows
          /\ \A v, d : v # u => (<<v, d>> \in entryRows' <=> <<v, d>> \in entryRows)
          /\ up'[u].pc # "entries"
        BY <1>1
    <2> QED
        BY <1>1, <2>1, <2>2, EntriesStep
<1>10. /\ revokedRows' \in [FileUpload -> [Serial -> Nat]]
       /\ \A w \in FileUpload, s \in Serial :
             revokedRows'[w][s] = IF CrlOf(u).id = i /\ w = i /\ s = k THEN revokedRows[w][s] + 1
                                  ELSE revokedRows[w][s]
    BY <1>7, <1>8 DEF FilesShape
<1>11. FilesShape'
    BY <1>2, <1>10 DEF FilesShape
<1>12. \A w : Sharing(w)' = Sharing(w) /\ Sharing(w) \subseteq Turned
    <2> TAKE w
    <2>1. \A v : v \in Sharing(w) <=> v \in Turned /\ up[v].id = w
        BY DEF Sharing, Turned
    <2>2. \A v : v \in Sharing(w)' <=> v \in Turned' /\ up'[v].id = w
        BY DEF Sharing, Turned
    <2> QED
        BY <2>1, <2>2, <1>3, <1>4
<1>13. \A v \in Turned : \A s : v # u => (Beyond(v, s)' <=> Beyond(v, s))
    BY <1>2, <1>4 DEF Beyond
<1>14. \A s \in Nat : /\ s # k => (Beyond(u, s)' <=> Beyond(u, s))
                     /\ s = k => ~Beyond(u, s) /\ Beyond(u, s)'
    BY <1>1 DEF Beyond
<1>15. RevokedOK'
    <2>1. \A w \in FileUpload : w \notin Turned' => \A s \in Serial : revokedRows'[w][s] = 0
        BY <1>3, <1>7, <1>10 DEF RevokedOK
    <2>2. ASSUME NEW n \in Name, crl'[n] # NoListRow, NEW w, w = crl'[n].id,
                 \A v \in Sharing(w)' : ~up'[v].slipped, NEW s \in 1 .. up'[w].file.revoked
          PROVE  revokedRows'[w][s] = Cardinality(PassedBy(w, s)')
        <3>1. crl[n] # NoListRow /\ w = crl[n].id /\ w \in Turned /\ up[w].file.name = n
            BY <2>2 DEF CrlRowsOK
        <3>2. s \in 1 .. up[w].file.revoked /\ s \in Serial /\ s \in Nat /\ w \in FileUpload
            BY <2>2, <3>1, <1>4, RequestFacts DEF Turned, Begun
        <3>3. \A v \in Sharing(w) : ~up[v].slipped
            BY <2>2, <1>5, <1>12
        <3>4. revokedRows[w][s] = Cardinality(PassedBy(w, s))
            BY <3>1, <3>2, <3>3 DEF RevokedOK
        <3>5. /\ \A v : v \in PassedBy(w, s) <=> v \in Sharing(w) /\ Beyond(v, s)
              /\ \A v : v \in PassedBy(w, s)' <=> v \in Sharing(w)' /\ Beyond(v, s)'
            BY DEF PassedBy, Sharing
        <3>6. CASE i = w /\ s = k
            <4>1. CrlOf(u).id = i
                BY <3>1, <3>6, <1>7 DEF CrlOf
            <4>2. u \in Sharing(w)
                BY <1>1, <3>6 DEF Sharing, Turned
            <4>3. \A v : v \in PassedBy(w, s)' <=> v \in PassedBy(w, s) \cup {u}
                BY <3>2, <3>5, <3>6, <4>2, <1>12, <1>13, <1>14
            <4>4. PassedBy(w, s)' = PassedBy(w, s) \cup {u}
                BY ONLY <4>3
            <4>5. u \notin PassedBy(w, s)
                BY <3>2, <3>5, <3>6, <1>14
            <4>6. PassedBy(w, s) \subseteq Turned
                BY <3>5, <1>12
            <4>7. IsFiniteSet(PassedBy(w, s))
                BY <4>6, FS_Subset DEF TurnsOK
            <4>8. Cardinality(PassedBy(w, s) \cup {u}) = Cardinality(PassedBy(w, s)) + 1
                BY <4>5, <4>7, FS_AddElement
            <4>9. revokedRows'[w][s] = revokedRows[w][s] + 1
                BY <4>1, <3>2, <3>6, <1>10
            <4> QED
                BY <4>4, <4>8, <4>9, <3>4
        <3>7. CASE ~(i = w /\ s = k)
            <4>1. i # w => u \notin Sharing(w)
                BY DEF Sharing
            <4>a. s # k => (Beyond(u, s)' <=> Beyond(u, s))
                BY <3>2, <1>1 DEF Beyond
            <4>b. \A v \in Sharing(w) : Beyond(v, s)' <=> Beyond(v, s)
                BY <3>7, <4>1, <4>a, <1>12, <1>13
            <4>2. \A v : v \in PassedBy(w, s)' <=> v \in PassedBy(w, s)
                BY <3>5, <4>b, <1>12
            <4>3. PassedBy(w, s)' = PassedBy(w, s)
                BY ONLY <4>2
            <4>4. revokedRows'[w][s] = revokedRows[w][s]
                BY <3>2, <3>7, <1>10
            <4> QED
                BY <4>3, <4>4, <3>4
        <3> QED
            BY <3>6, <3>7
    <2> QED
        BY <2>1, <2>2 DEF RevokedOK
<1> QED
    BY <1>2, <1>9, <1>11, <1>15

\* An entry is stored, if its list is there: one more of those that were found.
LEMMA EntryRow ==
    ASSUME FilesInv, NEW u \in FileUpload, up[u].pc = "entries", up[u].at <= Len(up[u].todo.deviations),
           up' = [up EXCEPT ![u].at = @ + 1],
           entryRows' = IF database = "oracle" \/ dl[up[u].file.name].id = up[u].id
                        THEN entryRows \cup {<<up[u].id, up[u].todo.deviations[up[u].at]>>}
                        ELSE entryRows,
           UNCHANGED <<database, crl, dl, revokedRows>>
    PROVE  FilesInv'
<1> USE DEF FilesInv
<1> DEFINE k == up[u].at
           found == up[u].todo.deviations
<1>0. FALSE \in BOOLEAN /\ ~FALSE
    OBVIOUS
<1>1. /\ Begun(u) /\ u \in Turned /\ k \in Nat /\ k > 0
      /\ up'[u].at = k + 1 /\ up'[u].pc = "entries" /\ up'[u].todo = up[u].todo
      /\ up'[u].slipped = up[u].slipped
      /\ Quiet(u) /\ RequestFits(u)' /\ IdFits(u)'
    <2>1. \A slip \in BOOLEAN : ~slip =>
              /\ Begun(u) /\ u \in Turned /\ k \in Nat /\ k > 0
              /\ up'[u].at = k + 1 /\ up'[u].pc = "entries" /\ up'[u].todo = up[u].todo
              /\ up'[u].slipped = up[u].slipped
              /\ Quiet(u) /\ RequestFits(u)' /\ IdFits(u)'
        BY NextPlace
    <2> QED
        BY <2>1, <1>0
<1>2. /\ up' \in [FileUpload -> FileRequest \cup {NoFile}]
      /\ RequestsOK' /\ TurnsOK' /\ DlRowsOK' /\ DlIsKept' /\ CrlRowsOK' /\ CrlIsKept'
    BY <1>1, QuietStep, RowsStay
<1>3. RequestFits(u) /\ IdFits(u) /\ BringsDl(u) /\ ~BringsCrl(u) /\ up[u].id = u
      /\ found \in Seq(Nat \X Nat) /\ Len(found) \in Nat
    <2>1. RequestFits(u) /\ IdFits(u)
        BY <1>1 DEF RequestsOK
    <2> QED
        BY <2>1, <1>1, RequestFacts DEF RequestFits, IdFits
<1>4. found[k] \in Nat \X Nat
    BY <1>1, <1>3
<1>5. FilesShape'
    <2>1. entryRows' \subseteq FileUpload \X (Nat \X Nat)
        BY <1>3, <1>4 DEF FilesShape
    <2> QED
        BY <1>2, <2>1 DEF FilesShape
<1>6. EntriesOK'
    <2>1. up'[u].at <= Len(up'[u].todo.deviations) + 1
        BY <1>1, <1>3
    <2>2. \A x \in entryRows' : x \in entryRows \/ x[1] \in Turned
        BY <1>1, <1>3
    <2>3. \A v, d : v # u => (<<v, d>> \in entryRows' <=> <<v, d>> \in entryRows)
        BY <1>3
    <2>4. ASSUME ~up'[u].slipped, NEW n \in Name, dl[n] # NoListRow, dl[n].id = u, NEW d \in Nat \X Nat
          PROVE  <<u, d>> \in entryRows' <=> d \in Written(u)'
        <3>1. up[u].file.name = n
            BY <2>4 DEF DlRowsOK
        <3>2. entryRows' = entryRows \cup {<<u, found[k]>>}
            BY <2>4, <3>1, <1>3
        <3>3. <<u, d>> \in entryRows' <=> <<u, d>> \in entryRows \/ d = found[k]
            BY <3>2
        <3>4. <<u, d>> \in entryRows <=> d \in Written(u)
            BY <2>4, <1>1 DEF EntriesOK
        <3>5. Written(u) = {found[j] : j \in 1 .. k - 1} /\ Written(u)' = {found[j] : j \in 1 .. k}
            <4>1. Written(u) = {found[j] : j \in 1 .. k - 1}
                BY DEF Written
            <4>2. Written(u)' = {found[j] : j \in 1 .. (k + 1) - 1}
                BY <1>1 DEF Written
            <4>3. (k + 1) - 1 = k
                BY <1>1
            <4> QED
                BY <4>1, <4>2, <4>3
        <3>6. d \in Written(u)' <=> d \in Written(u) \/ d = found[k]
            <4>1. \A j : j \in 1 .. k <=> j \in 1 .. k - 1 \/ j = k
                BY <1>1
            <4> HIDE DEF k, found
            <4> QED
                BY <3>5, <4>1
        <3> QED
            BY <3>3, <3>4, <3>6
    <2> QED
        BY <1>1, <2>1, <2>2, <2>3, <2>4, EntriesStep
<1>7. RevokedOK'
    <2>1. SamePassed(u)
        BY <1>1 DEF SamePassed, Beyond
    <2> QED
        BY <1>1, <2>1, RevokedStay
<1> QED
    BY <1>2, <1>5, <1>6, <1>7

\* What becomes of the request of an upload that is deleted.
LEMMA DeletedRequest ==
    ASSUME FilesInv, NEW u \in FileUpload, HasFileRow(u), up' = [up EXCEPT ![u].status = "deleted"],
           database' = database
    PROVE  /\ Begun(u) /\ up'[u].status = "deleted"
           /\ up'[u].pc = up[u].pc /\ up'[u].at = up[u].at /\ up'[u].todo = up[u].todo
           /\ up'[u].file = up[u].file /\ up'[u].slipped = up[u].slipped
           /\ Quiet(u) /\ RequestFits(u)' /\ IdFits(u)'
           /\ SameWritten(u) /\ SamePassed(u)
           /\ up'[u].pc = "entries" => up'[u].at <= Len(up'[u].todo.deviations) + 1
<1> USE DEF FilesInv
<1> DEFINE q == up[u]
<1>1. Begun(u) /\ q \in FileRequest /\ RequestFits(u) /\ IdFits(u)
    BY RequestFacts DEF HasFileRow, Begun, RequestsOK
<1>2. up'[u] = [q EXCEPT !.status = "deleted"] /\ up' = [up EXCEPT ![u] = up'[u]]
    BY DEF FilesShape
<1> HIDE DEF q
<1>3. /\ up'[u].status = "deleted" /\ up'[u].pc = q.pc /\ up'[u].at = q.at /\ up'[u].todo = q.todo
      /\ up'[u].file = q.file /\ up'[u].turn = q.turn /\ up'[u].late = q.late /\ up'[u].id = q.id
      /\ up'[u].slipped = q.slipped
    BY <1>1, <1>2 DEF FileRequest
<1>4. up'[u] \in FileRequest
    BY <1>1, <1>2 DEF FileRequest
<1>5. Quiet(u)
    BY <1>1, <1>2, <1>3, <1>4 DEF Quiet, Begun, q
<1>6. RequestFits(u)'
    BY <1>1, <1>3 DEF RequestFits, BringsCrl, BringsDl, HasFileRow, q
<1>7. Turned \subseteq Turned'
    BY <1>3 DEF Turned, FilesShape, q
<1>8. \A v \in Turned : up'[v].todo = up[v].todo /\ up'[v].file = up[v].file
    BY <1>3 DEF Turned, FilesShape, q
<1>9. IdFits(u)'
    <2>1. u \in Turned' <=> u \in Turned
        BY <1>3 DEF Turned, q, FilesShape
    <2> QED
        BY <1>1, <1>3, <1>7, <1>8, <2>1 DEF IdFits, BringsCrl, BringsDl, q
<1>10. SameWritten(u) /\ SamePassed(u)
    BY <1>3 DEF SameWritten, SamePassed, Written, Beyond, q
<1>11. up'[u].pc = "entries" => up'[u].at <= Len(up'[u].todo.deviations) + 1
    BY <1>3 DEF EntriesOK, q
<1> QED
    BY <1>1, <1>3, <1>5, <1>6, <1>9, <1>10, <1>11 DEF q

\* With an upload go, on PostgreSQL, the lists that belong to it and what is below them.
LEMMA DeletedRows ==
    ASSUME FilesInv, NEW u \in FileUpload, DeleteFile(u)
    PROVE  FilesInv'
<1> USE DEF FilesInv
<1>1. /\ Begun(u) /\ up'[u].status = "deleted"
      /\ Quiet(u) /\ RequestFits(u)' /\ IdFits(u)' /\ SameWritten(u) /\ SamePassed(u)
      /\ up'[u].pc = "entries" => up'[u].at <= Len(up'[u].todo.deviations) + 1
      /\ up'[u].pc = up[u].pc /\ up'[u].at = up[u].at /\ up'[u].todo = up[u].todo
      /\ up'[u].slipped = up[u].slipped
    BY DeletedRequest DEF DeleteFile
<1>2. CASE database # "postgres"
    <2>1. UNCHANGED <<crl, dl, revokedRows, entryRows>>
        BY <1>2 DEF DeleteFile
    <2> QED
        BY <1>1, <2>1, PrivateStep
<1>3. CASE database = "postgres"
    <2>1. /\ \A v \in FileUpload : v # u => up'[v] = up[v]
          /\ up' \in [FileUpload -> FileRequest \cup {NoFile}]
          /\ RequestsOK' /\ TurnsOK'
        BY <1>1, QuietStep
    <2>2. Turned' = Turned
        BY <1>1, QuietStep
    <2>3. \A v \in Turned : /\ v \in FileUpload /\ up'[v].file = up[v].file /\ up'[v].id = up[v].id
                            /\ up'[v].todo = up[v].todo /\ up'[v].turn = up[v].turn
                            /\ up'[v].late = up[v].late
        BY <1>1, QuietStep
    <2>4. \A v \in FileUpload : /\ up'[v].pc = up[v].pc /\ up'[v].at = up[v].at /\ up'[v].todo = up[v].todo
                                /\ up'[v].slipped = up[v].slipped
        BY <1>1, <2>1
    <2>5. \A v \in FileUpload : up[v].pc # "none" /\ up[v].status = "deleted" => up'[v].status = "deleted"
        BY <1>1, <2>1
    <2>6. /\ \A n \in Name : crl'[n] = IF crl[n].owner = u THEN NoListRow ELSE crl[n]
          /\ \A n \in Name : dl'[n] = IF dl[n].owner = u THEN NoListRow ELSE dl[n]
          /\ crl' \in [Name -> ListRow \cup {NoListRow}] /\ dl' \in [Name -> ListRow \cup {NoListRow}]
        <3>1. /\ crl' = [n \in Name |-> IF crl[n].owner = u THEN NoListRow ELSE crl[n]]
              /\ dl' = [n \in Name |-> IF dl[n].owner = u THEN NoListRow ELSE dl[n]]
            BY <1>3 DEF DeleteFile
        <3> QED
            BY <3>1 DEF FilesShape
    <2>7. /\ revokedRows' = [v \in FileUpload |->
                 IF \E n \in Name : crl[n].id = v /\ crl'[n] = NoListRow THEN [s \in Serial |-> 0]
                 ELSE revokedRows[v]]
          /\ entryRows' = {e \in entryRows : \E n \in Name : dl'[n].id = e[1]}
          /\ database' = database
        BY <1>3 DEF DeleteFile
    <2>8. revokedRows' \in [FileUpload -> [Serial -> Nat]]
        BY <2>7 DEF FilesShape
    <2>9. FilesShape'
        <3>1. entryRows' \subseteq entryRows
            BY <2>7
        <3> QED
            BY <2>1, <2>6, <2>7, <2>8, <3>1 DEF FilesShape
    <2>10. DlRowsOK'
        BY <2>2, <2>3, <2>6 DEF DlRowsOK, BringsDl
    <2>11. CrlRowsOK'
        BY <2>2, <2>3, <2>6 DEF CrlRowsOK, BringsCrl
    <2>12. DlIsKept'
        <3> SUFFICES ASSUME NEW v \in Turned, ~up[v].late, BringsDl(v)
                     PROVE  dl'[up[v].file.name] = [id |-> v, owner |-> v] \/ up'[v].status = "deleted"
            BY <2>2, <2>3 DEF DlIsKept, BringsDl
        <3>1. dl[up[v].file.name] = [id |-> v, owner |-> v] \/ up[v].status = "deleted"
            BY DEF DlIsKept
        <3>2. up[v].file.name \in Name /\ v \in FileUpload /\ up[v].pc # "none"
            BY RequestFacts DEF Turned, Begun
        <3>3. CASE v = u
            BY <3>3, <1>1
        <3>4. CASE v # u
            BY <3>1, <3>2, <3>4, <2>5, <2>6
        <3> QED
            BY <3>3, <3>4
    <2>13. CrlIsKept'
        <3>a. \A v \in Turned : \A w : LaterThan(v, w)' <=> LaterThan(v, w)
            BY <2>2, <2>3 DEF LaterThan
        <3>b. \A v \in Turned : /\ ~up'[v].late /\ BringsCrl(v)' => ~up[v].late /\ BringsCrl(v)
                               /\ up'[v].file = up[v].file
            BY <2>3 DEF BringsCrl
        <3> SUFFICES ASSUME NEW v \in Turned, ~up[v].late, BringsCrl(v)
                     PROVE  \/ /\ crl'[up[v].file.name] # NoListRow
                               /\ \E w : w = crl'[up[v].file.name].owner /\ LaterThan(v, w)
                            \/ \E w \in FileUpload : LaterThan(v, w) /\ up'[w].status = "deleted"
            BY <2>2, <3>a, <3>b DEF CrlIsKept
        <3>1. \/ crl[up[v].file.name] # NoListRow /\ LaterThan(v, crl[up[v].file.name].owner)
              \/ \E w \in FileUpload : LaterThan(v, w) /\ up[w].status = "deleted"
            BY DEF CrlIsKept
        <3>2. up[v].file.name \in Name
            BY RequestFacts DEF Turned, Begun
        <3>3. CASE crl[up[v].file.name] # NoListRow /\ LaterThan(v, crl[up[v].file.name].owner)
            <4>1. CASE crl[up[v].file.name].owner = u
                BY <3>3, <4>1, <1>1
            <4>2. CASE crl[up[v].file.name].owner # u
                <5>1. crl'[up[v].file.name] = crl[up[v].file.name]
                    BY <4>2, <3>2, <2>6
                <5> QED
                    BY <5>1, <3>3
            <4> QED
                BY <4>1, <4>2
        <3>4. ASSUME NEW w \in FileUpload, LaterThan(v, w), up[w].status = "deleted"
              PROVE  LaterThan(v, w) /\ up'[w].status = "deleted"
            BY <3>4, <2>5 DEF LaterThan, Turned
        <3> QED
            BY <3>1, <3>3, <3>4
    <2>14. EntriesOK'
        <3>1. \A v \in FileUpload : up'[v].pc = "entries" => up'[v].at <= Len(up'[v].todo.deviations) + 1
            BY <2>4 DEF EntriesOK
        <3>2. \A x \in entryRows' : x[1] \in Turned'
            BY <2>2, <2>7 DEF EntriesOK
        <3>3. ASSUME NEW n \in Name, dl'[n] # NoListRow, NEW v, v = dl'[n].id, ~up'[v].slipped,
                     NEW d \in Nat \X Nat
              PROVE  <<v, d>> \in entryRows' <=> d \in Written(v)'
            <4>1. dl[n] # NoListRow /\ v = dl[n].id
                BY <3>3, <2>6
            <4>2. v \in FileUpload
                BY <4>1 DEF DlRowsOK, Turned
            <4>a. /\ up'[v].pc = up[v].pc /\ up'[v].at = up[v].at /\ up'[v].todo = up[v].todo
                  /\ ~up[v].slipped
                BY <3>3, <4>2, <2>4
            <4>b. Written(v)' = Written(v)
                BY <4>a DEF Written
            <4>3. ~up[v].slipped /\ Written(v)' = Written(v)
                BY <4>a, <4>b
            <4>4. <<v, d>> \in entryRows <=> d \in Written(v)
                BY <4>1, <4>3 DEF EntriesOK
            <4>5. <<v, d>> \in entryRows' <=> <<v, d>> \in entryRows
                BY <3>3, <2>7
            <4> QED
                BY <4>3, <4>4, <4>5
        <3> QED
            BY <3>1, <3>2, <3>3 DEF EntriesOK
    <2>15. RevokedOK'
        <3>1. \A w \in FileUpload : w \notin Turned' => \A s \in Serial : revokedRows'[w][s] = 0
            BY <2>2, <2>7 DEF RevokedOK
        <3>2. ASSUME NEW n \in Name, crl'[n] # NoListRow, NEW w, w = crl'[n].id,
                     \A v \in Sharing(w)' : ~up'[v].slipped, NEW s \in 1 .. up'[w].file.revoked
              PROVE  revokedRows'[w][s] = Cardinality(PassedBy(w, s)')
            <4>1. crl'[n] = crl[n] /\ crl[n] # NoListRow /\ w = crl[n].id
                BY <3>2, <2>6
            <4>2. w \in Turned /\ w \in FileUpload /\ up[w].file.name = n
                BY <4>1 DEF CrlRowsOK, Turned
            <4>3. s \in 1 .. up[w].file.revoked
                BY <3>2, <4>2, <2>3
            <4>4. \A v : v \in Sharing(w)' <=> v \in Sharing(w)
                <5>1. \A v : v \in Sharing(w) <=> v \in Turned /\ up[v].id = w
                    BY DEF Sharing, Turned
                <5>2. \A v : v \in Sharing(w)' <=> v \in Turned' /\ up'[v].id = w
                    BY DEF Sharing, Turned
                <5> QED
                    BY <5>1, <5>2, <2>2, <2>3
            <4>5. \A v \in Sharing(w) : v \in FileUpload /\ ~up[v].slipped
                BY <3>2, <4>4, <2>4 DEF Sharing
            <4>6. revokedRows[w][s] = Cardinality(PassedBy(w, s))
                BY <1>3, <4>1, <4>3, <4>5 DEF RevokedOK
            <4>7. \A v \in FileUpload : Beyond(v, s)' <=> Beyond(v, s)
                BY <2>4 DEF Beyond
            <4>8. Sharing(w)' = Sharing(w)
                BY ONLY <4>4
            <4>9. PassedBy(w, s)' = PassedBy(w, s)
                BY <4>5, <4>7, <4>8 DEF PassedBy
            <4>10. ~ \E n2 \in Name : crl[n2].id = w /\ crl'[n2] = NoListRow
                <5> SUFFICES ASSUME NEW n2 \in Name, crl[n2].id = w, crl'[n2] = NoListRow PROVE FALSE
                    OBVIOUS
                <5>1. crl[n2] # NoListRow
                    BY <4>2, NoUploadAssumption DEF NoListRow
                <5>2. n2 = n
                    BY <5>1, <4>2 DEF CrlRowsOK
                <5> QED
                    BY <5>2, <3>2
            <4>11. revokedRows'[w][s] = revokedRows[w][s]
                BY <4>2, <4>10, <2>7
            <4> QED
                BY <4>6, <4>9, <4>11
        <3> QED
            BY <3>1, <3>2 DEF RevokedOK
    <2> QED
        BY <2>1, <2>9, <2>10, <2>11, <2>12, <2>13, <2>14, <2>15
<1> QED
    BY <1>2, <1>3

\* Before its turn a request only has itself to look after.
LEMMA BeforeTurn ==
    ASSUME FilesInv, NEW u \in FileUpload, Begun(u), u \notin Turned,
           NEW r \in FileRequest, up' = [up EXCEPT ![u] = r],
           UNCHANGED <<database, crl, dl, revokedRows, entryRows>>,
           r.file = up[u].file, r.todo = up[u].todo, r.turn = up[u].turn,
           up[u].slipped => r.slipped, up[u].status = "deleted" => r.status = "deleted",
           RequestFits(u)', r.pc # "entries",
           BringsCrl(u) /\ r.pc = "claimCrl" =>
               r.id \in Turned /\ BringsCrl(r.id) /\ up[r.id].file.name = r.file.name
    PROVE  FilesInv'
<1>1. up'[u] = r /\ up' = [up EXCEPT ![u] = up'[u]] /\ up[u].turn \in Nat /\ ~(up[u].turn > 0)
    BY RequestFacts DEF FilesInv, FilesShape, Begun, Turned
<1>2. Quiet(u)
    BY <1>1 DEF Quiet, Begun
<1>3. u \notin Turned' /\ \A v \in Turned : v \in Turned' /\ up'[v] = up[v]
    BY <1>1 DEF Turned, FilesInv, FilesShape
<1>4. IdFits(u)'
    BY <1>1, <1>3 DEF IdFits, BringsCrl, BringsDl
<1>5. SameWritten(u) /\ SamePassed(u)
    BY DEF SameWritten, SamePassed
<1> QED
    BY <1>1, <1>2, <1>4, <1>5, PrivateStep

LEMMA SubmitKeepsFilesInv ==
    ASSUME FilesInv, NEW u \in FileUpload, NEW f \in Files, Submit(u, f)
    PROVE  FilesInv'
<1> DEFINE new == [pc |-> "insert", file |-> f, status |-> "none", todo |-> TodoOf(f), at |-> 1,
                   stored |-> <<>>, id |-> "none", turn |-> 0, late |-> FALSE, slipped |-> FALSE]
<1>1. up[u].pc = "none" /\ up' = [up EXCEPT ![u] = new]
      /\ UNCHANGED <<database, crl, dl, revokedRows, entryRows>>
    BY DEF Submit, TodoOf
<1>2. new \in FileRequest
    BY DEF FileRequest, FilePcs, FileTodos
<1>3. up'[u] = new /\ up' = [up EXCEPT ![u] = up'[u]]
    BY <1>1 DEF FilesInv, FilesShape
<1>4. u \notin Turned /\ u \notin Turned'
    BY <1>1, <1>3 DEF Turned
<1>5. Quiet(u)
    BY <1>1, <1>2, <1>3 DEF Quiet
<1>6. RequestFits(u)' /\ IdFits(u)'
    BY <1>3, <1>4 DEF RequestFits, IdFits, BringsCrl, BringsDl
<1>7. SameWritten(u) /\ SamePassed(u)
    BY <1>4 DEF SameWritten, SamePassed
<1> QED
    BY <1>1, <1>3, <1>5, <1>6, <1>7, PrivateStep

LEMMA InsertUploadKeepsFilesInv ==
    ASSUME FilesInv, NEW u \in FileUpload, InsertUpload(u)
    PROVE  FilesInv'
<1> DEFINE q == up[u]
<1>1. /\ q.pc = "insert" /\ Begun(u) /\ q \in FileRequest /\ RequestFits(u)
      /\ UNCHANGED <<database, crl, dl, revokedRows, entryRows>>
    BY RequestFacts DEF InsertUpload, Begun, FilesInv, RequestsOK
<1>2. /\ q.turn = 0 /\ q.status = "none" /\ u \notin Turned
      /\ q.todo.crls \in {0, 1} /\ q.todo.list \in BOOLEAN /\ q.todo.failed \in BOOLEAN
    BY <1>1, RequestFacts DEF RequestFits, Turned, FilesInv
<1>3. ASSUME NEW pc \in {"done", "findCrl", "certs", "saveDl", "finish"}, NEW status \in {"FAILED", "PROCESSING"},
             up' = [up EXCEPT ![u] = [q EXCEPT !.status = status, !.pc = pc]],
             status = "FAILED" => pc = "done" /\ q.todo.failed,
             status = "PROCESSING" => pc = Work(q.todo) /\ ~q.todo.failed
      PROVE  FilesInv'
    <2> DEFINE r == [q EXCEPT !.status = status, !.pc = pc]
    <2> HIDE DEF q
    <2>1. r \in FileRequest
        BY <1>1 DEF FileRequest, FilePcs
    <2>2. /\ r.pc = pc /\ r.status = status /\ r.file = q.file /\ r.todo = q.todo /\ r.turn = q.turn
          /\ r.slipped = q.slipped /\ r.late = q.late
        BY <1>1 DEF FileRequest
    <2> HIDE DEF r
    <2>3. up'[u] = r
        BY <1>3 DEF FilesInv, FilesShape, r
    <2>4. /\ pc = "findCrl" => q.todo.crls > 0
          /\ pc = "certs" => ~(q.todo.crls > 0)
          /\ pc = "saveDl" => q.todo.list
          /\ pc = "finish" => ~(q.todo.crls > 0) /\ ~q.todo.list
        BY <1>2, <1>3 DEF Work, AfterCerts
    <2>a. (pc = "done" => q.todo.failed) /\ (q.todo.failed => status = "FAILED")
        BY <1>3 DEF Work, AfterCerts
    <2>b. q.todo = TodoOf(q.file) /\ q.turn = 0 /\ ~q.late
        BY <1>1 DEF RequestFits, q
    <2>5. RequestFits(u)'
        BY <2>a, <2>b, <2>2, <2>3, <2>4 DEF RequestFits, BringsCrl, BringsDl
    <2>6. up[u].file = r.file /\ up[u].todo = r.todo /\ up[u].turn = r.turn /\ up[u].slipped = r.slipped
        BY <2>2 DEF q
    <2> QED
        BY <1>1, <1>2, <1>3, <2>1, <2>2, <2>5, <2>6, BeforeTurn DEF q, r
<1>4. ASSUME up' = [up EXCEPT ![u].pc = "done", ![u].slipped = TRUE]
      PROVE  FilesInv'
    <2> DEFINE r == [q EXCEPT !.pc = "done", !.slipped = TRUE]
    <2>0. up' = [up EXCEPT ![u] = r]
        BY <1>4
    <2> HIDE DEF q
    <2>1. r \in FileRequest
        BY <1>1 DEF FileRequest, FilePcs
    <2>2. /\ r.pc = "done" /\ r.status = q.status /\ r.file = q.file /\ r.todo = q.todo /\ r.turn = q.turn
          /\ r.slipped /\ r.late = q.late
        BY <1>1 DEF FileRequest
    <2> HIDE DEF r
    <2>3. up'[u] = r
        BY <2>0 DEF FilesInv, FilesShape
    <2>5. RequestFits(u)'
        BY <1>1, <1>2, <2>2, <2>3 DEF RequestFits, BringsCrl, BringsDl, q
    <2> QED
        BY <1>1, <1>2, <2>0, <2>1, <2>2, <2>5, BeforeTurn DEF q
<1>5. CASE up' = [up EXCEPT ![u].status = IF up[u].todo.failed THEN "FAILED" ELSE "PROCESSING",
                            ![u].pc = IF up[u].todo.failed THEN "done" ELSE Work(up[u].todo)]
    <2>1. Work(q.todo) \in {"findCrl", "certs", "saveDl", "finish"}
        BY DEF Work, AfterCerts
    <2>2. CASE q.todo.failed
        BY <1>3, <1>5, <2>2
    <2>3. CASE ~q.todo.failed
        BY <1>3, <1>5, <2>1, <2>3
    <2> QED
        BY <2>2, <2>3
<1> QED
    BY <1>4, <1>5 DEF InsertUpload

\* Before their turn, and well begun.
LEMMA WaitingFacts ==
    ASSUME FilesInv, NEW u \in FileUpload, up[u].pc \in {"certs", "findCrl", "claimCrl", "insertCrl", "saveDl"}
    PROVE  /\ Begun(u) /\ up[u] \in FileRequest /\ RequestFits(u) /\ IdFits(u)
           /\ up[u].turn = 0 /\ ~up[u].late /\ u \notin Turned
           /\ up[u].todo = TodoOf(up[u].file)
           /\ up[u].todo.failed => up[u].status \in {"none", "FAILED", "deleted"}
           /\ up[u].todo.crls \in {0, 1} /\ up[u].todo.list \in BOOLEAN /\ up[u].at \in Nat
           /\ up[u].file.name \in Name
<1>1. Begun(u)
    BY DEF Begun
<1>2. RequestFits(u) /\ IdFits(u)
    BY <1>1 DEF FilesInv, RequestsOK
<1> QED
    BY <1>1, <1>2, RequestFacts DEF FilesInv, RequestFits, Turned

\* A request whose statement fails, or is refused, has nothing more to do with the list.
LEMMA GivesUp ==
    ASSUME FilesInv, NEW u \in FileUpload, up[u].pc \in {"findCrl", "claimCrl", "insertCrl", "saveDl"},
           \/ up' = [up EXCEPT ![u].pc = "finish", ![u].late = TRUE]
           \/ up' = [up EXCEPT ![u].pc = "finish", ![u].slipped = TRUE],
           UNCHANGED <<database, crl, dl, revokedRows, entryRows>>
    PROVE  FilesInv'
<1> DEFINE q == up[u]
<1>1. /\ Begun(u) /\ q \in FileRequest /\ q.turn = 0 /\ ~q.late /\ u \notin Turned
      /\ q.todo = TodoOf(q.file) /\ (q.todo.failed => q.status \in {"none", "FAILED", "deleted"})
    BY WaitingFacts
<1>2. ASSUME NEW r, up' = [up EXCEPT ![u] = r], r \in FileRequest, r.pc = "finish",
             r.status = q.status, r.file = q.file, r.todo = q.todo, r.turn = q.turn,
             q.slipped => r.slipped, r.late \/ r.slipped
      PROVE  FilesInv'
    <2>1. up'[u] = r
        BY <1>2 DEF FilesInv, FilesShape
    <2>2. RequestFits(u)'
        BY <1>1, <1>2, <2>1 DEF RequestFits, BringsCrl, BringsDl
    <2> QED
        BY <1>1, <1>2, <2>2, BeforeTurn
<1>3. CASE up' = [up EXCEPT ![u].pc = "finish", ![u].late = TRUE]
    <2> DEFINE r == [q EXCEPT !.pc = "finish", !.late = TRUE]
    <2>1. up' = [up EXCEPT ![u] = r]
        BY <1>3
    <2> HIDE DEF q
    <2>2. r \in FileRequest
        BY <1>1 DEF FileRequest, FilePcs
    <2>3. /\ r.pc = "finish" /\ r.status = q.status /\ r.file = q.file /\ r.todo = q.todo
          /\ r.turn = q.turn /\ r.slipped = q.slipped /\ r.late
        BY <1>1 DEF FileRequest
    <2> HIDE DEF r
    <2> QED
        BY <1>2, <2>1, <2>2, <2>3
<1>4. CASE up' = [up EXCEPT ![u].pc = "finish", ![u].slipped = TRUE]
    <2> DEFINE r == [q EXCEPT !.pc = "finish", !.slipped = TRUE]
    <2>1. up' = [up EXCEPT ![u] = r]
        BY <1>4
    <2> HIDE DEF q
    <2>2. r \in FileRequest
        BY <1>1 DEF FileRequest, FilePcs
    <2>3. /\ r.pc = "finish" /\ r.status = q.status /\ r.file = q.file /\ r.todo = q.todo
          /\ r.turn = q.turn /\ r.slipped
        BY <1>1 DEF FileRequest
    <2> HIDE DEF r
    <2> QED
        BY <1>2, <2>1, <2>2, <2>3
<1> QED
    BY <1>3, <1>4

LEMMA ProcessCertificateKeepsFilesInv ==
    ASSUME FilesInv, NEW u \in FileUpload, ProcessCertificate(u)
    PROVE  FilesInv'
<1> DEFINE q == up[u]
           last == q.at = Len(q.todo.certs)
           nextAt == IF last THEN 1 ELSE q.at + 1
           nextPc == IF last THEN AfterCerts(q.todo) ELSE q.pc
           next == [q EXCEPT !.at = nextAt, !.pc = nextPc]
           name == StoredType(q.todo.certs[q.at])
           one == [next EXCEPT !.stored = Append(@, name)]
           other == [next EXCEPT !.slipped = TRUE]
<1>1. q.pc = "certs" /\ UNCHANGED <<database, crl, dl, revokedRows, entryRows>>
      /\ (up' = [up EXCEPT ![u] = one] \/ up' = [up EXCEPT ![u] = other])
    BY DEF ProcessCertificate
<1>2. /\ Begun(u) /\ q \in FileRequest /\ q.turn = 0 /\ ~q.late /\ u \notin Turned
      /\ q.todo = TodoOf(q.file) /\ (q.todo.failed => q.status \in {"none", "FAILED", "deleted"})
      /\ q.at \in Nat /\ RequestFits(u)
    BY <1>1, WaitingFacts
<1>3. ~(q.todo.crls > 0)
    BY <1>1, <1>2 DEF RequestFits, BringsCrl
<1>4. name \in {"CSCA", "MLSC", "DSC"}
    <2>1. \A t : StoredType(t) \in {"CSCA", "MLSC", "DSC"}
        BY DEF StoredType
    <2> HIDE DEF q
    <2> QED
        BY <2>1
<1> HIDE DEF name
<1>5. /\ nextAt \in Nat /\ nextPc \in {"certs", "saveDl", "finish"}
      /\ (nextPc = "saveDl" => q.todo.list) /\ (nextPc = "finish" => ~q.todo.list)
    BY <1>1, <1>2 DEF AfterCerts
<1> HIDE DEF nextAt, nextPc
<1>6. ASSUME NEW r, up' = [up EXCEPT ![u] = r], r \in FileRequest, r.pc = nextPc,
             r.status = q.status, r.file = q.file, r.todo = q.todo, r.turn = q.turn, r.late = q.late,
             q.slipped => r.slipped
      PROVE  FilesInv'
    <2>1. up'[u] = r
        BY <1>6 DEF FilesInv, FilesShape
    <2> HIDE DEF q
    <2>2. RequestFits(u)'
        BY <1>2, <1>3, <1>5, <1>6, <2>1 DEF RequestFits, BringsCrl, BringsDl
    <2>3. r.pc # "entries" /\ r.pc # "claimCrl"
        BY <1>5, <1>6
    <2> QED
        BY <1>1, <1>2, <1>6, <2>2, <2>3, BeforeTurn DEF q
<1>7. CASE up' = [up EXCEPT ![u] = one]
    <2> HIDE DEF q
    <2>1. q.stored \in Seq({"CSCA", "MLSC", "DSC"}) /\ Append(q.stored, name) \in Seq({"CSCA", "MLSC", "DSC"})
        BY <1>2, <1>4 DEF FileRequest
    <2>2. next \in FileRequest /\ next.stored = q.stored
        BY <1>2, <1>5 DEF FileRequest, FilePcs
    <2>3. /\ one.pc = nextPc /\ one.status = q.status /\ one.file = q.file /\ one.todo = q.todo
          /\ one.turn = q.turn /\ one.late = q.late /\ one.slipped = q.slipped
        BY <1>2 DEF FileRequest
    <2>4. one \in FileRequest
        <3> HIDE DEF next
        <3> QED
            BY <2>1, <2>2 DEF FileRequest
    <2> HIDE DEF one
    <2> QED
        BY <1>6, <1>7, <2>3, <2>4
<1>8. CASE up' = [up EXCEPT ![u] = other]
    <2> HIDE DEF q
    <2>1. other \in FileRequest
        BY <1>2, <1>5 DEF FileRequest, FilePcs
    <2>2. /\ other.pc = nextPc /\ other.status = q.status /\ other.file = q.file /\ other.todo = q.todo
          /\ other.turn = q.turn /\ other.late = q.late /\ other.slipped
        BY <1>2 DEF FileRequest
    <2> HIDE DEF other
    <2> QED
        BY <1>6, <1>8, <2>1, <2>2
<1> QED
    BY <1>1, <1>7, <1>8

LEMMA FindCrlKeepsFilesInv ==
    ASSUME FilesInv, NEW u \in FileUpload, FindCrl(u)
    PROVE  FilesInv'
<1> DEFINE q == up[u]
           found == CrlOf(u)
           nextPc == IF found = NoListRow THEN "insertCrl" ELSE "claimCrl"
           r == [q EXCEPT !.id = found.id, !.pc = nextPc]
<1>1. q.pc = "findCrl" /\ UNCHANGED <<database, crl, dl, revokedRows, entryRows>>
      /\ (up' = [up EXCEPT ![u] = r] \/ up' = [up EXCEPT ![u].pc = "finish", ![u].slipped = TRUE])
    BY DEF FindCrl
<1>2. /\ Begun(u) /\ q \in FileRequest /\ q.turn = 0 /\ ~q.late /\ u \notin Turned
      /\ q.todo = TodoOf(q.file) /\ (q.todo.failed => q.status \in {"none", "FAILED", "deleted"})
      /\ RequestFits(u) /\ q.file.name \in Name
    BY <1>1, WaitingFacts
<1>3. BringsCrl(u)
    BY <1>1, <1>2 DEF RequestFits
<1>4. /\ found \in ListRow \cup {NoListRow} /\ found.id \in FileUpload \cup {"none"}
      /\ found # NoListRow => found.id \in Turned /\ BringsCrl(found.id) /\ up[found.id].file.name = q.file.name
    <2>1. found = crl[q.file.name] /\ found \in ListRow \cup {NoListRow}
        BY <1>2 DEF FilesInv, FilesShape, CrlOf
    <2>2. found.id \in FileUpload \cup {"none"}
        BY <2>1 DEF ListRow, NoListRow
    <2> HIDE DEF q, found
    <2>3. found # NoListRow => found.id \in Turned /\ BringsCrl(found.id) /\ up[found.id].file.name = q.file.name
        BY <1>2, <2>1 DEF FilesInv, CrlRowsOK
    <2> QED
        BY <2>1, <2>2, <2>3
<1> HIDE DEF found
<1>5. nextPc \in {"insertCrl", "claimCrl"} /\ (nextPc = "claimCrl" => found # NoListRow)
    OBVIOUS
<1> HIDE DEF nextPc
<1>6. CASE up' = [up EXCEPT ![u] = r]
    <2> HIDE DEF q
    <2>1. r \in FileRequest
        BY <1>2, <1>4, <1>5 DEF FileRequest, FilePcs
    <2>2. /\ r.pc = nextPc /\ r.status = q.status /\ r.file = q.file /\ r.todo = q.todo
          /\ r.turn = q.turn /\ r.late = q.late /\ r.slipped = q.slipped /\ r.id = found.id
        BY <1>2 DEF FileRequest
    <2> HIDE DEF r
    <2>3. up'[u] = r
        BY <1>6 DEF FilesInv, FilesShape
    <2>4. RequestFits(u)'
        BY <1>2, <1>3, <1>5, <2>2, <2>3 DEF RequestFits, BringsCrl, BringsDl, q
    <2>5. r.pc # "entries"
        BY <1>5, <2>2
    <2>6. r.pc = "claimCrl" => r.id \in Turned /\ BringsCrl(r.id) /\ up[r.id].file.name = r.file.name
        BY <1>4, <1>5, <2>2
    <2> QED
        BY <1>1, <1>2, <1>6, <2>1, <2>2, <2>4, <2>5, <2>6, BeforeTurn DEF q
<1>7. CASE up' = [up EXCEPT ![u].pc = "finish", ![u].slipped = TRUE]
    BY <1>1, <1>7, GivesUp
<1> QED
    BY <1>1, <1>6, <1>7

LEMMA ClaimCrlKeepsFilesInv ==
    ASSUME FilesInv, NEW u \in FileUpload, ClaimCrl(u)
    PROVE  FilesInv'
<1> DEFINE i == up[u].id
           m == up[u].file.name
<1>1. up[u].pc = "claimCrl" /\ UNCHANGED <<database, dl, revokedRows, entryRows>>
    BY DEF ClaimCrl
<1>2. Begun(u) /\ u \notin Turned /\ RequestFits(u) /\ IdFits(u) /\ m \in Name
    BY <1>1, WaitingFacts
<1>3. BringsCrl(u)
    BY <1>1, <1>2 DEF RequestFits
<1>4. i \in Turned /\ i \in FileUpload /\ BringsCrl(i) /\ up[i].file.name = m
    BY <1>1, <1>2, <1>3 DEF IdFits, Turned
<1>5. ASSUME NEW late \in BOOLEAN, up' = [up EXCEPT ![u] = Owning(u, "revoke", i, late)]
      PROVE  TakesTurn(u, "revoke", i, late)
    BY <1>1, <1>2, <1>4, <1>5 DEF TakesTurn, FilePcs
<1>6. CASE CrlOf(u).id = i /\ crl' = Claim(crl, u)
           /\ up' = [up EXCEPT ![u] = Owning(u, "revoke", i, CrlOf(u).id # i)]
    <2>1. crl[m] # NoListRow /\ crl[m].id = i /\ crl[m] \in ListRow
        BY <1>2, <1>4, <1>6, NoUploadAssumption DEF CrlOf, NoListRow, FilesInv, FilesShape
    <2>2. crl' = [crl EXCEPT ![m] = [id |-> i, owner |-> u]]
        <3>1. crl' = [crl EXCEPT ![m] = [crl[m] EXCEPT !.owner = u]]
            BY <1>6 DEF Claim
        <3>2. [crl[m] EXCEPT !.owner = u] = [id |-> i, owner |-> u]
            BY <2>1 DEF ListRow
        <3> QED
            BY <3>1, <3>2
    <2>3. PICK late \in BOOLEAN : late = (CrlOf(u).id # i) /\ ~late
        BY <1>6
    <2>4. TakesTurn(u, "revoke", i, late)
        BY <1>5, <1>6, <2>3
    <2>5. late = FALSE
        BY <2>3
    <2> QED
        BY <1>1, <1>3, <2>1, <2>2, <2>4, <2>5, CrlTurn
<1>7. CASE CrlOf(u).id # i /\ crl' = Claim(crl, u)
           /\ up' = [up EXCEPT ![u] = Owning(u, "revoke", i, CrlOf(u).id # i)]
    <2>1. crl' = crl
        BY <1>7 DEF Claim
    <2>2. (CrlOf(u).id # i) = TRUE /\ TRUE \in BOOLEAN
        BY <1>7
    <2>3. TakesTurn(u, "revoke", i, TRUE)
        BY <1>5, <1>7, <2>2
    <2>4. \A n \in Name : crl[n] # NoListRow => crl[n].id # i
        BY <1>4, <1>7 DEF FilesInv, CrlRowsOK, CrlOf
    <2> QED
        BY <1>1, <1>3, <1>4, <2>1, <2>3, <2>4, LateTurn
<1>8. CASE crl' = crl /\ (up' = [up EXCEPT ![u].pc = "finish", ![u].late = TRUE]
                          \/ up' = [up EXCEPT ![u].pc = "finish", ![u].slipped = TRUE])
    BY <1>1, <1>8, GivesUp
<1> QED
    BY <1>6, <1>7, <1>8 DEF ClaimCrl

LEMMA InsertCrlKeepsFilesInv ==
    ASSUME FilesInv, NEW u \in FileUpload, InsertCrl(u)
    PROVE  FilesInv'
<1> DEFINE m == up[u].file.name
<1>1. up[u].pc = "insertCrl" /\ InsertList(crl, u, "revoke") /\ UNCHANGED <<database, dl, revokedRows, entryRows>>
    BY DEF InsertCrl
<1>2. Begun(u) /\ u \notin Turned /\ RequestFits(u) /\ m \in Name
    BY <1>1, WaitingFacts
<1>3. BringsCrl(u)
    BY <1>1, <1>2 DEF RequestFits
<1>4. ASSUME NEW late \in BOOLEAN, up' = [up EXCEPT ![u] = Owning(u, "revoke", u, late)]
      PROVE  TakesTurn(u, "revoke", u, late)
    BY <1>1, <1>2, <1>4 DEF TakesTurn, FilePcs
<1>5. CASE crl[m] = NoListRow /\ crl' = [crl EXCEPT ![m] = [id |-> u, owner |-> u]]
           /\ up' = [up EXCEPT ![u] = Owning(u, "revoke", u, FALSE)]
    <2>1. PICK late \in BOOLEAN : late = FALSE
        OBVIOUS
    <2>2. TakesTurn(u, "revoke", u, late)
        BY <1>4, <1>5, <2>1
    <2> QED
        BY <1>1, <1>3, <1>5, <2>1, <2>2, CrlTurn
<1>6. CASE crl' = crl /\ up' = [up EXCEPT ![u] = Owning(u, "revoke", u, TRUE)]
    <2>1. TakesTurn(u, "revoke", u, TRUE)
        BY <1>4, <1>6
    <2>2. \A n \in Name : crl[n] # NoListRow => crl[n].id # u
        BY <1>2 DEF FilesInv, CrlRowsOK
    <2> QED
        BY <1>1, <1>3, <1>6, <2>1, <2>2, LateTurn
<1>7. CASE crl' = crl /\ (up' = [up EXCEPT ![u].pc = "finish", ![u].late = TRUE]
                          \/ up' = [up EXCEPT ![u].pc = "finish", ![u].slipped = TRUE])
    BY <1>1, <1>7, GivesUp
<1> QED
    BY <1>1, <1>5, <1>6, <1>7 DEF InsertList, MayBeInserted

LEMMA SaveDlKeepsFilesInv ==
    ASSUME FilesInv, NEW u \in FileUpload, SaveDl(u)
    PROVE  FilesInv'
<1> DEFINE m == up[u].file.name
<1>1. up[u].pc = "saveDl" /\ InsertList(dl, u, "entries") /\ UNCHANGED <<database, crl, revokedRows, entryRows>>
    BY DEF SaveDl
<1>2. Begun(u) /\ u \notin Turned /\ RequestFits(u) /\ m \in Name
    BY <1>1, WaitingFacts
<1>3. BringsDl(u)
    BY <1>1, <1>2 DEF RequestFits
<1>4. ASSUME NEW late \in BOOLEAN, up' = [up EXCEPT ![u] = Owning(u, "entries", u, late)]
      PROVE  TakesTurn(u, "entries", u, late)
    BY <1>1, <1>2, <1>4 DEF TakesTurn, FilePcs
<1>5. CASE dl[m] = NoListRow /\ dl' = [dl EXCEPT ![m] = [id |-> u, owner |-> u]]
           /\ up' = [up EXCEPT ![u] = Owning(u, "entries", u, FALSE)]
    <2>1. PICK late \in BOOLEAN : late = FALSE
        OBVIOUS
    <2>2. TakesTurn(u, "entries", u, late)
        BY <1>4, <1>5, <2>1
    <2> QED
        BY <1>1, <1>3, <1>5, <2>1, <2>2, NewDl
<1>6. CASE dl' = dl /\ up' = [up EXCEPT ![u] = Owning(u, "entries", u, TRUE)]
    <2>1. TakesTurn(u, "entries", u, TRUE)
        BY <1>4, <1>6
    <2>2. \A n \in Name : crl[n] # NoListRow => crl[n].id # u
        BY <1>2 DEF FilesInv, CrlRowsOK
    <2> QED
        BY <1>1, <1>3, <1>6, <2>1, <2>2, LateTurn
<1>7. CASE dl' = dl /\ (up' = [up EXCEPT ![u].pc = "finish", ![u].late = TRUE]
                         \/ up' = [up EXCEPT ![u].pc = "finish", ![u].slipped = TRUE])
    BY <1>1, <1>7, GivesUp
<1> QED
    BY <1>1, <1>5, <1>6, <1>7 DEF InsertList, MayBeInserted

\* A statement of the loop over the list that fails.
LEMMA PlaceSlipped ==
    ASSUME FilesInv, NEW u \in FileUpload, up[u].pc \in {"revoke", "entries"},
           up[u].pc = "entries" => up[u].at <= Len(up[u].todo.deviations),
           up' = [up EXCEPT ![u].at = @ + 1, ![u].slipped = TRUE],
           UNCHANGED <<database, crl, dl, revokedRows, entryRows>>
    PROVE  FilesInv'
<1>0. TRUE \in BOOLEAN
    OBVIOUS
<1>1. /\ Begun(u) /\ up'[u].at = up[u].at + 1 /\ up[u].at \in Nat
      /\ up'[u].pc = up[u].pc /\ up'[u].todo = up[u].todo
      /\ Quiet(u) /\ RequestFits(u)' /\ IdFits(u)'
    BY <1>0, NextPlace
<1>2. up'[u].slipped
    BY <1>0, NextPlace
<1>3. SameWritten(u) /\ SamePassed(u)
    BY <1>2 DEF SameWritten, SamePassed
<1>4. RequestFits(u)
    BY <1>1 DEF FilesInv, RequestsOK
<1>5. Len(up[u].todo.deviations) \in Nat
    BY <1>1, <1>4, RequestFacts DEF FilesInv
<1>6. up'[u].pc = "entries" => up'[u].at <= Len(up'[u].todo.deviations) + 1
    BY <1>1, <1>5
<1> QED
    BY <1>1, <1>3, <1>6, PrivateStep

\* At the end of its list, and when it has ended, a request has nothing more to write.
LEMMA GoesOn ==
    ASSUME FilesInv, NEW u \in FileUpload, up[u].pc \in {"revoke", "entries", "finish"},
           up[u].pc = "revoke" => ~(up[u].at <= up[u].file.revoked /\ database = "postgres"),
           up[u].pc = "entries" => ~(up[u].at <= Len(up[u].todo.deviations)),
           NEW status, NEW pc, pc = IF up[u].pc = "finish" THEN "done" ELSE "finish",
           status = up[u].status \/ (up[u].status = "PROCESSING" /\ status = "COMPLETED"),
           up' = [up EXCEPT ![u] = [up[u] EXCEPT !.pc = pc, !.status = status]],
           UNCHANGED <<database, crl, dl, revokedRows, entryRows>>
    PROVE  FilesInv'
<1> DEFINE q == up[u]
           r == [q EXCEPT !.pc = pc, !.status = status]
<1>1. Begun(u) /\ q \in FileRequest /\ q.at \in Nat /\ q.turn \in Nat /\ q.file.revoked \in Nat
    BY RequestFacts DEF FilesInv, Begun
<1>2. RequestFits(u) /\ IdFits(u)
    BY <1>1 DEF FilesInv, RequestsOK
<1>3. pc \in {"finish", "done"} /\ (pc = "done" <=> q.pc = "finish")
    OBVIOUS
<1>4. status \in {"none", "PROCESSING", "COMPLETED", "FAILED", "deleted"}
    BY <1>1 DEF FileRequest
<1>5. r \in FileRequest
    <2> HIDE DEF q
    <2> QED
        BY <1>1, <1>3, <1>4 DEF FileRequest, FilePcs
<1>6. /\ r.pc = pc /\ r.status = status /\ r.file = q.file /\ r.todo = q.todo /\ r.turn = q.turn
      /\ r.late = q.late /\ r.slipped = q.slipped /\ r.id = q.id /\ r.at = q.at
    <2> HIDE DEF q
    <2> QED
        BY <1>1 DEF FileRequest
<1>7. up'[u] = r /\ up' = [up EXCEPT ![u] = up'[u]]
    BY DEF FilesInv, FilesShape
<1> HIDE DEF r
<1>8. status = "deleted" <=> q.status = "deleted"
    OBVIOUS
<1>9. Quiet(u)
    BY <1>1, <1>5, <1>6, <1>7, <1>8 DEF Quiet, Begun
<1>10. RequestFits(u)'
    <2>1. q.pc \in {"revoke", "entries"} => q.turn > 0
        BY <1>2 DEF RequestFits
    <2>2. q.todo.failed => status \in {"none", "FAILED", "deleted"}
        BY <1>2 DEF RequestFits
    <2>3. (~q.slipped /\ ~q.late /\ ~q.todo.failed /\ (q.todo.crls > 0 \/ q.todo.list)) => q.turn > 0
        BY <1>2, <2>1 DEF RequestFits, BringsCrl, BringsDl
    <2>4. q.todo = TodoOf(q.file)
        BY <1>2 DEF RequestFits
    <2> QED
        BY <1>3, <1>6, <1>7, <2>2, <2>3, <2>4 DEF RequestFits, BringsCrl, BringsDl
<1>11. IdFits(u)'
    <2>1. \A v \in FileUpload : v # u => up'[v] = up[v]
        BY <1>7 DEF FilesInv, FilesShape
    <2>2. u \in Turned' <=> u \in Turned
        BY <1>1, <1>3, <1>6, <1>7 DEF Turned, Begun
    <2>3. \A v \in Turned : v \in Turned' /\ up'[v].todo = up[v].todo /\ up'[v].file = up[v].file
        BY <1>6, <1>7, <2>1, <2>2 DEF Turned
    <2>4. up'[u].pc # "claimCrl"
        BY <1>3, <1>6, <1>7
    <2> QED
        BY <1>2, <1>6, <1>7, <2>2, <2>3, <2>4 DEF IdFits, BringsCrl, BringsDl
<1>12. SamePassed(u)
    BY <1>1, <1>3, <1>6, <1>7 DEF SamePassed, Beyond
<1>13. SameWritten(u)
    <2>1. Len(q.todo.deviations) \in Nat
        BY <1>1, <1>2, RequestFacts DEF FilesInv
    <2>2. q.pc = "entries" => q.at - 1 = Len(q.todo.deviations)
        BY <1>1, <2>1 DEF FilesInv, EntriesOK
    <2> QED
        BY <1>3, <1>6, <1>7, <2>2 DEF SameWritten, Written
<1>14. up'[u].pc # "entries"
    BY <1>3, <1>6, <1>7
<1> QED
    BY <1>9, <1>10, <1>11, <1>12, <1>13, <1>14, PrivateStep

LEMMA RevokeKeepsFilesInv ==
    ASSUME FilesInv, NEW u \in FileUpload, Revoke(u)
    PROVE  FilesInv'
<1>1. up[u].pc = "revoke" /\ UNCHANGED <<database, crl, dl, entryRows>>
    BY DEF Revoke
<1>2. CASE up[u].at <= up[u].file.revoked /\ database = "postgres"
    <2>1. \/ /\ up' = [up EXCEPT ![u].at = @ + 1]
             /\ revokedRows' = IF CrlOf(u).id = up[u].id
                              THEN [revokedRows EXCEPT ![up[u].id][up[u].at] = @ + 1]
                              ELSE revokedRows
          \/ /\ up' = [up EXCEPT ![u].at = @ + 1, ![u].slipped = TRUE]
             /\ revokedRows' = revokedRows
        BY <1>2 DEF Revoke
    <2> QED
        BY <1>1, <1>2, <2>1, RevokedRow, PlaceSlipped
<1>3. CASE ~(up[u].at <= up[u].file.revoked /\ database = "postgres")
    <2>1. up' = [up EXCEPT ![u].pc = "finish"] /\ revokedRows' = revokedRows
        BY <1>3 DEF Revoke, Goto_
    <2>2. up' = [up EXCEPT ![u] = [up[u] EXCEPT !.pc = "finish", !.status = up[u].status]]
        <3>1. Begun(u) /\ up[u] \in FileRequest
            BY <1>1, RequestFacts DEF FilesInv, Begun
        <3>2. [up[u] EXCEPT !.pc = "finish"] = [up[u] EXCEPT !.pc = "finish", !.status = up[u].status]
            BY <3>1 DEF FileRequest
        <3> QED
            BY <2>1, <3>2
    <2> QED
        BY <1>1, <1>3, <2>1, <2>2, GoesOn
<1> QED
    BY <1>2, <1>3

LEMMA SaveEntryKeepsFilesInv ==
    ASSUME FilesInv, NEW u \in FileUpload, SaveEntry(u)
    PROVE  FilesInv'
<1>1. up[u].pc = "entries" /\ UNCHANGED <<database, crl, revokedRows, dl>>
    BY DEF SaveEntry
<1>2. CASE up[u].at <= Len(up[u].todo.deviations)
    <2>1. \/ /\ up' = [up EXCEPT ![u].at = @ + 1]
             /\ entryRows' = IF database = "oracle" \/ dl[up[u].file.name].id = up[u].id
                            THEN entryRows \cup {<<up[u].id, up[u].todo.deviations[up[u].at]>>}
                            ELSE entryRows
          \/ /\ up' = [up EXCEPT ![u].at = @ + 1, ![u].slipped = TRUE]
             /\ entryRows' = entryRows
        BY <1>2 DEF SaveEntry, EntryLeft
    <2> QED
        BY <1>1, <1>2, <2>1, EntryRow, PlaceSlipped
<1>3. CASE ~(up[u].at <= Len(up[u].todo.deviations))
    <2>1. up' = [up EXCEPT ![u].pc = "finish"] /\ entryRows' = entryRows
        BY <1>3 DEF SaveEntry, EntryLeft, Goto_
    <2>2. up' = [up EXCEPT ![u] = [up[u] EXCEPT !.pc = "finish", !.status = up[u].status]]
        <3>1. Begun(u) /\ up[u] \in FileRequest
            BY <1>1, RequestFacts DEF FilesInv, Begun
        <3>2. [up[u] EXCEPT !.pc = "finish"] = [up[u] EXCEPT !.pc = "finish", !.status = up[u].status]
            BY <3>1 DEF FileRequest
        <3> QED
            BY <2>1, <3>2
    <2> QED
        BY <1>1, <1>3, <2>1, <2>2, GoesOn
<1> QED
    BY <1>2, <1>3

LEMMA FinishKeepsFilesInv ==
    ASSUME FilesInv, NEW u \in FileUpload, Finish(u)
    PROVE  FilesInv'
<1>1. up[u].pc = "finish" /\ UNCHANGED <<database, crl, revokedRows, dl, entryRows>>
    BY DEF Finish
<1>2. Begun(u) /\ up[u] \in FileRequest
    BY <1>1, RequestFacts DEF FilesInv, Begun
<1>3. CASE up' = [up EXCEPT ![u].pc = "done",
                            ![u].status = IF @ = "PROCESSING" THEN "COMPLETED" ELSE @]
    <2> DEFINE status == IF up[u].status = "PROCESSING" THEN "COMPLETED" ELSE up[u].status
    <2>1. up' = [up EXCEPT ![u] = [up[u] EXCEPT !.pc = "done", !.status = status]]
        <3>1. [[up[u] EXCEPT !.pc = "done"] EXCEPT !.status = IF @ = "PROCESSING" THEN "COMPLETED" ELSE @]
              = [up[u] EXCEPT !.pc = "done", !.status = status]
            BY <1>2 DEF FileRequest
        <3> QED
            BY <1>3, <3>1
    <2> QED
        BY <1>1, <2>1, GoesOn
<1>4. CASE up' = [up EXCEPT ![u].pc = "done"]
    <2>1. [up[u] EXCEPT !.pc = "done"] = [up[u] EXCEPT !.pc = "done", !.status = up[u].status]
        BY <1>2 DEF FileRequest
    <2>2. up' = [up EXCEPT ![u] = [up[u] EXCEPT !.pc = "done", !.status = up[u].status]]
        BY <1>4, <2>1
    <2> QED
        BY <1>1, <2>2, GoesOn
<1> QED
    BY <1>3, <1>4 DEF Finish, Goto_

LEMMA FilesInvStarts == FilesInit => FilesInv
<1> SUFFICES ASSUME FilesInit PROVE FilesInv
    OBVIOUS
<1>1. \A u \in FileUpload : up[u] = NoFile /\ up[u].pc = "none"
    BY DEF FilesInit, NoFile
<1>2. Turned = {} /\ \A u \in FileUpload : ~Begun(u)
    BY <1>1 DEF Turned, Begun
<1>3. \A n \in Name : crl[n] = NoListRow /\ dl[n] = NoListRow
    BY DEF FilesInit
<1>4. FilesShape
    BY DatabasesAssumption DEF FilesInit, FilesShape
<1>5. RequestsOK
    BY <1>2 DEF RequestsOK
<1>6. TurnsOK
    BY <1>2, FS_EmptySet DEF TurnsOK
<1>7. DlRowsOK /\ CrlRowsOK /\ DlIsKept /\ CrlIsKept
    BY <1>2, <1>3 DEF DlRowsOK, CrlRowsOK, DlIsKept, CrlIsKept
<1>8. EntriesOK
    BY <1>1, <1>3 DEF EntriesOK, FilesInit
<1>9. RevokedOK
    BY <1>3 DEF RevokedOK, FilesInit
<1> QED
    BY <1>4, <1>5, <1>6, <1>7, <1>8, <1>9 DEF FilesInv

LEMMA FilesInvStays == FilesInv /\ [FilesNext]_fileVars => FilesInv'
<1> SUFFICES ASSUME FilesInv, [FilesNext]_fileVars PROVE FilesInv'
    OBVIOUS
<1>1. CASE UNCHANGED fileVars
    <2>1. /\ up' = up /\ crl' = crl /\ dl' = dl /\ revokedRows' = revokedRows /\ entryRows' = entryRows
          /\ database' = database
        BY <1>1 DEF fileVars
    <2>a. FilesShape' /\ TurnsOK'
        BY <2>1 DEF FilesInv, FilesShape, TurnsOK, Turned
    <2>b. ASSUME NEW u \in FileUpload, Begun(u)' PROVE RequestFits(u)' /\ IdFits(u)'
        <3>1. RequestFits(u) /\ IdFits(u)
            BY <2>1, <2>b DEF FilesInv, RequestsOK, Begun
        <3>2. RequestFits(u)'
            BY <2>1, <3>1 DEF RequestFits, BringsCrl, BringsDl
        <3>3. IdFits(u)'
            BY <2>1, <3>1 DEF IdFits, Turned, BringsCrl, BringsDl
        <3> QED
            BY <3>2, <3>3
    <2>2. FilesShape' /\ TurnsOK' /\ RequestsOK'
        BY <2>a, <2>b DEF RequestsOK
    <2>c. Turned' = Turned
        BY <2>1 DEF Turned
    <2>d. DlRowsOK' /\ DlIsKept'
        BY <2>1, <2>c DEF FilesInv, DlRowsOK, DlIsKept, BringsDl
    <2>e. CrlRowsOK'
        BY <2>1, <2>c DEF FilesInv, CrlRowsOK, BringsCrl
    <2>f. CrlIsKept'
        BY <2>1, <2>c DEF FilesInv, CrlIsKept, BringsCrl, LaterThan
    <2>3. DlRowsOK' /\ CrlRowsOK' /\ DlIsKept' /\ CrlIsKept'
        BY <2>d, <2>e, <2>f
    <2>4. EntriesOK'
        BY <2>1 DEF FilesInv, EntriesOK, Turned, Written
    <2>5. RevokedOK'
        BY <2>1 DEF FilesInv, RevokedOK, Turned, Sharing, PassedBy, Beyond
    <2> QED
        BY <2>2, <2>3, <2>4, <2>5 DEF FilesInv
<1>2. ASSUME NEW u \in FileUpload,
             \/ \E f \in Files : Submit(u, f)
             \/ InsertUpload(u) \/ ProcessCertificate(u)
             \/ FindCrl(u) \/ ClaimCrl(u) \/ InsertCrl(u) \/ Revoke(u)
             \/ SaveDl(u) \/ SaveEntry(u)
             \/ Finish(u) \/ DeleteFile(u)
      PROVE  FilesInv'
    BY <1>2, SubmitKeepsFilesInv, InsertUploadKeepsFilesInv, ProcessCertificateKeepsFilesInv,
       FindCrlKeepsFilesInv, ClaimCrlKeepsFilesInv, InsertCrlKeepsFilesInv, RevokeKeepsFilesInv,
       SaveDlKeepsFilesInv, SaveEntryKeepsFilesInv, FinishKeepsFilesInv, DeletedRows
<1> QED
    BY <1>1, <1>2 DEF FilesNext

LEMMA FilesInvKeepsContent == FilesInv => ContentIsKept
<1> SUFFICES ASSUME FilesInv PROVE ListsAreWhole /\ DoneHasContent
    BY DEF ContentIsKept
<1> USE DEF FilesInv
<1>1. ASSUME NEW n \in Name, dl[n] # NoListRow, NEW u, u = dl[n].id, IsOver(u), ~up[u].slipped
      PROVE  {e[2] : e \in {x \in entryRows : x[1] = u}} = ToSet(up[u].todo.deviations)
    <2>1. u \in Turned /\ u \in FileUpload
        BY <1>1 DEF DlRowsOK, Turned
    <2>2. Begun(u) /\ RequestFits(u)
        BY <2>1 DEF Turned, Begun, RequestsOK
    <2>3. up[u].todo.deviations \in Seq(Nat \X Nat)
        BY <2>1, <2>2, RequestFacts
    <2> DEFINE found == up[u].todo.deviations
    <2>4. Written(u) = {found[k] : k \in 1 .. Len(found)}
        BY <1>1 DEF Written, IsOver
    <2>5. \A d \in Nat \X Nat : <<u, d>> \in entryRows <=> d \in Written(u)
        BY <1>1 DEF EntriesOK
    <2>6. entryRows \subseteq FileUpload \X (Nat \X Nat)
        BY DEF FilesShape
    <2>7. ToSet(found) = {found[k] : k \in 1 .. Len(found)} /\ ToSet(found) \subseteq Nat \X Nat
        <3>1. /\ DOMAIN found = 1 .. Len(found) /\ \A k \in 1 .. Len(found) : found[k] \in Nat \X Nat
            BY <2>3
        <3> HIDE DEF found
        <3>2. ToSet(found) = {found[k] : k \in 1 .. Len(found)}
            BY <3>1 DEF ToSet
        <3> QED
            BY <3>1, <3>2
    <2>8. Written(u) = ToSet(found) /\ Written(u) \subseteq Nat \X Nat
        BY <2>4, <2>7
    <2> HIDE DEF found
    <2>9. \A d : d \in {e[2] : e \in {x \in entryRows : x[1] = u}} <=> d \in Written(u)
        <3>1. ASSUME NEW x \in entryRows, x[1] = u PROVE x[2] \in Written(u)
            <4>1. x = <<u, x[2]>> /\ x[2] \in Nat \X Nat
                BY <2>6, <3>1
            <4> QED
                BY <4>1, <2>5
        <3>2. ASSUME NEW d \in Written(u) PROVE \E x \in entryRows : x[1] = u /\ x[2] = d
            <4>1. <<u, d>> \in entryRows
                BY <2>5, <2>8
            <4> QED
                BY <4>1
        <3> QED
            BY <3>1, <3>2
    <2> QED
        BY <2>8, <2>9 DEF found
<1>2. ASSUME database = "postgres", NEW n \in Name, crl[n] # NoListRow, NEW w, w = crl[n].id,
             \A u \in Sharing(w) : IsOver(u) /\ ~up[u].slipped, NEW s \in 1 .. up[w].file.revoked
      PROVE  revokedRows[w][s] = Cardinality(Sharing(w))
    <2>1. revokedRows[w][s] = Cardinality(PassedBy(w, s))
        BY <1>2 DEF RevokedOK
    <2>2. PassedBy(w, s) = Sharing(w)
        BY <1>2 DEF PassedBy, Beyond, IsOver
    <2> QED
        BY <2>1, <2>2
<1>3. ListsAreWhole
    BY <1>1, <1>2 DEF ListsAreWhole, Sharing
<1>4. ASSUME NEW u \in FileUpload, IsOver(u), up[u].status = "COMPLETED", ~up[u].slipped, ~up[u].late
      PROVE  LET n == up[u].file.name
             IN  /\ up[u].todo.list => dl[n] # NoListRow
                 /\ up[u].todo.crls > 0 =>
                     \/ crl[n] # NoListRow
                     \/ \E v \in FileUpload : /\ up[v].pc # "none" /\ up[v].status = "deleted"
                                             /\ up[v].file.name = n /\ up[v].turn > up[u].turn
    <2>1. Begun(u) /\ RequestFits(u)
        BY <1>4 DEF IsOver, Begun, RequestsOK
    <2>2. BringsCrl(u) \/ BringsDl(u) => u \in Turned
        BY <1>4, <2>1 DEF RequestFits, IsOver, Turned
    <2>3. ASSUME BringsDl(u) PROVE dl[up[u].file.name] # NoListRow
        <3>1. dl[up[u].file.name] = [id |-> u, owner |-> u]
            BY <1>4, <2>2, <2>3 DEF DlIsKept
        <3> QED
            BY <3>1, NoUploadAssumption DEF NoListRow
    <2>4. ASSUME BringsCrl(u), crl[up[u].file.name] = NoListRow
          PROVE  \E v \in FileUpload : /\ up[v].pc # "none" /\ up[v].status = "deleted"
                                       /\ up[v].file.name = up[u].file.name /\ up[v].turn > up[u].turn
        <3>1. PICK v \in FileUpload : LaterThan(u, v) /\ up[v].status = "deleted"
            BY <1>4, <2>2, <2>4 DEF CrlIsKept
        <3>2. v \in Turned /\ u \in Turned /\ v # u /\ up[v].turn >= up[u].turn
            BY <1>4, <2>2, <2>4, <3>1 DEF LaterThan
        <3>3. up[v].turn \in Nat /\ up[u].turn \in Nat /\ up[v].pc # "none"
            BY <3>2, RequestFacts DEF Turned, Begun
        <3>4. up[v].turn # up[u].turn
            BY <3>2 DEF TurnsOK
        <3> QED
            BY <3>1, <3>2, <3>3, <3>4 DEF LaterThan
    <2> QED
        BY <2>3, <2>4 DEF BringsCrl, BringsDl
<1>5. DoneHasContent
    BY <1>4 DEF DoneHasContent
<1> QED
    BY <1>3, <1>5

\* CrlRepository::save, saveRevokedCertificate and the rows of deviation lists: the list
\* of a completed upload is there, unless a later upload of it was deleted, and when its
\* uploads are over and no statement of theirs failed, all of its entries are behind it,
\* however uploadCertificate and handleDelete alternate for files of one name.
THEOREM ContentStays == FilesSpec => []ContentIsKept
<1>1. FilesSpec => []FilesInv
    BY FilesInvStarts, FilesInvStays, PTL DEF FilesSpec
<1> QED
    BY <1>1, FilesInvKeepsContent, PTL
-----------------------------------------------------------------------------
(* CertificateFiles: what the preview showed is what is stored. The thread *)
(* stores one certificate after the other as the preview showed it.        *)

StoredUpTo(certs, n) == [i \in 1..n |-> StoredType(certs[i])]
AsShown(r) ==
    r.pc # "none" /\ ~r.slipped =>
        /\ r.status = "FAILED" => r.todo.failed
        /\ r.pc = "insert" => r.stored = <<>> /\ r.at = 1
        /\ r.pc = "certs" => /\ r.at \in 1..Len(r.todo.certs)
                             /\ r.stored = StoredUpTo(r.todo.certs, r.at - 1)
        /\ r.pc \notin {"insert", "certs"} => r.stored = StoredUpTo(r.todo.certs, Len(r.todo.certs))
PreviewInv == \A u \in FileUpload : AsShown(up[u])

\* The parsers find certificates or fail, and a CRL is none.
LEMMA TodoCerts ==
    ASSUME NEW f \in Files
    PROVE  /\ TodoOf(f).certs \in Seq(STRING)
           /\ TodoOf(f).failed \/ TodoOf(f).crls > 0 => TodoOf(f).certs = <<>>
           /\ TodoOf(f).deviations \in {<<>>, extractDeviationsFromCms(f.deviations)}
           /\ TodoOf(f).list => TodoOf(f).deviations = extractDeviationsFromCms(f.deviations)
<1> DEFINE format == detectFormat(f)
           Plain(t, c) == t.certs = c /\ t.failed = (c = <<>>) /\ t.crls = 0 /\ t.list = FALSE /\ t.deviations = <<>>
<1>1. f.certs \in Seq(STRING)
    BY FilesAssumption DEF Content
<1>2. Readable(f.certs) \in Seq(STRING)
    <2>1. Only(f.certs, STRING \ {"broken"}) \in Seq(STRING \cap (STRING \ {"broken"}))
        BY <1>1, OnlyPlaces
    <2>2. \A s \in Seq(STRING \cap (STRING \ {"broken"})) : s \in Seq(STRING)
        OBVIOUS
    <2> QED
        BY <2>1, <2>2 DEF Readable
<1>3. /\ PemCertificates(f) \in Seq(STRING) /\ DerCertificate(f) \in Seq(STRING)
      /\ extractCertificatesFromCms(f) \in Seq(STRING) /\ <<>> \in Seq(STRING)
    <2>1. f.certs # <<>> => f.certs[1] \in STRING
        BY <1>1
    <2>2. \A x \in STRING : <<x>> \in Seq(STRING)
        <3>1. ASSUME NEW S, NEW x \in S PROVE <<x>> \in Seq(S)
            OBVIOUS
        <3> QED
            BY <3>1
    <2>3. <<>> \in Seq(STRING)
        OBVIOUS
    <2>4. DerCertificate(f) = <<>> \/ (f.certs # <<>> /\ DerCertificate(f) = <<f.certs[1]>>)
        BY DEF DerCertificate
    <2>5. DerCertificate(f) \in Seq(STRING)
        BY <2>1, <2>2, <2>3, <2>4
    <2>6. PemCertificates(f) \in {<<>>, Readable(f.certs)} /\ extractCertificatesFromCms(f) \in {<<>>, Readable(f.certs)}
        BY DEF PemCertificates, extractCertificatesFromCms
    <2> QED
        BY <1>2, <2>3, <2>5, <2>6
<1>4. \A c : Plain(WhatIsFound(c), c)
    BY DEF WhatIsFound, Parsed
<1>5. CASE format = "crl"
    <2>1. TodoOf(f) = [Parsed(<<>>, f.kind # "crl") EXCEPT !.crls = 1]
        BY <1>5 DEF TodoOf, ParseFor
    <2>2. TodoOf(f).certs = <<>> /\ TodoOf(f).list = FALSE /\ TodoOf(f).deviations = <<>> /\ TodoOf(f).crls = 1
        BY <2>1 DEF Parsed
    <2> QED
        BY <2>2, <1>3
<1>6. CASE format = "dl" /\ DlParses(f)
    <2>1. TodoOf(f) = [Parsed(extractCertificatesFromCms(f), FALSE) EXCEPT
                          !.list = TRUE, !.deviations = extractDeviationsFromCms(f.deviations)]
        BY <1>6 DEF TodoOf, ParseFor
    <2>2. /\ TodoOf(f).certs = extractCertificatesFromCms(f) /\ TodoOf(f).failed = FALSE /\ TodoOf(f).crls = 0
          /\ TodoOf(f).deviations = extractDeviationsFromCms(f.deviations) /\ TodoOf(f).list
        BY <2>1 DEF Parsed
    <2> QED
        BY <2>2, <1>3
<1>7. CASE format # "crl" /\ ~(format = "dl" /\ DlParses(f))
    <2>1. \E c \in Seq(STRING) : TodoOf(f) = WhatIsFound(c)
        BY <1>3, <1>7 DEF TodoOf, ParseFor
    <2>2. PICK c \in Seq(STRING) : Plain(TodoOf(f), c)
        BY <2>1, <1>4
    <2>3. TodoOf(f).certs = c /\ TodoOf(f).failed = (c = <<>>) /\ TodoOf(f).crls = 0
        BY <2>2
    <2>4. TodoOf(f).list = FALSE /\ TodoOf(f).deviations = <<>>
        BY <2>2
    <2>5. ~(TodoOf(f).crls > 0)
        BY <2>3
    <2>6. TodoOf(f).failed => c = <<>>
        BY <2>3
    <2>7. TodoOf(f).certs \in Seq(STRING)
        BY <2>3
    <2> QED
        BY <2>3, <2>4, <2>5, <2>6, <2>7
<1> QED
    BY <1>5, <1>6, <1>7

\* What is known of the certificates of a request.
LEMMA CertsFacts ==
    ASSUME FilesInv, NEW u \in FileUpload, Begun(u)
    PROVE  /\ up[u] \in FileRequest /\ up[u].todo = TodoOf(up[u].file) /\ up[u].file \in Files
           /\ up[u].todo.certs \in Seq(STRING)
           /\ up[u].todo.failed \/ up[u].todo.crls > 0 => up[u].todo.certs = <<>>
BY RequestFacts, TodoCerts DEF FilesInv, RequestsOK, RequestFits

\* The other requests are as they were.
LEMMA ElsewhereAsShown ==
    ASSUME FilesInv, PreviewInv, NEW u \in FileUpload, NEW r, up' = [up EXCEPT ![u] = r], AsShown(r)
    PROVE  PreviewInv'
<1>1. \A v \in FileUpload : up'[v] = IF v = u THEN r ELSE up[v]
    BY DEF FilesInv, FilesShape
<1>2. \A v \in FileUpload : AsShown(up[v])
    BY DEF PreviewInv
<1>3. \A v \in FileUpload : AsShown(up'[v])
    BY <1>1, <1>2
<1> QED
    BY <1>3 DEF PreviewInv

\* What becomes of a request that is past its certificates.
LEMMA PastCerts ==
    ASSUME FilesInv, PreviewInv, NEW u \in FileUpload, Begun(u), up[u].pc \notin {"insert", "certs"},
           NEW r, r.pc \notin {"insert", "certs"}, r.todo = up[u].todo, r.stored = up[u].stored,
           up[u].slipped => r.slipped, r.status = "FAILED" => up[u].status = "FAILED",
           up' = [up EXCEPT ![u] = r]
    PROVE  PreviewInv'
<1>1. AsShown(up[u])
    BY DEF PreviewInv
<1>2. AsShown(r)
    BY <1>1 DEF AsShown, Begun
<1> QED
    BY <1>2, ElsewhereAsShown

LEMMA SubmitPreviews ==
    ASSUME FilesInv, PreviewInv, NEW u \in FileUpload, NEW f \in Files, Submit(u, f)
    PROVE  PreviewInv'
<1> DEFINE r == [pc |-> "insert", file |-> f, status |-> "none", todo |-> TodoOf(f), at |-> 1,
                  stored |-> <<>>, id |-> "none", turn |-> 0, late |-> FALSE, slipped |-> FALSE]
<1>1. up' = [up EXCEPT ![u] = r]
    BY DEF Submit, TodoOf
<1>2. AsShown(r)
    BY <1>1 DEF AsShown
<1> QED
    BY <1>1, <1>2, ElsewhereAsShown

LEMMA InsertUploadPreviews ==
    ASSUME FilesInv, PreviewInv, NEW u \in FileUpload, InsertUpload(u)
    PROVE  PreviewInv'
<1>1. up[u].pc = "insert" /\ Begun(u) /\ up \in [FileUpload -> FileRequest \cup {NoFile}]
    BY DEF InsertUpload, Begun, FilesInv, FilesShape
<1>2. up[u] \in FileRequest /\ up[u].todo.certs \in Seq(STRING)
    BY <1>1, CertsFacts
<1>3. CASE up' = [up EXCEPT ![u].pc = "done", ![u].slipped = TRUE]
    <2> DEFINE r == [up[u] EXCEPT !.pc = "done", !.slipped = TRUE]
    <2>1. up' = [up EXCEPT ![u] = r]
        BY <1>1, <1>3
    <2>2. r.slipped
        BY <1>2 DEF FileRequest
    <2>3. AsShown(r)
        BY <2>2 DEF AsShown
    <2> QED
        BY <2>1, <2>3, ElsewhereAsShown
<1>4. CASE up' = [up EXCEPT ![u].status = IF up[u].todo.failed THEN "FAILED" ELSE "PROCESSING",
                            ![u].pc = IF up[u].todo.failed THEN "done" ELSE Work(up[u].todo)]
    <2> DEFINE r == [up[u] EXCEPT !.status = IF up[u].todo.failed THEN "FAILED" ELSE "PROCESSING",
                                  !.pc = IF up[u].todo.failed THEN "done" ELSE Work(up[u].todo)]
    <2>1. up' = [up EXCEPT ![u] = r]
        BY <1>1, <1>4
    <2>2. /\ r.todo = up[u].todo /\ r.stored = up[u].stored /\ r.at = up[u].at /\ r.slipped = up[u].slipped
          /\ r.status = IF up[u].todo.failed THEN "FAILED" ELSE "PROCESSING"
          /\ r.pc = IF up[u].todo.failed THEN "done" ELSE Work(up[u].todo)
        BY <1>2 DEF FileRequest
    <2> HIDE DEF r
    <2>3. ~r.slipped => r.stored = <<>> /\ r.at = 1
        BY <1>1, <2>2 DEF PreviewInv, AsShown, Begun
    <2>4. r.pc # "insert"
        BY <2>2 DEF Work, AfterCerts
    <2>5. r.pc = "certs" => r.todo.certs # <<>>
        BY <2>2 DEF Work, AfterCerts
    <2>6. r.pc # "certs" => r.todo.certs = <<>>
        BY <1>1, <2>2, CertsFacts DEF Work
    <2>7. StoredUpTo(r.todo.certs, 0) = <<>> /\ Len(<<>>) = 0
        BY DEF StoredUpTo
    <2>8. r.todo.certs # <<>> => 1 \in 1..Len(r.todo.certs)
        BY <1>2, <2>2
    <2>9. AsShown(r)
        BY <2>2, <2>3, <2>4, <2>5, <2>6, <2>7, <2>8 DEF AsShown
    <2> QED
        BY <2>1, <2>9, ElsewhereAsShown
<1> QED
    BY <1>3, <1>4 DEF InsertUpload

LEMMA ProcessCertificatePreviews ==
    ASSUME FilesInv, PreviewInv, NEW u \in FileUpload, ProcessCertificate(u)
    PROVE  PreviewInv'
<1> DEFINE certs == up[u].todo.certs
           last == up[u].at = Len(certs)
           on == [up[u] EXCEPT !.at = IF last THEN 1 ELSE @ + 1, !.pc = IF last THEN AfterCerts(up[u].todo) ELSE @]
<1>1. up[u].pc = "certs" /\ Begun(u) /\ up \in [FileUpload -> FileRequest \cup {NoFile}]
    BY DEF ProcessCertificate, Begun, FilesInv, FilesShape
<1>2. up[u] \in FileRequest /\ certs \in Seq(STRING) /\ Len(certs) \in Nat
    BY <1>1, CertsFacts
<1>3. CASE up' = [up EXCEPT ![u] = [on EXCEPT !.slipped = TRUE]]
    <2>1. AsShown([on EXCEPT !.slipped = TRUE])
        BY <1>2 DEF AsShown, FileRequest
    <2> QED
        BY <1>3, <2>1, ElsewhereAsShown
<1>4. CASE up' = [up EXCEPT ![u] = [on EXCEPT !.stored = Append(@, StoredType(certs[up[u].at]))]]
    <2> DEFINE r == [on EXCEPT !.stored = Append(@, StoredType(certs[up[u].at]))]
    <2>1. /\ r.todo = up[u].todo /\ r.stored = Append(up[u].stored, StoredType(certs[up[u].at]))
          /\ r.slipped = up[u].slipped /\ r.status = up[u].status
          /\ r.at = (IF last THEN 1 ELSE up[u].at + 1)
          /\ r.pc = (IF last THEN AfterCerts(up[u].todo) ELSE "certs")
        BY <1>1, <1>2 DEF FileRequest
    <2>2. ~up[u].slipped => up[u].at \in 1..Len(certs) /\ up[u].stored = StoredUpTo(certs, up[u].at - 1)
                            /\ (up[u].status = "FAILED" => up[u].todo.failed)
        BY <1>1 DEF PreviewInv, AsShown, Begun
    <2>3. ASSUME NEW n \in Nat PROVE Append(StoredUpTo(certs, n), StoredType(certs[n + 1])) = StoredUpTo(certs, n + 1)
        <3> DEFINE s == StoredUpTo(certs, n)
        <3>1. s = [i \in 1..n |-> StoredType(certs[i])]
            BY DEF StoredUpTo
        <3>2. s \in Seq({StoredType(certs[i]) : i \in 1..n}) /\ Len(s) = n
            BY <3>1
        <3> HIDE DEF s
        <3>3. Append(s, StoredType(certs[n + 1])) = [i \in 1..(n + 1) |-> StoredType(certs[i])]
            BY <3>1, <3>2
        <3> QED
            BY <3>3 DEF StoredUpTo, s
    <2>4. ~up[u].slipped => r.stored = StoredUpTo(certs, up[u].at)
        <3> SUFFICES ASSUME ~up[u].slipped PROVE r.stored = StoredUpTo(certs, up[u].at)
            OBVIOUS
        <3> DEFINE n == up[u].at - 1
        <3>1. n \in Nat /\ n + 1 = up[u].at
            BY <1>2, <2>2
        <3>2. r.stored = Append(StoredUpTo(certs, n), StoredType(certs[n + 1]))
            BY <2>1, <2>2, <3>1
        <3> HIDE DEF n
        <3> QED
            BY <3>1, <3>2, <2>3
    <2>5. AfterCerts(up[u].todo) \notin {"insert", "certs"}
        BY DEF AfterCerts
    <2> HIDE DEF r
    <2>6. AsShown(r)
        <3> SUFFICES ASSUME ~up[u].slipped PROVE AsShown(r)
            BY <2>1 DEF AsShown
        <3>1. CASE last
            <4>1. r.pc \notin {"insert", "certs"} /\ r.stored = StoredUpTo(r.todo.certs, Len(r.todo.certs))
                BY <2>1, <2>4, <2>5, <3>1
            <4> QED
                BY <2>1, <2>2, <4>1 DEF AsShown
        <3>2. CASE ~last
            <4>1. /\ r.pc = "certs" /\ r.at \in 1..Len(r.todo.certs)
                  /\ r.stored = StoredUpTo(r.todo.certs, r.at - 1)
                <5>1. r.at = up[u].at + 1 /\ r.todo.certs = certs /\ r.pc = "certs"
                    BY <2>1, <3>2
                <5>2. r.at - 1 = up[u].at /\ r.at \in 1..Len(certs)
                    BY <1>2, <2>2, <3>2, <5>1
                <5> QED
                    BY <2>4, <5>1, <5>2
            <4> QED
                BY <2>1, <2>2, <4>1 DEF AsShown
        <3> QED
            BY <3>1, <3>2
    <2>7. up' = [up EXCEPT ![u] = r]
        BY <1>4 DEF r
    <2> QED
        BY <2>6, <2>7, ElsewhereAsShown
<1> QED
    BY <1>3, <1>4 DEF ProcessCertificate

\* The steps that follow leave what is stored, and the status is no failure's.
LEMMA LaterPreviews ==
    ASSUME FilesInv, PreviewInv, NEW u \in FileUpload,
           \/ FindCrl(u) \/ ClaimCrl(u) \/ InsertCrl(u) \/ Revoke(u)
           \/ SaveDl(u) \/ SaveEntry(u) \/ Finish(u)
    PROVE  PreviewInv'
<1>1. Begun(u) /\ up[u].pc \notin {"insert", "certs"} /\ up \in [FileUpload -> FileRequest \cup {NoFile}]
    BY DEF FindCrl, ClaimCrl, InsertCrl, Revoke, SaveDl, SaveEntry, Finish, Begun, FilesInv, FilesShape
<1>2. up[u] \in FileRequest
    BY <1>1, CertsFacts
<1> DEFINE Later(r) ==
               /\ r.pc \notin {"insert", "certs"} /\ r.todo = up[u].todo /\ r.stored = up[u].stored
               /\ up[u].slipped => r.slipped
               /\ r.status = "FAILED" => up[u].status = "FAILED"
           Goes == \E r : up' = [up EXCEPT ![u] = r] /\ Later(r)
<1>3. ASSUME NEW l \in FilePcs \ {"insert", "certs"}, NEW s \in BOOLEAN, up[u].slipped => s,
             \/ up' = [up EXCEPT ![u].pc = l, ![u].slipped = s]
             \/ up' = [up EXCEPT ![u].pc = l]
             \/ up' = [up EXCEPT ![u].pc = l, ![u].late = TRUE]
             \/ \E id : up' = [up EXCEPT ![u].id = id, ![u].pc = l]
             \/ \E id, late : up' = [up EXCEPT ![u] = Owning(u, l, id, late)]
             \/ up' = [up EXCEPT ![u].pc = l, ![u].status = IF @ = "PROCESSING" THEN "COMPLETED" ELSE @]
      PROVE  Goes
    <2>1. CASE up' = [up EXCEPT ![u].pc = l, ![u].slipped = s]
        <3> DEFINE r == [up[u] EXCEPT !.pc = l, !.slipped = s]
        <3>1. up' = [up EXCEPT ![u] = r] /\ Later(r)
            BY <1>1, <1>2, <1>3, <2>1 DEF FileRequest
        <3> QED
            BY <3>1
    <2>2. CASE up' = [up EXCEPT ![u].pc = l]
        <3> DEFINE r == [up[u] EXCEPT !.pc = l]
        <3>1. up' = [up EXCEPT ![u] = r] /\ Later(r)
            BY <1>1, <1>2, <1>3, <2>2 DEF FileRequest
        <3> QED
            BY <3>1
    <2>3. CASE up' = [up EXCEPT ![u].pc = l, ![u].late = TRUE]
        <3> DEFINE r == [up[u] EXCEPT !.pc = l, !.late = TRUE]
        <3>1. up' = [up EXCEPT ![u] = r] /\ Later(r)
            BY <1>1, <1>2, <1>3, <2>3 DEF FileRequest
        <3> QED
            BY <3>1
    <2>4. ASSUME NEW id, up' = [up EXCEPT ![u].id = id, ![u].pc = l] PROVE Goes
        <3> DEFINE r == [up[u] EXCEPT !.id = id, !.pc = l]
        <3>1. up' = [up EXCEPT ![u] = r] /\ Later(r)
            BY <1>1, <1>2, <1>3, <2>4 DEF FileRequest
        <3> QED
            BY <3>1
    <2>5. ASSUME NEW id, NEW late, up' = [up EXCEPT ![u] = Owning(u, l, id, late)] PROVE Goes
        <3>1. Later(Owning(u, l, id, late))
            BY <1>1, <1>2, <1>3 DEF FileRequest, Owning
        <3> QED
            BY <2>5, <3>1
    <2>6. CASE up' = [up EXCEPT ![u].pc = l, ![u].status = IF @ = "PROCESSING" THEN "COMPLETED" ELSE @]
        <3> DEFINE r == [up[u] EXCEPT !.pc = l, !.status = IF @ = "PROCESSING" THEN "COMPLETED" ELSE @]
        <3>1. up' = [up EXCEPT ![u] = r] /\ Later(r)
            BY <1>1, <1>2, <1>3, <2>6 DEF FileRequest
        <3> QED
            BY <3>1
    <2> QED
        BY <1>3, <2>1, <2>2, <2>3, <2>4, <2>5, <2>6
<1>4. ASSUME NEW s \in BOOLEAN, up[u].slipped => s,
             \/ up' = [up EXCEPT ![u].at = @ + 1]
             \/ up' = [up EXCEPT ![u].at = @ + 1, ![u].slipped = TRUE]
      PROVE  Goes
    <2>1. CASE up' = [up EXCEPT ![u].at = @ + 1]
        <3> DEFINE r == [up[u] EXCEPT !.at = @ + 1]
        <3>1. up' = [up EXCEPT ![u] = r] /\ Later(r)
            BY <1>1, <1>2, <2>1 DEF FileRequest
        <3> QED
            BY <3>1
    <2>2. CASE up' = [up EXCEPT ![u].at = @ + 1, ![u].slipped = TRUE]
        <3> DEFINE r == [up[u] EXCEPT !.at = @ + 1, !.slipped = TRUE]
        <3>1. up' = [up EXCEPT ![u] = r] /\ Later(r)
            BY <1>1, <1>2, <2>2 DEF FileRequest
        <3> QED
            BY <3>1
    <2> QED
        BY <1>4, <2>1, <2>2
<1>5. {"insertCrl", "claimCrl", "revoke", "entries", "finish", "done"} \subseteq FilePcs \ {"insert", "certs"}
    BY DEF FilePcs
<1> HIDE DEF Goes
<1>6. FindCrl(u) => Goes
    <2>1. FindCrl(u) => \/ \E l \in {"insertCrl", "claimCrl"} : up' = [up EXCEPT ![u].id = CrlOf(u).id, ![u].pc = l]
                        \/ up' = [up EXCEPT ![u].pc = "finish", ![u].slipped = TRUE]
        BY DEF FindCrl
    <2> QED
        BY <2>1, <1>3, <1>5
<1>7. ClaimCrl(u) => Goes
    <2>1. ClaimCrl(u) => \/ \E id, late : up' = [up EXCEPT ![u] = Owning(u, "revoke", id, late)]
                         \/ up' = [up EXCEPT ![u].pc = "finish", ![u].late = TRUE]
                         \/ up' = [up EXCEPT ![u].pc = "finish", ![u].slipped = TRUE]
        BY DEF ClaimCrl
    <2> QED
        BY <2>1, <1>3, <1>5
<1>8. ASSUME NEW l \in {"revoke", "entries"},
             \/ \E id, late : up' = [up EXCEPT ![u] = Owning(u, l, id, late)]
             \/ up' = [up EXCEPT ![u].pc = "finish", ![u].late = TRUE]
             \/ up' = [up EXCEPT ![u].pc = "finish", ![u].slipped = TRUE]
      PROVE  Goes
    BY <1>8, <1>3, <1>5
<1>9. InsertCrl(u) \/ SaveDl(u) => Goes
    <2>1. InsertCrl(u) \/ SaveDl(u) =>
              \E l \in {"revoke", "entries"} :
                  \/ \E id, late : up' = [up EXCEPT ![u] = Owning(u, l, id, late)]
                  \/ up' = [up EXCEPT ![u].pc = "finish", ![u].late = TRUE]
                  \/ up' = [up EXCEPT ![u].pc = "finish", ![u].slipped = TRUE]
        BY DEF InsertCrl, SaveDl, InsertList
    <2> QED
        BY <2>1, <1>8
<1>10. Revoke(u) => Goes
    BY <1>3, <1>4, <1>5 DEF Revoke, Goto_
<1>11. SaveEntry(u) => Goes
    BY <1>3, <1>4, <1>5 DEF SaveEntry, Goto_
<1>12. Finish(u) => Goes
    BY <1>3, <1>5 DEF Finish, Goto_
<1>13. Goes
    BY <1>6, <1>7, <1>9, <1>10, <1>11, <1>12
<1> QED
    BY <1>1, <1>13, PastCerts DEF Goes

LEMMA DeleteFilePreviews ==
    ASSUME FilesInv, PreviewInv, NEW u \in FileUpload, DeleteFile(u)
    PROVE  PreviewInv'
<1> DEFINE r == [up[u] EXCEPT !.status = "deleted"]
<1>1. Begun(u) /\ up \in [FileUpload -> FileRequest \cup {NoFile}]
    BY DEF DeleteFile, HasFileRow, Begun, FilesInv, FilesShape
<1>2. up[u] \in FileRequest
    BY <1>1, CertsFacts
<1>3. up' = [up EXCEPT ![u] = r]
    BY <1>1 DEF DeleteFile
<1>4. /\ r.pc = up[u].pc /\ r.todo = up[u].todo /\ r.stored = up[u].stored /\ r.at = up[u].at
      /\ r.slipped = up[u].slipped /\ r.status = "deleted"
    BY <1>2 DEF FileRequest
<1> HIDE DEF r
<1>5. AsShown(up[u])
    BY DEF PreviewInv
<1>6. AsShown(r)
    BY <1>4, <1>5 DEF AsShown
<1> QED
    BY <1>3, <1>6, ElsewhereAsShown

LEMMA PreviewStays ==
    ASSUME FilesInv, PreviewInv, [FilesNext]_fileVars
    PROVE  PreviewInv'
<1>1. CASE UNCHANGED fileVars
    BY <1>1 DEF fileVars, PreviewInv
<1>2. CASE FilesNext
    BY <1>2, SubmitPreviews, InsertUploadPreviews, ProcessCertificatePreviews, LaterPreviews,
       DeleteFilePreviews DEF FilesNext
<1> QED
    BY <1>1, <1>2

\* What is stored, and the status, are those of the preview.
LEMMA PreviewInvAgrees == FilesInv /\ PreviewInv => PreviewAgrees
<1> SUFFICES ASSUME FilesInv, PreviewInv, NEW u \in FileUpload, IsOver(u), ~up[u].slipped
             PROVE  LET f == up[u].file
                        shown == previewCertificate(f)
                    IN  /\ up[u].stored = shown.certs
                        /\ up[u].status = "FAILED" => ~shown.success \/ (detectFormat(f) = "dl" /\ shown.certs = <<>>)
                        /\ up[u].status = "COMPLETED" => shown.success
                        /\ up[u].todo.list /\ f.deviations # <<>> =>
                               IsPrefix([k \in DOMAIN f.deviations[1].defects |-> <<1, k>>], shown.deviations)
                        /\ \A i, j \in DOMAIN shown.deviations : i # j => shown.deviations[i] # shown.deviations[j]
    BY DEF PreviewAgrees
<1> DEFINE f == up[u].file
           t == TodoOf(f)
           shown == previewCertificate(f)
<1>1. Begun(u) /\ up[u].pc = "done"
    BY DEF IsOver, Begun
<1>2. f \in Files /\ up[u].todo = t /\ t.certs \in Seq(STRING) /\ (t.failed => t.certs = <<>>)
    BY <1>1, CertsFacts
<1>3. up[u].stored = StoredUpTo(t.certs, Len(t.certs)) /\ (up[u].status = "FAILED" => t.failed)
    BY <1>1, <1>2 DEF PreviewInv, AsShown
<1>4. up[u].status = "COMPLETED" => ~t.failed
    BY <1>1, <1>2 DEF FilesInv, RequestsOK, RequestFits
<1>5. /\ shown.success = (~t.failed \/ detectFormat(f) = "dl") /\ shown.deviations = t.deviations
      /\ shown.certs = [i \in DOMAIN t.certs |-> PreviewType(t.certs[i])]
    BY DEF previewCertificate, TodoOf
<1>6. up[u].stored = shown.certs
    <2>1. DOMAIN t.certs = 1..Len(t.certs)
        BY <1>2
    <2>2. \A x : PreviewType(x) = StoredType(x)
        BY DEF PreviewType, StoredType
    <2> QED
        BY <1>3, <1>5, <2>1, <2>2 DEF StoredUpTo
<1>7. t.certs = <<>> => shown.certs = <<>>
    BY <1>5
<1>8. f.deviations \in Seq(Deviation)
    BY <1>2, FilesAssumption DEF Content
<1>9. t.list /\ f.deviations # <<>> =>
          IsPrefix([k \in DOMAIN f.deviations[1].defects |-> <<1, k>>], t.deviations)
    <2>1. t.list => t.deviations = extractDeviationsFromCms(f.deviations)
        BY <1>2, TodoCerts
    <2> QED
        BY <1>8, <2>1, DeviationsAreRead DEF OfDeviation
<1>10. \A i, j \in DOMAIN t.deviations : i # j => t.deviations[i] # t.deviations[j]
    <2>1. t.deviations \in {<<>>, extractDeviationsFromCms(f.deviations)}
        BY <1>2, TodoCerts
    <2>2. extractDeviationsFromCms(f.deviations) \in ReadFrom(1)
        BY <1>8, DeviationsAreRead
    <2>3. \A s \in ReadFrom(1) : \A i, j \in DOMAIN s : i # j => s[i] # s[j]
        BY DEF ReadFrom
    <2>4. \A i, j \in DOMAIN <<>> : i # j => <<>>[i] # <<>>[j]
        OBVIOUS
    <2> HIDE DEF t, f
    <2> QED
        BY <2>1, <2>2, <2>3, <2>4
<1>11. /\ up[u].status = "FAILED" => ~shown.success \/ (detectFormat(f) = "dl" /\ shown.certs = <<>>)
       /\ up[u].status = "COMPLETED" => shown.success
    BY <1>2, <1>3, <1>4, <1>5, <1>7
<1>12. /\ up[u].todo.list /\ f.deviations # <<>> =>
              IsPrefix([k \in DOMAIN f.deviations[1].defects |-> <<1, k>>], shown.deviations)
       /\ \A i, j \in DOMAIN shown.deviations : i # j => shown.deviations[i] # shown.deviations[j]
    BY <1>2, <1>5, <1>9, <1>10
<1> QED
    BY <1>6, <1>11, <1>12

\* An upload stores the certificates, with the types, that the preview of the same file
\* showed, it fails where the preview does, and of the deviations both show all those of
\* the list's first certificate and none twice; uploadCertificate and previewCertificate.
THEOREM PreviewsAgree == FilesSpec => []PreviewAgrees
<1>1. FilesInit => PreviewInv
    BY DEF FilesInit, PreviewInv, AsShown, NoFile
<1>2. FilesInv /\ PreviewInv /\ [FilesNext]_fileVars => (FilesInv /\ PreviewInv)'
    BY FilesInvStays, PreviewStays
<1> QED
    BY <1>1, <1>2, FilesInvStarts, PreviewInvAgrees, PTL DEF FilesSpec

=============================================================================
