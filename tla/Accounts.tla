------------------------------ MODULE Accounts ------------------------------
(***************************************************************************)
(* Users of the web interface (auth_handler.cpp, user_repository.cpp), the  *)
(* tokens that stand for them (jwt_service.cpp) and the audit rows that     *)
(* refer to them (auth_audit_repository.cpp, 03-security-schema.sql).       *)
(*                                                                         *)
(* A token is believed until it expires and can be renewed before that;    *)
(* neither looks at the account again. auth_audit_log.user_id is a foreign *)
(* key without ON DELETE, so an account with an audit row stays. Names,    *)
(* addresses and permissions decide nothing here and are left out; a       *)
(* statement of the database is one step and may fail.                     *)
(***************************************************************************)
EXTENDS Naturals, FiniteSets

CONSTANTS
    Account,   \* ids of users, each given once
    first,     \* the administrator the schema creates
    Password,  \* passwords; a password and its hash are not told apart
    initial,   \* the password of a new account
    Session,   \* threads with a request of a user
    Life,      \* expirationSeconds_, in ticks
    LastTick,  \* bound: the last tick
    MaxTokens  \* bound: tokens that are valid at the same time

ASSUME AccountsAssumption ==
    /\ first \in Account /\ initial \in Password
    /\ Life \in Nat \ {0}

VARIABLES
    account,  \* users: the row of each id, or NoUser
    retired,  \* ids whose row was deleted
    tokens,   \* tokens that are valid, and whether their login left an audit row
    work,     \* where each request of several statements is
    audited,  \* ids with a row in auth_audit_log
    tick      \* the clock

accountVars == <<account, retired, tokens, work, audited, tick>>

NoUser == [pw |-> "none"]
NoWork == [at |-> "idle"]

\* The row of a new user.
NewUser(admin) == [pw |-> initial, active |-> TRUE, admin |-> admin]

AccountsInit ==
    /\ account = [u \in Account |-> IF u = first THEN NewUser(TRUE) ELSE NoUser]
    /\ retired = {}
    /\ tokens = {}
    /\ work = [s \in Session |-> NoWork]
    /\ audited = {}
    /\ tick = 0

-----------------------------------------------------------------------------
\* Tokens.

generateToken(u, admin, logged) ==
    [user |-> u, admin |-> admin, exp |-> tick + Life, logged |-> logged]

GiveToken(k) ==
    /\ Cardinality(tokens \cup {k}) <= MaxTokens
    /\ tokens' = tokens \cup {k}

\* refreshToken: the claims of a valid token, with a new expiry. No account is read.
handleRefresh(k) ==
    /\ GiveToken(generateToken(k.user, k.admin, k.logged))
    /\ UNCHANGED <<account, retired, work, audited, tick>>

\* validateToken: a token is valid before its expiry. One that is not says nothing to
\* anybody and is dropped here.
AccountsTick ==
    /\ tick < LastTick
    /\ tick' = tick + 1
    /\ tokens' = {k \in tokens : tick' < k.exp}
    /\ UNCHANGED <<account, retired, work, audited>>

-----------------------------------------------------------------------------
\* Logging in.

findUser(u) == account[u] # NoUser

\* The row is read, and is active and has the password.
handleLogin(s, u, pw) ==
    /\ work[s] = NoWork
    /\ findUser(u) /\ account[u].active /\ account[u].pw = pw
    /\ work' = [work EXCEPT ![s] = [at |-> "login", user |-> u, admin |-> account[u].admin]]
    /\ UNCHANGED <<account, retired, tokens, audited, tick>>

\* A row of auth_audit_log that refers to the account.
Logged(u) == audited' = audited \cup {u}

EndWork(s) == work' = [work EXCEPT ![s] = NoWork]

\* updateLastLogin throws when its statement fails, and then there is no token; a row
\* that is gone is no failure. The audit row refers to the account: without it, or with
\* a failing statement, it is not written, and the token is given all the same.
Issue(s) ==
    /\ work[s].at = "login"
    /\ \E logged \in BOOLEAN :
        /\ logged => account[work[s].user] # NoUser
        /\ GiveToken(generateToken(work[s].user, work[s].admin, logged))
        /\ IF logged THEN Logged(work[s].user) ELSE UNCHANGED audited
    /\ EndWork(s)
    /\ UNCHANGED <<account, retired, tick>>

IssueFails(s) ==
    /\ work[s].at = "login"
    /\ EndWork(s)
    /\ UNCHANGED <<account, retired, tokens, audited, tick>>

\* A wrong password, an inactive account and a logout leave an audit row only.
AuditOnly(u) ==
    /\ findUser(u)
    /\ Logged(u)
    /\ UNCHANGED <<account, retired, tokens, work, tick>>

-----------------------------------------------------------------------------
\* Administration: the token says who asks and whether it is an administrator.

requireAdmin(k) == k \in tokens /\ k.admin

handleCreateUser(k, u, admin) ==
    /\ requireAdmin(k)
    /\ account[u] = NoUser /\ u \notin retired
    /\ account' = [account EXCEPT ![u] = NewUser(admin)]
    /\ UNCHANGED <<retired, tokens, work, audited, tick>>

\* Only the fields that are given (a set of one value each) are written.
updateUser(row, admins, actives) ==
    [row EXCEPT !.admin = IF admins = {} THEN @ ELSE TRUE \in admins,
                !.active = IF actives = {} THEN @ ELSE TRUE \in actives]

handleUpdateUser(k, u, admins, actives) ==
    /\ requireAdmin(k)
    /\ account[u] # NoUser
    /\ account' = [account EXCEPT ![u] = updateUser(@, admins, actives)]
    /\ UNCHANGED <<retired, tokens, work, audited, tick>>

\* Mutant of remove: the audit rows do not keep the account.
removeFreely(u) ==
    /\ account[u] # NoUser
    /\ account' = [account EXCEPT ![u] = NoUser]
    /\ retired' = retired \cup {u}

\* DELETE FROM users, which fails for an account with an audit row.
remove(u) ==
    /\ account[u] # NoUser /\ u \notin audited
    /\ account' = [account EXCEPT ![u] = NoUser]
    /\ retired' = retired \cup {u}

\* Nobody deletes the own account.
handleDeleteUser(k, u) ==
    /\ requireAdmin(k)
    /\ k.user # u
    /\ remove(u)
    /\ UNCHANGED <<tokens, work, audited, tick>>

\* A user proves the current password, in a statement of its own; an administrator
\* changes the password of another without.
StartChange(s, k, u, pw, new) ==
    /\ work[s] = NoWork
    /\ k \in tokens
    /\ IF k.user = u THEN account[u] # NoUser /\ account[u].pw = pw ELSE k.admin
    /\ work' = [work EXCEPT ![s] = [at |-> "change", user |-> u, new |-> new,
                                    proved |-> IF k.user = u THEN {pw} ELSE {}]]
    /\ UNCHANGED <<account, retired, tokens, audited, tick>>

updatePassword(s) ==
    /\ work[s].at = "change"
    /\ LET u == work[s].user
       IN  account' = IF account[u] = NoUser THEN account
                      ELSE [account EXCEPT ![u].pw = work[s].new]
    /\ EndWork(s)
    /\ UNCHANGED <<retired, tokens, audited, tick>>

-----------------------------------------------------------------------------

AccountsNext ==
    \/ \E s \in Session, u \in Account, pw \in Password : handleLogin(s, u, pw)
    \/ \E s \in Session : Issue(s) \/ IssueFails(s) \/ updatePassword(s)
    \/ \E u \in Account : AuditOnly(u)
    \/ \E k \in tokens : handleRefresh(k)
    \/ \E k \in tokens, u \in Account, admin \in BOOLEAN : handleCreateUser(k, u, admin)
    \/ \E k \in tokens, u \in Account, admins, actives \in {{}, {TRUE}, {FALSE}} :
        handleUpdateUser(k, u, admins, actives)
    \/ \E k \in tokens, u \in Account : handleDeleteUser(k, u)
    \/ \E s \in Session, k \in tokens, u \in Account, pw, new \in Password : StartChange(s, k, u, pw, new)
    \/ AccountsTick

AccountsSpec == AccountsInit /\ [][AccountsNext]_accountVars

-----------------------------------------------------------------------------

\* Rows, tokens and requests have their shapes; a deleted account has no row.
AccountsTypeOK ==
    /\ \A u \in Account : account[u] = NoUser
        \/ account[u] \in [pw : Password, active : BOOLEAN, admin : BOOLEAN]
    /\ \A u \in retired : account[u] = NoUser
    /\ tokens \subseteq [user : Account, admin : BOOLEAN, exp : tick + 1 .. tick + Life, logged : BOOLEAN]
    /\ \A s \in Session : work[s].at \in {"idle", "login", "change"}

(* A token whose login left its audit row, renewed or not, names an account    *)
(* that exists, although no request looks the account up: what keeps the       *)
(* account is the audit row (auth_handler.cpp:260, 03-security-schema.sql:51). *)
AuditedTokenHasAccount == \A k \in tokens : k.logged => account[k.user] # NoUser

(* "Prevent self-deletion" is the only reason to refuse a deletion             *)
(* (auth_handler.cpp:1048), and the answer is 404 for an account that is not   *)
(* there: any other is deleted. TLC refutes it: an                           *)
(* account that ever logged in, or tried to, has an audit row, and the         *)
(* statement fails.                                                            *)
OthersCanBeDeleted ==
    \A k \in tokens, u \in Account :
        k.admin /\ k.user # u /\ account[u] # NoUser => u \notin audited

(* "If changing own password, verify current password"                         *)
(* (auth_handler.cpp:1162): the password that a user's change replaces is the  *)
(* one that was proved. TLC refutes it: two changes                          *)
(* that were both checked against the first password replace one another.      *)
ProvedIsReplaced ==
    [][\A s \in Session :
        work[s].at = "change" /\ work'[s] = NoWork /\ work[s].proved # {} /\ account[work[s].user] # NoUser
            => account[work[s].user].pw \in work[s].proved]_accountVars
=============================================================================
