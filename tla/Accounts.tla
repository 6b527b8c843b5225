------------------------------ MODULE Accounts ------------------------------
(***************************************************************************)
(* The account database (kb_server/auth): users, API keys, browser         *)
(* sessions and erasure requests in one SQLite file.  Two processes change *)
(* it: the web UI, which seeds the admin account when it starts and then   *)
(* serves the account endpoints, and the command `kb-rag auth create'.     *)
(*                                                                         *)
(* A handler does not await between its read and its commit and is one     *)
(* step; seeding, and the command, are several transactions and several    *)
(* steps.  The UI keeps ONE SQLAlchemy session that nothing rolls back: a  *)
(* flush that fails leaves it "wedged", every later request raising, until *)
(* the process is restarted.                                               *)
(*                                                                         *)
(* Keys and sessions are told apart by their user only: `keyed' are the    *)
(* users with an unrevoked key, `loggedIn' those with a session that is    *)
(* neither expired nor revoked.                                            *)
(***************************************************************************)
EXTENDS Naturals

CONSTANTS
  Users,      \* user ids (uuid4, never reused)
  Erasures,   \* erasure requests ever created, numbered in their order
  Nobody,     \* no user
  MaxAccountFaults   \* bound: crashes and failed flushes that are explored

ASSUME AccountsAssumption ==
  Nobody \notin Users /\ Erasures \subseteq Nat /\ MaxAccountFaults \in Nat

VARIABLES
  user,       \* user[u]: the row of table users, name "none" before the INSERT
  keyed,      \* users with an unrevoked row in table api_keys
  loggedIn,   \* users with an unexpired cookie whose user_sessions row stands
  erasure,    \* erasure[r]: the row of table erasure_requests
  accountPc,  \* accountPc[p]: where process p stands
  found,      \* found[p]: the admin account p looked up or created
  reactivated,\* users that update_user switched on after an erasure (history)
  accountFaults      \* crashes and failed flushes so far

accountVars ==
  <<user, keyed, loggedIn, erasure, accountPc, found, reactivated, accountFaults>>

Processes == {"ui", "cli"}

UserNames     == {"none", "admin", "person", "deleted"}
ErasureStatus == {"active", "erasure_requested", "erasure_approved",
                  "erasure_completed"}
NewUser(name, role) ==
  [name |-> name, role |-> role, active |-> TRUE,
   password |-> FALSE, erasure |-> "active"]

AccountsTypeOK ==
  /\ user \in [Users -> [name : UserNames, role : {"admin", "user"},
                         active : BOOLEAN, password : BOOLEAN,
                         erasure : ErasureStatus]]
  /\ keyed \subseteq Users
  /\ loggedIn \subseteq Users
  /\ erasure \in [Erasures -> [owner : Users \cup {Nobody},
                               status : {"none"} \cup ErasureStatus]]
  /\ accountPc \in [Processes -> {"down", "insert", "password", "keys",
                                  "ready", "wedged"}]
  /\ found \in [Processes -> Users \cup {Nobody}]
  /\ reactivated \subseteq Users
  /\ accountFaults \in 0..MaxAccountFaults

AccountsInit ==
  /\ user = [u \in Users |-> [NewUser("none", "user") EXCEPT !.active = FALSE]]
  /\ keyed = {} /\ loggedIn = {}
  /\ erasure = [r \in Erasures |-> [owner |-> Nobody, status |-> "none"]]
  /\ accountPc = [p \in Processes |-> "down"]
  /\ found = [p \in Processes |-> Nobody]
  /\ reactivated = {}
  /\ accountFaults = 0

Exists(u)   == user[u].name # "none"
(* get_user_by_username; "deleted-user-<id>" differs from user to user. *)
Named(name) == {u \in Users : user[u].name = name}

(* A user one of whose erasure requests was executed. *)
Erased(u) ==
  \E r \in Erasures :
    erasure[r].owner = u /\ erasure[r].status = "erasure_completed"

----------------------------------------------------------------------------
(* Who is let in. *)

(* AuthService.verify_key, and verify_request of the MCP transports. *)
KeyAccepted(u) ==
  /\ u \in keyed
  /\ user[u].active
  /\ user[u].erasure # "erasure_completed"

(* AuthService.verify_login with the right password. *)
LoginAccepted(u) ==
  /\ Exists(u)
  /\ user[u].active
  /\ user[u].erasure # "erasure_completed"
  /\ user[u].password

(* get_current_user with a session cookie and no key. *)
CookieAccepted(u) == u \in loggedIn /\ user[u].active

Caller(u) == KeyAccepted(u) \/ CookieAccepted(u)

(* A request of a user, or of an admin (require_admin), reaches its handler. *)
ServesUser  == accountPc["ui"] = "ready" /\ \E u \in Users : Caller(u)
ServesAdmin == /\ accountPc["ui"] = "ready"
               /\ \E u \in Users : Caller(u) /\ user[u].role = "admin"

----------------------------------------------------------------------------
(* Seeding the admin account: ensure_admin_account and `auth create'. *)

GoTo(p, pc) == accountPc' = [accountPc EXCEPT ![p] = pc]
AfterFound(p) == IF p = "ui" THEN "password" ELSE "keys"

(* A process starts: get_user_by_username("admin"). *)
SeekAdmin(p) ==
  /\ accountPc[p] = "down"
  /\ \/ Named("admin") = {} /\ GoTo(p, "insert") /\ UNCHANGED found
     \/ \E u \in Named("admin") :
          found' = [found EXCEPT ![p] = u] /\ GoTo(p, AfterFound(p))
  /\ UNCHANGED <<user, keyed, loggedIn, erasure, reactivated, accountFaults>>

(* AuthService.create_user: the INSERT of a new row. *)
InsertsUser(u, name, role) ==
  /\ ~Exists(u)
  /\ user' = [user EXCEPT ![u] = NewUser(name, role)]

(* create_user("admin", "admin"): its own check and the INSERT.  When another
   process took the name meanwhile it raises, and the process ends. *)
InsertAdmin(p) ==
  /\ accountPc[p] = "insert"
  /\ \/ Named("admin") # {} /\ GoTo(p, "down") /\ UNCHANGED <<user, found>>
     \/ /\ Named("admin") = {}
        /\ \E u \in Users : /\ InsertsUser(u, "admin", "admin")
                            /\ found' = [found EXCEPT ![p] = u]
        /\ GoTo(p, AfterFound(p))
  /\ UNCHANGED <<keyed, loggedIn, erasure, reactivated, accountFaults>>

(* _ensure_admin_password, and set_password after create_user. *)
SetAdminPassword(p) ==
  /\ accountPc[p] = "password"
  /\ user' = [user EXCEPT ![found[p]].password = TRUE]
  /\ GoTo(p, "keys")
  /\ UNCHANGED <<keyed, loggedIn, erasure, found, reactivated, accountFaults>>

(* The UI creates a key when the account has none that is unrevoked; the
   command always creates one, and ends. *)
EnsureKey(p) ==
  /\ accountPc[p] = "keys"
  /\ keyed' = keyed \cup {found[p]}
  /\ GoTo(p, IF p = "ui" THEN "ready" ELSE "down")
  /\ found' = [found EXCEPT ![p] = Nobody]
  /\ UNCHANGED <<user, loggedIn, erasure, reactivated, accountFaults>>

SeedStep(p) ==
  SeekAdmin(p) \/ InsertAdmin(p) \/ SetAdminPassword(p) \/ EnsureKey(p)

(* The UI is stopped, at start-up between two of its commits or later, and is
   started again by its supervisor with a new session. *)
StopUi ==
  /\ accountPc["ui"] # "down"
  /\ accountPc["ui"] = "wedged" \/ accountFaults < MaxAccountFaults
  /\ accountFaults' = IF accountPc["ui"] = "wedged" THEN accountFaults ELSE accountFaults + 1
  /\ GoTo("ui", "down")
  /\ found' = [found EXCEPT !["ui"] = Nobody]
  /\ UNCHANGED <<user, keyed, loggedIn, erasure, reactivated>>

(* A flush fails because another process holds the database lock, or inserted
   the name after create_user checked it: nothing is written. *)
FlushFails ==
  /\ accountFaults < MaxAccountFaults
  /\ accountPc["ui"] = "ready"
  /\ accountFaults' = accountFaults + 1
  /\ GoTo("ui", "wedged")
  /\ UNCHANGED <<user, keyed, loggedIn, erasure, found, reactivated>>

----------------------------------------------------------------------------
(* The operations of AuthService and of ErasureManager. *)

(* update_user: any user that exists, erased ones too. *)
UpdatesUser(u) ==
  /\ \/ /\ \E role \in {"admin", "user"} :
             user' = [user EXCEPT ![u].role = role]
        /\ UNCHANGED reactivated
     \/ /\ user' = [user EXCEPT ![u].active = FALSE]
        /\ reactivated' = reactivated \ {u}
     \/ /\ user' = [user EXCEPT ![u].active = TRUE]
        /\ reactivated' = reactivated \cup ({u} \cap {v \in Users : Erased(v)})
  /\ UNCHANGED <<keyed, loggedIn, erasure>>

(* delete_user: rename, deactivate, delete the keys; the sessions stay. *)
DeletesUser(u) ==
  /\ user' = [user EXCEPT ![u].name = "deleted", ![u].active = FALSE]
  /\ keyed' = keyed \ {u}
  /\ reactivated' = reactivated \ {u}
  /\ UNCHANGED <<loggedIn, erasure>>

(* create_api_key: for any user that exists, active or not. *)
AddsKey(u) ==
  /\ keyed' = keyed \cup {u}
  /\ UNCHANGED <<user, loggedIn, erasure, reactivated>>

(* revoke_api_key, of the last key that was not revoked. *)
RevokesKey(u) ==
  /\ keyed' = keyed \ {u}
  /\ UNCHANGED <<user, loggedIn, erasure, reactivated>>

(* create_session_record, next to the cookie. *)
OpensSession(u) ==
  /\ loggedIn' = loggedIn \cup {u}
  /\ UNCHANGED <<user, keyed, erasure, reactivated>>

(* revoke_session, of the last session that was not revoked. *)
ClosesSession(u) ==
  /\ loggedIn' = loggedIn \ {u}
  /\ UNCHANGED <<user, keyed, erasure, reactivated>>

(* ErasureManager.request_erasure: a new request, whatever the state of the
   user and of its earlier requests. *)
RequestsErasure(u) ==
  /\ \E r \in Erasures :
       /\ \A q \in Erasures : erasure[q].status = "none" => q >= r
       /\ erasure[r].status = "none"
       /\ erasure' = [erasure EXCEPT
                        ![r] = [owner |-> u, status |-> "erasure_requested"]]
  /\ user' = [user EXCEPT ![u].erasure = "erasure_requested"]
  /\ UNCHANGED <<keyed, loggedIn, reactivated>>

(* ErasureManager.approve_erasure. *)
ApprovesErasure(r) ==
  /\ erasure[r].status = "erasure_requested"
  /\ erasure' = [erasure EXCEPT ![r].status = "erasure_approved"]
  /\ user' = [user EXCEPT ![erasure[r].owner].erasure = "erasure_approved"]
  /\ UNCHANGED <<keyed, loggedIn, reactivated>>

(* Variant: the erased account stays active. *)
ExecutesErasureLeavesActive(r) ==
  LET u == erasure[r].owner IN
  /\ erasure[r].status = "erasure_approved"
  /\ user' = [user EXCEPT ![u].name = "deleted",
                          ![u].erasure = "erasure_completed"]
  /\ keyed' = keyed \ {u}
  /\ erasure' = [erasure EXCEPT ![r].status = "erasure_completed"]
  /\ reactivated' = reactivated \ {u}
  /\ UNCHANGED loggedIn

(* ErasureManager.execute_erasure: rename, deactivate, mark, delete the keys;
   the sessions stay. *)
ExecutesErasure(r) ==
  LET u == erasure[r].owner IN
  /\ erasure[r].status = "erasure_approved"
  /\ user' = [user EXCEPT ![u].name = "deleted", ![u].active = FALSE,
                          ![u].erasure = "erasure_completed"]
  /\ keyed' = keyed \ {u}
  /\ erasure' = [erasure EXCEPT ![r].status = "erasure_completed"]
  /\ reactivated' = reactivated \ {u}
  /\ UNCHANGED loggedIn

----------------------------------------------------------------------------
(* The endpoints, and the commands that need no server. *)

Served == UNCHANGED <<accountPc, found, accountFaults>>

(* POST /users, under a name that is not taken. *)
CreateUser ==
  /\ ServesAdmin
  /\ Named("person") = {}
  /\ \E u \in Users : InsertsUser(u, "person", "user")
  /\ UNCHANGED <<keyed, loggedIn, erasure, reactivated>> /\ Served

(* PATCH /users/{id} *)
UpdateUser(u) == ServesAdmin /\ Exists(u) /\ UpdatesUser(u) /\ Served

(* DELETE /users/{id} *)
DeleteUser(u) == ServesAdmin /\ Exists(u) /\ DeletesUser(u) /\ Served

(* POST /api-keys, for the caller or for a user it names *)
CreateApiKey(u) == ServesUser /\ Exists(u) /\ AddsKey(u) /\ Served

(* DELETE /api-keys/{id} *)
RevokeApiKey(u) == ServesUser /\ u \in keyed /\ RevokesKey(u) /\ Served

(* `auth revoke': revoke_key_by_prefix, at any time. *)
RevokeByPrefix(u) == u \in keyed /\ RevokesKey(u) /\ Served

(* POST /auth/login *)
LogIn(u) ==
  accountPc["ui"] = "ready" /\ LoginAccepted(u) /\ OpensSession(u) /\ Served

(* POST /auth/session: a caller exchanges its credential for a session. *)
CreateSession(u) ==
  accountPc["ui"] = "ready" /\ Caller(u) /\ OpensSession(u) /\ Served

(* POST /auth/logout, or the cookie expires: the browser has it no more. *)
LogOut(u) == u \in loggedIn /\ ClosesSession(u) /\ Served

(* POST /auth/sessions/{id}/revoke *)
RevokeSession(u) == ServesAdmin /\ u \in loggedIn /\ ClosesSession(u) /\ Served

(* POST /users/{id}/erasure-request, by any caller *)
RequestErasure(u) == ServesUser /\ Exists(u) /\ RequestsErasure(u) /\ Served

(* POST /admin/erasure-requests/{id}/approve *)
ApproveErasure(r) == ServesAdmin /\ ApprovesErasure(r) /\ Served

(* POST /admin/erasure-requests/{id}/execute *)
ExecuteErasure(r) == ServesAdmin /\ ExecutesErasure(r) /\ Served

AccountsNext ==
  \/ \E p \in Processes : SeedStep(p)
  \/ StopUi \/ FlushFails
  \/ CreateUser
  \/ \E u \in Users :
       \/ UpdateUser(u)
       \/ DeleteUser(u)
       \/ CreateApiKey(u)
       \/ RevokeApiKey(u)
       \/ RevokeByPrefix(u)
       \/ LogIn(u)
       \/ CreateSession(u)
       \/ LogOut(u)
       \/ RevokeSession(u)
       \/ RequestErasure(u)
  \/ \E r \in Erasures : ApproveErasure(r) \/ ExecuteErasure(r)

AccountsSpec == AccountsInit /\ [][AccountsNext]_accountVars

----------------------------------------------------------------------------
(* After an erasure was executed nothing lets the user in: no key made since,
   no password, no session opened before, and no second request, which puts the
   status of the user back to "requested" -- unless an administrator switched
   the account on again. *)
ErasedStaysOut ==
  \A u \in Users : Erased(u) /\ u \notin reactivated =>
    ~Caller(u) /\ ~LoginAccepted(u)
=============================================================================
