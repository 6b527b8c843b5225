----------------------------- MODULE TablesProofs -----------------------------
(***************************************************************************)
(* Proofs about the components that write rows of the metadata database:   *)
(* Accounts, Tags, StoreSchema and Reclassification, each for any users,   *)
(* files, processes, values and numbers of attempts.                       *)
(*                                                                         *)
(* Each part gives the inductive invariant of its component, the lemmas on *)
(* what the component's steps keep of it, and last its theorems.           *)
(***************************************************************************)
EXTENDS Accounts, Tags, StoreSchema, Reclassification, FiniteSetTheorems, TLAPS

(***************************************************************************)
(* Accounts.  A request for erasure has an owner whose row was inserted,   *)
(* so that no INSERT reuses it; and the row of an erased user is inactive  *)
(* until update_user switches it on, whatever is done to the keys, the     *)
(* sessions, the role and further requests.                                *)
(***************************************************************************)
UserRows ==
  [name : UserNames, role : {"admin", "user"}, active : BOOLEAN,
   password : BOOLEAN, erasure : ErasureStatus]
ErasureRows == [owner : Users \cup {Nobody}, status : {"none"} \cup ErasureStatus]

ErasuresHaveOwners ==
  \A r \in Erasures : erasure[r].status # "none" =>
    erasure[r].owner \in Users /\ Exists(erasure[r].owner)

FoundWhenNeeded ==
  \A p \in Processes : accountPc[p] \in {"password", "keys"} => found[p] \in Users

ErasedIsInactive ==
  \A u \in Users : Erased(u) /\ u \notin reactivated => ~user[u].active

AccountsInv ==
  AccountsTypeOK /\ FoundWhenNeeded /\ ErasuresHaveOwners /\ ErasedIsInactive

(* The invariant holds at first.                                           *)
LEMMA AccountsInitInv == AccountsInit => AccountsInv
<1> SUFFICES ASSUME AccountsInit PROVE AccountsInv
  OBVIOUS
<1> USE AccountsAssumption
<1>0. [NewUser("none", "user") EXCEPT !.active = FALSE] \in UserRows
  BY DEF NewUser, UserRows, UserNames, ErasureStatus
<1>1. AccountsTypeOK
  <2>1. user \in [Users -> UserRows]
    BY <1>0 DEF AccountsInit
  <2>2. erasure \in [Erasures -> ErasureRows]
    BY DEF AccountsInit, ErasureRows
  <2>3. /\ keyed \subseteq Users /\ loggedIn \subseteq Users /\ reactivated \subseteq Users
        /\ accountPc \in [Processes -> {"down", "insert", "password", "keys", "ready", "wedged"}]
        /\ found \in [Processes -> Users \cup {Nobody}]
        /\ accountFaults \in 0..MaxAccountFaults
    BY DEF AccountsInit
  <2> QED
    BY <2>1, <2>2, <2>3 DEF AccountsTypeOK, UserRows, ErasureRows
<1>2. FoundWhenNeeded /\ ErasuresHaveOwners /\ ErasedIsInactive
  BY DEF AccountsInit, FoundWhenNeeded, ErasuresHaveOwners, ErasedIsInactive, Erased
<1> QED
  BY <1>1, <1>2 DEF AccountsInv

(* What a step does to the rows of the users and of the requests: the rows  *)
(* that are there stay, and their owners.                                   *)
AccountsStep == AccountsNext \/ UNCHANGED accountVars

(* Every handler keeps the types, and what an erasure has found.           *)
LEMMA AccountsTypesKept ==
  ASSUME AccountsInv, AccountsStep PROVE AccountsTypeOK' /\ FoundWhenNeeded'
<1> USE AccountsAssumption
<1>t. /\ user \in [Users -> UserRows] /\ keyed \subseteq Users /\ loggedIn \subseteq Users
      /\ erasure \in [Erasures -> ErasureRows]
      /\ accountPc \in [Processes -> {"down", "insert", "password", "keys", "ready", "wedged"}]
      /\ found \in [Processes -> Users \cup {Nobody}]
      /\ reactivated \subseteq Users /\ accountFaults \in 0..MaxAccountFaults
  BY DEF AccountsInv, AccountsTypeOK, UserRows, ErasureRows
<1>f. FoundWhenNeeded
  BY DEF AccountsInv
<1>o. ErasuresHaveOwners
  BY DEF AccountsInv
<1>n. NewUser("admin", "admin") \in UserRows /\ NewUser("person", "user") \in UserRows
  BY DEF NewUser, UserRows, UserNames, ErasureStatus
<1>r. \A row \in UserRows :
        /\ \A role \in {"admin", "user"} : [row EXCEPT !.role = role] \in UserRows
        /\ \A b \in BOOLEAN : [row EXCEPT !.active = b] \in UserRows
        /\ \A e \in ErasureStatus : [row EXCEPT !.erasure = e] \in UserRows
        /\ [row EXCEPT !.name = "deleted", !.active = FALSE] \in UserRows
        /\ [row EXCEPT !.name = "deleted", !.active = FALSE,
                      !.erasure = "erasure_completed"] \in UserRows
  BY DEF UserRows, UserNames, ErasureStatus
<1>e. /\ \A row \in ErasureRows, s \in ErasureStatus : [row EXCEPT !.status = s] \in ErasureRows
      /\ \A u \in Users : [owner |-> u, status |-> "erasure_requested"] \in ErasureRows
  BY DEF ErasureRows, ErasureStatus
<1>s. {"erasure_requested", "erasure_approved", "erasure_completed"} \subseteq ErasureStatus
  BY DEF ErasureStatus
<1>g. ASSUME /\ user' \in [Users -> UserRows] /\ keyed' \subseteq Users /\ loggedIn' \subseteq Users
             /\ erasure' \in [Erasures -> ErasureRows]
             /\ reactivated' \subseteq Users
             /\ UNCHANGED <<accountPc, found, accountFaults>>
      PROVE AccountsTypeOK' /\ FoundWhenNeeded'
  BY <1>t, <1>f, <1>g DEF AccountsTypeOK, FoundWhenNeeded, UserRows, ErasureRows
<1>h. ASSUME UNCHANGED <<keyed, loggedIn, erasure, reactivated>>,
             user' \in [Users -> UserRows], Served
      PROVE AccountsTypeOK' /\ FoundWhenNeeded'
  BY <1>h, <1>g, <1>t DEF Served
<1>1. ASSUME NEW p \in Processes, SeedStep(p) PROVE AccountsTypeOK' /\ FoundWhenNeeded'
  <2>1. CASE SeekAdmin(p)
    BY <1>t, <1>f, <2>1 DEF SeekAdmin, GoTo, AfterFound, Named, AccountsTypeOK, FoundWhenNeeded, UserRows, ErasureRows
  <2>2. CASE InsertAdmin(p)
    <3>1. user' \in [Users -> UserRows]
      BY <1>t, <1>n, <2>2 DEF InsertAdmin, InsertsUser
    <3>2. accountPc' \in [Processes -> {"down", "insert", "password", "keys", "ready", "wedged"}]
          /\ found' \in [Processes -> Users \cup {Nobody}]
      BY <1>t, <2>2 DEF InsertAdmin, GoTo, AfterFound
    <3>3. FoundWhenNeeded'
      BY <1>t, <1>f, <2>2 DEF InsertAdmin, GoTo, AfterFound, FoundWhenNeeded
    <3> QED
      BY <1>t, <2>2, <3>1, <3>2, <3>3 DEF InsertAdmin, AccountsTypeOK, UserRows, ErasureRows
  <2>3. CASE SetAdminPassword(p)
    <3>1. user' \in [Users -> UserRows]
      BY <1>t, <2>3 DEF SetAdminPassword, UserRows
    <3> QED
      BY <1>t, <1>f, <2>3, <3>1 DEF SetAdminPassword, GoTo, AccountsTypeOK, FoundWhenNeeded, UserRows, ErasureRows
  <2>4. CASE EnsureKey(p)
    BY <1>t, <1>f, <2>4 DEF EnsureKey, GoTo, AccountsTypeOK, FoundWhenNeeded, UserRows, ErasureRows
  <2> QED
    BY <1>1, <2>1, <2>2, <2>3, <2>4 DEF SeedStep
<1>2. CASE StopUi \/ FlushFails
  BY <1>t, <1>f, <1>2 DEF StopUi, FlushFails, GoTo, AccountsTypeOK, FoundWhenNeeded, UserRows, ErasureRows, Processes
<1>3. CASE CreateUser
  BY <1>t, <1>3, <1>h DEF CreateUser, InsertsUser, NewUser, UserRows, UserNames, ErasureStatus
<1>4. ASSUME NEW u \in Users,
        \/ UpdateUser(u) \/ DeleteUser(u) \/ CreateApiKey(u) \/ RevokeApiKey(u)
        \/ RevokeByPrefix(u) \/ LogIn(u) \/ CreateSession(u) \/ LogOut(u)
        \/ RevokeSession(u) \/ RequestErasure(u)
      PROVE AccountsTypeOK' /\ FoundWhenNeeded'
  <2>s. Served
    BY <1>4 DEF UpdateUser, DeleteUser, CreateApiKey, RevokeApiKey, RevokeByPrefix, LogIn,
      CreateSession, LogOut, RevokeSession, RequestErasure
  <2>1. CASE UpdatesUser(u)
    <3>1. user' \in [Users -> UserRows]
      <4>1. \/ \E role \in {"admin", "user"} : user' = [user EXCEPT ![u].role = role]
            \/ \E b \in BOOLEAN : user' = [user EXCEPT ![u].active = b]
        BY <2>1 DEF UpdatesUser
      <4>2. PICK row \in UserRows : user' = [user EXCEPT ![u] = row]
        BY <1>t, <1>r, <4>1
      <4> QED
        BY <1>t, <4>2
    <3> QED
      BY <1>t, <1>g, <2>s, <2>1, <3>1 DEF UpdatesUser, Served
  <2>2. CASE DeletesUser(u)
    <3>1. user' = [user EXCEPT ![u] = [user[u] EXCEPT !.name = "deleted", !.active = FALSE]]
      BY <1>t, <2>2 DEF DeletesUser
    <3>2. user' \in [Users -> UserRows]
      BY <1>t, <1>r, <3>1
    <3> QED
      BY <1>t, <1>g, <2>s, <2>2, <3>2 DEF DeletesUser, Served
  <2>3. CASE AddsKey(u) \/ RevokesKey(u) \/ OpensSession(u) \/ ClosesSession(u)
    BY <1>t, <1>g, <2>s, <2>3 DEF AddsKey, RevokesKey, OpensSession, ClosesSession, Served
  <2>4. CASE RequestsErasure(u)
    <3>1. user' \in [Users -> UserRows] /\ erasure' \in [Erasures -> ErasureRows]
      BY <1>t, <1>r, <1>e, <1>s, <2>4 DEF RequestsErasure
    <3> QED
      BY <1>t, <1>g, <2>s, <2>4, <3>1 DEF RequestsErasure, Served
  <2> QED
    BY <1>4, <2>1, <2>2, <2>3, <2>4 DEF UpdateUser, DeleteUser, CreateApiKey, RevokeApiKey,
      RevokeByPrefix, LogIn, CreateSession, LogOut, RevokeSession, RequestErasure
<1>5. ASSUME NEW r \in Erasures, ApproveErasure(r) \/ ExecuteErasure(r)
      PROVE AccountsTypeOK' /\ FoundWhenNeeded'
  <2> DEFINE w == erasure[r].owner
  <2>w. w \in Users
    BY <1>5, <1>o DEF ApproveErasure, ExecuteErasure, ApprovesErasure, ExecutesErasure,
      ErasuresHaveOwners
  <2>1. CASE ApproveErasure(r)
    <3>1. /\ user' = [user EXCEPT ![w] = [user[w] EXCEPT !.erasure = "erasure_approved"]]
          /\ erasure' = [erasure EXCEPT ![r] = [erasure[r] EXCEPT !.status = "erasure_approved"]]
      BY <1>t, <2>1 DEF ApproveErasure, ApprovesErasure
    <3>2. user' \in [Users -> UserRows] /\ erasure' \in [Erasures -> ErasureRows]
      <4> HIDE DEF w
      <4> QED BY <1>t, <1>r, <1>e, <1>s, <2>w, <3>1
    <3> QED
      BY <1>t, <1>g, <2>1, <3>2 DEF ApproveErasure, ApprovesErasure, Served
  <2>2. CASE ExecuteErasure(r)
    <3>1. /\ user' = [user EXCEPT ![w] = [user[w] EXCEPT
                        !.name = "deleted", !.active = FALSE, !.erasure = "erasure_completed"]]
          /\ erasure' = [erasure EXCEPT ![r] = [erasure[r] EXCEPT !.status = "erasure_completed"]]
      BY <1>t, <2>w, <2>2 DEF ExecuteErasure, ExecutesErasure
    <3>2. user' \in [Users -> UserRows] /\ erasure' \in [Erasures -> ErasureRows]
      <4> HIDE DEF w
      <4> QED BY <1>t, <1>r, <1>e, <1>s, <2>w, <3>1
    <3> QED
      BY <1>t, <1>g, <2>2, <3>2 DEF ExecuteErasure, ExecutesErasure, Served
  <2> QED
    BY <1>5, <2>1, <2>2
<1>6. CASE UNCHANGED accountVars
  BY <1>t, <1>g, <1>6 DEF accountVars
<1> QED
  BY <1>1, <1>2, <1>3, <1>4, <1>5, <1>6 DEF AccountsStep, AccountsNext

(* A step loses no owner. *)
LEMMA OwnersKept ==
  ASSUME AccountsInv, AccountsStep PROVE ErasuresHaveOwners'
<1> USE AccountsAssumption
<1>t. /\ user \in [Users -> UserRows] /\ erasure \in [Erasures -> ErasureRows]
      /\ found \in [Processes -> Users \cup {Nobody}]
      /\ ErasuresHaveOwners
  BY DEF AccountsInv, AccountsTypeOK, UserRows, ErasureRows
<1>g. ASSUME \A u \in Users : user[u].name # "none" => user'[u].name # "none",
             UNCHANGED erasure
      PROVE ErasuresHaveOwners'
  BY <1>t, <1>g DEF ErasuresHaveOwners, Exists, ErasureRows
<1>1. ASSUME NEW p \in Processes, SeedStep(p) PROVE ErasuresHaveOwners'
  <2>1. \A u \in Users : user[u].name # "none" => user'[u].name # "none"
    BY <1>t, <1>1 DEF SeedStep, SeekAdmin, InsertAdmin, SetAdminPassword, EnsureKey,
      InsertsUser, Exists, NewUser, UserRows
  <2> QED
    BY <1>1, <1>g, <2>1 DEF SeedStep, SeekAdmin, InsertAdmin, SetAdminPassword, EnsureKey
<1>2. CASE StopUi \/ FlushFails
  BY <1>g, <1>2 DEF StopUi, FlushFails
<1>3. CASE CreateUser
  BY <1>t, <1>3, <1>g DEF CreateUser, InsertsUser, Exists, NewUser, UserRows
<1>4. ASSUME NEW u \in Users,
        \/ UpdateUser(u) \/ DeleteUser(u) \/ CreateApiKey(u) \/ RevokeApiKey(u)
        \/ RevokeByPrefix(u) \/ LogIn(u) \/ CreateSession(u) \/ LogOut(u)
        \/ RevokeSession(u)
      PROVE ErasuresHaveOwners'
  <2>1. CASE UpdatesUser(u) \/ DeletesUser(u)
    BY <1>t, <1>g, <2>1 DEF UpdatesUser, DeletesUser, UserRows
  <2>2. CASE AddsKey(u) \/ RevokesKey(u) \/ OpensSession(u) \/ ClosesSession(u)
    BY <1>g, <2>2 DEF AddsKey, RevokesKey, OpensSession, ClosesSession
  <2> QED
    BY <1>4, <2>1, <2>2 DEF UpdateUser, DeleteUser, CreateApiKey, RevokeApiKey,
      RevokeByPrefix, LogIn, CreateSession, LogOut, RevokeSession
<1>5. ASSUME NEW u \in Users, RequestErasure(u) PROVE ErasuresHaveOwners'
  <2>1. Exists(u) /\ RequestsErasure(u)
    BY <1>5 DEF RequestErasure
  <2>2. \A v \in Users : user[v].name # "none" => user'[v].name # "none"
    BY <1>t, <2>1 DEF RequestsErasure, UserRows
  <2>3. PICK r \in Erasures :
          erasure' = [erasure EXCEPT ![r] = [owner |-> u, status |-> "erasure_requested"]]
    BY <2>1 DEF RequestsErasure
  <2> QED
    BY <1>t, <2>1, <2>2, <2>3 DEF ErasuresHaveOwners, Exists
<1>6. ASSUME NEW r \in Erasures, ApproveErasure(r) \/ ExecuteErasure(r)
      PROVE ErasuresHaveOwners'
  <2>1. /\ erasure[r].status # "none"
        /\ \A q \in Erasures : /\ erasure'[q].owner = erasure[q].owner
                               /\ erasure'[q].status = "none" <=> erasure[q].status = "none"
    BY <1>t, <1>6 DEF ApproveErasure, ExecuteErasure, ApprovesErasure, ExecutesErasure, ErasureRows
  <2>2. \A v \in Users : user[v].name # "none" => user'[v].name # "none"
    BY <1>t, <1>6 DEF ApproveErasure, ExecuteErasure, ApprovesErasure, ExecutesErasure, UserRows
  <2> QED
    BY <1>t, <2>1, <2>2 DEF ErasuresHaveOwners, Exists
<1>7. CASE UNCHANGED accountVars
  BY <1>t, <1>g, <1>7 DEF accountVars
<1> QED
  BY <1>1, <1>2, <1>3, <1>4, <1>5, <1>6, <1>7 DEF AccountsStep, AccountsNext

(* A step that neither completes an erasure nor switches an account on      *)
(* leaves the erased ones off.                                              *)
LEMMA InactiveKept ==
  ASSUME AccountsInv, AccountsStep PROVE ErasedIsInactive'
<1> USE AccountsAssumption
<1>t. /\ user \in [Users -> UserRows] /\ erasure \in [Erasures -> ErasureRows]
      /\ found \in [Processes -> Users \cup {Nobody}]
      /\ ErasuresHaveOwners /\ ErasedIsInactive
  BY DEF AccountsInv, AccountsTypeOK, UserRows, ErasureRows
<1>e. \A u \in Users : Erased(u) => Exists(u)
  BY <1>t DEF ErasuresHaveOwners, Erased
<1>g. ASSUME \A u \in Users : user[u].name # "none" /\ ~user[u].active => ~user'[u].active,
             \A u \in Users : Erased(u)' => Erased(u),
             UNCHANGED reactivated
      PROVE ErasedIsInactive'
  BY <1>t, <1>e, <1>g DEF ErasedIsInactive, Exists
<1>k. (UNCHANGED erasure) => \A u \in Users : Erased(u)' <=> Erased(u)
  BY DEF Erased
<1>1. ASSUME NEW p \in Processes, SeedStep(p) PROVE ErasedIsInactive'
  <2>1. \A u \in Users : user[u].name # "none" /\ ~user[u].active => ~user'[u].active
    BY <1>t, <1>1 DEF SeedStep, SeekAdmin, InsertAdmin, SetAdminPassword, EnsureKey,
      InsertsUser, Exists, NewUser, UserRows
  <2> QED
    BY <1>1, <1>g, <1>k, <2>1 DEF SeedStep, SeekAdmin, InsertAdmin, SetAdminPassword, EnsureKey
<1>2. CASE StopUi \/ FlushFails
  BY <1>g, <1>k, <1>2 DEF StopUi, FlushFails
<1>3. CASE CreateUser
  BY <1>t, <1>3, <1>g, <1>k DEF CreateUser, InsertsUser, Exists, NewUser, UserRows
<1>4. ASSUME NEW u \in Users,
        \/ UpdateUser(u) \/ DeleteUser(u) \/ CreateApiKey(u) \/ RevokeApiKey(u)
        \/ RevokeByPrefix(u) \/ LogIn(u) \/ CreateSession(u) \/ LogOut(u)
        \/ RevokeSession(u)
      PROVE ErasedIsInactive'
  <2>1. CASE UpdatesUser(u) \/ DeletesUser(u)
    <3>1. \A v \in Users : Erased(v)' <=> Erased(v)
      BY <2>1, <1>k DEF UpdatesUser, DeletesUser
    <3> QED
      BY <1>t, <2>1, <3>1 DEF UpdatesUser, DeletesUser, UserRows, ErasedIsInactive
  <2>2. CASE AddsKey(u) \/ RevokesKey(u) \/ OpensSession(u) \/ ClosesSession(u)
    BY <1>g, <1>k, <2>2 DEF AddsKey, RevokesKey, OpensSession, ClosesSession
  <2> QED
    BY <1>4, <2>1, <2>2 DEF UpdateUser, DeleteUser, CreateApiKey, RevokeApiKey,
      RevokeByPrefix, LogIn, CreateSession, LogOut, RevokeSession
<1>5. ASSUME NEW u \in Users, RequestErasure(u) PROVE ErasedIsInactive'
  <2>1. RequestsErasure(u)
    BY <1>5 DEF RequestErasure
  <2>2. \A v \in Users : ~user[v].active => ~user'[v].active
    BY <1>t, <2>1 DEF RequestsErasure, UserRows
  <2>3. PICK r \in Erasures :
          erasure' = [erasure EXCEPT ![r] = [owner |-> u, status |-> "erasure_requested"]]
    BY <2>1 DEF RequestsErasure
  <2>4. \A v \in Users : Erased(v)' => Erased(v)
    BY <1>t, <2>3 DEF Erased
  <2> QED
    BY <1>g, <2>1, <2>2, <2>4 DEF RequestsErasure
<1>6. ASSUME NEW r \in Erasures, ApproveErasure(r) PROVE ErasedIsInactive'
  <2>1. \A v \in Users : ~user[v].active => ~user'[v].active
    BY <1>t, <1>6 DEF ApproveErasure, ApprovesErasure, UserRows
  <2>2. \A v \in Users : Erased(v)' => Erased(v)
    BY <1>t, <1>6 DEF ApproveErasure, ApprovesErasure, Erased, ErasureRows
  <2> QED
    BY <1>g, <1>6, <2>1, <2>2 DEF ApproveErasure, ApprovesErasure
<1>7. ASSUME NEW r \in Erasures, ExecuteErasure(r) PROVE ErasedIsInactive'
  <2> DEFINE w == erasure[r].owner
  <2>1. ExecutesErasure(r)
    BY <1>7 DEF ExecuteErasure
  <2>2. w \in Users
    BY <1>t, <2>1 DEF ExecutesErasure, ErasuresHaveOwners
  <2>3. ~user'[w].active /\ \A v \in Users \ {w} : user'[v].active = user[v].active
    BY <1>t, <2>1, <2>2 DEF ExecutesErasure, UserRows
  <2>4. \A v \in Users \ {w} : Erased(v)' => Erased(v)
    BY <1>t, <2>1 DEF ExecutesErasure, Erased, ErasureRows
  <2>5. reactivated' = reactivated \ {w}
    BY <2>1 DEF ExecutesErasure
  <2> QED
    BY <1>t, <2>3, <2>4, <2>5 DEF ErasedIsInactive
<1>8. CASE UNCHANGED accountVars
  BY <1>t, <1>g, <1>k, <1>8 DEF accountVars
<1> QED
  BY <1>1, <1>2, <1>3, <1>4, <1>5, <1>6, <1>7, <1>8 DEF AccountsStep, AccountsNext

(* Accounts keep their types, and an erased account is off. *)
THEOREM AccountsInvariant == AccountsSpec => []AccountsInv
<1>1. AccountsInit => AccountsInv
  BY AccountsInitInv
<1>2. AccountsInv /\ [AccountsNext]_accountVars => AccountsInv'
  BY AccountsTypesKept, OwnersKept, InactiveKept DEF AccountsInv, AccountsStep
<1> QED
  BY <1>1, <1>2, PTL DEF AccountsSpec

(* No key, password or session lets an erased user in again, for any number *)
(* of users and requests.                                                   *)
THEOREM ErasedUsersStayOut == AccountsSpec => []ErasedStaysOut
<1>1. AccountsInv => ErasedStaysOut
  BY DEF AccountsInv, ErasedIsInactive, ErasedStaysOut, Caller, KeyAccepted, CookieAccepted,
    LoginAccepted
<1> QED
  BY <1>1, AccountsInvariant, PTL

-----------------------------------------------------------------------------
(***************************************************************************)
(* Tags.  A command that stands between its two writes of a file that      *)
(* nothing else has touched is about to write in the registry what the     *)
(* chunks have: so that finishing it makes the two agree, and leaving it   *)
(* leaves what its edit, repeated, would make.                             *)
(***************************************************************************)
TagSets == [Files -> SUBSET TagNames]
TagEdits == Edits \cup Deletions
TagCommands ==
  [pc : {"chunks", "registry"}, edit : TagEdits, held : SUBSET Files,
   todo : (SUBSET Files) \ {{}}, read : TagSets]

CommandsTyped == editing \in [Taggers -> TagCommands \cup {NoCommand}]

HalfWritten ==
  \A o \in Taggers :
    editing[o].pc = "registry" /\ Current(o) \in editing[o].held \ diverged
      => indexed[Current(o)] = NewTags(o)

TagsInv == TagsTypeOK /\ CommandsTyped /\ HalfWritten /\ RepeatingRepairs

TagsStep == TagsNext \/ UNCHANGED tagVars

(* A command in TagCommands is at a file, and has a value for it. *)
LEMMA CommandAtFile ==
  ASSUME CommandsTyped, NEW o \in Taggers, editing[o].pc \in {"chunks", "registry"}
  PROVE  /\ editing[o] \in TagCommands /\ editing[o] # NoCommand
         /\ Current(o) \in editing[o].todo /\ Current(o) \in Files
         /\ NewTags(o) \in SUBSET TagNames
         /\ NewTags(o) = Edited(editing[o].edit, editing[o].read[Current(o)])
<1>1. editing[o] \in TagCommands /\ editing[o] # NoCommand
  BY DEF CommandsTyped, NoCommand
<1>2. Current(o) \in editing[o].todo
  BY <1>1 DEF TagCommands, Current
<1>3. editing[o].edit \in TagEdits /\ editing[o].read[Current(o)] \in SUBSET TagNames
  BY <1>1, <1>2 DEF TagCommands, TagSets
<1>4. NewTags(o) \in SUBSET TagNames
  BY <1>3 DEF NewTags, Edited, Edits, Deletions, TagEdits, TagLists
<1> QED
  BY <1>1, <1>2, <1>4 DEF TagCommands, NewTags

(* After a file, a command goes on to the chunks of another one, or is at  *)
(* its end.                                                                *)
LEMMA NextFileTyped ==
  ASSUME CommandsTyped, NEW o \in Taggers, editing[o] \in TagCommands, NEW f \in Files
  PROVE  /\ AfterFile(o, f) \in TagCommands \cup {NoCommand}
         /\ AfterFile(o, f) # NoCommand =>
              AfterFile(o, f).pc = "chunks" /\ AfterFile(o, f).todo = editing[o].todo \ {f}
         /\ AfterFile(o, f).pc # "registry"
<1>1. CASE editing[o].todo = {f}
  BY <1>1 DEF AfterFile, NoCommand
<1>2. CASE editing[o].todo # {f}
  <2>1. editing[o].todo \ {f} # {}
    BY <1>2 DEF TagCommands
  <2> QED
    BY <1>2, <2>1 DEF AfterFile, TagCommands
<1> QED
  BY <1>1, <1>2

(* The invariant holds at first.                                           *)
LEMMA TagsInitInv == TagsInit => TagsInv
<1> SUFFICES ASSUME TagsInit PROVE TagsInv
  OBVIOUS
<1>2. TagsTypeOK
  BY TagsAssumption DEF TagsInit, TagsTypeOK, NoEdit
<1>3. CommandsTyped /\ HalfWritten /\ RepeatingRepairs
  BY DEF TagsInit, CommandsTyped, HalfWritten, RepeatingRepairs, NoCommand
<1> QED
  BY <1>2, <1>3 DEF TagsInv

(* What the steps leave in their types, with the invariant that says what a *)
(* command holds.                                                           *)
TagsTyped ==
  /\ registered \in TagSets /\ indexed \in TagSets
  /\ lastEdit \in [Files -> TagEdits \cup {NoEdit}]
  /\ diverged \subseteq Files
  /\ tagFailures \in 0..MaxFailures
  /\ CommandsTyped

(* The types in the form in which the proofs use them.                     *)
LEMMA TypedIsTypeOK == TagsTyped <=> TagsTypeOK /\ CommandsTyped
<1>1. CommandsTyped =>
        \A o \in Taggers :
          \/ editing[o] = NoCommand
          \/ /\ editing[o].pc \in {"chunks", "registry"}
             /\ editing[o].edit \in Edits \cup Deletions
             /\ editing[o].held \subseteq Files
             /\ editing[o].todo \in (SUBSET Files) \ {{}}
             /\ editing[o].read \in [Files -> SUBSET TagNames]
  BY DEF CommandsTyped, TagCommands, TagSets, TagEdits
<1> QED
  BY <1>1 DEF TagsTyped, TagsTypeOK, TagSets, TagEdits

(* Every step keeps the types.                                             *)
LEMMA TagsTypesKept ==
  ASSUME TagsTyped, TagsStep PROVE TagsTyped'
<1> USE TagsAssumption
<1>c. CommandsTyped
  BY DEF TagsTyped
<1>e. \A edit \in Edits, T \in SUBSET TagNames : Edited(edit, T) \in SUBSET TagNames
  BY DEF Edits, Edited, TagLists
<1>s. ASSUME NEW o \in Taggers, NEW edit \in TagEdits, NEW S \in SUBSET Files,
             NEW held \in SUBSET Files, StartEdit(o, edit, S, held)
      PROVE TagsTyped'
  <2>1. [pc |-> "chunks", edit |-> edit, held |-> held, todo |-> S, read |-> registered]
          \in TagCommands
    BY <1>s DEF StartEdit, TagCommands, TagsTyped
  <2>2. CommandsTyped'
    BY <1>s, <1>c, <2>1 DEF StartEdit, CommandsTyped
  <2> QED
    BY <1>s, <2>2 DEF StartEdit, TagsTyped
<1>1. ASSUME NEW o \in Taggers, NEW edit \in Edits, NEW S \in SUBSET Files,
             NEW held \in SUBSET Files, UpdateTags(o, edit, S, held)
      PROVE TagsTyped'
  BY <1>1, <1>s DEF UpdateTags, TagEdits
<1>2. ASSUME NEW o \in Taggers, NEW t \in TagNames, NEW held \in SUBSET Files,
             DeleteTag(o, t, held)
      PROVE TagsTyped'
  <2>2. [kind |-> "delete", tags |-> {t}] \in TagEdits
    BY DEF Deletions, TagEdits
  <2>3. {f \in Files : t \in registered[f]} \in SUBSET Files
    OBVIOUS
  <2> QED
    BY <1>2, <1>s, <2>2, <2>3 DEF DeleteTag
<1>3. ASSUME NEW o \in Taggers, SkipFile(o) PROVE TagsTyped'
  <2>1. editing[o] \in TagCommands /\ Current(o) \in Files
    BY <1>3, <1>c, CommandAtFile DEF SkipFile
  <2>2. CommandsTyped'
    BY <1>3, <1>c, <2>1, NextFileTyped DEF SkipFile, CommandsTyped
  <2> QED
    BY <1>3, <2>2 DEF SkipFile, TagsTyped
<1>4. ASSUME NEW o \in Taggers, WriteChunks(o) PROVE TagsTyped'
  <2>1. /\ editing[o] \in TagCommands /\ Current(o) \in Files
        /\ NewTags(o) \in SUBSET TagNames
    BY <1>4, <1>c, CommandAtFile DEF WriteChunks
  <2>2. CommandsTyped'
    BY <1>4, <1>c, <2>1 DEF WriteChunks, CommandsTyped, TagCommands
  <2>3. indexed' \in TagSets
    BY <1>4, <2>1 DEF WriteChunks, TagSets, TagsTyped
  <2>4. lastEdit' \in [Files -> TagEdits \cup {NoEdit}] /\ diverged' \subseteq Files
    BY <1>4, <2>1 DEF WriteChunks, TagsTyped, TagCommands
  <2> QED
    BY <1>4, <2>2, <2>3, <2>4 DEF WriteChunks, TagsTyped
<1>5. ASSUME NEW o \in Taggers, WriteRegistry(o) PROVE TagsTyped'
  <2>1. /\ editing[o] \in TagCommands /\ Current(o) \in Files
        /\ NewTags(o) \in SUBSET TagNames
    BY <1>5, <1>c, CommandAtFile DEF WriteRegistry
  <2>2. CommandsTyped'
    BY <1>5, <1>c, <2>1, NextFileTyped DEF WriteRegistry, CommandsTyped
  <2>3. diverged' \subseteq Files
    BY <1>5, <2>1 DEF WriteRegistry, Divergence, TagsTyped
  <2>4. lastEdit' \in [Files -> TagEdits \cup {NoEdit}]
    BY <1>5, <2>1 DEF WriteRegistry, TagsTyped
  <2> QED
    BY <1>5, <2>1, <2>2, <2>3, <2>4 DEF WriteRegistry, TagsTyped, TagSets
<1>6. ASSUME NEW o \in Taggers, FailFile(o) PROVE TagsTyped'
  <2>1. editing[o] \in TagCommands /\ Current(o) \in Files
    BY <1>6, <1>c, CommandAtFile DEF FailFile, CommandsTyped, TagCommands
  <2>2. CommandsTyped'
    BY <1>6, <1>c, <2>1, NextFileTyped DEF FailFile, CommandsTyped
  <2> QED
    BY <1>6, <2>2 DEF FailFile, TagsTyped
<1>b. ASSUME NEW edit \in Edits, NEW S \in SUBSET Files, BulkEdit(edit, S) PROVE TagsTyped'
  <2>1. registered' \in TagSets
    BY <1>b, <1>e DEF BulkEdit, TagsTyped, TagSets
  <2>2. CommandsTyped'
    BY <1>b, <1>c DEF BulkEdit, CommandsTyped
  <2> QED
    BY <1>b, <2>1, <2>2 DEF BulkEdit, TagsTyped
<1>7. ASSUME NEW tags \in TagLists, NEW S \in SUBSET Files, BulkAdd(tags, S) \/ BulkRemove(tags, S)
      PROVE TagsTyped'
  BY <1>7, <1>b DEF BulkAdd, BulkRemove, Edits
<1>8. ASSUME NEW edit \in Edits, NEW S \in SUBSET Files, BulkExecute(edit, S) PROVE TagsTyped'
  BY <1>8, <1>b DEF BulkExecute
<1>9. ASSUME NEW f \in Files, Reingest(f) PROVE TagsTyped'
  <2>2. indexed' \in TagSets
    BY <1>9 DEF Reingest, TagsTyped, TagSets
  <2>3. CommandsTyped'
    BY <1>9, <1>c DEF Reingest, CommandsTyped
  <2> QED
    BY <1>9, <2>2, <2>3 DEF Reingest, TagsTyped
<1>u. CASE UNCHANGED tagVars
  BY <1>u DEF tagVars, TagsTyped, CommandsTyped
<1> QED
  BY <1>1, <1>2, <1>3, <1>4, <1>5, <1>6, <1>7, <1>8, <1>9, <1>u DEF TagsStep, TagsNext

(* The chunks of f, or what its registry and the last edit make of them. *)
Repairable(f) ==
  \/ indexed[f] = registered[f]
  \/ lastEdit[f] # NoEdit /\ indexed[f] = Edited(lastEdit[f], registered[f])

(* An operator that is not in the way of o at f has no file f left to do,   *)
(* and o knows what the registry has.                                       *)
LEMMA Uncontended ==
  ASSUME CommandsTyped, NEW o \in Taggers, editing[o] \in TagCommands,
         NEW f \in Files, f \notin Contended(o)
  PROVE  /\ editing[o].read[f] = registered[f]
         /\ \A p \in Taggers \ {o} : editing[p] # NoCommand => f \notin editing[p].todo
<1>1. ASSUME editing[o].read[f] # registered[f] PROVE FALSE
  <2>1. f \in {g \in Files : editing[o].read[g] # registered[g]}
    BY <1>1
  <2> QED
    BY <2>1 DEF Contended
<1>2. ASSUME NEW p \in Taggers \ {o}, editing[p] # NoCommand, f \in editing[p].todo
      PROVE FALSE
  <2>1. p \in {q \in Taggers \ {o} : editing[q] # NoCommand}
    BY <1>2
  <2>2. f \in UNION {editing[q].todo : q \in {q \in Taggers \ {o} : editing[q] # NoCommand}}
    BY <1>2, <2>1
  <2> QED
    BY <2>2, Zenon DEF Contended
<1> QED
  BY <1>1, <1>2

(* Steps that leave the chunks and the registry of the file alone. *)
LEMMA SameFile ==
  ASSUME NEW f \in Files, Repairable(f),
         indexed'[f] = indexed[f], registered'[f] = registered[f], lastEdit'[f] = lastEdit[f]
  PROVE  Repairable(f)'
BY DEF Repairable

(* The operators o whose command has not moved keep what they know, when   *)
(* the chunks that they have written are as they were.                     *)
KnownHalf(o) ==
  editing[o].pc = "registry" /\ Current(o) \in editing[o].held \ diverged
    => indexed[Current(o)] = NewTags(o)

(* A command that has not moved knows what it knew, when nobody wrote the  *)
(* file it is at.                                                          *)
LEMMA SameCommand ==
  ASSUME CommandsTyped, NEW o \in Taggers, KnownHalf(o), editing'[o] = editing[o],
         editing[o].pc = "registry" =>
           \/ Current(o) \in diverged'
           \/ indexed'[Current(o)] = indexed[Current(o)] /\ Current(o) \notin diverged
  PROVE  KnownHalf(o)'
BY CommandAtFile DEF KnownHalf, Current, NewTags

(* Every step keeps what the places of the commands say, and that          *)
(* repeating repairs.                                                      *)
LEMMA RepairKept ==
  ASSUME TagsTyped, HalfWritten, RepeatingRepairs, TagsStep
  PROVE  HalfWritten' /\ RepeatingRepairs'
<1>c. /\ CommandsTyped /\ indexed \in TagSets /\ registered \in TagSets
      /\ lastEdit \in [Files -> TagEdits \cup {NoEdit}] /\ diverged \subseteq Files
  BY DEF TagsTyped
<1>h. \A o \in Taggers : KnownHalf(o)
  BY DEF HalfWritten, KnownHalf
<1>r. \A f \in Files \ diverged : Repairable(f)
  BY DEF RepeatingRepairs, Repairable
<1> SUFFICES /\ \A o \in Taggers : KnownHalf(o)'
             /\ \A f \in Files : f \notin diverged' => Repairable(f)'
  BY DEF HalfWritten, KnownHalf, RepeatingRepairs, Repairable
(* Steps of one command that write nothing. *)
<1>a. ASSUME NEW o \in Taggers, UNCHANGED <<registered, indexed, lastEdit, diverged>>,
             \A p \in Taggers \ {o} : editing'[p] = editing[p],
             editing'[o].pc # "registry"
      PROVE /\ \A p \in Taggers : KnownHalf(p)'
            /\ \A f \in Files : f \notin diverged' => Repairable(f)'
  <2>1. KnownHalf(o)'
    BY <1>a DEF KnownHalf
  <2>2. \A p \in Taggers \ {o} : KnownHalf(p)'
    BY <1>a, <1>h, <1>c, SameCommand
  <2> QED
    BY <1>a, <1>r, <2>1, <2>2, SameFile
<1>1. ASSUME NEW o \in Taggers, NEW edit, NEW S, NEW held, StartEdit(o, edit, S, held)
      PROVE /\ \A p \in Taggers : KnownHalf(p)'
            /\ \A f \in Files : f \notin diverged' => Repairable(f)'
  BY <1>1, <1>a, <1>c DEF StartEdit, CommandsTyped
<1>2. ASSUME NEW o \in Taggers, SkipFile(o)
      PROVE /\ \A p \in Taggers : KnownHalf(p)'
            /\ \A f \in Files : f \notin diverged' => Repairable(f)'
  <2>1. editing[o] \in TagCommands /\ Current(o) \in Files
    BY <1>2, <1>c, CommandAtFile DEF SkipFile
  <2>2. AfterFile(o, Current(o)).pc # "registry"
    BY <1>c, <2>1, NextFileTyped
  <2> QED
    BY <1>2, <1>a, <1>c, <2>2 DEF SkipFile, CommandsTyped
<1>3. ASSUME NEW o \in Taggers, FailFile(o)
      PROVE /\ \A p \in Taggers : KnownHalf(p)'
            /\ \A f \in Files : f \notin diverged' => Repairable(f)'
  <2>1. editing[o] \in TagCommands /\ Current(o) \in Files
    BY <1>3, <1>c, CommandAtFile DEF FailFile, CommandsTyped, TagCommands
  <2>2. AfterFile(o, Current(o)).pc # "registry" /\ NoCommand.pc # "registry"
    BY <1>c, <2>1, NextFileTyped DEF NoCommand
  <2> QED
    BY <1>3, <1>a, <1>c, <2>2 DEF FailFile, CommandsTyped
(* The chunks of f: either nobody else is at f, or f has diverged. *)
<1>4. ASSUME NEW o \in Taggers, WriteChunks(o)
      PROVE /\ \A p \in Taggers : KnownHalf(p)'
            /\ \A f \in Files : f \notin diverged' => Repairable(f)'
  <2>0. PICK f \in Files : f = Current(o)
    BY <1>4, <1>c, CommandAtFile DEF WriteChunks
  <2>1. /\ editing[o] \in TagCommands /\ f \in editing[o].todo /\ f \in Files
        /\ NewTags(o) = Edited(editing[o].edit, editing[o].read[f])
    BY <1>4, <1>c, <2>0, CommandAtFile DEF WriteChunks
  <2>9. CASE f \notin editing[o].held
    <3>1. UNCHANGED <<registered, indexed, lastEdit, diverged>>
          /\ editing'[o] = [editing[o] EXCEPT !.pc = "registry"]
          /\ \A p \in Taggers \ {o} : editing'[p] = editing[p]
      BY <1>4, <1>c, <2>0, <2>1, <2>9 DEF WriteChunks, CommandsTyped
    <3>2. KnownHalf(o)'
      <4>1. Current(o)' = f /\ editing'[o].held = editing[o].held
        BY <2>0, <2>1, <3>1 DEF Current, TagCommands
      <4> QED
        BY <2>9, <4>1 DEF KnownHalf
    <3>3. \A p \in Taggers \ {o} : KnownHalf(p)'
      BY <3>1, <1>h, <1>c, SameCommand
    <3> QED
      BY <3>1, <3>2, <3>3, <1>r, SameFile
  <2> SUFFICES ASSUME f \in editing[o].held
               PROVE /\ \A p \in Taggers : KnownHalf(p)'
                     /\ \A g \in Files : g \notin diverged' => Repairable(g)'
    BY <2>9
  <2>2. /\ indexed'[f] = NewTags(o) /\ \A g \in Files \ {f} : indexed'[g] = indexed[g]
        /\ lastEdit'[f] = editing[o].edit /\ \A g \in Files \ {f} : lastEdit'[g] = lastEdit[g]
        /\ registered' = registered
        /\ diverged' = diverged \cup ({f} \cap Contended(o))
        /\ editing'[o] = [editing[o] EXCEPT !.pc = "registry"]
        /\ \A p \in Taggers \ {o} : editing'[p] = editing[p]
    BY <1>4, <1>c, <2>0, <2>1 DEF WriteChunks, CommandsTyped, TagSets, TagsTyped
  <2>3. f \notin diverged' => f \notin Contended(o)
    BY <2>2
  <2>4. f \notin diverged' => Repairable(f)'
    <3>1. ASSUME f \notin diverged' PROVE Repairable(f)'
      <4>1. editing[o].read[f] = registered[f]
        BY <3>1, <2>1, <2>3, <1>c, Uncontended
      <4>2. editing[o].edit # NoEdit
        BY <2>1 DEF TagCommands, TagEdits, Edits, Deletions, NoEdit
      <4> QED
        BY <2>1, <2>2, <4>1, <4>2 DEF Repairable
    <3> QED
      BY <3>1
  <2>5. \A g \in Files \ {f} : g \notin diverged' => Repairable(g)'
    BY <1>r, <2>2, SameFile
  <2>6. KnownHalf(o)'
    <3>1. Current(o)' = f /\ NewTags(o)' = NewTags(o)
      BY <2>0, <2>1, <2>2 DEF Current, NewTags, TagCommands
    <3> QED
      BY <2>2, <3>1 DEF KnownHalf
  <2>7. ASSUME NEW p \in Taggers \ {o} PROVE KnownHalf(p)'
    <3>1. CASE editing[p].pc # "registry"
      BY <3>1, <2>2 DEF KnownHalf
    <3>2. CASE editing[p].pc = "registry"
      <4>1. Current(p) \in editing[p].todo /\ Current(p) \in Files /\ editing[p] # NoCommand
        BY <3>2, <1>c, CommandAtFile
      <4>2. CASE Current(p) = f
        <5>1. f \in diverged'
          BY <4>1, <4>2, <2>1, <2>3, <1>c, Uncontended
        <5>2. Current(p)' = f
          BY <2>2, <4>2 DEF Current
        <5> QED
          BY <5>1, <5>2 DEF KnownHalf
      <4>3. CASE Current(p) # f
        <5>1. indexed'[Current(p)] = indexed[Current(p)]
          BY <4>1, <4>3, <2>2
        <5>2. Current(p) \in diverged' \/ Current(p) \notin diverged
          BY <2>2
        <5>3. KnownHalf(p) /\ editing'[p] = editing[p]
          BY <1>h, <2>2
        <5> QED
          BY <5>1, <5>2, <5>3, <1>c, SameCommand
      <4> QED
        BY <4>2, <4>3
    <3> QED
      BY <3>1, <3>2
  <2> QED
    BY <2>4, <2>5, <2>6, <2>7
(* The registry of f: what the chunks have, or f has diverged and stays so. *)
<1>5. ASSUME NEW o \in Taggers, WriteRegistry(o)
      PROVE /\ \A p \in Taggers : KnownHalf(p)'
            /\ \A f \in Files : f \notin diverged' => Repairable(f)'
  <2>0. PICK f \in Files : f = Current(o)
    BY <1>5, <1>c, CommandAtFile DEF WriteRegistry
  <2>1. editing[o] \in TagCommands /\ f \in editing[o].todo /\ f \in Files
    BY <1>5, <1>c, <2>0, CommandAtFile DEF WriteRegistry
  <2>2. /\ registered'[f] = NewTags(o) /\ \A g \in Files \ {f} : registered'[g] = registered[g]
        /\ indexed' = indexed /\ \A g \in Files \ {f} : lastEdit'[g] = lastEdit[g]
        /\ f \notin editing[o].held => lastEdit'[f] = lastEdit[f]
        /\ diverged' = Divergence(o, f)
        /\ editing'[o] = AfterFile(o, f)
        /\ \A p \in Taggers \ {o} : editing'[p] = editing[p]
    BY <1>5, <1>c, <2>0, <2>1 DEF WriteRegistry, CommandsTyped, TagSets
  <2>8. /\ diverged \ {f} \subseteq diverged' /\ diverged' \subseteq diverged \cup {f}
        /\ f \in Contended(o) \/ f \notin editing[o].held => diverged \subseteq diverged'
        /\ f \notin editing[o].held /\ f \notin diverged' => NewTags(o) = registered[f]
        /\ f \in editing[o].held /\ f \notin diverged' =>
             f \notin diverged \/ indexed[f] = NewTags(o)
    BY <2>2 DEF Divergence
  <2>3. f \in editing[o].held /\ f \notin diverged' => indexed[f] = NewTags(o)
    BY <1>5, <1>h, <2>0, <2>8 DEF WriteRegistry, KnownHalf
  <2>4. f \notin diverged' => Repairable(f)'
    <3>1. CASE f \in editing[o].held
      BY <3>1, <2>2, <2>3 DEF Repairable
    <3>2. CASE f \notin editing[o].held
      BY <3>2, <2>2, <2>8, <1>r, SameFile
    <3> QED
      BY <3>1, <3>2
  <2>5. \A g \in Files \ {f} : g \notin diverged' => Repairable(g)'
    BY <1>r, <2>2, <2>8, SameFile
  <2>6. KnownHalf(o)'
    BY <1>c, <2>1, <2>2, NextFileTyped DEF KnownHalf
  <2>7. ASSUME NEW p \in Taggers \ {o} PROVE KnownHalf(p)'
    <3>1. CASE editing[p].pc # "registry"
      BY <3>1, <2>2 DEF KnownHalf
    <3>2. CASE editing[p].pc = "registry"
      <4>1. Current(p) \in editing[p].todo /\ Current(p) \in Files /\ editing[p] # NoCommand
        BY <3>2, <1>c, CommandAtFile
      <4>2. Current(p) \in diverged' \/ Current(p) \notin diverged
        <5>1. CASE Current(p) = f
          <6>1. f \in Contended(o)
            BY <4>1, <5>1, <2>1, <1>c, Uncontended
          <6> QED
            BY <6>1, <5>1, <2>8
        <5>2. CASE Current(p) # f
          BY <5>2, <2>8
        <5> QED
          BY <5>1, <5>2
      <4>3. KnownHalf(p) /\ editing'[p] = editing[p] /\ indexed' = indexed
        BY <1>h, <2>2
      <4> QED
        BY <4>2, <4>3, <1>c, SameCommand
    <3> QED
      BY <3>1, <3>2
  <2> QED
    BY <2>4, <2>5, <2>6, <2>7
(* The pages and ingestion mark what they change. *)
<1>6. ASSUME NEW edit, NEW S, BulkEdit(edit, S)
      PROVE /\ \A p \in Taggers : KnownHalf(p)'
            /\ \A f \in Files : f \notin diverged' => Repairable(f)'
  <2>1. \A f \in Files : f \notin diverged' => registered'[f] = registered[f] /\ f \notin diverged
    BY <1>6 DEF BulkEdit
  <2>2. UNCHANGED <<indexed, lastEdit, editing>> /\ diverged \subseteq diverged'
    BY <1>6 DEF BulkEdit
  <2>3. \A f \in Files : f \notin diverged' => Repairable(f)'
    BY <1>r, <2>1, <2>2, SameFile
  <2>4. \A p \in Taggers : KnownHalf(p)'
    BY <1>h, <1>c, <2>2, SameCommand
  <2> QED
    BY <2>3, <2>4
<1>7. ASSUME NEW f \in Files, Reingest(f)
      PROVE /\ \A p \in Taggers : KnownHalf(p)'
            /\ \A g \in Files : g \notin diverged' => Repairable(g)'
  <2>1. /\ \A g \in Files : g \notin diverged' => indexed'[g] = indexed[g] /\ g \notin diverged
        /\ UNCHANGED <<registered, lastEdit, editing>>
    BY <1>7, <1>c DEF Reingest, TagSets
  <2>2. \A g \in Files : g \notin diverged' => Repairable(g)'
    BY <1>r, <2>1, SameFile
  <2>3. ASSUME NEW p \in Taggers PROVE KnownHalf(p)'
    <3>1. KnownHalf(p) /\ editing'[p] = editing[p]
      BY <1>h, <2>1
    <3>2. editing[p].pc = "registry" => Current(p) \in Files
      BY <1>c, CommandAtFile
    <3>3. editing[p].pc = "registry" =>
           \/ Current(p) \in diverged'
           \/ indexed'[Current(p)] = indexed[Current(p)] /\ Current(p) \notin diverged
      BY <2>1, <3>2
    <3> QED
      BY <1>c, <3>1, <3>3, SameCommand
  <2> QED
    BY <2>2, <2>3
<1>8. CASE UNCHANGED tagVars
  <2>1. UNCHANGED <<registered, indexed, lastEdit, diverged, editing>>
    BY <1>8 DEF tagVars
  <2>2. \A p \in Taggers : KnownHalf(p)'
    BY <1>h, <1>c, <2>1, SameCommand
  <2> QED
    BY <1>r, <2>1, <2>2, SameFile
<1> QED
  BY <1>1, <1>2, <1>3, <1>4, <1>5, <1>6, <1>7, <1>8 DEF TagsStep, TagsNext, UpdateTags,
    DeleteTag, BulkAdd, BulkRemove, BulkExecute

(* Tags keep their types, and a half-done edit can be finished or repeated. *)
THEOREM TagsInvariant == TagsSpec => []TagsInv
<1>1. TagsInit => TagsInv
  BY TagsInitInv
<1>2. TagsInv /\ [TagsNext]_tagVars => TagsInv'
  BY TypedIsTypeOK, TagsTypesKept, RepairKept, PTL DEF TagsInv, TagsStep
<1> QED
  BY <1>1, <1>2, PTL DEF TagsSpec

(* A command that failed between its two stores can be repeated, unless     *)
(* something else wrote the file, or it works on another collection.        *)
THEOREM RepeatingAnEditRepairs == TagsSpec => []RepeatingRepairs
<1>1. TagsInv => RepeatingRepairs
  BY DEF TagsInv
<1> QED
  BY <1>1, TagsInvariant, PTL

-----------------------------------------------------------------------------
(***************************************************************************)
(* The schema.  Tables are only added.  A process that migrates to a       *)
(* version has seen the tables of the one before; one that is about to     *)
(* record it has seen, or makes, its tables.  The newest version is        *)
(* recorded early only by the process that created the file, and nobody    *)
(* else migrates meanwhile: so its first migration does not fail.          *)
(***************************************************************************)
Places == {"closed", "read", "create", "base", "early", "list", "add", "usage",
           "record", "open", "failed"}
OpenerStates == [pc : Places, to : 0..SCHEMA_VERSION, listed : SUBSET AllTables]
Migrating == {"list", "add", "usage", "record"}
Idling    == {"closed", "read", "create", "open", "failed"}
Unopened  == {"closed", "read", "create", "base", "early", "failed"}
(* What the place of a process says of the tables. *)
MigratorSees(o) ==
  /\ opener[o].pc \in Migrating =>
       opener[o].to \in 3..SCHEMA_VERSION /\ UpTo(opener[o].to - 1) \subseteq tables
  /\ opener[o].pc \in {"usage", "record"} => Added[opener[o].to] \in tables
  /\ opener[o].pc = "add" =>
       opener[o].listed \subseteq tables /\ Added[opener[o].to] \notin opener[o].listed
  /\ opener[o].pc = "usage" => opener[o].to = 4
  /\ opener[o].pc = "record" /\ opener[o].to = 4 =>
       "quota_usage" \in tables \/ UsageIsNew(o)

(* What the script of a new file creates. *)
NewFile == UpTo(2) \cup {"tags"}

(* One process at most creates the file, and nobody has migrated before. *)
OneCreates ==
  /\ version = 0 => \A o \in Openers : opener[o].pc \in Unopened
  /\ \A o \in Openers : opener[o].pc \in {"base", "early"} =>
       /\ version = 0
       /\ tables = IF opener[o].pc = "base" THEN UpTo(1) ELSE NewFile
       /\ \A p \in Openers \ {o} : opener[p].pc \notin {"base", "early"}

RecordedVersion ==
  /\ tables # {} => "schema_version" \in tables
  /\ version # 0 => "schema_version" \in tables
  /\ version \notin {0, SCHEMA_VERSION} => UpTo(version) \subseteq tables

(* A newest version that is early: its process is in its first migration,  *)
(* which has nothing in its way.                                           *)
FirstMigration(o) ==
  /\ opener[o].to = 3 /\ opener[o].pc \in {"list", "add", "record"}
  /\ tables = NewFile \cup (IF opener[o].pc = "record" THEN {Added[3]} ELSE {})
  /\ \A p \in Openers \ {o} : opener[p].pc \in Idling

EarlyVersion ==
  version = SCHEMA_VERSION /\ ~(AllTables \subseteq tables) /\ ~cut =>
    \E o \in Openers : FirstMigration(o)

SchemaInv ==
  /\ SchemaTypeOK
  /\ \A o \in Openers : MigratorSees(o)
  /\ OneCreates
  /\ RecordedVersion
  /\ EarlyVersion

SchemaStep == SchemaNext \/ UNCHANGED schemaVars

(* The tables of the versions. *)
LEMMA VersionTables ==
  /\ UpTo(1) = {"schema_version"}
  /\ UpTo(2) = {"schema_version", "base"}
  /\ NewFile = {"schema_version", "base", "tags"}
  /\ UpTo(3) = {"schema_version", "base", "connector_state"}
  /\ UpTo(4) = {"schema_version", "base", "connector_state", "quota_config", "quota_usage"}
  /\ UpTo(5) = {"schema_version", "base", "connector_state", "quota_config", "quota_usage", "tags"}
  /\ UpTo(6) = {"schema_version", "base", "connector_state", "quota_config", "quota_usage", "tags",
                "schedules"}
  /\ AllTables = UpTo(6) /\ SCHEMA_VERSION = 6
  /\ Added[3] = "connector_state" /\ Added[4] = "quota_config"
  /\ Added[5] = "tags" /\ Added[6] = "schedules"
<1>a. /\ Added[3] = "connector_state" /\ Added[4] = "quota_config"
      /\ Added[5] = "tags" /\ Added[6] = "schedules"
  BY DEF Added
<1>2. {Added[j] : j \in 3..2} = {} /\ {Added[j] : j \in 3..1} = {}
  OBVIOUS
<1>3. {Added[j] : j \in 3..3} = {"connector_state"}
  BY <1>a
<1>4. {Added[j] : j \in 3..4} = {"connector_state", "quota_config"}
  <2>1. 3..4 = {3, 4}
    OBVIOUS
  <2> QED
    BY <1>a, <2>1
<1>5. {Added[j] : j \in 3..5} = {"connector_state", "quota_config", "tags"}
  <2>1. 3..5 = {3, 4, 5}
    OBVIOUS
  <2> QED
    BY <1>a, <2>1
<1>6. {Added[j] : j \in 3..6} = {"connector_state", "quota_config", "tags", "schedules"}
  <2>1. 3..6 = {3, 4, 5, 6}
    OBVIOUS
  <2> QED
    BY <1>a, <2>1
<1>7. UpTo(1) = {"schema_version"} /\ UpTo(2) = {"schema_version", "base"}
  BY <1>2 DEF UpTo
<1>8. /\ UpTo(3) = {"schema_version", "base", "connector_state"}
      /\ UpTo(4) = {"schema_version", "base", "connector_state", "quota_config", "quota_usage"}
  BY <1>3, <1>4 DEF UpTo
<1>9. UpTo(5) = {"schema_version", "base", "connector_state", "quota_config", "quota_usage", "tags"}
  BY <1>5 DEF UpTo
<1>10. UpTo(6) = {"schema_version", "base", "connector_state", "quota_config", "quota_usage", "tags",
                 "schedules"}
  BY <1>6 DEF UpTo
<1> QED
  BY <1>a, <1>7, <1>8, <1>9, <1>10 DEF AllTables, SCHEMA_VERSION, NewFile

(* A migration adds the tables of its version to those of the one before. *)
LEMMA UpToGrows ==
  ASSUME NEW k \in 3..6
  PROVE  /\ UpTo(k) = UpTo(k - 1) \cup {Added[k]} \cup (IF k = 4 THEN {"quota_usage"} ELSE {})
         /\ UpTo(k) \subseteq AllTables /\ Added[k] \in AllTables
         /\ UpTo(2) \subseteq UpTo(k - 1) /\ UpTo(1) \subseteq UpTo(2)
<1>1. k = 3 \/ k = 4 \/ k = 5 \/ k = 6
  OBVIOUS
<1> QED
  BY <1>1, VersionTables

(* The invariant holds at first.                                           *)
LEMMA SchemaInitInv == SchemaInit => SchemaInv
<1> SUFFICES ASSUME SchemaInit PROVE SchemaInv
  OBVIOUS
<1> USE StoreSchemaAssumption
<1>1. tables \subseteq AllTables /\ version \in 0..6 /\ RecordedVersion
  <2>1. CASE tables = {} /\ version = 0
    BY <2>1, VersionTables DEF RecordedVersion
  <2>2. CASE \E k \in 1..6 : tables = UpTo(k) /\ version = k
    <3>1. PICK k \in 1..6 : tables = UpTo(k) /\ version = k
      BY <2>2
    <3>2. k = 1 \/ k = 2 \/ k = 3 \/ k = 4 \/ k = 5 \/ k = 6
      OBVIOUS
    <3> QED
      BY <3>1, <3>2, VersionTables DEF RecordedVersion
  <2> QED
    BY <2>1, <2>2, VersionTables DEF SchemaInit
<1>2. SchemaTypeOK
  <2>1. opener \in [Openers -> OpenerStates]
    BY DEF SchemaInit, OpenerStates, Closed, Places, SCHEMA_VERSION
  <2>5. cut \in BOOLEAN
    BY DEF SchemaInit
  <2>2. crashes \in 0..MaxKills
    BY DEF SchemaInit
  <2>3. rows \subseteq {"quota_config", "quota_usage"} \cap tables
    BY DEF SchemaInit
  <2> QED
    BY <1>1, <2>1, <2>2, <2>3, <2>5, VersionTables DEF SchemaTypeOK, OpenerStates, Places
<1>3. EarlyVersion /\ OneCreates
  <2>1. version = 6 => AllTables \subseteq tables
    BY VersionTables DEF SchemaInit
  <2>2. \A o \in Openers : opener[o].pc = "closed"
    BY DEF SchemaInit, Closed
  <2> QED
    BY <2>1, <2>2, VersionTables DEF EarlyVersion, OneCreates, Unopened
<1>4. \A o \in Openers : MigratorSees(o)
  BY DEF SchemaInit, MigratorSees, Closed, Migrating
<1> QED
  BY <1>1, <1>2, <1>3, <1>4 DEF SchemaInv

(* The types, with the places under a name. *)
SchemaTyped ==
  /\ tables \subseteq AllTables
  /\ version \in 0..6
  /\ rows \subseteq {"quota_config", "quota_usage"} \cap tables
  /\ opener \in [Openers -> OpenerStates]
  /\ cut \in BOOLEAN
  /\ crashes \in 0..MaxKills

(* The types in the form in which the proofs use them.                     *)
LEMMA SchemaTypedIsTypeOK == SchemaTyped <=> SchemaTypeOK
BY DEF SchemaTyped, SchemaTypeOK, OpenerStates, Places, SCHEMA_VERSION

(* CREATE TABLE: the tables are there afterwards, or the process fails; and *)
(* nothing else changes.                                                    *)
LEMMA Creates ==
  ASSUME SchemaTyped, NEW o \in Openers, NEW S \in SUBSET AllTables, NEW next \in Places,
         CreateTables(o, S, next)
  PROVE  /\ tables \subseteq tables' /\ tables' \subseteq AllTables
         /\ opener' \in [Openers -> OpenerStates]
         /\ opener'[o].to = opener[o].to /\ opener'[o].listed = opener[o].listed
         /\ \A p \in Openers \ {o} : opener'[p] = opener[p]
         /\ \/ opener'[o].pc = "failed" /\ S \cap tables # {} /\ tables' = tables
            \/ opener'[o].pc = next /\ S \cap tables = {} /\ tables' = tables \cup S
         /\ UNCHANGED <<version, rows, cut, crashes>>
BY DEF SchemaTyped, CreateTables, Goes, OpenerStates, Places

(* The places of a process under the changes that the steps make. *)
LEMMA PlacesTyped ==
  ASSUME NEW row \in OpenerStates, NEW pc \in Places
  PROVE  /\ [row EXCEPT !.pc = pc] \in OpenerStates
         /\ \A T \in SUBSET AllTables : [row EXCEPT !.listed = T, !.pc = pc] \in OpenerStates
         /\ [row EXCEPT !.pc = pc, !.to = 3] \in OpenerStates
<1>1. [row EXCEPT !.pc = pc] \in OpenerStates
  BY DEF OpenerStates
<1>2. ASSUME NEW T \in SUBSET AllTables
      PROVE [row EXCEPT !.listed = T, !.pc = pc] \in OpenerStates
  <2>1. [row EXCEPT !.listed = T] \in OpenerStates
    BY DEF OpenerStates
  <2> DEFINE r == [row EXCEPT !.listed = T]
  <2> HIDE DEF r
  <2>2. [r EXCEPT !.pc = pc] \in OpenerStates
    <3>1. r \in OpenerStates
      BY <2>1 DEF r
    <3> QED
      BY <3>1 DEF OpenerStates
  <2> QED
    BY <2>2 DEF r
<1>3. [row EXCEPT !.pc = pc, !.to = 3] \in OpenerStates
  <2>1. 3 \in 0..SCHEMA_VERSION
    BY DEF SCHEMA_VERSION
  <2> DEFINE r == [row EXCEPT !.pc = pc]
  <2>2. r \in OpenerStates
    BY <1>1
  <2> HIDE DEF r
  <2>3. [r EXCEPT !.to = 3] \in OpenerStates
    BY <2>1, <2>2 DEF OpenerStates
  <2> QED
    BY <2>3 DEF r
<1> QED
  BY <1>1, <1>2, <1>3

(* What a step of a process leaves: the tables grow, the others stand       *)
(* where they stood.                                                        *)
LEMMA SchemaTypesKept ==
  ASSUME SchemaTyped, \A o \in Openers : MigratorSees(o), RecordedVersion, SchemaStep
  PROVE  SchemaTyped' /\ tables \subseteq tables'
<1> USE StoreSchemaAssumption, VersionTables
<1> DEFINE Goal == SchemaTyped' /\ tables \subseteq tables'
<1>c. Closed \in OpenerStates /\ [Closed EXCEPT !.pc = "open"] \in OpenerStates
  BY DEF Closed, OpenerStates, Places
<1>d. \A k \in 0..6 : [Closed EXCEPT !.pc = "list", !.to = k] \in OpenerStates
  BY DEF Closed, OpenerStates, Places, SCHEMA_VERSION
<1>g. ASSUME UNCHANGED <<version, rows, cut, crashes>>, tables \subseteq tables', tables' \subseteq AllTables, opener' \in [Openers -> OpenerStates]
      PROVE Goal
  BY <1>g DEF SchemaTyped
<1>1. ASSUME NEW o \in Openers, Open(o) \/ Close(o) PROVE Goal
  BY <1>1, <1>g, <1>c DEF Open, Close, Goes, SchemaTyped, OpenerStates, Places
<1>2. ASSUME NEW o \in Openers, ReadVersion(o) PROVE Goal
  <2>1. [Closed EXCEPT !.pc = "create"] \in OpenerStates
    BY DEF Closed, OpenerStates, Places
  <2>2. version \notin {0, 1, 6} => [Closed EXCEPT !.pc = "list", !.to = version + 1] \in OpenerStates
    <3>1. version \notin {0, 1, 6} => version + 1 \in 0..6
      BY DEF SchemaTyped
    <3> QED
      BY <1>d, <3>1
  <2>3. opener' \in [Openers -> OpenerStates]
    BY <1>2, <1>c, <2>1, <2>2 DEF ReadVersion, SchemaTyped
  <2> QED
    BY <1>2, <1>g, <2>3 DEF ReadVersion, SchemaTyped
<1>3. ASSUME NEW o \in Openers, CreateSchema(o) \/ CreateBase(o) \/ AddTable(o) \/ AddUsage(o)
      PROVE Goal
  <2>1. opener[o].pc = "add" => Added[opener[o].to] \in AllTables
    BY UpToGrows DEF MigratorSees, Migrating
  <2>2. PICK S \in SUBSET AllTables, next \in Places : CreateTables(o, S, next)
    BY <1>3, <2>1 DEF CreateSchema, CreateBase, AddTable, AddUsage, Places
  <2> QED
    BY <2>2, Creates, <1>g
<1>4. ASSUME NEW o \in Openers, RecordEarly(o) PROVE Goal
  <2>1. opener' \in [Openers -> OpenerStates]
    <3>1. opener' = [opener EXCEPT ![o] = [opener[o] EXCEPT !.pc = "list", !.to = 3]]
      BY <1>4 DEF RecordEarly, SchemaTyped
    <3> QED
      BY PlacesTyped, <3>1 DEF SchemaTyped, Places
  <2> QED
    BY <1>4, <2>1 DEF RecordEarly, SchemaTyped
<1>5. ASSUME NEW o \in Openers, ListTables(o) PROVE Goal
  <2>1. AfterList(o) \in Places
    BY DEF AfterList, Places
  <2>2. opener' \in [Openers -> OpenerStates]
    <3>1. opener' = [opener EXCEPT ![o] = [opener[o] EXCEPT !.listed = tables, !.pc = AfterList(o)]]
      BY <1>5 DEF ListTables, SchemaTyped
    <3> QED
      BY PlacesTyped, <2>1, <3>1 DEF SchemaTyped
  <2> QED
    BY <1>5, <1>g, <2>2 DEF ListTables, SchemaTyped
<1>6. ASSUME NEW o \in Openers, RecordVersion(o) PROVE Goal
  <2>1. opener[o].to \in 3..6 /\ UpTo(opener[o].to - 1) \subseteq tables /\ Added[opener[o].to] \in tables
    BY <1>6 DEF RecordVersion, MigratorSees, Migrating
  <2>2. CASE UsageIsNew(o) /\ "quota_usage" \in tables
    BY <1>6, <2>2, <1>g DEF RecordVersion, Goes, SchemaTyped, OpenerStates, Places
  <2>3. CASE ~(UsageIsNew(o) /\ "quota_usage" \in tables)
    <3>1. opener' \in [Openers -> OpenerStates]
      <4>1. opener[o].to # 6 => [Closed EXCEPT !.pc = "list", !.to = opener[o].to + 1] \in OpenerStates
        <5>1. opener[o].to # 6 => opener[o].to + 1 \in 0..6
          BY <2>1
        <5> QED
          BY <1>d, <5>1
      <4> QED
        BY <1>6, <2>3, <1>c, <4>1 DEF RecordVersion, Migrated, SchemaTyped
    <3>2. tables \subseteq tables' /\ tables' \subseteq AllTables
      BY <1>6, <2>3 DEF RecordVersion, SchemaTyped
    <3>3. rows' \subseteq {"quota_config", "quota_usage"} \cap tables'
      <4>1. RowsAdded(o) \subseteq {"quota_config", "quota_usage"} /\ (opener[o].to # 4 => RowsAdded(o) = {})
        BY DEF RowsAdded
      <4>2. opener[o].to = 4 => "quota_config" \in tables' /\ "quota_usage" \in tables'
        BY <1>6, <2>1, <2>3, <3>2 DEF RecordVersion, MigratorSees
      <4> QED
        BY <1>6, <2>3, <3>2, <4>1, <4>2 DEF RecordVersion, SchemaTyped
    <3>4. version' \in 0..6
      BY <1>6, <2>1, <2>3 DEF RecordVersion
    <3> QED
      BY <1>6, <3>1, <3>2, <3>3, <3>4 DEF RecordVersion, SchemaTyped
  <2> QED
    BY <2>2, <2>3
<1>7. ASSUME NEW o \in Openers, Crash(o) PROVE Goal
  <2>1. opener' \in [Openers -> OpenerStates]
    BY <1>7, <1>c DEF Crash, SchemaTyped
  <2>3. cut' \in BOOLEAN
    BY <1>7 DEF Crash
  <2>4. crashes' \in 0..MaxKills
    BY <1>7 DEF Crash, SchemaTyped
  <2> QED
    BY <1>7, <2>1, <2>3, <2>4 DEF Crash, SchemaTyped
<1>u. CASE UNCHANGED schemaVars
  BY <1>u, <1>g DEF schemaVars, SchemaTyped
<1> QED
  BY <1>1, <1>2, <1>3, <1>4, <1>5, <1>6, <1>7, <1>u DEF SchemaStep, SchemaNext

(* A process that does not move sees at least what it saw. *)
LEMMA Unmoved ==
  ASSUME NEW p \in Openers, MigratorSees(p), opener'[p] = opener[p], tables \subseteq tables'
  PROVE  MigratorSees(p)'
BY DEF MigratorSees, UsageIsNew, RowsAdded

(* Nothing is said of a process that does not migrate.                     *)
LEMMA NotMigrating ==
  ASSUME NEW o \in Openers, opener'[o].pc \notin Migrating
  PROVE  MigratorSees(o)'
BY DEF MigratorSees, Migrating

(* Every step keeps what the places of all processes say of the tables.    *)
LEMMA MigratorsKept ==
  ASSUME SchemaTyped, \A o \in Openers : MigratorSees(o), RecordedVersion,
         OneCreates, SchemaStep
  PROVE  \A o \in Openers : MigratorSees(o)'
<1> USE VersionTables
<1>t. tables \subseteq tables' /\ SchemaTyped'
  BY SchemaTypesKept
<1>g. ASSUME NEW o \in Openers, \A p \in Openers \ {o} : opener'[p] = opener[p], MigratorSees(o)'
      PROVE \A p \in Openers : MigratorSees(p)'
  BY <1>t, <1>g, Unmoved
<1>u. ASSUME UNCHANGED opener PROVE \A p \in Openers : MigratorSees(p)'
  BY <1>t, <1>u, Unmoved
<1>1. ASSUME NEW o \in Openers, Open(o) \/ Close(o) \/ Crash(o) PROVE \A p \in Openers : MigratorSees(p)'
  <2>1. opener'[o].pc \in Idling /\ \A p \in Openers \ {o} : opener'[p] = opener[p]
    BY <1>1 DEF Open, Close, Crash, Goes, Closed, SchemaTyped, OpenerStates, Idling
  <2> QED
    BY <1>g, <2>1, NotMigrating DEF Idling, Migrating
<1>2. ASSUME NEW o \in Openers, ReadVersion(o) PROVE \A p \in Openers : MigratorSees(p)'
  <2>1. \A p \in Openers \ {o} : opener'[p] = opener[p]
    BY <1>2 DEF ReadVersion, SchemaTyped
  <2>2. CASE version \in {0, 1, 6}
    <3>1. opener'[o].pc \in {"open", "create"}
      BY <1>2, <2>2 DEF ReadVersion, SchemaTyped, Closed
    <3> QED
      BY <1>g, <2>1, <3>1, NotMigrating DEF Migrating
  <2>3. CASE version \notin {0, 1, 6}
    <3>1. opener'[o].pc = "list" /\ opener'[o].to = version + 1 /\ version \in 2..5
      BY <1>2, <2>3 DEF ReadVersion, SchemaTyped, Closed, RecordedVersion
    <3>2. UpTo(opener'[o].to - 1) = UpTo(version)
      BY <3>1
    <3>3. MigratorSees(o)'
      BY <1>t, <2>3, <3>1, <3>2 DEF MigratorSees, RecordedVersion
    <3> QED
      BY <1>g, <2>1, <3>3
  <2> QED
    BY <2>2, <2>3
<1>3. ASSUME NEW o \in Openers, CreateSchema(o) \/ CreateBase(o)
      PROVE \A p \in Openers : MigratorSees(p)'
  <2>1. \A p \in Openers \ {o} : opener'[p] = opener[p]
    BY <1>3, Creates DEF CreateSchema, CreateBase, Places
  <2>2. opener'[o].pc \in {"failed", "base", "early"}
    BY <1>3, Creates DEF CreateSchema, CreateBase, Places
  <2> QED
    BY <1>g, <2>1, <2>2, NotMigrating DEF Migrating
<1>4. ASSUME NEW o \in Openers, RecordEarly(o) PROVE \A p \in Openers : MigratorSees(p)'
  <2>1. /\ opener'[o].pc = "list" /\ opener'[o].to = 3
        /\ \A p \in Openers \ {o} : opener'[p] = opener[p]
    BY <1>4 DEF RecordEarly, SchemaTyped, OpenerStates
  <2>2. UpTo(2) \subseteq tables
    BY <1>4 DEF RecordEarly, OneCreates
  <2>3. MigratorSees(o)'
    BY <1>t, <2>1, <2>2 DEF MigratorSees
  <2> QED
    BY <1>g, <2>1, <2>3
<1>5. ASSUME NEW o \in Openers, ListTables(o) PROVE \A p \in Openers : MigratorSees(p)'
  <2>1. /\ opener'[o].pc = AfterList(o) /\ opener'[o].to = opener[o].to
        /\ opener'[o].listed = tables
        /\ \A p \in Openers \ {o} : opener'[p] = opener[p] /\ tables' = tables
    BY <1>5 DEF ListTables, SchemaTyped, OpenerStates
  <2>2. opener[o].to \in 3..6 /\ UpTo(opener[o].to - 1) \subseteq tables
    BY <1>5 DEF ListTables, MigratorSees, Migrating
  <2>3. MigratorSees(o)'
    BY <1>t, <2>1, <2>2 DEF MigratorSees, AfterList
  <2> QED
    BY <1>g, <2>1, <2>3
<1>6. ASSUME NEW o \in Openers, AddTable(o) PROVE \A p \in Openers : MigratorSees(p)'
  <2>1. opener[o].to \in 3..6 /\ UpTo(opener[o].to - 1) \subseteq tables
    BY <1>6 DEF AddTable, MigratorSees, Migrating
  <2>2. Added[opener[o].to] \in AllTables
    BY <2>1, UpToGrows
  <2>3. CreateTables(o, {Added[opener[o].to]}, "record") /\ "record" \in Places
    BY <1>6 DEF AddTable, Places
  <2>4. /\ opener'[o].to = opener[o].to /\ opener'[o].listed = opener[o].listed
        /\ \A p \in Openers \ {o} : opener'[p] = opener[p]
        /\ \/ opener'[o].pc = "failed"
           \/ opener'[o].pc = "record" /\ Added[opener[o].to] \in tables'
    <3>1. {Added[opener[o].to]} \in SUBSET AllTables
      BY <2>2
    <3> DEFINE S == {Added[opener[o].to]}
    <3>2. S \in SUBSET AllTables /\ CreateTables(o, S, "record") /\ Added[opener[o].to] \in S
      BY <2>3, <3>1
    <3> HIDE DEF S
    <3> QED
      BY <2>3, <3>2, Creates
  <2>5. MigratorSees(o)'
    <3>1. CASE opener'[o].pc = "failed"
      BY <3>1, NotMigrating DEF Migrating
    <3>2. CASE opener'[o].pc = "record" /\ Added[opener[o].to] \in tables'
      <4>1. opener[o].to = 4 => "quota_usage" \in tables' \/ UsageIsNew(o)'
        <5>1. opener[o].listed \subseteq tables /\ Added[opener[o].to] \notin opener[o].listed
          BY <1>6 DEF AddTable, MigratorSees
        <5> QED
          BY <1>t, <2>4, <5>1 DEF UsageIsNew, RowsAdded
      <4> QED
        BY <1>t, <2>1, <2>4, <3>2, <4>1 DEF MigratorSees, Migrating
    <3> QED
      BY <2>4, <3>1, <3>2
  <2> QED
    BY <1>g, <2>4, <2>5
<1>7. ASSUME NEW o \in Openers, AddUsage(o) PROVE \A p \in Openers : MigratorSees(p)'
  <2>1. /\ opener[o].to = 4 /\ UpTo(3) \subseteq tables /\ Added[4] \in tables
    BY <1>7 DEF AddUsage, MigratorSees, Migrating
  <2>2. /\ opener'[o].to = opener[o].to
        /\ \A p \in Openers \ {o} : opener'[p] = opener[p]
        /\ \/ opener'[o].pc = "failed"
           \/ opener'[o].pc = "record" /\ "quota_usage" \in tables'
    BY <1>7, Creates DEF AddUsage, Places
  <2>3. MigratorSees(o)'
    <3>1. CASE opener'[o].pc = "failed"
      BY <3>1, NotMigrating DEF Migrating
    <3>2. CASE opener'[o].pc = "record" /\ "quota_usage" \in tables'
      BY <1>t, <2>1, <2>2, <3>2 DEF MigratorSees, Migrating
    <3> QED
      BY <2>2, <3>1, <3>2
  <2> QED
    BY <1>g, <2>2, <2>3
<1>8. ASSUME NEW o \in Openers, RecordVersion(o) PROVE \A p \in Openers : MigratorSees(p)'
  <2>1. opener[o].to \in 3..6 /\ UpTo(opener[o].to - 1) \subseteq tables /\ Added[opener[o].to] \in tables
    BY <1>8 DEF RecordVersion, MigratorSees, Migrating
  <2>2. CASE UsageIsNew(o) /\ "quota_usage" \in tables
    <3>1. opener'[o].pc = "failed" /\ \A p \in Openers \ {o} : opener'[p] = opener[p]
      BY <1>8, <2>2 DEF RecordVersion, Goes, SchemaTyped, OpenerStates
    <3> QED
      BY <1>g, <3>1, NotMigrating DEF Migrating
  <2>3. CASE ~(UsageIsNew(o) /\ "quota_usage" \in tables)
    <3>1. Migrated(o)
      BY <1>8, <2>3 DEF RecordVersion
    <3>2. \A p \in Openers \ {o} : opener'[p] = opener[p]
      BY <3>1 DEF Migrated, SchemaTyped
    <3>3. MigratorSees(o)'
      <4>1. CASE opener[o].to = 6
        <5>1. opener'[o].pc = "open"
          BY <3>1, <4>1 DEF Migrated, SchemaTyped, Closed
        <5> QED
          BY <5>1, NotMigrating DEF Migrating
      <4>2. CASE opener[o].to # 6
        <5>1. opener'[o].pc = "list" /\ opener'[o].to = opener[o].to + 1
          BY <3>1, <4>2 DEF Migrated, SchemaTyped, Closed
        <5>2. UpTo(opener'[o].to - 1) = UpTo(opener[o].to)
          BY <2>1, <5>1
        <5>3. UpTo(opener[o].to) \subseteq tables'
          BY <1>8, <1>t, <2>1, <2>3, UpToGrows DEF RecordVersion, MigratorSees
        <5> QED
          BY <2>1, <4>2, <5>1, <5>2, <5>3 DEF MigratorSees
      <4> QED
        BY <4>1, <4>2
    <3> QED
      BY <1>g, <3>2, <3>3
  <2> QED
    BY <2>2, <2>3
<1>11. CASE UNCHANGED schemaVars
  BY <1>11, <1>u DEF schemaVars
<1> QED
  BY <1>1, <1>2, <1>3, <1>4, <1>5, <1>6, <1>7, <1>8, <1>11 DEF SchemaStep, SchemaNext

(* How the file came about: one process, and its early version. *)
Origin == OneCreates /\ RecordedVersion /\ EarlyVersion

(* A process that neither creates nor migrates disturbs nobody. *)
LEMMA QuietStep ==
  ASSUME Origin, NEW o \in Openers,
         opener[o].pc \in Idling, opener'[o].pc \in Idling,
         version = 0 => opener'[o].pc \in Unopened,
         \A p \in Openers \ {o} : opener'[p] = opener[p],
         UNCHANGED <<tables, version, cut>>
  PROVE  Origin'
<1>1. OneCreates'
  BY DEF Origin, OneCreates, Idling
<1>2. RecordedVersion'
  BY DEF Origin, RecordedVersion
<1>3. EarlyVersion'
  <2> SUFFICES ASSUME version = SCHEMA_VERSION, ~(AllTables \subseteq tables), ~cut
               PROVE \E w \in Openers : FirstMigration(w)'
    BY DEF EarlyVersion
  <2>1. PICK w \in Openers : FirstMigration(w)
    BY DEF Origin, EarlyVersion
  <2>2. w # o
    BY <2>1 DEF FirstMigration, Idling
  <2>3. FirstMigration(w)'
    BY <2>1, <2>2 DEF FirstMigration
  <2> QED
    BY <2>3
<1> QED
  BY <1>1, <1>2, <1>3 DEF Origin

(* Once a version is recorded nobody creates the file any more. *)
LEMMA NobodyCreates ==
  ASSUME Origin, version # 0, NEW o \in Openers
  PROVE  opener[o].pc \notin {"base", "early"} /\ "schema_version" \in tables
BY DEF Origin, OneCreates, RecordedVersion

(* Steps of a process that migrates, when a version is recorded. *)
LEMMA MigratorStep ==
  ASSUME Origin, NEW o \in Openers, version # 0, version' # 0,
         opener'[o].pc \notin {"base", "early"},
         \A p \in Openers \ {o} : opener'[p] = opener[p],
         tables \subseteq tables', tables' # {} => "schema_version" \in tables',
         version' # version => UpTo(version') \subseteq tables',
         cut' = cut, EarlyVersion'
  PROVE  Origin'
<1>1. OneCreates'
  BY NobodyCreates DEF OneCreates
<1>2. RecordedVersion'
  BY NobodyCreates DEF Origin, RecordedVersion
<1> QED
  BY <1>1, <1>2 DEF Origin

(* Every step keeps what is said of how the file came about.               *)
LEMMA OriginKept ==
  ASSUME SchemaTyped, \A o \in Openers : MigratorSees(o), Origin, SchemaStep
  PROVE  Origin'
<1> USE VersionTables
<1>t. tables \subseteq tables' /\ SchemaTyped' /\ version \in 0..6
  BY SchemaTypesKept DEF Origin, SchemaTyped
<1>m. \A o \in Openers : opener[o].pc \in Migrating => version # 0
  BY DEF Origin, OneCreates, Unopened, Migrating
(* The process o of a first migration is the only one that is not idling.   *)
<1>f. ASSUME version = 6, ~(AllTables \subseteq tables), ~cut, NEW o \in Openers,
             opener[o].pc \notin Idling
      PROVE FirstMigration(o)
  BY <1>f DEF Origin, EarlyVersion, FirstMigration
<1>1. ASSUME NEW o \in Openers, Open(o) \/ Close(o) PROVE Origin'
  <2>1. /\ opener[o].pc \in Idling /\ opener'[o].pc \in {"read", "closed"}
        /\ \A p \in Openers \ {o} : opener'[p] = opener[p]
        /\ UNCHANGED <<tables, version, cut>>
    BY <1>1 DEF Open, Close, Goes, Closed, SchemaTyped, OpenerStates, Idling
  <2> QED
    BY <2>1, QuietStep DEF Idling, Unopened
<1>2. ASSUME NEW o \in Openers, ReadVersion(o) PROVE Origin'
  <2>1. /\ opener[o].pc = "read" /\ \A p \in Openers \ {o} : opener'[p] = opener[p]
        /\ UNCHANGED <<tables, version, cut>>
    BY <1>2 DEF ReadVersion, SchemaTyped
  <2>2. CASE version \in {0, 1, 6}
    <3>1. opener'[o].pc \in {"open", "create"} /\ (version = 0 => opener'[o].pc = "create")
      BY <1>2, <2>2 DEF ReadVersion, SchemaTyped, Closed
    <3> QED
      BY <2>1, <3>1, QuietStep DEF Idling, Unopened
  <2>3. CASE version \notin {0, 1, 6}
    <3>1. opener'[o].pc = "list"
      BY <1>2, <2>3 DEF ReadVersion, SchemaTyped, Closed
    <3>2. EarlyVersion'
      BY <2>1, <2>3 DEF EarlyVersion
    <3> QED
      BY <2>1, <2>3, <3>1, <3>2, MigratorStep DEF Origin, RecordedVersion
  <2> QED
    BY <2>2, <2>3
<1>3. ASSUME NEW o \in Openers, CreateSchema(o) PROVE Origin'
  <2>1. /\ opener[o].pc = "create" /\ UNCHANGED <<version, cut>>
        /\ \A p \in Openers \ {o} : opener'[p] = opener[p]
        /\ \/ opener'[o].pc = "failed" /\ tables' = tables
           \/ opener'[o].pc = "base" /\ "schema_version" \notin tables
              /\ tables' = tables \cup {"schema_version"}
    BY <1>3, Creates DEF CreateSchema, Places
  <2>2. CASE opener'[o].pc = "failed" /\ tables' = tables
    BY <2>1, <2>2, QuietStep DEF Idling, Unopened
  <2>3. CASE opener'[o].pc = "base" /\ "schema_version" \notin tables
              /\ tables' = tables \cup {"schema_version"}
    <3>1. version = 0 /\ tables = {}
      BY <2>3 DEF Origin, RecordedVersion
    <3>2. \A p \in Openers : opener[p].pc \notin {"base", "early"}
      BY <3>1 DEF Origin, OneCreates
    <3>3. tables' = UpTo(1)
      BY <2>3, <3>1
    <3>4. OneCreates'
      BY <2>1, <2>3, <3>1, <3>2, <3>3 DEF Origin, OneCreates, Unopened
    <3>5. RecordedVersion' /\ EarlyVersion'
      BY <2>1, <2>3, <3>1 DEF RecordedVersion, EarlyVersion
    <3> QED
      BY <3>4, <3>5 DEF Origin
  <2> QED
    BY <2>1, <2>2, <2>3
<1>4. ASSUME NEW o \in Openers, CreateBase(o) PROVE Origin'
  <2>1. /\ opener[o].pc = "base" /\ UNCHANGED <<version, cut>>
        /\ \A p \in Openers \ {o} : opener'[p] = opener[p]
        /\ \/ opener'[o].pc = "failed" /\ {"base", "tags"} \cap tables # {}
           \/ opener'[o].pc = "early" /\ tables' = tables \cup {"base", "tags"}
    BY <1>4, Creates DEF CreateBase, Places
  <2>2. /\ version = 0 /\ tables = {"schema_version"}
        /\ \A p \in Openers \ {o} : opener[p].pc \notin {"base", "early"}
    BY <2>1 DEF Origin, OneCreates
  <2>3. opener'[o].pc = "early" /\ tables' = NewFile
    BY <2>1, <2>2
  <2>5. OneCreates'
    BY <2>1, <2>2, <2>3 DEF Origin, OneCreates, Unopened
  <2>6. RecordedVersion' /\ EarlyVersion'
    BY <2>1, <2>2, <2>3 DEF RecordedVersion, EarlyVersion
  <2> QED
    BY <2>5, <2>6 DEF Origin
<1>5. ASSUME NEW o \in Openers, RecordEarly(o) PROVE Origin'
  <2>1. /\ opener[o].pc = "early" /\ opener'[o].pc = "list" /\ opener'[o].to = 3
        /\ \A p \in Openers \ {o} : opener'[p] = opener[p]
        /\ version' = 6 /\ UNCHANGED <<tables, cut>>
    BY <1>5 DEF RecordEarly, SchemaTyped, OpenerStates
  <2>2. /\ version = 0 /\ tables = NewFile
        /\ \A p \in Openers \ {o} : opener[p].pc \in Unopened \ {"base", "early"}
    BY <2>1 DEF Origin, OneCreates
  <2>3. \A p \in Openers \ {o} : opener'[p].pc \in Idling
    BY <2>1, <2>2 DEF Unopened, Idling
  <2>4. FirstMigration(o)'
    BY <2>1, <2>2, <2>3 DEF FirstMigration
  <2>5. OneCreates'
    BY <2>1, <2>2, <2>3 DEF OneCreates, Idling
  <2>6. RecordedVersion' /\ EarlyVersion'
    BY <2>1, <2>2, <2>4 DEF RecordedVersion, EarlyVersion
  <2> QED
    BY <2>5, <2>6 DEF Origin
<1>6. ASSUME NEW o \in Openers, ListTables(o) PROVE Origin'
  <2>1. /\ opener[o].pc = "list" /\ opener'[o].pc = AfterList(o) /\ opener'[o].to = opener[o].to
        /\ \A p \in Openers \ {o} : opener'[p] = opener[p]
        /\ UNCHANGED <<version, tables, cut>>
    BY <1>6 DEF ListTables, SchemaTyped, OpenerStates
  <2>2. version # 0
    BY <1>m, <2>1 DEF Migrating
  <2>3. EarlyVersion'
    <3> SUFFICES ASSUME version = 6, ~(AllTables \subseteq tables), ~cut
                 PROVE FirstMigration(o)'
      BY <2>1 DEF EarlyVersion
    <3>1. FirstMigration(o)
      BY <2>1, <1>f DEF Idling
    <3>2. AfterList(o) = "add"
      BY <2>1, <3>1 DEF FirstMigration, AfterList
    <3> QED
      BY <2>1, <3>1, <3>2 DEF FirstMigration
  <2>4. opener'[o].pc \notin {"base", "early"}
    BY <2>1 DEF AfterList
  <2>5. tables' # {} => "schema_version" \in tables'
    BY <2>1, <2>2, NobodyCreates
  <2> QED
    BY <2>1, <2>2, <2>3, <2>4, <2>5, MigratorStep
<1>7. ASSUME NEW o \in Openers, AddTable(o) PROVE Origin'
  <2>1. opener[o].pc = "add" /\ opener[o].to \in 3..6
    BY <1>7 DEF AddTable, MigratorSees, Migrating
  <2>2. /\ UNCHANGED <<version, cut>> /\ opener'[o].to = opener[o].to
        /\ \A p \in Openers \ {o} : opener'[p] = opener[p]
        /\ \/ opener'[o].pc = "failed" /\ Added[opener[o].to] \in tables /\ tables' = tables
           \/ opener'[o].pc = "record" /\ tables' = tables \cup {Added[opener[o].to]}
    BY <1>7, <2>1, UpToGrows, Creates DEF AddTable, Places
  <2>3. version # 0
    BY <1>m, <2>1 DEF Migrating
  <2>4. EarlyVersion'
    <3> SUFFICES ASSUME version = 6, ~(AllTables \subseteq tables'), ~cut
                 PROVE FirstMigration(o)'
      BY <2>2 DEF EarlyVersion
    <3>1. FirstMigration(o)
      BY <1>t, <2>1, <1>f DEF Idling
    <3>2. Added[opener[o].to] \notin tables
      BY <2>1, <3>1 DEF FirstMigration
    <3> QED
      BY <2>1, <2>2, <3>1, <3>2 DEF FirstMigration
  <2>5. tables' # {} => "schema_version" \in tables'
    BY <1>t, <2>3, NobodyCreates
  <2> QED
    BY <1>t, <2>2, <2>3, <2>4, <2>5, MigratorStep
<1>8. ASSUME NEW o \in Openers, AddUsage(o) PROVE Origin'
  <2>1. opener[o].pc = "usage" /\ opener[o].to = 4
    BY <1>8 DEF AddUsage, MigratorSees
  <2>2. /\ UNCHANGED <<version, cut>> /\ \A p \in Openers \ {o} : opener'[p] = opener[p]
        /\ opener'[o].pc \in {"failed", "record"}
    BY <1>8, Creates DEF AddUsage, Places
  <2>3. version # 0
    BY <1>m, <2>1 DEF Migrating
  <2>4. EarlyVersion'
    <3> SUFFICES ASSUME version = 6, ~(AllTables \subseteq tables'), ~cut PROVE FALSE
      BY <2>2 DEF EarlyVersion
    <3> QED
      BY <1>t, <2>1, <1>f DEF Idling, FirstMigration
  <2>5. tables' # {} => "schema_version" \in tables'
    BY <1>t, <2>3, NobodyCreates
  <2> QED
    BY <1>t, <2>2, <2>3, <2>4, <2>5, MigratorStep
<1>9. ASSUME NEW o \in Openers, RecordVersion(o) PROVE Origin'
  <2>1. /\ opener[o].pc = "record" /\ opener[o].to \in 3..6 /\ UNCHANGED cut
        /\ UpTo(opener[o].to - 1) \subseteq tables /\ Added[opener[o].to] \in tables
        /\ (opener[o].to = 4 => "quota_usage" \in tables \/ UsageIsNew(o))
    BY <1>9 DEF RecordVersion, MigratorSees, Migrating
  <2>2. version # 0
    BY <1>m, <2>1 DEF Migrating
  <2>3. tables' # {} => "schema_version" \in tables'
    BY <1>t, <2>2, NobodyCreates
  <2>4. CASE UsageIsNew(o) /\ "quota_usage" \in tables
    <3>1. /\ opener'[o].pc = "failed" /\ \A p \in Openers \ {o} : opener'[p] = opener[p]
          /\ UNCHANGED <<version, tables>>
      BY <1>9, <2>4 DEF RecordVersion, Goes, SchemaTyped, OpenerStates
    <3>2. opener[o].to = 4
      BY <2>4 DEF UsageIsNew, RowsAdded
    <3>3. EarlyVersion'
      <4> SUFFICES ASSUME version = 6, ~(AllTables \subseteq tables), ~cut PROVE FALSE
        BY <2>1, <3>1 DEF EarlyVersion
      <4> QED
        BY <2>1, <3>2, <1>f DEF Idling, FirstMigration
    <3> QED
      BY <2>1, <2>2, <2>3, <3>1, <3>3, MigratorStep
  <2>5. CASE ~(UsageIsNew(o) /\ "quota_usage" \in tables)
    <3>1. /\ Migrated(o) /\ version' = opener[o].to
          /\ (UsageIsNew(o) => "quota_usage" \in tables')
      BY <1>9, <2>5 DEF RecordVersion
    <3>2. opener'[o].pc \in {"open", "list"} /\ \A p \in Openers \ {o} : opener'[p] = opener[p]
      BY <3>1 DEF Migrated, SchemaTyped, Closed
    <3>3. UpTo(version') \subseteq tables'
      BY <1>t, <2>1, <3>1, UpToGrows
    <3>4. EarlyVersion'
      BY <3>3 DEF EarlyVersion
    <3>5. version' # 0
      BY <2>1, <3>1
    <3> QED
      BY <1>t, <2>1, <2>2, <2>3, <3>2, <3>3, <3>4, <3>5, MigratorStep
  <2> QED
    BY <2>4, <2>5
<1>10. ASSUME NEW o \in Openers, Crash(o) PROVE Origin'
  <2>1. /\ opener'[o].pc = "closed" /\ \A p \in Openers \ {o} : opener'[p] = opener[p]
        /\ UNCHANGED <<tables, version>>
        /\ cut' = (cut \/ (Creating(o) /\ version = 6))
    BY <1>10 DEF Crash, SchemaTyped, Closed
  <2>2. OneCreates'
    BY <2>1 DEF Origin, OneCreates, Unopened
  <2>3. RecordedVersion'
    BY <2>1 DEF Origin, RecordedVersion
  <2>4. EarlyVersion'
    <3> SUFFICES ASSUME version = 6, ~(AllTables \subseteq tables), ~cut, ~Creating(o)
                 PROVE \E w \in Openers : FirstMigration(w)'
      BY <2>1 DEF EarlyVersion
    <3>1. PICK w \in Openers : FirstMigration(w)
      BY DEF Origin, EarlyVersion
    <3>2. w # o
      BY <3>1 DEF FirstMigration, Creating
    <3>3. FirstMigration(w)'
      BY <2>1, <3>1, <3>2 DEF FirstMigration, Idling
    <3> QED
      BY <3>3
  <2> QED
    BY <2>2, <2>3, <2>4 DEF Origin
<1>11. ASSUME UNCHANGED <<tables, version, cut, opener>> PROVE Origin'
  BY <1>11 DEF Origin, OneCreates, RecordedVersion, EarlyVersion, FirstMigration
<1>14. CASE UNCHANGED schemaVars
  BY <1>11, <1>14 DEF schemaVars
<1> QED
  BY <1>1, <1>2, <1>3, <1>4, <1>5, <1>6, <1>7, <1>8, <1>9, <1>10, <1>14
  DEF SchemaStep, SchemaNext

(* The schema keeps its types, and what its processes know of it. *)
THEOREM SchemaInvariant == SchemaSpec => []SchemaInv
<1>1. SchemaInit => SchemaInv
  BY SchemaInitInv
<1>2. SchemaInv /\ [SchemaNext]_schemaVars => SchemaInv'
  <2> SUFFICES ASSUME SchemaInv, SchemaStep PROVE SchemaInv'
    BY DEF SchemaStep
  <2>1. /\ SchemaTyped /\ Origin
        /\ \A o \in Openers : MigratorSees(o)
    BY SchemaTypedIsTypeOK DEF SchemaInv, Origin
  <2>2. RecordedVersion /\ OneCreates
    BY <2>1 DEF Origin
  <2>3. SchemaTyped'
    BY <2>1, <2>2, SchemaTypesKept
  <2>4. SchemaTypeOK'
    BY <2>3, SchemaTypedIsTypeOK, PTL
  <2>5. (\A o \in Openers : MigratorSees(o)') /\ Origin'
    BY <2>1, <2>2, MigratorsKept, OriginKept
  <2> QED
    BY <2>3, <2>4, <2>5 DEF SchemaInv, Origin
<1> QED
  BY <1>1, <1>2, PTL DEF SchemaSpec

(* The recorded version promises no table that is missing, for any number   *)
(* of processes that migrate at once and are killed, but for the file that  *)
(* is being created or whose creation was cut.                              *)
THEOREM VersionPromisesTables == SchemaSpec => []VersionTellsTables
<1>1. SchemaInv => VersionTellsTables
  <2> SUFFICES ASSUME SchemaInv, version # 0, ~(UpTo(version) \subseteq tables)
               PROVE version = SCHEMA_VERSION /\ (cut \/ \E o \in Openers : Creating(o))
    BY DEF VersionTellsTables
  <2>1. version = SCHEMA_VERSION
    BY DEF SchemaInv, RecordedVersion
  <2>2. ASSUME ~cut PROVE \E o \in Openers : Creating(o)
    <3>1. PICK o \in Openers : FirstMigration(o)
      BY <2>1, <2>2 DEF SchemaInv, EarlyVersion, AllTables
    <3> QED
      BY <3>1 DEF FirstMigration, Creating
  <2> QED
    BY <2>1, <2>2
<1> QED
  BY <1>1, SchemaInvariant, PTL

-----------------------------------------------------------------------------
(***************************************************************************)
(* Reclassification.  A change or a backup row carries the number of the   *)
(* ingestion whose values it was read from; one that carries the number of *)
(* the last ingestion, of a document not overtaken, is about a field whose *)
(* ingested value is in a backup row -- or, before the backup, in the      *)
(* change itself.                                                          *)
(***************************************************************************)
CommandStates ==
  [pc : {"idle", "detected", "updating", "logging", "restoring", "restored"},
   collection : Collections, changes : SUBSET Changes]

ReclassTyped ==
  /\ rules \in 1..MaxRules
  /\ payload \in [Collections -> [Documents -> [Fields -> Values]]]
  /\ ingested \in [Documents -> [rules : Values, number : Nat \ {0}]]
  /\ backups \subseteq Rows
  /\ second \in Seconds
  /\ command \in [Operators -> CommandStates]
  /\ overtaken \subseteq Documents
  /\ stopped \in 0..MaxCrashes

SavedValue(d, f) ==
  \E row \in backups : row.doc = d /\ row.field = f /\ row.old = ingested[d].rules

(* A row, or a change, was read after the last ingestion. *)
InForce(row) == row.ingestion = ingested[row.doc].number
ReadIt(row)  == row.ingestion <= ingested[row.doc].number

ReadBefore ==
  /\ \A row \in backups : ReadIt(row)
  /\ \A o \in Operators : \A change \in command[o].changes : ReadIt(change)

CanBeHadBack(row) ==
  InForce(row) /\ row.field \notin Unread =>
    row.doc \in overtaken \/ SavedValue(row.doc, row.field)

RowsCanBeHadBack == \A row \in backups : CanBeHadBack(row)

ChangesCanBeHadBack ==
  \A o \in Operators : \A change \in command[o].changes :
    \/ CanBeHadBack(change)
    \/ command[o].pc = "detected" /\ change.old = ingested[change.doc].rules

ReclassInv ==
  /\ ReclassTyped /\ ReadBefore /\ RowsCanBeHadBack /\ ChangesCanBeHadBack
  /\ IngestedValueIsSaved

ReclassStep == ReclassNext \/ UNCHANGED reclassVars

(* The invariant implies the types.                                        *)
LEMMA ReclassTypes == ReclassInv => ReclassTypeOK
<1> SUFFICES ASSUME ReclassInv PROVE ReclassTypeOK
  OBVIOUS
<1>1. \A d \in Documents : ingested[d] \in [rules : Values, number : Nat]
  BY DEF ReclassInv, ReclassTyped
<1>2. \A o \in Operators :
       /\ command[o].pc \in {"idle", "detected", "updating", "logging",
                             "restoring", "restored"}
       /\ command[o].collection \in Collections
       /\ command[o].changes \subseteq Changes
  BY DEF ReclassInv, ReclassTyped, CommandStates
<1> QED
  BY <1>1, <1>2 DEF ReclassInv, ReclassTyped, ReclassTypeOK

(* The invariant holds at first.                                           *)
LEMMA ReclassInitInv == ReclassInit => ReclassInv
<1> SUFFICES ASSUME ReclassInit PROVE ReclassInv
  OBVIOUS
<1>b. MaxRules \in Nat \ {0} /\ MaxTime \in Nat \ {0} /\ MaxCrashes \in Nat /\ Default \in Collections
  BY ReclassificationAssumption
<1>1. 1 \in Values /\ 1 \in 1..MaxRules /\ 1 \in Seconds /\ 0 \in 0..MaxCrashes /\ 1 \in Nat \ {0}
  BY <1>b DEF Values, Seconds
<1>2. Idle \in CommandStates /\ Idle.changes = {}
  BY <1>b DEF Idle, CommandStates
<1>3. payload \in [Collections -> [Documents -> [Fields -> Values]]]
  BY <1>1 DEF ReclassInit
<1>4. ingested \in [Documents -> [rules : Values, number : Nat \ {0}]]
  BY <1>1 DEF ReclassInit
<1>5. command \in [Operators -> CommandStates] /\ \A o \in Operators : command[o].changes = {}
  BY <1>2 DEF ReclassInit
<1>6. backups = {} /\ overtaken = {} /\ rules = 1 /\ second = 1 /\ stopped = 0
  BY DEF ReclassInit
<1>7. ReclassTyped
  BY <1>1, <1>3, <1>4, <1>5, <1>6 DEF ReclassTyped
<1>8. ReadBefore /\ RowsCanBeHadBack /\ ChangesCanBeHadBack
  BY <1>5, <1>6 DEF ReadBefore, RowsCanBeHadBack, ChangesCanBeHadBack
<1>9. IngestedValueIsSaved
  BY <1>b DEF ReclassInit, IngestedValueIsSaved
<1> QED
  BY <1>7, <1>8, <1>9 DEF ReclassInv

(* A command that takes other changes, or another place. *)
LEMMA CommandMoves ==
  ASSUME ReclassInv, NEW o \in Operators, NEW new \in CommandStates,
         command' = [command EXCEPT ![o] = new],
         backups' \subseteq Rows, backups \subseteq backups',
         payload' = payload, ingested' = ingested, overtaken' = overtaken,
         rules' \in 1..MaxRules, second' \in Seconds, stopped' \in 0..MaxCrashes,
         \A row \in backups' \ backups :
           ReadIt(row) /\ (CanBeHadBack(row) \/ row.old = ingested[row.doc].rules),
         \A change \in new.changes :
           /\ ReadIt(change)
           /\ \/ CanBeHadBack(change)
              \/ change.old = ingested[change.doc].rules /\ new.pc = "detected"
              \/ \E row \in backups' : /\ row.doc = change.doc /\ row.field = change.field
                                       /\ row.old = ingested[change.doc].rules
  PROVE  ReclassInv'
<1>t. ReclassTyped /\ ReadBefore /\ RowsCanBeHadBack /\ ChangesCanBeHadBack /\ IngestedValueIsSaved
  BY DEF ReclassInv
<1>1. command' \in [Operators -> CommandStates] /\ command'[o] = new
      /\ \A p \in Operators \ {o} : command'[p] = command[p]
  BY <1>t DEF ReclassTyped
<1>2. ReclassTyped'
  BY <1>t, <1>1 DEF ReclassTyped
<1>3. \A row : ReadIt(row)' <=> ReadIt(row)
  BY Zenon DEF ReadIt
<1>4. ReadBefore'
  <2>1. \A row \in backups' : ReadIt(row)'
    BY <1>t, <1>3 DEF ReadBefore
  <2>2. \A p \in Operators : \A change \in command'[p].changes : ReadIt(change)'
    <3> TAKE p \in Operators
    <3>1. CASE p = o
      BY <1>1, <1>3, <3>1
    <3>2. CASE p # o
      BY <1>t, <1>1, <1>3, <3>2 DEF ReadBefore
    <3> QED
      BY <3>1, <3>2
  <2> QED
    BY <2>1, <2>2 DEF ReadBefore
<1>5. \A d, f : SavedValue(d, f) => SavedValue(d, f)'
  BY DEF SavedValue
<1>6. \A row : CanBeHadBack(row) => CanBeHadBack(row)'
  BY <1>5 DEF CanBeHadBack, InForce
<1>7. \A row \in backups' : row.old = ingested[row.doc].rules => CanBeHadBack(row)'
  BY DEF CanBeHadBack, SavedValue
<1>8. RowsCanBeHadBack'
  BY <1>t, <1>6, <1>7 DEF RowsCanBeHadBack
<1>9. ChangesCanBeHadBack'
  <2> SUFFICES ASSUME NEW p \in Operators, NEW change \in command'[p].changes
      PROVE CanBeHadBack(change)'
            \/ (command'[p].pc = "detected" /\ change.old = ingested'[change.doc].rules)
    BY DEF ChangesCanBeHadBack
  <2>1. CASE p # o
    BY <1>t, <1>1, <1>6, <2>1 DEF ChangesCanBeHadBack
  <2>2. CASE p = o
    <3>1. (\E row \in backups' : /\ row.doc = change.doc /\ row.field = change.field
                                /\ row.old = ingested[change.doc].rules) => CanBeHadBack(change)'
      BY DEF CanBeHadBack, SavedValue
    <3> QED
      BY <1>1, <1>6, <2>2, <3>1
  <2> QED
    BY <2>1, <2>2
<1>10. IngestedValueIsSaved'
  BY <1>t DEF IngestedValueIsSaved
<1> QED
  BY <1>2, <1>4, <1>8, <1>9, <1>10 DEF ReclassInv

(* An operator without a command has detected nothing.                     *)
LEMMA IdleCommand == Idle \in CommandStates /\ Idle.changes = {}
BY ReclassificationAssumption DEF Idle, CommandStates

(* Ingestion: what was read before it is no longer current. *)
LEMMA IngestKeeps ==
  ASSUME ReclassInv, NEW d \in Documents, Ingest(d)
  PROVE  ReclassInv'
<1>t. ReclassTyped /\ ReadBefore /\ RowsCanBeHadBack /\ ChangesCanBeHadBack /\ IngestedValueIsSaved
  BY DEF ReclassInv
<1>b. MaxRules \in Nat /\ Default \in Collections
  BY ReclassificationAssumption
<1>u. UNCHANGED <<rules, backups, second, command, stopped>> /\ overtaken' = overtaken \ {d}
  BY DEF Ingest
<1>1. /\ ingested' \in [Documents -> [rules : Values, number : Nat \ {0}]]
      /\ ingested'[d].rules = rules /\ ingested'[d].number = ingested[d].number + 1
      /\ \A e \in Documents \ {d} : ingested'[e] = ingested[e]
  <2>1. ingested[d].number \in Nat \ {0} /\ rules \in Values
    BY <1>t, <1>b DEF ReclassTyped, Values
  <2>2. ingested[d].number + 1 \in Nat \ {0}
    BY <2>1
  <2>3. ingested' = [ingested EXCEPT ![d] = [rules |-> rules, number |-> ingested[d].number + 1]]
    BY DEF Ingest
  <2> QED
    BY <1>t, <2>1, <2>2, <2>3 DEF ReclassTyped
<1>2. /\ payload' \in [Collections -> [Documents -> [Fields -> Values]]]
      /\ \A f \in Fields : payload'[Default][d][f] = rules
      /\ \A e \in Documents \ {d} : payload'[Default][e] = payload[Default][e]
  <2>1. Classified \in [Fields -> Values]
    BY <1>t, <1>b DEF ReclassTyped, Classified, Values
  <2>2. payload' = [payload EXCEPT ![Default] = [payload[Default] EXCEPT ![d] = Classified]]
    BY DEF Ingest
  <2>3. \A f \in Fields : Classified[f] = rules
    BY DEF Classified
  <2>4. [payload[Default] EXCEPT ![d] = Classified] \in [Documents -> [Fields -> Values]]
    BY <1>t, <1>b, <2>1 DEF ReclassTyped
  <2> HIDE DEF Classified
  <2> QED
    BY <1>t, <1>b, <2>2, <2>3, <2>4 DEF ReclassTyped
<1>3. ReclassTyped'
  BY <1>t, <1>u, <1>1, <1>2 DEF ReclassTyped
<1>4. ASSUME NEW row, row.doc \in Documents, row.ingestion \in Nat, ReadIt(row)
      PROVE ReadIt(row)' /\ (InForce(row)' => row.doc # d)
            /\ (row.doc # d => (InForce(row)' <=> InForce(row)))
  <2>1. CASE row.doc = d
    <3>1. ingested[d].number \in Nat
      BY <1>t DEF ReclassTyped
    <3>2. row.ingestion <= ingested[d].number
      BY <1>4, <2>1 DEF ReadIt
    <3>3. row.ingestion <= ingested'[d].number /\ row.ingestion # ingested'[d].number
      BY <1>1, <1>4, <3>1, <3>2
    <3> QED
      BY <2>1, <3>3 DEF ReadIt, InForce
  <2>2. CASE row.doc # d
    BY <1>1, <1>4, <2>2 DEF ReadIt, InForce
  <2> QED
    BY <2>1, <2>2
<1>5. \A row \in backups : row.doc \in Documents /\ row.ingestion \in Nat
  BY <1>t DEF ReclassTyped, Rows
<1>6. \A o \in Operators : \A change \in command[o].changes :
        change.doc \in Documents /\ change.ingestion \in Nat
  <2>1. \A change \in Changes : change.doc \in Documents /\ change.ingestion \in Nat
    BY DEF Changes
  <2> QED
    BY <1>t, <2>1 DEF ReclassTyped, CommandStates
<1>7. ReadBefore'
  BY <1>t, <1>u, <1>4, <1>5, <1>6 DEF ReadBefore
<1>8. \A e \in Documents \ {d} : \A f : SavedValue(e, f) => SavedValue(e, f)'
  BY <1>1, <1>u DEF SavedValue
<1>9. ASSUME NEW row, row.doc \in Documents, row.ingestion \in Nat, ReadIt(row), CanBeHadBack(row)
      PROVE CanBeHadBack(row)'
  <2>1. InForce(row)' => row.doc # d /\ InForce(row)
    BY <1>4, <1>9
  <2> QED
    BY <1>8, <1>9, <1>u, <2>1 DEF CanBeHadBack
<1>10. RowsCanBeHadBack'
  BY <1>t, <1>u, <1>5, <1>9 DEF RowsCanBeHadBack, ReadBefore
<1>11. ChangesCanBeHadBack'
  <2> SUFFICES ASSUME NEW o \in Operators, NEW change \in command[o].changes
      PROVE CanBeHadBack(change)'
            \/ (command[o].pc = "detected" /\ change.old = ingested'[change.doc].rules)
    BY <1>u DEF ChangesCanBeHadBack
  <2>1. ReadIt(change) /\ change.doc \in Documents /\ change.ingestion \in Nat
    BY <1>t, <1>6 DEF ReadBefore
  <2>2. CASE CanBeHadBack(change)
    BY <1>9, <2>1, <2>2
  <2>3. CASE ~InForce(change)'
    BY <2>3 DEF CanBeHadBack
  <2>4. CASE InForce(change)' /\ command[o].pc = "detected" /\ change.old = ingested[change.doc].rules
    BY <1>1, <1>4, <2>1, <2>4
  <2> QED
    BY <1>t, <2>2, <2>3, <2>4 DEF ChangesCanBeHadBack
<1>12. IngestedValueIsSaved'
  <2> SUFFICES ASSUME NEW e \in Documents \ overtaken', NEW f \in Fields \ Unread
      PROVE payload'[Default][e][f] = ingested'[e].rules \/ SavedValue(e, f)'
    BY DEF IngestedValueIsSaved, SavedValue
  <2>1. CASE e = d
    BY <1>1, <1>2, <2>1
  <2>2. CASE e # d
    <3>1. e \in Documents \ overtaken
      BY <1>u, <2>2
    <3>2. payload[Default][e][f] = ingested[e].rules \/ SavedValue(e, f)
      BY <1>t, <3>1 DEF IngestedValueIsSaved, SavedValue
    <3> QED
      BY <1>1, <1>2, <1>8, <2>2, <3>2
  <2> QED
    BY <2>1, <2>2
<1> QED
  BY <1>3, <1>7, <1>10, <1>11, <1>12 DEF ReclassInv

(* One call of set_payload: what is written is what was read after the last *)
(* ingestion, and can be had back, or the document counts as overtaken.     *)
LEMMA WritesDocumentKeeps ==
  ASSUME ReclassInv, NEW o \in Operators, NEW d \in Documents,
         command[o].pc \in {"updating", "restoring"}, WritesDocument(o, d),
         UNCHANGED <<rules, ingested, backups, second, stopped>>
  PROVE  ReclassInv'
<1> DEFINE c == command[o].collection
           mine == {change \in command[o].changes : change.doc = d}
           written == [f \in Fields |->
             IF \E change \in mine : change.field = f
             THEN (CHOOSE change \in mine : change.field = f).new
             ELSE payload[c][d][f]]
<1>t. ReclassTyped /\ ReadBefore /\ RowsCanBeHadBack /\ ChangesCanBeHadBack /\ IngestedValueIsSaved
  BY DEF ReclassInv
<1>b. Default \in Collections
  BY ReclassificationAssumption
<1>c. /\ c \in Collections /\ command[o].changes \subseteq Changes
  BY <1>t DEF ReclassTyped, CommandStates
<1>m. mine \subseteq Changes /\ mine \subseteq command[o].changes
  BY <1>c
<1>w. /\ payload' = [payload EXCEPT ![c][d] = written]
      /\ overtaken' = overtaken \cup
           {e \in {d} : /\ c = Default
                        /\ \E change \in mine : change.ingestion # ingested[e].number}
      /\ command' = [command EXCEPT ![o].changes = @ \ mine]
  BY DEF WritesDocument
<1> HIDE DEF mine
<1>1. written \in [Fields -> Values]
  <2>1. \A change \in Changes : change.new \in Values
    BY DEF Changes
  <2>2. \A f \in Fields : (\E change \in mine : change.field = f) =>
          (CHOOSE change \in mine : change.field = f) \in mine
    OBVIOUS
  <2>3. \A f \in Fields : payload[c][d][f] \in Values
    BY <1>c, <1>t DEF ReclassTyped
  <2> HIDE DEF c
  <2> QED
    BY <1>m, <2>1, <2>2, <2>3
<1>2. \A f \in Fields : (\A change \in mine : change.field # f) => written[f] = payload[c][d][f]
  OBVIOUS
<1> HIDE DEF written, c
<1>3. /\ payload' \in [Collections -> [Documents -> [Fields -> Values]]]
      /\ payload'[c][d] = written
      /\ \A e \in Documents \ {d} : payload'[c][e] = payload[c][e]
      /\ \A k \in Collections \ {c} : payload'[k] = payload[k]
  <2>1. payload' = [payload EXCEPT ![c] = [payload[c] EXCEPT ![d] = written]]
    BY <1>w
  <2>2. /\ [payload[c] EXCEPT ![d] = written] \in [Documents -> [Fields -> Values]]
        /\ [payload[c] EXCEPT ![d] = written][d] = written
        /\ \A e \in Documents \ {d} : [payload[c] EXCEPT ![d] = written][e] = payload[c][e]
    BY <1>c, <1>t, <1>1 DEF ReclassTyped
  <2> QED
    BY <1>c, <1>t, <2>1, <2>2 DEF ReclassTyped
<1>4. /\ command' \in [Operators -> CommandStates]
      /\ command'[o].changes \subseteq command[o].changes /\ command'[o].pc = command[o].pc
      /\ \A p \in Operators \ {o} : command'[p] = command[p]
  <2>1. command' = [command EXCEPT ![o] = [command[o] EXCEPT !.changes = command[o].changes \ mine]]
    BY <1>w
  <2>2. command[o] \in CommandStates
    BY <1>t DEF ReclassTyped
  <2>3. [command[o] EXCEPT !.changes = command[o].changes \ mine] \in CommandStates
    BY <1>c, <2>2 DEF CommandStates
  <2>4. [command[o] EXCEPT !.changes = command[o].changes \ mine].changes \subseteq command[o].changes
        /\ [command[o] EXCEPT !.changes = command[o].changes \ mine].pc = command[o].pc
    BY <2>2 DEF CommandStates
  <2> QED
    BY <1>t, <2>1, <2>3, <2>4 DEF ReclassTyped
<1>5. overtaken \subseteq overtaken' /\ overtaken' \subseteq Documents
      /\ (c = Default /\ d \notin overtaken' =>
            \A change \in mine : change.ingestion = ingested[d].number)
  BY <1>w, <1>t DEF ReclassTyped
<1>6. ReclassTyped'
  BY <1>t, <1>3, <1>4, <1>5 DEF ReclassTyped
<1>7. ingested' = ingested /\ backups' = backups
  OBVIOUS
<1>8. \A e, f : SavedValue(e, f)' <=> SavedValue(e, f)
  BY <1>7, Zenon DEF SavedValue
<1>9. \A row : (ReadIt(row) => ReadIt(row)') /\ (CanBeHadBack(row) => CanBeHadBack(row)')
  <2>1. \A row : ReadIt(row)' <=> ReadIt(row)
    BY <1>7, Zenon DEF ReadIt
  <2>2. \A row : InForce(row)' <=> InForce(row)
    BY <1>7, Zenon DEF InForce
  <2> QED
    BY <1>5, <1>8, <2>1, <2>2 DEF CanBeHadBack
<1>10. ReadBefore'
  <2>1. \A p \in Operators : \A change \in command'[p].changes : ReadIt(change)
    BY <1>4, <1>t DEF ReadBefore
  <2> QED
    BY <1>t, <1>7, <1>9, <2>1 DEF ReadBefore
<1>11. RowsCanBeHadBack'
  BY <1>t, <1>7, <1>9 DEF RowsCanBeHadBack
<1>12. ChangesCanBeHadBack'
  <2>1. \A p \in Operators : \A change \in command'[p].changes :
          change \in command[p].changes /\ command'[p].pc = command[p].pc
    BY <1>4
  <2> QED
    BY <1>t, <1>7, <1>9, <2>1 DEF ChangesCanBeHadBack
<1>13. IngestedValueIsSaved'
  <2> SUFFICES ASSUME NEW e \in Documents \ overtaken', NEW f \in Fields \ Unread
      PROVE payload'[Default][e][f] = ingested[e].rules \/ SavedValue(e, f)
    BY <1>7, <1>8 DEF IngestedValueIsSaved, SavedValue
  <2>1. payload[Default][e][f] = ingested[e].rules \/ SavedValue(e, f)
    BY <1>t, <1>5 DEF IngestedValueIsSaved, SavedValue
  <2>2. CASE payload'[Default][e][f] = payload[Default][e][f]
    BY <2>1, <2>2
  <2>3. CASE c = Default /\ e = d /\ \E change \in mine : change.field = f
    <3>1. PICK change \in mine : change.field = f
      BY <2>3
    <3>2. change.doc = d /\ change \in command[o].changes
      BY DEF mine
    <3>3. InForce(change)
      BY <1>5, <2>3, <3>2 DEF InForce
    <3>4. CanBeHadBack(change)
      BY <1>t, <3>2 DEF ChangesCanBeHadBack
    <3> QED
      BY <1>5, <2>3, <3>1, <3>2, <3>3, <3>4 DEF CanBeHadBack
  <2> QED
    BY <1>2, <1>3, <1>b, <2>2, <2>3
<1> QED
  BY <1>6, <1>10, <1>11, <1>12, <1>13 DEF ReclassInv

(* Detection reads the payload of the moment. *)
LEMMA DetectedChanges ==
  ASSUME ReclassInv, NEW k \in Collections, NEW S \in SUBSET Documents
  PROVE  \A change \in Detected(k, S) :
           /\ change \in Changes /\ ReadIt(change)
           /\ CanBeHadBack(change) \/ change.old = ingested[change.doc].rules
<1>t. ReclassTyped /\ IngestedValueIsSaved
  BY DEF ReclassInv
<1>b. MaxRules \in Nat /\ Default \in Collections
  BY ReclassificationAssumption
<1> SUFFICES ASSUME NEW change \in Detected(k, S)
    PROVE /\ change \in Changes /\ ReadIt(change)
          /\ CanBeHadBack(change) \/ change.old = ingested[change.doc].rules
  OBVIOUS
<1>1. PICK d \in S, f \in Fields :
        change = [doc |-> d, field |-> f, old |-> IF f \in Unread THEN 0 ELSE payload[k][d][f],
                  new |-> rules, ingestion |-> IF k = Default THEN ingested[d].number ELSE 0]
  BY DEF Detected
<1>2. d \in Documents /\ ingested[d].number \in Nat \ {0} /\ ingested[d].rules \in Values
  BY <1>t DEF ReclassTyped
<1>3. change.old \in Values /\ rules \in Values /\ change.ingestion \in Nat
  BY <1>b, <1>t, <1>1, <1>2 DEF ReclassTyped, Values
<1>4. change.doc = d /\ change.field = f /\ change.new = rules
  BY <1>1
<1>5. change \in Changes
  BY <1>1, <1>2, <1>3 DEF Changes
<1>6. ReadIt(change)
  BY <1>1, <1>2, <1>4 DEF ReadIt
<1>7. CanBeHadBack(change) \/ change.old = ingested[change.doc].rules
  <2> SUFFICES ASSUME InForce(change), f \notin Unread, d \notin overtaken, ~SavedValue(d, f)
               PROVE  change.old = ingested[d].rules
    BY <1>4 DEF CanBeHadBack
  <2>1. k = Default
    BY <1>1, <1>2, <1>4 DEF InForce
  <2>2. payload[Default][d][f] = ingested[d].rules
    BY <1>t, <1>2 DEF IngestedValueIsSaved, SavedValue
  <2> QED
    BY <1>1, <2>1, <2>2
<1> QED
  BY <1>5, <1>6, <1>7

(* What a rollback takes are rows of the table. *)
LEMMA RestoredChanges ==
  ASSUME ReclassInv, NEW saved \in SUBSET backups
  PROVE  \A change \in {[doc |-> row.doc, field |-> row.field, old |-> 0, new |-> row.old,
                          ingestion |-> row.ingestion] : row \in Latest(saved)} :
           change \in Changes /\ ReadIt(change) /\ CanBeHadBack(change)
<1> SUFFICES ASSUME NEW row \in Latest(saved), NEW change,
               change = [doc |-> row.doc, field |-> row.field, old |-> 0, new |-> row.old,
                         ingestion |-> row.ingestion]
    PROVE change \in Changes /\ ReadIt(change) /\ CanBeHadBack(change)
  OBVIOUS
<1>1. row \in backups /\ row \in Rows
  BY DEF Latest, ReclassInv, ReclassTyped
<1>2. row.doc \in Documents /\ row.field \in Fields /\ row.old \in Values /\ row.ingestion \in Nat
  BY <1>1 DEF Rows
<1>3. 0 \in Values
  BY ReclassificationAssumption DEF Values
<1>4. change \in Changes
  BY <1>2, <1>3 DEF Changes
<1>5. change.doc = row.doc /\ change.field = row.field /\ change.ingestion = row.ingestion
  OBVIOUS
<1>6. ReadIt(row) /\ CanBeHadBack(row)
  BY <1>1 DEF ReclassInv, ReadBefore, RowsCanBeHadBack
<1> QED
  BY <1>4, <1>5, <1>6 DEF ReadIt, CanBeHadBack, InForce

(* A rollback begins, with the latest backup of each field.                *)
LEMMA RestoresKeeps ==
  ASSUME ReclassInv, NEW o \in Operators, NEW saved \in SUBSET backups, Restores(o, saved)
  PROVE  ReclassInv'
<1> DEFINE changes == {[doc |-> row.doc, field |-> row.field, old |-> 0, new |-> row.old,
                        ingestion |-> row.ingestion] : row \in Latest(saved)}
           new == [pc |-> "restoring", collection |-> Default, changes |-> changes]
<1>1. \A change \in changes : change \in Changes /\ ReadIt(change) /\ CanBeHadBack(change)
  BY RestoredChanges
<1>2. /\ command' = [command EXCEPT ![o] = new]
      /\ UNCHANGED <<rules, payload, ingested, backups, second, overtaken, stopped>>
  BY DEF Restores
<1> HIDE DEF changes
<1>3. new \in CommandStates /\ new.changes = changes /\ new.pc = "restoring"
  BY <1>1, ReclassificationAssumption DEF CommandStates
<1> HIDE DEF new
<1>4. backups' \subseteq Rows /\ rules' \in 1..MaxRules /\ second' \in Seconds
      /\ stopped' \in 0..MaxCrashes
  BY <1>2 DEF ReclassInv, ReclassTyped
<1> QED
  BY <1>1, <1>2, <1>3, <1>4, CommandMoves

(* A run begins: it has detected nothing yet.                              *)
LEMMA StartRunKeeps ==
  ASSUME ReclassInv, NEW o \in Operators, NEW k \in Collections, NEW S \in SUBSET Documents,
         StartRun(o, k, S)
  PROVE  ReclassInv'
<1> DEFINE changes == Detected(k, S)
           new == [pc |-> "detected", collection |-> k, changes |-> changes]
<1>1. \A change \in changes : /\ change \in Changes /\ ReadIt(change)
                              /\ CanBeHadBack(change) \/ change.old = ingested[change.doc].rules
  BY DetectedChanges
<1>2. /\ command' = [command EXCEPT ![o] = new]
      /\ UNCHANGED <<rules, payload, ingested, backups, second, overtaken, stopped>>
  BY DEF StartRun
<1> HIDE DEF changes
<1>3. new \in CommandStates /\ new.changes = changes /\ new.pc = "detected"
  BY <1>1 DEF CommandStates
<1> HIDE DEF new
<1>4. backups' \subseteq Rows /\ rules' \in 1..MaxRules /\ second' \in Seconds
      /\ stopped' \in 0..MaxCrashes
  BY <1>2 DEF ReclassInv, ReclassTyped
<1> QED
  BY <1>1, <1>2, <1>3, <1>4, CommandMoves

(* The backup: one transaction, or none of its rows. *)
LEMMA BackupKeeps ==
  ASSUME ReclassInv, NEW o \in Operators, Backup(o)
  PROVE  ReclassInv'
<1>t. ReclassTyped /\ ReadBefore /\ RowsCanBeHadBack /\ ChangesCanBeHadBack
  BY DEF ReclassInv
<1>u. UNCHANGED <<rules, payload, ingested, second, overtaken, stopped>>
  BY DEF Backup
<1>4. rules' \in 1..MaxRules /\ second' \in Seconds /\ stopped' \in 0..MaxCrashes
  BY <1>t, <1>u DEF ReclassTyped
<1>1. CASE command' = [command EXCEPT ![o] = Idle] /\ backups' = backups
  <2>1. backups' \subseteq Rows /\ backups \subseteq backups' /\ backups' \ backups = {}
    BY <1>1, <1>t DEF ReclassTyped
  <2> QED
    BY <1>1, <1>4, <1>u, <2>1, IdleCommand, CommandMoves
<1>2. CASE /\ backups' = backups \cup
                {[session |-> second, doc |-> change.doc, field |-> change.field,
                  old |-> change.old, ingestion |-> change.ingestion] :
                   change \in command[o].changes}
           /\ command' = [command EXCEPT ![o].pc = "updating"]
  <2> DEFINE Row(change) == [session |-> second, doc |-> change.doc, field |-> change.field,
                             old |-> change.old, ingestion |-> change.ingestion]
             added == {Row(change) : change \in command[o].changes}
  <2>0. command[o] \in CommandStates /\ second \in Seconds
    BY <1>t DEF ReclassTyped
  <2>1. \A change \in command[o].changes :
          change.doc \in Documents /\ change.field \in Fields /\ change.old \in Values
          /\ change.ingestion \in Nat /\ ReadIt(change)
          /\ (CanBeHadBack(change) \/ change.old = ingested[change.doc].rules)
    <3>1. \A change \in command[o].changes : change \in Changes
      BY <2>0 DEF CommandStates
    <3>2. \A change \in Changes : change.doc \in Documents /\ change.field \in Fields
            /\ change.old \in Values /\ change.ingestion \in Nat
      BY DEF Changes
    <3> QED
      BY <1>t, <3>1, <3>2 DEF ReadBefore, ChangesCanBeHadBack
  <2>2. \A change : Row(change).doc = change.doc /\ Row(change).field = change.field
                    /\ Row(change).old = change.old /\ Row(change).ingestion = change.ingestion
    OBVIOUS
  <2>3. \A change \in command[o].changes : Row(change) \in Rows
    BY <2>0, <2>1 DEF Rows
  <2>4. backups' = backups \cup added
    BY <1>2
  <2> HIDE DEF Row
  <2>5. \A row \in added : row \in Rows /\ ReadIt(row)
                            /\ (CanBeHadBack(row) \/ row.old = ingested[row.doc].rules)
    <3> SUFFICES ASSUME NEW change \in command[o].changes
        PROVE /\ Row(change) \in Rows /\ ReadIt(Row(change))
              /\ (CanBeHadBack(Row(change))
                   \/ Row(change).old = ingested[Row(change).doc].rules)
      OBVIOUS
    <3> QED
      BY <2>1, <2>2, <2>3 DEF ReadIt, CanBeHadBack, InForce
  <2>6. \A change \in command[o].changes :
          change.old = ingested[change.doc].rules =>
            \E row \in backups' : /\ row.doc = change.doc /\ row.field = change.field
                                  /\ row.old = ingested[change.doc].rules
    <3> SUFFICES ASSUME NEW change \in command[o].changes,
                        change.old = ingested[change.doc].rules
        PROVE \E row \in backups' : /\ row.doc = change.doc /\ row.field = change.field
                                    /\ row.old = ingested[change.doc].rules
      OBVIOUS
    <3>1. Row(change) \in backups'
      BY <2>4
    <3> QED
      BY <2>2, <3>1
  <2> DEFINE new == [command[o] EXCEPT !.pc = "updating"]
  <2>7. command' = [command EXCEPT ![o] = new] /\ new \in CommandStates
        /\ new.changes = command[o].changes
    BY <1>2, <2>0 DEF CommandStates
  <2>8. backups' \subseteq Rows /\ backups \subseteq backups'
        /\ \A row \in backups' \ backups : row \in added
    BY <1>t, <2>4, <2>5 DEF ReclassTyped
  <2> HIDE DEF new, added
  <2> QED
    BY <1>4, <1>u, <2>1, <2>5, <2>6, <2>7, <2>8, CommandMoves
<1> QED
  BY <1>1, <1>2 DEF Backup

(* Every step keeps the invariant.                                         *)
LEMMA ReclassStepInv == ReclassInv /\ ReclassStep => ReclassInv'
<1> SUFFICES ASSUME ReclassInv, ReclassStep PROVE ReclassInv'
  OBVIOUS
<1>t. ReclassTyped /\ ReadBefore /\ RowsCanBeHadBack /\ ChangesCanBeHadBack /\ IngestedValueIsSaved
  BY DEF ReclassInv
<1>b. MaxRules \in Nat \ {0} /\ MaxTime \in Nat \ {0} /\ MaxCrashes \in Nat
  BY ReclassificationAssumption
(* Steps that the values, the rows and the changes do not take part in. *)
<1>k. ASSUME UNCHANGED <<payload, ingested, backups, command, overtaken>>,
             rules' \in 1..MaxRules, second' \in Seconds, stopped' = stopped
      PROVE  ReclassInv'
  <2>1. ReclassTyped'
    BY <1>t, <1>k DEF ReclassTyped
  <2>2. \A row : (ReadIt(row)' <=> ReadIt(row)) /\ (CanBeHadBack(row)' <=> CanBeHadBack(row))
    BY <1>k DEF ReadIt, CanBeHadBack, InForce, SavedValue
  <2>3. ReadBefore' /\ RowsCanBeHadBack' /\ ChangesCanBeHadBack'
    BY <1>t, <1>k, <2>2 DEF ReadBefore, RowsCanBeHadBack, ChangesCanBeHadBack
  <2>4. IngestedValueIsSaved'
    BY <1>t, <1>k DEF IngestedValueIsSaved
  <2> QED
    BY <2>1, <2>3, <2>4 DEF ReclassInv
(* A command that ends, in whichever way. *)
<1>e. ASSUME NEW o \in Operators, command' = [command EXCEPT ![o] = Idle],
             UNCHANGED <<rules, payload, ingested, backups, second, overtaken>>,
             stopped' \in 0..MaxCrashes
      PROVE  ReclassInv'
  <2>1. /\ backups' \subseteq Rows /\ backups \subseteq backups' /\ backups' \ backups = {}
        /\ rules' \in 1..MaxRules /\ second' \in Seconds
    BY <1>e, <1>t DEF ReclassTyped
  <2> QED
    BY <1>e, <2>1, IdleCommand, CommandMoves
<1>1. CASE EditRules
  <2>1. rules' \in 1..MaxRules
    BY <1>1, <1>b, <1>t DEF EditRules, ReclassTyped
  <2> QED
    BY <1>1, <1>k, <1>t, <2>1 DEF EditRules, ReclassTyped
<1>2. CASE NextSecond
  <2>1. second' \in Seconds
    BY <1>2, <1>b, <1>t DEF NextSecond, ReclassTyped, Seconds
  <2> QED
    BY <1>2, <1>k, <1>t, <2>1 DEF NextSecond, ReclassTyped
<1>3. ASSUME NEW o \in Operators, NEW S \in SUBSET Documents,
             \E until \in Seconds : RollbackBefore(o, S, until)
      PROVE ReclassInv'
  <2>1. PICK until \in Seconds : RollbackBefore(o, S, until)
    BY <1>3
  <2>2. {row \in backups : row.session < until /\ row.doc \in S} \in SUBSET backups
    OBVIOUS
  <2> QED
    BY <2>1, <2>2, RestoresKeeps DEF RollbackBefore
<1>4. ASSUME NEW o \in Operators, NEW session \in Seconds, RollbackSession(o, session)
      PROVE ReclassInv'
  <2>1. {row \in backups : row.session = session} \in SUBSET backups
    OBVIOUS
  <2> QED
    BY <1>4, <2>1, RestoresKeeps DEF RollbackSession
<1>5. ASSUME NEW o \in Operators, UpdateDocument(o) \/ RestoreDocument(o) PROVE ReclassInv'
  <2>1. PICK d \in Documents : WritesDocument(o, d)
    BY <1>5 DEF UpdateDocument, RestoreDocument
  <2>2. command[o].pc \in {"updating", "restoring"}
        /\ UNCHANGED <<rules, ingested, backups, second, stopped>>
    BY <1>5 DEF UpdateDocument, RestoreDocument
  <2> QED
    BY <2>1, <2>2, WritesDocumentKeeps
<1>6. ASSUME NEW o \in Operators, LogChanges(o) \/ LogRollback(o) PROVE ReclassInv'
  BY <1>6, <1>e, <1>t DEF LogChanges, LogRollback, ReclassTyped
<1>7. ASSUME NEW o \in Operators, StopCommand(o) PROVE ReclassInv'
  <2>1. stopped' \in 0..MaxCrashes
    BY <1>7, <1>b, <1>t DEF StopCommand, ReclassTyped
  <2> QED
    BY <1>7, <1>e, <2>1 DEF StopCommand
<1>8. CASE UNCHANGED reclassVars
  BY <1>8, <1>k, <1>t DEF reclassVars, ReclassTyped
<1>9. ASSUME NEW o \in Operators, NEW S \in SUBSET Documents, NEW k \in Collections, StartRun(o, k, S)
      PROVE ReclassInv'
  BY <1>9, StartRunKeeps
<1>10. ASSUME NEW d \in Documents, Ingest(d) PROVE ReclassInv'
  BY <1>10, IngestKeeps
<1>11. ASSUME NEW o \in Operators, Backup(o) PROVE ReclassInv'
  BY <1>11, BackupKeeps
<1> QED
  BY <1>1, <1>2, <1>3, <1>4, <1>5, <1>6, <1>7, <1>8, <1>9, <1>10, <1>11
  DEF ReclassStep, ReclassNext

(* What a command, or a row, remembers of a document since its last        *)
(* ingestion can be had back, in every interleaving of the commands.       *)
THEOREM ReclassInvariant == ReclassSpec => []ReclassInv
<1>1. ReclassInv /\ [ReclassNext]_reclassVars => ReclassInv'
  BY ReclassStepInv DEF ReclassStep
<1> QED
  BY <1>1, ReclassInitInv, PTL DEF ReclassSpec

(* The value that ingestion wrote is in the payload or in a backup row,    *)
(* unless a command wrote over it what was read before.                    *)
THEOREM IngestedValuesAreSaved == ReclassSpec => []IngestedValueIsSaved
<1>1. ReclassInv => IngestedValueIsSaved
  BY DEF ReclassInv
<1> QED
  BY <1>1, ReclassInvariant, PTL
=============================================================================
