------------------------------- MODULE Accounts -------------------------------
(***************************************************************************)
(* User accounts, which live in two places: the table users and the map of *)
(* auth.Service, which is lost with the process.  Each operation changes   *)
(* the table with one statement and then the map under its lock; requests  *)
(* run concurrently, and the server may die between the two.  Login asks   *)
(* the table, and the map only for a name that the table does not have.    *)
(*                                                                         *)
(* A database is configured (production requires one).  A statement that   *)
(* is refused or fails changes nothing and ends its request.               *)
(***************************************************************************)
CONSTANTS
    Users,      \* user names
    Initial,    \* the name of the initial admin
    Passwords,
    TooLong,    \* passwords of more bytes than bcrypt takes
    Salts,      \* bcrypt puts one into every hash
    Trim,       \* Trim[p]: p without surrounding blanks
    Requests,   \* goroutines that serve HTTP requests
    NoUser,
    Faults      \* whether the seeding of the table can fail

Roles == {"admin", "operator"}

\* The texts of hashes, and all that can be stored or typed at a login.
Hashes == [of : Passwords, salt : Salts]
Texts == Passwords \cup Hashes

\* hash: what is stored for the password, in the clear in one case (see Stored).
Accounts == [hash : Texts, role : Roles]

ASSUME AccountsAssumption ==
    /\ Initial \in Users
    /\ Passwords # {} /\ Salts # {}
    /\ Passwords \cap Hashes = {}
    /\ TooLong \subseteq Passwords
    /\ Trim \in [Passwords -> Passwords]
    /\ \A p \in Passwords : Trim[Trim[p]] = Trim[p]
    /\ NoUser \notin Accounts
    /\ {"unknown", "deleted"} \cap Passwords = {}
    /\ Faults \in BOOLEAN

VARIABLES
    table,      \* the table users
    users,      \* the map of auth.Service
    tokens,     \* signed tokens that have not expired
    req,        \* the goroutines
    settled     \* history: what the last undisturbed request on a user answered,
                \* the password as it was typed or "deleted"

vars == <<table, users, tokens, req, settled>>

Goroutines == [step : {"idle", "login", "keep", "drop", "put"}, user : Users,
               typed : Passwords, text : Texts, role : Roles, alone : BOOLEAN]

SomePassword == CHOOSE p \in Passwords : TRUE
Idle == [step |-> "idle", user |-> Initial, typed |-> SomePassword, text |-> SomePassword,
         role |-> "operator", alone |-> FALSE]

\* bcrypt: the hashes it can make of a password, none if it is too long, and
\* whether a text is the password of a hash.
GenerateFromPassword(p) == IF p \in TooLong THEN {} ELSE {[of |-> p, salt |-> s] : s \in Salts}
CompareHashAndPassword(h, t) == h \in Hashes /\ h.of = t

\* The check of Login: by bcrypt, and as plain text "for backward compatibility".
\* The text of the hash opens the account, too.
Opens(h, t) == CompareHashAndPassword(h, t) \/ t = h

\* What NewService keeps of the configured password: a hash, or the password
\* itself where it cannot be hashed.
Stored(p) == IF p \in TooLong THEN {p} ELSE GenerateFromPassword(p)

Admin(h) == [hash |-> h, role |-> "admin"]

\* NewService: the map holds the initial admin.
FreshMap(h) == [u \in Users |-> IF u = Initial THEN Admin(h) ELSE NoUser]

\* SeedUserStore, before requests are served: the table gets the initial admin
\* unless it has one.  A failure is logged, and the server starts all the same.
SeedUserStore(t, h) ==
    IF t[Initial] # NoUser THEN {t}
    ELSE {[t EXCEPT ![Initial] = Admin(h)]} \cup (IF Faults THEN {t} ELSE {})

Init ==
    /\ \E p \in Passwords : \E h \in Stored(p) :
        /\ users = FreshMap(h)
        /\ table \in SeedUserStore([u \in Users |-> NoUser], h)
    /\ tokens = {}
    /\ req = [r \in Requests |-> Idle]
    /\ settled = [u \in Users |-> "unknown"]

\* The process dies and is started again, perhaps with another password in its
\* configuration.  Tokens stay valid: the key is configured, too.
Restart ==
    /\ \E p \in Passwords : \E h \in Stored(p) :
        /\ users' = FreshMap(h)
        /\ table' \in SeedUserStore(table, h)
    /\ req' = [r \in Requests |-> Idle]
    /\ UNCHANGED <<tokens, settled>>

-----------------------------------------------------------------------------
(* Login and tokens.                                                       *)

\* Mutant: a token without the role.
MutIssueNoRole(u, a) == tokens' = tokens \cup {[user |-> u]}

\* generateToken
Issue(u, a) == tokens' = tokens \cup {[user |-> u, role |-> a.role]}

Finish(r) == req' = [req EXCEPT ![r] = Idle]

\* Login: the table knows the user, and decides.
Login(r, u, t) ==
    /\ req[r].step = "idle"
    /\ table[u] # NoUser
    /\ Opens(table[u].hash, t)
    /\ Issue(u, table[u])
    /\ UNCHANGED <<table, users, req, settled>>

\* Login: the table does not, and the map is asked next.
LoginUnknown(r, u, t) ==
    /\ req[r].step = "idle"
    /\ table[u] = NoUser
    /\ req' = [req EXCEPT ![r] = [Idle EXCEPT !.step = "login", !.user = u, !.text = t]]
    /\ UNCHANGED <<table, users, tokens, settled>>

LoginFallback(r) ==
    LET a == users[req[r].user]
    IN  /\ req[r].step = "login"
        /\ IF a # NoUser /\ Opens(a.hash, req[r].text) THEN Issue(req[r].user, a) ELSE UNCHANGED tokens
        /\ Finish(r)
        /\ UNCHANGED <<table, users, settled>>

\* ParseToken refuses a token after twelve hours.
Expire(t) ==
    /\ tokens' = tokens \ {t}
    /\ UNCHANGED <<table, users, req, settled>>

\* Who may create, delete and change: withUserAuth and the checks of the handlers
\* look at the token and at nothing else.
MayCreate == \E t \in tokens : t.role = "admin"
MayDelete(u) == \E t \in tokens : t.role = "admin" /\ t.user # u
MayChange(u) == \E t \in tokens : t.role = "admin" \/ t.user = u

-----------------------------------------------------------------------------
(* Operations: one statement, then the map.                                *)

\* The statements of the repository.  The primary key refuses a second INSERT;
\* DELETE and UPDATE that meet no row are errors.
InsertUser(u, a) == table[u] = NoUser /\ table' = [table EXCEPT ![u] = a]
RemoveUser(u) == table[u] # NoUser /\ table' = [table EXCEPT ![u] = NoUser]
UpdatePassword(u, h) == table[u] # NoUser /\ table' = [table EXCEPT ![u].hash = h]

\* The requests whose overlap leaves open what holds after one of the given kind:
\* only a create can bring a user back that a delete removes.
Disturbs(kind) == IF kind = "drop" THEN {"keep"} ELSE {"keep", "drop", "put"}

\* Request r on u has changed the table and goes on with the map.
Proceed(r, kind, u, p, h, role) ==
    /\ req' = [x \in Requests |->
            IF x = r
            THEN [step |-> kind, user |-> u, typed |-> p, text |-> h, role |-> role,
                  alone |-> \A y \in Requests : req[y].user = u => req[y].step \notin Disturbs(kind)]
            ELSE IF req[x].user = u /\ kind \in Disturbs(req[x].step)
            THEN [req[x] EXCEPT !.alone = FALSE]
            ELSE req[x]]
    /\ settled' = [settled EXCEPT ![u] = "unknown"]

\* Request r answers: with success, v holds for its user from now on.
Answer(r, ok, v) ==
    /\ settled' = IF ok /\ req[r].alone THEN [settled EXCEPT ![req[r].user] = v] ELSE settled
    /\ Finish(r)

\* CreateUser: the INSERT, then the map, which refuses a name it holds; the row
\* stays in that case.
CreateUser(r, u, p, role) ==
    /\ req[r].step = "idle"
    /\ MayCreate
    /\ \E h \in GenerateFromPassword(Trim[p]) :
        /\ InsertUser(u, [hash |-> h, role |-> role])
        /\ Proceed(r, "keep", u, p, h, role)
    /\ UNCHANGED <<users, tokens>>

KeepInMemory(r) ==
    LET u == req[r].user
    IN  /\ req[r].step = "keep"
        /\ users' = IF users[u] # NoUser THEN users
                    ELSE [users EXCEPT ![u] = [hash |-> req[r].text, role |-> req[r].role]]
        /\ Answer(r, users[u] = NoUser, req[r].typed)
        /\ UNCHANGED <<table, tokens>>

\* Mutant: the initial admin is not protected.
MutDeleteAnyone(r, u) ==
    /\ req[r].step = "idle"
    /\ MayDelete(u)
    /\ RemoveUser(u)
    /\ Proceed(r, "drop", u, Idle.typed, Idle.text, Idle.role)
    /\ UNCHANGED <<users, tokens>>

\* DeleteUser, by an admin and not of oneself.
DeleteUser(r, u) ==
    /\ req[r].step = "idle"
    /\ MayDelete(u)
    /\ u # Initial
    /\ RemoveUser(u)
    /\ Proceed(r, "drop", u, Idle.typed, Idle.text, Idle.role)
    /\ UNCHANGED <<users, tokens>>

DropFromMemory(r) ==
    LET u == req[r].user
    IN  /\ req[r].step = "drop"
        /\ users' = [users EXCEPT ![u] = NoUser]
        /\ Answer(r, users[u] # NoUser, "deleted")
        /\ UNCHANGED <<table, tokens>>

\* ChangePassword, by an admin or the user.
ChangePassword(r, u, p) ==
    /\ req[r].step = "idle"
    /\ MayChange(u)
    /\ \E h \in GenerateFromPassword(Trim[p]) :
        /\ UpdatePassword(u, h)
        /\ Proceed(r, "put", u, p, h, Idle.role)
    /\ UNCHANGED <<users, tokens>>

\* Mutant: the record is written whether or not the map holds the user.
MutPutAlways(r) ==
    LET u == req[r].user
    IN  /\ req[r].step = "put"
        /\ users' = [users EXCEPT ![u] = [hash |-> req[r].text, role |-> "operator"]]
        /\ Answer(r, users[u] # NoUser, req[r].typed)
        /\ UNCHANGED <<table, tokens>>

PutInMemory(r) ==
    LET u == req[r].user
    IN  /\ req[r].step = "put"
        /\ users' = IF users[u] = NoUser THEN users ELSE [users EXCEPT ![u].hash = req[r].text]
        /\ Answer(r, users[u] # NoUser, req[r].typed)
        /\ UNCHANGED <<table, tokens>>

-----------------------------------------------------------------------------

Next ==
    \/ \E r \in Requests, u \in Users, t \in Texts : Login(r, u, t) \/ LoginUnknown(r, u, t)
    \/ \E r \in Requests, u \in Users, p \in Passwords :
        \/ \E role \in Roles : CreateUser(r, u, p, role)
        \/ ChangePassword(r, u, p)
    \/ \E r \in Requests :
        \/ LoginFallback(r)
        \/ KeepInMemory(r)
        \/ \E u \in Users : DeleteUser(r, u)
        \/ DropFromMemory(r)
        \/ PutInMemory(r)
    \/ \E t \in tokens : Expire(t)
    \/ Restart

Spec == Init /\ [][Next]_vars

-----------------------------------------------------------------------------
(* Properties.                                                             *)

\* The types of the two stores and of the goroutines.
TypeOK ==
    /\ table \in [Users -> Accounts \cup {NoUser}]
    /\ users \in [Users -> Accounts \cup {NoUser}]
    /\ tokens \in SUBSET [user : Users, role : Roles]
    /\ req \in [Requests -> Goroutines]
    /\ settled \in [Users -> Passwords \cup {"unknown", "deleted"}]

\* What Login answers.
Accepts(u, t) ==
    LET a == IF table[u] # NoUser THEN table[u] ELSE users[u]
    IN  a # NoUser /\ Opens(a.hash, t)

\* What CreateUser, ChangePassword and DeleteUser have answered holds, whatever
\* other requests are half done, and after any number of restarts.  Nothing opens
\* a deleted account.  The password that was set opens the account in the form
\* without surrounding blanks (with them it does not), and so does the text of the
\* hash that the table holds for it; no other text does.
AcknowledgedHolds ==
    \A u \in Users, t \in Texts :
        /\ settled[u] = "deleted" => ~Accepts(u, t)
        /\ settled[u] \in Passwords =>
            /\ table[u] # NoUser
            /\ Accepts(u, t) <=> t \in {Trim[settled[u]], table[u].hash}

\* Nobody is locked out for good: however admins delete each other, a password
\* opens the initial admin's account (with whatever role the row has).
InitialAdminStays == \E p \in Passwords : Accepts(Initial, p)

=============================================================================
