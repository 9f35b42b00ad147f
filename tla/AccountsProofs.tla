--------------------------- MODULE AccountsProofs ---------------------------
(* Theorems about Accounts, for any users, passwords and requests. *)
EXTENDS Accounts, TLAPS

Writing == {"keep", "drop", "put"}

\* The initial admin is never taken out of the map.
AdminInv ==
    /\ users[Initial] # NoUser
    /\ \A r \in Requests : req[r].step = "drop" => req[r].user # Initial

\* A deleted user is in neither store, and nobody is about to put it back.
DeletedInv ==
    \A u \in Users : settled[u] = "deleted" =>
        /\ u # Initial /\ table[u] = NoUser /\ users[u] = NoUser
        /\ \A r \in Requests : req[r].user = u => req[r].step # "keep"

\* A hash of the password that was typed, without the blanks around it.
IsHashOf(h, p) == h \in Hashes /\ h.of = Trim[p]

\* A password that is known to hold is in the table, and nobody is changing it.
KnownInv ==
    \A u \in Users : settled[u] \in Passwords =>
        /\ table[u] # NoUser /\ IsHashOf(table[u].hash, settled[u])
        /\ \A r \in Requests : req[r].user = u => req[r].step \notin Writing

\* What the table holds for a request that nobody has disturbed.
Undisturbed(r) ==
    /\ req[r].step \in Writing
    /\ req[r].step = "drop" => table[req[r].user] = NoUser
    /\ req[r].step # "drop" => 
        /\ table[req[r].user] # NoUser /\ table[req[r].user].hash = req[r].text
        /\ IsHashOf(req[r].text, req[r].typed)
    /\ \A x \in Requests \ {r} :
        req[x].user = req[r].user => req[x].step \notin Disturbs(req[r].step)

AloneInv == \A r \in Requests : req[r].alone => Undisturbed(r)

IInv == TypeOK /\ AdminInv /\ DeletedInv /\ KnownInv /\ AloneInv

-----------------------------------------------------------------------------

\* What a goroutine between two requests looks like.
LEMMA IdleTyped ==
    /\ Idle \in Goroutines
    /\ Idle.step = "idle" /\ Idle.user = Initial /\ Idle.alone = FALSE
    /\ Idle.typed \in Passwords /\ Idle.text \in Texts /\ Idle.role \in Roles
<1>1. SomePassword \in Passwords /\ SomePassword \in Texts
  BY AccountsAssumption DEF SomePassword, Texts
<1> HIDE DEF SomePassword
<1> QED BY <1>1, AccountsAssumption DEF Idle, Goroutines, Roles

\* What is stored of a password.
LEMMA StoredTyped ==
    ASSUME NEW p \in Passwords
    PROVE  /\ Stored(p) \subseteq Texts
           /\ \A h \in GenerateFromPassword(p) : h \in Hashes /\ h \in Texts /\ h.of = p
BY DEF Stored, GenerateFromPassword, Texts, Hashes

\* The table after a start: nothing but the row of the initial admin is new.
LEMMA SeedFrame ==
    ASSUME NEW t \in [Users -> Accounts \cup {NoUser}], NEW h \in Texts,
           NEW s \in SeedUserStore(t, h)
    PROVE  /\ s \in [Users -> Accounts \cup {NoUser}]
           /\ \A u \in Users : u # Initial \/ t[u] # NoUser => s[u] = t[u]
BY AccountsAssumption DEF SeedUserStore, Admin, Accounts, Roles

\* The map after a start holds the initial admin and nobody else.
LEMMA FreshMapTyped ==
    ASSUME NEW h \in Texts
    PROVE  /\ FreshMap(h) \in [Users -> Accounts \cup {NoUser}]
           /\ FreshMap(h)[Initial] # NoUser
           /\ \A u \in Users \ {Initial} : FreshMap(h)[u] = NoUser
BY AccountsAssumption DEF FreshMap, Admin, Accounts, Roles

\* The first start establishes the invariant.
LEMMA InitIInv == Init => IInv
<1> SUFFICES ASSUME Init PROVE IInv
  OBVIOUS
<1>1. PICK h \in Texts : users = FreshMap(h) /\ table \in SeedUserStore([u \in Users |-> NoUser], h)
  BY StoredTyped DEF Init
<1>2. table \in [Users -> Accounts \cup {NoUser}]
  <2>1. [u \in Users |-> NoUser] \in [Users -> Accounts \cup {NoUser}]
    OBVIOUS
  <2> QED BY <1>1, <2>1, SeedFrame
<1>3. TypeOK
  BY <1>1, <1>2, IdleTyped, FreshMapTyped DEF Init, TypeOK
<1>4. AdminInv
  BY <1>1, IdleTyped, FreshMapTyped DEF Init, AdminInv
<1>5. DeletedInv /\ KnownInv
  BY AccountsAssumption DEF Init, DeletedInv, KnownInv
<1>6. AloneInv
  BY IdleTyped DEF Init, AloneInv
<1> QED BY <1>3, <1>4, <1>5, <1>6 DEF IInv

\* A request that ends, or asks the map at a login, leaves nothing to keep.
LEMMA ReadFrame ==
    ASSUME IInv, NEW r \in Requests, NEW g \in Goroutines,
           g.step \in {"idle", "login"}, g.alone = FALSE,
           tokens' \in SUBSET [user : Users, role : Roles],
           req' = [req EXCEPT ![r] = g], UNCHANGED <<table, users, settled>>
    PROVE  IInv'
<1>1. TypeOK'
  BY DEF IInv, TypeOK
<1>2. AdminInv'
  BY DEF IInv, TypeOK, AdminInv
<1>3. DeletedInv'
  BY DEF IInv, TypeOK, DeletedInv
<1>4. KnownInv'
  BY DEF IInv, TypeOK, KnownInv, Writing
<1>5. AloneInv'
  <2> SUFFICES ASSUME NEW x \in Requests, req'[x].alone PROVE Undisturbed(x)'
    BY DEF AloneInv
  <2>1. x # r /\ req'[x] = req[x] /\ Undisturbed(x)
    BY DEF IInv, TypeOK, AloneInv
  <2>2. \A y \in Requests : y # r => req'[y] = req[y]
    BY DEF IInv, TypeOK
  <2>3. req'[r].step \notin Disturbs(req[x].step)
    BY DEF IInv, TypeOK, Disturbs
  <2> QED BY <2>1, <2>2, <2>3 DEF Undisturbed
<1> QED BY <1>1, <1>2, <1>3, <1>4, <1>5 DEF IInv

\* A token is issued, or expires.
LEMMA TokenFrame ==
    ASSUME IInv, tokens' \in SUBSET [user : Users, role : Roles],
           UNCHANGED <<table, users, req, settled>>
    PROVE  IInv'
BY DEF IInv, TypeOK, AdminInv, DeletedInv, KnownInv, AloneInv, Undisturbed

\* The first half of an operation: the row of u becomes a, and the request goes
\* on with the map.
LEMMA WriteFrame ==
    ASSUME IInv, NEW r \in Requests, req[r].step = "idle",
           NEW kind \in Writing, NEW u \in Users, NEW p \in Passwords, NEW h \in Texts, NEW role \in Roles,
           NEW a \in Accounts \cup {NoUser},
           table' = [table EXCEPT ![u] = a],
           kind = "drop" => a = NoUser /\ u # Initial,
           kind # "drop" => a # NoUser /\ a.hash = h /\ IsHashOf(h, p),
           kind = "put" => table[u] # NoUser,
           Proceed(r, kind, u, p, h, role), UNCHANGED <<users, tokens>>
    PROVE  IInv'
<1> USE DEF IInv
<1>1. TypeOK'
  <2>1. req' \in [Requests -> Goroutines]
    <3> DEFINE free == \A y \in Requests : req[y].user = u => req[y].step \notin Disturbs(kind)
               mine == [step |-> kind, user |-> u, typed |-> p, text |-> h, role |-> role, alone |-> free]
    <3>1. mine \in Goroutines
      BY DEF Goroutines, Writing
    <3>2. \A x \in Requests : [req[x] EXCEPT !.alone = FALSE] \in Goroutines /\ req[x] \in Goroutines
      BY DEF TypeOK, Goroutines
    <3>3. req' = [x \in Requests |->
                    IF x = r THEN mine
                    ELSE IF req[x].user = u /\ kind \in Disturbs(req[x].step)
                    THEN [req[x] EXCEPT !.alone = FALSE]
                    ELSE req[x]]
      BY DEF Proceed
    <3> HIDE DEF mine
    <3> QED BY <3>1, <3>2, <3>3
  <2> QED BY <2>1 DEF TypeOK, Proceed
<1>a. /\ req'[r].step = kind /\ req'[r].user = u /\ req'[r].typed = p /\ req'[r].text = h
      /\ req'[r].alone => \A y \in Requests : req[y].user = u => req[y].step \notin Disturbs(kind)
  BY DEF Proceed
<1>b. ASSUME NEW x \in Requests, x # r
      PROVE  /\ req'[x].step = req[x].step /\ req'[x].user = req[x].user
             /\ req'[x].typed = req[x].typed /\ req'[x].text = req[x].text
             /\ req'[x].alone => req[x].alone /\ ~(req[x].user = u /\ kind \in Disturbs(req[x].step))
  BY <1>b DEF Proceed, TypeOK, Goroutines
<1>c. \A v \in Users : v # u => table'[v] = table[v] /\ settled'[v] = settled[v]
  BY DEF Proceed, TypeOK
<1>d. table'[u] = a /\ settled'[u] = "unknown"
  BY DEF Proceed, TypeOK
<1>2. AdminInv'
  BY <1>a, <1>b DEF AdminInv
<1>3. DeletedInv'
  BY <1>a, <1>b, <1>c, <1>d DEF DeletedInv
<1>4. KnownInv'
  BY <1>a, <1>b, <1>c, <1>d, AccountsAssumption DEF KnownInv
<1>5. AloneInv'
  <2> SUFFICES ASSUME NEW x \in Requests, req'[x].alone PROVE Undisturbed(x)'
    BY DEF AloneInv
  <2>1. CASE x = r
    <3>1. ASSUME NEW y \in Requests \ {r}, req'[y].user = u PROVE req'[y].step \notin Disturbs(kind)
      BY <1>a, <1>b, <2>1, <3>1
    <3> QED BY <1>a, <1>d, <2>1, <3>1 DEF Undisturbed
  <2>2. CASE x # r
    <3>1. Undisturbed(x) /\ ~(req[x].user = u /\ kind \in Disturbs(req[x].step))
      BY <1>b, <2>2 DEF AloneInv
    <3>2. ASSUME NEW y \in Requests \ {x}, req'[y].user = req'[x].user
          PROVE  req'[y].step \notin Disturbs(req'[x].step)
      BY <1>a, <1>b, <2>2, <3>1, <3>2 DEF Undisturbed
    <3>3. CASE req[x].user = u
      <4>1. req[x].step = "drop" /\ kind # "keep" /\ table[u] = NoUser
        BY <3>1, <3>3 DEF Undisturbed, Disturbs, Writing
      <4>2. kind = "drop"
        BY <4>1 DEF Writing
      <4> QED BY <1>b, <1>d, <2>2, <3>1, <3>2, <3>3, <4>1, <4>2 DEF Undisturbed
    <3>4. CASE req[x].user # u
      <4>1. req[x].user \in Users
        BY DEF TypeOK, Goroutines
      <4> QED BY <1>b, <1>c, <2>2, <3>1, <3>2, <3>4, <4>1 DEF Undisturbed
    <3> QED BY <3>3, <3>4
  <2> QED BY <2>1, <2>2
<1> QED BY <1>1, <1>2, <1>3, <1>4, <1>5

\* The second half: the map changes for the user of the request, which answers.
LEMMA AnswerFrame ==
    ASSUME IInv, NEW r \in Requests, req[r].step \in Writing,
           NEW m \in Accounts \cup {NoUser}, NEW ok \in BOOLEAN,
           NEW v \in Passwords \cup {"deleted"},
           users' = [users EXCEPT ![req[r].user] = m],
           req[r].step = "drop" => m = NoUser /\ v = "deleted",
           req[r].step # "drop" => v = req[r].typed /\ (users[req[r].user] # NoUser => m # NoUser),
           req[r].step = "put" => (users[req[r].user] = NoUser => m = NoUser),
           Answer(r, ok, v), UNCHANGED <<table, tokens>>
    PROVE  IInv'
<1> DEFINE u == req[r].user
<1>0. TypeOK /\ AdminInv /\ DeletedInv /\ KnownInv /\ AloneInv
  BY DEF IInv
<1>u. u \in Users /\ req[r].typed \in Passwords
  BY <1>0 DEF TypeOK, Goroutines
<1>a. req'[r] = Idle /\ \A x \in Requests : x # r => req'[x] = req[x]
  BY <1>0 DEF Answer, Finish, TypeOK
<1>b. users'[u] = m /\ \A w \in Users : w # u => users'[w] = users[w] /\ settled'[w] = settled[w]
  BY <1>0, <1>u DEF Answer, TypeOK
<1>c. settled'[u] = settled[u] \/ (settled'[u] = v /\ Undisturbed(r))
  BY <1>0, <1>u DEF Answer, TypeOK, AloneInv
<1>1. TypeOK'
  BY <1>0, <1>u, IdleTyped DEF TypeOK, Answer, Finish
<1>2. AdminInv'
  BY <1>0, <1>a, <1>b, <1>u, IdleTyped, AccountsAssumption DEF AdminInv, Writing
<1>3. DeletedInv'
  <2> SUFFICES ASSUME NEW w \in Users, settled'[w] = "deleted"
               PROVE  /\ w # Initial /\ table[w] = NoUser /\ users'[w] = NoUser
                      /\ \A x \in Requests : req'[x].user = w => req'[x].step # "keep"
    BY DEF DeletedInv
  <2>1. CASE settled[w] = "deleted"
    BY <1>0, <1>a, <1>b, <2>1, IdleTyped DEF DeletedInv, Writing
  <2>2. CASE settled[w] # "deleted"
    <3>1. w = u /\ Undisturbed(r) /\ v = "deleted"
      BY <1>b, <1>c, <2>2
    <3>2. req[r].step = "drop"
      BY <3>1, <1>u, AccountsAssumption
    <3>3. \A x \in Requests \ {r} : req[x].user = u => req[x].step # "keep"
      BY <3>1, <3>2 DEF Undisturbed, Disturbs
    <3> QED BY <1>0, <1>a, <1>b, <3>1, <3>2, <3>3, IdleTyped DEF AdminInv, Undisturbed
  <2> QED BY <2>1, <2>2
<1>4. KnownInv'
  <2> SUFFICES ASSUME NEW w \in Users, settled'[w] \in Passwords
               PROVE  /\ table[w] # NoUser /\ IsHashOf(table[w].hash, settled'[w])
                      /\ \A x \in Requests : req'[x].user = w => req'[x].step \notin Writing
    BY DEF KnownInv
  <2>1. CASE settled'[w] = settled[w]
    <3>1. table[w] # NoUser /\ IsHashOf(table[w].hash, settled[w])
      BY <1>0, <2>1 DEF KnownInv
    <3>2. \A x \in Requests : req[x].user = w => req[x].step \notin Writing
      BY <1>0, <2>1 DEF KnownInv
    <3> QED BY <1>a, <2>1, <3>1, <3>2, IdleTyped DEF Writing
  <2>2. CASE settled'[w] # settled[w]
    <3>1. w = u /\ Undisturbed(r) /\ settled'[w] = v
      BY <1>b, <1>c, <2>2
    <3>2. req[r].step # "drop"
      BY <3>1, AccountsAssumption
    <3>3. \A x \in Requests \ {r} : req[x].user = u => req[x].step \notin Writing
      BY <3>1, <3>2 DEF Undisturbed, Disturbs, Writing
    <3> QED BY <1>a, <3>1, <3>2, <3>3, IdleTyped DEF Undisturbed, Writing
  <2> QED BY <2>1, <2>2
<1>5. AloneInv'
  <2> SUFFICES ASSUME NEW x \in Requests, req'[x].alone PROVE Undisturbed(x)'
    BY DEF AloneInv
  <2>1. x # r /\ Undisturbed(x)
    BY <1>0, <1>a, IdleTyped DEF AloneInv
  <2>2. req'[r].step \notin Disturbs(req[x].step)
    BY <1>a, IdleTyped DEF Disturbs
  <2> QED BY <1>a, <2>1, <2>2 DEF Undisturbed
<1> QED BY <1>1, <1>2, <1>3, <1>4, <1>5 DEF IInv

-----------------------------------------------------------------------------

\* A restart keeps it: the table remembers what was answered.
LEMMA RestartStep ==
    ASSUME IInv, Restart PROVE IInv'
<1>1. PICK h \in Texts : users' = FreshMap(h) /\ table' \in SeedUserStore(table, h)
  BY StoredTyped DEF Restart
<1>2. /\ table' \in [Users -> Accounts \cup {NoUser}]
      /\ \A u \in Users : u # Initial \/ table[u] # NoUser => table'[u] = table[u]
  BY <1>1, SeedFrame DEF IInv, TypeOK
<1>3. \A r \in Requests : req'[r] = Idle
  BY DEF Restart
<1>4. TypeOK'
  BY <1>1, <1>2, IdleTyped, FreshMapTyped DEF IInv, TypeOK, Restart
<1>5. AdminInv'
  BY <1>1, <1>3, IdleTyped, FreshMapTyped DEF AdminInv
<1>6. DeletedInv'
  BY <1>1, <1>2, <1>3, IdleTyped, FreshMapTyped DEF IInv, DeletedInv, Restart
<1>7. KnownInv'
  BY <1>2, <1>3, IdleTyped DEF IInv, KnownInv, Restart, Writing
<1>8. AloneInv'
  BY <1>3, IdleTyped DEF AloneInv
<1> QED BY <1>4, <1>5, <1>6, <1>7, <1>8 DEF IInv

\* Every step keeps it.
LEMMA NextIInv == IInv /\ [Next]_vars => IInv'
<1> SUFFICES ASSUME IInv, [Next]_vars PROVE IInv'
  OBVIOUS
<1>0. TypeOK
  BY DEF IInv
<1>1. ASSUME NEW r \in Requests, NEW u \in Users, NEW t \in Texts, Login(r, u, t) PROVE IInv'
  BY <1>0, <1>1, TokenFrame DEF Login, Issue, TypeOK, Accounts
<1>2. ASSUME NEW r \in Requests, NEW u \in Users, NEW t \in Texts, LoginUnknown(r, u, t) PROVE IInv'
  <2> DEFINE g == [Idle EXCEPT !.step = "login", !.user = u, !.text = t]
  <2>1. g \in Goroutines /\ g.step = "login" /\ g.alone = FALSE
    BY IdleTyped DEF Goroutines
  <2> QED BY <1>0, <1>2, <2>1, ReadFrame DEF LoginUnknown, TypeOK
<1>3. ASSUME NEW r \in Requests, LoginFallback(r) PROVE IInv'
  <2>1. tokens' \in SUBSET [user : Users, role : Roles]
    BY <1>0, <1>3 DEF LoginFallback, Issue, TypeOK, Goroutines, Accounts
  <2> QED BY <1>3, <2>1, IdleTyped, ReadFrame DEF LoginFallback, Finish
<1>4. ASSUME NEW r \in Requests, NEW u \in Users, NEW p \in Passwords, NEW role \in Roles,
             CreateUser(r, u, p, role) PROVE IInv'
  <2>1. PICK h \in GenerateFromPassword(Trim[p]) :
            InsertUser(u, [hash |-> h, role |-> role]) /\ Proceed(r, "keep", u, p, h, role)
    BY <1>4 DEF CreateUser
  <2>2. h \in Texts /\ IsHashOf(h, p)
    BY AccountsAssumption, StoredTyped DEF IsHashOf
  <2> DEFINE a == [hash |-> h, role |-> role]
  <2>3. a \in Accounts /\ a # NoUser /\ a.hash = h
    BY <2>2, AccountsAssumption DEF Accounts
  <2>4. table' = [table EXCEPT ![u] = a]
    BY <2>1 DEF InsertUser
  <2> HIDE DEF a
  <2> QED BY <1>4, <2>1, <2>2, <2>3, <2>4, WriteFrame DEF CreateUser, Writing
<1>5. ASSUME NEW r \in Requests, NEW u \in Users, NEW p \in Passwords, ChangePassword(r, u, p) PROVE IInv'
  <2>1. PICK h \in GenerateFromPassword(Trim[p]) :
            UpdatePassword(u, h) /\ Proceed(r, "put", u, p, h, Idle.role)
    BY <1>5 DEF ChangePassword
  <2>2. h \in Texts /\ IsHashOf(h, p)
    BY AccountsAssumption, StoredTyped DEF IsHashOf
  <2> DEFINE a == [table[u] EXCEPT !.hash = h]
  <2>3. a \in Accounts /\ a # NoUser /\ a.hash = h
    BY <1>0, <2>1, <2>2, AccountsAssumption DEF Accounts, UpdatePassword, TypeOK
  <2>4. table' = [table EXCEPT ![u] = a] /\ table[u] # NoUser
    BY <2>1 DEF UpdatePassword
  <2> HIDE DEF a
  <2> QED BY <1>5, <2>1, <2>2, <2>3, <2>4, IdleTyped, WriteFrame DEF ChangePassword, Writing
<1>6. ASSUME NEW r \in Requests, NEW u \in Users, DeleteUser(r, u) PROVE IInv'
  BY <1>6, IdleTyped, WriteFrame DEF DeleteUser, RemoveUser, Writing
<1>7. ASSUME NEW r \in Requests, KeepInMemory(r) PROVE IInv'
  <2> DEFINE u == req[r].user
             m == IF users[u] # NoUser THEN users[u] ELSE [hash |-> req[r].text, role |-> req[r].role]
  <2>1. u \in Users /\ req[r].typed \in Passwords /\ req[r].text \in Texts /\ m \in Accounts \cup {NoUser} /\ m # NoUser
    BY <1>0, AccountsAssumption DEF TypeOK, Goroutines, Accounts
  <2>2. users' = [users EXCEPT ![u] = m]
    BY <1>0, <1>7, <2>1 DEF KeepInMemory, TypeOK
  <2> QED BY <1>7, <2>1, <2>2, AnswerFrame DEF KeepInMemory, Writing
<1>8. ASSUME NEW r \in Requests, DropFromMemory(r) PROVE IInv'
  BY <1>8, AnswerFrame DEF DropFromMemory, Writing
<1>9. ASSUME NEW r \in Requests, PutInMemory(r) PROVE IInv'
  <2> DEFINE u == req[r].user
             m == IF users[u] = NoUser THEN NoUser ELSE [users[u] EXCEPT !.hash = req[r].text]
  <2>1. /\ u \in Users /\ req[r].typed \in Passwords /\ req[r].text \in Texts /\ m \in Accounts \cup {NoUser}
        /\ users[u] # NoUser => m # NoUser
    BY <1>0, AccountsAssumption DEF TypeOK, Goroutines, Accounts
  <2>2. users' = [users EXCEPT ![u] = m]
    BY <1>0, <1>9, <2>1 DEF PutInMemory, TypeOK
  <2> QED BY <1>9, <2>1, <2>2, AnswerFrame DEF PutInMemory, Writing
<1>10. ASSUME NEW t \in tokens, Expire(t) PROVE IInv'
  BY <1>0, <1>10, TokenFrame DEF Expire, TypeOK
<1>11. CASE UNCHANGED vars
  BY <1>0, <1>11, TokenFrame DEF vars, TypeOK
<1> QED BY <1>1, <1>2, <1>3, <1>4, <1>5, <1>6, <1>7, <1>8, <1>9, <1>10, <1>11, RestartStep DEF Next

\* So it always holds.
LEMMA Safety == Spec => []IInv
BY InitIInv, NextIInv, PTL DEF Spec

-----------------------------------------------------------------------------

\* Table, map, tokens and goroutines keep their types.
THEOREM AccountsTypeCorrect == Spec => []TypeOK
<1>1. IInv => TypeOK
  BY DEF IInv
<1> QED BY <1>1, Safety, PTL

\* What CreateUser, ChangePassword and DeleteUser answered holds, for any number of
\* concurrent requests and across restarts: of all texts, exactly the trimmed
\* password and the text of its hash open the account.
THEOREM AcknowledgedHoldsAlways == Spec => []AcknowledgedHolds
<1>1. IInv => AcknowledgedHolds
  <2> SUFFICES ASSUME IInv, NEW u \in Users, NEW t \in Texts
               PROVE  /\ settled[u] = "deleted" => ~Accepts(u, t)
                      /\ settled[u] \in Passwords =>
                            /\ table[u] # NoUser
                            /\ Accepts(u, t) <=> t \in {Trim[settled[u]], table[u].hash}
    BY DEF AcknowledgedHolds
  <2>1. settled[u] = "deleted" => ~Accepts(u, t)
    BY DEF IInv, DeletedInv, Accepts
  <2>2. ASSUME settled[u] \in Passwords
        PROVE  table[u] # NoUser /\ (Accepts(u, t) <=> t \in {Trim[settled[u]], table[u].hash})
    <3>1. table[u] # NoUser /\ table[u].hash \in Hashes /\ table[u].hash.of = Trim[settled[u]]
      BY <2>2 DEF IInv, KnownInv, IsHashOf
    <3> QED BY <3>1 DEF Accepts, Opens, CompareHashAndPassword
  <2> QED BY <2>1, <2>2
<1> QED BY <1>1, Safety, PTL

\* The initial admin can always log in: DeleteUser protects it, and a start seeds it.
THEOREM InitialAdminStaysAlways == Spec => []InitialAdminStays
<1>1. IInv => InitialAdminStays
  <2> SUFFICES ASSUME IInv PROVE InitialAdminStays
    OBVIOUS
  <2> DEFINE a == IF table[Initial] # NoUser THEN table[Initial] ELSE users[Initial]
  <2>1. a \in Accounts /\ a # NoUser
    BY AccountsAssumption DEF IInv, TypeOK, AdminInv
  <2>2. a.hash \in Passwords \/ (a.hash \in Hashes /\ a.hash.of \in Passwords)
    BY <2>1 DEF Accounts, Texts, Hashes
  <2> QED BY <2>1, <2>2 DEF InitialAdminStays, Accepts, Opens, CompareHashAndPassword
<1> QED BY <1>1, Safety, PTL
=============================================================================
