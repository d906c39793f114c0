----------------------------- MODULE UsersPage ------------------------------
(***************************************************************************)
(* The users page and the handlers of /users.  UpdateUser reads the user,   *)
(* merges the request into what it read and writes every column; two        *)
(* administrators work at once.  A name, a set of permissions and a         *)
(* password are tokens; Blank is the empty one.                            *)
(***************************************************************************)
EXTENDS QueryCache, FiniteSets

CONSTANTS
    UserId,      \* users, there already or not
    Self,        \* the user of the page
    Word,        \* what may be typed into a field
    Blank,       \* an empty field
    Absent       \* a field a request leaves out

\* A user has an id of its own, and a field that is left out is not a value.
ASSUME UserAssumption == "no user" \notin UserId /\ Absent \notin Word \cup {Blank}

VARIABLES
    users,       \* the table
    everUsed,    \* ids given to a user
    usersCache,  \* the list of the page, always on the screen
    form,        \* formData, with editingUser and isModalOpen
    saves,       \* saves[a]: the save of the page; of the other administrator, or given up
    deleting,    \* deleteTarget
    deletion,    \* the delete in flight
    asked        \* history: the <<name, perms>> asked for, for each user

usersVars == <<users, everUsed, usersCache, form, saves, deleting, deletion, asked>>

NoUser == [name |-> Blank, perms |-> Blank, pass |-> Blank, there |-> FALSE]
NobodyId == "no user"
Closed == [open |-> FALSE, id |-> NobodyId, name |-> Blank, perms |-> Blank, pass |-> Blank]
NoDeletion == [at |-> "idle", id |-> NobodyId]
NoSave == [at |-> "idle", id |-> NobodyId, body |-> NoUser, seen |-> NoUser]
Admin == {"page", "other"}
Typed == Word \cup {Blank}

\* ListUsers: the password hash is not selected.
Listing(table) == [u \in UserId |-> [table[u] EXCEPT !.pass = Blank]]

UsersInit ==
    /\ \E here \in {S \in SUBSET UserId : Self \in S} : \E t \in Word :
         /\ users = [u \in UserId |-> IF u \in here
                       THEN [name |-> t, perms |-> t, pass |-> t, there |-> TRUE] ELSE NoUser]
         /\ everUsed = here
         /\ asked = [u \in UserId |-> IF u \in here THEN {<<t, t>>} ELSE {}]
    /\ usersCache = Fetch(EmptyEntry(Listing(users)))
    /\ form = Closed
    /\ saves = [a \in Admin |-> NoSave]
    /\ deleting = NobodyId /\ deletion = NoDeletion

-----------------------------------------------------------------------------
(* The page.  It is for a SUPER_ADMIN.                                     *)

\* Tambah Pengguna, or Edit in a row of the list, which may be old by now.
OpenForm(u) ==
    /\ ~form.open /\ deleting = NobodyId
    /\ u # NobodyId => usersCache.has /\ usersCache.data[u].there
    /\ form' = IF u = NobodyId THEN [Closed EXCEPT !.open = TRUE]
               ELSE [open |-> TRUE, id |-> u, name |-> usersCache.data[u].name,
                     perms |-> usersCache.data[u].perms, pass |-> Blank]
    /\ UNCHANGED <<users, everUsed, usersCache, saves, deleting, deletion, asked>>

TypeForm(v) ==
    /\ form.open
    /\ \/ form' = [form EXCEPT !.name = v]
       \/ form' = [form EXCEPT !.perms = v]
       \/ form' = [form EXCEPT !.pass = v]
    /\ UNCHANGED <<users, everUsed, usersCache, saves, deleting, deletion, asked>>

\* Batal works while the form is being saved.
CloseForm ==
    /\ form.open
    /\ form' = [form EXCEPT !.open = FALSE]
    /\ UNCHANGED <<users, everUsed, usersCache, saves, deleting, deletion, asked>>

\* Variant: what is as it was in the list is left out.
BodyOfChanged(f) ==
    LET old == usersCache.data[f.id]
        Changed(new, was) == IF f.id # NobodyId /\ new = was THEN Absent ELSE new
    IN  [name |-> IF f.id = NobodyId THEN f.name ELSE Changed(f.name, old.name),
         perms |-> IF f.id = NobodyId THEN f.perms ELSE Changed(f.perms, old.perms),
         pass |-> f.pass]

\* data: formData, every field of it.
BodyOf(f) == [name |-> f.name, perms |-> f.perms, pass |-> f.pass]

SendSave(a, id, body) ==
    /\ saves[a].at = "idle"
    /\ saves' = [saves EXCEPT ![a] = [at |-> "sent", id |-> id, body |-> body, seen |-> NoUser]]

\* Simpan Data: a name is required, a password for a new user only.
SubmitForm ==
    /\ form.open /\ form.name # Blank
    /\ form.id = NobodyId => form.pass # Blank
    /\ SendSave("page", form.id, BodyOf(form))
    /\ asked' = IF form.id = NobodyId THEN asked
                ELSE [asked EXCEPT ![form.id] = @ \cup {<<form.name, form.perms>>}]
    /\ UNCHANGED <<users, everUsed, usersCache, form, deleting, deletion>>

\* The other administrator saves a form over any user there is.
OtherSubmits(u, name, perms) ==
    /\ users[u].there
    /\ SendSave("other", u, [name |-> name, perms |-> perms, pass |-> Blank])
    /\ asked' = [asked EXCEPT ![u] = @ \cup {<<name, perms>>}]
    /\ UNCHANGED <<users, everUsed, usersCache, form, deleting, deletion>>

\* Hapus is disabled for oneself.
AskDelete(u) ==
    /\ ~form.open /\ deleting = NobodyId /\ u # Self
    /\ usersCache.has /\ usersCache.data[u].there
    /\ deleting' = u
    /\ UNCHANGED <<users, everUsed, usersCache, form, saves, deletion, asked>>

\* Escape closes the dialog in every state.
DropDelete ==
    /\ deleting # NobodyId
    /\ deleting' = NobodyId
    /\ UNCHANGED <<users, everUsed, usersCache, form, saves, deletion, asked>>

ConfirmDelete ==
    /\ deleting # NobodyId /\ deletion = NoDeletion
    /\ deletion' = [at |-> "sent", id |-> deleting]
    /\ UNCHANGED <<users, everUsed, usersCache, form, saves, deleting, asked>>

-----------------------------------------------------------------------------
(* The handlers.                                                           *)

CreateUser(a) ==
    /\ saves[a].at = "sent" /\ saves[a].id = NobodyId
    /\ \E u \in UserId \ everUsed :
         LET b == saves[a].body IN
         /\ users' = [users EXCEPT ![u] = [name |-> b.name, perms |-> b.perms,
                                           pass |-> b.pass, there |-> TRUE]]
         /\ everUsed' = everUsed \cup {u}
         /\ asked' = [asked EXCEPT ![u] = {<<b.name, b.perms>>}]
    /\ saves' = [saves EXCEPT ![a].at = "done"]
    /\ UNCHANGED <<usersCache, form, deleting, deletion>>

UpdateRead(a) ==
    LET u == saves[a].id IN
    /\ saves[a].at = "sent" /\ u # NobodyId
    /\ saves' = IF users[u].there
                  THEN [saves EXCEPT ![a].at = "merge", ![a].seen = users[u]]
                  ELSE [saves EXCEPT ![a].at = "refused"]
    /\ UNCHANGED <<users, everUsed, usersCache, form, deleting, deletion, asked>>

\* A field the request has replaces the field that was read, a password that is
\* empty as well.
Merged(seen, body) ==
    LET Field(f) == IF body[f] = Absent THEN seen[f] ELSE body[f]
    IN  [name |-> Field("name"), perms |-> Field("perms"), pass |-> Field("pass"), there |-> TRUE]

\* Variant: the user is written whether it is there or not.
WriteAnyway(a) ==
    LET u == saves[a].id IN
    /\ saves[a].at = "merge"
    /\ users' = [users EXCEPT ![u] = Merged(saves[a].seen, saves[a].body)]
    /\ saves' = [saves EXCEPT ![a].at = "done"]
    /\ UNCHANGED <<everUsed, usersCache, form, deleting, deletion, asked>>

\* UPDATE ... RETURNING: without a row an error.
UserWrite(a) ==
    LET u == saves[a].id IN
    /\ saves[a].at = "merge"
    /\ IF users[u].there
         THEN /\ users' = [users EXCEPT ![u] = Merged(saves[a].seen, saves[a].body)]
              /\ saves' = [saves EXCEPT ![a].at = "done"]
         ELSE saves' = [saves EXCEPT ![a].at = "refused"] /\ UNCHANGED users
    /\ UNCHANGED <<everUsed, usersCache, form, deleting, deletion, asked>>

\* To delete a user who is gone is a success; one with documents is refused.
DeleteUser ==
    /\ deletion.at = "sent"
    /\ \/ users' = [users EXCEPT ![deletion.id] = NoUser] /\ deletion' = [deletion EXCEPT !.at = "done"]
       \/ deletion' = [deletion EXCEPT !.at = "refused"] /\ UNCHANGED users
    /\ UNCHANGED <<everUsed, usersCache, form, saves, deleting, asked>>

OtherDeletes(u) ==
    /\ users[u].there
    /\ users' = [users EXCEPT ![u] = NoUser]
    /\ UNCHANGED <<everUsed, usersCache, form, saves, deleting, deletion, asked>>

-----------------------------------------------------------------------------
(* The answers.                                                            *)

RefreshUsers == usersCache' = Refetch(Invalidate(usersCache, TRUE))

\* The answer closes the form that is open by then.
SaveAnswered(a) ==
    /\ saves[a].at = "done"
    /\ IF a = "page" THEN RefreshUsers /\ form' = [form EXCEPT !.open = FALSE]
                     ELSE UNCHANGED <<usersCache, form>>
    /\ saves' = [saves EXCEPT ![a] = NoSave]
    /\ UNCHANGED <<users, everUsed, deleting, deletion, asked>>

\* Refused, or lost on the way there or back: the form stays.  A save the page has
\* given up may go on at the server, as one whose answer nobody here awaits.
UserSaveLost(a) ==
    /\ saves[a].at # "idle"
    /\ \/ saves' = [saves EXCEPT ![a] = NoSave]
       \/ /\ a = "page" /\ saves[a].at \in {"sent", "merge"} /\ saves["other"].at = "idle"
          /\ saves' = [saves EXCEPT ![a] = NoSave, !["other"] = saves[a]]
    /\ UNCHANGED <<users, everUsed, usersCache, form, deleting, deletion, asked>>

\* Any answer closes the dialog that is open by then; an answer may be lost.
DeletionEnds ==
    /\ deletion.at \in {"done", "refused"}
    /\ \/ deletion.at = "done" /\ RefreshUsers
       \/ UNCHANGED usersCache
    /\ deletion' = NoDeletion /\ deleting' = NobodyId
    /\ UNCHANGED <<users, everUsed, form, saves, asked>>

UsersRead ==
    /\ usersCache.fetch = "sent"
    /\ usersCache' = ServerReads(usersCache, Listing(users))
    /\ UNCHANGED <<users, everUsed, form, saves, deleting, deletion, asked>>

UsersLand ==
    /\ usersCache.fetch = "read"
    /\ usersCache' = Land(usersCache)
    /\ UNCHANGED <<users, everUsed, form, saves, deleting, deletion, asked>>

\* What the two administrators do and what gets lost; a run bounds their number.
UsersCommand ==
    \/ CloseForm \/ SubmitForm \/ DropDelete \/ ConfirmDelete
    \/ \E u \in UserId \cup {NobodyId} : OpenForm(u)
    \/ \E u \in UserId : AskDelete(u) \/ OtherDeletes(u)
    \/ \E v \in Typed : TypeForm(v)
    \/ \E u \in UserId : \E name \in Word : \E perms \in Typed : OtherSubmits(u, name, perms)
    \/ \E a \in Admin : UserSaveLost(a)

UsersReply ==
    \/ DeleteUser \/ DeletionEnds \/ UsersRead \/ UsersLand
    \/ \E a \in Admin : CreateUser(a) \/ UpdateRead(a) \/ UserWrite(a) \/ SaveAnswered(a)

UsersSpec == UsersInit /\ [][UsersCommand \/ UsersReply]_usersVars

-----------------------------------------------------------------------------
\* A user has the name and the permissions of one request, never the name of
\* one and the permissions of another that overlapped it: the permissions are
\* the ones somebody saw beside that name (UsersPage.tsx:73, users.go:131-161).
SavedWhole ==
    \A u \in UserId : users[u].there => <<users[u].name, users[u].perms>> \in asked[u]

\* A user who was deleted does not come back by a save that had read him before
\* (users.go:126, 155).
DeletedStaysDeleted ==
    [][\A u \in everUsed : users'[u].there => users[u].there]_usersVars
=============================================================================
