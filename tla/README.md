# Formal models of the Keuangan budget system

The repository is a budget-monitoring application: a Go API (`backend/`) over
PostgreSQL, a gRPC service that stores uploaded files by content hash
(`storage-service/`), a React front end (`frontend/`) and backup scripts. This
directory holds TLA+ models of its core, the TLC instances that check them and
TLAPS proofs about them. Paths below are relative to the repository.

## 1. The system

| Component | State | Operations | What makes it hard, and what must hold |
|---|---|---|---|
| Budget tree (`backend/internal/api/handlers/anggaran.go`, migrations 7–12) | table `anggaran_node`: a forest of rows with five base amounts and three derived columns | import (two handlers), edit, lock edit, delete, month-end roll-over; reads of the tree | every handler is a loop of SQL statements in a READ COMMITTED transaction; each statement has its own snapshot, waits for row locks, can fail. Parents hold the sums of their children, derived columns agree with base columns, no row is an orphan, every handler ends |
| Session and revocation (`middleware/auth_middleware.go`, `handlers/auth.go`) | JWTs at the clients, table `revoked_tokens`, one cache per `RequireAuth` instance | login, logout, check of each request, purge | the check reads clock, cache and table one after the other while others write them; a stale cache entry must not outlive `negTTL`, and nobody may be refused without a logout |
| Excel parsing and preview (`services/anggaran_parser*.go`, `anggaran_autodetect.go`, `PreviewAnggaranImport`) | a stack of the last node per level | one pass over the rows | parents must come before children and be the right ones; levels that are skipped |
| Import preview editor (`ImportPreviewModal.tsx`) | a list of nodes with parent references | edit a field, delete a subtree, re-parent, recalculate, confirm, then snapshot | list order against tree order; recalculated sums; the snapshot after the import may fail silently |
| Snapshots and history (`CreateAnggaranSnapshot`, `query/anggaran.sql`) | table `anggaran_history` | replace a period, list periods, read a period's tree | delete and insert are separate transactions |
| Evidence and DIPA documents (`anggaran.go`, `documents.go`, `dipa_dokumen.go`) | tables `anggaran_dokumen_bukti`, `dipa_dokumen` | upload (file, row, sort order), reorder, rename, soft delete, download | partial uploads, equal sort orders, check-then-act |
| Storage service (`storage-service/internal`, client in `services/cas_storage.go`) | files named by SHA-256, temporary files | streamed upload, download | two goroutines and a pipe; publication by rename; crashes; early failures |
| Users and permissions (`users.go`) | table `users`, permissions inside each JWT | create, update, delete, check | read-merge-write; stale permissions |
| Front-end session (`authStore.ts`, `httpClient.ts`, `App.tsx`) | current user, the cookie, calls in flight, a 750 ms debounce of 401 | start, login, logout, any call | answers out of order; the user on the screen is the one the server serves, and a session that is over leaves the screen |
| Front-end pages (`AnggaranPage.tsx`, `UsersPage.tsx`, `AnggaranImportPage.tsx`, `useAnggaran.ts`) | query cache, chosen period, drafts, dialogs, mutations in flight | open, choose, edit, save, delete, reorder, import | mutations outlive what opened them; a list at rest shows what was answered; rows are neither lost nor counted twice |
| Start-up, health, scripts | – | migrate, serve, stop, back up | failures that are logged and ignored |

The handlers meet in the database only: the API process keeps no state of its
own besides the revocation caches, so two handlers of one process are related
exactly as two processes. Documents refer to budget rows and to blobs; an
import ends with a snapshot request from the browser.

`PROJECT.json` lists each component with its status and, under `hazards`, the
places where the code can go wrong in ways a test would hardly reach.

## 2. Modules

| Module | Content |
|---|---|
| `AnggaranData` | rows, requests, and the values the SQL statements compute (`Derive`, `RollupRow`, `Upserted`, `RolledOver`, `Total`, `Percent`) with the assumptions on the constants |
| `AnggaranTree` | the abstract specification: one request is one step on the whole table |
| `AnggaranTx` | the handlers statement by statement, PostgreSQL's locks, snapshots, failures and deadlock detector; the properties |
| `MCAnggaran` | TLC instances: a root, a branch, two leaves; requests; symmetry |
| `AnggaranTxProofs` | type correctness; no row written by two open transactions; no orphans; imports and roll-overs are atomic |
| `AnggaranEditProofs` | edits never deadlock; derived columns stay fresh; edits of different columns leave the sums right; a lone handler's change reaches the top; what a lone handler, and edits of different columns, commit is what `AnggaranTree` says of the request |
| `Session` | tokens, table, caches, requests in flight, time |
| `MCSession` | symmetry for TLC |
| `SessionProofs` | the three properties of `Session` for all constants |
| `PreviewTree` | the list of preview nodes: the editor's operations, normalisation by lock, recalculation, the upserts of a save, each a finite map laid over the table (`Over`, `Just`) |
| `ImportPreview` | one import, from the first line of the file to the table; the properties |
| `MCImportPreview` | the lines a file may have |
| `FoldTheorems` | induction over numbers, over finite sets and along a rank; what a recursive function, a fold and a sum over a set return |
| `ImportProofs` | the properties of `ImportPreview`, for every file and sequence of edits |
| `BlobStore` | the abstract specification of the storage service: what it promises to callers of `Save` |
| `CasStorage` | the storage service in detail: streams, pipe, temporary files, rename, crash; a refinement of `BlobStore` |
| `Dokumen` | evidence documents of one node, over a `BlobStore` |
| `Snapshots` | `CreateAnggaranSnapshot` by several callers |
| `QueryCache` | one entry of TanStack Query, as operators the pages use |
| `TreeView` | `buildTree` and `aggregateFromChildren` |
| `MergeView` | `displayTree`: the RKKS rows with the realisasi of the FA rows that match |
| `ArsipPanel` | the document panel: list, order draft, dialogs, mutations |
| `BudgetPage` | periods, trees, the edit modal, delete, import with its snapshot |
| `UsersPage` | the users page and the handlers of `/users` |
| `DipaPage` | the DIPA and RKKS documents, page and handlers |
| `AuthStore` | the browser's side of a session |
| `ServiceProofs` | of the storage service: type correctness, whole blobs, the refinement; of the browser: the user on the screen is the user of the cookie |
| `DokumenProofs` | the three properties of `Dokumen`, and that it uses `BlobStore` as promised |
| `PagesProofs` | the properties of `DipaPage`, `BudgetPage`, `Snapshots`, `UsersPage` and `ArsipPanel`, and of the tree in `TreeView` |
| `MCPages` | the pages and their handlers, a behaviour about one of them |
| `MCService` | the storage service and the browser's session, with fairness |

### AnggaranTx

State. `db` is the committed table. `own[t]` holds the row versions transaction
`t` has written and not committed; a row in it is locked by `t`. `pc`, `req`,
`cur` and `todo` are the program position, the request, the loop variable
`currNode` and the nodes an import or a roll-over has still to write.
`want`/`snap` describe a statement that waits for a row lock: which row, and
the snapshot it started on.

Row identity. The unique index on (parent, kode, source) makes the path of
codes from the root a key, and no statement changes `parent_id`, `kode` or
`source`. A node of the model is such a path, so `Parent` is a constant. What
this abstracts: a row deleted and imported again has a new UUID, and a client
that still holds the old one addresses nothing; in the model its request
addresses the new row.

Statements. `Update(t, n, row, next, at)` is `UPDATE … WHERE id = n`: it waits
if another transaction holds the row (`Block` saves the snapshot), then works
on the newest version of the row (`View`), or skips it if it is gone. Subqueries
of a statement that has waited still read the old snapshot (`Seen`): that is how
PostgreSQL re-evaluates a row at READ COMMITTED. A value out of the column's range
rolls the transaction back; the amounts are whole numbers up to `MaxAmount`
in place of DECIMAL(19,4), the percentage keeps its width DECIMAL(5,2).

Amounts arrive as text. `Decimal` is `mustDecimalNumeric`: a text that is no
number (`Garbled`) is stored as 0, and the request goes on. `anggaran_serial` sends
such an amount in an edit and in a file. `PreviewTree` takes amounts that have been
read: the editor counts a garbled one as 0 just as the save does.

| Action | Code |
|---|---|
| `UpdateWrite`, `UpdateDerive`, `Rollup`, `RollupEnd`, `Commit` | the body and the loop of `UpdateAnggaranNode` |
| `LockWrite`, `Rollup` | `UpdateLockPagu` |
| `DeleteLookup`, `DeleteWrite`, `Cascade`, `CascadeEnd`, `Rollup` | `DeleteAnggaranNode` and the foreign key's ON DELETE CASCADE |
| `ImportUpsert`, `WorkEnd` | `ImportAnggaranData`, `ConfirmAnggaranImport`: one upsert per node, a parent before its children, in any such order |
| `RolloverSweep`, `WorkEnd` | `RolloverAnggaran`: one UPDATE of all rows, row by row in any order |
| `Begin`, `Fail`, `Victim` | the request arrives; it is abandoned or the server stops; the deadlock detector picks it |

The share locks an insert takes on its parent through the foreign key are left
out: the importer has written, and so holds, every ancestor of the row.
`RolloverAnggaran` is implemented, documented (`openapi.yaml:367`) and called by
the front end, but `cmd/api/main.go` registers no route for it; it is modelled
as the handler it is, and enters a run only through `Request`. `PROJECT.json`
lists no hazard for it, and no mutant sits in it.

### Session

Time is a counter. A request goes through `Arrive` (ValidateToken), `ReadClock`,
`Get`, `Evict`, `Query`, `SetRevoked` or `SetNotRevoked`, one step per critical
section or SQL statement; `Logout` computes the expiry, `LogoutInsert` and
`LogoutPurge` are its two statements. `Restart` loses caches and requests.
`main.go` builds `RequireAuth` twice, so there are two caches (`Guard`).
`loggedOut` is a history variable. `setRevoked`'s fallback for a zero time is
left out: `expires_at` is NOT NULL.

### ImportPreview

`mode` "csv" is `ImportAnggaranData`, which upserts a line as soon as it is
parsed, in one transaction; "xlsx" is the modal. `Parse` is one turn of the
parser's loop together with the handler's callback or loop body for that node:
both are sequential and see only the nodes before it. `last` is
`lastNodeAtLevel` (of its entries only the code is read), `ids` is
`levelTempIDs` or `parentIDs`; they differ in that the second is never cleared.
A line comes with its level, code and amounts; recognising them in the cells of
the three formats is left out, and `FileRow` may hold any combination.

| Action | Code |
|---|---|
| `Parse`, `CsvCommit`, `CsvFail` | `ParseAnggaranCSVStream` (and the same loop of the EMON and RKKS parsers) with the body of `ImportAnggaranData` or of `PreviewAnggaranImport` |
| `Analyze`, `Back` | `handleAnalyze`, the button Kembali |
| `DeleteNode`, `Reparent`, `EditKode`, `EditPagu`, `EditSd`, `Recalculate` | `handleDeleteNode`, `handleReparent` (a drop on the node itself is refused), `handleUpdateNode` from the editable cells, `handleRecalculate` |
| `Confirm`, `ConfirmLost` | `handleConfirm` with `ConfirmAnggaranImport`; the second is a save whose answer is lost |

A save is one step: the modal offers nothing while it waits, and what other
handlers do meanwhile is `AnggaranTx`'s subject. A failed save rolls back and
shows the preview as it was, so it is no step at all. Rows are known by their
key path, as in `AnggaranTx`, and the table starts without rows of the file's
source; rows of an earlier revision would be overwritten or stay, as
`ON CONFLICT` has it. `tidy` and `unseen` are history variables.

### The storage service: BlobStore, CasStorage

`BlobStore` says what `CASStorage.Save` means to its callers: a hash is given
out only for content that can be read whole, and content stays. `CasStorage` is
how: per upload a client that streams `Parts` chunks (`Connect`, `Leave`), the
handler `UploadStream` (`Receive`, `CloseStream`, `RecvError`, `Answer`), and
the goroutine it starts with `startSave` (`Copy`, `CopyEnd`, `Digest`, `Stat`,
`Put`, `Publish`, `SaveFails`). The pipe has no buffer: `Receive` leaves the
handler in `pw.Write` until `Copy` takes the chunk. `Digest` sniffs the type,
compresses a PDF and names the result by its hash, so a `Key` is a content, how
much of it arrived and whether it was compressed. `Put` writes the
temporary file that `Publish` renames. `CasCrash` stops the process and starts
it again: streams end, the disk stays as it is. Loss of power, in which
what was written may not have reached the disk, is left out, as the code does
not ask for it (it never calls fsync).

The refinement mapping (`Store`) reads `kept` off the disk, `told` and `over`
off the clients. `KeepsPromise` is checked as a property and proved.

### Dokumen

One action per step of `UploadBuktiAnggaran` that others can see: `Saved` (the
blob is told by the `BlobStore`), `Insert` (the row commits), `OrderRead` and
`OrderWrite` (the statement that computes the place, in a transaction of its
own), each with its failure. `MoveRow` is one turn of the loop of
`ReorderAnggaranDokumen`; it waits for rows another transaction holds (`Locked`)
and fails on a document that is gone. `DeleteDocument` is the soft delete.
`older` and `standing` are history variables: what an upload found when it
began, and the pairs of documents in the order the last reorder gave them.

### The pages

A page module holds the page's state, the handlers it calls as steps at the
server, and the cache between them. `QueryCache` is one entry: data, whether it
was invalidated, the request in flight, the retry. A request is two steps, read
at the server (`…Read`) and answered (`…Lands`), so an answer may be older than
a change the user has seen confirmed.

| Module | Actions | Code |
|---|---|---|
| `ArsipPanel` | `OpenPanel`, `ClosePanel`, `StartOrdering`, `CancelOrdering`, `MoveDocument`, `AskRemove`, `AskRename`, `Dismiss`, `DropFile`, `SaveOrder`, `ConfirmRemove`, `SubmitRename`, `Answered`, `Failed`, `ListLands` | the panel and its handlers in `AnggaranPage.tsx`, the document mutations of `useAnggaran.ts`; `Apply` is the handler at the server |
| `BudgetPage` | `ChooseMonth`, `ChooseRevision`, `Perbarui`, `OpenEdit`, `FillEdit`, `SubmitEdit`, `PutApplies`, `PutAnswered`, `PutFails`, `ConfirmDeleteNode`, `ImportSent`, `ImportApplies`, `ImportAnswered`, `SnapshotApplies`, `SnapshotAnswered` and the failures | `AnggaranPage.tsx`, `EditPaguModal.tsx`, the end of `handleConfirm`, the mutations of `useAnggaran.ts` |
| `UsersPage` | `OpenForm`, `TypeForm`, `SubmitForm`, `CreateUser`, `UpdateRead`, `UserWrite`, `DeleteUser`, `SaveAnswered`, … | `UsersPage.tsx`, `useUsers.ts`, `users.go` |
| `DipaPage` | `ChooseFilter`, `ChooseUploadSlot`, `PickFile`, `HandleUpload`, `HandleDelete`, `UploadDipaDokumen`, `DeleteDipaDokumen`, … | `AnggaranImportPage.tsx`, `useDipaDokumen.ts`, `dipa_dokumen.go` |

`Rival`, `OtherEdits`, `OtherTakes`, `OtherSubmits`, `OtherDeletes`, `OtherUploadsDipa`,
`OtherDeletesDipa` are other users, or a call the page has given up that reaches the
server late: a network error tells the page nothing about what the server does with
the request. `PutFails` and `UserSaveLost` keep such a call in flight, with
nobody to await its answer. Mutations are not tied to the dialog that started them: an answer
acts on what is open when it arrives, as in the code. `owed`, `owedTree`, `due`,
`reported`, `touched` and `asked` are history variables.

What a list owes (`owed`, `owedTree`, `due`) says when an answered change must be on
the screen. Invalidating a list that is loaded and looked at cancels the request
under way and sends another. A request for any other list goes on, be it the
first load of the list on the screen or the fetch of one that is off it. When the server had
read for that request before the change, it lands without it and stands until it is
stale (`staleTime`, five minutes) or invalidated again (`QueryCache!Overtaken`). Three definitions
owe nothing there: `DueNow` in `DipaPage`, `Owe` in `ArsipPanel` and `OweTree` in
`BudgetPage`. The program loses the change in these cases: an upload
answered during the first GET of the list is missing from it; an edit
answered while the live tree is fetched behind another period is missing when the
user comes back. `DipaListed`, `OwnDocsShown` and `OwnBudgetShown` carry this exemption.

The panel lists the documents of one node (`Home`). `GetAnggaranDokumenByNode` also
lists those of any node with the same year, source, code, name and path signature; a
file is imported under one source and a parent before its children, so by the
unique index of migration 12 two nodes with one path of codes are one row, and the
clause adds nothing.

In `DipaPage` a row is known by its id, as the delete is: an upload that is
tried again after a lost answer makes a second row of the same file.

In `BudgetPage` the tree is a counter of changes (`edition`) and one row, with
one amount for the two realisasi fields; what a roll-up does to it is
`AnggaranTx`'s subject. A period is a month and a revision from 0 on, as the page offers
them; the newest one is the last as a *string* (`TextRank`: "10" comes before "2"),
as the page sorts them. In `UsersPage` the three steps of `UpdateUser` are
its read, its merge and its write, and an empty password is hashed like any other, as
`BodyOf` and `Merged` say: the form sends it whenever the field is left blank,
although its label promises that a blank field keeps the password.

`TreeView` and `MergeView` are pure functions of an answer of the server, checked
over all answers within the bounds. In `MergeView` a row is the path of its
codes, a code is a sequence of signs, and each file writes the codes below the
first level plainly, after the parent's, or after the parent's with a zero;
these are the forms `findFaMatch` looks for. No code is the ending of another
except through them.

### Snapshots

`DropOld` and `TakeCopy` are the two statements of `CreateAnggaranSnapshot`,
each a transaction. A copy is known by the edition of the live table it took.

### AuthStore

`calls[c]` is a call with the cookie it was sent with. `Answers` is the server,
`Arrives` the browser, `Lost` a network failure on either way. A 401 outside
the 750 ms (`handled`) turns into a logout (`Settle`), whose end clears the store
and may load the page anew (`Reloaded`). The router is at the login page when
the store has no user (`ProtectedRoute`, `PublicRoute`). The browser takes the
cookie of an answer when it arrives and `apiFetch` continues a moment later;
the model does both in one step.

The cookie belongs to the browser. It ends with the 24 hours `Login` gives it
(`CookieExpires`), which are those of its token (`TokenEnds`); the first is judged by the browser's
clock and the second by the server's, so either may come first. Other tabs
log in and out with the same cookie (`OtherTabLogsIn`, `OtherTabLogsOut`); `jarBy`, a history variable,
says who changed it last since this tab set it or started from it. The store hears of neither, so the
user on the screen can be another than the cookie's after a login in another
tab, until this tab loads again or logs in. `StoreFollowsJar` says when it cannot: while this tab
was the last, the two agree; after the cookie has run out there is none.

## 3. Runs

| Run | Checks | Instance |
|---|---|---|
| `anggaran_serial` | `TypeOK`, `RolledUp`, `Serializable` | one handler at a time from the empty table; every kind of request, one that overflows the percentage, failure at every statement |
| `anggaran_edits` | `ForestConsistent`, `NoDeadlock`, `AtomicSteps` | three handlers; pagu edits of one leaf, lock edit of its sibling |
| `anggaran_month_end` | `ForestConsistent`, `DerivedFresh`, `AtomicSteps` | two handlers; edit, lock edit, roll-over, import |
| `anggaran_live` | `ForestClosed`, `HandlersEnd` | two handlers; import, delete of a branch, edit |
| `session` | `TypeOK`, `RevokedWithinTTL`, `NoFalseRefusal` | one token, two caches, two requests, negTTL 2, life 4, 6 ticks |
| `import_preview` | `TypeOK`, `ParsedRight`, `AllShown`, `SumsAgree`, `SavedInOrder` | every file of up to three lines on three levels, two codes or none; two edits per preview, any number of recalculations and repeated saves |
| `import_reparent` | `ShownIsSaved` is violated | the same with one edit |
| `anggaran_lost_rollup` | `ForestConsistent` is violated | two pagu edits of sibling leaves |
| `anggaran_delete_stale` | `DerivedFresh` is violated | one delete |
| `anggaran_year` | `ImportedYear` is violated | two imports, two years |
| `pages` | `ListedIsKept`, `UploadComesLast`, `ReorderStands`; `DraftOfThisNode`, `DraftKept`, `OwnDocsShown`; `EveryRowOnce`, `TopIsSumOfLeaves`; `MergedRight`; `LatestAnswerStands`; `SavedWhole`, `DeletedStaysDeleted`; `DipaListed`; `OwnBudgetShown`, `SavedAsReported` | three uploads and two reorders; two nodes with three documents; all answers of four rows; all FA files over ten rows; three snapshot calls; two users and two administrators; two rows of three files (one no PDF) and two periods; the live period and revisions 0 and 1 of a past month |
| `service` | `CasTypeOK`, `NoTornBlob`, `KeepsPromise`, `UploadsEnd`; `StoreFollowsJar`, `DeadSessionLeadsOut` | two uploads of two parts, two contents, any failure and crash; two tokens of two users, two calls at once, five commands (a cookie that ends and another tab's logins and logouts among them) |

What the runs show. Each handler alone does what it promises
(`Serializable`: the committed table moves as `AnggaranTree` says), also when
any of its statements fails. Pagu edits next to lock edits, the roll-over and
imports are still atomic steps. The level stack finds the right parent in both
imports, the editor keeps a tree, and an import saves the tree it shows. Four
promises fail: two overlapping edits below
one parent can lose one of them in the parent's sums, a delete leaves the
derived columns of the ancestors stale, a second year's import overwrites the
first year, and a preview node dragged below a later one is saved as a root (see
`findings`).

Bounds. Four nodes on three levels: a leaf with a sibling, a parent with a
parent of its own, a root: every statement of the loops, including the second
turn, and every relation two edits can have (same leaf, siblings, ancestor).
Edits of one column set and of the other share all ancestors and no leaf. A
third handler in `anggaran_edits` queues behind two. Amounts are small, but 20
out of a pagu of 2 or 3 exceeds the percentage's 999.99. `anggaran_live` drops one leaf, which
neither the cascade nor the lock order needs. In `session` the six ticks are
enough for a token to be issued, cached, revoked, believed for negTTL, expired and
revoked again after its expiry; the proofs make the bound immaterial for the
safety properties.

In `import_preview` three lines are a root, an inner node and a leaf, or two
branches and a line that closes one of them; three levels let a line skip one.
Two edits make a drag after a drag or a delete. The code of a line decides its
amounts (a locked and an unlocked one), which edits then change; the user may
type one other code, pagu and realisation. After a lost answer no second file is
opened.

Fairness. `HandlersEnd` assumes strong fairness of each handler's steps and weak
fairness of the deadlock victim. A step is disabled while its row is locked;
PostgreSQL queues waiters first come, first served and releases every lock at the
end of a transaction, so a waiter is not passed over for ever. `Victim` is
`deadlock_timeout`. Clients need not send anything: `Begin` and `Fail` are not
fair.

Deadlock checking is on in every run but the two of `ImportPreview`, where an
import ends when it is saved, and `pages` and `service`, where a bounded behaviour
ends and the pure functions have no step. The steps of a preview are the user's, so there is no
fairness and no liveness to state.

`pages` and `service` are sums and not products: a variable (`desk`, `about`)
says which part a behaviour is about and the others keep a first state, so the
parts do not multiply. Parts that share data are within one desk: the edit modal,
the delete and the import meet in `BudgetPage`, the panel and its rivals in
`ArsipPanel`. `left` bounds what users do and what gets lost (3 to 5 a
behaviour: enough to open, send, leave for something else, send again and
lose one answer); answers and server steps are not bounded. Three reductions keep all
outcomes: a request of the budget and the users queries is read by the server
before anything else happens when it is sent (a later read is fresher and the
properties ask for freshness; the answer may still land at any time), ids that only
symmetry tells apart are fixed at the start, and another administrator's save uses
a name and permissions that differ, so that a mixture shows.

What `pages` and `service` show: no overlap of uploads, reorders, deletes,
snapshots and saves mixes two of them; a list or tree at rest on the screen shows what was
answered to its user, except a change answered while an older request was under way for
a list in its first load or off the screen; a draft never reaches another node; rows
are shown once and amounts counted once; the storage service keeps its promise
through failures and crashes; a dead session leaves the screen. Three
properties say exactly as much as the code gives. `UploadsEnd` excepts `Stuck`: when
`Save` fails before it has read the pipe to its end, `pw.Write` waits for ever.
`LatestAnswerStands` allows two copies of a period, which two overlapping calls
leave, and excepts a call that fails after its delete, which leaves none.
`MergedRight` is about rows that both files have: a row missing in the FA file may
match the one row with its code elsewhere, whose amount then counts twice.

Fairness in `service`. `UploadsEnd`: weak fairness of each upload's own steps
(`Progress`): the goroutines run and the disk answers. `RecvError` is not fair,
for a caller that returns early leaves its stream open under
`context.Background()`. `DeadSessionLeadsOut`: the timer fires, calls are answered and
answers arrive, the page checks its session when it starts, and a signed-in user
goes on making calls; without a call nothing can notice that a session is over.
Logins and logouts, here or in another tab, reloads, losses and expiry are not fair.

## 4. Proofs

All theorems hold for every value of the constants that satisfies the
assumptions in the modules that declare them (`TreeAssumption`: finitely many
nodes, a parent is nearer the root; `ValueAssumption`: the markers are no rows and no amounts; `RequestAssumption`;
`TimeAssumption`, `NeverAssumption`).

- `TypeCorrect` (`Spec => []TypeOK`). One step per action. It carries the range
  checks: a value is stored only inside its column's range.
- `RowsLocked`: no row has uncommitted versions of two transactions.
- `EditsNeverDeadlock`: with update and lock requests only, from any table. The
  invariant `ClimbInv` says that a handler holds only rows on the path from its
  item up to `cur`, and waits only for the item itself, holding nothing, or for
  the parent of `cur`; the row it waits for is nearer the root than every row it
  holds. In a set of transactions that all wait for each other the one that
  waits for the row nearest the root would wait for a row whose holder waits for
  one still nearer: induction over the depth.
- `RowsStayFresh` (`DerivedFresh`): without deletes, with files whose derived
  columns are right as they are stored, from a table that is fresh. The invariant `FreshInv` says
  which of a transaction's own rows may be stale: only `cur` between the
  roll-up and the derive statement. The assumption on deletes is needed:
  `anggaran_delete_stale` shows it.
- `NoOrphans` (`ForestClosed`): from any table that is a forest, with requests of
  every kind. `ForestClosed` alone is not inductive: whether a commit keeps it
  depends on what the transaction has written. `ForestInv` adds, for each
  handler (`Family`), that only a delete has taken rows away, that only an import
  has added some and holds the parent of each, and that no row is left below a
  deleted one once the cascade has ended. An import that adds below a row which a
  delete is taking away holds that very row, so `RowsLocked` excludes it.
- `EditsAgree` (`ForestConsistent`): any number of pagu edits of one leaf beside
  lock edits of one leaf (`EditsApart`), from any consistent table. The invariant
  `ApartInv` says of each handler's view that its columns are summed everywhere
  but above `cur`, and that the snapshot of a statement that waits agrees with the
  view in the columns it sums. The hypothesis is sharp: two pagu edits of
  different leaves lose a sum (`anggaran_lost_rollup`).
- `EditsAtomic` (`AtomicSteps`): under the same hypotheses, from a table that is also a
  forest, each commit changes the table as `AnggaranTree` says of that one request, though
  others have committed during its climb. `TraceInv` adds to `ApartInv` what a
  handler's rows are made of: it holds exactly the rows from its node up to `cur`,
  each the committed row of *now* with only its own columns changed, and derived unless
  the derive statement is next. At the commit the rows above the node are
  therefore `Settled`: the committed ones with the sums of what is being committed.
  `ClimbSettles` shows that the fold then ends at that very table: with the rows above n
  still as they were (`Above`), one turn settles the parent of n and nothing else.
- `SumsReachTheTop` (`RolledUp`): one handler after another (`OneHandler`), all kinds
  of requests, from any table that is a forest. `RollInv` says that the rows a
  handler has changed lie at or below `cur`, and that the parent of each
  but `cur` holds the sums; at a delete, that every row taken away but the
  first has a parent that was taken away. The loop can end only at a root or
  above a row that is gone, so at the commit no parent is left out. Beside other
  handlers `RolledUp` fails, as `anggaran_lost_rollup` shows for what is committed.
- `HandlersKeepTheirPromise` (`Serializable`): one handler after another, from the empty
  table, requests of every kind, failure at any statement. What `AnggaranTree` says of
  an edit or a delete is a fold over the ancestors of its node. `SerialInv` says at each
  statement what is left to do: the same fold begun at `cur` makes of the handler's view
  what was promised (`Completes`); a row that was not there leaves the table as it is;
  during a cascade what has been written lies below the node. `ClimbFirst` is the step:
  a climb gives the parent its sums and goes on from there. The handler's loop
  also ends where a row is gone, the fold does not: `RollInv` and `ForestInv` give that
  a present row has a present parent. The fold may pass through amounts that no column
  holds, where the handler fails and nothing is promised, so its lemmas are about
  `Wide` rows.
- `BatchesAtomic` (`AtomicSteps`): imports and roll-overs, any number at a time,
  change the committed table as `AnggaranTree` says, each at its commit.
  `BatchInv` says that a version a transaction has written is what its request
  makes of the row as it is committed *now*: the lock keeps others from
  changing it. Beside a roll-over the imports must add no row (`NoNewRows`), for
  its scan takes the rows of the snapshot it began on.

- `SessionTypeCorrect`, `LogoutTakesEffect` (`RevokedWithinTTL`),
  `RefusalsAreEarned` (`NoFalseRefusal`), from `SessionInv`: what a request or
  a cache entry "knows" is as old as the clock reading it started from (`Knows`),
  and every positive entry or row is backed by a logout (`TokenSound`).

- `LinesParsedRight` (`ParsedRight`), for every file and number of levels. The
  invariant `Stack` relates the parser's array, the handler's array and the
  lines so far: a level is open exactly when some line of it is `Standing`, and
  then the handler's entry is that line. A lemma turns the highest open level
  into the last open line. It needs no clearing of `ids`, which is why the
  direct import is right. Assumptions, here and in the next four:
  `PreviewAssumption`, `FileAssumption`.
- `ImportTypeCorrect` (`TypeOK`), `EveryNodeShown` (`AllShown`) and
  `SumsAgreeAfterRecalculation` (`SumsAgree`), from `ImportInv`: the type
  invariant, `StackInv` (the stack, while a file is parsed) and `ListInv`. In
  `ListInv` the list is in the file's order (`Ordered`); while it grows each line
  has an earlier parent (`ParsedSoFar`); afterwards it is `Hanging`: every set that
  holds the roots and is closed under children holds all nodes. That is `AllShown`
  without the recursion, and what a step can keep: a deletion takes a whole branch, a
  drag into one's own branch is refused, so a closed set for the new list is one for
  the old. `AllShown` says nothing while the list grows, `Hanging` alone nothing
  about order. After a recalculation (`tidy`) the sums are right
  (`SumsRight`); the lemma `RecalculatedRight` follows the recalculation up the tree,
  which ends because the list hangs.
- `TreeIsSaved` (`SavedInOrder`): as long as no node was dragged below a later
  one, a save of either import leaves the tree on the screen in the table, node for
  node. `SaveInv` adds that outside a save the table holds only what a save left
  whose answer was lost (`unseen`), and that the transaction of the direct import,
  which saves while it parses, holds after each line the rows of the lines so far
  (`SavedFrom`). The lemma `CommitSaves` says the same of the confirmed import,
  upsert by upsert: a parent comes before its children, so the id looked up for it is
  the one of its row, and two nodes with one path are one row, the later one's.
- `RowsShownOnce` (`EveryRowOnce`) and `NoAmountTwice` (`TopIsSumOfLeaves`), for
  every answer with finitely many rows (`AnswerAssumption`). `TreeView` has no step, so
  these are facts about two functions. A row's parent was there
  before it, so the answer is a forest that grows row by row. The rows of one
  generation, with the leaves already passed, are a frontier: going down one
  generation replaces each inner row by its children and keeps the sum, from the
  roots to the leaves.
- `FoundByItself` (`MergedRight`), for finitely many levels of finitely many codes
  (`CodesAssumption`), whichever they are and wherever they repeat; it is a fact about
  functions, too. In a plainly written FA file, an attempt that finds anything for a row
  of the file finds that row, alone or among others. In one whose codes carry the
  parent's, the argument goes down the path: a row of the first level is found by its
  path alone, and one below it among the rows below its parent's match, whose
  codes all end in different signs. The amounts follow from the leaves up: what the
  children of a row show is at most what they spent. The theorem takes the
  model's abstraction with it, that a code is one sign: two codes of which one is
  the ending of the other (`1` and `11`) are outside it.

- `CasTypeCorrect` (`CasTypeOK`), `BlobsWhole` (`NoTornBlob`) and
  `CasImplementsStore` (`KeepsPromise`), for any number of uploads, contents and
  parts. `CasInv` says what each stage of a `Save` knows: a digest is taken
  only of a stream that was closed after all its parts, a Save that has ended
  well has its key on disk, and a client that was answered has such a Save. The
  invariant is needed at the rename: a step that looks only at the disk could
  not tell that what it publishes is complete.

- `StoreOfTheCookie` (`StoreFollowsJar`, assumption `TokenAssumption`), with cookies
  that run out and other tabs. `AuthInv` adds that before the store is initialized
  nobody is shown, only one `checkAuth` is under way, and, as long as nobody else has
  changed the cookie, it was sent with the one the browser has.
- `ListedStaysKept` (`ListedIsKept`), `UploadsComeLast` (`UploadComesLast`),
  `ReordersStand` (`ReorderStands`), assumption `SenderAssumption` (finitely many
  documents, so that the greatest place exists). `DokInv`: a row that is
  inserted or about to be has a hash `BlobStore` told (`FilesTold`); an upload
  stays above what it found also between computing its place and writing it
  (`BelowOlder`); the pairs of the last committed reorder are in order, deleted
  or not (`StandingOrdered`). `HandlersUseThePromise`: each step of the
  handlers is a step of `BlobStore`, so with `CasImplementsStore` the
  documents rest on the storage service as it is written.
- `DipaAlwaysListed` (`DipaListed`), `OwnBudgetAlwaysShown` (`OwnBudgetShown`),
  `OwnDocsAlwaysShown` (`OwnDocsShown`). The three have one argument: what a list
  owes is at the server, in an answer on its way, and in a list that counts as
  valid (`DipaFresh`, `TreeFresh`, `ListFresh`); an invalidated list that is
  looked at is being fetched. A property of the screen alone would not survive
  the landing of an answer. What is owed leaves out the changes of the exemption above
  (`Overtaken`), and the theorems say no more than that.
- `SavesAreStored` (`SavedAsReported`). `SaveInv`: until something else touches the
  node, each part of the last save is still on its way or stored, no part undoes
  another, and the save is reported only when none is left. Assumptions
  `MasaAssumption`, `RowAssumption`.
- `LatestSnapshotStands` (`LatestAnswerStands`). `SnapInv`: the last copy of a period
  is from after every answered call began, unless a call is between its delete
  and its insert or failed there.
- `SavesStayWhole` (`SavedWhole`), `DeletionsStand` (`DeletedStaysDeleted`), assumption
  `UserAssumption`. `UsersInv`: whatever lists, forms and saves in flight name is a
  user that is or was there, and what a save will write was asked for as a whole.
- `DraftStaysHome` (`DraftOfThisNode`), `DraftsAreKept` (`DraftKept`), assumption
  `DocsAssumption`. `ArsipInv`: list, draft, answers and calls of a node name only
  documents of that node.

Recursion. No definition these proofs use is a RECURSIVE operator; recursion is a
recursive function, a fold of the community modules, or `SumOf`. Such a function is
a CHOOSE, so a proof first needs that one exists. The library's theorems on that
take operators as parameters, which the installed provers cannot instantiate;
`FoldTheorems` states them for functions: `FromZeroUp` and `FromEmptyUp` are
induction over the sets of numbers and subsets for which a claim holds, `Iterated`, `Folded` and
`SumStepwise` give existence and the equation of one step, `SumTakesAny` that a sum
does not depend on the order, `LeftFoldIs` what a fold from the left returns.
`RankedInduction` and `RankedRecursion` do both along a rank, such as the length of a path.

Only model-checked:

- `AtomicSteps` with edits beside imports and roll-overs (`anggaran_month_end`). `EditsAtomic`
  and `BatchesAtomic` each take one side alone. Together the property needs the
  files to hold all rows: an import that has a row the edit sums, and none the edit
  holds, would commit while the edit waits with an older snapshot.
- `HandlersEnd`, `UploadsEnd`, `DeadSessionLeadsOut`: liveness under fairness, out of
  the prover's reach.

## 5. Not modelled

- Reads (`GetAnggaranTree`, listings, downloads) change nothing; they enter as
  what a page reads.
- The permission check uses the permissions in the token, which stay as they were
  at login for the token's life. No promise about it is documented.
- Passwords but for the blank one, CSRF, rate limits, CORS, file formats, MIME
  detection and layout are data the properties do not tell apart.
- Of the pages: the source filter, the button for the month end (its handler
  has no route), search, navigation and rendering. Rendering has a hazard of its
  own, listed in `PROJECT.json`: while no documents are loaded, `AnggaranPage`
  gives an effect a new empty array at each turn, and the effect sets state.
- Generated code is represented by the queries it wraps. Start-up, migrations,
  health checks, type conversions and the shell scripts are listed in
  `PROJECT.json` with the reason.

## 6. Open

1. `AtomicSteps` for edits beside imports of whole files, where each can only wait for the
   other until the detector ends one of them.
2. `MergedRight` for codes of several signs, of which one may be the ending of another.
3. Permissions in the token beside `UpdateUser`, if a promise is documented.
