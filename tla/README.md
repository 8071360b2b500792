# CryptoSafe password manager: verification project

CryptoSafe is a Qt desktop program (C++20, SQLite, OpenSSL, Argon2) that keeps
passwords encrypted in one database file. This directory holds TLA+ models of
the parts whose correctness depends on the order of events, the TLC
configurations that check them, and TLAPS proofs of what matters most about
them. Paths below are relative to the repository root unless they name a file of
this directory.

    tlc -workers 2 -config PasswordChange_atomic.cfg MCPasswordChange.tla
    tlapm PasswordChangeProofs.tla

## 1. Inventory

Everything an instance of the program does runs on its GUI thread; Qt timers and
modal dialogs (nested event loops) are what interleaves inside a process. Two
processes may be started on the same database file, which SQLite serialises one
statement or one transaction at a time. There is no busy timeout: a locked
database is an error at once.

| component | state | operations | what is hard | what makes it correct |
|---|---|---|---|---|
| **Master password**: FirstRunWizard, LoginDialog, ChangePasswordDialog, MainWindow::showLoginDialog | `key_store` rows `auth_hash`, `auth_salt`, `auth_params`, `enc_salt`; `is_first_run` in the config file; the rows a dialog loaded when it opened | set up, log in, verify, change, log out | a change is five writes with ignored results, then a transaction; dialogs hold copies of rows; the auto-lock login opens over other dialogs; the wizard can be reopened from the menu | the accepted password opens every entry; success is announced only if it happened; the whole behaves like a vault with one password |
| **KeyManager** | seven key slots in memory | store, get, clear, move current to old | the old slot is overwritten by a second attempt | the key in memory is the key of the entries |
| **Re-encryption** (`Database::reencryptAllEntries`) | a write transaction, the loop's two counters | begin, one row, commit or roll back | a row may fail to decrypt, an UPDATE or the COMMIT may fail, a read error ends the loop | nobody else writes meanwhile; counters that agree mean every row is under the new key |
| **VaultManager** | `vault_entries` | create, read, update, delete, list, metadata, rotate | encrypts with the key of the moment a dialog closes; a failed COMMIT leaves the transaction open on a pooled connection | entries stay readable with the session's key |
| **Database connections** | pool of SQLite connections, mutex | get, release, execute script | the pool's limit, a connection that is not returned (`getAuditPage`), one returned in mid-transaction | each connection is free or in use once |
| **Schema and default settings** (`Database::initialize`) | `user_version`, tables, indexes, six settings | create, migrate, write defaults | a script has no transaction and stops at the first error; indexes without IF NOT EXISTS fail at every second start; several processes start together | every table exists after a start that was not disturbed; no start destroys a key store or a chosen setting |
| **ClipboardService** | clipboard text, interval, four kinds of timers, saved countdown | copy, clear, warn, save, restore, settings, lock | timers of several copies pending together; a crash with the secret on the clipboard; settings changed in mid-countdown | a copied secret is cleared when the user was told |
| **Audit log**: AuditLogger, LogSigner, LogVerifier, AuditLogViewer | `audit_log` rows in a hash chain, signing key in KeyManager | append (13 handlers), verify, page, export | read of the last hash and insert are two statements; failures are ignored; events before the first login | an honest log verifies, a valid report is true |
| **Session**: StateManager, MainWindow's slots, auto-lock, login backoff | logged in, locked, last activity, inactivity timer; the window's own flag; the stack of open dialogs; failures per login dialog | login, lock, auto-lock, logout, activity, wrong password | the auto-lock fires inside modal dialogs and stacks its own on them; two flags for one session, a third in the window; each dialog counts failures for itself | an idle session locks; the window shows entries exactly in an unlocked session; nothing changes while locked |
| **EventBus** | subscribers by type | subscribe, publish | handlers run inside the call that publishes | each event reaches each subscriber once |
| **Entry table**: VaultTableModel, SecureTable, SearchProxyModel, PasswordDelegate | rows, visible rows, password cache | refresh, toggle, get password, update cache | visibility by row and cache by rowid outlive refresh, delete and lock | a row shows its own password or dots |
| **Import of entries**: ImportDialog, Importer | the file's entries, the action for conflicts, metadata read at the start | load, choose, skip, replace, add, update, summary | rowids read at the start are used while rows come and go; results of statements are ignored; a dialog for each conflict; a load that fails after one that did not | other entries are left alone, nothing is lost, what is counted is stored; what is imported is what was loaded |
| **Export of entries**: ExportDialog, Exporter | files of four formats | confirm the password, export | exceptions nobody catches; formats that lose something | an entry is read back as it was |
| **Sharing**: ShareDialog, SharingService, public keys | RSA pair in memory, `contacts`, share file | export and import a key, share, load a share, save it | keys that are read when a contact is selected; expiry; the reader requires fields the writer left out | a share is for the contact that was shown; it can be opened |
| **Settings, configuration, entry dialog, generator, cryptography** | settings table, config file, none | edit, read, generate, encrypt | nothing that depends on order | |

How they interact: MainWindow calls the dialogs and VaultManager; both use
Database and KeyManager; every change publishes an event, which AuditLogger,
ClipboardService and MainWindow receive synchronously, inside the call that
published it. The settings table and `key_store` carry state from one process to
the next.

The files and the status of each component are in `PROJECT.json`
(`components`); the places where this code is hard to test are under `hazards`.

## 2. Modules

| module | what it is |
|---|---|
| `PasswordChange` | wizard, login, entries, saving of authentication rows, change dialog, re-encryption; several processes |
| `AtomicVault` | what a user is promised: one password, a set of readable entries |
| `PasswordChangeProofs` | theorems about `PasswordChange`, for any processes and faults |
| `AtomicVaultProofs` | that one process without faults keeps the promise of `AtomicVault` |
| `Clipboard`, `ClipboardProofs` | ClipboardService and theorems about it |
| `AuditLog`, `AuditLogProofs` | AuditLogger, the table and LogVerifier, and theorems about them |
| `EntryTable`, `EntryTableProofs` | the main window's table, its password cache, and the import of a file; theorems about them |
| `Session`, `SessionProofs` | StateManager, MainWindow's slots, the stack of dialogs, the login backoff; theorems about them |
| `SchemaInit`, `SchemaInitProofs` | `Database::initialize` statement by statement, in several processes; theorems about it |
| `Formats` | what each file format keeps of an entry, as functions |
| `Exchange`, `ExchangeProofs` | several users with their key pairs, contacts, shares, exports and imports, on top of `Formats`; theorems about them |
| `MCPasswordChange`, `MCClipboard`, `MCAuditLog`, `MCEntryTable`, `MCSession`, `MCSchemaInit`, `MCExchange` | model values, and the sets that a `.cfg` file cannot write, for the constants |

The exact lines each definition stands for are in `PROJECT.json` (`map`).

### 2.1 PasswordChange

* `auth` and `vault` are the committed tables; `tAuth`, `tVault` and `owner` are
  the open write transaction and the process that has it. A process reads its own
  uncommitted rows (`AuthSeenBy`, `VaultSeenBy`).
* `page[a]` is the modal dialog or the place in a handler where process `a` is.
  `Running` pages are inside a handler, where the process serves no event;
  `Modal` pages wait for the user, and the auto-lock timer may open the login
  dialog on top of them (`OpenLogin`).
* `keys[a]` are the two encryption-key slots of KeyManager, `ui[a]` the rest of
  the process's memory: the rows that the open login dialog and the change dialog
  loaded, the verified hash, the new password with its salt, the row being edited.
* A random salt is the next value of a counter. One number stands for the
  authentication salt and the encryption salt drawn together. A key or a hash is the pair
  (password, salt); an entry is the key of its blob. AES-GCM opens a blob with its
  key only.
* One action is one SQL statement outside a transaction, one row of the
  re-encryption loop, one dialog, or the end of the process. `saveAuthData` is
  three statements (`SaveHash`, `SaveSalt`, `SaveParams`), `saveEncSalt` a
  fourth: another process can read between them.
* `author` is history: the process whose last handler to save authentication rows
  had none of its statements refused (`WriteRefused`), as long as no other process has
  stored a row since. The handler itself never looks at the results.
* `Faults` names what may go wrong: `"write"` a statement or COMMIT fails,
  `"read"` a read fails, `"crash"` a process ends anywhere, `"wizard"` the user
  opens the wizard from the Help menu.

Limits: each process has one pooled connection (the leak of `getAuditPage` is not
in this model); the Argon2 costs stored in `auth_params` never change; reading
them from a missing row reads uninitialised memory, which is taken never to
hold the right costs; a failing UPDATE fails that statement only;
`rotateKeys` is called by tests only and is left out; the entry and delete dialogs
are merged with their statement; the database path is fixed.

### 2.2 Clipboard

`timer`, `saveTimer` and `warnings` are the seconds until `m_timer`,
`m_saveTimer` and each pending single shot of `showClearWarning` fire. `Tick`
is a second passing, and happens only when nothing is due: the event loop
delivers what is due in any order first. `configured` and `saved` are the two
rows of the settings table; a failing `setSetting` is ignored and a failing
`getSetting` returns its default (`IfDbFails`). `promised` and `orphan` are
history variables: what is left of the interval the user was told at the last
copy, and the text a crash left on the clipboard. `RemainingSeconds` rounds
down like the integer division in `getRemainingSeconds`, so it may be one second
less than whole ticks say.

Limits: writing the system clipboard succeeds; two single shots due in the same
second are one (`warnings` is a set); notification flags and wording are left out.

### 2.3 AuditLog

`log` maps sequence numbers to rows and `lastSeq` is SQLite's AUTOINCREMENT
counter. A handler is two actions, `BeginAppend` (read the last hash) and
`EndAppend` (sign and insert), because other processes can act in between. The
13 handlers differ in the data they log and share this body. `BeginVerify`
counts the rows and each `VerifyRow` is one round of the loop of
`verifyAllLogs`. `Damage` is a row that is changed or lost outside the program,
while nobody verifies. A hash is the list of the data hashed so far, so two
different lists have two different hashes. `written` and `damaged` are history
variables.

Only the event of a clipboard timer restored at start-up can be logged before
the first login, and is then stored without a signature.

### 2.4 EntryTable

* `vault` is the table `vault_entries`: a rowid's entry is a name, the pair
  <<title, login>>, and a password. The table has no integer key, so SQLite gives
  a new row the rowid after the greatest one in use (`IsNextRowid`).
* `rows`, `shown`, `showAll` and `cache` are VaultTableModel's `m_data`,
  `m_rowPasswordVisible`, `m_passwordsVisible` and `m_passwordCache`. Visibility
  goes by row number (`RowNumber`, in the order of the titles), the cache by
  rowid. `PaintPassword` is the view asking for a visible cell, the moment at
  which a password enters the cache.
* `import` is the dialog and the locals of `onImport`: each row of the loop is
  `ImportRow` or, when there is a conflict to ask about, `AnswerConflict`, and while the
  user is asked other events are served (`Idle`). `existing` is the metadata read
  before the first row, and every deletion and update goes by its rowids.
* An entry operation or an import is a transaction each in `VaultManager`; a
  failing one changes nothing and only its result tells. `onImport` ignores these
  results.
* `gone`, `overwritten`, `before` and `failed` are history variables.

Limits: the rows selected in the preview are the file; one process; the hidden table
of a locked session is still there; a failed COMMIT of `createEntry` that leaves
its transaction open is in `PasswordChange` only; an insertion above `MaxRowid` is
not followed.

### 2.5 Session

* `loggedIn`, `locked`, `idle`, `ticking` and `due` are StateManager: its two
  flags, the time since the last activity, its one-second timer and a timeout that
  waits for the event loop. `shown` is MainWindow's own flag with the table and
  the search field, which it keeps only by the signals `LoggedIn` and `LoggedOut`;
  the slots run inside `StateLogin`, `StateLock` and `StateLogout`.
* `windows` is the stack of modal dialogs. The user reaches the top one; the
  timer reaches the program whatever is open, and `TimerFires` puts the notice of
  the auto-lock on top (`CloseNotice` then opens a login dialog over what was
  there). A login dialog carries its failures, the rest of its delay and its age
  (the age is history).
* `changes` counts changes of the vault (history): the entry dialog, a
  confirmed deletion, an import.
* The time is in whole seconds. `Tick` waits until every timer that is due has
  been delivered.

Limits: the first start with the wizard is in `PasswordChange`; `unlock()` is left
out because its only caller runs it when nobody is logged in, where it returns;
the dialogs that neither change the session nor the vault (settings, audit log, about,
keys and shares) are left out; a login dialog is left by cancelling it after
`MaxFailures` wrong passwords.

### 2.6 SchemaInit

* `exists`, `version` and `schema` are the file, its `user_version` and, for each
  table and index that matters, the version of its definition. `CreateTablesV2`
  and `MigrateToV2` are the two scripts; `RunStatement` is one statement of one
  of them, `Fails` says when SQLite refuses it. The indexes and triggers that are
  created with IF NOT EXISTS belong to their table.
* `Start` chooses as `initialize` and `checkMigration` do: `CURRENT_VERSION` is 1,
  so the migration to version 2 runs only if the version is read as 0 or -1
  (`VersionUnread`).
* The default settings follow one after the other, a read and a write each
  (`ReadSetting`, `WriteSetting`); an empty string is missing. `ChooseSetting` is the
  settings dialog of a running process.
* `disturbed` is a history variable: an old file, company on the file, a crash or a
  statement that failed without a reason in the schema.

Limits: rows are not followed (the migration's copy only needs its columns);
the path of the file is fixed.

### 2.7 Formats and Exchange

`Formats` has what each conversion does to a text, by the few classes of texts
that the conversions tell apart: nothing special, something the `.csv` has to
escape, quotes only, characters that are removed, a reason to remove them, two
lines. `FromEncryptedJSON`, `FromCSV` and `FromBitwarden` are writing followed by
reading of one entry; `LinesOf` is the reader of `.csv` cutting lines before it looks
at quotes; `FromFile` is what a whole file is read as, entry after entry.

In `Exchange` each user has a program with an RSA pair (`pair`, lost at exit and at
a password change), contacts, one window and a clock offset; `disk` is the one file
that they pass round. A window's text boxes are part of the step that opens them.
An export goes through the stages of the code, and other programs act in between:
`StartExport` has the entries and the file, `Encrypt` makes the content of an
encrypted file or throws (`EncryptFails`), `OpenFile` truncates the file or throws
(`OpenFails`), `WriteFile` writes. The program serves no event meanwhile, so its
window cannot be closed. Signing, between opening and writing, uses a key of fixed
length that is there since encrypting, and cannot fail.
`PickKey`, `AddContact`, `OpenShare` and `SelectContact` are the dialogs of keys and
contacts; `WriteShare` the two kinds of shares, `Deliver` a share with the fields
that this version reads but does not write; the `Load` actions and `LoadFails` are
`loadAndParseFile` and `importSharedEntry`, `ShowEntries` is `showPreview`; `SaveShare` is `onImport` of a share. The fields `file`,
`shown` and `sure` are history.

The program `bw` of Bitwarden is outside the repository. The scripts run it in a
terminal that nobody waits for, test nothing and export the whole account. So
`ExportForBitwarden` leaves any of the batches in the file, whatever was selected, and
`LoadBitwarden` reads any of them, whatever the chosen file has: what an earlier import
left in `export.csv`, or other entries of the account.

Limits: what an ordinary import does to the vault is `EntryTable`; one file; an
`export.csv` holds entries as `bw` writes them; the terminal of an export writes its
file in one step with the handler that started it; writing to an opened file succeeds
and no program is killed between opening and writing; a share's permissions and sender
are only shown; the RSA pair always differs from earlier ones.

## 3. Runs

| run | question | bounds and why they are enough |
|---|---|---|
| `password_atomic` | Without faults, does the accepted password always open every entry, and does the program implement `AtomicVault`? | 1 process, 2 passwords, 2 entries, 3 salts: set-up and two password changes, to the other password and back to the same one, with entries added, edited and deleted and the auto-lock login between any two dialogs. |
| `password_faults` | With two processes, failing writes, crashes and the reopened wizard: is re-encryption undisturbed, and where success is announced, are the entries under the new key, and do the stored rows yield it if no statement was refused? | 2 processes, 1 password, 2 entries, 2 salts. Keys differ by salt, so one password is enough to have two keys; the second process can do everything the first can, during every step of it. |
| `password_cancelled` | Does "password change cancelled" leave the old password? *It does not.* | 1 process, no fault. |
| `clipboard_promise` | Is a copied secret cleared when the user was told, and does it leave the clipboard? | Intervals 0 (never), 2, 4 and 6 s instead of 0, 30 and up to 300, warning 2 s instead of 5 s before, saved every 2 s instead of 3: intervals below, equal to and above the warning lead, several periodic saves in one countdown, two copies whose timers overlap, and crashes and failing settings statements. |
| `audit_chain` | Does an honest log verify, and is a valid report true? | 1 process, 2 kinds of data, 4 rows, failing inserts, crashes, changed and lost rows: a lost first, middle and last row and a row appended after each. |
| `table_import` | Does the cache follow edits, does an import leave other entries alone and store what it counts? | 3 rowids, two logins of one title, up to two entries at the start, every file of two rows, every action and answer, failing statements; an import and one other change, or three changes. With failing reads too (3.2 million states, four minutes) the same holds. |
| `table_delete` | Does deleting a row delete its entry? *Not after an import.* | an import and a deletion, no fault |
| `session_lock` | Does an idle session lock, whatever dialogs are open? Does the window agree with StateManager? Do the delays of the login dialog hold? | Auto-lock after 3 s instead of 3600: shorter and longer than the delays of 1, 5 and 30 s, which are the code's; 5 wrong passwords reach all three delays; a lock opens up to two dialogs over each of the others; failing reads. |
| `session_locked` | Does the vault change only in an unlocked session? *Also in a locked one.* | auto-lock after 2 s, no fault |
| `schema_start` | Whatever interrupts a start, is a usable key store complete, and is it never dropped? Is an undisturbed start complete, and does it keep settings? | 2 processes starting and stopping any number of times, no file or one of version 1, crashes, busy and unreadable files; 2 settings instead of 6, which are treated alike. |
| `exchange_files` | Is what is imported what was loaded? Is a share for the contact shown? Is an entry read back? Is the old file still there when an export ends the program? | 2 users half a day apart, 2 key pairs (one user logs in twice, or each once), 1 password and another, one day; one user has up to two contacts; one user exports a batch of an entry with everything the conversions stumble over, one with nothing special and one that has to be escaped, and both export for Bitwarden, whose account has that batch or another. Two programs in the middle of an export are left to the theorems. 1.1 million states. |
| `share_round_trip` | Can a share be opened by whom it is for? *No.* | as above |

The runs of `Session`, `SchemaInit` and `Exchange` check deadlock too: a program
that was ended can be started. In the other runs the user may stop at any time and
counters are bounded, so deadlock is not checked there.

**Properties.**
`AcceptedPasswordOpensVault` relates the stored rows, every blob and the key of
each session. `ImplementsAtomicVault` is the refinement: the abstract password is
the password whose key the entries are under, and a change takes effect when its
transaction is over (`CurrentKey`); entries never become unreadable and never
appear otherwise than by being added. `ScanOwnsDatabase` and `SuccessIsTruthful`
are about the transaction: its process has the write lock, equal counters mean
every row passed has the new key, and success is announced only when every
committed entry is under the new key and, if the handler's own statements were stored
and no other process has stored one since (`author`), a login with the new password
is accepted and derives that key from the committed rows. `TimerKeepsPromise` and
`CopiedTextIsCleared` are the safety and liveness of the clipboard.
`HonestLogIsAccepted` and `ValidMeansUntouched` are the two directions of
verification. `CacheFollowsEdits` relates the cache to the stored passwords
across failed edits, refreshes and password changes; `ImportKeepsOthers` and
`ImportIsComplete` say what an import may not touch and what it must have done,
although it works by rowids that may have changed hands.
`SessionExpires` and `IdleSessionLocks` are the safety and liveness of the
auto-lock, `TableFollowsSession` relates the three flags of one session, and
`BackoffHolds` the age of a login dialog to its failures although other dialogs
were open over it. `KeyStoreComesLast` is what every interrupted start leaves true,
`KeyStoreStays` what the migration, started by mistake, does not destroy;
`QuietStartCompletes` and `QuietStartKeepsSettings` are what an undisturbed program
can rely on. `PreviewIsOfLoaded`, `ShareIsForShown`, `ReadBack` and
`TruncatedIsWritten` relate a window to the file it was loaded from (a `.json`, which `bw`
reads, excepted), a share to the screen it was made
on, an entry to what is read back beside any other, and a truncated file to a program
that is past everything that may end it.

**Fairness** is used by the two liveness properties. `CopiedTextIsCleared`: weak
fairness of `Tick` (time passes) and of each timer's firing. `IdleSessionLocks`:
weak fairness of `Tick`, of the delivery of the auto-lock's timer and of the end of
a delay. Qt delivers a timer that is due as long as an event loop runs, every modal
dialog runs one, and nothing in the program blocks it for ever. No fairness is
assumed of the user, of crashes or of other programs.

## 4. Findings

1. **A cancelled change has changed the password** (`password_cancelled`;
   `password_change.cpp:337-340`). The new hash, salts and key are stored
   before re-encryption and not undone when it fails. No fault is needed: an
   empty vault makes `reencryptAllEntries` return false
   (`db_helper.cpp:1377`).
2. **Deleting a row can delete another entry** (`table_delete`;
   `MainWindow.cpp:614`). An import replaces entries and the table is not refreshed.
3. **A locked program changes the vault** (`session_locked`; `state_manager.h:90`).
   Locking leaves `m_isLoggedIn` set and the key in memory; after the login dialog is
   cancelled the menu works as before.
4. **No share can be opened** (`share_round_trip`; `sharing_service.cpp:207`). The
   reader requires two fields that the writer no longer writes, and the dialog looks
   for the method of encryption in a spelling that the writer does not use
   (`import_dialog.cpp:260`).

Other deviations were met while modelling. They have no run, because the repository
promises nothing about them or because they matter less:

* a warning of an earlier copy comes in the countdown of a later one, and the
  right warning is then suppressed (`clipboard_service.cpp:284`); the configured interval is
  not loaded at start (`clipboard_service.h:33`); a crash before the first periodic
  save loses the countdown (`clipboard_service.cpp:72`); the remaining time saved after a
  settings change is computed with the interval of now;
* two processes fork the audit chain (`audit_logger.cpp:67`), and the report's
  "signatures: valid" is not looked at (`audit_logViewer.cpp:263`,
  `log_verifier.cpp:142-156`);
* a new entry's row shows a deleted entry's password, because the cache outlives the deletion
  and the next entry gets the same rowid (`VaultTableModel.cpp:171`);
* replacing loses an entry when the file has a row twice (`import_dialog.cpp:565`) or the
  addition fails; a new entry in an import whose action is skip or update is
  not added (`import_dialog.cpp:513`);
* the results of `saveAuthData` and `saveEncSalt` are ignored (`password_change.cpp:321-328`):
  after a refused statement the entries are re-encrypted all the same, success is
  announced with the advice to log in with the new password (`password_change.cpp:346`),
  and the new password is refused or derives another key. `SuccessIsTruthful` would be
  violated without its condition on `author`, by one process whose statement for the hash
  is refused; a crash before the commit likewise leaves the new password with
  entries under the old key (`db_helper.cpp:1248`);
* a read error ends the re-encryption loop early, with success announced over
  rows left under the old key (`db_helper.cpp:1297`); the wizard reopened from the
  Help menu over a vault replaces its key (`MainWindow.cpp:144`);
* a first start that is interrupted after the indexes of the audit log leaves a file
  whose later starts return true and never create the rest (`DBSchema.h:155`); a default
  overwrites a setting that cannot be read (`db_helper.cpp:226`);
* AES-128 cannot be used for an export, and a wrong password ends the program
  (`export.cpp:62`, `import_dialog.cpp:205`); the encrypted format drops tags
  (`plaintext_entry.h:37`); notes of several lines break a row of `.csv`
  (`import.cpp:228`); a LastPass file is read in the wrong order, because its importer
  has no caller (`import.cpp:301`);
* the preview of a Bitwarden file may be of an earlier import or of the whole
  account: `export.csv` has a fixed name and is never removed, and the script tells
  SUCCESS without testing anything (`import.cpp:449-511`);
* errors of writing an export are not tested: a full disk leaves a truncated file, with
  success announced (`export.cpp:90`);
* an expiry in UTC is read as local time (`sharing_service.cpp:26`); a public key that
  was handed out stops working at the next restart or password change
  (`MainWindow.cpp:327`).

## 5. Proofs

All theorems hold for every value of the constants that satisfies the named
assumptions of the module (rowids are not 0, intervals lie in range, null
values are distinct), so for any number of processes, entries, salts, rows, copies,
dialogs, settings, users, contacts and files.

| theorem | says | argument |
|---|---|---|
| `PasswordChangeProofs!TypeCorrect` | `[]TypeOK` | by cases on the actions |
| `ReencryptionIsAlone` | `[]ScanOwnsDatabase` | `IndInv` below |
| `SuccessCanBeTrusted` | `SuccessIsTruthful` if `"read" \notin Faults` | from `IndInv` and `RowsInv` below, at the commit |
| `PasswordOpensVault` | `[]AcceptedPasswordOpensVault` for one process without faults, any passwords, entries and salts | `Orderly` below |
| `Refinement` | `ImplementsAtomicVault` for one process without faults | `StepImplements` below |
| `ClipboardProofs!TypeCorrect` | `[]TypeOK`, so no saved countdown exceeds the longest interval | by cases |
| `PromiseIsKept` | `[]TimerKeepsPromise` | inductive as it stands, together with the types |
| `AuditLogProofs!TypeCorrect` | `[]TypeOK` | with `CursorInRange`: the verifier's next row is within its count |
| `ValidReportIsTrue` | `[]ValidMeansUntouched`, any processes and faults | `ReportInv` below |
| `HonestLogVerifies` | `[]HonestLogIsAccepted` for one process whose reads succeed | `ChainInv` below |
| `EntryTableProofs!TypeCorrect` | `[]TypeOK`, so the table has one row for a rowid | by cases; row numbers stay below `MaxRowid` by counting (`RowNumberType`) |
| `CacheIsInStep` | `[]CacheFollowsEdits`, all faults | `CacheInv` below |
| `ImportLeavesOthers` | `[]ImportKeepsOthers`, every file, action and fault | `ImportInv` below |
| `ImportsAreComplete` | `[]ImportIsComplete`, every vault, file and sequence of answers | `CompleteInv` below |
| `SessionProofs!TypeCorrect` | `[]TypeOK`, a stack of any height | by cases |
| `IdleIsBounded`, `TableIsInStep` | `[]SessionExpires`, `[]TableFollowsSession`, every auto-lock interval | `SessionInv` below |
| `DelaysHold` | `[]BackoffHolds`, any number of wrong passwords | `Patient` below |
| `SchemaInitProofs!TypeCorrect` | `[]TypeOK` | by cases |
| `KeyStoreIsLast`, `KeyStoreIsKept` | `[]KeyStoreComesLast`, `KeyStoreStays`, any processes and faults | `IInv` below |
| `QuietStartsComplete`, `QuietStartsKeepSettings` | `[]QuietStartCompletes`, `QuietStartKeepsSettings` | `QInv` below |
| `ExchangeProofs!TypeCorrect` | `[]TypeOK`, batches and files of any length | `TInv` below |
| `ReadsBack` | `[]ReadBack`, any files and any entries beside the one that is read | `TInv`, and `OccursInJoins` below |
| `PreviewsFit`, `SharesFit` | `[]PreviewIsOfLoaded`, `[]ShareIsForShown`, all users, passwords and failures | `WindowsFit` below |
| `TruncatedFilesAreWritten` | `[]TruncatedIsWritten`, any users exporting at once | `WInv` below |

*Password change.* `ScanOwnsDatabase` is not inductive: its second half speaks of
the new key of the running process, which a login in another window could
replace. `HandlerAlone` says that no login dialog is open above a handler that
saves or re-encrypts, and that the handler has a new password with its salt.
`IndInv == TypeOK /\ HandlerAlone /\ ScanOwnsDatabase` is preserved: only the
owner of the lock changes `tVault`, a row counts as done when it is under the new
key, and nobody else becomes owner. At the commit without a read error
`scan.todo = {}`, hence every row is under the new key. What the rows of `key_store`
have to do with it is `RowsInv`: for the author, the rows it sees agree with the new
password, its salt and the new key up to the statement that comes next
(`StoredSoFar`), and a transaction of another process has no rows that its commit
would put in their place (`AuthorIsSeen`). A statement of another process ends the authorship; a refused one
ends it too, and at the commit the author's rows become those a login reads.

*Password change as one step.* Both theorems assume one process and no faults
(`Alone`). The assumption is needed: with a second process, or with any one of the
four faults, TLC finds both properties violated, and sections 1 and 4 say how.
`AcceptedPasswordOpensVault` is far from inductive, because it says nothing while a
handler runs. `Orderly` says for every page what the tables, the key slots and the rows
that a dialog has loaded have to do with each other. At rest (`Resting`) the four rows
are those of one key, every entry and the session are under it, and a dialog has loaded
no other rows. While the first password is saved (`SettingUp`) there are no entries.
While a password is changed (`Changing`) the rows are the old ones up to the statement
that comes next (`SavedUpTo`), the committed entries are all under the old key, and
in the transaction a row is under the new key exactly if the loop has passed it
(`RowNow`). No row fails to decrypt then, so the counters agree at the end unless the
vault is empty, and then it is under any key.
The refinement follows from `Orderly`: the abstract password and its readable
entries are computed from the committed rows (`KeyNow`, `PasswordNow`, `Stored`), which
no step of a handler changes but the commit. That step changes the abstract password
and keeps the entries, an addition or deletion at rest changes the set of entries by
one, and every other step maps to a stutter (`StepOfVault`).

*Audit report.* `HashesKept` says that the hash stored in a row is that of the
data it was written with and its previous hash (damage changes data and does
not recompute hashes), and `PassedRows` that every row below the verifier's cursor
is there and holds the data it was written with. A row passes when the hash of
its data is the stored one, and a hash determines its data (`HashInjective`), so
the next row joins them. The theorem holds even when another process forks the
chain: the report is then *broken*, never wrongly valid.

*Audit chain.* With one process no insert comes between the reading of the last hash
and the row's own insert, so as long as nobody damages the table the rows are
numbered without a gap, each continues the one before (`Chained`), the row being
built continues the last (`Continues`), and the verifier expects exactly the
next row's previous hash. The assumption on processes is needed: with two, both
may read the same last hash. A failing read (an empty last hash) breaks
the chain too.

*Table and import.* `CacheFollowsEdits` is not inductive: an insertion could meet a
cached password of a free rowid. `CacheInv` adds that such a password belongs to an
entry that was deleted since (`overwritten`). `ImportInv` adds to `ImportKeepsOthers`
that what `onImport` read before the first row was so in the vault of then
(`ExistingIsBefore`). A row of the file therefore deletes or updates only a rowid that
belonged to its own title and login at the start, and inserts at a free one, so an
entry of another name is not touched, whoever has that rowid now. `CompleteInv` adds
that a rowid whose name no row of the file has had yet still has its entry
(`RestAsBefore`). So what a row deletes or overwrites is the entry of its own name and none
that an earlier row of the import has stored; in its place the row's own entry is
stored, unless a statement failed (`RowEffect`).

*Session.* `SessionExpires` needs to know that the timer runs. `SessionInv` says that
in an unlocked session the timer is active, and that in the last second before
the interval is over a timeout is due, so that `Tick` has to wait for it; with it
comes that `shown` follows the flags. Whatever a dialog does, it changes the
session by one of four operations of StateManager, so one lemma
(`StateKeepsInv`) serves most actions, and the stack plays no part. For
`BackoffHolds`, `Patient` says of every dialog of the stack that its age and what is left
of its delay add up to the age that the next wrong password needs; most
actions only open, leave or exchange a dialog (`StackStep`).

*Schema.* Processes interleave statement by statement. `PassedIsThere` says that
what a creating script has passed is there: no statement removes a table but the two
of the migration, and these concern the key store only. `OneMigration` and `MigratesOld` say
that a process that copies has made `key_store_new` itself and that the key store
it is about to drop is of version 1, which the copy found out; the next migration
fails at its first statement as long as that table is there. A key store of
version 2 is therefore made by a script that has passed the four tables before it,
or in a file of version 1, and is never dropped. `QInv` adds what an undisturbed
file is: not there, in the middle of its one creation with everything passed of version 2,
or complete; and that a process writes a setting only while it is missing, since it
has been alone since it read it.

*Exchange.* `Fits` relates a window to its user's contacts: a preview is what
`FromFile` or `ShareEntries` gives of the file it came from, unless that is a `.json`, and the key of a share
window whose label says so is that of the contact shown. Every action changes one window
to one that fits, or only the file. These proofs use nothing of `Formats`: they hold for
any conversions.
`WInv` says that a truncated file has a program in the stage after the opening. That window
is left by `WriteFile` only: an end of a program is in an earlier stage or without an
export, and what other programs write is never truncated.
`TInv` has the types and what they rest on: a key that was read is that of a pair, and a
window with a key to share with has a contact selected, so that a share names a pair
that exists; and what a preview shows of an export is what `FromFile` gives. That
it is a sequence of entries, and that an entry's own part of it is found in it, is shown
by induction over the entries of the file (`OccursInJoins`). The library states
induction with an operator as its parameter, which the provers cannot be given; the lemma
`Induction` states it for a set, from the least number that is not in it. By the
same induction a function exists that satisfies the recursive equation of `FromFile`
(`JoinExists`). What is left of `ReadBack` is about one entry: nothing in an
entry without quotes alone, line breaks and suspicious texts is changed by the
reader (`UntouchedIsKept`).

**Only model-checked:** `CopiedTextIsCleared` and `IdleSessionLocks`: liveness under
fairness and ENABLED are out of the proof system's reach. Every other property of a
passing run is a theorem. Where a theorem assumes more than the module does, the run
makes the same assumption: `SuccessCanBeTrusted` that reads do not fail,
`HonestLogVerifies` that there is one process whose reads succeed, and the two theorems of
`AtomicVaultProofs` that there is one process and no fault. No module uses a RECURSIVE
operator.

## 6. Not modelled, and why

* Cryptography (AES-GCM, Argon2, PBKDF2, SHA-256, RSA): ideal functions.
* Widgets, layout, search and sorting, the password generator, the checks of the entry
  dialog: no order to get wrong.
* The Ed25519 signature of a log row: verification of it is commented out in the
  code; a row is signed or not.
* `startupVerification` and `verifyImportedEntry` of LogVerifier: nothing they
  return reaches the user. Export and import of the audit log write and check a
  file and change no state.
* EventBus: subscriptions are made once at start, nobody unsubscribes, and publishing
  is a call; the handlers are part of the actions that publish.
* The connection pool and the connection that `getAuditPage` keeps
  (`db_helper.cpp:913`): all callers run on one thread and hold one connection at a time,
  so `getConnection` never waits.
* Key rotation and the rows of `public_keys`: no caller in the program.

## 7. What is left

1. Composition of `Session` with `Clipboard`: a lock clears the clipboard
   whichever way it comes. `Clipboard` has the lock as an action that may come at any time.
