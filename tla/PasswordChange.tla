--------------------------- MODULE PasswordChange ---------------------------
(***************************************************************************)
(* The master password, the keys derived from it and the key every stored  *)
(* entry is encrypted under: first-run wizard, login, entry edits and the  *)
(* change-password dialog with its re-encryption transaction, for one or   *)
(* several processes of the program that share one database file.          *)
(*                                                                         *)
(* Everything an application does runs on its GUI thread, so the unit of   *)
(* interleaving is one database statement or transaction, one modal        *)
(* dialog, or the end of the process.  Memory changes that no other        *)
(* process can see are merged with the statement they precede.             *)
(*                                                                         *)
(* A random salt is the next value of a counter, and a derived value is    *)
(* the pair it is derived from: <<pw, s>> stands for the Argon2 hash of pw *)
(* under salt s and for the PBKDF2 key of pw under salt s.  An entry is    *)
(* the key that its blob was encrypted under; AES-GCM opens it with that   *)
(* key and throws with any other.                                          *)
(***************************************************************************)
EXTENDS Naturals, FiniteSets

CONSTANTS
  Apps,      \* processes of the program that use the same database file
  Passwords, \* master passwords that pass the strength check
  Ids,       \* rowids of vault_entries
  MaxSalt,   \* bound: number of salts drawn in a behaviour
  Faults,    \* which of "write", "read", "crash", "wizard" may happen
  NoKey,     \* an empty KeyManager slot, a row that does not exist
  NoApp      \* nobody holds the write lock

Keys == Passwords \X (1 .. MaxSalt)
NoSalt == 0
NoId == 0

ASSUME IdsAssumption == Ids \subseteq Nat \ {NoId}
ASSUME MaxSaltAssumption == MaxSalt \in Nat
ASSUME FaultsAssumption == Faults \subseteq {"write", "read", "crash", "wizard"}
ASSUME NullAssumption == NoKey \notin Keys \cup Passwords /\ NoApp \notin Apps

VARIABLES
  auth,     \* committed key_store rows: auth_hash, auth_salt, auth_params
            \*   (present or not; its costs never change), enc_salt
  vault,    \* committed vault_entries: rowid -> key of its blob
  tAuth,    \* both tables as the open write transaction sees them,
  tVault,   \*   meaningful while owner # NoApp
  owner,    \* the process whose connection holds SQLite's write lock
  scan,     \* the loop of reencryptAllEntries: rows left and its two counters
  firstRun, \* first_run of the configuration file
  salts,    \* salts drawn so far
  author,   \* history: the process whose last saving handler stored all its
            \*   rows of key_store so far, if no other has stored one since
  page,     \* what each process is doing
  keys,     \* KeyManager: encryption key and old encryption key
  ui        \* the rest of a process's memory

vars == <<auth, vault, tAuth, tVault, owner, scan, firstRun, salts, author,
          page, keys, ui>>
disk == <<auth, vault, author>>
txn == <<tAuth, tVault, owner, scan>>

(***************************************************************************)
(* Types                                                                   *)
(***************************************************************************)
KeyOrNone == Keys \cup {NoKey}
SaltOrNone == 0 .. MaxSalt
AuthRows == [hash : KeyOrNone, salt : SaltOrNone, params : BOOLEAN,
             encSalt : SaltOrNone]
NoAuth == [hash |-> NoKey, salt |-> NoSalt, params |-> FALSE,
           encSalt |-> NoSalt]
NoEntries == [i \in Ids |-> NoKey]

\* Pages on which the handler runs to its end without the event loop.
Saving == {"hash", "salt", "params", "encSalt"}
Running == Saving \cup {"begin", "scan"}
\* Pages of a modal dialog: the auto-lock timer fires behind them.
Modal == {"wizard", "edit", "verify", "change", "cancelled", "success"}
Pages == {"down", "askLogin", "main"} \cup Running \cup Modal

NoScan == [todo |-> {}, total |-> 0, ok |-> 0]
NoKeys == [enc |-> NoKey, old |-> NoKey]
BlankUi == [loggedIn |-> FALSE,  \* StateManager.m_isLoggedIn
            boot |-> FALSE,      \* still in MainWindow's constructor
            login |-> NoAuth,    \* rows an open LoginDialog verifies against
            auth |-> NoAuth,     \* rows loaded by ChangePasswordDialog
            cur |-> NoKey,       \* verified current password, as its hash
            next |-> NoKey,      \* new password with its new salt
            edit |-> NoId]       \* row open in EntryDialog

KeySlots == [enc : KeyOrNone, old : KeyOrNone]
Memory == [loggedIn : BOOLEAN, boot : BOOLEAN, login : AuthRows,
           auth : AuthRows, cur : KeyOrNone, next : KeyOrNone,
           edit : Ids \cup {NoId}]

TypeOK ==
  /\ auth \in AuthRows
  /\ vault \in [Ids -> KeyOrNone]
  /\ tAuth \in AuthRows
  /\ tVault \in [Ids -> KeyOrNone]
  /\ owner \in Apps \cup {NoApp}
  /\ scan \in [todo : SUBSET Ids, total : Nat, ok : Nat]
  /\ firstRun \in BOOLEAN
  /\ salts \in 0 .. MaxSalt
  /\ author \in Apps \cup {NoApp}
  /\ page \in [Apps -> Pages]
  /\ keys \in [Apps -> KeySlots]
  /\ ui \in [Apps -> Memory]

(***************************************************************************)
(* Reading and writing the database                                        *)
(***************************************************************************)
\* The rows a process reads: its own uncommitted ones if its connection was
\* returned to the pool with an open transaction.
AuthSeenBy(a) == IF owner = a THEN tAuth ELSE auth
VaultSeenBy(a) == IF owner = a THEN tVault ELSE vault

\* getAuthData succeeds when hash and salt are there.
Loadable(rows) == rows.hash # NoKey /\ rows.salt # NoSalt
\* verify_password: hash the typed password with the stored salt and costs.
\* Without auth_params the costs are uninitialised memory, which is taken
\* never to hold the right ones.
Accepts(rows, pw) == rows.params /\ rows.hash = <<pw, rows.salt>>
DerivedKey(rows, pw) == <<pw, rows.encSalt>>

\* One autocommit statement on key_store: it commits at once, or joins the
\* transaction its connection was left with.  The hash is the first row a
\* handler stores.
WriteAuth(a, rows) ==
  /\ \/ /\ owner = NoApp
        /\ auth' = rows
        /\ UNCHANGED tAuth
     \/ /\ owner = a
        /\ tAuth' = rows
        /\ UNCHANGED auth
  /\ author' = IF page[a] = "hash" \/ author = a THEN a ELSE NoApp

\* The statement returns SQLITE_BUSY at once (no busy timeout is set) or an
\* I/O error, and stores nothing.
WriteRefused(a) ==
  /\ owner \notin {NoApp, a} \/ "write" \in Faults
  /\ author' = IF author = a THEN NoApp ELSE author
  /\ UNCHANGED <<auth, tAuth>>

\* The transaction is over, its image is no longer meant.
EndTxn ==
  /\ owner' = NoApp
  /\ tAuth' = NoAuth
  /\ tVault' = NoEntries
  /\ scan' = NoScan

Goto(a, p) == page' = [page EXCEPT ![a] = p]

StoreKeys(a, slots) == keys' = [keys EXCEPT ![a] = slots]
Remember(a, memory) == ui' = [ui EXCEPT ![a] = memory]

\* No LoginDialog is open on top of the page.
NoLogin(a) == ui[a].login = NoAuth
At(a, p) == page[a] = p /\ NoLogin(a)

(***************************************************************************)
(* Start, end of the process                                               *)
(***************************************************************************)
Init ==
  /\ auth = NoAuth
  /\ vault = NoEntries
  /\ tAuth = NoAuth
  /\ tVault = NoEntries
  /\ owner = NoApp
  /\ scan = NoScan
  /\ firstRun = TRUE
  /\ salts = 0
  /\ author = NoApp
  /\ page = [a \in Apps |-> "down"]
  /\ keys = [a \in Apps |-> NoKeys]
  /\ ui = [a \in Apps |-> BlankUi]

Start(a) ==
  /\ page[a] = "down"
  /\ Goto(a, IF firstRun THEN "wizard" ELSE "askLogin")
  /\ Remember(a, [ui[a] EXCEPT !.boot = TRUE])
  /\ UNCHANGED <<disk, txn, firstRun, salts, keys>>

\* The process ends: its memory is gone, an open transaction is rolled back.
Dies(a) ==
  /\ Goto(a, "down")
  /\ StoreKeys(a, NoKeys)
  /\ Remember(a, BlankUi)
  /\ IF owner = a THEN EndTxn ELSE UNCHANGED txn
  /\ UNCHANGED <<disk, firstRun, salts>>

\* The user closes the main window.
Exit(a) == At(a, "main") /\ Dies(a)

Crash(a) == "crash" \in Faults /\ page[a] # "down" /\ Dies(a)

(***************************************************************************)
(* Login                                                                   *)
(***************************************************************************)
\* showLoginDialog loads the authentication rows before it opens the dialog.
\* It follows start-up, the wizard and a password change; it comes from the
\* main window; and the auto-lock timer brings it up over any dialog of a
\* session.
OpenLogin(a) ==
  /\ NoLogin(a)
  /\ \/ page[a] \in {"askLogin", "main"}
     \/ page[a] \in Modal /\ ui[a].loggedIn
  /\ Loadable(AuthSeenBy(a))
  /\ Remember(a, [ui[a] EXCEPT !.login = AuthSeenBy(a)])
  /\ Goto(a, IF page[a] = "askLogin" THEN "main" ELSE page[a])
  /\ UNCHANGED <<disk, txn, firstRun, salts, keys>>

\* showLoginDialog returns false: MainWindow closes if it is being built.
LoginFails(a) ==
  IF ui[a].boot
    THEN Dies(a)
    ELSE /\ Remember(a, [ui[a] EXCEPT !.login = NoAuth])
         /\ Goto(a, IF page[a] = "askLogin" THEN "main" ELSE page[a])
         /\ UNCHANGED <<disk, txn, firstRun, salts, keys>>

AuthMissing(a) ==
  /\ page[a] = "askLogin"
  /\ ~Loadable(AuthSeenBy(a)) \/ "read" \in Faults
  /\ LoginFails(a)

CancelLogin(a) == ~NoLogin(a) /\ LoginFails(a)

\* Mutant of Login: no check that the encryption salt was read.
LoginWithoutSalt(a, pw) ==
  /\ ~NoLogin(a)
  /\ Accepts(ui[a].login, pw)
  /\ StoreKeys(a, [keys[a] EXCEPT !.enc = DerivedKey(AuthSeenBy(a), pw)])
  /\ Remember(a, [ui[a] EXCEPT !.login = NoAuth, !.loggedIn = TRUE,
                                    !.boot = FALSE])
  /\ UNCHANGED <<disk, txn, firstRun, salts, page>>

\* The password is checked against the rows loaded when the dialog opened,
\* the key is derived with the salt stored now.
Login(a, pw) ==
  /\ ~NoLogin(a)
  /\ Accepts(ui[a].login, pw)
  /\ IF AuthSeenBy(a).encSalt = NoSalt
       THEN LoginFails(a)
       ELSE /\ StoreKeys(a, [keys[a] EXCEPT !.enc = DerivedKey(AuthSeenBy(a), pw)])
            /\ Remember(a, [ui[a] EXCEPT !.login = NoAuth, !.loggedIn = TRUE,
                                              !.boot = FALSE])
            /\ UNCHANGED <<disk, txn, firstRun, salts, page>>

(***************************************************************************)
(* Entries                                                                 *)
(***************************************************************************)
\* createEntry: the row is committed, or COMMIT fails and the connection
\* goes back to the pool with the transaction open.
AddEntry(a, i) ==
  /\ At(a, "main")
  /\ ui[a].loggedIn
  /\ keys[a].enc # NoKey
  /\ owner = NoApp
  /\ vault[i] = NoKey
  /\ \/ /\ vault' = [vault EXCEPT ![i] = keys[a].enc]
        /\ UNCHANGED txn
     \/ /\ "write" \in Faults
        /\ tVault' = [vault EXCEPT ![i] = keys[a].enc]
        /\ tAuth' = auth
        /\ owner' = a
        /\ UNCHANGED <<vault, scan>>
  /\ UNCHANGED <<auth, author, firstRun, salts, page, keys, ui>>

\* onEditEntry decrypts the row, then shows the dialog.
OpenEdit(a, i) ==
  /\ At(a, "main")
  /\ ui[a].loggedIn
  /\ keys[a].enc # NoKey
  /\ VaultSeenBy(a)[i] = keys[a].enc
  /\ owner # a
  /\ Remember(a, [ui[a] EXCEPT !.edit = i])
  /\ Goto(a, "edit")
  /\ UNCHANGED <<disk, txn, firstRun, salts, keys>>

\* updateEntry encrypts what the dialog holds under the key of this moment;
\* it changes nothing if the row is gone or the database is locked.
CloseEdit(a) ==
  /\ At(a, "edit")
  /\ Goto(a, "main")
  /\ Remember(a, [ui[a] EXCEPT !.edit = NoId])
  /\ \/ /\ owner = NoApp
        /\ keys[a].enc # NoKey
        /\ vault[ui[a].edit] # NoKey
        /\ vault' = [vault EXCEPT ![ui[a].edit] = keys[a].enc]
     \/ UNCHANGED vault
  /\ UNCHANGED <<auth, author, txn, firstRun, salts, keys>>

DeleteEntry(a, i) ==
  /\ At(a, "main")
  /\ ui[a].loggedIn
  /\ owner = NoApp
  /\ vault[i] # NoKey
  /\ vault' = [vault EXCEPT ![i] = NoKey]
  /\ UNCHANGED <<auth, author, txn, firstRun, salts, page, keys, ui>>

(***************************************************************************)
(* First-run wizard                                                        *)
(***************************************************************************)
\* The Help menu opens the same wizard at any later time.
OpenWizard(a) ==
  /\ "wizard" \in Faults
  /\ At(a, "main")
  /\ Goto(a, "wizard")
  /\ UNCHANGED <<disk, txn, firstRun, salts, keys, ui>>

\* FirstRunWizard::accept installs the new key; first_run is cleared before
\* anything is saved.
AcceptWizard(a, pw) ==
  /\ At(a, "wizard")
  /\ salts < MaxSalt
  /\ salts' = salts + 1
  /\ Remember(a, [ui[a] EXCEPT !.next = <<pw, salts + 1>>])
  /\ StoreKeys(a, [keys[a] EXCEPT !.enc = <<pw, salts + 1>>])
  /\ firstRun' = FALSE
  /\ Goto(a, "hash")
  /\ UNCHANGED <<disk, txn>>

CancelWizard(a) ==
  /\ At(a, "wizard")
  /\ IF ui[a].boot
       THEN Dies(a)
       ELSE /\ Goto(a, "main")
            /\ UNCHANGED <<disk, txn, firstRun, salts, keys, ui>>

(***************************************************************************)
(* Saving authentication data and the encryption salt                      *)
(***************************************************************************)
\* saveAuthData: one statement per row, the first failure skips the rest;
\* both callers ignore its result.
SaveHash(a) ==
  /\ page[a] = "hash"
  /\ \/ /\ WriteAuth(a, [AuthSeenBy(a) EXCEPT !.hash = ui[a].next])
        /\ Goto(a, "salt")
     \/ /\ WriteRefused(a)
        /\ Goto(a, "encSalt")
  /\ UNCHANGED <<vault, tVault, owner, scan, firstRun, salts, keys, ui>>

SaveSalt(a) ==
  /\ page[a] = "salt"
  /\ \/ /\ WriteAuth(a, [AuthSeenBy(a) EXCEPT !.salt = ui[a].next[2]])
        /\ Goto(a, "params")
     \/ /\ WriteRefused(a)
        /\ Goto(a, "encSalt")
  /\ UNCHANGED <<vault, tVault, owner, scan, firstRun, salts, keys, ui>>

SaveParams(a) ==
  /\ page[a] = "params"
  /\ \/ WriteAuth(a, [AuthSeenBy(a) EXCEPT !.params = TRUE])
     \/ WriteRefused(a)
  /\ Goto(a, "encSalt")
  /\ UNCHANGED <<vault, tVault, owner, scan, firstRun, salts, keys, ui>>

\* Mutant of SaveEncSalt: INSERT OR IGNORE, which keeps a stored salt.
SaltStoredOnce(a) ==
  /\ page[a] = "encSalt"
  /\ IF AuthSeenBy(a).encSalt = NoSalt
       THEN WriteAuth(a, [AuthSeenBy(a) EXCEPT !.encSalt = ui[a].next[2]])
       ELSE UNCHANGED <<auth, tAuth, author>>
  /\ StoreKeys(a, [keys[a] EXCEPT !.enc = ui[a].next])
  /\ IF ui[a].auth = NoAuth
       THEN /\ Goto(a, "askLogin")
            /\ Remember(a, [ui[a] EXCEPT !.next = NoKey])
       ELSE /\ Goto(a, "begin")
            /\ UNCHANGED ui
  /\ UNCHANGED <<vault, tVault, owner, scan, firstRun, salts>>

\* saveEncSalt, its result ignored too; the key derived with the new salt is
\* stored whatever happened.  The change dialog goes on to re-encryption, the
\* wizard (which loaded no rows) to the login dialog.
SaveEncSalt(a) ==
  /\ page[a] = "encSalt"
  /\ \/ WriteAuth(a, [AuthSeenBy(a) EXCEPT !.encSalt = ui[a].next[2]])
     \/ WriteRefused(a)
  /\ StoreKeys(a, [keys[a] EXCEPT !.enc = ui[a].next])
  /\ IF ui[a].auth = NoAuth
       THEN /\ Goto(a, "askLogin")
            /\ Remember(a, [ui[a] EXCEPT !.next = NoKey])
       ELSE /\ Goto(a, "begin")
            /\ UNCHANGED ui
  /\ UNCHANGED <<vault, tVault, owner, scan, firstRun, salts>>

(***************************************************************************)
(* Change-password dialog                                                  *)
(***************************************************************************)
OpenChange(a) ==
  /\ At(a, "main")
  /\ ui[a].loggedIn
  /\ Loadable(AuthSeenBy(a)) /\ AuthSeenBy(a).encSalt # NoSalt
  /\ Remember(a, [ui[a] EXCEPT !.auth = AuthSeenBy(a)])
  /\ Goto(a, "verify")
  /\ UNCHANGED <<disk, txn, firstRun, salts, keys>>

VerifyCurrent(a, pw) ==
  /\ At(a, "verify")
  /\ Accepts(ui[a].auth, pw)
  /\ Remember(a, [ui[a] EXCEPT !.cur = ui[a].auth.hash])
  /\ Goto(a, "change")
  /\ UNCHANGED <<disk, txn, firstRun, salts, keys>>

\* Mutant of PressChange: the current key is not kept as the old one.
PressChangeForgets(a, pw) ==
  /\ At(a, "change") \/ At(a, "cancelled")
  /\ salts < MaxSalt
  /\ salts' = salts + 1
  /\ Remember(a, [ui[a] EXCEPT !.next = <<pw, salts + 1>>])
  /\ StoreKeys(a, [keys[a] EXCEPT !.enc = NoKey])
  /\ Goto(a, "hash")
  /\ UNCHANGED <<disk, txn, firstRun>>

\* onChange, up to its first statement: moveCurrentToOld and the new hash.
\* After a failure the dialog is still open and the button still works.
PressChange(a, pw) ==
  /\ At(a, "change") \/ At(a, "cancelled")
  /\ salts < MaxSalt
  /\ salts' = salts + 1
  /\ Remember(a, [ui[a] EXCEPT !.next = <<pw, salts + 1>>])
  /\ StoreKeys(a, [enc |-> NoKey, old |-> IF keys[a].enc # NoKey
                                         THEN keys[a].enc ELSE keys[a].old])
  /\ Goto(a, "hash")
  /\ UNCHANGED <<disk, txn, firstRun>>

CancelChange(a) ==
  /\ \E p \in {"verify", "change", "cancelled"} : At(a, p)
  /\ Remember(a, [ui[a] EXCEPT !.auth = NoAuth, !.cur = NoKey,
                                    !.next = NoKey])
  /\ Goto(a, "main")
  /\ UNCHANGED <<disk, txn, firstRun, salts, keys>>

\* Mutant of BeginReencrypt: a deferred BEGIN, which takes no lock.
BeginWithoutLock(a) ==
  /\ page[a] = "begin"
  /\ tAuth' = auth
  /\ tVault' = vault
  /\ scan' = [NoScan EXCEPT !.todo = {i \in Ids : vault[i] # NoKey}]
  /\ Goto(a, "scan")
  /\ UNCHANGED <<disk, owner, firstRun, salts, keys, ui>>

\* reencryptAllEntries, BEGIN IMMEDIATE and the SELECT.
BeginReencrypt(a) ==
  /\ page[a] = "begin"
  /\ \/ /\ keys[a].old # NoKey
        /\ owner = NoApp
        /\ owner' = a
        /\ tAuth' = auth
        /\ tVault' = vault
        /\ scan' = [NoScan EXCEPT !.todo = {i \in Ids : vault[i] # NoKey}]
        /\ Goto(a, "scan")
     \/ /\ keys[a].old = NoKey \/ owner # NoApp \/ "write" \in Faults
        /\ Goto(a, "cancelled")
        /\ UNCHANGED txn
  /\ UNCHANGED <<disk, firstRun, salts, keys, ui>>

RowDone(i, updated) ==
  [todo |-> scan.todo \ {i}, total |-> scan.total + 1, ok |-> scan.ok + updated]

\* Mutant of ReencryptRow: a row counts whatever its UPDATE returned.
RowAlwaysCounts(a, i) ==
  /\ page[a] = "scan"
  /\ i \in scan.todo
  /\ \A j \in scan.todo : i <= j
  /\ \/ tVault' = [tVault EXCEPT ![i] = keys[a].enc]
     \/ "write" \in Faults /\ UNCHANGED tVault
  /\ scan' = RowDone(i, 1)
  /\ UNCHANGED <<disk, tAuth, owner, firstRun, salts, page, keys, ui>>

\* One row: decrypt with the old key, encrypt with the new one, UPDATE.  A
\* failed UPDATE is only not counted; a decryption error rolls back.
ReencryptRow(a, i) ==
  /\ page[a] = "scan"
  /\ i \in scan.todo
  /\ \A j \in scan.todo : i <= j
  /\ IF tVault[i] = keys[a].old
       THEN \/ /\ tVault' = [tVault EXCEPT ![i] = keys[a].enc]
               /\ scan' = RowDone(i, 1)
               /\ UNCHANGED <<tAuth, owner, page>>
            \/ /\ "write" \in Faults
               /\ scan' = RowDone(i, 0)
               /\ UNCHANGED <<tAuth, tVault, owner, page>>
       ELSE /\ EndTxn
            /\ Goto(a, "cancelled")
  /\ UNCHANGED <<disk, firstRun, salts, keys, ui>>

\* The loop ends when sqlite3_step returns anything but a row, an error
\* included.
ScanEnds(a) ==
  /\ page[a] = "scan"
  /\ scan.todo = {} \/ "read" \in Faults

\* COMMIT, the result of reencryptAllEntries and what onChange does with it.
CommitReencrypt(a) ==
  /\ ScanEnds(a)
  /\ auth' = tAuth
  /\ vault' = tVault
  /\ EndTxn
  /\ IF scan.ok = scan.total /\ scan.total > 0
       THEN /\ StoreKeys(a, [keys[a] EXCEPT !.old = NoKey])
            /\ Goto(a, "success")
       ELSE /\ Goto(a, "cancelled")
            /\ UNCHANGED keys
  /\ UNCHANGED <<author, firstRun, salts, ui>>

\* COMMIT fails; nobody rolls back, so the transaction stays open on the
\* connection unless SQLite itself gave it up.
CommitFails(a) ==
  /\ "write" \in Faults
  /\ ScanEnds(a)
  /\ \/ EndTxn
     \/ scan' = NoScan /\ UNCHANGED <<tAuth, tVault, owner>>
  /\ Goto(a, "cancelled")
  /\ UNCHANGED <<disk, firstRun, salts, keys, ui>>

\* The success message is closed: logout, then MainWindow clears every key
\* and asks for the new password.
AcceptChange(a) ==
  /\ At(a, "success")
  /\ StoreKeys(a, NoKeys)
  /\ Remember(a, BlankUi)
  /\ Goto(a, "askLogin")
  /\ UNCHANGED <<disk, txn, firstRun, salts>>

(***************************************************************************)
(* Specification                                                           *)
(***************************************************************************)
Process(a) ==
  Start(a) \/ Exit(a) \/ Crash(a)

Session(a) ==
  \/ OpenLogin(a) \/ AuthMissing(a) \/ CancelLogin(a)
  \/ \E pw \in Passwords : Login(a, pw)

Entry(a) ==
  \/ \E i \in Ids : AddEntry(a, i) \/ OpenEdit(a, i) \/ DeleteEntry(a, i)
  \/ CloseEdit(a)

Wizard(a) ==
  \/ OpenWizard(a) \/ CancelWizard(a)
  \/ \E pw \in Passwords : AcceptWizard(a, pw)

Save(a) == SaveHash(a) \/ SaveSalt(a) \/ SaveParams(a) \/ SaveEncSalt(a)

ChangeDialog(a) ==
  \/ OpenChange(a) \/ CancelChange(a) \/ AcceptChange(a)
  \/ \E pw \in Passwords : VerifyCurrent(a, pw) \/ PressChange(a, pw)

Reencrypt(a) ==
  \/ BeginReencrypt(a) \/ CommitReencrypt(a) \/ CommitFails(a)
  \/ \E i \in Ids : ReencryptRow(a, i)

Step(a) ==
  \/ Process(a) \/ Session(a) \/ Entry(a) \/ Wizard(a)
  \/ Save(a) \/ ChangeDialog(a) \/ Reencrypt(a)

Next == \E a \in Apps : Step(a)

Spec == Init /\ [][Next]_vars

(***************************************************************************)
(* Properties                                                              *)
(***************************************************************************)
\* No handler is in the middle of saving or re-encrypting.
Settled == \A a \in Apps : page[a] \notin Running

\* Every entry in the table is encrypted under k.
AllUnder(table, k) == \A i \in Ids : table[i] \in {NoKey, k}

\* While a re-encryption runs, its process holds the write lock, so that no
\* other process has touched the tables it works on, and its two counters
\* agree only if every row it has passed is now under the new key.
ScanOwnsDatabase ==
  \A a \in Apps :
    page[a] = "scan" =>
      /\ owner = a
      /\ scan.ok <= scan.total
      /\ \A i \in Ids \ scan.todo :
           scan.ok = scan.total => tVault[i] \in {NoKey, keys[a].enc}

\* "Password changed, N entries re-encrypted, log in with the new password":
\* when the dialog says so, every committed entry is under the new key, and
\* login accepts the new password and derives that key from the committed
\* rows, if none of the handler's statements on key_store was refused (it
\* ignores their results) and no other process has stored one since.
SuccessIsTruthful ==
  [][\A a \in Apps :
       page[a] # "success" /\ page'[a] = "success"
         => /\ AllUnder(vault', keys'[a].enc)
            /\ author = a =>
                 /\ Accepts(auth', ui'[a].next[1])
                 /\ DerivedKey(auth', ui'[a].next[1]) = keys'[a].enc]_vars

\* Whenever no handler is running, the password that the login dialog accepts
\* derives, with the stored salt, the key of every stored entry, and the key
\* a session holds in memory is that key.
AcceptedPasswordOpensVault ==
  Settled =>
    /\ \A pw \in Passwords :
         Accepts(auth, pw) => AllUnder(vault, DerivedKey(auth, pw))
    /\ \A a \in Apps : ui[a].loggedIn => AllUnder(vault, keys[a].enc)

\* "Password change cancelled" (the message after a failed re-encryption): the
\* password the user verified in this dialog is still the one login accepts.
CancelledChangeKeepsPassword ==
  \A a \in Apps :
    page[a] = "cancelled" => Accepts(AuthSeenBy(a), ui[a].cur[1])

(***************************************************************************)
(* Refinement: to its user the program is a vault with one password and a  *)
(* set of entries it opens.  A change takes effect when its re-encryption  *)
(* transaction is over; until then the old password and key count.         *)
(***************************************************************************)
NoPassword == NoKey
CurrentKey ==
  IF \E a \in Apps : page[a] \in Running /\ ui[a].auth # NoAuth
    THEN LET a == CHOOSE b \in Apps : page[b] \in Running
         IN IF keys[a].old # NoKey THEN keys[a].old ELSE keys[a].enc
    ELSE IF Settled /\ \E pw \in Passwords : Accepts(auth, pw)
      THEN DerivedKey(auth, auth.hash[1])
      ELSE NoKey

Abstract == INSTANCE AtomicVault WITH
  password <- IF CurrentKey = NoKey THEN NoPassword ELSE CurrentKey[1],
  readable <- {i \in Ids : vault[i] # NoKey /\ vault[i] = CurrentKey}

ImplementsAtomicVault == Abstract!Spec
=============================================================================
