------------------------- MODULE AtomicVaultProofs -------------------------
(***************************************************************************)
(* One process and no faults: the password that login accepts opens every  *)
(* entry, and the program is the vault of AtomicVault.  For any entries,   *)
(* passwords and number of salts.                                          *)
(*                                                                         *)
(* The inductive invariant says for every page what the tables, the keys   *)
(* in memory and the rows a dialog has loaded have to do with each other.  *)
(***************************************************************************)
EXTENDS PasswordChangeProofs

\* What the theorems of this module assume.  With a second process, or with
\* any of the faults, TLC shows that they fail.
Alone(a) == Apps = {a} /\ Faults = {}

\* The rows of key_store when the password and salt of k are stored.
RowsOf(k) == [hash |-> k, salt |-> k[2], params |-> TRUE, encSalt |-> k[2]]

\* The rows when a handler that replaces rows by those of k has come to page p.
SavedUpTo(p, rows, k) ==
  [hash    |-> IF p = "hash" THEN rows.hash ELSE k,
   salt    |-> IF p \in {"hash", "salt"} THEN rows.salt ELSE k[2],
   params  |-> IF p \in {"hash", "salt", "params"} THEN rows.params ELSE TRUE,
   encSalt |-> IF p \in Saving THEN rows.encSalt ELSE k[2]]

\* Pages of the change dialog.
InChange == {"verify", "change", "cancelled", "success"}

\* No handler is running: one password and one key, if there are any.
Resting(a) ==
  /\ owner = NoApp
  /\ firstRun <=> auth = NoAuth
  /\ auth = NoAuth \/ (auth.hash \in Keys /\ auth = RowsOf(auth.hash))
  /\ AllUnder(vault, auth.hash)
  /\ ui[a].login \in {NoAuth, auth}
  /\ ui[a].loggedIn => auth # NoAuth /\ keys[a].enc = auth.hash
  /\ page[a] \in {"down", "wizard"} => ~ui[a].loggedIn
  /\ page[a] = "wizard" => firstRun
  /\ page[a] = "down" => NoLogin(a)
  /\ page[a] \in InChange \cup {"edit"} => ui[a].loggedIn
  /\ page[a] \in InChange <=> ui[a].auth # NoAuth

\* The wizard is saving the first password.
SettingUp(a) ==
  /\ page[a] \in Saving
  /\ owner = NoApp
  /\ vault = NoEntries
  /\ ~ui[a].loggedIn
  /\ auth = SavedUpTo(page[a], NoAuth, ui[a].next)

\* A row in the middle of a re-encryption.
RowNow(a, i) ==
  IF vault[i] = NoKey THEN NoKey
  ELSE IF i \in scan.todo THEN keys[a].old ELSE keys[a].enc

\* The password is being changed: committed entries are under the old key.
Changing(a) ==
  /\ ui[a].loggedIn
  /\ keys[a].old \in Keys
  /\ AllUnder(vault, keys[a].old)
  /\ auth = SavedUpTo(page[a], RowsOf(keys[a].old), ui[a].next)
  /\ page[a] # "scan" => owner = NoApp
  /\ page[a] \in {"begin", "scan"} => keys[a].enc = ui[a].next
  /\ page[a] = "scan" =>
       /\ owner = a
       /\ tAuth = auth
       /\ scan.ok = scan.total
       /\ \A i \in Ids : tVault[i] = RowNow(a, i)
       /\ \A i \in scan.todo : vault[i] # NoKey

Handling(a) ==
  /\ ~firstRun
  /\ ui[a].next \in Keys
  /\ NoLogin(a)
  /\ IF ui[a].auth = NoAuth THEN SettingUp(a) ELSE Changing(a)

Orderly(a) == IF page[a] \in Running THEN Handling(a) ELSE Resting(a)

(***************************************************************************)
(* Rows and keys                                                           *)
(***************************************************************************)
LEMMA KeyParts ==
  ASSUME NEW k \in Keys
  PROVE  /\ k # NoKey
         /\ k[1] \in Passwords
         /\ k[2] \in 1 .. MaxSalt
         /\ k[2] # NoSalt
         /\ k = <<k[1], k[2]>>
BY NullAssumption, MaxSaltAssumption DEF Keys, NoSalt

LEMMA RowsOfKey ==
  ASSUME NEW k \in Keys
  PROVE  /\ RowsOf(k) # NoAuth
         /\ RowsOf(k).hash = k
         /\ Loadable(RowsOf(k))
         /\ RowsOf(k).encSalt # NoSalt
         /\ Accepts(RowsOf(k), k[1])
         /\ \A pw : Accepts(RowsOf(k), pw) => DerivedKey(RowsOf(k), pw) = k
BY KeyParts DEF RowsOf, NoAuth, Loadable, Accepts, DerivedKey

LEMMA NoRows ==
  /\ ~Loadable(NoAuth)
  /\ \A pw : ~Accepts(NoAuth, pw)
  /\ NoAuth.hash = NoKey
BY DEF NoAuth, Loadable, Accepts

\* The pages a handler goes through.
LEMMA Saved ==
  ASSUME NEW rows \in AuthRows, NEW k \in Keys
  PROVE  /\ SavedUpTo("hash", rows, k) = rows
         /\ [SavedUpTo("hash", rows, k) EXCEPT !.hash = k] = SavedUpTo("salt", rows, k)
         /\ [SavedUpTo("salt", rows, k) EXCEPT !.salt = k[2]] = SavedUpTo("params", rows, k)
         /\ [SavedUpTo("params", rows, k) EXCEPT !.params = TRUE] = SavedUpTo("encSalt", rows, k)
         /\ [SavedUpTo("encSalt", rows, k) EXCEPT !.encSalt = k[2]] = RowsOf(k)
         /\ SavedUpTo("begin", rows, k) = RowsOf(k)
         /\ SavedUpTo("scan", rows, k) = RowsOf(k)
<1>1. SavedUpTo("hash", rows, k) = rows
  BY DEF SavedUpTo, AuthRows, Saving
<1>2. [SavedUpTo("hash", rows, k) EXCEPT !.hash = k] = SavedUpTo("salt", rows, k)
  BY DEF SavedUpTo, Saving
<1>3. [SavedUpTo("salt", rows, k) EXCEPT !.salt = k[2]] = SavedUpTo("params", rows, k)
  BY DEF SavedUpTo, Saving
<1>4. SavedUpTo("params", rows, k)
        = [hash |-> k, salt |-> k[2], params |-> rows.params, encSalt |-> rows.encSalt]
  BY DEF SavedUpTo, Saving
<1>5. SavedUpTo("encSalt", rows, k)
        = [hash |-> k, salt |-> k[2], params |-> TRUE, encSalt |-> rows.encSalt]
  BY DEF SavedUpTo, Saving
<1>6. [SavedUpTo("params", rows, k) EXCEPT !.params = TRUE] = SavedUpTo("encSalt", rows, k)
  BY <1>4, <1>5
<1>7. [SavedUpTo("encSalt", rows, k) EXCEPT !.encSalt = k[2]] = RowsOf(k)
  <2>1. ASSUME NEW p, p = TRUE
        PROVE  [[hash |-> k, salt |-> k[2], params |-> p, encSalt |-> rows.encSalt] EXCEPT !.encSalt = k[2]]
                 = [hash |-> k, salt |-> k[2], params |-> p, encSalt |-> k[2]]
    OBVIOUS
  <2>2. [[hash |-> k, salt |-> k[2], params |-> TRUE, encSalt |-> rows.encSalt] EXCEPT !.encSalt = k[2]]
          = [hash |-> k, salt |-> k[2], params |-> TRUE, encSalt |-> k[2]]
    BY <2>1, Zenon
  <2> QED BY <1>5, <2>2, Zenon DEF RowsOf
<1>8. SavedUpTo("begin", rows, k) = RowsOf(k) /\ SavedUpTo("scan", rows, k) = RowsOf(k)
  BY DEF SavedUpTo, RowsOf, Saving
<1> QED BY <1>1, <1>2, <1>3, <1>6, <1>7, <1>8

LEMMA RowsOfType ==
  ASSUME NEW k \in Keys
  PROVE  RowsOf(k) \in AuthRows
BY KeyParts, MaxSaltAssumption DEF RowsOf, AuthRows, KeyOrNone, SaltOrNone

\* At rest the process reads the committed tables.
LEMMA RestReads ==
  ASSUME NEW a \in Apps, owner = NoApp
  PROVE  AuthSeenBy(a) = auth /\ VaultSeenBy(a) = vault
BY NullAssumption DEF AuthSeenBy, VaultSeenBy

(***************************************************************************)
(* Every group of actions keeps the order.                                 *)
(***************************************************************************)
LEMMA OrderlyDies ==
  ASSUME TypeOK, NEW a \in Apps, page[a] \notin Running, Resting(a), Dies(a)
  PROVE  Orderly(a)'
<1>1. page'[a] = "down" /\ ui'[a] = BlankUi /\ UNCHANGED <<auth, vault, firstRun>>
  BY DEF TypeOK, Dies, Goto, Remember, disk
<1>2. owner' = NoApp
  BY NullAssumption DEF Resting, Dies, txn
<1>3. Resting(a)'
  BY <1>1, <1>2 DEF Resting, BlankUi, InChange, NoLogin
<1> QED BY <1>1, <1>3, PageNames DEF Orderly

LEMMA OrderlyProcess ==
  ASSUME TypeOK, NEW a \in Apps, Alone(a), Orderly(a), Process(a)
  PROVE  Orderly(a)'
<1>1. CASE Start(a)
  <2>1. page[a] \notin Running /\ Resting(a)
    BY <1>1, PageNames DEF Start, Orderly
  <2>2. /\ page'[a] = IF firstRun THEN "wizard" ELSE "askLogin"
        /\ ui'[a].login = ui[a].login /\ ui'[a].auth = ui[a].auth
        /\ ui'[a].loggedIn = ui[a].loggedIn
        /\ UNCHANGED <<auth, vault, owner, firstRun, keys>>
    BY <1>1 DEF Start, TypeOK, Goto, Remember, disk, txn, Memory
  <2>3. Resting(a)'
    BY <1>1, <2>1, <2>2 DEF Start, Resting, InChange, NoLogin
  <2> QED BY <2>2, <2>3, PageNames DEF Orderly
<1>2. CASE Exit(a)
  BY <1>2, OrderlyDies, PageNames DEF Exit, At, Orderly
<1>3. ~Crash(a)
  BY DEF Crash, Alone
<1> QED BY <1>1, <1>2, <1>3 DEF Process

LEMMA OrderlyLoginFails ==
  ASSUME TypeOK, NEW a \in Apps, page[a] \notin Running, Resting(a), LoginFails(a)
  PROVE  Orderly(a)'
<1>1. CASE ui[a].boot
  BY <1>1, OrderlyDies DEF LoginFails
<1>2. CASE ~ui[a].boot
  <2>1. /\ page'[a] = IF page[a] = "askLogin" THEN "main" ELSE page[a]
        /\ ui'[a].login = NoAuth /\ ui'[a].auth = ui[a].auth
        /\ ui'[a].loggedIn = ui[a].loggedIn
        /\ UNCHANGED <<auth, vault, owner, firstRun, keys>>
    BY <1>2 DEF LoginFails, TypeOK, Goto, Remember, disk, txn, Memory
  <2>2. Resting(a)'
    BY <2>1 DEF Resting, InChange, NoLogin
  <2> QED BY <2>1, <2>2, PageNames DEF Orderly
<1> QED BY <1>1, <1>2

\* A login never meets a handler, so it checks and derives with the same rows.
LEMMA OrderlySession ==
  ASSUME TypeOK, NEW a \in Apps, Alone(a), Orderly(a), Session(a)
  PROVE  Orderly(a)'
<1>1. page[a] \notin Running
  BY PageNames DEF Session, OpenLogin, AuthMissing, CancelLogin, Login, Orderly, Handling, Modal
<1>2. Resting(a) /\ owner = NoApp
  BY <1>1 DEF Orderly, Resting
<1>3. CASE OpenLogin(a)
  <2>1. /\ page'[a] = IF page[a] = "askLogin" THEN "main" ELSE page[a]
        /\ page[a] \notin {"down"} /\ (page[a] = "wizard" => ui[a].loggedIn)
        /\ ui'[a].login = auth /\ ui'[a].auth = ui[a].auth
        /\ ui'[a].loggedIn = ui[a].loggedIn
        /\ UNCHANGED <<auth, vault, owner, firstRun, keys>>
    BY <1>2, <1>3, RestReads, PageNames
    DEF OpenLogin, TypeOK, Goto, Remember, disk, txn, Memory, Modal
  <2>2. Resting(a)'
    BY <1>2, <2>1 DEF Resting, InChange, NoLogin
  <2> QED BY <1>1, <2>1, <2>2, PageNames DEF Orderly
<1>4. CASE AuthMissing(a) \/ CancelLogin(a)
  BY <1>1, <1>2, <1>4, OrderlyLoginFails DEF AuthMissing, CancelLogin
<1>5. ASSUME NEW pw \in Passwords, Login(a, pw)
      PROVE  Orderly(a)'
  <2>1. auth.hash \in Keys /\ auth = RowsOf(auth.hash) /\ ui[a].login = auth /\ auth # NoAuth
    BY <1>2, <1>5 DEF Login, NoLogin, Resting
  <2>2. auth.encSalt # NoSalt /\ DerivedKey(auth, pw) = auth.hash
    BY <1>5, <2>1, RowsOfKey DEF Login
  <2>3. /\ keys'[a].enc = auth.hash
        /\ ui'[a].login = NoAuth /\ ui'[a].auth = ui[a].auth
        /\ ui'[a].loggedIn
        /\ UNCHANGED <<auth, vault, owner, firstRun, page>>
    <3>1. AuthSeenBy(a) = auth
      BY <1>2, RestReads
    <3>2. /\ StoreKeys(a, [keys[a] EXCEPT !.enc = auth.hash])
          /\ Remember(a, [ui[a] EXCEPT !.login = NoAuth, !.loggedIn = TRUE, !.boot = FALSE])
          /\ UNCHANGED <<disk, txn, firstRun, salts, page>>
      BY <1>5, <2>2, <3>1 DEF Login
    <3> QED BY <3>2 DEF TypeOK, StoreKeys, Remember, disk, txn, Memory, KeySlots
  <2>4. page[a] \notin {"down", "wizard"}
    BY <1>2, <1>5, <2>1 DEF Resting, Login
  <2>5. Resting(a)'
    BY <1>2, <2>1, <2>3, <2>4 DEF Resting, NoLogin
  <2> QED BY <1>1, <2>3, <2>5 DEF Orderly
<1> QED BY <1>3, <1>4, <1>5 DEF Session

LEMMA OrderlyEntry ==
  ASSUME TypeOK, NEW a \in Apps, Alone(a), Orderly(a), Entry(a)
  PROVE  Orderly(a)'
<1>1. page[a] \in {"main", "edit"} /\ Resting(a)
  BY PageNames DEF Entry, AddEntry, OpenEdit, CloseEdit, DeleteEntry, At, Orderly
<1>2. ASSUME NEW i \in Ids, AddEntry(a, i)
      PROVE  Orderly(a)'
  <2>1. keys[a].enc = auth.hash /\ vault' = [vault EXCEPT ![i] = auth.hash]
    BY <1>1, <1>2 DEF AddEntry, Resting, Alone
  <2>2. AllUnder(vault', auth.hash)
    BY <1>1, <2>1 DEF Resting, AllUnder, TypeOK
  <2>3. UNCHANGED <<auth, owner, firstRun, page, keys, ui>>
    BY <1>2 DEF AddEntry, Alone, txn
  <2> QED BY <1>1, <2>2, <2>3, PageNames DEF Orderly, Resting, NoLogin
<1>3. ASSUME NEW i \in Ids, OpenEdit(a, i)
      PROVE  Orderly(a)'
  <2>1. /\ page'[a] = "edit" /\ ui[a].loggedIn
        /\ ui'[a].login = ui[a].login /\ ui'[a].auth = ui[a].auth
        /\ ui'[a].loggedIn = ui[a].loggedIn
        /\ page[a] = "main"
        /\ UNCHANGED <<auth, vault, owner, firstRun, keys>>
    BY <1>3 DEF OpenEdit, At, TypeOK, Goto, Remember, disk, txn, Memory
  <2> QED BY <1>1, <2>1, PageNames DEF Orderly, Resting, InChange, NoLogin
<1>4. ASSUME NEW i \in Ids, DeleteEntry(a, i)
      PROVE  Orderly(a)'
  <2>1. AllUnder(vault', auth.hash)
    BY <1>1, <1>4 DEF DeleteEntry, Resting, AllUnder, TypeOK
  <2>2. UNCHANGED <<auth, owner, firstRun, page, keys, ui>>
    BY <1>4 DEF DeleteEntry, txn
  <2> QED BY <1>1, <2>1, <2>2, PageNames DEF Orderly, Resting, NoLogin
<1>5. CASE CloseEdit(a)
  <2>1. /\ page'[a] = "main" /\ page[a] = "edit"
        /\ ui'[a].login = ui[a].login /\ ui'[a].auth = ui[a].auth
        /\ ui'[a].loggedIn = ui[a].loggedIn
        /\ UNCHANGED <<auth, owner, firstRun, keys>>
    BY <1>5 DEF CloseEdit, At, TypeOK, Goto, Remember, txn, Memory
  <2>2. keys[a].enc = auth.hash
    BY <1>1, <2>1 DEF Resting
  <2>3. AllUnder(vault', auth.hash)
    BY <1>1, <1>5, <2>2 DEF CloseEdit, Resting, AllUnder, TypeOK
  <2> QED BY <1>1, <2>1, <2>3, PageNames DEF Orderly, Resting, InChange, NoLogin
<1> QED BY <1>2, <1>3, <1>4, <1>5 DEF Entry

\* Only a wizard of the first run gets as far as saving.
LEMMA OrderlyWizard ==
  ASSUME TypeOK, NEW a \in Apps, Alone(a), Orderly(a), Wizard(a)
  PROVE  Orderly(a)'
<1>1. CASE OpenWizard(a)
  BY <1>1 DEF OpenWizard, Alone
<1>2. CASE CancelWizard(a)
  <2>1. page[a] = "wizard" /\ page[a] \notin Running /\ Resting(a)
    BY <1>2, PageNames DEF CancelWizard, At, Orderly
  <2>2. CASE ui[a].boot
    BY <1>2, <2>1, <2>2, OrderlyDies DEF CancelWizard
  <2>3. CASE ~ui[a].boot
    <3>1. page'[a] = "main" /\ UNCHANGED <<auth, vault, owner, firstRun, keys, ui>>
      BY <1>2, <2>3 DEF CancelWizard, TypeOK, Goto, disk, txn
    <3> QED BY <2>1, <3>1, PageNames DEF Orderly, Resting, InChange, NoLogin
  <2> QED BY <2>2, <2>3
<1>3. ASSUME NEW pw \in Passwords, AcceptWizard(a, pw)
      PROVE  Orderly(a)'
  <2> DEFINE k == <<pw, salts + 1>>
  <2>1. k \in Keys
    BY <1>3, TypeDraw DEF AcceptWizard
  <2>2. page[a] = "wizard" /\ NoLogin(a) /\ Resting(a)
    BY <1>3, PageNames DEF AcceptWizard, At, Orderly
  <2>3. auth = NoAuth /\ ui[a].auth = NoAuth /\ ~ui[a].loggedIn /\ owner = NoApp
    BY <2>2 DEF Resting, InChange
  <2>4. vault = NoEntries
    BY <2>2, <2>3, NoRows DEF Resting, AllUnder, NoEntries, TypeOK
  <2>5. /\ page'[a] = "hash" /\ ui'[a].next = k /\ ~firstRun'
        /\ ui'[a].auth = ui[a].auth /\ ui'[a].login = ui[a].login
        /\ ui'[a].loggedIn = ui[a].loggedIn
        /\ UNCHANGED <<auth, vault, owner>>
    BY <1>3 DEF AcceptWizard, TypeOK, Goto, Remember, Memory, disk, txn
  <2>6. auth' = SavedUpTo("hash", NoAuth, k)
    BY <2>1, <2>3, <2>5, NullTypes, Saved
  <2> HIDE DEF k
  <2>7. Handling(a)'
    BY <2>1, <2>2, <2>3, <2>4, <2>5, <2>6, PageNames
    DEF Handling, SettingUp, NoLogin, Saving
  <2> QED BY <2>5, <2>7, PageNames DEF Orderly
<1> QED BY <1>1, <1>2, <1>3 DEF Wizard

(***************************************************************************)
(* Saving: with the lock free and no faults every statement commits.       *)
(***************************************************************************)
LEMMA SaveCommits ==
  ASSUME NEW a \in Apps, Alone(a), owner = NoApp
  PROVE  /\ ~WriteRefused(a)
         /\ \A rows : WriteAuth(a, rows) => auth' = rows
BY NullAssumption DEF Alone, WriteRefused, WriteAuth

\* A handler goes from one page of the saving to the next.
LEMMA SavingGoesOn ==
  ASSUME TypeOK, NEW a \in Apps, Handling(a), page[a] \in Saving,
         NEW p \in Saving, page'[a] = p,
         \A rows \in AuthRows : auth = SavedUpTo(page[a], rows, ui[a].next)
                                 => auth' = SavedUpTo(p, rows, ui[a].next),
         UNCHANGED <<vault, owner, firstRun, keys, ui>>
  PROVE  Orderly(a)'
<1>1. CASE ui[a].auth = NoAuth
  BY <1>1, NullTypes DEF Handling, SettingUp, Orderly, Running, NoLogin
<1>2. CASE ui[a].auth # NoAuth
  <2>1. RowsOf(keys[a].old) \in AuthRows
    BY <1>2, RowsOfType DEF Handling, Changing
  <2> QED BY <1>2, <2>1 DEF Handling, Changing, Orderly, Running, Saving, NoLogin
<1> QED BY <1>1, <1>2

LEMMA OrderlySave ==
  ASSUME TypeOK, NEW a \in Apps, Alone(a), Orderly(a), Save(a)
  PROVE  Orderly(a)'
<1>1. page[a] \in Saving /\ Handling(a)
  BY PageNames DEF Save, SaveHash, SaveSalt, SaveParams, SaveEncSalt, Orderly, Saving
<1>2. owner = NoApp /\ AuthSeenBy(a) = auth /\ ui[a].next \in Keys
  BY <1>1, RestReads DEF Handling, SettingUp, Changing, Saving
<1>3. /\ ~WriteRefused(a)
      /\ \A rows : WriteAuth(a, rows) => auth' = rows
  BY <1>2, SaveCommits
<1>4. CASE SaveHash(a)
  <2>1. /\ page[a] = "hash" /\ page'[a] = "salt"
        /\ auth' = [auth EXCEPT !.hash = ui[a].next]
        /\ UNCHANGED <<vault, owner, firstRun, keys, ui>>
    BY <1>2, <1>3, <1>4 DEF SaveHash, TypeOK, Goto
  <2> QED BY <1>1, <1>2, <2>1, Saved, SavingGoesOn DEF Saving
<1>5. CASE SaveSalt(a)
  <2>1. /\ page[a] = "salt" /\ page'[a] = "params"
        /\ auth' = [auth EXCEPT !.salt = ui[a].next[2]]
        /\ UNCHANGED <<vault, owner, firstRun, keys, ui>>
    BY <1>2, <1>3, <1>5 DEF SaveSalt, TypeOK, Goto
  <2> QED BY <1>1, <1>2, <2>1, Saved, SavingGoesOn DEF Saving
<1>6. CASE SaveParams(a)
  <2>1. /\ page[a] = "params" /\ page'[a] = "encSalt"
        /\ auth' = [auth EXCEPT !.params = TRUE]
        /\ UNCHANGED <<vault, owner, firstRun, keys, ui>>
    BY <1>2, <1>3, <1>6 DEF SaveParams, TypeOK, Goto
  <2>2. ASSUME NEW rows \in AuthRows, auth = SavedUpTo("params", rows, ui[a].next)
        PROVE  auth' = SavedUpTo("encSalt", rows, ui[a].next)
    <3>1. [SavedUpTo("params", rows, ui[a].next) EXCEPT !.params = TRUE]
            = SavedUpTo("encSalt", rows, ui[a].next)
      BY <1>2, Saved
    <3> QED BY <2>1, <2>2, <3>1, Zenon
  <2> QED BY <1>1, <2>1, <2>2, SavingGoesOn DEF Saving
<1>7. CASE SaveEncSalt(a)
  <2> DEFINE k == ui[a].next
  <2>1. /\ page[a] = "encSalt"
        /\ auth' = [auth EXCEPT !.encSalt = k[2]]
        /\ keys'[a].enc = k /\ keys'[a].old = keys[a].old
        /\ UNCHANGED <<vault, owner, firstRun>>
    BY <1>2, <1>3, <1>7 DEF SaveEncSalt, TypeOK, StoreKeys, KeySlots
  <2>2. CASE ui[a].auth = NoAuth
    <3>1. auth' = RowsOf(k) /\ auth' # NoAuth /\ auth'.hash = k
      <4>1. auth = SavedUpTo("encSalt", NoAuth, k)
        BY <1>1, <2>1, <2>2 DEF Handling, SettingUp
      <4>2. [SavedUpTo("encSalt", NoAuth, k) EXCEPT !.encSalt = k[2]] = RowsOf(k)
        BY <1>2, NullTypes, Saved
      <4>3. auth' = RowsOf(k)
        BY <2>1, <4>1, <4>2, Zenon
      <4> QED BY <1>2, <4>3, RowsOfKey
    <3>2. AllUnder(vault', k) /\ ~ui[a].loggedIn /\ ~firstRun
      BY <1>1, <2>1, <2>2 DEF Handling, SettingUp, AllUnder, NoEntries
    <3>3. /\ page'[a] = "askLogin" /\ ui'[a].auth = NoAuth
          /\ ui'[a].login = ui[a].login /\ ui'[a].loggedIn = ui[a].loggedIn
      BY <1>7, <2>2 DEF SaveEncSalt, TypeOK, Goto, Remember, Memory
    <3>4. Resting(a)'
      BY <1>1, <1>2, <2>1, <3>1, <3>2, <3>3 DEF Handling, Resting, InChange, NoLogin
    <3> QED BY <3>3, <3>4, PageNames DEF Orderly
  <2>3. CASE ui[a].auth # NoAuth
    <3>1. Changing(a) /\ RowsOf(keys[a].old) \in AuthRows
      BY <1>1, <2>3, RowsOfType DEF Handling, Changing
    <3>2. auth' = SavedUpTo("begin", RowsOf(keys[a].old), k)
      BY <1>2, <2>1, <3>1, Saved DEF Changing
    <3>3. page'[a] = "begin" /\ ui' = ui
      BY <1>7, <2>3 DEF SaveEncSalt, TypeOK, Goto
    <3>4. Changing(a)'
      BY <1>2, <2>1, <3>1, <3>2, <3>3 DEF Changing
    <3>5. Handling(a)'
      BY <1>1, <2>1, <2>3, <3>3, <3>4 DEF Handling, NoLogin
    <3> QED BY <3>3, <3>5, PageNames DEF Orderly
  <2> QED BY <2>2, <2>3
<1> QED BY <1>4, <1>5, <1>6, <1>7 DEF Save

(***************************************************************************)
(* The change dialog                                                       *)
(***************************************************************************)
LEMMA OrderlyChangeDialog ==
  ASSUME TypeOK, NEW a \in Apps, Alone(a), Orderly(a), ChangeDialog(a)
  PROVE  Orderly(a)'
<1>1. page[a] \in {"main"} \cup InChange /\ Resting(a) /\ NoLogin(a)
  BY PageNames DEF ChangeDialog, OpenChange, CancelChange, AcceptChange,
     VerifyCurrent, PressChange, At, InChange, Orderly
<1>2. CASE OpenChange(a)
  <2>1. AuthSeenBy(a) = auth /\ Loadable(auth)
    BY <1>1, <1>2, RestReads DEF Resting, OpenChange
  <2>2. /\ page'[a] = "verify" /\ ui[a].loggedIn
        /\ ui'[a].login = ui[a].login /\ ui'[a].auth = auth
        /\ ui'[a].loggedIn = ui[a].loggedIn
        /\ UNCHANGED <<auth, vault, owner, firstRun, keys>>
    BY <1>2, <2>1 DEF OpenChange, TypeOK, Goto, Remember, Memory, disk, txn
  <2>3. auth # NoAuth
    BY <2>1, NoRows
  <2> QED BY <1>1, <2>2, <2>3, PageNames DEF Orderly, Resting, InChange, NoLogin
<1>3. CASE CancelChange(a)
  <2>1. /\ page'[a] = "main"
        /\ ui'[a].login = ui[a].login /\ ui'[a].auth = NoAuth
        /\ ui'[a].loggedIn = ui[a].loggedIn
        /\ UNCHANGED <<auth, vault, owner, firstRun, keys>>
    BY <1>3 DEF CancelChange, TypeOK, Goto, Remember, Memory, disk, txn
  <2> QED BY <1>1, <2>1, PageNames DEF Orderly, Resting, InChange, NoLogin
<1>4. CASE AcceptChange(a)
  <2>1. /\ page'[a] = "askLogin" /\ ui'[a] = BlankUi
        /\ UNCHANGED <<auth, vault, owner, firstRun>>
    BY <1>4 DEF AcceptChange, TypeOK, Goto, Remember, disk, txn
  <2> QED BY <1>1, <2>1, PageNames DEF Orderly, Resting, InChange, NoLogin, BlankUi
<1>5. ASSUME NEW pw \in Passwords, VerifyCurrent(a, pw)
      PROVE  Orderly(a)'
  <2>1. /\ page[a] = "verify" /\ page'[a] = "change"
        /\ ui'[a].login = ui[a].login /\ ui'[a].auth = ui[a].auth
        /\ ui'[a].loggedIn = ui[a].loggedIn
        /\ UNCHANGED <<auth, vault, owner, firstRun, keys>>
    BY <1>5 DEF VerifyCurrent, At, TypeOK, Goto, Remember, Memory, disk, txn
  <2> QED BY <1>1, <2>1, PageNames DEF Orderly, Resting, InChange, NoLogin
<1>6. ASSUME NEW pw \in Passwords, PressChange(a, pw)
      PROVE  Orderly(a)'
  <2> DEFINE k == <<pw, salts + 1>>
  <2>1. k \in Keys
    BY <1>6, TypeDraw DEF PressChange
  <2>2. page[a] \in InChange
    BY <1>6 DEF PressChange, At, InChange
  <2>3. /\ ui[a].loggedIn /\ ui[a].auth # NoAuth
        /\ auth # NoAuth /\ keys[a].enc = auth.hash
        /\ auth.hash \in Keys /\ auth = RowsOf(auth.hash)
        /\ AllUnder(vault, auth.hash)
        /\ owner = NoApp /\ ~firstRun
    BY <1>1, <2>2 DEF Resting
  <2>4. /\ page'[a] = "hash" /\ ui'[a].next = k
        /\ ui'[a].login = ui[a].login /\ ui'[a].auth = ui[a].auth
        /\ ui'[a].loggedIn = ui[a].loggedIn
        /\ keys'[a].old = auth.hash
        /\ UNCHANGED <<auth, vault, owner, firstRun>>
    <3>1. keys'[a].old = auth.hash
      BY <1>6, <2>3, KeyParts DEF PressChange, TypeOK, StoreKeys
    <3> QED
      BY <1>6, <3>1 DEF PressChange, TypeOK, Goto, Remember, Memory, disk, txn
  <2> HIDE DEF k
  <2>5. auth' = SavedUpTo("hash", RowsOf(keys'[a].old), k)
    BY <2>1, <2>3, <2>4, RowsOfType, Saved
  <2>6. Changing(a)'
    BY <2>3, <2>4, <2>5 DEF Changing
  <2>7. Handling(a)'
    BY <1>1, <2>1, <2>3, <2>4, <2>6 DEF Handling, NoLogin
  <2> QED BY <2>4, <2>7, PageNames DEF Orderly
<1> QED BY <1>2, <1>3, <1>4, <1>5, <1>6 DEF ChangeDialog

(***************************************************************************)
(* Re-encryption: every row is found under the old key, so the loop comes  *)
(* to its end and its commit puts all of them under the new one.           *)
(***************************************************************************)
LEMMA OrderlyBegin ==
  ASSUME TypeOK, NEW a \in Apps, Alone(a), Orderly(a), BeginReencrypt(a)
  PROVE  Orderly(a)'
<1>1. page[a] = "begin" /\ Handling(a) /\ ui[a].auth # NoAuth /\ Changing(a)
  BY PageNames DEF BeginReencrypt, Orderly, Handling, SettingUp, Saving
<1>2. keys[a].old # NoKey /\ owner = NoApp /\ keys[a].enc = ui[a].next
  BY <1>1, KeyParts DEF Changing
<1>3. /\ page'[a] = "scan" /\ owner' = a
      /\ tAuth' = auth /\ tVault' = vault
      /\ scan' = [NoScan EXCEPT !.todo = {i \in Ids : vault[i] # NoKey}]
      /\ UNCHANGED <<auth, vault, firstRun, keys, ui>>
  BY <1>2 DEF BeginReencrypt, Alone, TypeOK, Goto, disk
<1>4. scan'.todo = {i \in Ids : vault[i] # NoKey} /\ scan'.ok = scan'.total
  BY <1>3 DEF NoScan
<1>5. auth' = SavedUpTo("scan", RowsOf(keys[a].old), ui[a].next)
  BY <1>1, <1>3, RowsOfType, Saved DEF Handling, Changing
<1>6. \A i \in Ids : tVault'[i] = RowNow(a, i)'
  BY <1>1, <1>3, <1>4 DEF RowNow, Changing, AllUnder, TypeOK
<1>7. Changing(a)'
  BY <1>1, <1>2, <1>3, <1>4, <1>5, <1>6 DEF Changing
<1>8. Handling(a)'
  BY <1>1, <1>3, <1>7 DEF Handling, NoLogin
<1> QED BY <1>3, <1>8, PageNames DEF Orderly

LEMMA OrderlyRow ==
  ASSUME TypeOK, NEW a \in Apps, Alone(a), Orderly(a), NEW i \in Ids, ReencryptRow(a, i)
  PROVE  Orderly(a)'
<1>1. page[a] = "scan" /\ Handling(a) /\ ui[a].auth # NoAuth /\ Changing(a)
  BY PageNames DEF ReencryptRow, Orderly, Handling, SettingUp, Saving
<1>2. i \in scan.todo /\ vault[i] # NoKey /\ tVault[i] = keys[a].old
  BY <1>1 DEF ReencryptRow, Changing, RowNow
<1>3. /\ tVault' = [tVault EXCEPT ![i] = keys[a].enc]
      /\ scan' = RowDone(i, 1)
      /\ UNCHANGED <<tAuth, owner, page, auth, vault, firstRun, keys, ui>>
  BY <1>2 DEF ReencryptRow, Alone, disk
<1>4. scan'.todo = scan.todo \ {i} /\ scan'.ok = scan'.total
  BY <1>1, <1>3 DEF RowDone, Changing
<1>5. ASSUME NEW j \in Ids PROVE tVault'[j] = RowNow(a, j)'
  <2>1. tVault[j] = RowNow(a, j)
    BY <1>1 DEF Changing
  <2>2. CASE j = i
    BY <1>2, <1>3, <1>4, <2>2 DEF RowNow, TypeOK
  <2>3. CASE j # i
    BY <1>3, <1>4, <2>1, <2>3 DEF RowNow, TypeOK
  <2> QED BY <2>2, <2>3
<1>6. Changing(a)'
  BY <1>1, <1>3, <1>4, <1>5 DEF Changing
<1>7. Handling(a)'
  BY <1>1, <1>3, <1>6 DEF Handling, NoLogin
<1> QED BY <1>1, <1>3, <1>7, PageNames DEF Orderly

LEMMA CommitMeets ==
  ASSUME TypeOK, NEW a \in Apps, Alone(a), Orderly(a), CommitReencrypt(a)
  PROVE  /\ page[a] = "scan" /\ Handling(a) /\ ui[a].auth # NoAuth /\ Changing(a)
         /\ scan.todo = {}
         /\ \A i \in Ids : tVault[i] = IF vault[i] = NoKey THEN NoKey ELSE ui[a].next
         /\ tAuth = RowsOf(ui[a].next)
         /\ keys[a].enc = ui[a].next
<1>1. page[a] = "scan" /\ Handling(a) /\ ui[a].auth # NoAuth /\ Changing(a) /\ scan.todo = {}
  BY PageNames DEF CommitReencrypt, ScanEnds, Alone, Orderly, Handling, SettingUp, Saving
<1>2. keys[a].enc = ui[a].next /\ \A i \in Ids : tVault[i] = RowNow(a, i)
  BY <1>1 DEF Changing
<1>3. tAuth = RowsOf(ui[a].next)
  BY <1>1, RowsOfType, Saved DEF Handling, Changing
<1> QED BY <1>1, <1>2, <1>3 DEF RowNow

LEMMA OrderlyCommit ==
  ASSUME TypeOK, NEW a \in Apps, Alone(a), Orderly(a), CommitReencrypt(a)
  PROVE  Orderly(a)'
<1> DEFINE k == ui[a].next
<1>1. /\ auth' = RowsOf(k) /\ vault' = tVault /\ owner' = NoApp
      /\ page'[a] \in {"success", "cancelled"}
      /\ keys'[a].enc = k
      /\ UNCHANGED <<firstRun, ui>>
  BY CommitMeets DEF CommitReencrypt, EndTxn, TypeOK, Goto, StoreKeys, KeySlots
<1>2. AllUnder(vault', k)
  BY <1>1, CommitMeets DEF AllUnder
<1>3. k \in Keys /\ ~firstRun /\ NoLogin(a) /\ ui[a].auth # NoAuth /\ ui[a].loggedIn
  BY CommitMeets DEF Handling, Changing
<1>4. auth' # NoAuth /\ auth'.hash = k
  BY <1>1, <1>3, RowsOfKey
<1>5. Resting(a)'
  BY <1>1, <1>2, <1>3, <1>4 DEF Resting, InChange, NoLogin
<1> QED BY <1>1, <1>5, PageNames DEF Orderly

LEMMA OrderlyReencrypt ==
  ASSUME TypeOK, NEW a \in Apps, Alone(a), Orderly(a), Reencrypt(a)
  PROVE  Orderly(a)'
<1>1. ~CommitFails(a)
  BY DEF CommitFails, Alone
<1> QED
  BY <1>1, OrderlyBegin, OrderlyRow, OrderlyCommit DEF Reencrypt

LEMMA OrderlyInit ==
  ASSUME NEW a \in Apps
  PROVE  Init => Orderly(a)
BY NoRows, PageNames
DEF Init, Orderly, Resting, AllUnder, NoEntries, BlankUi, InChange, NoLogin

LEMMA OrderlyNext ==
  ASSUME NEW a \in Apps, Alone(a)
  PROVE  TypeOK /\ Orderly(a) /\ [Next]_vars => Orderly(a)'
<1> SUFFICES ASSUME TypeOK, Orderly(a), [Next]_vars PROVE Orderly(a)'
  OBVIOUS
<1>1. CASE Step(a)
  BY <1>1, OrderlyProcess, OrderlySession, OrderlyEntry, OrderlyWizard,
     OrderlySave, OrderlyChangeDialog, OrderlyReencrypt DEF Step
<1>2. CASE UNCHANGED vars
  BY <1>2 DEF vars, Orderly, Resting, Handling, SettingUp, Changing, NoLogin, RowNow
<1> QED BY <1>1, <1>2 DEF Next, Alone

LEMMA AlwaysOrderly ==
  ASSUME NEW a \in Apps, Alone(a)
  PROVE  Spec => [](TypeOK /\ Orderly(a))
BY OrderlyInit, OrderlyNext, TypeCorrect, PTL DEF Spec

(***************************************************************************)
(* What login accepts opens the vault.                                     *)
(***************************************************************************)
LEMMA OrderlyOpens ==
  ASSUME NEW a \in Apps, Alone(a)
  PROVE  Orderly(a) => AcceptedPasswordOpensVault
<1> SUFFICES ASSUME Orderly(a), Settled PROVE
      /\ \A pw \in Passwords : Accepts(auth, pw) => AllUnder(vault, DerivedKey(auth, pw))
      /\ \A b \in Apps : ui[b].loggedIn => AllUnder(vault, keys[b].enc)
  BY DEF AcceptedPasswordOpensVault
<1>1. Resting(a)
  BY DEF Orderly, Settled
<1>2. ASSUME NEW pw \in Passwords, Accepts(auth, pw) PROVE AllUnder(vault, DerivedKey(auth, pw))
  <2>1. auth.hash \in Keys /\ auth = RowsOf(auth.hash)
    BY <1>1, <1>2, NoRows DEF Resting
  <2>2. DerivedKey(auth, pw) = auth.hash
    BY <1>2, <2>1, RowsOfKey
  <2> QED BY <1>1, <2>2 DEF Resting
<1>3. ui[a].loggedIn => AllUnder(vault, keys[a].enc)
  BY <1>1 DEF Resting
<1> QED BY <1>2, <1>3 DEF Alone

\* For one process without faults: the password that LoginDialog accepts
\* derives the key of every stored entry, and so is the key of a session
\* (key_manager.h, password_change.cpp).
THEOREM PasswordOpensVault ==
  ASSUME NEW a \in Apps, Alone(a)
  PROVE  Spec => []AcceptedPasswordOpensVault
BY AlwaysOrderly, OrderlyOpens, PTL

(***************************************************************************)
(* The refinement: what a step does to the vault its user sees.            *)
(***************************************************************************)
\* The key that counts: the old one while a change runs.
KeyNow(a) ==
  IF page[a] \notin Running THEN auth.hash
  ELSE IF ui[a].auth = NoAuth THEN NoKey ELSE keys[a].old

PasswordNow(a) == IF KeyNow(a) = NoKey THEN NoPassword ELSE KeyNow(a)[1]
Stored == {i \in Ids : vault[i] # NoKey}

LEMMA CurrentKeyIs ==
  ASSUME NEW a \in Apps, Alone(a), Orderly(a)
  PROVE  CurrentKey = KeyNow(a)
<1>1. CASE page[a] \in Running /\ ui[a].auth # NoAuth
  <2>1. keys[a].old # NoKey
    BY <1>1, KeyParts DEF Orderly, Handling, Changing
  <2>2. (CHOOSE b \in Apps : page[b] \in Running) = a
    BY <1>1 DEF Alone
  <2> QED BY <1>1, <2>1, <2>2 DEF CurrentKey, KeyNow
<1>2. CASE page[a] \in Running /\ ui[a].auth = NoAuth
  BY <1>2 DEF CurrentKey, KeyNow, Settled, Alone
<1>3. CASE page[a] \notin Running
  <2>1. Resting(a) /\ Settled /\ ~\E b \in Apps : page[b] \in Running /\ ui[b].auth # NoAuth
    BY <1>3 DEF Orderly, Settled, Alone
  <2>2. CASE auth = NoAuth
    BY <1>3, <2>1, <2>2, NoRows DEF CurrentKey, KeyNow
  <2>3. CASE auth # NoAuth
    <3>1. auth.hash \in Keys /\ auth = RowsOf(auth.hash)
      BY <2>1, <2>3 DEF Resting
    <3>2. auth.hash[1] \in Passwords /\ Accepts(auth, auth.hash[1])
      BY <3>1, KeyParts, RowsOfKey
    <3>3. DerivedKey(auth, auth.hash[1]) = auth.hash
      BY <3>1, <3>2, RowsOfKey
    <3> QED BY <1>3, <2>1, <3>2, <3>3 DEF CurrentKey, KeyNow
  <2> QED BY <2>2, <2>3
<1> QED BY <1>1, <1>2, <1>3

\* Every stored entry is readable.
LEMMA AllReadable ==
  ASSUME NEW a \in Apps, Alone(a), Orderly(a)
  PROVE  {i \in Ids : vault[i] # NoKey /\ vault[i] = CurrentKey} = Stored
<1>1. CASE page[a] \notin Running
  BY <1>1, CurrentKeyIs DEF Orderly, Resting, KeyNow, AllUnder, Stored
<1>2. CASE page[a] \in Running /\ ui[a].auth = NoAuth
  BY <1>2 DEF Orderly, Handling, SettingUp, NoEntries, Stored
<1>3. CASE page[a] \in Running /\ ui[a].auth # NoAuth
  BY <1>3, CurrentKeyIs DEF Orderly, Handling, Changing, KeyNow, AllUnder, Stored
<1> QED BY <1>1, <1>2, <1>3

LEMMA KeyNowType ==
  ASSUME NEW a \in Apps, Orderly(a)
  PROVE  /\ KeyNow(a) \in KeyOrNone
         /\ page[a] \notin Running /\ ui[a].loggedIn => KeyNow(a) \in Keys
         /\ page[a] \notin Running /\ ~firstRun => KeyNow(a) \in Keys
         /\ page[a] \in Running /\ ui[a].auth # NoAuth => KeyNow(a) \in Keys
BY NoRows DEF KeyNow, Orderly, Resting, Handling, Changing, KeyOrNone

LEMMA PasswordOfKey ==
  ASSUME NEW a \in Apps, KeyNow(a) \in Keys
  PROVE  PasswordNow(a) \in Passwords /\ PasswordNow(a) # NoPassword
BY KeyParts, NullAssumption DEF PasswordNow, NoPassword

\* The steps of AtomicVault in these terms.
Stutters(a) == UNCHANGED <<PasswordNow(a), Stored>>
Installs(a) == PasswordNow(a)' \in Passwords /\ Stored' = Stored
Sets(a) == PasswordNow(a) = NoPassword /\ Installs(a)
Replaces(a) == PasswordNow(a) # NoPassword /\ Installs(a)
Edits(a) ==
  /\ PasswordNow(a) # NoPassword
  /\ PasswordNow(a)' = PasswordNow(a)
  /\ \E i \in Ids : Stored' \in {Stored \cup {i}, Stored \ {i}}

\* Steps between dialogs change neither table.
LEMMA IdleStutters ==
  ASSUME NEW a \in Apps, page[a] \notin Running, page'[a] \notin Running,
         UNCHANGED <<auth, vault>>
  PROVE  Stutters(a)
BY DEF Stutters, PasswordNow, KeyNow, Stored

LEMMA DiesStutters ==
  ASSUME TypeOK, NEW a \in Apps, page[a] \notin Running, Dies(a) \/ LoginFails(a)
  PROVE  Stutters(a)
<1>1. page'[a] \notin Running /\ UNCHANGED <<auth, vault>>
  BY PageNames DEF Dies, LoginFails, TypeOK, Goto, disk
<1> QED BY <1>1, IdleStutters

LEMMA ProcessStutters ==
  ASSUME TypeOK, NEW a \in Apps, Alone(a), Process(a)
  PROVE  Stutters(a)
<1>1. CASE Start(a)
  <2>1. page[a] \notin Running /\ page'[a] \notin Running /\ UNCHANGED <<auth, vault>>
    BY <1>1, PageNames DEF Start, TypeOK, Goto, disk
  <2> QED BY <2>1, IdleStutters
<1>2. CASE Exit(a)
  BY <1>2, DiesStutters, PageNames DEF Exit, At
<1> QED BY <1>1, <1>2 DEF Process, Crash, Alone

LEMMA SessionStutters ==
  ASSUME TypeOK, NEW a \in Apps, Orderly(a), Session(a)
  PROVE  Stutters(a)
<1>1. page[a] \notin Running
  BY PageNames DEF Session, OpenLogin, AuthMissing, CancelLogin, Login, Orderly, Handling, Modal
<1>2. ASSUME LoginFails(a) PROVE Stutters(a)
  BY <1>1, <1>2, DiesStutters
<1>3. ASSUME ~LoginFails(a)
      PROVE  page'[a] \notin Running /\ UNCHANGED <<auth, vault>>
  BY <1>1, <1>3, PageNames
  DEF Session, OpenLogin, AuthMissing, CancelLogin, Login, TypeOK, Goto, disk
<1> QED BY <1>1, <1>2, <1>3, IdleStutters

LEMMA EntryEdits ==
  ASSUME TypeOK, NEW a \in Apps, Alone(a), Orderly(a), Entry(a)
  PROVE  Stutters(a) \/ Edits(a)
<1>1. page[a] \notin Running /\ Resting(a)
  BY PageNames DEF Entry, AddEntry, OpenEdit, CloseEdit, DeleteEntry, At, Orderly
<1>2. ASSUME NEW i \in Ids, AddEntry(a, i) \/ DeleteEntry(a, i)
      PROVE  Edits(a)
  <2>1. ui[a].loggedIn /\ UNCHANGED <<auth, page, ui, keys>>
    BY <1>2 DEF AddEntry, DeleteEntry
  <2>2. PasswordNow(a) # NoPassword /\ PasswordNow(a)' = PasswordNow(a)
    BY <1>1, <2>1, KeyNowType, PasswordOfKey DEF PasswordNow, KeyNow
  <2>3. CASE AddEntry(a, i)
    <3>1. keys[a].enc # NoKey /\ vault' = [vault EXCEPT ![i] = keys[a].enc]
      BY <2>3 DEF AddEntry, Alone
    <3>2. Stored' = Stored \cup {i}
      BY <3>1 DEF Stored, TypeOK
    <3> QED BY <2>2, <3>2 DEF Edits
  <2>4. CASE DeleteEntry(a, i)
    <3>1. Stored' = Stored \ {i}
      BY <2>4 DEF DeleteEntry, Stored, TypeOK
    <3> QED BY <2>2, <3>1 DEF Edits
  <2> QED BY <1>2, <2>3, <2>4
<1>3. ASSUME NEW i \in Ids, OpenEdit(a, i) PROVE Stutters(a)
  <2>1. page'[a] \notin Running /\ UNCHANGED <<auth, vault>>
    BY <1>3, PageNames DEF OpenEdit, TypeOK, Goto, disk
  <2> QED BY <1>1, <2>1, IdleStutters
<1>4. CASE CloseEdit(a)
  <2>1. page'[a] \notin Running /\ UNCHANGED auth
    BY <1>4, PageNames DEF CloseEdit, TypeOK, Goto
  <2>2. Stored' = Stored
    BY <1>4 DEF CloseEdit, Stored, TypeOK
  <2> QED BY <1>1, <2>1, <2>2 DEF Stutters, PasswordNow, KeyNow
<1> QED BY <1>2, <1>3, <1>4 DEF Entry

LEMMA WizardStutters ==
  ASSUME TypeOK, NEW a \in Apps, Alone(a), Orderly(a), Wizard(a)
  PROVE  Stutters(a)
<1>1. page[a] = "wizard" /\ page[a] \notin Running /\ Resting(a)
  BY PageNames DEF Wizard, OpenWizard, CancelWizard, AcceptWizard, At, Alone, Orderly
<1>2. CASE CancelWizard(a)
  <2>1. Dies(a) \/ (page'[a] \notin Running /\ UNCHANGED <<auth, vault>>)
    BY <1>2, PageNames DEF CancelWizard, TypeOK, Goto, disk
  <2> QED BY <1>1, <2>1, DiesStutters, IdleStutters
<1>3. ASSUME NEW pw \in Passwords, AcceptWizard(a, pw) PROVE Stutters(a)
  <2>1. auth = NoAuth /\ ui[a].auth = NoAuth
    BY <1>1 DEF Resting, InChange
  <2>2. page'[a] = "hash" /\ ui'[a].auth = ui[a].auth /\ UNCHANGED <<auth, vault>>
    BY <1>3 DEF AcceptWizard, TypeOK, Goto, Remember, Memory, disk
  <2>3. KeyNow(a)' = NoKey /\ KeyNow(a) = NoKey
    BY <1>1, <2>1, <2>2, NoRows, PageNames DEF KeyNow
  <2> QED BY <2>2, <2>3 DEF Stutters, PasswordNow, Stored
<1> QED BY <1>2, <1>3 DEF Wizard, OpenWizard, Alone

\* The first password counts when its last row is saved.
LEMMA SaveSets ==
  ASSUME TypeOK, NEW a \in Apps, Orderly(a), Orderly(a)', Save(a)
  PROVE  Stutters(a) \/ Sets(a)
<1>1. page[a] \in Running /\ Handling(a) /\ UNCHANGED <<vault, firstRun>>
  BY PageNames DEF Save, SaveHash, SaveSalt, SaveParams, SaveEncSalt, Orderly
<1>2. CASE page'[a] \in Running
  <2>1. UNCHANGED ui /\ keys'[a].old = keys[a].old
    BY <1>2, PageNames DEF Save, SaveHash, SaveSalt, SaveParams, SaveEncSalt,
       TypeOK, Goto, StoreKeys, KeySlots
  <2>2. KeyNow(a)' = KeyNow(a)
    BY <1>1, <1>2, <2>1 DEF KeyNow
  <2> QED BY <1>1, <2>2 DEF Stutters, PasswordNow, Stored
<1>3. CASE page'[a] \notin Running
  <2>1. SaveEncSalt(a) /\ ui[a].auth = NoAuth
    BY <1>3, PageNames DEF Save, SaveHash, SaveSalt, SaveParams, SaveEncSalt, TypeOK, Goto
  <2>2. PasswordNow(a) = NoPassword
    BY <1>1, <2>1 DEF PasswordNow, KeyNow
  <2>3. auth'.hash \in Keys
    BY <1>1, <1>3 DEF Orderly, Handling, Resting
  <2>4. KeyNow(a)' = auth'.hash
    BY <1>3 DEF KeyNow
  <2>5. PasswordNow(a)' \in Passwords
    BY <2>3, <2>4, KeyParts DEF PasswordNow
  <2> QED BY <1>1, <2>2, <2>5 DEF Sets, Installs, Stored
<1> QED BY <1>2, <1>3

LEMMA ChangeDialogStutters ==
  ASSUME TypeOK, NEW a \in Apps, Orderly(a), ChangeDialog(a)
  PROVE  Stutters(a)
<1>1. page[a] \notin Running /\ Resting(a) /\ UNCHANGED <<auth, vault>>
  BY PageNames DEF ChangeDialog, OpenChange, CancelChange, AcceptChange,
     VerifyCurrent, PressChange, At, Orderly, disk
<1>2. CASE page'[a] \notin Running
  BY <1>1, <1>2, IdleStutters
<1>3. CASE page'[a] \in Running
  <2>1. PICK pw \in Passwords : PressChange(a, pw)
    BY <1>3, PageNames DEF ChangeDialog, OpenChange, CancelChange, AcceptChange,
       VerifyCurrent, TypeOK, Goto
  <2>2. page[a] \in InChange
    BY <2>1 DEF PressChange, At, InChange
  <2>3. /\ ui[a].auth # NoAuth /\ keys[a].enc = auth.hash /\ auth.hash \in Keys
    BY <1>1, <2>2 DEF Resting
  <2>4. keys'[a].old = auth.hash
    BY <2>1, <2>3, KeyParts DEF PressChange, TypeOK, StoreKeys
  <2>5. ui'[a].auth = ui[a].auth
    BY <2>1 DEF PressChange, TypeOK, Remember, Memory
  <2>6. KeyNow(a)' = KeyNow(a)
    BY <1>1, <1>3, <2>3, <2>4, <2>5 DEF KeyNow
  <2> QED BY <1>1, <2>6 DEF Stutters, PasswordNow, Stored
<1> QED BY <1>2, <1>3

\* The new password counts when the re-encrypted entries are committed.
LEMMA ReencryptReplaces ==
  ASSUME TypeOK, NEW a \in Apps, Alone(a), Orderly(a), Orderly(a)', Reencrypt(a)
  PROVE  Stutters(a) \/ Replaces(a)
<1>1. page[a] \in Running /\ ui[a].auth # NoAuth /\ KeyNow(a) = keys[a].old /\ keys[a].old \in Keys
  BY PageNames DEF Reencrypt, BeginReencrypt, CommitReencrypt, CommitFails, ScanEnds,
     ReencryptRow, Orderly, Handling, SettingUp, Changing, KeyNow, Saving
<1>2. CASE CommitReencrypt(a)
  <2>1. vault' = tVault /\ page'[a] \notin Running /\ UNCHANGED firstRun
    BY <1>2, PageNames DEF CommitReencrypt, TypeOK, Goto
  <2>2. Stored' = Stored
    <3>1. \A i \in Ids : tVault[i] = NoKey <=> vault[i] = NoKey
      BY <1>2, CommitMeets, KeyParts DEF Handling
    <3> QED BY <2>1, <3>1 DEF Stored
  <2>3. auth'.hash \in Keys
    BY <1>1, <2>1 DEF Orderly, Handling, Resting
  <2>4. KeyNow(a)' = auth'.hash
    BY <2>1 DEF KeyNow
  <2>5. PasswordNow(a)' \in Passwords
    BY <2>3, <2>4, KeyParts DEF PasswordNow
  <2> QED BY <1>1, <2>2, <2>5, PasswordOfKey DEF Replaces, Installs
<1>3. CASE ~CommitReencrypt(a)
  <2>1. \/ BeginReencrypt(a)
        \/ \E i \in Ids : ReencryptRow(a, i)
    BY <1>3 DEF Reencrypt, CommitFails, Alone
  <2>2. page'[a] = "scan" /\ UNCHANGED <<ui, keys, vault>>
    <3>1. CASE BeginReencrypt(a)
      <4>1. owner = NoApp
        BY <3>1, PageNames DEF BeginReencrypt, Orderly, Handling, SettingUp, Changing
      <4> QED BY <1>1, <3>1, <4>1, KeyParts DEF BeginReencrypt, Alone, TypeOK, Goto, disk
    <3>2. ASSUME NEW i \in Ids, ReencryptRow(a, i)
          PROVE  page'[a] = "scan" /\ UNCHANGED <<ui, keys, vault>>
      <4>1. Changing(a) /\ page[a] = "scan"
        BY <1>1, <3>2 DEF ReencryptRow, Orderly, Handling
      <4>2. tVault[i] = keys[a].old
        BY <3>2, <4>1 DEF ReencryptRow, Changing, RowNow
      <4> QED BY <3>2, <4>1, <4>2 DEF ReencryptRow, Alone, disk
    <3> QED BY <2>1, <3>1, <3>2
  <2>3. KeyNow(a)' = KeyNow(a)
    BY <1>1, <2>2, PageNames DEF KeyNow
  <2> QED BY <2>2, <2>3 DEF Stutters, PasswordNow, Stored
<1> QED BY <1>2, <1>3

LEMMA StepOfVault ==
  ASSUME TypeOK, NEW a \in Apps, Alone(a), Orderly(a), Orderly(a)', [Next]_vars
  PROVE  Stutters(a) \/ Sets(a) \/ Replaces(a) \/ Edits(a)
<1>1. CASE Step(a)
  BY <1>1, ProcessStutters, SessionStutters, EntryEdits, WizardStutters,
     SaveSets, ChangeDialogStutters, ReencryptReplaces DEF Step
<1>2. CASE UNCHANGED vars
  BY <1>2 DEF vars, Stutters, PasswordNow, KeyNow, Stored
<1> QED BY <1>1, <1>2 DEF Next, Alone

LEMMA InitOfVault ==
  ASSUME NEW a \in Apps, Alone(a), Init
  PROVE  PasswordNow(a) = NoPassword /\ Stored = {}
BY NoRows, PageNames DEF Init, PasswordNow, KeyNow, Stored, NoEntries

\* The variables of AtomicVault under the refinement mapping.
MappedPassword == IF CurrentKey = NoKey THEN NoPassword ELSE CurrentKey[1]
MappedReadable == {i \in Ids : vault[i] # NoKey /\ vault[i] = CurrentKey}

LEMMA MappingIs ==
  ASSUME NEW a \in Apps, Alone(a)
  PROVE  Orderly(a) => MappedPassword = PasswordNow(a) /\ MappedReadable = Stored
BY CurrentKeyIs, AllReadable DEF MappedPassword, MappedReadable, PasswordNow

LEMMA InitImplements ==
  ASSUME NEW a \in Apps, Alone(a)
  PROVE  Init => Abstract!Init
<1> SUFFICES ASSUME Init PROVE Abstract!Init
  OBVIOUS
<1>1. MappedPassword = NoPassword /\ MappedReadable = {}
  BY OrderlyInit, MappingIs, InitOfVault
<1> QED BY <1>1 DEF Abstract!Init, MappedPassword, MappedReadable

LEMMA StepImplements ==
  ASSUME NEW a \in Apps, Alone(a), TypeOK, Orderly(a), Orderly(a)', [Next]_vars,
         MappedPassword = PasswordNow(a), MappedReadable = Stored,
         MappedPassword' = PasswordNow(a)', MappedReadable' = Stored'
  PROVE  [Abstract!Next]_(Abstract!vars)
<1>1. CASE Stutters(a)
  <2>1. MappedPassword' = MappedPassword /\ MappedReadable' = MappedReadable
    BY <1>1 DEF Stutters
  <2> QED BY <2>1 DEF Abstract!vars, MappedPassword, MappedReadable
<1>2. CASE Sets(a)
  <2>1. PICK pw \in Passwords :
          /\ MappedPassword = NoPassword
          /\ MappedPassword' = pw
          /\ MappedReadable' = MappedReadable
    BY <1>2 DEF Sets, Installs
  <2>2. Abstract!Setup(pw)
    BY <2>1 DEF Abstract!Setup, MappedPassword, MappedReadable
  <2> QED BY <2>2 DEF Abstract!Next
<1>3. CASE Replaces(a)
  <2>1. PICK pw \in Passwords :
          /\ MappedPassword # NoPassword
          /\ MappedPassword' = pw
          /\ MappedReadable' = MappedReadable
    BY <1>3 DEF Replaces, Installs
  <2>2. Abstract!ChangePassword(pw)
    BY <2>1 DEF Abstract!ChangePassword, MappedPassword, MappedReadable
  <2> QED BY <2>2 DEF Abstract!Next
<1>4. CASE Edits(a)
  <2>1. PICK i \in Ids : MappedReadable' \in {MappedReadable \cup {i}, MappedReadable \ {i}}
    BY <1>4 DEF Edits
  <2>2. MappedPassword # NoPassword /\ MappedPassword' = MappedPassword
    BY <1>4 DEF Edits
  <2>3. Abstract!Add(i) \/ Abstract!Delete(i)
    BY <2>1, <2>2 DEF Abstract!Add, Abstract!Delete, MappedPassword, MappedReadable
  <2> QED BY <2>3 DEF Abstract!Next
<1> QED BY <1>1, <1>2, <1>3, <1>4, StepOfVault

\* For one process without faults the program is the vault of AtomicVault: a
\* password change takes effect in one step, with the commit of the
\* re-encryption, and only the user's own edits add or remove entries.
THEOREM Refinement ==
  ASSUME NEW a \in Apps, Alone(a)
  PROVE  Spec => ImplementsAtomicVault
<1>1. Init => Abstract!Init
  BY InitImplements
<1>2. Orderly(a) => MappedPassword = PasswordNow(a) /\ MappedReadable = Stored
  BY MappingIs
<1>3. (Orderly(a) => MappedPassword = PasswordNow(a) /\ MappedReadable = Stored)'
  BY <1>2, PTL
<1>4. /\ TypeOK /\ Orderly(a) /\ [Next]_vars
      /\ (TypeOK /\ Orderly(a))'
      => [Abstract!Next]_(Abstract!vars)
  BY <1>2, <1>3, StepImplements
<1> QED BY <1>1, <1>4, AlwaysOrderly, PTL DEF Spec, ImplementsAtomicVault, Abstract!Spec
=============================================================================
