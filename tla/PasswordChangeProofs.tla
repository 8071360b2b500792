------------------------ MODULE PasswordChangeProofs ------------------------
(***************************************************************************)
(* Theorems about PasswordChange, for any number of processes, entries,    *)
(* passwords and salts.                                                    *)
(***************************************************************************)
EXTENDS PasswordChange, TLAPS

\* A handler that saves or re-encrypts has a new password and salt to work
\* with, and no login dialog is open that could replace the keys under it.
HandlerAlone ==
  \A a \in Apps :
    page[a] \in Running => NoLogin(a) /\ ui[a].next \in Keys

\* Pages on which the handler has tried to store the row.
AfterHash == Running \ {"hash"}
AfterSalt == AfterHash \ {"salt"}
AfterParams == AfterSalt \ {"params"}
AfterEncSalt == {"begin", "scan"}

\* A handler that is the author of the rows has stored what it has passed,
\* and keeps the new key while it re-encrypts.
StoredSoFar(a) ==
  /\ page[a] \in AfterEncSalt => keys[a].enc = ui[a].next
  /\ author = a =>
       /\ page[a] \in AfterHash => AuthSeenBy(a).hash = ui[a].next
       /\ page[a] \in AfterSalt => AuthSeenBy(a).salt = ui[a].next[2]
       /\ page[a] \in AfterParams => AuthSeenBy(a).params
       /\ page[a] \in AfterEncSalt => AuthSeenBy(a).encSalt = ui[a].next[2]

AllStoredSoFar == \A a \in Apps : StoredSoFar(a)

\* Whoever has the write lock sees the rows of the author as committed,
\* unless it is the author.
AuthorIsSeen == owner \notin {NoApp, author} /\ author # NoApp => tAuth = auth

\* What every step preserves.
IndInv == TypeOK /\ HandlerAlone /\ ScanOwnsDatabase

\* With it, what every step preserves of the rows.
RowsInv == AllStoredSoFar /\ AuthorIsSeen

LEMMA NullTypes ==
  /\ NoAuth \in AuthRows
  /\ NoEntries \in [Ids -> KeyOrNone]
  /\ NoKeys \in KeySlots
  /\ BlankUi \in Memory
  /\ NoScan \in [todo : SUBSET Ids, total : Nat, ok : Nat]
BY MaxSaltAssumption
DEF NoAuth, AuthRows, KeyOrNone, SaltOrNone, NoEntries, NoKeys, BlankUi,
    KeySlots, Memory, NoScan, NoSalt

LEMMA PageNames ==
  /\ {"down", "askLogin", "main", "begin", "scan", "hash", "salt", "params",
      "encSalt", "wizard", "edit", "verify", "change", "cancelled", "success"}
     = Pages
  /\ Running = {"hash", "salt", "params", "encSalt", "begin", "scan"}
BY DEF Pages, Running, Saving, Modal

(***************************************************************************)
(* Type correctness: one lemma per group of actions.                       *)
(***************************************************************************)
LEMMA TypeInit == Init => TypeOK
BY NullTypes, PageNames, MaxSaltAssumption DEF Init, TypeOK

LEMMA TypeDies ==
  ASSUME TypeOK, NEW a \in Apps, Dies(a)
  PROVE  TypeOK'
<1>1. /\ page' \in [Apps -> Pages]
      /\ keys' \in [Apps -> KeySlots]
      /\ ui' \in [Apps -> Memory]
  BY NullTypes, PageNames DEF Dies, TypeOK, Goto, StoreKeys, Remember
<1>2. /\ tAuth' \in AuthRows
      /\ tVault' \in [Ids -> KeyOrNone]
      /\ owner' \in Apps \cup {NoApp}
      /\ scan' \in [todo : SUBSET Ids, total : Nat, ok : Nat]
  BY NullTypes DEF Dies, TypeOK, EndTxn, txn
<1> QED
  BY <1>1, <1>2 DEF Dies, TypeOK, disk

LEMMA TypeProcess ==
  ASSUME TypeOK, NEW a \in Apps, Process(a)
  PROVE  TypeOK'
<1>1. CASE Start(a)
  <2>1. [ui[a] EXCEPT !.boot = TRUE] \in Memory
    BY DEF TypeOK, Memory
  <2>2. ui' \in [Apps -> Memory] /\ page' \in [Apps -> Pages]
    BY <1>1, <2>1, PageNames DEF Start, TypeOK, Goto, Remember
  <2> QED BY <1>1, <2>2 DEF Start, TypeOK, txn, disk
<1>2. CASE Exit(a) \/ Crash(a)
  BY <1>2, TypeDies DEF Exit, Crash
<1> QED BY <1>1, <1>2 DEF Process

LEMMA TypeSeen ==
  ASSUME TypeOK, NEW a \in Apps
  PROVE  AuthSeenBy(a) \in AuthRows /\ VaultSeenBy(a) \in [Ids -> KeyOrNone]
BY DEF TypeOK, AuthSeenBy, VaultSeenBy

LEMMA TypeLoginFails ==
  ASSUME TypeOK, NEW a \in Apps, LoginFails(a)
  PROVE  TypeOK'
<1>1. CASE ui[a].boot
  BY <1>1, TypeDies DEF LoginFails
<1>2. CASE ~ui[a].boot
  BY <1>2, NullTypes, PageNames
  DEF LoginFails, TypeOK, Goto, Remember, Memory, txn, disk
<1> QED BY <1>1, <1>2

LEMMA TypeSession ==
  ASSUME TypeOK, NEW a \in Apps, Session(a)
  PROVE  TypeOK'
<1>1. CASE OpenLogin(a)
  BY <1>1, TypeSeen, PageNames
  DEF OpenLogin, TypeOK, Goto, Remember, Memory, txn, disk
<1>2. CASE AuthMissing(a) \/ CancelLogin(a)
  BY <1>2, TypeLoginFails DEF AuthMissing, CancelLogin
<1>3. ASSUME NEW pw \in Passwords, Login(a, pw)
      PROVE  TypeOK'
  <2>1. CASE AuthSeenBy(a).encSalt = NoSalt
    BY <1>3, <2>1, TypeLoginFails DEF Login
  <2>2. CASE AuthSeenBy(a).encSalt # NoSalt
    <3>1. DerivedKey(AuthSeenBy(a), pw) \in KeyOrNone
      BY <2>2, TypeSeen, MaxSaltAssumption
      DEF DerivedKey, KeyOrNone, Keys, AuthRows, SaltOrNone, NoSalt
    <3>2. [ui[a] EXCEPT !.login = NoAuth, !.loggedIn = TRUE, !.boot = FALSE]
            \in Memory
      BY NullTypes DEF TypeOK, Memory
    <3>3. ui' \in [Apps -> Memory]
      BY <1>3, <2>2, <3>2 DEF Login, TypeOK, Remember
    <3>4. keys' \in [Apps -> KeySlots]
      BY <1>3, <2>2, <3>1 DEF Login, TypeOK, StoreKeys, KeySlots
    <3> QED
      BY <1>3, <2>2, <3>3, <3>4 DEF Login, TypeOK, txn, disk
  <2> QED BY <2>1, <2>2
<1> QED BY <1>1, <1>2, <1>3 DEF Session

LEMMA TypeEntry ==
  ASSUME TypeOK, NEW a \in Apps, Entry(a)
  PROVE  TypeOK'
<1> USE DEF TypeOK, txn, disk
<1>1. keys[a].enc \in KeyOrNone /\ NoKey \in KeyOrNone
  BY DEF KeySlots, KeyOrNone
<1>2. ASSUME NEW i \in Ids, AddEntry(a, i)
      PROVE  TypeOK'
  BY <1>1, <1>2 DEF AddEntry
<1>3. ASSUME NEW i \in Ids, OpenEdit(a, i)
      PROVE  TypeOK'
  BY <1>3, PageNames DEF OpenEdit, Goto, Remember, Memory
<1>4. ASSUME NEW i \in Ids, DeleteEntry(a, i)
      PROVE  TypeOK'
  BY <1>1, <1>4 DEF DeleteEntry
<1>5. CASE CloseEdit(a)
  <2>1. vault' \in [Ids -> KeyOrNone]
    BY <1>1, <1>5 DEF CloseEdit
  <2> QED
    BY <1>5, <2>1, PageNames DEF CloseEdit, Goto, Remember, Memory
<1> QED BY <1>2, <1>3, <1>4, <1>5 DEF Entry

LEMMA TypeDraw ==
  ASSUME TypeOK, NEW pw \in Passwords, salts < MaxSalt
  PROVE  <<pw, salts + 1>> \in Keys /\ salts + 1 \in 0 .. MaxSalt
BY MaxSaltAssumption DEF TypeOK, Keys

LEMMA TypeWizard ==
  ASSUME TypeOK, NEW a \in Apps, Wizard(a)
  PROVE  TypeOK'
<1>1. CASE OpenWizard(a)
  BY <1>1, PageNames DEF OpenWizard, TypeOK, Goto, txn, disk
<1>2. CASE CancelWizard(a)
  BY <1>2, TypeDies, PageNames DEF CancelWizard, TypeOK, Goto, txn, disk
<1>3. ASSUME NEW pw \in Passwords, AcceptWizard(a, pw)
      PROVE  TypeOK'
  <2>1. <<pw, salts + 1>> \in KeyOrNone /\ salts + 1 \in 0 .. MaxSalt
    BY <1>3, TypeDraw DEF AcceptWizard, KeyOrNone
  <2>2. ui' \in [Apps -> Memory]
    BY <1>3, <2>1 DEF AcceptWizard, TypeOK, Remember, Memory
  <2>3. keys' \in [Apps -> KeySlots]
    BY <1>3, <2>1 DEF AcceptWizard, TypeOK, StoreKeys, KeySlots
  <2>4. page' \in [Apps -> Pages]
    BY <1>3, PageNames DEF AcceptWizard, TypeOK, Goto
  <2> QED
    BY <1>3, <2>1, <2>2, <2>3, <2>4 DEF AcceptWizard, TypeOK, txn, disk
<1> QED BY <1>1, <1>2, <1>3 DEF Wizard

LEMMA TypeSave ==
  ASSUME TypeOK, HandlerAlone, NEW a \in Apps, Save(a)
  PROVE  TypeOK'
<1>1. ui[a].next \in Keys
  BY PageNames DEF Save, SaveHash, SaveSalt, SaveParams, SaveEncSalt,
     HandlerAlone
<1>2. ui[a].next \in KeyOrNone /\ ui[a].next[2] \in SaltOrNone
  BY <1>1, MaxSaltAssumption DEF KeyOrNone, Keys, SaltOrNone
<1>3. ASSUME NEW rows \in AuthRows, WriteAuth(a, rows) \/ WriteRefused(a)
      PROVE  /\ auth' \in AuthRows /\ tAuth' \in AuthRows
             /\ author' \in Apps \cup {NoApp}
  BY <1>3 DEF WriteAuth, WriteRefused, TypeOK
<1>4. CASE SaveHash(a)
  <2>1. [AuthSeenBy(a) EXCEPT !.hash = ui[a].next] \in AuthRows
    BY <1>2, TypeSeen DEF AuthRows
  <2>2. /\ auth' \in AuthRows /\ tAuth' \in AuthRows
        /\ author' \in Apps \cup {NoApp}
    BY <1>3, <1>4, <2>1 DEF SaveHash, TypeOK
  <2> QED BY <1>4, <2>2, PageNames DEF SaveHash, TypeOK, Goto
<1>5. CASE SaveSalt(a)
  <2>1. [AuthSeenBy(a) EXCEPT !.salt = ui[a].next[2]] \in AuthRows
    BY <1>2, TypeSeen DEF AuthRows
  <2>2. /\ auth' \in AuthRows /\ tAuth' \in AuthRows
        /\ author' \in Apps \cup {NoApp}
    BY <1>3, <1>5, <2>1 DEF SaveSalt, TypeOK
  <2> QED BY <1>5, <2>2, PageNames DEF SaveSalt, TypeOK, Goto
<1>6. CASE SaveParams(a)
  <2>1. [AuthSeenBy(a) EXCEPT !.params = TRUE] \in AuthRows
    BY TypeSeen DEF AuthRows
  <2>2. /\ auth' \in AuthRows /\ tAuth' \in AuthRows
        /\ author' \in Apps \cup {NoApp}
    BY <1>3, <1>6, <2>1 DEF SaveParams, TypeOK
  <2> QED BY <1>6, <2>2, PageNames DEF SaveParams, TypeOK, Goto
<1>7. CASE SaveEncSalt(a)
  <2>1. [AuthSeenBy(a) EXCEPT !.encSalt = ui[a].next[2]] \in AuthRows
    BY <1>2, TypeSeen DEF AuthRows
  <2>2. /\ auth' \in AuthRows /\ tAuth' \in AuthRows
        /\ author' \in Apps \cup {NoApp}
    BY <1>3, <1>7, <2>1 DEF SaveEncSalt, TypeOK
  <2>3. keys' \in [Apps -> KeySlots]
    BY <1>2, <1>7 DEF SaveEncSalt, TypeOK, StoreKeys, KeySlots
  <2>4. [ui[a] EXCEPT !.next = NoKey] \in Memory
    BY DEF TypeOK, Memory, KeyOrNone
  <2>5. ui' \in [Apps -> Memory] /\ page' \in [Apps -> Pages]
    BY <1>7, <2>4, PageNames DEF SaveEncSalt, TypeOK, Goto, Remember
  <2> QED BY <1>7, <2>2, <2>3, <2>5 DEF SaveEncSalt, TypeOK
<1> QED BY <1>4, <1>5, <1>6, <1>7 DEF Save

LEMMA TypeChangeDialog ==
  ASSUME TypeOK, NEW a \in Apps, ChangeDialog(a)
  PROVE  TypeOK'
<1> USE NullTypes, PageNames
    DEF TypeOK, Goto, Remember, StoreKeys, txn, disk
<1>1. CASE OpenChange(a)
  BY <1>1, TypeSeen DEF OpenChange, Memory
<1>2. CASE CancelChange(a)
  BY <1>2 DEF CancelChange, Memory, KeyOrNone
<1>3. CASE AcceptChange(a)
  BY <1>3 DEF AcceptChange
<1>4. ASSUME NEW pw \in Passwords, VerifyCurrent(a, pw)
      PROVE  TypeOK'
  BY <1>4 DEF VerifyCurrent, Memory, AuthRows
<1>5. ASSUME NEW pw \in Passwords, PressChange(a, pw)
      PROVE  TypeOK'
  BY <1>5, TypeDraw DEF PressChange, Memory, KeySlots, KeyOrNone
<1> QED BY <1>1, <1>2, <1>3, <1>4, <1>5 DEF ChangeDialog

LEMMA TypeReencrypt ==
  ASSUME TypeOK, NEW a \in Apps, Reencrypt(a)
  PROVE  TypeOK'
<1> USE NullTypes, PageNames DEF TypeOK, Goto, EndTxn, txn, disk
<1>1. CASE BeginReencrypt(a)
  <2>1. [NoScan EXCEPT !.todo = {i \in Ids : vault[i] # NoKey}]
          \in [todo : SUBSET Ids, total : Nat, ok : Nat]
    BY DEF NoScan
  <2> QED BY <1>1, <2>1 DEF BeginReencrypt
<1>2. CASE CommitReencrypt(a)
  <2>1. keys' \in [Apps -> KeySlots]
    BY <1>2 DEF CommitReencrypt, StoreKeys, KeySlots, KeyOrNone
  <2> QED BY <1>2, <2>1 DEF CommitReencrypt
<1>3. CASE CommitFails(a)
  BY <1>3 DEF CommitFails
<1>4. ASSUME NEW i \in Ids, ReencryptRow(a, i)
      PROVE  TypeOK'
  <2>1. keys[a].enc \in KeyOrNone
    BY DEF KeySlots
  <2>2. tVault' \in [Ids -> KeyOrNone]
    BY <1>4, <2>1 DEF ReencryptRow
  <2>3. scan' \in [todo : SUBSET Ids, total : Nat, ok : Nat]
    <3>1. \/ scan' = NoScan
          \/ scan' = RowDone(i, 1)
          \/ scan' = RowDone(i, 0)
      BY <1>4, Zenon DEF ReencryptRow
    <3> QED BY <3>1 DEF RowDone
  <2> QED BY <1>4, <2>2, <2>3 DEF ReencryptRow
<1> QED BY <1>1, <1>2, <1>3, <1>4 DEF Reencrypt

LEMMA TypeStep ==
  ASSUME TypeOK, HandlerAlone, NEW a \in Apps, Step(a)
  PROVE  TypeOK'
BY TypeProcess, TypeSession, TypeEntry, TypeWizard, TypeSave,
   TypeChangeDialog, TypeReencrypt DEF Step

(***************************************************************************)
(* What a step of one process leaves alone.                                *)
(***************************************************************************)
\* The memory of another process.
Untouched(b) == page'[b] = page[b] /\ ui'[b] = ui[b] /\ keys'[b] = keys[b]

LEMMA OthersKeep ==
  ASSUME TypeOK, NEW a \in Apps, NEW b \in Apps \ {a}, Step(a)
  PROVE  Untouched(b)
<1> USE DEF TypeOK, Untouched, Goto, Remember, StoreKeys, txn, disk
<1>1. ASSUME Dies(a) \/ LoginFails(a) PROVE Untouched(b)
  BY <1>1 DEF Dies, LoginFails
<1>2. CASE Process(a)
  BY <1>1, <1>2 DEF Process, Start, Exit, Crash
<1>3. CASE Session(a)
  BY <1>1, <1>3 DEF Session, OpenLogin, AuthMissing, CancelLogin, Login
<1>4. CASE Entry(a)
  BY <1>4 DEF Entry, AddEntry, OpenEdit, CloseEdit, DeleteEntry
<1>5. CASE Wizard(a)
  BY <1>1, <1>5 DEF Wizard, OpenWizard, CancelWizard, AcceptWizard
<1>6. CASE Save(a)
  BY <1>6 DEF Save, SaveHash, SaveSalt, SaveParams, SaveEncSalt
<1>7. CASE ChangeDialog(a)
  BY <1>7 DEF ChangeDialog, OpenChange, CancelChange, AcceptChange,
     VerifyCurrent, PressChange
<1>8. CASE Reencrypt(a)
  BY <1>8 DEF Reencrypt, BeginReencrypt, CommitReencrypt, CommitFails,
     ReencryptRow, EndTxn
<1> QED BY <1>2, <1>3, <1>4, <1>5, <1>6, <1>7, <1>8 DEF Step

(***************************************************************************)
(* Handlers: only AcceptWizard and PressChange start one, and the login    *)
(* dialog does not open while it runs.                                     *)
(***************************************************************************)
LEMMA OwnHandler ==
  ASSUME TypeOK, HandlerAlone, NEW a \in Apps, Step(a), page'[a] \in Running
  PROVE  NoLogin(a)' /\ ui'[a].next \in Keys
<1> USE PageNames
    DEF TypeOK, Goto, Remember, StoreKeys, txn, disk, NoLogin, At
<1>1. ASSUME Dies(a) \/ LoginFails(a), page[a] \notin Running PROVE FALSE
  BY <1>1 DEF Dies, LoginFails
<1>2. CASE Process(a)
  <2>1. page[a] \notin Running \/ Dies(a)
    BY <1>2 DEF Process, Start, Exit, Crash
  <2>2. ~Dies(a)
    BY DEF Dies
  <2> QED
    BY <1>2, <2>1, <2>2 DEF Process, Start, Exit, Crash
<1>3. CASE Session(a)
  <2>1. page[a] \notin Running
    BY <1>3 DEF Session, OpenLogin, AuthMissing, CancelLogin, Login,
       HandlerAlone, Modal
  <2> QED
    BY <1>1, <1>3, <2>1
    DEF Session, OpenLogin, AuthMissing, CancelLogin, Login
<1>4. CASE Entry(a)
  BY <1>4 DEF Entry, AddEntry, OpenEdit, CloseEdit, DeleteEntry
<1>5. CASE Wizard(a)
  BY <1>1, <1>5, TypeDraw
  DEF Wizard, OpenWizard, CancelWizard, AcceptWizard, Memory
<1>6. CASE Save(a)
  BY <1>6 DEF Save, SaveHash, SaveSalt, SaveParams, SaveEncSalt, HandlerAlone
<1>7. CASE ChangeDialog(a)
  BY <1>7, TypeDraw DEF ChangeDialog, OpenChange, CancelChange, AcceptChange,
     VerifyCurrent, PressChange, Memory
<1>8. CASE Reencrypt(a)
  BY <1>8 DEF Reencrypt, BeginReencrypt, CommitReencrypt, CommitFails,
     ReencryptRow, EndTxn, ScanEnds, HandlerAlone
<1> QED BY <1>2, <1>3, <1>4, <1>5, <1>6, <1>7, <1>8 DEF Step

LEMMA HandlerStep ==
  ASSUME TypeOK, HandlerAlone, NEW a \in Apps, Step(a)
  PROVE  HandlerAlone'
BY OthersKeep, OwnHandler DEF HandlerAlone, Untouched, NoLogin

(***************************************************************************)
(* The re-encryption loop: only its own steps lead to a step of it, and    *)
(* the lock keeps every other process away from what it works on.          *)
(***************************************************************************)
LEMMA HandlerSteps ==
  ASSUME TypeOK, HandlerAlone, NEW a \in Apps, Step(a), page'[a] \in AfterHash
  PROVE  Save(a) \/ BeginReencrypt(a) \/ \E i \in Ids : ReencryptRow(a, i)
<1> USE PageNames
    DEF TypeOK, Goto, Remember, StoreKeys, txn, disk, NoLogin, At, AfterHash
<1>1. ASSUME Dies(a) \/ LoginFails(a), page[a] \notin Running PROVE FALSE
  BY <1>1 DEF Dies, LoginFails
<1>2. ~Process(a)
  <2>1. ~Dies(a)
    BY DEF Dies
  <2> QED
    BY <2>1 DEF Process, Start, Exit, Crash
<1>3. ~Session(a)
  <2>1. ASSUME Session(a) PROVE page[a] \notin Running
    BY <2>1 DEF Session, OpenLogin, AuthMissing, CancelLogin, Login,
       HandlerAlone, Modal
  <2> QED
    BY <1>1, <2>1 DEF Session, OpenLogin, AuthMissing, CancelLogin, Login
<1>4. ~Entry(a)
  BY DEF Entry, AddEntry, OpenEdit, CloseEdit, DeleteEntry
<1>5. ~Wizard(a)
  BY <1>1 DEF Wizard, OpenWizard, CancelWizard, AcceptWizard
<1>6. ~ChangeDialog(a)
  BY DEF ChangeDialog, OpenChange, CancelChange, AcceptChange,
     VerifyCurrent, PressChange
<1>7. ~CommitReencrypt(a) /\ ~CommitFails(a)
  BY DEF CommitReencrypt, CommitFails, ScanEnds, EndTxn
<1> QED
  BY <1>2, <1>3, <1>4, <1>5, <1>6, <1>7 DEF Step, Reencrypt

LEMMA ScanSteps ==
  ASSUME TypeOK, HandlerAlone, NEW a \in Apps, Step(a), page'[a] = "scan"
  PROVE  BeginReencrypt(a) \/ \E i \in Ids : ReencryptRow(a, i)
<1>1. ~Save(a)
  BY PageNames
  DEF Save, SaveHash, SaveSalt, SaveParams, SaveEncSalt, TypeOK, Goto
<1> QED BY <1>1, HandlerSteps, PageNames DEF AfterHash

LEMMA ScanOthers ==
  ASSUME TypeOK, ScanOwnsDatabase, NEW a \in Apps, NEW b \in Apps \ {a},
         Step(a), page[b] = "scan"
  PROVE  UNCHANGED <<tVault, owner, scan>>
<1>1. owner = b /\ owner # a /\ owner # NoApp
  BY NullAssumption DEF ScanOwnsDatabase
<1>2. page[a] # "scan"
  BY <1>1 DEF ScanOwnsDatabase
<1> USE <1>1, <1>2 DEF txn
<1>3. ASSUME Dies(a) \/ LoginFails(a) PROVE UNCHANGED <<tVault, owner, scan>>
  BY <1>3 DEF Dies, LoginFails
<1>4. CASE Process(a)
  BY <1>3, <1>4 DEF Process, Start, Exit, Crash
<1>5. CASE Session(a)
  BY <1>3, <1>5 DEF Session, OpenLogin, AuthMissing, CancelLogin, Login
<1>6. CASE Entry(a)
  BY <1>6 DEF Entry, AddEntry, OpenEdit, CloseEdit, DeleteEntry
<1>7. CASE Wizard(a)
  BY <1>3, <1>7 DEF Wizard, OpenWizard, CancelWizard, AcceptWizard
<1>8. CASE Save(a)
  BY <1>8 DEF Save, SaveHash, SaveSalt, SaveParams, SaveEncSalt
<1>9. CASE ChangeDialog(a)
  BY <1>9 DEF ChangeDialog, OpenChange, CancelChange, AcceptChange,
     VerifyCurrent, PressChange
<1>10. CASE Reencrypt(a)
  BY <1>10 DEF Reencrypt, BeginReencrypt, CommitReencrypt, CommitFails,
     ReencryptRow, ScanEnds
<1> QED
  BY <1>4, <1>5, <1>6, <1>7, <1>8, <1>9, <1>10 DEF Step

\* What ScanOwnsDatabase says of one process.
OwnsDatabase(a) ==
  page[a] = "scan" =>
    /\ owner = a
    /\ scan.ok <= scan.total
    /\ \A i \in Ids \ scan.todo :
         scan.ok = scan.total => tVault[i] \in {NoKey, keys[a].enc}

LEMMA ScanBegins ==
  ASSUME TypeOK, NEW a \in Apps, BeginReencrypt(a)
  PROVE  OwnsDatabase(a)'
<1>1. CASE page'[a] = "scan"
  <2>1. /\ owner' = a
        /\ tVault' = vault
        /\ scan'.todo = {i \in Ids : vault[i] # NoKey}
        /\ scan'.ok = 0 /\ scan'.total = 0
    BY <1>1, PageNames DEF BeginReencrypt, Goto, TypeOK, NoScan
  <2> QED BY <2>1 DEF OwnsDatabase
<1>2. CASE page'[a] # "scan"
  BY <1>2 DEF OwnsDatabase
<1> QED BY <1>1, <1>2

LEMMA ScanContinues ==
  ASSUME TypeOK, ScanOwnsDatabase, NEW a \in Apps, NEW i \in Ids,
         ReencryptRow(a, i), page'[a] = "scan"
  PROVE  OwnsDatabase(a)'
<1>1. /\ page[a] = "scan" /\ owner = a /\ owner' = a /\ keys' = keys
      /\ i \in scan.todo
      /\ scan.ok \in Nat /\ scan.total \in Nat /\ scan.ok <= scan.total
  BY DEF ReencryptRow, ScanOwnsDatabase, EndTxn, Goto, TypeOK
<1>2. \A j \in Ids \ scan.todo :
        scan.ok = scan.total => tVault[j] \in {NoKey, keys[a].enc}
  BY <1>1 DEF ScanOwnsDatabase
<1>3. CASE /\ tVault' = [tVault EXCEPT ![i] = keys[a].enc]
           /\ scan' = RowDone(i, 1)
  <2>1. /\ scan'.todo = scan.todo \ {i}
        /\ scan'.ok = scan.ok + 1 /\ scan'.total = scan.total + 1
    BY <1>3 DEF RowDone
  <2>2. tVault'[i] = keys[a].enc
    BY <1>3 DEF TypeOK
  <2>3. \A j \in Ids \ {i} : tVault'[j] = tVault[j]
    BY <1>3 DEF TypeOK
  <2> QED BY <1>1, <1>2, <2>1, <2>2, <2>3 DEF OwnsDatabase
<1>4. CASE scan' = RowDone(i, 0)
  <2>1. scan'.ok = scan.ok /\ scan'.total = scan.total + 1
    BY <1>1, <1>4 DEF RowDone
  <2> QED BY <1>1, <2>1 DEF OwnsDatabase
<1>5. CASE Goto(a, "cancelled")
  BY <1>5 DEF Goto, TypeOK
<1> QED BY <1>3, <1>4, <1>5, Zenon DEF ReencryptRow

LEMMA ScanStep ==
  ASSUME TypeOK, HandlerAlone, ScanOwnsDatabase, NEW a \in Apps, Step(a)
  PROVE  ScanOwnsDatabase'
<1>1. OwnsDatabase(a)'
  <2>1. CASE page'[a] = "scan"
    BY <2>1, ScanSteps, ScanBegins, ScanContinues
  <2>2. CASE page'[a] # "scan"
    BY <2>2 DEF OwnsDatabase
  <2> QED BY <2>1, <2>2
<1>2. ASSUME NEW b \in Apps \ {a} PROVE OwnsDatabase(b)'
  BY OthersKeep, ScanOthers DEF Untouched, ScanOwnsDatabase, OwnsDatabase
<1> QED BY <1>1, <1>2 DEF ScanOwnsDatabase, OwnsDatabase

(***************************************************************************)
(* The inductive invariant and what follows from it.                       *)
(***************************************************************************)
LEMMA InitInv == Init => IndInv
BY TypeInit, PageNames DEF Init, IndInv, HandlerAlone, ScanOwnsDatabase

LEMMA NextInv == IndInv /\ [Next]_vars => IndInv'
<1> SUFFICES ASSUME IndInv, [Next]_vars PROVE IndInv'
  OBVIOUS
<1>1. CASE Next
  BY <1>1, TypeStep, HandlerStep, ScanStep DEF IndInv, Next
<1>2. CASE UNCHANGED vars
  BY <1>2 DEF IndInv, vars, TypeOK, HandlerAlone, ScanOwnsDatabase, NoLogin
<1> QED BY <1>1, <1>2

\* Every variable keeps its type in every behaviour.
THEOREM TypeCorrect == Spec => []TypeOK
<1>1. IndInv => TypeOK
  BY DEF IndInv
<1> QED BY <1>1, InitInv, NextInv, PTL DEF Spec

\* A running re-encryption (db_helper.cpp, reencryptAllEntries) has the
\* database to itself and its counters can be trusted, whatever faults occur.
THEOREM ReencryptionIsAlone == Spec => []ScanOwnsDatabase
<1>1. IndInv => ScanOwnsDatabase
  BY DEF IndInv
<1> QED BY <1>1, InitInv, NextInv, PTL DEF Spec

(***************************************************************************)
(* The rows of key_store: what one step does to them, whoever takes it.    *)
(***************************************************************************)
LEMMA RowsStep ==
  ASSUME TypeOK, ScanOwnsDatabase, NEW b \in Apps, Step(b)
  PROVE  \/ UNCHANGED <<auth, tAuth, owner, author>>
         \/ /\ owner \in {NoApp, b} /\ author' \in {NoApp, b}
            /\ UNCHANGED owner
            /\ IF owner = b THEN UNCHANGED auth ELSE UNCHANGED tAuth
         \/ /\ author' = IF author = b THEN NoApp ELSE author
            /\ UNCHANGED <<auth, tAuth, owner>>
         \/ /\ owner = NoApp /\ owner' = b /\ tAuth' = auth
            /\ UNCHANGED <<auth, author>>
         \/ /\ owner = b /\ owner' = NoApp /\ auth' \in {auth, tAuth}
            /\ UNCHANGED author
<1> USE DEF txn, disk
<1>1. ASSUME Dies(b) \/ LoginFails(b)
      PROVE  \/ UNCHANGED <<auth, tAuth, owner, author>>
             \/ /\ owner = b /\ owner' = NoApp /\ auth' \in {auth, tAuth}
                /\ UNCHANGED author
  BY <1>1 DEF Dies, LoginFails, EndTxn
<1>2. CASE Process(b)
  BY <1>1, <1>2 DEF Process, Start, Exit, Crash
<1>3. CASE Session(b)
  BY <1>1, <1>3 DEF Session, OpenLogin, AuthMissing, CancelLogin, Login
<1>4. CASE Entry(b)
  BY <1>4 DEF Entry, AddEntry, OpenEdit, CloseEdit, DeleteEntry
<1>5. CASE Wizard(b)
  BY <1>1, <1>5 DEF Wizard, OpenWizard, CancelWizard, AcceptWizard
<1>6. CASE Save(b)
  <2>1. ASSUME NEW rows, WriteAuth(b, rows), UNCHANGED owner
        PROVE  /\ owner \in {NoApp, b} /\ author' \in {NoApp, b}
               /\ IF owner = b THEN UNCHANGED auth ELSE UNCHANGED tAuth
    BY <2>1, NullAssumption DEF WriteAuth
  <2>2. \/ WriteRefused(b) /\ UNCHANGED owner
        \/ /\ owner \in {NoApp, b} /\ author' \in {NoApp, b}
           /\ UNCHANGED owner
           /\ IF owner = b THEN UNCHANGED auth ELSE UNCHANGED tAuth
    BY <1>6, <2>1 DEF Save, SaveHash, SaveSalt, SaveParams, SaveEncSalt
  <2> QED BY <2>2 DEF WriteRefused
<1>7. CASE ChangeDialog(b)
  BY <1>7 DEF ChangeDialog, OpenChange, CancelChange, AcceptChange,
     VerifyCurrent, PressChange
<1>8. CASE Reencrypt(b)
  <2>1. page[b] = "scan" => owner = b
    BY DEF ScanOwnsDatabase
  <2> QED
    BY <1>8, <2>1 DEF Reencrypt, BeginReencrypt, CommitReencrypt, CommitFails,
       ReencryptRow, EndTxn, ScanEnds
<1> QED BY <1>2, <1>3, <1>4, <1>5, <1>6, <1>7, <1>8 DEF Step

LEMMA AuthorSeenStep ==
  ASSUME TypeOK, ScanOwnsDatabase, AuthorIsSeen, NEW b \in Apps, Step(b)
  PROVE  AuthorIsSeen'
BY RowsStep, NullAssumption DEF AuthorIsSeen, TypeOK

\* No other process makes a process the author, or changes what it sees of
\* its rows as long as it is.
LEMMA AuthorKeepsRows ==
  ASSUME TypeOK, ScanOwnsDatabase, AuthorIsSeen,
         NEW b \in Apps, Step(b), NEW a \in Apps \ {b}, author' = a
  PROVE  author = a /\ AuthSeenBy(a)' = AuthSeenBy(a)
BY RowsStep, NullAssumption DEF AuthorIsSeen, AuthSeenBy, TypeOK

LEMMA StoredByOthers ==
  ASSUME TypeOK, ScanOwnsDatabase, RowsInv,
         NEW b \in Apps, Step(b), NEW a \in Apps \ {b}
  PROVE  StoredSoFar(a)'
<1>1. page'[a] = page[a] /\ ui'[a] = ui[a] /\ keys'[a] = keys[a]
  BY OthersKeep DEF Untouched
<1>2. author' = a => author = a /\ AuthSeenBy(a)' = AuthSeenBy(a)
  BY AuthorKeepsRows DEF RowsInv
<1>3. StoredSoFar(a)
  BY DEF RowsInv, AllStoredSoFar
<1>4. page'[a] \in AfterEncSalt => keys'[a].enc = ui'[a].next
  BY <1>1, <1>3 DEF StoredSoFar
<1>5. CASE author' = a
  BY <1>1, <1>2, <1>3, <1>4, <1>5 DEF StoredSoFar
<1>6. CASE author' # a
  BY <1>4, <1>6 DEF StoredSoFar
<1> QED BY <1>5, <1>6

\* One statement on key_store stores one row, seen at once by its process.
LEMMA RowWritten ==
  ASSUME NEW a \in Apps, NEW rows, WriteAuth(a, rows), UNCHANGED owner
  PROVE  /\ AuthSeenBy(a)' = rows
         /\ author' = a => page[a] = "hash" \/ author = a
BY NullAssumption DEF WriteAuth, AuthSeenBy

LEMMA RowFields ==
  ASSUME NEW rows \in AuthRows, NEW x
  PROVE  /\ [rows EXCEPT !.hash = x].hash = x
         /\ [rows EXCEPT !.salt = x].salt = x
         /\ [rows EXCEPT !.salt = x].hash = rows.hash
         /\ [rows EXCEPT !.params = TRUE].params
         /\ [rows EXCEPT !.params = TRUE].hash = rows.hash
         /\ [rows EXCEPT !.params = TRUE].salt = rows.salt
         /\ [rows EXCEPT !.encSalt = x].encSalt = x
         /\ [rows EXCEPT !.encSalt = x].hash = rows.hash
         /\ [rows EXCEPT !.encSalt = x].salt = rows.salt
         /\ [rows EXCEPT !.encSalt = x].params = rows.params
BY DEF AuthRows

\* A refused statement leaves a process that is not the author.
LEMMA RefusedIsNoAuthor ==
  ASSUME NEW a \in Apps, WriteRefused(a)
  PROVE  author' # a
BY NullAssumption DEF WriteRefused

LEMMA StoredBySave ==
  ASSUME TypeOK, NEW a \in Apps, StoredSoFar(a), Save(a)
  PROVE  StoredSoFar(a)'
<1> DEFINE rows == AuthSeenBy(a)
<1>1. rows \in AuthRows /\ ui[a] \in Memory
  BY TypeSeen DEF TypeOK
<1> USE PageNames DEF AfterHash, AfterSalt, AfterParams, AfterEncSalt
<1>2. CASE SaveHash(a)
  <2>1. ui' = ui /\ keys' = keys /\ page[a] = "hash"
    BY <1>2 DEF SaveHash
  <2>2. CASE WriteAuth(a, [rows EXCEPT !.hash = ui[a].next]) /\ Goto(a, "salt")
    <3>1. page'[a] = "salt"
      BY <2>2 DEF Goto, TypeOK
    <3>2. AuthSeenBy(a)' = [rows EXCEPT !.hash = ui[a].next]
      BY <1>2, <2>2, RowWritten DEF SaveHash
    <3>3. AuthSeenBy(a)'.hash = ui[a].next
      BY <1>1, <3>2, RowFields
    <3> QED BY <2>1, <3>1, <3>3 DEF StoredSoFar
  <2>3. CASE WriteRefused(a) /\ Goto(a, "encSalt")
    <3>1. page'[a] = "encSalt"
      BY <2>3 DEF Goto, TypeOK
    <3> QED BY <2>3, <3>1, RefusedIsNoAuthor DEF StoredSoFar
  <2> QED BY <1>2, <2>2, <2>3 DEF SaveHash
<1>3. CASE SaveSalt(a)
  <2>1. ui' = ui /\ keys' = keys /\ page[a] = "salt"
    BY <1>3 DEF SaveSalt
  <2>2. CASE /\ WriteAuth(a, [rows EXCEPT !.salt = ui[a].next[2]])
             /\ Goto(a, "params")
    <3>1. page'[a] = "params"
      BY <2>2 DEF Goto, TypeOK
    <3>2. /\ AuthSeenBy(a)' = [rows EXCEPT !.salt = ui[a].next[2]]
          /\ author' = a => author = a
      BY <1>3, <2>1, <2>2, RowWritten DEF SaveSalt
    <3>3. /\ AuthSeenBy(a)'.salt = ui[a].next[2]
          /\ AuthSeenBy(a)'.hash = rows.hash
      BY <1>1, <3>2, RowFields
    <3> QED BY <2>1, <3>1, <3>2, <3>3 DEF StoredSoFar
  <2>3. CASE WriteRefused(a) /\ Goto(a, "encSalt")
    <3>1. page'[a] = "encSalt"
      BY <2>3 DEF Goto, TypeOK
    <3> QED BY <2>3, <3>1, RefusedIsNoAuthor DEF StoredSoFar
  <2> QED BY <1>3, <2>2, <2>3 DEF SaveSalt
<1>4. CASE SaveParams(a)
  <2>1. /\ ui' = ui /\ keys' = keys
        /\ page[a] = "params" /\ page'[a] = "encSalt"
    BY <1>4 DEF SaveParams, Goto, TypeOK
  <2>2. CASE WriteAuth(a, [rows EXCEPT !.params = TRUE])
    <3>1. /\ AuthSeenBy(a)' = [rows EXCEPT !.params = TRUE]
          /\ author' = a => author = a
      BY <1>4, <2>1, <2>2, RowWritten DEF SaveParams
    <3>2. /\ AuthSeenBy(a)'.params
          /\ AuthSeenBy(a)'.hash = rows.hash
          /\ AuthSeenBy(a)'.salt = rows.salt
      BY <1>1, <3>1, RowFields
    <3> QED BY <2>1, <3>1, <3>2 DEF StoredSoFar
  <2>3. CASE WriteRefused(a)
    BY <2>1, <2>3, RefusedIsNoAuthor DEF StoredSoFar
  <2> QED BY <1>4, <2>2, <2>3 DEF SaveParams
<1>5. CASE SaveEncSalt(a)
  <2>1. page[a] = "encSalt" /\ keys'[a].enc = ui[a].next
    BY <1>5 DEF SaveEncSalt, StoreKeys, TypeOK, KeySlots
  <2>2. \/ page'[a] = "askLogin"
        \/ page'[a] = "begin" /\ ui' = ui
    BY <1>5 DEF SaveEncSalt, Goto, TypeOK
  <2>3. CASE page'[a] = "askLogin"
    BY <2>3 DEF StoredSoFar
  <2>4. CASE /\ page'[a] = "begin" /\ ui' = ui
             /\ WriteAuth(a, [rows EXCEPT !.encSalt = ui[a].next[2]])
    <3>1. /\ AuthSeenBy(a)' = [rows EXCEPT !.encSalt = ui[a].next[2]]
          /\ author' = a => author = a
      BY <1>5, <2>1, <2>4, RowWritten DEF SaveEncSalt
    <3>2. /\ AuthSeenBy(a)'.encSalt = ui[a].next[2]
          /\ AuthSeenBy(a)'.hash = rows.hash
          /\ AuthSeenBy(a)'.salt = rows.salt
          /\ AuthSeenBy(a)'.params = rows.params
      BY <1>1, <3>1, RowFields
    <3> QED BY <2>1, <2>4, <3>1, <3>2 DEF StoredSoFar
  <2>5. CASE page'[a] = "begin" /\ ui' = ui /\ WriteRefused(a)
    BY <2>1, <2>5, RefusedIsNoAuthor DEF StoredSoFar
  <2> QED BY <1>5, <2>2, <2>3, <2>4, <2>5 DEF SaveEncSalt
<1> QED BY <1>2, <1>3, <1>4, <1>5 DEF Save

LEMMA StoredBySelf ==
  ASSUME TypeOK, HandlerAlone, ScanOwnsDatabase, RowsInv,
         NEW a \in Apps, Step(a)
  PROVE  StoredSoFar(a)'
<1>1. StoredSoFar(a)
  BY DEF RowsInv, AllStoredSoFar
<1>2. CASE page'[a] \notin AfterHash
  BY <1>2, PageNames
  DEF StoredSoFar, AfterHash, AfterSalt, AfterParams, AfterEncSalt
<1>3. CASE Save(a)
  BY <1>1, <1>3, StoredBySave
<1>4. CASE BeginReencrypt(a) /\ page'[a] \in AfterHash
  <2>1. /\ page[a] = "begin" /\ page'[a] = "scan"
        /\ ui' = ui /\ keys' = keys /\ author' = author
        /\ AuthSeenBy(a)' = AuthSeenBy(a)
    BY <1>4, PageNames, NullAssumption
    DEF BeginReencrypt, Goto, TypeOK, AfterHash, AuthSeenBy, disk
  <2> QED
    BY <1>1, <2>1, PageNames
    DEF StoredSoFar, AfterHash, AfterSalt, AfterParams, AfterEncSalt
<1>5. ASSUME NEW i \in Ids, ReencryptRow(a, i), page'[a] \in AfterHash
      PROVE  StoredSoFar(a)'
  <2>1. /\ page[a] = "scan" /\ page' = page
        /\ ui' = ui /\ keys' = keys /\ author' = author
        /\ AuthSeenBy(a)' = AuthSeenBy(a)
    BY <1>5, PageNames
    DEF ReencryptRow, Goto, TypeOK, AfterHash, AuthSeenBy, disk
  <2> QED BY <1>1, <2>1 DEF StoredSoFar
<1> QED BY <1>2, <1>3, <1>4, <1>5, HandlerSteps

LEMMA NextRows == IndInv /\ RowsInv /\ [Next]_vars => RowsInv'
<1> SUFFICES ASSUME IndInv, RowsInv, [Next]_vars PROVE RowsInv'
  OBVIOUS
<1>1. CASE Next
  <2>1. PICK b \in Apps : Step(b)
    BY <1>1 DEF Next
  <2>2. AuthorIsSeen'
    BY <2>1, AuthorSeenStep DEF IndInv, RowsInv
  <2>3. ASSUME NEW a \in Apps PROVE StoredSoFar(a)'
    BY <2>1, StoredBySelf, StoredByOthers DEF IndInv
  <2> QED BY <2>2, <2>3 DEF RowsInv, AllStoredSoFar
<1>2. CASE UNCHANGED vars
  BY <1>2 DEF RowsInv, AllStoredSoFar, StoredSoFar, AuthorIsSeen, AuthSeenBy,
     vars
<1> QED BY <1>1, <1>2

LEMMA InitRows == Init => RowsInv
BY PageNames
DEF Init, RowsInv, AllStoredSoFar, StoredSoFar, AuthorIsSeen, AfterHash,
    AfterSalt, AfterParams, AfterEncSalt


\* "success" is reached by the commit of a re-encryption and in no other way.
LEMMA OnlyCommitSucceeds ==
  ASSUME TypeOK, NEW a \in Apps, Step(a),
         page[a] # "success", page'[a] = "success"
  PROVE  CommitReencrypt(a)
<1> USE PageNames DEF TypeOK, Goto, txn, disk
<1>1. ~Dies(a) /\ ~LoginFails(a)
  BY DEF Dies, LoginFails
<1>2. ~Process(a)
  BY <1>1 DEF Process, Start, Exit, Crash
<1>3. ~Session(a)
  BY <1>1 DEF Session, OpenLogin, AuthMissing, CancelLogin, Login
<1>4. ~Entry(a)
  BY DEF Entry, AddEntry, OpenEdit, CloseEdit, DeleteEntry
<1>5. ~Wizard(a)
  BY <1>1 DEF Wizard, OpenWizard, CancelWizard, AcceptWizard
<1>6. ~Save(a)
  BY DEF Save, SaveHash, SaveSalt, SaveParams, SaveEncSalt
<1>7. ~ChangeDialog(a)
  BY DEF ChangeDialog, OpenChange, CancelChange, AcceptChange,
     VerifyCurrent, PressChange
<1>8. ~BeginReencrypt(a) /\ ~CommitFails(a)
  BY DEF BeginReencrypt, CommitFails
<1>9. ASSUME NEW i \in Ids PROVE ~ReencryptRow(a, i)
  BY DEF ReencryptRow
<1> QED
  BY <1>2, <1>3, <1>4, <1>5, <1>6, <1>7, <1>8, <1>9 DEF Step, Reencrypt

LEMMA SuccessStep ==
  ASSUME "read" \notin Faults, IndInv, RowsInv, NEW a \in Apps, Next,
         page[a] # "success", page'[a] = "success"
  PROVE  /\ AllUnder(vault', keys'[a].enc)
         /\ author = a =>
              /\ Accepts(auth', ui'[a].next[1])
              /\ DerivedKey(auth', ui'[a].next[1]) = keys'[a].enc
<1> USE DEF IndInv
<1>1. CommitReencrypt(a)
  <2>1. PICK b \in Apps : Step(b)
    BY DEF Next
  <2>2. b = a
    BY <2>1, OthersKeep DEF Untouched
  <2> QED BY <2>1, <2>2, OnlyCommitSucceeds
<1>2. /\ page[a] = "scan" /\ scan.todo = {}
      /\ vault' = tVault /\ auth' = tAuth /\ ui' = ui
  BY <1>1 DEF CommitReencrypt, ScanEnds
<1>3. scan.ok = scan.total
  BY <1>1 DEF CommitReencrypt, Goto, TypeOK
<1>4. keys'[a].enc = keys[a].enc
  BY <1>1 DEF CommitReencrypt, StoreKeys, TypeOK, KeySlots
<1>5. AllUnder(vault', keys'[a].enc)
  BY <1>2, <1>3, <1>4 DEF ScanOwnsDatabase, AllUnder
<1>6. AuthSeenBy(a) = auth'
  BY <1>2 DEF AuthSeenBy, ScanOwnsDatabase
<1>7. ASSUME author = a
      PROVE  /\ Accepts(auth', ui'[a].next[1])
             /\ DerivedKey(auth', ui'[a].next[1]) = keys'[a].enc
  <2>1. /\ auth'.hash = ui[a].next
        /\ auth'.salt = ui[a].next[2]
        /\ auth'.params
        /\ auth'.encSalt = ui[a].next[2]
        /\ keys[a].enc = ui[a].next
    BY <1>2, <1>6, <1>7, PageNames
    DEF RowsInv, AllStoredSoFar, StoredSoFar, AfterHash, AfterSalt,
        AfterParams, AfterEncSalt
  <2>2. ui[a].next = <<ui[a].next[1], ui[a].next[2]>>
    BY <1>2, PageNames DEF HandlerAlone, Keys
  <2> QED BY <1>2, <1>4, <2>1, <2>2 DEF Accepts, DerivedKey
<1> QED BY <1>5, <1>7

\* If the SELECT of the loop never fails, the success message of
\* ChangePasswordDialog is true of the entries, and of the password too if
\* none of its own statements on key_store was refused: failed UPDATEs,
\* failed commits, crashes, dialogs and other processes cannot make it lie.
THEOREM SuccessCanBeTrusted ==
  ASSUME "read" \notin Faults
  PROVE  Spec => SuccessIsTruthful
<1>1. ASSUME IndInv, RowsInv, [Next]_vars
      PROVE [\A a \in Apps :
               page[a] # "success" /\ page'[a] = "success"
                 => /\ AllUnder(vault', keys'[a].enc)
                    /\ author = a =>
                         /\ Accepts(auth', ui'[a].next[1])
                         /\ DerivedKey(auth', ui'[a].next[1])
                              = keys'[a].enc]_vars
  <2>1. CASE Next
    BY <1>1, <2>1, SuccessStep
  <2>2. CASE UNCHANGED vars
    BY <2>2
  <2> QED BY <1>1, <2>1, <2>2
<1> QED
  BY <1>1, InitInv, NextInv, InitRows, NextRows, PTL
  DEF Spec, SuccessIsTruthful
=============================================================================
