------------------------------ MODULE Exchange ------------------------------
(***************************************************************************)
(* Export and import of entries, and sharing them with contacts: the       *)
(* windows of several users, each with a program and a vault of its own,   *)
(* and the file that goes from one to another.                             *)
(*                                                                         *)
(* A window shows one message box after another; what a user decides in    *)
(* one of them is part of the step.  An exception that no slot catches     *)
(* ends the program, and the RSA pair with it: it is kept in memory only.  *)
(*                                                                         *)
(* What the program `bw` of Bitwarden writes is its account: nothing in    *)
(* the scripts of this program relates it to the file that was chosen.     *)
(***************************************************************************)
EXTENDS Formats

CONSTANTS
  Users,
  Batches,      \* what may be selected for an export
  Offered,      \* user -> which of them it may select
  Selected,     \* and for a share
  Passwords,    \* of exports and shares; "other" is none of them
  Zone,         \* user -> its offset from UTC, in half days
  Lifetimes,    \* how long a share may be valid, in half days
  MaxTime,      \* bound on the clock, in half days
  MaxPairs,     \* bound on RSA pairs
  MaxContacts,  \* user -> bound on its contacts
  ReadsMayFail  \* whether the key of a contact may be unreadable

ASSUME BatchesAssumption ==
  Batches \subseteq Seq(Entries) /\ Offered \in [Users -> SUBSET Batches] /\ Selected \subseteq Entries
ASSUME PasswordsAssumption == Passwords \cap {"none", "other"} = {}
ASSUME ZoneAssumption == Zone \in [Users -> -1 .. 1]
ASSUME LifetimesAssumption == Lifetimes \subseteq Nat
ASSUME BoundsAssumption == MaxTime \in Nat /\ MaxPairs \in Nat /\ MaxContacts \in [Users -> Nat]
ASSUME ReadsAssumption == ReadsMayFail \in BOOLEAN

VARIABLES
  now,      \* the time in UTC
  pairs,    \* RSA pairs generated so far
  pair,     \* user -> the pair of its program, 0 if it does not run
  handed,   \* public keys that were saved or copied, by their pairs
  contacts, \* user -> the keys of its contacts
  saved,    \* user -> entries saved from shares
  window,   \* user -> its open window
  disk      \* the file

vars == <<now, pairs, pair, handed, contacts, saved, window, disk>>

Kinds == {"native", "csv", "lastpass", "json"}
NoFile == [kind |-> "none"]
Truncated == [kind |-> "truncated"]  \* opened for writing, nothing written yet
Closed == [kind |-> "none"]
Typed == Passwords \cup {"none", "other"}

Exports == [kind : Kinds, entries : Batches, password : Passwords \cup {"none"}]

\* A share is for a key, or under a password if key is 0.
\* signed: has the fields signature and sender_public_key, which this version
\* reads but does not write.  compact: no blanks, which this version writes and
\* which matter with a password only.
\* shown, sure (history): the key of the contact that was shown, and whether
\* the window said that it had loaded it; of a share for a key.
Shares ==
  [kind : {"share"}, key : 0 .. MaxPairs, password : Passwords \cup {"none"}, entry : Selected, expires : Nat,
   signed : BOOLEAN, compact : BOOLEAN, shown : 0 .. MaxPairs, sure : BOOLEAN]

\* file (history) is the last file that was loaded.
Previews ==
  [kind : {"import"}, file : Exports \cup Shares \cup {NoFile}, entries : Seq(Entry), isShare : BOOLEAN]
\* index: the selected contact, 0 if there is none.  loaded: what its label says.
Sharings ==
  [kind : {"share"}, entry : Selected, index : Nat, key : 0 .. MaxPairs, loaded : BOOLEAN]
\* onExport: what it does next, and the file it is making.
Stages == {"encrypt", "open", "write"}
Exportings == [kind : {"export"}, stage : Stages, file : Exports]
\* The key that was read, 0 if none was.
KeyImports == [kind : {"contact"}, key : 0 .. MaxPairs]

TypeOK ==
  /\ now \in 0 .. MaxTime
  /\ pairs \in 0 .. MaxPairs
  /\ pair \in [Users -> 0 .. pairs]
  /\ handed \subseteq 1 .. pairs
  /\ contacts \in [Users -> Seq(1 .. pairs)]
  /\ saved \in [Users -> SUBSET Entry]
  /\ window \in [Users -> Previews \cup Sharings \cup Exportings \cup KeyImports \cup {Closed}]
  /\ disk \in Exports \cup Shares \cup {NoFile, Truncated}

Runs(u) == pair[u] # 0
Idle(u) == Runs(u) /\ window[u] = Closed
Importing(u) == window[u].kind = "import"
Sharing(u) == window[u].kind = "share"
AddingContact(u) == window[u].kind = "contact"
Exporting(u, stage) == window[u].kind = "export" /\ window[u].stage = stage
Show(u, w) == window' = [window EXCEPT ![u] = w]

Init ==
  /\ now = 0
  /\ pairs = 0
  /\ pair = [u \in Users |-> 0]
  /\ handed = {}
  /\ contacts = [u \in Users |-> <<>>]
  /\ saved = [u \in Users |-> {}]
  /\ window = [u \in Users |-> Closed]
  /\ disk = NoFile

(***************************************************************************)
(* The program and its pair                                                *)
(***************************************************************************)
NewPair(u) ==
  /\ pairs < MaxPairs
  /\ pairs' = pairs + 1
  /\ pair' = [pair EXCEPT ![u] = pairs + 1]

\* showLoginDialog: a login generates a pair where the program has none,
Login(u) ==
  /\ ~Runs(u)
  /\ NewPair(u)
  /\ UNCHANGED <<now, handed, contacts, saved, window, disk>>

\* as it has not after clearAllKeys.
ChangePassword(u) ==
  /\ Idle(u)
  /\ NewPair(u)
  /\ UNCHANGED <<now, handed, contacts, saved, window, disk>>

Ends(u) ==
  /\ pair' = [pair EXCEPT ![u] = 0]
  /\ Show(u, Closed)
  /\ UNCHANGED <<now, pairs, handed, contacts, saved>>

Quit(u) == Idle(u) /\ Ends(u) /\ UNCHANGED disk

(***************************************************************************)
(* Public keys and contacts                                                *)
(***************************************************************************)
ExportPublicKey(u) ==
  /\ Idle(u)
  /\ handed' = handed \cup {pair[u]}
  /\ UNCHANGED <<now, pairs, pair, contacts, saved, window, disk>>

OpenKeyImport(u) ==
  /\ Idle(u)
  /\ Show(u, [kind |-> "contact", key |-> 0])
  /\ UNCHANGED <<now, pairs, pair, handed, contacts, saved, disk>>

\* What is not a public key leaves the one that was read before.
PickKey(u, key) ==
  /\ AddingContact(u)
  /\ Show(u, [window[u] EXCEPT !.key = key])
  /\ UNCHANGED <<now, pairs, pair, handed, contacts, saved, disk>>

\* Mutant of AddContact: nothing need have been read.
AddContactUnread(u) ==
  /\ AddingContact(u)
  /\ Len(contacts[u]) < MaxContacts[u]
  /\ contacts' = [contacts EXCEPT ![u] = Append(@, window[u].key)]
  /\ Show(u, Closed)
  /\ UNCHANGED <<now, pairs, pair, handed, saved, disk>>

AddContact(u) ==
  /\ AddingContact(u)
  /\ window[u].key # 0
  /\ Len(contacts[u]) < MaxContacts[u]
  /\ contacts' = [contacts EXCEPT ![u] = Append(@, window[u].key)]
  /\ Show(u, Closed)
  /\ UNCHANGED <<now, pairs, pair, handed, saved, disk>>

(***************************************************************************)
(* Sharing                                                                 *)
(***************************************************************************)
\* The constructor selects the contact whose name comes first, if there is one.
OpenShare(u, entry, first, reads) ==
  /\ Idle(u)
  /\ IF contacts[u] = <<>> THEN first = 0 /\ ~reads ELSE first \in DOMAIN contacts[u]
  /\ first = 0 \/ reads \/ ReadsMayFail
  /\ Show(u, [kind |-> "share", entry |-> entry, index |-> first,
               key |-> IF reads THEN contacts[u][first] ELSE 0, loaded |-> reads])
  /\ UNCHANGED <<now, pairs, pair, handed, contacts, saved, disk>>

\* Mutant of SelectContact: the label is set, the key is not.
SelectContactForgetsKey(u, i, reads) ==
  /\ Sharing(u)
  /\ i # window[u].index
  /\ reads \/ ReadsMayFail
  /\ Show(u, [window[u] EXCEPT !.index = i, !.loaded = reads])
  /\ UNCHANGED <<now, pairs, pair, handed, contacts, saved, disk>>

\* A key that cannot be read leaves that of the contact selected before.
SelectContact(u, i, reads) ==
  /\ Sharing(u)
  /\ i # window[u].index
  /\ reads \/ ReadsMayFail
  /\ Show(u, [kind |-> "share", entry |-> window[u].entry, index |-> i,
               key |-> IF reads THEN contacts[u][i] ELSE window[u].key, loaded |-> reads])
  /\ UNCHANGED <<now, pairs, pair, handed, contacts, saved, disk>>

\* saveToFile for a share of the window's entry.  The date is in UTC.
WriteShare(u, key, password, lifetime) ==
  LET w == window[u] IN
  /\ disk' = [kind |-> "share", key |-> key, password |-> password, entry |-> w.entry,
              expires |-> now + lifetime, signed |-> FALSE, compact |-> FALSE,
              shown |-> IF key = 0 THEN 0 ELSE contacts[u][w.index], sure |-> key # 0 /\ w.loaded]
  /\ Show(u, Closed)
  /\ UNCHANGED <<now, pairs, pair, handed, contacts, saved>>

ShareWithPassword(u, password, lifetime) ==
  Sharing(u) /\ WriteShare(u, 0, password, lifetime)

ShareWithPublicKey(u, lifetime) ==
  Sharing(u) /\ window[u].key # 0 /\ WriteShare(u, window[u].key, "none", lifetime)

\* A share from elsewhere, with a signature.
Deliver(key, password, entry, expires, compact) ==
  /\ disk' = [kind |-> "share", key |-> key, password |-> password, entry |-> entry,
              expires |-> expires, signed |-> TRUE, compact |-> compact,
              shown |-> 0, sure |-> FALSE]
  /\ UNCHANGED <<now, pairs, pair, handed, contacts, saved, window>>

(***************************************************************************)
(* Export                                                                  *)
(***************************************************************************)
Encrypted(kind) == kind = "native"
ExportOf(kind, batch, password) ==
  [kind |-> kind, entries |-> batch, password |-> IF Encrypted(kind) THEN password ELSE "none"]
ExportAt(stage, file) == [kind |-> "export", stage |-> stage, file |-> file]

\* onExport, the master password and the password of the file given.  It runs
\* to its end without the event loop.
StartExport(u, kind, batch, password) ==
  /\ Idle(u)
  /\ kind # "json"
  /\ Show(u, ExportAt(IF Encrypted(kind) THEN "encrypt" ELSE "open", ExportOf(kind, batch, password)))
  /\ UNCHANGED <<now, pairs, pair, handed, contacts, saved, disk>>

Encrypt(u) ==
  /\ Exporting(u, "encrypt")
  /\ Show(u, ExportAt("open", window[u].file))
  /\ UNCHANGED <<now, pairs, pair, handed, contacts, saved, disk>>

\* Mutant of EncryptFails: the entries are encrypted on their way to the file.
EncryptFailsOpened(u) ==
  Exporting(u, "write") /\ Encrypted(window[u].file.kind) /\ Ends(u) /\ UNCHANGED disk

\* AES-128 is given a key of 256 bits, which its cipher refuses.  Nothing
\* catches the exception.
EncryptFails(u) == Exporting(u, "encrypt") /\ Ends(u) /\ UNCHANGED disk

\* std::ofstream truncates the file that was there before,
OpenFile(u) ==
  /\ Exporting(u, "open")
  /\ disk' = Truncated
  /\ Show(u, ExportAt("write", window[u].file))
  /\ UNCHANGED <<now, pairs, pair, handed, contacts, saved>>

\* or it does not open, and that throws too.
OpenFails(u) == Exporting(u, "open") /\ Ends(u) /\ UNCHANGED disk

WriteFile(u) ==
  /\ Exporting(u, "write")
  /\ disk' = window[u].file
  /\ Show(u, Closed)
  /\ UNCHANGED <<now, pairs, pair, handed, contacts, saved>>

\* A .csv is handed to a script in a terminal, which has `bw` read it and then
\* write the whole account, whatever came of the reading; or the .csv cannot be
\* opened, which throws.
ExportForBitwarden(u, account) ==
  /\ Idle(u)
  /\ \/ /\ disk' = ExportOf("json", account, "none")
        /\ UNCHANGED <<now, pairs, pair, handed, contacts, saved, window>>
     \/ Ends(u) /\ UNCHANGED disk

(***************************************************************************)
(* Import                                                                  *)
(***************************************************************************)
NoPreview == [kind |-> "import", file |-> NoFile, entries |-> <<>>, isShare |-> FALSE]

OpenImport(u) ==
  /\ Idle(u)
  /\ Show(u, NoPreview)
  /\ UNCHANGED <<now, pairs, pair, handed, contacts, saved, disk>>

\* The text in UTC is read as local time.
isExpired(u, share) == now + Zone[u] > share.expires

\* importSharedEntry asks for the password only if it finds the method in the
\* text of the file, which it looks for without blanks.
PasswordFor(share, typed) == IF share.compact /\ share.key = 0 THEN typed ELSE "none"

Opens(u, share, typed) ==
  /\ share.signed
  /\ ~isExpired(u, share)
  /\ IF share.key = 0
       THEN typed # "none" /\ PasswordFor(share, typed) = share.password
       ELSE share.key = pair[u]

\* Mutant of Cleared: only a new preview replaces the old one.
KeptPreview(w) == w

\* Every load clears the preview first.
Cleared(w) == [w EXCEPT !.entries = <<>>]
NothingLoaded(w) == [Cleared(w) EXCEPT !.file = NoFile]

ShareEntries(share) == <<Serialized(share.entry)>>

LoadShare(u, typed) ==
  /\ Importing(u)
  /\ disk.kind = "share"
  /\ Show(u, IF Opens(u, disk, typed)
               THEN [kind |-> "import", file |-> disk, entries |-> ShareEntries(disk), isShare |-> TRUE]
               ELSE NothingLoaded(window[u]))
  /\ UNCHANGED <<now, pairs, pair, handed, contacts, saved, disk>>

ShowEntries(u, entries) ==
  /\ Show(u, [kind |-> "import", file |-> disk, entries |-> entries, isShare |-> FALSE])
  /\ UNCHANGED <<now, pairs, pair, handed, contacts, saved, disk>>

ShowFile(u) == ShowEntries(u, FromFile(disk.kind, disk.entries))

ShowNothing(u) ==
  /\ Show(u, NothingLoaded(window[u]))
  /\ UNCHANGED <<now, pairs, pair, handed, contacts, saved, disk>>

LoadExport(u, typed) ==
  /\ Importing(u)
  /\ disk.kind = "native"
  /\ typed = disk.password
  /\ ShowFile(u)

\* Another password has the decryption throw, which nothing catches.
LoadWithWrongPassword(u, typed) ==
  /\ Importing(u)
  /\ disk.kind = "native"
  /\ typed \notin {"none", disk.password}
  /\ Ends(u)
  /\ UNCHANGED disk

LoadTable(u) == Importing(u) /\ disk.kind \in {"csv", "lastpass"} /\ ShowFile(u)

\* What is read is not the chosen file but export.csv, which a script has `bw`
\* write after it has read the file.  The script tests nothing and nobody waits
\* for it or removes export.csv: at "OK" it may hold what an earlier import
\* left, or the account with or without the entries of the file.
LoadBitwarden(u, found) ==
  /\ Importing(u)
  /\ disk.kind = "json"
  /\ FromFile("json", found) # <<>>
  /\ ShowEntries(u, FromFile("json", found))

\* A password that is not typed, a file that is empty or cannot be opened, a
\* cancelled import of `bw`, a name the program does not know.
LoadFails(u) == Importing(u) /\ ShowNothing(u)

\* onImport of a share: "Yes" saves it, "No" only closes the window.  An
\* ordinary import into the vault is the subject of EntryTable.
SaveShare(u) ==
  /\ Importing(u)
  /\ window[u].isShare /\ Len(window[u].entries) = 1
  /\ saved' = [saved EXCEPT ![u] = @ \cup {[window[u].entries[1] EXCEPT !["created"] = "plain"]}]
  /\ Show(u, Closed)
  /\ UNCHANGED <<now, pairs, pair, handed, contacts, disk>>

\* No event reaches a window whose handler is exporting.
CloseWindow(u) ==
  /\ window[u].kind \in {"import", "share", "contact"}
  /\ Show(u, Closed)
  /\ UNCHANGED <<now, pairs, pair, handed, contacts, saved, disk>>

Tick ==
  /\ now < MaxTime
  /\ now' = now + 1
  /\ UNCHANGED <<pairs, pair, handed, contacts, saved, window, disk>>

Next ==
  \/ \E u \in Users :
       \/ Login(u) \/ ChangePassword(u) \/ Quit(u)
       \/ ExportPublicKey(u) \/ OpenKeyImport(u) \/ AddContact(u)
       \/ \E key \in handed : PickKey(u, key)
       \/ \E entry \in Selected, first \in 0 .. Len(contacts[u]), reads \in BOOLEAN :
            OpenShare(u, entry, first, reads)
       \/ \E i \in DOMAIN contacts[u], reads \in BOOLEAN : SelectContact(u, i, reads)
       \/ \E lifetime \in Lifetimes :
            \/ ShareWithPublicKey(u, lifetime)
            \/ \E password \in Passwords : ShareWithPassword(u, password, lifetime)
       \/ \E kind \in Kinds, batch \in Offered[u], password \in Passwords : StartExport(u, kind, batch, password)
       \/ \E batch \in Batches : ExportForBitwarden(u, batch) \/ LoadBitwarden(u, batch)
       \/ Encrypt(u) \/ EncryptFails(u) \/ OpenFile(u) \/ OpenFails(u) \/ WriteFile(u)
       \/ OpenImport(u)
       \/ \E typed \in Typed : LoadShare(u, typed) \/ LoadExport(u, typed) \/ LoadWithWrongPassword(u, typed)
       \/ LoadTable(u) \/ LoadFails(u)
       \/ SaveShare(u) \/ CloseWindow(u)
  \/ \E entry \in Selected, lifetime \in Lifetimes :
       \/ \E key \in handed : Deliver(key, "none", entry, now + lifetime, FALSE)
       \/ \E password \in Passwords, compact \in BOOLEAN :
            Deliver(0, password, entry, now + lifetime, compact)
  \/ Tick

Spec == Init /\ [][Next]_vars

(***************************************************************************)
(* Properties                                                              *)
(***************************************************************************)
\* What the import window is about to save is what the last file it loaded
\* gives, and it takes it for a share exactly if that file is one: nothing of
\* an earlier file is left after a load that failed (loadAndParseFile,
\* m_isShareImport).  Of a .json it says only that it is no share: its preview
\* is of export.csv, which may be of another file.
PreviewIsOfLoaded ==
  \A u \in Users : Importing(u) /\ window[u].entries # <<>> =>
    LET w == window[u] IN
    IF w.isShare
      THEN w.file.kind = "share" /\ w.entries = ShareEntries(w.file)
      ELSE /\ w.file.kind \in Kinds
           /\ w.file.kind # "json" => w.entries = FromFile(w.file.kind, w.file.entries)

\* A share for a public key is for the key of the contact that was shown, if the
\* window said that the key was loaded, whatever reads failed before
\* (onContactSelected keeps the previous key).
ShareIsForShown ==
  disk.kind = "share" /\ disk.key # 0 /\ disk.sure => disk.key = disk.shown

\* An entry that no conversion has a reason to change is read back from an
\* encrypted or .csv export as it was, whatever is beside it in the file.
ReadBack ==
  \A u \in Users : Importing(u) /\ window[u].file.kind \in {"native", "csv"} =>
    LET w == window[u] IN
    \A i \in DOMAIN w.file.entries : Untouched(w.file.entries[i]) =>
      \E j \in DOMAIN w.entries : w.entries[j] = Kept(w.file.kind, w.file.entries[i])

\* A truncated file is about to be written: what can throw in an export (the
\* encryption, the opening) comes before the file that was there is gone, so
\* that an export that ends the program has not destroyed an earlier one
\* (exportToEncryptedJSON, exportToCSV, exportToLastPassCSV).
TruncatedIsWritten == disk = Truncated => \E u \in Users : Exporting(u, "write")

\* A share this version writes can be opened by a program of this version: with
\* its password, or by the user whose pair it is for, before it expires
\* (importSharedEntry).
ShareRoundTrip ==
  \A u \in Users :
    /\ disk.kind = "share" /\ ~disk.signed
    /\ Importing(u) /\ ~isExpired(u, disk)
    /\ disk.key \in {0, pair[u]}
    => Opens(u, disk, disk.password)
=============================================================================
