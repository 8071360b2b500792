--------------------------- MODULE ExchangeProofs ---------------------------
(***************************************************************************)
(* Theorems about Exchange, for any users, entries, batches, passwords and *)
(* numbers of pairs and contacts.                                          *)
(*                                                                         *)
(* Three inductive invariants.  IInv says of every window what fields it   *)
(* has, that a preview fits its file, and that a loaded key is that of the *)
(* selected contact; it holds whatever the conversions of Formats do.      *)
(* WInv says, on top of it, that a truncated file has a writer.            *)
(* TInv has the types, which rest on what the conversions make of a file,  *)
(* by induction over its entries.                                          *)
(***************************************************************************)
EXTENDS Exchange, TLAPS, SequenceTheorems, WellFoundedInduction

Shape(w) ==
  \/ w = Closed
  \/ w = [kind |-> "import", file |-> w.file, entries |-> w.entries, isShare |-> w.isShare]
  \/ w = [kind |-> "share", entry |-> w.entry, index |-> w.index, key |-> w.key, loaded |-> w.loaded]
  \/ w = [kind |-> "contact", key |-> w.key]
  \/ w = [kind |-> "export", stage |-> w.stage, file |-> w.file]

PreviewFits(w) ==
  w.kind = "import" /\ w.entries # <<>> =>
    IF w.isShare
      THEN w.file.kind = "share" /\ w.entries = ShareEntries(w.file)
      ELSE /\ w.file.kind \in Kinds
           /\ w.file.kind # "json" => w.entries = FromFile(w.file.kind, w.file.entries)

ExportFits(w) == w.kind = "export" => w.file.kind \in Kinds

KeyFits(keys, w) == w.kind = "share" /\ w.loaded => w.key = keys[w.index]

Fits(keys, w) == Shape(w) /\ PreviewFits(w) /\ ExportFits(w) /\ KeyFits(keys, w)

WindowsFit == \A u \in Users : Fits(contacts[u], window[u])

IInv ==
  /\ window = [u \in Users |-> window[u]]
  /\ contacts = [u \in Users |-> contacts[u]]
  /\ WindowsFit
  /\ ShareIsForShown

(***************************************************************************)
(* Windows                                                                 *)
(***************************************************************************)
LEMMA ClosedFits == \A keys : Fits(keys, Closed)
BY DEF Fits, Shape, PreviewFits, ExportFits, KeyFits, Closed

LEMMA NothingLoadedFits ==
  ASSUME NEW keys, NEW w, Shape(w), w.kind = "import"
  PROVE  Fits(keys, NothingLoaded(w))
<1>1. /\ w = [kind |-> "import", file |-> w.file, entries |-> w.entries, isShare |-> w.isShare]
      /\ DOMAIN w = {"kind", "file", "entries", "isShare"}
  BY DEF Shape, Closed
<1>2. Cleared(w) = [kind |-> "import", file |-> w.file, entries |-> <<>>, isShare |-> w.isShare]
  BY <1>1 DEF Cleared
<1>3. NothingLoaded(w) = [kind |-> "import", file |-> NoFile, entries |-> <<>>, isShare |-> w.isShare]
  BY <1>2 DEF NothingLoaded
<1> QED BY <1>3 DEF Fits, Shape, PreviewFits, ExportFits, KeyFits

\* A step of one window to one that fits.
LEMMA ShowKeepsIInv ==
  ASSUME IInv, NEW u \in Users, NEW w, Show(u, w), Fits(contacts[u], w),
         UNCHANGED contacts, ShareIsForShown'
  PROVE  IInv'
<1>1. window' = [v \in Users |-> IF v = u THEN w ELSE window[v]]
  BY DEF IInv, Show
<1>2. WindowsFit'
  BY <1>1 DEF IInv, WindowsFit
<1> QED BY <1>1, <1>2 DEF IInv

\* A step of one window that leaves the file alone.
LEMMA QuietShowKeepsIInv ==
  ASSUME IInv, NEW u \in Users, NEW w, Show(u, w), Fits(contacts[u], w),
         UNCHANGED <<contacts, disk>>
  PROVE  IInv'
<1>1. ShareIsForShown'
  BY DEF IInv, ShareIsForShown
<1> QED BY <1>1, ShowKeepsIInv

\* A step of the file alone.
LEMMA WriteKeepsIInv ==
  ASSUME IInv, UNCHANGED <<contacts, window>>, ShareIsForShown'
  PROVE  IInv'
BY DEF IInv, WindowsFit

LEMMA QuietKeepsIInv ==
  ASSUME IInv, UNCHANGED <<contacts, window, disk>>
  PROVE  IInv'
BY DEF IInv, WindowsFit, ShareIsForShown

LEMMA EndsKeepsIInv ==
  ASSUME IInv, NEW u \in Users, Ends(u), UNCHANGED disk
  PROVE  IInv'
BY ClosedFits, QuietShowKeepsIInv DEF Ends

(***************************************************************************)
(* Contacts and sharing                                                    *)
(***************************************************************************)
LEMMA AddContactKeepsIInv ==
  ASSUME IInv, NEW u \in Users, AddContact(u)
  PROVE  IInv'
<1>1. window' = [v \in Users |-> IF v = u THEN Closed ELSE window[v]]
  BY DEF AddContact, Show, IInv
<1>2. contacts' = [v \in Users |-> IF v = u THEN Append(contacts[u], window[u].key) ELSE contacts[v]]
  BY DEF AddContact, IInv
<1>3. WindowsFit'
  <2> SUFFICES ASSUME NEW v \in Users PROVE Fits(contacts'[v], window'[v])
    BY DEF WindowsFit
  <2>1. CASE v = u
    BY <2>1, <1>1, ClosedFits
  <2>2. CASE v # u
    BY <2>2, <1>1, <1>2 DEF IInv, WindowsFit
  <2> QED BY <2>1, <2>2
<1>4. ShareIsForShown'
  BY DEF AddContact, IInv, ShareIsForShown
<1> QED BY <1>1, <1>2, <1>3, <1>4 DEF IInv

LEMMA OpenKeyImportKeepsIInv ==
  ASSUME IInv, NEW u \in Users, OpenKeyImport(u)
  PROVE  IInv'
<1> DEFINE w == [kind |-> "contact", key |-> 0]
<1>1. Fits(contacts[u], w)
  BY DEF Fits, Shape, PreviewFits, ExportFits, KeyFits
<1> QED BY <1>1, QuietShowKeepsIInv DEF OpenKeyImport

LEMMA PickKeyKeepsIInv ==
  ASSUME IInv, NEW u \in Users, NEW key, PickKey(u, key)
  PROVE  IInv'
<1> DEFINE w == [window[u] EXCEPT !.key = key]
<1>1. window[u] = [kind |-> "contact", key |-> window[u].key]
  BY DEF IInv, WindowsFit, Fits, Shape, PickKey, AddingContact, Closed
<1>2. w = [kind |-> "contact", key |-> key]
  BY <1>1
<1>3. Fits(contacts[u], w)
  BY <1>2 DEF Fits, Shape, PreviewFits, ExportFits, KeyFits
<1>4. Show(u, w) /\ UNCHANGED <<contacts, disk>>
  BY DEF PickKey
<1> HIDE DEF w
<1> QED BY <1>3, <1>4, QuietShowKeepsIInv

LEMMA OpenShareKeepsIInv ==
  ASSUME IInv, NEW u \in Users, NEW entry, NEW first, NEW reads \in BOOLEAN,
         OpenShare(u, entry, first, reads)
  PROVE  IInv'
<1> DEFINE w == [kind |-> "share", entry |-> entry, index |-> first,
                 key |-> IF reads THEN contacts[u][first] ELSE 0, loaded |-> reads]
<1>1. Fits(contacts[u], w)
  BY DEF Fits, Shape, PreviewFits, ExportFits, KeyFits
<1>2. Show(u, w) /\ UNCHANGED <<contacts, disk>>
  BY DEF OpenShare
<1> HIDE DEF w
<1> QED BY <1>1, <1>2, QuietShowKeepsIInv

LEMMA SelectContactKeepsIInv ==
  ASSUME IInv, NEW u \in Users, NEW i, NEW reads \in BOOLEAN, SelectContact(u, i, reads)
  PROVE  IInv'
<1> DEFINE w == [kind |-> "share", entry |-> window[u].entry, index |-> i,
                 key |-> IF reads THEN contacts[u][i] ELSE window[u].key, loaded |-> reads]
<1>1. Fits(contacts[u], w)
  BY DEF Fits, Shape, PreviewFits, ExportFits, KeyFits
<1>2. Show(u, w) /\ UNCHANGED <<contacts, disk>>
  BY DEF SelectContact
<1> HIDE DEF w
<1> QED BY <1>1, <1>2, QuietShowKeepsIInv

\* The key of the window is that of the contact shown, if it says so.
LEMMA WriteShareKeepsIInv ==
  ASSUME IInv, NEW u \in Users, NEW key, NEW password, NEW lifetime,
         Sharing(u), key \in {0, window[u].key}, WriteShare(u, key, password, lifetime)
  PROVE  IInv'
<1>1. KeyFits(contacts[u], window[u])
  BY DEF IInv, WindowsFit, Fits
<1>2. /\ disk'.key = key
      /\ disk'.sure = (key # 0 /\ window[u].loaded)
      /\ disk'.shown = IF key = 0 THEN 0 ELSE contacts[u][window[u].index]
  BY DEF WriteShare
<1>3. ShareIsForShown'
  <2> SUFFICES ASSUME disk'.key # 0, disk'.sure PROVE disk'.key = disk'.shown
    BY DEF ShareIsForShown
  <2>1. key = window[u].key /\ window[u].loaded /\ key # 0
    BY <1>2
  <2> QED BY <1>1, <1>2, <2>1 DEF KeyFits, Sharing
<1>4. Show(u, Closed) /\ UNCHANGED contacts
  BY DEF WriteShare
<1> QED BY <1>3, <1>4, ClosedFits, ShowKeepsIInv

LEMMA DeliverKeepsIInv ==
  ASSUME IInv, NEW key, NEW password, NEW entry, NEW expires, NEW compact,
         Deliver(key, password, entry, expires, compact)
  PROVE  IInv'
<1>1. ShareIsForShown'
  BY DEF Deliver, ShareIsForShown
<1> QED BY <1>1, WriteKeepsIInv DEF Deliver

(***************************************************************************)
(* Export and import                                                       *)
(***************************************************************************)
LEMMA StartExportKeepsIInv ==
  ASSUME IInv, NEW u \in Users, NEW kind \in Kinds, NEW batch, NEW password,
         StartExport(u, kind, batch, password)
  PROVE  IInv'
<1> DEFINE file == ExportOf(kind, batch, password)
           w == ExportAt(IF Encrypted(kind) THEN "encrypt" ELSE "open", file)
<1>1. file.kind = kind
  BY DEF ExportOf
<1> HIDE DEF file
<1>2. Fits(contacts[u], w)
  BY <1>1 DEF Fits, Shape, PreviewFits, ExportFits, KeyFits, ExportAt
<1>3. Show(u, w) /\ UNCHANGED <<contacts, disk>>
  BY DEF StartExport, file
<1> HIDE DEF w
<1> QED BY <1>2, <1>3, QuietShowKeepsIInv

\* The next stage of an export is of the same file.
LEMMA NextStageFits ==
  ASSUME IInv, NEW u \in Users, window[u].kind = "export", NEW stage
  PROVE  Fits(contacts[u], ExportAt(stage, window[u].file))
<1>1. window[u].file.kind \in Kinds
  BY DEF IInv, WindowsFit, Fits, ExportFits
<1> QED BY <1>1 DEF Fits, Shape, PreviewFits, ExportFits, KeyFits, ExportAt

LEMMA EncryptKeepsIInv ==
  ASSUME IInv, NEW u \in Users, Encrypt(u)
  PROVE  IInv'
BY NextStageFits, QuietShowKeepsIInv DEF Encrypt, Exporting

LEMMA OpenFileKeepsIInv ==
  ASSUME IInv, NEW u \in Users, OpenFile(u)
  PROVE  IInv'
<1>1. ShareIsForShown'
  BY DEF OpenFile, ShareIsForShown, Truncated
<1> QED BY <1>1, NextStageFits, ShowKeepsIInv DEF OpenFile, Exporting

LEMMA WriteFileKeepsIInv ==
  ASSUME IInv, NEW u \in Users, WriteFile(u)
  PROVE  IInv'
<1>1. disk'.kind \in Kinds
  BY DEF IInv, WindowsFit, Fits, ExportFits, WriteFile, Exporting
<1>2. ShareIsForShown'
  BY <1>1 DEF ShareIsForShown, Kinds
<1> QED BY <1>2, ClosedFits, ShowKeepsIInv DEF WriteFile

LEMMA ExportForBitwardenKeepsIInv ==
  ASSUME IInv, NEW u \in Users, NEW account, ExportForBitwarden(u, account)
  PROVE  IInv'
<1>1. CASE disk' = ExportOf("json", account, "none") /\ UNCHANGED <<contacts, window>>
  <2>1. disk'.kind = "json"
    BY <1>1 DEF ExportOf
  <2>2. ShareIsForShown'
    BY <2>1 DEF ShareIsForShown
  <2> QED BY <1>1, <2>2, WriteKeepsIInv
<1>2. CASE Ends(u) /\ UNCHANGED disk
  BY <1>2, EndsKeepsIInv
<1> QED BY <1>1, <1>2 DEF ExportForBitwarden

LEMMA OpenImportKeepsIInv ==
  ASSUME IInv, NEW u \in Users, OpenImport(u)
  PROVE  IInv'
<1>1. Fits(contacts[u], NoPreview)
  BY DEF Fits, Shape, PreviewFits, ExportFits, KeyFits, NoPreview
<1> QED BY <1>1, QuietShowKeepsIInv DEF OpenImport

LEMMA ImportHasShape ==
  ASSUME IInv, NEW u \in Users, Importing(u)
  PROVE  Fits(contacts[u], NothingLoaded(window[u]))
BY NothingLoadedFits DEF IInv, WindowsFit, Fits, Importing

LEMMA LoadShareKeepsIInv ==
  ASSUME IInv, NEW u \in Users, NEW typed, LoadShare(u, typed)
  PROVE  IInv'
<1> DEFINE w == [kind |-> "import", file |-> disk, entries |-> ShareEntries(disk), isShare |-> TRUE]
<1>1. Fits(contacts[u], w)
  BY DEF Fits, Shape, PreviewFits, ExportFits, KeyFits, LoadShare
<1>2. Fits(contacts[u], NothingLoaded(window[u]))
  BY ImportHasShape DEF LoadShare
<1>3. Show(u, IF Opens(u, disk, typed) THEN w ELSE NothingLoaded(window[u])) /\ UNCHANGED <<contacts, disk>>
  BY DEF LoadShare
<1> HIDE DEF w
<1> QED BY <1>1, <1>2, <1>3, QuietShowKeepsIInv

LEMMA ShowEntriesKeepsIInv ==
  ASSUME IInv, NEW u \in Users, NEW entries, disk.kind \in Kinds, ShowEntries(u, entries),
         disk.kind = "json" \/ entries = FromFile(disk.kind, disk.entries)
  PROVE  IInv'
<1> DEFINE w == [kind |-> "import", file |-> disk, entries |-> entries, isShare |-> FALSE]
<1>1. Fits(contacts[u], w)
  BY DEF Fits, Shape, PreviewFits, ExportFits, KeyFits
<1>2. Show(u, w) /\ UNCHANGED <<contacts, disk>>
  BY DEF ShowEntries
<1> HIDE DEF w
<1> QED BY <1>1, <1>2, QuietShowKeepsIInv

LEMMA ShowFileKeepsIInv ==
  ASSUME IInv, NEW u \in Users, disk.kind \in Kinds, ShowFile(u)
  PROVE  IInv'
BY ShowEntriesKeepsIInv DEF ShowFile

LEMMA LoadBitwardenKeepsIInv ==
  ASSUME IInv, NEW u \in Users, NEW found, LoadBitwarden(u, found)
  PROVE  IInv'
<1>1. disk.kind = "json" /\ disk.kind \in Kinds /\ ShowEntries(u, FromFile("json", found))
  BY DEF LoadBitwarden, Kinds
<1> QED BY <1>1, ShowEntriesKeepsIInv

LEMMA LoadFailsKeepsIInv ==
  ASSUME IInv, NEW u \in Users, LoadFails(u)
  PROVE  IInv'
<1>1. Show(u, NothingLoaded(window[u])) /\ UNCHANGED <<contacts, disk>> /\ Importing(u)
  BY DEF LoadFails, ShowNothing
<1> QED BY <1>1, ImportHasShape, QuietShowKeepsIInv

(***************************************************************************)
(* The invariant                                                           *)
(***************************************************************************)
LEMMA InitIInv == Init => IInv
<1> SUFFICES ASSUME Init PROVE IInv
  OBVIOUS
<1>1. WindowsFit
  BY ClosedFits DEF Init, WindowsFit
<1>2. ShareIsForShown
  BY DEF Init, ShareIsForShown, NoFile
<1> QED BY <1>1, <1>2 DEF Init, IInv

LEMMA NextIInv == IInv /\ [Next]_vars => IInv'
<1> SUFFICES ASSUME IInv, [Next]_vars PROVE IInv'
  OBVIOUS
<1>1. ASSUME NEW u \in Users, Login(u) \/ ChangePassword(u) \/ ExportPublicKey(u) PROVE IInv'
  BY <1>1, QuietKeepsIInv DEF Login, ChangePassword, ExportPublicKey
<1>2. ASSUME NEW u \in Users, Quit(u) \/ EncryptFails(u) \/ OpenFails(u) PROVE IInv'
  BY <1>2, EndsKeepsIInv DEF Quit, EncryptFails, OpenFails
<1>3. ASSUME NEW u \in Users, OpenKeyImport(u) \/ AddContact(u) \/ \E key \in handed : PickKey(u, key)
      PROVE  IInv'
  BY <1>3, OpenKeyImportKeepsIInv, AddContactKeepsIInv, PickKeyKeepsIInv
<1>4. ASSUME NEW u \in Users, NEW entry \in Selected, NEW first \in 0 .. Len(contacts[u]),
             NEW reads \in BOOLEAN, OpenShare(u, entry, first, reads)
      PROVE  IInv'
  BY <1>4, OpenShareKeepsIInv
<1>5. ASSUME NEW u \in Users, NEW i \in DOMAIN contacts[u], NEW reads \in BOOLEAN, SelectContact(u, i, reads)
      PROVE  IInv'
  BY <1>5, SelectContactKeepsIInv
<1>6. ASSUME NEW u \in Users, NEW lifetime \in Lifetimes, ShareWithPublicKey(u, lifetime) PROVE IInv'
  BY <1>6, WriteShareKeepsIInv DEF ShareWithPublicKey
<1>7. ASSUME NEW u \in Users, NEW lifetime \in Lifetimes, NEW password \in Passwords,
             ShareWithPassword(u, password, lifetime)
      PROVE  IInv'
  BY <1>7, WriteShareKeepsIInv DEF ShareWithPassword
<1>8. ASSUME NEW u \in Users, NEW kind \in Kinds, NEW batch \in Offered[u], NEW password \in Passwords,
             StartExport(u, kind, batch, password)
      PROVE  IInv'
  BY <1>8, StartExportKeepsIInv
<1>9. ASSUME NEW u \in Users, Encrypt(u) \/ OpenFile(u) \/ WriteFile(u) PROVE IInv'
  BY <1>9, EncryptKeepsIInv, OpenFileKeepsIInv, WriteFileKeepsIInv
<1>10. ASSUME NEW u \in Users, OpenImport(u) PROVE IInv'
  BY <1>10, OpenImportKeepsIInv
<1>11. ASSUME NEW u \in Users, NEW typed \in Typed,
              LoadShare(u, typed) \/ LoadExport(u, typed) \/ LoadWithWrongPassword(u, typed)
       PROVE  IInv'
  BY <1>11, LoadShareKeepsIInv, ShowFileKeepsIInv, EndsKeepsIInv DEF LoadExport, LoadWithWrongPassword, Kinds
<1>12. ASSUME NEW u \in Users, LoadTable(u) PROVE IInv'
  BY <1>12, ShowFileKeepsIInv DEF LoadTable, Kinds
<1>13. ASSUME NEW u \in Users, LoadFails(u) PROVE IInv'
  BY <1>13, LoadFailsKeepsIInv
<1>14. ASSUME NEW u \in Users, SaveShare(u) \/ CloseWindow(u) PROVE IInv'
  BY <1>14, ClosedFits, QuietShowKeepsIInv DEF SaveShare, CloseWindow
<1>15. ASSUME NEW key, NEW password, NEW entry, NEW lifetime, NEW compact,
              Deliver(key, password, entry, now + lifetime, compact)
       PROVE  IInv'
  BY <1>15, DeliverKeepsIInv
<1>16. ASSUME NEW u \in Users, NEW batch \in Batches, ExportForBitwarden(u, batch) \/ LoadBitwarden(u, batch)
       PROVE  IInv'
  BY <1>16, ExportForBitwardenKeepsIInv, LoadBitwardenKeepsIInv
<1>17. CASE Tick \/ UNCHANGED vars
  BY <1>17, QuietKeepsIInv DEF Tick, vars
<1> QED
  BY <1>1, <1>2, <1>3, <1>4, <1>5, <1>6, <1>7, <1>8, <1>9, <1>10, <1>11, <1>12, <1>13, <1>14, <1>15, <1>16, <1>17
     DEF Next

LEMMA AlwaysIInv == Spec => []IInv
BY InitIInv, NextIInv, PTL DEF Spec

\* What is about to be imported is what the last loaded file gives, for any
\* conversions, unless `bw` was asked; and it is taken for a share exactly if
\* the file is one (loadAndParseFile, m_isShareImport).
THEOREM PreviewsFit == Spec => []PreviewIsOfLoaded
<1>1. IInv => PreviewIsOfLoaded
  BY DEF IInv, WindowsFit, Fits, PreviewFits, PreviewIsOfLoaded, Importing
<1> QED BY <1>1, AlwaysIInv, PTL

\* A share for a public key is for the contact shown, if its key was loaded
\* (onContactSelected).
THEOREM SharesFit == Spec => []ShareIsForShown
<1>1. IInv => ShareIsForShown
  BY DEF IInv
<1> QED BY <1>1, AlwaysIInv, PTL

(***************************************************************************)
(* A file that was opened                                                  *)
(***************************************************************************)
\* A window in stage "write" is left by WriteFile only: every Ends is of an
\* earlier stage or of no export at all.
WInv ==
  /\ window = [u \in Users |-> window[u]]
  /\ TruncatedIsWritten

\* Whatever windows other users have, a step of one that was not writing
\* leaves the writer where it was.
LEMMA OtherKeepsWriting ==
  ASSUME WInv, NEW u \in Users, NEW w, Show(u, w), UNCHANGED disk,
         window[u].kind # "export" \/ window[u].stage # "write"
  PROVE  WInv'
<1>1. window' = [v \in Users |-> IF v = u THEN w ELSE window[v]]
  BY DEF WInv, Show
<1>2. ASSUME NEW v \in Users, Exporting(v, "write") PROVE window'[v] = window[v]
  BY <1>1, <1>2 DEF Exporting
<1>3. TruncatedIsWritten'
  BY <1>2 DEF WInv, TruncatedIsWritten, Exporting
<1> QED BY <1>1, <1>3 DEF WInv

LEMMA WrittenIsWhole ==
  ASSUME WInv, disk' # Truncated,
         (\E u \in Users : \E w : Show(u, w)) \/ UNCHANGED window
  PROVE  WInv'
<1>1. window' = [u \in Users |-> window'[u]]
  BY DEF WInv, Show
<1> QED BY <1>1 DEF WInv, TruncatedIsWritten

LEMMA QuietKeepsWriting ==
  ASSUME WInv, UNCHANGED <<window, disk>>
  PROVE  WInv'
BY DEF WInv, TruncatedIsWritten, Exporting

LEMMA OpenFileIsWriting ==
  ASSUME WInv, NEW u \in Users, OpenFile(u)
  PROVE  WInv'
<1> DEFINE w == ExportAt("write", window[u].file)
<1>1. window' = [v \in Users |-> IF v = u THEN w ELSE window[v]]
  BY DEF WInv, Show, OpenFile
<1>2. Exporting(u, "write")'
  BY <1>1 DEF Exporting, ExportAt
<1> QED BY <1>1, <1>2 DEF WInv, TruncatedIsWritten

\* An end in an earlier stage, or of a program without an export, is no end of
\* a writer.
LEMMA NextWInv == IInv /\ WInv /\ [Next]_vars => WInv'
<1> SUFFICES ASSUME IInv, WInv, [Next]_vars PROVE WInv'
  OBVIOUS
<1>1. ASSUME NEW u \in Users, Login(u) \/ ChangePassword(u) \/ ExportPublicKey(u) PROVE WInv'
  BY <1>1, QuietKeepsWriting DEF Login, ChangePassword, ExportPublicKey
<1>2. ASSUME NEW u \in Users, Quit(u) \/ EncryptFails(u) \/ OpenFails(u) PROVE WInv'
  BY <1>2, OtherKeepsWriting DEF Quit, EncryptFails, OpenFails, Idle, Closed, Exporting, Ends
<1>3. ASSUME NEW u \in Users, OpenKeyImport(u) \/ AddContact(u) \/ OpenImport(u) PROVE WInv'
  BY <1>3, OtherKeepsWriting DEF OpenKeyImport, AddContact, OpenImport, Idle, Closed, AddingContact
<1>4. ASSUME NEW u \in Users, NEW key \in handed, PickKey(u, key) PROVE WInv'
  BY <1>4, OtherKeepsWriting DEF PickKey, AddingContact
<1>5. ASSUME NEW u \in Users, NEW entry \in Selected, NEW first \in 0 .. Len(contacts[u]),
             NEW reads \in BOOLEAN, OpenShare(u, entry, first, reads)
      PROVE  WInv'
  BY <1>5, OtherKeepsWriting DEF OpenShare, Idle, Closed
<1>6. ASSUME NEW u \in Users, NEW i \in DOMAIN contacts[u], NEW reads \in BOOLEAN, SelectContact(u, i, reads)
      PROVE  WInv'
  BY <1>6, OtherKeepsWriting DEF SelectContact, Sharing
<1>7. ASSUME NEW u \in Users, NEW key, NEW password, NEW lifetime, WriteShare(u, key, password, lifetime)
      PROVE  WInv'
  <2>1. disk' # Truncated
    BY <1>7 DEF WriteShare, Truncated
  <2> QED BY <1>7, <2>1, WrittenIsWhole DEF WriteShare
<1>8. ASSUME NEW u \in Users, NEW kind \in Kinds, NEW batch \in Offered[u], NEW password \in Passwords,
             StartExport(u, kind, batch, password)
      PROVE  WInv'
  BY <1>8, OtherKeepsWriting DEF StartExport, Idle, Closed
<1>9. ASSUME NEW u \in Users, Encrypt(u) PROVE WInv'
  BY <1>9, OtherKeepsWriting DEF Encrypt, Exporting
<1>10. ASSUME NEW u \in Users, OpenFile(u) PROVE WInv'
  BY <1>10, OpenFileIsWriting
<1>11. ASSUME NEW u \in Users, WriteFile(u) PROVE WInv'
  <2>1. disk' # Truncated
    BY <1>11 DEF WriteFile, Exporting, IInv, WindowsFit, Fits, ExportFits, Kinds, Truncated
  <2> QED BY <1>11, <2>1, WrittenIsWhole DEF WriteFile
<1>12. ASSUME NEW u \in Users, NEW account \in Batches, ExportForBitwarden(u, account) PROVE WInv'
  <2>1. CASE disk' = ExportOf("json", account, "none") /\ UNCHANGED window
    <3>1. disk' # Truncated
      BY <2>1 DEF ExportOf, Truncated
    <3> QED BY <2>1, <3>1, WrittenIsWhole
  <2>2. CASE Ends(u) /\ UNCHANGED disk
    BY <1>12, <2>2, OtherKeepsWriting DEF ExportForBitwarden, Idle, Closed, Ends
  <2> QED BY <1>12, <2>1, <2>2 DEF ExportForBitwarden
<1>13. ASSUME NEW u \in Users, NEW entries, ShowEntries(u, entries), Importing(u) PROVE WInv'
  BY <1>13, OtherKeepsWriting DEF ShowEntries, Importing
<1>14. ASSUME NEW u \in Users, LoadTable(u) \/ LoadFails(u) PROVE WInv'
  BY <1>13, <1>14, OtherKeepsWriting DEF LoadTable, ShowFile, LoadFails, ShowNothing, Importing
<1>15. ASSUME NEW u \in Users, NEW typed \in Typed,
              LoadShare(u, typed) \/ LoadExport(u, typed) \/ LoadWithWrongPassword(u, typed)
       PROVE  WInv'
  BY <1>13, <1>15, OtherKeepsWriting DEF LoadShare, LoadExport, LoadWithWrongPassword, ShowFile, Importing, Ends
<1>16. ASSUME NEW u \in Users, NEW found \in Batches, LoadBitwarden(u, found) PROVE WInv'
  BY <1>13, <1>16 DEF LoadBitwarden
<1>17. ASSUME NEW u \in Users, SaveShare(u) \/ CloseWindow(u) PROVE WInv'
  BY <1>17, OtherKeepsWriting DEF SaveShare, CloseWindow, Importing
<1>18. ASSUME NEW key, NEW password, NEW entry, NEW lifetime, NEW compact,
              Deliver(key, password, entry, now + lifetime, compact)
       PROVE  WInv'
  <2>1. disk' # Truncated
    BY <1>18 DEF Deliver, Truncated
  <2> QED BY <1>18, <2>1, WrittenIsWhole DEF Deliver
<1>19. CASE Tick \/ UNCHANGED vars
  BY <1>19, QuietKeepsWriting DEF Tick, vars
<1> QED
  BY <1>1, <1>2, <1>3, <1>4, <1>5, <1>6, <1>7, <1>8, <1>9, <1>10, <1>11, <1>12, <1>14, <1>15, <1>16, <1>17,
     <1>18, <1>19
     DEF Next, ShareWithPublicKey, ShareWithPassword

\* A file that was truncated is about to be written: no exception of an export
\* comes between the two (exportToEncryptedJSON, exportToCSV,
\* exportToLastPassCSV).
THEOREM TruncatedFilesAreWritten == Spec => []TruncatedIsWritten
<1>1. Init => WInv
  BY DEF Init, WInv, TruncatedIsWritten, NoFile, Truncated
<1>2. WInv => TruncatedIsWritten
  BY DEF WInv
<1> QED BY <1>1, <1>2, NextWInv, AlwaysIInv, PTL DEF Spec

(***************************************************************************)
(* Induction, and sequences joined one after the other                     *)
(***************************************************************************)
\* Of a set that has 0 and with every number the next.  The library states it
\* with an operator as its parameter, which no prover here can be given: this
\* one is for a set, by the least number that is not in it.
LEMMA Induction ==
  ASSUME NEW S, 0 \in S, \A n \in Nat : n \in S => n + 1 \in S
  PROVE  Nat \subseteq S
<1> DEFINE R == OpToRel(<, Nat)
           T == Nat \ S
<1>1. SUFFICES ASSUME T # {} PROVE FALSE
  OBVIOUS
<1>2. IsWellFoundedOn(R, Nat)
  BY NatLessThanWellFounded
<1>3. PICK x \in T : \A y \in T : ~ (<<y, x>> \in R)
  <2> HIDE DEF R, T
  <2>1. T \subseteq Nat
    BY DEF T
  <2> QED BY <1>1, <1>2, <2>1, WFMin
<1>4. x - 1 \in Nat /\ x - 1 < x
  OBVIOUS
<1>5. <<x - 1, x>> \in R
  BY <1>4 DEF OpToRel
<1>6. x - 1 \in S
  BY <1>3, <1>4, <1>5
<1> QED BY <1>4, <1>6

\* f[n] is h[1], ..., h[n], one after the other, for n up to m.
Joins(f, h, m) == f = [n \in 0 .. m |-> IF n = 0 THEN <<>> ELSE f[n - 1] \o h[n]]

\* There is such a function, by induction: an equation that mentions the
\* function it defines does not say so by itself.
LEMMA JoinExists ==
  ASSUME NEW h, NEW m \in Nat
  PROVE  \E f : Joins(f, h, m)
<1> DEFINE S == {k \in Nat : \E f : Joins(f, h, k)}
<1>1. 0 \in S
  <2>1. Joins([n \in 0 .. 0 |-> <<>>], h, 0)
    BY DEF Joins
  <2> QED BY <2>1
<1>2. ASSUME NEW k \in Nat, k \in S PROVE k + 1 \in S
  <2>1. PICK f : Joins(f, h, k)
    BY <1>2
  <2> DEFINE g == [n \in 0 .. k + 1 |-> IF n = k + 1 THEN f[k] \o h[n] ELSE f[n]]
  <2>2. \A n \in 0 .. k : f[n] = IF n = 0 THEN <<>> ELSE f[n - 1] \o h[n]
    BY <2>1 DEF Joins
  <2>3. ASSUME NEW n \in 0 .. k PROVE g[n] = f[n]
    <3>1. n \in 0 .. k + 1 /\ n # k + 1
      OBVIOUS
    <3> QED BY <3>1
  <2>4. g[k + 1] = f[k] \o h[k + 1]
    <3>1. k + 1 \in 0 .. k + 1
      OBVIOUS
    <3> QED BY <3>1, Zenon
  <2>5. \A n \in 0 .. k + 1 : g[n] = IF n = 0 THEN <<>> ELSE g[n - 1] \o h[n]
    <3> SUFFICES ASSUME NEW n \in 0 .. k + 1 PROVE g[n] = IF n = 0 THEN <<>> ELSE g[n - 1] \o h[n]
      OBVIOUS
    <3>1. CASE n = k + 1
      <4>1. g[n - 1] = f[k] /\ n # 0
        BY <3>1, <2>3
      <4> QED BY <3>1, <2>4, <4>1
    <3>2. CASE n # k + 1
      <4>1. n \in 0 .. k /\ (n # 0 => n - 1 \in 0 .. k)
        BY <3>2
      <4> HIDE DEF g
      <4> QED BY <4>1, <2>2, <2>3
    <3> QED BY <3>1, <3>2
  <2>6. g = [n \in 0 .. k + 1 |-> g[n]]
    OBVIOUS
  <2> HIDE DEF g
  <2>7. g = [n \in 0 .. k + 1 |-> IF n = 0 THEN <<>> ELSE g[n - 1] \o h[n]]
    BY <2>5, <2>6
  <2>8. Joins(g, h, k + 1)
    BY <2>7, Zenon DEF Joins
  <2> QED BY <2>8
<1> HIDE DEF S
<1>3. m \in S
  BY <1>1, <1>2, Induction
<1> QED BY <1>3 DEF S

\* Some element of s is x.
Occurs(x, s) == \E k \in DOMAIN s : s[k] = x

LEMMA OccursInJoin ==
  \A T : \A s, t \in Seq(T) : \A x :
    /\ s \o t \in Seq(T)
    /\ Occurs(x, s) \/ Occurs(x, t) => Occurs(x, s \o t)
<1> SUFFICES ASSUME NEW T, NEW s \in Seq(T), NEW t \in Seq(T), NEW x
      PROVE  /\ s \o t \in Seq(T)
             /\ Occurs(x, s) \/ Occurs(x, t) => Occurs(x, s \o t)
  OBVIOUS
<1> DEFINE r == s \o t
<1>1. r \in Seq(T) /\ Len(r) = Len(s) + Len(t) /\ Len(s) \in Nat /\ Len(t) \in Nat
  OBVIOUS
<1>2. DOMAIN r = 1 .. Len(s) + Len(t) /\ DOMAIN s = 1 .. Len(s) /\ DOMAIN t = 1 .. Len(t)
  BY <1>1
<1>3. ASSUME NEW j \in DOMAIN s, s[j] = x PROVE Occurs(x, r)
  <2>1. j \in DOMAIN r /\ r[j] = s[j]
    BY <1>1, <1>2
  <2> QED BY <1>3, <2>1 DEF Occurs
<1>4. ASSUME NEW j \in DOMAIN t, t[j] = x PROVE Occurs(x, r)
  <2>1. Len(s) + j \in DOMAIN r /\ r[Len(s) + j] = t[j]
    BY <1>1, <1>2
  <2> QED BY <1>4, <2>1 DEF Occurs
<1> QED BY <1>1, <1>3, <1>4 DEF Occurs

\* What occurs in a part occurs in what the parts are joined to.
LEMMA OccursInJoins ==
  ASSUME NEW T, NEW m \in Nat, NEW h, \A n \in 1 .. m : h[n] \in Seq(T),
         NEW f, Joins(f, h, m)
  PROVE  /\ f[m] \in Seq(T)
         /\ \A n \in 1 .. m : \A x : Occurs(x, h[n]) => Occurs(x, f[m])
<1>1. \A n \in 0 .. m : f[n] = IF n = 0 THEN <<>> ELSE f[n - 1] \o h[n]
  BY DEF Joins
<1> DEFINE Has(n) ==
      /\ f[n] \in Seq(T)
      /\ \A i \in 1 .. n : \A x : Occurs(x, h[i]) => Occurs(x, f[n])
<1> DEFINE S == {n \in Nat : n <= m => Has(n)}
<1>2. 0 \in S
  <2>1. f[0] = <<>>
    BY <1>1
  <2>2. Has(0)
    BY <2>1
  <2> QED BY <2>2
<1>3. ASSUME NEW n \in Nat, n \in S PROVE n + 1 \in S
  <2> SUFFICES ASSUME n + 1 <= m PROVE Has(n + 1)
    OBVIOUS
  <2>1. Has(n)
    BY <1>3
  <2>2. f[n + 1] = f[n] \o h[n + 1] /\ h[n + 1] \in Seq(T)
    <3>1. n + 1 \in 0 .. m /\ n + 1 \in 1 .. m /\ n + 1 # 0 /\ (n + 1) - 1 = n
      OBVIOUS
    <3> QED BY <1>1, <3>1
  <2>3. f[n] \in Seq(T)
    BY <2>1
  <2>4. /\ f[n + 1] \in Seq(T)
        /\ \A x : Occurs(x, f[n]) \/ Occurs(x, h[n + 1]) => Occurs(x, f[n + 1])
    BY <2>2, <2>3, OccursInJoin, Zenon
  <2>5. ASSUME NEW i \in 1 .. n + 1, NEW x, Occurs(x, h[i])
        PROVE  Occurs(x, f[n + 1])
    <3>1. CASE i = n + 1
      BY <2>4, <2>5, <3>1, Zenon
    <3>2. CASE i # n + 1
      <4>1. i \in 1 .. n
        BY <3>2
      <4> QED BY <2>1, <2>4, <2>5, <4>1, Zenon
    <3> QED BY <3>1, <3>2
  <2> QED BY <2>4, <2>5
<1> HIDE DEF S
<1>4. m \in S
  BY <1>2, <1>3, Induction
<1> QED BY <1>4 DEF S

(***************************************************************************)
(* What the importer makes of a file                                       *)
(***************************************************************************)
Text == Texts \cup Remains

\* The conversions keep to entries.
LEMMA EntryTexts == \A e \in Entries : e \in Entry /\ \A f \in Fields : e[f] \in Texts
BY EntriesAssumption DEF Entry

LEMMA SanitizedEntry == \A e \in Entry : \A checked : Sanitized(e, checked) \in Entry
<1>1. \A t \in Text : sanitize(t) \in Text
  BY DEF Text, Texts, Remains, sanitize
<1> QED BY <1>1 DEF Sanitized, Entry, Text

LEMMA SerializedEntry == \A e \in Entry : Serialized(e) \in Entry
BY DEF Serialized, Entry, Texts

\* Every field has a column.
LEMMA Columns == \A f \in Fields : \E j \in 1 .. 8 : CSVOrder[j] = f
<1> SUFFICES ASSUME NEW f \in Fields PROVE \E j \in 1 .. 8 : CSVOrder[j] = f
  OBVIOUS
<1>1. f \in {CSVOrder[1], CSVOrder[2], CSVOrder[3], CSVOrder[4],
            CSVOrder[5], CSVOrder[6], CSVOrder[7], CSVOrder[8]}
  BY DEF CSVOrder, Fields
<1> QED BY <1>1

Column(f) == CHOOSE j \in 1 .. 8 : CSVOrder[j] = f

LEMMA ColumnOf == \A f \in Fields : Column(f) \in 1 .. 8 /\ CSVOrder[Column(f)] = f
BY Columns DEF Column

LEMMA EntryOfCells == \A cells \in Seq(Text) : EntryOf(cells) \in Entry
<1> SUFFICES ASSUME NEW cells \in Seq(Text) PROVE EntryOf(cells) \in Entry
  OBVIOUS
<1>1. \A t \in Text : Unquoted(t) \in Text
  BY DEF Text, Texts, Remains, Unquoted
<1>2. EntryOf(cells) =
        [f \in Fields |-> IF Column(f) <= Len(cells) THEN Unquoted(cells[Column(f)]) ELSE "empty"]
  BY DEF EntryOf, Column
<1>3. ASSUME NEW f \in Fields
      PROVE  (IF Column(f) <= Len(cells) THEN Unquoted(cells[Column(f)]) ELSE "empty") \in Text
  <2>1. Column(f) \in 1 .. 8 /\ "empty" \in Text
    BY ColumnOf DEF Text, Texts
  <2>2. ASSUME Column(f) <= Len(cells) PROVE cells[Column(f)] \in Text
    BY <2>1, <2>2
  <2> QED BY <1>1, <2>1, <2>2
<1> QED BY <1>2, <1>3 DEF Entry, Text

LEMMA RowOfEntry ==
  ASSUME NEW e \in Entries, NEW kind
  PROVE  RowOf(kind, e) \in Seq(Text) /\ Len(RowOf(kind, e)) = 8
<1>1. \A f \in Fields : e[f] \in Text
  BY EntryTexts DEF Text
<1>2. CSVRow(e) \in Seq(Text) /\ Len(CSVRow(e)) = 8
  <2>1. \A i \in 1 .. 8 : CSVOrder[i] \in Fields
    BY DEF CSVOrder, Fields
  <2> QED BY <1>1, <2>1 DEF CSVRow
<1>3. LastPassRow(e) \in Seq(Text) /\ Len(LastPassRow(e)) = 8
  BY <1>1 DEF LastPassRow, Fields, Text, Texts
<1> QED BY <1>2, <1>3 DEF RowOf

\* The lines are rows of texts, of which the first n are complete.
Rows(lines, n) ==
  /\ \A i \in DOMAIN lines : lines[i] \in Seq(Text)
  /\ {i \in DOMAIN lines : Len(lines[i]) >= 3} = 1 .. n

LEMMA OneRow ==
  ASSUME NEW row \in Seq(Text), Len(row) >= 3
  PROVE  Rows(<<row>>, 1)
<1>1. DOMAIN <<row>> = 1 .. 1 /\ <<row>>[1] = row
  OBVIOUS
<1>2. \A i \in 1 .. 1 : i = 1
  OBVIOUS
<1> DEFINE lines == <<row>>
<1> HIDE DEF lines
<1>3. \A i \in 1 .. 1 : lines[i] \in Seq(Text) /\ Len(lines[i]) >= 3
  BY <1>1, <1>2 DEF lines
<1> QED BY <1>1, <1>3 DEF Rows, lines

LEMMA TwoRows ==
  ASSUME NEW row \in Seq(Text), Len(row) >= 3, NEW next \in Seq(Text)
  PROVE  Rows(<<row, next>>, IF Len(next) >= 3 THEN 2 ELSE 1)
<1> DEFINE lines == <<row, next>>
<1>1. DOMAIN lines = {1, 2} /\ lines[1] = row /\ lines[2] = next
  OBVIOUS
<1> HIDE DEF lines
<1>2. \A i \in DOMAIN lines : lines[i] \in Seq(Text)
  BY <1>1
<1>3. CASE Len(next) >= 3
  <2>1. {i \in DOMAIN lines : Len(lines[i]) >= 3} = {1, 2}
    BY <1>1, <1>3
  <2>2. {1, 2} = 1 .. 2
    OBVIOUS
  <2>3. Rows(lines, 2)
    BY <1>2, <2>1, <2>2, Zenon DEF Rows
  <2> QED BY <1>3, <2>3 DEF lines
<1>4. CASE ~(Len(next) >= 3)
  <2>1. {i \in DOMAIN lines : Len(lines[i]) >= 3} = {1}
    BY <1>1, <1>4
  <2>2. {1} = 1 .. 1
    OBVIOUS
  <2>3. Rows(lines, 1)
    BY <1>2, <2>1, <2>2, Zenon DEF Rows
  <2> QED BY <1>4, <2>3 DEF lines
<1> QED BY <1>3, <1>4

\* A row that ends in its fifth cell leaves one complete line, or two.
LEMMA FromCSVEntries ==
  ASSUME NEW row \in Seq(Text), Len(row) = 8
  PROVE  FromCSV(row) \in Seq(Entry)
<1> DEFINE head == SubSeq(row, 1, 4) \o <<"first">>
           lines == LinesOf(row)
           complete == {i \in DOMAIN lines : Len(lines[i]) >= 3}
<1>1. head \in Seq(Text) /\ Len(head) = 5
  <2>1. SubSeq(row, 1, 4) \in Seq(Text) /\ Len(SubSeq(row, 1, 4)) = 4
    BY SubSeqProperties
  <2>2. <<"first">> \in Seq(Text) /\ Len(<<"first">>) = 1
    BY DEF Text, Remains
  <2> HIDE DEF Text
  <2> QED BY <2>1, <2>2
<1>2. \E n \in Nat : Rows(lines, n)
  <2>1. \A t \in {<<"tail">>, <<"tail", "tail", "tail">>} : t \in Seq(Text)
    <3>1. "tail" \in Text
      BY DEF Text, Remains
    <3>2. <<"tail">> \in Seq(Text) /\ <<"tail", "tail", "tail">> \in Seq(Text)
      BY <3>1
    <3> QED BY <3>2
  <2>2. LinesOf(row) \in {<<head, <<"tail">> >>, <<head, <<"tail", "tail", "tail">> >>, <<row>>}
    BY DEF LinesOf
  <2> HIDE DEF head
  <2>3. Rows(<<row>>, 1)
    <3>1. Len(row) >= 3
      OBVIOUS
    <3> QED BY <3>1, OneRow, Zenon
  <2>4. ASSUME NEW t \in {<<"tail">>, <<"tail", "tail", "tail">>}
        PROVE  \E n \in Nat : Rows(<<head, t>>, n)
    <3>1. Rows(<<head, t>>, IF Len(t) >= 3 THEN 2 ELSE 1)
      <4>1. Len(head) >= 3
        BY <1>1
      <4>2. t \in Seq(Text)
        BY <2>1, Zenon
      <4> QED BY <1>1, <4>1, <4>2, TwoRows, Zenon
    <3> QED BY <3>1
  <2> QED BY <2>2, <2>3, <2>4
<1>3. FromCSV(row) = [i \in complete |-> Sanitized(EntryOf(lines[i]), {"title", "username", "password"})]
  BY DEF FromCSV
<1> HIDE DEF lines
<1>4. \A i \in complete : lines[i] \in Seq(Text)
  BY <1>2 DEF Rows
<1>5. \E n \in Nat : complete = 1 .. n
  BY <1>2 DEF Rows
<1> HIDE DEF complete
<1>6. \A i \in complete : Sanitized(EntryOf(lines[i]), {"title", "username", "password"}) \in Entry
  BY <1>4, EntryOfCells, SanitizedEntry
<1> QED BY <1>3, <1>5, <1>6

LEMMA ReadEntryEntries ==
  ASSUME NEW kind \in Kinds, NEW e \in Entries
  PROVE  ReadEntry(kind, e) \in Seq(Entry)
<1>1. CASE kind = "native"
  <2>1. FromEncryptedJSON(e) \in Entry
    BY EntryTexts, SerializedEntry, SanitizedEntry DEF FromEncryptedJSON
  <2> QED BY <1>1, <2>1 DEF ReadEntry
<1>2. CASE kind \in {"csv", "lastpass"}
  BY <1>2, RowOfEntry, FromCSVEntries DEF ReadEntry
<1>3. CASE kind = "json"
  <2>1. [e EXCEPT !["category"] = "empty", !["created"] = "plain", !["tags"] = "empty"] \in Entry
    BY EntryTexts DEF Entry, Texts
  <2>2. FromBitwarden(e) \in Seq(Entry)
    BY <2>1 DEF FromBitwarden
  <2> QED BY <1>3, <2>2 DEF ReadEntry
<1> QED BY <1>1, <1>2, <1>3 DEF Kinds

\* Nothing in such an entry is escaped, split into lines or sanitized.
LEMMA UntouchedIsKept ==
  ASSUME NEW kind \in {"native", "csv"}, NEW e \in Entries, Untouched(e)
  PROVE  Occurs(Kept(kind, e), ReadEntry(kind, e))
<1>1. \A f \in Fields : ~containsMaliciousContent(e[f]) /\ e[f] \notin Lines /\ Unquoted(e[f]) = e[f]
  BY DEF Untouched, containsMaliciousContent, Lines, Unquoted
<1>2. CASE kind = "native"
  <2>1. \A f \in {"title", "username", "password", "url", "notes"} :
          ~containsMaliciousContent(Serialized(e)[f])
    BY <1>1, EntryTexts DEF Serialized, Entry, Fields
  <2>2. FromEncryptedJSON(e) = Serialized(e)
    BY <2>1 DEF FromEncryptedJSON, Sanitized
  <2>3. Kept(kind, e) = Serialized(e)
    BY <1>2 DEF Kept, Serialized
  <2>4. ReadEntry(kind, e) = <<Kept(kind, e)>>
    BY <1>2, <2>2, <2>3 DEF ReadEntry
  <2> QED BY <2>4 DEF Occurs
<1>3. CASE kind = "csv"
  <2> DEFINE row == CSVRow(e)
  <2>1. Len(row) = 8 /\ row[5] \notin Lines
    BY <1>1 DEF CSVRow, CSVOrder, Fields
  <2>2. LinesOf(row) = <<row>>
    BY <2>1 DEF LinesOf, Lines
  <2>3. EntryOf(row) = e
    <3>1. EntryOf(row) =
            [f \in Fields |-> IF Column(f) <= Len(row) THEN Unquoted(row[Column(f)]) ELSE "empty"]
      BY DEF EntryOf, Column
    <3>2. ASSUME NEW f \in Fields
          PROVE  Column(f) <= Len(row) /\ Unquoted(row[Column(f)]) = e[f]
      BY <1>1, <2>1, ColumnOf DEF CSVRow
    <3>3. e = [f \in Fields |-> e[f]]
      BY EntryTexts DEF Entry
    <3> HIDE DEF row
    <3> QED BY <3>1, <3>2, <3>3
  <2>4. Sanitized(e, {"title", "username", "password"}) = e
    BY <1>1 DEF Sanitized, Fields
  <2>5. ReadEntry(kind, e) = FromCSV(row)
    BY <1>3 DEF ReadEntry, RowOf
  <2>6. 1 \in DOMAIN FromCSV(row) /\ FromCSV(row)[1] = e
    BY <2>1, <2>2, <2>3, <2>4 DEF FromCSV
  <2>7. Kept(kind, e) = e
    BY <1>3 DEF Kept
  <2> QED BY <2>5, <2>6, <2>7 DEF Occurs
<1> QED BY <1>2, <1>3

\* The function that FromFile chooses joins what the entries are read as.
LEMMA FromFileJoins ==
  ASSUME NEW kind, NEW entries, Len(entries) \in Nat
  PROVE  \E f : /\ Joins(f, [n \in 1 .. Len(entries) |-> ReadEntry(kind, entries[n])], Len(entries))
                /\ FromFile(kind, entries) = f[Len(entries)]
<1> DEFINE m == Len(entries)
           h == [n \in 1 .. m |-> ReadEntry(kind, entries[n])]
           Is(f) == f = [n \in 0 .. m |-> IF n = 0 THEN <<>> ELSE f[n - 1] \o ReadEntry(kind, entries[n])]
           upTo == CHOOSE f : Is(f)
<1>1. ASSUME NEW f PROVE Joins(f, h, m) <=> Is(f)
  <2>1. [n \in 0 .. m |-> IF n = 0 THEN <<>> ELSE f[n - 1] \o h[n]]
        = [n \in 0 .. m |-> IF n = 0 THEN <<>> ELSE f[n - 1] \o ReadEntry(kind, entries[n])]
    <3>1. \A n \in 0 .. m : n # 0 => h[n] = ReadEntry(kind, entries[n])
      OBVIOUS
    <3> HIDE DEF h
    <3> QED BY <3>1
  <2> HIDE DEF h
  <2> QED BY <2>1 DEF Joins
<1>2. PICK g : Joins(g, h, m)
  BY JoinExists
<1>3. Is(upTo)
  <2>1. Is(g)
    BY <1>1, <1>2
  <2> HIDE DEF Is
  <2> QED BY <2>1
<1>4. FromFile(kind, entries) = upTo[m]
  BY DEF FromFile
<1>5. Joins(upTo, h, m)
  <2> HIDE DEF Is, upTo, h
  <2> QED BY <1>1, <1>3
<1> QED BY <1>4, <1>5

\* What a file is read as: entries, among them what an entry is read as.
LEMMA FromFileEntries ==
  ASSUME NEW kind \in Kinds, NEW entries \in Seq(Entries)
  PROVE  /\ FromFile(kind, entries) \in Seq(Entry)
         /\ \A n \in DOMAIN entries : \A x :
              Occurs(x, ReadEntry(kind, entries[n])) => Occurs(x, FromFile(kind, entries))
<1> DEFINE m == Len(entries)
           h == [n \in 1 .. m |-> ReadEntry(kind, entries[n])]
<1>1. m \in Nat /\ DOMAIN entries = 1 .. m
  OBVIOUS
<1>2. PICK f : Joins(f, h, m) /\ FromFile(kind, entries) = f[m]
  BY <1>1, FromFileJoins
<1>3. \A n \in 1 .. m : h[n] \in Seq(Entry) /\ h[n] = ReadEntry(kind, entries[n])
  BY <1>1, ReadEntryEntries
<1> HIDE DEF h, m
<1>4. /\ f[m] \in Seq(Entry)
      /\ \A n \in 1 .. m : \A x : Occurs(x, h[n]) => Occurs(x, f[m])
  BY <1>1, <1>2, <1>3, OccursInJoins
<1> QED BY <1>1, <1>2, <1>3, <1>4

(***************************************************************************)
(* Types                                                                   *)
(***************************************************************************)
Files == Exports \cup Shares \cup {NoFile, Truncated}
Windows == Previews \cup Sharings \cup Exportings \cup KeyImports \cup {Closed}

\* What a window relies on: a key that was read is one of the n pairs, a key to
\* share with is that of a contact among keys, and a preview of an export the
\* importer reads itself is what it makes of that file.
WindowHolds(keys, n, w) ==
  /\ w.kind = "contact" => w.key \in 0 .. n
  /\ w.kind = "share" /\ w.key # 0 => w.index \in DOMAIN keys
  /\ w.kind = "import" /\ w.file.kind \in Kinds \ {"json"} => w.entries = FromFile(w.file.kind, w.file.entries)

Values ==
  /\ now \in 0 .. MaxTime
  /\ pairs \in 0 .. MaxPairs
  /\ pair \in [Users -> 0 .. pairs]
  /\ handed \subseteq 1 .. pairs
  /\ contacts \in [Users -> Seq(1 .. pairs)]
  /\ saved \in [Users -> SUBSET Entry]
  /\ disk \in Files

WindowsHold ==
  /\ window \in [Users -> Windows]
  /\ \A u \in Users : WindowHolds(contacts[u], pairs, window[u])

TInv == Values /\ WindowsHold

LEMMA ClosedHolds == \A keys, n : Closed \in Windows /\ WindowHolds(keys, n, Closed)
BY DEF Windows, WindowHolds, Closed

LEMMA OpenWindows ==
  ASSUME WindowsHold, NEW u \in Users
  PROVE  /\ Importing(u) => window[u] \in Previews
         /\ Sharing(u) => window[u] \in Sharings
         /\ AddingContact(u) => window[u] \in KeyImports
         /\ window[u].kind = "export" => window[u] \in Exportings
BY DEF WindowsHold, Windows, Importing, Sharing, AddingContact, Previews, Sharings, Exportings, KeyImports, Closed

\* A step of one window.
LEMMA ShowHolds ==
  ASSUME WindowsHold, NEW u \in Users, NEW w \in Windows, Show(u, w),
         WindowHolds(contacts'[u], pairs, w),
         UNCHANGED pairs, \A v \in Users \ {u} : contacts'[v] = contacts[v]
  PROVE  WindowsHold'
<1>1. window' = [v \in Users |-> IF v = u THEN w ELSE window[v]]
  BY DEF WindowsHold, Show
<1>2. window' \in [Users -> Windows]
  BY <1>1 DEF WindowsHold
<1>3. ASSUME NEW v \in Users PROVE WindowHolds(contacts'[v], pairs', window'[v])
  BY <1>1 DEF WindowsHold
<1> QED BY <1>2, <1>3 DEF WindowsHold

LEMMA QuietHolds ==
  ASSUME WindowsHold, UNCHANGED <<window, pairs, contacts>>
  PROVE  WindowsHold'
BY DEF WindowsHold

\* A step of one window and of nothing else.
LEMMA ShowQuietly ==
  ASSUME TInv, NEW u \in Users, NEW w \in Windows, Show(u, w),
         WindowHolds(contacts[u], pairs, w),
         UNCHANGED <<now, pairs, pair, handed, contacts, saved, disk>>
  PROVE  TInv'
<1>1. Values'
  BY DEF TInv, Values
<1>2. WindowsHold'
  BY ShowHolds DEF TInv
<1> QED BY <1>1, <1>2 DEF TInv

LEMMA NewPairTyped ==
  ASSUME TInv, NEW u \in Users, NewPair(u), UNCHANGED <<now, handed, contacts, saved, window, disk>>
  PROVE  TInv'
<1>1. pairs \in Nat /\ pairs' = pairs + 1 /\ pairs' \in 0 .. MaxPairs
  BY BoundsAssumption DEF TInv, Values, NewPair
<1>2. 0 .. pairs \subseteq 0 .. pairs' /\ 1 .. pairs \subseteq 1 .. pairs'
  BY <1>1
<1>3. pair' \in [Users -> 0 .. pairs']
  BY <1>1, <1>2 DEF TInv, Values, NewPair
<1>4. contacts \in [Users -> Seq(1 .. pairs')]
  <2>1. ASSUME NEW v \in Users PROVE contacts[v] \in Seq(1 .. pairs')
    <3>1. contacts[v] \in Seq(1 .. pairs)
      BY DEF TInv, Values
    <3> QED BY <1>2, <3>1, SeqMonotonic, Zenon
  <2> QED BY <2>1 DEF TInv, Values
<1>5. Values'
  BY <1>1, <1>2, <1>3, <1>4 DEF TInv, Values
<1>6. ASSUME NEW v \in Users PROVE WindowHolds(contacts[v], pairs', window[v])
  BY <1>2 DEF TInv, WindowsHold, WindowHolds
<1>7. WindowsHold'
  BY <1>6 DEF TInv, WindowsHold
<1> QED BY <1>5, <1>7 DEF TInv

LEMMA EndsTyped ==
  ASSUME TInv, NEW u \in Users, Ends(u), disk' \in Files
  PROVE  TInv'
<1>1. pairs \in Nat
  BY BoundsAssumption DEF TInv, Values
<1>2. Values'
  BY <1>1 DEF TInv, Values, Ends
<1>3. WindowsHold'
  BY ShowHolds, ClosedHolds DEF TInv, Ends
<1> QED BY <1>2, <1>3 DEF TInv

LEMMA ExportPublicKeyTyped ==
  ASSUME TInv, NEW u \in Users, ExportPublicKey(u)
  PROVE  TInv'
<1>1. pair[u] \in 1 .. pairs
  BY BoundsAssumption DEF TInv, Values, ExportPublicKey, Idle, Runs
<1>2. Values'
  BY <1>1 DEF TInv, Values, ExportPublicKey
<1>3. WindowsHold'
  BY QuietHolds DEF TInv, ExportPublicKey
<1> QED BY <1>2, <1>3 DEF TInv

LEMMA OpenKeyImportTyped ==
  ASSUME TInv, NEW u \in Users, OpenKeyImport(u)
  PROVE  TInv'
<1> DEFINE w == [kind |-> "contact", key |-> 0]
<1>1. pairs \in Nat
  BY BoundsAssumption DEF TInv, Values
<1>2. w \in Windows /\ WindowHolds(contacts[u], pairs, w)
  BY <1>1, BoundsAssumption DEF Windows, KeyImports, WindowHolds
<1> QED BY <1>2, ShowQuietly DEF OpenKeyImport

LEMMA PickKeyTyped ==
  ASSUME TInv, NEW u \in Users, NEW key \in handed, PickKey(u, key)
  PROVE  TInv'
<1> DEFINE w == [window[u] EXCEPT !.key = key]
<1>1. key \in 0 .. pairs /\ key \in 0 .. MaxPairs
  BY BoundsAssumption DEF TInv, Values
<1>2. window[u] \in KeyImports
  BY OpenWindows DEF TInv, PickKey
<1>3. w = [kind |-> "contact", key |-> key]
  BY <1>2 DEF KeyImports
<1>4. w \in Windows /\ WindowHolds(contacts[u], pairs, w)
  BY <1>1, <1>3 DEF Windows, KeyImports, WindowHolds
<1> QED BY <1>4, ShowQuietly DEF PickKey

LEMMA AddContactTyped ==
  ASSUME TInv, NEW u \in Users, AddContact(u)
  PROVE  TInv'
<1> DEFINE key == window[u].key
<1>1. key \in 1 .. pairs
  <2>1. key \in 0 .. pairs /\ key # 0
    BY DEF TInv, WindowsHold, WindowHolds, AddContact, AddingContact
  <2> QED BY <2>1
<1>2. contacts' = [contacts EXCEPT ![u] = Append(contacts[u], key)]
  BY DEF AddContact
<1> HIDE DEF key
<1>3. contacts[u] \in Seq(1 .. pairs) /\ Append(contacts[u], key) \in Seq(1 .. pairs)
  BY <1>1 DEF TInv, Values
<1>4. contacts' \in [Users -> Seq(1 .. pairs)]
  BY <1>2, <1>3 DEF TInv, Values
<1>5. Values'
  BY <1>4 DEF TInv, Values, AddContact
<1>6. \A v \in Users \ {u} : contacts'[v] = contacts[v]
  BY <1>2 DEF TInv, Values
<1>7. Show(u, Closed) /\ UNCHANGED pairs
  BY DEF AddContact
<1>8. WindowsHold'
  BY <1>6, <1>7, ShowHolds, ClosedHolds DEF TInv
<1> QED BY <1>5, <1>8 DEF TInv

LEMMA OpenShareTyped ==
  ASSUME TInv, NEW u \in Users, NEW entry \in Selected, NEW first \in 0 .. Len(contacts[u]),
         NEW reads \in BOOLEAN, OpenShare(u, entry, first, reads)
  PROVE  TInv'
<1> DEFINE key == IF reads THEN contacts[u][first] ELSE 0
           w == [kind |-> "share", entry |-> entry, index |-> first, key |-> key, loaded |-> reads]
<1>1. contacts[u] \in Seq(1 .. pairs) /\ pairs \in 0 .. MaxPairs
  BY DEF TInv, Values
<1>2. reads => first \in DOMAIN contacts[u]
  BY DEF OpenShare
<1>3. first \in Nat /\ key \in 0 .. MaxPairs /\ (key # 0 => first \in DOMAIN contacts[u])
  BY <1>1, <1>2, BoundsAssumption
<1>4. Show(u, w)
  BY DEF OpenShare
<1> HIDE DEF key
<1>5. w \in Sharings
  BY <1>3 DEF Sharings
<1>6. w \in Windows /\ WindowHolds(contacts[u], pairs, w)
  BY <1>3, <1>5 DEF Windows, WindowHolds
<1> HIDE DEF w
<1> QED BY <1>4, <1>6, ShowQuietly DEF OpenShare

LEMMA SelectContactTyped ==
  ASSUME TInv, NEW u \in Users, NEW i \in DOMAIN contacts[u], NEW reads \in BOOLEAN,
         SelectContact(u, i, reads)
  PROVE  TInv'
<1> DEFINE key == IF reads THEN contacts[u][i] ELSE window[u].key
           w == [kind |-> "share", entry |-> window[u].entry, index |-> i, key |-> key, loaded |-> reads]
<1>1. contacts[u] \in Seq(1 .. pairs) /\ pairs \in 0 .. MaxPairs
  BY DEF TInv, Values
<1>2. window[u] \in Sharings
  BY OpenWindows DEF TInv, SelectContact
<1>3. window[u].entry \in Selected /\ window[u].key \in 0 .. MaxPairs
  BY <1>2 DEF Sharings
<1>4. i \in Nat /\ key \in 0 .. MaxPairs
  BY <1>1, <1>3, BoundsAssumption
<1>5. Show(u, w)
  BY DEF SelectContact
<1> HIDE DEF key
<1>6. w \in Sharings
  BY <1>3, <1>4 DEF Sharings
<1>7. w \in Windows /\ WindowHolds(contacts[u], pairs, w)
  BY <1>6 DEF Windows, WindowHolds
<1> HIDE DEF w
<1> QED BY <1>5, <1>7, ShowQuietly DEF SelectContact

\* A file that replaces the one on the disk.
LEMMA WriteTyped ==
  ASSUME TInv, disk' \in Files,
         UNCHANGED <<now, pairs, pair, handed, contacts, saved, window>>
  PROVE  TInv'
<1>1. Values'
  BY DEF TInv, Values
<1>2. WindowsHold'
  BY QuietHolds DEF TInv
<1> QED BY <1>1, <1>2 DEF TInv

LEMMA ShareIsFile ==
  ASSUME NEW key \in 0 .. MaxPairs, NEW password \in Passwords \cup {"none"}, NEW entry \in Selected,
         NEW expires \in Nat, NEW signed \in BOOLEAN, NEW compact \in BOOLEAN,
         NEW shown \in 0 .. MaxPairs, NEW sure \in BOOLEAN
  PROVE  [kind |-> "share", key |-> key, password |-> password, entry |-> entry, expires |-> expires,
          signed |-> signed, compact |-> compact, shown |-> shown, sure |-> sure] \in Shares
BY DEF Shares

LEMMA WriteShareTyped ==
  ASSUME TInv, NEW u \in Users, Sharing(u), NEW key, key \in {0, window[u].key},
         NEW password \in Passwords \cup {"none"}, NEW lifetime \in Lifetimes,
         WriteShare(u, key, password, lifetime)
  PROVE  TInv'
<1> DEFINE w == window[u]
           shown == IF key = 0 THEN 0 ELSE contacts[u][w.index]
           sure == key # 0 /\ w.loaded
<1>1. w \in Sharings
  BY OpenWindows DEF TInv
<1>2. key \in 0 .. MaxPairs /\ w.entry \in Selected
  BY <1>1, BoundsAssumption DEF Sharings
<1>3. contacts[u] \in Seq(1 .. pairs) /\ pairs \in 0 .. MaxPairs /\ now \in Nat
  BY DEF TInv, Values
<1>4. key # 0 => w.index \in DOMAIN contacts[u]
  BY DEF TInv, WindowsHold, WindowHolds, Sharing
<1>5. shown \in 0 .. MaxPairs
  BY <1>3, <1>4, BoundsAssumption
<1>6. now + lifetime \in Nat
  BY <1>3, LifetimesAssumption
<1>7. sure \in BOOLEAN
  OBVIOUS
<1>8. disk' = [kind |-> "share", key |-> key, password |-> password, entry |-> w.entry,
               expires |-> now + lifetime, signed |-> FALSE, compact |-> FALSE,
               shown |-> shown, sure |-> sure]
  BY Zenon DEF WriteShare
<1>9. disk' \in Shares
  <2> HIDE DEF shown, sure, w
  <2>1. FALSE \in BOOLEAN
    OBVIOUS
  <2> QED BY <1>2, <1>5, <1>6, <1>7, <1>8, <2>1, ShareIsFile, Zenon
<1>10. Values'
  BY <1>9 DEF TInv, Values, Files, WriteShare
<1>11. WindowsHold'
  BY ShowHolds, ClosedHolds DEF TInv, WriteShare
<1> QED BY <1>10, <1>11 DEF TInv

LEMMA DeliverTyped ==
  ASSUME TInv, NEW key \in handed \cup {0}, NEW password \in Passwords \cup {"none"},
         NEW entry \in Selected, NEW lifetime \in Lifetimes, NEW compact \in BOOLEAN,
         Deliver(key, password, entry, now + lifetime, compact)
  PROVE  TInv'
<1>1. key \in 0 .. MaxPairs /\ 0 \in 0 .. MaxPairs
  BY BoundsAssumption DEF TInv, Values
<1>2. now + lifetime \in Nat
  BY LifetimesAssumption DEF TInv, Values
<1>3. TRUE \in BOOLEAN /\ FALSE \in BOOLEAN
  OBVIOUS
<1>4. disk' \in Shares
  BY <1>1, <1>2, <1>3, ShareIsFile, Zenon DEF Deliver
<1> QED BY <1>4, WriteTyped DEF Deliver, Files

LEMMA ExportIsFile ==
  ASSUME NEW kind \in Kinds, NEW batch \in Batches, NEW password \in Passwords \cup {"none"}
  PROVE  ExportOf(kind, batch, password) \in Exports
BY DEF ExportOf, Exports

LEMMA ExportIsWindow ==
  ASSUME NEW stage \in Stages, NEW file \in Exports, NEW keys, NEW n
  PROVE  ExportAt(stage, file) \in Windows /\ WindowHolds(keys, n, ExportAt(stage, file))
BY DEF ExportAt, Windows, Exportings, WindowHolds

LEMMA StartExportTyped ==
  ASSUME TInv, NEW u \in Users, NEW kind \in Kinds, NEW batch \in Offered[u], NEW password \in Passwords,
         StartExport(u, kind, batch, password)
  PROVE  TInv'
<1> DEFINE stage == IF Encrypted(kind) THEN "encrypt" ELSE "open"
           file == ExportOf(kind, batch, password)
<1>1. batch \in Batches
  BY BatchesAssumption
<1>2. file \in Exports /\ stage \in Stages
  BY <1>1, ExportIsFile DEF Stages
<1>3. Show(u, ExportAt(stage, file)) /\ UNCHANGED <<now, pairs, pair, handed, contacts, saved, disk>>
  BY DEF StartExport
<1> HIDE DEF stage, file
<1> QED BY <1>2, <1>3, ExportIsWindow, ShowQuietly

LEMMA EncryptTyped ==
  ASSUME TInv, NEW u \in Users, Encrypt(u)
  PROVE  TInv'
<1>1. window[u].file \in Exports /\ "open" \in Stages
  BY OpenWindows DEF TInv, Encrypt, Exporting, Exportings, Stages
<1> QED BY <1>1, ExportIsWindow, ShowQuietly DEF Encrypt

LEMMA OpenFileTyped ==
  ASSUME TInv, NEW u \in Users, OpenFile(u)
  PROVE  TInv'
<1>1. window[u].file \in Exports /\ "write" \in Stages
  BY OpenWindows DEF TInv, OpenFile, Exporting, Exportings, Stages
<1>2. Values'
  BY DEF TInv, Values, OpenFile, Files
<1>3. WindowsHold'
  BY <1>1, ExportIsWindow, ShowHolds DEF TInv, OpenFile
<1> QED BY <1>2, <1>3 DEF TInv

LEMMA WriteFileTyped ==
  ASSUME TInv, NEW u \in Users, WriteFile(u)
  PROVE  TInv'
<1>1. disk' \in Files
  BY OpenWindows DEF TInv, WriteFile, Exporting, Exportings, Files
<1>2. Values'
  BY <1>1 DEF TInv, Values, WriteFile
<1>3. WindowsHold'
  BY ShowHolds, ClosedHolds DEF TInv, WriteFile
<1> QED BY <1>2, <1>3 DEF TInv

LEMMA PreviewIsWindow ==
  ASSUME NEW file \in Exports \cup Shares \cup {NoFile}, NEW entries \in Seq(Entry), NEW share \in BOOLEAN,
         file.kind \in Kinds \ {"json"} => entries = FromFile(file.kind, file.entries), NEW keys, NEW n
  PROVE  LET w == [kind |-> "import", file |-> file, entries |-> entries, isShare |-> share]
         IN  w \in Windows /\ WindowHolds(keys, n, w)
<1> DEFINE w == [kind |-> "import", file |-> file, entries |-> entries, isShare |-> share]
<1>1. w \in Previews
  BY DEF Previews
<1>2. WindowHolds(keys, n, w)
  BY DEF WindowHolds
<1> QED BY <1>1, <1>2 DEF Windows

\* For any fields: the prover does not see through a Boolean one in EXCEPT.
LEMMA NothingLoadedFields ==
  \A F, E, B : \A w \in [kind : {"import"}, file : F, entries : E, isShare : B] :
    NothingLoaded(w) = [kind |-> "import", file |-> NoFile, entries |-> <<>>, isShare |-> w.isShare]
<1> SUFFICES ASSUME NEW F, NEW E, NEW B, NEW w \in [kind : {"import"}, file : F, entries : E, isShare : B]
      PROVE  NothingLoaded(w) = [kind |-> "import", file |-> NoFile, entries |-> <<>>, isShare |-> w.isShare]
  BY Zenon
<1>1. w = [kind |-> "import", file |-> w.file, entries |-> w.entries, isShare |-> w.isShare]
  OBVIOUS
<1>2. Cleared(w) = [kind |-> "import", file |-> w.file, entries |-> <<>>, isShare |-> w.isShare]
  BY <1>1 DEF Cleared
<1>3. NothingLoaded(w) = [kind |-> "import", file |-> NoFile, entries |-> <<>>, isShare |-> w.isShare]
  BY <1>2 DEF NothingLoaded
<1> QED BY <1>3

LEMMA NothingLoadedHolds ==
  ASSUME NEW w \in Previews, NEW keys, NEW n
  PROVE  NothingLoaded(w) \in Windows /\ WindowHolds(keys, n, NothingLoaded(w))
<1>1. w.isShare \in BOOLEAN
  BY DEF Previews
<1>2. NothingLoaded(w) = [kind |-> "import", file |-> NoFile, entries |-> <<>>, isShare |-> w.isShare]
  <2> DEFINE F == Exports \cup Shares \cup {NoFile}
             E == Seq(Entry)
             B == BOOLEAN
  <2>1. w \in [kind : {"import"}, file : F, entries : E, isShare : B]
    BY Zenon DEF Previews
  <2> HIDE DEF F, E, B
  <2> QED BY <2>1, NothingLoadedFields
<1>3. <<>> \in Seq(Entry) /\ NoFile.kind \notin Kinds
  BY DEF NoFile, Kinds
<1> QED BY <1>1, <1>2, <1>3, PreviewIsWindow, Zenon

LEMMA ExportOnDisk ==
  ASSUME TInv, disk.kind \in Kinds
  PROVE  disk \in Exports /\ FromFile(disk.kind, disk.entries) \in Seq(Entry)
<1>1. disk \in Exports
  BY DEF TInv, Values, Files, Shares, NoFile, Truncated, Kinds
<1>2. disk.entries \in Seq(Entries)
  BY <1>1, BatchesAssumption DEF Exports
<1> QED BY <1>1, <1>2, FromFileEntries

LEMMA ShowEntriesTyped ==
  ASSUME TInv, NEW u \in Users, NEW entries \in Seq(Entry), disk.kind \in Kinds, ShowEntries(u, entries),
         disk.kind = "json" \/ entries = FromFile(disk.kind, disk.entries)
  PROVE  TInv'
<1> DEFINE w == [kind |-> "import", file |-> disk, entries |-> entries, isShare |-> FALSE]
<1>1. FALSE \in BOOLEAN /\ disk \in Exports \cup Shares \cup {NoFile}
  BY ExportOnDisk
<1>2. disk.kind \in Kinds \ {"json"} => entries = FromFile(disk.kind, disk.entries)
  OBVIOUS
<1>3. w \in Windows /\ WindowHolds(contacts[u], pairs, w)
  BY <1>1, <1>2, PreviewIsWindow, Zenon
<1>4. Show(u, w)
  BY DEF ShowEntries
<1> HIDE DEF w
<1> QED BY <1>3, <1>4, ShowQuietly DEF ShowEntries

LEMMA ShowFileTyped ==
  ASSUME TInv, NEW u \in Users, disk.kind \in Kinds, ShowFile(u)
  PROVE  TInv'
BY ExportOnDisk, ShowEntriesTyped DEF ShowFile

LEMMA LoadBitwardenTyped ==
  ASSUME TInv, NEW u \in Users, NEW found \in Batches, LoadBitwarden(u, found)
  PROVE  TInv'
<1>1. disk.kind = "json" /\ disk.kind \in Kinds /\ ShowEntries(u, FromFile("json", found))
  BY DEF LoadBitwarden, Kinds
<1>2. FromFile("json", found) \in Seq(Entry)
  BY <1>1, FromFileEntries, BatchesAssumption
<1> QED BY <1>1, <1>2, ShowEntriesTyped

LEMMA ShowNothingTyped ==
  ASSUME TInv, NEW u \in Users, Importing(u), Show(u, NothingLoaded(window[u])),
         UNCHANGED <<now, pairs, pair, handed, contacts, saved, disk>>
  PROVE  TInv'
<1>1. window[u] \in Previews
  BY OpenWindows DEF TInv
<1>2. NothingLoaded(window[u]) \in Windows /\ WindowHolds(contacts[u], pairs, NothingLoaded(window[u]))
  BY <1>1, NothingLoadedHolds
<1> QED BY <1>2, ShowQuietly

LEMMA OpenImportTyped ==
  ASSUME TInv, NEW u \in Users, OpenImport(u)
  PROVE  TInv'
<1>1. <<>> \in Seq(Entry) /\ NoFile.kind \notin Kinds /\ FALSE \in BOOLEAN
  BY DEF NoFile, Kinds
<1>2. NoPreview \in Windows /\ WindowHolds(contacts[u], pairs, NoPreview)
  BY <1>1, PreviewIsWindow, Zenon DEF NoPreview
<1> QED BY <1>2, ShowQuietly DEF OpenImport

LEMMA LoadShareTyped ==
  ASSUME TInv, NEW u \in Users, NEW typed \in Typed, LoadShare(u, typed)
  PROVE  TInv'
<1>1. CASE Opens(u, disk, typed)
  <2> DEFINE w == [kind |-> "import", file |-> disk, entries |-> ShareEntries(disk), isShare |-> TRUE]
  <2>1. disk \in Shares
    BY DEF TInv, Values, Files, LoadShare, Exports, NoFile, Truncated, Kinds
  <2>2. Serialized(disk.entry) \in Entry
    BY <2>1, BatchesAssumption, EntryTexts, SerializedEntry DEF Shares
  <2>3. ShareEntries(disk) \in Seq(Entry) /\ TRUE \in BOOLEAN /\ disk.kind \notin Kinds
    BY <2>2 DEF ShareEntries, LoadShare, Kinds
  <2>4. w \in Windows /\ WindowHolds(contacts[u], pairs, w)
    BY <2>1, <2>3, PreviewIsWindow, Zenon
  <2>5. Show(u, w)
    BY <1>1 DEF LoadShare
  <2> HIDE DEF w
  <2> QED BY <2>4, <2>5, ShowQuietly DEF LoadShare
<1>2. CASE ~Opens(u, disk, typed)
  BY <1>2, ShowNothingTyped DEF LoadShare
<1> QED BY <1>1, <1>2

LEMMA SaveShareTyped ==
  ASSUME TInv, NEW u \in Users, SaveShare(u)
  PROVE  TInv'
<1> DEFINE e == window[u].entries[1]
<1>1. window[u] \in Previews
  BY OpenWindows DEF TInv, SaveShare
<1>2. e \in Entry
  <2>1. window[u].entries \in Seq(Entry) /\ Len(window[u].entries) = 1
    BY <1>1 DEF Previews, SaveShare
  <2> QED BY <2>1
<1>3. saved' = [saved EXCEPT ![u] = saved[u] \cup {[e EXCEPT !["created"] = "plain"]}]
  BY DEF SaveShare
<1> HIDE DEF e
<1>4. [e EXCEPT !["created"] = "plain"] \in Entry
  BY <1>2 DEF Entry, Texts
<1>5. saved' \in [Users -> SUBSET Entry]
  BY <1>3, <1>4 DEF TInv, Values
<1>6. Values'
  BY <1>5 DEF TInv, Values, SaveShare
<1>7. WindowsHold'
  BY ShowHolds, ClosedHolds DEF TInv, SaveShare
<1> QED BY <1>6, <1>7 DEF TInv

LEMMA InitTInv == Init => TInv
<1> SUFFICES ASSUME Init PROVE TInv
  OBVIOUS
<1>1. <<>> \in Seq(1 .. pairs) /\ pairs = 0 /\ 0 \in 0 .. pairs
  BY DEF Init
<1>2. Values
  BY <1>1, BoundsAssumption DEF Init, Values, Files
<1>3. \A u \in Users : window[u] = Closed
  BY DEF Init
<1>4. WindowsHold
  BY <1>3, ClosedHolds DEF Init, WindowsHold
<1> QED BY <1>2, <1>4 DEF TInv

LEMMA NextTInv == TInv /\ [Next]_vars => TInv'
<1> SUFFICES ASSUME TInv, [Next]_vars PROVE TInv'
  OBVIOUS
<1> USE DEF TInv
<1>0. disk \in Files
  BY DEF Values
<1>1. ASSUME NEW u \in Users, Login(u) \/ ChangePassword(u) PROVE TInv'
  BY <1>1, NewPairTyped DEF Login, ChangePassword
<1>2. ASSUME NEW u \in Users, Quit(u) \/ EncryptFails(u) \/ OpenFails(u) PROVE TInv'
  BY <1>0, <1>2, EndsTyped DEF Quit, EncryptFails, OpenFails
<1>3. ASSUME NEW u \in Users, ExportPublicKey(u) \/ OpenKeyImport(u) \/ AddContact(u) PROVE TInv'
  BY <1>3, ExportPublicKeyTyped, OpenKeyImportTyped, AddContactTyped
<1>4. ASSUME NEW u \in Users, NEW key \in handed, PickKey(u, key) PROVE TInv'
  BY <1>4, PickKeyTyped
<1>5. ASSUME NEW u \in Users, NEW entry \in Selected, NEW first \in 0 .. Len(contacts[u]),
             NEW reads \in BOOLEAN, OpenShare(u, entry, first, reads)
      PROVE  TInv'
  BY <1>5, OpenShareTyped
<1>6. ASSUME NEW u \in Users, NEW i \in DOMAIN contacts[u], NEW reads \in BOOLEAN, SelectContact(u, i, reads)
      PROVE  TInv'
  BY <1>6, SelectContactTyped
<1>7. ASSUME NEW u \in Users, NEW lifetime \in Lifetimes, ShareWithPublicKey(u, lifetime) PROVE TInv'
  <2>1. "none" \in Passwords \cup {"none"}
    OBVIOUS
  <2> QED BY <1>7, <2>1, WriteShareTyped DEF ShareWithPublicKey
<1>8. ASSUME NEW u \in Users, NEW lifetime \in Lifetimes, NEW password \in Passwords,
             ShareWithPassword(u, password, lifetime)
      PROVE  TInv'
  <2>1. password \in Passwords \cup {"none"}
    OBVIOUS
  <2> QED BY <1>8, <2>1, WriteShareTyped DEF ShareWithPassword
<1>9. ASSUME NEW u \in Users, NEW kind \in Kinds, NEW batch \in Offered[u], NEW password \in Passwords,
             StartExport(u, kind, batch, password)
      PROVE  TInv'
  BY <1>9, StartExportTyped
<1>10. ASSUME NEW u \in Users, NEW account \in Batches, ExportForBitwarden(u, account) PROVE TInv'
  <2>1. CASE Ends(u) /\ UNCHANGED disk
    BY <1>0, <2>1, EndsTyped
  <2>2. CASE disk' = ExportOf("json", account, "none")
    <3>1. "json" \in Kinds /\ "none" \in Passwords \cup {"none"}
      BY DEF Kinds
    <3>2. disk' \in Files
      BY <2>2, <3>1, ExportIsFile DEF Files
    <3>3. CASE UNCHANGED <<now, pairs, pair, handed, contacts, saved, window>>
      BY <3>2, <3>3, WriteTyped
    <3> QED BY <1>10, <2>1, <3>3 DEF ExportForBitwarden
  <2> QED BY <1>10, <2>1, <2>2 DEF ExportForBitwarden
<1>11. ASSUME NEW u \in Users, OpenImport(u) \/ SaveShare(u) PROVE TInv'
  BY <1>11, OpenImportTyped, SaveShareTyped
<1>12. ASSUME NEW u \in Users, NEW typed \in Typed, LoadShare(u, typed) PROVE TInv'
  BY <1>12, LoadShareTyped
<1>13. ASSUME NEW u \in Users, NEW typed \in Typed, LoadExport(u, typed) PROVE TInv'
  BY <1>13, ShowFileTyped DEF LoadExport, Kinds
<1>14. ASSUME NEW u \in Users, NEW typed \in Typed, LoadWithWrongPassword(u, typed) PROVE TInv'
  BY <1>0, <1>14, EndsTyped DEF LoadWithWrongPassword
<1>15. ASSUME NEW u \in Users, LoadTable(u) PROVE TInv'
  BY <1>15, ShowFileTyped DEF LoadTable, Kinds
<1>16. ASSUME NEW u \in Users, LoadFails(u) PROVE TInv'
  BY <1>16, ShowNothingTyped DEF LoadFails, ShowNothing
<1>17. ASSUME NEW u \in Users, CloseWindow(u) PROVE TInv'
  BY <1>17, ShowQuietly, ClosedHolds DEF CloseWindow
<1>18. ASSUME NEW entry \in Selected, NEW lifetime \in Lifetimes, NEW key \in handed,
              Deliver(key, "none", entry, now + lifetime, FALSE)
       PROVE  TInv'
  <2>1. "none" \in Passwords \cup {"none"} /\ FALSE \in BOOLEAN
    OBVIOUS
  <2> QED BY <1>18, <2>1, DeliverTyped
<1>19. ASSUME NEW entry \in Selected, NEW lifetime \in Lifetimes, NEW password \in Passwords,
              NEW compact \in BOOLEAN,
              Deliver(0, password, entry, now + lifetime, compact)
       PROVE  TInv'
  <2>1. password \in Passwords \cup {"none"} /\ 0 \in handed \cup {0}
    OBVIOUS
  <2> QED BY <1>19, <2>1, DeliverTyped
<1>20. CASE Tick
  <2>1. Values'
    BY <1>20, BoundsAssumption DEF Values, Tick
  <2>2. WindowsHold'
    BY <1>20, QuietHolds DEF Tick
  <2> QED BY <2>1, <2>2
<1>21. CASE UNCHANGED vars
  <2>1. Values'
    BY <1>21 DEF Values, vars
  <2>2. WindowsHold'
    BY <1>21, QuietHolds DEF vars
  <2> QED BY <2>1, <2>2
<1>22. ASSUME NEW u \in Users, Encrypt(u) \/ OpenFile(u) \/ WriteFile(u) PROVE TInv'
  BY <1>22, EncryptTyped, OpenFileTyped, WriteFileTyped
<1>23. ASSUME NEW u \in Users, NEW found \in Batches, LoadBitwarden(u, found) PROVE TInv'
  BY <1>23, LoadBitwardenTyped
<1> QED
  BY <1>1, <1>2, <1>3, <1>4, <1>5, <1>6, <1>7, <1>8, <1>9, <1>10, <1>11, <1>12, <1>13, <1>14,
     <1>15, <1>16, <1>17, <1>18, <1>19, <1>20, <1>21, <1>22, <1>23 DEF Next

LEMMA AlwaysTInv == Spec => []TInv
BY InitTInv, NextTInv, PTL DEF Spec

\* Every variable has its type.  What is read of a file are entries, so that of
\* a share the window can save one; and a share names a key that exists.
THEOREM TypeCorrect == Spec => []TypeOK
<1>1. TInv => TypeOK
  BY DEF TInv, Values, WindowsHold, Windows, Files, TypeOK
<1> QED BY <1>1, AlwaysTInv, PTL

\* An entry that no conversion has a reason to change is read back from an
\* encrypted or .csv export as it was, whatever other entries the file has and
\* however many (exportToEncryptedJSON, importFromCSV).
THEOREM ReadsBack == Spec => []ReadBack
<1>1. TInv => ReadBack
  <2> SUFFICES ASSUME TInv, NEW u \in Users, Importing(u), window[u].file.kind \in {"native", "csv"},
                      NEW i \in DOMAIN window[u].file.entries, Untouched(window[u].file.entries[i])
        PROVE  \E j \in DOMAIN window[u].entries :
                 window[u].entries[j] = Kept(window[u].file.kind, window[u].file.entries[i])
    BY DEF ReadBack
  <2> DEFINE w == window[u]
             kind == w.file.kind
             e == w.file.entries[i]
  <2>1. w \in Previews
    BY OpenWindows DEF TInv
  <2>2. w.file \in Exports
    BY <2>1 DEF Previews, Exports, Shares, NoFile
  <2>3. w.file.entries \in Seq(Entries)
    BY <2>2, BatchesAssumption DEF Exports
  <2>4. e \in Entries /\ kind \in Kinds
    BY <2>3 DEF Kinds
  <2>5. w.entries = FromFile(kind, w.file.entries)
    BY <2>4 DEF TInv, WindowsHold, WindowHolds, Importing
  <2>6. Occurs(Kept(kind, e), ReadEntry(kind, e))
    BY <2>4, UntouchedIsKept
  <2>7. Occurs(Kept(kind, e), FromFile(kind, w.file.entries))
    BY <2>3, <2>4, <2>6, FromFileEntries, Zenon
  <2> QED BY <2>5, <2>7 DEF Occurs
<1> QED BY <1>1, AlwaysTInv, PTL
=============================================================================
