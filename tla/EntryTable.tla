----------------------------- MODULE EntryTable -----------------------------
(***************************************************************************)
(* The table of entries in the main window and the import of a file into   *)
(* the vault, in one process.                                              *)
(*                                                                         *)
(* VaultTableModel holds a copy of the entries' metadata, the numbers of   *)
(* the rows whose password is shown, and a cache of decrypted passwords by *)
(* rowid.  vault_entries declares no integer key, so SQLite numbers a new  *)
(* row one above the greatest rowid in use: a rowid is used again once the *)
(* rows above it are gone.  ImportDialog works on metadata read when the   *)
(* import began.                                                           *)
(***************************************************************************)
EXTENDS Integers, FiniteSets, Sequences

CONSTANTS
  Names,      \* <<title, login>> of an entry; titles are numbers, which order them
  Passwords,
  NoPassword, \* the cache has no password
  NoEntry,    \* no entry has this rowid
  MaxRowid,   \* bound: rowids; an insertion above it is not followed
  Vaults,     \* what earlier sessions may have left in the database
  Typed,      \* the entries a user may type or receive in a package
  Files,      \* what the chosen rows of an import file may be
  MaxChanges, \* bound: additions, edits, deletions, password changes; an import is two
  Faults      \* which of "write", "read" may happen

Rowids == 1 .. MaxRowid
Entries == [name : Names, password : Passwords]
Metadata == [id : Rowids, name : Names]

ASSUME NamesAssumption == \A n \in Names : n[1] \in Nat
ASSUME BoundsAssumption == MaxRowid \in Nat /\ MaxChanges \in Nat
ASSUME InputAssumption ==
  /\ Typed \subseteq Entries
  /\ Files \subseteq Seq(Entries)
  /\ Vaults \subseteq [Rowids -> Entries \cup {NoEntry}]
ASSUME FaultsAssumption == Faults \subseteq {"write", "read"}
ASSUME NullAssumption == NoPassword \notin Passwords /\ NoEntry \notin Entries

VARIABLES
  vault,       \* vault_entries: rowid -> entry
  loggedIn,    \* StateManager's flag; the encryption key is there exactly then
  rows,        \* m_data
  shown,       \* m_rowPasswordVisible: row numbers
  showAll,     \* m_passwordsVisible
  cache,       \* m_passwordCache: rowid -> password
  import,      \* the import dialog and the locals of onImport
  changes,     \* changes so far
  gone,        \* history: rowids deleted since rows was read
  overwritten, \* history: rowids deleted or imported over since they were cached
  before,      \* history: the vault when the import began
  failed       \* history: a statement of this import failed

view == <<shown, showAll>>
history == <<gone, overwritten, before, failed>>
vars == <<vault, loggedIn, rows, view, cache, import, changes, history>>

Empty == [i \in Rowids |-> NoEntry]
Actions == {"skip", "replace", "add", "update"}
Closed == [stage |-> "closed", file |-> <<>>, next |-> 1, action |-> "skip",
           forAll |-> FALSE, existing |-> {}, imported |-> {}, updated |-> {}]

TypeOK ==
  /\ vault \in [Rowids -> Entries \cup {NoEntry}]
  /\ loggedIn \in BOOLEAN
  /\ rows \subseteq Metadata /\ \A k, m \in rows : k.id = m.id => k = m
  /\ shown \subseteq 0 .. MaxRowid - 1
  /\ showAll \in BOOLEAN
  /\ cache \in [Rowids -> Passwords \cup {NoPassword}]
  /\ import \in [stage : {"closed", "open", "running", "summary"},
                 file : Seq(Entries), next : Nat \ {0}, action : Actions,
                 forAll : BOOLEAN, existing : SUBSET Metadata,
                 imported : SUBSET Nat, updated : SUBSET Nat]
  /\ changes \in 0 .. MaxChanges
  /\ gone \subseteq Rowids /\ overwritten \subseteq Rowids
  /\ before \in [Rowids -> Entries \cup {NoEntry}]
  /\ failed \in BOOLEAN

(***************************************************************************)
(* vault_entries and VaultManager                                          *)
(***************************************************************************)
Stored(v) == {i \in Rowids : v[i] # NoEntry}
IsNextRowid(v, i) ==
  /\ i \in Rowids
  /\ \A j \in Stored(v) : j < i
  /\ i = 1 \/ i - 1 \in Stored(v)

\* A statement may fail only if writes may.
Outcomes == {TRUE} \cup (IF "write" \in Faults THEN {FALSE} ELSE {})

\* createEntry: without a key it cannot encrypt.
Created(v, e, ok) ==
  IF ok THEN {[v EXCEPT ![i] = e] : i \in {j \in Rowids : IsNextRowid(v, j)}} ELSE {v}
CreateOutcomes == IF loggedIn THEN Outcomes ELSE {FALSE}

\* getAllEntryMetadata: ORDER BY title.  A read error ends the list early.
Precedes(k, m) ==
  k.name[1] < m.name[1] \/ (k.name[1] = m.name[1] /\ k.id < m.id)
AllMetadata(v) == {[id |-> i, name |-> v[i].name] : i \in Stored(v)}
MetadataRead(v) ==
  {AllMetadata(v)} \cup
  (IF "read" \in Faults
     THEN {{k \in AllMetadata(v) : Precedes(k, m)} : m \in AllMetadata(v)} ELSE {})

(***************************************************************************)
(* VaultTableModel                                                         *)
(***************************************************************************)
RowNumber(m) == Cardinality({k \in rows : Precedes(k, m)})
IsVisible(m) == showAll \/ RowNumber(m) \in shown

\* What data() returns for a visible row that can be decrypted or is cached.
PasswordShown(m) ==
  IF cache[m.id] # NoPassword THEN cache[m.id] ELSE vault[m.id].password

Refresh(v) ==
  /\ rows' \in MetadataRead(v)
  /\ gone' = {}

\* History: the row or the cached password of such an entry is no longer its own.
Listed == {m.id : m \in rows}
Cached == {i \in Rowids : cache[i] # NoPassword}

\* Events are served, a timer's among them: no handler runs, or it asks the user.
Idle ==
  \/ import.stage \in {"closed", "open", "summary"}
  \/ /\ import.stage = "running" /\ import.next <= Len(import.file)
     /\ ~import.forAll
     /\ \E m \in import.existing : m.name = import.file[import.next].name
InMainWindow == import.stage = "closed"

Change(cost) == changes + cost <= MaxChanges /\ changes' = changes + cost

\* The first login of the process has read the rows.
Init ==
  /\ vault \in Vaults
  /\ loggedIn = TRUE
  /\ rows \in MetadataRead(vault)
  /\ shown = {} /\ showAll = FALSE
  /\ cache = [i \in Rowids |-> NoPassword]
  /\ import = Closed
  /\ changes = 0
  /\ gone = {} /\ overwritten = {}
  /\ before = Empty
  /\ failed = FALSE

\* The login dialog accepts, from the main window or brought up by the
\* auto-lock over another dialog; onLoggedIn reads the rows again.
Login ==
  /\ Idle
  /\ InMainWindow \/ loggedIn
  /\ loggedIn' = TRUE
  /\ Refresh(vault)
  /\ UNCHANGED <<vault, view, cache, import, changes, overwritten, before, failed>>

\* F5.
PressF5 ==
  /\ InMainWindow
  /\ Refresh(vault)
  /\ UNCHANGED <<vault, loggedIn, view, cache, import, changes, overwritten, before, failed>>

\* A password change re-encrypts the entries, logs out and clears the keys.
ChangePassword ==
  /\ InMainWindow /\ loggedIn
  /\ Change(1)
  /\ loggedIn' = FALSE
  /\ UNCHANGED <<vault, rows, view, cache, import, history>>

\* Mutant of TogglePassword: the rowid is taken for the number of the row.
ToggleByRowid(m) ==
  /\ InMainWindow /\ loggedIn
  /\ shown' = IF m.id \in shown THEN shown \ {m.id} ELSE shown \cup {m.id}
  /\ UNCHANGED <<vault, loggedIn, rows, showAll, cache, import, changes, history>>

TogglePassword(m) ==
  /\ InMainWindow /\ loggedIn
  /\ LET r == RowNumber(m)
     IN  shown' = IF r \in shown THEN shown \ {r} ELSE shown \cup {r}
  /\ UNCHANGED <<vault, loggedIn, rows, showAll, cache, import, changes, history>>

ToggleAllPasswords ==
  /\ InMainWindow
  /\ showAll' = ~showAll
  /\ IF showAll
       THEN shown' = {} /\ cache' = [i \in Rowids |-> NoPassword] /\ overwritten' = {}
       ELSE UNCHANGED <<shown, cache, overwritten>>
  /\ UNCHANGED <<vault, loggedIn, rows, import, changes, gone, before, failed>>

\* getPasswordForRow for a visible row of the shown table.
PaintPassword(m) ==
  /\ Idle /\ loggedIn
  /\ IsVisible(m)
  /\ cache[m.id] = NoPassword
  /\ vault[m.id] # NoEntry
  /\ cache' = [cache EXCEPT ![m.id] = vault[m.id].password]
  /\ UNCHANGED <<vault, loggedIn, rows, view, import, changes, history>>

(***************************************************************************)
(* MainWindow: entries are added, edited and deleted.                      *)
(***************************************************************************)
AddEntry(e) ==
  /\ InMainWindow /\ loggedIn
  /\ Change(1)
  /\ \E ok \in Outcomes : vault' \in Created(vault, e, ok)
  /\ UNCHANGED <<loggedIn, rows, view, cache, import, history>>

\* Mutant of EditEntry: the cache is updated whatever updateEntry returned.
EditCachesAnyway(m, e) ==
  /\ InMainWindow /\ loggedIn
  /\ vault[m.id] # NoEntry
  /\ Change(1)
  /\ \E ok \in Outcomes : IF ok THEN vault' = [vault EXCEPT ![m.id] = e] ELSE UNCHANGED vault
  /\ IF cache[m.id] # NoPassword
       THEN /\ cache' = [cache EXCEPT ![m.id] = e.password]
            /\ overwritten' = overwritten \ {m.id}
       ELSE UNCHANGED <<cache, overwritten>>
  /\ UNCHANGED <<loggedIn, rows, view, import, gone, before, failed>>

EditEntry(m, e) ==
  /\ InMainWindow /\ loggedIn
  /\ vault[m.id] # NoEntry
  /\ Change(1)
  /\ \E ok \in Outcomes :
       IF ok
         THEN /\ vault' = [vault EXCEPT ![m.id] = e]
              /\ IF cache[m.id] # NoPassword
                   THEN /\ cache' = [cache EXCEPT ![m.id] = e.password]
                        /\ overwritten' = overwritten \ {m.id}
                   ELSE UNCHANGED <<cache, overwritten>>
         ELSE UNCHANGED <<vault, cache, overwritten>>
  /\ UNCHANGED <<loggedIn, rows, view, import, gone, before, failed>>

\* The entries of the selected rows; some of the deletions may fail.
DeleteEntries(selected) ==
  /\ InMainWindow /\ loggedIn
  /\ selected # {}
  /\ Change(1)
  /\ \E deleted \in IF "write" \in Faults THEN SUBSET selected ELSE {selected} :
       LET ids == {m.id : m \in deleted}
       IN  /\ vault' = [i \in Rowids |-> IF i \in ids THEN NoEntry ELSE vault[i]]
           /\ overwritten' = overwritten \cup (ids \cap Cached)
           /\ Refresh(vault')
  /\ UNCHANGED <<loggedIn, view, cache, import, before, failed>>

(***************************************************************************)
(* ImportDialog                                                            *)
(***************************************************************************)
OpenImport ==
  /\ InMainWindow
  /\ import' = [Closed EXCEPT !.stage = "open"]
  /\ UNCHANGED <<vault, loggedIn, rows, view, cache, changes, history>>

CancelImport ==
  /\ import.stage = "open"
  /\ import' = Closed
  /\ UNCHANGED <<vault, loggedIn, rows, view, cache, changes, history>>

\* A package another user shared has one entry; it is saved, or only shown and
\* the dialog closes as if it were cancelled.
ImportShared(e) ==
  /\ import.stage = "open"
  /\ Change(1)
  /\ \E ok \in CreateOutcomes :
       /\ vault' \in Created(vault, e, ok)
       /\ import' = IF ok THEN Closed ELSE import
  /\ UNCHANGED <<loggedIn, rows, view, cache, history>>

\* The user has chosen a file, its rows and an action.  onImport reads the
\* existing entries once.
PressImport(file, action, forAll) ==
  /\ import.stage = "open"
  /\ file # <<>>
  /\ Change(2)
  /\ \E existing \in MetadataRead(vault) :
       import' = [Closed EXCEPT !.stage = "running", !.file = file,
                    !.action = action, !.forAll = forAll, !.existing = existing]
  /\ before' = vault
  /\ failed' = FALSE
  /\ UNCHANGED <<vault, loggedIn, rows, view, cache, gone, overwritten>>

\* Mutant of Matches: entries are compared by title only.
SameTitle(e) == {m \in import.existing : m.name[1] = e.name[1]}

Matches(e) == {m \in import.existing : m.name = e.name}

\* The rowid to replace or update: of the first entry of the same title and
\* login, if there is one; nothing is there to change if it has gone since.
OldRowid(e) ==
  {m.id : m \in {n \in Matches(e) : \A k \in Matches(e) : n.id <= k.id}} \cap Stored(vault)

\* Mutant of ReplaceOld: the new entry is added only where an old one was found.
ReplaceFound(e) ==
  IF Matches(e) = {} THEN UNCHANGED <<vault, gone, overwritten, failed>>
  ELSE \E createOk \in CreateOutcomes :
    LET old == OldRowid(e)
        rest == [i \in Rowids |-> IF i \in old THEN NoEntry ELSE vault[i]]
    IN  /\ vault' \in Created(rest, e, createOk)
        /\ gone' = gone \cup (old \cap Listed)
        /\ overwritten' = overwritten \cup (old \cap Cached)
        /\ failed' = (failed \/ ~createOk)

\* Delete the old entry, if there is one, and add the new one; both results are
\* ignored.
ReplaceOld(e) ==
  \E deleteOk \in Outcomes, createOk \in CreateOutcomes :
    LET old == IF deleteOk THEN OldRowid(e) ELSE {}
        rest == [i \in Rowids |-> IF i \in old THEN NoEntry ELSE vault[i]]
    IN  /\ vault' \in Created(rest, e, createOk)
        /\ gone' = gone \cup (old \cap Listed)
        /\ overwritten' = overwritten \cup (old \cap Cached)
        /\ failed' = (failed \/ ~createOk \/ (Matches(e) # {} /\ ~deleteOk))

AddNew(e) ==
  /\ \E ok \in CreateOutcomes :
       /\ vault' \in Created(vault, e, ok)
       /\ failed' = (failed \/ ~ok)
  /\ UNCHANGED <<gone, overwritten>>

\* An entry that is not there yet is neither updated nor added.
UpdateOld(e) ==
  /\ \E ok \in CreateOutcomes :
       LET written == IF ok THEN OldRowid(e) ELSE {}
       IN  /\ vault' = [i \in Rowids |-> IF i \in written THEN e ELSE vault[i]]
           /\ overwritten' = overwritten \cup (written \cap Cached)
           /\ failed' = (failed \/ (Matches(e) # {} /\ ~ok))
  /\ UNCHANGED gone

\* One round of the loop of onImport; what it counts does not depend on what
\* the statements returned.  "Apply to all conflicts" changes the action of the
\* rows that follow.
Perform(e, action, following) ==
  /\ \/ action = "replace" /\ ReplaceOld(e)
     \/ action = "add" /\ AddNew(e)
     \/ action = "update" /\ UpdateOld(e)
     \/ action = "skip" /\ UNCHANGED <<vault, gone, overwritten, failed>>
  /\ import' = [import EXCEPT
       !.next = @ + 1,
       !.action = following,
       !.imported = IF action \in {"replace", "add"} THEN @ \cup {import.next} ELSE @,
       !.updated = IF action = "update" /\ Matches(e) # {} THEN @ \cup {import.next} ELSE @]
  /\ UNCHANGED <<loggedIn, rows, view, cache, changes, before>>

InLoop == import.stage = "running" /\ import.next <= Len(import.file)
Row == import.file[import.next]

\* A row with nothing to ask: the chosen action also decides over an entry that
\* is not there yet.
ImportRow ==
  /\ InLoop
  /\ Matches(Row) = {} \/ import.forAll
  /\ Perform(Row, import.action, import.action)

\* A duplicate, decided in a dialog of its own; cancelling it skips the row.
AnswerConflict(action, toAll) ==
  /\ InLoop
  /\ Matches(Row) # {} /\ ~import.forAll
  /\ Perform(Row, action, IF toAll THEN action ELSE import.action)

FinishImport ==
  /\ import.stage = "running" /\ import.next > Len(import.file)
  /\ import' = [Closed EXCEPT !.stage = "summary", !.file = import.file,
                  !.imported = import.imported, !.updated = import.updated]
  /\ UNCHANGED <<vault, loggedIn, rows, view, cache, changes, history>>

\* The dialog stays open if nothing was imported or updated.  The table is not
\* read again.
CloseSummary ==
  /\ import.stage = "summary"
  /\ import' = IF import.imported \cup import.updated # {} THEN Closed
               ELSE [Closed EXCEPT !.stage = "open"]
  /\ before' = Empty /\ failed' = FALSE
  /\ UNCHANGED <<vault, loggedIn, rows, view, cache, changes, gone, overwritten>>

Session == Login \/ ChangePassword

Table ==
  \/ PressF5 \/ ToggleAllPasswords
  \/ \E m \in rows : TogglePassword(m) \/ PaintPassword(m)
  \/ \E e \in Typed : AddEntry(e)
  \/ \E m \in rows, e \in Typed : EditEntry(m, e)
  \/ \E selected \in SUBSET rows : DeleteEntries(selected)

Import ==
  \/ OpenImport \/ CancelImport
  \/ \E e \in Typed : ImportShared(e)
  \/ \E file \in Files, action \in Actions, forAll \in BOOLEAN :
       PressImport(file, action, forAll)
  \/ ImportRow
  \/ \E action \in Actions, toAll \in BOOLEAN : AnswerConflict(action, toAll)
  \/ FinishImport \/ CloseSummary

Next == Session \/ Table \/ Import

Spec == Init /\ [][Next]_vars

(***************************************************************************)
(* Properties                                                              *)
(***************************************************************************)
\* A cached password is the stored one, across refreshes, edits that fail and
\* password changes, as long as its row was neither deleted nor imported over
\* since: editing keeps the cache and the table in step.
CacheFollowsEdits ==
  \A i \in Stored(vault) :
    cache[i] # NoPassword /\ i \notin overwritten => cache[i] = vault[i].password

\* An import changes no entry whose title and login are not in the file, whatever
\* fails, although it deletes and updates by rowids that it read before the first
\* row and that its own insertions may have used again.
ImportKeepsOthers ==
  import.stage \in {"running", "summary"} =>
    \A i \in Stored(before) :
      (\A r \in 1 .. Len(import.file) : import.file[r].name # before[i].name)
        => vault[i] = before[i]

NoRepeats ==
  \A r, s \in 1 .. Len(import.file) :
    import.file[r].name = import.file[s].name => r = s
KeepsEveryName ==
  \A i \in Stored(before) : \E j \in Stored(vault) : vault[j].name = before[i].name

\* If no statement failed and no entry is twice in the file, everything counted
\* as imported is stored, and every title and login of before is still there.
ImportIsComplete ==
  import.stage = "summary" /\ ~failed /\ NoRepeats =>
    /\ \A r \in import.imported : \E j \in Stored(vault) : vault[j] = import.file[r]
    /\ KeepsEveryName

\* "Delete this entry?": a row that was read from an entry which is gone does not
\* delete an entry of another title or login.
DeleteMeansTheRow ==
  [][InMainWindow =>
       \A m \in rows :
         m.id \in gone /\ vault[m.id] # NoEntry /\ vault[m.id].name # m.name
           => vault'[m.id] # NoEntry]_vars
=============================================================================
