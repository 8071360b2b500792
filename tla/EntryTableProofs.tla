-------------------------- MODULE EntryTableProofs --------------------------
(***************************************************************************)
(* Theorems about EntryTable, for any names, passwords, files and faults.  *)
(***************************************************************************)
EXTENDS EntryTable, FiniteSetTheorems, TLAPS

Vault == [Rowids -> Entries \cup {NoEntry}]
OneRowPerId(s) == \A k, m \in s : k.id = m.id => k = m

(***************************************************************************)
(* The operators the model is built from                                   *)
(***************************************************************************)
\* What getAllEntryMetadata returns: rows of stored entries under their names,
\* one for each rowid.
LEMMA MetadataType ==
  ASSUME NEW v \in Vault, NEW s \in MetadataRead(v)
  PROVE  /\ s \subseteq Metadata
         /\ OneRowPerId(s)
         /\ \A m \in s : v[m.id] # NoEntry /\ v[m.id].name = m.name
<1>1. s \subseteq AllMetadata(v)
  BY DEF MetadataRead
<1>2. /\ AllMetadata(v) \subseteq Metadata
      /\ \A m \in AllMetadata(v) : v[m.id] # NoEntry /\ v[m.id].name = m.name
  BY DEF AllMetadata, Stored, Vault, Entries, Metadata
<1>3. OneRowPerId(s)
  BY <1>1, <1>2 DEF OneRowPerId, AllMetadata
<1> QED BY <1>1, <1>2, <1>3

\* An insertion changes at most one rowid, which was free.
LEMMA CreatedType ==
  ASSUME NEW v \in Vault, NEW e \in Entries, NEW ok \in BOOLEAN, NEW w \in Created(v, e, ok)
  PROVE  /\ w \in Vault
         /\ \A i \in Rowids : v[i] # NoEntry => w[i] = v[i]
<1>1. CASE ~ok
  BY <1>1 DEF Created
<1>2. CASE ok
  <2>1. PICK i \in {j \in Rowids : IsNextRowid(v, j)} : w = [v EXCEPT ![i] = e]
    BY <1>2 DEF Created
  <2>2. i \in Rowids /\ v[i] = NoEntry
    BY <2>1 DEF IsNextRowid, Stored, Rowids
  <2> QED BY <2>1, <2>2 DEF Vault
<1> QED BY <1>1, <1>2

LEMMA OutcomeType ==
  /\ Outcomes \subseteq BOOLEAN
  /\ CreateOutcomes \subseteq BOOLEAN
BY DEF Outcomes, CreateOutcomes

\* What a row of the file may replace or update is stored, and was listed under
\* the name of that row when the import began.
LEMMA OldRowidType ==
  ASSUME NEW e
  PROVE  /\ OldRowid(e) \subseteq Rowids
         /\ \A i \in OldRowid(e) :
              vault[i] # NoEntry /\ \E m \in import.existing : m.id = i /\ m.name = e.name
BY DEF OldRowid, Stored, Matches

\* Rows have numbers below the greatest rowid: every other row has another rowid.
LEMMA RowNumberType ==
  ASSUME rows \subseteq Metadata, OneRowPerId(rows), NEW m \in rows
  PROVE  RowNumber(m) \in 0 .. MaxRowid - 1
<1> DEFINE above == {k \in rows : Precedes(k, m)}
           others == Rowids \ {m.id}
           idOf == [k \in above |-> k.id]
<1>1. m.id \in Rowids /\ m.name \in Names /\ m.name[1] \in Nat /\ MaxRowid \in Nat
  BY NamesAssumption, BoundsAssumption DEF Metadata
<1>2. ~Precedes(m, m)
  BY <1>1 DEF Precedes, Rowids
<1>3. idOf \in Injection(above, others)
  <2>1. idOf \in [above -> others]
    BY <1>2 DEF Metadata, OneRowPerId
  <2>2. IsInjective(idOf)
    BY DEF IsInjective, OneRowPerId
  <2> QED BY <2>1, <2>2 DEF Injection
<1>4. IsFiniteSet(Rowids) /\ Cardinality(Rowids) = MaxRowid
  BY <1>1, FS_Interval DEF Rowids
<1>5. IsFiniteSet(others) /\ Cardinality(others) = MaxRowid - 1
  BY <1>1, <1>4, FS_RemoveElement
<1>6. IsFiniteSet(above) /\ Cardinality(above) <= Cardinality(others)
  <2> HIDE DEF above, others, idOf
  <2> QED BY <1>3, <1>5, FS_Injection
<1>7. Cardinality(above) \in Nat
  BY <1>6, FS_CardinalityType
<1> QED BY <1>1, <1>5, <1>6, <1>7 DEF RowNumber

(***************************************************************************)
(* Types                                                                   *)
(***************************************************************************)
ImportType ==
  [stage : {"closed", "open", "running", "summary"},
   file : Seq(Entries), next : Nat \ {0}, action : Actions,
   forAll : BOOLEAN, existing : SUBSET Metadata,
   imported : SUBSET Nat, updated : SUBSET Nat]

LEMMA ClosedType == Closed \in ImportType /\ Empty \in Vault
BY DEF Closed, ImportType, Actions, Empty, Vault

LEMMA ChangeType ==
  ASSUME NEW cost \in Nat, changes \in 0 .. MaxChanges, Change(cost)
  PROVE  changes' \in 0 .. MaxChanges
BY BoundsAssumption DEF Change

LEMMA RefreshType ==
  ASSUME NEW v \in Vault, Refresh(v)
  PROVE  rows' \subseteq Metadata /\ OneRowPerId(rows)' /\ gone' \subseteq Rowids
BY MetadataType DEF Refresh, OneRowPerId

LEMMA TypeInit == Init => TypeOK
<1> SUFFICES ASSUME Init PROVE TypeOK
  OBVIOUS
<1>1. vault \in Vault
  BY InputAssumption DEF Init, Vault
<1>2. rows \subseteq Metadata /\ OneRowPerId(rows)
  BY <1>1, MetadataType DEF Init
<1>3. import \in ImportType /\ before \in Vault /\ changes \in 0 .. MaxChanges
  BY ClosedType, BoundsAssumption DEF Init
<1>4. shown \subseteq 0 .. MaxRowid - 1 /\ cache \in [Rowids -> Passwords \cup {NoPassword}]
      /\ gone \subseteq Rowids /\ overwritten \subseteq Rowids
      /\ loggedIn \in BOOLEAN /\ showAll \in BOOLEAN /\ failed \in BOOLEAN
  BY DEF Init
<1> QED
  BY <1>1, <1>2, <1>3, <1>4 DEF TypeOK, Vault, OneRowPerId, ImportType

\* One row of an import.
LEMMA TypePerform ==
  ASSUME TypeOK, NEW e \in Entries, NEW action \in Actions, NEW following \in Actions,
         Perform(e, action, following)
  PROVE  TypeOK'
<1>1. vault' \in Vault /\ gone' \subseteq Rowids /\ overwritten' \subseteq Rowids
      /\ failed' \in BOOLEAN
  <2>1. CASE ReplaceOld(e)
    <3>1. PICK deleteOk \in Outcomes, createOk \in CreateOutcomes :
            LET old == IF deleteOk THEN OldRowid(e) ELSE {}
                rest == [i \in Rowids |-> IF i \in old THEN NoEntry ELSE vault[i]]
            IN  /\ vault' \in Created(rest, e, createOk)
                /\ gone' = gone \cup (old \cap Listed)
                /\ overwritten' = overwritten \cup (old \cap Cached)
                /\ failed' = (failed \/ ~createOk \/ (Matches(e) # {} /\ ~deleteOk))
      BY <2>1 DEF ReplaceOld
    <3> DEFINE old == IF deleteOk THEN OldRowid(e) ELSE {}
               rest == [i \in Rowids |-> IF i \in old THEN NoEntry ELSE vault[i]]
    <3>2. rest \in Vault
      BY DEF TypeOK, Vault
    <3>3. vault' \in Vault
      <4> HIDE DEF rest
      <4> QED BY <3>1, <3>2, CreatedType, OutcomeType DEF rest
    <3> QED BY <3>1, <3>3, OldRowidType, OutcomeType DEF TypeOK
  <2>2. CASE AddNew(e)
    BY <2>2, CreatedType, OutcomeType DEF AddNew, TypeOK, Vault
  <2>3. CASE UpdateOld(e)
    BY <2>3, OldRowidType, OutcomeType DEF UpdateOld, TypeOK, Vault
  <2>4. CASE UNCHANGED <<vault, gone, overwritten, failed>>
    BY <2>4 DEF TypeOK, Vault
  <2> QED BY <2>1, <2>2, <2>3, <2>4 DEF Perform
<1>2. import' \in ImportType
  <2> DEFINE imp == IF action \in {"replace", "add"}
                      THEN import.imported \cup {import.next} ELSE import.imported
             upd == IF action = "update" /\ Matches(e) # {}
                      THEN import.updated \cup {import.next} ELSE import.updated
  <2>1. import \in ImportType
    BY DEF TypeOK, ImportType
  <2>2. imp \subseteq Nat /\ upd \subseteq Nat /\ import.next + 1 \in Nat \ {0}
    BY <2>1 DEF ImportType
  <2>3. import' = [import EXCEPT !.next = import.next + 1, !.action = following,
                                 !.imported = imp, !.updated = upd]
    BY DEF Perform
  <2> HIDE DEF imp, upd
  <2> QED BY <2>1, <2>2, <2>3 DEF ImportType
<1> QED BY <1>1, <1>2 DEF Perform, TypeOK, Vault, ImportType, view

LEMMA RowType ==
  ASSUME TypeOK, InLoop
  PROVE  Row \in Entries
BY DEF TypeOK, InLoop, Row

LEMMA TypeNext == TypeOK /\ [Next]_vars => TypeOK'
<1> SUFFICES ASSUME TypeOK, [Next]_vars PROVE TypeOK'
  OBVIOUS
<1> USE DEF view, history
<1>0. vault \in Vault /\ OneRowPerId(rows)
  BY DEF TypeOK, Vault, OneRowPerId
<1>1. CASE Login
  BY <1>0, <1>1, RefreshType DEF Login, TypeOK, OneRowPerId
<1>2. CASE ChangePassword
  <2>1. changes' \in 0 .. MaxChanges
    BY <1>2, ChangeType DEF ChangePassword, TypeOK
  <2> QED BY <1>2, <2>1 DEF ChangePassword, TypeOK
<1>3. CASE PressF5
  BY <1>0, <1>3, RefreshType DEF PressF5, TypeOK, OneRowPerId
<1>4. CASE ToggleAllPasswords
  BY <1>4 DEF ToggleAllPasswords, TypeOK
<1>5. ASSUME NEW m \in rows, TogglePassword(m) PROVE TypeOK'
  <2>1. RowNumber(m) \in 0 .. MaxRowid - 1
    BY <1>0, RowNumberType DEF TypeOK
  <2>2. shown' \subseteq 0 .. MaxRowid - 1
    BY <1>5, <2>1 DEF TogglePassword, TypeOK
  <2> QED BY <1>5, <2>2 DEF TogglePassword, TypeOK
<1>6. ASSUME NEW m \in rows, PaintPassword(m) PROVE TypeOK'
  <2>1. m.id \in Rowids /\ vault[m.id].password \in Passwords
    BY <1>6 DEF PaintPassword, TypeOK, Metadata, Entries
  <2> QED BY <1>6, <2>1 DEF PaintPassword, TypeOK
<1>7. ASSUME NEW e \in Typed, AddEntry(e) PROVE TypeOK'
  <2>1. vault' \in Vault
    BY <1>0, <1>7, CreatedType, OutcomeType, InputAssumption DEF AddEntry
  <2> QED BY <1>7, <2>1, BoundsAssumption DEF AddEntry, Change, TypeOK, Vault
<1>8. ASSUME NEW m \in rows, NEW e \in Typed, EditEntry(m, e) PROVE TypeOK'
  <2>1. e \in Entries /\ e.password \in Passwords /\ m.id \in Rowids
    BY InputAssumption DEF TypeOK, Metadata, Entries
  <2>2. vault' \in Vault /\ cache' \in [Rowids -> Passwords \cup {NoPassword}]
        /\ overwritten' \subseteq Rowids
    BY <1>8, <2>1 DEF EditEntry, TypeOK, Vault
  <2> QED BY <1>8, <2>2, BoundsAssumption DEF EditEntry, Change, TypeOK, Vault
<1>9. ASSUME NEW selected \in SUBSET rows, DeleteEntries(selected) PROVE TypeOK'
  <2>1. PICK deleted \in IF "write" \in Faults THEN SUBSET selected ELSE {selected} :
          LET ids == {m.id : m \in deleted}
          IN  /\ vault' = [i \in Rowids |-> IF i \in ids THEN NoEntry ELSE vault[i]]
              /\ overwritten' = overwritten \cup (ids \cap Cached)
              /\ Refresh(vault')
    BY <1>9 DEF DeleteEntries
  <2>2. vault' \in Vault /\ overwritten' \subseteq Rowids
    BY <1>0, <2>1 DEF Vault, TypeOK, Cached
  <2>3. rows' \subseteq Metadata /\ OneRowPerId(rows)' /\ gone' \subseteq Rowids
    BY <2>1, <2>2, RefreshType
  <2> QED
    BY <1>9, <2>2, <2>3, BoundsAssumption
    DEF DeleteEntries, Change, TypeOK, Vault, OneRowPerId
<1>10. CASE OpenImport \/ CancelImport
  <2>1. import' \in ImportType
    BY <1>10, ClosedType DEF OpenImport, CancelImport, ImportType
  <2> QED BY <1>10, <2>1 DEF OpenImport, CancelImport, TypeOK, ImportType
<1>10a. ASSUME NEW e \in Typed, ImportShared(e) PROVE TypeOK'
  <2>1. vault' \in Vault
    BY <1>0, <1>10a, CreatedType, OutcomeType, InputAssumption DEF ImportShared
  <2>2. import' \in ImportType
    BY <1>10a, ClosedType DEF ImportShared, TypeOK, ImportType
  <2> QED
    BY <1>10a, <2>1, <2>2, BoundsAssumption
    DEF ImportShared, Change, TypeOK, Vault, ImportType
<1>11. ASSUME NEW file \in Files, NEW action \in Actions, NEW forAll \in BOOLEAN,
              PressImport(file, action, forAll)
       PROVE  TypeOK'
  <2>1. PICK existing \in MetadataRead(vault) :
          import' = [Closed EXCEPT !.stage = "running", !.file = file,
                       !.action = action, !.forAll = forAll, !.existing = existing]
    BY <1>11 DEF PressImport
  <2>2. existing \subseteq Metadata /\ file \in Seq(Entries)
    BY <1>0, MetadataType, InputAssumption
  <2>3. import' \in ImportType
    BY <2>1, <2>2, ClosedType DEF ImportType
  <2>4. changes' \in 0 .. MaxChanges
    BY <1>11, ChangeType DEF PressImport, TypeOK
  <2> QED BY <1>11, <2>3, <2>4 DEF PressImport, TypeOK, ImportType
<1>12. CASE ImportRow
  <2>1. import.action \in Actions
    BY DEF TypeOK
  <2> QED BY <1>12, <2>1, TypePerform, RowType DEF ImportRow
<1>13. ASSUME NEW action \in Actions, NEW toAll \in BOOLEAN, AnswerConflict(action, toAll)
       PROVE  TypeOK'
  <2>1. (IF toAll THEN action ELSE import.action) \in Actions
    BY DEF TypeOK
  <2> QED BY <1>13, <2>1, TypePerform, RowType DEF AnswerConflict
<1>14. CASE FinishImport
  <2>1. import' \in ImportType
    <3>1. import \in ImportType
      BY DEF TypeOK, ImportType
    <3> QED BY <1>14, <3>1, ClosedType DEF FinishImport, ImportType
  <2> QED BY <1>14, <2>1 DEF FinishImport, TypeOK, ImportType
<1>15. CASE CloseSummary
  <2>1. import' \in ImportType
    BY <1>15, ClosedType DEF CloseSummary, ImportType
  <2> QED BY <1>15, <2>1, ClosedType DEF CloseSummary, TypeOK, ImportType, Vault
<1>16. CASE UNCHANGED vars
  BY <1>16 DEF vars, TypeOK
<1> QED
  BY <1>1, <1>2, <1>3, <1>4, <1>5, <1>6, <1>7, <1>8, <1>9, <1>10, <1>11, <1>12, <1>13,
     <1>14, <1>15, <1>16, <1>10a
  DEF Next, Session, Table, Import

\* Every variable keeps its type, and the table has one row for a rowid.
THEOREM TypeCorrect == Spec => []TypeOK
BY TypeInit, TypeNext, PTL DEF Spec

(***************************************************************************)
(* The cache                                                               *)
(***************************************************************************)
\* CacheFollowsEdits is not inductive: an insertion could meet a cached password
\* of a free rowid.  Such a password belongs to an entry that was deleted.
CacheInv ==
  \A i \in Rowids :
    cache[i] # NoPassword /\ i \notin overwritten
      => vault[i] # NoEntry /\ cache[i] = vault[i].password

LEMMA CacheImplies == CacheInv => CacheFollowsEdits
BY DEF CacheInv, CacheFollowsEdits, Stored

\* A step that keeps the cache and changes no stored entry but those it marks as
\* overwritten.
LEMMA CacheKept ==
  ASSUME CacheInv, UNCHANGED cache, overwritten \subseteq overwritten',
         \A i \in Rowids :
           cache[i] # NoPassword /\ vault[i] # NoEntry
             => vault'[i] = vault[i] \/ i \in overwritten'
  PROVE  CacheInv'
BY DEF CacheInv

\* Replacing an entry changes its own rowid and one that is free without it.
LEMMA ReplaceChanges ==
  ASSUME TypeOK, NEW e \in Entries, ReplaceOld(e)
  PROVE  \E old \in SUBSET OldRowid(e) :
           /\ \A i \in Rowids \ old : vault[i] # NoEntry => vault'[i] = vault[i]
           /\ overwritten' = overwritten \cup (old \cap Cached)
<1>1. PICK deleteOk \in Outcomes, createOk \in CreateOutcomes :
        LET old == IF deleteOk THEN OldRowid(e) ELSE {}
            rest == [i \in Rowids |-> IF i \in old THEN NoEntry ELSE vault[i]]
        IN  /\ vault' \in Created(rest, e, createOk)
            /\ overwritten' = overwritten \cup (old \cap Cached)
  BY DEF ReplaceOld
<1> DEFINE old == IF deleteOk THEN OldRowid(e) ELSE {}
           rest == [i \in Rowids |-> IF i \in old THEN NoEntry ELSE vault[i]]
<1>2. rest \in Vault
  BY DEF TypeOK, Vault
<1>3. \A i \in Rowids : rest[i] # NoEntry => vault'[i] = rest[i]
  <2> HIDE DEF rest
  <2> QED BY <1>1, <1>2, CreatedType, OutcomeType DEF rest
<1>4. \A i \in Rowids \ old : vault[i] # NoEntry => vault'[i] = vault[i]
  BY <1>3
<1>5. old \in SUBSET OldRowid(e)
  OBVIOUS
<1> QED BY <1>1, <1>4, <1>5

LEMMA CachePerform ==
  ASSUME TypeOK, CacheInv, NEW e \in Entries, NEW action, NEW following,
         Perform(e, action, following)
  PROVE  CacheInv'
<1>0. UNCHANGED cache
  BY DEF Perform
<1>1. CASE ReplaceOld(e)
  <2>1. PICK old \in SUBSET OldRowid(e) :
          /\ \A i \in Rowids \ old : vault[i] # NoEntry => vault'[i] = vault[i]
          /\ overwritten' = overwritten \cup (old \cap Cached)
    BY <1>1, ReplaceChanges
  <2> QED BY <1>0, <2>1, CacheKept DEF Cached
<1>2. CASE AddNew(e)
  <2>1. \A i \in Rowids : vault[i] # NoEntry => vault'[i] = vault[i]
    BY <1>2, CreatedType, OutcomeType DEF AddNew, TypeOK, Vault
  <2> QED BY <1>0, <1>2, <2>1, CacheKept DEF AddNew
<1>3. CASE UpdateOld(e)
  <2>1. PICK written \in SUBSET OldRowid(e) :
          /\ vault' = [i \in Rowids |-> IF i \in written THEN e ELSE vault[i]]
          /\ overwritten' = overwritten \cup (written \cap Cached)
    BY <1>3 DEF UpdateOld
  <2> QED BY <1>0, <2>1, CacheKept DEF Cached
<1>4. CASE UNCHANGED <<vault, gone, overwritten, failed>>
  BY <1>0, <1>4, CacheKept
<1> QED BY <1>1, <1>2, <1>3, <1>4 DEF Perform

LEMMA CacheNext == TypeOK /\ CacheInv /\ [Next]_vars => CacheInv'
<1> SUFFICES ASSUME TypeOK, CacheInv, [Next]_vars PROVE CacheInv'
  OBVIOUS
<1>1. CASE ToggleAllPasswords
  BY <1>1 DEF ToggleAllPasswords, CacheInv
<1>2. ASSUME NEW m \in rows, PaintPassword(m) PROVE CacheInv'
  BY <1>2 DEF PaintPassword, CacheInv, TypeOK, Metadata, history
<1>3. ASSUME NEW e \in Typed, AddEntry(e) PROVE CacheInv'
  <2>1. \A i \in Rowids : vault[i] # NoEntry => vault'[i] = vault[i]
    BY <1>3, CreatedType, OutcomeType, InputAssumption DEF AddEntry, TypeOK, Vault
  <2> QED BY <1>3, <2>1, CacheKept DEF AddEntry, history
<1>3a. ASSUME NEW e \in Typed, ImportShared(e) PROVE CacheInv'
  <2>1. \A i \in Rowids : vault[i] # NoEntry => vault'[i] = vault[i]
    BY <1>3a, CreatedType, OutcomeType, InputAssumption DEF ImportShared, TypeOK, Vault
  <2> QED BY <1>3a, <2>1, CacheKept DEF ImportShared, history
<1>4. ASSUME NEW m \in rows, NEW e \in Typed, EditEntry(m, e) PROVE CacheInv'
  <2>1. e # NoEntry /\ m.id \in Rowids
    BY InputAssumption, NullAssumption DEF TypeOK, Metadata
  <2> QED BY <1>4, <2>1 DEF EditEntry, CacheInv, TypeOK
<1>5. ASSUME NEW selected \in SUBSET rows, DeleteEntries(selected) PROVE CacheInv'
  <2>1. PICK ids :
          /\ vault' = [i \in Rowids |-> IF i \in ids THEN NoEntry ELSE vault[i]]
          /\ overwritten' = overwritten \cup (ids \cap Cached)
    BY <1>5 DEF DeleteEntries
  <2> QED BY <1>5, <2>1, CacheKept DEF DeleteEntries, Cached
<1>6. CASE ImportRow
  BY <1>6, CachePerform, RowType DEF ImportRow
<1>7. ASSUME NEW action \in Actions, NEW toAll \in BOOLEAN, AnswerConflict(action, toAll)
      PROVE  CacheInv'
  BY <1>7, CachePerform, RowType DEF AnswerConflict
<1>8. CASE UNCHANGED <<vault, cache, overwritten>>
  BY <1>8 DEF CacheInv
<1> QED
  BY <1>1, <1>2, <1>3, <1>3a, <1>4, <1>5, <1>6, <1>7, <1>8
  DEF Next, Session, Table, Import, Login, ChangePassword, PressF5, TogglePassword,
      OpenImport, CancelImport, PressImport, FinishImport, CloseSummary, vars, history

\* The password cache stays in step with edits, refreshes and password changes,
\* whatever fails; only a deletion or an import can leave it behind.
THEOREM CacheIsInStep == Spec => []CacheFollowsEdits
<1>1. Init => CacheInv
  BY DEF Init, CacheInv
<1>2. TypeOK /\ CacheInv /\ [Next]_vars => CacheInv'
  BY CacheNext
<1> QED BY <1>1, <1>2, TypeCorrect, CacheImplies, PTL DEF Spec

(***************************************************************************)
(* The import                                                              *)
(***************************************************************************)
\* What onImport read before the first row was so in the vault of then: a rowid
\* that it deletes or updates was that of an entry with the same title and login.
ExistingIsBefore ==
  import.stage = "running" =>
    \A m \in import.existing : before[m.id] # NoEntry /\ before[m.id].name = m.name

ImportInv == ExistingIsBefore /\ ImportKeepsOthers

\* A row of the file changes no entry of another title or login.
LEMMA OthersKept ==
  ASSUME TypeOK, ExistingIsBefore, ImportKeepsOthers, InLoop, NEW action, NEW following,
         Perform(Row, action, following),
         NEW i \in Rowids, before[i] # NoEntry,
         \A r \in 1 .. Len(import.file) : import.file[r].name # before[i].name
  PROVE  vault'[i] = before[i]
<1>0. Row \in Entries /\ import.stage = "running" /\ Row.name # before[i].name
  BY RowType DEF InLoop, Row, TypeOK
<1>1. vault[i] = before[i] /\ vault[i] # NoEntry
  BY <1>0 DEF ImportKeepsOthers, Stored
<1>2. i \notin OldRowid(Row)
  <2> SUFFICES ASSUME i \in OldRowid(Row) PROVE FALSE
    OBVIOUS
  <2>1. PICK m \in import.existing : m.id = i /\ m.name = Row.name
    BY OldRowidType
  <2> QED BY <1>0, <2>1 DEF ExistingIsBefore
<1>3. CASE ReplaceOld(Row)
  BY <1>0, <1>1, <1>2, <1>3, ReplaceChanges
<1>4. CASE AddNew(Row)
  BY <1>0, <1>1, <1>4, CreatedType, OutcomeType DEF AddNew, TypeOK, Vault
<1>5. CASE UpdateOld(Row)
  BY <1>1, <1>2, <1>5 DEF UpdateOld
<1>6. CASE UNCHANGED <<vault, gone, overwritten, failed>>
  BY <1>1, <1>6
<1> QED BY <1>3, <1>4, <1>5, <1>6 DEF Perform

LEMMA ImportPerform ==
  ASSUME TypeOK, ImportInv, InLoop, NEW action, NEW following,
         Perform(Row, action, following)
  PROVE  ImportInv'
<1>1. /\ import'.stage = import.stage /\ import'.existing = import.existing
      /\ import'.file = import.file /\ before' = before
  BY DEF Perform, TypeOK
<1>2. ExistingIsBefore'
  BY <1>1 DEF ImportInv, ExistingIsBefore
<1>3. ImportKeepsOthers'
  BY <1>1, OthersKept DEF ImportInv, ImportKeepsOthers, Stored
<1> QED BY <1>2, <1>3 DEF ImportInv

LEMMA ImportNext == TypeOK /\ ImportInv /\ [Next]_vars => ImportInv'
<1> SUFFICES ASSUME TypeOK, ImportInv, [Next]_vars PROVE ImportInv'
  OBVIOUS
<1> USE DEF ImportInv, ExistingIsBefore, ImportKeepsOthers
<1>1. CASE InMainWindow /\ import' = import
  BY <1>1 DEF InMainWindow
<1>2. CASE OpenImport \/ CancelImport
  BY <1>2 DEF OpenImport, CancelImport, Closed
<1>2a. ASSUME NEW e \in Typed, ImportShared(e) PROVE ImportInv'
  <2>1. import.stage = "open" /\ import'.stage \in {"closed", "open"}
    BY <1>2a DEF ImportShared, Closed
  <2> QED BY <2>1
<1>3. ASSUME NEW file \in Files, NEW action \in Actions, NEW forAll \in BOOLEAN,
             PressImport(file, action, forAll)
      PROVE  ImportInv'
  <2>1. PICK existing \in MetadataRead(vault) :
          import' = [Closed EXCEPT !.stage = "running", !.file = file,
                       !.action = action, !.forAll = forAll, !.existing = existing]
    BY <1>3 DEF PressImport
  <2>2. \A m \in existing : vault[m.id] # NoEntry /\ vault[m.id].name = m.name
    BY MetadataType DEF TypeOK, Vault
  <2>3. import'.existing = existing /\ before' = vault /\ vault' = vault
    BY <1>3, <2>1 DEF PressImport, Closed
  <2> QED BY <2>2, <2>3
<1>4. CASE ImportRow
  BY <1>4, ImportPerform DEF ImportRow
<1>5. ASSUME NEW action \in Actions, NEW toAll \in BOOLEAN, AnswerConflict(action, toAll)
      PROVE  ImportInv'
  BY <1>5, ImportPerform DEF AnswerConflict
<1>6. CASE FinishImport
  <2>1. import'.stage = "summary" /\ import'.file = import.file
    BY <1>6 DEF FinishImport, Closed
  <2> QED BY <1>6, <2>1 DEF FinishImport, history
<1>7. CASE CloseSummary
  <2>1. import'.stage \in {"closed", "open"}
    BY <1>7 DEF CloseSummary, Closed
  <2> QED BY <2>1
<1>8. CASE UNCHANGED <<vault, import, before>>
  BY <1>8
<1> QED
  BY <1>1, <1>2, <1>2a, <1>3, <1>4, <1>5, <1>6, <1>7, <1>8
  DEF Next, Session, Table, Import, Login, ChangePassword, PressF5, ToggleAllPasswords,
      TogglePassword, PaintPassword, AddEntry, EditEntry, DeleteEntries, vars, history

\* An import changes no entry whose title and login are not in the file.
THEOREM ImportLeavesOthers == Spec => []ImportKeepsOthers
<1>1. Init => ImportInv
  BY DEF Init, Closed, ImportInv, ExistingIsBefore, ImportKeepsOthers
<1>2. TypeOK /\ ImportInv /\ [Next]_vars => ImportInv'
  BY ImportNext
<1>3. ImportInv => ImportKeepsOthers
  BY DEF ImportInv
<1> QED BY <1>1, <1>2, <1>3, TypeCorrect, PTL DEF Spec

(***************************************************************************)
(* Completeness of an import                                               *)
(***************************************************************************)
\* The rows that are done are those before import.next.
Done == {r \in 1 .. Len(import.file) : r < import.next}

\* A rowid of before whose name no row has had yet still has its entry.
RestAsBefore ==
  import.stage = "running" =>
    \A i \in Stored(before) :
      (\A r \in Done : import.file[r].name # before[i].name) => vault[i] = before[i]

ImportedIsStored ==
  import.stage \in {"running", "summary"} /\ ~failed /\ NoRepeats =>
    /\ \A r \in import.imported : \E j \in Stored(vault) : vault[j] = import.file[r]
    /\ KeepsEveryName

ImportedIsDone == import.stage = "running" => import.imported \subseteq Done

CompleteInv == ExistingIsBefore /\ ImportedIsDone /\ RestAsBefore /\ ImportedIsStored

\* What a row that succeeds does to the vault: the rowids of "old" have an entry
\* of the row's name and may lose it; no other stored entry changes; and if one
\* is lost, or the row counts as imported, the row's entry is stored.
LEMMA RowEffect ==
  ASSUME TypeOK, NEW e \in Entries, NEW action \in Actions, NEW following,
         Perform(e, action, following)
  PROVE  \E old \in SUBSET OldRowid(e) :
           /\ \A i \in Rowids \ old : vault[i] # NoEntry => vault'[i] = vault[i]
           /\ failed => failed'
           /\ ~failed' /\ (old # {} \/ action \in {"replace", "add"})
                => \E j \in Rowids : vault'[j] = e
<1> DEFINE Effect(old) ==
             /\ \A i \in Rowids \ old : vault[i] # NoEntry => vault'[i] = vault[i]
             /\ failed => failed'
             /\ ~failed' /\ (old # {} \/ action \in {"replace", "add"})
                  => \E j \in Rowids : vault'[j] = e
<1>0. ASSUME NEW v \in Vault, NEW w \in Created(v, e, TRUE)
      PROVE  \E j \in Rowids : w[j] = e
  BY <1>0 DEF Created, Vault
<1>1. CASE action = "replace" /\ ReplaceOld(e)
  <2>1. PICK deleteOk \in Outcomes, createOk \in CreateOutcomes :
          LET old == IF deleteOk THEN OldRowid(e) ELSE {}
              rest == [i \in Rowids |-> IF i \in old THEN NoEntry ELSE vault[i]]
          IN  /\ vault' \in Created(rest, e, createOk)
              /\ gone' = gone \cup (old \cap Listed)
              /\ overwritten' = overwritten \cup (old \cap Cached)
              /\ failed' = (failed \/ ~createOk \/ (Matches(e) # {} /\ ~deleteOk))
    BY <1>1 DEF ReplaceOld
  <2> DEFINE old == IF deleteOk THEN OldRowid(e) ELSE {}
             rest == [i \in Rowids |-> IF i \in old THEN NoEntry ELSE vault[i]]
  <2>2. rest \in Vault
    BY DEF TypeOK, Vault
  <2>3. createOk \in BOOLEAN
    BY OutcomeType
  <2>4. \A i \in Rowids : rest[i] # NoEntry => vault'[i] = rest[i]
    <3> HIDE DEF rest
    <3> QED BY <2>1, <2>2, <2>3, CreatedType DEF rest
  <2>5. \A i \in Rowids \ old : vault[i] # NoEntry => vault'[i] = vault[i]
    BY <2>4
  <2>6. ~failed' => \E j \in Rowids : vault'[j] = e
    <3> SUFFICES ASSUME ~failed' PROVE \E j \in Rowids : vault'[j] = e
      OBVIOUS
    <3>1. createOk = TRUE
      BY <2>1, <2>3
    <3> HIDE DEF rest
    <3> QED BY <1>0, <2>1, <2>2, <3>1 DEF rest
  <2>7. old \in SUBSET OldRowid(e) /\ (failed => failed')
    BY <2>1
  <2> QED BY <2>5, <2>6, <2>7
<1>2. CASE action = "add" /\ AddNew(e)
  <2>1. PICK ok \in CreateOutcomes : vault' \in Created(vault, e, ok) /\ failed' = (failed \/ ~ok)
    BY <1>2 DEF AddNew
  <2>2. ok \in BOOLEAN /\ vault \in Vault
    BY OutcomeType DEF TypeOK, Vault
  <2>3. ~failed' => ok = TRUE
    BY <2>1, <2>2
  <2>4. \A i \in Rowids : vault[i] # NoEntry => vault'[i] = vault[i]
    BY <2>1, <2>2, CreatedType
  <2>5. ~failed' => \E j \in Rowids : vault'[j] = e
    BY <1>0, <2>1, <2>2, <2>3
  <2>6. Effect({})
    BY <2>1, <2>4, <2>5
  <2> QED BY <2>6
<1>3. CASE action = "update" /\ UpdateOld(e)
  <2>1. PICK ok \in CreateOutcomes :
          LET written == IF ok THEN OldRowid(e) ELSE {}
          IN  /\ vault' = [i \in Rowids |-> IF i \in written THEN e ELSE vault[i]]
              /\ failed' = (failed \/ (Matches(e) # {} /\ ~ok))
    BY <1>3 DEF UpdateOld
  <2> DEFINE written == IF ok THEN OldRowid(e) ELSE {}
  <2>2. written \in SUBSET OldRowid(e) /\ OldRowid(e) \subseteq Rowids
    BY OldRowidType
  <2>3. \A i \in Rowids \ written : vault'[i] = vault[i]
    BY <2>1
  <2>4. \A i \in written : i \in Rowids /\ vault'[i] = e
    BY <2>1, <2>2
  <2>5. failed => failed'
    BY <2>1
  <2>6. Effect(written)
    <3> HIDE DEF written
    <3> QED BY <1>3, <2>3, <2>4, <2>5
  <2> QED BY <2>2, <2>6
<1>4. CASE action = "skip" /\ UNCHANGED <<vault, gone, overwritten, failed>>
  <2>1. Effect({})
    BY <1>4
  <2> QED BY <2>1
<1> QED BY <1>1, <1>2, <1>3, <1>4 DEF Perform

LEMMA CompletePerform ==
  ASSUME TypeOK, CompleteInv, InLoop, NEW action \in Actions, NEW following,
         Perform(Row, action, following)
  PROVE  CompleteInv'
<1> DEFINE n == import.next
           file == import.file
<1>0. /\ Row \in Entries /\ Row = file[n] /\ import.stage = "running"
      /\ n \in 1 .. Len(file) /\ file \in Seq(Entries)
      /\ vault \in Vault /\ before \in Vault
  BY RowType DEF InLoop, Row, TypeOK, Vault
<1>1. /\ import'.stage = import.stage /\ import'.existing = import.existing
      /\ import'.file = file /\ before' = before /\ import'.next = n + 1
      /\ import'.imported = IF action \in {"replace", "add"} THEN import.imported \cup {n}
                            ELSE import.imported
  BY DEF Perform, TypeOK
<1>2. PICK old \in SUBSET OldRowid(Row) :
        /\ \A i \in Rowids \ old : vault[i] # NoEntry => vault'[i] = vault[i]
        /\ failed => failed'
        /\ ~failed' /\ (old # {} \/ action \in {"replace", "add"})
             => \E j \in Rowids : vault'[j] = Row
  BY <1>0, RowEffect
<1>3. /\ Done' = Done \cup {n} /\ n \notin Done /\ Done \subseteq 1 .. Len(file)
      /\ NoRepeats' = NoRepeats
  BY <1>0, <1>1 DEF Done, NoRepeats
<1>4. ExistingIsBefore' /\ ImportedIsDone'
  BY <1>0, <1>1, <1>3 DEF CompleteInv, ExistingIsBefore, ImportedIsDone
<1>5. \A i \in old : i \in Rowids /\ before[i] # NoEntry /\ before[i].name = Row.name
  <2> SUFFICES ASSUME NEW i \in old
               PROVE  i \in Rowids /\ before[i] # NoEntry /\ before[i].name = Row.name
    OBVIOUS
  <2>1. i \in Rowids /\ \E m \in import.existing : m.id = i /\ m.name = Row.name
    BY OldRowidType
  <2> QED BY <1>0, <2>1 DEF CompleteInv, ExistingIsBefore
<1>6. RestAsBefore'
  <2> SUFFICES ASSUME NEW i \in Stored(before),
                      \A r \in Done' : file[r].name # before[i].name
               PROVE  vault'[i] = before[i]
    BY <1>1 DEF RestAsBefore, Stored
  <2>1. vault[i] = before[i] /\ i \in Rowids /\ before[i] # NoEntry
    BY <1>0, <1>3 DEF CompleteInv, RestAsBefore, Stored
  <2>2. i \notin old
    BY <1>0, <1>3, <1>5
  <2> QED BY <1>2, <2>1, <2>2
<1>7. ASSUME ~failed', NoRepeats
      PROVE  /\ \A r \in import'.imported : \E j \in Rowids : vault'[j] # NoEntry /\ vault'[j] = file[r]
             /\ \A i \in Stored(before) : \E j \in Rowids : vault'[j] # NoEntry /\ vault'[j].name = before[i].name
  <2>1. \A i \in old : vault[i] = before[i] /\ vault[i].name = Row.name
    <3> SUFFICES ASSUME NEW i \in old PROVE vault[i] = before[i] /\ vault[i].name = Row.name
      OBVIOUS
    <3>1. \A r \in Done : file[r].name # Row.name
      BY <1>0, <1>3, <1>7 DEF NoRepeats
    <3> QED BY <1>0, <1>5, <3>1 DEF CompleteInv, RestAsBefore, Stored
  <2>2. ~failed
    BY <1>2, <1>7
  <2>3. /\ \A r \in import.imported : \E j \in Stored(vault) : vault[j] = file[r]
        /\ KeepsEveryName /\ import.imported \subseteq Done
    BY <1>0, <1>7, <2>2 DEF CompleteInv, ImportedIsStored, ImportedIsDone
  <2>4. Row # NoEntry
    BY <1>0, NullAssumption
  <2>5. ASSUME NEW r \in import'.imported
        PROVE  \E j \in Rowids : vault'[j] # NoEntry /\ vault'[j] = file[r]
    <3>1. CASE r \in import.imported
      <4>1. PICK j \in Stored(vault) : vault[j] = file[r]
        BY <2>3, <3>1
      <4>2. file[r].name # Row.name
        <5>1. r \in 1 .. Len(file) /\ r # n
          BY <1>3, <2>3, <3>1
        <5> QED BY <1>0, <1>7, <5>1 DEF NoRepeats
      <4>3. j \in Rowids \ old /\ vault[j] # NoEntry
        BY <2>1, <4>1, <4>2 DEF Stored
      <4> QED BY <1>2, <4>1, <4>3
    <3>2. CASE r = n /\ action \in {"replace", "add"}
      BY <1>0, <1>2, <1>7, <2>4, <3>2
    <3> QED BY <1>1, <2>5, <3>1, <3>2
  <2>6. ASSUME NEW i \in Stored(before)
        PROVE  \E j \in Rowids : vault'[j] # NoEntry /\ vault'[j].name = before[i].name
    <3>1. PICK j \in Stored(vault) : vault[j].name = before[i].name
      BY <2>3 DEF KeepsEveryName
    <3>2. j \in Rowids /\ vault[j] # NoEntry
      BY DEF Stored
    <3>3. CASE j \in old
      BY <1>2, <1>7, <2>1, <2>4, <3>1, <3>3
    <3>4. CASE j \notin old
      BY <1>2, <3>1, <3>2, <3>4
    <3> QED BY <3>3, <3>4
  <2> QED BY <2>5, <2>6
<1>8. ImportedIsStored'
  BY <1>1, <1>3, <1>7 DEF ImportedIsStored, KeepsEveryName, Stored
<1> QED BY <1>4, <1>6, <1>8 DEF CompleteInv

LEMMA CompleteNext == TypeOK /\ CompleteInv /\ [Next]_vars => CompleteInv'
<1> SUFFICES ASSUME TypeOK, CompleteInv, [Next]_vars PROVE CompleteInv'
  OBVIOUS
<1>0. ASSUME import'.stage \in {"closed", "open"} PROVE CompleteInv'
  BY <1>0 DEF CompleteInv, ExistingIsBefore, ImportedIsDone, RestAsBefore, ImportedIsStored
<1>1. CASE InMainWindow /\ import' = import
  BY <1>0, <1>1 DEF InMainWindow
<1>2. CASE OpenImport \/ CancelImport \/ CloseSummary
  BY <1>0, <1>2 DEF OpenImport, CancelImport, CloseSummary, Closed
<1>3. ASSUME NEW e \in Typed, ImportShared(e) PROVE CompleteInv'
  BY <1>0, <1>3 DEF ImportShared, Closed
<1>4. ASSUME NEW file \in Files, NEW action \in Actions, NEW forAll \in BOOLEAN,
             PressImport(file, action, forAll)
      PROVE  CompleteInv'
  <2>1. PICK existing \in MetadataRead(vault) :
          import' = [Closed EXCEPT !.stage = "running", !.file = file,
                       !.action = action, !.forAll = forAll, !.existing = existing]
    BY <1>4 DEF PressImport
  <2>2. \A m \in existing : vault[m.id] # NoEntry /\ vault[m.id].name = m.name
    BY MetadataType DEF TypeOK, Vault
  <2>3. import'.existing = existing /\ before' = vault /\ vault' = vault /\ import'.imported = {}
    BY <1>4, <2>1 DEF PressImport, Closed
  <2>4. KeepsEveryName'
    BY <2>3 DEF KeepsEveryName, Stored
  <2> QED
    BY <2>2, <2>3, <2>4
    DEF CompleteInv, ExistingIsBefore, ImportedIsDone, RestAsBefore, ImportedIsStored, Stored
<1>5. CASE ImportRow
  <2>1. import.action \in Actions
    BY DEF TypeOK
  <2> QED BY <1>5, <2>1, CompletePerform DEF ImportRow
<1>6. ASSUME NEW action \in Actions, NEW toAll \in BOOLEAN, AnswerConflict(action, toAll)
      PROVE  CompleteInv'
  BY <1>6, CompletePerform DEF AnswerConflict
<1>7. CASE FinishImport
  <2>1. /\ import'.stage = "summary" /\ import'.file = import.file
        /\ import'.imported = import.imported /\ import.stage = "running"
        /\ UNCHANGED <<vault, before, failed>>
    BY <1>7 DEF FinishImport, Closed, history
  <2> QED
    BY <2>1
    DEF CompleteInv, ExistingIsBefore, ImportedIsDone, RestAsBefore, ImportedIsStored,
        NoRepeats, KeepsEveryName, Stored
<1>8. CASE UNCHANGED <<vault, import, before, failed>>
  BY <1>8
  DEF CompleteInv, ExistingIsBefore, ImportedIsDone, RestAsBefore, ImportedIsStored, Done,
      NoRepeats, KeepsEveryName, Stored
<1> QED
  BY <1>1, <1>2, <1>3, <1>4, <1>5, <1>6, <1>7, <1>8
  DEF Next, Session, Table, Import, Login, ChangePassword, PressF5, ToggleAllPasswords,
      TogglePassword, PaintPassword, AddEntry, EditEntry, DeleteEntries, vars, history

\* After an import in which no statement failed, of a file with no entry twice,
\* every row counted as imported is stored and no title and login of before is
\* lost (onImport).
THEOREM ImportsAreComplete == Spec => []ImportIsComplete
<1>1. Init => CompleteInv
  BY DEF Init, Closed, CompleteInv, ExistingIsBefore, ImportedIsDone, RestAsBefore, ImportedIsStored
<1>2. TypeOK /\ CompleteInv /\ [Next]_vars => CompleteInv'
  BY CompleteNext
<1>3. CompleteInv => ImportIsComplete
  BY DEF CompleteInv, ImportedIsStored, ImportIsComplete
<1> QED BY <1>1, <1>2, <1>3, TypeCorrect, PTL DEF Spec
=============================================================================
