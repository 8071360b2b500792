--------------------------- MODULE SchemaInitProofs ---------------------------
(***************************************************************************)
(* Theorems about SchemaInit, for any number of processes and settings,    *)
(* whatever the file was at first and whatever fails.                      *)
(***************************************************************************)
EXTENDS SchemaInit, TLAPS

(***************************************************************************)
(* Types                                                                   *)
(***************************************************************************)
LEMMA ExecuteType ==
  ASSUME TypeOK, NEW s, Execute(s)
  PROVE  /\ exists' \in BOOLEAN /\ version' \in 0 .. 2
         /\ schema' \in [Objects -> {"none", "v1", "v2"}]
<1>1. exists' \in BOOLEAN /\ version' \in 0 .. 2
  BY DEF TypeOK, Execute
<1>2. schema' \in [Objects -> {"none", "v1", "v2"}]
  <2>1. CASE s \in Objects
    BY <2>1 DEF TypeOK, Execute
  <2>2. CASE s \notin Objects
    BY <2>2 DEF TypeOK, Execute
  <2> QED BY <2>1, <2>2
<1> QED BY <1>1, <1>2

LEMMA GotoType ==
  ASSUME TypeOK, NEW a \in Apps,
         NEW at \in {"off", "new", "old", "read", "write", "running"},
         NEW script \in {"create", "migrate"}, NEW step \in Nat, Goto(a, at, script, step)
  PROVE  pc' \in [Apps -> Positions]
BY DEF TypeOK, Goto, Positions

LEMMA LeaveScriptType ==
  ASSUME TypeOK, NEW a \in Apps, Success(a) \/ Failure(a)
  PROVE  pc' \in [Apps -> Positions]
<1>1. Off \in Positions
  BY DEF Off, Positions
<1>2. CASE Failure(a)
  BY <1>1, <1>2, GotoType DEF Failure, TypeOK, Positions
<1>3. CASE Success(a)
  BY <1>3, GotoType DEF Success, TypeOK, Positions
<1> QED BY <1>2, <1>3

LEMMA NextSettingType ==
  ASSUME TypeOK, NEW a \in Apps, NextSetting(a)
  PROVE  pc' \in [Apps -> Positions]
<1>1. pc[a].step + 1 \in Nat
  BY DEF TypeOK, Positions
<1> QED BY <1>1, GotoType DEF NextSetting

LEMMA InitTypes == Init => TypeOK
<1>1. SchemaV1 \in [Objects -> {"none", "v1", "v2"}]
  BY DEF SchemaV1
<1>2. Off \in Positions
  BY DEF Off, Positions
<1> QED BY <1>1, <1>2, FilesAssumption DEF Init, TypeOK

LEMMA StepTypes ==
  ASSUME TypeOK, [Next]_vars
  PROVE  TypeOK'
<1> USE DEF TypeOK
<1>1. CASE UNCHANGED vars
  BY <1>1 DEF vars, file
<1>2. ASSUME NEW a \in Apps, Start(a)
      PROVE  TypeOK'
  BY <1>2, GotoType DEF Start, Quietly, file
<1>3. ASSUME NEW a \in Apps, VersionUnread(a)
      PROVE  TypeOK'
  BY <1>3, GotoType DEF VersionUnread, file
<1>4. ASSUME NEW a \in Apps, RunStatement(a)
      PROVE  TypeOK'
  <2>1. pc' \in [Apps -> Positions]
    BY <1>4, LeaveScriptType DEF RunStatement
  <2>2. exists' \in BOOLEAN /\ version' \in 0 .. 2 /\ schema' \in [Objects -> {"none", "v1", "v2"}]
    BY <1>4, ExecuteType DEF RunStatement, file
  <2> QED BY <1>4, <2>1, <2>2 DEF RunStatement, Quietly
<1>5. ASSUME NEW a \in Apps, StatementRefused(a)
      PROVE  TypeOK'
  BY <1>5, LeaveScriptType DEF StatementRefused
<1>6. ASSUME NEW a \in Apps, ReadSetting(a)
      PROVE  TypeOK'
  <2>1. pc' \in [Apps -> Positions]
    BY <1>6, GotoType, NextSettingType DEF ReadSetting, Positions
  <2> QED BY <1>6, <2>1 DEF ReadSetting, Quietly, file
<1>7. ASSUME NEW a \in Apps, SettingUnread(a)
      PROVE  TypeOK'
  <2>1. pc' \in [Apps -> Positions]
    BY <1>7, GotoType DEF SettingUnread, Positions
  <2> QED BY <1>7, <2>1 DEF SettingUnread, file
<1>8. ASSUME NEW a \in Apps, WriteSetting(a)
      PROVE  TypeOK'
  <2>1. pc' \in [Apps -> Positions]
    BY <1>8, NextSettingType DEF WriteSetting
  <2>2. settings' \in [1 .. NSettings -> {"missing", "default", "chosen"}]
    BY <1>8 DEF WriteSetting
  <2> QED BY <1>8, <2>1, <2>2 DEF WriteSetting, Quietly, file
<1>9. ASSUME NEW a \in Apps, NEW k \in 1 .. NSettings, ChooseSetting(a, k)
      PROVE  TypeOK'
  BY <1>9 DEF ChooseSetting, file
<1>10. ASSUME NEW a \in Apps, Exit(a) \/ Crash(a)
       PROVE  TypeOK'
  <2>1. pc' \in [Apps -> Positions]
    <3>1. Off \in Positions
      BY DEF Off, Positions
    <3>2. pc' = [pc EXCEPT ![a] = Off]
      BY <1>10 DEF Exit, Crash
    <3> QED BY <3>1, <3>2
  <2>2. exists' \in BOOLEAN /\ disturbed' \in BOOLEAN
    BY <1>10 DEF Exit, Crash, file
  <2> QED BY <1>10, <2>1, <2>2 DEF Exit, Crash, file
<1> QED BY <1>1, <1>2, <1>3, <1>4, <1>5, <1>6, <1>7, <1>8, <1>9, <1>10 DEF Next

\* Every variable keeps its type.
THEOREM TypeCorrect == Spec => []TypeOK
<1>1. Init => TypeOK
  BY InitTypes
<1>2. TypeOK /\ [Next]_vars => TypeOK'
  BY StepTypes
<1> QED BY <1>1, <1>2, PTL DEF Spec

(***************************************************************************)
(* Where a script is                                                       *)
(***************************************************************************)
Migrating(a, steps) == InScript(a) /\ pc[a].script = "migrate" /\ pc[a].step \in steps
Creating(a, steps)  == InScript(a) /\ pc[a].script = "create" /\ pc[a].step \in steps

\* A script is at one of its statements; a migration is always of an old file.
InRange ==
  \A a \in Apps : InScript(a) => Creating(a, 1 .. 10) \/ Migrating(a, 1 .. 6)

\* A process that created key_store_new is the only one that did, up to the
\* renaming.
OneMigration ==
  \A a \in Apps :
    Migrating(a, 2 .. 5) =>
      /\ schema["key_store_new"] # "none"
      /\ \A b \in Apps \ {a} : ~Migrating(b, 2 .. 5)

\* It copied a key store of version 1, which is there until it drops it.
MigratesOld ==
  \A a \in Apps :
    /\ Migrating(a, 3 .. 4) => schema["key_store"] = "v1"
    /\ Migrating(a, 5 .. 5) => schema["audit_log"] = "v1"

\* The key store is of version 1 in a file of version 1 only.
OldWithOld == schema["key_store"] = "v1" => schema["audit_log"] = "v1"

\* What a script has passed is there, the key store apart.
PassedIsThere ==
  \A a \in Apps :
    /\ Creating(a, 3 .. 10) => schema["vault_entries"] # "none"
    /\ Creating(a, 4 .. 10) => schema["audit_log"] # "none"
    /\ Creating(a, 8 .. 10) => schema["public_keys"] # "none"
    /\ Creating(a, 9 .. 10) => schema["settings"] # "none"

IInv ==
  /\ TypeOK /\ InRange /\ OneMigration /\ MigratesOld /\ OldWithOld /\ PassedIsThere
  /\ KeyStoreComesLast

LEMMA Lengths == Len(Scripts["create"]) = 10 /\ Len(Scripts["migrate"]) = 6
BY DEF Scripts, CreateTablesV2, MigrateToV2

\* The statements that change the key stores, by their places in the scripts.
LEMMA StatementAt ==
  ASSUME TypeOK, InRange, NEW a \in Apps, InScript(a)
  PROVE  /\ Statement(a) = "key_store_new" <=> Migrating(a, 1 .. 1)
         /\ Statement(a) = "copy" <=> Migrating(a, 2 .. 2)
         /\ Statement(a) = "parameters" <=> Migrating(a, 3 .. 3)
         /\ Statement(a) = "drop" <=> Migrating(a, 4 .. 4)
         /\ Statement(a) = "rename" <=> Migrating(a, 5 .. 5)
         /\ Statement(a) = "vault_entries" <=> Creating(a, 2 .. 2)
         /\ Statement(a) = "audit_log" <=> Creating(a, 3 .. 3)
         /\ Statement(a) = "public_keys" <=> Creating(a, 7 .. 7)
         /\ Statement(a) = "settings" <=> Creating(a, 8 .. 8)
         /\ Statement(a) = "key_store" <=> Creating(a, 9 .. 9)
<1>1. CASE Creating(a, 1 .. 10)
  <2>1. Statement(a) = CreateTablesV2[pc[a].step]
    BY <1>1 DEF Statement, Scripts, Creating
  <2>2. pc[a].step \in {1, 2, 3, 4, 5, 6, 7, 8, 9, 10}
    BY <1>1 DEF Creating
  <2>3. pc[a].script = "create"
    BY <1>1 DEF Creating
  <2> QED BY <2>1, <2>2, <2>3 DEF CreateTablesV2, Creating, Migrating
<1>2. CASE Migrating(a, 1 .. 6)
  <2>1. Statement(a) = MigrateToV2[pc[a].step]
    BY <1>2 DEF Statement, Scripts, Migrating
  <2>2. pc[a].step \in {1, 2, 3, 4, 5, 6}
    BY <1>2 DEF Migrating
  <2>3. pc[a].script = "migrate"
    BY <1>2 DEF Migrating
  <2> QED BY <2>1, <2>2, <2>3 DEF MigrateToV2, Creating, Migrating
<1> QED BY <1>1, <1>2 DEF InRange

\* A process that does not run a script, or starts one, disturbs nothing here.
LEMMA OtherSteps ==
  ASSUME IInv, TypeOK', UNCHANGED schema, NEW a \in Apps,
         \A b \in Apps \ {a} : pc'[b] = pc[b],
         \/ ~InScript(a)'
         \/ pc'[a].step = 1 /\ pc'[a].script \in {"create", "migrate"}
  PROVE  IInv'
<1>1. \A b \in Apps \ {a}, S \in SUBSET Nat :
        (Migrating(b, S)' <=> Migrating(b, S)) /\ (Creating(b, S)' <=> Creating(b, S))
  BY DEF Migrating, Creating, InScript
<1>2. InRange'
  BY DEF IInv, InRange, InScript, Creating, Migrating
<1>3. OneMigration'
  BY DEF IInv, OneMigration, Migrating, InScript
<1>4. MigratesOld'
  BY DEF IInv, MigratesOld, Migrating, InScript
<1>5. PassedIsThere'
  BY DEF IInv, PassedIsThere, Creating, InScript
<1>6. OldWithOld' /\ KeyStoreComesLast'
  BY DEF IInv, OldWithOld, KeyStoreComesLast
<1> QED BY <1>2, <1>3, <1>4, <1>5, <1>6 DEF IInv

\* Where a process is after a statement.
LEMMA AfterStatement ==
  ASSUME TypeOK, InRange, NEW a \in Apps, InScript(a), Success(a)
  PROVE  /\ \A b \in Apps \ {a} : pc'[b] = pc[b]
         /\ InScript(a)' => /\ pc'[a].script = pc[a].script
                            /\ pc'[a].step = pc[a].step + 1
                            /\ pc[a].step < Len(Scripts[pc[a].script])
<1>1. pc[a] \in Positions
  BY DEF TypeOK
<1>2. CASE pc[a].step < Len(Scripts[pc[a].script])
  <2>1. pc' = [pc EXCEPT ![a].step = @ + 1]
    BY <1>2 DEF Success
  <2> QED BY <1>1, <1>2, <2>1 DEF TypeOK, Positions
<1>3. CASE ~(pc[a].step < Len(Scripts[pc[a].script]))
  <2>1. Goto(a, IF pc[a].at = "new" THEN "running" ELSE "read", "create", 1)
    BY <1>3 DEF Success
  <2> QED BY <2>1 DEF Goto, InScript, TypeOK
<1> QED BY <1>2, <1>3

(***************************************************************************)
(* A statement that succeeds                                               *)
(***************************************************************************)
LEMMA RunningKeepsPlaces ==
  ASSUME IInv, NEW a \in Apps, InScript(a), ~Fails(Statement(a)),
         Success(a), Execute(Statement(a))
  PROVE  InRange' /\ PassedIsThere'
<1>1. InRange'
  <2>1. ASSUME InScript(a)'
        PROVE  Creating(a, 1 .. 10)' \/ Migrating(a, 1 .. 6)'
    <3>1. pc'[a].script = pc[a].script /\ pc'[a].step = pc[a].step + 1
      BY <2>1, AfterStatement DEF IInv
    <3>2. pc[a].step < Len(Scripts[pc[a].script])
      BY <2>1, AfterStatement DEF IInv
    <3>3. Creating(a, 1 .. 10) \/ Migrating(a, 1 .. 6)
      BY DEF IInv, InRange
    <3>4. CASE Creating(a, 1 .. 10)
      BY <2>1, <3>1, <3>2, <3>4, Lengths DEF Creating, InScript
    <3>5. CASE Migrating(a, 1 .. 6)
      BY <2>1, <3>1, <3>2, <3>5, Lengths DEF Migrating, InScript
    <3> QED BY <3>3, <3>4, <3>5
  <2>2. \A b \in Apps \ {a} : pc'[b] = pc[b]
    BY AfterStatement DEF IInv
  <2> QED BY <2>1, <2>2 DEF IInv, InRange, InScript, Creating, Migrating
<1>2. \A t \in {"vault_entries", "audit_log", "public_keys", "settings"} :
        schema[t] # "none" \/ Statement(a) = t => schema'[t] # "none"
  BY DEF Execute, IInv, TypeOK, Objects, Tables
<1>3. PassedIsThere'
  BY <1>2, AfterStatement, StatementAt
  DEF IInv, PassedIsThere, InRange, InScript, Creating, Migrating
<1> QED BY <1>1, <1>3

\* What a statement does to the tables of the old schema.
LEMMA StatementEffect ==
  ASSUME TypeOK, NEW s, Execute(s)
  PROVE  /\ s # "rename" /\ s # "drop" /\ s # "key_store" => schema'["key_store"] = schema["key_store"]
         /\ s = "drop" => schema'["key_store"] = "none"
         /\ s = "rename" => schema'["key_store"] = "v2"
         /\ s = "key_store" => schema'["key_store"] = IF schema["key_store"] = "none" THEN "v2" ELSE schema["key_store"]
         /\ s # "rename" /\ s # "key_store_new" => schema'["key_store_new"] = schema["key_store_new"]
         /\ s = "key_store_new" => schema'["key_store_new"] # "none"
         /\ schema["audit_log"] # "none" => schema'["audit_log"] = schema["audit_log"]
         /\ schema["audit_log"] = "none" => schema'["audit_log"] # "v1"
         /\ \A t \in {"vault_entries", "audit_log", "public_keys", "settings"} :
               schema[t] # "none" => schema'[t] # "none"
<1>1. {"key_store", "key_store_new", "audit_log", "vault_entries", "public_keys", "settings"} \subseteq Objects
  BY DEF Objects, Tables
<1>2. "drop" \notin Objects /\ "rename" \notin Objects
  BY DEF Objects, Tables, AuditIndexes
<1>3. CASE s \in Objects
  BY <1>1, <1>2, <1>3 DEF Execute, TypeOK
<1>4. CASE s = "drop"
  BY <1>1, <1>2, <1>4 DEF Execute, TypeOK
<1>5. CASE s = "rename"
  BY <1>1, <1>2, <1>5 DEF Execute, TypeOK
<1>6. CASE s \notin Objects /\ s # "drop" /\ s # "rename"
  BY <1>1, <1>6 DEF Execute, TypeOK
<1> QED BY <1>3, <1>4, <1>5, <1>6

LEMMA RunningKeepsMigration ==
  ASSUME IInv, NEW a \in Apps, InScript(a), ~Fails(Statement(a)),
         Success(a), Execute(Statement(a))
  PROVE  OneMigration' /\ MigratesOld' /\ OldWithOld'
<1> DEFINE s == Statement(a)
<1>2. \A b \in Apps \ {a} : pc'[b] = pc[b]
  BY AfterStatement DEF IInv
<1>3. \A b \in Apps \ {a} :
        /\ Migrating(b, 2 .. 5)' <=> Migrating(b, 2 .. 5)
        /\ Migrating(b, 3 .. 4)' <=> Migrating(b, 3 .. 4)
        /\ Migrating(b, 5 .. 5)' <=> Migrating(b, 5 .. 5)
  BY <1>2 DEF Migrating, InScript
<1>4. /\ Migrating(a, 2 .. 5)' => Migrating(a, 1 .. 4)
      /\ Migrating(a, 3 .. 4)' => Migrating(a, 2 .. 3)
      /\ Migrating(a, 5 .. 5)' => Migrating(a, 4 .. 4)
  BY AfterStatement DEF IInv, TypeOK, Positions, Migrating, InScript
<1>5. Migrating(a, 1 .. 1) => schema["key_store_new"] = "none"
  BY StatementAt DEF IInv, Fails
<1>6. Migrating(a, 2 .. 2) => schema["key_store"] = "v1"
  BY StatementAt DEF IInv, Fails
<1>7. Migrating(a, 5 .. 5) => schema["audit_log"] = "v1"
  BY DEF IInv, MigratesOld
<1>8. \A b \in Apps : Migrating(b, 3 .. 4) \/ Migrating(b, 5 .. 5) \/ Migrating(b, 4 .. 4) => Migrating(b, 2 .. 5)
  BY DEF Migrating
<1>9. OneMigration'
  <2>1. \A b \in Apps : Migrating(b, 2 .. 5)' => schema'["key_store_new"] # "none"
    BY <1>3, <1>4, <1>8, StatementAt, StatementEffect
    DEF IInv, OneMigration, Migrating
  <2>2. \A b, c \in Apps : b # c => ~(Migrating(b, 2 .. 5)' /\ Migrating(c, 2 .. 5)')
    <3>1. \A b \in Apps \ {a} : Migrating(b, 2 .. 5) => ~Migrating(a, 1 .. 1) /\ ~Migrating(a, 2 .. 5)
      BY <1>5 DEF IInv, OneMigration
    <3>2. Migrating(a, 1 .. 4) => Migrating(a, 1 .. 1) \/ Migrating(a, 2 .. 5)
      BY DEF Migrating, IInv, TypeOK, Positions
    <3> QED BY <3>1, <3>2, <1>3, <1>4 DEF IInv, OneMigration
  <2> QED BY <2>1, <2>2 DEF OneMigration
<1>10. MigratesOld'
  <2>1. ASSUME NEW b \in Apps, Migrating(b, 3 .. 4)'
        PROVE  schema'["key_store"] = "v1"
    <3>1. schema["key_store"] = "v1"
      BY <2>1, <1>3, <1>4, <1>6 DEF IInv, MigratesOld, Migrating, TypeOK, Positions
    <3>2. s # "drop" /\ s # "rename"
      BY <2>1, <1>3, <1>4, <1>8, StatementAt DEF IInv, OneMigration, Migrating
    <3> QED BY <3>1, <3>2, StatementEffect DEF IInv
  <2>2. ASSUME NEW b \in Apps, Migrating(b, 5 .. 5)'
        PROVE  schema'["audit_log"] = "v1"
    <3>1. schema["audit_log"] = "v1"
      BY <2>2, <1>3, <1>4 DEF IInv, MigratesOld, OldWithOld, Migrating
    <3> QED BY <3>1, StatementEffect DEF IInv
  <2> QED BY <2>1, <2>2 DEF MigratesOld
<1>11. OldWithOld'
  BY StatementEffect DEF IInv, OldWithOld
<1> QED BY <1>9, <1>10, <1>11

LEMMA RunningKeepsOrder ==
  ASSUME IInv, NEW a \in Apps, InScript(a), ~Fails(Statement(a)),
         Success(a), Execute(Statement(a))
  PROVE  /\ schema["key_store"] = "v2" => schema'["key_store"] = "v2"
         /\ KeyStoreComesLast'
<1> DEFINE s == Statement(a)
<1>2. s = "drop" => schema["key_store"] = "v1"
  BY StatementAt DEF IInv, MigratesOld, Migrating
<1>3. schema["key_store"] = "v2" => schema'["key_store"] = "v2"
  BY <1>2, StatementEffect DEF IInv
<1>4. s = "key_store" => \A t \in {"vault_entries", "audit_log", "public_keys", "settings"} : schema[t] # "none"
  BY StatementAt DEF IInv, PassedIsThere, Creating
<1>5. s = "rename" => schema["audit_log"] = "v1"
  BY StatementAt DEF IInv, MigratesOld
<1>6. KeyStoreComesLast'
  BY <1>4, <1>5, StatementEffect DEF IInv, KeyStoreComesLast
<1> QED BY <1>3, <1>6

(***************************************************************************)
(* The invariant                                                           *)
(***************************************************************************)
LEMMA InitInvariant == Init => IInv
<1> SUFFICES ASSUME Init PROVE IInv
  OBVIOUS
<1>1. TypeOK
  BY InitTypes
<1>2. \A a \in Apps : ~InScript(a)
  BY DEF Init, InScript, Off
<1>3. InRange /\ OneMigration /\ MigratesOld /\ PassedIsThere
  BY <1>2 DEF InRange, OneMigration, MigratesOld, PassedIsThere, Creating, Migrating
<1>4. OldWithOld /\ KeyStoreComesLast
  BY DEF Init, SchemaV1, OldWithOld, KeyStoreComesLast, Objects, Tables
<1> QED BY <1>1, <1>3, <1>4 DEF IInv

LEMMA StepInvariant ==
  ASSUME IInv, [Next]_vars
  PROVE  IInv' /\ (schema["key_store"] = "v2" => schema'["key_store"] = "v2")
<1>1. TypeOK'
  BY StepTypes DEF IInv
<1>2. CASE UNCHANGED vars
  BY <1>2 DEF vars, file, IInv, TypeOK, InRange, OneMigration, MigratesOld, OldWithOld,
              PassedIsThere, KeyStoreComesLast, Migrating, Creating, InScript
<1>3. ASSUME NEW a \in Apps, Start(a) \/ VersionUnread(a)
      PROVE  IInv' /\ UNCHANGED schema
  BY <1>1, <1>3, OtherSteps DEF Start, VersionUnread, Goto, file, IInv, TypeOK
<1>4. ASSUME NEW a \in Apps, RunStatement(a)
      PROVE  IInv' /\ (schema["key_store"] = "v2" => schema'["key_store"] = "v2")
  <2>1. CASE Fails(Statement(a))
    BY <1>1, <1>4, <2>1, OtherSteps
    DEF RunStatement, Failure, Goto, file, IInv, TypeOK, InScript, Off
  <2>2. CASE ~Fails(Statement(a))
    BY <1>1, <1>4, <2>2, RunningKeepsPlaces, RunningKeepsMigration, RunningKeepsOrder
    DEF RunStatement, IInv
  <2> QED BY <2>1, <2>2
<1>5. ASSUME NEW a \in Apps, StatementRefused(a)
      PROVE  IInv' /\ UNCHANGED schema
  BY <1>1, <1>5, OtherSteps DEF StatementRefused, Failure, Goto, IInv, TypeOK, InScript, Off
<1>6. ASSUME NEW a \in Apps, ReadSetting(a) \/ SettingUnread(a) \/ WriteSetting(a)
      PROVE  IInv' /\ UNCHANGED schema
  BY <1>1, <1>6, OtherSteps
  DEF ReadSetting, SettingUnread, WriteSetting, NextSetting, Goto, file, IInv, TypeOK, InScript
<1>7. ASSUME NEW a \in Apps, NEW k \in 1 .. NSettings, ChooseSetting(a, k)
      PROVE  IInv' /\ UNCHANGED schema
  BY <1>7 DEF ChooseSetting, file, IInv, TypeOK, InRange, OneMigration, MigratesOld, OldWithOld,
              PassedIsThere, KeyStoreComesLast, Migrating, Creating, InScript
<1>8. ASSUME NEW a \in Apps, Exit(a) \/ Crash(a)
      PROVE  IInv' /\ UNCHANGED schema
  <2>1. pc' = [pc EXCEPT ![a] = Off] /\ UNCHANGED schema
    BY <1>8 DEF Exit, Crash, file
  <2> QED BY <1>1, <2>1, OtherSteps DEF IInv, TypeOK, InScript, Off
<1> QED BY <1>2, <1>3, <1>4, <1>5, <1>6, <1>7, <1>8 DEF Next

\* A key store that can hold the master password (Database::initialize creates
\* it near the end of the script) has the other tables beside it.
THEOREM KeyStoreIsLast == Spec => []KeyStoreComesLast
<1>1. Init => IInv
  BY InitInvariant
<1>2. IInv /\ [Next]_vars => IInv'
  BY StepInvariant
<1>3. IInv => KeyStoreComesLast
  BY DEF IInv
<1> QED BY <1>1, <1>2, <1>3, PTL DEF Spec

\* A migration started on a key store of version 2 never drops it.
THEOREM KeyStoreIsKept == Spec => KeyStoreStays
<1>1. Init => IInv
  BY InitInvariant
<1>2. IInv /\ [Next]_vars => IInv'
  BY StepInvariant
<1>3. IInv /\ [Next]_vars => [schema["key_store"] = "v2" => schema'["key_store"] = "v2"]_vars
  BY StepInvariant
<1> QED BY <1>1, <1>2, <1>3, PTL DEF Spec, KeyStoreStays

(***************************************************************************)
(* Starts that nothing disturbs                                            *)
(***************************************************************************)
AtMostOne == \A a, b \in Apps : a # b => pc[a].at = "off" \/ pc[b].at = "off"

OnlyCreates == \A a \in Apps : pc[a].at # "off" => pc[a].script = "create"

\* There is no file yet, or its first process is still creating it, or it is
\* complete.
NoFile ==
  /\ ~exists
  /\ \A o \in Objects : schema[o] = "none"
  /\ \A a \in Apps : pc[a].at = "off" \/ (pc[a].at = "new" /\ pc[a].step = 1)

BeingCreated ==
  /\ exists /\ version = 2
  /\ \E a \in Apps :
       /\ pc[a].at = "new" /\ pc[a].step \in 2 .. 10
       /\ \A i \in 2 .. 10 : schema[CreateTablesV2[i]] = IF i < pc[a].step THEN "v2" ELSE "none"

Complete ==
  /\ exists /\ version = 2
  /\ \A t \in Tables : schema[t] = "v2"
  /\ \A a \in Apps : pc[a].at # "new"

WritesMissing ==
  \A a \in Apps :
    /\ pc[a].at = "read" => pc[a].step > 0
    /\ pc[a].at = "write" =>
         pc[a].step \in 1 .. NSettings /\ settings[pc[a].step] = "missing"

Quiet == AtMostOne /\ OnlyCreates /\ WritesMissing /\ (NoFile \/ BeingCreated \/ Complete)

QInv == IInv /\ (~disturbed => Quiet)

LEMMA CreateStatement ==
  ASSUME NEW i \in 2 .. 10
  PROVE  /\ CreateTablesV2[i] \in Objects
         /\ CreateTablesV2[i] \notin {"key_store_new", "copy", "parameters", "drop", "rename", "user_version"}
         /\ \A j \in 2 .. 10 : CreateTablesV2[i] = CreateTablesV2[j] => i = j
<1>1. i \in {2, 3, 4, 5, 6, 7, 8, 9, 10}
  OBVIOUS
<1>2. \A j \in 2 .. 10 : j \in {2, 3, 4, 5, 6, 7, 8, 9, 10}
  OBVIOUS
<1>3. CreateTablesV2[i] \in Objects
  BY <1>1 DEF CreateTablesV2, Objects, Tables, AuditIndexes
<1>4. CreateTablesV2[i] \notin {"key_store_new", "copy", "parameters", "drop", "rename", "user_version"}
  BY <1>1 DEF CreateTablesV2
<1>5. \A j \in 2 .. 10 : CreateTablesV2[i] = CreateTablesV2[j] => i = j
  BY <1>1, <1>2 DEF CreateTablesV2
<1> QED BY <1>3, <1>4, <1>5

LEMMA AllCreated ==
  ASSUME NEW f, \A i \in 2 .. 10 : f[CreateTablesV2[i]] = "v2"
  PROVE  \A t \in Tables : f[t] = "v2"
<1>1. /\ CreateTablesV2[2] = "vault_entries" /\ CreateTablesV2[3] = "audit_log"
      /\ CreateTablesV2[7] = "public_keys" /\ CreateTablesV2[8] = "settings"
      /\ CreateTablesV2[9] = "key_store" /\ CreateTablesV2[10] = "contacts"
  BY DEF CreateTablesV2
<1> QED BY <1>1 DEF Tables

\* A process that changes alone leaves the others off.
LEMMA MovesAlone ==
  ASSUME TypeOK, NEW a \in Apps, Alone(a), NEW r \in Positions, pc' = [pc EXCEPT ![a] = r],
         r.script = "create"
  PROVE  AtMostOne' /\ OnlyCreates'
BY DEF Alone, AtMostOne, OnlyCreates, TypeOK, Positions

\* A new file: the next statement never fails, and puts its table there.
LEMMA CreatingStep ==
  ASSUME QInv, ~disturbed, NEW a \in Apps, RunStatement(a), Alone(a), pc[a].at = "new"
  PROVE  (BeingCreated \/ Complete)'
<1> DEFINE i == pc[a].step
           s == Statement(a)
<1>1. pc[a].script = "create" /\ s = CreateTablesV2[i] /\ pc[a] \in Positions
  BY DEF QInv, Quiet, IInv, OnlyCreates, Statement, Scripts, TypeOK
<1>2. \A b \in Apps : pc[b].at = "new" => b = a
  BY DEF Alone
<1>3. CASE i = 1
  <2>1. s = "user_version"
    BY <1>1, <1>3 DEF CreateTablesV2
  <2>2. NoFile
    BY <1>2, <1>3 DEF QInv, Quiet, BeingCreated, Complete
  <2>3. exists' /\ version' = 2 /\ schema' = schema /\ pc' = [pc EXCEPT ![a].step = 2]
    BY <2>1, <1>1, <1>3, Lengths DEF RunStatement, Fails, Execute, Success, Objects, Tables, AuditIndexes
  <2>4. \A j \in 2 .. 10 : schema[CreateTablesV2[j]] = "none"
    BY <2>2, CreateStatement DEF NoFile
  <2>5. pc'[a].at = "new" /\ pc'[a].step = 2
    BY <2>3, <1>1 DEF QInv, IInv, TypeOK, Positions
  <2> QED BY <2>3, <2>4, <2>5 DEF BeingCreated
<1>4. CASE i # 1
  <2>1. /\ exists /\ version = 2 /\ i \in 2 .. 10
        /\ \A j \in 2 .. 10 : schema[CreateTablesV2[j]] = IF j < i THEN "v2" ELSE "none"
    BY <1>2, <1>4 DEF QInv, Quiet, NoFile, BeingCreated, Complete
  <2>2. schema[s] = "none"
    BY <2>1, <1>1
  <2>3. s \in Objects /\ s \notin {"key_store_new", "copy", "parameters", "drop", "rename", "user_version"}
    BY <2>1, <1>1, CreateStatement
  <2>4. ~Fails(s)
    <3>1. s = "idx_timestamp" => schema["audit_log"] = "v2"
      <4>1. CreateTablesV2[3] = "audit_log" /\ CreateTablesV2[4] = "idx_timestamp"
        BY DEF CreateTablesV2
      <4>2. s = "idx_timestamp" => i = 4
        <5>1. i \in {2, 3, 4, 5, 6, 7, 8, 9, 10}
          BY <2>1
        <5> QED BY <5>1, <1>1 DEF CreateTablesV2
      <4> QED BY <4>1, <4>2, <2>1
    <3> QED BY <2>2, <2>3, <3>1 DEF Fails
  <2>5. exists' /\ version' = 2 /\ schema' = [schema EXCEPT ![s] = "v2"] /\ Success(a)
    BY <2>1, <2>2, <2>3, <2>4 DEF RunStatement, Execute
  <2>6. \A j \in 2 .. 10 : schema'[CreateTablesV2[j]] = IF j < i + 1 THEN "v2" ELSE "none"
    BY <2>1, <2>5, <1>1, CreateStatement DEF QInv, IInv, TypeOK
  <2>7. CASE i < 10
    <3>1. pc' = [pc EXCEPT ![a].step = @ + 1]
      BY <2>5, <2>7, <1>1, Lengths DEF Success
    <3>2. pc'[a].at = "new" /\ pc'[a].step = i + 1 /\ i + 1 \in 2 .. 10
      BY <3>1, <2>1, <2>7, <1>1 DEF QInv, IInv, TypeOK, Positions
    <3> QED BY <3>2, <2>5, <2>6 DEF BeingCreated
  <2>8. CASE i = 10
    <3>1. Goto(a, "running", "create", 1)
      BY <2>5, <2>8, <1>1, Lengths DEF Success
    <3>2. \A t \in Tables : schema'[t] = "v2"
      <4>1. \A j \in 2 .. 10 : schema'[CreateTablesV2[j]] = "v2"
        BY <2>6, <2>8
      <4> QED BY <4>1, AllCreated
    <3>3. \A b \in Apps : pc'[b].at # "new"
      BY <3>1, <1>2 DEF Goto, QInv, IInv, TypeOK
    <3> QED BY <2>5, <3>2, <3>3 DEF Complete
  <2> QED BY <2>1, <2>7, <2>8
<1> QED BY <1>3, <1>4

\* A complete file: whatever the script does, the tables stay.
LEMMA CompleteStep ==
  ASSUME QInv, ~disturbed, NEW a \in Apps, RunStatement(a), Alone(a), pc[a].at = "old"
  PROVE  Complete'
<1>1. Complete
  BY DEF QInv, Quiet, NoFile, BeingCreated, Alone
<1>2. pc[a].script = "create"
  BY DEF QInv, Quiet, OnlyCreates
<1>3. \A b \in Apps : pc'[b].at # "new"
  <2>1. CASE Failure(a)
    BY <1>1, <2>1 DEF Complete, Failure, Goto, QInv, IInv, TypeOK
  <2>2. CASE Success(a)
    <3>1. pc[a] \in Positions
      BY DEF QInv, IInv, TypeOK
    <3> QED BY <1>1, <2>2, <3>1 DEF Complete, Success, Goto, QInv, IInv, TypeOK, Positions
  <2> QED BY <2>1, <2>2 DEF RunStatement
<1>4. CASE Fails(Statement(a))
  BY <1>1, <1>3, <1>4 DEF RunStatement, Complete, file
<1>5. CASE ~Fails(Statement(a))
  <2>1. Execute(Statement(a)) /\ Tables \subseteq Objects
    BY <1>5 DEF RunStatement, Objects
  <2>2. exists' /\ version' = 2
    BY <1>1, <2>1 DEF Execute, Complete
  <2>3. Statement(a) \notin {"drop", "rename"}
    BY <1>2, StatementAt DEF QInv, IInv, RunStatement, Migrating
  <2>4. \A t \in Tables : schema'[t] = "v2"
    BY <1>1, <2>1, <2>3 DEF Execute, Complete, QInv, IInv, TypeOK
  <2> QED BY <1>3, <2>2, <2>4 DEF Complete
<1> QED BY <1>4, <1>5

LEMMA QuietStep ==
  ASSUME QInv, TypeOK', [Next]_vars, ~disturbed'
  PROVE  Quiet' /\ (\A k \in 1 .. NSettings : settings[k] = "chosen" => settings'[k] = "chosen")
<1>1. ~disturbed
  BY DEF Next, Start, VersionUnread, RunStatement, StatementRefused, ReadSetting, SettingUnread,
         WriteSetting, ChooseSetting, Exit, Crash, Quietly, vars, file, QInv, IInv, TypeOK
<1>2. Quiet
  BY <1>1 DEF QInv
<1>3. pc \in [Apps -> Positions] /\ settings \in [1 .. NSettings -> {"missing", "default", "chosen"}]
  BY DEF QInv, IInv, TypeOK
<1>4. CASE UNCHANGED vars
  BY <1>2, <1>4 DEF vars, file, Quiet, AtMostOne, OnlyCreates, WritesMissing, NoFile, BeingCreated, Complete
<1>5. ASSUME NEW a \in Apps, Start(a)
      PROVE  Quiet' /\ settings' = settings
  <2>1. \A b \in Apps : pc[b].at = "off"
    BY <1>5 DEF Start, Quietly, Alone
  <2>2. IF exists THEN Complete ELSE NoFile
    BY <1>2, <2>1 DEF Quiet, NoFile, BeingCreated, Complete
  <2>3. pc' = [pc EXCEPT ![a] = [at |-> IF exists THEN "old" ELSE "new", script |-> "create", step |-> 1]]
    BY <1>5, <2>2 DEF Start, Goto, Complete
  <2>4. AtMostOne' /\ OnlyCreates' /\ WritesMissing'
    BY <1>3, <2>1, <2>3 DEF AtMostOne, OnlyCreates, WritesMissing
  <2>5. (NoFile \/ Complete)'
    BY <1>3, <1>5, <2>1, <2>2, <2>3 DEF NoFile, Complete, Start, file
  <2> QED BY <1>5, <2>4, <2>5 DEF Quiet, Start
<1>6. ASSUME NEW a \in Apps, RunStatement(a)
      PROVE  Quiet' /\ settings' = settings
  <2>1. Alone(a) /\ settings' = settings /\ pc[a].script = "create"
    BY <1>1, <1>2, <1>6 DEF RunStatement, Quietly, Quiet, OnlyCreates, InScript
  <2>2. AtMostOne' /\ OnlyCreates' /\ WritesMissing'
    <3>1. CASE Failure(a)
      BY <1>3, <2>1, <3>1 DEF Failure, Goto, Off, Alone, AtMostOne, OnlyCreates, WritesMissing
    <3>2. CASE Success(a)
      <4>1. \A b \in Apps \ {a} : pc[b].at = "off"
        BY <2>1 DEF Alone
      <4>2. pc[a] \in Positions /\ pc[a].at \notin {"read", "write"}
        BY <1>3, <1>6 DEF RunStatement, InScript
      <4>3. CASE pc' = [pc EXCEPT ![a].step = @ + 1]
        BY <1>3, <2>1, <4>1, <4>2, <4>3 DEF AtMostOne, OnlyCreates, WritesMissing, Positions
      <4>4. CASE Goto(a, IF pc[a].at = "new" THEN "running" ELSE "read", "create", 1)
        BY <1>3, <4>1, <4>4 DEF Goto, AtMostOne, OnlyCreates, WritesMissing
      <4> QED BY <3>2, <4>3, <4>4 DEF Success
    <3> QED BY <1>6, <3>1, <3>2 DEF RunStatement
  <2>3. (BeingCreated \/ Complete)'
    BY <1>1, <1>6, <2>1, CreatingStep, CompleteStep DEF RunStatement, InScript
  <2> QED BY <2>1, <2>2, <2>3 DEF Quiet
<1>7. ASSUME NEW a \in Apps, ReadSetting(a)
      PROVE  Quiet' /\ settings' = settings
  <2>1. Alone(a) /\ settings' = settings /\ pc[a].at = "read" /\ UNCHANGED file
    BY <1>7 DEF ReadSetting, Quietly
  <2>2. Complete
    BY <1>2, <2>1 DEF Quiet, NoFile, BeingCreated, Complete, Alone
  <2>3. AtMostOne' /\ OnlyCreates' /\ WritesMissing'
    <3>1. pc[a].step \in Nat /\ pc[a].step > 0
      BY <1>2, <1>3, <2>1 DEF Quiet, WritesMissing, Positions
    <3>2. CASE pc[a].step <= NSettings /\ settings[pc[a].step] = "missing"
      BY <1>3, <1>7, <2>1, <3>1, <3>2, SettingsAssumption
      DEF ReadSetting, Goto, Alone, AtMostOne, OnlyCreates, WritesMissing
    <3>3. CASE NextSetting(a)
      BY <1>3, <2>1, <3>1, <3>3
      DEF NextSetting, Goto, Alone, AtMostOne, OnlyCreates, WritesMissing
    <3> QED BY <1>7, <3>2, <3>3 DEF ReadSetting
  <2>4. Complete'
    BY <1>3, <1>7, <2>1, <2>2 DEF ReadSetting, NextSetting, Goto, Complete, file
  <2> QED BY <2>1, <2>3, <2>4 DEF Quiet
<1>8. ASSUME NEW a \in Apps, WriteSetting(a)
      PROVE  Quiet' /\ (\A k \in 1 .. NSettings : settings[k] = "chosen" => settings'[k] = "chosen")
  <2>1. Alone(a) /\ pc[a].at = "write" /\ UNCHANGED file
    BY <1>8 DEF WriteSetting, Quietly
  <2>2. Complete /\ settings[pc[a].step] = "missing"
    BY <1>2, <2>1 DEF Quiet, NoFile, BeingCreated, Complete, Alone, WritesMissing
  <2>3. AtMostOne' /\ OnlyCreates' /\ WritesMissing'
    <3>1. pc[a].step \in Nat /\ pc[a].step > 0
      BY <1>2, <1>3, <2>1 DEF Quiet, WritesMissing, Positions
    <3>2. \A b \in Apps \ {a} : pc[b].at = "off"
      BY <2>1 DEF Alone
    <3>3. CASE Goto(a, "read", "create", pc[a].step + 1)
      BY <1>3, <3>1, <3>2, <3>3 DEF Goto, AtMostOne, OnlyCreates, WritesMissing
    <3>4. CASE Goto(a, "running", "create", 1)
      BY <1>3, <3>2, <3>4 DEF Goto, AtMostOne, OnlyCreates, WritesMissing
    <3> QED BY <1>8, <3>3, <3>4 DEF WriteSetting, NextSetting
  <2>4. Complete'
    BY <1>3, <1>8, <2>1, <2>2 DEF WriteSetting, NextSetting, Goto, Complete, file
  <2>5. \A k \in 1 .. NSettings : settings[k] = "chosen" => settings'[k] = "chosen"
    BY <1>3, <1>8, <2>2 DEF WriteSetting
  <2> QED BY <2>3, <2>4, <2>5 DEF Quiet
<1>9. ASSUME NEW a \in Apps, NEW k \in 1 .. NSettings, ChooseSetting(a, k)
      PROVE  Quiet' /\ (\A j \in 1 .. NSettings : settings[j] = "chosen" => settings'[j] = "chosen")
  <2>1. WritesMissing'
    <3>1. \A b \in Apps : pc[b].at # "write"
      BY <1>2, <1>9 DEF ChooseSetting, Quiet, AtMostOne
    <3> QED BY <1>2, <1>9, <3>1 DEF ChooseSetting, Quiet, WritesMissing
  <2>2. \A j \in 1 .. NSettings : settings[j] = "chosen" => settings'[j] = "chosen"
    BY <1>3, <1>9 DEF ChooseSetting
  <2> QED BY <1>2, <1>9, <2>1, <2>2
          DEF ChooseSetting, Quiet, AtMostOne, OnlyCreates, NoFile, BeingCreated, Complete, file
<1>10. ASSUME NEW a \in Apps, Exit(a)
       PROVE  Quiet' /\ settings' = settings
  <2>1. pc[a].at = "running" /\ pc' = [pc EXCEPT ![a] = Off] /\ UNCHANGED <<file, settings>>
    BY <1>10 DEF Exit
  <2>2. Complete
    BY <1>2, <2>1 DEF Quiet, AtMostOne, NoFile, BeingCreated, Complete
  <2>3. AtMostOne' /\ OnlyCreates' /\ WritesMissing'
    BY <1>2, <1>3, <2>1 DEF Quiet, Off, AtMostOne, OnlyCreates, WritesMissing
  <2>4. Complete'
    BY <1>3, <2>1, <2>2 DEF Complete, Off, file
  <2> QED BY <2>1, <2>3, <2>4 DEF Quiet
<1>11. ASSUME NEW a \in Apps, VersionUnread(a) \/ StatementRefused(a) \/ SettingUnread(a) \/ Crash(a)
       PROVE  FALSE
  BY <1>11 DEF VersionUnread, StatementRefused, SettingUnread, Crash
<1> QED BY <1>2, <1>4, <1>5, <1>6, <1>7, <1>8, <1>9, <1>10, <1>11 DEF Next, vars

LEMMA InitQuiet == Init => QInv
<1> SUFFICES ASSUME Init, ~disturbed PROVE Quiet
  BY InitInvariant DEF QInv
<1> QED BY FilesAssumption DEF Init, Quiet, AtMostOne, OnlyCreates, WritesMissing, NoFile, Off

LEMMA StepQuiet == QInv /\ [Next]_vars => QInv'
BY StepInvariant, QuietStep DEF QInv, IInv

\* A program that created its file itself, always ran alone and was never
\* interrupted has all tables after every start.
THEOREM QuietStartsComplete == Spec => []QuietStartCompletes
<1>1. QInv => QuietStartCompletes
  BY DEF QInv, Quiet, AtMostOne, NoFile, BeingCreated, Complete, QuietStartCompletes
<1> QED BY <1>1, InitQuiet, StepQuiet, PTL DEF Spec

\* Such a program keeps what the user chose when initDefaultSettings runs.
THEOREM QuietStartsKeepSettings == Spec => QuietStartKeepsSettings
<1>1. QInv /\ [Next]_vars =>
        [~disturbed' => \A k \in 1 .. NSettings : settings[k] = "chosen" => settings'[k] = "chosen"]_vars
  BY StepInvariant, QuietStep DEF QInv, IInv
<1> QED BY <1>1, InitQuiet, StepQuiet, PTL DEF Spec, QuietStartKeepsSettings
=============================================================================
