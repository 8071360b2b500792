------------------------------ MODULE SchemaInit ------------------------------
(***************************************************************************)
(* Database::initialize: how the database file gets its tables and its     *)
(* default settings when the program starts.                               *)
(*                                                                         *)
(* A script is one sqlite3_exec without a transaction: every statement is  *)
(* committed by itself, and the script ends at the first one that fails.   *)
(* So a crash, or another process that holds the lock (no busy timeout is  *)
(* set), leaves any prefix of a script behind.  A file has tables of       *)
(* version 1, of version 2, or none of them.                               *)
(***************************************************************************)
EXTENDS Integers, Sequences

CONSTANTS
  Apps,       \* processes of the program on one database file
  NSettings,  \* number of settings with a default (6)
  Files,      \* what the file may be at first: "none", or "v1" of the first schema
  Faults      \* which of "crash", "busy", "version", "setting" may happen

ASSUME SettingsAssumption == NSettings \in Nat
ASSUME FilesAssumption == Files \subseteq {"none", "v1"}
ASSUME FaultsAssumption == Faults \subseteq {"crash", "busy", "version", "setting"}

VARIABLES
  exists,   \* the database file exists
  version,  \* its user_version
  schema,   \* object -> version of its definition, "none" if it is not there
  settings, \* setting -> "missing", "default" or "chosen" by the user
  pc,       \* process -> where it is
  disturbed \* history: the file is an old one, a start was not alone on the
            \* file, a process died or a statement failed that should not

file == <<exists, version, schema>>
vars == <<file, settings, pc, disturbed>>

Tables == {"vault_entries", "audit_log", "public_keys", "settings", "key_store", "contacts"}
\* Created without IF NOT EXISTS.  The other indexes and the triggers are
\* created with it and belong to their table here.
AuditIndexes == {"idx_timestamp", "idx_event_type", "idx_sequence_number"}
Objects == Tables \cup AuditIndexes \cup {"key_store_new"}

\* Mutant of CreateTablesV2: the key store is created before the audit log.
CreateKeysFirst ==
  <<"user_version", "vault_entries", "key_store", "audit_log", "idx_timestamp",
    "idx_event_type", "idx_sequence_number", "public_keys", "settings", "contacts">>

\* Mutant of CreateTablesV2: the contacts, which came last, are forgotten.
CreateAllButContacts ==
  <<"user_version", "vault_entries", "audit_log", "idx_timestamp", "idx_event_type",
    "idx_sequence_number", "public_keys", "settings", "key_store">>

CreateTablesV2 ==
  <<"user_version", "vault_entries", "audit_log", "idx_timestamp", "idx_event_type",
    "idx_sequence_number", "public_keys", "settings", "key_store", "contacts">>

MigrateToV2 ==
  <<"key_store_new", "copy", "parameters", "drop", "rename", "user_version">>

Scripts == [create |-> CreateTablesV2, migrate |-> MigrateToV2]

\* "new" and "old" run a script, for a file that was not there or was.
Positions ==
  [at : {"off", "new", "old", "read", "write", "running"},
   script : {"create", "migrate"}, step : Nat]

TypeOK ==
  /\ exists \in BOOLEAN
  /\ version \in 0 .. 2
  /\ schema \in [Objects -> {"none", "v1", "v2"}]
  /\ settings \in [1 .. NSettings -> {"missing", "default", "chosen"}]
  /\ pc \in [Apps -> Positions]
  /\ disturbed \in BOOLEAN

Off == [at |-> "off", script |-> "create", step |-> 1]
Goto(a, at, script, step) == pc' = [pc EXCEPT ![a] = [at |-> at, script |-> script, step |-> step]]
InScript(a) == pc[a].at \in {"new", "old"}

(***************************************************************************)
(* Single statements                                                       *)
(***************************************************************************)
\* Mutant of Fails: the migration copies whatever the columns are.
FailsButCopies(s) ==
  \/ s \in AuditIndexes \cup {"key_store_new"} /\ schema[s] # "none"
  \/ s = "idx_timestamp" /\ schema["audit_log"] = "v1"
  \/ s = "key_store" /\ schema["key_store"] = "v1"
  \/ s = "copy" /\ (schema["key_store"] = "none" \/ schema["key_store_new"] = "none")
  \/ s = "parameters" /\ schema["settings"] = "none"
  \/ s = "drop" /\ schema["key_store"] = "none"
  \/ s = "rename" /\ (schema["key_store_new"] = "none" \/ schema["key_store"] # "none")

\* Tables of version 1 lack columns that idx_timestamp and idx_key_version
\* name.  The migration copies columns that only key_store of version 1 has.
Fails(s) ==
  \/ s \in AuditIndexes \cup {"key_store_new"} /\ schema[s] # "none"
  \/ s = "idx_timestamp" /\ schema["audit_log"] = "v1"
  \/ s = "key_store" /\ schema["key_store"] = "v1"
  \/ s = "copy" /\ (schema["key_store"] # "v1" \/ schema["key_store_new"] = "none")
  \/ s = "parameters" /\ schema["settings"] = "none"
  \/ s = "drop" /\ schema["key_store"] = "none"
  \/ s = "rename" /\ (schema["key_store_new"] = "none" \/ schema["key_store"] # "none")

\* Mutant of Execute: the script counts the version up instead of setting it.
ExecuteAndCount(s) ==
  /\ exists' = TRUE
  /\ version' = IF s = "user_version" THEN version + 1 ELSE version
  /\ schema' =
       CASE s \in Objects -> [schema EXCEPT ![s] = IF @ = "none" THEN "v2" ELSE @]
         [] s = "drop"    -> [schema EXCEPT !["key_store"] = "none"]
         [] s = "rename"  -> [schema EXCEPT !["key_store"] = "v2", !["key_store_new"] = "none"]
         [] OTHER         -> schema

\* The first statement that writes creates the file.
Execute(s) ==
  /\ exists' = TRUE
  /\ version' = IF s = "user_version" THEN 2 ELSE version
  /\ schema' =
       CASE s \in Objects -> [schema EXCEPT ![s] = IF @ = "none" THEN "v2" ELSE @]
         [] s = "drop"    -> [schema EXCEPT !["key_store"] = "none"]
         [] s = "rename"  -> [schema EXCEPT !["key_store"] = "v2", !["key_store_new"] = "none"]
         [] OTHER         -> schema

Alone(a) == \A b \in Apps \ {a} : pc[b].at = "off"

\* A process that starts on a file another one uses disturbs it.
Quietly(a) == disturbed' = (disturbed \/ ~Alone(a))

(***************************************************************************)
(* Starting a process                                                      *)
(***************************************************************************)
SchemaV1 ==
  [o \in Objects |-> IF o \in {"vault_entries", "audit_log", "settings", "key_store"}
                       THEN "v1" ELSE "none"]

Init ==
  /\ \E f \in Files :
       /\ exists = (f = "v1")
       /\ version = IF f = "v1" THEN 1 ELSE 0
       /\ schema = IF f = "v1" THEN SchemaV1 ELSE [o \in Objects |-> "none"]
       /\ disturbed = (f = "v1")
  /\ settings = [k \in 1 .. NSettings |-> "missing"]
  /\ pc = [a \in Apps |-> Off]

\* initialize, checkMigration: only a file below CURRENT_VERSION, which is 1,
\* is migrated.
Start(a) ==
  /\ pc[a].at = "off"
  /\ IF exists
       THEN Goto(a, "old", IF version < 1 THEN "migrate" ELSE "create", 1)
       ELSE Goto(a, "new", "create", 1)
  /\ Quietly(a)
  /\ UNCHANGED <<file, settings>>

\* getCurrentVersion returns 0 or -1 when it cannot read.
VersionUnread(a) ==
  /\ "version" \in Faults
  /\ pc[a].at = "off"
  /\ exists
  /\ Goto(a, "old", "migrate", 1)
  /\ disturbed' = TRUE
  /\ UNCHANGED <<file, settings>>

Statement(a) == Scripts[pc[a].script][pc[a].step]

\* initialize of a new file ends with its script; an old one gets its default
\* settings, whatever became of the script.
Success(a) ==
  IF pc[a].step < Len(Scripts[pc[a].script])
    THEN pc' = [pc EXCEPT ![a].step = @ + 1]
    ELSE Goto(a, IF pc[a].at = "new" THEN "running" ELSE "read", "create", 1)

Failure(a) ==
  IF pc[a].at = "new" THEN pc' = [pc EXCEPT ![a] = Off] ELSE Goto(a, "read", "create", 1)

RunStatement(a) ==
  /\ InScript(a)
  /\ IF Fails(Statement(a))
       THEN Failure(a) /\ UNCHANGED file
       ELSE Success(a) /\ Execute(Statement(a))
  /\ Quietly(a)
  /\ UNCHANGED settings

\* SQLITE_BUSY, SQLITE_FULL, ...: the script ends, initialize of a new file
\* returns false and main ends the program.  The first statement may leave an
\* empty file,
StatementRefused(a) ==
  /\ "busy" \in Faults
  /\ InScript(a)
  /\ Failure(a)
  /\ exists' \in {exists, TRUE}
  /\ disturbed' = TRUE
  /\ UNCHANGED <<version, schema, settings>>

(***************************************************************************)
(* initDefaultSettings                                                     *)
(***************************************************************************)
NextSetting(a) ==
  IF pc[a].step < NSettings
    THEN Goto(a, "read", "create", pc[a].step + 1)
    ELSE Goto(a, "running", "create", 1)

\* Mutant of ReadSetting: a setting is not looked up before it is written.
ReadNothing(a) ==
  /\ pc[a].at = "read"
  /\ IF pc[a].step <= NSettings
       THEN Goto(a, "write", "create", pc[a].step)
       ELSE NextSetting(a)
  /\ Quietly(a)
  /\ UNCHANGED <<file, settings>>

\* getSetting gives an empty string for a missing setting.
ReadSetting(a) ==
  /\ pc[a].at = "read"
  /\ IF pc[a].step <= NSettings /\ settings[pc[a].step] = "missing"
       THEN Goto(a, "write", "create", pc[a].step)
       ELSE NextSetting(a)
  /\ Quietly(a)
  /\ UNCHANGED <<file, settings>>

\* ... and for one that cannot be read.
SettingUnread(a) ==
  /\ "setting" \in Faults
  /\ pc[a].at = "read"
  /\ pc[a].step <= NSettings
  /\ Goto(a, "write", "create", pc[a].step)
  /\ disturbed' = TRUE
  /\ UNCHANGED <<file, settings>>

WriteSetting(a) ==
  /\ pc[a].at = "write"
  /\ NextSetting(a)
  /\ \/ /\ settings' = IF schema["settings"] = "none" THEN settings
                       ELSE [settings EXCEPT ![pc[a].step] = "default"]
        /\ Quietly(a)
     \/ /\ "busy" \in Faults
        /\ disturbed' = TRUE
        /\ UNCHANGED settings
  /\ UNCHANGED file

(***************************************************************************)
(* The running program                                                     *)
(***************************************************************************)
\* SettingsDialog: the user stores a setting of the password generator.
ChooseSetting(a, k) ==
  /\ pc[a].at = "running"
  /\ schema["settings"] # "none"
  /\ settings' = [settings EXCEPT ![k] = "chosen"]
  /\ UNCHANGED <<file, pc, disturbed>>

Exit(a) ==
  /\ pc[a].at = "running"
  /\ pc' = [pc EXCEPT ![a] = Off]
  /\ UNCHANGED <<file, settings, disturbed>>

\* as a crash may.
Crash(a) ==
  /\ "crash" \in Faults
  /\ pc[a].at # "off"
  /\ pc' = [pc EXCEPT ![a] = Off]
  /\ exists' \in IF InScript(a) THEN {exists, TRUE} ELSE {exists}
  /\ disturbed' = TRUE
  /\ UNCHANGED <<version, schema, settings>>

Next ==
  \E a \in Apps :
    \/ Start(a) \/ VersionUnread(a)
    \/ RunStatement(a) \/ StatementRefused(a)
    \/ ReadSetting(a) \/ SettingUnread(a) \/ WriteSetting(a)
    \/ \E k \in 1 .. NSettings : ChooseSetting(a, k)
    \/ Exit(a) \/ Crash(a)

Spec == Init /\ [][Next]_vars

(***************************************************************************)
(* Properties                                                              *)
(***************************************************************************)
\* A key store that can hold the master password (version 2) has the tables of
\* the vault, the audit log, its keys and the settings beside it, wherever a
\* start was interrupted and whoever else was starting.
KeyStoreComesLast ==
  schema["key_store"] = "v2" /\ schema["audit_log"] # "v1" =>
    \A t \in {"vault_entries", "audit_log", "public_keys", "settings"} : schema[t] # "none"

\* A key store of version 2 stays: the migration, started on it because the
\* version could not be read, fails before it drops the table.
KeyStoreStays == [][schema["key_store"] = "v2" => schema'["key_store"] = "v2"]_vars

\* A program that created its file itself, always ran alone and was never
\* interrupted has all tables after every start,
QuietStartCompletes ==
  ~disturbed => \A a \in Apps : pc[a].at = "running" => \A t \in Tables : schema[t] = "v2"

\* and keeps what the user chose in the settings.
QuietStartKeepsSettings ==
  [][~disturbed' => \A k \in 1 .. NSettings : settings[k] = "chosen" => settings'[k] = "chosen"]_vars
=============================================================================
