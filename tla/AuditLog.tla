------------------------------ MODULE AuditLog ------------------------------
(***************************************************************************)
(* The audit log: AuditLogger appends one row per event, chained to the    *)
(* row before it by its hash, and LogVerifier walks the chain.             *)
(*                                                                         *)
(* A handler runs on its process's GUI thread; processes that share the    *)
(* database interleave at every SQL statement.  SHA-256 has no collisions: *)
(* the hash of (data, previous hash) is the list of all data hashed so     *)
(* far, and the empty hash of the first row is the empty list.             *)
(***************************************************************************)
EXTENDS Naturals, Sequences, FiniteSets

CONSTANTS
  Apps,    \* processes of the program that use the same database file
  Data,    \* what an event is logged as
  Cleared, \* the event of a clipboard timer restored at start-up
  MaxRows, \* bound: rows ever inserted
  Faults,  \* which of "write", "read", "crash", "damage" may happen
  NoRow    \* no row has this sequence number

ASSUME DataAssumption == Cleared \in Data
ASSUME MaxRowsAssumption == MaxRows \in Nat
ASSUME FaultsAssumption == Faults \subseteq {"write", "read", "crash", "damage"}

NoHash == <<>>
Hash(data, prev) == Append(prev, data)

Row == [data : Data, prev : Seq(Data), hash : Seq(Data), signed : BOOLEAN]
ASSUME NoRowAssumption == NoRow \notin Row

VARIABLES
  log,     \* audit_log: sequence_number -> row
  lastSeq, \* AUTOINCREMENT counter
  written, \* history: the data of every row inserted, in order
  damaged, \* history: somebody else has changed the table
  page,    \* what each process is doing
  key,     \* KeyManager holds the log signing key, since the first login
  entry,   \* the row being built by a handler of AuditLogger
  check    \* locals of verifyAllLogs

table == <<log, lastSeq, written, damaged>>
vars == <<table, page, key, entry, check>>

Sequence == 1 .. MaxRows
Pages == {"idle", "append", "verify", "valid", "broken"}
NoEntry == [data |-> Cleared, prev |-> NoHash]
NoCheck == [total |-> 0, next |-> 1, expected |-> NoHash]

TypeOK ==
  /\ log \in [Sequence -> Row \cup {NoRow}]
  /\ lastSeq \in 0 .. MaxRows
  /\ written \in Seq(Data) /\ Len(written) = lastSeq
  /\ damaged \in BOOLEAN
  /\ page \in [Apps -> Pages]
  /\ key \in [Apps -> BOOLEAN]
  /\ entry \in [Apps -> [data : Data, prev : Seq(Data)]]
  /\ check \in [Apps -> [total : 0 .. MaxRows, next : 1 .. MaxRows + 1,
                         expected : Seq(Data)]]

(***************************************************************************)
(* The table                                                               *)
(***************************************************************************)
Present == {s \in Sequence : log[s] # NoRow}
Count == Cardinality(Present)
Newest == CHOOSE s \in Present : \A t \in Present : t <= s
LastEntryHash == IF Present = {} THEN NoHash ELSE log[Newest].hash

IfReadFails(x) == IF "read" \in Faults THEN {x} ELSE {}

Goto(a, p) == page' = [page EXCEPT ![a] = p]

Init ==
  /\ log = [s \in Sequence |-> NoRow]
  /\ lastSeq = 0
  /\ written = <<>>
  /\ damaged = FALSE
  /\ page = [a \in Apps |-> "idle"]
  /\ key = [a \in Apps |-> FALSE]
  /\ entry = [a \in Apps |-> NoEntry]
  /\ check = [a \in Apps |-> NoCheck]

(***************************************************************************)
(* Processes                                                               *)
(***************************************************************************)
Login(a) ==
  /\ page[a] = "idle"
  /\ ~key[a]
  /\ key' = [key EXCEPT ![a] = TRUE]
  /\ UNCHANGED <<table, page, entry, check>>

\* The process ends, with a crash in the middle of anything, and may start
\* again.
Restart(a) ==
  /\ page[a] = "idle" \/ "crash" \in Faults
  /\ Goto(a, "idle")
  /\ key' = [key EXCEPT ![a] = FALSE]
  /\ entry' = [entry EXCEPT ![a] = NoEntry]
  /\ check' = [check EXCEPT ![a] = NoCheck]
  /\ UNCHANGED table

(***************************************************************************)
(* AuditLogger: every handler reads the last hash, signs and inserts.      *)
(***************************************************************************)
\* getLastEntryHash returns "" when it fails.
BeginAppend(a, data) ==
  /\ page[a] = "idle"
  /\ key[a] \/ data = Cleared
  /\ lastSeq < MaxRows
  /\ \E prev \in {LastEntryHash} \cup IfReadFails(NoHash) :
       entry' = [entry EXCEPT ![a] = [data |-> data, prev |-> prev]]
  /\ Goto(a, "append")
  /\ UNCHANGED <<table, key, check>>

\* Mutant of NewRow: the hash leaves the previous hash out.
RowWithoutChain(a) ==
  [data |-> entry[a].data, prev |-> entry[a].prev,
   hash |-> Hash(entry[a].data, NoHash), signed |-> key[a]]

\* Without a key, sign returns an empty signature, which is stored.
NewRow(a) ==
  [data |-> entry[a].data, prev |-> entry[a].prev,
   hash |-> Hash(entry[a].data, entry[a].prev), signed |-> key[a]]

\* Mutant of Inserted: the table has no AUTOINCREMENT, a number is used again.
NumberUsedAgain(a) ==
  /\ Count < MaxRows
  /\ log' = [log EXCEPT ![Count + 1] = NewRow(a)]
  /\ lastSeq' = Count + 1
  /\ written' = Append(written, entry[a].data)
  /\ UNCHANGED damaged

Inserted(a) ==
  /\ lastSeq < MaxRows
  /\ log' = [log EXCEPT ![lastSeq + 1] = NewRow(a)]
  /\ lastSeq' = lastSeq + 1
  /\ written' = Append(written, entry[a].data)
  /\ UNCHANGED damaged

\* addLogEntry; its result is ignored.
EndAppend(a) ==
  /\ page[a] = "append"
  /\ \/ Inserted(a)
     \/ "write" \in Faults /\ UNCHANGED table
  /\ Goto(a, "idle")
  /\ entry' = [entry EXCEPT ![a] = NoEntry]
  /\ UNCHANGED <<key, check>>

(***************************************************************************)
(* A row is changed or lost outside the program while nobody verifies.     *)
(***************************************************************************)
Damage(s, data) ==
  /\ "damage" \in Faults
  /\ \A a \in Apps : page[a] \notin {"verify", "valid", "broken"}
  /\ s \in Present
  /\ log' = [log EXCEPT ![s] = IF data = log[s].data THEN NoRow
                               ELSE [log[s] EXCEPT !.data = data]]
  /\ damaged' = TRUE
  /\ UNCHANGED <<lastSeq, written, page, key, entry, check>>

(***************************************************************************)
(* LogVerifier::verifyAllLogs, from the audit tab of the main window       *)
(***************************************************************************)
\* getLogEntryCount returns -1 when it fails, and nothing to verify is valid.
BeginVerify(a) ==
  /\ page[a] = "idle"
  /\ key[a]
  /\ \E total \in {Count} \cup IfReadFails(0) :
       /\ Goto(a, IF total = 0 THEN "valid" ELSE "verify")
       /\ check' = [check EXCEPT ![a] = [NoCheck EXCEPT !.total = total]]
  /\ UNCHANGED <<table, key, entry>>

\* Mutant of RowVerifies: only the link to the row before is compared.
OnlyLinkVerifies(a, row) == row.prev = check[a].expected

RowVerifies(a, row) ==
  /\ Hash(row.data, row.prev) = row.hash
  /\ row.prev = check[a].expected

\* One round of the loop: a row that cannot be read, whose hash is wrong or
\* which does not continue the chain ends it.
VerifyRow(a) ==
  /\ page[a] = "verify"
  /\ \E row \in {log[check[a].next]} \cup IfReadFails(NoRow) :
       IF row # NoRow /\ RowVerifies(a, row)
         THEN /\ check' = [check EXCEPT ![a] = [total |-> @.total, next |-> @.next + 1,
                                                expected |-> row.hash]]
              /\ Goto(a, IF check[a].next = check[a].total THEN "valid" ELSE "verify")
         ELSE Goto(a, "broken") /\ UNCHANGED check
  /\ UNCHANGED <<table, key, entry>>

CloseReport(a) ==
  /\ page[a] \in {"valid", "broken"}
  /\ Goto(a, "idle")
  /\ check' = [check EXCEPT ![a] = NoCheck]
  /\ UNCHANGED <<table, key, entry>>

Step(a) ==
  \/ Login(a) \/ Restart(a)
  \/ EndAppend(a) \/ \E data \in Data : BeginAppend(a, data)
  \/ BeginVerify(a) \/ VerifyRow(a) \/ CloseReport(a)

Next ==
  \/ \E a \in Apps : Step(a)
  \/ \E s \in Sequence, data \in Data : Damage(s, data)

Spec == Init /\ [][Next]_vars

(***************************************************************************)
(* Properties                                                              *)
(***************************************************************************)
\* A log that only AuditLogger has written verifies, whatever inserts failed
\* and wherever a process died.
HonestLogIsAccepted ==
  ~damaged => \A a \in Apps : page[a] # "broken"

\* If verification reports n valid rows, they are the first n rows that were
\* ever written, in that order and unchanged.
ValidMeansUntouched ==
  \A a \in Apps :
    page[a] = "valid" =>
      \A s \in 1 .. check[a].total : s \in Present /\ log[s].data = written[s]
=============================================================================
