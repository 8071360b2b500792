--------------------------- MODULE AuditLogProofs ---------------------------
(***************************************************************************)
(* Theorems about AuditLog, for any number of rows and, where the theorem  *)
(* says nothing else, any number of processes and any faults.              *)
(***************************************************************************)
EXTENDS AuditLog, FiniteSetTheorems, WellFoundedInduction, TLAPS

(***************************************************************************)
(* The table                                                               *)
(***************************************************************************)
\* A set of sequence numbers that is not empty has a greatest element.
LEMMA GreatestNumber ==
  ASSUME NEW S \in SUBSET Sequence, S # {}
  PROVE  \E s \in S : \A t \in S : t <= s
<1> DEFINE R == {p \in Nat \X Nat : p[1] < p[2]}
           T == {MaxRows - s : s \in S}
<1>1. IsWellFoundedOn(R, Nat)
  BY NatLessThanWellFounded DEF OpToRel
<1>2. T \subseteq Nat /\ T # {}
  <2>1. \A s \in S : MaxRows - s \in Nat
    BY MaxRowsAssumption DEF Sequence
  <2> QED BY <2>1
<1>3. PICK m \in T : \A n \in T : ~(<<n, m>> \in R)
  <2> HIDE DEF R, T
  <2> QED BY <1>1, <1>2, WFMin
<1>4. PICK s \in S : m = MaxRows - s
  OBVIOUS
<1>5. \A t \in S : t <= s
  <2> SUFFICES ASSUME NEW t \in S, ~(t <= s) PROVE FALSE
    OBVIOUS
  <2>1. s \in Int /\ t \in Int /\ MaxRows \in Int
    BY MaxRowsAssumption DEF Sequence
  <2>2. MaxRows - t \in T /\ MaxRows - t < m
    BY <1>4, <2>1
  <2> QED BY <1>2, <1>3, <2>2
<1> QED BY <1>5

LEMMA HashType ==
  ASSUME NEW data \in Data, NEW prev \in Seq(Data)
  PROVE  Hash(data, prev) \in Seq(Data)
BY DEF Hash

\* Equal hashes of rows with the same previous hash mean equal data.
LEMMA HashInjective ==
  ASSUME NEW d \in Data, NEW e \in Data, NEW prev \in Seq(Data),
         Hash(d, prev) = Hash(e, prev)
  PROVE  d = e
<1>1. Append(prev, d)[Len(prev) + 1] = d /\ Append(prev, e)[Len(prev) + 1] = e
  OBVIOUS
<1> QED BY <1>1 DEF Hash

\* What the two queries on the table return.
LEMMA QueryTypes ==
  ASSUME TypeOK
  PROVE  /\ Count \in 0 .. MaxRows
         /\ LastEntryHash \in Seq(Data)
<1>1. Present \in SUBSET Sequence
  BY DEF Present
<1>2. Count \in 0 .. MaxRows
  <2>1. IsFiniteSet(Sequence) /\ Cardinality(Sequence) = MaxRows
    BY FS_Interval, MaxRowsAssumption DEF Sequence
  <2>2. IsFiniteSet(Present) /\ Cardinality(Present) <= MaxRows
    BY <1>1, <2>1, FS_Subset
  <2> QED BY <2>2, FS_CardinalityType, MaxRowsAssumption DEF Count
<1>3. CASE Present = {}
  BY <1>2, <1>3 DEF LastEntryHash, NoHash
<1>4. CASE Present # {}
  <2>1. Newest \in Present
    BY <1>1, <1>4, GreatestNumber, Zenon DEF Newest
  <2>2. log[Newest] \in Row
    BY <1>1, <2>1 DEF TypeOK, Present
  <2> QED BY <1>2, <1>4, <2>2 DEF LastEntryHash, Row
<1> QED BY <1>3, <1>4

LEMMA NewRowType ==
  ASSUME TypeOK, NEW a \in Apps
  PROVE  NewRow(a) \in Row
<1>1. entry[a].data \in Data /\ entry[a].prev \in Seq(Data) /\ key[a] \in BOOLEAN
  BY DEF TypeOK
<1> QED BY <1>1, HashType DEF NewRow, Row

(***************************************************************************)
(* Types                                                                   *)
(***************************************************************************)
LEMMA LocalTypes ==
  /\ NoEntry \in [data : Data, prev : Seq(Data)]
  /\ NoCheck \in [total : 0 .. MaxRows, next : 1 .. MaxRows + 1,
                  expected : Seq(Data)]
BY DataAssumption, MaxRowsAssumption DEF NoEntry, NoCheck, NoHash

LEMMA TypeInit == Init => TypeOK
<1> SUFFICES ASSUME Init PROVE TypeOK
  OBVIOUS
<1>1. /\ log \in [Sequence -> Row \cup {NoRow}]
      /\ lastSeq \in 0 .. MaxRows
      /\ damaged \in BOOLEAN
  <2>1. log \in [Sequence -> Row \cup {NoRow}]
    BY Zenon DEF Init
  <2>2. lastSeq \in 0 .. MaxRows
    BY MaxRowsAssumption DEF Init
  <2> QED BY <2>1, <2>2 DEF Init
<1>2. written \in Seq(Data) /\ Len(written) = lastSeq
  BY DEF Init
<1>3. page \in [Apps -> Pages] /\ key \in [Apps -> BOOLEAN]
  BY DEF Init, Pages
<1> QED BY <1>1, <1>2, <1>3, LocalTypes DEF Init, TypeOK

LEMMA TypeAppend ==
  ASSUME TypeOK, NEW a \in Apps,
         EndAppend(a) \/ \E data \in Data : BeginAppend(a, data)
  PROVE  TypeOK'
<1> USE DEF TypeOK, table, Pages, Goto
<1>1. ASSUME NEW data \in Data, BeginAppend(a, data)
      PROVE  TypeOK'
  <2>1. PICK prev \in {LastEntryHash} \cup IfReadFails(NoHash) :
          entry' = [entry EXCEPT ![a] = [data |-> data, prev |-> prev]]
    BY <1>1 DEF BeginAppend
  <2>2. prev \in Seq(Data)
    <3> HIDE DEF TypeOK
    <3>1. LastEntryHash \in Seq(Data) /\ NoHash \in Seq(Data)
      BY QueryTypes DEF NoHash
    <3> QED BY <3>1 DEF IfReadFails
  <2>3. entry' \in [Apps -> [data : Data, prev : Seq(Data)]]
    BY <2>1, <2>2
  <2> QED BY <1>1, <2>3 DEF BeginAppend
<1>2. ASSUME EndAppend(a)
      PROVE  TypeOK'
  <2>1. /\ entry' \in [Apps -> [data : Data, prev : Seq(Data)]]
        /\ page' \in [Apps -> Pages]
        /\ UNCHANGED <<key, check>>
    BY <1>2, LocalTypes DEF EndAppend
  <2>2. CASE UNCHANGED table
    BY <2>1, <2>2
  <2>3. CASE Inserted(a)
    <3>1. lastSeq + 1 \in Sequence
      BY <2>3, MaxRowsAssumption DEF Inserted, Sequence
    <3>2. /\ log' \in [Sequence -> Row \cup {NoRow}]
          /\ lastSeq' \in 0 .. MaxRows
      BY <2>3, <3>1, NewRowType, MaxRowsAssumption DEF Inserted, Sequence
    <3>3. written' \in Seq(Data) /\ Len(written') = lastSeq'
      <4>1. entry[a].data \in Data
        OBVIOUS
      <4> QED BY <2>3, <4>1 DEF Inserted
    <3> QED BY <2>1, <2>3, <3>2, <3>3 DEF Inserted
  <2> QED BY <1>2, <2>2, <2>3 DEF EndAppend
<1> QED BY <1>1, <1>2

(***************************************************************************)
(* Verification.  Its loop stays within the rows it counted.               *)
(***************************************************************************)
CursorInRange ==
  \A a \in Apps : page[a] = "verify" => check[a].next <= check[a].total

LocalCheck == [total : 0 .. MaxRows, next : 1 .. MaxRows + 1,
               expected : Seq(Data)]

\* What BeginVerify leaves in the locals of verifyAllLogs.
LEMMA BeginVerifyStep ==
  ASSUME TypeOK, NEW a \in Apps, BeginVerify(a)
  PROVE  \E total \in 0 .. MaxRows :
           /\ total \in {Count} \cup IfReadFails(0)
           /\ page' = [page EXCEPT ![a] = IF total = 0 THEN "valid" ELSE "verify"]
           /\ check' = [check EXCEPT ![a] = [total |-> total, next |-> 1,
                                             expected |-> NoHash]]
<1>1. Count \in 0 .. MaxRows /\ 0 \in 0 .. MaxRows
  BY QueryTypes, MaxRowsAssumption
<1>2. PICK total \in {Count} \cup IfReadFails(0) :
        /\ Goto(a, IF total = 0 THEN "valid" ELSE "verify")
        /\ check' = [check EXCEPT ![a] = [NoCheck EXCEPT !.total = total]]
  BY DEF BeginVerify
<1>3. total \in 0 .. MaxRows
  BY <1>1 DEF IfReadFails
<1>4. [NoCheck EXCEPT !.total = total]
       = [total |-> total, next |-> 1, expected |-> NoHash]
  BY DEF NoCheck
<1> QED BY <1>2, <1>3, <1>4, Zenon DEF Goto

\* A round of the loop either ends with "broken", or it has read a row of the
\* table that it accepts, and goes on or ends with "valid".
LEMMA VerifyRowStep ==
  ASSUME TypeOK, CursorInRange, NEW a \in Apps, VerifyRow(a)
  PROVE  \/ /\ page' = [page EXCEPT ![a] = "broken"]
            /\ UNCHANGED check
            /\ \/ "read" \in Faults
               \/ log[check[a].next] = NoRow
               \/ ~RowVerifies(a, log[check[a].next])
         \/ /\ check[a].next \in Present
            /\ RowVerifies(a, log[check[a].next])
            /\ check' = [check EXCEPT ![a] = [total |-> check[a].total,
                                              next |-> check[a].next + 1,
                                              expected |-> log[check[a].next].hash]]
            /\ page' = [page EXCEPT ![a] = IF check[a].next = check[a].total
                                             THEN "valid" ELSE "verify"]
<1>1. PICK row \in {log[check[a].next]} \cup IfReadFails(NoRow) :
        IF row # NoRow /\ RowVerifies(a, row)
          THEN /\ check' = [check EXCEPT ![a] = [total |-> @.total, next |-> @.next + 1,
                                                 expected |-> row.hash]]
               /\ Goto(a, IF check[a].next = check[a].total THEN "valid" ELSE "verify")
          ELSE Goto(a, "broken") /\ UNCHANGED check
  BY DEF VerifyRow
<1>2. CASE row # NoRow /\ RowVerifies(a, row)
  <2>1. row = log[check[a].next]
    BY <1>2 DEF IfReadFails
  <2>2. check[a].next \in Sequence
    BY MaxRowsAssumption DEF CursorInRange, VerifyRow, TypeOK, Sequence
  <2> QED BY <1>1, <1>2, <2>1, <2>2 DEF Present, Goto
<1>3. CASE ~(row # NoRow /\ RowVerifies(a, row))
  <2>1. page' = [page EXCEPT ![a] = "broken"] /\ UNCHANGED check
    BY <1>1, <1>3 DEF Goto
  <2>2. row = log[check[a].next] \/ "read" \in Faults
    BY DEF IfReadFails
  <2> QED BY <1>3, <2>1, <2>2
<1> QED BY <1>2, <1>3

LEMMA TypeVerify ==
  ASSUME TypeOK, CursorInRange, NEW a \in Apps,
         BeginVerify(a) \/ VerifyRow(a) \/ CloseReport(a)
  PROVE  TypeOK'
<1> USE DEF Pages, table
<1>1. CASE BeginVerify(a)
  <2>1. PICK total \in 0 .. MaxRows :
          /\ page' = [page EXCEPT ![a] = IF total = 0 THEN "valid" ELSE "verify"]
          /\ check' = [check EXCEPT ![a] = [total |-> total, next |-> 1,
                                            expected |-> NoHash]]
    BY <1>1, BeginVerifyStep
  <2>2. check' \in [Apps -> LocalCheck] /\ page' \in [Apps -> Pages]
    BY <2>1, MaxRowsAssumption DEF TypeOK, LocalCheck, NoHash
  <2> QED BY <1>1, <2>2 DEF BeginVerify, TypeOK, LocalCheck
<1>2. CASE VerifyRow(a)
  <2>1. UNCHANGED <<table, key, entry>>
    BY <1>2 DEF VerifyRow
  <2>2. check' \in [Apps -> LocalCheck] /\ page' \in [Apps -> Pages]
    <3>1. CASE page' = [page EXCEPT ![a] = "broken"] /\ UNCHANGED check
      BY <3>1 DEF TypeOK, LocalCheck
    <3>2. CASE /\ check[a].next \in Present
               /\ check' = [check EXCEPT ![a] = [total |-> check[a].total,
                                                 next |-> check[a].next + 1,
                                                 expected |-> log[check[a].next].hash]]
               /\ page' = [page EXCEPT ![a] = IF check[a].next = check[a].total
                                                THEN "valid" ELSE "verify"]
      <4>1. log[check[a].next].hash \in Seq(Data)
        BY <3>2 DEF Present, TypeOK, Row
      <4>2. check[a].next + 1 \in 1 .. MaxRows + 1 /\ check[a].total \in 0 .. MaxRows
        BY <3>2, MaxRowsAssumption DEF Present, Sequence, TypeOK
      <4> QED BY <3>2, <4>1, <4>2 DEF TypeOK, LocalCheck
    <3> QED BY <1>2, <3>1, <3>2, VerifyRowStep
  <2> QED BY <2>1, <2>2 DEF TypeOK, LocalCheck
<1>3. CASE CloseReport(a)
  BY <1>3, LocalTypes DEF CloseReport, Goto, TypeOK
<1> QED BY <1>1, <1>2, <1>3

IndInv == TypeOK /\ CursorInRange

LEMMA IndInvNext == IndInv /\ [Next]_vars => IndInv'
<1> SUFFICES ASSUME IndInv, [Next]_vars PROVE IndInv'
  OBVIOUS
<1> USE DEF IndInv
<1>1. ASSUME NEW a \in Apps, Login(a) PROVE IndInv'
  BY <1>1 DEF Login, TypeOK, table, CursorInRange
<1>2. ASSUME NEW a \in Apps, Restart(a) PROVE IndInv'
  <2>1. TypeOK'
    BY <1>2, LocalTypes DEF Restart, Goto, TypeOK, table, Pages
  <2>2. CursorInRange'
    BY <1>2 DEF Restart, Goto, TypeOK, CursorInRange
  <2> QED BY <2>1, <2>2
<1>3. ASSUME NEW a \in Apps, EndAppend(a) \/ \E data \in Data : BeginAppend(a, data)
      PROVE  IndInv'
  <2>1. CursorInRange'
    BY <1>3 DEF BeginAppend, EndAppend, Goto, TypeOK, CursorInRange
  <2> QED BY <1>3, <2>1, TypeAppend
<1>4. ASSUME NEW a \in Apps, BeginVerify(a) \/ VerifyRow(a) \/ CloseReport(a)
      PROVE  IndInv'
  <2>1. CursorInRange'
    <3>1. CASE BeginVerify(a)
      <4>1. PICK total \in 0 .. MaxRows :
              /\ page' = [page EXCEPT ![a] = IF total = 0 THEN "valid" ELSE "verify"]
              /\ check' = [check EXCEPT ![a] = [total |-> total, next |-> 1,
                                                expected |-> NoHash]]
        BY <3>1, BeginVerifyStep
      <4>2. total # 0 => 1 <= total
        BY MaxRowsAssumption
      <4> QED BY <4>1, <4>2 DEF CursorInRange, TypeOK
    <3>2. CASE VerifyRow(a)
      <4>1. page[a] = "verify"
        BY <3>2 DEF VerifyRow
      <4>2. check[a].next \in Nat /\ check[a].total \in Nat
        BY MaxRowsAssumption DEF TypeOK
      <4>3. CASE page' = [page EXCEPT ![a] = "broken"] /\ UNCHANGED check
        BY <4>3 DEF CursorInRange, TypeOK
      <4>4. CASE /\ check' = [check EXCEPT ![a] = [total |-> check[a].total,
                                                   next |-> check[a].next + 1,
                                                   expected |-> log[check[a].next].hash]]
                 /\ page' = [page EXCEPT ![a] = IF check[a].next = check[a].total
                                                  THEN "valid" ELSE "verify"]
        BY <4>1, <4>2, <4>4 DEF CursorInRange, TypeOK
      <4> QED BY <3>2, <4>3, <4>4, VerifyRowStep
    <3>3. CASE CloseReport(a)
      BY <3>3 DEF CloseReport, Goto, CursorInRange, TypeOK
    <3> QED BY <1>4, <3>1, <3>2, <3>3
  <2> QED BY <1>4, <2>1, TypeVerify
<1>5. ASSUME NEW s \in Sequence, NEW data \in Data, Damage(s, data)
      PROVE  IndInv'
  <2>1. /\ s \in Sequence /\ log[s] \in Row
        /\ [log[s] EXCEPT !.data = data] \in Row
    BY <1>5 DEF Damage, Present, TypeOK, Row
  <2>2. log' \in [Sequence -> Row \cup {NoRow}]
    BY <1>5, <2>1 DEF Damage, TypeOK
  <2>3. TypeOK' /\ CursorInRange'
    BY <1>5, <2>2 DEF Damage, TypeOK, CursorInRange
  <2> QED BY <2>3
<1>6. CASE UNCHANGED vars
  BY <1>6 DEF vars, table, TypeOK, CursorInRange
<1> QED BY <1>1, <1>2, <1>3, <1>4, <1>5, <1>6 DEF Next, Step

\* The invariant behind the type invariant: the verification loop never reads
\* beyond the rows it has counted.
LEMMA IndInvAlways == Spec => []IndInv
<1>1. Init => IndInv
  BY TypeInit DEF Init, IndInv, CursorInRange
<1> QED BY <1>1, IndInvNext, PTL DEF Spec

\* Every variable keeps its type in every behaviour, with every fault and any
\* number of processes; no sequence number is ever used twice.
THEOREM TypeCorrect == Spec => []TypeOK
<1>1. IndInv => TypeOK
  BY DEF IndInv
<1> QED BY <1>1, IndInvAlways, PTL

(***************************************************************************)
(* A valid report.  The hash of every row left in the table is the one it  *)
(* was inserted with, so a row that has passed holds what was written.     *)
(***************************************************************************)
HashesKept ==
  \A s \in Present :
    /\ s <= lastSeq
    /\ log[s].hash = Hash(written[s], log[s].prev)

Passed(n) == \A s \in 1 .. n : s \in Present /\ log[s].data = written[s]

PassedRows ==
  \A a \in Apps :
    /\ page[a] \in {"verify", "valid"} => Passed(check[a].next - 1)
    /\ page[a] = "valid" => check[a].total = check[a].next - 1

ReportInv == IndInv /\ HashesKept /\ PassedRows

\* A new row takes a number nobody has had; what was true of the others stays.
LEMMA InsertedKeeps ==
  ASSUME ReportInv, NEW a \in Apps, Inserted(a)
  PROVE  /\ lastSeq + 1 \in Sequence
         /\ Present' = Present \cup {lastSeq + 1}
         /\ \A s \in Present : s # lastSeq + 1 /\ log'[s] = log[s]
                               /\ written'[s] = written[s]
         /\ log'[lastSeq + 1] = NewRow(a)
         /\ written'[lastSeq + 1] = entry[a].data
<1> USE DEF ReportInv, IndInv, Inserted
<1>1. lastSeq \in Nat /\ lastSeq + 1 \in Sequence
  BY MaxRowsAssumption DEF TypeOK, Sequence
<1>2. log'[lastSeq + 1] = NewRow(a)
  BY <1>1 DEF TypeOK
<1>3. NewRow(a) # NoRow
  BY NewRowType, NoRowAssumption
<1>4. \A s \in Sequence : s # lastSeq + 1 => log'[s] = log[s]
  BY <1>1 DEF TypeOK
<1>5. Present' = Present \cup {lastSeq + 1}
  BY <1>1, <1>2, <1>3, <1>4 DEF Present
<1>6. ASSUME NEW s \in Present
      PROVE  s \in 1 .. lastSeq
  BY <1>6 DEF HashesKept, Present, Sequence
<1>7. written' = Append(written, entry[a].data) /\ written \in Seq(Data)
      /\ Len(written) = lastSeq /\ entry[a].data \in Data
  BY DEF TypeOK
<1>8. /\ \A s \in 1 .. lastSeq : written'[s] = written[s]
      /\ written'[lastSeq + 1] = entry[a].data
  BY <1>7
<1>9. ASSUME NEW s \in Present
      PROVE  s # lastSeq + 1 /\ log'[s] = log[s] /\ written'[s] = written[s]
  <2>1. s # lastSeq + 1 /\ s \in Sequence
    BY <1>1, <1>6, <1>9 DEF Present
  <2> QED BY <1>4, <1>6, <1>8, <1>9, <2>1
<1> HIDE DEF ReportInv, IndInv, Inserted
<1> QED BY <1>1, <1>2, <1>5, <1>8, <1>9

LEMMA ReportTable ==
  ASSUME ReportInv, NEW a \in Apps, Inserted(a)
  PROVE  /\ HashesKept'
         /\ \A n \in Nat : Passed(n) => Passed(n)'
<1>1. HashesKept'
  <2> SUFFICES ASSUME NEW s \in Present'
               PROVE  /\ s <= lastSeq'
                      /\ log'[s].hash = Hash(written'[s], log'[s].prev)
    BY DEF HashesKept
  <2>1. CASE s \in Present
    <3>1. s <= lastSeq /\ log[s].hash = Hash(written[s], log[s].prev) /\ s \in Nat
      BY <2>1 DEF ReportInv, HashesKept, Present, Sequence
    <3>2. lastSeq' = lastSeq + 1 /\ lastSeq \in Nat
      BY DEF Inserted, ReportInv, IndInv, TypeOK
    <3>3. s <= lastSeq'
      BY <3>1, <3>2
    <3>4. log'[s] = log[s] /\ written'[s] = written[s]
      BY <2>1, InsertedKeeps
    <3> QED BY <3>1, <3>3, <3>4
  <2>2. CASE s = lastSeq + 1
    <3>1. log'[s] = NewRow(a) /\ written'[s] = entry[a].data
      BY <2>2, InsertedKeeps
    <3>2. s <= lastSeq'
      BY <2>2 DEF Inserted, ReportInv, IndInv, TypeOK
    <3> QED BY <3>1, <3>2 DEF NewRow
  <2> QED BY <2>1, <2>2, InsertedKeeps
<1>2. ASSUME NEW n \in Nat, Passed(n)
      PROVE  Passed(n)'
  BY <1>2, InsertedKeeps DEF Passed
<1> QED BY <1>1, <1>2

LEMMA ReportInvNext == ReportInv /\ [Next]_vars => ReportInv'
<1> SUFFICES ASSUME ReportInv, [Next]_vars PROVE HashesKept' /\ PassedRows'
  BY IndInvNext DEF ReportInv
<1>0. TypeOK /\ CursorInRange /\ HashesKept /\ PassedRows
  BY DEF ReportInv, IndInv
<1>t. \A a \in Apps : check[a].next \in Nat \ {0} /\ check[a].next - 1 \in Nat
  BY <1>0, MaxRowsAssumption DEF TypeOK
<1>1. ASSUME NEW a \in Apps,
             Login(a) \/ Restart(a) \/ (\E data \in Data : BeginAppend(a, data))
      PROVE  HashesKept' /\ PassedRows'
  <2>1. UNCHANGED table
    BY <1>1 DEF Login, Restart, BeginAppend
  <2>2. HashesKept'
    BY <1>0, <2>1 DEF HashesKept, Present, table
  <2>3. \A b \in Apps : page'[b] \in {"verify", "valid"} =>
          page'[b] = page[b] /\ check'[b] = check[b]
    BY <1>0, <1>1 DEF Login, Restart, BeginAppend, Goto, TypeOK
  <2>4. \A n \in Nat : Passed(n) <=> Passed(n)'
    BY <2>1 DEF Passed, Present, table
  <2> QED BY <1>0, <1>t, <2>2, <2>3, <2>4 DEF PassedRows
<1>2. ASSUME NEW a \in Apps, EndAppend(a)
      PROVE  HashesKept' /\ PassedRows'
  <2>1. \A b \in Apps : page'[b] \in {"verify", "valid"} => page'[b] = page[b]
    BY <1>0, <1>2 DEF EndAppend, Goto, TypeOK
  <2>2. UNCHANGED check
    BY <1>2 DEF EndAppend
  <2>3. HashesKept' /\ \A n \in Nat : Passed(n) => Passed(n)'
    <3>1. CASE Inserted(a)
      BY <3>1, ReportTable
    <3>2. CASE UNCHANGED table
      BY <1>0, <3>2 DEF HashesKept, Passed, Present, table
    <3> QED BY <1>2, <3>1, <3>2 DEF EndAppend
  <2> QED BY <1>0, <1>t, <2>1, <2>2, <2>3 DEF PassedRows
<1>3. ASSUME NEW a \in Apps, BeginVerify(a)
      PROVE  HashesKept' /\ PassedRows'
  <2>1. PICK total \in 0 .. MaxRows :
          /\ page' = [page EXCEPT ![a] = IF total = 0 THEN "valid" ELSE "verify"]
          /\ check' = [check EXCEPT ![a] = [total |-> total, next |-> 1,
                                            expected |-> NoHash]]
    BY <1>0, <1>3, BeginVerifyStep
  <2>2. HashesKept' /\ \A n \in Nat : Passed(n) => Passed(n)'
    BY <1>0, <1>3 DEF BeginVerify, HashesKept, Passed, Present, table
  <2>3. ASSUME NEW b \in Apps, b # a
        PROVE  page'[b] = page[b] /\ check'[b] = check[b]
    BY <1>0, <2>1, <2>3 DEF TypeOK
  <2>4. /\ check'[a].next = 1 /\ check'[a].total = total
        /\ page'[a] = "valid" => total = 0
    BY <1>0, <2>1 DEF TypeOK
  <2>5. Passed(0)'
    BY DEF Passed
  <2> QED BY <1>0, <1>t, <2>2, <2>3, <2>4, <2>5 DEF PassedRows
<1>4. ASSUME NEW a \in Apps, VerifyRow(a)
      PROVE  HashesKept' /\ PassedRows'
  <2>1. HashesKept' /\ \A n \in Nat : Passed(n) => Passed(n)'
    BY <1>0, <1>4 DEF VerifyRow, HashesKept, Passed, Present, table
  <2>2. CASE page' = [page EXCEPT ![a] = "broken"] /\ UNCHANGED check
    <3>1. \A b \in Apps : page'[b] \in {"verify", "valid"} => page'[b] = page[b]
      BY <1>0, <2>2 DEF TypeOK
    <3> QED BY <1>0, <1>t, <2>1, <2>2, <3>1 DEF PassedRows
  <2>3. CASE /\ check[a].next \in Present
             /\ RowVerifies(a, log[check[a].next])
             /\ check' = [check EXCEPT ![a] = [total |-> check[a].total,
                                               next |-> check[a].next + 1,
                                               expected |-> log[check[a].next].hash]]
             /\ page' = [page EXCEPT ![a] = IF check[a].next = check[a].total
                                              THEN "valid" ELSE "verify"]
    <3> DEFINE n == check[a].next
    <3>1. log[n] \in Row /\ n \in 1 .. lastSeq
      BY <1>0, <1>t, <2>3 DEF Present, Sequence, TypeOK, HashesKept
    <3>2. written[n] \in Data
      BY <1>0, <3>1 DEF TypeOK
    <3>3. log[n].data = written[n]
      <4>1. Hash(log[n].data, log[n].prev) = Hash(written[n], log[n].prev)
        BY <1>0, <2>3 DEF HashesKept, RowVerifies
      <4>2. log[n].data \in Data /\ log[n].prev \in Seq(Data)
        BY <3>1 DEF Row
      <4> QED BY <3>2, <4>1, <4>2, HashInjective
    <3>4. page[a] = "verify" /\ Passed(n - 1)
      BY <1>0, <1>4 DEF VerifyRow, PassedRows
    <3>5. Passed(n)
      <4>1. \A s \in 1 .. n : s \in 1 .. (n - 1) \/ s = n
        BY <1>t
      <4> QED BY <2>3, <3>3, <3>4, <4>1 DEF Passed
    <3>6. /\ check'[a].next - 1 = n /\ check'[a].total = check[a].total
          /\ page'[a] = "valid" => n = check[a].total
      BY <1>0, <1>t, <2>3 DEF TypeOK
    <3>7. ASSUME NEW b \in Apps, b # a
          PROVE  page'[b] = page[b] /\ check'[b] = check[b]
      BY <1>0, <2>3, <3>7 DEF TypeOK
    <3>8. n \in Nat
      BY <1>t
    <3> HIDE DEF n
    <3> QED BY <1>0, <1>t, <2>1, <3>5, <3>6, <3>7, <3>8 DEF PassedRows
  <2> QED BY <1>0, <1>4, <2>2, <2>3, VerifyRowStep
<1>5. ASSUME NEW a \in Apps, CloseReport(a)
      PROVE  HashesKept' /\ PassedRows'
  <2>1. HashesKept' /\ \A n \in Nat : Passed(n) => Passed(n)'
    BY <1>0, <1>5 DEF CloseReport, HashesKept, Passed, Present, table
  <2>2. \A b \in Apps : page'[b] \in {"verify", "valid"} =>
          page'[b] = page[b] /\ check'[b] = check[b]
    BY <1>0, <1>5 DEF CloseReport, Goto, TypeOK
  <2> QED BY <1>0, <1>t, <2>1, <2>2 DEF PassedRows
<1>6. ASSUME NEW s \in Sequence, NEW data \in Data, Damage(s, data)
      PROVE  HashesKept' /\ PassedRows'
  <2>1. s \in Present /\ log[s] \in Row
    BY <1>0, <1>6 DEF Damage, Present, TypeOK
  <2>2. ASSUME NEW t \in Present'
        PROVE  t \in Present /\ log'[t].hash = log[t].hash /\ log'[t].prev = log[t].prev
    BY <1>0, <1>6, <2>1, <2>2 DEF Damage, Present, TypeOK, Row
  <2>3. HashesKept'
    BY <1>0, <1>6, <2>2 DEF Damage, HashesKept
  <2> QED BY <1>6, <2>3 DEF Damage, PassedRows
<1>7. CASE UNCHANGED vars
  BY <1>0, <1>7 DEF vars, table, HashesKept, PassedRows, Passed, Present
<1> QED BY <1>1, <1>2, <1>3, <1>4, <1>5, <1>6, <1>7 DEF Next, Step

\* A valid report is never given for a row that is missing or that does not
\* hold what AuditLogger wrote under its number: for any number of processes,
\* whatever was lost or changed and whichever statements failed.
THEOREM ValidReportIsTrue == Spec => []ValidMeansUntouched
<1>1. Init => ReportInv
  <2>1. Init => IndInv
    BY TypeInit DEF Init, IndInv, CursorInRange
  <2> QED BY <2>1 DEF Init, ReportInv, HashesKept, PassedRows, Present
<1>2. ReportInv => ValidMeansUntouched
  BY DEF ReportInv, PassedRows, Passed, ValidMeansUntouched
<1> QED BY <1>1, <1>2, ReportInvNext, PTL DEF Spec

(***************************************************************************)
(* An honest log.  As long as nobody else changes the table, one process   *)
(* whose reads succeed builds a chain without gaps.                        *)
(***************************************************************************)
Alone == \A a, b \in Apps : a = b

HashBefore(n) == IF n = 1 THEN NoHash ELSE log[n - 1].hash

Chained ==
  /\ Present = 1 .. lastSeq
  /\ \A s \in 1 .. lastSeq :
       /\ log[s].hash = Hash(log[s].data, log[s].prev)
       /\ log[s].prev = HashBefore(s)

Continues ==
  \A a \in Apps :
    /\ page[a] = "append" => entry[a].prev = HashBefore(lastSeq + 1)
    /\ page[a] = "verify" => /\ check[a].total <= lastSeq
                             /\ check[a].expected = HashBefore(check[a].next)

ChainInv == IndInv /\ (~damaged => Chained /\ Continues /\ HonestLogIsAccepted)

LEMMA HashAfter ==
  ASSUME NEW n \in Nat \ {0}
  PROVE  HashBefore(n + 1) = log[n].hash
<1>1. n + 1 # 1 /\ (n + 1) - 1 = n
  OBVIOUS
<1>2. log[(n + 1) - 1].hash = log[n].hash
  BY <1>1
<1> QED BY <1>1, <1>2, Zenon DEF HashBefore

\* On a chain without gaps the two queries see every row.
LEMMA QueriesOnChain ==
  ASSUME TypeOK, Chained
  PROVE  Count = lastSeq /\ LastEntryHash = HashBefore(lastSeq + 1)
<1>1. lastSeq \in Nat /\ Present = 1 .. lastSeq
  BY MaxRowsAssumption DEF TypeOK, Chained
<1>2. Count = lastSeq
  BY <1>1, FS_Interval DEF Count
<1>3. CASE lastSeq = 0
  BY <1>1, <1>2, <1>3 DEF LastEntryHash, HashBefore
<1>4. CASE lastSeq # 0
  <2>1. lastSeq \in Present /\ \A t \in Present : t <= lastSeq
    BY <1>1, <1>4
  <2>2. \A s \in Present : (\A t \in Present : t <= s) => s = lastSeq
    <3> SUFFICES ASSUME NEW s \in Present, \A t \in Present : t <= s
                 PROVE  s = lastSeq
      OBVIOUS
    <3>1. s \in Nat /\ s <= lastSeq /\ lastSeq <= s
      BY <1>1, <2>1
    <3> QED BY <1>1, <3>1
  <2>3. Newest = lastSeq
    BY <2>1, <2>2 DEF Newest
  <2>4. HashBefore(lastSeq + 1) = log[lastSeq].hash
    BY <1>1, <1>4, HashAfter
  <2> QED BY <1>2, <2>1, <2>3, <2>4 DEF LastEntryHash
<1> QED BY <1>3, <1>4

\* The next row of the chain is inserted.
LEMMA ChainGrows ==
  ASSUME TypeOK, Chained, NEW a \in Apps, Inserted(a),
         entry[a].prev = HashBefore(lastSeq + 1)
  PROVE  /\ Chained'
         /\ \A n \in 1 .. lastSeq + 1 : HashBefore(n)' = HashBefore(n)
<1>1. /\ lastSeq \in Nat /\ lastSeq + 1 \in Sequence /\ lastSeq' = lastSeq + 1
      /\ 1 .. lastSeq' = (1 .. lastSeq) \cup {lastSeq + 1}
  BY MaxRowsAssumption DEF TypeOK, Inserted, Sequence
<1>2. log'[lastSeq + 1] = NewRow(a) /\ NewRow(a) # NoRow
  BY <1>1, NewRowType, NoRowAssumption DEF Inserted, TypeOK
<1>3. \A s \in Sequence : s # lastSeq + 1 => log'[s] = log[s]
  BY <1>1 DEF Inserted, TypeOK
<1>4. \A s \in 1 .. lastSeq : s \in Sequence /\ log'[s] = log[s]
  BY <1>1, <1>3, MaxRowsAssumption DEF Sequence
<1>5. Present' = 1 .. lastSeq'
  BY <1>1, <1>2, <1>3 DEF Present, Chained
<1>6. ASSUME NEW n \in 1 .. lastSeq + 1
      PROVE  HashBefore(n)' = HashBefore(n)
  <2>1. CASE n = 1
    BY <2>1 DEF HashBefore
  <2>2. CASE n # 1
    <3>1. n - 1 \in 1 .. lastSeq
      BY <1>1, <1>6, <2>2
    <3> QED BY <1>4, <2>2, <3>1 DEF HashBefore
  <2> QED BY <2>1, <2>2
<1>7. ASSUME NEW s \in 1 .. lastSeq'
      PROVE  /\ log'[s].hash = Hash(log'[s].data, log'[s].prev)
             /\ log'[s].prev = HashBefore(s)'
  <2>1. CASE s \in 1 .. lastSeq
    <3>1. s \in 1 .. lastSeq + 1
      BY <1>1, <2>1
    <3> QED BY <1>4, <1>6, <2>1, <3>1 DEF Chained
  <2>2. CASE s = lastSeq + 1
    <3>1. s \in 1 .. lastSeq + 1
      BY <1>1, <2>2
    <3> QED BY <1>2, <1>6, <2>2, <3>1 DEF NewRow
  <2> QED BY <1>1, <2>1, <2>2
<1> QED BY <1>5, <1>6, <1>7 DEF Chained

LEMMA ChainInvNext ==
  ASSUME Alone, "read" \notin Faults, ChainInv, [Next]_vars
  PROVE  ChainInv'
<1> SUFFICES ASSUME ~damaged'
             PROVE  Chained' /\ Continues' /\ HonestLogIsAccepted'
  BY IndInvNext DEF ChainInv
<1>0. TypeOK /\ CursorInRange
  BY DEF ChainInv, IndInv
<1>t. /\ lastSeq \in Nat
      /\ \A a \in Apps : check[a].next \in Nat \ {0} /\ check[a].total \in Nat
  BY <1>0, MaxRowsAssumption DEF TypeOK
<1>d. ~damaged
  BY <1>0 DEF Next, Step, Login, Restart, EndAppend, Inserted, BeginAppend,
              BeginVerify, VerifyRow, CloseReport, Damage, vars, table
<1>i. Chained /\ Continues /\ HonestLogIsAccepted
  BY <1>d DEF ChainInv
<1>h. \A a \in Apps : page[a] # "broken"
  BY <1>d, <1>i DEF HonestLogIsAccepted
<1>s. UNCHANGED table => Chained' /\ \A n \in Nat : HashBefore(n)' = HashBefore(n)
  BY <1>i DEF Chained, HashBefore, Present, table
<1>1. ASSUME NEW a \in Apps, Login(a) \/ Restart(a) \/ CloseReport(a)
      PROVE  Chained' /\ Continues' /\ HonestLogIsAccepted'
  <2>1. UNCHANGED table
    BY <1>1 DEF Login, Restart, CloseReport
  <2>2. \A b \in Apps : /\ page'[b] # "broken"
                        /\ page'[b] \in {"append", "verify"} =>
                             /\ page'[b] = page[b] /\ check'[b] = check[b]
                             /\ entry'[b] = entry[b]
    BY <1>0, <1>1, <1>h DEF Login, Restart, CloseReport, Goto, TypeOK
  <2>3. Continues' /\ HonestLogIsAccepted'
    BY <1>i, <1>s, <1>t, <2>1, <2>2 DEF Continues, HonestLogIsAccepted, table
  <2> QED BY <1>s, <2>1, <2>3
<1>2. ASSUME NEW a \in Apps, NEW data \in Data, BeginAppend(a, data)
      PROVE  Chained' /\ Continues' /\ HonestLogIsAccepted'
  <2>1. UNCHANGED table /\ UNCHANGED check
    BY <1>2 DEF BeginAppend
  <2>2. entry' = [entry EXCEPT ![a] = [data |-> data, prev |-> LastEntryHash]]
    BY <1>2 DEF BeginAppend, IfReadFails
  <2>3. entry'[a].prev = HashBefore(lastSeq + 1)
    BY <1>0, <1>i, <2>2, QueriesOnChain DEF TypeOK
  <2>4. \A b \in Apps : page'[b] = "append"
    BY <1>0, <1>2 DEF BeginAppend, Goto, TypeOK, Alone
  <2>5. \A b \in Apps : entry'[b].prev = HashBefore(lastSeq + 1)
    BY <2>3 DEF Alone
  <2>6. Continues' /\ HonestLogIsAccepted'
    BY <1>s, <1>t, <2>1, <2>4, <2>5 DEF Continues, HonestLogIsAccepted, table
  <2> QED BY <1>s, <2>1, <2>6
<1>3. ASSUME NEW a \in Apps, EndAppend(a)
      PROVE  Chained' /\ Continues' /\ HonestLogIsAccepted'
  <2>1. \A b \in Apps : page'[b] = "idle"
    BY <1>0, <1>3 DEF EndAppend, Goto, TypeOK, Alone
  <2>2. Continues' /\ HonestLogIsAccepted'
    BY <2>1 DEF Continues, HonestLogIsAccepted
  <2>3. CASE Inserted(a)
    <3>1. entry[a].prev = HashBefore(lastSeq + 1)
      BY <1>3, <1>i DEF EndAppend, Continues
    <3> QED BY <1>0, <1>i, <2>2, <2>3, <3>1, ChainGrows
  <2> QED BY <1>3, <1>s, <2>2, <2>3 DEF EndAppend
<1>4. ASSUME NEW a \in Apps, BeginVerify(a)
      PROVE  Chained' /\ Continues' /\ HonestLogIsAccepted'
  <2>1. UNCHANGED table /\ UNCHANGED entry
    BY <1>4 DEF BeginVerify
  <2>2. PICK total \in 0 .. MaxRows :
          /\ total \in {Count} \cup IfReadFails(0)
          /\ page' = [page EXCEPT ![a] = IF total = 0 THEN "valid" ELSE "verify"]
          /\ check' = [check EXCEPT ![a] = [total |-> total, next |-> 1,
                                            expected |-> NoHash]]
    BY <1>0, <1>4, BeginVerifyStep
  <2>3. total = lastSeq
    BY <1>0, <1>i, <2>2, QueriesOnChain DEF IfReadFails
  <2>4. \A b \in Apps : /\ page'[b] \in {"valid", "verify"}
                        /\ check'[b] = [total |-> lastSeq, next |-> 1,
                                        expected |-> NoHash]
    BY <1>0, <2>2, <2>3 DEF TypeOK, Alone
  <2>5. HashBefore(1)' = NoHash /\ lastSeq' = lastSeq
    BY <2>1 DEF HashBefore, table
  <2>6. Continues' /\ HonestLogIsAccepted'
    BY <1>t, <2>4, <2>5 DEF Continues, HonestLogIsAccepted
  <2> QED BY <1>s, <2>1, <2>6
<1>5. ASSUME NEW a \in Apps, VerifyRow(a)
      PROVE  Chained' /\ Continues' /\ HonestLogIsAccepted'
  <2>0. PICK n \in Nat \ {0} : n = check[a].next
    BY <1>t
  <2>1. UNCHANGED table /\ UNCHANGED entry
    BY <1>5 DEF VerifyRow
  <2>2. n \in 1 .. lastSeq /\ check[a].expected = HashBefore(n)
    <3>1. page[a] = "verify"
      BY <1>5 DEF VerifyRow
    <3>2. n <= check[a].total /\ check[a].total <= lastSeq
          /\ check[a].expected = HashBefore(n)
      BY <1>0, <1>i, <2>0, <3>1 DEF CursorInRange, Continues
    <3> QED BY <1>t, <2>0, <3>2
  <2>3. log[n] # NoRow /\ RowVerifies(a, log[n])
    BY <1>i, <2>0, <2>2 DEF Chained, Present, RowVerifies
  <2>4. /\ check' = [check EXCEPT ![a] = [total |-> check[a].total,
                                          next |-> n + 1,
                                          expected |-> log[n].hash]]
        /\ page' = [page EXCEPT ![a] = IF n = check[a].total
                                         THEN "valid" ELSE "verify"]
    BY <1>0, <1>5, <2>0, <2>3, VerifyRowStep
  <2>5. HashBefore(n + 1)' = log[n].hash
    BY <1>s, <2>1, HashAfter
  <2>6. \A b \in Apps : /\ page'[b] \in {"valid", "verify"}
                        /\ check'[b] = [total |-> check[a].total, next |-> n + 1,
                                        expected |-> log[n].hash]
    BY <1>0, <2>4 DEF TypeOK, Alone
  <2>7. check[a].total <= lastSeq'
    <3>1. check[a].total <= lastSeq
      BY <1>5, <1>i DEF VerifyRow, Continues
    <3> QED BY <2>1, <3>1 DEF table
  <2>8. Continues' /\ HonestLogIsAccepted'
    BY <2>5, <2>6, <2>7 DEF Continues, HonestLogIsAccepted
  <2> QED BY <1>s, <2>1, <2>8
<1>6. ASSUME NEW s \in Sequence, NEW data \in Data, Damage(s, data)
      PROVE  FALSE
  BY <1>6 DEF Damage
<1>7. CASE UNCHANGED vars
  <2>1. Continues' /\ HonestLogIsAccepted'
    BY <1>7, <1>i, <1>s, <1>t, <1>h DEF vars, table, Continues, HonestLogIsAccepted
  <2> QED BY <1>7, <1>s, <2>1 DEF vars
<1> QED BY <1>1, <1>2, <1>3, <1>4, <1>5, <1>6, <1>7 DEF Next, Step

\* A log written by one process whose reads of the table succeed always
\* verifies, although inserts may fail and the process may die anywhere.
THEOREM HonestLogVerifies ==
  ASSUME Alone, "read" \notin Faults
  PROVE  Spec => []HonestLogIsAccepted
<1>1. Init => ChainInv
  <2> SUFFICES ASSUME Init PROVE ChainInv
    OBVIOUS
  <2>1. IndInv
    BY TypeInit DEF Init, IndInv, CursorInRange
  <2>2. lastSeq = 0 /\ Present = {} /\ \A a \in Apps : page[a] = "idle"
    BY DEF Init, Present
  <2> QED BY <2>1, <2>2 DEF ChainInv, Chained, Continues, HonestLogIsAccepted
<1>2. ChainInv => HonestLogIsAccepted
  BY DEF ChainInv, HonestLogIsAccepted
<1> QED BY <1>1, <1>2, ChainInvNext, PTL DEF Spec
=============================================================================
