--------------------------- MODULE ClipboardProofs ---------------------------
(***************************************************************************)
(* Theorems about Clipboard, for all intervals and any number of copies.   *)
(***************************************************************************)
EXTENDS Clipboard, TLAPS

USE DEF Off, Countdown

LEMMA OffInCountdown == Off \in Countdown /\ Off \in Off .. SavePeriod
BY IntervalAssumption

\* One second less stays in the range of the countdown.
LEMMA OneLessType ==
  /\ \A t \in Countdown : OneLess(t) \in Countdown
  /\ \A t \in Off .. SavePeriod : OneLess(t) \in Off .. SavePeriod
  /\ \A t \in 0 .. MaxTimeout : OneLess(t) \in 0 .. MaxTimeout
BY IntervalAssumption DEF OneLess

\* What getRemainingSeconds returns can be saved, and restored as an interval.
LEMMA RemainingType ==
  ASSUME TypeOK
  PROVE  RemainingSeconds \subseteq 0 .. MaxTimeout
<1> USE IntervalAssumption DEF TypeOK
<1>1. CASE timer = Off
  BY <1>1 DEF RemainingSeconds
<1>2. ASSUME timer # Off, NEW left \in RemainingSeconds
      PROVE  left \in 0 .. MaxTimeout
  <2>1. PICK r \in {interval - age, interval - age - 1} :
          left = IF r > 0 THEN r ELSE 0
    BY <1>2, Zenon DEF RemainingSeconds
  <2>2. r \in Int /\ r <= MaxTimeout
    OBVIOUS
  <2> QED BY <2>1, <2>2
<1> QED BY <1>1, <1>2

LEMMA SaveType ==
  ASSUME TypeOK, NEW s \in 0 .. MaxTimeout, Save(s)
  PROVE  saved' \in 0 .. MaxTimeout
BY DEF TypeOK, Save, IfDbFails

LEMMA TypeInit == Init => TypeOK
<1>1. /\ DefaultTimeout \in 0 .. MaxTimeout
      /\ 0 \in 0 .. MaxTimeout
      /\ 0 \in 0 .. MaxCopies
  BY IntervalAssumption, CopiesAssumption
<1> SUFFICES ASSUME Init PROVE TypeOK
  OBVIOUS
<1>2. timer \in Countdown /\ promised \in Countdown /\ saveTimer \in Off .. SavePeriod
  BY OffInCountdown DEF Init
<1> QED BY <1>1, <1>2 DEF Init, TypeOK

LEMMA TypeUser ==
  ASSUME TypeOK, User
  PROVE  TypeOK'
<1> USE DEF TypeOK, settingsTable, timers
<1>0. /\ DefaultTimeout \in 0 .. MaxTimeout
      /\ 0 \in 0 .. MaxTimeout
      /\ SavePeriod \in Off .. SavePeriod
      /\ 0 \in 0 .. MaxCopies
  BY IntervalAssumption, CopiesAssumption
<1>1. CASE Start
  <2>1. PICK left \in {saved} \cup IfDbFails(0) :
          IF left > 0
            THEN /\ interval' = left
                 /\ timer' = left
                 /\ saveTimer' = SavePeriod
                 /\ Save(0)
            ELSE /\ interval' = DefaultTimeout
                 /\ UNCHANGED <<timer, saveTimer, saved>>
    BY <1>1 DEF Start
  <2>2. left \in 0 .. MaxTimeout
    BY <1>0 DEF IfDbFails
  <2>3. /\ interval' \in 0 .. MaxTimeout /\ timer' \in Countdown
        /\ saveTimer' \in Off .. SavePeriod /\ saved' \in 0 .. MaxTimeout
    BY <1>0, <2>1, <2>2, SaveType
  <2> QED BY <1>0, <1>1, <2>3 DEF Start
<1>2. CASE Login
  BY <1>2 DEF Login
<1>3. CASE Lock
  BY <1>0, <1>3, OffInCountdown, SaveType DEF Lock, Clear
<1>4. CASE Exit
  <2>1. clip' \in 0 .. MaxCopies /\ saved' \in 0 .. MaxTimeout
    BY <1>0, <1>4, SaveType DEF Exit
  <2> QED BY <1>0, <1>4, <2>1, OffInCountdown DEF Exit, Gone
<1>5. CASE ChangeSettings
  BY <1>0, <1>5, IntervalAssumption DEF ChangeSettings, IfDbFails
<1>6. CASE CopyText
  <2>1. copies' \in 0 .. MaxCopies /\ clip' \in 0 .. MaxCopies
    BY <1>6, CopiesAssumption DEF CopyText
  <2>2. timer' \in Countdown /\ promised' \in Countdown
    <3>1. CASE interval > 0
      BY <1>6, <3>1 DEF CopyText
    <3>2. CASE ~(interval > 0)
      BY <1>6, <3>2, OffInCountdown DEF CopyText
    <3> QED BY <3>1, <3>2
  <2>3. warnings' \subseteq 0 .. MaxTimeout
    BY <1>6, IntervalAssumption DEF CopyText
  <2> QED BY <1>0, <1>6, <2>1, <2>2, <2>3 DEF CopyText
<1> QED BY <1>1, <1>2, <1>3, <1>4, <1>5, <1>6 DEF User

LEMMA TypeRest ==
  ASSUME TypeOK, Outside \/ EventLoop \/ Tick
  PROVE  TypeOK'
<1> USE DEF TypeOK, settingsTable, timers
<1>0. /\ DefaultTimeout \in 0 .. MaxTimeout
      /\ 0 \in 0 .. MaxTimeout
      /\ SavePeriod \in Off .. SavePeriod
      /\ 0 \in 0 .. MaxCopies
  BY IntervalAssumption, CopiesAssumption
<1>1. CASE Crash
  BY <1>0, <1>1, OffInCountdown DEF Crash, Gone
<1>2. CASE ForeignCopy
  BY <1>0, <1>2 DEF ForeignCopy
<1>3. CASE TimerFires
  BY <1>0, <1>3, OffInCountdown, SaveType DEF TimerFires, Clear
<1>4. CASE SaveTimerFires
  <2>1. saved' \in 0 .. MaxTimeout
    BY <1>4, RemainingType, SaveType DEF SaveTimerFires
  <2> QED BY <1>0, <1>4, <2>1 DEF SaveTimerFires
<1>5. CASE WarningFires
  BY <1>5 DEF WarningFires
<1>6. CASE Tick
  <2>1. age' \in 0 .. MaxTimeout
    BY <1>6, IntervalAssumption DEF Tick
  <2>2. warnings' \subseteq 0 .. MaxTimeout
    BY <1>6, OneLessType DEF Tick
  <2> QED BY <1>6, <2>1, <2>2, OneLessType DEF Tick
<1> QED BY <1>1, <1>2, <1>3, <1>4, <1>5, <1>6 DEF Outside, EventLoop

LEMMA TypeNext == TypeOK /\ [Next]_vars => TypeOK'
<1> SUFFICES ASSUME TypeOK, [Next]_vars PROVE TypeOK'
  OBVIOUS
<1>1. CASE Next
  BY <1>1, TypeUser, TypeRest DEF Next
<1>2. CASE UNCHANGED vars
  BY <1>2 DEF vars, TypeOK, settingsTable, timers
<1> QED BY <1>1, <1>2

\* Every variable keeps its type in every behaviour; in particular no saved
\* countdown and no timer ever exceeds the longest interval.
THEOREM TypeCorrect == Spec => []TypeOK
BY TypeInit, TypeNext, PTL DEF Spec

LEMMA PromiseNext ==
  ASSUME TimerKeepsPromise, [Next]_vars
  PROVE  TimerKeepsPromise'
<1> USE DEF TimerKeepsPromise, settingsTable, timers
<1>1. CASE User
  <2>1. CASE Start
    BY <2>1 DEF Start
  <2>2. CASE Login \/ ChangeSettings
    BY <2>2 DEF Login, ChangeSettings
  <2>3. CASE Lock \/ Exit
    BY <2>3 DEF Lock, Clear, Exit, Gone
  <2>4. CASE CopyText
    BY <2>4 DEF CopyText
  <2> QED BY <1>1, <2>1, <2>2, <2>3, <2>4 DEF User
<1>2. CASE Outside
  BY <1>2 DEF Outside, Crash, ForeignCopy
<1>3. CASE EventLoop
  BY <1>3 DEF EventLoop, TimerFires, Clear, SaveTimerFires, WarningFires
<1>4. CASE Tick
  BY <1>4 DEF Tick
<1>5. CASE UNCHANGED vars
  BY <1>5 DEF vars
<1> QED BY <1>1, <1>2, <1>3, <1>4, <1>5 DEF Next

\* For all intervals and faults: a copied text that no crash has left behind is
\* on the clipboard only during the session it was copied in, and its clear
\* timer shows what was announced.
THEOREM PromiseIsKept == Spec => []TimerKeepsPromise
<1>1. Init => TimerKeepsPromise
  BY DEF Init, TimerKeepsPromise
<1>2. TimerKeepsPromise /\ [Next]_vars => TimerKeepsPromise'
  BY PromiseNext
<1> QED BY <1>1, <1>2, PTL DEF Spec
=============================================================================
