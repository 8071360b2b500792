---------------------------- MODULE SessionProofs ----------------------------
(***************************************************************************)
(* Theorems about Session, for every auto-lock interval, any depth of      *)
(* dialogs and any number of wrong passwords and changes.                  *)
(***************************************************************************)
EXTENDS Session, TLAPS

(***************************************************************************)
(* The stack of dialogs                                                    *)
(***************************************************************************)
LEMMA OffIsAWait == Off \in Off .. 30
BY DEF Off

LEMMA DelayType == \A n \in Nat : Delay(n) \in Off .. 30
BY DEF Delay, Off

LEMMA WindowType == \A kind \in Kinds : Window(kind) \in Windows
BY BoundsAssumption DEF Window, Windows, Off

LEMMA BelowType ==
  ASSUME windows \in Seq(Windows), windows # <<>>
  PROVE  Below \in Seq(Windows) /\ Top \in Windows
BY DEF Below, Top

LEMMA AskType ==
  ASSUME NEW stack \in Seq(Windows), NEW kind \in Kinds, Ask(stack, kind)
  PROVE  windows' \in Seq(Windows)
BY WindowType DEF Ask

LEMMA PushType ==
  ASSUME windows \in Seq(Windows), NEW kind \in Kinds, Push(kind)
  PROVE  windows' \in Seq(Windows)
BY WindowType DEF Push

LEMMA OlderType == \A w \in Windows : Older(w) \in Windows
<1> SUFFICES ASSUME NEW w \in Windows PROVE Older(w) \in Windows
  OBVIOUS
<1>1. (IF w.wait > 0 THEN w.wait - 1 ELSE w.wait) \in Off .. 30
  BY DEF Windows, Off
<1>2. Later(w.age, AgeCounted) \in Nat
  BY DEF Windows, Later
<1> QED BY <1>1, <1>2 DEF Older, Windows

(***************************************************************************)
(* Types                                                                   *)
(***************************************************************************)
LEMMA ZeroIsCounted ==
  AutoLock \in Nat /\ AutoLock > 0 /\ 0 \in 0 .. AutoLock + 1 /\ 0 \in 0 .. MaxChanges
<1>1. AutoLock \in Nat /\ AutoLock > 0
  BY AutoLockAssumption
<1> QED BY <1>1, BoundsAssumption

LEMMA LaterType ==
  ASSUME NEW x \in 0 .. AutoLock + 1
  PROVE  Later(x, AutoLock + 1) \in 0 .. AutoLock + 1
BY AutoLockAssumption DEF Later

LEMMA SessionTypes ==
  ASSUME TypeOK, StateLogin \/ StateLock \/ StateLogout \/ UpdateActivity \/ UNCHANGED session
  PROVE  /\ loggedIn' \in BOOLEAN /\ locked' \in BOOLEAN /\ idle' \in 0 .. AutoLock + 1
         /\ ticking' \in BOOLEAN /\ due' \in BOOLEAN /\ shown' \in BOOLEAN
<1> USE ZeroIsCounted DEF TypeOK
<1>1. CASE StateLogin
  BY <1>1 DEF StateLogin
<1>2. CASE StateLock
  BY <1>2 DEF StateLock
<1>3. CASE StateLogout
  BY <1>3 DEF StateLogout
<1>4. CASE UpdateActivity
  BY <1>4 DEF UpdateActivity
<1>5. CASE UNCHANGED session
  BY <1>5 DEF session
<1> QED BY <1>1, <1>2, <1>3, <1>4, <1>5

LEMMA GoneTypes ==
  ASSUME TypeOK, Gone, UNCHANGED changes
  PROVE  TypeOK'
<1>1. <<>> \in Seq(Windows)
  OBVIOUS
<1> QED BY <1>1, ZeroIsCounted DEF TypeOK, Gone

LEMMA TypeInit == Init => TypeOK
<1>1. <<>> \in Seq(Windows)
  OBVIOUS
<1> QED BY <1>1, ZeroIsCounted DEF Init, TypeOK

LEMMA KindsOfWindows ==
  /\ {"startup", "login", "confirm", "notice", "entry", "delete", "import", "export", "change"} = Kinds
  /\ LoginKinds \subseteq Kinds
BY DEF Kinds, LoginKinds

LEMMA TypeStep ==
  ASSUME TypeOK, [Next]_vars
  PROVE  TypeOK'
<1> USE DEF TypeOK
<1>1. CASE Start
  BY <1>1, PushType, KindsOfWindows DEF Start, session
<1>2. CASE Exit
  BY <1>2, GoneTypes DEF Exit
<1>3. CASE WrongPassword
  <2>1. windows # <<>> /\ Top.failures + 1 \in 0 .. MaxFailures
    BY <1>3, BelowType, BoundsAssumption DEF WrongPassword, CanTry, OnTop, Windows
  <2>2. Delay(Top.failures + 1) \in Off .. 30
    BY <2>1, DelayType
  <2>3. Len(windows) \in DOMAIN windows /\ Top \in Windows
    BY <2>1, BelowType
  <2> DEFINE w == [Top EXCEPT !.failures = Top.failures + 1, !.wait = Delay(Top.failures + 1)]
  <2>4. w \in Windows
    BY <2>1, <2>2, <2>3 DEF Windows
  <2>5. windows' = [windows EXCEPT ![Len(windows)] = w]
    BY <1>3, <2>3 DEF WrongPassword, Top
  <2>6. windows' \in Seq(Windows)
    BY <2>3, <2>4, <2>5
  <2> QED BY <1>3, <2>6 DEF WrongPassword, session
<1>4. CASE RightPassword
  BY <1>4, BelowType, SessionTypes DEF RightPassword, CanTry, OnTop
<1>5. CASE SaltMissing
  <2>1. CASE Gone /\ UNCHANGED changes
    BY <2>1, GoneTypes
  <2>2. CASE windows # <<>> /\ windows' = Below /\ UNCHANGED <<up, session, key, changes>>
    BY <2>2, BelowType DEF session
  <2> QED BY <1>5, <2>1, <2>2 DEF SaltMissing, CanTry, OnTop
<1>6. CASE CancelLogin
  <2>1. CASE Gone /\ UNCHANGED changes
    BY <2>1, GoneTypes
  <2>2. CASE windows # <<>> /\ windows' = Below /\ UNCHANGED <<up, session, key, changes>>
    BY <2>2, BelowType DEF session
  <2> QED BY <1>6, <2>1, <2>2 DEF CancelLogin, OnTop
<1>7. ASSUME NEW i \in DOMAIN windows, BackoffEnds(i) PROVE TypeOK'
  <2>0. windows[i] \in Windows
    BY <1>7
  <2>1. [windows[i] EXCEPT !.wait = Off] \in Windows
    BY <2>0, OffIsAWait DEF Windows
  <2>2. windows' \in Seq(Windows)
    BY <1>7, <2>1 DEF BackoffEnds
  <2> QED BY <1>7, <2>2 DEF BackoffEnds, session
<1>8. ASSUME NEW kind \in {"entry", "delete"}, OpenEntryWindow(kind) PROVE TypeOK'
  <2>1. kind \in Kinds /\ "login" \in Kinds
    BY KindsOfWindows
  <2>2. windows' \in Seq(Windows)
    BY <1>8, <2>1, PushType, AskType DEF OpenEntryWindow
  <2> QED BY <1>8, <2>2, SessionTypes DEF OpenEntryWindow
<1>9. ASSUME NEW kind \in {"import", "export"}, OpenExchange(kind) PROVE TypeOK'
  BY <1>9, KindsOfWindows, PushType DEF OpenExchange, session
<1>10. CASE OpenChangePassword
  BY <1>10, KindsOfWindows, PushType, SessionTypes DEF OpenChangePassword
<1>11. CASE Lock
  BY <1>11, KindsOfWindows, AskType, SessionTypes DEF Lock
<1>12. CASE CloseWindow
  BY <1>12, BelowType DEF CloseWindow, OnTop, session
<1>13. CASE SaveEntry \/ ConfirmDelete \/ RunImport
  BY <1>13, BelowType, BoundsAssumption
     DEF SaveEntry, ConfirmDelete, RunImport, Change, OnTop, session
<1>14. CASE ConfirmExport
  BY <1>14, KindsOfWindows, AskType DEF ConfirmExport, session
<1>15. CASE ExportConfirmed
  BY <1>15, BelowType DEF ExportConfirmed, CanTry, OnTop, session
<1>16. CASE AcceptChange
  BY <1>16, KindsOfWindows, BelowType, AskType, SessionTypes DEF AcceptChange, OnTop
<1>17. CASE Tick
  <2>1. windows' \in Seq(Windows)
    BY <1>17, OlderType DEF Tick
  <2>2. idle' \in 0 .. AutoLock + 1
    BY <1>17, LaterType DEF Tick
  <2> QED BY <1>17, <2>1, <2>2 DEF Tick
<1>18. CASE TimerFires
  <2>1. CASE StateLock /\ Push("notice") /\ UNCHANGED <<up, key, changes>>
    BY <2>1, KindsOfWindows, PushType, SessionTypes
  <2> QED BY <1>18, <2>1 DEF TimerFires
<1>19. CASE CloseNotice
  BY <1>19, KindsOfWindows, BelowType, AskType DEF CloseNotice, OnTop, session
<1>20. CASE UNCHANGED vars
  BY <1>20 DEF vars, session
<1> QED
  BY <1>1, <1>2, <1>3, <1>4, <1>5, <1>6, <1>7, <1>8, <1>9, <1>10, <1>11, <1>12,
     <1>13, <1>14, <1>15, <1>16, <1>17, <1>18, <1>19, <1>20 DEF Next

\* Every state of the session is well-typed: StateManager's flags, its timer
\* and every dialog of the stack, however deep.
THEOREM TypeCorrect == Spec => []TypeOK
<1>1. Init => TypeOK
  BY TypeInit
<1>2. TypeOK /\ [Next]_vars => TypeOK'
  BY TypeStep
<1> QED BY <1>1, <1>2, PTL DEF Spec

(***************************************************************************)
(* The timer of an unlocked session                                        *)
(***************************************************************************)
\* An unlocked session has its timer running and its table visible, and when
\* the last second has passed the timeout is due.
SessionInv ==
  /\ shown <=> Unlocked
  /\ Unlocked => /\ ticking
                 /\ idle <= AutoLock
                 /\ idle = AutoLock => due

\* What StateManager does to the session keeps it.
LEMMA StateKeepsInv ==
  ASSUME TypeOK, SessionInv,
         Gone \/ StateLogin \/ StateLock \/ StateLogout \/ UpdateActivity \/ UNCHANGED session
  PROVE  SessionInv'
<1> USE ZeroIsCounted DEF SessionInv, Unlocked, TypeOK
<1>1. CASE Gone
  BY <1>1 DEF Gone
<1>2. CASE StateLogin
  BY <1>2 DEF StateLogin
<1>3. CASE StateLock
  BY <1>3 DEF StateLock
<1>4. CASE StateLogout
  BY <1>4 DEF StateLogout
<1>5. CASE UpdateActivity
  BY <1>5 DEF UpdateActivity
<1>6. CASE UNCHANGED session
  BY <1>6 DEF session
<1> QED BY <1>1, <1>2, <1>3, <1>4, <1>5, <1>6

LEMMA SessionStep ==
  ASSUME TypeOK, SessionInv, [Next]_vars
  PROVE  SessionInv'
<1>1. CASE Tick
  BY <1>1, ZeroIsCounted DEF Tick, Later, SessionInv, Unlocked, TypeOK
<1>2. CASE TimerFires
  <2>1. CASE Unlocked /\ idle >= AutoLock
    BY <1>2, <2>1, StateKeepsInv DEF TimerFires
  <2>2. CASE ~(Unlocked /\ idle >= AutoLock)
    BY <1>2, <2>2, ZeroIsCounted DEF TimerFires, SessionInv, Unlocked, TypeOK
  <2> QED BY <2>1, <2>2
<1>3. CASE Next /\ ~Tick /\ ~TimerFires
  <2>1. Gone \/ StateLogin \/ StateLock \/ StateLogout \/ UpdateActivity \/ UNCHANGED session
    BY <1>3, Zenon
       DEF Next, Start, Exit, WrongPassword, RightPassword, SaltMissing, CancelLogin,
           BackoffEnds, OpenEntryWindow, OpenExchange, OpenChangePassword, Lock,
           CloseWindow, SaveEntry, ConfirmDelete, RunImport, Change, ConfirmExport,
           ExportConfirmed, AcceptChange, CloseNotice
  <2> QED BY <2>1, StateKeepsInv
<1>4. CASE UNCHANGED vars
  BY <1>4, StateKeepsInv DEF vars
<1> QED BY <1>1, <1>2, <1>3, <1>4

LEMMA SessionInvariant == Spec => []SessionInv
<1>1. Init => SessionInv
  BY DEF Init, SessionInv, Unlocked
<1>2. TypeOK /\ SessionInv /\ [Next]_vars => SessionInv'
  BY SessionStep
<1> QED BY <1>1, <1>2, TypeCorrect, PTL DEF Spec

\* For every auto-lock interval and whatever dialogs are open, an unlocked
\* session has never been idle for longer.
THEOREM IdleIsBounded == Spec => []SessionExpires
<1>1. SessionInv => SessionExpires
  BY DEF SessionInv, SessionExpires
<1> QED BY <1>1, SessionInvariant, PTL

\* MainWindow shows the entries exactly in an unlocked session.
THEOREM TableIsInStep == Spec => []TableFollowsSession
<1>1. SessionInv => TableFollowsSession
  BY DEF SessionInv, TableFollowsSession
<1> QED BY <1>1, SessionInvariant, PTL

(***************************************************************************)
(* The backoff                                                             *)
(***************************************************************************)
LEMMA MinAgeGrows ==
  /\ \A n \in Nat : MinAge(n) \in Nat
  /\ \A n \in Nat : MinAge(n + 1) = MinAge(n) + (IF n = 0 THEN 0 ELSE Delay(n))
BY DEF MinAge, Delay

LEMMA MinAgeIsMonotone == \A m, n \in Nat : m <= n => MinAge(m) <= MinAge(n)
BY DEF MinAge

\* A dialog is old enough for its wrong passwords, and for one more when the
\* delay that is left is over.
Waits(w) ==
  /\ w.age >= MinAge(w.failures)
  /\ w.failures < MaxFailures =>
       IF w.wait = Off THEN w.age >= MinAge(w.failures + 1)
                       ELSE w.age + w.wait >= MinAge(w.failures + 1)

Patient == \A i \in DOMAIN windows : Waits(windows[i])

LEMMA NewWaits == \A kind : Waits(Window(kind))
<1>1. MinAge(0) = 0 /\ MinAge(1) = 0
  BY DEF MinAge
<1> QED BY <1>1 DEF Waits, Window

\* What a step does to the stack of dialogs.
Opened == \E kind \in Kinds : windows' = Append(windows, Window(kind))
Left == windows # <<>> /\ windows' = Below
Exchanged == windows # <<>> /\ \E kind \in Kinds : windows' = Append(Below, Window(kind))
StackStep == windows' = windows \/ windows' = <<>> \/ Opened \/ Left \/ Exchanged

LEMMA StackIsPatient ==
  ASSUME TypeOK, Patient, StackStep
  PROVE  Patient'
<1> USE NewWaits DEF Patient
<1>0. windows \in Seq(Windows) /\ \A kind \in Kinds : Window(kind) \in Windows
  BY WindowType DEF TypeOK
<1>1. CASE windows' = windows
  BY <1>1
<1>2. CASE windows' = <<>>
  BY <1>2
<1>3. CASE Opened
  <2>1. PICK kind \in Kinds : windows' = Append(windows, Window(kind))
    BY <1>3 DEF Opened
  <2>2. \A i \in DOMAIN windows' : i \in DOMAIN windows \/ i = Len(windows) + 1
    BY <2>1, <1>0
  <2>3. windows'[Len(windows) + 1] = Window(kind)
    BY <2>1, <1>0
  <2>4. \A i \in DOMAIN windows : windows'[i] = windows[i]
    BY <2>1, <1>0
  <2> QED BY <2>2, <2>3, <2>4
<1>4. CASE Left
  <2>1. DOMAIN Below \subseteq DOMAIN windows /\ \A i \in DOMAIN Below : Below[i] = windows[i]
    BY <1>4, <1>0 DEF Left, Below
  <2> QED BY <1>4, <2>1 DEF Left
<1>5. CASE Exchanged
  <2>1. PICK kind \in Kinds : windows' = Append(Below, Window(kind))
    BY <1>5 DEF Exchanged
  <2>2. /\ Below \in Seq(Windows)
        /\ DOMAIN Below \subseteq DOMAIN windows /\ \A i \in DOMAIN Below : Below[i] = windows[i]
    BY <1>5, <1>0 DEF Exchanged, Below
  <2>3. \A i \in DOMAIN windows' : i \in DOMAIN Below \/ i = Len(Below) + 1
    BY <2>1, <2>2, <1>0
  <2>4. windows'[Len(Below) + 1] = Window(kind)
    BY <2>1, <2>2, <1>0
  <2>5. \A i \in DOMAIN Below : windows'[i] = Below[i]
    BY <2>1, <2>2, <1>0
  <2> QED BY <2>2, <2>3, <2>4, <2>5
<1> QED BY <1>1, <1>2, <1>3, <1>4, <1>5 DEF StackStep

LEMMA AskIsStackStep ==
  ASSUME NEW kind \in Kinds, \/ Ask(windows, kind)
                             \/ windows # <<>> /\ Ask(Below, kind)
  PROVE  StackStep
BY DEF Ask, StackStep, Opened, Left, Exchanged

LEMMA WrongPasswordIsPatient ==
  ASSUME TypeOK, Patient, WrongPassword
  PROVE  Patient'
<1> DEFINE n == Top.failures + 1
           w == [Top EXCEPT !.failures = n, !.wait = Delay(n)]
<1>1. windows \in Seq(Windows) /\ windows # <<>> /\ Top.wait = Off /\ Top.failures < MaxFailures
  BY DEF TypeOK, WrongPassword, CanTry, OnTop
<1>2. Len(windows) \in DOMAIN windows /\ Top = windows[Len(windows)] /\ Top \in Windows
  BY <1>1 DEF Top
<1>3. Top.failures \in Nat /\ n \in Nat /\ n # 0 /\ Top.age \in Nat
  BY <1>2 DEF Windows
<1>4. Top.age >= MinAge(n)
  BY <1>1, <1>2 DEF Patient, Waits
<1>5. w.failures = n /\ w.wait = Delay(n) /\ w.age = Top.age
  BY <1>2 DEF Windows
<1>6. Delay(n) # Off /\ Delay(n) \in Nat
  BY DEF Delay, Off
<1>7. Top.age + Delay(n) >= MinAge(n + 1)
  <2>1. MinAge(n + 1) = MinAge(n) + Delay(n) /\ MinAge(n) \in Nat
    BY <1>3, MinAgeGrows
  <2> QED BY <2>1, <1>3, <1>4, <1>6
<1>8. Waits(w)
  BY <1>4, <1>5, <1>6, <1>7 DEF Waits
<1>9. windows' = [windows EXCEPT ![Len(windows)] = w]
  BY <1>2 DEF WrongPassword
<1> QED BY <1>1, <1>2, <1>8, <1>9 DEF Patient

\* The age stops at the bound, which no dialog below it exceeds.
LEMMA OlderWaits ==
  ASSUME NEW w \in Windows, Waits(w), w.wait # 0
  PROVE  Waits(Older(w))
<1> DEFINE v == Older(w)
<1>1. w.age \in Nat /\ w.failures \in 0 .. MaxFailures /\ w.failures \in Nat /\ w.wait \in Off .. 30
  BY BoundsAssumption DEF Windows
<1>2. /\ v.failures = w.failures
      /\ v.wait = IF w.wait > 0 THEN w.wait - 1 ELSE w.wait
      /\ v.age = IF w.age < AgeCounted THEN w.age + 1 ELSE w.age
  BY DEF Older, Later, Windows
<1>3. MinAge(w.failures) \in Nat /\ MinAge(w.failures + 1) \in Nat /\ AgeCounted \in Nat
  BY <1>1, MinAgeGrows, BoundsAssumption DEF AgeCounted
<1>4. v.age >= MinAge(w.failures)
  BY <1>1, <1>2, <1>3 DEF Waits
<1>5. ASSUME w.failures < MaxFailures
      PROVE  IF v.wait = Off THEN v.age >= MinAge(w.failures + 1)
                             ELSE v.age + v.wait >= MinAge(w.failures + 1)
  <2>1. MinAge(w.failures + 1) <= AgeCounted
    BY <1>1, <1>5, MinAgeIsMonotone, BoundsAssumption DEF AgeCounted
  <2>2. CASE w.wait = Off
    BY <1>1, <1>2, <1>3, <1>5, <2>2 DEF Waits, Off
  <2>3. CASE w.wait > 0
    BY <1>1, <1>2, <1>3, <1>5, <2>1, <2>3 DEF Waits, Off
  <2> QED BY <1>1, <2>2, <2>3 DEF Off
<1> QED BY <1>2, <1>4, <1>5 DEF Waits

LEMMA PatientStep ==
  ASSUME TypeOK, Patient, [Next]_vars
  PROVE  Patient'
<1>1. CASE WrongPassword
  BY <1>1, WrongPasswordIsPatient
<1>2. ASSUME NEW i \in DOMAIN windows, BackoffEnds(i) PROVE Patient'
  <2>1. windows \in Seq(Windows) /\ windows[i] \in Windows /\ windows[i].wait = 0 /\ Waits(windows[i])
    BY <1>2 DEF TypeOK, BackoffEnds, Patient
  <2> DEFINE w == [windows[i] EXCEPT !.wait = Off]
  <2>2. w.failures = windows[i].failures /\ w.age = windows[i].age /\ w.wait = Off
    BY <2>1 DEF Windows
  <2>3. Waits(w)
    <3>1. windows[i].age \in Nat
      BY <2>1 DEF Windows
    <3> QED BY <2>1, <2>2, <3>1 DEF Waits, Off
  <2>4. windows' = [windows EXCEPT ![i] = w]
    BY <1>2 DEF BackoffEnds
  <2> QED BY <2>1, <2>3, <2>4 DEF Patient
<1>3. CASE Tick
  <2>1. \A i \in DOMAIN windows : windows[i] \in Windows /\ windows[i].wait # 0
    BY <1>3 DEF TypeOK, Tick
  <2>2. windows' = [i \in DOMAIN windows |-> Older(windows[i])]
    BY <1>3 DEF Tick
  <2> QED BY <2>1, <2>2, OlderWaits DEF Patient
<1>4. CASE StackStep
  BY <1>4, StackIsPatient
<1>5. CASE Next /\ ~WrongPassword /\ ~Tick /\ ~(\E i \in DOMAIN windows : BackoffEnds(i))
  <2> SUFFICES StackStep
    BY <1>4
  <2> USE KindsOfWindows DEF StackStep, Opened, Left, Push, OnTop
  <2>1. CASE Start
    BY <2>1 DEF Start
  <2>2. CASE Exit
    BY <2>2 DEF Exit, Gone
  <2>3. CASE RightPassword \/ SaltMissing \/ CancelLogin
    BY <2>3 DEF RightPassword, SaltMissing, CancelLogin, CanTry, Gone
  <2>4. CASE \E kind \in {"entry", "delete"} : OpenEntryWindow(kind)
    BY <2>4, AskIsStackStep DEF OpenEntryWindow
  <2>5. CASE \E kind \in {"import", "export"} : OpenExchange(kind)
    BY <2>5 DEF OpenExchange
  <2>6. CASE OpenChangePassword
    BY <2>6 DEF OpenChangePassword
  <2>7. CASE Lock
    BY <2>7, AskIsStackStep DEF Lock
  <2>8. CASE CloseWindow \/ SaveEntry \/ ConfirmDelete \/ RunImport \/ ExportConfirmed
    BY <2>8 DEF CloseWindow, SaveEntry, ConfirmDelete, RunImport, Change, ExportConfirmed, CanTry
  <2>9. CASE ConfirmExport
    BY <2>9, AskIsStackStep DEF ConfirmExport
  <2>10. CASE AcceptChange \/ CloseNotice
    BY <2>10, AskIsStackStep DEF AcceptChange, CloseNotice
  <2>11. CASE TimerFires
    BY <2>11 DEF TimerFires
  <2> QED
    BY <1>5, <2>1, <2>2, <2>3, <2>4, <2>5, <2>6, <2>7, <2>8, <2>9, <2>10, <2>11 DEF Next
<1>6. CASE UNCHANGED vars
  BY <1>4, <1>6 DEF vars, StackStep
<1> QED BY <1>1, <1>2, <1>3, <1>5, <1>6

\* The n-th wrong password in a login dialog comes no earlier than the delays
\* before it add up to, however many passwords and whatever dialogs were open
\* on top (LoginDialog::onLogin, onBackoffTimer).
THEOREM DelaysHold == Spec => []BackoffHolds
<1>1. Init => Patient
  BY DEF Init, Patient
<1>2. TypeOK /\ Patient /\ [Next]_vars => Patient'
  BY PatientStep
<1>3. Patient => BackoffHolds
  BY DEF Patient, Waits, BackoffHolds
<1> QED BY <1>1, <1>2, <1>3, TypeCorrect, PTL DEF Spec
=============================================================================
