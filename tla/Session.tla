------------------------------- MODULE Session -------------------------------
(***************************************************************************)
(* The session of the main window: login, manual lock, auto-lock after     *)
(* inactivity and logout, as kept by StateManager and followed by          *)
(* MainWindow through its signals, and the backoff of the login dialog.    *)
(*                                                                         *)
(* Every dialog runs an event loop of its own inside the handler that      *)
(* opened it, so timers fire while dialogs are open and stack their own    *)
(* dialogs on top.  "windows" is that stack; the user reaches only its     *)
(* top.  The clock ticks in whole seconds, and timers that are due are     *)
(* delivered before the next second starts.                                *)
(***************************************************************************)
EXTENDS Integers, Sequences

CONSTANTS
  AutoLock,    \* seconds of inactivity until the session locks (3600)
  MaxFailures, \* bound: wrong passwords per login dialog
  MaxChanges,  \* bound: changes of the vault in a behaviour
  Faults       \* which of "db" may happen: a read of the key store fails

ASSUME AutoLockAssumption == AutoLock \in Nat \ {0}
ASSUME BoundsAssumption == MaxFailures \in Nat /\ MaxChanges \in Nat
ASSUME FaultsAssumption == Faults \subseteq {"db"}

VARIABLES
  up,       \* the program runs
  loggedIn, \* StateManager::m_isLoggedIn
  locked,   \* StateManager::m_isLocked
  idle,     \* seconds since m_lastActivity, no longer counted above AutoLock
  ticking,  \* StateManager::m_timer is active
  due,      \* its next timeout waits to be delivered
  shown,    \* MainWindow: isLoggedIn, entry table and search field visible
  key,      \* KeyManager holds the encryption key
  windows,  \* the modal dialogs, the newest last
  changes   \* changes of the vault so far

session == <<loggedIn, locked, idle, ticking, due, shown>>
vars == <<up, session, key, windows, changes>>

Unlocked == loggedIn /\ ~locked

(***************************************************************************)
(* Dialogs                                                                 *)
(***************************************************************************)
Off == -1

\* Mutant of Delay: the delay doubles without end.
DoublingDelay(n) == 2 ^ n

\* The delay in seconds after the n-th wrong password in one dialog.
Delay(n) == IF n <= 2 THEN 1 ELSE IF n <= 4 THEN 5 ELSE 30

\* The age a dialog must have before its n-th wrong password: the delays after
\* the earlier ones.
MinAge(n) ==
  IF n <= 1 THEN 0
  ELSE IF n <= 3 THEN n - 1
  ELSE IF n <= 5 THEN 2 + 5 * (n - 3)
  ELSE 12 + 30 * (n - 5)
AgeCounted == MinAge(MaxFailures)

LoginKinds == {"startup", "login", "confirm"}
Kinds == LoginKinds \cup {"notice", "entry", "delete", "import", "export", "change"}
Windows == [kind : Kinds, failures : 0 .. MaxFailures, wait : Off .. 30, age : Nat]

Window(kind) == [kind |-> kind, failures |-> 0, wait |-> Off, age |-> 0]
Top == windows[Len(windows)]
Below == SubSeq(windows, 1, Len(windows) - 1)
OnTop(kinds) == windows # <<>> /\ Top.kind \in kinds
AtMainWindow == up /\ windows = <<>>
Push(kind) == windows' = Append(windows, Window(kind))

\* showLoginDialog and confirmMasterPassword: without the stored hash there is
\* an error message and no dialog.
Ask(stack, kind) ==
  windows' \in {Append(stack, Window(kind))} \cup (IF "db" \in Faults THEN {stack} ELSE {})

TypeOK ==
  /\ up \in BOOLEAN
  /\ loggedIn \in BOOLEAN
  /\ locked \in BOOLEAN
  /\ idle \in 0 .. AutoLock + 1
  /\ ticking \in BOOLEAN
  /\ due \in BOOLEAN
  /\ shown \in BOOLEAN
  /\ key \in BOOLEAN
  /\ windows \in Seq(Windows)
  /\ changes \in 0 .. MaxChanges

(***************************************************************************)
(* StateManager, with what MainWindow does on its signals                  *)
(***************************************************************************)
\* Mutant of StateLogin: the timer is left stopped.
LoginWithoutTimer ==
  /\ loggedIn' = TRUE
  /\ locked' = FALSE
  /\ idle' = 0
  /\ due' = FALSE
  /\ shown' = TRUE
  /\ UNCHANGED ticking

\* login(): the timer starts again, LoggedIn shows the table.
StateLogin ==
  /\ loggedIn' = TRUE
  /\ locked' = FALSE
  /\ idle' = 0
  /\ ticking' = TRUE
  /\ due' = FALSE
  /\ shown' = TRUE

\* Mutant of StateLock: LoggedOut is not emitted.
LockWithoutSignal ==
  /\ locked' = TRUE
  /\ ticking' = FALSE
  /\ due' = FALSE
  /\ UNCHANGED <<loggedIn, idle, shown>>

\* lock(): the timer stops, LoggedOut hides the table.  m_isLoggedIn stays.
StateLock ==
  /\ locked' = TRUE
  /\ ticking' = FALSE
  /\ due' = FALSE
  /\ shown' = FALSE
  /\ UNCHANGED <<loggedIn, idle>>

StateLogout ==
  /\ loggedIn' = FALSE
  /\ locked' = FALSE
  /\ ticking' = FALSE
  /\ due' = FALSE
  /\ shown' = FALSE
  /\ UNCHANGED idle

\* updateActivity() counts only in an unlocked session.
UpdateActivity ==
  /\ idle' = IF Unlocked THEN 0 ELSE idle
  /\ UNCHANGED <<loggedIn, locked, ticking, due, shown>>

(***************************************************************************)
(* Start and exit                                                          *)
(***************************************************************************)
Gone ==
  /\ up' = FALSE
  /\ loggedIn' = FALSE
  /\ locked' = FALSE
  /\ idle' = 0
  /\ ticking' = FALSE
  /\ due' = FALSE
  /\ shown' = FALSE
  /\ key' = FALSE
  /\ windows' = <<>>

Init ==
  /\ up = FALSE
  /\ loggedIn = FALSE
  /\ locked = FALSE
  /\ idle = 0
  /\ ticking = FALSE
  /\ due = FALSE
  /\ shown = FALSE
  /\ key = FALSE
  /\ windows = <<>>
  /\ changes = 0

\* The constructor of the main window asks for the password.
Start ==
  /\ ~up
  /\ up' = TRUE
  /\ Push("startup")
  /\ UNCHANGED <<session, key, changes>>

Exit ==
  /\ AtMainWindow
  /\ Gone
  /\ UNCHANGED changes

(***************************************************************************)
(* The login dialog, also used to confirm an export                        *)
(***************************************************************************)
\* While the backoff timer runs the button and the field are disabled.
CanTry == up /\ OnTop(LoginKinds) /\ Top.wait = Off

\* Mutant of WrongPassword: the backoff timer is not started.
WrongPasswordNoDelay ==
  /\ CanTry
  /\ Top.failures < MaxFailures
  /\ windows' = [windows EXCEPT ![Len(windows)].failures = @ + 1]
  /\ UNCHANGED <<up, session, key, changes>>

WrongPassword ==
  /\ CanTry
  /\ Top.failures < MaxFailures
  /\ LET n == Top.failures + 1
     IN windows' = [windows EXCEPT ![Len(windows)].failures = n,
                                   ![Len(windows)].wait = Delay(n)]
  /\ UNCHANGED <<up, session, key, changes>>

\* A key is derived and stored and the session starts.  Without the stored
\* salt there is an error message instead, at the start the end of the program.
RightPassword ==
  /\ CanTry
  /\ Top.kind \in {"startup", "login"}
  /\ windows' = Below
  /\ key' = TRUE
  /\ StateLogin
  /\ UNCHANGED <<up, changes>>

SaltMissing ==
  /\ CanTry
  /\ "db" \in Faults
  /\ \/ /\ Top.kind = "startup"
        /\ Gone
     \/ /\ Top.kind = "login"
        /\ windows' = Below
        /\ UNCHANGED <<up, session, key>>
  /\ UNCHANGED changes

CancelLogin ==
  /\ up /\ OnTop(LoginKinds)
  /\ \/ /\ Top.kind = "startup"
        /\ Gone
     \/ /\ Top.kind # "startup"
        /\ windows' = Below
        /\ UNCHANGED <<up, session, key>>
  /\ UNCHANGED changes

\* onBackoffTimer of the dialog at position i of the stack.
BackoffEnds(i) ==
  /\ i \in DOMAIN windows
  /\ windows[i].wait = 0
  /\ windows' = [windows EXCEPT ![i].wait = Off]
  /\ UNCHANGED <<up, session, key, changes>>

(***************************************************************************)
(* Menu and tool bar of the main window.  Nothing is disabled while the    *)
(* session is locked.                                                      *)
(***************************************************************************)
\* onAddEntry, onEditEntry and onDeleteEntry ask for a login first.
OpenEntryWindow(kind) ==
  /\ AtMainWindow
  /\ kind \in {"entry", "delete"}
  /\ IF loggedIn
       THEN UpdateActivity /\ Push(kind)
       ELSE UNCHANGED session /\ Ask(windows, "login")
  /\ UNCHANGED <<up, key, changes>>

OpenChangePassword ==
  /\ AtMainWindow
  /\ loggedIn
  /\ UpdateActivity
  /\ Push("change")
  /\ UNCHANGED <<up, key, changes>>

\* onImport and onExport ask for nothing and are no activity.
OpenExchange(kind) ==
  /\ AtMainWindow
  /\ kind \in {"import", "export"}
  /\ Push(kind)
  /\ UNCHANGED <<up, session, key, changes>>

Lock ==
  /\ AtMainWindow
  /\ loggedIn
  /\ StateLock
  /\ Ask(windows, "login")
  /\ UNCHANGED <<up, key, changes>>

(***************************************************************************)
(* The dialogs                                                             *)
(***************************************************************************)
CloseWindow ==
  /\ OnTop(Kinds \ (LoginKinds \cup {"notice"}))
  /\ windows' = Below
  /\ UNCHANGED <<up, session, key, changes>>

Change ==
  /\ changes < MaxChanges
  /\ changes' = changes + 1
  /\ windows' = Below
  /\ UNCHANGED <<up, session, key>>

\* createEntry and updateEntry fail without a key, deleteEntry does not, and an
\* import that replaces deletes before it creates.
SaveEntry == OnTop({"entry"}) /\ key /\ Change
ConfirmDelete == OnTop({"delete"}) /\ Change
RunImport == OnTop({"import"}) /\ Change

\* onExport asks for the master password in a login dialog of its own.
ConfirmExport ==
  /\ OnTop({"export"})
  /\ Ask(windows, "confirm")
  /\ UNCHANGED <<up, session, key, changes>>

ExportConfirmed ==
  /\ CanTry
  /\ Top.kind = "confirm"
  /\ windows' = Below
  /\ UNCHANGED <<up, session, key, changes>>

\* After a change of the master password the session ends, all keys are
\* cleared and a login dialog opens.
AcceptChange ==
  /\ OnTop({"change"})
  /\ StateLogout
  /\ key' = FALSE
  /\ Ask(Below, "login")
  /\ UNCHANGED <<up, changes>>

(***************************************************************************)
(* Time                                                                    *)
(***************************************************************************)
Later(x, bound) == IF x < bound THEN x + 1 ELSE x

Older(w) ==
  [w EXCEPT !.wait = IF @ > 0 THEN @ - 1 ELSE @, !.age = Later(@, AgeCounted)]

Tick ==
  /\ up
  /\ ~due
  /\ \A i \in DOMAIN windows : windows[i].wait # 0
  /\ idle' = Later(idle, AutoLock + 1)
  /\ due' = ticking
  /\ windows' = [i \in DOMAIN windows |-> Older(windows[i])]
  /\ UNCHANGED <<up, loggedIn, locked, ticking, shown, key, changes>>

\* Mutant of TimerFires: no auto-lock while a dialog is open.
TimerSparesDialogs ==
  /\ due
  /\ IF Unlocked /\ idle >= AutoLock /\ windows = <<>>
       THEN StateLock /\ Push("notice")
       ELSE due' = FALSE /\ UNCHANGED <<loggedIn, locked, idle, ticking, shown, windows>>
  /\ UNCHANGED <<up, key, changes>>

\* The handler of m_timer.  inactivityTimeout opens a message on top of
\* whatever is open.
TimerFires ==
  /\ due
  /\ IF Unlocked /\ idle >= AutoLock
       THEN StateLock /\ Push("notice")
       ELSE due' = FALSE /\ UNCHANGED <<loggedIn, locked, idle, ticking, shown, windows>>
  /\ UNCHANGED <<up, key, changes>>

\* Closing the message of the auto-lock opens the login dialog.
CloseNotice ==
  /\ OnTop({"notice"})
  /\ Ask(Below, "login")
  /\ UNCHANGED <<up, session, key, changes>>

Next ==
  \/ Start \/ Exit
  \/ WrongPassword \/ RightPassword \/ SaltMissing \/ CancelLogin
  \/ \E i \in DOMAIN windows : BackoffEnds(i)
  \/ \E kind \in {"entry", "delete"} : OpenEntryWindow(kind)
  \/ \E kind \in {"import", "export"} : OpenExchange(kind)
  \/ OpenChangePassword \/ Lock
  \/ CloseWindow \/ SaveEntry \/ ConfirmDelete \/ RunImport
  \/ ConfirmExport \/ ExportConfirmed \/ AcceptChange
  \/ Tick \/ TimerFires \/ CloseNotice

\* The clock does not stop and the event loop delivers what is due.  Nobody is
\* obliged to type, click or log in.
Fairness ==
  /\ WF_vars(Tick)
  /\ WF_vars(TimerFires)
  /\ WF_vars(\E i \in DOMAIN windows : BackoffEnds(i))

Spec == Init /\ [][Next]_vars /\ Fairness

(***************************************************************************)
(* Properties                                                              *)
(***************************************************************************)
\* An unlocked session is never older than AutoLock seconds without activity,
\* whatever dialogs are open and however often it was locked and unlocked: the
\* 1-second timer of StateManager runs exactly while it is needed.
SessionExpires == Unlocked => idle <= AutoLock

\* The entry table is visible exactly in an unlocked session: MainWindow, told
\* by signals only, agrees with StateManager.
TableFollowsSession == shown <=> Unlocked

\* The n-th wrong password in one login dialog comes no earlier than the delays
\* before it add up to, also when the auto-lock opened other dialogs on top.
BackoffHolds == \A i \in DOMAIN windows : windows[i].age >= MinAge(windows[i].failures)

\* An unlocked session that has been idle for a second is locked or ended one
\* day, unless there is activity again.
IdleSessionLocks == (Unlocked /\ idle = 1) ~> (~Unlocked \/ idle = 0)

\* The vault changes only in an unlocked session.  MainWindow.cpp:395 tells the
\* user that the application is locked.
ChangesNeedSession == [][changes' # changes => Unlocked]_vars
=============================================================================
