------------------------------ MODULE Clipboard ------------------------------
(***************************************************************************)
(* ClipboardService: a copied secret leaves the system clipboard when its  *)
(* clear timer fires, when the session ends or when something else is      *)
(* copied.  The seconds left are saved every few seconds so that the next  *)
(* process can resume after a crash.                                       *)
(*                                                                         *)
(* The clock ticks in whole seconds.  A timer is the number of seconds     *)
(* until it is due; the Qt event loop delivers due timers in any order     *)
(* before the next second starts.  The system clipboard and the settings   *)
(* table outlive the process.                                              *)
(***************************************************************************)
EXTENDS Integers

CONSTANTS
  MaxTimeout,     \* longest interval the settings dialog offers (300)
  DefaultTimeout, \* interval of a new ClipboardService (30)
  WarnLead,       \* the warning comes this long before the clearing (5)
  SavePeriod,     \* interval of m_saveTimer in seconds (3)
  Settings,       \* bound: the intervals a user chooses from, 0 for never
  MaxCopies,      \* bound: number of texts copied in a behaviour
  Faults          \* which of "crash", "db" may happen

ASSUME IntervalAssumption ==
  /\ MaxTimeout \in Nat /\ WarnLead \in Nat /\ SavePeriod \in Nat \ {0}
  /\ DefaultTimeout \in 1 .. MaxTimeout
  /\ Settings \subseteq 0 .. MaxTimeout
ASSUME CopiesAssumption == MaxCopies \in Nat
ASSUME FaultsAssumption == Faults \subseteq {"crash", "db"}

VARIABLES
  clip,      \* the copied text the system clipboard holds, 0 for anything else
  configured,\* clipboard_timeout of the settings table
  saved,     \* clipboard_remaining_seconds of the settings table
  up,        \* the program runs
  session,   \* MainWindow.isLoggedIn: the entries are shown
  interval,  \* m_timeoutSeconds
  age,       \* seconds since m_copyTime
  timer,     \* m_timer
  saveTimer, \* m_saveTimer
  warnings,  \* the pending single-shot timers of showClearWarning
  shown,     \* m_warningShown
  copies,    \* texts copied so far
  promised,  \* history: what is left of the interval announced at the last copy
  orphan     \* history: the copied text that a crash has left on the clipboard

settingsTable == <<configured, saved>>
timers == <<age, timer, saveTimer, warnings>>
vars == <<clip, settingsTable, up, session, interval, timers, shown, copies,
          promised, orphan>>

Off == -1
Countdown == Off .. MaxTimeout

TypeOK ==
  /\ clip \in 0 .. MaxCopies
  /\ configured \in 0 .. MaxTimeout
  /\ saved \in 0 .. MaxTimeout
  /\ up \in BOOLEAN
  /\ session \in BOOLEAN
  /\ interval \in 0 .. MaxTimeout
  /\ age \in 0 .. MaxTimeout
  /\ timer \in Countdown
  /\ saveTimer \in Off .. SavePeriod
  /\ warnings \subseteq 0 .. MaxTimeout
  /\ shown \in BOOLEAN
  /\ copies \in 0 .. MaxCopies
  /\ promised \in Countdown
  /\ orphan \in 0 .. MaxCopies

(***************************************************************************)
(* Settings table: the result of setSetting is ignored, a failing          *)
(* getSetting returns its default.                                         *)
(***************************************************************************)
IfDbFails(x) == IF "db" \in Faults THEN {x} ELSE {}

Save(seconds) == saved' \in {seconds} \cup IfDbFails(saved)

(***************************************************************************)
(* Process and session                                                     *)
(***************************************************************************)
Init ==
  /\ clip = 0
  /\ configured = DefaultTimeout
  /\ saved = 0
  /\ up = FALSE
  /\ session = FALSE
  /\ interval = DefaultTimeout
  /\ age = 0
  /\ timer = Off
  /\ saveTimer = Off
  /\ warnings = {}
  /\ shown = FALSE
  /\ copies = 0
  /\ promised = Off
  /\ orphan = 0

\* main: the service starts with its built-in interval (loadSettings is not
\* called) and checkAndRestoreTimer resumes a saved countdown.
Start ==
  /\ ~up
  /\ up' = TRUE
  /\ \E left \in {saved} \cup IfDbFails(0) :
       IF left > 0
         THEN /\ interval' = left
              /\ timer' = left
              /\ saveTimer' = SavePeriod
              /\ Save(0)
         ELSE /\ interval' = DefaultTimeout
              /\ UNCHANGED <<timer, saveTimer, saved>>
  /\ age' = 0
  /\ UNCHANGED <<clip, configured, session, warnings, shown, copies, promised, orphan>>

\* The process is gone and its memory with it.
Gone ==
  /\ up' = FALSE
  /\ session' = FALSE
  /\ interval' = DefaultTimeout
  /\ age' = 0
  /\ timer' = Off
  /\ saveTimer' = Off
  /\ warnings' = {}
  /\ shown' = FALSE

\* clear(): the clipboard is overwritten and emptied, both timers stop, 0 is
\* saved.  Pending warnings stay.
Clear ==
  /\ clip' = 0
  /\ timer' = Off
  /\ saveTimer' = Off
  /\ Save(0)

Login ==
  /\ up /\ ~session
  /\ session' = TRUE
  /\ UNCHANGED <<clip, settingsTable, up, interval, timers, shown, copies, promised, orphan>>

\* Manual lock, auto-lock and logout all end in MainWindow::onLoggedOut, which
\* calls resetTimer.
Lock ==
  /\ up /\ session
  /\ session' = FALSE
  /\ Clear
  /\ shown' = FALSE
  /\ UNCHANGED <<configured, up, interval, age, warnings, copies, promised, orphan>>

\* The window is closed: its destructor calls resetTimer in a session only.
Exit ==
  /\ up
  /\ Gone
  /\ IF session THEN clip' = 0 /\ Save(0) ELSE UNCHANGED <<clip, saved>>
  /\ UNCHANGED <<configured, copies, promised, orphan>>

Crash ==
  /\ "crash" \in Faults
  /\ up
  /\ Gone
  /\ orphan' = clip
  /\ UNCHANGED <<clip, settingsTable, copies, promised>>

\* SettingsDialog saves the interval and loads it again; a running timer goes
\* on as it was.  The dialog is open to everybody, logged in or not.
ChangeSettings ==
  /\ up
  /\ configured' \in Settings \cup IfDbFails(configured)
  /\ interval' \in {configured'} \cup IfDbFails(DefaultTimeout)
  /\ UNCHANGED <<clip, saved, up, session, timers, shown, copies, promised, orphan>>

(***************************************************************************)
(* The clipboard                                                           *)
(***************************************************************************)
\* Mutant of CopyText: a timer that runs is not started again.
CopyKeepsTimer ==
  /\ up /\ session
  /\ copies < MaxCopies
  /\ copies' = copies + 1
  /\ clip' = copies + 1
  /\ age' = 0
  /\ shown' = FALSE
  /\ promised' = IF interval > 0 THEN interval ELSE Off
  /\ timer' = IF timer = Off /\ interval > 0 THEN interval ELSE timer
  /\ saveTimer' = SavePeriod
  /\ warnings' = warnings \cup
       (IF interval > WarnLead THEN {interval - WarnLead} ELSE {})
  /\ UNCHANGED <<settingsTable, up, session, interval, orphan>>

\* copyText from the context menu of the entry table.  The subscribers of
\* ClipboardCopied announce m_timeoutSeconds to the user.
CopyText ==
  /\ up /\ session
  /\ copies < MaxCopies
  /\ copies' = copies + 1
  /\ clip' = copies + 1
  /\ age' = 0
  /\ shown' = FALSE
  /\ timer' = IF interval > 0 THEN interval ELSE Off
  /\ saveTimer' = SavePeriod
  /\ warnings' = warnings \cup
       (IF interval > WarnLead THEN {interval - WarnLead} ELSE {})
  /\ promised' = timer'
  /\ UNCHANGED <<settingsTable, up, session, interval, orphan>>

\* Another program puts something on the clipboard; onClipboardChanged does
\* nothing about it.
ForeignCopy ==
  /\ clip # 0
  /\ clip' = 0
  /\ UNCHANGED <<settingsTable, up, session, interval, timers, shown, copies, promised, orphan>>

\* Mutant of TimerFires: the timer is over, the clipboard is not cleared.
TimerFiresInVain ==
  /\ timer = 0
  /\ timer' = Off
  /\ UNCHANGED <<clip, settingsTable, up, session, interval, age, saveTimer,
                 warnings, shown, copies, promised, orphan>>

TimerFires ==
  /\ timer = 0
  /\ Clear
  /\ UNCHANGED <<configured, up, session, interval, age, warnings, shown,
                 copies, promised, orphan>>

\* getRemainingSeconds: whole seconds, rounded down, counted from m_copyTime
\* with the interval of now.
RemainingSeconds ==
  IF timer = Off
    THEN {0}
    ELSE {IF r > 0 THEN r ELSE 0 : r \in {interval - age, interval - age - 1}}

\* Mutant of SaveTimerFires: no test that something remains.
SaveTimerSavesAll ==
  /\ saveTimer = 0
  /\ saveTimer' = SavePeriod
  /\ saved' = interval - age
  /\ UNCHANGED <<clip, configured, up, session, interval, age, timer, warnings,
                 shown, copies, promised, orphan>>

SaveTimerFires ==
  /\ saveTimer = 0
  /\ saveTimer' = SavePeriod
  /\ \E r \in RemainingSeconds :
       IF r > 0 THEN Save(r) ELSE UNCHANGED saved
  /\ UNCHANGED <<clip, configured, up, session, interval, age, timer, warnings,
                 shown, copies, promised, orphan>>

\* showClearWarning: the user is told that 5 seconds are left.
WarningFires ==
  /\ 0 \in warnings
  /\ warnings' = warnings \ {0}
  /\ shown' = (shown \/ timer # Off)
  /\ UNCHANGED <<clip, settingsTable, up, session, interval, age, timer,
                 saveTimer, copies, promised, orphan>>

Due == timer = 0 \/ saveTimer = 0 \/ 0 \in warnings
OneLess(t) == IF t > 0 THEN t - 1 ELSE t

\* A second passes.  The age stops counting when nothing can be left.
Tick ==
  /\ ~Due
  /\ timer # Off \/ saveTimer # Off \/ warnings # {}
  /\ age' = IF age < MaxTimeout THEN age + 1 ELSE age
  /\ timer' = OneLess(timer)
  /\ saveTimer' = OneLess(saveTimer)
  /\ warnings' = {OneLess(w) : w \in warnings}
  /\ promised' = OneLess(promised)
  /\ UNCHANGED <<clip, settingsTable, up, session, interval, shown, copies, orphan>>

(***************************************************************************)
(* Specification                                                           *)
(***************************************************************************)
User == Start \/ Login \/ Lock \/ Exit \/ ChangeSettings \/ CopyText
Outside == Crash \/ ForeignCopy
EventLoop == TimerFires \/ SaveTimerFires \/ WarningFires

Next == User \/ Outside \/ EventLoop \/ Tick

\* Time passes, and Qt delivers every timer that is due.
Fairness ==
  /\ WF_vars(Tick)
  /\ WF_vars(TimerFires)
  /\ WF_vars(SaveTimerFires)
  /\ WF_vars(WarningFires)

Spec == Init /\ [][Next]_vars /\ Fairness

(***************************************************************************)
(* Properties                                                              *)
(***************************************************************************)
\* A copied text that no crash has left behind is on the clipboard only during
\* the session it was copied in, and it will be cleared exactly when the user
\* was told, whatever was configured, saved, restored or left behind since.
TimerKeepsPromise ==
  clip # 0 /\ clip # orphan => up /\ session /\ timer = promised

\* Every text copied with an interval leaves the clipboard, however often the
\* session, the settings or the process change meanwhile, unless the process
\* crashes first.
CopiedTextIsCleared ==
  \A n \in 1 .. MaxCopies :
    clip = n /\ promised # Off ~> clip # n \/ orphan = n
=============================================================================
