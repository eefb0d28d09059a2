------------------------------ MODULE Desktop ------------------------------
(***************************************************************************)
(* The main process of the desktop application: it starts the server (in  *)
(* development somebody else has), asks the port until something answers, *)
(* opens a window and lives in the tray until it is told to quit or the   *)
(* server comes to an end. Every action is one callback of the event      *)
(* loop: an answer, a timer, an event of the child process, a click, or   *)
(* the answer to a dialog.                                                 *)
(***************************************************************************)
EXTENDS Integers, FiniteSets

CONSTANTS
    MaxRetries,    \* attempts of checkServerAvailability
    MaxWindows     \* bound: windows opened

ASSUME DesktopAssumption == MaxRetries \in Nat \ {0} /\ MaxWindows \in Nat \ {0}

VARIABLES
    dev,         \* development mode: no server of our own
    server,      \* our server: "none", "booting", "serving", "dead"
    handle,      \* serverProcess is set
    port,        \* who asks the port: "refuses", "silent" or "answers"
    start,       \* startServer(): "pending", "ready" or "failed"
    attempts,    \* currentAttempt
    waiting,     \* timers that will ask the port again
    requests,    \* questions to the port without an answer yet
    windows,     \* windows that exist
    visible,     \* those on display
    main,        \* mainWindow, 0 for null
    opened,      \* windows opened so far
    isQuitting,  \* app.isQuitting
    dialogs,     \* error dialogs on display
    killer,      \* the timer of 5 seconds is set
    hook,        \* before-quit waits for the server's end
    app,         \* "running" or "exited"
    asked        \* history: somebody has called app.quit()

vars == <<dev, server, handle, port, start, attempts, waiting, requests, windows,
          visible, main, opened, isQuitting, dialogs, killer, hook, app, asked>>

probe == <<attempts, waiting, requests>>
display == <<windows, visible, main, opened>>
quitting == <<isQuitting, killer, hook, app, asked>>

TypeOK ==
    /\ dev \in BOOLEAN /\ handle \in BOOLEAN /\ isQuitting \in BOOLEAN
    /\ killer \in BOOLEAN /\ hook \in BOOLEAN /\ asked \in BOOLEAN
    /\ server \in {"none", "booting", "serving", "dead"}
    /\ port \in {"refuses", "silent", "answers"}
    /\ start \in {"pending", "ready", "failed"}
    /\ attempts \in Nat /\ waiting \in Nat /\ requests \in Nat
    /\ opened \in 0..MaxWindows
    /\ windows \subseteq 1..opened /\ visible \subseteq windows
    /\ main \in 0..opened
    /\ dialogs \subseteq {"start", "crash"}
    /\ app \in {"running", "exited"}

\* startServer() has been called: the child process is spawned and the port
\* is about to be asked for the first time.
Init ==
    /\ dev \in BOOLEAN
    /\ handle = ~dev /\ server = IF dev THEN "none" ELSE "booting"
    /\ port = "refuses" /\ start = "pending"
    /\ attempts = 0 /\ waiting = 1 /\ requests = 0
    /\ windows = {} /\ visible = {} /\ main = 0 /\ opened = 0
    /\ isQuitting = FALSE /\ dialogs = {}
    /\ killer = FALSE /\ hook = FALSE /\ app = "running" /\ asked = FALSE

Alive == server \in {"booting", "serving"}
Running == app = "running"

-----------------------------------------------------------------------------
(* Windows                                                                 *)

\* createWindow: mainWindow is the new window, whatever it was.
CreateWindow ==
    /\ opened < MaxWindows
    /\ opened' = opened + 1
    /\ windows' = windows \cup {opened + 1}
    /\ visible' = visible \cup {opened + 1}
    /\ main' = opened + 1

\* A window that is told to close hides the main window, but for a quit:
\* then it closes, and mainWindow is null.
Close(w) ==
    /\ IF isQuitting
       THEN windows' = windows \ {w} /\ visible' = visible \ {w} /\ main' = 0
       ELSE visible' = visible \ {main} /\ UNCHANGED <<windows, main>>
    /\ UNCHANGED opened

\* The tray shows the main window or opens one.
Show ==
    IF main = 0 THEN CreateWindow
    ELSE visible' = visible \cup {main} /\ UNCHANGED <<windows, main, opened>>

-----------------------------------------------------------------------------
(* Waiting for the server                                                  *)

\* tryConnect
Try ==
    /\ Running /\ waiting > 0
    /\ waiting' = waiting - 1 /\ attempts' = attempts + 1 /\ requests' = requests + 1
    /\ UNCHANGED <<dev, server, handle, port, start, display, dialogs, quitting>>

\* The promise of startServer is settled once.
Fail == IF start = "pending"
        THEN start' = "failed" /\ dialogs' = dialogs \cup {"start"}
        ELSE UNCHANGED <<start, dialogs>>

\* Something answered: the tray and the window are created.
ProbeAnswer ==
    /\ Running /\ requests > 0 /\ port = "answers"
    /\ requests' = requests - 1
    /\ IF start = "pending" THEN start' = "ready" /\ CreateWindow
                            ELSE UNCHANGED <<start, display>>
    /\ UNCHANGED <<dev, server, handle, port, attempts, waiting, dialogs, quitting>>

\* Mutants of ProbeFails: a limit that is passed once more, and attempts that
\* end without a word.
ProbeFailsLate(timers) ==
    /\ requests' = requests - 1
    /\ IF attempts > MaxRetries
       THEN Fail /\ UNCHANGED waiting
       ELSE waiting' = waiting + timers /\ UNCHANGED <<start, dialogs>>
    /\ UNCHANGED <<dev, server, handle, port, attempts, display, quitting>>
ProbeFailsSilently(timers) ==
    /\ requests' = requests - 1
    /\ waiting' = IF attempts >= MaxRetries THEN waiting ELSE waiting + timers
    /\ UNCHANGED <<dev, server, handle, port, start, attempts, display, dialogs, quitting>>

\* A failed question gives up or sets "timers" timers for another.
ProbeFails(timers) ==
    /\ requests' = requests - 1
    /\ IF attempts >= MaxRetries
       THEN Fail /\ UNCHANGED waiting
       ELSE waiting' = waiting + timers /\ UNCHANGED <<start, dialogs>>
    /\ UNCHANGED <<dev, server, handle, port, attempts, display, quitting>>

ProbeRefused == Running /\ requests > 0 /\ port = "refuses" /\ ProbeFails(1)

\* The timeout handler destroys the request, which raises its error event as
\* well, and each of the two handlers sets a timer.
ProbeTimeout == Running /\ requests > 0 /\ port = "silent" /\ ProbeFails(2)

\* The child process listens; it may be too busy to answer.
ServerServes ==
    /\ Running /\ server = "booting" /\ server' = "serving"
    /\ port' \in {"silent", "answers"}
    /\ UNCHANGED <<dev, handle, start, probe, display, dialogs, quitting>>

\* A busy server comes back, an idle one gets busy; in development the
\* server on the port may come and go.
PortChanges ==
    /\ Running /\ (server = "serving" \/ dev)
    /\ port' \in {"silent", "answers"} \cup (IF dev THEN {"refuses"} ELSE {})
    /\ port' # port
    /\ UNCHANGED <<dev, server, handle, start, probe, display, dialogs, quitting>>

-----------------------------------------------------------------------------
(* The end of the server                                                   *)

\* The close event of the child process: an exit code other than 0 brings up
\* a dialog; code 0, or a signal, closes the main window. A quit in progress
\* has its own handler behind this one, which exits.
ServerEnds(crashed) ==
    /\ Running /\ Alive
    /\ server' = "dead" /\ port' = "refuses"
    /\ IF crashed
       THEN dialogs' = dialogs \cup {"crash"} /\ UNCHANGED display
       ELSE /\ UNCHANGED dialogs
            /\ IF main = 0 THEN UNCHANGED display ELSE Close(main)
    /\ handle' = ~hook
    /\ app' = IF hook THEN "exited" ELSE app
    /\ UNCHANGED <<dev, start, probe, isQuitting, killer, hook, asked>>

\* The binary cannot be started: the error event rejects the promise, and the
\* close event follows with a negative code.
SpawnFails ==
    /\ Running /\ server = "booting" /\ start = "pending" /\ attempts = 0
    /\ server' = "dead" /\ start' = "failed"
    /\ dialogs' = dialogs \cup {"start", "crash"}
    /\ UNCHANGED <<dev, handle, port, probe, display, quitting>>

-----------------------------------------------------------------------------
(* Quitting                                                                *)

\* Mutant of Quit: the server's end is waited for, however long it takes.
QuitWaits(now) ==
    /\ asked' = TRUE /\ isQuitting' = now
    /\ UNCHANGED killer
    /\ IF handle
       THEN hook' = (hook \/ Alive) /\ UNCHANGED <<display, app>>
       ELSE /\ UNCHANGED <<hook, opened>>
            /\ IF now \/ windows = {}
               THEN app' = "exited" /\ windows' = {} /\ visible' = {} /\ main' = 0
               ELSE visible' = visible \ {main} /\ UNCHANGED <<app, windows, main>>

\* app.quit(): before-quit holds the quit up while serverProcess is set,
\* tells the server to stop and exits when it has or after five seconds.
\* Otherwise the windows are closed, and one that refuses ends the quit.
Quit(now) ==
    /\ asked' = TRUE /\ isQuitting' = now
    /\ IF handle
       THEN /\ killer' = TRUE /\ hook' = (hook \/ Alive)
            /\ UNCHANGED <<display, app>>
       ELSE /\ UNCHANGED <<killer, hook, opened>>
            /\ IF now \/ windows = {}
               THEN app' = "exited" /\ windows' = {} /\ visible' = {} /\ main' = 0
               ELSE visible' = visible \ {main} /\ UNCHANGED <<app, windows, main>>

\* Mutant of KillTimer: exits and leaves the server alone.
KillTimerSpares ==
    /\ Running /\ killer
    /\ killer' = FALSE /\ app' = "exited"
    /\ UNCHANGED <<dev, server, handle, port, start, probe, display, dialogs,
                   isQuitting, hook, asked>>

\* The kill timer: whatever is left of the server is killed.
KillTimer ==
    /\ Running /\ killer
    /\ killer' = FALSE
    /\ server' = IF handle /\ Alive THEN "dead" ELSE server
    /\ app' = "exited"
    /\ UNCHANGED <<dev, handle, port, start, probe, display, dialogs, isQuitting, hook, asked>>

\* A dialog is answered with "quit", at once or after a look at the log.
AnswerDialog(d) ==
    /\ Running /\ d \in dialogs
    /\ dialogs' = dialogs \ {d}
    /\ Quit(isQuitting \/ d = "crash")
    /\ UNCHANGED <<dev, server, handle, port, start, probe>>

-----------------------------------------------------------------------------
(* The user                                                                *)

\* Nothing but a window or the tray: what a click changes.
Click == UNCHANGED <<dev, server, handle, port, start, probe, dialogs>>

CloseWindow(w) ==
    /\ Running /\ w \in visible
    /\ Close(w)
    /\ Click /\ UNCHANGED quitting

TrayShow ==
    /\ Running /\ start = "ready"
    /\ Show
    /\ Click /\ UNCHANGED quitting

\* A click on the icon hides the window if it is on display.
TrayToggle ==
    /\ Running /\ start = "ready" /\ main \in visible
    /\ visible' = visible \ {main}
    /\ Click /\ UNCHANGED <<windows, main, opened, quitting>>

TrayQuit ==
    /\ Running /\ start = "ready"
    /\ Quit(TRUE)
    /\ Click

\* The application menu or the system: isQuitting stays as it is.
MenuQuit ==
    /\ Running
    /\ Quit(isQuitting)
    /\ Click

\* macOS: the application is activated, as it is when it is launched.
Activate ==
    /\ Running /\ windows = {}
    /\ CreateWindow
    /\ Click /\ UNCHANGED quitting

-----------------------------------------------------------------------------
Probe == ProbeAnswer \/ ProbeRefused \/ ProbeTimeout

Next ==
    \/ Try \/ Probe \/ ServerServes \/ PortChanges \/ SpawnFails
    \/ \E crashed \in BOOLEAN : ServerEnds(crashed)
    \/ KillTimer \/ \E d \in {"start", "crash"} : AnswerDialog(d)
    \/ \E w \in windows : CloseWindow(w)
    \/ TrayShow \/ TrayToggle \/ TrayQuit \/ MenuQuit \/ Activate

Spec == Init /\ [][Next]_vars

\* Timers fire, a question to the port has an end, the user answers dialogs.
Fairness ==
    /\ WF_vars(Try) /\ WF_vars(Probe) /\ WF_vars(KillTimer)
    /\ \A d \in {"start", "crash"} : WF_vars(AnswerDialog(d))

FairSpec == Spec /\ Fairness

-----------------------------------------------------------------------------
(* Properties                                                              *)

\* However the application exits, its server is not left running.
NoOrphan == app = "exited" => ~Alive

\* Although every timeout makes two questions of one, the port is asked less
\* than twice as often as configured.
ProbesBounded == attempts < 2 * MaxRetries

\* mainWindow is null or a window that exists: with a second window, opened
\* by an activation during the start, included.
MainExists == main # 0 => main \in windows

\* Waiting for the server comes to an end, whether it starts, fails, hangs or
\* crashes meanwhile.
StartSettles == start = "pending" ~> (start # "pending" \/ ~Running)

\* Outside development a quit ends the application, whoever asked for it and
\* whatever the server does: even one that died before, which never closes
\* again, and one that does not listen to the signal.
QuitEnds == (asked /\ ~dev) ~> ~Running

=============================================================================
