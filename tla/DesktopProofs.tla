--------------------------- MODULE DesktopProofs ---------------------------
(***************************************************************************)
(* Theorems about the desktop shell: its safety properties hold for every  *)
(* number of attempts and of windows.                                      *)
(***************************************************************************)
EXTENDS Desktop, TLAPS

\* The server that runs is the one the quit would stop.
Handled == Alive => handle

\* Each failed question leaves at most two timers, and only while attempts
\* are left: what may still become an attempt weighs at most as much as those
\* made, and timers and attempts together stay below the bound.
Balanced ==
    /\ attempts \in Nat /\ waiting \in Nat /\ requests \in Nat
    /\ waiting + 2 * requests <= 1 + attempts
    /\ waiting + attempts < 2 * MaxRetries

\* The inductive invariant.
Inv == TypeOK /\ MainExists /\ NoOrphan /\ Handled /\ Balanced

-----------------------------------------------------------------------------
(* What the helpers do to the windows and to the end of the application     *)

\* What TypeOK and MainExists say of the display.
DisplayOK ==
    /\ opened \in 0..MaxWindows
    /\ windows \subseteq 1..opened /\ visible \subseteq windows
    /\ main \in 0..opened
    /\ main # 0 => main \in windows

\* A new window is a window, and the main one.
LEMMA CreateWindowKeeps == DisplayOK /\ CreateWindow => DisplayOK'
BY DesktopAssumption DEF DisplayOK, CreateWindow

\* Closing a window leaves mainWindow on a window or null.
LEMMA CloseKeeps == ASSUME NEW STATE w, DisplayOK, Close(w) PROVE DisplayOK'
<1>1. CASE windows' = windows \ {w} /\ visible' = visible \ {w} /\ main' = 0 /\ opened' = opened
  <2>1. windows' \subseteq windows /\ visible' \subseteq windows'
    BY <1>1, Zenon DEF DisplayOK
  <2>2. opened' \in 0..MaxWindows /\ main' \in 0..opened' /\ main' = 0
    BY <1>1, DesktopAssumption DEF DisplayOK
  <2>3. windows' \subseteq 1..opened'
    BY <1>1, <2>1, Zenon DEF DisplayOK
  <2> QED BY <2>1, <2>2, <2>3 DEF DisplayOK
<1>2. CASE visible' = visible \ {main} /\ windows' = windows /\ main' = main /\ opened' = opened
  BY <1>2, DesktopAssumption DEF DisplayOK
<1> QED BY <1>1, <1>2, Zenon DEF Close

\* Showing the main window, or a new one, keeps the display in order.
LEMMA ShowKeeps == DisplayOK /\ Show => DisplayOK'
<1>1. CASE main = 0
  BY <1>1, CreateWindowKeeps DEF Show
<1>2. CASE main # 0
  <2> SUFFICES ASSUME DisplayOK, Show PROVE DisplayOK'
    OBVIOUS
  <2>1. visible' = visible \cup {main} /\ UNCHANGED <<windows, main, opened>>
    BY <1>2 DEF Show
  <2>2. visible' \subseteq windows'
    BY <1>2, <2>1, Zenon DEF DisplayOK
  <2> QED BY <2>1, <2>2, DesktopAssumption DEF DisplayOK
<1> QED BY <1>1, <1>2

\* A quit keeps the display in order.
LEMMA QuitKeeps == ASSUME NEW now, DisplayOK, Quit(now) PROVE DisplayOK'
<1>1. CASE UNCHANGED display
  BY <1>1 DEF DisplayOK, display
<1>2. CASE windows' = {} /\ visible' = {} /\ main' = 0 /\ opened' = opened
  BY <1>2, DesktopAssumption DEF DisplayOK
<1>3. CASE visible' = visible \ {main} /\ UNCHANGED <<windows, main, opened>>
  BY <1>3 DEF DisplayOK
<1> QED BY <1>1, <1>2, <1>3 DEF Quit, display

-----------------------------------------------------------------------------
(* The inductive invariant                                                  *)

\* The invariant holds when the application has started to wait.
LEMMA InitInv == Init => Inv
<1> SUFFICES ASSUME Init PROVE Inv
  OBVIOUS
<1>1. TypeOK
  <2>1. dev \in BOOLEAN /\ handle \in BOOLEAN /\ isQuitting \in BOOLEAN
    BY Zenon DEF Init
  <2>2. killer \in BOOLEAN /\ hook \in BOOLEAN /\ asked \in BOOLEAN
    BY Zenon DEF Init
  <2>3. server \in {"none", "booting", "serving", "dead"}
    BY Zenon DEF Init
  <2>4. /\ port \in {"refuses", "silent", "answers"}
        /\ start \in {"pending", "ready", "failed"}
        /\ app \in {"running", "exited"}
    BY DEF Init
  <2>5. /\ attempts \in Nat /\ waiting \in Nat /\ requests \in Nat
        /\ opened \in 0..MaxWindows /\ main \in 0..opened
    BY DesktopAssumption DEF Init
  <2>6. windows \subseteq 1..opened /\ visible \subseteq windows /\ dialogs \subseteq {"start", "crash"}
    BY Zenon DEF Init
  <2> QED BY <2>1, <2>2, <2>3, <2>4, <2>5, <2>6 DEF TypeOK
<1>2. MainExists /\ NoOrphan /\ Balanced
  BY DesktopAssumption DEF Init, MainExists, NoOrphan, Balanced
<1>3. Handled
  <2>1. CASE dev
    BY <2>1 DEF Init, Handled, Alive
  <2>2. CASE ~dev
    BY <2>2 DEF Init, Handled
  <2> QED BY <2>1, <2>2
<1> QED BY <1>1, <1>2, <1>3 DEF Inv

\* Each step, or none, keeps the display in order.
LEMMA NextDisplay == DisplayOK /\ [Next]_vars => DisplayOK'
<1> SUFFICES ASSUME DisplayOK, [Next]_vars PROVE DisplayOK'
  OBVIOUS
<1> USE DEF display
<1>1. CASE UNCHANGED display
  BY <1>1 DEF DisplayOK
<1>2. CASE CreateWindow
  BY <1>2, CreateWindowKeeps
<1>3. CASE Show
  BY <1>3, ShowKeeps
<1>4. ASSUME NEW STATE w, Close(w) PROVE DisplayOK'
  BY <1>4, CloseKeeps
<1>5. ASSUME NEW STATE now, Quit(now) PROVE DisplayOK'
  BY <1>5, QuitKeeps
<1>6. CASE TrayToggle
  BY <1>6, DesktopAssumption DEF TrayToggle, DisplayOK
<1>7. CASE Try \/ ServerServes \/ PortChanges \/ SpawnFails \/ KillTimer
  BY <1>1, <1>7 DEF Try, ServerServes, PortChanges, SpawnFails, KillTimer
<1>8. CASE Probe
  BY <1>1, <1>2, <1>8
  DEF Probe, ProbeAnswer, ProbeRefused, ProbeTimeout, ProbeFails
<1>9. ASSUME NEW crashed \in BOOLEAN, ServerEnds(crashed) PROVE DisplayOK'
  BY <1>1, <1>4, <1>9 DEF ServerEnds
<1>10. ASSUME NEW d \in {"start", "crash"}, AnswerDialog(d) PROVE DisplayOK'
  BY <1>5, <1>10 DEF AnswerDialog
<1>11. ASSUME NEW w \in windows, CloseWindow(w) PROVE DisplayOK'
  BY <1>4, <1>11 DEF CloseWindow
<1>12. CASE TrayShow \/ TrayQuit \/ MenuQuit \/ Activate
  BY <1>2, <1>3, <1>5, <1>12 DEF TrayShow, TrayQuit, MenuQuit, Activate
<1>13. CASE UNCHANGED vars
  BY <1>1, <1>13 DEF vars
<1> QED
  BY <1>6, <1>7, <1>8, <1>9, <1>10, <1>11, <1>12, <1>13 DEF Next

\* What the prober counts stays in balance: only its own steps change it.
LEMMA NextBalanced == Balanced /\ [Next]_vars => Balanced'
<1> SUFFICES ASSUME Balanced, [Next]_vars PROVE Balanced'
  OBVIOUS
<1>1. CASE UNCHANGED probe
  BY <1>1 DEF Balanced, probe
<1>2. CASE Try
  BY <1>2, DesktopAssumption DEF Try, Balanced
<1>3. CASE ProbeAnswer
  BY <1>3, DesktopAssumption DEF ProbeAnswer, Balanced
<1>4. ASSUME NEW timers \in {1, 2}, requests > 0, ProbeFails(timers) PROVE Balanced'
  <2>1. CASE attempts >= MaxRetries
    BY <1>4, <2>1, DesktopAssumption DEF ProbeFails, Balanced
  <2>2. CASE attempts < MaxRetries
    BY <1>4, <2>2, DesktopAssumption DEF ProbeFails, Balanced
  <2> QED BY <2>1, <2>2, DesktopAssumption DEF Balanced
<1>5. CASE Probe
  BY <1>3, <1>4, <1>5 DEF Probe, ProbeRefused, ProbeTimeout
<1>6. CASE ServerServes \/ PortChanges \/ SpawnFails \/ KillTimer
  BY <1>1, <1>6 DEF ServerServes, PortChanges, SpawnFails, KillTimer
<1>7. ASSUME NEW crashed \in BOOLEAN, ServerEnds(crashed) PROVE Balanced'
  BY <1>1, <1>7 DEF ServerEnds
<1>8. ASSUME NEW d \in {"start", "crash"}, AnswerDialog(d) PROVE Balanced'
  BY <1>1, <1>8 DEF AnswerDialog
<1>9. ASSUME NEW w \in windows, CloseWindow(w) PROVE Balanced'
  BY <1>1, <1>9 DEF CloseWindow, Click
<1>10. CASE TrayShow \/ TrayToggle \/ TrayQuit \/ MenuQuit \/ Activate
  BY <1>1, <1>10 DEF TrayShow, TrayToggle, TrayQuit, MenuQuit, Activate, Click
<1>11. CASE UNCHANGED vars
  BY <1>1, <1>11 DEF vars, probe
<1> QED
  BY <1>2, <1>5, <1>6, <1>7, <1>8, <1>9, <1>10, <1>11 DEF Next

\* The rest of TypeOK: everything but the display.
FlagsOK ==
    /\ dev \in BOOLEAN /\ handle \in BOOLEAN /\ isQuitting \in BOOLEAN
    /\ killer \in BOOLEAN /\ hook \in BOOLEAN /\ asked \in BOOLEAN
    /\ server \in {"none", "booting", "serving", "dead"}
    /\ port \in {"refuses", "silent", "answers"}
    /\ start \in {"pending", "ready", "failed"}
    /\ dialogs \subseteq {"start", "crash"}
    /\ app \in {"running", "exited"}

\* No step leaves a server running behind an application that exits, and the
\* flags keep their types.
LEMMA NextSpares ==
  FlagsOK /\ NoOrphan /\ Handled /\ [Next]_vars => FlagsOK' /\ NoOrphan' /\ Handled'
<1> SUFFICES ASSUME FlagsOK, NoOrphan, Handled, [Next]_vars
             PROVE  FlagsOK' /\ NoOrphan' /\ Handled'
  OBVIOUS
<1> USE DEF FlagsOK, NoOrphan, Handled, Alive, Running
<1>1. ASSUME NEW now \in BOOLEAN, Running, Quit(now),
             UNCHANGED <<dev, server, handle, port, start>>, dialogs' \subseteq dialogs
      PROVE  FlagsOK' /\ NoOrphan' /\ Handled'
  BY <1>1 DEF Quit, display
<1>2. CASE Try \/ ServerServes \/ SpawnFails
  BY <1>2 DEF Try, ServerServes, SpawnFails, quitting
<1>10. CASE PortChanges
  <2>1. port' \in {"refuses", "silent", "answers"}
    BY <1>10, Zenon DEF PortChanges
  <2> QED BY <1>10, <2>1 DEF PortChanges, quitting
<1>11. CASE KillTimer
  BY <1>11 DEF KillTimer
<1>3. CASE Probe
  BY <1>3 DEF Probe, ProbeAnswer, ProbeRefused, ProbeTimeout, ProbeFails, Fail, quitting
<1>4. ASSUME NEW crashed \in BOOLEAN, ServerEnds(crashed)
      PROVE  FlagsOK' /\ NoOrphan' /\ Handled'
  BY <1>4 DEF ServerEnds
<1>5. ASSUME NEW d \in {"start", "crash"}, AnswerDialog(d)
      PROVE  FlagsOK' /\ NoOrphan' /\ Handled'
  BY <1>1, <1>5 DEF AnswerDialog
<1>6. ASSUME NEW w \in windows, CloseWindow(w)
      PROVE  FlagsOK' /\ NoOrphan' /\ Handled'
  BY <1>6 DEF CloseWindow, Click, quitting
<1>7. CASE TrayQuit \/ MenuQuit
  BY <1>1, <1>7 DEF TrayQuit, MenuQuit, Click
<1>8. CASE TrayShow \/ TrayToggle \/ Activate
  BY <1>8 DEF TrayShow, TrayToggle, Activate, Click, quitting
<1>9. CASE UNCHANGED vars
  BY <1>9 DEF vars
<1> QED
  BY <1>2, <1>3, <1>4, <1>5, <1>6, <1>7, <1>8, <1>9, <1>10, <1>11 DEF Next

-----------------------------------------------------------------------------
(* The theorems                                                             *)

\* The parts together are the invariant's types and windows.
LEMMA Parts == (TypeOK /\ MainExists) <=>
                 (FlagsOK /\ DisplayOK /\ attempts \in Nat /\ waiting \in Nat /\ requests \in Nat)
BY Zenon DEF TypeOK, MainExists, FlagsOK, DisplayOK

\* The inductive invariant holds throughout.
THEOREM Invariant == Spec => []Inv
<1>1. Inv /\ [Next]_vars => Inv'
  <2> SUFFICES ASSUME Inv, [Next]_vars PROVE Inv'
    OBVIOUS
  <2>1. FlagsOK /\ DisplayOK
    BY Parts DEF Inv
  <2>2. Balanced'
    BY NextBalanced DEF Inv
  <2>3. FlagsOK' /\ NoOrphan' /\ Handled'
    BY <2>1, NextSpares DEF Inv
  <2>4. DisplayOK'
    BY <2>1, NextDisplay
  <2>5. TypeOK' /\ MainExists'
    <3>1. attempts' \in Nat /\ waiting' \in Nat /\ requests' \in Nat
      BY <2>2 DEF Balanced
    <3> QED BY <2>3, <2>4, <3>1, Zenon DEF TypeOK, MainExists, FlagsOK, DisplayOK
  <2> QED BY <2>2, <2>3, <2>5 DEF Inv
<1> QED BY <1>1, InitInv, PTL DEF Spec

\* Every variable keeps its type, and the windows are numbered as opened.
THEOREM TypeCorrect == Spec => []TypeOK
<1>1. Inv => TypeOK
  BY DEF Inv
<1> QED BY <1>1, Invariant, PTL

\* mainWindow of createWindow and of the handlers is null or a window that
\* exists, however many windows there are.
THEOREM MainWindowExists == Spec => []MainExists
<1>1. Inv => MainExists
  BY DEF Inv
<1> QED BY <1>1, Invariant, PTL

\* However the application exits, by before-quit's timer, by the close event
\* behind it or by a quit without a server, the server does not run any more.
THEOREM NoServerOutlives == Spec => []NoOrphan
<1>1. Inv => NoOrphan
  BY DEF Inv
<1> QED BY <1>1, Invariant, PTL

\* checkServerAvailability asks less than twice as often as maxRetries says,
\* although each timeout doubles what it has under way.
THEOREM AttemptsBelowTwice == Spec => []ProbesBounded
<1>1. Inv => ProbesBounded
  BY DesktopAssumption DEF Inv, Balanced, ProbesBounded
<1> QED BY <1>1, Invariant, PTL

=============================================================================
