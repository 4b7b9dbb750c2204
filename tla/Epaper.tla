--------------------------------- MODULE Epaper ---------------------------------
(***************************************************************************)
(* The e-paper display of a start block: loop() takes pilot names and the  *)
(* layout, collects them for a while and asks for a refresh; a FreeRTOS    *)
(* task, on another core or preempting loop() at any point, owns the panel *)
(* and draws what a mutex lets it copy.  They meet in plain flags and in a *)
(* binary semaphore.  Each access that the other can see is a step.        *)
(***************************************************************************)
EXTENDS Integers

CONSTANTS
  Slots,        \* 8: rows of the display, 1 .. Slots
  Names,        \* what a row may show: nickname and label
  Blank, Start, \* an empty row; the start screen
  MinDefer,     \* 1.5 s without new data, then a refresh is due
  MaxDefer,     \* 4 s after the first new data it is due in any case
  MinInterval,  \* 10 s between two refreshes
  FullEvery,    \* 360 s: a full refresh at least this often
  PartialLimit, \* 5 partial refreshes, then a full one
  None

Layout == [n : 1 .. Slots, row : [1 .. Slots -> Names \cup {Blank}]]

ASSUME EpaperAssumption ==
  /\ Slots \in Nat \ {0} /\ Blank \notin Names
  /\ Start \notin Layout /\ None \notin Layout \cup {Start}
  /\ {MinDefer, MaxDefer, MinInterval} \subseteq Nat \ {0}
  /\ FullEvery \in Nat /\ PartialLimit \in Nat
  /\ None \notin {"main", "task"}

VARIABLES
  mpc,         \* where loop() is: between calls, in setDisplayLayout, in service_epaper
  wpc,         \* where the task is
  mutex,       \* g_epdDataMutex
  wake,        \* g_epdWake
  data,        \* g_numPilots, g_nick and g_label
  hasData,     \* g_hasPilotData
  pending,     \* g_refreshPending
  reqInit, reqRefresh, reqFull, busy, initialized,  \* the flags
  age,         \* time since the last and the first new data, refresh and full refresh
  partials,    \* g_partialRefreshCount
  full, snap,  \* the task's copies
  panel        \* what the panel shows

mainVars == <<hasData, pending>>
flags == <<reqInit, reqRefresh, reqFull, busy, initialized>>
taskVars == <<full, snap, panel, partials>>
vars == <<mpc, wpc, mutex, wake, data, mainVars, flags, age, taskVars>>

Limit == [new |-> MinDefer, first |-> MaxDefer, refresh |-> MinInterval, full |-> FullEvery]

Init ==
  /\ mpc = "Idle" /\ wpc = "Wait" /\ mutex = None
  /\ wake = TRUE /\ reqInit = TRUE   \* epaperInit asks for the first wake
  /\ reqRefresh = FALSE /\ reqFull = FALSE /\ busy = FALSE /\ initialized = FALSE
  /\ data = [n |-> 1, row |-> [i \in 1 .. Slots |-> Blank]]
  /\ hasData = FALSE /\ pending = FALSE
  /\ age = [k \in DOMAIN Limit |-> 0] /\ partials = 0
  /\ full = FALSE /\ snap = data /\ panel = None

-----------------------------------------------------------------------------
(* loop().                                                                 *)

\* scheduleDeferredRefresh: when the data came last, and first.
Deferred(a) == [a EXCEPT !.new = 0, !.first = IF pending THEN @ ELSE 0]

\* The name of a pilot, for a row of the layout.
SetPilotSlotData(i, name) ==
  /\ mpc = "Idle" /\ mutex = None /\ i <= data.n
  /\ data' = [data EXCEPT !.row[i] = name]
  /\ hasData' = TRUE /\ pending' = TRUE /\ age' = Deferred(age)
  /\ UNCHANGED <<mpc, wpc, mutex, wake, flags, taskVars>>

\* The number of rows, under the mutex; then the rows above are cleared.
SetDisplayLayout(n) ==
  /\ mpc = "Idle" /\ mutex = None
  /\ mutex' = "main" /\ mpc' = "Layout"
  /\ data' = [data EXCEPT !.n = n]
  /\ UNCHANGED <<wpc, wake, mainVars, flags, age, taskVars>>

Cleared(d) == [d EXCEPT !.row = [i \in 1 .. Slots |-> IF i > d.n THEN Blank ELSE @[i]]]

ClearRows ==
  /\ mpc = "Layout"
  /\ mpc' = "Idle" /\ mutex' = None
  /\ data' = Cleared(data)
  /\ IF hasData THEN pending' = TRUE /\ age' = Deferred(age) ELSE UNCHANGED <<pending, age>>
  /\ UNCHANGED <<wpc, wake, hasData, flags, taskVars>>

\* service_epaper reads the flags of the task first, ...
Gate ==
  /\ mpc = "Idle"
  /\ initialized /\ ~busy /\ age.refresh >= MinInterval /\ hasData
  /\ mpc' = "Gated"
  /\ UNCHANGED <<wpc, mutex, wake, data, mainVars, flags, age, taskVars>>

Due == age.new >= MinDefer \/ age.first >= MaxDefer

\* Mutant: the count is not looked at.
FullDueByTime == age.full >= FullEvery

FullDue == age.full >= FullEvery \/ partials >= PartialLimit

\* ... decides between new data and maintenance, ...
Choose ==
  /\ mpc = "Gated"
  /\ IF (pending /\ Due) \/ (~pending /\ age.full >= FullEvery)
     THEN mpc' = "Chosen" /\ reqFull' = (~pending \/ FullDue)
     ELSE mpc' = "Idle" /\ UNCHANGED reqFull
  /\ UNCHANGED <<wpc, mutex, wake, data, mainVars, reqInit, reqRefresh, busy, initialized,
                 age, taskVars>>

\* ... and asks for it.
Request ==
  /\ mpc = "Chosen" /\ mpc' = "Requested"
  /\ reqRefresh' = TRUE
  /\ UNCHANGED <<wpc, mutex, wake, data, mainVars, reqInit, reqFull, busy, initialized,
                 age, taskVars>>

WakeTask ==
  /\ mpc = "Requested" /\ mpc' = "Idle"
  /\ pending' = FALSE /\ wake' = TRUE
  /\ UNCHANGED <<wpc, mutex, data, hasData, flags, age, taskVars>>

ServiceEpaper == ClearRows \/ Gate \/ Choose \/ Request \/ WakeTask

-----------------------------------------------------------------------------
(* epaperTask.                                                             *)

Take ==
  /\ wpc = "Wait" /\ wake
  /\ wpc' = "Woken" /\ wake' = FALSE
  /\ UNCHANGED <<mpc, mutex, data, mainVars, flags, age, taskVars>>

InitPanel ==
  /\ wpc = "Woken"
  /\ IF reqInit THEN reqInit' = FALSE /\ busy' = TRUE /\ wpc' = "Starting"
     ELSE wpc' = "Asked" /\ UNCHANGED <<reqInit, busy>>
  /\ UNCHANGED <<mpc, mutex, wake, data, mainVars, reqRefresh, reqFull, initialized, age,
                 taskVars>>

ShowStart ==
  /\ wpc = "Starting" /\ wpc' = "Asked"
  /\ panel' = Start
  /\ age' = [age EXCEPT !.refresh = 0, !.full = 0] /\ partials' = 0
  /\ initialized' = TRUE /\ busy' = FALSE
  /\ UNCHANGED <<mpc, mutex, wake, data, mainVars, reqInit, reqRefresh, reqFull, full, snap>>

\* Mutant: the request is dropped with the wake-up that was not for it.
TakeRequestOnce ==
  /\ wpc = "Asked"
  /\ IF reqRefresh /\ ~wake THEN reqRefresh' = FALSE /\ wpc' = "Cleared"
     ELSE wpc' = "Wait" /\ reqRefresh' = FALSE
  /\ UNCHANGED <<mpc, mutex, wake, data, mainVars, reqInit, reqFull, busy, initialized, age,
                 taskVars>>

\* The request is cleared first, so that one that comes meanwhile is kept.
TakeRequest ==
  /\ wpc = "Asked"
  /\ IF reqRefresh THEN reqRefresh' = FALSE /\ wpc' = "Cleared"
     ELSE wpc' = "Wait" /\ UNCHANGED reqRefresh
  /\ UNCHANGED <<mpc, mutex, wake, data, mainVars, reqInit, reqFull, busy, initialized, age,
                 taskVars>>

BecomeBusy ==
  /\ wpc = "Cleared" /\ wpc' = "Busy"
  /\ busy' = TRUE /\ full' = reqFull
  /\ UNCHANGED <<mpc, mutex, wake, data, mainVars, reqInit, reqRefresh, reqFull, initialized,
                 age, snap, panel, partials>>

\* Mutant: the copy does not wait for the mutex.
SnapshotUnlocked ==
  /\ wpc = "Busy"
  /\ UNCHANGED mutex /\ wpc' = "Copying"
  /\ snap' = [snap EXCEPT !.n = data.n]
  /\ UNCHANGED <<mpc, wake, data, mainVars, flags, age, full, panel, partials>>

\* The copy takes more than one step, under the mutex.
Snapshot ==
  /\ wpc = "Busy" /\ mutex = None
  /\ mutex' = "task" /\ wpc' = "Copying"
  /\ snap' = [snap EXCEPT !.n = data.n]
  /\ UNCHANGED <<mpc, wake, data, mainVars, flags, age, full, panel, partials>>

CopyRows ==
  /\ wpc = "Copying" /\ wpc' = "Rendering"
  /\ mutex' = IF mutex = "task" THEN None ELSE mutex
  /\ snap' = [snap EXCEPT !.row = data.row]
  /\ UNCHANGED <<mpc, wake, data, mainVars, flags, age, full, panel, partials>>

CountRefresh == partials' = IF full THEN 0 ELSE partials + 1

Render ==
  /\ wpc = "Rendering" /\ wpc' = "Wait"
  /\ panel' = snap
  /\ age' = [age EXCEPT !.refresh = 0, !.full = IF full THEN 0 ELSE @]
  /\ CountRefresh
  /\ busy' = FALSE
  /\ UNCHANGED <<mpc, mutex, wake, data, mainVars, reqInit, reqRefresh, reqFull, initialized,
                 full, snap>>

EpaperTask ==
  \/ Take \/ InitPanel \/ ShowStart \/ TakeRequest \/ BecomeBusy
  \/ Snapshot \/ CopyRows \/ Render

-----------------------------------------------------------------------------
\* A step of time is longer than what the code does between two waits: it
\* passes between calls of loop(), while the task waits or draws.
Tick ==
  /\ mpc = "Idle"
  /\ (wpc = "Wait" /\ ~wake) \/ wpc \in {"Starting", "Rendering"}
  /\ age' = [k \in DOMAIN age |-> IF age[k] < Limit[k] THEN age[k] + 1 ELSE age[k]]
  /\ UNCHANGED <<mpc, wpc, mutex, wake, data, mainVars, flags, taskVars>>

SetData ==
  \/ \E i \in 1 .. Slots, name \in Names : SetPilotSlotData(i, name)
  \/ \E n \in 1 .. Slots : SetDisplayLayout(n)

Next == SetData \/ ServiceEpaper \/ EpaperTask \/ Tick

Spec == Init /\ [][Next]_vars

\* Both threads run for ever, loop() comes to service_epaper between the messages
\* it handles, a mutex that is given back goes to the task that waits for it,
\* and time passes.
FairSpec ==
  /\ Spec
  /\ WF_vars(EpaperTask) /\ SF_vars(Snapshot)
  /\ WF_vars(ServiceEpaper) /\ SF_vars(Gate)
  /\ SF_vars(Tick)

-----------------------------------------------------------------------------
(* Properties.                                                             *)

\* Every variable has its type.
TypeOK ==
  /\ mpc \in {"Idle", "Layout", "Gated", "Chosen", "Requested"}
  /\ wpc \in {"Wait", "Woken", "Starting", "Asked", "Cleared", "Busy", "Copying", "Rendering"}
  /\ mutex \in {"main", "task", None}
  /\ {wake, hasData, pending, reqInit, reqRefresh, reqFull, busy, initialized, full} \subseteq BOOLEAN
  /\ data \in Layout /\ snap \in Layout /\ panel \in Layout \cup {Start, None}
  /\ age \in [new : 0 .. MinDefer, first : 0 .. MaxDefer, refresh : 0 .. MinInterval,
             full : 0 .. FullEvery]
  /\ partials \in 0 .. PartialLimit

\* Between the clearing of a request and its copy.
Asked == reqRefresh \/ wpc \in {"Cleared", "Busy"}

\* Accepted data that no refresh is coming for is on its way to the panel or
\* there: nothing that comes during a request, a copy or a drawing is forgotten.
NothingForgotten ==
  (hasData /\ ~pending /\ ~Asked /\ mpc # "Layout") =>
    IF wpc = "Copying" THEN snap.n = data.n
    ELSE IF wpc = "Rendering" THEN snap = data ELSE panel = data

\* The data between two calls of loop(): no row beyond the layout.
Whole == {d \in Layout : \A i \in 1 .. Slots : i > d.n => d.row[i] = Blank}

\* No row is drawn that the layout it is drawn with does not have.
DrawnAsOne == wpc = "Rendering" => snap \in Whole

\* PanelMirror over the state of both threads: the layout is set when its rows
\* are cleared too, the copy is taken with the mutex.
Mirror == INSTANCE PanelMirror WITH
  States <- Whole,
  data <- IF mpc = "Layout" THEN Cleared(data) ELSE data,
  copy <- IF wpc = "Copying" THEN data ELSE snap

\* The display implements what PanelMirror promises: whatever loop() sets while
\* a refresh is asked for, copied or drawn, the panel shows the data of one
\* moment, and never goes back.
ShowsOneMoment == Mirror!Spec

\* The panel is never refreshed in part more often than the limit in a row.
GhostingBounded == wpc = "Rendering" /\ partials = PartialLimit => full

\* A refresh that follows another too soon is one of maintenance, never a
\* partial one (see MinimumInterval).
EarlyIsFull ==
  [][(wpc # "Rendering" /\ wpc' = "Rendering" /\ age.refresh < MinInterval) => full]_vars

\* New data do not hold up a refresh for ever, however fast they come.
NotStarved == pending ~> ~pending

\* What is set and stays is shown.
DataIsShown ==
  \A d \in Layout : (hasData /\ data = d) ~> (panel = d \/ data # d)

\* What the comment in service_epaper says and the code does not do: the
\* minimum interval lies between any two refreshes.
MinimumInterval ==
  [][(wpc # "Rendering" /\ wpc' = "Rendering") => age.refresh >= MinInterval]_vars
===============================================================================
