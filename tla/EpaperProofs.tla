------------------------------ MODULE EpaperProofs ------------------------------
(***************************************************************************)
(* The display for any number of rows, any names, limits and intervals,    *)
(* and every interleaving of loop() and the display task.                  *)
(***************************************************************************)
EXTENDS Epaper, TLAPS

-----------------------------------------------------------------------------
(* The inductive invariant.                                                *)

\* The mutex is held by the thread that is in the middle of the data.
Locked ==
  /\ wpc = "Copying" <=> mutex = "task"
  /\ mpc = "Layout" <=> mutex = "main"

\* No refresh is asked for before the start screen is shown, and what is set
\* until then waits.
Started ==
  /\ busy <=> wpc \in {"Starting", "Busy", "Copying", "Rendering"}
  /\ initialized <=> panel # None
  /\ reqInit <=> ~initialized /\ wpc # "Starting"
  /\ wpc = "Starting" => ~initialized
  /\ ~initialized => /\ mpc \in {"Idle", "Layout"} /\ wpc \in {"Wait", "Woken", "Starting"}
                     /\ ~reqRefresh /\ (hasData => pending)

\* A request has a wake-up with it, or the task is about to look.
Woken == reqRefresh => wake \/ mpc = "Requested" \/ wpc \in {"Woken", "Asked"}

Drawing == wpc \in {"Busy", "Copying", "Rendering"}
Working == reqRefresh \/ wpc = "Cleared" \/ Drawing

\* While a request is being served, or right after, the data that came since
\* are not due: only maintenance can ask again.
NotAgain ==
  /\ Working /\ pending /\ mpc \in {"Idle", "Layout"} =>
       ~Due \/ busy \/ age.refresh < MinInterval
  /\ mpc = "Gated" /\ pending => ~Due \/ (~Working /\ age.refresh >= MinInterval)

\* What was asked for while another request was served is a full refresh.
SecondIsFull ==
  /\ Working /\ mpc = "Chosen" => reqFull
  /\ reqRefresh /\ (wpc = "Cleared" \/ Drawing) => reqFull

\* The choice between a partial and a full refresh is right when it is carried out.
ChosenWell(partial) ==
  /\ Drawing => full \/ partial
  /\ (Working /\ ~Drawing) \/ mpc = "Chosen" => reqFull \/ partial

MayBePartial == ChosenWell(partials < PartialLimit)
InTime == ChosenWell(age.refresh >= MinInterval)

\* NothingForgotten, also for the requests made just now.
Match == IF wpc = "Copying" THEN snap.n = data.n
         ELSE IF wpc = "Rendering" THEN snap = data ELSE panel = data
Remembered ==
  hasData /\ (~pending \/ mpc = "Requested") /\ ~Asked /\ mpc # "Layout" => Match

\* The data and their copy are whole but for the steps under the mutex.
Consistent ==
  /\ mpc # "Layout" => data \in Whole
  /\ IF wpc = "Copying" THEN snap.n = data.n ELSE snap \in Whole

EpaperInv ==
  /\ TypeOK /\ Locked /\ Started /\ Woken /\ NotAgain /\ SecondIsFull
  /\ MayBePartial /\ InTime /\ Remembered /\ Consistent

-----------------------------------------------------------------------------
(* Lemmas about the data.                                                  *)

AgeType == [new : 0 .. MinDefer, first : 0 .. MaxDefer, refresh : 0 .. MinInterval,
            full : 0 .. FullEvery]

\* New data are new, and no longer waiting than the first of them.
LEMMA DeferredAges ==
  ASSUME age \in AgeType
  PROVE  LET a == Deferred(age)
         IN /\ a \in AgeType /\ a.new = 0 /\ a.first = (IF pending THEN age.first ELSE 0)
            /\ a.refresh = age.refresh /\ a.full = age.full
<1> DEFINE f == IF pending THEN age.first ELSE 0
<1>1. f \in 0 .. MaxDefer BY EpaperAssumption DEF AgeType
<1>2. Deferred(age) = [age EXCEPT !.new = 0, !.first = f] BY DEF Deferred
<1> HIDE DEF f
<1>3. Deferred(age) = [new |-> 0, first |-> f, refresh |-> age.refresh, full |-> age.full]
  BY <1>2 DEF AgeType
<1> QED BY <1>1, <1>3, EpaperAssumption DEF AgeType, f

\* A refresh resets its age.
LEMMA RefreshedAges ==
  ASSUME age \in AgeType, NEW f \in 0 .. FullEvery
  PROVE  [age EXCEPT !.refresh = 0, !.full = f] \in AgeType
<1>1. 0 \in 0 .. MinInterval BY EpaperAssumption
<1> QED BY <1>1 DEF AgeType

\* Time passes for all of them, up to their limits.
LEMMA TickAges ==
  ASSUME age \in AgeType
  PROVE  LET a == [k \in DOMAIN age |-> IF age[k] < Limit[k] THEN age[k] + 1 ELSE age[k]]
         IN /\ a \in AgeType
            /\ a.refresh >= age.refresh
<1> DEFINE a == [k \in DOMAIN age |-> IF age[k] < Limit[k] THEN age[k] + 1 ELSE age[k]]
<1>1. DOMAIN age = {"new", "first", "refresh", "full"} BY DEF AgeType
<1>2. /\ a.new = (IF age.new < MinDefer THEN age.new + 1 ELSE age.new)
      /\ a.first = (IF age.first < MaxDefer THEN age.first + 1 ELSE age.first)
      /\ a.refresh = (IF age.refresh < MinInterval THEN age.refresh + 1 ELSE age.refresh)
      /\ a.full = (IF age.full < FullEvery THEN age.full + 1 ELSE age.full)
  BY <1>1 DEF Limit
<1>3. a = [new |-> a.new, first |-> a.first, refresh |-> a.refresh, full |-> a.full]
  BY <1>1
<1> HIDE DEF a
<1>4. /\ a.new \in 0 .. MinDefer /\ a.first \in 0 .. MaxDefer
      /\ a.refresh \in 0 .. MinInterval /\ a.full \in 0 .. FullEvery
  BY <1>2, EpaperAssumption DEF AgeType
<1>5. a.refresh >= age.refresh
  BY <1>2, EpaperAssumption DEF AgeType
<1>6. a \in AgeType BY <1>3, <1>4 DEF AgeType
<1> QED BY <1>5, <1>6 DEF a

\* A name set in a row of the layout keeps the layout ...
LEMMA RowKeepsLayout ==
  ASSUME NEW d \in Layout, NEW i \in 1 .. Slots, NEW name \in Names \cup {Blank}
  PROVE  /\ [d EXCEPT !.row[i] = name] \in Layout
         /\ [d EXCEPT !.row[i] = name].n = d.n
         /\ \A j \in 1 .. Slots \ {i} : [d EXCEPT !.row[i] = name].row[j] = d.row[j]
  BY DEF Layout

\* ... and keeps the data whole.
LEMMA RowKeepsWhole ==
  ASSUME NEW d \in Whole, NEW i \in 1 .. Slots, i <= d.n, NEW name \in Names \cup {Blank}
  PROVE  [d EXCEPT !.row[i] = name] \in Whole
<1>1. d \in Layout /\ \A j \in 1 .. Slots : j > d.n => d.row[j] = Blank
  BY DEF Whole
<1>2. ASSUME NEW j \in 1 .. Slots, j > d.n PROVE j # i /\ d.row[j] = Blank
  BY <1>1, <1>2 DEF Layout
<1> DEFINE e == [d EXCEPT !.row[i] = name]
<1>3. /\ e \in Layout /\ e.n = d.n
      /\ \A j \in 1 .. Slots \ {i} : e.row[j] = d.row[j]
  BY <1>1, RowKeepsLayout
<1> HIDE DEF e
<1>4. e \in Whole BY <1>2, <1>3 DEF Whole
<1> QED BY <1>4 DEF e

\* Clearing the rows beyond the layout makes the data whole, and only then
\* changes them.
LEMMA ClearedIsWhole ==
  ASSUME NEW d \in Layout
  PROVE  /\ Cleared(d) \in Whole
         /\ d \in Whole => Cleared(d) = d
<1> DEFINE rows == [i \in 1 .. Slots |-> IF i > d.n THEN Blank ELSE d.row[i]]
<1>1. Cleared(d) = [d EXCEPT !.row = rows]
  BY DEF Cleared
<1>2. rows \in [1 .. Slots -> Names \cup {Blank}]
  BY DEF Layout
<1>3. Cleared(d) \in Whole
  <2>1. \A i \in 1 .. Slots : i > d.n => rows[i] = Blank OBVIOUS
  <2> HIDE DEF rows
  <2> QED BY <1>1, <1>2, <2>1 DEF Layout, Whole
<1>4. ASSUME d \in Whole PROVE Cleared(d) = d
  <2>1. \A i \in 1 .. Slots : rows[i] = d.row[i] BY <1>4 DEF Whole
  <2>2. rows = d.row BY <2>1, <1>2 DEF Layout
  <2> HIDE DEF rows
  <2> QED BY <1>1, <2>2 DEF Layout
<1> QED BY <1>3, <1>4

-----------------------------------------------------------------------------
(* No step of either thread disturbs the invariant.                        *)

LEMMA TypeOKStep == EpaperInv /\ Next => TypeOK'
<1> SUFFICES ASSUME EpaperInv, Next PROVE TypeOK'
  OBVIOUS
<1> USE DEF EpaperInv, mainVars, flags, taskVars
<1>1. CASE \E i \in 1 .. Slots, name \in Names : SetPilotSlotData(i, name)
  <2> PICK i \in 1 .. Slots, name \in Names : SetPilotSlotData(i, name)
    BY <1>1
  <2>1. data' \in Layout BY RowKeepsLayout DEF SetPilotSlotData, TypeOK
  <2> QED BY <2>1, DeferredAges DEF SetPilotSlotData, TypeOK, AgeType
<1>2. CASE \E n \in 1 .. Slots : SetDisplayLayout(n)
  <2>1. data' \in Layout BY <1>2 DEF SetDisplayLayout, TypeOK, Layout
  <2> QED BY <1>2, <2>1 DEF SetDisplayLayout, TypeOK
<1>3. CASE ClearRows
  <2>1. data' \in Layout BY <1>3, ClearedIsWhole DEF ClearRows, TypeOK, Whole
  <2> QED BY <1>3, <2>1, DeferredAges DEF ClearRows, TypeOK, AgeType
<1>4. CASE Gate
  BY <1>4, EpaperAssumption DEF Gate, TypeOK, Layout
<1>5. CASE Choose
  BY <1>5, EpaperAssumption DEF Choose, FullDue, TypeOK, Layout
<1>6. CASE Request
  BY <1>6, EpaperAssumption DEF Request, TypeOK, Layout
<1>7. CASE WakeTask
  BY <1>7, EpaperAssumption DEF WakeTask, TypeOK, Layout
<1>8. CASE Take
  BY <1>8, EpaperAssumption DEF Take, TypeOK, Layout
<1>9. CASE InitPanel
  BY <1>9, EpaperAssumption DEF InitPanel, TypeOK, Layout
<1>10. CASE ShowStart
  <2>1. age' \in AgeType
    <3>1. age \in AgeType /\ 0 \in 0 .. FullEvery BY EpaperAssumption DEF TypeOK, AgeType
    <3> QED BY <1>10, <3>1, RefreshedAges DEF ShowStart
  <2>2. partials' \in 0 .. PartialLimit BY <1>10, EpaperAssumption DEF ShowStart
  <2> QED BY <1>10, <2>1, <2>2 DEF ShowStart, TypeOK, AgeType
<1>11. CASE TakeRequest
  BY <1>11, EpaperAssumption DEF TakeRequest, TypeOK, Layout
<1>12. CASE BecomeBusy
  BY <1>12, EpaperAssumption DEF BecomeBusy, TypeOK, Layout
<1>13. CASE Snapshot
  BY <1>13, EpaperAssumption DEF Snapshot, TypeOK, Layout
<1>14. CASE CopyRows
  BY <1>14, EpaperAssumption DEF CopyRows, TypeOK, Layout
<1>15. CASE Render
  <2>1. partials' \in 0 .. PartialLimit
    <3>1. partials \in Nat /\ PartialLimit \in Nat /\ partials <= PartialLimit
      BY EpaperAssumption DEF TypeOK
    <3>2. full \/ partials < PartialLimit BY <1>15 DEF Render, MayBePartial, ChosenWell, Drawing
    <3> QED BY <1>15, <3>1, <3>2 DEF Render, CountRefresh
  <2>2. age' \in AgeType
    <3>1. age \in AgeType /\ age.full \in 0 .. FullEvery BY DEF TypeOK, AgeType
    <3> DEFINE f == IF full THEN 0 ELSE age.full
    <3>2. f \in 0 .. FullEvery BY <3>1, EpaperAssumption
    <3>3. age' = [age EXCEPT !.refresh = 0, !.full = f] BY <1>15 DEF Render
    <3> HIDE DEF f
    <3> QED BY <3>1, <3>2, <3>3, RefreshedAges
  <2> QED BY <1>15, <2>1, <2>2 DEF Render, TypeOK, AgeType
<1>16. CASE Tick
  BY <1>16, TickAges DEF Tick, TypeOK, AgeType
<1> QED
  BY <1>1, <1>2, <1>3, <1>4, <1>5, <1>6, <1>7, <1>8, <1>9, <1>10, <1>11, <1>12, <1>13, <1>14,
     <1>15, <1>16
  DEF Next, SetData, ServiceEpaper, EpaperTask

LEMMA LockedStep == EpaperInv /\ Next => Locked'
<1> SUFFICES ASSUME EpaperInv, Next PROVE Locked'
  OBVIOUS
<1> USE DEF EpaperInv, mainVars, flags, taskVars
<1>1. CASE \E i \in 1 .. Slots, name \in Names : SetPilotSlotData(i, name)
  BY <1>1, EpaperAssumption DEF SetPilotSlotData, Deferred, TypeOK, Locked
<1>2. CASE \E n \in 1 .. Slots : SetDisplayLayout(n)
  BY <1>2, EpaperAssumption DEF SetDisplayLayout, TypeOK, Locked
<1>3. CASE ClearRows
  BY <1>3, EpaperAssumption DEF ClearRows, Deferred, TypeOK, Locked
<1>4. CASE Gate
  BY <1>4, EpaperAssumption DEF Gate, TypeOK, Locked
<1>5. CASE Choose
  BY <1>5, EpaperAssumption DEF Choose, FullDue, TypeOK, Locked
<1>6. CASE Request
  BY <1>6, EpaperAssumption DEF Request, TypeOK, Locked
<1>7. CASE WakeTask
  BY <1>7, EpaperAssumption DEF WakeTask, TypeOK, Locked
<1>8. CASE Take
  BY <1>8, EpaperAssumption DEF Take, TypeOK, Locked
<1>9. CASE InitPanel
  BY <1>9, EpaperAssumption DEF InitPanel, TypeOK, Locked
<1>10. CASE ShowStart
  BY <1>10, EpaperAssumption DEF ShowStart, TypeOK, Locked
<1>11. CASE TakeRequest
  BY <1>11, EpaperAssumption DEF TakeRequest, TypeOK, Locked
<1>12. CASE BecomeBusy
  BY <1>12, EpaperAssumption DEF BecomeBusy, TypeOK, Locked
<1>13. CASE Snapshot
  BY <1>13, EpaperAssumption DEF Snapshot, TypeOK, Locked
<1>14. CASE CopyRows
  BY <1>14, EpaperAssumption DEF CopyRows, TypeOK, Locked
<1>15. CASE Render
  BY <1>15, EpaperAssumption DEF Render, CountRefresh, TypeOK, Locked
<1>16. CASE Tick
  BY <1>16, EpaperAssumption DEF Tick, TypeOK, Locked
<1> QED
  BY <1>1, <1>2, <1>3, <1>4, <1>5, <1>6, <1>7, <1>8, <1>9, <1>10, <1>11, <1>12, <1>13, <1>14,
     <1>15, <1>16
  DEF Next, SetData, ServiceEpaper, EpaperTask

LEMMA StartedStep == EpaperInv /\ Next => Started'
<1> SUFFICES ASSUME EpaperInv, Next PROVE Started'
  OBVIOUS
<1> USE DEF EpaperInv, mainVars, flags, taskVars
<1>1. CASE \E i \in 1 .. Slots, name \in Names : SetPilotSlotData(i, name)
  BY <1>1, EpaperAssumption DEF SetPilotSlotData, Deferred, TypeOK, Started, Layout
<1>2. CASE \E n \in 1 .. Slots : SetDisplayLayout(n)
  BY <1>2, EpaperAssumption DEF SetDisplayLayout, TypeOK, Started, Layout
<1>3. CASE ClearRows
  BY <1>3, EpaperAssumption DEF ClearRows, Deferred, TypeOK, Started, Layout
<1>4. CASE Gate
  BY <1>4, EpaperAssumption DEF Gate, TypeOK, Started, Layout
<1>5. CASE Choose
  BY <1>5, EpaperAssumption DEF Choose, FullDue, TypeOK, Started, Layout
<1>6. CASE Request
  BY <1>6, EpaperAssumption DEF Request, TypeOK, Started, Layout
<1>7. CASE WakeTask
  BY <1>7, EpaperAssumption DEF WakeTask, TypeOK, Started, Layout
<1>8. CASE Take
  BY <1>8, EpaperAssumption DEF Take, TypeOK, Started, Layout
<1>9. CASE InitPanel
  BY <1>9, EpaperAssumption DEF InitPanel, TypeOK, Started, Layout
<1>10. CASE ShowStart
  BY <1>10, EpaperAssumption DEF ShowStart, TypeOK, Started, Layout
<1>11. CASE TakeRequest
  BY <1>11, EpaperAssumption DEF TakeRequest, TypeOK, Started, Layout
<1>12. CASE BecomeBusy
  BY <1>12, EpaperAssumption DEF BecomeBusy, TypeOK, Started, Layout
<1>13. CASE Snapshot
  BY <1>13, EpaperAssumption DEF Snapshot, TypeOK, Started, Layout
<1>14. CASE CopyRows
  BY <1>14, EpaperAssumption DEF CopyRows, TypeOK, Started, Layout
<1>15. CASE Render
  BY <1>15, EpaperAssumption DEF Render, CountRefresh, TypeOK, Started, Layout
<1>16. CASE Tick
  BY <1>16, EpaperAssumption DEF Tick, TypeOK, Started, Layout
<1> QED
  BY <1>1, <1>2, <1>3, <1>4, <1>5, <1>6, <1>7, <1>8, <1>9, <1>10, <1>11, <1>12, <1>13, <1>14,
     <1>15, <1>16
  DEF Next, SetData, ServiceEpaper, EpaperTask

LEMMA WokenStep == EpaperInv /\ Next => Woken'
<1> SUFFICES ASSUME EpaperInv, Next PROVE Woken'
  OBVIOUS
<1> USE DEF EpaperInv, mainVars, flags, taskVars
<1>1. CASE \E i \in 1 .. Slots, name \in Names : SetPilotSlotData(i, name)
  BY <1>1, EpaperAssumption DEF SetPilotSlotData, Deferred, TypeOK, Started, Woken
<1>2. CASE \E n \in 1 .. Slots : SetDisplayLayout(n)
  BY <1>2, EpaperAssumption DEF SetDisplayLayout, TypeOK, Started, Woken
<1>3. CASE ClearRows
  BY <1>3, EpaperAssumption DEF ClearRows, Deferred, TypeOK, Started, Woken
<1>4. CASE Gate
  BY <1>4, EpaperAssumption DEF Gate, TypeOK, Started, Woken
<1>5. CASE Choose
  BY <1>5, EpaperAssumption DEF Choose, FullDue, TypeOK, Started, Woken
<1>6. CASE Request
  BY <1>6, EpaperAssumption DEF Request, TypeOK, Started, Woken
<1>7. CASE WakeTask
  BY <1>7, EpaperAssumption DEF WakeTask, TypeOK, Started, Woken
<1>8. CASE Take
  BY <1>8, EpaperAssumption DEF Take, TypeOK, Started, Woken
<1>9. CASE InitPanel
  BY <1>9, EpaperAssumption DEF InitPanel, TypeOK, Started, Woken
<1>10. CASE ShowStart
  BY <1>10, EpaperAssumption DEF ShowStart, TypeOK, Started, Woken
<1>11. CASE TakeRequest
  BY <1>11, EpaperAssumption DEF TakeRequest, TypeOK, Started, Woken
<1>12. CASE BecomeBusy
  BY <1>12, EpaperAssumption DEF BecomeBusy, TypeOK, Started, Woken
<1>13. CASE Snapshot
  BY <1>13, EpaperAssumption DEF Snapshot, TypeOK, Started, Woken
<1>14. CASE CopyRows
  BY <1>14, EpaperAssumption DEF CopyRows, TypeOK, Started, Woken
<1>15. CASE Render
  BY <1>15, EpaperAssumption DEF Render, CountRefresh, TypeOK, Started, Woken
<1>16. CASE Tick
  BY <1>16, EpaperAssumption DEF Tick, TypeOK, Started, Woken
<1> QED
  BY <1>1, <1>2, <1>3, <1>4, <1>5, <1>6, <1>7, <1>8, <1>9, <1>10, <1>11, <1>12, <1>13, <1>14,
     <1>15, <1>16
  DEF Next, SetData, ServiceEpaper, EpaperTask

LEMMA NotAgainStep == EpaperInv /\ Next => NotAgain'
<1> SUFFICES ASSUME EpaperInv, Next PROVE NotAgain'
  OBVIOUS
<1> USE DEF EpaperInv, mainVars, flags, taskVars
<1>1. CASE \E i \in 1 .. Slots, name \in Names : SetPilotSlotData(i, name)
  BY <1>1, EpaperAssumption DEF SetPilotSlotData, Deferred, TypeOK, Started, Woken, NotAgain, Working, Drawing, Due
<1>2. CASE \E n \in 1 .. Slots : SetDisplayLayout(n)
  BY <1>2, EpaperAssumption DEF SetDisplayLayout, TypeOK, Started, Woken, NotAgain, Working, Drawing, Due
<1>3. CASE ClearRows
  <2>1. CASE hasData
    BY <1>3, <2>1, DeferredAges, EpaperAssumption DEF ClearRows, TypeOK, AgeType, NotAgain, Working, Drawing, Due
  <2>2. CASE ~hasData
    BY <1>3, <2>2, EpaperAssumption DEF ClearRows, TypeOK, NotAgain, Working, Drawing, Due
  <2> QED BY <2>1, <2>2
<1>4. CASE Gate
  BY <1>4, EpaperAssumption DEF Gate, TypeOK, Started, Woken, NotAgain, Working, Drawing, Due
<1>5. CASE Choose
  BY <1>5, EpaperAssumption DEF Choose, FullDue, TypeOK, Started, Woken, NotAgain, Working, Drawing, Due
<1>6. CASE Request
  BY <1>6, EpaperAssumption DEF Request, TypeOK, Started, Woken, NotAgain, Working, Drawing, Due
<1>7. CASE WakeTask
  BY <1>7, EpaperAssumption DEF WakeTask, TypeOK, Started, Woken, NotAgain, Working, Drawing, Due
<1>8. CASE Take
  BY <1>8, EpaperAssumption DEF Take, TypeOK, Started, Woken, NotAgain, Working, Drawing, Due
<1>9. CASE InitPanel
  BY <1>9, EpaperAssumption DEF InitPanel, TypeOK, Started, Woken, NotAgain, Working, Drawing, Due
<1>10. CASE ShowStart
  BY <1>10, EpaperAssumption DEF ShowStart, TypeOK, Started, Woken, NotAgain, Working, Drawing, Due
<1>11. CASE TakeRequest
  BY <1>11, EpaperAssumption DEF TakeRequest, TypeOK, Started, Woken, NotAgain, Working, Drawing, Due
<1>12. CASE BecomeBusy
  BY <1>12, EpaperAssumption DEF BecomeBusy, TypeOK, Started, Woken, NotAgain, Working, Drawing, Due
<1>13. CASE Snapshot
  BY <1>13, EpaperAssumption DEF Snapshot, TypeOK, Started, Woken, NotAgain, Working, Drawing, Due
<1>14. CASE CopyRows
  BY <1>14, EpaperAssumption DEF CopyRows, TypeOK, Started, Woken, NotAgain, Working, Drawing, Due
<1>15. CASE Render
  BY <1>15, EpaperAssumption DEF Render, CountRefresh, TypeOK, Started, Woken, NotAgain, Working, Drawing, Due
<1>16. CASE Tick
  BY <1>16, EpaperAssumption DEF Tick, Limit, TypeOK, Started, Woken, NotAgain, Working, Drawing, Due
<1> QED
  BY <1>1, <1>2, <1>3, <1>4, <1>5, <1>6, <1>7, <1>8, <1>9, <1>10, <1>11, <1>12, <1>13, <1>14,
     <1>15, <1>16
  DEF Next, SetData, ServiceEpaper, EpaperTask

LEMMA SecondIsFullStep == EpaperInv /\ Next => SecondIsFull'
<1> SUFFICES ASSUME EpaperInv, Next PROVE SecondIsFull'
  OBVIOUS
<1> USE DEF EpaperInv, mainVars, flags, taskVars
<1>1. CASE \E i \in 1 .. Slots, name \in Names : SetPilotSlotData(i, name)
  BY <1>1, EpaperAssumption DEF SetPilotSlotData, Deferred, TypeOK, Started, NotAgain, SecondIsFull, Working, Drawing, Due
<1>2. CASE \E n \in 1 .. Slots : SetDisplayLayout(n)
  BY <1>2, EpaperAssumption DEF SetDisplayLayout, TypeOK, Started, NotAgain, SecondIsFull, Working, Drawing, Due
<1>3. CASE ClearRows
  BY <1>3, EpaperAssumption DEF ClearRows, Deferred, TypeOK, Started, NotAgain, SecondIsFull, Working, Drawing, Due
<1>4. CASE Gate
  BY <1>4, EpaperAssumption DEF Gate, TypeOK, Started, NotAgain, SecondIsFull, Working, Drawing, Due
<1>5. CASE Choose
  BY <1>5, EpaperAssumption DEF Choose, FullDue, TypeOK, Started, NotAgain, SecondIsFull, Working, Drawing, Due
<1>6. CASE Request
  BY <1>6, EpaperAssumption DEF Request, TypeOK, Started, NotAgain, SecondIsFull, Working, Drawing, Due
<1>7. CASE WakeTask
  BY <1>7, EpaperAssumption DEF WakeTask, TypeOK, Started, NotAgain, SecondIsFull, Working, Drawing, Due
<1>8. CASE Take
  BY <1>8, EpaperAssumption DEF Take, TypeOK, Started, NotAgain, SecondIsFull, Working, Drawing, Due
<1>9. CASE InitPanel
  BY <1>9, EpaperAssumption DEF InitPanel, TypeOK, Started, NotAgain, SecondIsFull, Working, Drawing, Due
<1>10. CASE ShowStart
  BY <1>10, EpaperAssumption DEF ShowStart, TypeOK, Started, NotAgain, SecondIsFull, Working, Drawing, Due
<1>11. CASE TakeRequest
  BY <1>11, EpaperAssumption DEF TakeRequest, TypeOK, Started, NotAgain, SecondIsFull, Working, Drawing, Due
<1>12. CASE BecomeBusy
  BY <1>12, EpaperAssumption DEF BecomeBusy, TypeOK, Started, NotAgain, SecondIsFull, Working, Drawing, Due
<1>13. CASE Snapshot
  BY <1>13, EpaperAssumption DEF Snapshot, TypeOK, Started, NotAgain, SecondIsFull, Working, Drawing, Due
<1>14. CASE CopyRows
  BY <1>14, EpaperAssumption DEF CopyRows, TypeOK, Started, NotAgain, SecondIsFull, Working, Drawing, Due
<1>15. CASE Render
  BY <1>15, EpaperAssumption DEF Render, CountRefresh, TypeOK, Started, NotAgain, SecondIsFull, Working, Drawing, Due
<1>16. CASE Tick
  BY <1>16, EpaperAssumption DEF Tick, Limit, TypeOK, Started, NotAgain, SecondIsFull, Working, Drawing, Due
<1> QED
  BY <1>1, <1>2, <1>3, <1>4, <1>5, <1>6, <1>7, <1>8, <1>9, <1>10, <1>11, <1>12, <1>13, <1>14,
     <1>15, <1>16
  DEF Next, SetData, ServiceEpaper, EpaperTask

LEMMA MayBePartialStep == EpaperInv /\ Next => MayBePartial'
<1> SUFFICES ASSUME EpaperInv, Next PROVE MayBePartial'
  OBVIOUS
<1> USE DEF EpaperInv, mainVars, flags, taskVars
<1>1. CASE \E i \in 1 .. Slots, name \in Names : SetPilotSlotData(i, name)
  BY <1>1, EpaperAssumption DEF SetPilotSlotData, Deferred, TypeOK, Started, NotAgain, SecondIsFull, MayBePartial, ChosenWell, Working, Drawing, Due
<1>2. CASE \E n \in 1 .. Slots : SetDisplayLayout(n)
  BY <1>2, EpaperAssumption DEF SetDisplayLayout, TypeOK, Started, NotAgain, SecondIsFull, MayBePartial, ChosenWell, Working, Drawing, Due
<1>3. CASE ClearRows
  BY <1>3, EpaperAssumption DEF ClearRows, Deferred, TypeOK, Started, NotAgain, SecondIsFull, MayBePartial, ChosenWell, Working, Drawing, Due
<1>4. CASE Gate
  BY <1>4, EpaperAssumption DEF Gate, TypeOK, Started, NotAgain, SecondIsFull, MayBePartial, ChosenWell, Working, Drawing, Due
<1>5. CASE Choose
  BY <1>5, EpaperAssumption DEF Choose, FullDue, TypeOK, Started, NotAgain, SecondIsFull, MayBePartial, ChosenWell, Working, Drawing, Due
<1>6. CASE Request
  BY <1>6, EpaperAssumption DEF Request, TypeOK, Started, NotAgain, SecondIsFull, MayBePartial, ChosenWell, Working, Drawing, Due
<1>7. CASE WakeTask
  BY <1>7, EpaperAssumption DEF WakeTask, TypeOK, Started, NotAgain, SecondIsFull, MayBePartial, ChosenWell, Working, Drawing, Due
<1>8. CASE Take
  BY <1>8, EpaperAssumption DEF Take, TypeOK, Started, NotAgain, SecondIsFull, MayBePartial, ChosenWell, Working, Drawing, Due
<1>9. CASE InitPanel
  BY <1>9, EpaperAssumption DEF InitPanel, TypeOK, Started, NotAgain, SecondIsFull, MayBePartial, ChosenWell, Working, Drawing, Due
<1>10. CASE ShowStart
  BY <1>10, EpaperAssumption DEF ShowStart, TypeOK, Started, NotAgain, SecondIsFull, MayBePartial, ChosenWell, Working, Drawing, Due
<1>11. CASE TakeRequest
  BY <1>11, EpaperAssumption DEF TakeRequest, TypeOK, Started, NotAgain, SecondIsFull, MayBePartial, ChosenWell, Working, Drawing, Due
<1>12. CASE BecomeBusy
  BY <1>12, EpaperAssumption DEF BecomeBusy, TypeOK, Started, NotAgain, SecondIsFull, MayBePartial, ChosenWell, Working, Drawing, Due
<1>13. CASE Snapshot
  BY <1>13, EpaperAssumption DEF Snapshot, TypeOK, Started, NotAgain, SecondIsFull, MayBePartial, ChosenWell, Working, Drawing, Due
<1>14. CASE CopyRows
  BY <1>14, EpaperAssumption DEF CopyRows, TypeOK, Started, NotAgain, SecondIsFull, MayBePartial, ChosenWell, Working, Drawing, Due
<1>15. CASE Render
  BY <1>15, EpaperAssumption DEF Render, CountRefresh, TypeOK, Started, NotAgain, SecondIsFull, MayBePartial, ChosenWell, Working, Drawing, Due
<1>16. CASE Tick
  BY <1>16, EpaperAssumption DEF Tick, Limit, TypeOK, Started, NotAgain, SecondIsFull, MayBePartial, ChosenWell, Working, Drawing, Due
<1> QED
  BY <1>1, <1>2, <1>3, <1>4, <1>5, <1>6, <1>7, <1>8, <1>9, <1>10, <1>11, <1>12, <1>13, <1>14,
     <1>15, <1>16
  DEF Next, SetData, ServiceEpaper, EpaperTask

LEMMA InTimeStep == EpaperInv /\ Next => InTime'
<1> SUFFICES ASSUME EpaperInv, Next PROVE InTime'
  OBVIOUS
<1> USE DEF EpaperInv, mainVars, flags, taskVars
<1>1. CASE \E i \in 1 .. Slots, name \in Names : SetPilotSlotData(i, name)
  BY <1>1, EpaperAssumption DEF SetPilotSlotData, Deferred, TypeOK, Started, NotAgain, SecondIsFull, InTime, ChosenWell, Working, Drawing, Due
<1>2. CASE \E n \in 1 .. Slots : SetDisplayLayout(n)
  BY <1>2, EpaperAssumption DEF SetDisplayLayout, TypeOK, Started, NotAgain, SecondIsFull, InTime, ChosenWell, Working, Drawing, Due
<1>3. CASE ClearRows
  BY <1>3, EpaperAssumption DEF ClearRows, Deferred, TypeOK, Started, NotAgain, SecondIsFull, InTime, ChosenWell, Working, Drawing, Due
<1>4. CASE Gate
  BY <1>4, EpaperAssumption DEF Gate, TypeOK, Started, NotAgain, SecondIsFull, InTime, ChosenWell, Working, Drawing, Due
<1>5. CASE Choose
  BY <1>5, EpaperAssumption DEF Choose, FullDue, TypeOK, Started, NotAgain, SecondIsFull, InTime, ChosenWell, Working, Drawing, Due
<1>6. CASE Request
  BY <1>6, EpaperAssumption DEF Request, TypeOK, Started, NotAgain, SecondIsFull, InTime, ChosenWell, Working, Drawing, Due
<1>7. CASE WakeTask
  BY <1>7, EpaperAssumption DEF WakeTask, TypeOK, Started, NotAgain, SecondIsFull, InTime, ChosenWell, Working, Drawing, Due
<1>8. CASE Take
  BY <1>8, EpaperAssumption DEF Take, TypeOK, Started, NotAgain, SecondIsFull, InTime, ChosenWell, Working, Drawing, Due
<1>9. CASE InitPanel
  BY <1>9, EpaperAssumption DEF InitPanel, TypeOK, Started, NotAgain, SecondIsFull, InTime, ChosenWell, Working, Drawing, Due
<1>10. CASE ShowStart
  BY <1>10, EpaperAssumption DEF ShowStart, TypeOK, Started, NotAgain, SecondIsFull, InTime, ChosenWell, Working, Drawing, Due
<1>11. CASE TakeRequest
  BY <1>11, EpaperAssumption DEF TakeRequest, TypeOK, Started, NotAgain, SecondIsFull, InTime, ChosenWell, Working, Drawing, Due
<1>12. CASE BecomeBusy
  BY <1>12, EpaperAssumption DEF BecomeBusy, TypeOK, Started, NotAgain, SecondIsFull, InTime, ChosenWell, Working, Drawing, Due
<1>13. CASE Snapshot
  BY <1>13, EpaperAssumption DEF Snapshot, TypeOK, Started, NotAgain, SecondIsFull, InTime, ChosenWell, Working, Drawing, Due
<1>14. CASE CopyRows
  BY <1>14, EpaperAssumption DEF CopyRows, TypeOK, Started, NotAgain, SecondIsFull, InTime, ChosenWell, Working, Drawing, Due
<1>15. CASE Render
  BY <1>15, EpaperAssumption DEF Render, CountRefresh, TypeOK, Started, NotAgain, SecondIsFull, InTime, ChosenWell, Working, Drawing, Due
<1>16. CASE Tick
  BY <1>16, EpaperAssumption DEF Tick, Limit, TypeOK, Started, NotAgain, SecondIsFull, InTime, ChosenWell, Working, Drawing, Due
<1> QED
  BY <1>1, <1>2, <1>3, <1>4, <1>5, <1>6, <1>7, <1>8, <1>9, <1>10, <1>11, <1>12, <1>13, <1>14,
     <1>15, <1>16
  DEF Next, SetData, ServiceEpaper, EpaperTask

LEMMA RememberedStep == EpaperInv /\ Next => Remembered'
<1> SUFFICES ASSUME EpaperInv, Next PROVE Remembered'
  OBVIOUS
<1> USE DEF EpaperInv, mainVars, flags, taskVars
<1>1. CASE \E i \in 1 .. Slots, name \in Names : SetPilotSlotData(i, name)
  BY <1>1, EpaperAssumption DEF SetPilotSlotData, Deferred, TypeOK, Locked, Started, Remembered, Match, Asked, Layout
<1>2. CASE \E n \in 1 .. Slots : SetDisplayLayout(n)
  BY <1>2, EpaperAssumption DEF SetDisplayLayout, TypeOK, Locked, Started, Remembered, Match, Asked, Layout
<1>3. CASE ClearRows
  BY <1>3, EpaperAssumption DEF ClearRows, Deferred, Cleared, TypeOK, Locked, Started, Remembered, Match, Asked, Layout
<1>4. CASE Gate
  BY <1>4, EpaperAssumption DEF Gate, TypeOK, Locked, Started, Remembered, Match, Asked, Layout
<1>5. CASE Choose
  BY <1>5, EpaperAssumption DEF Choose, FullDue, TypeOK, Locked, Started, Remembered, Match, Asked, Layout
<1>6. CASE Request
  BY <1>6, EpaperAssumption DEF Request, TypeOK, Locked, Started, Remembered, Match, Asked, Layout
<1>7. CASE WakeTask
  BY <1>7, EpaperAssumption DEF WakeTask, TypeOK, Locked, Started, Remembered, Match, Asked, Layout
<1>8. CASE Take
  BY <1>8, EpaperAssumption DEF Take, TypeOK, Locked, Started, Remembered, Match, Asked, Layout
<1>9. CASE InitPanel
  BY <1>9, EpaperAssumption DEF InitPanel, TypeOK, Locked, Started, Remembered, Match, Asked, Layout
<1>10. CASE ShowStart
  BY <1>10, EpaperAssumption DEF ShowStart, TypeOK, Locked, Started, Remembered, Match, Asked, Layout
<1>11. CASE TakeRequest
  BY <1>11, EpaperAssumption DEF TakeRequest, TypeOK, Locked, Started, Remembered, Match, Asked, Layout
<1>12. CASE BecomeBusy
  BY <1>12, EpaperAssumption DEF BecomeBusy, TypeOK, Locked, Started, Remembered, Match, Asked, Layout
<1>13. CASE Snapshot
  BY <1>13, EpaperAssumption DEF Snapshot, TypeOK, Locked, Started, Remembered, Match, Asked, Layout
<1>14. CASE CopyRows
  BY <1>14, EpaperAssumption DEF CopyRows, TypeOK, Locked, Started, Remembered, Match, Asked, Layout
<1>15. CASE Render
  BY <1>15, EpaperAssumption DEF Render, CountRefresh, TypeOK, Locked, Started, Remembered, Match, Asked, Layout
<1>16. CASE Tick
  BY <1>16, EpaperAssumption DEF Tick, TypeOK, Locked, Started, Remembered, Match, Asked, Layout
<1> QED
  BY <1>1, <1>2, <1>3, <1>4, <1>5, <1>6, <1>7, <1>8, <1>9, <1>10, <1>11, <1>12, <1>13, <1>14,
     <1>15, <1>16
  DEF Next, SetData, ServiceEpaper, EpaperTask

LEMMA ConsistentStep == EpaperInv /\ Next => Consistent'
<1> SUFFICES ASSUME EpaperInv, Next PROVE Consistent'
  OBVIOUS
<1> USE DEF EpaperInv, mainVars, flags, taskVars
<1>1. CASE \E i \in 1 .. Slots, name \in Names : SetPilotSlotData(i, name)
  <2> PICK i \in 1 .. Slots, name \in Names : SetPilotSlotData(i, name)
    BY <1>1
  <2>1. data \in Whole /\ i <= data.n /\ data' = [data EXCEPT !.row[i] = name]
    BY DEF SetPilotSlotData, Consistent
  <2>2. name \in Names \cup {Blank} OBVIOUS
  <2>3. [data EXCEPT !.row[i] = name] \in Whole BY <2>1, <2>2, RowKeepsWhole
  <2>4. wpc # "Copying" /\ UNCHANGED <<wpc, snap>> BY EpaperAssumption DEF SetPilotSlotData, Locked
  <2> QED BY <2>1, <2>3, <2>4 DEF Consistent
<1>2. CASE \E n \in 1 .. Slots : SetDisplayLayout(n)
  BY <1>2, EpaperAssumption DEF SetDisplayLayout, TypeOK, Locked, Consistent, Whole, Layout
<1>3. CASE ClearRows
  BY <1>3, EpaperAssumption DEF ClearRows, Deferred, Cleared, TypeOK, Locked, Consistent, Whole, Layout
<1>4. CASE Gate
  BY <1>4, EpaperAssumption DEF Gate, TypeOK, Locked, Consistent, Whole, Layout
<1>5. CASE Choose
  BY <1>5, EpaperAssumption DEF Choose, FullDue, TypeOK, Locked, Consistent, Whole, Layout
<1>6. CASE Request
  BY <1>6, EpaperAssumption DEF Request, TypeOK, Locked, Consistent, Whole, Layout
<1>7. CASE WakeTask
  BY <1>7, EpaperAssumption DEF WakeTask, TypeOK, Locked, Consistent, Whole, Layout
<1>8. CASE Take
  BY <1>8, EpaperAssumption DEF Take, TypeOK, Locked, Consistent, Whole, Layout
<1>9. CASE InitPanel
  BY <1>9, EpaperAssumption DEF InitPanel, TypeOK, Locked, Consistent, Whole, Layout
<1>10. CASE ShowStart
  BY <1>10, EpaperAssumption DEF ShowStart, TypeOK, Locked, Consistent, Whole, Layout
<1>11. CASE TakeRequest
  BY <1>11, EpaperAssumption DEF TakeRequest, TypeOK, Locked, Consistent, Whole, Layout
<1>12. CASE BecomeBusy
  BY <1>12, EpaperAssumption DEF BecomeBusy, TypeOK, Locked, Consistent, Whole, Layout
<1>13. CASE Snapshot
  BY <1>13, EpaperAssumption DEF Snapshot, TypeOK, Locked, Consistent, Whole, Layout
<1>14. CASE CopyRows
  BY <1>14, EpaperAssumption DEF CopyRows, TypeOK, Locked, Consistent, Whole, Layout
<1>15. CASE Render
  BY <1>15, EpaperAssumption DEF Render, CountRefresh, TypeOK, Locked, Consistent, Whole, Layout
<1>16. CASE Tick
  BY <1>16, EpaperAssumption DEF Tick, TypeOK, Locked, Consistent, Whole, Layout
<1> QED
  BY <1>1, <1>2, <1>3, <1>4, <1>5, <1>6, <1>7, <1>8, <1>9, <1>10, <1>11, <1>12, <1>13, <1>14,
     <1>15, <1>16
  DEF Next, SetData, ServiceEpaper, EpaperTask

LEMMA StutterStep == EpaperInv /\ UNCHANGED vars => EpaperInv'
<1> SUFFICES ASSUME EpaperInv, UNCHANGED vars PROVE EpaperInv'
  OBVIOUS
<1> USE DEF EpaperInv, vars, mainVars, flags, taskVars
<1>1. TypeOK' /\ Locked' /\ Started' /\ Woken' BY DEF TypeOK, Locked, Started, Woken
<1>2. NotAgain' /\ SecondIsFull' BY DEF NotAgain, SecondIsFull, Working, Drawing, Due
<1>3. MayBePartial' /\ InTime' BY DEF MayBePartial, InTime, ChosenWell, Working, Drawing
<1>4. Remembered' /\ Consistent' BY DEF Remembered, Match, Asked, Consistent
<1> QED BY <1>1, <1>2, <1>3, <1>4

LEMMA InitInv == Init => EpaperInv
<1> SUFFICES ASSUME Init PROVE EpaperInv
  OBVIOUS
<1>1. data \in Layout /\ data \in Whole
  <2>1. data.n = 1 /\ \A i \in 1 .. Slots : data.row[i] = Blank BY DEF Init
  <2>2. data \in Layout BY EpaperAssumption DEF Init, Layout
  <2> QED BY <2>1, <2>2 DEF Whole
<1>2. age \in AgeType
  <2>1. age = [new |-> 0, first |-> 0, refresh |-> 0, full |-> 0] BY DEF Init, Limit
  <2>2. /\ 0 \in 0 .. MinDefer /\ 0 \in 0 .. MaxDefer
        /\ 0 \in 0 .. MinInterval /\ 0 \in 0 .. FullEvery
    BY EpaperAssumption
  <2> QED BY <2>1, <2>2 DEF AgeType
<1>3. TypeOK
  <2>1. partials \in 0 .. PartialLimit BY EpaperAssumption DEF Init
  <2>2. {wake, hasData, pending, reqInit, reqRefresh, reqFull, busy, initialized, full} \subseteq BOOLEAN
    BY DEF Init
  <2> QED BY <1>1, <1>2, <2>1, <2>2 DEF Init, TypeOK, AgeType
<1>4. Locked /\ Started /\ Woken BY EpaperAssumption DEF Init, Locked, Started, Woken
<1>5. NotAgain /\ SecondIsFull BY DEF Init, NotAgain, SecondIsFull, Working, Drawing
<1>6. MayBePartial /\ InTime BY DEF Init, MayBePartial, InTime, ChosenWell, Working, Drawing
<1>7. Remembered /\ Consistent BY <1>1 DEF Init, Remembered, Consistent
<1> QED BY <1>3, <1>4, <1>5, <1>6, <1>7 DEF EpaperInv

LEMMA EpaperInvariant == Spec => []EpaperInv
<1>1. EpaperInv /\ [Next]_vars => EpaperInv'
  BY TypeOKStep, LockedStep, StartedStep, WokenStep, NotAgainStep, SecondIsFullStep,
     MayBePartialStep, InTimeStep, RememberedStep, ConsistentStep, StutterStep DEF EpaperInv
<1> QED BY <1>1, InitInv, PTL DEF Spec

-----------------------------------------------------------------------------
(* Theorems.                                                               *)

\* Every variable keeps its type; partials, its bound.
THEOREM TypeCorrect == Spec => []TypeOK
<1>1. EpaperInv => TypeOK BY DEF EpaperInv
<1> QED BY <1>1, EpaperInvariant, PTL

\* No name that comes during a request, a copy or a drawing is forgotten.
THEOREM NothingIsForgotten == Spec => []NothingForgotten
<1>1. EpaperInv => NothingForgotten BY DEF EpaperInv, Remembered, Match, NothingForgotten
<1> QED BY <1>1, EpaperInvariant, PTL

\* No row is drawn beyond the layout.
THEOREM RowsFitLayout == Spec => []DrawnAsOne
<1>1. EpaperInv => DrawnAsOne BY DEF EpaperInv, Consistent, DrawnAsOne
<1> QED BY <1>1, EpaperInvariant, PTL

\* Partial refreshes in a row stay below the limit.
THEOREM GhostingIsBounded == Spec => []GhostingBounded
<1>1. EpaperInv => GhostingBounded
  BY EpaperAssumption DEF EpaperInv, TypeOK, MayBePartial, ChosenWell, Drawing, GhostingBounded
<1> QED BY <1>1, EpaperInvariant, PTL

\* Only a full refresh, one of maintenance, may follow another too soon.
THEOREM EarlyRefreshIsFull == Spec => EarlyIsFull
<1> DEFINE Early == (wpc # "Rendering" /\ wpc' = "Rendering" /\ age.refresh < MinInterval) => full
<1>1. EpaperInv /\ [Next]_vars => [Early]_vars
  <2> SUFFICES ASSUME EpaperInv, Next, wpc # "Rendering", wpc' = "Rendering",
                      age.refresh < MinInterval
               PROVE  full
    OBVIOUS
  <2>1. wpc = "Copying"
    BY DEF Next, SetData, SetPilotSlotData, SetDisplayLayout, ServiceEpaper, ClearRows, Gate,
           Choose, Request, WakeTask, EpaperTask, Take, InitPanel, ShowStart, TakeRequest,
           BecomeBusy, Snapshot, CopyRows, Render, Tick
  <2> QED BY <2>1, EpaperAssumption DEF EpaperInv, TypeOK, InTime, ChosenWell, Drawing
<1> QED BY <1>1, EpaperInvariant, PTL DEF Spec, EarlyIsFull

-----------------------------------------------------------------------------
(* The display implements PanelMirror.                                     *)

Settled == IF mpc = "Layout" THEN Cleared(data) ELSE data
Copied == IF wpc = "Copying" THEN data ELSE snap

\* Every step sets the data, takes a copy of them or draws it, or is not seen.
LEMMA StepMirrors ==
  EpaperInv /\ EpaperInv' /\ [Next]_vars => [Mirror!Next]_Mirror!vars
<1> SUFFICES ASSUME EpaperInv, EpaperInv', Next
             PROVE  \/ Settled' \in Whole /\ UNCHANGED <<Copied, panel>>
                    \/ Copied' = Settled /\ UNCHANGED <<Settled, panel>>
                    \/ panel = None /\ panel' = Start /\ UNCHANGED <<Settled, Copied>>
                    \/ panel # None /\ panel' = Copied /\ UNCHANGED <<Settled, Copied>>
                    \/ UNCHANGED <<Settled, Copied, panel>>
  <2>1. UNCHANGED vars => UNCHANGED Mirror!vars
    BY DEF vars, taskVars, Mirror!vars
  <2> QED BY <2>1 DEF Mirror!Next, Mirror!Set, Mirror!TakeCopy, Mirror!ShowStart, Mirror!Draw,
               Mirror!vars, Settled, Copied
<1> USE DEF EpaperInv, mainVars, flags, taskVars
<1>1. CASE \E i \in 1 .. Slots, name \in Names : SetPilotSlotData(i, name)
  BY <1>1, EpaperAssumption DEF SetPilotSlotData, Settled, Copied, Consistent, Locked
<1>2. CASE \E n \in 1 .. Slots : SetDisplayLayout(n)
  <2>1. Settled' = Cleared(data)' /\ data' \in Layout
    BY <1>2 DEF SetDisplayLayout, Settled, TypeOK
  <2>2. Settled' \in Whole BY <2>1, ClearedIsWhole DEF Cleared
  <2> QED BY <1>2, <2>2, EpaperAssumption DEF SetDisplayLayout, Copied, Locked
<1>3. CASE ClearRows
  BY <1>3, EpaperAssumption DEF ClearRows, Settled, Copied, Locked
<1>4. CASE Snapshot
  BY <1>4, EpaperAssumption DEF Snapshot, Settled, Copied, Locked
<1>5. CASE CopyRows
  <2>1. snap' = data
    BY <1>5 DEF CopyRows, Consistent, TypeOK, Layout
  <2> QED BY <1>5, <2>1 DEF CopyRows, Settled, Copied
<1>6. CASE ShowStart
  BY <1>6 DEF ShowStart, Settled, Copied, Started
<1>7. CASE Render
  BY <1>7 DEF Render, Settled, Copied, Started
<1>8. CASE Gate \/ Choose \/ Request \/ WakeTask \/ Tick
  BY <1>8 DEF Gate, Choose, Request, WakeTask, Tick, Settled, Copied
<1>9. CASE Take \/ InitPanel \/ TakeRequest \/ BecomeBusy
  BY <1>9 DEF Take, InitPanel, TakeRequest, BecomeBusy, Settled, Copied
<1> QED
  BY <1>1, <1>2, <1>3, <1>4, <1>5, <1>6, <1>7, <1>8, <1>9
  DEF Next, SetData, ServiceEpaper, EpaperTask

\* The panel shows the data of one moment after the other.
THEOREM DisplayImplementsMirror == Spec => ShowsOneMoment
<1>1. Init => Mirror!Init
  <2> SUFFICES ASSUME Init PROVE Mirror!Init OBVIOUS
  <2>1. data \in Whole /\ mpc # "Layout" /\ wpc # "Copying" /\ snap = data /\ panel = None
    BY InitInv DEF Init, EpaperInv, Consistent
  <2> QED BY <2>1 DEF Mirror!Init
<1> QED BY <1>1, StepMirrors, EpaperInvariant, PTL DEF Spec, ShowsOneMoment, Mirror!Spec
===============================================================================
