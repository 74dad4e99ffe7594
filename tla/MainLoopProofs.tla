--------------------------- MODULE MainLoopProofs ---------------------------
(***************************************************************************)
(* Proofs about module MainLoop: wherever the signals arrive, the clock of *)
(* the daemon is neither lost nor does it run twice in a second.           *)
(***************************************************************************)
EXTENDS MainLoop, TLAPS

\* Where the alarm, its handler and the flag stand while main() is at pc.
Clock ==
  \/ armed /\ ~ ignored /\ ~ due /\ pc \notin {"timeout", "clear", "signal", "alarm"}
  \/ ~ armed /\ ignored /\ due /\ pc \notin {"signal", "alarm"}
  \/ ~ armed /\ ignored /\ ~ due /\ pc = "signal"
  \/ ~ armed /\ ~ ignored /\ ~ due /\ pc = "alarm"

\* Until an alarm that may ring is served, timeout() has not run in this second.
Fresh ==
  /\ armed /\ ticked => ~ ran
  /\ due /\ pc # "clear" => ~ ran

\* Before the start-up is done no multicast routing socket is open.
Unstarted == pc = "start" => mr6 = "stdin"

Inv == TypeOK /\ Clock /\ Fresh /\ Unstarted

\* The invariant holds when main() has set its first alarm.
LEMMA LoopInit == Init => Inv
BY DEF Init, Inv, TypeOK, Clock, Fresh, Unstarted, Stopped

\* The start-up, with or without kernel forwarding, leaves the clock alone.
LEMMA StartUp == ASSUME Inv, Start PROVE Inv'
BY DEF Inv, TypeOK, Clock, Fresh, Unstarted, Stopped, options, time, Start, NoKernel, KernelReady,
       KernelRefused

\* The test of the flags, timeout() and what main() does after it.
LEMMA TimeoutSteps ==
  ASSUME Inv, While \/ Timeout \/ TimeoutCrash \/ Clear \/ Unignore \/ Arm
  PROVE  Inv'
<1> USE DEF Inv, TypeOK, Clock, Fresh, Unstarted, Stopped, options, time, Goto
<1>1. CASE While
  BY <1>1 DEF While
<1>2. CASE Timeout
  BY <1>2 DEF Timeout
<1>3. CASE TimeoutCrash
  BY <1>3 DEF TimeoutCrash
<1>4. CASE Clear
  BY <1>4 DEF Clear
<1>5. CASE Unignore
  BY <1>5 DEF Unignore
<1>6. CASE Arm
  BY <1>6 DEF Arm
<1> QED
  BY <1>1, <1>2, <1>3, <1>4, <1>5, <1>6

\* select() and the handlers of the descriptors it returns.
LEMMA SelectSteps ==
  ASSUME Inv,
         \/ Select \/ Block \/ SelectFails \/ BadSet
         \/ ServeKernel \/ ServeFrame \/ ReadFails \/ NoFrame
  PROVE  Inv'
<1> USE DEF Inv, TypeOK, Clock, Fresh, Unstarted, Stopped, options, time, Goto
<1>1. CASE Select
  BY <1>1 DEF Select, Readable
<1>2. CASE Block
  BY <1>2 DEF Block
<1>3. CASE BadSet
  BY <1>3 DEF BadSet
<1>4. CASE ServeKernel
  BY <1>4 DEF ServeKernel
<1>5. CASE ServeFrame
  BY <1>5 DEF ServeFrame
<1>6. CASE ReadFails
  BY <1>6 DEF ReadFails
<1>7. CASE NoFrame
  BY <1>7 DEF NoFrame
<1>8. CASE SelectFails
  BY <1>8 DEF SelectFails
<1> QED
  BY <1>1, <1>2, <1>3, <1>4, <1>5, <1>6, <1>7, <1>8

\* A signal, a second, a frame or an upcall, between any two steps of main().
LEMMA OutsideSteps ==
  ASSUME Inv, Tick \/ Alarm \/ Terminate \/ OtherSignal \/ Network \/ Ask
  PROVE  Inv'
<1> USE DEF Inv, TypeOK, Clock, Fresh, Unstarted, Stopped, options, time
<1>1. CASE Tick
  <2>1. ticked' = TRUE /\ ran' = FALSE
    BY <1>1 DEF Tick
  <2>2. UNCHANGED <<kernel, daemon, pc, due, armed, ignored, gquit, quit, frame, upcall, rfds,
                    mr6, list>>
    BY <1>1 DEF Tick
  <2>3. Clock' /\ Fresh' /\ Unstarted'
    BY <2>1, <2>2
  <2>4. TypeOK'
    BY <2>1, <2>2, Zenon
  <2> QED
    BY <2>3, <2>4
<1>2. CASE Alarm
  <2>1. CASE ignored
    BY <1>2, <2>1 DEF Alarm
  <2>2. CASE ~ ignored
    BY <1>2, <2>2 DEF Alarm, Interrupt
  <2> QED
    BY <2>1, <2>2
<1>3. CASE Terminate
  BY <1>3 DEF Terminate, Interrupt
<1>4. CASE OtherSignal
  BY <1>4 DEF OtherSignal, Interrupt
<1>5. CASE Network
  BY <1>5 DEF Network, Arrive
<1>6. CASE Ask
  BY <1>6 DEF Ask
<1> QED
  BY <1>1, <1>2, <1>3, <1>4, <1>5, <1>6

\* Every step of main(), of a handler or from outside keeps the invariant.
LEMMA LoopStep == Inv /\ [Next]_vars => Inv'
<1> SUFFICES ASSUME Inv, [Next]_vars
             PROVE  Inv'
  OBVIOUS
<1>1. CASE UNCHANGED vars
  BY <1>1 DEF vars, options, time, Inv, TypeOK, Clock, Fresh, Unstarted, Stopped
<1> QED
  BY <1>1, StartUp, TimeoutSteps, SelectSteps, OutsideSteps DEF Next, Main

\* main() and the handlers keep their variables well typed, and no descriptor is
\* served that select() did not return.
THEOREM LoopTypeCorrect == Spec => []TypeOK
<1>1. Spec => []Inv
  BY LoopInit, LoopStep, PTL DEF Spec
<1> QED
  BY <1>1, PTL DEF Inv

\* Wherever in main() SIGALRM and the other signals arrive, the next run of
\* timeout() is pending: the flag is set, or an alarm whose signal is caught runs,
\* or main() is about to set one.
THEOREM ClockIsKept == Spec => []ClockKept
<1>1. Spec => []Inv
  BY LoopInit, LoopStep, PTL DEF Spec
<1>2. Inv => ClockKept
  BY DEF Inv, Clock, ClockKept
<1> QED
  BY <1>1, <1>2, PTL

\* timeout() does not run twice in a second of time(NULL), so no general query is
\* sent twice.
THEOREM RunsOncePerSecond == Spec => []OncePerSecond
<1>1. Spec => []Inv
  BY LoopInit, LoopStep, PTL DEF Spec
<1>2. Inv => OncePerSecond
  BY DEF Inv, Clock, Fresh, OncePerSecond
<1> QED
  BY <1>1, <1>2, PTL
=============================================================================
