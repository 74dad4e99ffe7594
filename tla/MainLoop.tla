------------------------------ MODULE MainLoop ------------------------------
(***************************************************************************)
(* The main loop of ecmh and the signals that interrupt it: the alarm that *)
(* makes timeout() run once a second, the signals that end the daemon, the *)
(* select() over the raw socket and mr6_fd, and what the start-up leaves   *)
(* in mr6_fd and in the list of kernel routes.                             *)
(*                                                                         *)
(* A signal handler may run between any two steps.                         *)
(***************************************************************************)
VARIABLES
  kernel,   \* g_conf->kernel: ecmh was started with -k
  daemon,   \* g_conf->daemonize: stdin is /dev/null
  pc,       \* the statement main() is at
  due,      \* g_needs_timeout
  armed,    \* kernel: the alarm is running
  ignored,  \* kernel: SIGALRM is set to SIG_IGN
  ticked,   \* a second of time(NULL) has begun since the alarm was set
  ran,      \* timeout() has read the clock in this second
  gquit,    \* g_conf->quit, set by a signal
  quit,     \* quit of main(), set by a failed select() or read
  frame,    \* kernel: what the raw socket has to read
  upcall,   \* kernel: whether the multicast routing socket has something
  rfds,     \* the descriptors select() left in rfds
  mr6,      \* what g_conf->mr6_fd is
  list      \* what the variable routes points to

\* What the command line says never changes.
options == <<kernel, daemon>>

time == <<ticked, ran>>

vars == <<options, pc, due, armed, ignored, time, gquit, quit, frame, upcall, rfds, mr6, list>>

Stopped == {"exit", "crashed"}

-----------------------------------------------------------------------------
(* Start-up.                                                                *)

\* Without -k mr6_fd is left 0, which is stdin, and the list is never made.
NoKernel ==
  /\ ~ kernel
  /\ mr6' = "stdin"
  /\ list' = "none"

\* mrouter_init.  A missing mif is only logged.
KernelReady ==
  /\ kernel
  /\ mr6' = "router"
  /\ list' = "made"

\* MRT6_INIT fails: the list is freed and mr6_fd is -1.
KernelRefused ==
  /\ kernel
  /\ mr6' = "bad"
  /\ list' = "freed"

Start ==
  /\ pc = "start"
  /\ pc' = "while"
  /\ NoKernel \/ KernelReady \/ KernelRefused
  /\ UNCHANGED <<options, time, due, armed, ignored, gquit, quit, frame, upcall, rfds>>

-----------------------------------------------------------------------------
(* The loop.                                                                *)

Goto(from, to) == pc = from /\ pc' = to

\* Mutant: the loop only looks at its own quit.
While_NoSignal ==
  /\ pc = "while"
  /\ pc' = IF quit THEN "exit" ELSE IF due THEN "timeout" ELSE "select"
  /\ UNCHANGED <<options, time, due, armed, ignored, gquit, quit, frame, upcall, rfds, mr6, list>>

\* while (!g_conf->quit && !quit), and the test of g_needs_timeout.
While ==
  /\ pc = "while"
  /\ pc' = IF gquit \/ quit THEN "exit" ELSE IF due THEN "timeout" ELSE "select"
  /\ UNCHANGED <<options, time, due, armed, ignored, gquit, quit, frame, upcall, rfds, mr6, list>>

\* timeout() reads the clock once; it may still run when the next second begins.
Timeout ==
  /\ Goto("timeout", "clear")
  /\ ran' = TRUE
  /\ UNCHANGED <<options, ticked, due, armed, ignored, gquit, quit, frame, upcall, rfds, mr6, list>>

\* expire_sources may call expire_routes as well.
TimeoutCrash ==
  /\ Goto("timeout", "crashed")
  /\ list = "freed"
  /\ UNCHANGED <<options, time, due, armed, ignored, gquit, quit, frame, upcall, rfds, mr6, list>>

\* Mutant: the flag is reset while the signal is still ignored, but the alarm is
\* set first.
Clear_Armed ==
  /\ Goto("clear", "signal")
  /\ due' = FALSE
  /\ armed' = TRUE
  /\ UNCHANGED <<options, time, ignored, gquit, quit, frame, upcall, rfds, mr6, list>>

\* Mutant: the flag is not reset.
Clear_KeepDue ==
  /\ Goto("clear", "signal")
  /\ UNCHANGED <<options, time, due, armed, ignored, gquit, quit, frame, upcall, rfds, mr6, list>>

\* Mutant: main() goes back to select() without another alarm.
Clear_NoAlarm ==
  /\ Goto("clear", "select")
  /\ due' = FALSE
  /\ UNCHANGED <<options, time, armed, ignored, gquit, quit, frame, upcall, rfds, mr6, list>>

Clear ==
  /\ Goto("clear", "signal")
  /\ due' = FALSE
  /\ UNCHANGED <<options, time, armed, ignored, gquit, quit, frame, upcall, rfds, mr6, list>>

\* signal(SIGALRM, &timeout_signal)
Unignore ==
  /\ Goto("signal", "alarm")
  /\ ignored' = FALSE
  /\ UNCHANGED <<options, time, due, armed, gquit, quit, frame, upcall, rfds, mr6, list>>

\* alarm(1)
Arm ==
  /\ Goto("alarm", "select")
  /\ armed' = TRUE
  /\ ticked' = FALSE
  /\ UNCHANGED <<options, ran, due, ignored, gquit, quit, frame, upcall, rfds, mr6, list>>

\* The descriptors that have something to read: /dev/null always has.
Readable ==
  {d \in {"raw", "mr6"} :
     \/ d = "raw" /\ frame # "none"
     \/ d = "mr6" /\ mr6 = "router" /\ upcall
     \/ d = "mr6" /\ mr6 = "stdin" /\ daemon}

\* select() has something to return, at once or after it has blocked.
Select ==
  /\ pc \in {"select", "blocked"}
  /\ Readable # {}
  /\ pc' = "kernel"
  /\ rfds' = Readable
  /\ UNCHANGED <<options, time, due, armed, ignored, gquit, quit, frame, upcall, mr6, list>>

Block ==
  /\ Goto("select", "blocked")
  /\ Readable = {}
  /\ rfds' = {}
  /\ UNCHANGED <<options, time, due, armed, ignored, gquit, quit, frame, upcall, mr6, list>>

\* select() fails for another reason than a signal.
SelectFails ==
  /\ pc \in {"select", "blocked"}
  /\ pc' = "while"
  /\ quit' = TRUE
  /\ UNCHANGED <<options, time, due, armed, ignored, gquit, frame, upcall, rfds, mr6, list>>

\* FD_SET with the descriptor -1 may be caught by the C library.
BadSet ==
  /\ Goto("select", "crashed")
  /\ mr6 = "bad"
  /\ UNCHANGED <<options, time, due, armed, ignored, gquit, quit, frame, upcall, rfds, mr6, list>>

\* mrouter6_handlesocket, if mr6_fd is in rfds.
ServeKernel ==
  /\ Goto("kernel", "raw")
  /\ upcall' = (upcall /\ ~ ("mr6" \in rfds /\ mr6 = "router"))
  /\ quit' = (quit /\ "mr6" \notin rfds)
  /\ UNCHANGED <<options, time, due, armed, ignored, gquit, frame, rfds, mr6, list>>

\* handleinterfaces.  A report ends in expire_routes, which reads the list; so
\* may any other frame, once there are groups.  Reading a list that was never
\* made ends the daemon, reading one that was freed may.
ServeFrame ==
  /\ pc = "raw"
  /\ "raw" \in rfds
  /\ \/ pc' = "while" /\ (frame = "report" => list # "none")
     \/ pc' = "crashed" /\ ((frame = "report" /\ list = "none") \/ list = "freed")
  /\ quit' = FALSE
  /\ frame' = "none"
  /\ UNCHANGED <<options, time, due, armed, ignored, gquit, upcall, rfds, mr6, list>>

ReadFails ==
  /\ Goto("raw", "while")
  /\ "raw" \in rfds
  /\ quit' = TRUE
  /\ frame' = "none"
  /\ UNCHANGED <<options, time, due, armed, ignored, gquit, upcall, rfds, mr6, list>>

NoFrame ==
  /\ Goto("raw", "while")
  /\ "raw" \notin rfds
  /\ UNCHANGED <<options, time, due, armed, ignored, gquit, quit, frame, upcall, rfds, mr6, list>>

-----------------------------------------------------------------------------
(* Signals.  One that is caught makes a blocked select() return EINTR.      *)

\* Mutant: the descriptors are looked at although select() failed.
Interrupt_Serve == pc' = IF pc = "blocked" THEN "kernel" ELSE pc

Interrupt == pc' = IF pc = "blocked" THEN "while" ELSE pc

\* A second of time(NULL) begins.  alarm(1) rings after a whole second, so not
\* before one has begun.
Tick ==
  /\ pc \notin Stopped
  /\ ticked' = TRUE
  /\ ran' = FALSE
  /\ UNCHANGED <<options, pc, due, armed, ignored, gquit, quit, frame, upcall, rfds, mr6, list>>

\* timeout_signal, or nothing if the signal is ignored.
Alarm ==
  /\ pc \notin Stopped
  /\ armed
  /\ ticked
  /\ armed' = FALSE
  /\ IF ignored THEN UNCHANGED <<pc, due, ignored>>
                ELSE Interrupt /\ due' = TRUE /\ ignored' = TRUE
  /\ UNCHANGED <<options, time, gquit, quit, frame, upcall, rfds, mr6, list>>

\* cleanpid
Terminate ==
  /\ pc \notin Stopped
  /\ gquit' = TRUE
  /\ Interrupt
  /\ UNCHANGED <<options, time, due, armed, ignored, quit, frame, upcall, rfds, mr6, list>>

\* sighup, sigusr1, sigusr2
OtherSignal ==
  /\ pc \notin Stopped
  /\ Interrupt
  /\ UNCHANGED <<options, time, due, armed, ignored, gquit, quit, frame, upcall, rfds, mr6, list>>

-----------------------------------------------------------------------------
(* The network.                                                             *)

Arrive(f) ==
  /\ pc \notin Stopped
  /\ frame = "none"
  /\ frame' = f
  /\ UNCHANGED <<options, time, pc, due, armed, ignored, gquit, quit, upcall, rfds, mr6, list>>

Ask ==
  /\ pc \notin Stopped
  /\ mr6 = "router"
  /\ upcall' = TRUE
  /\ UNCHANGED <<options, time, pc, due, armed, ignored, gquit, quit, frame, rfds, mr6, list>>

-----------------------------------------------------------------------------
\* main() has just set the first alarm.
Init ==
  /\ kernel \in BOOLEAN
  /\ daemon \in BOOLEAN
  /\ pc = "start"
  /\ due = FALSE
  /\ armed = TRUE
  /\ ignored = FALSE
  /\ ticked = FALSE
  /\ ran = FALSE
  /\ gquit = FALSE
  /\ quit = FALSE
  /\ frame = "none"
  /\ upcall = FALSE
  /\ rfds = {}
  /\ mr6 = "stdin"
  /\ list = "none"

Main ==
  \/ Start \/ While \/ Timeout \/ TimeoutCrash \/ Clear \/ Unignore \/ Arm
  \/ Select \/ Block \/ BadSet \/ ServeKernel \/ ServeFrame \/ ReadFails \/ NoFrame

Network == \E f \in {"report", "other"} : Arrive(f)

Next == Main \/ SelectFails \/ Tick \/ Alarm \/ Terminate \/ OtherSignal \/ Network \/ Ask

Spec == Init /\ [][Next]_vars

\* The process is scheduled, time passes, the alarm rings, and the link is never silent for
\* ever.  A select() that fails is not relied upon: it would end the wait of main().
FairSpec == Spec /\ WF_vars(Main) /\ WF_vars(Tick) /\ WF_vars(Alarm) /\ WF_vars(Network)

-----------------------------------------------------------------------------
(* Properties.                                                              *)

\* The variables have their types, and a descriptor is served only when
\* select() returned one.
TypeOK ==
  /\ pc \in {"start", "while", "timeout", "clear", "signal", "alarm", "select",
             "blocked", "kernel", "raw"} \cup Stopped
  /\ {kernel, daemon, due, armed, ignored, ticked, ran, gquit, quit, upcall} \subseteq BOOLEAN
  /\ frame \in {"none", "report", "other"}
  /\ rfds \subseteq {"raw", "mr6"}
  /\ mr6 \in {"stdin", "router", "bad"}
  /\ list \in {"none", "made", "freed"}
  /\ pc \in {"kernel", "raw"} => rfds # {}
  /\ upcall => mr6 = "router"

\* The second's work is never lost: until it has run the flag stays set, and
\* after that an alarm is running whose signal is caught.  A handler that came
\* between the reset of the flag and alarm(1), or an alarm that rang while
\* SIGALRM was still ignored, would leave the daemon without a clock.
ClockKept ==
  \/ armed /\ ~ ignored /\ ~ due
  \/ ~ armed /\ ignored /\ due
  \/ ~ armed /\ pc \in {"signal", "alarm"}

\* timeout() never reads the same second twice: it sends the general query in the
\* seconds that ECMH_SUBSCRIPTION_TIMEOUT divides, and would send it again.
OncePerSecond == pc = "timeout" => ~ ran

\* timeout() runs again and again for as long as the daemon runs.
TimeoutsRecur == []<>(pc = "timeout" \/ pc \in Stopped)

\* A daemon that was told to stop stops.
TerminateStops == gquit ~> pc \in Stopped

\* Without -k the daemon survives what arrives.  Kernel forwarding is an option:
\* ecmh "allows IPv6 multicast routing on Linux and other OS's that do not
\* implement IPv6 multicast routing".
UserSpaceSurvives == ~ kernel => pc # "crashed"
=============================================================================
