----------------------------- MODULE Lifecycle ------------------------------
(***************************************************************************)
(* From the start script to the first block, and what is left behind for    *)
(* the next start: run/run.sh, the host's main thread (host/main.c,         *)
(* host/app/app.c) with the threads it creates, and the task of the DSP     *)
(* that attaches to the host and executes START (dsp/main_dsp.c,            *)
(* dsp/app/message_loop.c).  DataPath begins where this ends.               *)
(*                                                                          *)
(* Each side opens by name what the other creates: the host creates the     *)
(* ring and its queue and polls for the DSP's queue; the DSP learns the     *)
(* host's queue from START and then opens the ring.  Nearly every failure   *)
(* is logged and passed over; a few end the host (LOG_FATAL).  Here every   *)
(* call that is tested may fail, and the host may be killed at any time.    *)
(* The script ignores what loading, stopping and unloading return, skips    *)
(* modprobe when the driver is still there, and has no trap: when it is     *)
(* interrupted it stops and unloads nothing, and the next run meets a       *)
(* started DSP, a ring and names of an earlier one.                         *)
(*                                                                          *)
(* Abstractions: a process of the host, its queue and its ring are named by *)
(* the run of the script they belong to, and a message reaches no queue but *)
(* the one it was sent to; of all blocks only the first is followed.  The   *)
(* code after message_loop_start never runs, since nothing sets loop->quit. *)
(***************************************************************************)
EXTENDS Integers, Sequences

CONSTANT MaxRuns   \* bound: how often the script is run

ASSUME MaxRunsAssumption == MaxRuns \in Nat

Threads == {"sample", "wifireceive", "wifisending", "phone"}

\* Faulty variant: the sender is started first.
StartsSenderFirst == <<"wifisending", "sample", "wifireceive", "phone">>

\* App_exec starts the threads in one order and joins them in another.
Starts == <<"sample", "wifireceive", "wifisending", "phone">>

\* Faulty variant: the sender is not waited for.
JoinsForget == <<"wifireceive", "sample", "phone", "phone">>

Joins == <<"wifireceive", "sample", "wifisending", "phone">>

\* The flag that a thread's loop tests: the sender tests the receiver's.
Flag(t) == IF t = "wifisending" THEN "sample" ELSE t

VARIABLES
  script, run,                       \* run/run.sh, number of the run
  driver,                            \* 1: syslink is loaded
  swept,                             \* history: 1 if the last run that has ended
                                     \* stopped the DSP and unloaded the driver
  dpc,                               \* message_loop_fun
  commands,                          \* the queue of the DSP
  is_started, reply_id, writer,      \* MessageLoop; 0: no run
  do_algorism, tasks,                \* ADWorkshop, tasks that were created
  hpc, k,                            \* main thread of the host, index of a thread
  ring, ring_of,                     \* the host's end of the ring; its run, 0: none
  queues, heaps,                     \* whose queue and heap are registered
  m_queue_recv,                      \* the queue of the host's process; 0: none
  flags, threads,                    \* m_running flags, state of each thread
  inbox, arrived,                    \* first block: announced, acquired
  failed, fatal                      \* history of this run: a call failed, the host
                                     \* was killed or the run began with remains of
                                     \* another; LOG_FATAL was reached

shell == <<script, run, driver, swept>>
dsp == <<dpc, commands, is_started, reply_id, writer, do_algorism, tasks>>
pool == <<flags, threads, m_queue_recv>>
rings == <<ring, ring_of>>
block == <<inbox, arrived>>
vars == <<shell, dsp, hpc, k, rings, queues, heaps, pool, block, failed, fatal>>

Init == /\ script = "modprobe" /\ run = 0 /\ driver = 0 /\ swept = 1
        /\ dpc = "off" /\ commands = <<>>
        /\ is_started = 0 /\ reply_id = 0 /\ writer = 0
        /\ do_algorism = 0 /\ tasks = {}
        /\ hpc = "none" /\ k = 0
        /\ ring = "none" /\ ring_of = 0 /\ queues = {} /\ heaps = {}
        /\ m_queue_recv = 0 /\ flags = {} /\ threads = [t \in Threads |-> "none"]
        /\ inbox = 0 /\ arrived = 0 /\ failed = 0 /\ fatal = 0

-----------------------------------------------------------------------------
\* The end of the host's process, by whatever cause: its threads end with it, its
\* queue, its heap and its ring stay registered.
Ends == /\ hpc' = "none" /\ k' = 0
        /\ flags' = {} /\ threads' = [t \in Threads |-> "none"]
        /\ m_queue_recv' = 0

\* The DSP is loaded anew or stopped: its memory and the names it has registered
\* are gone.
DspReset(place) == /\ dpc' = place /\ commands' = <<>>
                   /\ is_started' = 0 /\ reply_id' = 0 /\ writer' = 0
                   /\ do_algorism' = 0 /\ tasks' = {}
                   /\ queues' = queues \ {"SLAVE"} /\ heaps' = heaps \ {"SLAVE"}

DspGoesOn == UNCHANGED <<dsp, queues, heaps>>

-----------------------------------------------------------------------------
(* run/run.sh: one command after the other, whatever they return, except    *)
(* for modprobe                                                             *)

\* A driver that is found loaded stays with all that is registered in it.
Modprobe ==
  /\ script = "modprobe"
  /\ \/ /\ run < MaxRuns
        /\ script' = "slaveloader" /\ run' = run + 1 /\ driver' = 1
        /\ failed' = 1 - swept /\ fatal' = 0 /\ arrived' = 0
     \/ /\ driver = 0
        /\ script' = "stopped"
        /\ UNCHANGED <<run, driver, arrived, failed, fatal>>
  /\ UNCHANGED <<swept, dsp, hpc, k, rings, queues, heaps, pool, inbox>>

\* The DSP begins anew; or it cannot be loaded, and goes on if it was running.
\* The host is started in both cases.
Slaveloader ==
  /\ script = "slaveloader"
  /\ script' = "host"
  /\ hpc' = "setup" /\ k' = 1
  /\ \/ DspReset("start") /\ UNCHANGED failed
     \/ DspGoesOn /\ failed' = 1
  /\ UNCHANGED <<run, driver, swept, rings, pool, block, fatal>>

HostReturns == /\ script = "host" /\ hpc = "none"
               /\ script' = "shutdown"
               /\ UNCHANGED <<run, driver, swept, dsp, hpc, k, rings, queues, heaps,
                              pool, block, failed, fatal>>

\* Faulty variant: the DSP is reported stopped, and goes on.
ShutdownForgets == /\ script = "shutdown"
                   /\ script' = "rmmod"
                   /\ DspGoesOn /\ swept' = 1
                   /\ UNCHANGED <<run, driver, hpc, k, rings, pool, block, failed, fatal>>

\* slaveloader shutdown: nothing on the DSP survives, or it goes on.
Shutdown == /\ script = "shutdown"
            /\ script' = "rmmod"
            /\ \/ DspReset("off") /\ swept' = 1
               \/ DspGoesOn /\ swept' = 0
            /\ UNCHANGED <<run, driver, hpc, k, rings, pool, block, failed, fatal>>

\* rmmod syslink: nothing of the host survives, or the driver stays.
Rmmod == /\ script = "rmmod"
         /\ script' = "modprobe"
         /\ \/ /\ driver' = 0
               /\ ring' = "none" /\ ring_of' = 0 /\ inbox' = 0
               /\ queues' = queues \ {"HOST"} /\ heaps' = heaps \ {"HOST"}
               /\ UNCHANGED swept
            \/ swept' = 0 /\ UNCHANGED <<driver, rings, inbox, queues, heaps>>
         /\ UNCHANGED <<run, dsp, hpc, k, pool, arrived, failed, fatal>>

Script == Modprobe \/ Slaveloader \/ HostReturns \/ Shutdown \/ Rmmod

\* The script is interrupted, and its host with it.  It has no trap: nothing that
\* follows is executed, until somebody runs it again.
Interrupt == /\ script \in {"slaveloader", "host", "shutdown", "rmmod"}
             /\ script' = "modprobe"
             /\ Ends
             /\ swept' = 0 /\ failed' = 1
             /\ UNCHANGED <<run, driver, dsp, rings, queues, heaps, block, fatal>>

-----------------------------------------------------------------------------
(* message_loop_fun on the DSP *)

\* Ipc_start is retried until it is ready.
IpcStart == /\ dpc = "start"
            /\ \/ dpc' = "attach" /\ UNCHANGED failed
               \/ dpc' = "left" /\ failed' = 1
            /\ UNCHANGED <<shell, commands, is_started, reply_id, writer,
                           do_algorism, tasks, hpc, k, rings, queues, heaps, pool,
                           block, fatal>>

Attachable == hpc \notin {"none", "setup", "load", "callback"}

\* Ipc_attach is retried until the host has made its start callback.
IpcAttach == /\ dpc = "attach"
             /\ \/ Attachable /\ dpc' = "queue" /\ UNCHANGED failed
                \/ dpc' = "left" /\ failed' = 1
             /\ UNCHANGED <<shell, commands, is_started, reply_id, writer,
                            do_algorism, tasks, hpc, k, rings, queues, heaps, pool,
                            block, fatal>>

\* message_loop_new creates the queue first, so that the host may go on.
CreateQueue == /\ dpc = "queue"
               /\ queues' = queues \cup {"SLAVE"}
               /\ dpc' = "heap"
               /\ UNCHANGED <<shell, commands, is_started, reply_id, writer,
                              do_algorism, tasks, hpc, k, rings, heaps, pool, block,
                              failed, fatal>>

RegisterHeap == /\ dpc = "heap"
                /\ \/ heaps' = heaps \cup {"SLAVE"} /\ UNCHANGED failed
                   \/ failed' = 1 /\ UNCHANGED heaps
                /\ dpc' = "loop"
                /\ UNCHANGED <<shell, commands, is_started, reply_id, writer,
                               do_algorism, tasks, hpc, k, rings, queues, pool, block,
                               fatal>>

\* Faulty variant: START is not remembered.
OnStartForgets ==
  /\ dpc = "loop" /\ commands # <<>> /\ Head(commands).cmd = "START"
  /\ commands' = Tail(commands)
  /\ reply_id' = Head(commands).reply /\ writer' = run /\ tasks' = {"algorism", "upp"}
  /\ UNCHANGED <<shell, dpc, is_started, do_algorism, hpc, k, rings, queues,
                 heaps, pool, block, failed, fatal>>

\* message_loop_on_start.  The ring is the one that is found by that name; if it
\* cannot be opened, or a task cannot be created, the loop goes on all the same.
OnStart ==
  /\ dpc = "loop" /\ commands # <<>> /\ Head(commands).cmd = "START"
  /\ commands' = Tail(commands)
  /\ IF is_started = 1
       THEN UNCHANGED <<is_started, reply_id, writer, tasks, failed>>
       ELSE /\ is_started' = 1
            /\ reply_id' = Head(commands).reply
            /\ \E opens \in IF ring = "none" THEN {0} ELSE {0, ring_of},
                  created \in SUBSET {"algorism", "upp"} :
                 /\ writer' = opens
                 /\ tasks' = created
                 /\ failed' = IF opens # 0 /\ created = {"algorism", "upp"}
                                THEN failed ELSE 1
  /\ UNCHANGED <<shell, dpc, do_algorism, hpc, k, rings, queues, heaps, pool,
                 block, fatal>>

\* ENABLE before START is logged and lost.
OnEnable ==
  /\ dpc = "loop" /\ commands # <<>> /\ Head(commands).cmd = "ENABLE"
  /\ commands' = Tail(commands)
  /\ do_algorism' = IF is_started = 1 THEN 1 ELSE do_algorism
  /\ UNCHANGED <<shell, dpc, is_started, reply_id, writer, tasks, hpc, k, rings,
                 queues, heaps, pool, block, failed, fatal>>

\* The first block is complete.  Its message comes from the algorithm task, or
\* from the uPP task while processing is off; without a heap the writer of the
\* message is a null pointer.
FirstBlock ==
  /\ dpc = "loop" /\ is_started = 1
  /\ "upp" \in tasks /\ writer # 0 /\ inbox = 0 /\ arrived = 0
  /\ do_algorism = 1 => "algorism" \in tasks
  /\ IF "SLAVE" \in heaps THEN inbox' = 1 /\ UNCHANGED dpc
                          ELSE dpc' = "fault" /\ UNCHANGED inbox
  /\ UNCHANGED <<shell, commands, is_started, reply_id, writer, do_algorism,
                 tasks, hpc, k, rings, queues, heaps, pool, arrived, failed, fatal>>

Dsp == \/ IpcStart \/ IpcAttach \/ CreateQueue \/ RegisterHeap
       \/ OnStart \/ OnEnable \/ FirstBlock

-----------------------------------------------------------------------------
(* The host's process *)

\* LOG_FATAL
Dies == Ends /\ fatal' = 1

\* One step of the main thread from one place to the next.
Step(from, to) == hpc = from /\ hpc' = to

\* SysLink_setup
Setup == /\ Step("setup", "load")
         /\ UNCHANGED <<shell, dsp, k, rings, queues, heaps, pool, block, failed,
                        fatal>>

\* The callbacks of SysLink; either is fatal if it fails.
Callback(from, to) ==
  /\ \/ Step(from, to) /\ UNCHANGED <<k, pool, failed, fatal>>
     \/ hpc = from /\ failed' = 1 /\ Dies
  /\ UNCHANGED <<shell, dsp, rings, queues, heaps, block>>

\* RingBuffer_new: a ring that is not created or not opened is only not alive; one
\* that was left behind keeps its name.
NewRing == /\ Step("ring", "heap")
           /\ \/ ring' = "open" /\ ring_of' = run /\ UNCHANGED failed
              \/ ring = "none" /\ ring' = "created" /\ ring_of' = run /\ failed' = 1
              \/ /\ ring' = IF ring = "none" THEN "none" ELSE "created"
                 /\ UNCHANGED ring_of /\ failed' = 1
           /\ UNCHANGED <<shell, dsp, k, queues, heaps, pool, block, fatal>>

\* Faulty variant: the heap is not registered.
NewHeapForgets == /\ Step("heap", "create")
                  /\ UNCHANGED <<shell, dsp, k, rings, queues, heaps, pool, block,
                                 failed, fatal>>

\* message_heap_new: logged if it fails.
NewHeap == /\ Step("heap", "create")
           /\ \/ heaps' = heaps \cup {"HOST"} /\ UNCHANGED failed
              \/ failed' = 1 /\ UNCHANGED heaps
           /\ UNCHANGED <<shell, dsp, k, rings, queues, pool, block, fatal>>

\* MessageQ_create: not tested; a queue that was left behind may keep the name.
NewQueue == /\ Step("create", "open")
            /\ \/ /\ m_queue_recv' = run /\ queues' = queues \cup {"HOST"}
                  /\ inbox' = 0 /\ UNCHANGED failed
               \/ /\ "HOST" \in queues
                  /\ failed' = 1 /\ UNCHANGED <<m_queue_recv, queues, inbox>>
            /\ UNCHANGED <<shell, dsp, k, rings, heaps, flags, threads, arrived, fatal>>

\* MessageQ_open is retried, once a second, until the DSP's queue is found.
OpenQueue ==
  /\ \/ /\ Step("open", "sockets") /\ "SLAVE" \in queues
        /\ UNCHANGED <<k, pool, failed, fatal>>
     \/ hpc = "open" /\ failed' = 1 /\ Dies
  /\ UNCHANGED <<shell, dsp, rings, queues, heaps, block>>

\* Udp_new: info() ends the process.
NewSockets ==
  /\ \/ Step("sockets", "START") /\ UNCHANGED <<k, pool, failed>>
     \/ hpc = "sockets" /\ failed' = 1 /\ Ends
  /\ UNCHANGED <<shell, dsp, rings, queues, heaps, block, fatal>>

\* Controler_send_cmd: a message without a heap is fatal, and without a queue for
\* the reply it is sent through a null pointer.
Send(cmd, to) ==
  /\ \/ /\ Step(cmd, to) /\ "HOST" \in heaps /\ m_queue_recv # 0
        /\ commands' = Append(commands, [cmd |-> cmd, reply |-> m_queue_recv])
        /\ UNCHANGED <<k, pool, fatal>>
     \/ /\ hpc = cmd /\ "HOST" \in heaps /\ m_queue_recv = 0
        /\ Ends /\ UNCHANGED <<commands, fatal>>
     \/ hpc = cmd /\ "HOST" \notin heaps /\ Dies /\ UNCHANGED commands
  /\ UNCHANGED <<shell, dpc, is_started, reply_id, writer, do_algorism, tasks,
                 rings, queues, heaps, block, failed>>

\* Faulty variant: the index goes on where the threads ended.
StartThreadCounts ==
  /\ hpc = "threads"
  /\ flags' = flags \cup {Starts[k]}
  /\ threads' = [threads EXCEPT ![Starts[k]] = "created"]
  /\ k' = k + 1
  /\ hpc' = IF k < Len(Starts) THEN "threads" ELSE "join"
  /\ UNCHANGED <<shell, dsp, m_queue_recv, rings, queues, heaps, block, failed, fatal>>

\* The flag is set before the thread is created; failure is only logged.
StartThread ==
  /\ hpc = "threads"
  /\ flags' = flags \cup {Starts[k]}
  /\ \/ threads' = [threads EXCEPT ![Starts[k]] = "created"] /\ UNCHANGED failed
     \/ threads' = [threads EXCEPT ![Starts[k]] = "failed"] /\ failed' = 1
  /\ IF k < Len(Starts) THEN k' = k + 1 /\ UNCHANGED hpc
                        ELSE k' = 1 /\ hpc' = "join"
  /\ UNCHANGED <<shell, dsp, m_queue_recv, rings, queues, heaps, block, fatal>>

\* The identifier of a thread that was not created is zero: joining it returns
\* at once or ends the process.
JoinThread ==
  /\ hpc = "join"
  /\ threads[Joins[k]] \in {"ended", "failed"}
  /\ \/ /\ IF k < Len(Joins) THEN k' = k + 1 /\ UNCHANGED hpc
                             ELSE k' = 0 /\ hpc' = "delete"
        /\ UNCHANGED pool
     \/ threads[Joins[k]] = "failed" /\ Ends
  /\ UNCHANGED <<shell, dsp, rings, queues, heaps, block, failed, fatal>>

\* App_delete
Delete == /\ Step("delete", "stop")
          /\ queues' = queues \ {"HOST"}
          /\ heaps' = heaps \ {"HOST"}
          /\ IF ring = "open" THEN ring' = "none" /\ ring_of' = 0
                              ELSE UNCHANGED rings
          /\ flags' = {} /\ m_queue_recv' = 0
          /\ UNCHANGED <<shell, dsp, k, threads, block, failed, fatal>>

Main == \/ Setup
        \/ Callback("load", "callback") \/ Callback("callback", "ring")
        \/ NewRing \/ NewHeap \/ NewQueue \/ OpenQueue \/ NewSockets
        \/ Send("START", "ENABLE") \/ Send("ENABLE", "threads")
        \/ StartThread \/ JoinThread \/ Delete
        \/ Callback("stop", "return")

\* SysLink_destroy and the end of main.
Return == /\ hpc = "return"
          /\ Ends
          /\ UNCHANGED <<shell, dsp, rings, queues, heaps, block, failed, fatal>>

\* A thread tests its flag for the first time.  The WiFi receiver has just set
\* its flag itself, and the sample receiver clears its flag when it ends.
Begin(t) ==
  /\ threads[t] = "created"
  /\ LET set == IF t = "wifireceive" THEN flags \cup {t} ELSE flags
     IN IF Flag(t) \in set
          THEN threads' = [threads EXCEPT ![t] = "running"] /\ flags' = set
          ELSE threads' = [threads EXCEPT ![t] = "ended"] /\ flags' = set \ {t}
  /\ UNCHANGED <<shell, dsp, hpc, k, m_queue_recv, rings, queues, heaps, block, failed,
                 fatal>>

\* The sample receiver pops the first message that is sent to its queue.
\* RingBuffer_acquired refuses when the host's end is not alive, and that is
\* fatal.
Receive ==
  /\ threads["sample"] = "running"
  /\ inbox = 1 /\ reply_id = m_queue_recv
  /\ IF ring = "open" THEN /\ arrived' = 1 /\ inbox' = 0
                           /\ UNCHANGED <<hpc, k, pool, fatal>>
                      ELSE /\ inbox' = 0 /\ Dies
                           /\ UNCHANGED arrived
  /\ UNCHANGED <<shell, dsp, rings, queues, heaps, failed>>

\* sendto or recvfrom fails: info() ends the process.
SocketFails == /\ \E t \in {"wifireceive", "wifisending"} : threads[t] = "running"
               /\ failed' = 1
               /\ Ends
               /\ UNCHANGED <<shell, dsp, rings, queues, heaps, block, fatal>>

\* The user ends the host, and the script goes on.
Kill == /\ hpc # "none"
        /\ failed' = 1
        /\ Ends
        /\ UNCHANGED <<shell, dsp, rings, queues, heaps, block, fatal>>

Next == \/ Script \/ Interrupt \/ Dsp \/ Main \/ Return
        \/ \E t \in Threads : Begin(t)
        \/ Receive \/ SocketFails \/ Kill

\* The shell, the host and the DSP run; nobody has to kill or interrupt them.
Fairness == /\ WF_vars(Script)
            /\ WF_vars(IpcStart \/ IpcAttach \/ CreateQueue \/ RegisterHeap)
            /\ WF_vars(OnStart \/ OnEnable) /\ WF_vars(FirstBlock)
            /\ WF_vars(Main \/ Return)
            /\ \A t \in Threads : WF_vars(Begin(t))
            /\ WF_vars(Receive)

SafeSpec == Init /\ [][Next]_vars
Spec == SafeSpec /\ Fairness

-----------------------------------------------------------------------------
TypeOK ==
  /\ script \in {"modprobe", "slaveloader", "host", "shutdown", "rmmod", "stopped"}
  /\ run \in 0 .. MaxRuns /\ driver \in {0, 1} /\ swept \in {0, 1}
  /\ dpc \in {"off", "start", "attach", "queue", "heap", "loop", "fault", "left"}
  /\ commands \in Seq([cmd : {"START", "ENABLE"}, reply : 1 .. MaxRuns])
  /\ is_started \in {0, 1} /\ reply_id \in 0 .. MaxRuns /\ writer \in 0 .. MaxRuns
  /\ do_algorism \in {0, 1} /\ tasks \subseteq {"algorism", "upp"}
  /\ hpc \in {"none", "setup", "load", "callback", "ring", "heap", "create", "open",
              "sockets", "START", "ENABLE", "threads", "join", "delete", "stop", "return"}
  /\ k \in 0 .. 4
  /\ ring \in {"none", "created", "open"} /\ ring_of \in 0 .. MaxRuns
  /\ queues \subseteq {"HOST", "SLAVE"} /\ heaps \subseteq {"HOST", "SLAVE"}
  /\ flags \subseteq Threads /\ m_queue_recv \in 0 .. MaxRuns
  /\ threads \in [Threads -> {"none", "created", "failed", "running", "ended"}]
  /\ inbox \in {0, 1} /\ arrived \in {0, 1}
  /\ failed \in {0, 1} /\ fatal \in {0, 1}

\* A started DSP and a living host belong to the same run, messages go to the
\* host's present queue and blocks into its present ring, unless the run before was
\* interrupted or could not stop the DSP or unload the driver: then START may be
\* ignored and the DSP go on with a queue and a ring of the past.  One run that
\* ends with both makes up for all that was left behind, however its host ended
\* and whatever it had found itself (message_loop.c 82-92, run.sh 39-57).
Connected == swept = 1 /\ is_started = 1 /\ hpc # "none" =>
               /\ reply_id = run
               /\ writer \in {0, run}
               /\ writer = 0 => failed = 1

\* No thread ends before its process: each finds its flag set however late it
\* is scheduled, the sender the receiver's (app.c 80-90, sample_receiver.c
\* 63-67, 103, 166).
ThreadsStay == \A t \in Threads : threads[t] # "ended"

\* Queue, ring and sockets are taken down only when no thread is left that uses
\* them, and not before a thread failed to be created (app.c 92-107).
TeardownAlone == hpc \in {"delete", "stop", "return"} =>
                   \A t \in Threads : threads[t] = "failed"

\* The host ends with LOG_FATAL, and the DSP writes through a null pointer, only
\* in a run in which a call failed before, or that found remains of another: the
\* order in which both sides create, register and open leaves no other way
\* (message_queue.c 39-63, message_loop.c 52-53, 89-99).
FatalOnlyAfterFailure == fatal = 1 \/ dpc = "fault" => failed = 1

\* Every process of the host leads to a first block that is acquired, or to a
\* failed call, or it found remains: neither side waits for ever for something the
\* other has created, and ENABLE is not lost (app.c 40-90, main_dsp.c 35-64).
Connects == hpc = "setup" ~> (arrived = 1 /\ do_algorism = 1) \/ failed = 1
=============================================================================
