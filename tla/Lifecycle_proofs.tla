--------------------------- MODULE Lifecycle_proofs ---------------------------
(***************************************************************************)
(* Proofs about Lifecycle, for any number of runs of the script, any of     *)
(* which may be interrupted or leave a running DSP and a loaded driver:     *)
(* both ends of the connection belong to one run when the run before left   *)
(* neither; no thread ends before its process, modules are deleted when no  *)
(* thread is left, and a process ends by LOG_FATAL only if a call had       *)
(* failed or it began with remains.                                         *)
(***************************************************************************)
EXTENDS Lifecycle, TLAPS

Before == {"setup", "load", "callback", "ring", "heap", "create", "open", "sockets",
           "START", "ENABLE"}
After == {"delete", "stop", "return"}

\* The script runs the host between loading the DSP and stopping it.
ScriptInv ==
  /\ script # "host" => hpc = "none"
  /\ script \in {"slaveloader", "host", "shutdown", "rmmod"} => run >= 1
  /\ hpc = "none" => /\ k = 0 /\ flags = {} /\ threads = [t \in Threads |-> "none"]
                     /\ m_queue_recv = 0
  /\ m_queue_recv \in {0, run}

\* The queue of the DSP holds START and ENABLE, each with a reply queue in R.
CommandOf(R) == [cmd : {"START", "ENABLE"}, reply : R]

\* A DSP that does not run knows nothing, and has no names.
OffInv ==
  /\ dpc = "off" => commands = <<>> /\ is_started = 0
  /\ "SLAVE" \in queues => dpc # "off"
  /\ hpc \in {"sockets", "START", "ENABLE"} => dpc # "off"

\* After a run that stopped the DSP and unloaded the driver nothing is left of
\* it, and what the DSP knows of the host belongs to the present run.
SweptInv ==
  swept = 1 =>
    /\ script \in {"modprobe", "slaveloader", "rmmod", "stopped"} => dpc = "off"
    /\ script \in {"modprobe", "slaveloader", "stopped"} => ring = "none"
    /\ script # "rmmod" /\ ring # "none" => ring_of = run
    /\ commands \in Seq(CommandOf({run}))
    /\ is_started = 1 => /\ reply_id = run
                         /\ writer \in {0, run}
                         /\ writer = 0 => failed = 1

\* A thread that was created finds its flag set; those that were joined had
\* failed to be created.
ThreadInv ==
  /\ \A t \in Threads : threads[t] # "ended"
  /\ hpc \in Before => k = 1 /\ \A t \in Threads : threads[t] = "none"
  /\ hpc \in {"threads", "join"} => k >= 1
  /\ hpc = "threads" /\ k >= 2 => "sample" \in flags
  /\ hpc \in {"threads", "join"} =>
       \A t \in Threads : threads[t] \in {"created", "running"} => Flag(t) \in flags
  /\ hpc = "join" => \A m \in 1 .. 4 : m < k => threads[Joins[m]] = "failed"
  /\ hpc \in After => \A t \in Threads : threads[t] = "failed"

\* What is missing is missing because a call failed.
FailureInv ==
  /\ fatal = 1 \/ dpc = "fault" => failed = 1
  /\ hpc \in {"create", "open", "sockets", "START", "ENABLE"} /\ "HOST" \notin heaps
       => failed = 1
  /\ dpc \in {"loop", "fault"} /\ "SLAVE" \notin heaps => failed = 1
  /\ hpc \in (Before \ {"setup", "load", "callback", "ring"}) \cup {"threads", "join"}
       /\ ring # "open" => failed = 1

IInv == TypeOK /\ ScriptInv /\ OffInv /\ SweptInv /\ ThreadInv /\ FailureInv

\* The parts of TypeOK.
ScriptType == /\ script \in {"modprobe", "slaveloader", "host", "shutdown", "rmmod", "stopped"}
              /\ run \in 0 .. MaxRuns /\ driver \in {0, 1} /\ swept \in {0, 1}

DspType ==
  /\ dpc \in {"off", "start", "attach", "queue", "heap", "loop", "fault", "left"}
  /\ commands \in Seq([cmd : {"START", "ENABLE"}, reply : 1 .. MaxRuns])
  /\ is_started \in {0, 1} /\ reply_id \in 0 .. MaxRuns /\ writer \in 0 .. MaxRuns
  /\ do_algorism \in {0, 1} /\ tasks \subseteq {"algorism", "upp"}

MainType ==
  /\ hpc \in {"none", "setup", "load", "callback", "ring", "heap", "create", "open",
              "sockets", "START", "ENABLE", "threads", "join", "delete", "stop", "return"}
  /\ k \in 0 .. 4

SharedType == /\ ring \in {"none", "created", "open"} /\ ring_of \in 0 .. MaxRuns
              /\ queues \subseteq {"HOST", "SLAVE"} /\ heaps \subseteq {"HOST", "SLAVE"}
              /\ inbox \in {0, 1} /\ arrived \in {0, 1}
              /\ failed \in {0, 1} /\ fatal \in {0, 1}

PoolType == /\ flags \subseteq Threads /\ m_queue_recv \in 0 .. MaxRuns
            /\ threads \in [Threads -> {"none", "created", "failed", "running", "ended"}]

LEMMA TypeParts == /\ TypeOK <=> ScriptType /\ DspType /\ MainType /\ SharedType /\ PoolType
                   /\ TypeOK' <=> ScriptType' /\ DspType' /\ MainType' /\ SharedType' /\ PoolType'
  BY DEF TypeOK, ScriptType, DspType, MainType, SharedType, PoolType

-----------------------------------------------------------------------------
LEMMA FirstCommand ==
  ASSUME NEW R, NEW c \in Seq(CommandOf(R)), c # <<>>
  PROVE  Head(c).reply \in R /\ Tail(c) \in Seq(CommandOf(R))
<1>1. Head(c) \in CommandOf(R)
  OBVIOUS
<1> QED
  BY <1>1 DEF CommandOf

LEMMA NextCommand ==
  ASSUME NEW R, NEW c \in Seq(CommandOf(R)), NEW x \in {"START", "ENABLE"}, NEW r \in R
  PROVE  Append(c, [cmd |-> x, reply |-> r]) \in Seq(CommandOf(R))
<1>1. [cmd |-> x, reply |-> r] \in CommandOf(R)
  BY DEF CommandOf
<1> QED
  BY <1>1

LEMMA NoCommand == \A R : <<>> \in Seq(CommandOf(R))
  OBVIOUS

LEMMA InitIInv == Init => IInv
  BY MaxRunsAssumption, NoCommand DEF CommandOf, Init, IInv, TypeOK, ScriptInv, OffInv, SweptInv,
     ThreadInv, FailureInv, Before, After

\* What the type of a step's result depends on beside the types.
LEMMA Bounds == IInv => /\ hpc \in {"threads", "join"} => k \in 1 .. 4
                        /\ script \in {"slaveloader", "host", "shutdown", "rmmod"} => run \in 1 .. MaxRuns
                        /\ hpc # "none" => run \in 1 .. MaxRuns
  BY MaxRunsAssumption DEF IInv, TypeOK, ScriptInv, ThreadInv

LEMMA JoinsStarts == \A i \in 1 .. 4 : Joins[i] \in Threads /\ Starts[i] \in Threads
  BY DEF Joins, Starts, Threads

LEMMA Lens == Len(Joins) = 4 /\ Len(Starts) = 4
  BY DEF Joins, Starts

LEMMA TypeStep == IInv /\ [Next]_vars => TypeOK'
<1> SUFFICES ASSUME IInv, [Next]_vars PROVE TypeOK'
  OBVIOUS
<1>a. ScriptType /\ DspType /\ MainType /\ SharedType /\ PoolType
  BY TypeParts DEF IInv
<1>b. /\ hpc \in {"threads", "join"} => k \in 1 .. 4
      /\ script \in {"slaveloader", "host", "shutdown", "rmmod"} => run \in 1 .. MaxRuns
      /\ hpc # "none" => run \in 1 .. MaxRuns
  BY Bounds
<1>c. commands \in Seq(CommandOf(1 .. MaxRuns))
  BY <1>a DEF DspType, CommandOf
<1> USE MaxRunsAssumption DEF shell, dsp, pool, rings, block, DspReset, DspGoesOn, Ends, Dies, Step
<1>1. CASE Script \/ Interrupt
  <2>1. ScriptType'
    BY <1>a, <1>b, <1>1 DEF ScriptType, Script, Modprobe, Slaveloader, HostReturns,
       Shutdown, Rmmod, Interrupt
  <2>2. DspType'
    <3>1. CASE DspReset("off") \/ DspReset("start")
      <4>1. <<>> \in Seq(CommandOf(1 .. MaxRuns))
        BY NoCommand
      <4>2. commands' \in Seq([cmd : {"START", "ENABLE"}, reply : 1 .. MaxRuns])
        BY <3>1, <4>1 DEF CommandOf
      <4> QED
        BY <3>1, <4>2 DEF DspType
    <3>2. CASE UNCHANGED dsp
      BY <1>a, <3>2 DEF DspType
    <3> QED
      BY <1>1, <3>1, <3>2 DEF Script, Modprobe, Slaveloader, HostReturns, Shutdown, Rmmod,
         Interrupt
  <2>3. MainType'
    BY <1>a, <1>b, <1>1 DEF MainType, Script, Modprobe, Slaveloader, HostReturns,
       Shutdown, Rmmod, Interrupt
  <2>4. SharedType'
    <3>1. CASE Modprobe \/ Rmmod
      <4>1. CASE Modprobe
        <5>1. swept \in {0, 1} => 1 - swept \in {0, 1}
          OBVIOUS
        <5>2. failed' \in {0, 1} /\ fatal' \in {0, 1} /\ arrived' \in {0, 1}
          BY <1>a, <4>1, <5>1 DEF ScriptType, SharedType, Modprobe
        <5>3. UNCHANGED <<rings, queues, heaps, inbox>>
          BY <4>1 DEF Modprobe
        <5> QED
          BY <1>a, <5>2, <5>3 DEF SharedType
      <4>2. CASE Rmmod
        <5>1. /\ ring' \in {"none", ring} /\ ring_of' \in {0, ring_of} /\ inbox' \in {0, inbox}
              /\ queues' \subseteq queues /\ heaps' \subseteq heaps
              /\ UNCHANGED <<arrived, failed, fatal>>
          BY <4>2 DEF Rmmod
        <5> QED
          BY <1>a, <5>1 DEF SharedType
      <4> QED
        BY <3>1, <4>1, <4>2
    <3>2. CASE HostReturns \/ Interrupt
      BY <1>a, <3>2 DEF SharedType, HostReturns, Interrupt
    <3>3. CASE Slaveloader \/ Shutdown
      BY <1>a, <3>3 DEF SharedType, Slaveloader, Shutdown
    <3> QED
      BY <1>1, <3>1, <3>2, <3>3 DEF Script
  <2>5. PoolType'
    BY <1>a, <1>b, <1>1 DEF PoolType, Script, Modprobe, Slaveloader, HostReturns,
       Shutdown, Rmmod, Interrupt
  <2> QED
    BY <2>1, <2>2, <2>3, <2>4, <2>5, TypeParts
<1>2. CASE IpcStart \/ IpcAttach \/ CreateQueue \/ RegisterHeap
  BY <1>a, <1>b, <1>2, TypeParts DEF ScriptType, DspType, MainType, SharedType, PoolType,
     IpcStart, IpcAttach, CreateQueue, RegisterHeap
<1>3. CASE OnStart
  <2>1. ScriptType'
    BY <1>a, <1>b, <1>3 DEF ScriptType, OnStart
  <2>2. DspType'
    <3>1. Head(commands).reply \in 1 .. MaxRuns /\ Tail(commands) \in Seq(CommandOf(1 .. MaxRuns))
      BY <1>c, <1>3, FirstCommand DEF OnStart
    <3>3. commands' \in Seq(CommandOf(1 .. MaxRuns)) /\ dpc' = "loop" /\ do_algorism' = do_algorism
      BY <1>3, <3>1 DEF OnStart
    <3>4. CASE is_started = 1
      BY <1>a, <1>3, <3>3, <3>4 DEF DspType, CommandOf, OnStart
    <3>5. CASE is_started # 1
      <4>1. is_started' = 1 /\ reply_id' \in 1 .. MaxRuns
        BY <1>3, <3>1, <3>5 DEF OnStart
      <4>2. writer' \in {0, ring_of} /\ tasks' \in SUBSET {"algorism", "upp"}
        BY <1>3, <3>5 DEF OnStart
      <4> QED
        BY <1>a, <3>3, <4>1, <4>2 DEF DspType, SharedType, CommandOf
    <3> QED
      BY <3>4, <3>5
  <2>3. MainType'
    BY <1>a, <1>b, <1>3 DEF MainType, OnStart
  <2>4. SharedType'
    BY <1>a, <1>b, <1>3 DEF SharedType, OnStart
  <2>5. PoolType'
    BY <1>a, <1>b, <1>3 DEF PoolType, OnStart
  <2> QED
    BY <2>1, <2>2, <2>3, <2>4, <2>5, TypeParts
<1>4. CASE OnEnable
  BY <1>a, <1>b, <1>4, TypeParts DEF ScriptType, DspType, MainType, SharedType, PoolType,
     OnEnable
<1>5. CASE FirstBlock
  BY <1>a, <1>b, <1>5, TypeParts DEF ScriptType, DspType, MainType, SharedType, PoolType,
     FirstBlock
<1>6. CASE Setup \/ NewRing \/ NewHeap \/ NewQueue
  <2>1. ScriptType'
    BY <1>a, <1>b, <1>6 DEF ScriptType, Setup, NewRing, NewHeap, NewQueue
  <2>2. DspType'
    BY <1>a, <1>b, <1>6 DEF DspType, Setup, NewRing, NewHeap, NewQueue
  <2>3. MainType'
    BY <1>a, <1>b, <1>6 DEF MainType, Setup, NewRing, NewHeap, NewQueue
  <2>4. SharedType'
    BY <1>a, <1>b, <1>6 DEF ScriptType, SharedType, Setup, NewRing, NewHeap, NewQueue
  <2>5. PoolType'
    BY <1>a, <1>b, <1>6 DEF PoolType, Setup, NewRing, NewHeap, NewQueue
  <2> QED
    BY <2>1, <2>2, <2>3, <2>4, <2>5, TypeParts
<1>7. CASE Callback("load", "callback") \/ Callback("callback", "ring")
          \/ Callback("stop", "return")
  <2>1. ScriptType'
    BY <1>a, <1>b, <1>7 DEF ScriptType, Callback
  <2>2. DspType'
    BY <1>a, <1>b, <1>7 DEF DspType, Callback
  <2>3. MainType'
    BY <1>a, <1>b, <1>7 DEF MainType, Callback
  <2>4. SharedType'
    BY <1>a, <1>b, <1>7 DEF SharedType, Callback
  <2>5. PoolType'
    BY <1>a, <1>b, <1>7 DEF PoolType, Callback
  <2> QED
    BY <2>1, <2>2, <2>3, <2>4, <2>5, TypeParts
<1>8. CASE OpenQueue \/ NewSockets
  <2>1. ScriptType'
    BY <1>a, <1>b, <1>8 DEF ScriptType, OpenQueue, NewSockets
  <2>2. DspType'
    BY <1>a, <1>b, <1>8 DEF DspType, OpenQueue, NewSockets
  <2>3. MainType'
    BY <1>a, <1>b, <1>8 DEF MainType, OpenQueue, NewSockets
  <2>4. SharedType'
    BY <1>a, <1>b, <1>8 DEF SharedType, OpenQueue, NewSockets
  <2>5. PoolType'
    BY <1>a, <1>b, <1>8 DEF PoolType, OpenQueue, NewSockets
  <2> QED
    BY <2>1, <2>2, <2>3, <2>4, <2>5, TypeParts
<1>9. CASE Send("START", "ENABLE") \/ Send("ENABLE", "threads")
  <2>1. ScriptType'
    BY <1>a, <1>b, <1>9 DEF ScriptType, Send
  <2>2. DspType'
    <3>1. CASE commands' = commands
      BY <1>a, <1>9, <3>1 DEF DspType, Send
    <3>2. CASE commands' # commands
      <4>1. PICK x \in {"START", "ENABLE"} :
                 m_queue_recv # 0 /\ commands' = Append(commands, [cmd |-> x, reply |-> m_queue_recv])
        BY <1>9, <3>2 DEF Send
      <4>2. commands' \in Seq(CommandOf(1 .. MaxRuns))
        BY <1>a, <1>c, <4>1, NextCommand DEF PoolType
      <4> QED
        BY <1>a, <1>9, <4>2 DEF DspType, CommandOf, Send
    <3> QED
      BY <3>1, <3>2
  <2>3. MainType'
    BY <1>a, <1>b, <1>9 DEF MainType, Send
  <2>4. SharedType'
    BY <1>a, <1>b, <1>9 DEF SharedType, Send
  <2>5. PoolType'
    BY <1>a, <1>b, <1>9 DEF PoolType, Send
  <2> QED
    BY <2>1, <2>2, <2>3, <2>4, <2>5, TypeParts
<1>10. CASE StartThread
  <2>1. ScriptType'
    BY <1>a, <1>b, <1>10 DEF ScriptType, StartThread
  <2>2. DspType'
    BY <1>a, <1>b, <1>10 DEF DspType, StartThread
  <2>3. MainType'
    BY <1>a, <1>b, <1>10, Lens, JoinsStarts DEF MainType, StartThread
  <2>4. SharedType'
    BY <1>a, <1>b, <1>10 DEF SharedType, StartThread
  <2>5. PoolType'
    BY <1>a, <1>b, <1>10, Lens, JoinsStarts DEF PoolType, StartThread
  <2> QED
    BY <2>1, <2>2, <2>3, <2>4, <2>5, TypeParts
<1>11. CASE JoinThread
  <2>1. ScriptType'
    BY <1>a, <1>b, <1>11 DEF ScriptType, JoinThread
  <2>2. DspType'
    BY <1>a, <1>b, <1>11 DEF DspType, JoinThread
  <2>3. MainType'
    BY <1>a, <1>b, <1>11, Lens, JoinsStarts DEF MainType, JoinThread
  <2>4. SharedType'
    BY <1>a, <1>b, <1>11 DEF SharedType, JoinThread
  <2>5. PoolType'
    BY <1>a, <1>b, <1>11, Lens, JoinsStarts DEF PoolType, JoinThread
  <2> QED
    BY <2>1, <2>2, <2>3, <2>4, <2>5, TypeParts
<1>12. CASE Delete
  BY <1>a, <1>b, <1>12, TypeParts DEF ScriptType, DspType, MainType, SharedType, PoolType,
     Delete
<1>13. ASSUME NEW t \in Threads, Begin(t) PROVE TypeOK'
  BY <1>a, <1>b, <1>13, TypeParts DEF ScriptType, DspType, MainType, SharedType, PoolType,
     Begin
<1>14. CASE Receive
  BY <1>a, <1>b, <1>14, TypeParts DEF ScriptType, DspType, MainType, SharedType, PoolType,
     Receive
<1>15. CASE Return \/ SocketFails \/ Kill
  <2>1. ScriptType'
    BY <1>a, <1>b, <1>15 DEF ScriptType, Return, SocketFails, Kill
  <2>2. DspType'
    BY <1>a, <1>b, <1>15 DEF DspType, Return, SocketFails, Kill
  <2>3. MainType'
    BY <1>a, <1>b, <1>15 DEF MainType, Return, SocketFails, Kill
  <2>4. SharedType'
    BY <1>a, <1>b, <1>15 DEF SharedType, Return, SocketFails, Kill
  <2>5. PoolType'
    BY <1>a, <1>b, <1>15 DEF PoolType, Return, SocketFails, Kill
  <2> QED
    BY <2>1, <2>2, <2>3, <2>4, <2>5, TypeParts
<1>16. CASE UNCHANGED vars
  BY <1>a, <1>b, <1>16, TypeParts DEF ScriptType, DspType, MainType, SharedType, PoolType,
     vars
<1> QED
  BY <1>1, <1>2, <1>3, <1>4, <1>5, <1>6, <1>7, <1>8,
     <1>9, <1>10, <1>11, <1>12, <1>13, <1>14, <1>15, <1>16 DEF Next, Dsp, Main

LEMMA ScriptStep == TypeOK /\ ScriptInv /\ ThreadInv /\ [Next]_vars => ScriptInv'
<1> SUFFICES ASSUME TypeOK, ScriptInv, ThreadInv, [Next]_vars PROVE ScriptInv'
  OBVIOUS
<1> USE DEF TypeOK, shell, dsp, pool, rings, block, DspReset, DspGoesOn, Ends, Dies, Step, ScriptInv, ThreadInv, Before
<1>1. CASE Script \/ Interrupt
  BY <1>1 DEF Script, Modprobe, Slaveloader, HostReturns, Shutdown, Rmmod, Interrupt
<1>2. CASE IpcStart \/ IpcAttach \/ CreateQueue \/ RegisterHeap
  BY <1>2 DEF IpcStart, IpcAttach, CreateQueue, RegisterHeap
<1>3. CASE OnStart
  BY <1>3 DEF OnStart
<1>4. CASE OnEnable
  BY <1>4 DEF OnEnable
<1>5. CASE FirstBlock
  BY <1>5 DEF FirstBlock
<1>6. CASE Setup \/ NewRing \/ NewHeap \/ NewQueue
  BY <1>6 DEF Setup, NewRing, NewHeap, NewQueue
<1>7. CASE Callback("load", "callback") \/ Callback("callback", "ring")
          \/ Callback("stop", "return")
  BY <1>7 DEF Callback
<1>8. CASE OpenQueue \/ NewSockets
  BY <1>8 DEF OpenQueue, NewSockets
<1>9. CASE Send("START", "ENABLE") \/ Send("ENABLE", "threads")
  BY <1>9 DEF Send
<1>10. CASE StartThread
  BY <1>10 DEF StartThread
<1>11. CASE JoinThread
  BY <1>11 DEF JoinThread
<1>12. CASE Delete
  BY <1>12 DEF Delete
<1>13. ASSUME NEW t \in Threads, Begin(t) PROVE ScriptInv'
  BY <1>13 DEF Begin
<1>14. CASE Receive
  BY <1>14 DEF Receive
<1>15. CASE Return \/ SocketFails \/ Kill
  BY <1>15 DEF Return, SocketFails, Kill
<1>16. CASE UNCHANGED vars
  BY <1>16 DEF vars
<1> QED
  BY <1>1, <1>2, <1>3, <1>4, <1>5, <1>6, <1>7, <1>8,
     <1>9, <1>10, <1>11, <1>12, <1>13, <1>14, <1>15, <1>16 DEF Next, Dsp, Main

LEMMA OffStep == TypeOK /\ ScriptInv /\ OffInv /\ [Next]_vars => OffInv'
<1> SUFFICES ASSUME TypeOK, ScriptInv, OffInv, [Next]_vars PROVE OffInv'
  OBVIOUS
<1> USE DEF TypeOK, shell, dsp, pool, rings, block, DspReset, DspGoesOn, Ends, Dies, Step, OffInv
<1>1. CASE Script \/ Interrupt
  BY <1>1 DEF Script, Modprobe, Slaveloader, HostReturns, Shutdown, Rmmod, Interrupt, ScriptInv
<1>2. CASE IpcStart \/ IpcAttach \/ CreateQueue \/ RegisterHeap
  BY <1>2 DEF IpcStart, IpcAttach, CreateQueue, RegisterHeap
<1>3. CASE OnStart
  BY <1>3 DEF OnStart
<1>4. CASE OnEnable
  BY <1>4 DEF OnEnable
<1>5. CASE FirstBlock
  BY <1>5 DEF FirstBlock
<1>6. CASE Setup \/ NewRing \/ NewHeap \/ NewQueue
  BY <1>6 DEF Setup, NewRing, NewHeap, NewQueue
<1>7. CASE Callback("load", "callback") \/ Callback("callback", "ring")
          \/ Callback("stop", "return")
  BY <1>7 DEF Callback
<1>8. CASE OpenQueue \/ NewSockets
  BY <1>8 DEF OpenQueue, NewSockets
<1>9. CASE Send("START", "ENABLE") \/ Send("ENABLE", "threads")
  BY <1>9 DEF Send
<1>10. CASE StartThread
  BY <1>10 DEF StartThread
<1>11. CASE JoinThread
  BY <1>11 DEF JoinThread
<1>12. CASE Delete
  BY <1>12 DEF Delete
<1>13. ASSUME NEW t \in Threads, Begin(t) PROVE OffInv'
  BY <1>13 DEF Begin
<1>14. CASE Receive
  BY <1>14 DEF Receive
<1>15. CASE Return \/ SocketFails \/ Kill
  BY <1>15 DEF Return, SocketFails, Kill
<1>16. CASE UNCHANGED vars
  BY <1>16 DEF vars
<1> QED
  BY <1>1, <1>2, <1>3, <1>4, <1>5, <1>6, <1>7, <1>8,
     <1>9, <1>10, <1>11, <1>12, <1>13, <1>14, <1>15, <1>16 DEF Next, Dsp, Main

LEMMA SweptStep ==
  TypeOK /\ ScriptInv /\ OffInv /\ SweptInv /\ [Next]_vars => SweptInv'
<1> SUFFICES ASSUME TypeOK, ScriptInv, OffInv, SweptInv, [Next]_vars PROVE SweptInv'
  OBVIOUS
<1>c. swept = 1 => commands \in Seq(CommandOf({run}))
  BY DEF SweptInv
<1> USE DEF TypeOK, shell, dsp, pool, rings, block, DspReset, DspGoesOn, Ends, Dies, Step, SweptInv
<1>1. CASE Script \/ Interrupt
  <2>1. \A R : <<>> \in Seq(CommandOf(R))
    BY NoCommand
  <2>2. CASE Modprobe
    <3>1. SUFFICES ASSUME swept = 1 PROVE SweptInv'
      BY <2>2 DEF Modprobe
    <3>2. dpc = "off" /\ dpc' = "off" /\ commands' = <<>> /\ is_started' = 0 /\ ring' = "none"
      BY <2>2, <3>1 DEF Modprobe, OffInv
    <3>3. commands' \in Seq(CommandOf({run'}))
      BY <2>1, <3>2
    <3> QED
      BY <3>2, <3>3
  <2>3. CASE Shutdown
    <3>1. commands' = <<>> => commands' \in Seq(CommandOf({run'}))
      BY <2>1
    <3> QED
      BY <2>3, <3>1 DEF Shutdown
  <2>4. CASE Slaveloader
    <3>1. commands' = <<>> => commands' \in Seq(CommandOf({run'}))
      BY <2>1
    <3> QED
      BY <2>4, <3>1 DEF Slaveloader
  <2>5. CASE HostReturns
    BY <2>5 DEF HostReturns
  <2>6. CASE Rmmod
    BY <2>6 DEF Rmmod
  <2>7. CASE Interrupt
    BY <2>7 DEF Interrupt
  <2> QED
    BY <1>1, <2>2, <2>3, <2>4, <2>5, <2>6, <2>7 DEF Script
<1>2. CASE IpcStart \/ IpcAttach \/ CreateQueue \/ RegisterHeap
  BY <1>2 DEF IpcStart, IpcAttach, CreateQueue, RegisterHeap
<1>3. CASE OnStart
  <2> SUFFICES ASSUME swept = 1 PROVE SweptInv'
    BY <1>3 DEF OnStart
  <2>1. Head(commands).reply = run /\ commands' \in Seq(CommandOf({run})) /\ run' = run
    BY <1>c, <1>3, FirstCommand DEF OnStart
  <2>2. dpc' = "loop" /\ script \notin {"modprobe", "slaveloader", "rmmod", "stopped"}
    BY <1>3 DEF OnStart
  <2>3. CASE is_started = 1
    BY <1>3, <2>1, <2>2, <2>3 DEF OnStart
  <2>4. CASE is_started # 1
    <3>1. reply_id' = run
      BY <1>3, <2>1, <2>4 DEF OnStart
    <3>2. ring # "none" => ring_of = run
      BY <2>2
    <3>3. writer' \in {0, run} /\ (writer' = 0 => failed' = 1)
      BY <1>3, <2>4, <3>2 DEF OnStart
    <3> QED
      BY <1>3, <2>1, <2>2, <3>1, <3>3 DEF OnStart
  <2> QED
    BY <2>3, <2>4
<1>4. CASE OnEnable
  BY <1>4 DEF OnEnable
<1>5. CASE FirstBlock
  BY <1>5 DEF FirstBlock
<1>6. CASE Setup \/ NewRing \/ NewHeap \/ NewQueue
  <2>1. CASE NewRing
    <3>1. script = "host" /\ UNCHANGED <<shell, dsp>> /\ (failed = 1 => failed' = 1)
      BY <2>1 DEF NewRing, ScriptInv
    <3>2. ring' # "none" => ring_of' = run \/ (ring # "none" /\ ring_of' = ring_of)
      BY <2>1 DEF NewRing
    <3> QED
      BY <3>1, <3>2
  <2>2. CASE Setup \/ NewHeap \/ NewQueue
    <3>1. UNCHANGED <<shell, dsp, rings>> /\ (failed = 1 => failed' = 1)
      BY <2>2 DEF Setup, NewHeap, NewQueue
    <3> QED
      BY <3>1
  <2> QED
    BY <1>6, <2>1, <2>2
<1>7. CASE Callback("load", "callback") \/ Callback("callback", "ring")
          \/ Callback("stop", "return")
  BY <1>7 DEF Callback
<1>8. CASE OpenQueue \/ NewSockets
  BY <1>8 DEF OpenQueue, NewSockets
<1>9. CASE Send("START", "ENABLE") \/ Send("ENABLE", "threads")
  <2>1. CASE commands' = commands
    BY <1>9, <2>1 DEF Send
  <2>2. CASE commands' # commands
    <3>1. PICK x \in {"START", "ENABLE"} :
            m_queue_recv # 0 /\ commands' = Append(commands, [cmd |-> x, reply |-> m_queue_recv])
      BY <1>9, <2>2 DEF Send
    <3>2. m_queue_recv = run
      BY <3>1 DEF ScriptInv
    <3>3. swept = 1 => commands' \in Seq(CommandOf({run}))
      BY <1>c, <3>1, <3>2, NextCommand
    <3>4. hpc \in {"START", "ENABLE"}
      BY <1>9, <2>2 DEF Send
    <3> QED
      BY <1>9, <3>3, <3>4 DEF Send, OffInv
  <2> QED
    BY <2>1, <2>2
<1>10. CASE StartThread
  BY <1>10 DEF StartThread
<1>11. CASE JoinThread
  BY <1>11 DEF JoinThread
<1>12. CASE Delete
  BY <1>12 DEF Delete
<1>13. ASSUME NEW t \in Threads, Begin(t) PROVE SweptInv'
  BY <1>13 DEF Begin
<1>14. CASE Receive
  BY <1>14 DEF Receive
<1>15. CASE Return \/ SocketFails \/ Kill
  BY <1>15 DEF Return, SocketFails, Kill
<1>16. CASE UNCHANGED vars
  BY <1>16 DEF vars
<1> QED
  BY <1>1, <1>2, <1>3, <1>4, <1>5, <1>6, <1>7, <1>8,
     <1>9, <1>10, <1>11, <1>12, <1>13, <1>14, <1>15, <1>16 DEF Next, Dsp, Main

LEMMA StartOrder == /\ Starts[1] = "sample" /\ Starts[2] = "wifireceive"
                    /\ Starts[3] = "wifisending" /\ Starts[4] = "phone"
  BY DEF Starts

LEMMA JoinOrder == \A t \in Threads : \E m \in 1 .. 4 : Joins[m] = t
  BY DEF Joins, Threads

\* A thread is there only while threads are started and joined.
LEMMA ThreadsOnlyThen ==
  ASSUME TypeOK, ScriptInv, ThreadInv
  PROVE  \A t \in Threads : threads[t] \in {"created", "running"} =>
           hpc \in {"threads", "join"} /\ Flag(t) \in flags
<1>1. hpc = "none" => \A t \in Threads : threads[t] = "none"
  BY DEF ScriptInv
<1> QED
  BY <1>1 DEF TypeOK, ThreadInv, Before, After

LEMMA ThreadStep == TypeOK /\ ScriptInv /\ ThreadInv /\ [Next]_vars => ThreadInv'
<1> SUFFICES ASSUME TypeOK, ScriptInv, ThreadInv, [Next]_vars PROVE ThreadInv'
  OBVIOUS
<1>a. \A t \in Threads : threads[t] \in {"created", "running"} =>
        hpc \in {"threads", "join"} /\ Flag(t) \in flags
  BY ThreadsOnlyThen
<1>b. hpc \in {"threads", "join"} => k \in 1 .. 4
  BY DEF TypeOK, ThreadInv
<1> USE DEF TypeOK, shell, dsp, pool, rings, block, DspReset, DspGoesOn, Ends, Dies, Step, ScriptInv, ThreadInv, Before,
   After, Threads, Flag
<1>1. CASE Script \/ Interrupt
  BY <1>1 DEF Script, Modprobe, Slaveloader, HostReturns, Shutdown, Rmmod, Interrupt
<1>2. CASE IpcStart \/ IpcAttach \/ CreateQueue \/ RegisterHeap
  BY <1>2 DEF IpcStart, IpcAttach, CreateQueue, RegisterHeap
<1>3. CASE OnStart
  BY <1>3 DEF OnStart
<1>4. CASE OnEnable
  BY <1>4 DEF OnEnable
<1>5. CASE FirstBlock
  BY <1>5 DEF FirstBlock
<1>6. CASE Setup \/ NewRing \/ NewHeap \/ NewQueue
  BY <1>6 DEF Setup, NewRing, NewHeap, NewQueue
<1>7. CASE Callback("load", "callback") \/ Callback("callback", "ring")
          \/ Callback("stop", "return")
  BY <1>7 DEF Callback
<1>8. CASE OpenQueue \/ NewSockets
  BY <1>8 DEF OpenQueue, NewSockets
<1>9. CASE Send("START", "ENABLE") \/ Send("ENABLE", "threads")
  <2>1. CASE hpc' = "none"
    BY <1>9, <2>1 DEF Send
  <2>2. CASE hpc' # "none"
    <3>1. hpc \in Before /\ hpc' \in {"ENABLE", "threads"} /\ UNCHANGED <<k, flags, threads>>
      BY <1>9, <2>2 DEF Send
    <3>2. k' = 1 /\ \A t \in Threads : threads'[t] = "none"
      BY <3>1
    <3> QED
      BY <3>1, <3>2
  <2> QED
    BY <2>1, <2>2
<1>10. CASE StartThread
  <2>1. k \in 1 .. 4 /\ Starts[k] \in Threads /\ (k = 1 => Starts[k] = "sample")
       /\ (Starts[k] = "wifisending" => k >= 2)
    BY <1>b, <1>10, StartOrder DEF StartThread
  <2>2. /\ "sample" \in flags'
        /\ \A t \in Threads : threads[t] \in {"created", "running"} => Flag(t) \in flags'
        /\ Flag(Starts[k]) \in flags'
    BY <1>a, <1>10, <2>1 DEF StartThread
  <2>3. \A t \in Threads : /\ threads'[t] # "ended"
                           /\ threads'[t] \in {"created", "running"} => Flag(t) \in flags'
    BY <1>10, <2>1, <2>2 DEF StartThread
  <2>4. hpc' \in {"threads", "join"} /\ k' \in 1 .. 4 /\ (hpc' = "join" => k' = 1)
    BY <1>10, <2>1, Lens DEF StartThread
  <2> QED
    BY <2>2, <2>3, <2>4
<1>11. CASE JoinThread
  <2>1. k \in 1 .. 4 /\ hpc = "join" /\ threads[Joins[k]] = "failed"
    BY <1>b, <1>11, JoinsStarts DEF JoinThread
  <2>2. CASE hpc' = "none"
    BY <1>11, <2>2 DEF JoinThread
  <2>3. CASE hpc' # "none" /\ k < 4
    BY <1>11, <2>1, <2>3, Lens DEF JoinThread
  <2>4. CASE hpc' # "none" /\ k = 4
    <3>1. \A t \in Threads : threads[t] = "failed"
      BY <2>1, <2>4, JoinOrder
    <3>2. hpc' = "delete" /\ UNCHANGED threads
      BY <1>11, <2>1, <2>4, Lens DEF JoinThread
    <3> QED
      BY <3>1, <3>2
  <2> QED
    BY <2>1, <2>2, <2>3, <2>4
<1>12. CASE Delete
  BY <1>12 DEF Delete
<1>13. ASSUME NEW t \in Threads, Begin(t) PROVE ThreadInv'
  <2>1. hpc \in {"threads", "join"} /\ Flag(t) \in flags
    BY <1>a, <1>13 DEF Begin
  <2>2. /\ threads' = [threads EXCEPT ![t] = "running"]
        /\ flags \subseteq flags'
        /\ UNCHANGED <<hpc, k>>
    BY <1>13, <2>1 DEF Begin
  <2>3. Flag(t) \in flags'
    BY <2>1, <2>2
  <2>4. \A u \in Threads : /\ threads'[u] # "ended"
                           /\ threads'[u] \in {"created", "running"} => Flag(u) \in flags'
    BY <2>1, <2>2, <2>3
  <2>5. hpc = "join" => \A m \in 1 .. 4 : m < k => threads'[Joins[m]] = "failed"
    BY <1>13, <2>2, JoinsStarts DEF Begin
  <2> QED
    BY <2>1, <2>2, <2>4, <2>5
<1>14. CASE Receive
  BY <1>14 DEF Receive
<1>15. CASE Return \/ SocketFails \/ Kill
  BY <1>15 DEF Return, SocketFails, Kill
<1>16. CASE UNCHANGED vars
  BY <1>16 DEF vars
<1> QED
  BY <1>1, <1>2, <1>3, <1>4, <1>5, <1>6, <1>7, <1>8,
     <1>9, <1>10, <1>11, <1>12, <1>13, <1>14, <1>15, <1>16 DEF Next, Dsp, Main

LEMMA FailureStep == IInv /\ [Next]_vars => FailureInv'
<1> SUFFICES ASSUME IInv, [Next]_vars PROVE FailureInv'
  OBVIOUS
<1>a. threads["sample"] = "running" => hpc \in {"threads", "join"}
  BY ThreadsOnlyThen DEF IInv, Threads
<1> USE DEF TypeOK, shell, dsp, pool, rings, block, DspReset, DspGoesOn, Ends, Dies, Step, IInv, ScriptInv, OffInv, SweptInv,
   ThreadInv, FailureInv, Before, After
<1>1. CASE Script \/ Interrupt
  BY <1>1 DEF Script, Modprobe, Slaveloader, HostReturns, Shutdown, Rmmod, Interrupt
<1>2. CASE IpcStart \/ IpcAttach \/ CreateQueue \/ RegisterHeap
  BY <1>2 DEF IpcStart, IpcAttach, CreateQueue, RegisterHeap
<1>3. CASE OnStart
  BY <1>3 DEF OnStart
<1>4. CASE OnEnable
  BY <1>4 DEF OnEnable
<1>5. CASE FirstBlock
  BY <1>5 DEF FirstBlock
<1>6. CASE Setup \/ NewRing \/ NewHeap \/ NewQueue
  BY <1>6 DEF Setup, NewRing, NewHeap, NewQueue
<1>7. CASE Callback("load", "callback") \/ Callback("callback", "ring")
          \/ Callback("stop", "return")
  BY <1>7 DEF Callback
<1>8. CASE OpenQueue \/ NewSockets
  BY <1>8 DEF OpenQueue, NewSockets
<1>9. CASE Send("START", "ENABLE") \/ Send("ENABLE", "threads")
  BY <1>9 DEF Send
<1>10. CASE StartThread
  BY <1>10 DEF StartThread
<1>11. CASE JoinThread
  BY <1>11 DEF JoinThread
<1>12. CASE Delete
  BY <1>12 DEF Delete
<1>13. ASSUME NEW t \in Threads, Begin(t) PROVE FailureInv'
  BY <1>13 DEF Begin
<1>14. CASE Receive
  BY <1>a, <1>14 DEF Receive
<1>15. CASE Return \/ SocketFails \/ Kill
  BY <1>15 DEF Return, SocketFails, Kill
<1>16. CASE UNCHANGED vars
  BY <1>16 DEF vars
<1> QED
  BY <1>1, <1>2, <1>3, <1>4, <1>5, <1>6, <1>7, <1>8,
     <1>9, <1>10, <1>11, <1>12, <1>13, <1>14, <1>15, <1>16 DEF Next, Dsp, Main

-----------------------------------------------------------------------------
\* The inductive invariant holds in every reachable state.
THEOREM Invariance == SafeSpec => []IInv
<1>1. IInv /\ [Next]_vars => IInv'
  BY TypeStep, ScriptStep, OffStep, SweptStep, ThreadStep, FailureStep DEF IInv
<1> QED
  BY InitIInv, <1>1, PTL DEF SafeSpec

\* Every variable keeps its range, the commands of the DSP's queue among them.
THEOREM TypeCorrect == SafeSpec => []TypeOK
<1>1. IInv => TypeOK
  BY DEF IInv
<1> QED
  BY Invariance, <1>1, PTL

\* Of however many runs of the script, interrupted or with failing commands: in one
\* that follows a run which stopped the DSP and unloaded the driver, a DSP that has
\* executed START and a host that lives belong together: replies go to the present
\* queue and blocks to the present ring (message_loop.c 82-92, run.sh 39-57).
THEOREM ConnectionIsOfOneRun == SafeSpec => []Connected
<1>1. IInv => Connected
  BY DEF IInv, SweptInv, Connected
<1> QED
  BY Invariance, <1>1, PTL

\* A thread that was created finds its flag set, whenever it is scheduled
\* first, and ends with its process only (app.c 80-90).
THEOREM ThreadsStayed == SafeSpec => []ThreadsStay
<1>1. IInv => ThreadsStay
  BY DEF IInv, ThreadInv, ThreadsStay
<1> QED
  BY Invariance, <1>1, PTL

\* App_delete meets no thread that uses what it takes down (app.c 92-107).
THEOREM TornDownAlone == SafeSpec => []TeardownAlone
<1>1. IInv => TeardownAlone
  BY DEF IInv, ThreadInv, TeardownAlone, After
<1> QED
  BY Invariance, <1>1, PTL

\* LOG_FATAL and the null pointer of the DSP are reached only after a call had
\* failed in the same run, or it began with remains (message_queue.c 39-63, message_loop.c 52-53, 89-99).
THEOREM FatalAfterFailure == SafeSpec => []FatalOnlyAfterFailure
<1>1. IInv => FatalOnlyAfterFailure
  BY DEF IInv, FailureInv, FatalOnlyAfterFailure
<1> QED
  BY Invariance, <1>1, PTL
=============================================================================
