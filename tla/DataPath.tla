------------------------------ MODULE DataPath ------------------------------
(***************************************************************************)
(* The path of the samples from the converter to the phone, over both       *)
(* processors.                                                              *)
(*                                                                          *)
(* On the DSP three SYS/BIOS tasks share one core under strict priorities:  *)
(* the message loop (15) that executes the host's commands, the algorithm   *)
(* task (13) that filters a block in place, and the uPP task (12) that      *)
(* acquires a ring block, fills it by DMA, RELEASES IT TO THE HOST, and     *)
(* only then either announces it with a message or queues it for the        *)
(* algorithm, which announces it after filtering.  On the host the receiver *)
(* thread takes one message, acquires the oldest block of the ring, offers  *)
(* it to the WiFi sender and gives it back; the main thread and the phone   *)
(* command thread send commands.  Messages of both directions come from one *)
(* heap in shared memory, and nobody checks on the DSP whether it is empty. *)
(*                                                                          *)
(* Nothing but the priorities and the order of the calls ties a message to  *)
(* the block it announces: that they agree is what this module is about.    *)
(*                                                                          *)
(* Abstractions: a ring slot holds one block and the label of what has been *)
(* done to it; the ring gives the reader its slots in the order in which    *)
(* the writer released them; commands that leave the path alone (channel,   *)
(* rate, algorithm, coefficients) are one CONFIG; the handoff between the   *)
(* receiver and the sender is the abstract BlockChannel that module         *)
(* SampleHandoff implements.                                                *)
(***************************************************************************)
EXTENDS Integers, Sequences, FiniteSets, Functions

CONSTANTS Slots,      \* blocks of the ring: 14 MB / 4 KB = 3584 in the code
          NoSlot,     \* no block (the NULL pointer)
          HeapSlots,  \* messages the heap of shared region 0 has room for
          CmdWindow,  \* bound: commands the phone may leave unprocessed
          PhoneCmds   \* the kinds of command the phone sends

ASSUME SlotsAssumption == IsFiniteSet(Slots) /\ NoSlot \notin Slots
ASSUME PhoneAssumption == PhoneCmds \subseteq {"ENABLE", "DISABLE", "CONFIG"}
ASSUME WindowAssumption == CmdWindow \in Nat /\ CmdWindow >= 2
\* Room for the blocks the ring can hold, for the message whose block the host
\* has already given back, for the waiting commands and for the one in hand.
ASSUME HeapAssumption ==
  HeapSlots \in Nat /\ HeapSlots >= Cardinality(Slots) + CmdWindow + 2

VARIABLES
  (* shared memory *)
  valid,         \* ring: blocks released by the writer, oldest first
  held,          \* ring: the block the reader has acquired
  content,       \* what each block holds
  cmdq, dataq,   \* the message queues of the DSP and of the host
  heap,          \* messages allocated
  (* DSP *)
  is_started, do_algorism,   \* MessageLoop.is_started, ADWorkshop.do_algorism
  lpc, lcmd,     \* message loop: where it is, the command in hand
  apc, raw,      \* algorithm task: where it is, the block in hand
  rawq, sem,     \* Queue: its elements and its semaphore
  rawUsed,       \* Raw records allocated
  upc, data,     \* uPP task: where it is, ad->data
  eow,           \* upp_interrupt_count + upp_error_count, 0 or 1
  (* host *)
  mpc,           \* main thread: where it is
  rpc, rmsg,     \* sample receiver: where it is, the message in hand
  offer, waiting, outgoing   \* the handoff and the WiFi sender

ring == <<valid, held, content>>
queues == <<cmdq, dataq, heap>>
loop == <<is_started, do_algorism, lpc, lcmd>>
algo == <<apc, raw, rawq, sem, rawUsed>>
upp == <<upc, data, eow>>
receiver == <<rpc, rmsg>>
wifi == <<offer, waiting, outgoing>>
vars == <<ring, queues, loop, algo, upp, mpc, receiver, wifi>>

Cmds == {"START", "ENABLE", "DISABLE", "CONFIG"}
Tags == {"RAW_DATA", "ALGORISM_DATA"}
None == "none"
Labels == {"empty", "raw", "busy", "filtered"}

Channel == INSTANCE BlockChannel WITH Blocks <- Labels, NoBlock <- None

Init == /\ valid = <<>> /\ held = NoSlot
        /\ content = [s \in Slots |-> "empty"]
        /\ cmdq = <<>> /\ dataq = <<>> /\ heap = 0
        /\ is_started = 0 /\ do_algorism = 0
        /\ lpc = "get" /\ lcmd = None
        /\ apc = None /\ raw = NoSlot /\ rawq = <<>> /\ sem = 0 /\ rawUsed = 0
        /\ upc = None /\ data = NoSlot /\ eow = 0
        /\ mpc = "start"
        /\ rpc = None /\ rmsg = None
        /\ Channel!Init

-----------------------------------------------------------------------------
(* The DSP's scheduler *)

Tasks == {"loop", "algorism", "uPP"}
\* Faulty variant: the uPP task above the algorithm task.
PrioSwapped == [loop |-> 15, algorism |-> 12, uPP |-> 13]

Prio == [loop |-> 15, algorism |-> 13, uPP |-> 12]

Ready(t) ==
  CASE t = "loop" -> lpc # "get" \/ cmdq # <<>>
    [] t = "algorism" -> apc \in {"check", "begin", "finish", "alloc", "put"}
                         \/ (apc = "pend" /\ sem > 0)
    [] t = "uPP" -> upc \notin {None, "sleep", "fault"}

\* SYS/BIOS always runs the ready task of the highest priority, and switches at
\* once when a post, a message or an interrupt makes a higher one ready.
Runs(t) == Ready(t) /\ \A u \in Tasks : Prio[u] > Prio[t] => ~Ready(u)

-----------------------------------------------------------------------------
(* The message loop task *)

LoopGet == /\ Runs("loop")
           /\ lpc = "get"
           /\ lcmd' = Head(cmdq)
           /\ cmdq' = Tail(cmdq)
           /\ lpc' = "dispatch"
           /\ UNCHANGED <<ring, dataq, heap, is_started, do_algorism, algo, upp,
                          mpc, receiver, wifi>>

\* message_loop_on_start: the ring writer, the workshop with its queue and its
\* task, the callback, the uPP task.  A second START only logs.
OnStart == /\ lcmd = "START"
           /\ IF is_started # 0
                THEN UNCHANGED <<is_started, algo, upp>>
                ELSE /\ is_started' = 1
                     /\ apc' = "check"
                     /\ upc' = "acquire"
                     /\ UNCHANGED <<raw, rawq, sem, rawUsed, data, eow>>
           /\ UNCHANGED do_algorism

\* Both handlers only log when START has not been received.
OnEnable == /\ lcmd = "ENABLE"
            /\ do_algorism' = IF is_started # 0 THEN 1 ELSE do_algorism
            /\ UNCHANGED <<is_started, algo, upp>>

OnDisable == /\ lcmd = "DISABLE"
             /\ do_algorism' = IF is_started # 0 THEN 0 ELSE do_algorism
             /\ UNCHANGED <<is_started, algo, upp>>

OnConfig == /\ lcmd = "CONFIG"
            /\ UNCHANGED <<is_started, do_algorism, algo, upp>>

LoopDispatch == /\ Runs("loop")
                /\ lpc = "dispatch"
                /\ OnStart \/ OnEnable \/ OnDisable \/ OnConfig
                /\ lpc' = "free"
                /\ UNCHANGED <<ring, queues, lcmd, mpc, receiver, wifi>>

\* Faulty variant: a handler has freed the message already.
LoopFreeTwice == /\ Runs("loop")
                 /\ lpc = "free"
                 /\ heap' = heap - 2
                 /\ lcmd' = None
                 /\ lpc' = "get"
                 /\ UNCHANGED <<ring, cmdq, dataq, is_started, do_algorism, algo, upp,
                                mpc, receiver, wifi>>

LoopFree == /\ Runs("loop")
            /\ lpc = "free"
            /\ heap' = heap - 1
            /\ lcmd' = None
            /\ lpc' = "get"
            /\ UNCHANGED <<ring, cmdq, dataq, is_started, do_algorism, algo, upp,
                           mpc, receiver, wifi>>

Loop == LoopGet \/ LoopDispatch \/ LoopFree

-----------------------------------------------------------------------------
(* The uPP task *)

\* What RingIO can give the writer.
Acquired == IF upc \in {"dma", "wait", "release"} THEN {data} ELSE {}
Free == Slots \ (Range(valid) \cup {held} \cup Acquired)

\* Faulty variant: ad->data keeps the last block when the ring is full.
UppAcquireKeeps == /\ Runs("uPP")
                   /\ upc = "acquire"
                   /\ \/ /\ \E s \in Free : data' = s
                         /\ upc' = "dma"
                      \/ /\ Free = {}
                         /\ data' = data
                         /\ upc' = "sleep"
                   /\ UNCHANGED <<ring, queues, loop, algo, eow, mpc, receiver, wifi>>

\* ad->counter is 0 at every pass: a transfer fills the whole block.
UppAcquire == /\ Runs("uPP")
              /\ upc = "acquire"
              /\ \/ /\ \E s \in Free : data' = s
                    /\ upc' = "dma"
                 \/ /\ Free = {}
                    /\ data' = NoSlot
                    /\ upc' = "sleep"
              /\ UNCHANGED <<ring, queues, loop, algo, eow, mpc, receiver, wifi>>

\* Task_sleep(1000) ends by the clock; the task then transfers all the same,
\* with no block to copy into.
UppWake == /\ upc = "sleep"
           /\ upc' = "dma"
           /\ UNCHANGED <<ring, queues, loop, algo, data, eow, mpc, receiver, wifi>>

UppTransfer == /\ Runs("uPP")
               /\ upc = "dma"
               /\ eow' = 0
               /\ upc' = "wait"
               /\ UNCHANGED <<ring, queues, loop, algo, data, mpc, receiver, wifi>>

\* uPPIsr: the end of the window, or an error, which ends the wait as well.
Isr == /\ upc = "wait"
       /\ eow = 0
       /\ eow' = 1
       /\ UNCHANGED <<ring, queues, loop, algo, upc, data, mpc, receiver, wifi>>

\* Faulty variant: the callback comes before ring_buffer_release.
UppCopyCallsBack == /\ Runs("uPP")
                    /\ upc = "wait"
                    /\ eow # 0
                    /\ IF data # NoSlot
                         THEN /\ content' = [content EXCEPT ![data] = "raw"]
                              /\ upc' = "import"
                         ELSE /\ upc' = "acquire"
                              /\ UNCHANGED content
                    /\ UNCHANGED <<valid, held, queues, loop, algo, data, eow, mpc,
                                   receiver, wifi>>

\* The busy wait is over: the samples are copied, or there is no block.
UppCopy == /\ Runs("uPP")
           /\ upc = "wait"
           /\ eow # 0
           /\ IF data # NoSlot
                THEN /\ content' = [content EXCEPT ![data] = "raw"]
                     /\ upc' = "release"
                ELSE /\ upc' = "acquire"
                     /\ UNCHANGED content
           /\ UNCHANGED <<valid, held, queues, loop, algo, data, eow, mpc,
                          receiver, wifi>>

\* ring_buffer_release: from here on the host can acquire the block.
UppRelease == /\ Runs("uPP")
              /\ upc = "release"
              /\ valid' = Append(valid, data)
              /\ upc' = "import"
              /\ UNCHANGED <<held, content, queues, loop, algo, data, eow, mpc,
                             receiver, wifi>>

\* The callback, ad_workshop_import: queue the block or allocate its message.
\* A failed allocation is logged and the NULL message written to.
UppImport == /\ Runs("uPP")
             /\ upc = "import"
             /\ IF do_algorism # 0
                  THEN /\ rawUsed' = rawUsed + 1
                       /\ rawq' = Append(rawq, data)
                       /\ upc' = "post"
                       /\ UNCHANGED heap
                  ELSE /\ IF heap < HeapSlots
                            THEN heap' = heap + 1 /\ upc' = "put"
                            ELSE upc' = "fault" /\ UNCHANGED heap
                       /\ UNCHANGED <<rawUsed, rawq>>
             /\ UNCHANGED <<ring, cmdq, dataq, loop, apc, raw, sem, data, eow, mpc,
                            receiver, wifi>>

\* Faulty variant: the element is put but the semaphore is not posted.
UppPostForgets == /\ Runs("uPP")
                  /\ upc = "post"
                  /\ upc' = "acquire"
                  /\ UNCHANGED <<ring, queues, loop, algo, data, eow, mpc, receiver,
                                 wifi>>

UppPost == /\ Runs("uPP")
           /\ upc = "post"
           /\ sem' = sem + 1
           /\ upc' = "acquire"
           /\ UNCHANGED <<ring, queues, loop, apc, raw, rawq, rawUsed, data, eow,
                          mpc, receiver, wifi>>

UppPut == /\ Runs("uPP")
          /\ upc = "put"
          /\ dataq' = Append(dataq, "RAW_DATA")
          /\ upc' = "acquire"
          /\ UNCHANGED <<ring, cmdq, heap, loop, algo, data, eow, mpc, receiver,
                         wifi>>

UPP == \/ UppAcquire \/ UppTransfer \/ UppCopy
       \/ UppRelease \/ UppImport \/ UppPost \/ UppPut

-----------------------------------------------------------------------------
(* The algorithm task *)

\* queue_pop: take the oldest block, or pend on the semaphore and look again.
AlgoCheck == /\ Runs("algorism")
             /\ apc = "check"
             /\ IF rawq = <<>>
                  THEN /\ apc' = "pend"
                       /\ UNCHANGED <<raw, rawq>>
                  ELSE /\ raw' = Head(rawq)
                       /\ rawq' = Tail(rawq)
                       /\ apc' = "begin"
             /\ UNCHANGED <<ring, queues, loop, sem, rawUsed, upp, mpc, receiver,
                            wifi>>

AlgoPend == /\ Runs("algorism")
            /\ apc = "pend"
            /\ sem' = sem - 1
            /\ apc' = "check"
            /\ UNCHANGED <<ring, queues, loop, raw, rawq, rawUsed, upp, mpc,
                           receiver, wifi>>

\* FIR or FFT rewrites the block in place ...
AlgoBegin == /\ Runs("algorism")
             /\ apc = "begin"
             /\ content' = [content EXCEPT ![raw] = "busy"]
             /\ apc' = "finish"
             /\ UNCHANGED <<valid, held, queues, loop, raw, rawq, sem, rawUsed, upp,
                            mpc, receiver, wifi>>

\* ... and is done; the Raw record is freed.
AlgoFinish == /\ Runs("algorism")
              /\ apc = "finish"
              /\ content' = [content EXCEPT ![raw] = "filtered"]
              /\ rawUsed' = rawUsed - 1
              /\ apc' = "alloc"
              /\ UNCHANGED <<valid, held, queues, loop, raw, rawq, sem, upp, mpc,
                             receiver, wifi>>

AlgoAlloc == /\ Runs("algorism")
             /\ apc = "alloc"
             /\ IF heap < HeapSlots
                  THEN heap' = heap + 1 /\ apc' = "put"
                  ELSE apc' = "fault" /\ UNCHANGED heap
             /\ UNCHANGED <<ring, cmdq, dataq, loop, raw, rawq, sem, rawUsed, upp,
                            mpc, receiver, wifi>>

AlgoPut == /\ Runs("algorism")
           /\ apc = "put"
           /\ dataq' = Append(dataq, "ALGORISM_DATA")
           /\ raw' = NoSlot
           /\ apc' = "check"
           /\ UNCHANGED <<ring, cmdq, heap, loop, rawq, sem, rawUsed, upp, mpc,
                          receiver, wifi>>

Algorism == AlgoCheck \/ AlgoPend \/ AlgoBegin \/ AlgoFinish \/ AlgoAlloc \/ AlgoPut

-----------------------------------------------------------------------------
(* The host.  LOG_FATAL ends the process: mpc = "exited". *)

HostUp == mpc # "exited"

\* Controler_send_cmd, with the allocation that is fatal when it fails; next is
\* where the main thread goes on.
SendCmd(c, next) == /\ IF heap < HeapSlots
                         THEN /\ heap' = heap + 1
                              /\ cmdq' = Append(cmdq, c)
                              /\ mpc' = next
                         ELSE /\ mpc' = "exited"
                              /\ UNCHANGED <<heap, cmdq>>
                    /\ UNCHANGED dataq

MainStart == /\ mpc = "start"
             /\ SendCmd("START", "enable")
             /\ UNCHANGED <<ring, loop, algo, upp, receiver, wifi>>

MainEnable == /\ mpc = "enable"
              /\ SendCmd("ENABLE", "receiver")
              /\ UNCHANGED <<ring, loop, algo, upp, receiver, wifi>>

\* SampleReceiver_start
MainReceiver == /\ mpc = "receiver"
                /\ rpc' = "pop"
                /\ mpc' = "phone"
                /\ UNCHANGED <<ring, queues, loop, algo, upp, rmsg, wifi>>

\* Udp_Receive_start, Udp_Send_start and PhoneCommand_start; then the joins.
MainPhone == /\ mpc = "phone"
             /\ mpc' = "join"
             /\ UNCHANGED <<ring, queues, loop, algo, upp, receiver, wifi>>

Main == MainStart \/ MainEnable \/ MainReceiver \/ MainPhone

\* PhoneCommand_Process sends a command of the phone's choice.
PhoneCommand == /\ mpc = "join"
                /\ Len(cmdq) < CmdWindow
                /\ \E c \in PhoneCmds : SendCmd(c, "join")
                /\ UNCHANGED <<ring, loop, algo, upp, receiver, wifi>>

\* A timeout of pop changes nothing: the loop pops again.
RecvPop == /\ HostUp
           /\ rpc = "pop"
           /\ dataq # <<>>
           /\ rmsg' = Head(dataq)
           /\ dataq' = Tail(dataq)
           /\ rpc' = "acquire"
           /\ UNCHANGED <<ring, cmdq, heap, loop, algo, upp, mpc, wifi>>

\* RingBuffer_acquired; a block missing from the ring is fatal.
RecvAcquire == /\ HostUp
               /\ rpc = "acquire"
               /\ IF valid # <<>>
                    THEN /\ held' = Head(valid)
                         /\ valid' = Tail(valid)
                         /\ rpc' = "offer"
                         /\ UNCHANGED mpc
                    ELSE /\ mpc' = "exited"
                         /\ UNCHANGED <<valid, held, rpc>>
               /\ UNCHANGED <<content, queues, loop, algo, upp, rmsg, wifi>>

\* The block is offered to the sender as it is now ...
RecvOffer == /\ HostUp
             /\ rpc = "offer"
             /\ Channel!Offer(content[held])
             /\ rpc' = "decide"
             /\ UNCHANGED <<ring, queues, loop, algo, upp, mpc, rmsg>>

\* ... and copied when the sender's buffer is empty, skipped otherwise.
RecvDecide == /\ HostUp
              /\ rpc = "decide"
              /\ Channel!Accept \/ Channel!Refuse
              /\ rpc' = "release"
              /\ UNCHANGED <<ring, queues, loop, algo, upp, mpc, rmsg>>

RecvRelease == /\ HostUp
               /\ rpc = "release"
               /\ content' = [content EXCEPT ![held] = "empty"]
               /\ held' = NoSlot
               /\ rpc' = "free"
               /\ UNCHANGED <<valid, queues, loop, algo, upp, mpc, rmsg, wifi>>

\* Faulty variant: no msg_free after the block is released.
RecvFreeForgets == /\ HostUp
                   /\ rpc = "free"
                   /\ rmsg' = None
                   /\ rpc' = "pop"
                   /\ UNCHANGED <<ring, queues, loop, algo, upp, mpc, wifi>>

RecvFree == /\ HostUp
            /\ rpc = "free"
            /\ heap' = heap - 1
            /\ rmsg' = None
            /\ rpc' = "pop"
            /\ UNCHANGED <<ring, cmdq, dataq, loop, algo, upp, mpc, wifi>>

Receiver == RecvPop \/ RecvAcquire \/ RecvOffer \/ RecvDecide \/ RecvRelease \/ RecvFree

\* Wifi_sending, through the channel.
WifiSender == /\ HostUp
              /\ Channel!Collect \/ Channel!Deliver
              /\ UNCHANGED <<ring, queues, loop, algo, upp, mpc, receiver>>

-----------------------------------------------------------------------------
Next == \/ Loop \/ UPP \/ UppWake \/ Isr \/ Algorism
        \/ Main \/ PhoneCommand \/ Receiver \/ WifiSender

\* A task that stays the highest ready one runs; the clock and the converter
\* deliver their interrupts; every host thread is scheduled (SCHED_OTHER).
\* The phone may stop at any time.
Fairness == /\ WF_vars(Loop)
            /\ WF_vars(Algorism)
            /\ WF_vars(UPP)
            /\ WF_vars(UppWake)
            /\ WF_vars(Isr)
            /\ WF_vars(Main)
            /\ WF_vars(Receiver)
            /\ WF_vars(WifiSender)

SafeSpec == Init /\ [][Next]_vars
Spec == SafeSpec /\ Fairness

-----------------------------------------------------------------------------
(* Properties *)

TypeOK ==
  /\ valid \in Seq(Slots) /\ held \in Slots \cup {NoSlot}
  /\ content \in [Slots -> Labels]
  /\ cmdq \in Seq(Cmds) /\ dataq \in Seq(Tags) /\ heap \in Nat
  /\ is_started \in {0, 1} /\ do_algorism \in {0, 1}
  /\ lpc \in {"get", "dispatch", "free"} /\ lcmd \in Cmds \cup {None}
  /\ apc \in {None, "check", "pend", "begin", "finish", "alloc", "put", "fault"}
  /\ raw \in Slots \cup {NoSlot} /\ rawq \in Seq(Slots)
  /\ sem \in Nat /\ rawUsed \in Nat
  /\ upc \in {None, "acquire", "sleep", "dma", "wait", "release", "import", "post",
              "put", "fault"}
  /\ data \in Slots \cup {NoSlot} /\ eow \in {0, 1}
  /\ mpc \in {"start", "enable", "receiver", "phone", "join", "exited"}
  /\ rpc \in {None, "pop", "acquire", "offer", "decide", "release", "free"}
  /\ rmsg \in Tags \cup {None}
  /\ offer \in Labels \cup {None}
  /\ waiting \in Labels \cup {None}
  /\ outgoing \in Labels \cup {None}

\* What the tag of a message says has been done to its block.
Announced(tag) == IF tag = "ALGORISM_DATA" THEN "filtered" ELSE "raw"

\* The block the host acquires is the one its message announces: neither still
\* being filtered nor another block's, although messages and blocks travel by
\* different ways and blocks are released before they are filtered.
MessageNamesBlock ==
  rpc \in {"offer", "decide", "release"} => content[held] = Announced(rmsg)

\* While the host holds a block the DSP does not write to it.
HeldUntouched ==
  [][(held # NoSlot /\ held' = held) => content'[held] = content[held]]_vars

\* The phone is sent finished blocks only.
OnlySettledSent == {offer, waiting, outgoing} \subseteq {None, "raw", "filtered"}

\* A message never arrives without its block, and a command never finds the
\* heap empty: the LOG_FATALs of the host are not reached.
HostSurvives == HostUp

\* The DSP never writes to a message it failed to allocate.
DspSurvives == apc # "fault" /\ upc # "fault"

\* At most one block is between the uPP task and the algorithm's message, and
\* its Raw record is the only one allocated.
OneRawAtATime == /\ Len(rawq) <= 1 /\ sem <= 1
                 /\ rawUsed = Len(rawq)
                              + (IF apc \in {"begin", "finish"} THEN 1 ELSE 0)

\* Every allocated message is in a queue or in somebody's hand.
NoMessageLost ==
  heap = Len(cmdq) + Len(dataq) + (IF lpc # "get" THEN 1 ELSE 0)
         + (IF rmsg # None THEN 1 ELSE 0)
         + (IF apc = "put" THEN 1 ELSE 0) + (IF upc = "put" THEN 1 ELSE 0)

\* message_loop.c: "MSG_CMD_START should be received first" is never logged.
StartedFirst ==
  (lpc = "dispatch" /\ lcmd \in {"ENABLE", "DISABLE"}) => is_started = 1

\* Once the phone is quiet every released block comes back to the writer, and
\* packets go on reaching the phone for ever.
Quiet == <>[][~PhoneCommand]_vars
BlocksReturn == Quiet => \A s \in Slots : []<>(s \notin Range(valid) /\ held # s)
StreamFlows == Quiet => []<>(outgoing # None)
=============================================================================
