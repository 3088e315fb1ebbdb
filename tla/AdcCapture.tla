----------------------------- MODULE AdcCapture -----------------------------
(***************************************************************************)
(* How one block of samples gets from the pins of the converter into the    *)
(* ring: the uPP task (dsp/driver/ad9238.c), the interrupt handler of the   *)
(* uPP (dsp/driver/uPP_Config.c), the DMA of the uPP that writes to memory  *)
(* behind the processor's cache, and the message loop that may switch the   *)
(* channel of the converter at any moment.  DataPath has this as three      *)
(* steps (UppTransfer, Isr, UppCopy); here is what makes them right.        *)
(*                                                                          *)
(* upp_buffer_a lies in cached memory (dsp.cfg: MAR195).  The task clears   *)
(* it, writes the zeros back, starts the transfer, and drops the cached     *)
(* copy BEFORE it waits for the end of the window.  The handler counts ends *)
(* of windows and errors; the wait ends with either count, and only the     *)
(* end-of-window interrupt is enabled.                                      *)
(*                                                                          *)
(* Abstractions: a sample is the channel it was taken from, and the parity  *)
(* of its window, which tells it from the samples of the window before; a   *)
(* cache line is one sample; an error (overrun, DMA, bus) leaves the window *)
(* running to its end.                                                      *)
(***************************************************************************)
EXTENDS Integers, FiniteSets

CONSTANTS N,          \* samples of a window and of a block: upp_line_size = 1024
          Channels,   \* channels of the converter
          Zero,       \* what memset leaves in the buffer
          Gone,       \* a line that is not in the cache
          Reported,   \* events uPPIntStatus shows, enabled or not
          MaxFaults   \* bound: errors of one window

ASSUME NAssumption == N \in Nat /\ N >= 1
Samples == [win : {0, 1}, ch : Channels]
Events == {"EOL", "EOW", "ERR", "UOR", "DPE"}
Errors == {"ERR", "UOR", "DPE"}
ASSUME ValuesAssumption == Zero \notin Samples /\ Gone \notin Samples \cup {Zero}
ASSUME ReportedAssumption == {"EOW"} \subseteq Reported /\ Reported \subseteq Events
ASSUME FaultsAssumption == MaxFaults \in Nat

VARIABLES
  (* the uPP and its DMA *)
  pin,             \* the channel select pin
  dma, win,        \* next sample of the window (0: idle), parity of the window
  delivered,       \* history: the samples of the window so far
  status, faults,  \* event flags of the peripheral, errors of this window
  (* upp_buffer_a *)
  mem, cache, dirty,
  (* uPPIsr *)
  isr, intr_dmai_status,
  upp_interrupt_count, upp_error_count,
  (* uPP_task_func *)
  upc, data,       \* where it is, whether ad->data points into the ring
  i, counter,      \* index of the copy loop, ad->counter
  block            \* what the block in the ring holds

periph == <<pin, dma, win, delivered, status, faults>>
buffer == <<mem, cache, dirty>>
handler == <<isr, intr_dmai_status>>
counts == <<upp_interrupt_count, upp_error_count>>
task == <<upc, data, i, counter, block>>
vars == <<periph, buffer, handler, counts, task>>

Cells == 1 .. N

Init == /\ pin \in Channels
        /\ dma = 0 /\ win = 0 /\ delivered = [c \in Cells |-> Zero]
        /\ status = {} /\ faults = 0
        /\ mem = [c \in Cells |-> Zero]
        /\ cache = [c \in Cells |-> Gone] /\ dirty = {}
        /\ isr = "out" /\ intr_dmai_status = {}
        /\ upp_interrupt_count = 0 /\ upp_error_count = 0
        /\ upc = "acquire" /\ data = "null" /\ i = 0 /\ counter = 0
        /\ block = [c \in Cells |-> Zero]

-----------------------------------------------------------------------------
(* The peripheral *)

\* Faulty variant: overruns interrupt as well.
IntEnabledOverrun == {"EOW", "UOR"}

\* The events that raise an interrupt.
IntEnabled == {"EOW"}

\* The converter delivers a sample; the last one ends the line and the window.
DmaStore == /\ dma # 0
            /\ LET s == [win |-> win, ch |-> pin]
               IN /\ mem' = [mem EXCEPT ![dma] = s]
                  /\ delivered' = [delivered EXCEPT ![dma] = s]
            /\ IF dma = N THEN dma' = 0 /\ status' = status \cup {"EOL", "EOW"}
                          ELSE dma' = dma + 1 /\ UNCHANGED status
            /\ UNCHANGED <<pin, win, faults, cache, dirty, handler, counts, task>>

Fault(e) == /\ dma # 0
            /\ faults < MaxFaults
            /\ faults' = faults + 1
            /\ status' = status \cup {e}
            /\ UNCHANGED <<pin, dma, win, delivered, buffer, handler, counts, task>>

\* The cache may drop a line at any time, writing it back if it is dirty.
Evict(c) == /\ cache[c] # Gone
            /\ mem' = IF c \in dirty THEN [mem EXCEPT ![c] = cache[c]] ELSE mem
            /\ cache' = [cache EXCEPT ![c] = Gone]
            /\ dirty' = dirty \ {c}
            /\ UNCHANGED <<periph, handler, counts, task>>

-----------------------------------------------------------------------------
(* uPPIsr: preempts every task *)

IsrEnter == /\ isr = "out"
            /\ status \cap IntEnabled # {}
            /\ isr' = "serve"
            /\ intr_dmai_status' = status \cap Reported
            /\ UNCHANGED <<periph, buffer, counts, task>>

\* Faulty variant: the handler leaves without looking again.
IsrServeForgets == /\ isr = "serve"
                   /\ status' = status \ intr_dmai_status
                   /\ isr' = "out" /\ intr_dmai_status' = {}
                   /\ UNCHANGED <<pin, dma, win, delivered, faults, buffer, counts, task>>

\* Every event of the status word is cleared and counted, and the status read
\* again.
IsrServe ==
  /\ isr = "serve"
  /\ IF intr_dmai_status = {}
       THEN /\ isr' = "out"
            /\ UNCHANGED <<status, intr_dmai_status, counts>>
       ELSE /\ status' = status \ intr_dmai_status
            /\ upp_interrupt_count' =
                 IF "EOW" \in intr_dmai_status THEN upp_interrupt_count + 1
                                               ELSE upp_interrupt_count
            /\ upp_error_count' =
                 upp_error_count + Cardinality(intr_dmai_status \cap Errors)
            /\ intr_dmai_status' = status' \cap Reported
            /\ UNCHANGED isr
  /\ UNCHANGED <<pin, dma, win, delivered, faults, buffer, task>>

-----------------------------------------------------------------------------
(* The tasks *)

\* A task runs while the handler has nothing to do.
Runs == isr = "out" /\ status \cap IntEnabled = {}

\* The message loop preempts the uPP task to execute CHA or CHB.
SelectADCChannel(c) == /\ Runs
                       /\ pin' = c
                       /\ UNCHANGED <<dma, win, delivered, status, faults, buffer,
                                      handler, counts, task>>

\* The ring may be full: then the task sleeps once and goes on without a block.
Acquire == /\ Runs
           /\ upc = "acquire"
           /\ IF counter = 0
                THEN \/ data' = "ring" /\ upc' = "memset"
                     \/ data' = "null" /\ upc' = "sleep"
                ELSE upc' = "memset" /\ UNCHANGED data
           /\ UNCHANGED <<periph, buffer, handler, counts, i, counter, block>>

Wake == /\ Runs
        /\ upc = "sleep"
        /\ upc' = "memset"
        /\ UNCHANGED <<periph, buffer, handler, counts, data, i, counter, block>>

Memset == /\ Runs
          /\ upc = "memset"
          /\ cache' = [c \in Cells |-> Zero]
          /\ dirty' = Cells
          /\ upc' = "error"
          /\ UNCHANGED <<periph, mem, handler, counts, data, i, counter, block>>

ResetErrorCount == /\ Runs
                   /\ upc = "error"
                   /\ upp_error_count' = 0
                   /\ upc' = "interrupt"
                   /\ UNCHANGED <<periph, buffer, handler, upp_interrupt_count,
                                  data, i, counter, block>>

\* Faulty variant: the count of the last window is kept.
KeepInterruptCount == /\ Runs
                      /\ upc = "interrupt"
                      /\ upc' = "wb"
                      /\ UNCHANGED <<periph, buffer, handler, counts, data, i,
                                     counter, block>>

ResetInterruptCount == /\ Runs
                       /\ upc = "interrupt"
                       /\ upp_interrupt_count' = 0
                       /\ upc' = "wb"
                       /\ UNCHANGED <<periph, buffer, handler, upp_error_count,
                                      data, i, counter, block>>

\* Faulty variant: the zeros stay dirty in the cache.
WriteBackSkipped == /\ Runs
                    /\ upc = "wb"
                    /\ upc' = "transfer"
                    /\ UNCHANGED <<periph, buffer, handler, counts, data, i, counter,
                                   block>>

\* Cache_wb: the zeros reach memory; the lines stay cached.
WriteBack == /\ Runs
             /\ upc = "wb"
             /\ mem' = [c \in Cells |-> IF c \in dirty THEN cache[c] ELSE mem[c]]
             /\ dirty' = {}
             /\ upc' = "transfer"
             /\ UNCHANGED <<periph, cache, handler, counts, data, i, counter, block>>

\* uPPDMATransfer; the history starts anew.
Transfer == /\ Runs
            /\ upc = "transfer"
            /\ dma' = 1
            /\ win' = 1 - win
            /\ delivered' = [c \in Cells |-> Zero]
            /\ faults' = 0
            /\ upc' = "inv"
            /\ UNCHANGED <<pin, status, buffer, handler, counts, data, i, counter, block>>

\* Faulty variant: the zeros stay in the cache.
InvalidateSkipped == /\ Runs
                     /\ upc = "inv"
                     /\ upc' = "wait"
                     /\ UNCHANGED <<periph, buffer, handler, counts, data, i, counter,
                                    block>>

\* Cache_inv drops the lines without writing them back.
Invalidate == /\ Runs
              /\ upc = "inv"
              /\ cache' = [c \in Cells |-> Gone]
              /\ dirty' = {}
              /\ upc' = "wait"
              /\ UNCHANGED <<periph, mem, handler, counts, data, i, counter, block>>

\* The busy wait ends with either count.  Without a block there is no copy.
WaitEnd == /\ Runs
           /\ upc = "wait"
           /\ upp_interrupt_count >= 1 \/ upp_error_count # 0
           /\ IF data = "ring" THEN upc' = "copy" /\ i' = 1
                               ELSE upc' = "full" /\ UNCHANGED i
           /\ UNCHANGED <<periph, buffer, handler, counts, data, counter, block>>

\* One sample: its line is fetched from memory when it is not cached.
\* frameNumber is 1, so that the loop copies the whole window.
Copy == /\ Runs
        /\ upc = "copy"
        /\ IF i <= N
             THEN LET s == IF cache[i] = Gone THEN mem[i] ELSE cache[i]
                  IN /\ cache' = [cache EXCEPT ![i] = s]
                     /\ block' = [block EXCEPT ![counter + 1] = s]
                     /\ counter' = counter + 1
                     /\ i' = i + 1
                     /\ UNCHANGED upc
             ELSE upc' = "full" /\ UNCHANGED <<cache, block, counter, i>>
        /\ UNCHANGED <<periph, mem, dirty, handler, counts, data>>

\* Faulty variant: the next block goes on where this one ends.
TestFullKeeps == /\ Runs
                 /\ upc = "full"
                 /\ upc' = IF counter = N THEN "release" ELSE "acquire"
                 /\ UNCHANGED <<periph, buffer, handler, counts, data, i, counter,
                                block>>

TestFull == /\ Runs
            /\ upc = "full"
            /\ IF counter = N THEN counter' = 0 /\ upc' = "release"
                              ELSE upc' = "acquire" /\ UNCHANGED counter
            /\ UNCHANGED <<periph, buffer, handler, counts, data, i, block>>

\* ring_buffer_release and the callback: the block belongs to the host.
Release == /\ Runs
           /\ upc = "release"
           /\ upc' = "acquire"
           /\ UNCHANGED <<periph, buffer, handler, counts, data, i, counter, block>>

UppTask == \/ Acquire \/ Wake \/ Memset \/ ResetErrorCount \/ ResetInterruptCount
           \/ WriteBack \/ Transfer \/ Invalidate \/ WaitEnd \/ Copy \/ TestFull
           \/ Release

Next == \/ DmaStore
        \/ \E e \in Errors : Fault(e)
        \/ \E c \in Cells : Evict(c)
        \/ IsrEnter \/ IsrServe
        \/ \E c \in Channels : SelectADCChannel(c)
        \/ UppTask

\* The converter delivers, an interrupt is served, the task of the highest
\* priority runs; the cache and the message loop need do nothing.
Fairness == WF_vars(DmaStore) /\ WF_vars(IsrEnter \/ IsrServe) /\ WF_vars(UppTask)

SafeSpec == Init /\ [][Next]_vars
Spec == SafeSpec /\ Fairness

-----------------------------------------------------------------------------
TypeOK ==
  /\ pin \in Channels /\ dma \in 0 .. N /\ win \in {0, 1}
  /\ delivered \in [Cells -> Samples \cup {Zero}]
  /\ status \subseteq Events /\ faults \in 0 .. MaxFaults
  /\ mem \in [Cells -> Samples \cup {Zero}]
  /\ cache \in [Cells -> Samples \cup {Zero, Gone}] /\ dirty \subseteq Cells
  /\ isr \in {"out", "serve"} /\ intr_dmai_status \subseteq Events
  /\ upp_interrupt_count \in Nat /\ upp_error_count \in Nat
  /\ upc \in {"acquire", "sleep", "memset", "error", "interrupt", "wb", "transfer",
              "inv", "wait", "copy", "full", "release"}
  /\ data \in {"null", "ring"} /\ i \in 0 .. N+1 /\ counter \in 0 .. N
  /\ block \in [Cells -> Samples \cup {Zero}]

\* A block given to the host holds, sample by sample, what the converter
\* delivered in the window just transferred: no zeros of the memset, no samples
\* of an earlier window, whatever the cache wrote back or kept
\* (ad9238.c 148-190).
BlockIsDelivered == upc = "release" => block = delivered

\* A window is programmed, and its buffer read, only while no transfer is
\* running: the wait never ends before its window does, although it also ends
\* with an error (ad9238.c 155, 160, 181).
BufferUnshared == upc \in {"memset", "wb", "transfer", "copy"} => dma = 0

\* As long as the ring has room from time to time, blocks go on being given to
\* the host: no end of a window is lost between the resets of the counts, the
\* start of the transfer and the handler (ad9238.c 150-160, uPP_Config.c 41-85).
CaptureGoesOn == []<>(upc = "copy" \/ upc = "sleep")
                 /\ ([]<>(upc = "copy") => []<>(upc = "release"))
=============================================================================
