------------------------------- MODULE PhonePath -------------------------------
(***************************************************************************)
(* The way of a phone command over the host with the byte queue as it is:   *)
(* CommandPath composed with PhoneQueue, where CommandPath alone has the    *)
(* ByteFifo.                                                                *)
(*                                                                          *)
(* What neither module has by itself: a call of PhoneCommand_rx_enqueue or  *)
(* PhoneCommand_rx_dequeue is several accesses of one thread, between which *)
(* the other thread scans or collects; whether a byte is dropped is decided *)
(* by the test of a moment, while the other thread is about to free a cell. *)
(*                                                                          *)
(* The variables and the steps of the two calls are those of PhoneQueue,    *)
(* the steps around them those of CommandPath.                              *)
(***************************************************************************)
EXTENDS PhoneQueue

CONSTANTS Words, Unknown, Letters, Pad, BufSize, Window   \* as in CommandPath

VARIABLES receive_buff, startReadFlag, startRead, stopReadFlag, todo,   \* the scanner
          startProcess, startProcessFlag, buf, index, overrun, sent,    \* the collector
          pending, dropped

\* The steps outside of the calls.  In the place of the queue stand the fields,
\* which they leave unchanged; temp is the collector's byte.
Path == INSTANCE CommandPath WITH Cap <- N - 1, in <- x, queue <- fields, out <- temp

scanner == <<receive_buff, startReadFlag, startRead, stopReadFlag, todo>>
collector == <<startProcess, startProcessFlag, buf, index, overrun, sent>>

\* The path of the commands with the queue seen as a FIFO.
Abstract == INSTANCE CommandPath WITH Cap <- N - 1, in <- x, queue <- Queue, out <- Taken

PathInit == Init /\ Abstract!Init

-----------------------------------------------------------------------------
(* wifi_receiver_thread *)

Receive == Path!Receive /\ UNCHANGED <<ppc, cell, cpc>>

Judge == Path!Judge /\ UNCHANGED <<ppc, cell, cpc>>

\* PhoneCommand_rx_enqueue is called (wifi.c 188-204), and runs.
CallEnqueue == Path!CallEnqueue /\ Call(Head(todo))

Enqueue == /\ Push
           /\ dropped' = IF ppc = "full" /\ ppc' = "idle" THEN 1 ELSE dropped
           /\ UNCHANGED <<scanner, collector, pending>>

Scan == Judge \/ CallEnqueue \/ Enqueue

-----------------------------------------------------------------------------
(* phone_command_process_thread *)

\* The test of the loop and PhoneCommand_rx_dequeue, lines 110-112.
Dequeue == /\ startProcess = 0
           /\ TestEmpty \/ LoadByte \/ StoreFront
           /\ UNCHANGED <<scanner, collector, pending, dropped>>

\* Lines 113-125, with the byte that rx_dequeue has returned.
Collect == Path!Collect /\ Return

Overrun == Path!Overrun /\ Return

Process == Path!Process /\ UNCHANGED <<ppc, cell, cpc>>

PhoneCommand_Process == Dequeue \/ Collect \/ Overrun \/ Process

-----------------------------------------------------------------------------
PathNext == Path!Defined /\ (Receive \/ Scan \/ PhoneCommand_Process)

allVars == <<vars, scanner, collector, pending, dropped>>

PathFairness == /\ WF_allVars(Path!Defined /\ Scan)
                /\ WF_allVars(Path!Defined /\ PhoneCommand_Process)

SafePathSpec == PathInit /\ [][PathNext]_allVars
PathSpec == SafePathSpec /\ PathFairness

-----------------------------------------------------------------------------
(* Properties *)

\* Values of the constants for which the two models fit together.
PathConstants == /\ RearFirst = FALSE
                 /\ Bytes = Letters \cup Path!Marks /\ NoByte = Path!Nothing
                 /\ Path!WordsFit /\ Path!SizesFit

\* With the source's order of the stores the two functions implement a FIFO of
\* N - 1 bytes that drops a byte only when it is full and loses nothing else; and
\* a byte that was offered is taken in, one that is queued handed out, as long as
\* the collector has not stored behind its buffer.
ImplementsFifo == Fifo!SafeSpec /\ ([]Path!Defined => Fifo!Fairness)

\* The queue of two indices is a FIFO for the scanner and the collector: all that
\* CommandPath says of the commands holds here.
ImplementsCommandPath == Abstract!SafeSpec

\* As long as no byte has found the queue full, a command that is sent to the DSP is
\* the oldest word received and not yet processed; an unknown word sends nothing.
CommandsInOrder == Abstract!SentInOrder

\* ... and nothing is stored behind the collecting buffer, though its index is not
\* checked.
CollectorSuffices == overrun = 1 => dropped = 1
=============================================================================
