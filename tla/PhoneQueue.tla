----------------------------- MODULE PhoneQueue -----------------------------
(***************************************************************************)
(* The byte queue between two host threads: wifi_receiver_thread pushes the *)
(* bytes of the phone's commands with PhoneCommand_rx_enqueue, and          *)
(* phone_command_process_thread pops them with PhoneCommand_rx_dequeue.     *)
(* front, rear and uart_buff are plain fields, read and written without a   *)
(* lock, so every access is one step.                                       *)
(*                                                                          *)
(* The push is a data race: nothing orders its two stores, of the byte and  *)
(* of rear.  The source stores the byte first; the object file in           *)
(* host/Debug (gcc -O3) stores rear first.  RearFirst says which of the two *)
(* is modelled.  The loads and the store of the pop keep the source's order *)
(* in the object file.                                                      *)
(***************************************************************************)
EXTENDS Integers, Sequences

CONSTANTS N,          \* cells of uart_buff, BUFF_MAX = 2048 in the code
          Bytes,      \* the bytes of the commands
          NoByte,     \* the content of a cell that was never written
          RearFirst   \* rear is stored before the byte

ASSUME NAssumption == N \in Nat /\ N >= 2
ASSUME BytesAssumption == NoByte \notin Bytes
ASSUME OrderAssumption == RearFirst \in BOOLEAN

VARIABLES front, rear, uart_buff,   \* the fields of PhoneCommand
          ppc, x, cell,   \* push: where it is, its argument, rear as it read it
          cpc, temp       \* pop: where it is, the byte it took

fields == <<front, rear, uart_buff>>
pusher == <<ppc, x, cell>>
popper == <<cpc, temp>>
vars == <<fields, pusher, popper>>

Cells == 0 .. N-1
Succ(c) == (c + 1) % N

Init == /\ front = 0 /\ rear = 0
        /\ uart_buff = [c \in Cells |-> NoByte]
        /\ ppc = "idle" /\ x = NoByte /\ cell = 0
        /\ cpc = "test" /\ temp = NoByte

-----------------------------------------------------------------------------
(* wifi_receiver_thread: PhoneCommand_rx_enqueue *)

Call(b) == /\ ppc = "idle"
           /\ x' = b
           /\ ppc' = "full"
           /\ UNCHANGED <<fields, cell, popper>>

\* Faulty variant: the queue may fill its last cell and look empty.
TestFullNever == /\ ppc = "full"
                 /\ cell' = rear
                 /\ ppc' = "store"
                 /\ UNCHANGED <<fields, x, popper>>

\* One cell stays free; a byte for a full queue is dropped and 0 returned, as
\* when it is queued.
TestFull == /\ ppc = "full"
            /\ IF front = Succ(rear)
                 THEN /\ ppc' = "idle"
                      /\ x' = NoByte
                      /\ UNCHANGED cell
                 ELSE /\ cell' = rear
                      /\ ppc' = IF RearFirst THEN "rear" ELSE "store"
                      /\ UNCHANGED x
            /\ UNCHANGED <<fields, popper>>

StoreByte == /\ ppc = "store"
             /\ uart_buff' = [uart_buff EXCEPT ![cell] = x]
             /\ IF RearFirst THEN ppc' = "idle" /\ x' = NoByte
                             ELSE ppc' = "rear" /\ UNCHANGED x
             /\ UNCHANGED <<front, rear, cell, popper>>

StoreRear == /\ ppc = "rear"
             /\ rear' = Succ(cell)
             /\ IF RearFirst THEN ppc' = "store" /\ UNCHANGED x
                             ELSE ppc' = "idle" /\ x' = NoByte
             /\ UNCHANGED <<front, uart_buff, cell, popper>>

Push == TestFull \/ StoreByte \/ StoreRear

-----------------------------------------------------------------------------
(* phone_command_process_thread: the test of the loop, PhoneCommand_rx_dequeue *)

\* Faulty variant: the byte is taken without the test.
TestEmptyAlways == /\ cpc = "test"
                   /\ cpc' = "load"
                   /\ UNCHANGED <<fields, pusher, temp>>

\* The loop polls; rx_dequeue tests the same condition again, and only its
\* caller can make it false.
TestEmpty == /\ cpc = "test"
             /\ front # rear
             /\ cpc' = "load"
             /\ UNCHANGED <<fields, pusher, temp>>

LoadByte == /\ cpc = "load"
            /\ temp' = uart_buff[front]
            /\ cpc' = "front"
            /\ UNCHANGED <<fields, pusher>>

\* Faulty variant: front does not wrap with BUFF_MAX.
StoreFrontNoWrap == /\ cpc = "front"
                    /\ front' = front + 1
                    /\ cpc' = "return"
                    /\ UNCHANGED <<rear, uart_buff, pusher, temp>>

StoreFront == /\ cpc = "front"
              /\ front' = Succ(front)
              /\ cpc' = "return"
              /\ UNCHANGED <<rear, uart_buff, pusher, temp>>

Return == /\ cpc = "return"
          /\ temp' = NoByte
          /\ cpc' = "test"
          /\ UNCHANGED <<fields, pusher>>

Pop == TestEmpty \/ LoadByte \/ StoreFront \/ Return

-----------------------------------------------------------------------------
Next == (\E b \in Bytes : Call(b)) \/ Push \/ Pop

\* Both threads are SCHED_OTHER threads that never block here.
Fairness == WF_vars(Push) /\ WF_vars(Pop)

SafeSpec == Init /\ [][Next]_vars
Spec == SafeSpec /\ Fairness

-----------------------------------------------------------------------------
(* Properties *)

TypeOK == /\ front \in Cells /\ rear \in Cells /\ cell \in Cells
          /\ uart_buff \in [Cells -> Bytes \cup {NoByte}]
          /\ ppc \in {"idle", "full", "store", "rear"}
          /\ x \in Bytes \cup {NoByte}
          /\ cpc \in {"test", "load", "front", "return"}
          /\ temp \in Bytes \cup {NoByte}

\* What is popped is a byte that was pushed, not what the cell held before
\* ("Insert the receiving command to the queue", "Pop from queue").
PopsPushedBytes == cpc = "return" => temp \in Bytes

\* The cell that is being popped is not the one that is being written.
NoSharedCell == (cpc \in {"load", "front"} /\ ppc \in {"store", "rear"}) => front # cell

\* The bytes in the queue, oldest first, and the one its caller has got.
Queued == (rear - front) % N
Queue == [j \in 1 .. Queued |-> uart_buff[(front + j - 1) % N]]
Taken == IF cpc = "return" THEN temp ELSE NoByte

Fifo == INSTANCE ByteFifo WITH Cap <- N - 1, in <- x, queue <- Queue, out <- Taken
=============================================================================
