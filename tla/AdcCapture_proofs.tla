-------------------------- MODULE AdcCapture_proofs --------------------------
(***************************************************************************)
(* Proofs about AdcCapture, for every length of a window, every set of      *)
(* channels, every choice of the events the status word shows, and any      *)
(* number of errors in a window: the variables keep their types, the task   *)
(* touches the buffer only while no transfer is running, and a block given  *)
(* to the host holds the samples of the window just transferred.            *)
(***************************************************************************)
EXTENDS AdcCapture, FiniteSetTheorems, TLAPS

\* A transfer runs only from its start to the end of the wait, and until its
\* last sample nothing is counted: the errors of a running window do not
\* interrupt, and no end of an earlier window is left over.
WindowInv ==
  /\ upc \notin {"inv", "wait"} => dma = 0 /\ "EOW" \notin status /\ isr = "out"
  /\ dma # 0 => /\ "EOW" \notin status /\ isr = "out"
                /\ upp_interrupt_count = 0 /\ upp_error_count = 0

\* The counts stay reset up to the start of the transfer.
CountInv ==
  /\ upc \in {"interrupt", "wb", "transfer"} => upp_error_count = 0
  /\ upc \in {"wb", "transfer"} => upp_interrupt_count = 0

\* A dirty line is cached.
DirtyInv == \A c \in dirty : cache[c] \in Samples \cup {Zero}

\* Once the zeros are written back no line is dirty; from the start of the
\* transfer memory has the samples delivered so far, and what is cached after
\* the invalidation was fetched when all of them were there.
BufferInv ==
  /\ upc \notin {"error", "interrupt", "wb"} => dirty = {}
  /\ upc \in {"inv", "wait", "copy"} =>
       \A c \in Cells : dma = 0 \/ c < dma => mem[c] = delivered[c]
  /\ upc = "wait" => \A c \in Cells : cache[c] = Gone
  /\ upc = "copy" => \A c \in Cells : cache[c] \in {Gone, mem[c]}

\* A block is filled from its first sample on, by one window.
BlockInv ==
  /\ upc \notin {"copy", "full"} => counter = 0
  /\ upc = "copy" => i = counter + 1 /\ \A c \in 1 .. counter : block[c] = delivered[c]
  /\ upc = "full" => counter = 0 \/ (counter = N /\ block = delivered)
  /\ upc = "release" => block = delivered

IInv == TypeOK /\ WindowInv /\ CountInv /\ DirtyInv /\ BufferInv /\ BlockInv

-----------------------------------------------------------------------------
(* Facts about the constants and about when a task runs *)

LEMMA ErrorsCounted ==
  ASSUME NEW S
  PROVE  Cardinality(S \cap Errors) \in Nat
<1>1. IsFiniteSet({}) /\ IsFiniteSet({"ERR"})
  BY FS_EmptySet, FS_Singleton
<1>2. IsFiniteSet({"ERR", "UOR"})
  <2>1. IsFiniteSet({"ERR"} \cup {"UOR"})
    BY <1>1, FS_AddElement
  <2> QED
    BY <2>1
<1>3. IsFiniteSet(Errors)
  <2>1. IsFiniteSet({"ERR", "UOR"} \cup {"DPE"})
    BY <1>2, FS_AddElement
  <2> QED
    BY <2>1 DEF Errors
<1>4. IsFiniteSet(S \cap Errors)
  BY <1>3, FS_Subset
<1> QED
  BY <1>4, FS_CardinalityType

\* A task runs only while no end of a window waits for the handler.
LEMMA RunsMeans == Runs <=> isr = "out" /\ "EOW" \notin status
  BY DEF Runs, IntEnabled

LEMMA InitInv == Init => IInv
  BY NAssumption, FaultsAssumption, ValuesAssumption
     DEF Init, IInv, TypeOK, WindowInv, CountInv, DirtyInv, BufferInv, BlockInv, Cells

-----------------------------------------------------------------------------
\* The transfer and the wait.
LEMMA NextWindow == TypeOK /\ WindowInv /\ CountInv /\ [Next]_vars => WindowInv'
<1> SUFFICES ASSUME TypeOK, WindowInv, CountInv, [Next]_vars PROVE WindowInv'
  OBVIOUS
<1> USE NAssumption DEF periph, buffer, handler, counts, task
<1>1. CASE DmaStore
  BY <1>1 DEF DmaStore, TypeOK, WindowInv, CountInv
<1>2. ASSUME NEW e \in Errors, Fault(e) PROVE WindowInv'
  BY <1>2 DEF Fault, Errors, Events, TypeOK, WindowInv, CountInv
<1>3. ASSUME NEW c \in Cells, Evict(c) PROVE WindowInv'
  BY <1>3 DEF Evict, TypeOK, WindowInv, CountInv
<1>4. CASE IsrEnter
  BY <1>4 DEF IsrEnter, IntEnabled, WindowInv
<1>5. CASE IsrServe
  BY <1>5 DEF IsrServe, TypeOK, WindowInv, CountInv
<1>6. ASSUME NEW c \in Channels, SelectADCChannel(c) PROVE WindowInv'
  BY <1>6, RunsMeans DEF SelectADCChannel, TypeOK, WindowInv, CountInv
<1>7. CASE Acquire
  BY <1>7, RunsMeans DEF Acquire, TypeOK, WindowInv, CountInv
<1>8. CASE Wake
  BY <1>8, RunsMeans DEF Wake, TypeOK, WindowInv, CountInv
<1>9. CASE Memset
  BY <1>9, RunsMeans DEF Memset, TypeOK, WindowInv, CountInv
<1>10. CASE ResetErrorCount
  BY <1>10, RunsMeans DEF ResetErrorCount, TypeOK, WindowInv, CountInv
<1>11. CASE ResetInterruptCount
  BY <1>11, RunsMeans DEF ResetInterruptCount, TypeOK, WindowInv, CountInv
<1>12. CASE WriteBack
  BY <1>12, RunsMeans DEF WriteBack, TypeOK, WindowInv, CountInv
<1>13. CASE Transfer
  BY <1>13, RunsMeans DEF Transfer, TypeOK, WindowInv, CountInv
<1>14. CASE Invalidate
  BY <1>14, RunsMeans DEF Invalidate, TypeOK, WindowInv, CountInv
<1>15. CASE WaitEnd
  BY <1>15, RunsMeans DEF WaitEnd, TypeOK, WindowInv, CountInv
<1>16. CASE Copy
  BY <1>16, RunsMeans DEF Copy, TypeOK, WindowInv, CountInv
<1>17. CASE TestFull
  BY <1>17, RunsMeans DEF TestFull, TypeOK, WindowInv, CountInv
<1>18. CASE Release
  BY <1>18, RunsMeans DEF Release, TypeOK, WindowInv, CountInv
<1>19. CASE UNCHANGED vars
  BY <1>19 DEF vars, TypeOK, WindowInv, CountInv
<1> QED
  BY <1>1, <1>2, <1>3, <1>4, <1>5, <1>6, <1>7, <1>8, <1>9, <1>10,
     <1>11, <1>12, <1>13, <1>14, <1>15, <1>16, <1>17, <1>18, <1>19 DEF Next, UppTask

\* The resets of the counts.
LEMMA NextCount == TypeOK /\ WindowInv /\ CountInv /\ [Next]_vars => CountInv'
<1> SUFFICES ASSUME TypeOK, WindowInv, CountInv, [Next]_vars PROVE CountInv'
  OBVIOUS
<1> USE DEF periph, buffer, handler, counts, task
<1>1. CASE DmaStore
  BY <1>1 DEF DmaStore, TypeOK, WindowInv, CountInv
<1>2. ASSUME NEW e \in Errors, Fault(e) PROVE CountInv'
  BY <1>2 DEF Fault, Errors, Events, TypeOK, WindowInv, CountInv
<1>3. ASSUME NEW c \in Cells, Evict(c) PROVE CountInv'
  BY <1>3 DEF Evict, TypeOK, WindowInv, CountInv
<1>4. CASE IsrEnter
  BY <1>4 DEF IsrEnter, CountInv
<1>5. CASE IsrServe
  BY <1>5 DEF IsrServe, TypeOK, WindowInv, CountInv
<1>6. ASSUME NEW c \in Channels, SelectADCChannel(c) PROVE CountInv'
  BY <1>6, RunsMeans DEF SelectADCChannel, TypeOK, WindowInv, CountInv
<1>7. CASE Acquire
  BY <1>7, RunsMeans DEF Acquire, TypeOK, WindowInv, CountInv
<1>8. CASE Wake
  BY <1>8, RunsMeans DEF Wake, TypeOK, WindowInv, CountInv
<1>9. CASE Memset
  BY <1>9, RunsMeans DEF Memset, TypeOK, WindowInv, CountInv
<1>10. CASE ResetErrorCount
  BY <1>10, RunsMeans DEF ResetErrorCount, TypeOK, WindowInv, CountInv
<1>11. CASE ResetInterruptCount
  BY <1>11, RunsMeans DEF ResetInterruptCount, TypeOK, WindowInv, CountInv
<1>12. CASE WriteBack
  BY <1>12, RunsMeans DEF WriteBack, TypeOK, WindowInv, CountInv
<1>13. CASE Transfer
  BY <1>13, RunsMeans DEF Transfer, TypeOK, WindowInv, CountInv
<1>14. CASE Invalidate
  BY <1>14, RunsMeans DEF Invalidate, TypeOK, WindowInv, CountInv
<1>15. CASE WaitEnd
  BY <1>15, RunsMeans DEF WaitEnd, TypeOK, WindowInv, CountInv
<1>16. CASE Copy
  BY <1>16, RunsMeans DEF Copy, TypeOK, WindowInv, CountInv
<1>17. CASE TestFull
  BY <1>17, RunsMeans DEF TestFull, TypeOK, WindowInv, CountInv
<1>18. CASE Release
  BY <1>18, RunsMeans DEF Release, TypeOK, WindowInv, CountInv
<1>19. CASE UNCHANGED vars
  BY <1>19 DEF vars, TypeOK, WindowInv, CountInv
<1> QED
  BY <1>1, <1>2, <1>3, <1>4, <1>5, <1>6, <1>7, <1>8, <1>9, <1>10,
     <1>11, <1>12, <1>13, <1>14, <1>15, <1>16, <1>17, <1>18, <1>19 DEF Next, UppTask

\* Types.
LEMMA NextType == TypeOK /\ WindowInv /\ DirtyInv /\ BufferInv /\ BlockInv /\ [Next]_vars => TypeOK'
<1> SUFFICES ASSUME TypeOK, WindowInv, DirtyInv, BufferInv, BlockInv, [Next]_vars PROVE TypeOK'
  OBVIOUS
<1> USE NAssumption, FaultsAssumption, ValuesAssumption DEF periph, buffer, handler, counts, task
<1>1. CASE DmaStore
  <2> DEFINE s == [win |-> win, ch |-> pin]
  <2>1. s \in Samples /\ dma \in Cells
    BY <1>1 DEF DmaStore, TypeOK, Samples, Cells
  <2>2. mem' \in [Cells -> Samples \cup {Zero}] /\ delivered' \in [Cells -> Samples \cup {Zero}]
    BY <1>1, <2>1 DEF DmaStore, TypeOK
  <2>3. dma' \in 0 .. N
    BY <1>1 DEF DmaStore, TypeOK
  <2>4. status' = status \/ status' = status \cup {"EOL", "EOW"}
    BY <1>1 DEF DmaStore
  <2>5. status' \subseteq Events
    BY <2>4 DEF TypeOK, Events
  <2> QED
    BY <1>1, <2>2, <2>3, <2>5 DEF DmaStore, TypeOK
<1>2. ASSUME NEW e \in Errors, Fault(e) PROVE TypeOK'
  BY <1>2 DEF Fault, Errors, Events, TypeOK, Cells, BlockInv
<1>3. ASSUME NEW c \in Cells, Evict(c) PROVE TypeOK'
  <2>1. cache[c] \in Samples \cup {Zero}
    BY <1>3 DEF Evict, TypeOK
  <2> QED
    BY <1>3, <2>1 DEF Evict, TypeOK
<1>4. CASE IsrEnter
  BY <1>4 DEF IsrEnter, TypeOK
<1>5. CASE IsrServe
  <2>1. upp_interrupt_count' \in Nat /\ upp_error_count' \in Nat
    BY <1>5, ErrorsCounted DEF IsrServe, TypeOK
  <2>2. status' \subseteq Events /\ intr_dmai_status' \subseteq Events /\ isr' \in {"out", "serve"}
    BY <1>5 DEF IsrServe, TypeOK
  <2> QED
    BY <1>5, <2>1, <2>2 DEF IsrServe, TypeOK
<1>6. ASSUME NEW c \in Channels, SelectADCChannel(c) PROVE TypeOK'
  BY <1>6, RunsMeans DEF SelectADCChannel, TypeOK, Cells, BlockInv
<1>7. CASE Acquire
  BY <1>7, RunsMeans DEF Acquire, TypeOK, Cells, BlockInv
<1>8. CASE Wake
  BY <1>8, RunsMeans DEF Wake, TypeOK, Cells, BlockInv
<1>9. CASE Memset
  BY <1>9, RunsMeans DEF Memset, TypeOK, Cells, BlockInv
<1>10. CASE ResetErrorCount
  BY <1>10, RunsMeans DEF ResetErrorCount, TypeOK, Cells, BlockInv
<1>11. CASE ResetInterruptCount
  BY <1>11, RunsMeans DEF ResetInterruptCount, TypeOK, Cells, BlockInv
<1>12. CASE WriteBack
  <2>1. \A c \in Cells : (IF c \in dirty THEN cache[c] ELSE mem[c]) \in Samples \cup {Zero}
    BY <1>12 DEF TypeOK, DirtyInv
  <2> QED
    BY <1>12, <2>1 DEF WriteBack, TypeOK
<1>13. CASE Transfer
  BY <1>13, RunsMeans DEF Transfer, TypeOK, Cells, BlockInv
<1>14. CASE Invalidate
  BY <1>14, RunsMeans DEF Invalidate, TypeOK, Cells, BlockInv
<1>15. CASE WaitEnd
  BY <1>15, RunsMeans DEF WaitEnd, TypeOK, Cells, BlockInv
<1>16. CASE Copy
  BY <1>16, RunsMeans DEF Copy, TypeOK, Cells, BlockInv
<1>17. CASE TestFull
  BY <1>17, RunsMeans DEF TestFull, TypeOK, Cells, BlockInv
<1>18. CASE Release
  BY <1>18, RunsMeans DEF Release, TypeOK, Cells, BlockInv
<1>19. CASE UNCHANGED vars
  BY <1>19 DEF vars, TypeOK, Cells, BlockInv
<1> QED
  BY <1>1, <1>2, <1>3, <1>4, <1>5, <1>6, <1>7, <1>8, <1>9, <1>10,
     <1>11, <1>12, <1>13, <1>14, <1>15, <1>16, <1>17, <1>18, <1>19 DEF Next, UppTask

\* The dirty lines.
LEMMA NextDirty == TypeOK /\ DirtyInv /\ BufferInv /\ [Next]_vars => DirtyInv'
<1> SUFFICES ASSUME TypeOK, DirtyInv, BufferInv, [Next]_vars PROVE DirtyInv'
  OBVIOUS
<1> USE ValuesAssumption DEF periph, buffer, handler, counts, task
<1>1. CASE DmaStore
  BY <1>1 DEF DmaStore, DirtyInv
<1>2. ASSUME NEW e \in Errors, Fault(e) PROVE DirtyInv'
  BY <1>2 DEF Fault, DirtyInv
<1>3. ASSUME NEW c \in Cells, Evict(c) PROVE DirtyInv'
  BY <1>3 DEF Evict, DirtyInv
<1>4. CASE IsrEnter
  BY <1>4 DEF IsrEnter, DirtyInv
<1>5. CASE IsrServe
  BY <1>5 DEF IsrServe, DirtyInv
<1>6. ASSUME NEW c \in Channels, SelectADCChannel(c) PROVE DirtyInv'
  BY <1>6 DEF SelectADCChannel, DirtyInv
<1>7. CASE Acquire
  BY <1>7, RunsMeans DEF Acquire, DirtyInv
<1>8. CASE Wake
  BY <1>8, RunsMeans DEF Wake, DirtyInv
<1>9. CASE Memset
  BY <1>9, RunsMeans DEF Memset, DirtyInv
<1>10. CASE ResetErrorCount
  BY <1>10, RunsMeans DEF ResetErrorCount, DirtyInv
<1>11. CASE ResetInterruptCount
  BY <1>11, RunsMeans DEF ResetInterruptCount, DirtyInv
<1>12. CASE WriteBack
  BY <1>12, RunsMeans DEF WriteBack, DirtyInv
<1>13. CASE Transfer
  BY <1>13, RunsMeans DEF Transfer, DirtyInv
<1>14. CASE Invalidate
  BY <1>14, RunsMeans DEF Invalidate, DirtyInv
<1>15. CASE WaitEnd
  BY <1>15, RunsMeans DEF WaitEnd, DirtyInv
<1>16. CASE Copy
  BY <1>16 DEF Copy, BufferInv, DirtyInv
<1>17. CASE TestFull
  BY <1>17, RunsMeans DEF TestFull, DirtyInv
<1>18. CASE Release
  BY <1>18, RunsMeans DEF Release, DirtyInv
<1>19. CASE UNCHANGED vars
  BY <1>19 DEF vars, DirtyInv
<1> QED
  BY <1>1, <1>2, <1>3, <1>4, <1>5, <1>6, <1>7, <1>8, <1>9, <1>10,
     <1>11, <1>12, <1>13, <1>14, <1>15, <1>16, <1>17, <1>18, <1>19 DEF Next, UppTask

\* Memory and cache.
LEMMA NextBuffer == TypeOK /\ WindowInv /\ BufferInv /\ [Next]_vars => BufferInv'
<1> SUFFICES ASSUME TypeOK, WindowInv, BufferInv, [Next]_vars PROVE BufferInv'
  OBVIOUS
<1> USE NAssumption, ValuesAssumption DEF periph, buffer, handler, counts, task
<1>1. CASE DmaStore
  BY <1>1 DEF DmaStore, BufferInv, WindowInv, TypeOK, Cells
<1>2. ASSUME NEW e \in Errors, Fault(e) PROVE BufferInv'
  BY <1>2 DEF Fault, BufferInv, WindowInv, TypeOK, Cells
<1>3. ASSUME NEW c \in Cells, Evict(c) PROVE BufferInv'
  BY <1>3 DEF Evict, BufferInv, WindowInv, TypeOK, Cells
<1>4. CASE IsrEnter
  BY <1>4 DEF IsrEnter, BufferInv, WindowInv, TypeOK, Cells
<1>5. CASE IsrServe
  BY <1>5 DEF IsrServe, BufferInv, WindowInv, TypeOK, Cells
<1>6. ASSUME NEW c \in Channels, SelectADCChannel(c) PROVE BufferInv'
  BY <1>6 DEF SelectADCChannel, BufferInv, WindowInv, TypeOK, Cells
<1>7. CASE Acquire
  BY <1>7, RunsMeans DEF Acquire, BufferInv, WindowInv, TypeOK, Cells
<1>8. CASE Wake
  BY <1>8, RunsMeans DEF Wake, BufferInv, WindowInv, TypeOK, Cells
<1>9. CASE Memset
  BY <1>9, RunsMeans DEF Memset, BufferInv, WindowInv, TypeOK, Cells
<1>10. CASE ResetErrorCount
  BY <1>10, RunsMeans DEF ResetErrorCount, BufferInv, WindowInv, TypeOK, Cells
<1>11. CASE ResetInterruptCount
  BY <1>11, RunsMeans DEF ResetInterruptCount, BufferInv, WindowInv, TypeOK, Cells
<1>12. CASE WriteBack
  BY <1>12, RunsMeans DEF WriteBack, BufferInv, WindowInv, TypeOK, Cells
<1>13. CASE Transfer
  BY <1>13, RunsMeans DEF Transfer, BufferInv, WindowInv, TypeOK, Cells
<1>14. CASE Invalidate
  BY <1>14, RunsMeans DEF Invalidate, BufferInv, WindowInv, TypeOK, Cells
<1>15. CASE WaitEnd
  BY <1>15, RunsMeans DEF WaitEnd, BufferInv, WindowInv, TypeOK, Cells
<1>16. CASE Copy
  BY <1>16, RunsMeans DEF Copy, BufferInv, WindowInv, TypeOK, Cells
<1>17. CASE TestFull
  BY <1>17, RunsMeans DEF TestFull, BufferInv, WindowInv, TypeOK, Cells
<1>18. CASE Release
  BY <1>18, RunsMeans DEF Release, BufferInv, WindowInv, TypeOK, Cells
<1>19. CASE UNCHANGED vars
  BY <1>19 DEF vars, BufferInv, WindowInv, TypeOK, Cells
<1> QED
  BY <1>1, <1>2, <1>3, <1>4, <1>5, <1>6, <1>7, <1>8, <1>9, <1>10,
     <1>11, <1>12, <1>13, <1>14, <1>15, <1>16, <1>17, <1>18, <1>19 DEF Next, UppTask

\* The block.
LEMMA NextBlock == TypeOK /\ WindowInv /\ BufferInv /\ BlockInv /\ [Next]_vars => BlockInv'
<1> SUFFICES ASSUME TypeOK, WindowInv, BufferInv, BlockInv, [Next]_vars PROVE BlockInv'
  OBVIOUS
<1> USE NAssumption DEF periph, buffer, handler, counts, task
<1>1. CASE DmaStore
  BY <1>1 DEF DmaStore, BlockInv, WindowInv, TypeOK
<1>2. ASSUME NEW e \in Errors, Fault(e) PROVE BlockInv'
  BY <1>2 DEF Fault, BlockInv, WindowInv, TypeOK
<1>3. ASSUME NEW c \in Cells, Evict(c) PROVE BlockInv'
  BY <1>3 DEF Evict, BlockInv, WindowInv, TypeOK
<1>4. CASE IsrEnter
  BY <1>4 DEF IsrEnter, BlockInv, WindowInv, TypeOK
<1>5. CASE IsrServe
  BY <1>5 DEF IsrServe, BlockInv, WindowInv, TypeOK
<1>6. ASSUME NEW c \in Channels, SelectADCChannel(c) PROVE BlockInv'
  BY <1>6 DEF SelectADCChannel, BlockInv, WindowInv, TypeOK
<1>7. CASE Acquire
  BY <1>7, RunsMeans DEF Acquire, BlockInv, WindowInv, TypeOK
<1>8. CASE Wake
  BY <1>8, RunsMeans DEF Wake, BlockInv, WindowInv, TypeOK
<1>9. CASE Memset
  BY <1>9, RunsMeans DEF Memset, BlockInv, WindowInv, TypeOK
<1>10. CASE ResetErrorCount
  BY <1>10, RunsMeans DEF ResetErrorCount, BlockInv, WindowInv, TypeOK
<1>11. CASE ResetInterruptCount
  BY <1>11, RunsMeans DEF ResetInterruptCount, BlockInv, WindowInv, TypeOK
<1>12. CASE WriteBack
  BY <1>12, RunsMeans DEF WriteBack, BlockInv, WindowInv, TypeOK
<1>13. CASE Transfer
  BY <1>13, RunsMeans DEF Transfer, BlockInv, WindowInv, TypeOK
<1>14. CASE Invalidate
  BY <1>14, RunsMeans DEF Invalidate, BlockInv, WindowInv, TypeOK
<1>15. CASE WaitEnd
  BY <1>15, RunsMeans DEF WaitEnd, BlockInv, WindowInv, TypeOK
<1>16. CASE Copy
  <2>1. /\ upc = "copy" /\ dma = 0 /\ i = counter + 1 /\ counter \in 0 .. N
        /\ \A c \in 1 .. counter : block[c] = delivered[c]
        /\ block \in [Cells -> Samples \cup {Zero}] /\ delivered \in [Cells -> Samples \cup {Zero}]
        /\ delivered' = delivered
    BY <1>16 DEF Copy, BlockInv, WindowInv, TypeOK
  <2>2. CASE i <= N
    <3>1. i \in Cells
      BY <2>1, <2>2 DEF Cells
    <3>2. (IF cache[i] = Gone THEN mem[i] ELSE cache[i]) = delivered[i]
      BY <2>1, <3>1 DEF BufferInv
    <3>3. block' = [block EXCEPT ![i] = delivered[i]] /\ counter' = counter + 1
          /\ i' = i + 1 /\ upc' = "copy"
      BY <1>16, <2>1, <2>2, <3>2 DEF Copy
    <3>4. \A c \in 1 .. counter' : block'[c] = delivered'[c]
      BY <2>1, <3>1, <3>3 DEF Cells
    <3> QED
      BY <2>1, <3>3, <3>4 DEF BlockInv
  <2>3. CASE ~(i <= N)
    <3>1. counter = N /\ upc' = "full" /\ counter' = counter /\ block' = block
      BY <1>16, <2>1, <2>3 DEF Copy
    <3>2. block = delivered
      BY <2>1, <3>1 DEF Cells
    <3> QED
      BY <2>1, <3>1, <3>2 DEF BlockInv
  <2> QED
    BY <2>2, <2>3
<1>17. CASE TestFull
  BY <1>17, RunsMeans DEF TestFull, BlockInv, WindowInv, TypeOK
<1>18. CASE Release
  BY <1>18, RunsMeans DEF Release, BlockInv, WindowInv, TypeOK
<1>19. CASE UNCHANGED vars
  BY <1>19 DEF vars, BlockInv, WindowInv, TypeOK
<1> QED
  BY <1>1, <1>2, <1>3, <1>4, <1>5, <1>6, <1>7, <1>8, <1>9, <1>10,
     <1>11, <1>12, <1>13, <1>14, <1>15, <1>16, <1>17, <1>18, <1>19 DEF Next, UppTask

-----------------------------------------------------------------------------
(* The theorems *)

\* The inductive invariant.
THEOREM Invariance == SafeSpec => []IInv
<1>1. IInv /\ [Next]_vars => IInv'
  BY NextType, NextWindow, NextCount, NextDirty, NextBuffer, NextBlock DEF IInv
<1> QED
  BY <1>1, InitInv, PTL DEF SafeSpec

\* Every variable of the capture keeps its type: the indices of the copy loop
\* stay within the block, whatever the errors and the evictions.
THEOREM TypeCorrect == SafeSpec => []TypeOK
<1>1. IInv => TypeOK
  BY DEF IInv
<1> QED
  BY <1>1, Invariance, PTL

\* The buffer is cleared, written back, programmed and read only while no
\* transfer runs, although an error also ends the busy wait.
THEOREM BufferIsUnshared == SafeSpec => []BufferUnshared
<1>1. IInv => BufferUnshared
  BY DEF IInv, WindowInv, BufferUnshared
<1> QED
  BY <1>1, Invariance, PTL

\* A block given to the host is the window just transferred, sample by sample.
THEOREM BlocksAreDelivered == SafeSpec => []BlockIsDelivered
<1>1. IInv => BlockIsDelivered
  BY DEF IInv, BlockInv, BlockIsDelivered
<1> QED
  BY <1>1, Invariance, PTL
=============================================================================
