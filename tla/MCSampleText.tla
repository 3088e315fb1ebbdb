---------------------------- MODULE MCSampleText -----------------------------
(* The first text is short, long, or longer than the buffer.  After it comes *)
(* every word of the FPGA as it is, and some of them filtered: by            *)
(* coefficients with few binary digits, whose products are printed exactly,  *)
(* and by others on samples that are powers of two.                          *)
EXTENDS SampleText

AllWords == {16 * v + (IF v % 2 = 0 THEN 0 ELSE 15) : v \in 0 .. 4095}
EveryTenth == {16 * v : v \in {410 * m : m \in 0 .. 9} \cup {1, 3, 4095}}
Powers == {16 * v : v \in {3, 5, 9, 17, 33, 132, 2098}}

Filtered == EveryTenth \X {25, 50, 75, 100, 200, 350}
              \cup Powers \X {7, 8, 10, 130, 333, 999}

MCInputs(n) ==
  IF n = 1 THEN {<<0, Off>>, <<16 * 4095, Off>>, <<16 * 4095, 75>>, <<16 * 5, 10>>}
  ELSE AllWords \X {Off} \cup Filtered
=============================================================================
