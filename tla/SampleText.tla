------------------------------ MODULE SampleText ------------------------------
(***************************************************************************)
(* How a sample becomes text: the uPP task turns the word of the FPGA into  *)
(* millivolts (ad9238.c 181), the filter may multiply it by a coefficient   *)
(* (message_loop.c 238-258, fir.c), and the WiFi sender prints it with      *)
(* gcvt into s[10] and copies ten characters into the packet                *)
(* (sample_receiver.c 160-178).  The buffer s is not cleared in between, so *)
(* that a field ends with what longer numbers before it have left.          *)
(*                                                                          *)
(* A float is the pair <<m, k>> of the value m / 2^k.  A character is the   *)
(* digit it shows, Point, Nul, or Unset before s is first written.  The     *)
(* filter is followed for one coefficient that is not 0, and for products   *)
(* that need no rounding.                                                   *)
(***************************************************************************)
EXTENDS Integers, Sequences, FiniteSetsExt

CONSTANTS Inputs(_),     \* for the n-th sample: words of the FPGA, each with the
                         \* coefficient of FIR in hundredths, or Off
          N              \* bound: samples that are followed one after the other

Off == 0

\* The arithmetic of the checker has 32 bits.
ASSUME InputsAssumption ==
  N \in Nat \ {0} /\ \A n \in 1 .. N : Inputs(n) \subseteq (0 .. 65535) \X ({Off} \cup 7 .. 999)

Point == 10
Nul == 11
Unset == 12
Size == 10     \* char s[10]

VARIABLES pc, i,           \* the step and the sample it is about
          input, sample,   \* what the FPGA delivered, the float it became
          s, length,       \* the buffer, the characters of the last text and its end
          field            \* what was copied into the packet for this sample

word == input[1]
coefficient == input[2]
vars == <<pc, i, input, sample, s, length, field>>

Init == /\ pc = "adc" /\ i = 1
        /\ input = <<0, Off>> /\ sample = <<0, 0>>
        /\ s = [j \in 1 .. Size |-> Unset] /\ length = 0
        /\ field = <<>>

-----------------------------------------------------------------------------
(* The conversions *)

\* Faulty variant: the four bits of the channel are not shifted out.
MilliVoltUnshifted(w) == <<(w * 1000) \div 2048, 0>>

\* ((w >> 4) & 0xFFF) * 1000 / 2048, of integers.
MilliVolt(w) == <<(((w \div 16) % 4096) * 1000) \div 2048, 0>>

\* m / 2^k in lowest terms
Reduced(m, k) == LET e == Max({j \in 0 .. k : m % 2^j = 0}) IN <<m \div 2^e, k - e>>

\* (float)c / 100: the 24-bit fraction next to it.
Float(c) ==
  LET k == CHOOSE e \in 14 .. 27 : c * 2^e \in 100 * 2^23 .. 100 * 2^24 - 1
      q == (c * 2^k) \div 100
      r == (c * 2^k) % 100
  IN Reduced(IF r > 50 \/ (r = 50 /\ q % 2 = 1) THEN q + 1 ELSE q, k)

\* A product that is exact.
Times(f, x) == LET y == Reduced(x, f[2]) IN <<f[1] * y[1], y[2]>>

\* The decimal digits of an integer.
Digits(n) ==
  LET d[x \in Nat] == IF x < 10 THEN <<x>> ELSE Append(d[x \div 10], x % 10) IN d[n]

\* The first n digits after the point of m / 2^k, and what remains.
Fraction(m, k, n) ==
  LET rest[j \in 0 .. n] == IF j = 0 THEN m % 2^k ELSE (rest[j-1] * 10) % 2^k
  IN <<[j \in 1 .. n |-> (rest[j-1] * 10) \div 2^k], rest[n]>>

\* One more in the last place.
Up(ds) == LET p == Max({j \in 1 .. Len(ds) : ds[j] # 9})
          IN [j \in 1 .. Len(ds) |-> CASE j < p -> ds[j] [] j = p -> ds[j] + 1 [] OTHER -> 0]

\* gcvt(x, 10, s): ten significant digits without the zeros at the end, for the
\* values from 0.01 on that occur here, and 0.
Gcvt(f) ==
  LET m == f[1]
      k == f[2]
      whole == Digits(m \div 2^k)
      lead == IF m \div 2^k # 0 THEN 10 - Len(whole)
              ELSE IF m * 10 >= 2^k THEN 10 ELSE 11
      fr == Fraction(m, k, lead)
      all == whole \o fr[1]
      up == fr[2] * 2 > 2^k \/ (fr[2] * 2 = 2^k /\ all[Len(all)] % 2 = 1)
      ds == IF up THEN Up(all) ELSE all
      decimals == {j \in Len(whole) + 1 .. Len(ds) : ds[j] # 0}
  IN IF decimals = {} THEN SubSeq(ds, 1, Len(whole))
     ELSE SubSeq(ds, 1, Len(whole)) \o <<Point>> \o SubSeq(ds, Len(whole) + 1, Max(decimals))

-----------------------------------------------------------------------------
\* The uPP task
Capture == /\ pc = "adc"
           /\ input' \in Inputs(i)
           /\ sample' = MilliVolt(word')
           /\ pc' = IF coefficient' = Off THEN "print" ELSE "filter"
           /\ UNCHANGED <<i, s, length, field>>

\* FIR with one coefficient
Filter == /\ pc = "filter"
          /\ sample' = Times(Float(coefficient), sample[1])
          /\ pc' = "print"
          /\ UNCHANGED <<i, input, s, length, field>>

\* gcvt writes the text and its end; of what does not fit only the length is
\* kept.
Format == /\ pc = "print"
         /\ LET t == Append(Gcvt(sample), Nul)
            IN /\ s' = [j \in 1 .. Size |-> IF j <= Len(t) THEN t[j] ELSE s[j]]
               /\ length' = Len(t)
         /\ pc' = "copy"
         /\ UNCHANGED <<i, input, sample, field>>

\* Faulty variant: the copy begins one character late.
CopyShifted == /\ pc = "copy"
               /\ field' = [j \in 1 .. Size |-> s[IF j = Size THEN j ELSE j + 1]]
               /\ pc' = "copied"
               /\ UNCHANGED <<i, input, sample, s, length>>

Copy == /\ pc = "copy"
        /\ field' = [j \in 1 .. Size |-> s[j]]
        /\ pc' = "copied"
        /\ UNCHANGED <<i, input, sample, s, length>>

NextSample == /\ pc = "copied"
              /\ i < N
              /\ i' = i + 1
              /\ pc' = "adc"
              /\ field' = <<>> /\ input' = <<0, Off>> /\ sample' = <<0, 0>>
              /\ UNCHANGED <<s, length>>

Next == Capture \/ Filter \/ Format \/ Copy \/ NextSample

Spec == Init /\ [][Next]_vars

-----------------------------------------------------------------------------
TypeOK == /\ pc \in {"adc", "filter", "print", "copy", "copied"} /\ i \in 1 .. N
          /\ input \in (0 .. 65535) \X (0 .. 999)
          /\ pc = "filter" \/ coefficient = Off => sample \in (0 .. 1999) \X {0}
          /\ s \in [1 .. Size -> 0 .. Unset] /\ length \in 0 .. 14
          /\ field = <<>> \/ field \in [1 .. Size -> 0 .. Unset]

\* The value of a text, as its digits without the point and its decimals
Value(t) ==
  LET p == CHOOSE j \in 1 .. Len(t) + 1 : j = Len(t) + 1 \/ t[j] = Point
      ds == SelectSeq(t, LAMBDA c : c # Point)
      v[j \in 0 .. Len(ds)] == IF j = 0 THEN 0 ELSE 10 * v[j-1] + ds[j]
  IN <<v[Len(ds)], Len(ds) - (p - 1)>>

\* The ten characters of a field, up to the first Nul, read as the sample, for
\* every sample of the converter and every product whose text fits: s is long
\* enough, and what longer texts have left in it does not show, those that did
\* not fit among them.  A sample of the converter is the voltage of its word, to
\* the millivolt (ad9238.c 169-181, sample_receiver.c 161-177).
ReadsBack ==
  pc = "copied" /\ (coefficient = Off \/ length <= Size) =>
    \E n \in 1 .. Size :
      /\ field[n] = Nul
      /\ \A j \in 1 .. n-1 : field[j] \in 0 .. Point
      /\ LET v == Value(SubSeq(field, 1, n - 1))
             w == (word \div 16) % 4096
         IN /\ v[1] * 2^sample[2] = sample[1] * 10^v[2]
            /\ coefficient = Off => v[2] = 0 /\ w * 2000 - v[1] * 4096 \in 0 .. 4095
=============================================================================
