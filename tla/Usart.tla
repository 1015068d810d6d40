-------------------------------- MODULE Usart ---------------------------------
(***************************************************************************)
(* How libs/usart writes numbers and times, for chips with one USART       *)
(* (usart1.c and one_usart.c) and with two (usart2.c, where the functions  *)
(* of USART1 are those of USART0 again, but that usart1_out_iso_time       *)
(* writes to USART0 as well).  A text is a sequence of character codes;    *)
(* that it waits for the transmitter is left out.                          *)
(*                                                                         *)
(* Bounds: Words, the 16-bit values, and Bcd, the octets of a time.        *)
(***************************************************************************)
EXTENDS SequencesExt

CONSTANTS Words, Bcd

SerialSizes == /\ \A w \in Words : w \in Nat /\ w < 65536
               /\ \A b \in Bcd : b \in Nat /\ b < 256
ASSUME SerialAssumption == SerialSizes

VARIABLE ser   \* what was written last: [form, value, text]

Magnitude(n) == IF n < 0 THEN -n ELSE n

(* The digit that val % 10 + '0' gives the i-th time, of a signed value as *)
(* C computes it.                                                          *)
Digit(val, i) == LET d == (Magnitude(val) \div 10^i) % 10 IN 48 + (IF val < 0 THEN -d ELSE d)

(* The digits from the first that is not zero; the last in any case.       *)
First_low(size, val) == Min({size - 1} \cup {i \in 0..size - 2 : Digit(val, i + 1) = 48})
First(size, val) == Max({0} \cup {i \in 0..size - 1 : Digit(val, i) # 48})
transmit_uint(size, val) ==
  LET first == First(size, val) IN [i \in 1..first + 1 |-> Digit(val, first + 1 - i)]

(* val *= -1 leaves the least value of the type what it is.                *)
Negated(bits, val) == IF val = -(2^(bits - 1)) THEN val ELSE -val
transmit_int(size, bits, val) ==
  IF val < 0 THEN <<45>> \o transmit_uint(size, Negated(bits, val)) ELSE transmit_uint(size, val)

transmit_bin(val)  == [i \in 1..8 |-> 48 + ((val \div 2^(8 - i)) % 2)]
transmit_nibble(n) == LET d == n % 16 IN IF d > 9 THEN d + 55 ELSE d + 48
transmit_hex(val)  == <<transmit_nibble(val \div 16), transmit_nibble(val)>>

(* The octets of a clock, from the seconds to the year; the sixth, the day *)
(* of the week, is left out.                                               *)
out_iso_time(t) ==
  <<32>> \o transmit_hex(t[7]) \o <<45>> \o transmit_hex(t[5]) \o <<45>> \o transmit_hex(t[4])
  \o <<32>> \o transmit_hex(t[3]) \o <<58>> \o transmit_hex(t[2]) \o <<58>> \o transmit_hex(t[1])

-----------------------------------------------------------------------------
Wrote(form, value, text) == ser' = [form |-> form, value |-> value, text |-> text]

Signed == {n - 32768 : n \in Words} \cup {n \in Words : n < 32768}

Silence == [form |-> "", value |-> 0, text |-> <<>>]
SerialInit == ser = Silence

Uint8  == \E n \in 0..255 : Wrote("decimal", n, transmit_uint(3, n))
Int8   == \E n \in -128..127 : Wrote("signed8", n, transmit_int(3, 8, n))
Uint16 == \E n \in Words : Wrote("decimal", n, transmit_uint(5, n))
Int16  == \E n \in Signed : Wrote("signed16", n, transmit_int(5, 16, n))
Bits   == \E n \in 0..255 : Wrote("binary", n, transmit_bin(n))
Hex    == \E n \in 0..255 : Wrote("hex", n, transmit_hex(n))
Time   == \E t \in [1..7 -> Bcd] : t[6] = 0 /\ Wrote("time", t, out_iso_time(t))

SerialNext == \/ ser = Silence /\ (Uint8 \/ Int8 \/ Uint16 \/ Int16 \/ Bits \/ Hex \/ Time)
              \/ ser # Silence /\ ser' = Silence
SerialSpec == SerialInit /\ [][SerialNext]_ser

(* Reading a text: the digits to a base, and the parts between the marks.  *)
DigitValue(c) == IF c >= 65 THEN c - 55 ELSE c - 48
ReadText(base, text) == FoldLeft(LAMBDA sum, c : base * sum + DigitValue(c), 0, text)
ReadSigned(text) ==
  IF Head(text) = 45 THEN -ReadText(10, Tail(text)) ELSE ReadText(10, text)
ReadTime(text) == [i \in 1..6 |-> ReadText(16, SubSeq(text, 3 * i - 1, 3 * i))]
Plain(text) == Len(text) > 1 => Head(text) # 48

(* What the USART writes reads back as the value, without leading zeros in *)
(* decimal, but for the least signed value, of which the digits come out   *)
(* below '0' (usart2.c:124 and :161).                                      *)
ReadsBack ==
  /\ ser.form = "decimal" => ReadText(10, ser.text) = ser.value /\ Plain(ser.text)
  /\ \/ ser.form = "signed8"  /\ ser.value # -128
     \/ ser.form = "signed16" /\ ser.value # -32768
     => ReadSigned(ser.text) = ser.value /\ Plain(ser.text)
  /\ ser.form = "binary" => ReadText(2, ser.text) = ser.value
  /\ ser.form = "hex" => ReadText(16, ser.text) = ser.value
  /\ ser.form = "time" => LET t == ser.value
                         IN  ReadTime(ser.text) = <<t[7], t[5], t[4], t[3], t[2], t[1]>>
=============================================================================
