------------------------------ MODULE Ds18x20 -------------------------------
(***************************************************************************)
(* Temperature sensors on a 1-wire bus (src/plc-sw/libs/1wire/ds18x20.c):  *)
(* every second call of updateOWSensors starts a measurement, the others   *)
(* search the bus, read the scratchpads, convert them and store them in a  *)
(* table of the sensors seen so far.                                       *)
(*                                                                         *)
(* Temperatures are in sixteenths of a degree.  A scratchpad is its two    *)
(* octets of temperature as one word, and what remains of the counter.     *)
(* A search finds every sensor, in some order (OneWire).                   *)
(*                                                                         *)
(* Bounds: the temperatures in Temps, two sensors at most on the bus.      *)
(***************************************************************************)
EXTENDS SequencesExt

CONSTANTS
  Sensors,     \* ROM codes
  Family,      \* of a sensor: "18S20", "18B20", or that with the bits it was
               \* set to, "18B20_9" to "18B20_11"
  MAXSENSORS,
  Temps,
  NoSensor

(* Sixteenths of a degree, from 55 below zero to 125 above.                *)
SensorRange == -880..2000

(* What the proofs assume of the constants.                                *)
DsSizes ==
  /\ MAXSENSORS \in Nat \ {0}
  /\ IsFiniteSet(Sensors) /\ NoSensor \notin Sensors
  /\ \A id \in Sensors :
       Family[id] \in {"18S20", "18B20", "18B20_9", "18B20_10", "18B20_11"}
  /\ Temps # {} /\ Temps \subseteq SensorRange

ASSUME DsAssumption == DsSizes

VARIABLE ds

Word   == 65536
Places == 0..MAXSENSORS     \* one more than findSensor searches
Empty  == [id |-> NoSensor, subzero |-> FALSE, cel |-> 0, frac |-> 0]
Abs(n) == IF n < 0 THEN -n ELSE n

(* What a sensor of less than twelve bits tells apart.                     *)
Step(id) ==
  CASE Family[id] = "18B20_9"  -> 8
    [] Family[id] = "18B20_10" -> 4
    [] Family[id] = "18B20_11" -> 2
    [] OTHER -> 1

(* What a sensor answers; of a coarse one the last bits are not defined.   *)
Scratchpads(id, t) ==
  IF Family[id] = "18S20"
  THEN {[meas |-> (2 * ((t + 4) \div 16)) % Word, remain |-> 16 - ((t + 4) % 16)]}
  ELSE {[meas |-> (Step(id) * (t \div Step(id)) + undefined) % Word, remain |-> 0] :
          undefined \in {0, Step(id) - 1}}

(* The sign is taken off before the undefined bits are cleared.            *)
Positive_ones(m) == IF m >= Word \div 2 THEN Word - 1 - m ELSE m
Positive(m) == IF m >= Word \div 2 THEN Word - m ELSE m
DS18X20_meas_to_cel(id, sp) ==
  LET extended == (8 * (sp.meas - (sp.meas % 2)) + 16 - sp.remain - 4) % Word
      meas     == IF Family[id] = "18S20" THEN extended ELSE sp.meas
      size     == Step(id) * (Positive(meas) \div Step(id))
  IN  [id |-> id, subzero |-> meas >= Word \div 2, cel |-> (size \div 16) % 256, frac |-> size % 16]

DS18X20_temp_to_decicel(v) ==
  LET rounded == ~v.subzero /\ v.frac \in {1, 3, 4, 6, 9, 11, 12, 14}
  IN  (v.frac * 625) \div 1000 + 10 * v.cel + (IF rounded THEN 1 ELSE 0)

(* The place of a sensor; a new one gets the next, which is beyond the     *)
(* table once before it is the first again.                                *)
findSensor(t, id) ==
  LET known == {p \in 0..(MAXSENSORS - 1) : t.values[p].id = id}
      next  == IF t.next > MAXSENSORS THEN 0 ELSE t.next
  IN  IF known # {} THEN [pos |-> Min(known), next |-> t.next]
      ELSE [pos |-> next, next |-> next + 1]

StoredValue(t, id, sp) ==
  LET found == findSensor(t, id)
  IN  [t EXCEPT !.values[found.pos] = DS18X20_meas_to_cel(id, sp),
                !.next = found.next, !.read[id] = t.measured[id]]
StoreAll(t, order, sp) == FoldLeft(LAMBDA u, id : StoredValue(u, id, sp[id]), t, order)

(* An answer with a wrong CRC is not stored.                               *)
StartMeasurement ==
  /\ ~ds.DS18B20Conv
  /\ \E t \in Temps :
       ds' = [ds EXCEPT !.DS18B20Conv = TRUE,
                        !.measured = [id \in Sensors |-> IF id \in ds.bus THEN t ELSE @[id]]]
ReadSensors ==
  /\ ds.DS18B20Conv
  /\ \E good \in SUBSET ds.bus : \E order \in SetToSeqs(good) :
       \E sp \in [good -> UNION {Scratchpads(id, ds.measured[id]) : id \in good}] :
         /\ \A id \in good : sp[id] \in Scratchpads(id, ds.measured[id])
         /\ ds' = [StoreAll(ds, order, sp) EXCEPT !.DS18B20Conv = FALSE]
updateOWSensors == StartMeasurement \/ ReadSensors

(* Sensors are exchanged.                                                  *)
Exchange == \E bus \in SUBSET Sensors : Cardinality(bus) <= 2 /\ ds' = [ds EXCEPT !.bus = bus]

Start == Min(Temps)
DsInit ==
  ds = [DS18B20Conv |-> FALSE, next |-> 0, values |-> [p \in Places |-> Empty],
       bus |-> {}, measured |-> [id \in Sensors |-> Start],
       read |-> [id \in Sensors |-> Start]]
DsNext == updateOWSensors \/ Exchange
DsSpec == DsInit /\ [][DsNext]_ds

(* A coarse sensor below zero is out by a step when its bits are all set.  *)
Tolerance(id) == IF Step(id) = 1 THEN 0 ELSE Step(id)

(* Beside a sensor in the table stands what was read from it last, however *)
(* sensors come and go and answers get lost: to the sixteenth of a degree  *)
(* below zero and above, within its step for a coarse sensor, and above    *)
(* zero rounded to the next tenth.  A sensor stands in it once.            *)
Readings ==
  \A p \in 0..(MAXSENSORS - 1) : ds.values[p].id # NoSensor =>
    LET v    == ds.values[p]
        size == 16 * v.cel + v.frac
        t    == IF v.subzero THEN -size ELSE size
    IN  /\ Abs(t - ds.read[v.id]) <= Tolerance(v.id)
        /\ ~v.subzero => Abs(16 * DS18X20_temp_to_decicel(v) - 10 * t) <= 8
        /\ \A q \in 0..(MAXSENSORS - 1) : ds.values[q].id = v.id => q = p
=============================================================================
