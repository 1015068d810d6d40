------------------------------ MODULE OneWire -------------------------------
(***************************************************************************)
(* The search for devices on a 1-wire bus (src/plc-sw/libs/1wire/          *)
(* onewire.c).  The devices answer together, bit by bit: a bit and then    *)
(* its complement, the bus carries the conjunction, and those whose bit    *)
(* is not the one the master writes fall silent.  A pass finds one device  *)
(* and where the next pass has to turn the other way.                      *)
(*                                                                         *)
(* A ROM code has BITS bits, the first read being bit BITS; 64 in the code.*)
(***************************************************************************)
EXTENDS SequencesExt

CONSTANTS
  BITS,
  MaxSensors,
  MaxGone      \* bound: how many devices are unplugged in a search

(* What the proofs assume: no bit has the number of an error (below).      *)
BusSizes == BITS \in 1..253

ASSUME BusAssumption == BusSizes

VARIABLE bus \* the devices on the bus, and the state of search_sensors

SearchOrder == [i \in 1..BITS |-> BITS + 1 - i]
Codes  == [1..BITS -> {0, 1}]

OW_SEARCH_FIRST == 255
OW_PRESENCE_ERR == 255
OW_DATA_ERR     == 254
OW_LAST_DEVICE  == 0

(* What search_sensors begins with; its id is not initialised.             *)
Search(devices, id) ==
  [devices |-> devices, diff |-> OW_SEARCH_FIRST, id |-> id, found |-> <<>>,
   gone |-> {}, over |-> FALSE]

BusInit == \E devices \in SUBSET Codes, id \in Codes : bus = Search(devices, id)

(* What the bus carries when every listening device sends its bit.         *)
ow_bit(listening, i)        == IF \E d \in listening : d[i] = 0 THEN 0 ELSE 1
ow_complement(listening, i) == IF \E d \in listening : d[i] = 1 THEN 0 ELSE 1

(* At a conflict: 1 beyond the last turn and where the last pass went that *)
(* way, 0 at the turn.                                                     *)
Turns_again(t, i) == t.diff > i \/ t.id[i] = 1
Turns(t, i) == t.diff > i \/ (t.id[i] = 1 /\ t.diff # i)

(* One bit of a pass; p holds what the pass knows.                         *)
Bit(t, p, i) ==
  LET b        == ow_bit(p.listening, i)
      conflict == b = 0 /\ ow_complement(p.listening, i) = 0
      written  == IF conflict /\ Turns(t, i) THEN 1 ELSE b
  IN  IF p.next = OW_DATA_ERR \/ (b = 1 /\ ow_complement(p.listening, i) = 1)
      THEN [p EXCEPT !.next = OW_DATA_ERR]
      ELSE [id        |-> [p.id EXCEPT ![i] = written],
            next      |-> IF conflict /\ Turns(t, i) THEN i ELSE p.next,
            listening |-> {d \in p.listening : d[i] = written}]

ow_rom_search(t) ==
  IF t.devices = {} THEN [next |-> OW_PRESENCE_ERR, id |-> t.id]
  ELSE FoldLeft(LAMBDA p, i : Bit(t, p, i),
                [id |-> t.id, next |-> OW_LAST_DEVICE, listening |-> t.devices], SearchOrder)

(* One turn of search_sensors: find_sensor, and the device is listed       *)
(* unless there was an error.                                              *)
find_sensor ==
  /\ ~bus.over
  /\ LET p     == ow_rom_search(bus)
         error == p.next \in {OW_PRESENCE_ERR, OW_DATA_ERR}
         found == IF error THEN bus.found ELSE Append(bus.found, p.id)
     IN  bus' = [bus EXCEPT !.diff = p.next, !.id = p.id, !.found = found,
                            !.over = error \/ p.next = OW_LAST_DEVICE \/ Len(found) >= MaxSensors]

search_sensors == bus.over /\ \E id \in Codes : bus' = Search(bus.devices, id)

(* A device is taken from the bus between two passes.                      *)
Unplug ==
  /\ ~bus.over /\ Cardinality(bus.gone) < MaxGone
  /\ \E d \in bus.devices : bus' = [bus EXCEPT !.devices = @ \ {d}, !.gone = @ \cup {d}]

BusNext == find_sensor \/ search_sensors \/ Unplug
BusSpec == BusInit /\ [][BusNext]_bus

(* A search that is through has listed every device on the bus, even when  *)
(* one is unplugged on the way (when two are, others may be missed), and   *)
(* none that was never there.  None is listed twice while none is          *)
(* unplugged.                                                              *)
FoundOnce ==
  /\ bus.diff = OW_LAST_DEVICE /\ Cardinality(bus.gone) <= 1 =>
       bus.devices \subseteq ToSet(bus.found)
  /\ ToSet(bus.found) \subseteq bus.devices \cup bus.gone
  /\ bus.gone = {} => IsInjective(bus.found)
=============================================================================
