------------------------------ MODULE Enc28j60 ------------------------------
(***************************************************************************)
(* The driver of the Ethernet controller (src/plc-sw/drivers/enc28j60) and *)
(* the part of the controller it relies on: registers in four banks, and a *)
(* ring of memory into which frames are received while the driver reads    *)
(* earlier ones.                                                           *)
(*                                                                         *)
(* The functions of the driver are operators on the state s, which holds   *)
(* the driver's variables and the controller.  A register is its bank and  *)
(* its address; the two halves of a pointer are one register.  The driver  *)
(* keeps the bank it selected last in Enc28j60Bank.  A receive is cut into *)
(* the steps between which the controller can store a frame.               *)
(*                                                                         *)
(* A frame takes a cell for its header and one for each part of it; the    *)
(* register for the hardware address stands for all six.                   *)
(*                                                                         *)
(* Bounds: Frames, those that arrive; RXSIZE, the cells of the ring.       *)
(***************************************************************************)
EXTENDS SequencesExt

CONSTANTS
  Frames,    \* frames, each a sequence of its parts
  RXSIZE,
  MAXLEN,    \* UIP_BUFSIZE
  MACS, OWN  \* hardware addresses and ENC28J60_MAC0..5

(* What the proofs assume of the constants.                                *)
EthSizes ==
  /\ RXSIZE \in Nat \ {0} /\ MAXLEN \in Nat
  /\ \A f \in Frames : f \in Seq(Range(f))
  /\ OWN \in MACS

ASSUME EthAssumption == EthSizes

VARIABLE eth

Reg(bank, addr) == [bank |-> bank, addr |-> addr]
ERDPT   == Reg(0, 0)
EWRPT   == Reg(0, 2)
ETXND   == Reg(0, 6)
ERXRDPT == Reg(0, 12)
EPKTCNT == Reg(1, 25)
MACON1  == Reg(2, 0)
MICMD   == Reg(2, 18)
MAADR   == Reg(3, 0)
MISTAT  == Reg(3, 10)
ECON1   == Reg(0, 31)
Registers == [bank : 0..3, addr : {0, 2, 6, 10, 12, 18, 25}]

Ring == 0..(RXSIZE - 1)
Plus(p, n) == (p + n) % RXSIZE

-----------------------------------------------------------------------------
(* Registers.  An access reaches the register that the selected bank of    *)
(* the controller has at the address.                                      *)

SetBank(t, r) ==
  IF r.bank = t.Enc28j60Bank THEN t ELSE [t EXCEPT !.bank = r.bank, !.Enc28j60Bank = r.bank]

Value(t, r)    == LET u == SetBank(t, r) IN u.reg[Reg(u.bank, r.addr)]
Write(t, r, v) == LET u == SetBank(t, r) IN [u EXCEPT !.reg[Reg(u.bank, r.addr)] = v]
Read(t, r)     == SetBank(t, r)

(* The wait for the PHY reads a register of another bank.                  *)
PhyWrite(t) == Read(Write(t, MICMD, 1), MISTAT)

network_set_MAC(t, mac) == Write(t, MAADR, mac)
network_get_MAC(t)      == [Read(t, MAADR) EXCEPT !.mac = Value(t, MAADR)]

(* The reset selects bank 0, without the driver noting it.                 *)
enc28j60Init(t) ==
  LET reset == [t EXCEPT !.bank = 0, !.reg = [r \in Registers |-> 0], !.wr = 0,
                         !.NextPacketPtr = 0]
      rx    == Write(Write(Read(reset, ECON1), ERXRDPT, 0), MACON1, 1)
  IN  SetBank(PhyWrite(network_set_MAC(rx, OWN)), ECON1)
network_init(t) == PhyWrite(enc28j60Init(t))

-----------------------------------------------------------------------------
(* Receiving.                                                              *)

(* A frame has been counted: its header says where the next one is.        *)
Header_frees(t) ==
  LET h == t.ram[t.NextPacketPtr]
  IN  [Write(Write(t, ERDPT, t.NextPacketPtr), ERXRDPT, h.next)
         EXCEPT !.pc = "copy", !.from = Plus(t.NextPacketPtr, 1),
                !.NextPacketPtr = h.next, !.len = Min({h.len, MAXLEN})]
Header(t) ==
  LET u == Write(t, ERDPT, t.NextPacketPtr)
      h == u.ram[Value(u, ERDPT)]
  IN  [u EXCEPT !.pc = "copy", !.from = Plus(Value(u, ERDPT), 1),
                !.NextPacketPtr = h.next, !.len = Min({h.len, MAXLEN})]

CopiedOut(t) == [t EXCEPT !.pc = "free", !.packet = [i \in 1..t.len |-> t.ram[Plus(t.from, i - 1)]]]

(* The cells are given back first, and then the frame is counted off.      *)
Freed(t)   == [Write(t, ERXRDPT, t.NextPacketPtr) EXCEPT !.pc = "count"]
Counted(t) == [t EXCEPT !.pc = "idle", !.reg[EPKTCNT] = @ - 1, !.stored = Tail(@),
                        !.packet = <<>>, !.len = 0]

Idle == eth.pc = "idle"
PacketReceive ==
  \/ Idle /\ eth' = IF Value(eth, EPKTCNT) = 0 THEN Read(eth, EPKTCNT)
                    ELSE Header(Read(eth, EPKTCNT))
  \/ eth.pc = "copy" /\ eth' = CopiedOut(eth)
  \/ eth.pc = "free" /\ eth' = Freed(eth)
  \/ eth.pc = "count" /\ eth' = Counted(eth)

(* The transmit logic is reset, with the frame before if it is not out     *)
(* yet; the frame is copied behind the ring and its end is set.            *)
PacketSend ==
  Idle /\ \E f \in Frames :
            eth' = [Write(Write(eth, EWRPT, 1), ETXND, 1 + Len(f)) EXCEPT !.tx = f]

SetMac == Idle /\ \E mac \in MACS : eth' = network_set_MAC(eth, mac)
GetMac == Idle /\ eth' = network_get_MAC(eth)

-----------------------------------------------------------------------------
(* The controller.                                                         *)

(* A frame is stored if its cells and its header fit before the read       *)
(* pointer, and lost otherwise.                                            *)
Space(t) == (t.reg[ERXRDPT] - t.wr - 1) % RXSIZE
Stored(t, f) ==
  LET next == Plus(t.wr, Len(f) + 1)
      Cell(p) == LET i == (p - t.wr) % RXSIZE
                 IN  CASE i = 0      -> [next |-> next, len |-> Len(f)]
                       [] i \in 1..Len(f) -> f[i]
                       [] i > Len(f) -> t.ram[p]
  IN  [t EXCEPT !.ram = [p \in Ring |-> Cell(p)], !.wr = next,
                !.reg[EPKTCNT] = @ + 1, !.stored = Append(@, f)]

FrameArrives == \E f \in Frames : Space(eth) > Len(f) /\ eth' = Stored(eth, f)
Transmitted == eth.tx # <<>> /\ eth' = [eth EXCEPT !.tx = <<>>]

PowerOn ==
  [pc |-> "idle", Enc28j60Bank |-> 0, bank |-> 0, reg |-> [r \in Registers |-> 0],
   NextPacketPtr |-> 0, from |-> 0, len |-> 0, packet |-> <<>>, mac |-> OWN,
   ram |-> [p \in Ring |-> [next |-> 0, len |-> 0]], wr |-> 0, stored |-> <<>>, tx |-> <<>>]

EthInit == eth = network_init(PowerOn)
EthNext == PacketReceive \/ PacketSend \/ SetMac \/ GetMac \/ FrameArrives \/ Transmitted
EthSpec == EthInit /\ [][EthNext]_eth

-----------------------------------------------------------------------------
(* Frames come out as they were stored, in that order and whole as far as  *)
(* there is room, while later ones arrive; and the controller counts those *)
(* that the driver still has to read.  Whole is with the CRC: the comment  *)
(* of enc28j60.c:353-354 says that the length that the MAC reports is      *)
(* reduced by four to remove it, but 355 does not do so, and the property  *)
(* is of what the code does.                                               *)
FramesInOrder ==
  /\ eth.pc \in {"free", "count"} =>
       eth.packet = SubSeq(Head(eth.stored), 1, Min({MAXLEN, Len(Head(eth.stored))}))
  /\ eth.reg[EPKTCNT] = Len(eth.stored)
  /\ Idle /\ eth.stored # <<>> => eth.ram[eth.NextPacketPtr].len = Len(Head(eth.stored))
  /\ eth.mac \in MACS
=============================================================================
