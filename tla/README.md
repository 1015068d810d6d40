# A verification project for the OpenPLC firmware

The repository is the firmware of a network-connected PLC on an ATmega1284P:
a TCP/IP stack (a modified uIP 1.0) over an ENC28J60 Ethernet chip, a DHCP
client, a telnet or JSON command server, and the I/O of the board.  Everything
runs in one loop (`src/plc-sw/projects/*/main.c`); there are no threads, one
interrupt (the clock), and one packet buffer.  What makes the code hard is the
environment: a network that loses, repeats and reorders, applications that are
called back from inside the stack, byte-wide timers that wrap, and tables
(connections, ARP entries, memory blocks) that fill up.

The build that counts is that of `projects/OpenPLC` (applications `telnetd`
and `dhcpc`) and `projects/HILSim` (`jsoncmd` and `dhcpc`): 10 connections,
10 listening ports, `UIP_RTO` 3, `UIP_MAXRTX` 8, `UIP_MAXSYNRTX` 5,
`UIP_TIME_WAIT_TIMEOUT` 120, 8 ARP entries of `UIP_ARP_MAXAGE` 120,
`UIP_URGDATA` 0, `UIP_ACTIVE_OPEN` 1, `UIP_REASSEMBLY` 1, 16-bit `int`.

## 1. Inventory

| Part (under `src/plc-sw`) | State it keeps | Operations | What is hard | What makes it correct |
|---|---|---|---|---|
| TCP engine, `uip/uip.c` | `uip_conns[]`, `uip_listenports[]`, `iss`, `uip_buf` | `uip_process` for a segment, the timer, a poll; `uip_connect`, `uip_listen`, `uip_unlisten` | any segment in any state; one buffer for in and out; retransmission without a copy of the data; reuse of TIME_WAIT entries | one entry per pair of endpoints; every entry is driven and given back; the limits of retransmission hold; accepted data is acknowledged; streams arrive whole and in order |
| Application interface, `uip/uip.h` | `uip_flags`, `uip_slen` during a call | `UIP_APPCALL` | the order of calls an application has to expect | the life of a connection is reported in order |
| IP input, ICMP, `uip/uip.c` | none | header checks, echo reply, checksums | address tests while the host has no address; sums of 16 bits with their carries | only packets for us are taken; what is sent passes the check |
| Reassembly, `uip/uip.c` | `uip_reassbuf`, bitmap, `uip_reasslen`, `uip_reasstmr` | `uip_reass` | overlapping, repeated and late fragments; the bitmap arithmetic; arrays of different sizes | a packet holds octets of its own datagram only |
| UDP, `uip/uip.c` | `uip_udp_conns[]` | input, output, `uip_udp_new` | demultiplexing with wildcards; local ports that come round | an answer reaches the connection that asked and no later one |
| RTT estimator, `uip/uip.c` | `sa`, `sv`, `rto` of a connection | on an acknowledgment | eight-bit signed arithmetic | no octet overflows and `rto` covers the round trip |
| ARP cache, `uip/uip_arp.c` | `arp_table[]`, `arptime` | `uip_arp_timer`, `_update`, `_ipin`, `_arpin`, `_out` | a clock byte that wraps; two notions of "unused"; eviction; addresses that DHCP changes | one entry per address; frames follow the last word; old entries go; the oldest is evicted |
| Main loop, timers, `projects/*/main.c`, `uip/timer.c`, `clock-arch.c` | three `struct timer`, a 16-bit clock | poll the driver, run the timers | input has priority over timers; the clock wraps; an interrupt increments a 16-bit counter | every timer that expires is served |
| DHCP client, `apps/dhcpc` | `s` (state, ticks, addresses), a protothread | DISCOVER, REQUEST, renewal | old and repeated replies; a timer in the loop; renewal outside a call of the stack | an address is one that was granted; it is got again and again |
| Telnet server, `apps/telnetd`, `shell.c` | one `struct telnetd_state` for every connection | all events of the stack, shell commands | one state shared by connections; output queued and retransmitted; the pool runs dry | commands are read whole, lines leave once and in order; blocks come back |
| JSON command server, `apps/jsoncmd` | the same, with another shell | the same | an answer takes most of the queue | every answer is whole |
| Memory blocks, `libs/memb` | `count[]`, `mem[]` | `memb_init`, `memb_alloc`, `memb_free` | double frees | a block has one owner |
| Protosockets, `uip/psock.c` | `struct psock` | send, read | lengths taken again when the window has changed | the stream is whole |
| Ethernet driver, `drivers/enc28j60` | `NextPacketPtr`, the ring of the chip | send, receive | errata of the pointers; overflow | frames in order, none twice |
| Forwarding, `uip/uip-fw.c`, `uip-split.c` | `fwcache[]`, the interfaces | `uip_fw_forward`, `uip_fw_output`, `uip_fw_periodic`, `uip_split_output` | a full cache, packets that come back | no packet goes in circles; a split segment loses nothing |
| 1-wire, `libs/1wire` | last turn of the search; the table of sensors | `search_sensors`, `updateOWSensors` | devices come and go in a search; signs and undefined bits | every device is found; a reading stands beside its sensor |
| Serial output, `libs/usart` | none | numbers and times as text | the ends of the ranges | what is written reads back |
| Others: port mapper, neighbours, clock, display, `phys.c`, tests | - | - | compiled into neither project, or register I/O without state | - |

**How they interact.**  `main.c` asks the driver for a frame.  An IP frame goes
to `uip_arp_ipin` and `uip_input`, an ARP frame to `uip_arp_arpin`; what the
stack leaves in `uip_buf` goes through `uip_arp_out` to the driver before the
next step.  When no frame waits, the loop looks at its timers: every half
second `uip_periodic(c)` for every connection (and `uip_udp_periodic`), every
ten seconds `uip_arp_timer`, and a DHCP timer.  The stack calls the
applications through `UIP_APPCALL` and reads their answer from `uip_flags` and
`uip_slen`.  The DHCP client calls back `dhcpc_configured`, which sets the
addresses that `uip_arp_out` uses.  Every call is a step that nothing
interrupts, which is what the grain of the modules rests on.

## 2. Modules

| Module | Models | Role |
|---|---|---|
| `UipTcp` | the TCP part of `uip_process` and the calls around it | component |
| `UipApp` | the order in which an application is called | abstract specification, implemented by `UipTcp` |
| `UipTcpLink` | one connection of `UipTcp` with its application, a network and a peer | composition (extends `UipTcp`) |
| `UipArp` | the ARP cache and the addresses | component |
| `Memb` | the block pool | operators, used by `Telnetd` |
| `Telnetd`, `Shell` | the telnet server and its shell | component, with `UipApp` as environment |
| `Jsoncmd` | the JSON command server | instance of `Telnetd` with another shell |
| `Psock` | protosockets with the applications hello-world and simple-httpd | component, with `UipApp` as environment |
| `UipTimer`, `Dhcpc` | timers; the DHCP client | operators, used by `MainLoop` |
| `MainLoop` | the loop of `main.c` with both, DHCP servers and a network | composition |
| `UipIp`, `UipReass`, `UipRtt`, `UipChksum` | UDP and the input of IP; reassembly; the RTT estimator; checksums and `uip-split.c` | components |
| `Enc28j60`, `UipFw` | the Ethernet driver; forwarding | components |
| `OneWire`, `Ds18x20`, `Usart` | peripheral libraries | components |
| `MCUipTcp`, `MCUipTcpLink`, `MCUipArp`, `MCTelnetd`, `MCMainLoop`, `MCUipReass`, `MCParts` | - | instances for TLC |
| `UipTcp_proofs`, `UipTcpLink_proofs`, `UipArp_proofs`, `MainLoop_proofs`, `Telnetd_proofs` | - | theorems about a component each |
| `UipParts_proofs`, `Drivers_proofs` | - | theorems about `UipRtt`, `UipReass`, `UipFw`, `UipIp`, `UipChksum`; about `Enc28j60`, `OneWire`, `Ds18x20` |
| `FoldLemmas` | - | lemmas: the least number, minima and maxima, induction up to a number, folds |

### UipTcp

`uip_conns` is a function from `0..UIP_CONNS-1` to records with the fields of
`struct uip_conn` that decide anything: `tcpstateflags` as `st` and the
`UIP_STOPPED` bit as `stopped`, the two ends, `snd_nxt`, `rcv_nxt`, `len`,
`mss`, `initialmss`, `rto`, `timer`, `nrtx`.  A step is one `uip_process`:

* `Periodic(c)` is `uip_periodic(c)`, split as the code branches: `Linger`
  (TIME_WAIT and FIN_WAIT_2), `CountDown`, `TimeOut`, `Retransmit`,
  `PeriodicPoll`, `PeriodicIdle`.  `PollRequest` is `uip_poll_conn`.
* `Input(seg)` is an arriving segment: `Refuse` (the `reset` label), `Accept`
  (`found_listen`), `NoneAvailable`, and for the entry that matches `ResetIn`,
  `OutOfOrder`, and one action per `case` of the switch on the state.
  `AfterAck` is the processing of the acknowledgment before that switch.
* `AppSend` is the code from `appsend` on, for an arbitrary answer of the
  application.  An answer is an operation (`uip_close`, `uip_abort`,
  `uip_stop`, `uip_restart`) and the length given to `uip_send`.
* `out` is the segment handed to the driver, `ev` the call that was made.
  `resent` is a history variable: the outstanding segment was sent twice.

Abstracted: octets are counted, not looked at; a remote address and port are
one `Peer`; sequence numbers count modulo `SeqMod`; the RTT estimator may
return any member of `RTOS`; checksums, header layout and the PSH flag (sent,
never read) are left out.  `Closed` forgets the
fields of a closed entry that nothing reads again.

Assumed of applications: they do not call `uip_stop` in a call that tells them
the connection ends, as no application of the repository does.  The code would
set `UIP_STOPPED` on a closed entry and never use that entry again.

### UipApp

The life of a connection for the application, in five phases, and which call
moves it where.  `UipTcp` shows it with
`App == INSTANCE UipApp WITH phase <- ...` and the property `AppContract`.
Three of its actions are easy to overlook: a connection may be reported
aborted or timed out that was never reported connected (`Broken` from
`absent`); a connection that the peer closed is reported closed twice
(`ClosedAgain`); and `uip_close` in a call for a retransmission does nothing
(`Rexmit`).  It is the environment of `Telnetd`, `Jsoncmd` and `Psock`: what is
shown of an application holds of every order of calls that TCP implements.

### UipTcpLink

The stack is `UipTcp` with one connection.  The application writes a numbered
stream and does what `doc/uip-doc.txt` asks of it: it moves on when
`uip_acked()` is true and until then offers the same octets.  The peer and the
network are external: the network loses, duplicates and reorders, the peer
follows TCP (it may retransmit anything, acknowledge at any time, close at any
time with its FIN alone or on data, reset).

### UipArp

`arp_table`, `arptime` and the three addresses of `uip.c`.  Each of
`uip_arp_timer`, `uip_arp_ipin`, `uip_arp_arpin` (a request, a reply) and
`uip_arp_out` is an action, `uip_arp_update` an operator; `Chosen` is its
choice of an entry.  `dhcpc_configured` and `dhcpc_renew` change the addresses
as `main.c` and the DHCP client do (the server is assumed to give a mask and
always the same host address).  `uip_arp_update` and `uip_arp_timer` test "in
use" in different ways, so the model has addresses one half of which is zero
(`HalfZero`).  `age` and `told` are history variables.

### Memb, Telnetd, Shell, Jsoncmd

`s` is `struct telnetd_state`: the queue `lines` of blocks, the command buffer,
the parser's `state`, `numsent`, and the reference counts of the pool.  Every
call of uIP is one step, `telnetd_appcall`, in the order of the code:
connected, close, closed, acknowledged, new data, and `senddata` for any of the
events that ask for output.  An octet of input is a token, a queued line has a
number (`no`), `wire` is the segment in flight and `seen` the last line the
other side acknowledged.  All connections share `s`, as in the code.
`shell_input` is a parameter; `Shell` and `Jsoncmd` give the two that exist.
`jsoncmd.c` is `telnetd.c` under other names, compared line by line.

### Psock

The two protothreads, `psock_send` or `psock_readto` inside
`handle_connection`, are places: `pc` in the script of the application and
`inner` in the function that waits.  The scripts are those of hello-world and
of simple-httpd.

### UipTimer, Dhcpc, MainLoop

A timer keeps the time that has passed since its start, in the width of the
clock, in place of the start; the code reads the clock for nothing else.
`Dhcpc` has the protothread of `handle_dhcp` as operators on `struct
dhcpc_state`: `Begin`, `WaitOffer`, `WaitAck`.  A message is its type, server
and address.  `MainLoop` is one turn of the loop per action: a frame
(`Frame`), the periodic branch (`Periodic`), the renewal (`Renew`), and the
clock (`Tick`).  The servers are external: they offer and grant what is in
their pool, refuse, and answer any message any number of times.  `Renew` reads
no message: `uip_flags`, which `uip_newdata()` tests, is zero after every return
of `uip_process` (`uip.c:1881`, `:1885`).

### UipIp, UipReass, UipRtt, UipChksum

`UipIp` has the decisions of `uip_process` about a datagram and the table of
UDP connections; its peers answer late, and connections are removed and made
again.  `lastport` is also the counter of `uip_connect`, which neither project
calls.  `UipReass` counts in blocks of eight octets, and says of each block of
the buffer which datagram its octets are of.  Its sizes are those of the code:
the buffer holds `HEADER` and data (`uip.c:603`), the bitmap whole bytes only
(`BitmapBytes`, `uip.c:553`: 15 bytes, for 960 of 1010 octets).  A fragment that
passes the test of `uip.c:595` and is still written or marked beyond either, or
whose length is below that of its header and wraps (`Overruns`), sets `beyond`:
from then on anything may be handed out (`Stray`).  A packet is cut by the
length of a header when it is handed out (`InPacket`, `uip.c:662`).  `UipRtt` is the arithmetic in
octets, with what would have overflowed (`exact`).  `UipChksum` computes in 16
bits on a little-endian processor.

### Enc28j60, UipFw, OneWire, Ds18x20, Usart

In `Enc28j60` the controller stores frames between any two accesses of
`enc28j60PacketReceive`; registers are reached through the bank that is
selected, which the driver remembers.  A frame is whole with its CRC: a comment
says that four is taken off the length to remove it (`enc28j60.c:353-354`), the
code (`:355`) does not, and what is handed over is as long as the MAC reports.
`UipFw` forwards between networks and keeps the cache; a time-exceeded message
has another length and offset, hence another key, than the packet it is about
(`Exceeded`).  In `OneWire` the devices answer together, and may be
unplugged between passes.  `Ds18x20` has the two phases of `updateOWSensors`
over a bus of which the sensors are exchanged; a DS18B20 may be set to
9, 10, 11 or 12 bits (`Step`).  `Usart` is the text of a value.

### Conventions

A definition whose name is that of another followed by an underscore and a
word (`Enter_sticky`, `Chosen_unused`) is a slip that could have been made in
the code.  No specification uses it.  Each property has one for which TLC
finds the property violated, listed under "mutants" in `PROJECT.json`.

## 3. Runs

| Run | Module, configuration | Shows |
|---|---|---|
| `tcp_table` | `MCUipTcp`, `MCUipTcpTable.cfg` | the table: `TypeOK`, `UniqueEndpoints`, `Driven`, `RetryBudget` |
| `tcp_conn` | `MCUipTcp`, `MCUipTcpConn.cfg` | one entry, every answer: `StoppedOnlyOpen`, `TimerPrimed`, `AcceptedIsAcked`, `AppContract`, `OpeningEnds`, `ClosingEnds` |
| `link` | `MCUipTcpLink`, `MCUipTcpLink.cfg` | both streams: `StreamOut`, `StreamIn`, `AcknowledgedIsDelivered`, `AckedIsReceived`, `CleanClose` |
| `arp` | `MCUipArp`, `MCUipArp.cfg` | the cache: `TypeOK`, `UniqueEntries`, `FramesFollowLatest`, `FlushedUnlessLate`, `OldestEvicted` |
| `telnet` | `MCTelnetd`, `MCTelnetd.cfg` | one telnet connection after another: `TypeOK`, `ParsedWhole`, `OutputInOrder`, `RetransmitsSame`, `MemoryReturned` |
| `dhcp` | `MCMainLoop`, `MCMainLoop.cfg` | loop, timers and client: `ConfiguredIsGranted`, `RequestsOffered`, `AsksAgain`, and `Leases` under fairness |
| `parts` | `MCParts`, `MCParts.cfg` | the parts below, one at a time |
| `tcp_karn` | `MCUipTcp`, `MCUipTcpKarn.cfg` | a violation of `RetransmissionRemembered` |
| `link_close` | `MCUipTcpLink`, `MCUipTcpClose.cfg` | a violation of `CleanClose` |
| `arp_flush` | `MCUipArp`, `MCUipArpFlush.cfg` | a violation of `Flushed` |
| `telnet_quit` | `MCTelnetd`, `MCTelnetdQuit.cfg` | a violation of `QuitCloses` |
| `reass_hole` | `MCUipReass`, `MCUipReass.cfg` | a violation of `PacketIsFull` |

A behaviour of `parts` is one of a single part, chosen at the start, so that a
run of one instance stands for eleven.  `MCParts` extends the modules whose
properties are theorems, so that the run checks the very definitions the
theorems are about; this is why their variables and specifications have names of
their own (`RttSpec`, `FwSpec`, ...).

| Property | Module | What it says |
|---|---|---|
| `RttCovered` | `UipRtt` | no octet overflows below 32 periods, and `rto` covers the last round trip |
| `AnswerWhole` | `Jsoncmd` | a client that waits gets every line of every answer |
| `Conversation` | `Psock` | the peer of hello-world or simple-httpd reads the script, whole and in order |
| `FramesInOrder` | `Enc28j60` | frames come out of the ring in order, once, and as long as the MAC reports them, with the CRC (the comment of `enc28j60.c:353-354` says without) |
| `NoCircle` | `UipFw` | no packet is forwarded again while the cache holds it |
| `FoundOnce` | `OneWire` | a search that is through has found every device |
| `Readings` | `Ds18x20` | beside a sensor stands what was read from it last, within a step of its resolution |
| `CheckedIsOwn` | `UipReass` | in the blocks that are looked at, a packet holds its own octets, as long as nothing was written beyond the arrays |
| `RepliesFound` | `UipIp` | an answer reaches the UDP connection that asked and no later one |
| `ChecksumsHold` | `UipChksum` | what is sent, answered to a ping, or split passes the check of the other side |
| `ReadsBack` | `Usart` | a text reads back as the value |

**Bounds, and why they are enough.**

* `tcp_table`: two entries and three peers for one port, so that a peer finds
  the table full, an entry is taken out of TIME_WAIT for another peer, and each
  scan of the table has a choice.  `UIP_MAXRTX` 1 and `UIP_MAXSYNRTX` 0 make a
  connection that was accepted start near a limit and then have the other.
  `SeqMod` 2 keeps old and new numbers indistinguishable, the worst case for
  properties that do not speak of streams.  Peers are symmetric; the view
  leaves out `out` and `ev`, which only report a step.
* `tcp_conn`: one entry, every answer of the application, MSS options and
  `SeqMod` 3, so that a number may be behind, equal or ahead.  One peer sends
  every segment; the other only asks for connections.  Segments with fields
  that their flags make meaningless are sent once.  No `URG` segment is sent.
* `tcp_karn`: the limits larger, so that a retransmission leaves room.
* `link`: two octets each way, `SeqMod` 8 and `FirstIss` 6, so that the
  stream of the stack wraps round the sequence space within the connection;
  two segments in flight to the stack and one to the peer, each of which may
  be kept and delivered again, which is enough to reorder.  Sequence numbers do
  not wrap onto themselves within a connection and a SYN does not outlive its
  connection (TCP relies on the lifetime of segments for both).  Once the
  connection is closed there is nothing to do, hence `CHECK_DEADLOCK FALSE`.
* `arp`: two entries, five addresses (ours, a neighbour, the router, one far
  away with a zero half, broadcast), `TimeMod` 4 with `UIP_ARP_MAXAGE` 2: half
  of the cycle of the clock byte is early enough for the age to be seen (in
  the code 136 of 256).  Both turns of the clock are explored because `arptime`
  is part of the state.

* `telnet`: one connection after another, a pool and a queue of six lines that
  the answer to one command almost fills, lines of three tokens (one typed is
  too long), segments that cut commands and options anywhere, five tokens of
  input.  `McView` forgets which block holds which line while each is in use
  once, and the session that is over.
* `telnet_quit`: two connections and nothing but `exit` typed, on either.
* `dhcp`: two servers with an address each, one message to them and two to the
  client under way (enough for an old answer beside the new one), a clock of 6
  ticks so that it wraps often, `MaxLag` 1 for the time frames keep the loop
  busy.  `MaxNaks` 1: with refusals for ever the client asks for ever.
* `reass_hole`: a buffer of seven blocks, the header among them, two to a byte of
  the bitmap, and fragments that all end within both.
* `parts`: a ring of seven cells for frames of two to four; a forwarding cache
  of two; every set of devices with codes of three bits, one of which is
  unplugged; three sensors (a DS18S20, a DS18B20 of twelve bits and one of nine)
  for a table of two; two datagrams of up to four blocks in a buffer of five with
  the header, and fragments of them that end beyond it, beyond the bitmap, or are
  shorter than a header;
  two UDP connections for four local ports; octets at the edges of the
  carries, and segments split at up to three octets; the words at which the
  number of digits or the sign changes.

**Fairness.**  `OpeningEnds` and `ClosingEnds` assume `PeriodicFairness`: weak
fairness of `Periodic(c)` for every entry, which is enabled in every state.  The
main loop justifies it when the driver is not always full: `main.c:170-183`
looks at the periodic timer only when `network_read` returned nothing.  Under
constant input the timers do not run and neither property holds.  Nothing is
assumed of the network or of the applications.

`Leases` assumes weak fairness of the clock, of the periodic branch and of the
renewal (the loop never stops, and input does not last), and strong fairness of
the network: while the client waits for an offer, or for an acknowledgment, one
that answers it is sent and arrives in time infinitely often if it can.  The
network may still lose, delay and repeat any message.

**What the violations say.**

* `tcp_karn`: `nrtx` is "Do RTT estimation, unless we have done
  retransmissions" (`uip.c:1444`), but `appsend` clears it in every call of the
  application (`uip.c:1706`).  Data from the peer while a retransmitted segment
  is outstanding makes its acknowledgment a sample, and restarts the count
  that would end the connection.
* `link_close`: `uip_close` overwrites `len` with 1 (`uip.c:1667`).  With
  octets in flight that were lost, the FIN takes the place of the first of
  them, and the peer sees a regular end of a stream that lacks them.  In `link`
  the application closes only when its octets are acknowledged, and the
  property holds.
* `arp_flush`: `arptime - time >= UIP_ARP_MAXAGE` (`uip_arp.c:150`) compares
  bytes as `int`s.  An entry written when `arptime` is above
  255 - `UIP_ARP_MAXAGE` is never seen old.  `FlushedUnlessLate` states what is
  left of the promise.

* `telnet_quit`: `exit` sets a state that all connections share, and the next
  call, for whichever connection, closes that one (`telnetd.c:337`); the help
  text says "exit shell" (`shell.c:83`).  Connections 1 and 2 are opened, `exit`
  comes on 2, and an acknowledgment on 1: 1 is closed and 2 stays open.
* `reass_hole`: the byte before the last of the bitmap is never looked at
  (`uip.c:645`), so that a packet of which these 64 octets never came is handed
  over ("we have a full packet in the buffer", `uip.c:657`).  In the run it is
  the last fragment of a datagram alone, one block that ends where a byte of the
  bitmap does: behind the header comes what the buffer held before.

Other facts found on the way, stated as limits of properties that hold or left
out of the instances:

* Two telnet connections at once lose lines: a new one forgets the queue of
  the other without freeing it (`telnetd.c:329`).  `MemoryReturned` therefore
  speaks of one connection after another, and not of one on which `exit` was
  typed: that call does not free the queue either.
* Lines queued while a segment is in flight are counted with it when it is
  sent again and freed when it is acknowledged (`OutputInOrder`, `crowded`).
* An `exit` that is answered in a call for a retransmission is lost: `uip_close`
  has no effect there (`uip.c:798`), and the connection stays open.
* A reassembled packet lacks its last 20 octets: the length that is copied is
  that of the data, and the copy begins with the header (`uip.c:662`).
* The last byte of the bitmap that `uip_reass` uses for data from octet 960 on
  is not in the array, and the buffer is short by a header (`uip.c:553`, `:577`,
  `:603`): `CheckedIsOwn` and `OwnPacket` end with the first such write.
* The CRC of a frame is handed over with it, against the comment at
  `enc28j60.c:353-354`; the stack cuts it off by the length of the IP header.
* An echo reply of nothing but zeros gets the checksum 0 (`uip.c:1007`).
* A text longer than the mss reaches the peer of a protosocket with a gap:
  `data_acked` drops what `send_data` sent, but the loop then sends and
  acknowledges in the same call (`psock.c:165-167`).
* Two devices that are unplugged in one search can hide a third (`FoundOnce`).
* A new sensor may get the place behind the table (`ds18x20.c:188`).
* The least value of a signed type is written with digits below `0`
  (`usart2.c:124`), and `usart1_out_iso_time` writes to the first USART.
* A long run of refusals (DHCPNAK) keeps the client asking.

Two more facts are stated as exceptions of properties that hold:
`AcceptedIsAcked` excepts data on the segment that acknowledges our FIN
(FIN_WAIT_1 to FIN_WAIT_2: it is taken, and nothing is sent);
`FramesFollowLatest` excepts the hop 0.0.0.0, which matches an unused entry.

## 4. Proofs

`tlapm` on the seven modules `*_proofs.tla` and on `FoldLemmas` checks every leaf.  The theorems
hold for every value of the constants under the assumptions the modules name:

| Assumption | Module | What it asks, and why the firmware satisfies it |
|---|---|---|
| `SizesAssumption`, `ArrivingAssumption` | `UipTcp` | sizes are positive, an eight-bit timer holds 16 times `UIP_RTO`, `UIP_MAXSYNRTX` is at most `UIP_MAXRTX` (16 * 3 = 48, 5 <= 8) |
| `StreamsAssumption` | `UipTcpLink` | either end sends fewer octets than there are sequence numbers, less two for the SYN and the FIN (2^32); the first number is any |
| `RepliesAssumption`, `AddressesAssumption` | `UipArp` | `UIP_ARP_MAXAGE` is below the modulus of the clock byte (120 < 256) |
| `RttAssumption` | `UipRtt` | `UIP_RTO` and the first deviation are at least 3 (3, and 4 or 16), trips are below 32 periods |
| `ReassAssumption` | `UipReass` | a byte of the bitmap stands for a block at least (8); the buffer, the header, the age and where a fragment begins are any numbers, and how long it is any integer |
| `FwAssumption` | `UipFw` | the cache has an entry (2), packets are records with a ttl; the interfaces, their networks and the times are any |
| `UdpAssumption` | `UipIp` | the ports are in the order 68, 1024, 4096, 32000, and a lap of local ports is longer than the table (27904 ports, 10 connections) |
| `SumAssumption` | `UipChksum` | octets are octets, a message has a word for its checksum, and messages and full segments are no longer than 60000, so that a length is a number of 16 bits (`UIP_BUFSIZE` is 1024) |
| `EthAssumption` | `Enc28j60` | the ring is not empty, frames are sequences, the address of the build is a hardware address |
| `BusAssumption` | `OneWire` | no bit has the number of an error (64 bits, 254 and 255) |
| `DsAssumption` | `Ds18x20` | there is a place in the table, codes are finite in number, and temperatures are those a sensor measures, from -55 to 125 degrees |
| `TimesAssumption`, `PoolAssumption` | `MainLoop` | the longest time kept (600 s of 76 ticks) and the longest lag of the loop fit the 16-bit clock (45600 and about 20000 ticks to spare); no server gives away 0.0.0.0 |
| `QueueAssumption` | `Telnetd` | the pool has no more blocks than the queue has places (both `TELNETD_CONF_NUMLINES`), and a command line has room for its end |
| `Scripted` | `Telnetd_proofs` | a hypothesis: the shell answers what is typed with calls of `shell_output`, `shell_prompt` and `shell_quit`; `ShellScripted` proves it of the shell of the repository |
| `OnlyExitQuits` | `Telnetd_proofs` | a hypothesis of `CommandsWhole`: the shell calls `shell_quit` for `exit` only; `ShellQuits` proves it of the shell of the repository |

**UipTcp.**  The inductive invariant is `TypeOK`, `UniqueEndpoints`, `ConnOK`
of every record, and that a record in use has two ends (`Named`).  No part is
inductive alone: the type of `timer` needs `Driven` and `PrimedConn` (a timer is
decremented only above 0, and an idle one is the `rto`), the budget needs the
states, and that no second entry gets the ends of another needs that a step on
one record keeps its ends (`SameEnds`).  The proof follows a record through
the building blocks (`ClosedSound`, `AppSendSound`, ...) so that each action has
one short step.  Theorems: `TypeCorrect`, `EndpointsUnique`,
`ConnectionsDriven`, `RetriesBounded`, `IdleTimerPrimed`, `OnlyOpenStopped`.

**UipTcp and UipApp.**  `ImplementsUipApp` (in `UipTcp_proofs`) is the refinement: every behaviour of
`UipTcp` is one of `UipApp` under `AppPhase`.  Initial states map to initial
states; there is one lemma per action of `UipTcp`, from a state of its
invariant, that names the action of `UipApp` the step is, or that it is none.
The invariant is needed where the flags shown to the application depend on what
is outstanding (a SYN that is acknowledged is the only thing on the way).  The
same lemmas follow `rcv_nxt` into the reply for `StepsAcknowledge`
(`AcceptedIsAcked`): octets or a FIN are taken only in a step that acknowledges
them, but for the FIN_WAIT_1 step of the code that sends nothing.

**UipTcpLink.**  `OutgoingInOrder`, `IncomingInOrder`, `AcknowledgedDelivered`,
`AckedReceived` and `ClosedCleanly` say that a network that loses, duplicates
and reorders does not spoil either stream, for streams of any length, any number
of segments under way, any windows and any first sequence number, a wrap of the
numbers in the middle of the stream included.  They are parts or consequences of
one inductive invariant, `LinkInv`: the invariant of `UipTcp`; what a segment to
the stack may say (`NetOK`: it acknowledges no octet the peer has not, it carries
octets the peer wrote), what one to the peer may say (`BackOK`: its octets
are at the place its number names, a FIN comes after the last octet, it
acknowledges no more than arrived); what the connection knows of the two streams
in each state (`StackOK`: `snd_nxt` is the number of the first octet not
acknowledged, `rcv_nxt` counts the octets handed to the application); and what
the peer has (`PeerOK`: no less than was acknowledged, no more than was sent).  TLC
checked `LinkInv` on the instance of `link` before it was proved.  None of the
five is inductive alone: an acknowledgment that was duplicated long ago must be
known to be no later than the octet outstanding, and that two places of a stream
never have one number (`SqInjective`) needs the bound on its length.  The
theorems have the hypothesis `~CloseAnyTime`: an application that closes only
when all it sent is acknowledged, as all applications of the repository do.
Without it `CleanClose` is false, which `link_close` shows.

**UipArp.**  `UniqueEntries` follows from the search of `uip_arp_update`
(`ChosenHolds`).  `FramesFollowLatest` needs `Coherent`: an entry that can be
found holds what its host said last.  `FlushedUnlessLate` needs `Dated`: while
an entry is young, `time` + `age` is `arptime` or a turn of the clock more.
`EvictsOldest` is an action property: a displaced entry was `Chosen`, all entries
were occupied, and `Dated` turns the largest difference into the largest age;
that a largest one exists is the well-foundedness of the numbers (`LeastNumber`,
`OldestExists`).  Theorems: `TypeCorrect`, `EntriesUnique`, `LatestFollowed`,
`OnlyLateOutlive`, `EvictsOldest`.

**UipRtt.**  `RttCovered` is not inductive: whether an octet overflows depends
on what the octets hold.  The invariant adds that `sa` stays below 256 and `sv`
between 3 and 127, because each gives up as much as a trip of 31 periods adds
(`Eighth`, `RttSpread`); the bound of 31 is sharp.  Assumed (`RttAssumption`):
`UIP_RTO` and the deviation at the start are at least 3 (3, and 4 or 16 in the
code) and round trips are below 32 periods.  Theorem: `TripsCovered`.

**UipReass.**  `OwnPacket` (`CheckedIsOwn`): a packet that is handed out has
its own octets in every block the code looked for, as long as no fragment was
written or marked beyond the arrays, which the test of `uip.c:595` does not
exclude.  Up to the first that is, a packet ends within the bitmap, so that the
byte its last block is in is one that is looked at (`WithinBitmap`,
`CopiedSound`).  The invariant speaks of the buffer: while the timer runs, a block marked in the bitmap holds octets of the
packet being put together.  A fragment of another packet keeps this because the
code clears the bitmap with the header (`StartedSound`), and the arithmetic of
`LookedAt` shows which blocks the loop over the bitmap's bytes passes over: those
of the byte before the last, the gap that `reass_hole` shows.

**UipFw.**  `NothingCircles` (`NoCircle`), for any size of the cache, any
interfaces and any packets.  It is an action property, and what has to be known
before the step is `FwHolds`: while the packet registered last is younger than
`FW_TIME`, an entry of the cache has its key and a timer of `FW_TIME` less its
age.  The entry of a young packet may be displaced only by the next one, which
is then the last; that the choice of the oldest entry exists (`OldestIs`) is a
least-number argument over the timers.  The second half, that a packet on its
way has lost one of its ttl or is an answer to its sender, goes through the cases
of `uip_fw_forward` (`ForwardHolds`).

**UipIp.**  `AnswersReach` (`RepliesFound`), for any table, peers and ports.
Three facts carry it.  Ports in use differ (`DistinctPorts`): among the first
`UIP_UDP_CONNS` + 1 ports tried one is unused, by a pigeonhole (`Injects`,
`NextPortIs`), and the port the DHCP client binds lies below all of them.  A
packet then matches one connection only.  For the connection that was removed,
`Placed` measures how far `lastport` has gone round since its port was given: the
distance of the port and the number of connections still ahead, which will be
skipped, are below its age plus the size of the table, so the port is not given
again before a lap is over (`GivenInLap`).  A step of `uip_udp_new` adds to the
distance what it takes off the connections ahead (`PlacedNext`).

**UipChksum.**  `SumsHold` (`ChecksumsHold`), for any octets and lengths.  No
state is kept from step to step; what the proof needs is arithmetic.  A sum of
`chksum` is the sum of the words but for multiples of 65535 (`Cong`, `AddIs`),
and is zero only when it began with zero and every octet is zero (`SumZero`).
So a word that changes by d changes the sum by d (`SumShift`): the complement
that is stored makes it 65535 (`StoredRight`), a change of one octet is less than
65535 and noticed (`DamageNoticed`), and what `uip_process` adds to the checksum
of an echo reply is what it takes off the type, in the other byte order and with
the carry (`AdjustedIs`, `EchoRight`).  The halves of `uip_split_output` are
segments by the same lemmas, and their data in order is the data
(`SegmentIs`, `SplitHolds`).

**Enc28j60.**  `ReceivedInOrder` (`FramesInOrder`), for any ring, frames and
`UIP_BUFSIZE`, between all accesses at which the controller can store a frame.
The invariant describes the memory: from the read pointer to the write pointer
the frames that are stored and not freed stand one behind the other, each with a
header that names the next (`Ringed`), and `Reads` says at each place in
`enc28j60PacketReceive` what the driver has copied and where its pointers are.
A new frame keeps the others because its cells are free (`RingAppend`; the
distances in the ring are `FarFrom`, `SpaceIs`), and freeing takes away the first
(`RingTail`).  That a register written is the one meant needs that the driver
knows the selected bank (`EthShaped`), which the initialisation brings about
although the reset selects a bank without the driver noting it (`FreshWrite`).

**OneWire.**  `EveryDeviceFound` (`FoundOnce`), for any devices, any number of
bits below 254 and any contents of the id when a search begins.  A pass walks down
a tree: `Walk` says, with i bits to go, that those listen whose code is the id
so far, that `next` is the lowest bit where a branch of zeros was left aside, and
that below the turn of the last pass no branch of ones was; `WalkBit` is one bit.
From this follow that the new device is below the last one (`PassDescends`), in
the order of the codes, so that it is new, and that whatever is not listed yet
is below the new one, from its turn on (`PassLeaves`).  The second needs that
the pass finds the way to the turn (`Path`).  After each pass two devices
show the way, the one just found and one in the branch left aside (`Turnable`);
when one device is unplugged the other remains, and when both are, devices may be
missed: this is why the property speaks of one.

**Ds18x20.**  `TableReads` (`Readings`), for any number of sensors, the
DS18S20 and the DS18B20 of 9, 10, 11 and 12 bits (the run has those of 9 and 12), any order of the search and any size of the table.  The bound of
two sensors on the bus is part of `Exchange`; the proof of a reading does not
use it.  `Converted` is the arithmetic: for every temperature the sensor measures
and every undefined bit, `DS18X20_meas_to_cel` yields its sixteenths, below zero
too, where the sign is taken off before the bits of a coarse sensor are cleared
(`Fine`, `Extended`, `Coarse`), and `Rounded` is the rounding to tenths.
`StoredTable` is one answer, stored where `findSensor` says, beyond the table
included; `AllStored` carries it through the fold over the sensors found.

**MainLoop.**  One invariant for the three properties of the DHCP client:
`ConfiguredIsGranted` needs that every message under way says what its server
did (`Told`) and that a client that is done waits for nothing (`Done`);
`RequestsOffered` that the server and the address the client keeps belong
together while it waits for the acknowledgment (`Asked`, where a NAK sets
the address to 0.0.0.0); `AsksAgain` that the client's timer is behind by no
more than the periodic timer (`Paced`), so that the 16-bit difference of
`timer_expired` never wraps.  The loop over the connections and the delay of an
iteration are in the steps; the bound on the delay, `MaxLag`, is any that
`TimesAssumption` admits.  Theorems: `Inductive`, `GrantedConfigured`,
`OfferedRequested`, `AskedAgain`.

**Telnetd.**  `TypeCorrect` holds for any number of connections.  The others
have the hypothesis `Conns = {c}`, one connection after another, because the
state all connections share makes them false of two (see the facts above);
sizes, mss, segments, greeting and answers are any.  The invariant has three
parts.  `Good`: the queue holds different blocks, all in use, and the numbers of
its lines follow each other up to the last line made, so that a place in the
queue is a number in the session.  `Open`: while the connection is open, what is in
flight is the front of the queue and still fits a segment, and `numsent` is the
most that fits; `Exact` adds, unless something was typed while lines were in
flight, that the two are equal and that the queue begins behind the last line
acknowledged.  `Kept`: every block in use is queued, while nobody typed exit.
A line is never dropped for want of room once it has a block, because the
blocks queued are all different (`RoomLeft`, a pigeonhole).  The functions of
`telnetd.c` that loop are folds (`StepsGrow`, and **FoldLemmas** below).
Scripts and parsing let the queue grow at its end (`Grows`), the freeing loops
take away its front (`AckedIs`, `ClosedIs`), and the count of octets depends on
the lines alone (`OctetsSame`), which is why a retransmission finds the same
lines again.

`ParsedWhole` compares the commands that `newdata` and `get_char` cut out of
one segment after another with those of the whole stream (`Commands`), which
are recursive functions over its places, from the end.  Between the two stands
a reader (`Read`): it takes one character at a time as `newdata` does, has no
queue and does not stop at an exit.  On the one side, what the reader has finished and
begun at a place of the stream, with what `Text` and `Cut` give from that
place on, is what they give for all of it (`InStep`, carried along the stream by
`StepsInStep`), so that at the end it has the commands of the stream
(`ReadsCommands`).  On the other side, the server is where the reader is, or both
were given the same commands up to an exit (`Follows`), which every call of
`telnetd_appcall` keeps (`CallFollows`): reading goes on with the next segment
from the state the last one left (`ReadingOn`), and acknowledgments,
retransmissions and the shell's answers touch the queue alone.  The inductive
invariant is `ReadInv`.

Theorems: `TypeCorrect`, `OneInvariance`, `OutputOrdered`,
`RetransmissionSame`, `MemoryIsReturned`, `CommandsWhole`.

**FoldLemmas.**  What a fold computes is not proved by a theorem on
induction, which needs an operator as a parameter, but from its definition:
`FoldExists` and `FoldSteps` give the function of the values a fold goes through,
and `UpTo`, from the least number principle (`LeastNumber`), carries a property
along it.  A recursive function over the places of a sequence, from the end,
exists by the same principle in the other direction (`Descends`, `DownExists`).
`MinIs`, `MaxIs` and `MaxUpTo` are the least and the greatest of a set of
numbers.  `Telnetd_proofs`, `UipArp_proofs`, `UipParts_proofs` and
`Drivers_proofs` rest on them.

**Only model-checked.**

* `OpeningEnds`, `ClosingEnds`, `Leases`: the prover has no fairness.
* `AnswerWhole` is about `Telnetd` with the answers of one shell, and what it
  says of the queue depends on how many lines each of these queues, a count that
  `Telnetd_proofs`, which takes any shell, does not make.
* `Conversation`: `Psock` has a `RECURSIVE` operator, which the prover cannot
  take.
* `ReadsBack`: TLC goes through every octet, and of the words those at which the
  number of digits or the sign changes.

## 5. Not modelled

* The port mapper (`apps/port_app_mapper`): no project defines
  `PORT_APP_MAPPER`; it chooses an application by the ports of a connection.
* The neighbour table (`uip-neighbor.c`) and the rest of IP version 6, which
  no project compiles; `uiplib.c`, which parses addresses.
* `psock_generator_send` and `psock_readbuf`, which no application calls.
* Segments with urgent data: `UipTcp` has the code, no run has such segments
  (`UIP_URGDATA` is 0).  A connection whose mss is stale or 0 after a SYN
  without the option: `UipTcp` keeps the stale value, and sending is only
  observed in `UipTcpLink`, where the option is given.
* Drivers that are nothing but bits on wires and busy waiting: `ds1302`,
  `SPILCD`, `analog`, `eeprom`, `uart`, the bit level of `onewire.c`, `phys.c`.
  Their correctness is timing at the level of registers.
* What a write of `uip_reass` beyond its arrays does to other variables: after it
  `UipReass` says of the packets handed out that they may be any.
* The tests project, which is a manual test of the board.
