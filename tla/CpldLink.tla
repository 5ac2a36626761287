------------------------------ MODULE CpldLink ------------------------------
(***************************************************************************)
(* The CPLD's register interface and the test bench's SPI master, bit by   *)
(* bit.  Words are sequences of bits, most significant first.  A clock     *)
(* edge of the SPI bus is one step: the synchronisers are far faster than  *)
(* the bus, and have passed the edge on before the next.                   *)
(*                                                                         *)
(* The firmware's transactions are two more kinds: the first bit of its    *)
(* driver is set for a read and clear for a write, where the CPLD takes it *)
(* the other way round, and all its registers but the first lie at other   *)
(* addresses.                                                              *)
(***************************************************************************)
EXTENDS Integers, Sequences

CONSTANTS
  Signature,        \* the 32 bits of eSigValVal
  MaxTransactions,  \* bound on the master's transactions
  MaxTicks,         \* bound on the TCXO's ticks
  MaxPulses         \* bound on the edges of the GNSS pulse

\* A word of the register file.
ASSUME LinkAssumption == Signature \in Seq({0, 1}) /\ Len(Signature) = 32

VARIABLES
  slave,    \* bitCnt, shiftReg, addr, isWrite, control
  master,   \* the transaction in progress: what is still to be clocked, and what was read
  counter   \* counterState, tcxoCounter, the pulse; and how many ticks of the first pulse there were

linkVars == <<slave, master, counter>>

Zeros(n) == [i \in 1..n |-> 0]

\* The seven address bits, and the widths, regTool.py makes of regs.py.
Address(register) ==
  CASE register = "Control" -> <<0, 0, 0, 0, 0, 0, 0>>
    [] register = "TCXOLatch" -> <<0, 0, 0, 0, 1, 0, 0>>
    [] register = "Sig" -> <<1, 1, 1, 1, 1, 0, 0>>
Width(register) == IF register = "Control" THEN 8 ELSE 32

LinkInit ==
  /\ slave = [count |-> 0, word |-> Zeros(32), addr |-> Zeros(7), write |-> 0, control |-> Zeros(8)]
  /\ master = [at |-> "idle", done |-> 0, op |-> "none"]
  /\ counter = [state |-> "idle", value |-> 0, pulse |-> 0, edges |-> 0, ticks |-> 0, high |-> 0]

----------------------------------------------------------------------------
Bits(n, width) == [i \in 1..width |-> (n \div 2 ^ (width - i)) % 2]

\* What a complete or partial address brings into the shift register.
Loaded(addr) ==
  CASE addr = Address("Control") -> SubSeq(slave.word, 1, 24) \o slave.control
    [] addr = Address("TCXOLatch") -> Zeros(22) \o Bits(counter.value, 10)
    [] addr = Address("Sig") -> Signature
    [] OTHER -> Zeros(32)

\* A rising clock edge with the chip selected.
Clocked(mosi) ==
  LET addr == Append(Tail(slave.addr), mosi)
      header == slave.count \in 1..7
  IN [count |-> (slave.count + 1) % 64,
      write |-> IF slave.count = 0 THEN mosi ELSE slave.write,
      addr |-> IF header THEN addr ELSE slave.addr,
      word |-> IF slave.count = 0 THEN slave.word
               ELSE IF header THEN (IF slave.write = 0 THEN Loaded(addr) ELSE slave.word)
               ELSE Append(Tail(slave.word), IF slave.write = 1 THEN mosi ELSE Head(slave.word)),
      control |-> IF slave.write = 1 /\ slave.addr = Address("Control") /\ slave.count = Width("Control")
                  THEN SubSeq(slave.word, 25, 32) ELSE slave.control]

\* A plausible slip: the bit counter runs on from one transaction to the next.
DeselectedCounting == [slave EXCEPT !.word = Zeros(32)]

\* A rising NSS.
Deselected == [slave EXCEPT !.count = 0, !.word = Zeros(32)]

----------------------------------------------------------------------------
\* spiRead(), spiWrite(), and the driver's readRegister() of the signature and setClockMode() of four
\* phases: the bits that go out, and how many of the last are read back.
Transactions ==
  {[op |-> "read", register |-> r, out |-> <<0>> \o Address(r) \o [i \in 1..Width(r) |-> 1],
    back |-> Width(r)] : r \in {"Control", "TCXOLatch", "Sig"}}
  \cup {[op |-> "write", register |-> "Control", out |-> <<1>> \o Address("Control") \o Bits(129, 8), back |-> 0],
        [op |-> "write", register |-> "Sig", out |-> <<1>> \o Address("Sig") \o [i \in 1..32 |-> 1], back |-> 0],
        [op |-> "driver", register |-> "Sig", out |-> <<1>> \o [i \in 1..7 |-> 1] \o Zeros(32), back |-> 32],
        [op |-> "broadcast", register |-> "Control",
         out |-> <<0>> \o Address("Control") \o (Zeros(31) \o <<1>>), back |-> 32]}

Select(t) ==
  /\ master.at = "idle" /\ master.done < MaxTransactions
  /\ master' = [at |-> "clocking", done |-> master.done, op |-> t.op, register |-> t.register, out |-> t.out,
                back |-> t.back, got |-> <<>>, control |-> slave.control,
                frozen |-> counter.state \in {"frozen", "readable"}]
  /\ UNCHANGED <<slave, counter>>

\* putBit() and getBit(): what is read is what the slave shows before the edge.
ClockBit ==
  /\ master.at = "clocking" /\ master.out # <<>>
  /\ slave' = Clocked(Head(master.out))
  /\ master' = [master EXCEPT !.out = Tail(@),
                              !.got = IF Len(master.out) <= master.back THEN Append(@, Head(slave.word)) ELSE @]
  /\ UNCHANGED counter

Deselect ==
  /\ master.at = "clocking" /\ master.out = <<>>
  /\ slave' = Deselected
  /\ master' = [master EXCEPT !.at = "idle", !.done = @ + 1]
  /\ UNCHANGED counter

\* One tick of the TCXO: the states of the counter, which counts once it is on and never starts again.
Tick ==
  /\ counter.ticks < MaxTicks
  /\ counter' = [counter EXCEPT
       !.ticks = @ + 1,
       !.state = CASE @ = "idle" /\ counter.pulse = 1 -> "counting"
                   [] @ = "counting" /\ counter.pulse = 0 -> "frozen"
                   [] @ = "frozen" /\ counter.pulse = 1 -> "readable"
                   [] OTHER -> @,
       !.value = IF counter.state = "counting" THEN @ + 1 ELSE @,
       !.high = IF counter.pulse = 1 /\ counter.state \in {"idle", "counting"} THEN @ + 1 ELSE @]
  /\ UNCHANGED <<slave, master>>

\* An edge of the 1pps signal.
PulseEdge ==
  /\ counter.edges < MaxPulses
  /\ counter' = [counter EXCEPT !.pulse = 1 - @, !.edges = @ + 1]
  /\ UNCHANGED <<slave, master>>

LinkNext == (\E t \in Transactions : Select(t)) \/ ClockBit \/ Deselect \/ Tick \/ PulseEdge
LinkSpec == LinkInit /\ [][LinkNext]_linkVars

----------------------------------------------------------------------------
\* Between transactions: whatever went before, the signature and a frozen count are read whole, neither
\* a read nor what the firmware's driver sends changes the control register, and the count is that of the
\* ticks the pulse was high.
CpldRight ==
  master.at = "idle" /\ master.done > 0 =>
    /\ master.op = "read" /\ master.register = "Sig" => master.got = Signature
    /\ master.op = "read" /\ master.register = "TCXOLatch" /\ master.frozen =>
         master.got = Zeros(22) \o Bits(counter.high, 10)
    /\ master.op # "write" => slave.control = master.control
    /\ counter.state \in {"frozen", "readable"} => counter.value = counter.high
=============================================================================
