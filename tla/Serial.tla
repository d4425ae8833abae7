------------------------------- MODULE Serial -------------------------------
(***************************************************************************)
(* The serial driver, src/kernel/drivers/serial.c, and the 16550 UART it   *)
(* programs.  The driver polls: it takes no interrupt and keeps no state.  *)
(* Every port access is a step, and between any two of them the line may   *)
(* take a byte from the transmitter, or bring one, or do neither for as    *)
(* long as it likes.                                                       *)
(***************************************************************************)
EXTENDS Integers, SequencesExt

CONSTANTS TIMEOUT,    \* 100000, the polls before serial_send_byte gives up
          FIFO,       \* 16, the bytes each FIFO of the UART holds
          Bytes,
          Strings,    \* what callers send
          MaxCalls,   \* bound: strings sent
          MaxArrived  \* bound: bytes received

ASSUME SerialAssumption ==
    /\ TIMEOUT \in Nat /\ TIMEOUT >= 2 /\ FIFO \in Nat \ {0}
    /\ Bytes \subseteq 1 .. 255 /\ Strings \subseteq Seq(Bytes)
    /\ MaxCalls \in Nat /\ MaxArrived \in Nat

VARIABLES uart,      \* the registers and FIFOs of the UART
          wire,      \* the bytes that have left it
          serial_pc, \* "idle", "poll" and "write", or "wait" and "read"
          str,       \* what is left to send
          timeout,
          calls,     \* the strings sent so far, with their results
          available, \* serial_data_available returned 1, nothing was read since
          arrived    \* how many bytes came in

serial_vars == <<uart, wire, serial_pc, str, timeout, calls, available, arrived>>

UART_DATA == 0
UART_IER  == 1
UART_FCR  == 2
UART_LCR  == 3
UART_MCR  == 4
-----------------------------------------------------------------------------
(* The UART.  The data and IER addresses hold the divisor while DLAB, bit  *)
(* 7 of LCR, is set; bits 1 and 2 of FCR empty the FIFOs; a byte that      *)
(* finds the transmitter full is lost.                                     *)
Has(byte, weight) == (byte \div weight) % 2 = 1
DLAB(u)      == Has(u.lcr, 128)
Put(fifo, b) == IF Len(fifo) < FIFO THEN Append(fifo, b) ELSE fifo

out(u, reg, byte) ==
    CASE reg = UART_DATA /\ DLAB(u)   -> [u EXCEPT !.divisor[1] = byte]
      [] reg = UART_DATA /\ ~DLAB(u)  -> [u EXCEPT !.tx = Put(@, byte)]
      [] reg = UART_IER /\ DLAB(u)    -> [u EXCEPT !.divisor[2] = byte]
      [] reg = UART_IER /\ ~DLAB(u)   -> [u EXCEPT !.ier = byte]
      [] reg = UART_FCR -> [u EXCEPT !.rx = IF Has(byte, 2) THEN <<>> ELSE @,
                                     !.tx = IF Has(byte, 4) THEN <<>> ELSE @]
      [] reg = UART_LCR -> [u EXCEPT !.lcr = byte]
      [] reg = UART_MCR -> [u EXCEPT !.mcr = byte]

(* The two bits of LSR that the driver reads. *)
LSR_THRE == uart.tx = <<>>
LSR_DR   == uart.rx # <<>>

(* Whatever the firmware left in it. *)
Firmware ==
    [lcr : {3, 131}, divisor : {<<0, 0>>}, ier : {0}, mcr : {0},
     tx : {<<>>} \cup {<<b>> : b \in Bytes}, rx : {<<>>} \cup {<<b>> : b \in Bytes}]

transmit ==
    /\ uart.tx # <<>>
    /\ wire' = Append(wire, Head(uart.tx))
    /\ uart' = [uart EXCEPT !.tx = Tail(@)]
    /\ UNCHANGED <<serial_pc, str, timeout, calls, available, arrived>>

receive(b) ==
    /\ arrived < MaxArrived
    /\ uart' = [uart EXCEPT !.rx = Put(@, b)]
    /\ arrived' = arrived + 1
    /\ UNCHANGED <<wire, serial_pc, str, timeout, calls, available>>
-----------------------------------------------------------------------------
(* What serial_init writes, in order. *)
InitWrites ==
    << <<UART_IER, 0>>, <<UART_LCR, 128>>, <<UART_DATA, 1>>, <<UART_IER, 1>>,
       <<UART_LCR, 3>>, <<UART_FCR, 199>>, <<UART_MCR, 11>>, <<UART_IER, 1>> >>

serial_init(u) ==
    LET after[i \in 0 .. 8] ==
          IF i = 0 THEN u ELSE out(after[i - 1], InitWrites[i][1], InitWrites[i][2])
    IN  after[8]

SerialInit ==
    /\ \E firmware \in Firmware : uart = serial_init(firmware)
    /\ wire = <<>> /\ serial_pc = "idle" /\ str = <<>> /\ timeout = 0
    /\ calls = <<>> /\ available = FALSE /\ arrived = 0

Return(result) ==
    /\ serial_pc' = "idle"
    /\ str' = <<>>
    /\ calls' = [calls EXCEPT ![Len(calls)].result = result]

(* serial_send_str is called, or serial_send_byte: a string of one byte.   *)
(* An empty string is sent at once; NULL is refused and changes nothing.   *)
serial_send_str(s) ==
    /\ serial_pc = "idle" /\ Len(calls) < MaxCalls
    /\ str' = s /\ timeout' = 0
    /\ serial_pc' = IF s = <<>> THEN "idle" ELSE "poll"
    /\ calls' = Append(calls, [str |-> s, result |-> 0])
    /\ UNCHANGED <<uart, wire, available, arrived>>

(* Mutant: a counter too narrow for the limit. *)
Count_narrow(n) == (n + 1) % TIMEOUT

Count(n) == n + 1

PollAgain(n) == ~LSR_THRE /\ n < TIMEOUT

(* Mutant: off by one, the byte is written when the time is over. *)
TimedOut_late(n) == n > TIMEOUT

TimedOut(n) == n >= TIMEOUT

(* One read of LSR in serial_send_byte, and the test after the loop. *)
poll ==
    /\ serial_pc = "poll"
    /\ timeout' = Count(timeout)
    /\ \/ /\ PollAgain(timeout')
          /\ UNCHANGED <<serial_pc, str, calls>>
       \/ /\ ~PollAgain(timeout') /\ TimedOut(timeout')
          /\ Return(-1)
       \/ /\ ~PollAgain(timeout') /\ ~TimedOut(timeout')
          /\ serial_pc' = "write" /\ UNCHANGED <<str, calls>>
    /\ UNCHANGED <<uart, wire, available, arrived>>

(* The byte goes out; serial_send_str goes on with the next. *)
write ==
    /\ serial_pc = "write"
    /\ uart' = out(uart, UART_DATA, Head(str))
    /\ IF Len(str) > 1
       THEN /\ str' = Tail(str) /\ timeout' = 0 /\ serial_pc' = "poll"
            /\ UNCHANGED calls
       ELSE Return(0) /\ UNCHANGED timeout
    /\ UNCHANGED <<wire, available, arrived>>

(* Mutant: the bit of the transmitter is tested. *)
DataReady_thre == LSR_THRE

DataReady == LSR_DR

serial_data_available ==
    /\ serial_pc = "idle"
    /\ available' = DataReady
    /\ UNCHANGED <<uart, wire, serial_pc, str, timeout, calls, arrived>>

serial_recv_byte ==
    /\ serial_pc = "idle"
    /\ serial_pc' = "wait"
    /\ UNCHANGED <<uart, wire, str, timeout, calls, available, arrived>>

(* The loop of serial_recv_byte reads LSR until a byte is there. *)
wait ==
    /\ serial_pc = "wait" /\ LSR_DR
    /\ serial_pc' = "read"
    /\ UNCHANGED <<uart, wire, str, timeout, calls, available, arrived>>

read ==
    /\ serial_pc = "read"
    /\ uart' = [uart EXCEPT !.rx = Tail(@)]
    /\ available' = FALSE
    /\ serial_pc' = "idle"
    /\ UNCHANGED <<wire, str, timeout, calls, arrived>>

SerialNext ==
    \/ \E s \in Strings : serial_send_str(s)
    \/ poll \/ write
    \/ serial_data_available
    \/ serial_recv_byte \/ wait \/ read
    \/ transmit
    \/ \E b \in Bytes : receive(b)

(* The thread that is inside the driver goes on; the line promises         *)
(* nothing.                                                                *)
SerialSpec ==
    SerialInit /\ [][SerialNext]_serial_vars
        /\ WF_serial_vars(poll \/ write \/ wait \/ read)
-----------------------------------------------------------------------------
(* What callers were told is what the wire carries.  The bytes that left   *)
(* or will leave the transmitter are, in order, every string reported as   *)
(* sent, whole and once, and of a string reported as timed out some first  *)
(* bytes and never the last; whatever the line did meanwhile, and after    *)
(* any number of timeouts and retries.  (A caller who sends the string     *)
(* again, because serial_send_str does not tell how far it came, sends     *)
(* these first bytes twice.)                                               *)
ResultsMatchWire ==
    LET Failed == {i \in DOMAIN calls : calls[i].result = -1}
        Carried(k) == [i \in DOMAIN calls |->
            IF i \in Failed THEN SubSeq(calls[i].str, 1, k[i]) ELSE calls[i].str]
    IN  serial_pc \in {"idle", "wait", "read"} =>
          \E k \in [Failed -> UNION {0 .. Len(calls[i].str) - 1 : i \in Failed}] :
             /\ \A i \in Failed : k[i] < Len(calls[i].str)
             /\ wire \o uart.tx = FlattenSeq(Carried(k))

(* A send ends, with the byte out or with -1, although the line may hang   *)
(* for ever (the loop at serial.c:72).                                     *)
SendReturns == serial_pc \in {"poll", "write"} ~> serial_pc = "idle"

(* Once serial_data_available has returned 1 the next serial_recv_byte     *)
(* returns without waiting for the line, even if nothing more arrives.     *)
AvailableMeansRead == (serial_pc = "wait" /\ available) ~> serial_pc = "idle"
=============================================================================
