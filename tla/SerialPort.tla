----------------------------- MODULE SerialPort -----------------------------
(***************************************************************************)
(* What the serial port of the MMC1 promises: five writes of one bit each, *)
(* the least significant first, load one of four registers of five bits,   *)
(* the one the fifth write addresses.  A reset forgets the bits received   *)
(* and forces the two bits of register 0 that fix the last bank.           *)
(***************************************************************************)
EXTENDS Integers

CONSTANT Loadable  \* the values loaded into the registers (a bound for TLC)

VARIABLES
  weight,    \* of the next bit
  value,     \* the number the bits received make
  registers

port == <<weight, value, registers>>

Init == weight = 1 /\ value = 0 /\ registers = [r \in 0..3 |-> IF r = 0 THEN 12 ELSE 0]

Receive(bit) ==
  /\ weight < 16
  /\ weight' = 2 * weight
  /\ value' = value + bit * weight
  /\ UNCHANGED registers

Load(r, bit) ==
  /\ weight = 16
  /\ value + bit * 16 \in Loadable
  /\ registers' = [registers EXCEPT ![r] = value + bit * 16]
  /\ weight' = 1
  /\ value' = 0

FixedLast(control) == 16 * (control \div 16) + 12 + (control % 4)

Reset ==
  /\ weight' = 1
  /\ value' = 0
  /\ registers' = [registers EXCEPT ![0] = FixedLast(@)]

Next ==
  \/ \E bit \in 0..1 : Receive(bit)
  \/ \E bit \in 0..1, r \in 0..3 : Load(r, bit)
  \/ Reset

Spec == Init /\ [][Next]_port
=============================================================================
