-------------------------------- MODULE Bits --------------------------------
(* Operations on the bits of a byte, a bit given by its weight.            *)
EXTENDS Integers

Bit(n, weight) == (n \div weight) % 2

And(a, b) ==
  LET both(weight) == Bit(a, weight) * Bit(b, weight) * weight
  IN both(1) + both(2) + both(4) + both(8) + both(16) + both(32) + both(64) + both(128)

Or(a, b) == a + b - And(a, b)

Unmasked(bank, count) == bank

(* A bank number as MapperConfig::set_prg_bank and set_chr_bank store it.  *)
Masked(bank, count) == And(bank, count - 1)
=============================================================================
