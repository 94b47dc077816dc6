-------------------------------- MODULE Lora --------------------------------
(***************************************************************************)
(* How long a LoRa packet is on the air (core/src/lr1121/lora.rs), in the  *)
(* integers of the code; only the unit of time is left open.  Every packet *)
(* of the modem has a header and a CRC: no configuration it is given says  *)
(* otherwise.                                                              *)
(***************************************************************************)
EXTENDS Integers

CONSTANTS
    Second,     \* a second, in the unit of time
    SymbolMax   \* the longest symbol without the low-data-rate optimisation

\* symbol_time_us; the optimisation is mandatory once a symbol lasts too long
\* for the drift of a clock over it.
symbol_time(sf, bw) == (2 ^ sf * Second) \div bw
low_data_rate_optimize(sf, bw) == symbol_time(sf, bw) > SymbolMax

\* Eight symbols, and a block for every 4 * sf bits that do not fit in them
payload_symbols(c, len) ==
    LET bits == 8 * len - 4 * c.sf + 28 + 16
        block == 4 * (c.sf - IF low_data_rate_optimize(c.sf, c.bw) THEN 2 ELSE 0)
        blocks == IF bits <= 0 THEN 0 ELSE (bits + block - 1) \div block
    IN  8 + blocks * (c.cr + 4)

\* airtime_us: a preamble of 4.25 symbols more than it says, and the payload
airtime(c, len) ==
    LET t == symbol_time(c.sf, c.bw)
    IN  ((4 * c.preamble + 17) * t) \div 4 + payload_symbols(c, len) * t
=============================================================================
