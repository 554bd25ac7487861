------------------------------ MODULE BaudRate ------------------------------
(***************************************************************************)
(* How libftdi turns a baud rate into the divisor that a chip is sent      *)
(* (ftdi.c: ftdi_to_clkbits_AM(), ftdi_to_clkbits(),                       *)
(* ftdi_convert_baudrate(), and the test of ftdi_set_baudrate()), and what *)
(* rate a chip makes of it (the comments at these functions, after AN120). *)
(* Divisors have three fractional bits, in a code of their own.            *)
(***************************************************************************)
EXTENDS Integers, FiniteSetsExt

HTypes  == {"2232H", "4232H", "232H"}
BMTypes == {"BM", "2232C", "R"}
Types   == {"AM"} \cup BMTypes \cup HTypes

H_CLK == 120000000
C_CLK == 48000000

Diff(a, b) == Max({a - b, b - a})

(* Mutant of frac_code: the eighths as they are.                           *)
frac_plain == [e \in 0..7 |-> e]

frac_code == [e \in 0..7 |-> <<0, 3, 2, 4, 1, 5, 6, 7>>[e + 1]]

Encoded(divisor) == divisor \div 8 + frac_code[divisor % 8] * 2^14

(* The next supported divisor of an AM chip, in eighths: its fractions are *)
(* 0, 1/8, 1/4 and 1/2, and nothing lies between 1 and 2.                  *)
AmFractions == {0, 1, 2, 4}

AmRoundUp(divisor, try) ==
  CASE try <= 8     -> 8
    [] try > 8 /\ divisor < 16 -> 16
    [] OTHER        -> Min({131064,
                            Min({t \in try..(try + 3) : t % 8 \in AmFractions})})

AmRoundDown(divisor) ==
  Max({t \in (divisor - 3)..divisor : t % 8 \in AmFractions})

ftdi_to_clkbits_AM(baudrate) ==
  LET divisor == AmRoundDown(24000000 \div baudrate)
      lower   == AmRoundUp(divisor, divisor)
      upper   == AmRoundUp(divisor, divisor + 1)
      rate(d) == (24000000 + d \div 2) \div d
      best    == IF Diff(rate(upper), baudrate) < Diff(rate(lower), baudrate)
                 THEN upper ELSE lower
  IN  [baud |-> rate(best), encoded |-> IF best = 8 THEN 0 ELSE Encoded(best)]

Halved(n) == (n \div 2) + (n % 2)   \* rounded by the bit that is shifted out

ftdi_to_clkbits(baudrate, clk, clk_div) ==
  LET full    == clk \div clk_div
      two3rds == clk \div (clk_div + clk_div \div 2)
      half    == clk \div (2 * clk_div)
      clk16   == (clk \div clk_div) * 16     \* both clocks are multiples
      nearest == Halved(clk16 \div baudrate)
      best    == IF nearest > 2^17 THEN 2^17 - 1 ELSE nearest
  IN  CASE baudrate >= full -> [baud |-> full, encoded |-> 0]
        [] baudrate < full /\ baudrate >= two3rds -> [baud |-> two3rds, encoded |-> 1]
        [] baudrate < two3rds /\ baudrate >= half -> [baud |-> half, encoded |-> 2]
        [] OTHER -> [baud |-> Halved(clk16 \div best), encoded |-> Encoded(best)]

(* The rate that is promised, and the two words of the request.            *)
ftdi_convert_baudrate(baudrate, type, interface) ==
  LET fast == type \in HTypes /\ baudrate * 10 > H_CLK \div 16383
      bits == CASE fast         -> ftdi_to_clkbits(baudrate, H_CLK, 10)
                [] ~fast /\ type # "AM" -> ftdi_to_clkbits(baudrate, C_CLK, 16)
                [] OTHER        -> ftdi_to_clkbits_AM(baudrate)
      word == bits.encoded + IF fast THEN 2^17 ELSE 0
  IN  [baud  |-> bits.baud,
       value |-> word % 2^16,
       index |-> IF type \in HTypes THEN (word \div 2^16) * 256 + interface
                 ELSE word \div 2^16]

(* ftdi_set_baudrate() takes what is within about 5%.                      *)
Tolerated(actual, baudrate) ==
  /\ actual * 2 >= baudrate
  /\ IF actual < baudrate THEN actual * 21 >= baudrate * 20
                          ELSE baudrate * 21 >= actual * 20

(* What the chip makes of the two words: a divisor of 0 stands for 1 and a *)
(* divisor of 1 for 1.5.                                                   *)
ChipRate(type, request) ==
  LET high  == IF type \in HTypes THEN (request.index \div 2^8) % 2
               ELSE IF type = "AM" THEN 0 ELSE request.index % 2
      code  == request.value \div 2^14 + 4 * high
      part  == CASE code = 1 -> 4 [] code = 3 -> 1 [] code = 4 -> 3 [] OTHER -> code
      whole == request.value % 2^14
      base  == IF type \in HTypes /\ (request.index \div 2^9) % 2 = 1
               THEN H_CLK \div 10 ELSE C_CLK \div 16
      eighths == CASE whole = 0 /\ part = 0 -> 8
                   [] whole = 1 /\ part = 0 -> 12
                   [] OTHER -> 8 * whole + part
  IN  (base * 8) \div eighths
=============================================================================
