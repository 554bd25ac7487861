------------------------------- MODULE MCFtdi -------------------------------
(* Ftdi for TLC: rates around the limits of each clock and each divisor.   *)
EXTENDS Ftdi

MCRates ==
  {1, 50, 182, 183, 184, 300, 732, 733, 9600, 57600, 115200, 250000, 921600,
   1411765, 1499999, 1500000, 1600000, 1950000, 2000000, 2100000, 2500000,
   2857143, 2900000, 3000000, 3150000, 3200000, 5999999, 6000000, 7000000,
   8000000, 10000000, 12000000, 12600000, 12700000}
=============================================================================
