---------------------------- MODULE MCInterrupts ----------------------------
(* Bytes written to the RTC: none and two, which rtc_write refuses, the      *)
(* bounds of what it accepts, and a number that is no power of two.          *)
EXTENDS Interrupts

MCRateByte == {0, 2, 4, 6, 128}
=============================================================================
