------------------------------ MODULE MCKernel ------------------------------
(* A small directory and small sets of arguments for model checking Kernel. *)
EXTENDS Kernel

DepthFile == {"rtc", "shell", "counter"}
DepthFileType == [f \in DepthFile |-> IF f = "rtc" THEN RTC_FILE ELSE REG_FILE]
DepthInode == [f \in DepthFile |-> CASE f = "shell" -> 2
                                     [] f = "counter" -> 3
                                     [] OTHER -> 0]
DepthLength == [i \in {0, 2, 3} |-> 1]

MCReadSize == {-1, 1}
MCExitStatus == {0, 3}
MCWideStatus == {0, 3, 256, -1}
=============================================================================
