----------------------------- MODULE MCPrograms -----------------------------
(* Constants for model checking Programs: a directory of programs, of two  *)
(* texts and the RTC, and command lines with and without arguments.        *)
EXTENDS Programs, KernelRefinement

Program == {"shell", "cat", "ls", "grep", "hello", "counter", "testprint",
            "sigtest", "syserr", "pingpong", "fish"}
Text == {"frame0.txt", "frame1.txt"}

MCFile == Program \cup Text \cup {".", "rtc"}
MCEntries == <<".", "shell", "cat", "frame0.txt", "rtc", "ls", "grep", "hello",
               "counter", "testprint", "sigtest", "syserr", "pingpong", "fish",
               "frame1.txt">>
MCFileType == [f \in MCFile |-> CASE f = "." -> DIR_FILE
                                  [] f = "rtc" -> RTC_FILE
                                  [] OTHER -> REG_FILE]
MCInode == [f \in MCFile |-> CASE f = "frame0.txt" -> 1
                               [] f = "frame1.txt" -> 2
                               [] f \in {".", "rtc"} -> 0
                               [] OTHER -> 3]
MCLength == [i \in 0..3 |-> CASE i = 1 -> 2 [] i = 2 -> 4 [] OTHER -> 1]

MCTyped ==
  {<<>>, <<"exit">>, <<"nosuch">>, <<"shell">>, <<"cat">>, <<"cat", " ">>,
   <<"cat", " ", "frame0.txt">>, <<"cat", " ", ".">>, <<"cat", " ", "rtc">>,
   <<"cat", " ", "nosuch">>, <<"cat", " ", "frame0.txt", " ", "word">>, <<"ls">>, <<"grep", " ", "word", " ", "word">>,
   <<"hello">>, <<"counter">>, <<"testprint">>, <<"sigtest", " ", "0">>,
   <<"sigtest", " ", "1">>, <<"syserr">>, <<"pingpong">>, <<"fish">>,
   <<"frame0.txt">>}

MCResidue == {<<>>, <<"old", " ", "ls", NUL>>}
MCChoices == {-1, 0, 5}
=============================================================================
