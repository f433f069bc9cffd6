----------------------------- MODULE MCDirectory -----------------------------
(***************************************************************************)
(* A directory with names of length 1 and of full length (2), one of them  *)
(* of each type, and words that are prefixes and extensions of its names.  *)
(***************************************************************************)
EXTENDS Directory

MCEntry == <<[name |-> <<46>>, filetype |-> DIR_FILE, inode_num |-> 0],
             [name |-> <<97, 98>>, filetype |-> REG_FILE, inode_num |-> 5],
             [name |-> <<98, 97>>, filetype |-> RTC_FILE, inode_num |-> 0],
             [name |-> <<97>>, filetype |-> REG_FILE, inode_num |-> 3]>>
MCWord == {<<46>>, <<97, 98>>, <<98, 97>>, <<97>>, <<98>>, <<97, 98, 97>>}
MCCommand == {<<97, 98, NEWLINE>>, <<97, SPACE, 98>>, <<97, 98, 97, SPACE>>,
              <<97, 98, 97, 98>>, <<98, 97>>, <<SPACE, 97>>}
=============================================================================
