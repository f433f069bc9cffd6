----------------------------- MODULE MCTerminal -----------------------------
(***************************************************************************)
(* Keys for model checking Terminal.  Caps Lock stands for the keys that   *)
(* choose the dictionary: Shift only chooses another one.                  *)
(***************************************************************************)
EXTENDS Terminal

EditKey == {"enter", "backspace", "release"}
LineKey == EditKey \cup {"caps", "ctrl", "unctrl"}
=============================================================================
