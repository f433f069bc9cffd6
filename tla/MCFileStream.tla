---------------------------- MODULE MCFileStream ----------------------------
(* A small image: three data blocks of two bytes; a file that ends inside a  *)
(* block, one that fills its block and is shorter than the number of data    *)
(* blocks, and an empty one.                                                 *)
EXTENDS FileStream

MCIno == {1, 2, 3}
MCSize == <<5, 2, 0>>
MCBlocks == << <<2, 0, 1, 9>>, <<1, 0, 0, 0>>, <<0, 0, 0, 0>> >>
=============================================================================
