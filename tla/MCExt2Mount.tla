---------------------------- MODULE MCExt2Mount ----------------------------
(***************************************************************************)
(* A small filesystem: a superblock with a backup, the descriptors of one  *)
(* group and two bitmaps, behind a cache too small for all of them.        *)
(***************************************************************************)
EXTENDS Ext2Mount

MCBlock    == 0..4
MCSupers   == <<0, 4>>
MCDescs    == <<1>>
MCUnit     == {"u", "v"}
MCBitmapOf == [x \in MCUnit |-> IF x = "u" THEN 2 ELSE 3]
MCValue    == [clean : BOOLEAN, n : SUBSET MCUnit]
MCZero     == [clean |-> FALSE, n |-> {}]
=============================================================================
