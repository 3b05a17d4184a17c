----------------------------- MODULE MCFsCache -----------------------------
(* A cache of two buffers over a disk with more blocks than that.          *)
EXTENDS FsHistory

TwoInos     == {"i", "j"}
SameBlock   == [i \in TwoInos |-> "t"]
OtherBlocks == [i \in TwoInos |-> IF i = "i" THEN "t" ELSE "u"]

(* Both blocks of one file, or one of each.                                *)
TwoBlocks   == {"a", "b"}
OneOwner    == [b \in TwoBlocks |-> "i"]
OwnerEach   == [b \in TwoBlocks |-> IF b = "a" THEN "i" ELSE "j"]
=============================================================================
