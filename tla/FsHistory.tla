----------------------------- MODULE FsHistory -----------------------------
(***************************************************************************)
(* FsCache.tla with a record of what programs have written, kept apart     *)
(* from buffers, inode table and disk: nothing the caches do can change    *)
(* it, and it changes nothing the caches do.                               *)
(***************************************************************************)
EXTENDS FsCache

VARIABLE written       \* the last value written to each cell

hvars == <<vars, written>>

HistInit == Init /\ written = [c \in Cells |-> Zero]

(* The step of file_write that stores, with the inode when the file has    *)
(* grown; the step of new_block that clears.                               *)
Record ==
    written' =
        IF At("store")
        THEN [c \in Cells |-> IF c = Top.b \/ (c = Owner[Top.b] /\ inode' # inode)
                              THEN Top.v ELSE written[c]]
        ELSE IF At("clear") THEN [written EXCEPT ![Top.b] = Zero]
        ELSE written

HistNext == Next /\ Record

HistSpec == HistInit /\ [][HistNext]_hvars

(* A call that has begun goes on until it returns.                         *)
FairSpec == HistSpec /\ WF_hvars(Step /\ Record)
-----------------------------------------------------------------------------
(* The block handed to file_read, and every inode that is open, are what   *)
(* was last written to them, however often the buffer or the slot was      *)
(* given to others in between.                                             *)
ReadsAreCurrent ==
    /\ At("copied") => buf[ret].data[Top.b] = written[Top.b]
    /\ \A s \in Slots :
          inode[s].num # NoBlock /\ inode[s].count > 0 /\ ~Loading(s) =>
              inode[s].val = written[inode[s].num]

(* When sync returns, the disk holds the last value written to every cell. *)
SyncIsDurable == [][At("sync_buffers") => disk' = written]_hvars
=============================================================================
