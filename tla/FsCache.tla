------------------------------ MODULE FsCache ------------------------------
(***************************************************************************)
(* The block and inode caches of the file system: fs/buffer.c and the      *)
(* cache half of fs/inode.c, over the synchronous disk of ll_rw_blk.c and  *)
(* symdisk.c.                                                              *)
(*                                                                         *)
(* Only one process is ever inside the kernel, so a call runs to its end   *)
(* before the next begins; but the functions call each other in circles    *)
(* (getblk -> sync_dev -> sync_inodes -> write_inode -> bread -> getblk),  *)
(* so the model has a call stack.  One action is the code between two      *)
(* calls.  A transfer locks its buffer and unlocks it before ll_rw_block   *)
(* returns, so b_lock is never seen set.  sleep_on cannot switch tasks in  *)
(* this port (switch_to is empty): a wait for a lock spins.                *)
(*                                                                         *)
(* Blocks hold cells: a data block one, an inode block one per inode.      *)
(***************************************************************************)
EXTENDS Integers, Sequences, FiniteSets, SequencesExt

CONSTANTS
    NBuffers,      \* NR_BUFFERS, about 490 in the code
    NInodes,       \* NR_INODE: 32 in the code
    DataBlocks,    \* blocks of files
    Inos,          \* inode numbers
    InodeBlock,    \* the block that holds an inode
    Owner,         \* the file a data block belongs to
    Val, Zero,     \* contents of a cell, contents of a new block
    Junk,          \* what is left in a buffer by the block before
    NoBlock,       \* a buffer not yet used, an inode slot not in use
    MaxOpen        \* bound on the references to one inode

Blocks == DataBlocks \cup {InodeBlock[i] : i \in Inos}
Cells  == DataBlocks \cup Inos
Buffers == 1..NBuffers
Slots   == 1..NInodes

BlockOf(c) == IF c \in Inos THEN InodeBlock[c] ELSE c

FirstOf(K) == CHOOSE k \in K : \A l \in K : k <= l

ASSUME CacheAssumption ==
    /\ NBuffers \in Nat /\ NBuffers > 1
    /\ NInodes \in Nat /\ NInodes > 0
    /\ MaxOpen \in Nat
    /\ Zero \in Val /\ Junk \notin Val
    /\ DataBlocks \cap Inos = {}
    /\ Owner \in [DataBlocks -> Inos]
    /\ DataBlocks \cap {InodeBlock[i] : i \in Inos} = {}
    /\ NoBlock \notin Blocks \cup Inos

VARIABLES
    disk,          \* [Cells -> Val]
    buf,           \* the buffer heads: blk, data, count, dirt, uptodate
    free,          \* the free list from free_list on; every buffer is on it
    inode,         \* inode_table: num, count, dirt, lock, val
    last_inode,    \* where get_empty_inode stopped
    stack, ret     \* call stack, its top first; value returned last

vars == <<disk, buf, free, inode, last_inode, stack, ret>>

(* A frame: where it goes on (pc), its block b, its inode slot s, a buffer *)
(* or a value v.                                                           *)
Frame(pc, b, s, v) == [pc |-> pc, b |-> b, s |-> s, v |-> v]
Top == Head(stack)
At(pc) == stack # <<>> /\ Top.pc = pc

Goto(pc)       == stack' = <<[Top EXCEPT !.pc = pc]>> \o Tail(stack)
Invoke(f, pc)  == stack' = <<f, [Top EXCEPT !.pc = pc]>> \o Tail(stack)
Return(r)      == stack' = Tail(stack) /\ ret' = IF Len(stack) > 1 THEN r ELSE 0

bread(b)       == Frame("bread", b, 0, 0)
getblk(b)      == Frame("getblk", b, 0, 0)
sync_dev       == Frame("sync_dev", NoBlock, 0, 0)
sync_inodes    == Frame("sync_inodes", NoBlock, 1, 0)
write_inode(s) == Frame("write_inode", NoBlock, s, 0)
read_inode(s)  == Frame("read_inode", NoBlock, s, 0)

(***************************************************************************)
(* buffer.c                                                                *)
(***************************************************************************)
find_buffer(b) == {v \in Buffers : buf[v].blk = b}

(* Places on the free list.  The victim: the first clean unused buffer,    *)
(* else the first dirty one.                                               *)
Unused == {k \in 1..Len(free) : buf[free[k]].count = 0}
UnusedClean == {k \in Unused : ~buf[free[k]].dirt}
HasVictim == Unused # {}
Victim == free[FirstOf(IF UnusedClean # {} THEN UnusedClean ELSE Unused)]

GetblkHit ==
    /\ At("getblk")
    /\ \E v \in find_buffer(Top.b) :
          buf' = [buf EXCEPT ![v].count = @ + 1] /\ Return(v)
    /\ UNCHANGED <<disk, free, inode, last_inode>>

GetblkMiss ==
    /\ At("getblk")
    /\ find_buffer(Top.b) = {} /\ HasVictim
    /\ stack' = <<[Top EXCEPT !.pc = "victim", !.v = Victim]>> \o Tail(stack)
    /\ UNCHANGED <<disk, buf, free, inode, last_inode, ret>>

GetblkSync ==
    /\ At("victim") /\ buf[Top.v].dirt
    /\ Invoke(sync_dev, "synced")
    /\ UNCHANGED <<disk, buf, free, inode, last_inode, ret>>

(* After the sync the victim may be in use, or the block in the cache.     *)
GetblkSynced ==
    /\ At("synced")
    /\ Goto(IF buf[Top.v].count > 0 THEN "getblk" ELSE "victim")
    /\ UNCHANGED <<disk, buf, free, inode, last_inode, ret>>

PlaceOf(v) == CHOOSE k \in 1..Len(free) : free[k] = v
Requeued(v) == Append(RemoveAt(free, PlaceOf(v)), v)

(* Mutant: the buffer keeps b_uptodate.                                    *)
ClaimedUptodate(v, b) ==
    [buf EXCEPT ![v] = [@ EXCEPT !.blk = b, !.count = 1, !.dirt = FALSE]]

Claimed(v, b) ==
    [buf EXCEPT ![v] = [blk |-> b, data |-> [c \in Cells |-> Junk],
                        count |-> 1, dirt |-> FALSE, uptodate |-> FALSE]]

(* Mutant: the buffer is taken although it has not been written.           *)
GetblkTakeDirty ==
    /\ At("victim") /\ find_buffer(Top.b) = {}
    /\ buf' = Claimed(Top.v, Top.b)
    /\ free' = Requeued(Top.v)
    /\ Return(Top.v)
    /\ UNCHANGED <<disk, inode, last_inode>>

GetblkTake ==
    /\ At("victim") /\ ~buf[Top.v].dirt
    /\ IF find_buffer(Top.b) # {}
       THEN /\ Goto("getblk")
            /\ UNCHANGED <<buf, free, ret>>
       ELSE /\ buf' = Claimed(Top.v, Top.b)
            /\ free' = Requeued(Top.v)
            /\ Return(Top.v)
    /\ UNCHANGED <<disk, inode, last_inode>>

Getblk == GetblkHit \/ GetblkMiss \/ GetblkSync \/ GetblkSynced \/ GetblkTake

BreadCall ==
    /\ At("bread")
    /\ Invoke(getblk(Top.b), "bread_got")
    /\ UNCHANGED <<disk, buf, free, inode, last_inode, ret>>

(* ll_rw_block(READ): a buffer that is up to date is not read again.       *)
Read(v) == [buf EXCEPT ![v] = [@ EXCEPT
    !.data = [c \in Cells |-> IF BlockOf(c) = buf[v].blk THEN disk[c] ELSE Junk],
    !.uptodate = TRUE]]

BreadGot ==
    /\ At("bread_got")
    /\ buf' = IF buf[ret].uptodate THEN buf ELSE Read(ret)
    /\ Return(ret)
    /\ UNCHANGED <<disk, free, inode, last_inode>>

(* Write every dirty buffer: a pass of sync_dev or of sys_sync.            *)
Dirty(c) == {v \in Buffers : buf[v].dirt /\ buf[v].blk = BlockOf(c)}

Flush ==
    /\ disk' = [c \in Cells |->
                  IF Dirty(c) = {} THEN disk[c] ELSE buf[CHOOSE v \in Dirty(c) : TRUE].data[c]]
    /\ buf' = [v \in Buffers |->
                  [buf[v] EXCEPT !.dirt = FALSE, !.uptodate = @ \/ buf[v].dirt]]

SyncDev ==
    \/ /\ At("sync_dev")
       /\ Flush
       /\ Invoke(sync_inodes, "sync_again")
       /\ UNCHANGED <<free, inode, last_inode, ret>>
    \/ /\ At("sync_again")
       /\ Flush
       /\ Return(0)
       /\ UNCHANGED <<free, inode, last_inode>>

(***************************************************************************)
(* inode.c                                                                 *)
(***************************************************************************)

(* Mutant: inodes in use are left for iput to write.                       *)
StopsUnused ==
    {s \in Slots : s >= Top.s /\ inode[s].count = 0 /\ (inode[s].lock \/ inode[s].dirt)}

(* sync_inodes stops at every inode that is locked or dirty.               *)
Stops == {s \in Slots : s >= Top.s /\ (inode[s].lock \/ inode[s].dirt)}
NextStop == FirstOf(Stops)

SyncInodes ==
    /\ At("sync_inodes")
    /\ \/ Stops = {} /\ Return(0)
       \/ /\ Stops # {} /\ ~inode[NextStop].lock
          /\ stack' = <<write_inode(NextStop), [Top EXCEPT !.s = NextStop + 1]>> \o Tail(stack)
          /\ UNCHANGED ret
    /\ UNCHANGED <<disk, buf, free, inode, last_inode>>

(* Mutant: the buffer is never released.                                   *)
brelseNever(v) == buf

brelse(v) == [buf EXCEPT ![v].count = @ - 1]

WriteInode ==
    /\ At("write_inode") /\ ~inode[Top.s].lock
    /\ \/ /\ ~inode[Top.s].dirt \/ inode[Top.s].num = NoBlock
          /\ Return(0)
          /\ UNCHANGED inode
       \/ /\ inode[Top.s].dirt /\ inode[Top.s].num # NoBlock
          /\ inode' = [inode EXCEPT ![Top.s].lock = TRUE]
          /\ Invoke(bread(InodeBlock[inode[Top.s].num]), "encode")
          /\ UNCHANGED ret
    /\ UNCHANGED <<disk, buf, free, last_inode>>

Encode ==
    /\ At("encode")
    /\ LET s == Top.s IN
       /\ buf' = [buf EXCEPT ![ret] = [buf[ret] EXCEPT
                    !.data[inode[s].num] = inode[s].val, !.dirt = TRUE, !.count = @ - 1]]
       /\ inode' = [inode EXCEPT ![s] = [@ EXCEPT !.dirt = FALSE, !.lock = FALSE]]
    /\ Return(0)
    /\ UNCHANGED <<disk, free, last_inode>>

ReadInode ==
    /\ At("read_inode") /\ ~inode[Top.s].lock
    /\ inode' = [inode EXCEPT ![Top.s].lock = TRUE]
    /\ Invoke(bread(InodeBlock[inode[Top.s].num]), "decode")
    /\ UNCHANGED <<disk, buf, free, last_inode, ret>>

Decode ==
    /\ At("decode")
    /\ inode' = [inode EXCEPT ![Top.s] = [@ EXCEPT
                    !.val = buf[ret].data[inode[Top.s].num], !.lock = FALSE]]
    /\ buf' = brelse(ret)
    /\ Return(0)
    /\ UNCHANGED <<disk, free, last_inode>>

(* get_empty_inode: from last_inode round the table to the first slot that *)
(* is unused and clean, else the last one met that is unused.              *)
Order(s) == (s - last_inode - 1 + NInodes) % NInodes
UnusedInodes == {s \in Slots : inode[s].count = 0}
CleanInodes  == {s \in UnusedInodes : ~inode[s].dirt /\ ~inode[s].lock}
EmptySlot ==
    IF CleanInodes # {}
    THEN CHOOSE s \in CleanInodes : \A t \in CleanInodes : Order(s) <= Order(t)
    ELSE CHOOSE s \in UnusedInodes : \A t \in UnusedInodes : Order(s) >= Order(t)

NewSlot == [num |-> NoBlock, count |-> 1, dirt |-> FALSE, lock |-> FALSE, val |-> Zero]

GetEmptyInode ==
    \/ /\ At("iget") /\ UnusedInodes # {}
       /\ last_inode' = IF CleanInodes # {} THEN EmptySlot ELSE last_inode
       /\ stack' = <<[Top EXCEPT !.pc = "empty", !.s = EmptySlot]>> \o Tail(stack)
       /\ UNCHANGED <<disk, buf, free, inode, ret>>
    \/ /\ At("empty") /\ ~inode[Top.s].lock
       /\ \/ /\ inode[Top.s].dirt
             /\ Invoke(write_inode(Top.s), "empty")
             /\ UNCHANGED inode
          \/ /\ ~inode[Top.s].dirt /\ inode[Top.s].count > 0
             /\ Goto("iget")
             /\ UNCHANGED inode
          \/ /\ ~inode[Top.s].dirt /\ inode[Top.s].count = 0
             /\ inode' = [inode EXCEPT ![Top.s] = NewSlot]
             /\ Goto("search")
       /\ UNCHANGED <<disk, buf, free, last_inode, ret>>

(* Mutant: only slots in use are searched, as a new one will be read.      *)
HoldingInUse(i) == {s \in Slots : inode[s].num = i /\ inode[s].count > 0}

Holding(i) == {s \in Slots : inode[s].num = i}

(* iget: an inode already in the table is shared, otherwise it is read     *)
(* into the empty slot.                                                    *)
Iget ==
    \/ /\ At("search")
       /\ \E s \in Holding(Top.b) :
             /\ ~inode[s].lock
             /\ inode' = [inode EXCEPT ![s].count = @ + 1, ![Top.s].count = @ - 1]
             /\ Return(s)
       /\ UNCHANGED <<disk, buf, free, last_inode>>
    \/ /\ At("search") /\ Holding(Top.b) = {}
       /\ inode' = [inode EXCEPT ![Top.s].num = Top.b]
       /\ Invoke(read_inode(Top.s), "loaded")
       /\ UNCHANGED <<disk, buf, free, last_inode, ret>>
    \/ /\ At("loaded")
       /\ Return(Top.s)
       /\ UNCHANGED <<disk, buf, free, inode, last_inode>>

(* iput of a linked file: the last reference writes a dirty inode back.    *)
Iput ==
    /\ At("iput") /\ ~inode[Top.s].lock
    /\ \/ /\ inode[Top.s].count > 1 \/ ~inode[Top.s].dirt
          /\ inode' = [inode EXCEPT ![Top.s].count = @ - 1]
          /\ Return(0)
       \/ /\ inode[Top.s].count = 1 /\ inode[Top.s].dirt
          /\ Invoke(write_inode(Top.s), "iput")
          /\ UNCHANGED <<inode, ret>>
    /\ UNCHANGED <<disk, buf, free, last_inode>>

(***************************************************************************)
(* The calls of the file system above, each on an idle kernel.             *)
(***************************************************************************)
Begin(f) ==
    /\ stack = <<>>
    /\ stack' = <<f>>
    /\ UNCHANGED <<disk, buf, free, inode, last_inode, ret>>

Open(i) ==
    /\ \A s \in Holding(i) : inode[s].count < MaxOpen                   \* bound
    /\ Begin(Frame("iget", i, 0, 0))
Close(s)       == inode[s].count > 0 /\ Begin(Frame("iput", NoBlock, s, 0))
UsedBy(s, b)   == inode[s].count > 0 /\ inode[s].num = Owner[b]
FileRead(s, b) == UsedBy(s, b) /\ Begin(Frame("file_read", b, s, 0))
FileWrite(s, b, v) == UsedBy(s, b) /\ Begin(Frame("file_write", b, s, v))
NewBlock(s, b) == UsedBy(s, b) /\ Begin(Frame("new_block", b, s, 0))
Sync           == Begin(Frame("sync", NoBlock, 0, 0))

FileReadStep ==
    \/ /\ At("file_read")
       /\ Invoke(bread(Top.b), "copied")
       /\ UNCHANGED <<disk, buf, free, inode, last_inode, ret>>
    \/ /\ At("copied")
       /\ buf' = brelse(ret) /\ Return(0)
       /\ UNCHANGED <<disk, free, inode, last_inode>>

(* file_write: the block, and the inode when the file has grown.           *)
FileWriteStep ==
    \/ /\ At("file_write")
       /\ Invoke(bread(Top.b), "store")
       /\ UNCHANGED <<disk, buf, free, inode, last_inode, ret>>
    \/ /\ At("store")
       /\ buf' = [buf EXCEPT ![ret] = [buf[ret] EXCEPT
                     !.data[Top.b] = Top.v, !.dirt = TRUE, !.count = @ - 1]]
       /\ \/ UNCHANGED inode
          \/ inode' = [inode EXCEPT ![Top.s] = [@ EXCEPT !.val = Top.v, !.dirt = TRUE]]
       /\ Return(0)
       /\ UNCHANGED <<disk, free, last_inode>>

(* new_block: the block is not read but cleared.                           *)
NewBlockStep ==
    \/ /\ At("new_block")
       /\ Invoke(getblk(Top.b), "clear")
       /\ UNCHANGED <<disk, buf, free, inode, last_inode, ret>>
    \/ /\ At("clear")
       /\ buf' = [buf EXCEPT ![ret] = [buf[ret] EXCEPT
                     !.data[Top.b] = Zero, !.uptodate = TRUE, !.dirt = TRUE, !.count = @ - 1]]
       /\ Return(0)
       /\ UNCHANGED <<disk, free, inode, last_inode>>

SysSync ==
    \/ /\ At("sync")
       /\ Invoke(sync_inodes, "sync_buffers")
       /\ UNCHANGED <<disk, buf, free, inode, last_inode, ret>>
    \/ /\ At("sync_buffers")
       /\ Flush /\ Return(0)
       /\ UNCHANGED <<free, inode, last_inode>>

(* Waiting for a lock, for a buffer, or halted for want of an inode: no    *)
(* other process can run, so nothing will ever change.                     *)
Waiting ==
    \/ At("getblk") /\ find_buffer(Top.b) = {} /\ ~HasVictim
    \/ At("sync_inodes") /\ Stops # {} /\ inode[NextStop].lock
    \/ \E pc \in {"write_inode", "read_inode", "empty", "iput"} : At(pc) /\ inode[Top.s].lock
    \/ At("search") /\ \E s \in Holding(Top.b) : inode[s].lock
    \/ At("iget") /\ UnusedInodes = {}

Spin == Waiting /\ UNCHANGED vars

Step ==
    \/ Getblk \/ BreadCall \/ BreadGot \/ SyncDev \/ SyncInodes \/ WriteInode \/ Encode
    \/ ReadInode \/ Decode \/ GetEmptyInode \/ Iget \/ Iput
    \/ FileReadStep \/ FileWriteStep \/ NewBlockStep \/ SysSync

(* buffer_init and an empty inode table.                                   *)
Init ==
    /\ disk = [c \in Cells |-> Zero]
    /\ buf = [v \in Buffers |-> [blk |-> NoBlock, data |-> [c \in Cells |-> Junk],
                                 count |-> 0, dirt |-> FALSE, uptodate |-> FALSE]]
    /\ free = [v \in Buffers |-> v]
    /\ inode = [s \in Slots |-> [NewSlot EXCEPT !.count = 0]]
    /\ last_inode = 1
    /\ stack = <<>> /\ ret = 0

Calls ==
    \/ \E i \in Inos : Open(i)
    \/ \E s \in Slots : Close(s)
    \/ \E s \in Slots, b \in DataBlocks :
          FileRead(s, b) \/ NewBlock(s, b) \/ \E v \in Val : FileWrite(s, b, v)
    \/ Sync

Next == Step \/ Calls \/ Spin

Spec == Init /\ [][Next]_vars
-----------------------------------------------------------------------------
TypeOK ==
    /\ disk \in [Cells -> Val]
    /\ buf \in [Buffers -> [blk : Blocks \cup {NoBlock}, data : [Cells -> Val \cup {Junk}],
                            count : Nat, dirt : BOOLEAN, uptodate : BOOLEAN]]
    /\ free \in Seq(Buffers)
    /\ inode \in [Slots -> [num : Inos \cup {NoBlock}, count : Nat, dirt : BOOLEAN,
                            lock : BOOLEAN, val : Val]]
    /\ last_inode \in Slots

(* A block is in at most one buffer and an inode in at most one slot, even *)
(* when finding room for it ran through the caches again; and the free     *)
(* list holds every buffer once.                                           *)
NoDuplicates ==
    /\ TypeOK
    /\ \A v, w \in Buffers : buf[v].blk = buf[w].blk /\ buf[v].blk # NoBlock => v = w
    /\ \A s, t \in Slots : inode[s].num = inode[t].num /\ inode[s].num # NoBlock => s = t
    /\ Len(free) = NBuffers /\ \A v \in Buffers : \E k \in 1..NBuffers : free[k] = v

(* Between calls nothing is held: no buffer is in use, no inode locked,    *)
(* and an inode without references has been written back.                  *)
NothingHeldAtRest ==
    stack = <<>> =>
        /\ \A v \in Buffers : buf[v].count = 0
        /\ \A s \in Slots : ~inode[s].lock /\ (inode[s].dirt => inode[s].count > 0)

(* The contents as programs see them: the inode table over the buffers     *)
(* over the disk.                                                          *)
Loading(s) == \E k \in 1..Len(stack) :
    stack[k].pc \in {"read_inode", "decode"} /\ stack[k].s = s
Loaded(c) == {s \in Slots : inode[s].num = c /\ ~Loading(s)}
Cached(c) == {v \in Buffers : buf[v].blk = BlockOf(c) /\ buf[v].uptodate}

store == [c \in Cells |->
    IF c \in Inos /\ Loaded(c) # {} THEN inode[CHOOSE s \in Loaded(c) : TRUE].val
    ELSE IF Cached(c) # {} THEN buf[CHOOSE v \in Cached(c) : TRUE].data[c]
    ELSE disk[c]]

(* What the program has asked for: the call at the bottom of the stack.    *)
Asked(f) ==
    CASE f.pc \in {"file_read", "copied"} -> [op |-> "read", b |-> f.b]
      [] f.pc \in {"file_write", "store"} -> [op |-> "write", b |-> f.b, v |-> f.v]
      [] f.pc \in {"new_block", "clear"} -> [op |-> "clear", b |-> f.b]
      [] OTHER -> [op |-> "other"]
request == IF stack = <<>> THEN [op |-> "none"] ELSE Asked(Last(stack))
answer  == IF At("copied") THEN <<buf[ret].data[Top.b]>> ELSE <<>>

(* The caches are transparent: whatever is evicted, written back, read     *)
(* again or synced, the contents change only when a write that a program   *)
(* asked for is done, and a read gets the contents.                        *)
Store == INSTANCE FsStore
CacheIsTransparent == Store!Spec

(* README: running sync saves what was written.  Once it returns that is   *)
(* so; this says that sys_sync, once called, does return.                  *)
Syncing == stack # <<>> /\ Last(stack).pc \in {"sync", "sync_buffers"}
SyncReturns == Syncing ~> ~Syncing
=============================================================================
