--------------------------- MODULE FsCacheProofs ---------------------------
(***************************************************************************)
(* Proofs about FsCache.tla for every number of buffers and inode slots,   *)
(* every set of blocks, inodes and values, and every placing of inodes in  *)
(* blocks.                                                                 *)
(*                                                                         *)
(* The functions of the caches call each other in circles, so the          *)
(* inductive invariant is about the call stack: what each frame may count  *)
(* on (FrameOK), which call may stand above which (CalledBy), and what the *)
(* frame on top knows besides (TopOK).  Everything else is about what the  *)
(* tables hold, and is stated for any stack.                               *)
(***************************************************************************)
EXTENDS FsHistory, TLAPS, SequenceTheorems, WellFoundedInduction

(* The program counters, by what their frame is busy with.                 *)
GetblkPcs == {"getblk", "victim", "synced"}
BreadPcs  == {"bread", "bread_got"}
SyncPcs   == {"sync_dev", "sync_again"}
WritePcs  == {"write_inode", "encode"}
LoadPcs   == {"read_inode", "decode"}
IgetPcs   == {"iget", "empty", "search", "loaded"}
WriterPcs == {"file_write", "store"}
FilePcs   == {"file_read", "copied", "new_block", "clear"} \cup WriterPcs
CallPcs   == IgetPcs \cup FilePcs \cup {"iput", "sync", "sync_buffers"}
InnerPcs  == GetblkPcs \cup BreadPcs \cup SyncPcs \cup WritePcs \cup LoadPcs \cup {"sync_inodes"}

(* These lock their inode, or will fill it.                                *)
BusyPcs == {"encode"} \cup LoadPcs

(* On top of the stack these hold the buffer just returned to them.        *)
ReadPcs   == {"encode", "decode", "copied", "store"}
HoldPcs   == ReadPcs \cup {"bread_got", "clear"}

FrameSet == [pc : InnerPcs \cup CallPcs, b : Blocks \cup Inos \cup {NoBlock},
             s : Nat, v : Nat \cup Val]

(* What a frame may count on, wherever it is in the stack.                 *)
FrameOK(f) ==
    /\ f.pc \in GetblkPcs \cup BreadPcs => f.b \in Blocks
    /\ f.pc \in {"victim", "synced"} => f.v \in Buffers
    /\ f.pc \in FilePcs => f.b \in DataBlocks /\ f.s \in Slots /\ UsedBy(f.s, f.b)
    /\ f.pc \in WriterPcs => f.v \in Val
    /\ f.pc \in IgetPcs => f.b \in Inos
    /\ f.pc \in {"empty", "search", "loaded", "iput"} \cup WritePcs \cup LoadPcs => f.s \in Slots
    /\ f.pc = "search" => inode[f.s].num = NoBlock /\ inode[f.s].count > 0 /\ ~inode[f.s].dirt
    /\ f.pc = "loaded" => inode[f.s].num = f.b
    /\ f.pc \in LoadPcs => inode[f.s].num \in Inos /\ ~inode[f.s].dirt
    /\ f.pc = "encode" => inode[f.s].num \in Inos
    /\ f.pc = "iput" => inode[f.s].count > 0
    /\ f.pc = "sync_inodes" => f.s \in 1..(NInodes + 1)

(* The block of the buffer that frame g is given.                          *)
Wanted(g) == IF g.pc \in {"encode", "decode"} THEN InodeBlock[inode[g.s].num] ELSE g.b

(* Frame f was called by frame g.                                          *)
CalledBy(f, g) ==
    \/ f.pc \in GetblkPcs /\ g.pc \in {"bread_got", "clear"} /\ f.b = Wanted(g)
    \/ f.pc \in BreadPcs /\ g.pc \in ReadPcs /\ f.b = Wanted(g)
    \/ f.pc \in SyncPcs /\ g.pc = "synced"
    \/ f.pc = "sync_inodes" /\ g.pc \in {"sync_again", "sync_buffers"}
    \/ f.pc \in WritePcs /\ g.pc \in {"empty", "iput"}
    \/ /\ f.pc \in WritePcs /\ g.pc = "sync_inodes"
       /\ \A t \in Slots : t < g.s /\ t # f.s => ~inode[t].dirt
    \/ f.pc \in LoadPcs /\ g.pc = "loaded" /\ f.s = g.s

StackOK ==
    /\ stack \in Seq(FrameSet)
    /\ \A k \in 1..Len(stack) : FrameOK(stack[k])
    /\ \A k \in 1..(Len(stack) - 1) : CalledBy(stack[k], stack[k + 1])
    /\ stack # <<>> => stack[Len(stack)].pc \in CallPcs

(* What the frame on top knows besides: sync_inodes has cleaned the slots  *)
(* it has passed, and a buffer just returned is the one asked for.         *)
TopOK ==
    /\ At("sync_inodes") => \A t \in Slots : t < Top.s => ~inode[t].dirt
    /\ At("sync_buffers") => \A t \in Slots : ~inode[t].dirt
    /\ stack # <<>> /\ Top.pc \in HoldPcs =>
          /\ ret \in Buffers
          /\ buf[ret].blk = Wanted(Top)
          /\ Top.pc \in ReadPcs => buf[ret].uptodate

(* A buffer is in use only between its return and the step after.          *)
InUse(v) == stack # <<>> /\ Top.pc \in HoldPcs /\ v = ret
CountsOK == \A v \in Buffers : buf[v].count = IF InUse(v) THEN 1 ELSE 0

Frames == {stack[k] : k \in 1..Len(stack)}

(* A locked inode is being encoded or decoded, and none is written while   *)
(* it is being read.                                                       *)
Busy == {f \in Frames : f.pc \in BusyPcs}
LocksOK ==
    /\ \A s \in Slots : inode[s].lock => \E f \in Busy : f.pc # "read_inode" /\ f.s = s
    /\ \A f, g \in Busy : f.pc = "encode" /\ g.pc \in LoadPcs => f.s # g.s

FreeOK == Len(free) = NBuffers /\ \A v \in Buffers : \E k \in 1..NBuffers : free[k] = v

(* A buffer says of its block what the disk says, unless it is dirty.      *)
BuffersOK ==
    /\ \A v, w \in Buffers : buf[v].blk = buf[w].blk /\ buf[v].blk # NoBlock => v = w
    /\ \A v \in Buffers : buf[v].dirt => buf[v].uptodate /\ buf[v].blk # NoBlock
    /\ \A v \in Buffers : buf[v].uptodate =>
          \A c \in Cells : BlockOf(c) = buf[v].blk =>
              /\ buf[v].data[c] \in Val
              /\ ~buf[v].dirt => buf[v].data[c] = disk[c]

(* The value of a cell below the inode table.                              *)
Under(c) == IF Cached(c) # {} THEN buf[CHOOSE v \in Cached(c) : TRUE].data[c] ELSE disk[c]

(* An inode in the table says what the buffers and the disk say, unless it *)
(* is dirty or not yet read; and it is dirty only while it is open.        *)
InodesOK ==
    /\ \A s, t \in Slots : inode[s].num = inode[t].num /\ inode[s].num # NoBlock => s = t
    /\ \A s \in Slots : inode[s].dirt => inode[s].num # NoBlock /\ inode[s].count > 0
    /\ \A s \in Slots : inode[s].num # NoBlock /\ ~inode[s].dirt /\ ~Loading(s) =>
          inode[s].val = Under(inode[s].num)

Inv ==
    /\ TypeOK /\ StackOK /\ TopOK /\ CountsOK /\ LocksOK
    /\ FreeOK /\ BuffersOK /\ InodesOK
-----------------------------------------------------------------------------
(* Popping, replacing the top and pushing, place by place.                 *)
LEMMA PopPlaces ==
    ASSUME NEW S, NEW q \in Seq(S), q # <<>>
    PROVE  /\ Tail(q) \in Seq(S) /\ Len(q) \in Nat \ {0} /\ Head(q) = q[1]
           /\ \A k \in 1..Len(q) : q[k] \in S
           /\ Len(Tail(q)) = Len(q) - 1
           /\ \A k \in 1..(Len(q) - 1) : Tail(q)[k] = q[k + 1]
  BY HeadTailProperties, EmptySeq, LenProperties, ElementOfSeq

LEMMA SecondPlace ==
    ASSUME NEW S, NEW q \in Seq(S), q # <<>>
    PROVE  /\ Len(q) = 1 => Tail(q) = <<>>
           /\ Len(q) > 1 => Tail(q) # <<>> /\ Head(Tail(q)) = q[2]
<1> DEFINE r == Tail(q)
<1>1. /\ r \in Seq(S) /\ Len(q) \in Nat /\ Len(r) = Len(q) - 1
      /\ \A k \in 1..(Len(q) - 1) : r[k] = q[k + 1]
  BY PopPlaces
<1> HIDE DEF r
<1>2. (r = <<>>) <=> (Len(r) = 0)
  BY <1>1, EmptySeq
<1>3. ASSUME Len(q) > 1
      PROVE  r # <<>> /\ Head(r) = q[2]
  <2>1. Len(r) # 0 /\ 1 \in 1..(Len(q) - 1)
    BY <1>1, <1>3
  <2>2. r # <<>> /\ r[1] = q[1 + 1]
    BY <1>1, <1>2, <2>1
  <2> QED
    BY <1>1, <2>2, PopPlaces
<1>4. ASSUME Len(q) = 1
      PROVE  r = <<>>
  BY <1>1, <1>2, <1>4
<1> QED
  BY <1>3, <1>4 DEF r

LEMMA ReplacePlaces ==
    ASSUME NEW S, NEW q \in Seq(S), q # <<>>, NEW h \in S
    PROVE  /\ <<h>> \o Tail(q) \in Seq(S)
           /\ Len(<<h>> \o Tail(q)) = Len(q)
           /\ (<<h>> \o Tail(q))[1] = h
           /\ \A k \in 2..Len(q) : (<<h>> \o Tail(q))[k] = q[k]
<1>1. <<h>> \in Seq(S) /\ Len(<<h>>) = 1 /\ <<h>>[1] = h
  OBVIOUS
<1>2. /\ Tail(q) \in Seq(S) /\ Len(q) \in Nat \ {0}
      /\ Len(Tail(q)) = Len(q) - 1
      /\ \A k \in 1..(Len(q) - 1) : Tail(q)[k] = q[k + 1]
  BY PopPlaces
<1> QED
  BY <1>1, <1>2, ConcatProperties

LEMMA PushPlaces ==
    ASSUME NEW S, NEW q \in Seq(S), q # <<>>, NEW f \in S, NEW h \in S
    PROVE  /\ <<f, h>> \o Tail(q) \in Seq(S)
           /\ Len(<<f, h>> \o Tail(q)) = Len(q) + 1
           /\ (<<f, h>> \o Tail(q))[1] = f
           /\ (<<f, h>> \o Tail(q))[2] = h
           /\ \A k \in 3..(Len(q) + 1) : (<<f, h>> \o Tail(q))[k] = q[k - 1]
<1>1. <<f, h>> \in Seq(S) /\ Len(<<f, h>>) = 2 /\ <<f, h>>[1] = f /\ <<f, h>>[2] = h
  OBVIOUS
<1>2. /\ Tail(q) \in Seq(S) /\ Len(q) \in Nat \ {0}
      /\ Len(Tail(q)) = Len(q) - 1
      /\ \A k \in 1..(Len(q) - 1) : Tail(q)[k] = q[k + 1]
  BY PopPlaces
<1> QED
  BY <1>1, <1>2, ConcatProperties

(* Only references and dirt can disturb what frames count on.              *)
Steady == \A s \in Slots :
    /\ inode'[s].num = inode[s].num
    /\ inode'[s].count = inode[s].count
    /\ inode'[s].dirt => inode[s].dirt

LEMMA SteadyFrames ==
    ASSUME Steady, NEW f \in FrameSet, FrameOK(f)
    PROVE  FrameOK(f)'
  BY DEF Steady, FrameOK, UsedBy, LoadPcs, WritePcs

LEMMA SteadyCalls ==
    ASSUME Steady, NEW f \in FrameSet, NEW g \in FrameSet, CalledBy(f, g), FrameOK(g)
    PROVE  CalledBy(f, g)'
  BY DEF Steady, CalledBy, Wanted, FrameOK, LoadPcs, WritePcs

(* The three moves of the stack keep it well formed.                       *)
Inherits(h) == \A g \in FrameSet : CalledBy(Top, g) => CalledBy(h, g)

LEMMA PopStack ==
    ASSUME StackOK, stack # <<>>, Steady, stack' = Tail(stack)
    PROVE  StackOK'
<1>1. /\ Tail(stack) \in Seq(FrameSet) /\ Len(stack) \in Nat \ {0}
      /\ \A k \in 1..Len(stack) : stack[k] \in FrameSet
      /\ Len(Tail(stack)) = Len(stack) - 1
      /\ \A k \in 1..(Len(stack) - 1) : Tail(stack)[k] = stack[k + 1]
  BY PopPlaces DEF StackOK
<1>2. ASSUME NEW k \in 1..Len(stack')
      PROVE  FrameOK(stack[k])'
  <2>1. stack'[k] = stack[k + 1] /\ k + 1 \in 1..Len(stack)
    BY <1>1
  <2> QED
    BY <1>1, <2>1, SteadyFrames DEF StackOK
<1>3. ASSUME NEW k \in 1..(Len(stack') - 1)
      PROVE  CalledBy(stack[k], stack[k + 1])'
  <2>1. /\ stack'[k] = stack[k + 1] /\ stack'[k + 1] = stack[k + 2]
        /\ k + 1 \in 1..(Len(stack) - 1) /\ k + 2 \in 1..Len(stack)
    BY <1>1
  <2>2. CalledBy(stack[k + 1], stack[(k + 1) + 1]) /\ FrameOK(stack[k + 2])
    BY <2>1 DEF StackOK
  <2>3. (k + 1) + 1 = k + 2 /\ stack[k + 1] \in FrameSet /\ stack[k + 2] \in FrameSet
    BY <1>1, <2>1
  <2> QED
    BY <2>1, <2>2, <2>3, SteadyCalls
<1>4. stack' # <<>> => stack'[Len(stack')].pc \in CallPcs
  BY <1>1, EmptySeq DEF StackOK
<1> QED
  BY <1>1, <1>2, <1>3, <1>4 DEF StackOK

LEMMA ReplaceStack ==
    ASSUME StackOK, stack # <<>>, Steady,
           NEW h \in FrameSet, FrameOK(h), Inherits(h), Top.pc \in CallPcs => h.pc \in CallPcs,
           stack' = <<h>> \o Tail(stack)
    PROVE  StackOK'
<1>1. /\ Len(stack) \in Nat \ {0} /\ Top = stack[1]
      /\ \A k \in 1..Len(stack) : stack[k] \in FrameSet
  BY PopPlaces DEF StackOK, Top
<1>2. /\ stack' \in Seq(FrameSet) /\ Len(stack') = Len(stack) /\ stack'[1] = h
      /\ \A k \in 2..Len(stack) : stack'[k] = stack[k]
  BY ReplacePlaces DEF StackOK
<1>3. ASSUME NEW k \in 1..Len(stack')
      PROVE  FrameOK(stack[k])'
  <2>1. k \in 1..Len(stack) /\ FrameOK(stack'[k]) /\ stack'[k] \in FrameSet
    BY <1>1, <1>2 DEF StackOK
  <2> QED
    BY <2>1, SteadyFrames
<1>4. ASSUME NEW k \in 1..(Len(stack') - 1)
      PROVE  CalledBy(stack[k], stack[k + 1])'
  <2>1. /\ k \in 1..(Len(stack) - 1) /\ k + 1 \in 2..Len(stack)
        /\ stack'[k + 1] = stack[k + 1] /\ stack[k + 1] \in FrameSet /\ stack'[k] \in FrameSet
    BY <1>1, <1>2
  <2>2. CalledBy(stack[k], stack[k + 1]) /\ FrameOK(stack[k + 1])
    BY <2>1 DEF StackOK
  <2>3. CalledBy(stack'[k], stack[k + 1])
    <3>1. CASE k = 1
      BY <1>1, <1>2, <2>1, <2>2, <3>1 DEF Inherits
    <3>2. CASE k # 1
      <4>1. stack'[k] = stack[k]
        BY <1>2, <2>1, <3>2
      <4> QED
        BY <2>2, <4>1
    <3> QED
      BY <3>1, <3>2
  <2> QED
    BY <2>1, <2>2, <2>3, SteadyCalls
<1>5. stack'[Len(stack')].pc \in CallPcs
  BY <1>1, <1>2 DEF StackOK
<1> QED
  BY <1>2, <1>3, <1>4, <1>5 DEF StackOK

LEMMA PushStack ==
    ASSUME StackOK, stack # <<>>, Steady,
           NEW f \in FrameSet, FrameOK(f),
           NEW h \in FrameSet, FrameOK(h), Inherits(h), Top.pc \in CallPcs => h.pc \in CallPcs,
           CalledBy(f, h), stack' = <<f, h>> \o Tail(stack)
    PROVE  StackOK'
<1>1. /\ Len(stack) \in Nat \ {0} /\ Top = stack[1]
      /\ \A k \in 1..Len(stack) : stack[k] \in FrameSet
  BY PopPlaces DEF StackOK, Top
<1>2. /\ stack' \in Seq(FrameSet) /\ Len(stack') = Len(stack) + 1
      /\ stack'[1] = f /\ stack'[2] = h
      /\ \A k \in 3..(Len(stack) + 1) : stack'[k] = stack[k - 1]
  BY PushPlaces DEF StackOK
<1>3. ASSUME NEW k \in 1..Len(stack')
      PROVE  FrameOK(stack'[k]) /\ stack'[k] \in FrameSet
  <2>1. k = 1 \/ k = 2 \/ (k \in 3..(Len(stack) + 1) /\ k - 1 \in 1..Len(stack))
    BY <1>1, <1>2
  <2> QED
    BY <1>1, <1>2, <2>1 DEF StackOK
<1>4. ASSUME NEW k \in 1..(Len(stack') - 1)
      PROVE  CalledBy(stack'[k], stack'[k + 1])
  <2>1. CASE k = 1
    BY <1>2, <2>1
  <2>2. CASE k = 2
    <3>1. 1 \in 1..(Len(stack) - 1) /\ 1 + 1 \in 1..Len(stack) /\ k + 1 \in 3..(Len(stack) + 1)
      BY <1>1, <1>2, <2>2
    <3>2. CalledBy(Top, stack[1 + 1]) /\ stack'[k + 1] = stack[1 + 1] /\ stack'[k] = h
      BY <1>1, <1>2, <2>2, <3>1 DEF StackOK
    <3> QED
      BY <1>1, <3>1, <3>2 DEF Inherits
  <2>3. CASE k > 2
    <3>1. /\ k \in 3..(Len(stack) + 1) /\ k + 1 \in 3..(Len(stack) + 1)
          /\ k - 1 \in 1..(Len(stack) - 1) /\ (k - 1) + 1 = k /\ (k + 1) - 1 = k
      BY <1>1, <1>2, <2>3
    <3>2. CalledBy(stack[k - 1], stack[(k - 1) + 1])
      BY <3>1 DEF StackOK
    <3>3. stack'[k] = stack[k - 1] /\ stack'[k + 1] = stack[k]
      BY <1>2, <3>1
    <3> QED
      BY <3>1, <3>2, <3>3
  <2> QED
    BY <1>1, <1>2, <2>1, <2>2, <2>3
<1>5. \A k \in 1..Len(stack') : FrameOK(stack[k])'
  BY <1>3, SteadyFrames
<1>6. ASSUME NEW k \in 1..(Len(stack') - 1)
      PROVE  CalledBy(stack[k], stack[k + 1])'
  <2>1. k \in 1..Len(stack') /\ k + 1 \in 1..Len(stack')
    BY <1>1, <1>2
  <2>2. FrameOK(stack'[k + 1]) /\ stack'[k] \in FrameSet /\ stack'[k + 1] \in FrameSet
    BY <1>3, <2>1
  <2>3. CalledBy(stack'[k], stack'[k + 1])
    BY <1>4
  <2> QED
    BY <2>2, <2>3, SteadyCalls
<1>7. stack'[Len(stack')].pc \in CallPcs
  <2>1. CASE Len(stack) = 1
    BY <1>1, <1>2, <2>1 DEF StackOK
  <2>2. CASE Len(stack) # 1
    <3>1. Len(stack) \in Nat /\ Len(stack) # 0
      BY <1>1
    <3>2. \A n \in Nat : n # 0 /\ n # 1 => n > 1
      OBVIOUS
    <3>3. Len(stack) > 1
      BY <2>2, <3>1, <3>2, Zenon
    <3>4. Len(stack') \in 3..(Len(stack) + 1) /\ Len(stack') - 1 = Len(stack)
      BY <1>2, <3>1, <3>3
    <3> QED
      BY <1>1, <1>2, <3>4 DEF StackOK
  <2> QED
    BY <2>1, <2>2
<1> QED
  BY <1>2, <1>5, <1>6, <1>7 DEF StackOK

(* The frames below the top stay.                                          *)
Below == {stack[k] : k \in 2..Len(stack)}

LEMMA FramesSplit ==
    ASSUME StackOK, stack # <<>>
    PROVE  /\ Frames = {Top} \cup Below /\ Top = stack[1] /\ Top \in FrameSet /\ FrameOK(Top)
           /\ Frames \subseteq FrameSet /\ \A f \in Frames : FrameOK(f)
<1>1. /\ Len(stack) \in Nat \ {0} /\ Top = stack[1]
      /\ \A k \in 1..Len(stack) : stack[k] \in FrameSet
  BY PopPlaces DEF StackOK, Top
<1>2. 1 \in 1..Len(stack) /\ \A k \in 1..Len(stack) : k = 1 \/ k \in 2..Len(stack)
  BY <1>1
<1>3. \A k \in 2..Len(stack) : k \in 1..Len(stack)
  BY <1>1
<1> QED
  BY <1>1, <1>2, <1>3 DEF Frames, Below, StackOK

LEMMA PopFrames ==
    ASSUME StackOK, stack # <<>>, stack' = Tail(stack)
    PROVE  Frames' = Below
<1>1. /\ Len(stack) \in Nat \ {0} /\ Len(stack') = Len(stack) - 1
      /\ \A k \in 1..(Len(stack) - 1) : stack'[k] = stack[k + 1]
  BY PopPlaces DEF StackOK
<1>2. ASSUME NEW k \in 1..Len(stack')
      PROVE  stack'[k] = stack[k + 1] /\ k + 1 \in 2..Len(stack)
  BY <1>1
<1>3. ASSUME NEW k \in 2..Len(stack)
      PROVE  stack[k] = stack'[k - 1] /\ k - 1 \in 1..Len(stack')
  BY <1>1
<1>4. \A k \in 1..Len(stack') : stack'[k] \in Below
  BY <1>2 DEF Below
<1>5. \A k \in 2..Len(stack) : stack[k] \in Frames'
  BY <1>3 DEF Frames
<1>6. Frames' \subseteq Below
  BY <1>4 DEF Frames
<1>7. Below \subseteq Frames'
  BY <1>5 DEF Below
<1> QED
  BY <1>6, <1>7

LEMMA ReplaceFrames ==
    ASSUME StackOK, stack # <<>>, NEW h \in FrameSet, stack' = <<h>> \o Tail(stack)
    PROVE  Frames' = {h} \cup Below /\ Top' = h /\ stack' # <<>>
<1>1. /\ stack' \in Seq(FrameSet) /\ Len(stack') = Len(stack) /\ stack'[1] = h
      /\ \A k \in 2..Len(stack) : stack'[k] = stack[k]
      /\ Len(stack) \in Nat \ {0}
  BY ReplacePlaces, PopPlaces DEF StackOK
<1>2. stack' # <<>> /\ Top' = h
  BY <1>1, EmptySeq, PopPlaces DEF Top
<1>3. 1 \in 1..Len(stack) /\ \A k \in 1..Len(stack) : k = 1 \/ k \in 2..Len(stack)
  BY <1>1
<1>4. \A k \in 2..Len(stack) : k \in 1..Len(stack)
  BY <1>1
<1> QED
  BY <1>1, <1>2, <1>3, <1>4 DEF Frames, Below

LEMMA PushFrames ==
    ASSUME StackOK, stack # <<>>, NEW f \in FrameSet, NEW h \in FrameSet,
           stack' = <<f, h>> \o Tail(stack)
    PROVE  Frames' = {f, h} \cup Below /\ Top' = f /\ stack' # <<>>
<1>1. /\ stack' \in Seq(FrameSet) /\ Len(stack') = Len(stack) + 1
      /\ stack'[1] = f /\ stack'[2] = h
      /\ \A k \in 3..(Len(stack) + 1) : stack'[k] = stack[k - 1]
      /\ Len(stack) \in Nat \ {0}
  BY PushPlaces, PopPlaces DEF StackOK
<1>2. stack' # <<>> /\ Top' = f
  BY <1>1, EmptySeq, PopPlaces DEF Top
<1>3. ASSUME NEW k \in 1..Len(stack')
      PROVE  k = 1 \/ k = 2 \/ (k \in 3..(Len(stack) + 1) /\ k - 1 \in 2..Len(stack))
  BY <1>1
<1>4. ASSUME NEW k \in 2..Len(stack)
      PROVE  k + 1 \in 3..(Len(stack) + 1) /\ k + 1 \in 1..Len(stack') /\ (k + 1) - 1 = k
  BY <1>1
<1>5. 1 \in 1..Len(stack') /\ 2 \in 1..Len(stack')
  BY <1>1
<1>6. \A k \in 1..Len(stack') : stack'[k] \in {f, h} \cup Below
  BY <1>1, <1>3 DEF Below
<1>7. \A k \in 2..Len(stack) : stack[k] = stack'[k + 1] /\ k + 1 \in 1..Len(stack')
  BY <1>1, <1>4
<1>8. Frames' \subseteq {f, h} \cup Below
  BY <1>6 DEF Frames
<1>9. Below \subseteq Frames' /\ f \in Frames' /\ h \in Frames'
  <2>1. Below \subseteq Frames'
    BY <1>7 DEF Below, Frames
  <2>2. f \in Frames' /\ h \in Frames'
    BY <1>1, <1>5 DEF Frames
  <2> QED
    BY <2>1, <2>2
<1> QED
  BY <1>2, <1>8, <1>9
-----------------------------------------------------------------------------
(* What the definitions of store choose is unique.                         *)
LoadingIs == \A s \in Slots : Loading(s) <=> \E f \in Busy : f.pc \in LoadPcs /\ f.s = s

LEMMA LoadingFrames == LoadingIs
  BY DEF LoadingIs, Loading, Busy, Frames, LoadPcs, BusyPcs

UnderIs == \A c \in Cells :
    /\ \A v \in Buffers :
          buf[v].blk = BlockOf(c) /\ buf[v].uptodate => Under(c) = buf[v].data[c]
    /\ (\A v \in Buffers : ~(buf[v].blk = BlockOf(c) /\ buf[v].uptodate)) => Under(c) = disk[c]

LEMMA BlockOfCell ==
    /\ \A c \in Cells : BlockOf(c) \in Blocks /\ BlockOf(c) # NoBlock
    /\ \A c \in Inos : c \in Cells /\ c # NoBlock /\ BlockOf(c) = InodeBlock[c]
    /\ \A c \in Cells, b \in DataBlocks : BlockOf(c) = b <=> c = b
    /\ \A b \in DataBlocks : b \in Cells /\ b \notin Inos
  BY CacheAssumption DEF BlockOf, Blocks, Cells

LEMMA UnderUnique == BuffersOK => UnderIs
<1> SUFFICES ASSUME BuffersOK, NEW c \in Cells
             PROVE  /\ \A v \in Buffers :
                          buf[v].blk = BlockOf(c) /\ buf[v].uptodate => Under(c) = buf[v].data[c]
                    /\ (\A v \in Buffers : ~(buf[v].blk = BlockOf(c) /\ buf[v].uptodate))
                          => Under(c) = disk[c]
  BY DEF UnderIs
<1>1. ASSUME NEW v \in Buffers, buf[v].blk = BlockOf(c), buf[v].uptodate
      PROVE  Under(c) = buf[v].data[c]
  <2>1. Cached(c) = {v}
    BY <1>1, BlockOfCell DEF BuffersOK, Cached
  <2> QED
    BY <2>1 DEF Under
<1>2. (\A v \in Buffers : ~(buf[v].blk = BlockOf(c) /\ buf[v].uptodate)) => Under(c) = disk[c]
  BY DEF Under, Cached
<1> QED
  BY <1>1, <1>2

StoreIs == \A c \in Cells :
    /\ \A s \in Slots : c \in Inos /\ inode[s].num = c /\ ~Loading(s) => store[c] = inode[s].val
    /\ (c \notin Inos \/ \A s \in Slots : ~(inode[s].num = c /\ ~Loading(s)))
          => store[c] = Under(c)

LEMMA StoreUnique == InodesOK => StoreIs
<1> SUFFICES ASSUME InodesOK, NEW c \in Cells
             PROVE  /\ \A s \in Slots : c \in Inos /\ inode[s].num = c /\ ~Loading(s)
                                            => store[c] = inode[s].val
                    /\ (c \notin Inos \/ \A s \in Slots : ~(inode[s].num = c /\ ~Loading(s)))
                          => store[c] = Under(c)
  BY DEF StoreIs
<1>1. ASSUME NEW s \in Slots, c \in Inos, inode[s].num = c, ~Loading(s)
      PROVE  store[c] = inode[s].val
  <2>1. Loaded(c) = {s}
    BY <1>1, BlockOfCell DEF InodesOK, Loaded
  <2> QED
    BY <1>1, <2>1 DEF store
<1>2. (c \notin Inos \/ \A s \in Slots : ~(inode[s].num = c /\ ~Loading(s))) => store[c] = Under(c)
  BY DEF store, Loaded, Under
<1> QED
  BY <1>1, <1>2

LEMMA SameStore ==
    ASSUME \A c \in Cells : store'[c] = store[c]
    PROVE  store' = store
<1>1. store = [c \in Cells |-> store[c]]
  BY DEF store
<1>2. store' = [c \in Cells |-> store'[c]]
  BY DEF store
<1> QED
  BY <1>1, <1>2

LEMMA PrimedFacts ==
    /\ LoadingIs'
    /\ BuffersOK' => UnderIs'
    /\ InodesOK' => StoreIs'
  BY LoadingFrames, UnderUnique, StoreUnique, PTL
-----------------------------------------------------------------------------
(* What the changes of a buffer do to the cells below the inode table.     *)
SameUnder == \A c \in Cells : Under(c)' = Under(c)

(* Taking and releasing a buffer.                                          *)
LEMMA CountsOnly ==
    ASSUME BuffersOK, disk' = disk,
           \A v \in Buffers : /\ buf'[v].blk = buf[v].blk /\ buf'[v].data = buf[v].data
                              /\ buf'[v].dirt = buf[v].dirt /\ buf'[v].uptodate = buf[v].uptodate
    PROVE  BuffersOK' /\ SameUnder
<1>1. BuffersOK'
  BY DEF BuffersOK
<1>2. UnderIs /\ UnderIs'
  BY <1>1, UnderUnique, PrimedFacts
<1> QED
  BY <1>1, <1>2 DEF SameUnder, UnderIs

BufRecord == [blk : Blocks \cup {NoBlock}, data : [Cells -> Val \cup {Junk}],
              count : Nat, dirt : BOOLEAN, uptodate : BOOLEAN]
InodeRecord == [num : Inos \cup {NoBlock}, count : Nat, dirt : BOOLEAN, lock : BOOLEAN, val : Val]

(* A clean buffer given to a block that is not in the cache.               *)
LEMMA Claim ==
    ASSUME TypeOK, BuffersOK, disk' = disk, NEW v \in Buffers, ~buf[v].dirt,
           NEW b \in Blocks, find_buffer(b) = {}, buf' = Claimed(v, b)
    PROVE  BuffersOK' /\ SameUnder /\ buf' \in [Buffers -> BufRecord]
<1>1. /\ \A w \in Buffers : w # v => buf'[w] = buf[w]
      /\ buf'[v] = [blk |-> b, data |-> [c \in Cells |-> Junk],
                    count |-> 1, dirt |-> FALSE, uptodate |-> FALSE]
  BY DEF Claimed, TypeOK
<1>2. \A w \in Buffers : buf[w].blk # b
  BY DEF find_buffer
<1>3. BuffersOK'
  BY <1>1, <1>2 DEF BuffersOK
<1>4. UnderIs /\ UnderIs'
  BY <1>3, UnderUnique, PrimedFacts
<1>5. ASSUME NEW c \in Cells
      PROVE  Under(c)' = Under(c)
  <2>1. CASE \E w \in Buffers : w # v /\ buf[w].blk = BlockOf(c) /\ buf[w].uptodate
    BY <1>1, <1>4, <2>1 DEF UnderIs
  <2>2. CASE buf[v].blk = BlockOf(c) /\ buf[v].uptodate
    <3>1. Under(c) = disk[c]
      BY <1>4, <2>2 DEF UnderIs, BuffersOK
    <3>2. \A w \in Buffers : ~(buf'[w].blk = BlockOf(c) /\ buf'[w].uptodate)
      BY <1>1, <2>2, BlockOfCell DEF BuffersOK
    <3> QED
      BY <1>4, <3>1, <3>2 DEF UnderIs
  <2>3. CASE \A w \in Buffers : ~(buf[w].blk = BlockOf(c) /\ buf[w].uptodate)
    BY <1>1, <1>4, <2>3 DEF UnderIs
  <2> QED
    BY <2>1, <2>2, <2>3
<1>6. buf' \in [Buffers -> BufRecord]
  BY DEF Claimed, TypeOK, BufRecord
<1> QED
  BY <1>3, <1>5, <1>6 DEF SameUnder

(* A buffer read from the disk.                                            *)
LEMMA ReadIn ==
    ASSUME TypeOK, BuffersOK, disk' = disk, NEW v \in Buffers, ~buf[v].uptodate,
           buf' = Read(v)
    PROVE  BuffersOK' /\ SameUnder /\ buf' \in [Buffers -> BufRecord]
<1>1. /\ \A w \in Buffers : w # v => buf'[w] = buf[w]
      /\ buf'[v].blk = buf[v].blk /\ ~buf'[v].dirt /\ buf'[v].uptodate
      /\ \A c \in Cells : BlockOf(c) = buf[v].blk => buf'[v].data[c] = disk[c]
  BY DEF Read, TypeOK, BuffersOK
<1>2. BuffersOK'
  <2>1. \A w \in Buffers : buf'[w].blk = buf[w].blk /\ (buf'[w].dirt => w # v /\ buf[w].dirt)
    BY <1>1
  <2>2. ASSUME NEW w \in Buffers, buf'[w].uptodate, NEW c \in Cells, BlockOf(c) = buf'[w].blk
        PROVE  buf'[w].data[c] \in Val /\ (~buf'[w].dirt => buf'[w].data[c] = disk'[c])
    <3>1. CASE w = v
      BY <1>1, <2>2, <3>1 DEF TypeOK
    <3>2. CASE w # v
      BY <1>1, <2>2, <3>2 DEF BuffersOK
    <3> QED
      BY <3>1, <3>2
  <2>3. \A w \in Buffers : buf'[w].dirt => buf'[w].uptodate /\ buf'[w].blk # NoBlock
    BY <1>1, <2>1 DEF BuffersOK
  <2> QED
    BY <2>1, <2>2, <2>3 DEF BuffersOK
<1>3. UnderIs /\ UnderIs'
  BY <1>2, UnderUnique, PrimedFacts
<1>4. ASSUME NEW c \in Cells
      PROVE  Under(c)' = Under(c)
  <2>1. CASE buf[v].blk = BlockOf(c)
    <3>1. \A w \in Buffers : ~(buf[w].blk = BlockOf(c) /\ buf[w].uptodate)
      BY <2>1, BlockOfCell DEF BuffersOK
    <3> QED
      BY <1>1, <1>3, <2>1, <3>1 DEF UnderIs
  <2>2. CASE buf[v].blk # BlockOf(c)
    BY <1>1, <1>3, <2>2 DEF UnderIs
  <2> QED
    BY <2>1, <2>2
<1>5. buf' \in [Buffers -> BufRecord]
  <2>1. buf \in [Buffers -> BufRecord] /\ disk \in [Cells -> Val]
    BY DEF TypeOK, BufRecord
  <2>2. PICK new \in [Cells -> Val \cup {Junk}] :
           new = [c \in Cells |-> IF BlockOf(c) = buf[v].blk THEN disk[c] ELSE Junk]
    BY <2>1
  <2>3. buf' = [buf EXCEPT ![v] = [buf[v] EXCEPT !.data = new, !.uptodate = TRUE]]
    BY <2>2 DEF Read
  <2>4. [buf[v] EXCEPT !.data = new, !.uptodate = TRUE] \in BufRecord
    BY <2>1, <2>2 DEF BufRecord
  <2> QED
    BY <2>1, <2>3, <2>4
<1> QED
  BY <1>2, <1>4, <1>5 DEF SameUnder

(* Writing back changes nothing that is read, and afterwards the disk says *)
(* it all.                                                                 *)
LEMMA Flushed ==
    ASSUME TypeOK, BuffersOK, Flush
    PROVE  /\ BuffersOK' /\ SameUnder
           /\ buf' \in [Buffers -> BufRecord] /\ disk' \in [Cells -> Val]
           /\ \A v \in Buffers : buf'[v].blk = buf[v].blk /\ buf'[v].count = buf[v].count
           /\ \A c \in Cells : disk'[c] = Under(c)
<1>1. \A v \in Buffers : /\ buf'[v].blk = buf[v].blk /\ buf'[v].data = buf[v].data
                         /\ buf'[v].count = buf[v].count /\ buf'[v].dirt = FALSE
                         /\ buf'[v].uptodate <=> buf[v].uptodate
  <2> SUFFICES ASSUME NEW v \in Buffers
               PROVE  /\ buf'[v].blk = buf[v].blk /\ buf'[v].data = buf[v].data
                      /\ buf'[v].count = buf[v].count /\ buf'[v].dirt = FALSE
                      /\ buf'[v].uptodate <=> buf[v].uptodate
    OBVIOUS
  <2>1. /\ buf'[v] = [buf[v] EXCEPT !.dirt = FALSE, !.uptodate = @ \/ buf[v].dirt]
        /\ buf[v] \in BufRecord
    BY DEF Flush, TypeOK, BufRecord
  <2>2. buf[v].dirt => buf[v].uptodate
    BY DEF BuffersOK
  <2> QED
    BY <2>1, <2>2 DEF BufRecord
<1>2. UnderIs
  BY UnderUnique
<1>3. ASSUME NEW c \in Cells
      PROVE  disk'[c] = Under(c) /\ disk'[c] \in Val
  <2>1. CASE Dirty(c) = {}
    <3>1. disk'[c] = disk[c]
      BY <2>1 DEF Flush
    <3>2. Under(c) = disk[c]
      BY <1>2, <2>1 DEF UnderIs, Dirty, BuffersOK
    <3> QED
      BY <3>1, <3>2 DEF TypeOK
  <2>2. ASSUME NEW v \in Dirty(c)
        PROVE  disk'[c] = Under(c) /\ disk'[c] \in Val
    <3>1. Dirty(c) = {v}
      BY <2>2, BlockOfCell DEF Dirty, BuffersOK
    <3>2. disk'[c] = buf[v].data[c]
      BY <3>1 DEF Flush
    <3> QED
      BY <1>2, <2>2, <3>2 DEF UnderIs, Dirty, BuffersOK
  <2> QED
    BY <2>1, <2>2
<1>4. disk' \in [Cells -> Val]
  BY <1>3 DEF Flush
<1>5. BuffersOK'
  <2>1. ASSUME NEW v \in Buffers, buf'[v].uptodate, NEW c \in Cells, BlockOf(c) = buf'[v].blk
        PROVE  buf'[v].data[c] \in Val /\ buf'[v].data[c] = disk'[c]
    BY <1>1, <1>2, <1>3, <2>1 DEF UnderIs
  <2> QED
    BY <1>1, <2>1 DEF BuffersOK
<1>6. UnderIs'
  BY <1>5, PrimedFacts
<1>7. SameUnder
  BY <1>1, <1>2, <1>3, <1>6 DEF SameUnder, UnderIs
<1>8. buf' \in [Buffers -> BufRecord]
  <2>1. buf \in [Buffers -> BufRecord]
    BY DEF TypeOK, BufRecord
  <2>2. ASSUME NEW v \in Buffers
        PROVE  [buf[v] EXCEPT !.dirt = FALSE, !.uptodate = @ \/ buf[v].dirt] \in BufRecord
    BY <2>1 DEF BufRecord
  <2> QED
    BY <2>2 DEF Flush
<1> QED
  BY <1>1, <1>3, <1>4, <1>5, <1>7, <1>8

(* One cell written into its buffer.                                       *)
Wrote(v, c, x) ==
    /\ \A w \in Buffers : w # v => buf'[w] = buf[w]
    /\ buf'[v].blk = buf[v].blk /\ buf'[v].dirt /\ buf'[v].uptodate
    /\ buf'[v].data = [buf[v].data EXCEPT ![c] = x]

LEMMA CellWritten ==
    ASSUME TypeOK, BuffersOK, disk' = disk, NEW v \in Buffers, NEW d \in Cells, NEW x \in Val,
           buf[v].blk = BlockOf(d), buf[v].uptodate \/ d \in DataBlocks, Wrote(v, d, x)
    PROVE  /\ BuffersOK'
           /\ \A c \in Cells : Under(c)' = IF c = d THEN x ELSE Under(c)
<1>1. \A c \in Cells : buf'[v].data[c] = IF c = d THEN x ELSE buf[v].data[c]
  BY DEF Wrote, TypeOK
<1>2. \A c \in Cells : BlockOf(c) = buf[v].blk => c = d \/ buf[v].uptodate
  BY BlockOfCell
<1>3. BuffersOK'
  <2>1. \A w \in Buffers : buf'[w].blk = buf[w].blk /\ (w # v => buf'[w] = buf[w])
    BY DEF Wrote
  <2>2. \A w \in Buffers : buf'[w].dirt => buf'[w].uptodate /\ buf'[w].blk # NoBlock
    BY <2>1, BlockOfCell DEF BuffersOK, Wrote
  <2>3. ASSUME NEW w \in Buffers, buf'[w].uptodate, NEW c \in Cells, BlockOf(c) = buf'[w].blk
        PROVE  buf'[w].data[c] \in Val /\ (~buf'[w].dirt => buf'[w].data[c] = disk'[c])
    <3>1. CASE w = v
      <4>1. BlockOf(c) = buf[v].blk /\ buf'[v].dirt
        BY <2>1, <2>3, <3>1 DEF Wrote
      <4>2. c # d => buf[v].data[c] \in Val
        BY <1>2, <4>1 DEF BuffersOK
      <4> QED
        BY <1>1, <3>1, <4>1, <4>2
    <3>2. CASE w # v
      BY <2>1, <2>3, <3>2 DEF BuffersOK
    <3> QED
      BY <3>1, <3>2
  <2> QED
    BY <2>1, <2>2, <2>3 DEF BuffersOK
<1>4. UnderIs /\ UnderIs'
  BY <1>3, UnderUnique, PrimedFacts
<1>5. ASSUME NEW c \in Cells
      PROVE  Under(c)' = IF c = d THEN x ELSE Under(c)
  <2>1. CASE BlockOf(c) = buf[v].blk
    <3>1. Under(c)' = buf'[v].data[c]
      <4>1. buf'[v].blk = BlockOf(c) /\ buf'[v].uptodate
        BY <2>1 DEF Wrote
      <4> QED
        BY <1>4, <4>1, Zenon DEF UnderIs
    <3>2. c # d => Under(c) = buf[v].data[c]
      BY <1>2, <1>4, <2>1 DEF UnderIs
    <3> QED
      BY <1>1, <3>1, <3>2
  <2>2. CASE BlockOf(c) # buf[v].blk
    BY <1>4, <2>2 DEF UnderIs, Wrote
  <2> QED
    BY <2>1, <2>2
<1> QED
  BY <1>3, <1>5
-----------------------------------------------------------------------------
(* Steps that leave the inode table and the loading of inodes alone, but   *)
(* for locks and references.                                               *)
LEMMA ShiftedInodes ==
    ASSUME InodesOK, SameUnder, \A s \in Slots : Loading(s)' <=> Loading(s),
           \A s \in Slots : /\ inode'[s].num = inode[s].num
                            /\ inode'[s].dirt => inode'[s].count > 0
                            /\ inode'[s].dirt = inode[s].dirt /\ inode'[s].val = inode[s].val,
           \A s \in Slots : inode[s].num # NoBlock => inode[s].num \in Inos
    PROVE  InodesOK' /\ store' = store
<1>1. \A s \in Slots : inode[s].num # NoBlock => Under(inode[s].num)' = Under(inode[s].num)
  <2>1. ASSUME NEW s \in Slots, inode[s].num # NoBlock, NEW c \in Cells, c = inode[s].num
        PROVE  Under(inode[s].num)' = Under(inode[s].num)
    <3>1. Under(c)' = Under(c)
      BY DEF SameUnder
    <3>2. inode'[s].num = c
      BY <2>1
    <3> QED
      BY <2>1, <3>1, <3>2
  <2> QED
    BY <2>1, BlockOfCell
<1>2. InodesOK'
  BY <1>1 DEF InodesOK
<1>3. StoreIs /\ StoreIs'
  BY <1>2, StoreUnique, PrimedFacts
<1>4. ASSUME NEW c \in Cells
      PROVE  store'[c] = store[c]
  <2>1. Under(c)' = Under(c)
    BY DEF SameUnder
  <2>2. CASE c \in Inos /\ \E s \in Slots : inode[s].num = c /\ ~Loading(s)
    BY <1>3, <2>2 DEF StoreIs
  <2>3. CASE c \notin Inos \/ \A s \in Slots : ~(inode[s].num = c /\ ~Loading(s))
    BY <1>3, <2>1, <2>3 DEF StoreIs
  <2> QED
    BY <2>2, <2>3
<1> QED
  BY <1>2, <1>4, SameStore

LEMMA SameInodes ==
    ASSUME InodesOK, SameUnder, \A s \in Slots : Loading(s)' <=> Loading(s),
           \A s \in Slots : /\ inode'[s].num = inode[s].num /\ inode'[s].count = inode[s].count
                            /\ inode'[s].dirt = inode[s].dirt /\ inode'[s].val = inode[s].val,
           \A s \in Slots : inode[s].num # NoBlock => inode[s].num \in Inos
    PROVE  InodesOK' /\ store' = store
<1>1. \A s \in Slots : inode'[s].dirt => inode'[s].count > 0
  BY DEF InodesOK
<1> QED
  BY <1>1, ShiftedInodes

LEMMA SameBusy ==
    ASSUME Busy' = Busy
    PROVE  \A s \in Slots : Loading(s)' <=> Loading(s)
  BY LoadingFrames, PrimedFacts DEF LoadingIs

(* The buffers and the disk change at most by being written back.          *)
Calm ==
    /\ BuffersOK' /\ SameUnder
    /\ buf' \in [Buffers -> BufRecord] /\ disk' \in [Cells -> Val]
    /\ \A v \in Buffers : buf'[v].count = buf[v].count

LEMMA CalmUnchanged ==
    ASSUME Inv, UNCHANGED <<disk, buf>>
    PROVE  Calm
  BY CountsOnly DEF Inv, Calm, TypeOK, BufRecord

LEMMA CalmFlush ==
    ASSUME Inv, Flush
    PROVE  Calm
  BY Flushed DEF Inv, Calm

HasBuffer == stack # <<>> /\ Top.pc \in HoldPcs

LEMMA QuietStep ==
    ASSUME Inv, Calm, UNCHANGED <<inode, free>>, last_inode' \in Slots, Busy' = Busy,
           ~HasBuffer, ~HasBuffer', StackOK', TopOK'
    PROVE  Inv' /\ store' = store
<1>1. TypeOK'
  BY DEF Inv, TypeOK, Calm, BufRecord
<1>2. CountsOK'
  BY DEF Inv, CountsOK, Calm, InUse, HasBuffer
<1>3. LocksOK'
  BY DEF Inv, LocksOK
<1>4. InodesOK' /\ store' = store
  BY SameBusy, SameInodes DEF Inv, TypeOK, Calm
<1>5. FreeOK' /\ BuffersOK'
  BY DEF Inv, FreeOK, Calm
<1> QED
  BY <1>1, <1>2, <1>3, <1>4, <1>5 DEF Inv

LEMMA PlainPop ==
    ASSUME StackOK, stack # <<>>, Top.pc \notin BusyPcs, stack' = Tail(stack)
    PROVE  Busy' = Busy
  BY FramesSplit, PopFrames DEF Busy

LEMMA PlainReplace ==
    ASSUME StackOK, stack # <<>>, Top.pc \notin BusyPcs,
           NEW h \in FrameSet, h.pc \notin BusyPcs, stack' = <<h>> \o Tail(stack)
    PROVE  Busy' = Busy
  BY FramesSplit, ReplaceFrames DEF Busy

LEMMA PlainPush ==
    ASSUME StackOK, stack # <<>>, Top.pc \notin BusyPcs,
           NEW f \in FrameSet, f.pc \notin BusyPcs, NEW h \in FrameSet, h.pc \notin BusyPcs,
           stack' = <<f, h>> \o Tail(stack)
    PROVE  Busy' = Busy
  BY FramesSplit, PushFrames DEF Busy

LEMMA QuietReplace ==
    ASSUME Inv, Calm, UNCHANGED <<inode, free>>, last_inode' \in Slots,
           stack # <<>>, Top.pc \notin HoldPcs \cup {"read_inode"},
           NEW h \in FrameSet, FrameOK(h), Inherits(h), Top.pc \in CallPcs => h.pc \in CallPcs,
           h.pc \notin HoldPcs \cup {"read_inode", "sync_inodes", "sync_buffers"},
           stack' = <<h>> \o Tail(stack)
    PROVE  Inv' /\ store' = store
<1>1. StackOK /\ Steady
  BY DEF Inv, Steady
<1>2. StackOK' /\ Top' = h
  BY <1>1, ReplaceStack, ReplaceFrames
<1>3. Busy' = Busy
  BY <1>1, PlainReplace DEF BusyPcs, LoadPcs, HoldPcs, ReadPcs
<1>4. TopOK'
  BY <1>2 DEF TopOK, At
<1> QED
  BY <1>2, <1>3, <1>4, QuietStep DEF HasBuffer

LEMMA QuietPush ==
    ASSUME Inv, Calm, UNCHANGED <<inode, free>>, last_inode' \in Slots,
           stack # <<>>, Top.pc \notin HoldPcs \cup {"read_inode"},
           NEW f \in FrameSet, FrameOK(f),
           f.pc \notin HoldPcs \cup {"read_inode", "sync_buffers"}, f.pc = "sync_inodes" => f.s = 1,
           NEW h \in FrameSet, FrameOK(h), Inherits(h), Top.pc \in CallPcs => h.pc \in CallPcs,
           h.pc \notin BusyPcs, CalledBy(f, h),
           stack' = <<f, h>> \o Tail(stack)
    PROVE  Inv' /\ store' = store
<1>1. StackOK /\ Steady
  BY DEF Inv, Steady
<1>2. StackOK' /\ Top' = f
  BY <1>1, PushStack, PushFrames
<1>3. Busy' = Busy
  BY <1>1, PlainPush DEF BusyPcs, LoadPcs, HoldPcs, ReadPcs
<1>4. TopOK'
  BY <1>2 DEF TopOK, At, Slots
<1> QED
  BY <1>2, <1>3, <1>4, QuietStep DEF HasBuffer

(* A function was called by the frame below it; a system call stands alone.*)
LEMMA Caller ==
    ASSUME StackOK, stack # <<>>, Top.pc \in InnerPcs
    PROVE  \E g \in FrameSet :
              /\ FrameOK(g) /\ CalledBy(Top, g) /\ g \in Below
              /\ Tail(stack) # <<>> /\ Head(Tail(stack)) = g /\ Len(stack) > 1
<1>1. /\ Len(stack) \in Nat \ {0} /\ Top = stack[1] /\ Tail(stack) \in Seq(FrameSet)
      /\ \A k \in 1..Len(stack) : stack[k] \in FrameSet
      /\ Len(Tail(stack)) = Len(stack) - 1
      /\ \A k \in 1..(Len(stack) - 1) : Tail(stack)[k] = stack[k + 1]
  BY PopPlaces DEF StackOK, Top
<1>2. Len(stack) # 1
  BY <1>1 DEF StackOK, InnerPcs, CallPcs, GetblkPcs, BreadPcs, SyncPcs, WritePcs, LoadPcs,
              IgetPcs, FilePcs, WriterPcs
<1>3. \A n \in Nat \ {0} : n # 1 => n > 1 /\ 1 \in 1..(n - 1) /\ 2 \in 1..n /\ 2 \in 2..n /\ 1 \in 1..n
  OBVIOUS
<1>4. Len(stack) > 1 /\ 1 \in 1..(Len(stack) - 1) /\ 2 \in 1..Len(stack) /\ 2 \in 2..Len(stack)
  BY <1>1, <1>2, <1>3, Zenon
<1>5. CalledBy(Top, stack[2])
  <2>1. CalledBy(stack[1], stack[1 + 1])
    BY <1>4 DEF StackOK
  <2> QED
    BY <1>1, <2>1
<1>6. Tail(stack) # <<>> /\ Head(Tail(stack)) = stack[2]
  BY <1>4, SecondPlace DEF StackOK
<1>7. stack[2] \in FrameSet /\ FrameOK(stack[2]) /\ stack[2] \in Below
  BY <1>1, <1>4 DEF StackOK, Below
<1> QED
  BY <1>4, <1>5, <1>6, <1>7

LEMMA Alone ==
    ASSUME StackOK, stack # <<>>, Top.pc \in CallPcs
    PROVE  Len(stack) = 1 /\ Tail(stack) = <<>> /\ Below = {} /\ Frames = {Top}
<1>1. /\ Len(stack) \in Nat \ {0} /\ Top = stack[1] /\ Tail(stack) \in Seq(FrameSet)
      /\ \A k \in 1..Len(stack) : stack[k] \in FrameSet
      /\ Len(Tail(stack)) = Len(stack) - 1
  BY PopPlaces DEF StackOK, Top
<1>2. \A n \in Nat \ {0} : n # 1 => 1 \in 1..(n - 1)
  OBVIOUS
<1>3. ASSUME Len(stack) # 1
      PROVE  CalledBy(Top, stack[1 + 1])
  <2>1. 1 \in 1..(Len(stack) - 1)
    BY <1>1, <1>2, <1>3, Zenon
  <2> QED
    BY <1>1, <2>1 DEF StackOK
<1>4. Len(stack) = 1
  BY <1>3 DEF CalledBy, CallPcs, GetblkPcs, BreadPcs, SyncPcs, WritePcs, LoadPcs,
              IgetPcs, FilePcs, WriterPcs
<1>5. Tail(stack) = <<>>
  BY <1>4, SecondPlace DEF StackOK
<1>6. Below = {}
  BY <1>4 DEF Below
<1> QED
  BY <1>4, <1>5, <1>6, FramesSplit

(* Returning from a function, or from a system call, that held nothing.    *)
LEMMA QuietPop ==
    ASSUME Inv, Calm, UNCHANGED <<inode, free, last_inode>>,
           stack # <<>>, Top.pc \in InnerPcs \ (HoldPcs \cup {"read_inode"}),
           \A g \in FrameSet : CalledBy(Top, g) =>
              /\ g.pc \notin HoldPcs
              /\ g.pc = "sync_inodes" => \A t \in Slots : t < g.s => ~inode[t].dirt
              /\ g.pc = "sync_buffers" => \A t \in Slots : ~inode[t].dirt,
           stack' = Tail(stack)
    PROVE  Inv' /\ store' = store
<1>1. StackOK /\ Steady /\ TypeOK
  BY DEF Inv, Steady
<1>2. StackOK'
  BY <1>1, PopStack
<1>3. PICK g \in FrameSet : CalledBy(Top, g) /\ stack' # <<>> /\ Top' = g
  BY <1>1, Caller DEF Top
<1>4. Busy' = Busy
  BY <1>1, PlainPop DEF BusyPcs, LoadPcs, HoldPcs, ReadPcs
<1>5. TopOK'
  BY <1>3 DEF TopOK, At
<1>6. last_inode' \in Slots /\ ~HasBuffer /\ ~HasBuffer'
  BY <1>1, <1>3 DEF TypeOK, HasBuffer
<1> QED
  BY <1>2, <1>4, <1>5, <1>6, QuietStep
-----------------------------------------------------------------------------
(* Finding places and slots.                                               *)
LEMMA LeastNatural ==
    ASSUME NEW S, S \subseteq Nat, S # {}
    PROVE  \E s \in S : \A t \in S : s <= t
<1> DEFINE R == {ss \in Nat \X Nat : ss[1] < ss[2]}
<1>1. OpToRel(<, Nat) = R
  BY Zenon DEF OpToRel
<1>2. PICK s \in S : \A t \in S : ~(<<t, s>> \in R)
  BY <1>1, WFMin, NatLessThanWellFounded
<1>3. ASSUME NEW t \in S
      PROVE  s <= t
  <2>1. t \in Nat /\ s \in Nat /\ ~(<<t, s>> \in R)
    BY <1>2
  <2>2. ~(t < s)
    BY <2>1
  <2> QED
    BY <2>1, <2>2
<1> QED
  BY <1>3

LEMMA FirstOfIsFirst ==
    ASSUME NEW K, K \subseteq Nat, K # {}
    PROVE  FirstOf(K) \in K /\ \A l \in K : FirstOf(K) <= l
  BY LeastNatural DEF FirstOf

LEMMA VictimIsBuffer ==
    ASSUME TypeOK, HasVictim
    PROVE  Victim \in Buffers
<1> DEFINE K == IF UnusedClean # {} THEN UnusedClean ELSE Unused
<1>1. K # {} /\ K \subseteq 1..Len(free) /\ K \subseteq Nat
  BY DEF HasVictim, UnusedClean, Unused
<1>2. FirstOf(K) \in 1..Len(free)
  BY <1>1, FirstOfIsFirst
<1> QED
  BY <1>2, ElementOfSeq DEF Victim, TypeOK

(* The sets of program counters do not overlap where it matters.           *)
LEMMA SameGroup ==
    ASSUME NEW h, h.b = Top.b, h.s = Top.s,
           \/ Top.pc \in GetblkPcs /\ h.pc \in GetblkPcs
           \/ Top.pc \in BreadPcs /\ h.pc \in BreadPcs
           \/ Top.pc \in SyncPcs /\ h.pc \in SyncPcs
           \/ Top.pc \in WritePcs /\ h.pc \in WritePcs
           \/ Top.pc \in LoadPcs /\ h.pc \in LoadPcs
    PROVE  Inherits(h)
  BY DEF Inherits, CalledBy, GetblkPcs, BreadPcs, SyncPcs, WritePcs, LoadPcs

LEMMA CallGroup ==
    ASSUME Top.pc \in CallPcs, NEW h
    PROVE  Inherits(h)
  BY DEF Inherits, CalledBy, CallPcs, GetblkPcs, BreadPcs, SyncPcs, WritePcs, LoadPcs,
         IgetPcs, FilePcs, WriterPcs

LEMMA NewFrames ==
    /\ \A b \in Blocks : bread(b) \in FrameSet /\ FrameOK(bread(b))
    /\ \A b \in Blocks : getblk(b) \in FrameSet /\ FrameOK(getblk(b))
    /\ sync_dev \in FrameSet /\ FrameOK(sync_dev)
    /\ sync_inodes \in FrameSet /\ FrameOK(sync_inodes)
    /\ \A s \in Slots : write_inode(s) \in FrameSet /\ FrameOK(write_inode(s))
    /\ \A s \in Slots : read_inode(s) \in FrameSet
  BY CacheAssumption
     DEF bread, getblk, sync_dev, sync_inodes, write_inode, read_inode, Frame, FrameSet, FrameOK,
         InnerPcs, CallPcs, GetblkPcs, BreadPcs, SyncPcs, WritePcs, LoadPcs,
         IgetPcs, FilePcs, WriterPcs, Slots

Pcs == InnerPcs \cup CallPcs

IsMoved(h, f, p, s, v) ==
    h \in FrameSet /\ h.pc = p /\ h.b = f.b /\ h.s = s /\ h.v = v

LEMMA Moved ==
    ASSUME NEW f \in FrameSet, NEW p \in Pcs, NEW s \in Nat, NEW v \in Nat \cup Val
    PROVE  /\ IsMoved([f EXCEPT !.pc = p], f, p, f.s, f.v)
           /\ IsMoved([f EXCEPT !.pc = p, !.v = v], f, p, f.s, v)
           /\ IsMoved([f EXCEPT !.pc = p, !.s = s], f, p, s, f.v)
           /\ IsMoved([f EXCEPT !.s = s], f, f.pc, s, f.v)
  BY DEF FrameSet, Pcs, IsMoved

LEMMA PcNames ==
    /\ "getblk" \in Pcs /\ "victim" \in Pcs /\ "synced" \in Pcs /\ "bread_got" \in Pcs
    /\ "sync_again" \in Pcs /\ "write_inode" \in Pcs /\ "encode" \in Pcs /\ "decode" \in Pcs
    /\ "sync_inodes" \in Pcs /\ "iget" \in Pcs /\ "empty" \in Pcs /\ "search" \in Pcs
    /\ "loaded" \in Pcs /\ "copied" \in Pcs /\ "clear" \in Pcs /\ "store" \in Pcs
    /\ "iput" \in Pcs /\ "sync_buffers" \in Pcs
  BY DEF Pcs, InnerPcs, CallPcs, GetblkPcs, BreadPcs, SyncPcs, WritePcs, LoadPcs, IgetPcs,
         FilePcs, WriterPcs

LEMMA Goes ==
    ASSUME StackOK, stack # <<>>, NEW p \in Pcs
    PROVE  IsMoved([Top EXCEPT !.pc = p], Top, p, Top.s, Top.v)
<1>1. Top \in FrameSet /\ Top.s \in Nat /\ Top.v \in Nat \cup Val
  BY FramesSplit DEF FrameSet
<1> QED
  BY <1>1, Moved, Zenon

Keeps == Inv' /\ store' = store

LEMMA GetblkMissKeeps ==
    ASSUME Inv, GetblkMiss
    PROVE  Keeps
<1> DEFINE h == [Top EXCEPT !.pc = "victim", !.v = Victim]
<1>1. StackOK /\ TypeOK /\ stack # <<>> /\ Top.pc = "getblk" /\ stack' = <<h>> \o Tail(stack)
  BY DEF Inv, GetblkMiss, At
<1>2. Top \in FrameSet /\ FrameOK(Top) /\ Victim \in Buffers
  BY <1>1, FramesSplit, VictimIsBuffer DEF GetblkMiss
<1>3. IsMoved(h, Top, "victim", Top.s, Victim) /\ FrameOK(h)
  <2>1. IsMoved(h, Top, "victim", Top.s, Victim)
    <3>1. Top \in FrameSet /\ "victim" \in Pcs /\ Top.s \in Nat /\ Victim \in Nat \cup Val
      BY <1>2, PcNames DEF Buffers, FrameSet
    <3> QED
      BY <3>1, Moved, Zenon
  <2> QED
    BY <1>1, <1>2, <2>1
       DEF IsMoved, FrameOK, GetblkPcs, BreadPcs, WritePcs, LoadPcs, IgetPcs, FilePcs, WriterPcs
<1>4. Inherits(h)
  BY <1>1, <1>3, SameGroup DEF GetblkPcs, IsMoved
<1>5. Calm /\ UNCHANGED <<inode, free>> /\ last_inode' \in Slots
  BY <1>1, CalmUnchanged DEF GetblkMiss, TypeOK
<1> QED
  BY <1>1, <1>3, <1>4, <1>5, QuietReplace
     DEF IsMoved, Keeps, HoldPcs, ReadPcs, CallPcs, IgetPcs, FilePcs, WriterPcs

LEMMA GetblkSyncKeeps ==
    ASSUME Inv, GetblkSync
    PROVE  Keeps
<1> DEFINE h == [Top EXCEPT !.pc = "synced"]
<1>1. /\ StackOK /\ TypeOK /\ stack # <<>> /\ Top.pc = "victim"
      /\ stack' = <<sync_dev, h>> \o Tail(stack)
  BY DEF Inv, GetblkSync, At, Invoke
<1>2. Top \in FrameSet /\ FrameOK(Top)
  BY <1>1, FramesSplit
<1>3. IsMoved(h, Top, "synced", Top.s, Top.v) /\ FrameOK(h)
  <2>1. IsMoved(h, Top, "synced", Top.s, Top.v)
    BY <1>1, Goes, PcNames
  <2> QED
    BY <1>1, <1>2, <2>1
       DEF IsMoved, FrameOK, GetblkPcs, BreadPcs, WritePcs, LoadPcs, IgetPcs, FilePcs, WriterPcs
<1>4. Inherits(h) /\ CalledBy(sync_dev, h)
  BY <1>1, <1>3, SameGroup DEF GetblkPcs, IsMoved, CalledBy, sync_dev, Frame, SyncPcs
<1>5. Calm /\ UNCHANGED <<inode, free>> /\ last_inode' \in Slots
  BY <1>1, CalmUnchanged DEF GetblkSync, TypeOK
<1>6. sync_dev.pc = "sync_dev" /\ sync_dev \in FrameSet /\ FrameOK(sync_dev)
  BY NewFrames DEF sync_dev, Frame
<1> QED
  BY <1>1, <1>3, <1>4, <1>5, <1>6, QuietPush
     DEF IsMoved, Keeps, HoldPcs, ReadPcs, CallPcs, IgetPcs, FilePcs, WriterPcs, BusyPcs, LoadPcs

LEMMA GetblkAgain ==
    ASSUME Inv, stack # <<>>, Top.pc \in GetblkPcs, NEW p \in {"getblk", "victim"}, Goto(p),
           Top.pc # "getblk", UNCHANGED <<disk, buf, free, inode, last_inode>>
    PROVE  Keeps
<1> DEFINE h == [Top EXCEPT !.pc = p]
<1>1. StackOK /\ TypeOK /\ stack' = <<h>> \o Tail(stack)
  BY DEF Inv, Goto
<1>2. Top \in FrameSet /\ FrameOK(Top)
  BY <1>1, FramesSplit
<1>3. IsMoved(h, Top, p, Top.s, Top.v) /\ FrameOK(h)
  <2>1. IsMoved(h, Top, p, Top.s, Top.v)
    BY <1>1, Goes, PcNames
  <2> QED
    BY <1>1, <1>2, <2>1
       DEF IsMoved, FrameOK, GetblkPcs, BreadPcs, WritePcs, LoadPcs, IgetPcs, FilePcs, WriterPcs
<1>4. Inherits(h)
  BY <1>1, <1>3, SameGroup DEF GetblkPcs, IsMoved
<1>5. Calm /\ UNCHANGED <<inode, free>> /\ last_inode' \in Slots
  BY <1>1, CalmUnchanged DEF TypeOK
<1> QED
  BY <1>1, <1>3, <1>4, <1>5, QuietReplace
     DEF IsMoved, Keeps, HoldPcs, ReadPcs, CallPcs, IgetPcs, FilePcs, WriterPcs, GetblkPcs

LEMMA GetblkSyncedKeeps ==
    ASSUME Inv, GetblkSynced
    PROVE  Keeps
  BY GetblkAgain DEF GetblkSynced, At, GetblkPcs

LEMMA BreadCallKeeps ==
    ASSUME Inv, BreadCall
    PROVE  Keeps
<1> DEFINE h == [Top EXCEPT !.pc = "bread_got"]
           f == getblk(Top.b)
<1>1. StackOK /\ TypeOK /\ stack # <<>> /\ Top.pc = "bread" /\ stack' = <<f, h>> \o Tail(stack)
  BY DEF Inv, BreadCall, At, Invoke
<1>2. Top \in FrameSet /\ FrameOK(Top) /\ Top.b \in Blocks
  BY <1>1, FramesSplit DEF FrameOK, BreadPcs
<1>3. IsMoved(h, Top, "bread_got", Top.s, Top.v) /\ FrameOK(h)
  <2>1. IsMoved(h, Top, "bread_got", Top.s, Top.v)
    BY <1>1, Goes, PcNames
  <2> QED
    BY <1>1, <1>2, <2>1
       DEF IsMoved, FrameOK, GetblkPcs, BreadPcs, WritePcs, LoadPcs, IgetPcs, FilePcs, WriterPcs
<1>4. f.pc = "getblk" /\ f.b = Top.b /\ f \in FrameSet /\ FrameOK(f)
  BY <1>2, NewFrames DEF getblk, Frame
<1>5. Inherits(h) /\ CalledBy(f, h)
  BY <1>1, <1>3, <1>4, SameGroup DEF GetblkPcs, BreadPcs, IsMoved, CalledBy, Wanted
<1>6. Calm /\ UNCHANGED <<inode, free>> /\ last_inode' \in Slots
  BY <1>1, CalmUnchanged DEF BreadCall, TypeOK
<1> HIDE DEF f, h
<1> QED
  BY <1>1, <1>3, <1>4, <1>5, <1>6, QuietPush
     DEF IsMoved, Keeps, HoldPcs, ReadPcs, CallPcs, IgetPcs, FilePcs, WriterPcs, BusyPcs, LoadPcs

LEMMA SyncDevKeeps ==
    ASSUME Inv, SyncDev
    PROVE  Keeps
<1>1. StackOK /\ TypeOK /\ stack # <<>> /\ Calm /\ UNCHANGED <<inode, free, last_inode>>
  BY CalmFlush DEF Inv, SyncDev, At
<1>2. Top \in FrameSet /\ FrameOK(Top) /\ last_inode' \in Slots
  BY <1>1, FramesSplit DEF TypeOK
<1>3. CASE At("sync_dev") /\ Invoke(sync_inodes, "sync_again")
  <2> DEFINE h == [Top EXCEPT !.pc = "sync_again"]
  <2>1. Top.pc = "sync_dev" /\ stack' = <<sync_inodes, h>> \o Tail(stack)
    BY <1>3 DEF At, Invoke
  <2>2. IsMoved(h, Top, "sync_again", Top.s, Top.v) /\ FrameOK(h)
    <3>1. IsMoved(h, Top, "sync_again", Top.s, Top.v)
      BY <1>1, Goes, PcNames
    <3> QED
      BY <1>2, <2>1, <3>1
         DEF IsMoved, FrameOK, GetblkPcs, BreadPcs, WritePcs, LoadPcs, IgetPcs, FilePcs, WriterPcs
  <2>3. /\ sync_inodes.pc = "sync_inodes" /\ sync_inodes.s = 1
        /\ sync_inodes \in FrameSet /\ FrameOK(sync_inodes)
    BY NewFrames DEF sync_inodes, Frame
  <2>4. Inherits(h) /\ CalledBy(sync_inodes, h)
    BY <2>1, <2>2, <2>3, SameGroup DEF SyncPcs, IsMoved, CalledBy
  <2> HIDE DEF h
  <2> QED
    BY <1>1, <1>2, <2>1, <2>2, <2>3, <2>4, QuietPush
       DEF IsMoved, Keeps, HoldPcs, ReadPcs, CallPcs, IgetPcs, FilePcs, WriterPcs, BusyPcs, LoadPcs
<1>4. CASE At("sync_again") /\ Return(0)
  <2>1. Top.pc = "sync_again" /\ stack' = Tail(stack)
    BY <1>4 DEF At, Return
  <2>2. \A g \in FrameSet : CalledBy(Top, g) => g.pc = "synced"
    BY <2>1 DEF CalledBy, GetblkPcs, BreadPcs, SyncPcs, WritePcs, LoadPcs
  <2>3. Top.pc \in InnerPcs \ (HoldPcs \cup {"read_inode"})
    BY <2>1 DEF InnerPcs, SyncPcs, HoldPcs, ReadPcs
  <2> QED
    BY <1>1, <2>1, <2>2, <2>3, QuietPop DEF Keeps, HoldPcs, ReadPcs
<1> QED
  BY <1>3, <1>4 DEF SyncDev

LEMMA NextStopIsFirst ==
    ASSUME TypeOK, Stops # {}
    PROVE  NextStop \in Stops /\ \A t \in Stops : NextStop <= t
<1>1. Stops \subseteq Nat
  BY DEF Stops, Slots
<1> QED
  BY <1>1, FirstOfIsFirst DEF NextStop

LEMMA SyncInodesKeeps ==
    ASSUME Inv, SyncInodes
    PROVE  Keeps
<1>1. StackOK /\ TypeOK /\ stack # <<>> /\ Calm /\ UNCHANGED <<inode, free, last_inode>>
  BY CalmUnchanged DEF Inv, SyncInodes, At
<1>2. /\ Top \in FrameSet /\ FrameOK(Top) /\ last_inode' \in Slots /\ Top.pc = "sync_inodes"
      /\ Top.s \in 1..(NInodes + 1) /\ \A t \in Slots : t < Top.s => ~inode[t].dirt
  BY <1>1, FramesSplit DEF Inv, TypeOK, SyncInodes, At, TopOK, FrameOK
<1>3. CASE Stops = {} /\ Return(0)
  <2>1. stack' = Tail(stack)
    BY <1>3 DEF Return
  <2>2. \A t \in Slots : ~inode[t].dirt
    <3>1. ASSUME NEW t \in Slots
          PROVE  t < Top.s \/ t >= Top.s
      BY <1>2 DEF Slots
    <3> QED
      BY <1>2, <1>3, <3>1 DEF Stops
  <2>3. \A g \in FrameSet : CalledBy(Top, g) => g.pc \in {"sync_again", "sync_buffers"}
    BY <1>2 DEF CalledBy, GetblkPcs, BreadPcs, SyncPcs, WritePcs, LoadPcs
  <2>4. Top.pc \in InnerPcs \ (HoldPcs \cup {"read_inode"})
    BY <1>2 DEF InnerPcs, HoldPcs, ReadPcs
  <2> QED
    BY <1>1, <2>1, <2>2, <2>3, <2>4, QuietPop DEF Keeps, HoldPcs, ReadPcs
<1>4. CASE /\ Stops # {} /\ ~inode[NextStop].lock
           /\ stack' = <<write_inode(NextStop), [Top EXCEPT !.s = NextStop + 1]>> \o Tail(stack)
  <2> DEFINE s == NextStop
             h == [Top EXCEPT !.s = s + 1]
             f == write_inode(s)
  <2>1. s \in Slots /\ s >= Top.s /\ \A t \in Stops : s <= t
    BY <1>1, <1>4, NextStopIsFirst DEF Stops
  <2> HIDE DEF s
  <2>2. s + 1 \in 1..(NInodes + 1) /\ s + 1 \in Nat
    BY <2>1, CacheAssumption DEF Slots
  <2>3. IsMoved(h, Top, "sync_inodes", s + 1, Top.v)
    <3>1. Top \in FrameSet /\ Top.s \in Nat /\ Top.v \in Nat \cup Val /\ Top.pc \in Pcs
      BY <1>2 DEF FrameSet, Pcs
    <3>2. IsMoved(h, Top, Top.pc, s + 1, Top.v)
      BY <2>2, <3>1, Moved, Zenon
    <3> QED
      BY <1>2, <3>2
  <2>4. FrameOK(h)
    BY <2>2, <2>3
       DEF IsMoved, FrameOK, GetblkPcs, BreadPcs, WritePcs, LoadPcs, IgetPcs, FilePcs, WriterPcs
  <2>5. f \in FrameSet /\ FrameOK(f) /\ f.pc = "write_inode" /\ f.s = s
    BY <2>1, NewFrames DEF write_inode, Frame
  <2>6. Inherits(h)
    BY <1>2, <2>3 DEF Inherits, CalledBy, IsMoved, GetblkPcs, BreadPcs, SyncPcs, WritePcs, LoadPcs
  <2>7. \A t \in Slots : t < s + 1 /\ t # s => ~inode[t].dirt
    <3>1. ASSUME NEW t \in Slots, t < s + 1, t # s
          PROVE  t < s /\ (t < Top.s \/ t >= Top.s)
      BY <1>2, <2>1, <3>1 DEF Slots
    <3>2. ASSUME NEW t \in Slots, t < s
          PROVE  ~(s <= t)
      BY <2>1, <3>2 DEF Slots
    <3> QED
      BY <1>2, <2>1, <3>1, <3>2 DEF Stops
  <2>8. CalledBy(f, h)
    BY <2>3, <2>5, <2>7 DEF CalledBy, IsMoved, WritePcs
  <2>9. stack' = <<f, h>> \o Tail(stack)
    BY <1>4 DEF s
  <2> HIDE DEF f, h
  <2> QED
    BY <1>1, <1>2, <2>3, <2>4, <2>5, <2>6, <2>8, <2>9, QuietPush
       DEF IsMoved, Keeps, HoldPcs, ReadPcs, CallPcs, IgetPcs, FilePcs, WriterPcs, BusyPcs, LoadPcs
<1> QED
  BY <1>3, <1>4 DEF SyncInodes

LEMMA WriteInodeReturns ==
    ASSUME Inv, At("write_inode"), ~inode[Top.s].dirt \/ inode[Top.s].num = NoBlock, Return(0),
           UNCHANGED <<disk, buf, free, inode, last_inode>>
    PROVE  Keeps
<1>1. StackOK /\ TypeOK /\ stack # <<>> /\ Calm /\ Top.pc = "write_inode" /\ stack' = Tail(stack)
  BY CalmUnchanged DEF Inv, At, Return
<1>2. Top.s \in Slots
  BY <1>1, FramesSplit DEF FrameOK, WritePcs
<1>3. ~inode[Top.s].dirt
  BY <1>2 DEF Inv, InodesOK
<1>4. ASSUME NEW g \in FrameSet, CalledBy(Top, g)
      PROVE  /\ g.pc \in {"empty", "iput", "sync_inodes"}
             /\ g.pc = "sync_inodes" => \A t \in Slots : t < g.s => ~inode[t].dirt
  BY <1>1, <1>3, <1>4 DEF CalledBy, GetblkPcs, BreadPcs, SyncPcs, WritePcs, LoadPcs
<1>5. Top.pc \in InnerPcs \ (HoldPcs \cup {"read_inode"})
  BY <1>1 DEF InnerPcs, WritePcs, HoldPcs, ReadPcs
<1> QED
  BY <1>1, <1>4, <1>5, QuietPop DEF Keeps, HoldPcs, ReadPcs

(* write_inode and read_inode lock the inode and ask for its block.        *)
LockingStep(p) ==
    /\ ~inode[Top.s].lock
    /\ inode' = [inode EXCEPT ![Top.s].lock = TRUE]
    /\ Invoke(bread(InodeBlock[inode[Top.s].num]), p)
    /\ UNCHANGED <<disk, buf, free, last_inode, ret>>

LEMMA Locking ==
    ASSUME Inv, stack # <<>>, NEW p, LockingStep(p),
           \/ Top.pc = "write_inode" /\ p = "encode" /\ inode[Top.s].dirt
           \/ Top.pc = "read_inode" /\ p = "decode"
    PROVE  Keeps
<1> DEFINE s == Top.s
           h == [Top EXCEPT !.pc = p]
           f == bread(InodeBlock[inode[s].num])
<1>1. StackOK /\ TypeOK /\ stack' = <<f, h>> \o Tail(stack) /\ Calm
  BY CalmUnchanged DEF Inv, LockingStep, Invoke
<1>2. /\ Top \in FrameSet /\ FrameOK(Top) /\ s \in Slots /\ Frames = {Top} \cup Below
      /\ \A g \in Frames : FrameOK(g)
  BY <1>1, FramesSplit DEF FrameOK, WritePcs, LoadPcs
<1>3. inode[s].num \in Inos
  BY <1>2 DEF FrameOK, LoadPcs, Inv, InodesOK, TypeOK
<1>4. /\ inode'[s] = [inode[s] EXCEPT !.lock = TRUE]
      /\ \A t \in Slots : t # s => inode'[t] = inode[t]
      /\ inode[s].lock = FALSE
  BY <1>1, <1>2 DEF LockingStep, TypeOK
<1>5. /\ \A t \in Slots : /\ inode'[t].num = inode[t].num /\ inode'[t].count = inode[t].count
                          /\ inode'[t].dirt = inode[t].dirt /\ inode'[t].val = inode[t].val
      /\ \A t \in Slots : inode'[t].lock => t = s \/ inode[t].lock
  <2>1. inode[s] \in [num : Inos \cup {NoBlock}, count : Nat, dirt : BOOLEAN, lock : BOOLEAN, val : Val]
    BY <1>1, <1>2 DEF TypeOK
  <2>2. /\ inode'[s].num = inode[s].num /\ inode'[s].count = inode[s].count
        /\ inode'[s].dirt = inode[s].dirt /\ inode'[s].val = inode[s].val
    BY <1>4, <2>1
  <2> HIDE DEF s
  <2> QED
    BY <1>4, <2>2
<1>6. IsMoved(h, Top, p, s, Top.v)
  BY <1>1, Goes, PcNames
<1>7. FrameOK(h)
  BY <1>2, <1>3, <1>6
     DEF IsMoved, FrameOK, GetblkPcs, BreadPcs, WritePcs, LoadPcs, IgetPcs, FilePcs, WriterPcs
<1>8. Inherits(h)
  BY <1>6, SameGroup DEF IsMoved, WritePcs, LoadPcs
<1>9. /\ f \in FrameSet /\ FrameOK(f) /\ f.pc = "bread" /\ f.b = InodeBlock[inode[s].num]
  BY <1>3, NewFrames DEF bread, Frame, Blocks
<1>10. CalledBy(f, h)
  BY <1>6, <1>9 DEF CalledBy, IsMoved, Wanted, BreadPcs, ReadPcs
<1> HIDE DEF f, h, s
<1>11. Steady
  BY <1>5 DEF Steady
<1>12. StackOK'
  BY <1>1, <1>6, <1>7, <1>8, <1>9, <1>10, <1>11, PushStack
     DEF IsMoved, CallPcs, IgetPcs, FilePcs, WriterPcs
<1>13. Frames' = {f, h} \cup Below /\ Top' = f /\ stack' # <<>>
  BY <1>1, <1>6, <1>9, PushFrames DEF IsMoved
<1>14. \A g \in Busy' : g = h \/ (g \in Busy /\ g \in Below)
  BY <1>2, <1>9, <1>13 DEF Busy, BusyPcs, LoadPcs
<1>15. /\ h \in Busy' /\ \A g \in Busy : g = Top \/ g \in Busy'
       /\ Top \in Busy <=> Top.pc = "read_inode"
  BY <1>2, <1>6, <1>13 DEF Busy, BusyPcs, LoadPcs, IsMoved
<1>16. \A t \in Slots : Loading(t)' <=> Loading(t)
  <2>1. LoadingIs /\ LoadingIs'
    BY LoadingFrames, PrimedFacts
  <2>2. ASSUME NEW t \in Slots
        PROVE  (\E g \in Busy' : g.pc \in LoadPcs /\ g.s = t) <=> (\E g \in Busy : g.pc \in LoadPcs /\ g.s = t)
    BY <1>6, <1>14, <1>15 DEF IsMoved, LoadPcs, s
  <2> QED
    BY <2>1, <2>2 DEF LoadingIs
<1>17. LocksOK'
  <2>1. \A t \in Slots : inode'[t].lock => \E g \in Busy' : g.pc # "read_inode" /\ g.s = t
    <3>1. ASSUME NEW t \in Slots, t # s, inode[t].lock
          PROVE  \E g \in Busy' : g.pc # "read_inode" /\ g.s = t
      <4>1. PICK g \in Busy : g.pc # "read_inode" /\ g.s = t
        BY <3>1 DEF Inv, LocksOK
      <4> QED
        BY <3>1, <4>1, <1>15 DEF s
    <3> QED
      BY <1>5, <1>6, <1>15, <3>1 DEF IsMoved
  <2>2. ASSUME NEW e \in Busy', NEW g \in Busy', e.pc = "encode", g.pc \in LoadPcs
        PROVE  e.s # g.s
    <3>1. CASE e = h
      <4>1. inode[s].dirt /\ g \in Frames
        BY <1>6, <1>14, <2>2, <3>1 DEF IsMoved, Busy, LoadPcs, s
      <4>2. ~inode[g.s].dirt
        BY <1>2, <2>2, <4>1 DEF FrameOK
      <4> QED
        BY <1>6, <3>1, <4>1, <4>2 DEF IsMoved
    <3>2. CASE e # h /\ g = h
      <4>1. Top \in Busy /\ Top.pc \in LoadPcs /\ e \in Busy /\ g.s = Top.s
        BY <1>6, <1>14, <1>15, <2>2, <3>2 DEF IsMoved, LoadPcs, s
      <4> QED
        BY <2>2, <4>1 DEF Inv, LocksOK
    <3>3. CASE e # h /\ g # h
      BY <1>14, <2>2, <3>3 DEF Inv, LocksOK
    <3> QED
      BY <3>1, <3>2, <3>3
  <2> QED
    BY <2>1, <2>2 DEF LocksOK
<1>18. TypeOK'
  <2>1. inode \in [Slots -> InodeRecord] /\ inode' = [inode EXCEPT ![Top.s].lock = TRUE]
    BY <1>1 DEF TypeOK, LockingStep, InodeRecord
  <2>2. \A t \in Slots : [inode[t] EXCEPT !.lock = TRUE] \in InodeRecord
    BY <2>1 DEF InodeRecord
  <2>3. inode' \in [Slots -> InodeRecord]
    BY <2>1, <2>2
  <2>4. /\ disk' \in [Cells -> Val] /\ buf' \in [Buffers -> BufRecord]
        /\ UNCHANGED <<free, last_inode>>
    BY <1>1 DEF LockingStep, Calm
  <2> QED
    BY <1>1, <2>3, <2>4 DEF TypeOK, BufRecord, InodeRecord
<1>19. TopOK'
  BY <1>9, <1>13 DEF TopOK, At, HoldPcs, ReadPcs
<1>20. CountsOK'
  <2>1. ~HasBuffer /\ ~HasBuffer'
    BY <1>9, <1>13 DEF HasBuffer, HoldPcs, ReadPcs
  <2> QED
    BY <1>1, <2>1 DEF Inv, CountsOK, Calm, InUse, HasBuffer
<1>21. InodesOK' /\ store' = store
  BY <1>1, <1>5, <1>16, SameInodes DEF Inv, Calm, TypeOK
<1>22. FreeOK' /\ BuffersOK'
  BY <1>1 DEF Inv, FreeOK, Calm, LockingStep
<1> QED
  BY <1>12, <1>17, <1>18, <1>19, <1>20, <1>21, <1>22 DEF Inv, Keeps

LEMMA WriteInodeKeeps ==
    ASSUME Inv, WriteInode
    PROVE  Keeps
<1>1. CASE inode[Top.s].dirt /\ inode[Top.s].num # NoBlock /\ LockingStep("encode")
  BY <1>1, Locking DEF WriteInode, At
<1>2. CASE (~inode[Top.s].dirt \/ inode[Top.s].num = NoBlock) /\ Return(0) /\ UNCHANGED inode
  BY <1>2, WriteInodeReturns DEF WriteInode
<1> QED
  BY <1>1, <1>2 DEF WriteInode, LockingStep

LEMMA ReadInodeKeeps ==
    ASSUME Inv, ReadInode
    PROVE  Keeps
  BY Locking DEF ReadInode, LockingStep, At

AloneIs == StackOK /\ stack # <<>> /\ Top.pc \in CallPcs => Tail(stack) = <<>> /\ Frames = {Top}

LEMMA AlonePrimed == AloneIs'
<1>1. AloneIs
  BY Alone DEF AloneIs
<1> QED
  BY <1>1, PTL

(* What the frame holds when its buffer is returned to it.                 *)
LEMMA Held ==
    ASSUME Inv, stack # <<>>, Top.pc \in HoldPcs
    PROVE  /\ ret \in Buffers /\ buf[ret].blk = Wanted(Top)
           /\ Top.pc \in ReadPcs => buf[ret].uptodate
           /\ buf[ret].count = 1 /\ \A v \in Buffers : v # ret => buf[v].count = 0
  BY DEF Inv, TopOK, CountsOK, InUse

(* Releasing it on the way out.                                            *)
LEMMA Releases ==
    ASSUME Inv, stack # <<>>, Top.pc \in HoldPcs, ~HasBuffer',
           buf'[ret].count = buf[ret].count - 1,
           \A w \in Buffers : w # ret => buf'[w] = buf[w]
    PROVE  CountsOK'
  BY Held DEF CountsOK, InUse, HasBuffer


(* A buffer after a cell is written into it, and released.                 *)
Rewritten(r, d, x) == [r EXCEPT !.data[d] = x, !.dirt = TRUE, !.count = @ - 1]

IsRewritten(q, r, d, x) ==
    /\ q \in BufRecord /\ q.blk = r.blk /\ q.data = [r.data EXCEPT ![d] = x]
    /\ q.dirt = TRUE /\ q.uptodate = r.uptodate /\ q.count = r.count - 1

(* An inode whose value is written.                                        *)
LEMMA InodeRewritten ==
    ASSUME NEW r \in InodeRecord, NEW x \in Val,
           NEW q, q = [r EXCEPT !.val = x, !.dirt = TRUE]
    PROVE  /\ q.val = x /\ q.dirt = TRUE /\ q.num = r.num
           /\ q.count = r.count /\ q.lock = r.lock /\ q \in InodeRecord
BY DEF InodeRecord

LEMMA RewrittenFields ==
    ASSUME NEW r \in BufRecord, NEW d \in Cells, NEW x \in Val, r.count > 0
    PROVE  IsRewritten(Rewritten(r, d, x), r, d, x)
<1>1. [r.data EXCEPT ![d] = x] \in [Cells -> Val \cup {Junk}] /\ r.count - 1 \in Nat
  BY DEF BufRecord
<1>2. PICK q : q = Rewritten(r, d, x)
  OBVIOUS
<1>3. q = [blk |-> r.blk, data |-> [r.data EXCEPT ![d] = x], count |-> r.count - 1,
           dirt |-> TRUE, uptodate |-> r.uptodate]
  BY <1>2 DEF BufRecord, Rewritten
<1> QED
  BY <1>1, <1>2, <1>3 DEF BufRecord, IsRewritten

LEMMA EncodeKeeps ==
    ASSUME Inv, Encode
    PROVE  Keeps
<1>1. /\ StackOK /\ TypeOK /\ stack # <<>> /\ Top.pc = "encode" /\ stack' = Tail(stack)
      /\ UNCHANGED <<disk, free, last_inode>>
  BY DEF Inv, Encode, At, Return
<1>0. PICK s \in Slots, d \in Inos : s = Top.s /\ d = inode[s].num
  BY <1>1, FramesSplit DEF FrameOK, WritePcs
<1>2. Top \in FrameSet /\ FrameOK(Top) /\ Frames = {Top} \cup Below
  BY <1>1, FramesSplit
<1>3. /\ ret \in Buffers /\ buf[ret].blk = InodeBlock[d] /\ buf[ret].uptodate
      /\ buf[ret].count = 1 /\ \A v \in Buffers : v # ret => buf[v].count = 0
  BY <1>0, <1>1, Held DEF Wanted, HoldPcs, ReadPcs
<1>4. /\ buf' = [buf EXCEPT ![ret] = [buf[ret] EXCEPT
                    !.data[d] = inode[s].val, !.dirt = TRUE, !.count = @ - 1]]
      /\ inode' = [inode EXCEPT ![s] = [@ EXCEPT !.dirt = FALSE, !.lock = FALSE]]
  BY <1>0 DEF Encode
<1>5. inode \in [Slots -> InodeRecord] /\ buf \in [Buffers -> BufRecord] /\ inode[s] \in InodeRecord
  BY <1>1 DEF TypeOK, InodeRecord, BufRecord
<1>6. /\ \A t \in Slots : t # s => inode'[t] = inode[t]
      /\ inode'[s].num = inode[s].num /\ inode'[s].count = inode[s].count
      /\ inode'[s].val = inode[s].val /\ ~inode'[s].dirt /\ ~inode'[s].lock
      /\ inode' \in [Slots -> InodeRecord]
  <2>1. inode'[s] = [inode[s] EXCEPT !.dirt = FALSE, !.lock = FALSE]
    BY <1>4, <1>5
  <2>2. \A t \in Slots : t # s => inode'[t] = inode[t]
    BY <1>4, <1>5
  <2>3. inode'[s] \in InodeRecord
    BY <1>5, <2>1 DEF InodeRecord
  <2>4. inode' \in [Slots -> InodeRecord]
    BY <1>4, <1>5, <2>2, <2>3
  <2> QED
    BY <1>5, <2>1, <2>2, <2>4 DEF InodeRecord
<1>7. buf[ret] \in BufRecord /\ d \in Cells /\ inode[s].val \in Val
  BY <1>3, <1>5, BlockOfCell DEF InodeRecord
<1>8. /\ Wrote(ret, d, inode[s].val) /\ buf'[ret].count = buf[ret].count - 1
      /\ buf' \in [Buffers -> BufRecord]
  <2>1. /\ buf'[ret] = Rewritten(buf[ret], d, inode[s].val)
        /\ \A w \in Buffers : w # ret => buf'[w] = buf[w]
    BY <1>3, <1>4, <1>5 DEF Rewritten
  <2>2. /\ buf'[ret] \in BufRecord /\ buf'[ret].blk = buf[ret].blk
        /\ buf'[ret].data = [buf[ret].data EXCEPT ![d] = inode[s].val] /\ buf'[ret].dirt = TRUE
        /\ buf'[ret].uptodate = buf[ret].uptodate /\ buf'[ret].count = buf[ret].count - 1
    <3>1. buf[ret].count > 0
      BY <1>3
    <3>2. buf[ret] \in BufRecord /\ d \in Cells /\ inode[s].val \in Val
      BY <1>3, <1>7
    <3>3. IsRewritten(Rewritten(buf[ret], d, inode[s].val), buf[ret], d, inode[s].val)
      BY <3>1, <3>2, RewrittenFields
    <3> QED
      BY <2>1, <3>3, Zenon DEF IsRewritten
  <2>3. buf' \in [Buffers -> BufRecord]
    BY <1>3, <1>4, <1>5, <2>1, <2>2
  <2> QED
    BY <1>3, <2>1, <2>2, <2>3 DEF Wrote
<1>9. BuffersOK' /\ \A c \in Cells : Under(c)' = IF c = d THEN inode[s].val ELSE Under(c)
  BY <1>1, <1>3, <1>7, <1>8, CellWritten, BlockOfCell DEF Inv
<1>11. TypeOK'
  BY <1>1, <1>6, <1>8 DEF TypeOK, BufRecord, InodeRecord
<1>12. StackOK'
  <2>1. Steady
    BY <1>6 DEF Steady
  <2> QED
    BY <1>1, <2>1, PopStack
<1>13. PICK g \in FrameSet : CalledBy(Top, g) /\ stack' # <<>> /\ Top' = g
  BY <1>1, Caller DEF Top, InnerPcs, WritePcs
<1>14. /\ g.pc \in {"empty", "iput", "sync_inodes"}
       /\ g.pc = "sync_inodes" => \A t \in Slots : t < g.s /\ t # s => ~inode[t].dirt
  BY <1>0, <1>1, <1>13 DEF CalledBy, GetblkPcs, BreadPcs, SyncPcs, WritePcs, LoadPcs
<1>15. TopOK'
  BY <1>6, <1>13, <1>14 DEF TopOK, At, HoldPcs, ReadPcs
<1>16. CountsOK'
  <2>1. ~HasBuffer'
    BY <1>13, <1>14 DEF HasBuffer, HoldPcs, ReadPcs
  <2> QED
    BY <1>1, <1>8, <2>1, Releases DEF HoldPcs, ReadPcs, Wrote
<1>17. Frames' = Below
  BY <1>1, PopFrames
<1>18. \A f \in Busy : f.s # s \/ f.pc # "encode" => f \in Busy'
  BY <1>0, <1>1, <1>2, <1>17 DEF Busy
<1>19. Busy' \subseteq Busy
  BY <1>2, <1>17 DEF Busy
<1>20. LocksOK'
  <2>1. ASSUME NEW t \in Slots, inode'[t].lock
        PROVE  \E f \in Busy' : f.pc # "read_inode" /\ f.s = t
    <3>1. t # s /\ inode[t].lock
      BY <1>6, <2>1
    <3> QED
      BY <1>18, <3>1 DEF Inv, LocksOK
  <2> QED
    BY <1>19, <2>1 DEF Inv, LocksOK
<1>21. \A t \in Slots : Loading(t)' <=> Loading(t)
  <2>1. LoadingIs /\ LoadingIs'
    BY LoadingFrames, PrimedFacts
  <2> QED
    BY <1>18, <1>19, <2>1 DEF LoadingIs, LoadPcs
<1>22. ~Loading(s)
  <2>1. Top \in Busy
    BY <1>1, <1>2 DEF Busy, BusyPcs
  <2>2. \A f \in Busy : f.pc \in LoadPcs => f.s # s
    BY <1>0, <1>1, <2>1 DEF Inv, LocksOK
  <2> QED
    BY <2>2, LoadingFrames DEF LoadingIs
<1>23. \A t \in Slots : t # s /\ inode[t].num # NoBlock => inode[t].num # d /\ inode[t].num \in Cells
  BY <1>0, <1>1, BlockOfCell DEF Inv, InodesOK, TypeOK
<1>24. InodesOK'
  <2>1. ASSUME NEW t \in Slots, t # s, inode[t].num # NoBlock
        PROVE  Under(inode[t].num)' = Under(inode[t].num)
    <3>1. PICK c \in Cells : c = inode[t].num /\ c # d
      BY <1>23, <2>1
    <3>2. inode'[t].num = c
      BY <1>6, <2>1, <3>1
    <3> QED
      BY <1>9, <3>1, <3>2
  <2>2. inode'[s].val = Under(inode[s].num)'
    <3>1. inode'[s].num = d /\ Under(d)' = inode[s].val
      BY <1>0, <1>6, <1>7, <1>9
    <3> QED
      BY <1>6, <3>1
  <2>3. ASSUME NEW t \in Slots, inode'[t].num # NoBlock, ~inode'[t].dirt, ~Loading(t)'
        PROVE  inode'[t].val = Under(inode[t].num)'
    BY <1>6, <1>21, <2>1, <2>2, <2>3 DEF Inv, InodesOK
  <2>4. \A t \in Slots : inode'[t].dirt => inode'[t].num # NoBlock /\ inode'[t].count > 0
    BY <1>6 DEF Inv, InodesOK
  <2>5. \A t, u \in Slots : inode'[t].num = inode'[u].num /\ inode'[t].num # NoBlock => t = u
    BY <1>6 DEF Inv, InodesOK
  <2> QED
    BY <2>3, <2>4, <2>5 DEF InodesOK
<1>25. store' = store
  <2>1. StoreIs /\ StoreIs'
    BY <1>24, StoreUnique, PrimedFacts DEF Inv
  <2>2. ASSUME NEW c \in Cells
        PROVE  store'[c] = store[c]
    <3>1. CASE c \in Inos /\ \E t \in Slots : inode[t].num = c /\ ~Loading(t)
      <4>1. PICK t \in Slots : inode[t].num = c /\ ~Loading(t)
        BY <3>1
      <4>2. inode'[t].num = c /\ ~Loading(t)' /\ inode'[t].val = inode[t].val
        BY <1>6, <1>21, <4>1
      <4> QED
        BY <2>1, <3>1, <4>1, <4>2 DEF StoreIs
    <3>2. CASE c \notin Inos \/ \A t \in Slots : ~(inode[t].num = c /\ ~Loading(t))
      <4>1. c # d
        BY <1>0, <1>22, <3>2
      <4>2. c \notin Inos \/ \A t \in Slots : ~(inode'[t].num = c /\ ~Loading(t)')
        BY <1>6, <1>21, <3>2
      <4> QED
        BY <1>9, <2>1, <3>2, <4>1, <4>2 DEF StoreIs
    <3> QED
      BY <3>1, <3>2
  <2> QED
    BY <2>2, SameStore
<1>26. FreeOK'
  BY <1>1 DEF Inv, FreeOK
<1> QED
  BY <1>9, <1>11, <1>12, <1>15, <1>16, <1>20, <1>24, <1>25, <1>26 DEF Inv, Keeps

LEMMA DecodeKeeps ==
    ASSUME Inv, Decode
    PROVE  Keeps
<1>1. /\ StackOK /\ TypeOK /\ stack # <<>> /\ Top.pc = "decode" /\ stack' = Tail(stack)
      /\ UNCHANGED <<disk, free, last_inode>>
  BY DEF Inv, Decode, At, Return
<1>2. PICK s \in Slots, d \in Inos : s = Top.s /\ d = inode[s].num
  BY <1>1, FramesSplit DEF FrameOK, LoadPcs
<1>3. Top \in FrameSet /\ FrameOK(Top) /\ Frames = {Top} \cup Below
  BY <1>1, FramesSplit
<1>4. /\ ret \in Buffers /\ buf[ret].blk = InodeBlock[d] /\ buf[ret].uptodate
      /\ buf[ret].count = 1 /\ \A v \in Buffers : v # ret => buf[v].count = 0
  BY <1>1, <1>2, Held DEF Wanted, HoldPcs, ReadPcs
<1>5. /\ buf' = [buf EXCEPT ![ret].count = @ - 1]
      /\ inode' = [inode EXCEPT ![s] = [@ EXCEPT !.val = buf[ret].data[d], !.lock = FALSE]]
  BY <1>2 DEF Decode, brelse
<1>6. inode \in [Slots -> InodeRecord] /\ buf \in [Buffers -> BufRecord] /\ inode[s] \in InodeRecord
  BY <1>1 DEF TypeOK, InodeRecord, BufRecord
<1>7. d \in Cells /\ BlockOf(d) = InodeBlock[d]
  BY BlockOfCell
<1>8. buf[ret].data[d] \in Val /\ buf[ret].data[d] = Under(d)
  BY <1>4, <1>7, UnderUnique DEF Inv, BuffersOK, UnderIs
<1>9. /\ \A v \in Buffers : /\ buf'[v].blk = buf[v].blk /\ buf'[v].data = buf[v].data
                            /\ buf'[v].dirt = buf[v].dirt /\ buf'[v].uptodate = buf[v].uptodate
      /\ buf'[ret].count = buf[ret].count - 1 /\ \A w \in Buffers : w # ret => buf'[w] = buf[w]
      /\ buf' \in [Buffers -> BufRecord]
  <2>1. buf[ret] \in BufRecord /\ buf[ret].count - 1 \in Nat
    BY <1>4, <1>6
  <2>2. buf'[ret] = [buf[ret] EXCEPT !.count = @ - 1]
    BY <1>4, <1>5, <1>6
  <2>3. \A w \in Buffers : w # ret => buf'[w] = buf[w]
    BY <1>4, <1>5, <1>6
  <2>4. buf'[ret] \in BufRecord
    BY <2>1, <2>2 DEF BufRecord
  <2>5. buf' \in [Buffers -> BufRecord]
    BY <1>4, <1>5, <1>6, <2>3, <2>4
  <2>6. /\ buf'[ret].blk = buf[ret].blk /\ buf'[ret].data = buf[ret].data
        /\ buf'[ret].dirt = buf[ret].dirt /\ buf'[ret].uptodate = buf[ret].uptodate
        /\ buf'[ret].count = buf[ret].count - 1
    BY <2>1, <2>2 DEF BufRecord
  <2> QED
    BY <2>3, <2>5, <2>6
<1>10. BuffersOK' /\ SameUnder
  BY <1>1, <1>9, CountsOnly DEF Inv
<1>11. /\ \A t \in Slots : t # s => inode'[t] = inode[t]
       /\ inode'[s].num = d /\ inode'[s].count = inode[s].count
       /\ inode'[s].val = Under(d) /\ inode'[s].dirt = inode[s].dirt /\ ~inode'[s].lock
       /\ inode' \in [Slots -> InodeRecord]
  <2>1. inode'[s] = [inode[s] EXCEPT !.val = buf[ret].data[d], !.lock = FALSE]
    BY <1>5, <1>6
  <2>2. \A t \in Slots : t # s => inode'[t] = inode[t]
    BY <1>5, <1>6
  <2>3. inode'[s] \in InodeRecord
    BY <1>6, <1>8, <2>1 DEF InodeRecord
  <2>4. inode' \in [Slots -> InodeRecord]
    BY <1>5, <1>6, <2>2, <2>3
  <2> QED
    BY <1>2, <1>6, <1>8, <2>1, <2>2, <2>4 DEF InodeRecord
<1>12. TypeOK'
  BY <1>1, <1>9, <1>11 DEF TypeOK, BufRecord, InodeRecord
<1>13. StackOK'
  <2>1. Steady
    BY <1>2, <1>11 DEF Steady
  <2> QED
    BY <1>1, <2>1, PopStack
<1>14. PICK g \in FrameSet : CalledBy(Top, g) /\ stack' # <<>> /\ Top' = g
  BY <1>1, Caller DEF Top, InnerPcs, LoadPcs
<1>15. g.pc = "loaded"
  BY <1>1, <1>14 DEF CalledBy, GetblkPcs, BreadPcs, SyncPcs, WritePcs, LoadPcs
<1>16. TopOK' /\ ~HasBuffer'
  BY <1>14, <1>15 DEF TopOK, At, HasBuffer, HoldPcs, ReadPcs
<1>17. CountsOK'
  BY <1>1, <1>9, <1>16, Releases DEF HoldPcs, ReadPcs
<1>18. Frames' = {g} /\ Below = {g}
  BY <1>1, <1>13, <1>14, <1>15, AlonePrimed, PopFrames DEF AloneIs, CallPcs, IgetPcs
<1>19. Busy' = {} /\ Busy = {Top}
  BY <1>1, <1>3, <1>15, <1>18 DEF Busy, BusyPcs, LoadPcs
<1>20. LocksOK'
  <2>1. \A t \in Slots : inode[t].lock => t = s
    BY <1>2, <1>19 DEF Inv, LocksOK
  <2>2. \A t \in Slots : ~inode'[t].lock
    BY <1>11, <2>1
  <2> QED
    BY <1>19, <2>2 DEF LocksOK
<1>21. /\ \A t \in Slots : Loading(t) <=> t = s
       /\ \A t \in Slots : ~Loading(t)'
  BY <1>1, <1>2, <1>19, LoadingFrames, PrimedFacts DEF LoadingIs, LoadPcs
<1>22. \A t \in Slots : t # s /\ inode[t].num # NoBlock => inode[t].num # d /\ inode[t].num \in Cells
  BY <1>2, <1>6, BlockOfCell DEF Inv, InodesOK, InodeRecord
<1>23. InodesOK'
  <2>1. \A c \in Cells : Under(c)' = Under(c)
    BY <1>10 DEF SameUnder
  <2>2. ASSUME NEW t \in Slots, inode'[t].num # NoBlock, ~inode'[t].dirt
        PROVE  inode'[t].val = Under(inode[t].num)'
    <3>1. PICK c \in Cells : c = inode'[t].num
      BY <1>7, <1>11, <1>22, <2>2
    <3>2. inode'[t].val = Under(c)
      BY <1>11, <1>21, <2>2, <3>1 DEF Inv, InodesOK
    <3> QED
      BY <2>1, <3>1, <3>2
  <2>3. \A t \in Slots : inode'[t].dirt => inode'[t].num # NoBlock /\ inode'[t].count > 0
    BY <1>2, <1>11 DEF Inv, InodesOK
  <2>4. \A t, u \in Slots : inode'[t].num = inode'[u].num /\ inode'[t].num # NoBlock => t = u
    BY <1>2, <1>11 DEF Inv, InodesOK
  <2> QED
    BY <2>2, <2>3, <2>4 DEF InodesOK
<1>24. store' = store
  <2>1. StoreIs /\ StoreIs'
    BY <1>23, StoreUnique, PrimedFacts DEF Inv
  <2>2. ASSUME NEW c \in Cells
        PROVE  store'[c] = store[c]
    <3>1. Under(c)' = Under(c)
      BY <1>10 DEF SameUnder
    <3>2. CASE c = d
      <4>1. \A t \in Slots : ~(inode[t].num = c /\ ~Loading(t))
        BY <1>21, <1>22, <3>2, BlockOfCell
      <4>2. store[c] = Under(c)
        BY <2>1, <4>1 DEF StoreIs
      <4> QED
        BY <1>11, <1>21, <2>1, <3>2, <4>2 DEF StoreIs
    <3>3. CASE c # d /\ c \in Inos /\ \E t \in Slots : inode[t].num = c
      <4>1. PICK t \in Slots : inode[t].num = c /\ t # s
        BY <1>2, <3>3
      <4> QED
        BY <1>11, <1>21, <2>1, <3>3, <4>1 DEF StoreIs
    <3>4. CASE c # d /\ (c \notin Inos \/ \A t \in Slots : inode[t].num # c)
      BY <1>2, <1>11, <2>1, <3>1, <3>4 DEF StoreIs
    <3> QED
      BY <3>2, <3>3, <3>4
  <2> QED
    BY <2>2, SameStore
<1>25. FreeOK'
  BY <1>1 DEF Inv, FreeOK
<1> QED
  BY <1>10, <1>12, <1>13, <1>16, <1>17, <1>20, <1>23, <1>24, <1>25 DEF Inv, Keeps

(* getblk returns a buffer for its block, in use.                          *)
LEMMA Acquires ==
    ASSUME Inv, stack # <<>>, Top.pc \in {"getblk", "victim"}, NEW v \in Buffers, Return(v),
           BuffersOK', SameUnder, buf' \in [Buffers -> BufRecord],
           buf'[v].blk = Top.b, buf'[v].count = 1,
           \A w \in Buffers : w # v => buf'[w] = buf[w],
           FreeOK', free' \in Seq(Buffers), UNCHANGED <<disk, inode, last_inode>>
    PROVE  Keeps
<1>1. StackOK /\ TypeOK /\ stack' = Tail(stack) /\ Steady
  BY DEF Inv, Return, Steady
<1>2. PICK g \in FrameSet : /\ CalledBy(Top, g) /\ stack' # <<>> /\ Top' = g
                            /\ ret' = v
  BY <1>1, Caller DEF Top, InnerPcs, GetblkPcs, Return
<1>3. g.pc \in {"bread_got", "clear"} /\ Wanted(g)' = Top.b
  <2>1. g.pc \in {"bread_got", "clear"} /\ Wanted(g) = Top.b
    BY <1>2 DEF CalledBy, GetblkPcs, BreadPcs, SyncPcs, WritePcs, LoadPcs
  <2> QED
    BY <2>1 DEF Wanted
<1>4. TopOK'
  BY <1>2, <1>3 DEF TopOK, At, ReadPcs, Wanted
<1>5. StackOK'
  BY <1>1, PopStack
<1>6. Busy' = Busy
  BY <1>1, PlainPop DEF BusyPcs, LoadPcs
<1>7. CountsOK'
  <2>1. ~HasBuffer
    BY DEF HasBuffer, HoldPcs, ReadPcs
  <2>2. \A w \in Buffers : buf[w].count = 0
    BY <2>1 DEF Inv, CountsOK, InUse, HasBuffer
  <2> QED
    BY <1>2, <1>3, <2>2 DEF CountsOK, InUse, HoldPcs
<1>8. TypeOK' /\ LocksOK'
  BY <1>1, <1>6 DEF Inv, LocksOK, TypeOK, BufRecord
<1>9. InodesOK' /\ store' = store
  BY <1>1, <1>6, SameBusy, SameInodes DEF Inv, TypeOK
<1> QED
  BY <1>4, <1>5, <1>7, <1>8, <1>9 DEF Inv, Keeps

LEMMA GetblkHitKeeps ==
    ASSUME Inv, GetblkHit
    PROVE  Keeps
<1>1. /\ StackOK /\ TypeOK /\ stack # <<>> /\ Top.pc = "getblk"
      /\ UNCHANGED <<disk, free, inode, last_inode>>
  BY DEF Inv, GetblkHit, At
<1>2. PICK v \in find_buffer(Top.b) : buf' = [buf EXCEPT ![v].count = @ + 1] /\ Return(v)
  BY DEF GetblkHit
<1>3. v \in Buffers /\ buf[v].blk = Top.b /\ buf \in [Buffers -> BufRecord] /\ buf[v].count = 0
  BY <1>1 DEF find_buffer, TypeOK, BufRecord, Inv, CountsOK, InUse, HoldPcs, ReadPcs
<1>4. /\ buf'[v] = [buf[v] EXCEPT !.count = @ + 1] /\ buf[v] \in BufRecord
      /\ \A w \in Buffers : w # v => buf'[w] = buf[w]
  BY <1>2, <1>3
<1>5. /\ buf'[v].blk = buf[v].blk /\ buf'[v].data = buf[v].data /\ buf'[v].count = 1
      /\ buf'[v].dirt = buf[v].dirt /\ buf'[v].uptodate = buf[v].uptodate
      /\ buf'[v] \in BufRecord
  BY <1>3, <1>4 DEF BufRecord
<1>6. buf' \in [Buffers -> BufRecord]
  BY <1>2, <1>3, <1>4, <1>5
<1>7. BuffersOK' /\ SameUnder
  BY <1>1, <1>4, <1>5, CountsOnly DEF Inv
<1>8. FreeOK' /\ free' \in Seq(Buffers)
  BY <1>1 DEF Inv, FreeOK, TypeOK
<1> QED
  BY <1>1, <1>2, <1>3, <1>4, <1>5, <1>6, <1>7, <1>8, Acquires

(* Moving a buffer to the end of the free list keeps all of them on it.    *)
LEMMA RequeuedKeepsAll ==
    ASSUME TypeOK, FreeOK, NEW v \in Buffers
    PROVE  /\ Requeued(v) \in Seq(Buffers) /\ Len(Requeued(v)) = NBuffers
           /\ \A w \in Buffers : \E k \in 1..NBuffers : Requeued(v)[k] = w
<1> DEFINE p == PlaceOf(v)
           l == SubSeq(free, 1, p - 1)
           r == SubSeq(free, p + 1, Len(free))
           q == l \o r
<1>1. /\ free \in Seq(Buffers) /\ Len(free) = NBuffers /\ NBuffers \in Nat /\ NBuffers > 1
      /\ \A k \in 1..NBuffers : free[k] \in Buffers
  BY CacheAssumption, ElementOfSeq DEF TypeOK, FreeOK
<1>2. p \in 1..NBuffers /\ free[p] = v
  BY <1>1 DEF FreeOK, PlaceOf
<1>3. Requeued(v) = Append(q, v)
  BY DEF Requeued, RemoveAt
<1> HIDE DEF p
<1>4. /\ l \in Seq(Buffers) /\ Len(l) = p - 1
      /\ \A k \in 1..(p - 1) : l[k] = free[k]
  <2>1. 1 \in Int /\ p - 1 \in Int /\ \A k \in 1..(p - 1) : free[k] \in Buffers
    BY <1>1, <1>2
  <2>2. Len(l) = IF 1 <= p - 1 THEN p - 1 - 1 + 1 ELSE 0
    BY <2>1, SubSeqProperties
  <2>3. l \in Seq(Buffers) /\ \A k \in 1..(p - 1 - 1 + 1) : l[k] = free[1 + k - 1]
    BY <2>1, SubSeqProperties
  <2> QED
    BY <1>1, <1>2, <2>2, <2>3
<1>5. /\ r \in Seq(Buffers) /\ Len(r) = NBuffers - p
      /\ \A k \in 1..(NBuffers - p) : r[k] = free[p + k]
  <2>1. /\ p + 1 \in Int /\ Len(free) \in Int
        /\ \A k \in (p + 1)..Len(free) : free[k] \in Buffers
    BY <1>1, <1>2
  <2>2. Len(r) = IF p + 1 <= Len(free) THEN Len(free) - (p + 1) + 1 ELSE 0
    BY <2>1, SubSeqProperties
  <2>3. r \in Seq(Buffers) /\ \A k \in 1..(Len(free) - (p + 1) + 1) : r[k] = free[(p + 1) + k - 1]
    BY <2>1, SubSeqProperties
  <2> QED
    BY <1>1, <1>2, <2>2, <2>3
<1> HIDE DEF l, r
<1>6. /\ q \in Seq(Buffers) /\ Len(q) = NBuffers - 1
      /\ \A k \in 1..(p - 1) : q[k] = free[k]
      /\ \A k \in 1..(NBuffers - p) : q[(p - 1) + k] = free[p + k]
  <2>1. /\ q \in Seq(Buffers) /\ Len(q) = Len(l) + Len(r)
        /\ \A k \in 1..(Len(l) + Len(r)) : q[k] = IF k <= Len(l) THEN l[k] ELSE r[k - Len(l)]
    BY <1>4, <1>5, ConcatProperties
  <2> HIDE DEF q
  <2>2. Len(q) = NBuffers - 1 /\ p \in Nat /\ p - 1 \in Nat
    BY <1>1, <1>2, <1>4, <1>5, <2>1
  <2>3. ASSUME NEW k \in 1..(p - 1)
        PROVE  q[k] = free[k]
    <3>1. k \in 1..(Len(l) + Len(r)) /\ k <= Len(l)
      BY <1>1, <1>2, <1>4, <1>5
    <3> QED
      BY <1>4, <2>1, <3>1
  <2>4. ASSUME NEW k \in 1..(NBuffers - p)
        PROVE  q[(p - 1) + k] = free[p + k]
    <3>1. PICK j : j = (p - 1) + k
      OBVIOUS
    <3>2. j \in 1..(Len(l) + Len(r)) /\ ~(j <= Len(l)) /\ j - Len(l) = k
      BY <1>1, <1>2, <1>4, <1>5, <3>1
    <3>3. q[j] = r[j - Len(l)]
      BY <2>1, <3>2, Zenon
    <3> QED
      BY <1>5, <3>1, <3>2, <3>3, Zenon
  <2> QED
    BY <2>1, <2>2, <2>3, <2>4
<1> HIDE DEF q
<1>7. /\ Requeued(v) \in Seq(Buffers) /\ Len(Requeued(v)) = NBuffers
      /\ \A k \in 1..(NBuffers - 1) : Requeued(v)[k] = q[k]
      /\ Requeued(v)[NBuffers] = v
  BY <1>1, <1>3, <1>6, AppendProperties
<1>8. ASSUME NEW w \in Buffers
      PROVE  \E k \in 1..NBuffers : Requeued(v)[k] = w
  <2>1. PICK k \in 1..NBuffers : free[k] = w
    BY DEF FreeOK
  <2>2. CASE k = p
    BY <1>1, <1>2, <1>7, <2>1, <2>2
  <2>3. CASE k < p
    <3>1. k \in 1..(p - 1) /\ k \in 1..(NBuffers - 1) /\ k \in 1..NBuffers
      BY <1>1, <1>2, <2>3
    <3> QED
      BY <1>6, <1>7, <2>1, <3>1
  <2>4. CASE k > p
    <3>1. /\ k - p \in 1..(NBuffers - p) /\ (p - 1) + (k - p) = k - 1 /\ p + (k - p) = k
          /\ k - 1 \in 1..(NBuffers - 1) /\ k - 1 \in 1..NBuffers
      BY <1>1, <1>2, <2>4
    <3>2. q[k - 1] = free[k]
      BY <1>6, <3>1
    <3> QED
      BY <1>7, <2>1, <3>1, <3>2
  <2> QED
    BY <1>1, <1>2, <2>2, <2>3, <2>4
<1> QED
  BY <1>7, <1>8

LEMMA GetblkTakeKeeps ==
    ASSUME Inv, GetblkTake
    PROVE  Keeps
<1>1. /\ StackOK /\ TypeOK /\ stack # <<>> /\ Top.pc = "victim" /\ ~buf[Top.v].dirt
      /\ UNCHANGED <<disk, inode, last_inode>>
  BY DEF Inv, GetblkTake, At
<1>2. Top.b \in Blocks /\ Top.v \in Buffers
  BY <1>1, FramesSplit DEF FrameOK, GetblkPcs
<1>3. CASE find_buffer(Top.b) # {}
  BY <1>1, <1>3, GetblkAgain DEF GetblkTake, GetblkPcs
<1>4. CASE find_buffer(Top.b) = {}
  <2>1. buf' = Claimed(Top.v, Top.b) /\ free' = Requeued(Top.v) /\ Return(Top.v)
    BY <1>4 DEF GetblkTake
  <2>2. BuffersOK' /\ SameUnder /\ buf' \in [Buffers -> BufRecord]
    BY <1>1, <1>2, <1>4, <2>1, Claim DEF Inv
  <2>3. /\ buf'[Top.v].blk = Top.b /\ buf'[Top.v].count = 1
        /\ \A w \in Buffers : w # Top.v => buf'[w] = buf[w]
    BY <1>1, <1>2, <2>1 DEF Claimed, TypeOK
  <2>4. FreeOK' /\ free' \in Seq(Buffers)
    BY <1>2, <2>1, RequeuedKeepsAll DEF Inv, FreeOK
  <2> QED
    BY <1>1, <1>2, <2>1, <2>2, <2>3, <2>4, Acquires
<1> QED
  BY <1>3, <1>4

LEMMA BreadGotKeeps ==
    ASSUME Inv, BreadGot
    PROVE  Keeps
<1>1. /\ StackOK /\ TypeOK /\ stack # <<>> /\ Top.pc = "bread_got" /\ stack' = Tail(stack)
      /\ Return(ret) /\ UNCHANGED <<disk, free, inode, last_inode>> /\ Steady
  BY DEF Inv, BreadGot, At, Return, Steady
<1>2. /\ ret \in Buffers /\ buf[ret].blk = Top.b
      /\ buf[ret].count = 1 /\ \A v \in Buffers : v # ret => buf[v].count = 0
  BY <1>1, Held DEF Wanted, HoldPcs
<1>3. PICK g \in FrameSet : CalledBy(Top, g) /\ stack' # <<>> /\ Top' = g /\ ret' = ret
  BY <1>1, Caller DEF Top, InnerPcs, BreadPcs, Return
<1>4. g.pc \in ReadPcs /\ Wanted(g)' = Top.b
  <2>1. g.pc \in ReadPcs /\ Wanted(g) = Top.b
    BY <1>1, <1>3 DEF CalledBy, GetblkPcs, BreadPcs, SyncPcs, WritePcs, LoadPcs
  <2> QED
    BY <1>1, <2>1 DEF Wanted
<1>5. /\ BuffersOK' /\ SameUnder /\ buf' \in [Buffers -> BufRecord]
      /\ buf'[ret].blk = buf[ret].blk /\ buf'[ret].uptodate
      /\ \A v \in Buffers : buf'[v].count = buf[v].count
  <2>1. CASE buf[ret].uptodate
    BY <1>1, <2>1, CalmUnchanged DEF BreadGot, Calm
  <2>2. CASE ~buf[ret].uptodate
    <3>1. buf' = Read(ret)
      BY <2>2 DEF BreadGot
    <3>2. /\ buf'[ret].blk = buf[ret].blk /\ buf'[ret].uptodate
          /\ \A v \in Buffers : buf'[v].count = buf[v].count
      BY <1>1, <1>2, <3>1 DEF Read, TypeOK
    <3> QED
      BY <1>1, <1>2, <2>2, <3>1, <3>2, ReadIn DEF Inv
  <2> QED
    BY <2>1, <2>2
<1>6. TopOK'
  BY <1>2, <1>3, <1>4, <1>5 DEF TopOK, At, ReadPcs, Wanted
<1>7. StackOK'
  BY <1>1, PopStack
<1>8. Busy' = Busy
  BY <1>1, PlainPop DEF BusyPcs, LoadPcs
<1>9. CountsOK'
  BY <1>2, <1>3, <1>4, <1>5 DEF CountsOK, InUse, HoldPcs
<1>10. TypeOK' /\ LocksOK' /\ FreeOK'
  BY <1>1, <1>5, <1>8 DEF Inv, LocksOK, TypeOK, BufRecord, FreeOK
<1>11. InodesOK' /\ store' = store
  BY <1>1, <1>5, <1>8, SameBusy, SameInodes DEF Inv, TypeOK
<1> QED
  BY <1>5, <1>6, <1>7, <1>9, <1>10, <1>11 DEF Inv, Keeps

-----------------------------------------------------------------------------
(* A system call stands alone on the stack: what that leaves to be said of *)
(* the stack after its step.                                               *)
LEMMA Idle ==
    ASSUME Inv, stack # <<>>, Top.pc \in CallPcs
    PROVE  Busy = {} /\ \A s \in Slots : ~inode[s].lock /\ ~Loading(s)
<1>1. Busy = {}
  BY Alone DEF Inv, Busy, BusyPcs, LoadPcs, CallPcs, IgetPcs, FilePcs, WriterPcs
<1> QED
  BY <1>1, LoadingFrames DEF Inv, LocksOK, LoadingIs

LEMMA EmptyStack ==
    ASSUME stack = <<>>
    PROVE  StackOK /\ TopOK /\ Frames = {} /\ Busy = {} /\ ~HasBuffer
<1>1. stack \in Seq(FrameSet) /\ Len(stack) = 0
  BY EmptySeq
<1>2. Frames = {}
  BY <1>1 DEF Frames
<1> QED
  BY <1>1, <1>2 DEF StackOK, TopOK, At, Busy, HasBuffer

EmptyIs == stack = <<>> => StackOK /\ TopOK /\ Frames = {} /\ Busy = {} /\ ~HasBuffer

LEMMA EmptyPrimed == EmptyIs'
<1>1. EmptyIs
  BY EmptyStack DEF EmptyIs
<1> QED
  BY <1>1, PTL

LEMMA SoleFrame ==
    ASSUME NEW h \in FrameSet, stack = <<h>>
    PROVE  /\ Top = h /\ Frames = {h} /\ stack # <<>>
           /\ FrameOK(h) /\ h.pc \in CallPcs => StackOK
<1>1. /\ stack \in Seq(FrameSet) /\ Len(stack) = 1 /\ stack[1] = h /\ Top = h
      /\ stack # <<>>
  BY DEF Top
<1>2. Frames = {h}
  BY <1>1 DEF Frames
<1> QED
  BY <1>1, <1>2 DEF StackOK

SoleIs == \A h \in FrameSet : stack = <<h>> =>
    /\ Top = h /\ Frames = {h} /\ stack # <<>>
    /\ FrameOK(h) /\ h.pc \in CallPcs => StackOK

LEMMA SolePrimed == SoleIs'
<1>1. SoleIs
  BY SoleFrame DEF SoleIs
<1> QED
  BY <1>1, PTL

LEMMA Begins ==
    ASSUME Inv, NEW f \in FrameSet, FrameOK(f), f.pc \in CallPcs \ (HoldPcs \cup {"sync_buffers"}),
           Begin(f)
    PROVE  Keeps
<1>1. /\ stack = <<>> /\ stack' = <<f>> /\ UNCHANGED <<disk, buf, free, inode, last_inode>>
      /\ Steady /\ Calm /\ TypeOK
  BY CalmUnchanged DEF Inv, Begin, Steady
<1>2. FrameOK(f)'
  BY <1>1, SteadyFrames
<1>3. Top' = f /\ Frames' = {f} /\ StackOK'
  BY <1>1, <1>2, SolePrimed DEF SoleIs
<1>4. Busy' = {} /\ Busy = {} /\ ~HasBuffer /\ ~HasBuffer'
  BY <1>1, <1>3, EmptyStack DEF Busy, BusyPcs, LoadPcs, CallPcs, IgetPcs, FilePcs, WriterPcs, HasBuffer
<1>5. TopOK'
  BY <1>3 DEF TopOK, At, CallPcs, IgetPcs, FilePcs, WriterPcs
<1> QED
  BY <1>1, <1>3, <1>4, <1>5, QuietStep DEF TypeOK, Keeps

LEMMA CallsKeep ==
    ASSUME Inv, Calls
    PROVE  Keeps
<1>1. ASSUME NEW i \in Inos, Open(i)
      PROVE  Keeps
  <2> DEFINE f == Frame("iget", i, 0, 0)
  <2>1. f \in FrameSet /\ f.pc = "iget" /\ f.b = i
    BY DEF Frame, FrameSet, CallPcs, IgetPcs
  <2>2. FrameOK(f)
    BY <2>1
       DEF FrameOK, GetblkPcs, BreadPcs, WritePcs, LoadPcs, IgetPcs, FilePcs, WriterPcs
  <2> QED
    BY <1>1, <2>1, <2>2, Begins DEF Open, HoldPcs, ReadPcs, CallPcs, IgetPcs
<1>2. ASSUME NEW s \in Slots, Close(s)
      PROVE  Keeps
  <2> DEFINE f == Frame("iput", NoBlock, s, 0)
  <2>1. f \in FrameSet /\ f.pc = "iput" /\ f.s = s
    BY DEF Frame, FrameSet, CallPcs, Slots
  <2>2. FrameOK(f)
    BY <1>2, <2>1
       DEF FrameOK, GetblkPcs, BreadPcs, WritePcs, LoadPcs, IgetPcs, FilePcs, WriterPcs, Close
  <2> QED
    BY <1>2, <2>1, <2>2, Begins DEF Close, HoldPcs, ReadPcs, CallPcs
<1>3. ASSUME NEW s \in Slots, NEW b \in DataBlocks, NEW p \in {"file_read", "file_write", "new_block"},
             NEW v \in Nat \cup Val, p = "file_write" => v \in Val,
             UsedBy(s, b), Begin(Frame(p, b, s, v))
      PROVE  Keeps
  <2> DEFINE f == Frame(p, b, s, v)
  <2>1. f \in FrameSet /\ f.pc = p /\ f.b = b /\ f.s = s /\ f.v = v
    BY DEF Frame, FrameSet, CallPcs, FilePcs, WriterPcs, Slots, Blocks
  <2>2. FrameOK(f)
    BY <1>3, <2>1
       DEF FrameOK, GetblkPcs, BreadPcs, WritePcs, LoadPcs, IgetPcs, FilePcs, WriterPcs
  <2> HIDE DEF f
  <2> QED
    BY <1>3, <2>1, <2>2, Begins DEF f, HoldPcs, ReadPcs, CallPcs, FilePcs, WriterPcs
<1>4. ASSUME Sync
      PROVE  Keeps
  <2> DEFINE f == Frame("sync", NoBlock, 0, 0)
  <2>1. f \in FrameSet /\ f.pc = "sync"
    BY DEF Frame, FrameSet, CallPcs
  <2>2. FrameOK(f)
    BY <2>1
       DEF FrameOK, GetblkPcs, BreadPcs, WritePcs, LoadPcs, IgetPcs, FilePcs, WriterPcs
  <2> QED
    BY <1>4, <2>1, <2>2, Begins DEF Sync, HoldPcs, ReadPcs, CallPcs
<1>5. 0 \in Nat \cup Val
  OBVIOUS
<1> QED
  BY <1>1, <1>2, <1>3, <1>4, <1>5 DEF Calls, FileRead, FileWrite, NewBlock

(* A system call asking for a block, or for a pass over the inodes.        *)
LEMMA Calling ==
    ASSUME Inv, stack # <<>>, Top.pc \in CallPcs \ HoldPcs,
           NEW p \in CallPcs, NEW f \in FrameSet, FrameOK(f),
           f.pc \in InnerPcs \ (HoldPcs \cup {"read_inode"}), f.pc = "sync_inodes" => f.s = 1,
           FrameOK([Top EXCEPT !.pc = p]), CalledBy(f, [Top EXCEPT !.pc = p]),
           Invoke(f, p), UNCHANGED <<disk, buf, free, inode, last_inode>>
    PROVE  Keeps
<1> DEFINE h == [Top EXCEPT !.pc = p]
<1>1. StackOK /\ TypeOK /\ Calm /\ stack' = <<f, h>> \o Tail(stack)
  BY CalmUnchanged DEF Inv, Invoke
<1>2. h \in FrameSet /\ h.pc = p
  BY <1>1, Goes DEF IsMoved, Pcs
<1>3. Inherits(h)
  BY CallGroup
<1>4. FrameOK(h) /\ CalledBy(f, h)
  OBVIOUS
<1> HIDE DEF h
<1>5. h.pc \notin BusyPcs
  BY <1>2 DEF BusyPcs, LoadPcs, CallPcs, IgetPcs, FilePcs, WriterPcs
<1>6. Top.pc \notin HoldPcs \cup {"read_inode"} /\ f.pc # "sync_buffers"
  BY DEF CallPcs, InnerPcs, IgetPcs, FilePcs, WriterPcs, GetblkPcs, BreadPcs, SyncPcs, WritePcs, LoadPcs
<1> QED
  BY <1>1, <1>2, <1>3, <1>4, <1>5, <1>6, QuietPush DEF Keeps, TypeOK

LEMMA FileCallsKeep ==
    ASSUME Inv, \/ At("file_read") /\ Invoke(bread(Top.b), "copied")
                \/ At("file_write") /\ Invoke(bread(Top.b), "store")
                \/ At("new_block") /\ Invoke(getblk(Top.b), "clear"),
           UNCHANGED <<disk, buf, free, inode, last_inode>>
    PROVE  Keeps
<1>1. /\ StackOK /\ stack # <<>> /\ Top.pc \in {"file_read", "file_write", "new_block"}
      /\ Top \in FrameSet /\ FrameOK(Top) /\ Top.b \in DataBlocks
  BY FramesSplit DEF Inv, At, FrameOK, FilePcs, WriterPcs
<1>2. PICK p \in {"copied", "store", "clear"}, f \in {bread(Top.b), getblk(Top.b)} :
         /\ Invoke(f, p)
         /\ p = "store" => Top.pc = "file_write"
         /\ f = IF p = "clear" THEN getblk(Top.b) ELSE bread(Top.b)
  BY DEF At
<1>3. /\ f \in FrameSet /\ FrameOK(f) /\ f.b = Top.b
      /\ f.pc = IF p = "clear" THEN "getblk" ELSE "bread"
  BY <1>1, <1>2, NewFrames DEF Blocks, bread, getblk, Frame
<1> DEFINE h == [Top EXCEPT !.pc = p]
<1>4. IsMoved(h, Top, p, Top.s, Top.v)
  BY <1>1, <1>2, Goes, PcNames
<1>5. FrameOK(h)
  BY <1>1, <1>2, <1>4
     DEF IsMoved, FrameOK, GetblkPcs, BreadPcs, WritePcs, LoadPcs, IgetPcs, FilePcs, WriterPcs
<1>6. CalledBy(f, h)
  BY <1>2, <1>3, <1>4 DEF CalledBy, IsMoved, Wanted, GetblkPcs, BreadPcs, ReadPcs
<1>7. /\ p \in CallPcs /\ Top.pc \in CallPcs \ HoldPcs
      /\ f.pc \in InnerPcs \ (HoldPcs \cup {"read_inode"}) /\ f.pc # "sync_inodes"
  BY <1>1, <1>2, <1>3
     DEF CallPcs, FilePcs, WriterPcs, HoldPcs, ReadPcs, InnerPcs, GetblkPcs, BreadPcs
<1> QED
  BY <1>1, <1>2, <1>3, <1>5, <1>6, <1>7, Calling

LEMMA SyncCallKeeps ==
    ASSUME Inv, At("sync"), Invoke(sync_inodes, "sync_buffers"),
           UNCHANGED <<disk, buf, free, inode, last_inode>>
    PROVE  Keeps
<1>1. StackOK /\ stack # <<>> /\ Top.pc = "sync"
  BY DEF Inv, At
<1> DEFINE h == [Top EXCEPT !.pc = "sync_buffers"]
<1>2. IsMoved(h, Top, "sync_buffers", Top.s, Top.v)
  BY <1>1, Goes, PcNames
<1>3. FrameOK(h)
  BY <1>2
     DEF IsMoved, FrameOK, GetblkPcs, BreadPcs, WritePcs, LoadPcs, IgetPcs, FilePcs, WriterPcs
<1>4. /\ sync_inodes.pc = "sync_inodes" /\ sync_inodes.s = 1
      /\ sync_inodes \in FrameSet /\ FrameOK(sync_inodes)
  BY NewFrames DEF sync_inodes, Frame
<1>5. CalledBy(sync_inodes, h)
  BY <1>2, <1>4 DEF CalledBy, IsMoved
<1>6. /\ "sync_buffers" \in CallPcs /\ Top.pc \in CallPcs \ HoldPcs
      /\ sync_inodes.pc \in InnerPcs \ (HoldPcs \cup {"read_inode"})
  BY <1>1, <1>4 DEF CallPcs, HoldPcs, ReadPcs, InnerPcs
<1> HIDE DEF sync_inodes
<1> QED
  BY <1>1, <1>3, <1>4, <1>5, <1>6, Calling

(* iput and get_empty_inode write the inode back before they go on.        *)
LEMMA WriteBackKeeps ==
    ASSUME Inv, stack # <<>>, NEW p \in {"iput", "empty"}, Top.pc = p,
           Invoke(write_inode(Top.s), p), UNCHANGED <<disk, buf, free, inode, last_inode>>
    PROVE  Keeps
<1>1. StackOK /\ Top \in FrameSet /\ FrameOK(Top) /\ Top.s \in Slots
  BY FramesSplit DEF Inv, FrameOK
<1> DEFINE h == [Top EXCEPT !.pc = p]
           f == write_inode(Top.s)
<1>2. IsMoved(h, Top, p, Top.s, Top.v)
  BY <1>1, Goes, PcNames
<1>3. FrameOK(h)
  BY <1>1, <1>2
     DEF IsMoved, FrameOK, GetblkPcs, BreadPcs, WritePcs, LoadPcs, IgetPcs, FilePcs, WriterPcs
<1>4. f.pc = "write_inode" /\ f \in FrameSet /\ FrameOK(f)
  BY <1>1, NewFrames DEF write_inode, Frame
<1>5. CalledBy(f, h)
  BY <1>2, <1>4 DEF CalledBy, IsMoved, WritePcs
<1>6. p \in CallPcs \ HoldPcs /\ f.pc \in InnerPcs \ (HoldPcs \cup {"read_inode"})
  BY <1>4 DEF CallPcs, IgetPcs, HoldPcs, ReadPcs, InnerPcs, WritePcs
<1> HIDE DEF f
<1> QED
  BY <1>3, <1>4, <1>5, <1>6, Calling DEF f

(* get_empty_inode finds a slot when one is unused.                        *)
LEMMA EmptySlotIsSlot ==
    ASSUME TypeOK, UnusedInodes # {}
    PROVE  EmptySlot \in UnusedInodes /\ EmptySlot \in Slots
<1>1. \A s \in Slots : Order(s) \in 0..(NInodes - 1)
  BY CacheAssumption DEF TypeOK, Order, Slots
<1>2. CASE CleanInodes # {}
  <2> DEFINE O == {Order(s) : s \in CleanInodes}
  <2>1. O \subseteq Nat /\ O # {} /\ CleanInodes \subseteq UnusedInodes /\ UnusedInodes \subseteq Slots
    BY <1>1, <1>2 DEF CleanInodes, UnusedInodes
  <2>2. PICK m \in O : \A n \in O : m <= n
    BY <2>1, LeastNatural
  <2>3. \E s \in CleanInodes : \A t \in CleanInodes : Order(s) <= Order(t)
    BY <2>2
  <2> QED
    BY <1>2, <2>1, <2>3 DEF EmptySlot
<1>3. CASE CleanInodes = {}
  <2> DEFINE O == {(NInodes - 1) - Order(s) : s \in UnusedInodes}
  <2>1. O \subseteq Nat /\ O # {} /\ UnusedInodes \subseteq Slots
    BY <1>1, CacheAssumption DEF UnusedInodes
  <2>2. PICK m \in O : \A n \in O : m <= n
    BY <2>1, LeastNatural
  <2>3. PICK s \in UnusedInodes : m = (NInodes - 1) - Order(s)
    BY <2>2
  <2>4. ASSUME NEW t \in UnusedInodes
        PROVE  Order(s) >= Order(t)
    <3>1. (NInodes - 1) - Order(s) <= (NInodes - 1) - Order(t)
      BY <2>2, <2>3
    <3>2. Order(s) \in Int /\ Order(t) \in Int
      BY <1>1, <2>1, <2>3
    <3> QED
      BY <3>1, <3>2, CacheAssumption
  <2>5. \E u \in UnusedInodes : \A t \in UnusedInodes : Order(u) >= Order(t)
    BY <2>4
  <2> QED
    BY <1>3, <2>1, <2>5 DEF EmptySlot
<1> QED
  BY <1>2, <1>3

LEMMA OnBottom ==
    ASSUME NEW f \in FrameSet, NEW h \in FrameSet
    PROVE  <<h>> \o <<>> = <<h>> /\ <<f, h>> \o <<>> = <<f, h>>
<1>1. <<h>> \in Seq(FrameSet) /\ <<f, h>> \in Seq(FrameSet)
  OBVIOUS
<1> QED
  BY <1>1, ConcatEmptySeq

LEMMA PairFrames ==
    ASSUME NEW f \in FrameSet, NEW h \in FrameSet, stack = <<f, h>>
    PROVE  /\ Top = f /\ Frames = {f, h} /\ stack # <<>>
           /\ FrameOK(f) /\ FrameOK(h) /\ CalledBy(f, h) /\ h.pc \in CallPcs => StackOK
<1>1. /\ stack \in Seq(FrameSet) /\ Len(stack) = 2 /\ stack[1] = f /\ stack[2] = h /\ Top = f
      /\ stack # <<>>
  BY DEF Top
<1>2. \A k \in 1..Len(stack) : k = 1 \/ k = 2
  BY <1>1
<1>3. \A k \in 1..(Len(stack) - 1) : k = 1 /\ k + 1 = 2
  BY <1>1
<1>4. 1 \in 1..Len(stack) /\ 2 \in 1..Len(stack)
  BY <1>1
<1>5. Frames = {f, h}
  BY <1>1, <1>2, <1>4 DEF Frames
<1>6. ASSUME FrameOK(f), FrameOK(h), CalledBy(f, h), h.pc \in CallPcs
      PROVE  StackOK
  <2>1. \A k \in 1..Len(stack) : FrameOK(stack[k])
    BY <1>1, <1>2, <1>6
  <2>2. \A k \in 1..(Len(stack) - 1) : CalledBy(stack[k], stack[k + 1])
    BY <1>1, <1>3, <1>6
  <2> QED
    BY <1>1, <1>6, <2>1, <2>2 DEF StackOK
<1> QED
  BY <1>1, <1>5, <1>6

PairIs == \A f, h \in FrameSet : stack = <<f, h>> =>
    /\ Top = f /\ Frames = {f, h} /\ stack # <<>>
    /\ FrameOK(f) /\ FrameOK(h) /\ CalledBy(f, h) /\ h.pc \in CallPcs => StackOK

LEMMA PairPrimed == PairIs'
<1>1. PairIs
  BY PairFrames DEF PairIs
<1> QED
  BY <1>1, PTL

(* The slot get_empty_inode settles on is cleared.                         *)
LEMMA ClearedKeeps ==
    ASSUME Inv, At("empty"), ~inode[Top.s].dirt, inode[Top.s].count = 0,
           inode' = [inode EXCEPT ![Top.s] = NewSlot], Goto("search"),
           UNCHANGED <<disk, buf, free, last_inode>>
    PROVE  Keeps
<1>1. StackOK /\ TypeOK /\ stack # <<>> /\ Top.pc = "empty" /\ Top.pc \in CallPcs /\ Calm
  BY CalmUnchanged DEF Inv, At, CallPcs, IgetPcs
<1>2. PICK s \in Slots : s = Top.s
  BY <1>1, FramesSplit DEF FrameOK
<1>3. PICK h \in FrameSet : /\ stack' = <<h>> /\ h.pc = "search" /\ h.s = s /\ h.b \in Inos
  <2>1. IsMoved([Top EXCEPT !.pc = "search"], Top, "search", Top.s, Top.v)
    BY <1>1, Goes, PcNames
  <2>2. Tail(stack) = <<>> /\ Top.b \in Inos
    BY <1>1, Alone, FramesSplit DEF FrameOK, IgetPcs
  <2>3. stack' = <<[Top EXCEPT !.pc = "search"]>>
    BY <2>1, <2>2, OnBottom DEF Goto, IsMoved
  <2> QED
    BY <1>2, <2>1, <2>2, <2>3 DEF IsMoved
<1>4. /\ inode'[s] = NewSlot /\ \A t \in Slots : t # s => inode'[t] = inode[t]
      /\ ~inode[s].dirt /\ inode \in [Slots -> InodeRecord]
  BY <1>1, <1>2 DEF TypeOK, InodeRecord
<1>5. /\ inode'[s].num = NoBlock /\ inode'[s].count = 1 /\ ~inode'[s].dirt /\ ~inode'[s].lock
      /\ NewSlot \in InodeRecord
  BY <1>4, CacheAssumption DEF NewSlot, InodeRecord
<1>6. inode' \in [Slots -> InodeRecord]
  BY <1>2, <1>4, <1>5
<1>7. FrameOK(h)'
  BY <1>2, <1>3, <1>5
     DEF FrameOK, GetblkPcs, BreadPcs, WritePcs, LoadPcs, IgetPcs, FilePcs, WriterPcs
<1>8. StackOK' /\ Top' = h /\ Frames' = {h} /\ stack' # <<>>
  BY <1>3, <1>7, SolePrimed DEF SoleIs, CallPcs, IgetPcs
<1>9. Busy' = {} /\ ~HasBuffer /\ ~HasBuffer' /\ TopOK'
  BY <1>1, <1>3, <1>8 DEF Busy, BusyPcs, LoadPcs, HasBuffer, HoldPcs, ReadPcs, TopOK, At
<1>10. \A t \in Slots : ~inode[t].lock /\ ~Loading(t) /\ ~Loading(t)'
  BY <1>1, <1>9, Idle, PrimedFacts DEF LoadingIs
<1>11. LocksOK'
  BY <1>4, <1>5, <1>9, <1>10 DEF LocksOK
<1>12. CountsOK'
  BY <1>1, <1>9 DEF Inv, CountsOK, Calm, InUse, HasBuffer
<1>13. TypeOK'
  BY <1>1, <1>6 DEF TypeOK, Calm, BufRecord, InodeRecord
<1>14. FreeOK' /\ BuffersOK' /\ \A c \in Cells : Under(c)' = Under(c)
  BY <1>1 DEF Inv, FreeOK, Calm, SameUnder
<1>15. \A t \in Slots : inode[t].num # NoBlock => inode[t].num \in Cells
  BY <1>4, BlockOfCell DEF InodeRecord
<1>16. InodesOK'
  <2>1. ASSUME NEW t \in Slots, inode'[t].num # NoBlock, ~inode'[t].dirt
        PROVE  inode'[t].val = Under(inode[t].num)'
    <3>1. t # s /\ inode'[t] = inode[t]
      BY <1>4, <1>5, <2>1
    <3>2. PICK c \in Cells : c = inode'[t].num
      BY <1>15, <2>1, <3>1
    <3>3. inode'[t].val = Under(c)
      BY <1>10, <2>1, <3>1, <3>2 DEF Inv, InodesOK
    <3> QED
      BY <1>14, <3>2, <3>3
  <2>2. \A t \in Slots : inode'[t].dirt => inode'[t].num # NoBlock /\ inode'[t].count > 0
    BY <1>4, <1>5 DEF Inv, InodesOK
  <2>3. \A t, u \in Slots : inode'[t].num = inode'[u].num /\ inode'[t].num # NoBlock => t = u
    BY <1>4, <1>5 DEF Inv, InodesOK
  <2> QED
    BY <2>1, <2>2, <2>3 DEF InodesOK
<1>17. store' = store
  <2>1. StoreIs /\ StoreIs'
    BY <1>16, StoreUnique, PrimedFacts DEF Inv
  <2>2. ASSUME NEW c \in Cells
        PROVE  store'[c] = store[c]
    <3>1. CASE c \in Inos /\ inode[s].num = c
      <4>1. store[c] = inode[s].val /\ inode[s].val = Under(c)
        BY <1>4, <1>10, <2>1, <3>1, BlockOfCell DEF StoreIs, Inv, InodesOK
      <4>2. \A t \in Slots : inode'[t].num # c
        BY <1>4, <1>5, <3>1, BlockOfCell DEF Inv, InodesOK
      <4> QED
        BY <1>14, <2>1, <4>1, <4>2 DEF StoreIs
    <3>2. CASE c \in Inos /\ inode[s].num # c /\ \E t \in Slots : inode[t].num = c
      <4>1. PICK t \in Slots : inode[t].num = c /\ t # s
        BY <3>2
      <4> QED
        BY <1>4, <1>10, <2>1, <3>2, <4>1 DEF StoreIs
    <3>3. CASE c \notin Inos \/ \A t \in Slots : inode[t].num # c
      <4>1. c \notin Inos \/ \A t \in Slots : inode'[t].num # c
        BY <1>4, <1>5, <3>3, BlockOfCell
      <4> QED
        BY <1>14, <2>1, <3>3, <4>1 DEF StoreIs
    <3> QED
      BY <3>1, <3>2, <3>3
  <2> QED
    BY <2>2, SameStore
<1> QED
  BY <1>8, <1>9, <1>11, <1>12, <1>13, <1>14, <1>16, <1>17 DEF Inv, Keeps

LEMMA GetEmptyInodeKeeps ==
    ASSUME Inv, GetEmptyInode
    PROVE  Keeps
<1>1. CASE /\ At("iget") /\ UnusedInodes # {}
           /\ last_inode' = IF CleanInodes # {} THEN EmptySlot ELSE last_inode
           /\ stack' = <<[Top EXCEPT !.pc = "empty", !.s = EmptySlot]>> \o Tail(stack)
           /\ UNCHANGED <<disk, buf, free, inode, ret>>
  <2>1. PICK s \in Slots : s = EmptySlot
    BY <1>1, EmptySlotIsSlot DEF Inv
  <2>2. StackOK /\ TypeOK /\ stack # <<>> /\ Top.pc = "iget" /\ Calm /\ last_inode' \in Slots
    BY <1>1, <2>1, CalmUnchanged DEF Inv, At, TypeOK
  <2>3. Top \in FrameSet /\ FrameOK(Top) /\ Top.b \in Inos
    BY <2>2, FramesSplit DEF FrameOK, IgetPcs
  <2> DEFINE h == [Top EXCEPT !.pc = "empty", !.s = s]
  <2>4. IsMoved(h, Top, "empty", s, Top.v)
    <3>1. s \in Nat /\ "empty" \in Pcs /\ Top.v \in Nat \cup Val
      BY <2>3, PcNames DEF FrameSet, Slots
    <3> QED
      BY <2>3, <3>1, Moved, Zenon
  <2>5. FrameOK(h)
    BY <2>3, <2>4
       DEF IsMoved, FrameOK, GetblkPcs, BreadPcs, WritePcs, LoadPcs, IgetPcs, FilePcs, WriterPcs
  <2>6. Inherits(h)
    BY <2>2, CallGroup DEF CallPcs, IgetPcs
  <2>7. stack' = <<h>> \o Tail(stack)
    BY <1>1, <2>1
  <2> HIDE DEF h
  <2> QED
    BY <1>1, <2>2, <2>4, <2>5, <2>6, <2>7, QuietReplace
       DEF Keeps, HoldPcs, ReadPcs, CallPcs, IgetPcs, IsMoved
<1>2. CASE /\ At("empty") /\ inode[Top.s].dirt /\ Invoke(write_inode(Top.s), "empty")
           /\ UNCHANGED <<disk, buf, free, inode, last_inode, ret>>
  BY <1>2, WriteBackKeeps DEF At
<1>3. CASE /\ At("empty") /\ Goto("iget") /\ UNCHANGED <<disk, buf, free, inode, last_inode, ret>>
  <2>1. StackOK /\ TypeOK /\ stack # <<>> /\ Top.pc = "empty" /\ Calm
    BY <1>3, CalmUnchanged DEF Inv, At
  <2> DEFINE h == [Top EXCEPT !.pc = "iget"]
  <2>2. IsMoved(h, Top, "iget", Top.s, Top.v) /\ Top.b \in Inos
    BY <2>1, Goes, PcNames, FramesSplit DEF FrameOK, IgetPcs
  <2>3. FrameOK(h)
    BY <2>2
       DEF IsMoved, FrameOK, GetblkPcs, BreadPcs, WritePcs, LoadPcs, IgetPcs, FilePcs, WriterPcs
  <2>4. Inherits(h)
    BY <2>1, CallGroup DEF CallPcs, IgetPcs
  <2>5. stack' = <<h>> \o Tail(stack) /\ last_inode' \in Slots
    BY <1>3, <2>1 DEF Goto, TypeOK
  <2> HIDE DEF h
  <2> QED
    BY <1>3, <2>1, <2>2, <2>3, <2>4, <2>5, QuietReplace
       DEF Keeps, HoldPcs, ReadPcs, CallPcs, IgetPcs, IsMoved
<1>4. CASE /\ At("empty") /\ ~inode[Top.s].dirt /\ inode[Top.s].count = 0
           /\ inode' = [inode EXCEPT ![Top.s] = NewSlot] /\ Goto("search")
           /\ UNCHANGED <<disk, buf, free, last_inode, ret>>
  BY <1>4, ClearedKeeps
<1> QED
  BY <1>1, <1>2, <1>3, <1>4 DEF GetEmptyInode

(* The end of a call that changed at most the references.                  *)
LEMMA Counted ==
    ASSUME Inv, stack # <<>>, Top.pc \in CallPcs, NEW r, Return(r),
           BuffersOK', SameUnder, buf' \in [Buffers -> BufRecord], CountsOK',
           inode' \in [Slots -> InodeRecord],
           \A s \in Slots : /\ inode'[s].num = inode[s].num /\ inode'[s].dirt = inode[s].dirt
                            /\ inode'[s].val = inode[s].val /\ inode'[s].lock = inode[s].lock
                            /\ inode'[s].dirt => inode'[s].count > 0,
           UNCHANGED <<disk, free, last_inode>>
    PROVE  Keeps
<1>1. TypeOK /\ StackOK /\ stack' = <<>>
  BY Alone DEF Inv, Return
<1>2. StackOK' /\ TopOK' /\ Busy' = {}
  BY <1>1, EmptyPrimed DEF EmptyIs
<1>3. \A s \in Slots : ~inode[s].lock /\ ~Loading(s) /\ ~Loading(s)'
  BY <1>2, Idle, PrimedFacts DEF LoadingIs
<1>4. LocksOK'
  BY <1>2, <1>3 DEF LocksOK
<1>5. InodesOK' /\ store' = store
  BY <1>1, <1>3, ShiftedInodes DEF Inv, TypeOK
<1>6. TypeOK' /\ FreeOK'
  BY <1>1 DEF Inv, TypeOK, BufRecord, InodeRecord, FreeOK
<1> QED
  BY <1>2, <1>4, <1>5, <1>6 DEF Inv, Keeps

(* Nothing in use before, and no buffer touched.                           *)
LEMMA StillUnused ==
    ASSUME Inv, stack # <<>>, Top.pc \in CallPcs \ HoldPcs, NEW r, Return(r), UNCHANGED buf
    PROVE  CountsOK'
<1>1. stack' = <<>> /\ ~HasBuffer
  BY Alone DEF Inv, Return, HasBuffer
<1> QED
  BY <1>1 DEF Inv, CountsOK, InUse, HasBuffer

LEMMA IgetSharedKeeps ==
    ASSUME Inv, At("search"), NEW s \in Slots, inode[s].num = Top.b,
           inode' = [inode EXCEPT ![s].count = @ + 1, ![Top.s].count = @ - 1], Return(s),
           UNCHANGED <<disk, buf, free, last_inode>>
    PROVE  Keeps
<1>1. /\ StackOK /\ TypeOK /\ stack # <<>> /\ Top.pc = "search" /\ Top.pc \in CallPcs \ HoldPcs
      /\ Calm
  BY CalmUnchanged DEF Inv, At, CallPcs, IgetPcs, HoldPcs, ReadPcs
<1>2. PICK e \in Slots : e = Top.s
  BY <1>1, FramesSplit DEF FrameOK
<1>3. /\ inode[e].num = NoBlock /\ inode[e].count > 0 /\ ~inode[e].dirt
      /\ inode[s].num # NoBlock /\ inode \in [Slots -> InodeRecord]
  BY <1>1, <1>2, FramesSplit, BlockOfCell DEF FrameOK, IgetPcs, TypeOK, InodeRecord
<1>4. /\ inode'[s] = [inode[s] EXCEPT !.count = @ + 1]
      /\ inode'[e] = [inode[e] EXCEPT !.count = @ - 1]
      /\ \A t \in Slots : t # s /\ t # e => inode'[t] = inode[t]
      /\ s # e
  BY <1>2, <1>3
<1>5. inode[s] \in InodeRecord /\ inode[e] \in InodeRecord
  BY <1>2, <1>3
<1>6. /\ inode'[s].num = inode[s].num /\ inode'[s].dirt = inode[s].dirt
      /\ inode'[s].val = inode[s].val /\ inode'[s].lock = inode[s].lock
      /\ inode'[s].count = inode[s].count + 1 /\ inode'[s] \in InodeRecord
  BY <1>4, <1>5 DEF InodeRecord
<1>7. /\ inode'[e].num = inode[e].num /\ inode'[e].dirt = inode[e].dirt
      /\ inode'[e].val = inode[e].val /\ inode'[e].lock = inode[e].lock
      /\ inode'[e] \in InodeRecord
  BY <1>3, <1>4, <1>5 DEF InodeRecord
<1>8. inode' \in [Slots -> InodeRecord]
  BY <1>2, <1>3, <1>4, <1>6, <1>7
<1>9. ASSUME NEW t \in Slots
      PROVE  /\ inode'[t].num = inode[t].num /\ inode'[t].dirt = inode[t].dirt
             /\ inode'[t].val = inode[t].val /\ inode'[t].lock = inode[t].lock
             /\ inode'[t].dirt => inode'[t].count > 0
  <2>1. CASE t = s
    BY <1>5, <1>6, <2>1 DEF InodeRecord
  <2>2. CASE t = e
    BY <1>3, <1>7, <2>2
  <2>3. CASE t # s /\ t # e
    BY <1>4, <2>3 DEF Inv, InodesOK
  <2> QED
    BY <2>1, <2>2, <2>3
<1>10. CountsOK'
  BY <1>1, StillUnused
<1> QED
  BY <1>1, <1>8, <1>9, <1>10, Counted DEF Calm

LEMMA IgetLoadedKeeps ==
    ASSUME Inv, At("loaded"), NEW r, Return(r), UNCHANGED <<disk, buf, free, inode, last_inode>>
    PROVE  Keeps
<1>1. stack # <<>> /\ Top.pc \in CallPcs \ HoldPcs /\ Calm /\ TypeOK
  BY CalmUnchanged DEF Inv, At, CallPcs, IgetPcs, HoldPcs, ReadPcs
<1>2. CountsOK'
  BY <1>1, StillUnused
<1>3. inode' \in [Slots -> InodeRecord] /\ \A s \in Slots : inode'[s].dirt => inode'[s].count > 0
  BY <1>1 DEF TypeOK, InodeRecord, Inv, InodesOK
<1> QED
  BY <1>1, <1>2, <1>3, Counted DEF Calm

LEMMA IputKeeps ==
    ASSUME Inv, Iput
    PROVE  Keeps
<1>1. stack # <<>> /\ Top.pc = "iput" /\ Top.pc \in CallPcs \ HoldPcs /\ TypeOK /\ StackOK
  BY DEF Inv, Iput, At, CallPcs, HoldPcs, ReadPcs
<1>2. CASE /\ inode[Top.s].count > 1 \/ ~inode[Top.s].dirt
           /\ inode' = [inode EXCEPT ![Top.s].count = @ - 1] /\ Return(0)
  <2>1. PICK s \in Slots : s = Top.s
    BY <1>1, FramesSplit DEF FrameOK
  <2>2. /\ inode \in [Slots -> InodeRecord] /\ inode[s] \in InodeRecord /\ inode[s].count > 0
        /\ inode[s].count > 1 \/ ~inode[s].dirt
    BY <1>1, <1>2, <2>1, FramesSplit DEF FrameOK, TypeOK, InodeRecord
  <2>3. /\ inode'[s] = [inode[s] EXCEPT !.count = @ - 1]
        /\ \A t \in Slots : t # s => inode'[t] = inode[t]
    BY <1>2, <2>1, <2>2
  <2>4. /\ inode'[s].num = inode[s].num /\ inode'[s].dirt = inode[s].dirt
        /\ inode'[s].val = inode[s].val /\ inode'[s].lock = inode[s].lock
        /\ inode'[s].count = inode[s].count - 1 /\ inode'[s] \in InodeRecord
    BY <2>2, <2>3 DEF InodeRecord
  <2>5. inode' \in [Slots -> InodeRecord]
    BY <1>2, <2>1, <2>2, <2>3, <2>4
  <2>6. ASSUME NEW t \in Slots
        PROVE  /\ inode'[t].num = inode[t].num /\ inode'[t].dirt = inode[t].dirt
               /\ inode'[t].val = inode[t].val /\ inode'[t].lock = inode[t].lock
               /\ inode'[t].dirt => inode'[t].count > 0
    <3>1. CASE t = s
      BY <2>2, <2>4, <3>1 DEF InodeRecord
    <3>2. CASE t # s
      BY <2>3, <3>2 DEF Inv, InodesOK
    <3> QED
      BY <3>1, <3>2
  <2>7. CountsOK' /\ Calm
    BY <1>1, <1>2, StillUnused, CalmUnchanged DEF Iput
  <2> QED
    BY <1>1, <1>2, <2>5, <2>6, <2>7, Counted DEF Calm, Iput
<1>3. CASE Invoke(write_inode(Top.s), "iput") /\ UNCHANGED <<inode, ret>>
  BY <1>1, <1>3, WriteBackKeeps DEF Iput
<1> QED
  BY <1>2, <1>3 DEF Iput

(* An inode not in the table is given its slot, to be read.                *)
LEMMA IgetMissKeeps ==
    ASSUME Inv, At("search"), Holding(Top.b) = {}, inode' = [inode EXCEPT ![Top.s].num = Top.b],
           Invoke(read_inode(Top.s), "loaded"), UNCHANGED <<disk, buf, free, last_inode>>
    PROVE  Keeps
<1>1. StackOK /\ TypeOK /\ stack # <<>> /\ Top.pc = "search" /\ Top.pc \in CallPcs /\ Calm
  BY CalmUnchanged DEF Inv, At, CallPcs, IgetPcs
<1>2. PICK s \in Slots, i \in Inos : s = Top.s /\ i = Top.b
  BY <1>1, FramesSplit DEF FrameOK, IgetPcs
<1>3. /\ inode \in [Slots -> InodeRecord] /\ inode[s] \in InodeRecord
      /\ inode[s].num = NoBlock /\ ~inode[s].dirt /\ \A t \in Slots : inode[t].num # i
  BY <1>1, <1>2, FramesSplit DEF FrameOK, TypeOK, InodeRecord, Holding
<1>4. /\ inode'[s] = [inode[s] EXCEPT !.num = i] /\ \A t \in Slots : t # s => inode'[t] = inode[t]
  BY <1>2, <1>3
<1>5. /\ inode'[s].num = i /\ inode'[s].count = inode[s].count /\ ~inode'[s].dirt
      /\ inode'[s].lock = inode[s].lock /\ inode'[s] \in InodeRecord
  BY <1>3, <1>4 DEF InodeRecord
<1>6. inode' \in [Slots -> InodeRecord]
  BY <1>2, <1>3, <1>4, <1>5
<1>7. PICK h \in FrameSet, f \in FrameSet :
         /\ stack' = <<f, h>> /\ h.pc = "loaded" /\ h.s = s /\ h.b = i
         /\ f.pc = "read_inode" /\ f.s = s
  <2>1. IsMoved([Top EXCEPT !.pc = "loaded"], Top, "loaded", Top.s, Top.v)
    BY <1>1, Goes, PcNames
  <2>2. Tail(stack) = <<>>
    BY <1>1, Alone
  <2>3. /\ read_inode(s) \in FrameSet /\ read_inode(s).pc = "read_inode" /\ read_inode(s).s = s
    BY NewFrames DEF read_inode, Frame
  <2>4. stack' = <<read_inode(s), [Top EXCEPT !.pc = "loaded"]>>
    BY <1>2, <2>1, <2>2, <2>3, OnBottom DEF Invoke, IsMoved
  <2> QED
    BY <1>2, <2>1, <2>3, <2>4 DEF IsMoved
<1>8. FrameOK(f)' /\ FrameOK(h)' /\ CalledBy(f, h)'
  BY <1>5, <1>7
     DEF FrameOK, CalledBy, GetblkPcs, BreadPcs, WritePcs, LoadPcs, IgetPcs, FilePcs, WriterPcs
<1>9. StackOK' /\ Top' = f /\ Frames' = {f, h} /\ stack' # <<>>
  BY <1>7, <1>8, PairPrimed DEF PairIs, CallPcs, IgetPcs
<1>10. Busy' = {f} /\ ~HasBuffer /\ ~HasBuffer' /\ TopOK'
  BY <1>1, <1>7, <1>9 DEF Busy, BusyPcs, LoadPcs, HasBuffer, HoldPcs, ReadPcs, TopOK, At
<1>11. \A t \in Slots : ~inode[t].lock /\ ~Loading(t) /\ (Loading(t)' <=> t = s)
  BY <1>1, <1>7, <1>10, Idle, PrimedFacts DEF LoadingIs, LoadPcs
<1>12. LocksOK'
  BY <1>4, <1>5, <1>7, <1>10, <1>11 DEF LocksOK
<1>13. CountsOK'
  BY <1>1, <1>10 DEF Inv, CountsOK, Calm, InUse, HasBuffer
<1>14. TypeOK'
  BY <1>1, <1>6 DEF TypeOK, Calm, BufRecord, InodeRecord
<1>15. FreeOK' /\ BuffersOK' /\ \A c \in Cells : Under(c)' = Under(c)
  BY <1>1 DEF Inv, FreeOK, Calm, SameUnder
<1>16. \A t \in Slots : inode[t].num # NoBlock => inode[t].num \in Cells
  BY <1>3, BlockOfCell DEF InodeRecord
<1>17. InodesOK'
  <2>1. ASSUME NEW t \in Slots, inode'[t].num # NoBlock, ~inode'[t].dirt, ~Loading(t)'
        PROVE  inode'[t].val = Under(inode[t].num)'
    <3>1. t # s /\ inode'[t] = inode[t]
      BY <1>4, <1>11, <2>1
    <3>2. PICK c \in Cells : c = inode'[t].num
      BY <1>16, <2>1, <3>1
    <3>3. inode'[t].val = Under(c)
      BY <1>11, <2>1, <3>1, <3>2 DEF Inv, InodesOK
    <3> QED
      BY <1>15, <3>2, <3>3
  <2>2. \A t \in Slots : inode'[t].dirt => inode'[t].num # NoBlock /\ inode'[t].count > 0
    BY <1>4, <1>5 DEF Inv, InodesOK
  <2>3. \A t, u \in Slots : inode'[t].num = inode'[u].num /\ inode'[t].num # NoBlock => t = u
    BY <1>3, <1>4, <1>5 DEF Inv, InodesOK
  <2> QED
    BY <2>1, <2>2, <2>3 DEF InodesOK
<1>18. store' = store
  <2>1. StoreIs /\ StoreIs'
    BY <1>17, StoreUnique, PrimedFacts DEF Inv
  <2>2. ASSUME NEW c \in Cells
        PROVE  store'[c] = store[c]
    <3>1. CASE c \in Inos /\ \E t \in Slots : inode[t].num = c
      <4>1. PICK t \in Slots : inode[t].num = c /\ t # s
        BY <1>3, <3>1, BlockOfCell
      <4>2. inode'[t] = inode[t] /\ ~Loading(t) /\ ~Loading(t)'
        BY <1>4, <1>11, <4>1
      <4>3. store[c] = inode[t].val
        BY <2>1, <3>1, <4>1, <4>2 DEF StoreIs
      <4>4. store'[c] = inode'[t].val
        BY <2>1, <3>1, <4>1, <4>2 DEF StoreIs
      <4> QED
        BY <4>2, <4>3, <4>4
    <3>2. CASE c \notin Inos \/ \A t \in Slots : inode[t].num # c
      <4>1. c \notin Inos \/ \A t \in Slots : ~(inode'[t].num = c /\ ~Loading(t)')
        BY <1>4, <1>11, <3>2
      <4> QED
        BY <1>15, <2>1, <3>2, <4>1 DEF StoreIs
    <3> QED
      BY <3>1, <3>2
  <2> QED
    BY <2>2, SameStore
<1> QED
  BY <1>9, <1>10, <1>12, <1>13, <1>14, <1>15, <1>17, <1>18 DEF Inv, Keeps

LEMMA IgetKeeps ==
    ASSUME Inv, Iget
    PROVE  Keeps
<1>1. CASE /\ At("search")
           /\ \E s \in Holding(Top.b) :
                 /\ inode' = [inode EXCEPT ![s].count = @ + 1, ![Top.s].count = @ - 1]
                 /\ Return(s)
           /\ UNCHANGED <<disk, buf, free, last_inode>>
  <2>1. PICK s \in Slots :
           /\ inode[s].num = Top.b
           /\ inode' = [inode EXCEPT ![s].count = @ + 1, ![Top.s].count = @ - 1]
           /\ Return(s)
    BY <1>1 DEF Holding
  <2> QED
    BY <1>1, <2>1, IgetSharedKeeps
<1>2. CASE /\ At("search") /\ Holding(Top.b) = {}
           /\ inode' = [inode EXCEPT ![Top.s].num = Top.b]
           /\ Invoke(read_inode(Top.s), "loaded")
           /\ UNCHANGED <<disk, buf, free, last_inode, ret>>
  BY <1>2, IgetMissKeeps
<1>3. CASE At("loaded") /\ Return(Top.s) /\ UNCHANGED <<disk, buf, free, inode, last_inode>>
  <2>1. PICK r : r = Top.s
    OBVIOUS
  <2>2. Return(r)
    BY <1>3, <2>1
  <2> QED
    BY <1>3, <2>2, IgetLoadedKeeps
<1> QED
  BY <1>1, <1>2, <1>3 DEF Iget

(* A buffer released at the end of a read.                                 *)
LEMMA CopiedKeeps ==
    ASSUME Inv, At("copied"), buf' = brelse(ret), Return(0),
           UNCHANGED <<disk, free, inode, last_inode>>
    PROVE  Keeps
<1>1. /\ stack # <<>> /\ Top.pc = "copied" /\ Top.pc \in CallPcs /\ TypeOK /\ StackOK
      /\ stack' = <<>>
  BY Alone DEF Inv, At, CallPcs, FilePcs, Return
<1>2. /\ ret \in Buffers /\ buf[ret].count = 1 /\ buf \in [Buffers -> BufRecord]
      /\ buf[ret] \in BufRecord
  BY <1>1, Held DEF TypeOK, BufRecord, HoldPcs, ReadPcs
<1>3. /\ buf'[ret] = [buf[ret] EXCEPT !.count = @ - 1]
      /\ \A w \in Buffers : w # ret => buf'[w] = buf[w]
  BY <1>2 DEF brelse
<1>4. /\ buf'[ret] \in BufRecord /\ buf'[ret].count = buf[ret].count - 1
      /\ buf'[ret].blk = buf[ret].blk /\ buf'[ret].data = buf[ret].data
      /\ buf'[ret].dirt = buf[ret].dirt /\ buf'[ret].uptodate = buf[ret].uptodate
  BY <1>2, <1>3 DEF BufRecord
<1>5. buf' \in [Buffers -> BufRecord]
  BY <1>2, <1>3, <1>4 DEF brelse
<1>6. BuffersOK' /\ SameUnder
  BY <1>3, <1>4, CountsOnly DEF Inv
<1>7. CountsOK'
  <2>1. ~HasBuffer'
    BY <1>1, EmptyPrimed DEF EmptyIs
  <2> QED
    BY <1>1, <1>3, <1>4, <2>1, Releases DEF HoldPcs, ReadPcs
<1>8. inode' \in [Slots -> InodeRecord] /\ \A s \in Slots : inode'[s].dirt => inode'[s].count > 0
  BY <1>1 DEF TypeOK, InodeRecord, Inv, InodesOK
<1> QED
  BY <1>1, <1>5, <1>6, <1>7, <1>8, Counted

(* The last pass of sys_sync: afterwards the disk holds the contents.      *)
LEMMA SyncBuffersKeeps ==
    ASSUME Inv, At("sync_buffers"), Flush, Return(0), UNCHANGED <<free, inode, last_inode>>
    PROVE  Keeps /\ disk' = store
<1>1. /\ stack # <<>> /\ Top.pc = "sync_buffers" /\ Top.pc \in CallPcs \ HoldPcs /\ TypeOK /\ StackOK
      /\ stack' = <<>> /\ Calm
  BY Alone, CalmFlush DEF Inv, At, CallPcs, HoldPcs, ReadPcs, Return
<1>2. StackOK' /\ TopOK' /\ Busy' = {} /\ ~HasBuffer /\ ~HasBuffer' /\ last_inode' \in Slots
  BY <1>1, EmptyPrimed DEF EmptyIs, HasBuffer, TypeOK
<1>3. Busy = {} /\ \A s \in Slots : ~Loading(s)
  BY <1>1, Idle
<1>4. Keeps
  BY <1>1, <1>2, <1>3, QuietStep DEF Keeps
<1>5. \A s \in Slots : ~inode[s].dirt
  BY <1>1 DEF Inv, TopOK, At
<1>6. \A c \in Cells : disk'[c] = Under(c)
  BY Flushed DEF Inv
<1>7. \A c \in Cells : store[c] = Under(c)
  BY <1>3, <1>5, StoreUnique, BlockOfCell DEF StoreIs, Inv, InodesOK
<1>8. store = [c \in Cells |-> store[c]]
  BY DEF store
<1>9. disk' = [c \in Cells |-> disk'[c]]
  <2>1. disk' \in [Cells -> Val]
    BY <1>1 DEF Calm
  <2> QED
    BY <2>1
<1> QED
  BY <1>4, <1>6, <1>7, <1>8, <1>9

(* A call that writes its cell, and perhaps the inode of the file, ends.   *)
LEMMA Writes ==
    ASSUME Inv, stack # <<>>, Top.pc \in {"store", "clear"}, Return(0),
           NEW d \in DataBlocks, d = Top.b, NEW s \in Slots, s = Top.s, NEW x \in Val,
           Wrote(ret, d, x), buf' \in [Buffers -> BufRecord], buf'[ret].count = buf[ret].count - 1,
           inode' \in [Slots -> InodeRecord],
           inode'[s].num = inode[s].num, inode'[s].count = inode[s].count,
           inode'[s].lock = inode[s].lock,
           inode'[s] = inode[s] \/ inode'[s].dirt,
           \A t \in Slots : t # s => inode'[t] = inode[t],
           UNCHANGED <<disk, free, last_inode>>
    PROVE  /\ Inv' /\ inode[s].num \in Inos /\ store[inode[s].num] = inode[s].val
           /\ \A c \in Cells : store'[c] =
                 IF c = d THEN x ELSE IF c = inode[s].num THEN inode'[s].val ELSE store[c]
<1>1. /\ Top.pc \in CallPcs /\ Top.pc \in FilePcs /\ TypeOK /\ StackOK /\ stack' = <<>>
      /\ FrameOK(Top)
  BY Alone, FramesSplit DEF Inv, CallPcs, FilePcs, WriterPcs, Return
<1>2. PICK i \in Inos : i = inode[s].num /\ inode[s].count > 0 /\ i # NoBlock /\ i \in Cells
  BY <1>1, BlockOfCell, CacheAssumption DEF FrameOK, UsedBy
<1>3. /\ ret \in Buffers /\ buf[ret].blk = d /\ d \in Cells /\ BlockOf(d) = d /\ d \notin Inos
      /\ d # i
  BY <1>1, Held, BlockOfCell DEF HoldPcs, ReadPcs, Wanted
<1>4. BuffersOK' /\ \A c \in Cells : Under(c)' = IF c = d THEN x ELSE Under(c)
  BY <1>3, CellWritten DEF Inv
<1>5. StackOK' /\ TopOK' /\ Busy' = {} /\ ~HasBuffer'
  BY <1>1, EmptyPrimed DEF EmptyIs
<1>6. \A t \in Slots : ~inode[t].lock /\ ~Loading(t) /\ ~Loading(t)'
  BY <1>1, <1>5, Idle, PrimedFacts DEF LoadingIs
<1>7. \A t \in Slots : inode'[t].num = inode[t].num /\ ~inode'[t].lock
  BY <1>6
<1>8. LocksOK' /\ FreeOK' /\ TypeOK'
  BY <1>1, <1>5, <1>7 DEF LocksOK, FreeOK, TypeOK, Inv, BufRecord, InodeRecord
<1>9. CountsOK'
  BY <1>5, Releases DEF HoldPcs, ReadPcs, Wrote
<1>10. \A t \in Slots : t # s /\ inode[t].num # NoBlock =>
          inode[t].num # i /\ inode[t].num # d /\ inode[t].num \in Cells
  BY <1>1, <1>2, <1>3, BlockOfCell DEF Inv, InodesOK, TypeOK
<1>11. InodesOK'
  <2>1. ASSUME NEW t \in Slots, inode'[t].num # NoBlock, ~inode'[t].dirt
        PROVE  inode'[t].val = Under(inode[t].num)'
    <3>1. inode'[t] = inode[t]
      BY <2>1
    <3>2. PICK c \in Cells : c = inode'[t].num /\ c # d
      BY <1>2, <1>3, <1>10, <2>1, <3>1
    <3>3. inode'[t].val = Under(c)
      BY <1>6, <2>1, <3>1, <3>2 DEF Inv, InodesOK
    <3> QED
      BY <1>4, <3>2, <3>3
  <2>2. \A t \in Slots : inode'[t].dirt => inode'[t].num # NoBlock /\ inode'[t].count > 0
    BY <1>2 DEF Inv, InodesOK
  <2>3. \A t, u \in Slots : inode'[t].num = inode'[u].num /\ inode'[t].num # NoBlock => t = u
    BY <1>7 DEF Inv, InodesOK
  <2> QED
    BY <2>1, <2>2, <2>3 DEF InodesOK
<1>12. ASSUME NEW c \in Cells
       PROVE  /\ c = i => store[c] = inode[s].val
              /\ store'[c] = IF c = d THEN x ELSE IF c = i THEN inode'[s].val ELSE store[c]
  <2>1. StoreIs /\ StoreIs'
    BY <1>11, StoreUnique, PrimedFacts DEF Inv
  <2>2. CASE c = i
    <3>1. store[c] = inode[s].val /\ store'[c] = inode'[s].val
      BY <1>2, <1>6, <1>7, <2>1, <2>2 DEF StoreIs
    <3> QED
      BY <1>3, <2>2, <3>1
  <2>3. CASE c # i /\ c \in Inos /\ \E t \in Slots : inode[t].num = c
    <3>1. PICK t \in Slots : inode[t].num = c /\ t # s /\ inode'[t] = inode[t]
      BY <1>2, <2>3
    <3>2. store[c] = inode[t].val
      BY <1>6, <2>1, <2>3, <3>1 DEF StoreIs
    <3>3. store'[c] = inode'[t].val
      BY <1>6, <2>1, <2>3, <3>1 DEF StoreIs
    <3> QED
      BY <1>3, <2>3, <3>1, <3>2, <3>3
  <2>4. CASE c # i /\ (c \notin Inos \/ \A t \in Slots : inode[t].num # c)
    <3>1. store[c] = Under(c)
      BY <2>1, <2>4 DEF StoreIs
    <3>2. store'[c] = Under(c)'
      BY <1>7, <2>1, <2>4 DEF StoreIs
    <3> QED
      BY <1>4, <2>4, <3>1, <3>2
  <2> QED
    BY <2>2, <2>3, <2>4
<1> QED
  BY <1>2, <1>4, <1>5, <1>8, <1>9, <1>11, <1>12 DEF Inv

(* The value of a cell, or of two, put into the contents.                  *)
LEMMA StoreUpdated ==
    ASSUME NEW d \in Cells, NEW x
    PROVE  /\ (\A c \in Cells : store'[c] = IF c = d THEN x ELSE store[c])
                 => store' = [store EXCEPT ![d] = x]
           /\ \A i \in Cells : i # d /\
                 (\A c \in Cells : store'[c] = IF c = d \/ c = i THEN x ELSE store[c])
                 => store' = [store EXCEPT ![d] = x, ![i] = x]
<1>1. store = [c \in Cells |-> store[c]]
  BY DEF store
<1>2. store' = [c \in Cells |-> store'[c]]
  BY DEF store
<1>3. PICK f, g : f = store /\ g = store'
  OBVIOUS
<1>4. f = [c \in Cells |-> f[c]] /\ g = [c \in Cells |-> g[c]]
  BY <1>1, <1>2, <1>3
<1> QED
  BY <1>3, <1>4

(* What a write of a program does to the contents.                         *)
WriteSeen ==
    /\ \A c \in Cells : store'[c] =
          IF c = Top.b \/ (c = Owner[Top.b] /\ inode' # inode) THEN Top.v ELSE store[c]
    /\ \/ store' = [store EXCEPT ![Top.b] = Top.v]
       \/ store' = [store EXCEPT ![Top.b] = Top.v, ![Owner[Top.b]] = Top.v]

LEMMA StoreKeeps ==
    ASSUME Inv, At("store"), Return(0),
           buf' = [buf EXCEPT ![ret] = [buf[ret] EXCEPT
                      !.data[Top.b] = Top.v, !.dirt = TRUE, !.count = @ - 1]],
           \/ UNCHANGED inode
           \/ inode' = [inode EXCEPT ![Top.s] = [@ EXCEPT !.val = Top.v, !.dirt = TRUE]],
           UNCHANGED <<disk, free, last_inode>>
    PROVE  Inv' /\ WriteSeen
<1>1. /\ stack # <<>> /\ Top.pc = "store" /\ TypeOK /\ StackOK /\ FrameOK(Top)
      /\ Top.pc \in FilePcs /\ Top.pc \in WriterPcs
  BY FramesSplit DEF Inv, At, FilePcs, WriterPcs
<1>2. PICK d \in DataBlocks, s \in Slots, x \in Val : d = Top.b /\ s = Top.s /\ x = Top.v
  BY <1>1 DEF FrameOK
<1>3. /\ ret \in Buffers /\ buf[ret].uptodate /\ buf[ret].count = 1
      /\ buf \in [Buffers -> BufRecord] /\ buf[ret] \in BufRecord /\ d \in Cells
      /\ inode \in [Slots -> InodeRecord] /\ inode[s] \in InodeRecord
  BY <1>1, Held, BlockOfCell DEF HoldPcs, ReadPcs, TypeOK, BufRecord, InodeRecord
<1>4. /\ buf'[ret] = Rewritten(buf[ret], d, x)
      /\ \A w \in Buffers : w # ret => buf'[w] = buf[w]
  BY <1>2, <1>3 DEF Rewritten
<1>5. /\ buf'[ret] \in BufRecord /\ buf'[ret].blk = buf[ret].blk
      /\ buf'[ret].data = [buf[ret].data EXCEPT ![d] = x] /\ buf'[ret].dirt = TRUE
      /\ buf'[ret].uptodate = buf[ret].uptodate /\ buf'[ret].count = buf[ret].count - 1
  <2>1. buf[ret].count > 0
    BY <1>3
  <2>2. buf[ret] \in BufRecord /\ d \in Cells /\ x \in Val
    BY <1>3
  <2>3. IsRewritten(Rewritten(buf[ret], d, x), buf[ret], d, x)
    BY <2>1, <2>2, RewrittenFields
  <2> QED
    BY <1>4, <2>3, Zenon DEF IsRewritten
<1>6. buf' \in [Buffers -> BufRecord] /\ Wrote(ret, d, x)
  BY <1>3, <1>4, <1>5 DEF Wrote
<1>7. CASE UNCHANGED inode
  <2>1. Inv' /\ \A c \in Cells : store'[c] = IF c = d THEN x ELSE store[c]
    BY <1>1, <1>2, <1>3, <1>5, <1>6, <1>7, Writes
  <2>2. store' = [store EXCEPT ![d] = x]
    BY <1>3, <2>1, StoreUpdated
  <2> QED
    BY <1>2, <1>7, <2>1, <2>2 DEF WriteSeen
<1>8. CASE /\ inode' = [inode EXCEPT ![Top.s] = [@ EXCEPT !.val = Top.v, !.dirt = TRUE]]
           /\ inode' # inode
  <2>1. /\ inode'[s] = [inode[s] EXCEPT !.val = x, !.dirt = TRUE]
        /\ \A t \in Slots : t # s => inode'[t] = inode[t]
    BY <1>2, <1>3, <1>8
  <2>2. /\ inode'[s].val = x /\ inode'[s].dirt = TRUE /\ inode'[s].num = inode[s].num
        /\ inode'[s].count = inode[s].count /\ inode'[s].lock = inode[s].lock
        /\ inode'[s] \in InodeRecord
    BY <1>3, <2>1, InodeRewritten
  <2>3. inode' \in [Slots -> InodeRecord]
    BY <1>2, <1>3, <1>8, <2>1, <2>2
  <2>4. /\ Inv' /\ inode[s].num \in Inos
        /\ \A c \in Cells : store'[c] =
              IF c = d THEN x ELSE IF c = inode[s].num THEN inode'[s].val ELSE store[c]
    <3>1. Top.pc \in {"store", "clear"} /\ d = Top.b /\ s = Top.s /\ stack # <<>>
      BY <1>1, <1>2
    <3>2. /\ inode'[s].num = inode[s].num /\ inode'[s].count = inode[s].count
          /\ inode'[s].lock = inode[s].lock
          /\ inode'[s] = inode[s] \/ inode'[s].dirt
      BY <2>2
    <3>3. \A t \in Slots : t # s => inode'[t] = inode[t]
      BY <2>1
    <3>4. buf'[ret].count = buf[ret].count - 1
      BY <1>5
    <3> QED
      BY <1>6, <2>3, <3>1, <3>2, <3>3, <3>4, Writes
  <2>5. PICK i \in Inos : i = inode[s].num /\ i # d /\ i \in Cells /\ i = Owner[d]
    BY <1>1, <1>2, <2>4, BlockOfCell DEF FrameOK, UsedBy
  <2>6. \A c \in Cells : store'[c] = IF c = d \/ c = i THEN x ELSE store[c]
    BY <2>2, <2>4, <2>5
  <2>7. store' = [store EXCEPT ![d] = x, ![i] = x]
    BY <1>3, <2>5, <2>6, StoreUpdated
  <2> QED
    BY <1>2, <1>8, <2>4, <2>5, <2>6, <2>7 DEF WriteSeen
<1> QED
  BY <1>7, <1>8

LEMMA ClearKeeps ==
    ASSUME Inv, At("clear"), Return(0),
           buf' = [buf EXCEPT ![ret] = [buf[ret] EXCEPT
                      !.data[Top.b] = Zero, !.uptodate = TRUE, !.dirt = TRUE, !.count = @ - 1]],
           UNCHANGED <<disk, free, inode, last_inode>>
    PROVE  Inv' /\ store' = [store EXCEPT ![Top.b] = Zero]
<1>1. /\ stack # <<>> /\ Top.pc = "clear" /\ TypeOK /\ StackOK /\ FrameOK(Top)
      /\ Top.pc \in FilePcs
  BY FramesSplit DEF Inv, At, FilePcs
<1>2. PICK d \in DataBlocks, s \in Slots : d = Top.b /\ s = Top.s
  BY <1>1 DEF FrameOK
<1>3. /\ ret \in Buffers /\ buf[ret].count = 1 /\ Zero \in Val
      /\ buf \in [Buffers -> BufRecord] /\ buf[ret] \in BufRecord /\ d \in Cells
      /\ inode \in [Slots -> InodeRecord] /\ inode[s] \in InodeRecord
  BY <1>1, Held, BlockOfCell, CacheAssumption DEF HoldPcs, TypeOK, BufRecord, InodeRecord
<1>4. /\ buf'[ret] = [buf[ret] EXCEPT !.data[d] = Zero, !.uptodate = TRUE, !.dirt = TRUE, !.count = @ - 1]
      /\ \A w \in Buffers : w # ret => buf'[w] = buf[w]
  BY <1>2, <1>3
<1>5. [buf[ret].data EXCEPT ![d] = Zero] \in [Cells -> Val \cup {Junk}] /\ buf[ret].count - 1 \in Nat
  BY <1>3 DEF BufRecord
<1>6. buf'[ret] = [blk |-> buf[ret].blk, data |-> [buf[ret].data EXCEPT ![d] = Zero],
                   count |-> buf[ret].count - 1, dirt |-> TRUE, uptodate |-> TRUE]
  BY <1>3, <1>4 DEF BufRecord
<1>7. /\ buf'[ret].blk = buf[ret].blk /\ buf'[ret].data = [buf[ret].data EXCEPT ![d] = Zero]
      /\ buf'[ret].dirt = TRUE /\ buf'[ret].uptodate = TRUE /\ buf'[ret].count = buf[ret].count - 1
      /\ buf'[ret] \in BufRecord
  BY <1>3, <1>5, <1>6 DEF BufRecord
<1>8. buf' \in [Buffers -> BufRecord] /\ Wrote(ret, d, Zero)
  BY <1>3, <1>4, <1>7 DEF Wrote
<1>9. Inv' /\ \A c \in Cells : store'[c] = IF c = d THEN Zero ELSE store[c]
  BY <1>1, <1>2, <1>3, <1>7, <1>8, Writes
<1>10. store' = [store EXCEPT ![d] = Zero]
  BY <1>3, <1>9, StoreUpdated
<1> QED
  BY <1>2, <1>9, <1>10

-----------------------------------------------------------------------------
LEMMA InitInv == Init => Inv /\ Store!Init
<1> SUFFICES ASSUME Init
             PROVE  Inv /\ Store!Init
  OBVIOUS
<1>1. StackOK /\ TopOK /\ Frames = {} /\ Busy = {} /\ ~HasBuffer
  BY EmptyStack DEF Init
<1>2. /\ \A v \in Buffers : /\ buf[v] \in BufRecord /\ buf[v].blk = NoBlock /\ buf[v].count = 0
                            /\ ~buf[v].dirt /\ ~buf[v].uptodate
      /\ buf \in [Buffers -> BufRecord]
  BY DEF Init, BufRecord
<1>3. /\ \A s \in Slots : /\ inode[s] \in InodeRecord /\ inode[s].num = NoBlock
                          /\ inode[s].count = 0 /\ ~inode[s].dirt /\ ~inode[s].lock
      /\ inode \in [Slots -> InodeRecord]
  BY CacheAssumption DEF Init, NewSlot, InodeRecord
<1>4. free \in Seq(Buffers) /\ Len(free) = NBuffers /\ \A v \in Buffers : free[v] = v
  <2>1. free = [v \in 1..NBuffers |-> v] /\ NBuffers \in Nat /\ Buffers = 1..NBuffers
    BY CacheAssumption DEF Init, Buffers
  <2>2. free \in Seq(1..NBuffers)
    BY <2>1
  <2>3. Len(free) = NBuffers
    BY <2>1
  <2> QED
    BY <2>1, <2>2, <2>3
<1>5. disk \in [Cells -> Val] /\ last_inode \in Slots /\ \A c \in Cells : disk[c] = Zero
  BY CacheAssumption DEF Init, Slots
<1>6. TypeOK
  BY <1>2, <1>3, <1>4, <1>5 DEF TypeOK, BufRecord, InodeRecord
<1>7. FreeOK
  BY <1>4 DEF FreeOK, Buffers
<1>8. CountsOK /\ LocksOK /\ BuffersOK /\ InodesOK
  BY <1>1, <1>2, <1>3 DEF CountsOK, InUse, HasBuffer, LocksOK, BuffersOK, InodesOK
<1>9. \A c \in Cells : store[c] = Zero
  BY <1>2, <1>3, <1>5, <1>8, UnderUnique, StoreUnique, BlockOfCell DEF UnderIs, StoreIs
<1>10. store = [c \in Cells |-> store[c]]
  BY DEF store
<1>11. Store!Init
  BY <1>9, <1>10 DEF Store!Init, Store!Nothing, Cells, Init, request, answer, At
<1> QED
  BY <1>1, <1>6, <1>7, <1>8, <1>11 DEF Inv

LEMMA Unchanged ==
    ASSUME Inv, UNCHANGED vars
    PROVE  Keeps
<1>1. /\ Frames' = Frames /\ Busy' = Busy /\ Calm /\ StackOK' /\ TopOK'
      /\ \A s \in Slots : Loading(s)' <=> Loading(s)
  BY CalmUnchanged DEF Inv, vars, Frames, Busy, StackOK, TopOK, FrameOK, CalledBy, Wanted, UsedBy,
                       At, Top, Loading
<1>2. TypeOK' /\ CountsOK' /\ LocksOK' /\ FreeOK'
  BY <1>1 DEF Inv, vars, TypeOK, CountsOK, InUse, Top, LocksOK, FreeOK
<1>3. InodesOK' /\ store' = store
  BY <1>1, SameInodes DEF Inv, vars, Calm, TypeOK
<1> QED
  BY <1>1, <1>2, <1>3 DEF Inv, Keeps, Calm

(* Which handler the frame on top is in.                                   *)
LEMMA HandlerOfTop ==
    ASSUME Next, stack # <<>>
    PROVE  /\ Top.pc \in {"file_read", "copied"} => FileReadStep
           /\ Top.pc \in {"file_write", "store"} => FileWriteStep
           /\ Top.pc \in {"new_block", "clear"} => NewBlockStep
           /\ Top.pc \in {"sync", "sync_buffers"} => SysSync
  BY DEF Next, Step, Calls, Spin, Waiting, At, Getblk, GetblkHit, GetblkMiss, GetblkSync,
         GetblkSynced, GetblkTake, BreadCall, BreadGot, SyncDev, SyncInodes, WriteInode, Encode,
         ReadInode, Decode, GetEmptyInode, Iget, Iput, FileReadStep, FileWriteStep,
         NewBlockStep, SysSync, Open, Close, FileRead, FileWrite, NewBlock, Sync, Begin

LEMMA StepInv ==
    ASSUME Inv, [Next]_vars
    PROVE  /\ Inv'
           /\ At("store") /\ Next => WriteSeen
           /\ At("clear") /\ Next => store' = [store EXCEPT ![Top.b] = Zero]
           /\ ~(At("store") \/ At("clear")) \/ ~Next => store' = store
<1>1. ASSUME Getblk
      PROVE  Keeps
  BY <1>1, GetblkHitKeeps, GetblkMissKeeps, GetblkSyncKeeps, GetblkSyncedKeeps, GetblkTakeKeeps
     DEF Getblk
<1>2. ASSUME BreadCall \/ BreadGot \/ SyncDev \/ SyncInodes \/ WriteInode \/ Encode
      PROVE  Keeps
  BY <1>2, BreadCallKeeps, BreadGotKeeps, SyncDevKeeps, SyncInodesKeeps, WriteInodeKeeps, EncodeKeeps
<1>3. ASSUME ReadInode \/ Decode \/ GetEmptyInode \/ Iget \/ Iput
      PROVE  Keeps
  BY <1>3, ReadInodeKeeps, DecodeKeeps, GetEmptyInodeKeeps, IgetKeeps, IputKeeps
<1>4. ASSUME FileReadStep
      PROVE  Keeps
  BY <1>4, FileCallsKeep, CopiedKeeps DEF FileReadStep
<1>5. ASSUME FileWriteStep
      PROVE  \/ Keeps /\ ~At("store")
             \/ At("store") /\ Inv' /\ WriteSeen
  BY <1>5, FileCallsKeep, StoreKeeps DEF FileWriteStep, At
<1>6. ASSUME NewBlockStep
      PROVE  \/ Keeps /\ ~At("clear")
             \/ At("clear") /\ Inv' /\ store' = [store EXCEPT ![Top.b] = Zero]
  BY <1>6, FileCallsKeep, ClearKeeps DEF NewBlockStep, At
<1>7. ASSUME SysSync
      PROVE  Keeps
  BY <1>7, SyncCallKeeps, SyncBuffersKeeps DEF SysSync
<1>8. ASSUME Calls \/ Spin \/ UNCHANGED vars
      PROVE  Keeps
  BY <1>8, CallsKeep, Unchanged DEF Spin
<1>9. /\ At("store") /\ Next => FileWriteStep
      /\ At("clear") /\ Next => NewBlockStep
      /\ ~(At("store") /\ At("clear"))
  BY HandlerOfTop DEF At
<1>10. FileWriteStep => At("store") \/ ~At("clear")
  BY DEF FileWriteStep, At
<1>11. NewBlockStep => At("clear") \/ ~At("store")
  BY DEF NewBlockStep, At
<1>12. UNCHANGED vars \/ Next
  OBVIOUS
<1>13. Inv'
  BY <1>1, <1>2, <1>3, <1>4, <1>5, <1>6, <1>7, <1>8, <1>12 DEF Next, Step, Keeps
<1>14. ~(At("store") \/ At("clear")) => store' = store
  BY <1>1, <1>2, <1>3, <1>4, <1>5, <1>6, <1>7, <1>8, <1>12 DEF Next, Step, Keeps
<1>15. ~Next => store' = store
  BY <1>8, <1>12 DEF Keeps
<1> QED
  BY <1>5, <1>6, <1>9, <1>13, <1>14, <1>15

(* The invariant every call of the two caches keeps, however they call     *)
(* each other: for any numbers of buffers and of inode slots.              *)
THEOREM CacheInvariant == Spec => []Inv
<1>1. Init => Inv
  BY InitInv
<1>2. Inv /\ [Next]_vars => Inv'
  BY StepInv
<1> QED
  BY <1>1, <1>2, PTL DEF Spec

(* A block is in one buffer and an inode in one slot at most, although     *)
(* getblk and iget look, may sleep in a write-back that goes through the   *)
(* same caches, and only then take their buffer or slot; and the free list *)
(* loses no buffer.                                                        *)
THEOREM CachesHoldNoDuplicates == Spec => []NoDuplicates
<1>1. Inv => NoDuplicates
  BY DEF Inv, NoDuplicates, BuffersOK, InodesOK, FreeOK
<1> QED
  BY <1>1, CacheInvariant, PTL

(* Every path through buffer.c and inode.c releases what it took: between  *)
(* calls no buffer is in use and no inode locked, and an inode nobody      *)
(* holds has been written back by iput.                                    *)
THEOREM NothingIsHeldBetweenCalls == Spec => []NothingHeldAtRest
<1>1. Inv => NothingHeldAtRest
  <2> SUFFICES ASSUME Inv, stack = <<>>
               PROVE  /\ \A v \in Buffers : buf[v].count = 0
                      /\ \A s \in Slots : ~inode[s].lock /\ (inode[s].dirt => inode[s].count > 0)
    BY DEF NothingHeldAtRest
  <2>1. Busy = {}
    BY EmptyStack
  <2> QED
    BY <2>1 DEF Inv, CountsOK, InUse, LocksOK, InodesOK
<1> QED
  BY <1>1, CacheInvariant, PTL

-----------------------------------------------------------------------------
(* The record of what was written: the contents read through the caches    *)
(* are the record, after every step.                                       *)
HInv == Inv /\ written = store

LEMMA HistoryStep ==
    ASSUME HInv, [HistNext]_hvars
    PROVE  HInv'
<1>1. [Next]_vars
  BY DEF HistNext, hvars, vars
<1>2. Inv'
  BY <1>1, StepInv DEF HInv
<1>3. store = [c \in Cells |-> store[c]] /\ store' = [c \in Cells |-> store'[c]]
  BY DEF store
<1>4. CASE UNCHANGED hvars
  <2>1. UNCHANGED vars /\ written' = written
    BY <1>4 DEF hvars
  <2> QED
    BY <1>2, <2>1, Unchanged DEF HInv, Keeps
<1>5. CASE HistNext /\ At("store")
  <2>1. WriteSeen
    BY <1>1, <1>5, StepInv DEF HInv, HistNext
  <2>2. written' = [c \in Cells |-> IF c = Top.b \/ (c = Owner[Top.b] /\ inode' # inode)
                                    THEN Top.v ELSE store[c]]
    BY <1>5 DEF HistNext, Record, HInv
  <2>3. written' = [c \in Cells |-> store'[c]]
    BY <2>1, <2>2 DEF WriteSeen
  <2> QED
    BY <1>2, <1>3, <2>3 DEF HInv
<1>6. CASE HistNext /\ At("clear")
  <2>1. store' = [store EXCEPT ![Top.b] = Zero]
    BY <1>1, <1>6, StepInv DEF HInv, HistNext
  <2>2. written' = [written EXCEPT ![Top.b] = Zero]
    BY <1>6 DEF HistNext, Record, At
  <2> QED
    BY <1>2, <2>1, <2>2 DEF HInv
<1>7. CASE HistNext /\ ~(At("store") \/ At("clear"))
  <2>1. store' = store
    BY <1>1, <1>7, StepInv DEF HInv
  <2>2. written' = written
    BY <1>7 DEF HistNext, Record
  <2> QED
    BY <1>2, <2>1, <2>2 DEF HInv
<1> QED
  BY <1>4, <1>5, <1>6, <1>7

LEMMA HistoryExact == HistSpec => []HInv
<1>1. HistInit => HInv
  <2> SUFFICES ASSUME HistInit
               PROVE  HInv
    OBVIOUS
  <2>1. Inv /\ Store!Init
    BY InitInv DEF HistInit
  <2> QED
    BY <2>1 DEF HInv, HistInit, Store!Init, Cells
<1>2. HInv /\ [HistNext]_hvars => HInv'
  BY HistoryStep
<1> QED
  BY <1>1, <1>2, PTL DEF HistSpec

(* A block under file_read is the one asked for, in a buffer that is up to *)
(* date.                                                                   *)
LEMMA ReadIsStored ==
    ASSUME Inv, At("copied")
    PROVE  buf[ret].data[Top.b] = store[Top.b]
<1>1. stack # <<>> /\ Top.pc = "copied" /\ StackOK
  BY DEF At, Inv
<1>2. PICK d \in DataBlocks : d = Top.b
  BY <1>1, FramesSplit DEF FrameOK, FilePcs
<1>3. ret \in Buffers /\ buf[ret].blk = d /\ buf[ret].uptodate
  BY <1>1, <1>2, Held DEF HoldPcs, ReadPcs, Wanted
<1>4. Under(d) = buf[ret].data[d] /\ store[d] = Under(d)
  BY <1>3, UnderUnique, StoreUnique, BlockOfCell DEF UnderIs, StoreIs, Inv
<1> QED
  BY <1>2, <1>4

(* The buffer file_read copies from, and every open inode, holds what was  *)
(* last written there by the record, whether or not it is on the disk yet  *)
(* and however often it has been evicted, written back and read again.     *)
THEOREM ReadsSeeLastWrite == HistSpec => []ReadsAreCurrent
<1>1. HInv => ReadsAreCurrent
  <2> SUFFICES ASSUME HInv
               PROVE  ReadsAreCurrent
    OBVIOUS
  <2>1. At("copied") => buf[ret].data[Top.b] = written[Top.b]
    BY ReadIsStored DEF HInv
  <2>2. ASSUME NEW s \in Slots, inode[s].num # NoBlock, ~Loading(s)
        PROVE  inode[s].val = written[inode[s].num]
    <3>1. inode[s].num \in Inos /\ inode[s].num \in Cells
      BY <2>2 DEF HInv, Inv, TypeOK, Cells
    <3>2. store[inode[s].num] = inode[s].val
      BY <2>2, <3>1, StoreUnique DEF HInv, Inv, StoreIs
    <3> QED
      BY <3>2 DEF HInv
  <2> QED
    BY <2>1, <2>2 DEF ReadsAreCurrent
<1> QED
  BY <1>1, HistoryExact, PTL

(* The last step of sys_sync leaves the disk holding what was last written *)
(* to every cell by the record: sync_inodes before it left no inode dirty, *)
(* and no buffer was missed.                                               *)
THEOREM SyncLeavesAllOnDisk == HistSpec => SyncIsDurable
<1>1. ASSUME HInv, [HistNext]_hvars
      PROVE  [At("sync_buffers") => disk' = written]_hvars
  <2>1. ASSUME HistNext, At("sync_buffers")
        PROVE  disk' = written
    <3>1. Flush /\ Return(0) /\ UNCHANGED <<free, inode, last_inode>>
      BY <2>1, HandlerOfTop DEF HistNext, SysSync, At
    <3> QED
      BY <1>1, <2>1, <3>1, SyncBuffersKeeps DEF HInv
  <2> QED
    BY <1>1, <2>1
<1> QED
  BY <1>1, HistoryExact, PTL DEF HistSpec, SyncIsDurable

-----------------------------------------------------------------------------
(* The bottom of the stack, which says what was asked for.                 *)
LEMMA LastOfTail ==
    ASSUME NEW S, NEW q \in Seq(S), q # <<>>, Len(q) > 1
    PROVE  Tail(q) # <<>> /\ Last(Tail(q)) = Last(q)
<1>1. /\ Len(q) \in Nat \ {0} /\ Len(Tail(q)) = Len(q) - 1
      /\ \A k \in 1..(Len(q) - 1) : Tail(q)[k] = q[k + 1]
  BY PopPlaces
<1>2. Len(q) - 1 \in 1..(Len(q) - 1) /\ (Len(q) - 1) + 1 = Len(q)
  BY <1>1
<1>3. Tail(q)[Len(q) - 1] = q[Len(q)]
  BY <1>1, <1>2
<1> QED
  BY <1>1, <1>3, SecondPlace DEF Last

LEMMA LastOfReplaced ==
    ASSUME NEW S, NEW q \in Seq(S), q # <<>>, NEW h
    PROVE  /\ <<h>> \o Tail(q) # <<>>
           /\ Last(<<h>> \o Tail(q)) = IF Len(q) = 1 THEN h ELSE Last(q)
<1> DEFINE W == S \cup {h}
           r == <<h>> \o Tail(q)
<1>1. q \in Seq(W) /\ h \in W
  BY SeqMonotonic
<1>2. /\ r \in Seq(W) /\ Len(r) = Len(q) /\ r[1] = h
      /\ \A k \in 2..Len(q) : r[k] = q[k]
  BY <1>1, ReplacePlaces
<1>3. Len(q) \in Nat \ {0}
  BY PopPlaces
<1> HIDE DEF W, r
<1>4. r # <<>> /\ (Len(q) # 1 => Len(q) \in 2..Len(q))
  BY <1>2, <1>3, EmptySeq
<1> QED
  BY <1>2, <1>3, <1>4 DEF Last, r

LEMMA LastOfPushed ==
    ASSUME NEW S, NEW q \in Seq(S), q # <<>>, NEW f, NEW h
    PROVE  /\ <<f, h>> \o Tail(q) # <<>>
           /\ Last(<<f, h>> \o Tail(q)) = IF Len(q) = 1 THEN h ELSE Last(q)
<1> DEFINE W == S \cup {f, h}
           r == <<f, h>> \o Tail(q)
<1>1. q \in Seq(W) /\ f \in W /\ h \in W
  BY SeqMonotonic
<1>2. /\ r \in Seq(W) /\ Len(r) = Len(q) + 1 /\ r[2] = h
      /\ \A k \in 3..(Len(q) + 1) : r[k] = q[k - 1]
  BY <1>1, PushPlaces
<1>3. Len(q) \in Nat \ {0}
  BY PopPlaces
<1> HIDE DEF W, r
<1>4. Len(q) # 1 => Len(q) + 1 \in 3..(Len(q) + 1) /\ (Len(q) + 1) - 1 = Len(q)
  <2>1. \A n \in Nat \ {0} : n # 1 => n + 1 \in 3..(n + 1) /\ (n + 1) - 1 = n
    OBVIOUS
  <2> QED
    BY <1>3, <2>1, Zenon
<1>5. r # <<>>
  <2>1. Len(r) # 0
    BY <1>2, <1>3
  <2> QED
    BY <2>1, EmptySeq
<1>6. Len(q) # 1 => r[Len(q) + 1] = q[Len(q)]
  BY <1>2, <1>4
<1>7. Len(q) = 1 => r[Len(q) + 1] = h
  BY <1>2, <1>3
<1> QED
  BY <1>2, <1>6, <1>7, <1>5 DEF Last, r

(* Every step returns, goes on in its frame, or calls.                     *)
Replaces(h) == stack' = <<h>> \o Tail(stack) \/ \E f : stack' = <<f, h>> \o Tail(stack)

LEMMA LastIfReplaced ==
    ASSUME stack \in Seq(FrameSet), stack # <<>>, NEW h, Replaces(h)
    PROVE  /\ stack' # <<>>
           /\ Last(stack') = IF Len(stack) = 1 THEN h ELSE Last(stack)
<1>1. CASE stack' = <<h>> \o Tail(stack)
  BY <1>1, LastOfReplaced
<1>2. CASE \E f : stack' = <<f, h>> \o Tail(stack)
  <2>1. PICK f : stack' = <<f, h>> \o Tail(stack)
    BY <1>2
  <2> QED
    BY <2>1, LastOfPushed
<1> QED
  BY <1>1, <1>2 DEF Replaces

LEMMA StackMoves ==
    ASSUME Next, stack # <<>>
    PROVE  stack' = stack \/ stack' = Tail(stack) \/ \E h : Replaces(h)
<1>1. ASSUME Getblk \/ BreadCall \/ BreadGot \/ SyncDev
      PROVE  stack' = Tail(stack) \/ \E h : Replaces(h)
  BY <1>1
     DEF Getblk, GetblkHit, GetblkMiss, GetblkSync, GetblkSynced, GetblkTake, BreadCall, BreadGot,
         SyncDev, Goto, Invoke, Return, Replaces
<1>2. ASSUME SyncInodes \/ WriteInode \/ Encode \/ ReadInode \/ Decode
      PROVE  stack' = Tail(stack) \/ \E h : Replaces(h)
  BY <1>2 DEF SyncInodes, WriteInode, Encode, ReadInode, Decode, Invoke, Return, Replaces
<1>3. ASSUME GetEmptyInode \/ Iget \/ Iput
      PROVE  stack' = Tail(stack) \/ \E h : Replaces(h)
  BY <1>3 DEF GetEmptyInode, Iget, Iput, Goto, Invoke, Return, Replaces
<1>4. ASSUME FileReadStep \/ FileWriteStep \/ NewBlockStep \/ SysSync
      PROVE  stack' = Tail(stack) \/ \E h : Replaces(h)
  BY <1>4 DEF FileReadStep, FileWriteStep, NewBlockStep, SysSync, Invoke, Return, Replaces
<1>5. ~Calls
  BY DEF Calls, Open, Close, FileRead, FileWrite, NewBlock, Sync, Begin
<1>6. Spin => stack' = stack
  BY DEF Spin, vars
<1> QED
  BY <1>1, <1>2, <1>3, <1>4, <1>5, <1>6 DEF Next, Step

(* Functions called inside leave the request alone.                        *)
LEMMA InnerRequest ==
    ASSUME Inv, Next, stack # <<>>, Top.pc \notin CallPcs
    PROVE  stack' # <<>> /\ request' = request
<1>1. stack \in Seq(FrameSet) /\ StackOK
  BY DEF Inv, StackOK
<1>2. Len(stack) \in Nat \ {0} /\ Top = stack[1]
  BY <1>1, PopPlaces DEF Top
<1>3. Len(stack) > 1
  BY <1>1, <1>2 DEF StackOK
<1>4. stack' # <<>> /\ Last(stack') = Last(stack)
  <2>1. stack' = Tail(stack) => stack' # <<>> /\ Last(stack') = Last(stack)
    BY <1>1, <1>3, LastOfTail
  <2>2. ASSUME NEW h, Replaces(h)
        PROVE  stack' # <<>> /\ Last(stack') = Last(stack)
    <3>1. \A n \in Nat : n > 1 => n # 1
      OBVIOUS
    <3>2. Len(stack) # 1
      BY <1>2, <1>3, <3>1, Zenon
    <3> QED
      BY <1>1, <2>2, <3>2, LastIfReplaced
  <2> QED
    BY <2>1, <2>2, StackMoves
<1> QED
  BY <1>4 DEF request, Asked

(* A call that goes on keeps asking for the same.                          *)
OtherPcs == IgetPcs \cup {"iput", "sync", "sync_buffers"}

LEMMA CallMoves ==
    ASSUME Inv, Next, stack # <<>>, Top.pc \in CallPcs
    PROVE  \/ stack' = stack
           \/ stack' = Tail(stack) /\ Top.pc \in OtherPcs \cup {"copied", "store", "clear"}
           \/ \E h : Replaces(h) /\ Asked(h) = Asked(Top)
<1>1. Top \in FrameSet /\ StackOK
  BY FramesSplit DEF Inv
<1>2. ASSUME Top.pc \in {"file_read", "copied", "file_write", "store", "new_block", "clear"}
      PROVE  \/ stack' = Tail(stack) /\ Top.pc \in {"copied", "store", "clear"}
             \/ \E h : Replaces(h) /\ Asked(h) = Asked(Top)
  <2>1. ASSUME Top.pc = "file_read"
        PROVE  Replaces([Top EXCEPT !.pc = "copied"]) /\ IsMoved([Top EXCEPT !.pc = "copied"], Top, "copied", Top.s, Top.v)
    BY <1>1, <2>1, HandlerOfTop, Goes, PcNames DEF FileReadStep, At, Invoke, Replaces
  <2>2. ASSUME Top.pc = "file_write"
        PROVE  Replaces([Top EXCEPT !.pc = "store"]) /\ IsMoved([Top EXCEPT !.pc = "store"], Top, "store", Top.s, Top.v)
    BY <1>1, <2>2, HandlerOfTop, Goes, PcNames DEF FileWriteStep, At, Invoke, Replaces
  <2>3. ASSUME Top.pc = "new_block"
        PROVE  Replaces([Top EXCEPT !.pc = "clear"]) /\ IsMoved([Top EXCEPT !.pc = "clear"], Top, "clear", Top.s, Top.v)
    BY <1>1, <2>3, HandlerOfTop, Goes, PcNames DEF NewBlockStep, At, Invoke, Replaces
  <2>4. ASSUME Top.pc \in {"copied", "store", "clear"}
        PROVE  stack' = Tail(stack)
    BY <2>4, HandlerOfTop DEF FileReadStep, FileWriteStep, NewBlockStep, At, Return
  <2> QED
    BY <1>2, <2>1, <2>2, <2>3, <2>4 DEF IsMoved, Asked
<1>3. ASSUME Top.pc \in {"sync", "sync_buffers"}
      PROVE  \/ stack' = Tail(stack)
             \/ \E h : Replaces(h) /\ h.pc = "sync_buffers"
  <2>1. Top.pc = "sync" => Replaces([Top EXCEPT !.pc = "sync_buffers"])
                           /\ [Top EXCEPT !.pc = "sync_buffers"].pc = "sync_buffers"
    BY <1>1, HandlerOfTop DEF SysSync, At, Invoke, Replaces, FrameSet
  <2>2. Top.pc = "sync_buffers" => stack' = Tail(stack)
    BY HandlerOfTop DEF SysSync, At, Return
  <2> QED
    BY <1>3, <2>1, <2>2
<1>4. ASSUME Top.pc \in IgetPcs \cup {"iput"}
      PROVE  \/ stack' = stack \/ stack' = Tail(stack)
             \/ \E h : Replaces(h) /\ h.pc \in IgetPcs \cup {"iput"}
  <2>1. GetEmptyInode \/ Iget \/ Iput \/ Spin
    BY <1>4
       DEF IgetPcs, Next, Step, Calls, At, Getblk, GetblkHit, GetblkMiss, GetblkSync,
           GetblkSynced, GetblkTake, BreadCall, BreadGot, SyncDev, SyncInodes, WriteInode, Encode,
           ReadInode, Decode, FileReadStep, FileWriteStep, NewBlockStep, SysSync,
           Open, Close, FileRead, FileWrite, NewBlock, Sync, Begin
  <2>2. ASSUME GetEmptyInode
        PROVE  \E h : Replaces(h) /\ h.pc \in {"iget", "empty", "search"}
    <3> DEFINE h1 == [Top EXCEPT !.pc = "empty", !.s = EmptySlot]
               h2 == [Top EXCEPT !.pc = "empty"]
               h3 == [Top EXCEPT !.pc = "iget"]
               h4 == [Top EXCEPT !.pc = "search"]
    <3>1. h1.pc = "empty" /\ h2.pc = "empty" /\ h3.pc = "iget" /\ h4.pc = "search"
      BY <1>1 DEF FrameSet
    <3>2. Replaces(h1) \/ Replaces(h2) \/ Replaces(h3) \/ Replaces(h4)
      BY <2>2 DEF GetEmptyInode, Goto, Invoke, Replaces
    <3> QED
      BY <3>1, <3>2
  <2>3. ASSUME Iget
        PROVE  stack' = Tail(stack) \/ \E h : Replaces(h) /\ h.pc = "loaded"
    <3> DEFINE h1 == [Top EXCEPT !.pc = "loaded"]
    <3>1. h1.pc = "loaded"
      BY <1>1 DEF FrameSet
    <3>2. stack' = Tail(stack) \/ Replaces(h1)
      BY <2>3 DEF Iget, Invoke, Return, Replaces
    <3> QED
      BY <3>1, <3>2
  <2>4. ASSUME Iput
        PROVE  stack' = Tail(stack) \/ \E h : Replaces(h) /\ h.pc = "iput"
    <3> DEFINE h1 == [Top EXCEPT !.pc = "iput"]
    <3>1. h1.pc = "iput"
      BY <1>1 DEF FrameSet
    <3>2. stack' = Tail(stack) \/ Replaces(h1)
      BY <2>4 DEF Iput, Invoke, Return, Replaces
    <3> QED
      BY <3>1, <3>2
  <2> QED
    BY <2>1, <2>2, <2>3, <2>4 DEF Spin, vars, IgetPcs
<1>5. \A h : h.pc \in OtherPcs => Asked(h) = [op |-> "other"]
  BY DEF Asked, OtherPcs, IgetPcs
<1>6. Top.pc \in OtherPcs => Asked(Top) = [op |-> "other"]
  BY <1>5
<1> QED
  BY <1>2, <1>3, <1>4, <1>5, <1>6 DEF CallPcs, FilePcs, WriterPcs, OtherPcs

LEMMA CallRequest ==
    ASSUME Inv, Next, stack # <<>>, Top.pc \in CallPcs
    PROVE  /\ request = Asked(Top)
           /\ \/ stack' # <<>> /\ request' = request
              \/ stack' = <<>> /\ Top.pc \in OtherPcs \cup {"copied", "store", "clear"}
<1>1. stack \in Seq(FrameSet) /\ Len(stack) = 1 /\ Tail(stack) = <<>> /\ Top = stack[1]
  BY Alone, PopPlaces DEF Inv, StackOK, Top
<1>2. request = Asked(Top)
  BY <1>1 DEF request, Last
<1>3. ASSUME NEW h, Replaces(h), Asked(h) = Asked(Top)
      PROVE  stack' # <<>> /\ request' = request
  <2>1. stack' # <<>> /\ Last(stack') = h
    BY <1>1, <1>3, LastIfReplaced
  <2> QED
    BY <1>2, <1>3, <2>1 DEF request, Asked
<1>4. stack' = stack => stack' # <<>> /\ request' = request
  BY DEF request, Asked
<1> QED
  BY <1>1, <1>2, <1>3, <1>4, CallMoves

ReadIs == Inv /\ At("copied") =>
    /\ answer = <<store[Top.b]>> /\ stack # <<>> /\ request = Asked(Top)

LEMMA ReadPrimed == ReadIs'
<1>1. ReadIs
  <2> SUFFICES ASSUME Inv, At("copied")
               PROVE  answer = <<store[Top.b]>> /\ stack # <<>> /\ request = Asked(Top)
    BY DEF ReadIs
  <2>1. stack # <<>> /\ Top.pc \in CallPcs /\ stack \in Seq(FrameSet)
    BY DEF At, CallPcs, FilePcs, Inv, StackOK
  <2>2. Len(stack) = 1 /\ Top = stack[1]
    BY <2>1, Alone, PopPlaces DEF Inv, Top
  <2> QED
    BY <2>1, <2>2, ReadIsStored DEF answer, request, Last
<1> QED
  BY <1>1, PTL

(* A call begins.                                                          *)
LEMMA AskStep ==
    ASSUME Inv, Calls
    PROVE  Store!Ask
<1>1. stack = <<>> /\ store' = store
  <2>1. stack = <<>>
    BY DEF Calls, Open, Close, FileRead, FileWrite, NewBlock, Sync, Begin
  <2> QED
    BY <2>1, CallsKeep DEF Keeps
<1>2. request = Store!Nothing /\ answer = <<>>
  BY <1>1 DEF request, answer, At, Store!Nothing
<1>3. ASSUME NEW f, stack' = <<f>>
      PROVE  request' = Asked(f) /\ (f.pc # "copied" => answer' = <<>>)
  <2>1. stack' # <<>> /\ Len(stack') = 1 /\ stack'[1] = f /\ Head(stack') = f
    BY <1>3
  <2> QED
    BY <2>1 DEF request, Asked, Last, answer, At, Top
<1>4. ASSUME NEW f, stack' = <<f>>, f.pc \in {"iget", "iput", "sync"}
      PROVE  Store!Ask
  <2>1. Asked(f) = Store!Other /\ f.pc # "copied"
    BY <1>4 DEF Asked, Store!Other
  <2> QED
    BY <1>1, <1>2, <1>3, <1>4, <2>1 DEF Store!Ask
<1>5. ASSUME NEW b \in DataBlocks, NEW f, stack' = <<f>>, f.b = b,
             f.pc \in {"file_read", "new_block"} \/ (f.pc = "file_write" /\ f.v \in Val)
      PROVE  Store!Ask
  <2>1. /\ f.pc # "copied"
        /\ Asked(f) \in {Store!Read(b), Store!Clear(b)} \cup {Store!Write(b, v) : v \in Val}
    BY <1>5 DEF Asked, Store!Read, Store!Clear, Store!Write
  <2> QED
    BY <1>1, <1>2, <1>3, <1>5, <2>1 DEF Store!Ask
<1>6. CASE (\E i \in Inos : Open(i)) \/ (\E s \in Slots : Close(s)) \/ Sync
  BY <1>4, <1>6 DEF Open, Close, Sync, Begin, Frame
<1>7. CASE \E s \in Slots, b \in DataBlocks :
             FileRead(s, b) \/ NewBlock(s, b) \/ \E v \in Val : FileWrite(s, b, v)
  BY <1>5, <1>7 DEF FileRead, NewBlock, FileWrite, Begin, Frame
<1> QED
  BY <1>6, <1>7 DEF Calls

(* A step inside a call: nothing is seen of it but that a read has got its *)
(* block.                                                                  *)
LEMMA InsideStep ==
    ASSUME Inv, Next, stack # <<>>, stack' # <<>>
    PROVE  [Store!Next]_(Store!svars)
<1>1. request' = request /\ ~At("copied") /\ ~At("store") /\ ~At("clear")
  <2>1. Top.pc \in {"copied", "store", "clear"} => stack' = Tail(stack) /\ Top.pc \in CallPcs
    BY HandlerOfTop DEF FileReadStep, FileWriteStep, NewBlockStep, At, Return, CallPcs, FilePcs, WriterPcs
  <2>2. Top.pc \in {"copied", "store", "clear"} => stack' = <<>>
    BY <2>1, Alone DEF Inv
  <2> QED
    BY <2>2, InnerRequest, CallRequest DEF At
<1>2. Inv' /\ store' = store
  BY <1>1, StepInv
<1>3. answer = <<>>
  BY <1>1 DEF answer
<1>4. CASE At("copied")'
  <2>1. answer' = <<store'[Top'.b]>> /\ request' = Asked(Top)'
    BY <1>2, <1>4, ReadPrimed DEF ReadIs
  <2>2. request' = [op |-> "read", b |-> Top'.b]
    BY <1>4, <2>1 DEF Asked, At
  <2>3. request.op = "read" /\ request.b = Top'.b
    BY <1>1, <2>2
  <2> QED
    BY <1>1, <1>2, <1>3, <2>1, <2>3 DEF Store!Next, Store!Answer
<1>5. CASE ~At("copied")'
  <2>1. answer' = <<>>
    BY <1>5 DEF answer
  <2> QED
    BY <1>1, <1>2, <1>3, <2>1 DEF Store!svars
<1> QED
  BY <1>4, <1>5

(* A call returns to its program.                                          *)
LEMMA DoneStep ==
    ASSUME Inv, Next, stack # <<>>, stack' = <<>>
    PROVE  Store!Next
<1>1. Top.pc \in OtherPcs \cup {"copied", "store", "clear"} /\ request = Asked(Top)
  BY InnerRequest, CallRequest
<1>2. Store!Done
  BY DEF Store!Done, Store!Nothing, request, answer, At
<1>3. CASE Top.pc = "copied"
  <2>1. store' = store
    BY <1>3, StepInv DEF At
  <2>2. request.op = "read" /\ answer # <<>>
    BY <1>1, <1>3 DEF Asked, answer, At
  <2> QED
    BY <1>2, <2>1, <2>2 DEF Store!Next, Store!ReadDone
<1>4. CASE Top.pc = "store"
  <2>1. WriteSeen
    BY <1>4, StepInv DEF At
  <2>2. request.op = "write" /\ request.b = Top.b /\ request.v = Top.v
    BY <1>1, <1>4 DEF Asked
  <2>3. Store!WriteDone
    BY <1>2, <2>1, <2>2 DEF WriteSeen, Store!WriteDone
  <2> QED
    BY <2>3 DEF Store!Next
<1>5. CASE Top.pc = "clear"
  <2>1. store' = [store EXCEPT ![Top.b] = Zero]
    BY <1>5, StepInv DEF At
  <2>2. request.op = "clear" /\ request.b = Top.b
    BY <1>1, <1>5 DEF Asked
  <2> QED
    BY <1>2, <2>1, <2>2 DEF Store!Next, Store!ClearDone
<1>6. CASE Top.pc \in OtherPcs
  <2>1. store' = store
    BY <1>6, StepInv DEF At, OtherPcs, IgetPcs
  <2>2. request.op = "other"
    BY <1>1, <1>6 DEF Asked, OtherPcs, IgetPcs
  <2> QED
    BY <1>2, <2>1, <2>2 DEF Store!Next, Store!OtherDone
<1> QED
  BY <1>1, <1>3, <1>4, <1>5, <1>6

(* The two caches implement a plain store: whatever is evicted, written    *)
(* back, flushed by a getblk that found no clean buffer, or read again,    *)
(* the contents change only by a write that a program asked for, when it   *)
(* is done and as it was asked for, and a read is answered with them.      *)
THEOREM CachesImplementStore == Spec => CacheIsTransparent
<1>1. Init => Store!Init
  BY InitInv
<1>2. ASSUME Inv, [Next]_vars
      PROVE  [Store!Next]_(Store!svars)
  <2>1. CASE UNCHANGED vars
    <3>1. store' = store
      BY <1>2, <2>1, Unchanged DEF Keeps
    <3>2. request' = request /\ answer' = answer
      BY <2>1 DEF vars, request, Asked, answer, At, Top
    <3> QED
      BY <3>1, <3>2 DEF Store!svars
  <2>2. CASE Next /\ stack = <<>>
    <3>1. Calls
      BY <2>2
         DEF Next, Step, Spin, Waiting, At, Getblk, GetblkHit, GetblkMiss, GetblkSync,
             GetblkSynced, GetblkTake, BreadCall, BreadGot, SyncDev, SyncInodes, WriteInode, Encode,
             ReadInode, Decode, GetEmptyInode, Iget, Iput, FileReadStep, FileWriteStep,
             NewBlockStep, SysSync
    <3> QED
      BY <1>2, <3>1, AskStep DEF Store!Next
  <2>3. CASE Next /\ stack # <<>>
    BY <1>2, <2>3, InsideStep, DoneStep
  <2> QED
    BY <1>2, <2>1, <2>2, <2>3
<1> QED
  BY <1>1, <1>2, CacheInvariant, PTL DEF Spec, CacheIsTransparent, Store!Spec
=============================================================================
