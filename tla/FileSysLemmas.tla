---------------------------- MODULE FileSysLemmas ----------------------------
(***************************************************************************)
(* Proofs about FileSys.tla for every number of processes, descriptors,    *)
(* files, inodes and blocks, every block size and all path names.          *)
(*                                                                         *)
(* The counts are proved over functions: a place of the disk (a slot of a  *)
(* directory) to the inode named there, an open file to its inode, a       *)
(* process to its working directory.  A step changes such a function at a  *)
(* few places, and each change moves two counts by one (OneChange).        *)
(***************************************************************************)
EXTENDS FileSys, TLAPS, FiniteSetTheorems, SequenceTheorems

(* The places where a function has a value.                                *)
Where(m, S, v) == {x \in S : m[x] = v}

Is(a, v) == IF a = v THEN 1 ELSE 0

SameBut(m, n, S, x) == x \in S /\ \A y \in S : y # x => n[y] = m[y]

(* Changing a function at one place takes one from the count of the old    *)
(* value and gives one to the count of the new one.                        *)
LEMMA OneChange ==
    ASSUME NEW S, IsFiniteSet(S), NEW m, NEW n, NEW x, SameBut(m, n, S, x), NEW v
    PROVE  /\ IsFiniteSet(Where(m, S, v)) /\ IsFiniteSet(Where(n, S, v))
           /\ Cardinality(Where(m, S, v)) \in Nat /\ Cardinality(Where(n, S, v)) \in Nat
           /\ Cardinality(Where(n, S, v)) = Cardinality(Where(m, S, v)) - Is(m[x], v) + Is(n[x], v)
<1> DEFINE A == Where(m, S, v)
           B == Where(n, S, v)
           C == A \ {x}
<1>1. IsFiniteSet(A) /\ IsFiniteSet(B)
  BY FS_Subset DEF Where
<1>2. Cardinality(A) \in Nat /\ Cardinality(B) \in Nat
  BY <1>1, FS_CardinalityType
<1>3. C = B \ {x}
  BY DEF Where, SameBut
<1>4. Cardinality(C) = IF m[x] = v THEN Cardinality(A) - 1 ELSE Cardinality(A)
  <2>1. x \in A <=> m[x] = v
    BY DEF Where, SameBut
  <2> QED
    BY <1>1, <2>1, FS_RemoveElement
<1>5. Cardinality(C) = IF n[x] = v THEN Cardinality(B) - 1 ELSE Cardinality(B)
  <2>1. x \in B <=> n[x] = v
    BY DEF Where, SameBut
  <2> QED
    BY <1>1, <1>3, <2>1, FS_RemoveElement
<1> QED
  BY <1>1, <1>2, <1>4, <1>5 DEF Is

(* The counts of a finite set are natural numbers.                         *)
LEMMA WhereFinite ==
    ASSUME NEW S, IsFiniteSet(S), NEW m, NEW v
    PROVE  IsFiniteSet(Where(m, S, v)) /\ Cardinality(Where(m, S, v)) \in Nat
<1>1. IsFiniteSet(Where(m, S, v))
  BY FS_Subset DEF Where
<1> QED
  BY <1>1, FS_CardinalityType

(* Two functions that agree have the same places for a value.              *)
LEMMA SameWhere ==
    ASSUME NEW S, NEW m, NEW n, NEW v, \A x \in S : m[x] = v <=> n[x] = v
    PROVE  Where(m, S, v) = Where(n, S, v)
BY DEF Where

(* Taking a subset away.                                                   *)
LEMMA TakeAway ==
    ASSUME NEW A, IsFiniteSet(A), NEW B, B \subseteq A
    PROVE  /\ IsFiniteSet(A \ B) /\ Cardinality(A) \in Nat /\ Cardinality(B) \in Nat
           /\ Cardinality(A \ B) = Cardinality(A) - Cardinality(B)
           /\ Cardinality(B) <= Cardinality(A)
<1>1. IsFiniteSet(B) /\ Cardinality(B) <= Cardinality(A) /\ A \cap B = B
  BY FS_Subset
<1> QED
  BY <1>1, FS_CardinalityType, FS_Difference

(* Sets in bijection have as many elements.                                *)
LEMMA SameSize ==
    ASSUME NEW A, IsFiniteSet(A), NEW B, NEW f \in [A -> B],
           \A x, y \in A : f[x] = f[y] => x = y, \A b \in B : \E x \in A : f[x] = b
    PROVE  Cardinality(A) = Cardinality(B)
<1>1. f \in Bijection(A, B)
  BY DEF Bijection, Injection, Surjection, IsInjective
<1> QED
  BY <1>1, FS_Bijection DEF ExistsBijection

(* The least element of a set of natural numbers.                          *)
LEMMA MinIsLeast ==
    ASSUME NEW S, S \subseteq Nat, S # {}
    PROVE  Min(S) \in S /\ \A y \in S : Min(S) <= y
<1> DEFINE R == {ss \in Nat \X Nat : ss[1] < ss[2]}
<1>1. OpToRel(<, Nat) = R
  BY Zenon DEF OpToRel
<1>2. PICK s \in S : \A t \in S : ~(<<t, s>> \in R)
  BY <1>1, WFMin, NatLessThanWellFounded
<1>3. ASSUME NEW t \in S
      PROVE  s <= t
  <2>1. t \in Nat /\ s \in Nat /\ ~(<<t, s>> \in R)
    BY <1>2
  <2>2. ~(t < s)
    BY <2>1
  <2> QED
    BY <2>1, <2>2
<1> QED
  BY <1>3 DEF Min

(***************************************************************************)
(* What the proofs carry along, said of a table of inodes and its bitmaps, *)
(* so that it can be said of the tables a call passes through as well.     *)
(***************************************************************************)
Ent  == [name : Components, ino : Inos \cup {0}]
Recs == [kind : {"free", "file", "dir", "new"}, nlinks : Nat, count : Nat,
         zones : SUBSET Zones, ents : Seq(Ent)]

(* The inode named at a place of the disk, 0 where none is.                *)
Places == Inos \X (1..MaxEntries)
Ino(tab, d, k) == IF k \in DOMAIN tab[d].ents THEN tab[d].ents[k].ino ELSE 0
Disk(tab) == [e \in Places |-> Ino(tab, e[1], e[2])]

(* A directory: "." and ".." come first, no name occurs twice, and all but *)
(* the root are named by the directory above them and by no other.         *)
Dots(tab, d) ==
    /\ tab[d].nlinks > 0
    /\ Len(tab[d].ents) \in 2..MaxEntries
    /\ tab[d].ents[1] = Entry(".", d)
    /\ tab[d].ents[2].name = ".." /\ tab[d].ents[2].ino # 0

Unambiguous(tab, d) ==
    \A j, k \in DOMAIN tab[d].ents : tab[d].ents[j].ino # 0 /\ tab[d].ents[k].ino # 0
        /\ tab[d].ents[j].name = tab[d].ents[k].name => j = k

Hangs(tab, d) ==
    d # Root => \E k \in 3..MaxEntries :
        /\ Ino(tab, tab[d].ents[2].ino, k) = d
        /\ \A c \in Inos, j \in 3..MaxEntries :
              Ino(tab, c, j) = d => c = tab[d].ents[2].ino /\ j = k

Tree(tab) ==
    /\ \A i \in Inos : tab[i].nlinks = Cardinality(Where(Disk(tab), Places, i))
    /\ \A i \in Inos : tab[i].kind # "dir" => tab[i].ents = <<>>
    /\ \A d \in Inos : tab[d].kind = "dir" =>
          Dots(tab, d) /\ Unambiguous(tab, d) /\ Hangs(tab, d)
    /\ tab[Root].kind = "dir" /\ tab[Root].ents[2].ino = Root

(* The bitmaps say what the inodes say.                                    *)
Blocks(n) == (n + PerBlock - 1) \div PerBlock

Exact(tab, im, zm) ==
    /\ im = {i \in Inos : tab[i].nlinks > 0 \/ tab[i].count > 0}
    /\ zm = UNION {tab[i].zones : i \in Inos}
    /\ \A i, j \in Inos : i # j => tab[i].zones \cap tab[j].zones = {}
    /\ \A i \in Inos \ im : tab[i] = FreeInode
    /\ \A i \in im : tab[i].kind \in {"file", "dir"}
    /\ \A i \in im : tab[i].kind = "dir" =>
          Cardinality(tab[i].zones) = Blocks(Len(tab[i].ents))

(* The reference counts say what descriptors, files and processes say.     *)
Opens(fl) == [f \in Files |-> IF fl[f].count > 0 THEN fl[f].ino ELSE 0]
Held(fp)  == [d \in Procs \X Fds |-> fp[d[1]][d[2]]]

DescCount(fp, f) == Cardinality(Where(Held(fp), Procs \X Fds, f))
FileRefs(fl, fp) ==
    \A f \in Files : fl[f].count = DescCount(fp, f)

OpenCount(fl, i) == Cardinality(Where(Opens(fl), Files, i))
WorkCount(wd, i) == Cardinality(Where(wd, Procs, i))
RootCount(wd, i) == IF i = Root THEN 2 + Cardinality(Procs) - WorkCount(wd, 0) ELSE 0

Refs(fl, wd, i) == OpenCount(fl, i) + WorkCount(wd, i) + RootCount(wd, i)
InodeRefs(tab, fl, wd) == \A i \in Inos : tab[i].count = Refs(fl, wd, i)

DeadHoldNothing == \A p \in Procs : ~Alive(p) => \A fd \in Fds : filp[p][fd] = 0

Inv ==
    /\ TypeOK /\ DeadHoldNothing
    /\ FileRefs(file, filp) /\ InodeRefs(inode, file, pwd)
    /\ Tree(inode) /\ Exact(inode, imap, zmap)
-----------------------------------------------------------------------------
(* Giving inodes back.                                                     *)

LEMMA Finite ==
    /\ IsFiniteSet(Procs) /\ IsFiniteSet(Fds) /\ IsFiniteSet(Files)
    /\ IsFiniteSet(Inos) /\ IsFiniteSet(Zones)
    /\ IsFiniteSet(Procs \X Fds) /\ IsFiniteSet(Places)
<1>1. /\ IsFiniteSet(Procs) /\ IsFiniteSet(Fds) /\ IsFiniteSet(Files)
      /\ IsFiniteSet(Inos) /\ IsFiniteSet(Zones)
  BY FilesAssumption
<1>2. IsFiniteSet(1..MaxEntries)
  BY FilesAssumption, FS_Interval
<1> QED
  BY <1>1, <1>2, FS_Product DEF Places

LEMMA PutsNone == \A i : Puts(<<>>, i) = 0
<1> SUFFICES ASSUME NEW i PROVE Puts(<<>>, i) = 0
  OBVIOUS
<1>1. {k \in DOMAIN <<>> : <<>>[k] = i} = {}
  OBVIOUS
<1>2. Puts(<<>>, i) = Cardinality({})
  BY <1>1, Zenon DEF Puts
<1> QED
  BY <1>2, FS_EmptySet

LEMMA PutsOne == \A j, i : Puts(<<j>>, i) = IF i = j THEN 1 ELSE 0
<1> SUFFICES ASSUME NEW j, NEW i PROVE Puts(<<j>>, i) = IF i = j THEN 1 ELSE 0
  OBVIOUS
<1>1. CASE i = j
  <2>1. {k \in DOMAIN <<j>> : <<j>>[k] = i} = {1}
    BY <1>1
  <2>2. Puts(<<j>>, i) = Cardinality({1})
    BY <2>1, Zenon DEF Puts
  <2> QED
    BY <1>1, <2>2, FS_Singleton
<1>2. CASE i # j
  <2>1. {k \in DOMAIN <<j>> : <<j>>[k] = i} = {}
    BY <1>2
  <2>2. Puts(<<j>>, i) = Cardinality({})
    BY <2>1, Zenon DEF Puts
  <2> QED
    BY <1>2, <2>2, FS_EmptySet
<1> QED
  BY <1>1, <1>2

(* A sequence with one element more.                                       *)
LEMMA PutsAppend ==
    ASSUME NEW T, NEW s \in Seq(T), NEW e \in T, NEW i
    PROVE  /\ Puts(s, i) \in Nat
           /\ Puts(Append(s, e), i) = Puts(s, i) + (IF i = e THEN 1 ELSE 0)
<1> DEFINE n == Len(s)
           A == {k \in 1..n : s[k] = i}
           B == {k \in 1..(n + 1) : Append(s, e)[k] = i}
<1>1. n \in Nat /\ DOMAIN s = 1..n /\ DOMAIN Append(s, e) = 1..(n + 1)
      /\ Append(s, e)[n + 1] = e /\ \A k \in 1..n : Append(s, e)[k] = s[k]
  BY LenProperties, AppendProperties
<1> HIDE DEF n
<1>2. IsFiniteSet(A) /\ n + 1 \notin A
  <2>1. IsFiniteSet(1..n) /\ A \in SUBSET (1..n)
    BY <1>1, FS_Interval
  <2>2. n + 1 \notin 1..n
    BY <1>1
  <2> QED
    BY <2>1, <2>2, FS_Subset
<1>3. B = IF i = e THEN A \cup {n + 1} ELSE A
  BY <1>1
<1>4. Puts(s, i) = Cardinality(A) /\ Puts(Append(s, e), i) = Cardinality(B)
  BY <1>1 DEF Puts
<1>5. Cardinality(A) \in Nat
  BY <1>2, FS_CardinalityType
<1>6. Cardinality(A \cup {n + 1}) = Cardinality(A) + 1
  BY <1>2, FS_AddElement
<1> HIDE DEF A, B
<1> QED
  BY <1>3, <1>4, <1>5, <1>6

(* SetToSeq lists every element of a finite set once.                      *)
LEMMA SetToSeqLists ==
    ASSUME NEW F, IsFiniteSet(F), NEW s, s = SetToSeq(F), NEW n, n = Cardinality(F)
    PROVE  /\ n \in Nat /\ s \in [1..n -> F]
           /\ \A j, k \in 1..n : s[j] = s[k] => j = k
           /\ \A f \in F : \E k \in 1..n : s[k] = f
<1>1. n \in Nat /\ ExistsBijection(1..n, F)
  BY FS_CardinalityType
<1>2. PICK g \in Bijection(1..n, F) : TRUE
  BY <1>1 DEF ExistsBijection
<1>3. g \in [1..n -> F] /\ IsInjective(g)
  BY <1>2 DEF Bijection, Injection
<1>4. s \in [1..n -> F] /\ IsInjective(s)
  BY <1>3 DEF SetToSeq
<1>5. IsFiniteSet(1..n) /\ Cardinality(1..n) = n
  BY <1>1, FS_Interval
<1>6. s \in Injection(1..n, F)
  BY <1>4 DEF Injection
<1>7. s \in Surjection(1..n, F)
  BY <1>5, <1>6, FS_Injection
<1> QED
  BY <1>1, <1>4, <1>7 DEF Surjection, IsInjective

(* The inodes of a set of files, put once for each file.                   *)
LEMMA PutsFiles ==
    ASSUME NEW F, F \subseteq Files, \A f \in F : file[f].ino \in Inos, NEW i
    PROVE  /\ InosOf(F) \in Seq(Inos)
           /\ Puts(InosOf(F), i) = Cardinality({f \in F : file[f].ino = i})
<1>1. PICK s : s = SetToSeq(F)
  OBVIOUS
<1>2. PICK n : n = Cardinality(F)
  OBVIOUS
<1>3. /\ n \in Nat /\ s \in [1..n -> F]
      /\ \A j, k \in 1..n : s[j] = s[k] => j = k
      /\ \A f \in F : \E k \in 1..n : s[k] = f
  <2>1. IsFiniteSet(F)
    BY Finite, FS_Subset
  <2> QED
    BY <1>1, <1>2, <2>1, SetToSeqLists
<1>4. InosOf(F) = [k \in 1..n |-> file[s[k]].ino]
  <2>1. InosOf(F) = [k \in DOMAIN s |-> file[s[k]].ino]
    BY <1>1 DEF InosOf
  <2> QED
    BY <1>3, <2>1
<1>5. InosOf(F) \in Seq(Inos)
  BY <1>3, <1>4
<1> DEFINE A == {k \in 1..n : file[s[k]].ino = i}
           B == {f \in F : file[f].ino = i}
           m == [k \in A |-> s[k]]
<1>6. Puts(InosOf(F), i) = Cardinality(A)
  <2>1. DOMAIN InosOf(F) = 1..n /\ \A k \in 1..n : InosOf(F)[k] = file[s[k]].ino
    BY <1>4
  <2>2. {k \in DOMAIN InosOf(F) : InosOf(F)[k] = i} = A
    BY <2>1
  <2> QED
    BY <2>2, Zenon DEF Puts
<1>7. IsFiniteSet(A)
  <2>1. IsFiniteSet(1..n) /\ A \in SUBSET (1..n)
    BY <1>3, FS_Interval
  <2> QED
    BY <2>1, FS_Subset
<1>8. /\ m \in [A -> B] /\ \A j, k \in A : m[j] = m[k] => j = k
      /\ \A f \in B : \E k \in A : m[k] = f
  BY <1>3
<1> HIDE DEF m, A, B
<1>9. Cardinality(A) = Cardinality(B)
  BY <1>7, <1>8, SameSize
<1> QED
  BY <1>5, <1>6, <1>9 DEF B

(* A record with another count.                                            *)
LEMMA CountChanged ==
    ASSUME NEW t \in Recs, NEW c \in Nat, NEW r, r = [t EXCEPT !.count = c]
    PROVE  /\ r \in Recs /\ r.count = c /\ r.kind = t.kind
           /\ r.nlinks = t.nlinks /\ r.zones = t.zones /\ r.ents = t.ents
           /\ \A n \in Nat : c = t.count - n /\ n = 0 => r = t
<1> PICK E : E = Seq(Ent)
  OBVIOUS
<1>1. t \in [kind : {"free", "file", "dir", "new"}, nlinks : Nat, count : Nat,
            zones : SUBSET Zones, ents : E]
  BY DEF Recs
<1>2. r \in [kind : {"free", "file", "dir", "new"}, nlinks : Nat, count : Nat,
            zones : SUBSET Zones, ents : E]
  BY <1>1
<1>3. r \in Recs
  BY <1>2 DEF Recs
<1>4. /\ r.count = c /\ r.kind = t.kind
      /\ r.nlinks = t.nlinks /\ r.zones = t.zones /\ r.ents = t.ents
  BY <1>1
<1>5. \A n \in Nat : c = t.count - n /\ n = 0 => r = t
  <2> SUFFICES ASSUME c = t.count PROVE r = t
    BY <1>1
  <2>1. t = [t EXCEPT !.count = t.count]
    BY <1>1
  <2> QED
    BY <2>1
<1> QED
  BY <1>3, <1>4, <1>5

Named(tab, i) == Cardinality(Where(Disk(tab), Places, i))

(* Tables with the same slots have the same names.                         *)
LEMMA SameDisk ==
    ASSUME NEW tab, NEW new, \A d \in Inos, k \in 1..MaxEntries : Ino(new, d, k) = Ino(tab, d, k)
    PROVE  \A i : Named(new, i) = Named(tab, i)
<1>1. ASSUME NEW e \in Places
      PROVE  Ino(new, e[1], e[2]) = Ino(tab, e[1], e[2])
  BY DEF Places
<1>2. Disk(new) = Disk(tab)
  BY <1>1, Zenon DEF Disk
<1> QED
  BY <1>2 DEF Named

(* An inode without references and links is not a directory.               *)
LEMMA GoneIsPlain ==
    ASSUME NEW tab, Tree(tab), NEW i \in Inos, tab[i].nlinks = 0
    PROVE  tab[i].kind # "dir" /\ tab[i].ents = <<>>
BY DEF Tree, Dots

(* The directory above a directory is an inode.                            *)
LEMMA ParentIno ==
    ASSUME NEW tab, tab \in [Inos -> Recs], NEW d \in Inos, Dots(tab, d)
    PROVE  tab[d].ents[2].ino \in Inos
<1>1. tab[d].ents \in Seq(Ent) /\ Len(tab[d].ents) >= 2
  BY FilesAssumption DEF Recs, Dots
<1>2. tab[d].ents[2] \in Ent
  BY <1>1
<1> QED
  BY <1>2 DEF Ent, Dots

LinksKept(tab, new, gone) ==
    /\ gone \subseteq Inos
    /\ \A i \in gone : tab[i].nlinks = 0 /\ new[i] = FreeInode
    /\ \A i \in Inos \ gone : /\ new[i].kind = tab[i].kind
                             /\ new[i].nlinks = tab[i].nlinks
                             /\ new[i].ents = tab[i].ents

LEMMA PutTree ==
    ASSUME NEW tab, tab \in [Inos -> Recs], Tree(tab), NEW new, NEW gone,
           LinksKept(tab, new, gone)
    PROVE  Tree(new)
<1>1. \A i \in gone : /\ new[i].kind = "free" /\ new[i].nlinks = 0 /\ new[i].ents = <<>>
                      /\ tab[i].kind # "dir" /\ tab[i].nlinks = 0 /\ tab[i].ents = <<>>
  BY GoneIsPlain DEF FreeInode, LinksKept
<1>2. \A i \in Inos : /\ new[i].nlinks = tab[i].nlinks /\ new[i].ents = tab[i].ents
                      /\ new[i].kind = "dir" <=> tab[i].kind = "dir"
  BY <1>1 DEF LinksKept
<1>3. \A d \in Inos : \A k : Ino(new, d, k) = Ino(tab, d, k)
  BY <1>2 DEF Ino
<1>4. Disk(new) = Disk(tab)
  <2>1. ASSUME NEW e \in Places
        PROVE  Ino(new, e[1], e[2]) = Ino(tab, e[1], e[2])
    BY <1>3 DEF Places
  <2> QED
    BY <2>1, Zenon DEF Disk
<1>5. ASSUME NEW d \in Inos, new[d].kind = "dir"
      PROVE  Dots(new, d) /\ Unambiguous(new, d)
  <2>1. tab[d].kind = "dir" /\ Dots(tab, d) /\ Unambiguous(tab, d)
    BY <1>2, <1>5 DEF Tree
  <2>2. new[d].nlinks = tab[d].nlinks /\ new[d].ents = tab[d].ents
    BY <1>2
  <2> QED
    BY <2>1, <2>2 DEF Dots, Unambiguous
<1>6. ASSUME NEW d \in Inos, new[d].kind = "dir"
      PROVE  Hangs(new, d)
  <2>1. tab[d].kind = "dir" /\ Hangs(tab, d) /\ Dots(tab, d)
    BY <1>2, <1>6 DEF Tree
  <2>2. new[d].ents = tab[d].ents
    BY <1>2
  <2> HIDE <1>1, <1>2
  <2>3. CASE d = Root
    BY <2>3 DEF Hangs
  <2>4. CASE d # Root
    <3>1. PICK k \in 3..MaxEntries :
            /\ Ino(tab, tab[d].ents[2].ino, k) = d
            /\ \A c \in Inos, j \in 3..MaxEntries :
                  Ino(tab, c, j) = d => c = tab[d].ents[2].ino /\ j = k
      BY <2>1, <2>4 DEF Hangs
    <3>2. Ino(new, new[d].ents[2].ino, k) = d
      BY <1>3, <2>1, <2>2, <3>1, ParentIno
    <3>3. \A c \in Inos, j \in 3..MaxEntries :
             Ino(new, c, j) = d => c = new[d].ents[2].ino /\ j = k
      BY <1>3, <2>2, <3>1
    <3> QED
      BY <3>2, <3>3 DEF Hangs
  <2> QED
    BY <2>3, <2>4
<1>7. \A i \in Inos : new[i].nlinks = Cardinality(Where(Disk(new), Places, i))
  BY <1>2, <1>4 DEF Tree
<1>8. \A i \in Inos : new[i].kind # "dir" => new[i].ents = <<>>
  BY <1>2 DEF Tree
<1>9. new[Root].kind = "dir" /\ new[Root].ents[2].ino = Root
  BY <1>2, FilesAssumption DEF Tree
<1> QED
  BY <1>5, <1>6, <1>7, <1>8, <1>9 DEF Tree

LEMMA PutExact ==
    ASSUME NEW tab, NEW im, NEW zm, Exact(tab, im, zm), tab \in [Inos -> Recs],
           NEW new, NEW gone, gone \subseteq Inos,
           \A i \in gone : tab[i].nlinks = 0 /\ new[i] = FreeInode,
           \A i \in Inos \ gone : /\ new[i].kind = tab[i].kind
                                  /\ new[i].nlinks = tab[i].nlinks
                                  /\ new[i].zones = tab[i].zones
                                  /\ new[i].ents = tab[i].ents
                                  /\ new[i].nlinks > 0 \/ new[i].count > 0 \/ new[i] = tab[i]
                                  /\ tab[i].count = 0 => new[i] = tab[i]
    PROVE  Exact(new, im \ gone, zm \ UNION {tab[i].zones : i \in gone})
<1>1. \A i \in gone : /\ new[i].kind = "free" /\ new[i].nlinks = 0 /\ new[i].count = 0
                      /\ new[i].zones = {} /\ new[i].ents = <<>>
  BY DEF FreeInode
<1>2. \A i \in Inos : i \in im <=> tab[i].nlinks > 0 \/ tab[i].count > 0
  BY DEF Exact
<1>3. \A i \in Inos : tab[i].count \in Nat /\ tab[i].nlinks \in Nat
  BY DEF Recs
<1>4. \A i \in Inos : i \in im \ gone <=> new[i].nlinks > 0 \/ new[i].count > 0
  <2>1. ASSUME NEW i \in gone PROVE ~(new[i].nlinks > 0 \/ new[i].count > 0)
    BY <1>1
  <2>2. ASSUME NEW i \in Inos \ gone
        PROVE  i \in im <=> new[i].nlinks > 0 \/ new[i].count > 0
    BY <1>2, <1>3
  <2> QED
    BY <2>1, <2>2
<1>5. im \ gone = {i \in Inos : new[i].nlinks > 0 \/ new[i].count > 0}
  BY <1>4 DEF Exact
<1>6. \A i \in Inos : new[i].zones = IF i \in gone THEN {} ELSE tab[i].zones
  BY <1>1
<1>7. /\ zm = UNION {tab[i].zones : i \in Inos}
      /\ \A i, j \in Inos : i # j => tab[i].zones \cap tab[j].zones = {}
  BY DEF Exact
<1>8. zm \ UNION {tab[i].zones : i \in gone} = UNION {new[i].zones : i \in Inos}
  <2> DEFINE Z == UNION {tab[i].zones : i \in gone}
             N == UNION {new[i].zones : i \in Inos}
  <2>1. ASSUME NEW z \in zm \ Z PROVE z \in N
    <3>1. PICK i \in Inos : z \in tab[i].zones
      BY <1>7
    <3>2. i \notin gone
      BY <2>1, <3>1
    <3> QED
      BY <1>6, <3>1, <3>2
  <2>2. ASSUME NEW z \in N PROVE z \in zm \ Z
    <3>1. PICK i \in Inos : z \in new[i].zones
      OBVIOUS
    <3>2. i \notin gone /\ z \in tab[i].zones
      BY <1>6, <3>1
    <3>3. \A j \in gone : z \notin tab[j].zones
      BY <1>7, <3>2
    <3> QED
      BY <1>7, <3>2, <3>3
  <2> QED
    BY <2>1, <2>2
<1>9. \A i, j \in Inos : i # j => new[i].zones \cap new[j].zones = {}
  BY <1>6, <1>7
<1>10. \A i \in Inos \ (im \ gone) : new[i] = FreeInode
  <2>1. ASSUME NEW i \in Inos \ im, i \notin gone PROVE new[i] = FreeInode
    <3>1. tab[i] = FreeInode
      BY <2>1 DEF Exact
    <3>2. tab[i].count = 0
      BY <3>1 DEF FreeInode
    <3> QED
      BY <2>1, <3>1, <3>2
  <2> QED
    BY <2>1
<1>11. \A i \in im \ gone : /\ new[i].kind \in {"file", "dir"}
                            /\ new[i].kind = "dir" =>
                                 Cardinality(new[i].zones) = Blocks(Len(new[i].ents))
  <2>1. \A i \in im \ gone : /\ new[i].kind = tab[i].kind /\ new[i].zones = tab[i].zones
                             /\ new[i].ents = tab[i].ents
    BY <1>5
  <2> QED
    BY <2>1 DEF Exact
<1> QED
  BY <1>5, <1>8, <1>9, <1>10, <1>11 DEF Exact

(* After iput the tree and the maps are as right as they were before.      *)
LEMMA PutKeeps ==
    ASSUME NEW tab, tab \in [Inos -> Recs], NEW im, NEW zm, NEW s, iput(tab, im, zm, s),
           Tree(tab), Exact(tab, im, zm),
           \A i \in Inos : Puts(s, i) \in Nat /\ Puts(s, i) <= tab[i].count
    PROVE  /\ inode' \in [Inos -> Recs] /\ Tree(inode') /\ Exact(inode', imap', zmap')
           /\ \A i \in Inos : inode'[i].count = tab[i].count - Puts(s, i)
<1>1. PICK gone : gone = {i \in Inos : Puts(s, i) > 0 /\ tab[i].count = Puts(s, i)
                                         /\ tab[i].nlinks = 0}
  OBVIOUS
<1>0. PICK new : new = [i \in Inos |-> IF i \in gone THEN FreeInode
                                  ELSE [tab[i] EXCEPT !.count = @ - Puts(s, i)]]
  OBVIOUS
<1>2. /\ new \in [Inos -> Recs]
      /\ \A i \in Inos : new[i].count = tab[i].count - Puts(s, i)
      /\ \A i \in gone : new[i] = FreeInode
      /\ \A i \in Inos \ gone : /\ new[i].kind = tab[i].kind
                                /\ new[i].nlinks = tab[i].nlinks
                                /\ new[i].zones = tab[i].zones
                                /\ new[i].ents = tab[i].ents
                                /\ Puts(s, i) = 0 => new[i] = tab[i]
  <2>3. FreeInode \in Recs /\ FreeInode.count = 0
    BY EmptySeq DEF FreeInode, Recs
  <2>4. ASSUME NEW i \in Inos, NEW n \in Nat, n = Puts(s, i), n <= tab[i].count,
               NEW r, r = [tab[i] EXCEPT !.count = @ - n]
        PROVE  /\ r \in Recs /\ r.count = tab[i].count - n /\ r.kind = tab[i].kind
               /\ r.nlinks = tab[i].nlinks /\ r.zones = tab[i].zones /\ r.ents = tab[i].ents
               /\ n = 0 => r = tab[i]
    <3>1. tab[i] \in Recs /\ tab[i].count - n \in Nat
      BY <2>4 DEF Recs
    <3>2. r = [tab[i] EXCEPT !.count = tab[i].count - n]
      BY <2>4
    <3> QED
      BY <3>1, <3>2, CountChanged
  <2>5. ASSUME NEW i \in gone
        PROVE  i \in Inos /\ new[i] = FreeInode /\ new[i].count = tab[i].count - Puts(s, i)
    BY <1>0, <1>1, <2>3
  <2>6. ASSUME NEW i \in Inos \ gone
        PROVE  /\ new[i] \in Recs /\ new[i].count = tab[i].count - Puts(s, i)
               /\ new[i].kind = tab[i].kind
               /\ new[i].nlinks = tab[i].nlinks
               /\ new[i].zones = tab[i].zones
               /\ new[i].ents = tab[i].ents
               /\ Puts(s, i) = 0 => new[i] = tab[i]
    <3>1. new[i] = [tab[i] EXCEPT !.count = @ - Puts(s, i)]
      BY <1>0
    <3> QED
      BY <2>4, <3>1
  <2>7. new \in [Inos -> Recs]
    BY <1>0, <2>3, <2>5, <2>6
  <2> QED
    BY <2>5, <2>6, <2>7
<1>4. new = inode' /\ imap' = im \ gone /\ zmap' = zm \ UNION {tab[i].zones : i \in gone}
  <2>1. Unreferenced(tab, s) = gone
    BY <1>1 DEF Unreferenced
  <2> QED
    BY <1>0, <2>1 DEF iput
<1>3. gone \subseteq Inos /\ \A i \in gone : tab[i].nlinks = 0
  BY <1>1
<1>5. Tree(new)
  <2>1. LinksKept(tab, new, gone)
    BY <1>2, <1>3 DEF LinksKept
  <2> QED
    BY <2>1, PutTree
<1>6. ASSUME NEW i \in Inos \ gone
      PROVE  /\ new[i].nlinks > 0 \/ new[i].count > 0 \/ new[i] = tab[i]
             /\ tab[i].count = 0 => new[i] = tab[i]
  <2>1. /\ tab[i].count \in Nat /\ tab[i].nlinks \in Nat /\ Puts(s, i) \in Nat
        /\ Puts(s, i) <= tab[i].count
    BY DEF Recs
  <2>2. /\ new[i].nlinks = tab[i].nlinks /\ new[i].count = tab[i].count - Puts(s, i)
        /\ Puts(s, i) = 0 => new[i] = tab[i]
    BY <1>2
  <2>3. Puts(s, i) = 0 \/ tab[i].count # Puts(s, i) \/ tab[i].nlinks > 0
    BY <1>1, <2>1
  <2>4. \A a, c, n \in Nat : n <= c => /\ c # n => c - n > 0
                                       /\ c = 0 => n = 0
    OBVIOUS
  <2>5. CASE Puts(s, i) = 0
    BY <2>2, <2>5
  <2>6. CASE Puts(s, i) # 0 /\ tab[i].count # Puts(s, i)
    BY <2>1, <2>2, <2>4, <2>6
  <2>7. CASE Puts(s, i) # 0 /\ tab[i].nlinks > 0
    BY <2>1, <2>2, <2>4, <2>7
  <2> QED
    BY <2>3, <2>5, <2>6, <2>7
<1>7. Exact(new, im \ gone, zm \ UNION {tab[i].zones : i \in gone})
  BY <1>2, <1>3, <1>6, PutExact
<1>8. Exact(inode', imap', zmap') /\ Tree(inode')
  BY <1>4, <1>5, <1>7
<1> QED
  BY <1>2, <1>4, <1>8

-----------------------------------------------------------------------------
(* Changing the slots of directories.                                      *)

SameButTwo(m, n, S, a, b) ==
    /\ a \in S /\ b \in S /\ a # b
    /\ \A y \in S : y # a /\ y # b => n[y] = m[y]

LEMMA TwoChanges ==
    ASSUME NEW S, IsFiniteSet(S), NEW m, NEW n, NEW a, NEW b, SameButTwo(m, n, S, a, b), NEW v
    PROVE  Cardinality(Where(n, S, v)) = Cardinality(Where(m, S, v))
               - Is(m[a], v) + Is(n[a], v)
               - Is(m[b], v) + Is(n[b], v)
<1> USE DEF SameButTwo
<1>1. PICK h : h = [y \in S |-> IF y = a THEN n[a] ELSE m[y]]
  OBVIOUS
<1>2. h[a] = n[a] /\ h[b] = m[b] /\ \A y \in S : /\ y # a => h[y] = m[y]
                                                 /\ y # b => n[y] = h[y]
  BY <1>1
<1> HIDE <1>1
<1>3. /\ Cardinality(Where(m, S, v)) \in Nat /\ Cardinality(Where(h, S, v)) \in Nat
      /\ Cardinality(Where(h, S, v)) = Cardinality(Where(m, S, v))
             - Is(m[a], v) + Is(h[a], v)
  <2>1. SameBut(m, h, S, a)
    BY <1>2 DEF SameBut
  <2> QED
    BY <2>1, OneChange
<1>4. Cardinality(Where(n, S, v)) = Cardinality(Where(h, S, v))
             - Is(h[b], v) + Is(n[b], v)
  <2>1. SameBut(h, n, S, b)
    BY <1>2 DEF SameBut
  <2> QED
    BY <2>1, OneChange
<1> QED
  BY <1>2, <1>3, <1>4 DEF Is

LEMMA NamedNat == \A tab, i : Named(tab, i) \in Nat
BY Finite, WhereFinite DEF Named

LEMMA DiskAt ==
    ASSUME NEW tab, NEW d \in Inos, NEW k \in 1..MaxEntries
    PROVE  <<d, k>> \in Places /\ Disk(tab)[<<d, k>>] = Ino(tab, d, k)
BY DEF Disk, Places

(* A place that names an inode counts.                                     *)
LEMMA NamedSome ==
    ASSUME NEW tab, NEW d \in Inos, NEW k \in 1..MaxEntries, NEW i, Ino(tab, d, k) = i
    PROVE  Named(tab, i) > 0
<1>1. <<d, k>> \in Where(Disk(tab), Places, i)
  BY DiskAt DEF Where
<1>2. IsFiniteSet(Where(Disk(tab), Places, i))
  BY Finite, WhereFinite
<1>3. Cardinality(Where(Disk(tab), Places, i)) # 0
  BY <1>1, <1>2, FS_EmptySet
<1> QED
  BY <1>3, NamedNat DEF Named

LEMMA NamedNone ==
    ASSUME NEW tab, NEW i, \A d \in Inos, k \in 1..MaxEntries : Ino(tab, d, k) # i
    PROVE  Named(tab, i) = 0
<1>1. Where(Disk(tab), Places, i) = {}
  <2>1. ASSUME NEW e \in Places PROVE Disk(tab)[e] # i
    BY DEF Disk, Places
  <2> QED
    BY <2>1 DEF Where
<1> QED
  BY <1>1, FS_EmptySet DEF Named

(* One slot of one directory changes.                                      *)
EntSet(tab, new, d, k, e) ==
    /\ d \in Inos /\ k \in 1..MaxEntries
    /\ \A c \in Inos : c # d => new[c].ents = tab[c].ents
    /\ DOMAIN new[d].ents = DOMAIN tab[d].ents \cup {k} /\ new[d].ents[k] = e
    /\ \A j \in DOMAIN tab[d].ents : j # k => new[d].ents[j] = tab[d].ents[j]

LEMMA SlotChanged ==
    ASSUME NEW tab, NEW new, NEW d, NEW k, NEW e, EntSet(tab, new, d, k, e)
    PROVE  /\ \A c \in Inos, j \in 1..MaxEntries :
                 Ino(new, c, j) = IF c = d /\ j = k THEN e.ino ELSE Ino(tab, c, j)
           /\ \A i : Named(new, i) = Named(tab, i) - Is(Ino(tab, d, k), i)
                                                   + Is(e.ino, i)
<1> USE DEF EntSet
<1>1. \A c \in Inos, j \in 1..MaxEntries :
         Ino(new, c, j) = IF c = d /\ j = k THEN e.ino ELSE Ino(tab, c, j)
  <2>1. ASSUME NEW c \in Inos, NEW j \in 1..MaxEntries, c # d
        PROVE  Ino(new, c, j) = Ino(tab, c, j)
    BY <2>1 DEF Ino
  <2>2. ASSUME NEW j \in 1..MaxEntries, j # k
        PROVE  Ino(new, d, j) = Ino(tab, d, j)
    BY <2>2 DEF Ino
  <2>3. Ino(new, d, k) = e.ino
    BY DEF Ino
  <2> QED
    BY <2>1, <2>2, <2>3
<1>2. ASSUME NEW y \in Places, y # <<d, k>>
      PROVE  Disk(new)[y] = Disk(tab)[y]
  <2>1. PICK c \in Inos, j \in 1..MaxEntries : y = <<c, j>>
    BY DEF Places
  <2>2. c # d \/ j # k
    BY <1>2, <2>1
  <2> QED
    BY <1>1, <2>1, <2>2, DiskAt
<1>3. /\ <<d, k>> \in Places /\ Disk(new)[<<d, k>>] = e.ino
      /\ Disk(tab)[<<d, k>>] = Ino(tab, d, k)
  BY <1>1, DiskAt
<1>4. IsFiniteSet(Places)
  BY Finite
<1>5. ASSUME NEW i
      PROVE  Named(new, i) = Named(tab, i) - Is(Ino(tab, d, k), i)
                                           + Is(e.ino, i)
  <2>1. Cardinality(Where(Disk(new), Places, i)) = Cardinality(Where(Disk(tab), Places, i))
           - Is(Disk(tab)[<<d, k>>], i) + Is(Disk(new)[<<d, k>>], i)
    <3>1. SameBut(Disk(tab), Disk(new), Places, <<d, k>>)
      BY <1>2, <1>3 DEF SameBut
    <3> QED
      BY <1>4, <3>1, OneChange
  <2> QED
    BY <1>3, <2>1 DEF Named
<1> QED
  BY <1>1, <1>5

(* A record with other slots and other zones.                              *)
LEMMA EntsChanged ==
    ASSUME NEW t \in Recs, NEW es \in Seq(Ent), NEW z \in SUBSET Zones,
           NEW r, r = [kind |-> t.kind, nlinks |-> t.nlinks, count |-> t.count,
                       zones |-> z, ents |-> es]
    PROVE  /\ r \in Recs /\ r.ents = es /\ r.zones = z
           /\ r.kind = t.kind /\ r.nlinks = t.nlinks /\ r.count = t.count
<1> PICK E : E = Seq(Ent)
  OBVIOUS
<1>1. t \in [kind : {"free", "file", "dir", "new"}, nlinks : Nat, count : Nat,
            zones : SUBSET Zones, ents : E]
  BY DEF Recs
<1>2. r \in [kind : {"free", "file", "dir", "new"}, nlinks : Nat, count : Nat,
            zones : SUBSET Zones, ents : E]
  BY <1>1
<1> QED
  BY <1>1, <1>2 DEF Recs

(* Clearing a slot.                                                        *)
LEMMA RemovedSlot ==
    ASSUME NEW tab, tab \in [Inos -> Recs], NEW d \in Inos, NEW k \in DOMAIN tab[d].ents,
           NEW e \in Ent, NEW r, r = [tab EXCEPT ![d].ents[k] = e]
    PROVE  /\ r \in [Inos -> Recs] /\ \A c \in Inos : c # d => r[c] = tab[c]
           /\ r[d].kind = tab[d].kind /\ r[d].nlinks = tab[d].nlinks
           /\ r[d].count = tab[d].count /\ r[d].zones = tab[d].zones
           /\ DOMAIN r[d].ents = DOMAIN tab[d].ents /\ Len(r[d].ents) = Len(tab[d].ents)
           /\ r[d].ents[k] = e
           /\ \A j \in DOMAIN tab[d].ents : j # k => r[d].ents[j] = tab[d].ents[j]
<1>1. PICK t : t = tab[d]
  OBVIOUS
<1>2. t \in Recs /\ t.ents \in Seq(Ent) /\ t.zones \in SUBSET Zones
  BY <1>1 DEF Recs
<1>3. PICK es : es = [t.ents EXCEPT ![k] = e]
  OBVIOUS
<1>4. /\ es \in Seq(Ent) /\ DOMAIN es = DOMAIN t.ents /\ Len(es) = Len(t.ents)
      /\ es[k] = e /\ \A j \in DOMAIN t.ents : j # k => es[j] = t.ents[j]
  <2>1. k \in 1..Len(t.ents)
    BY <1>1, <1>2
  <2> QED
    BY <1>1, <1>2, <1>3, <2>1, ExceptSeq
<1>5. r[d] = [kind |-> t.kind, nlinks |-> t.nlinks, count |-> t.count,
              zones |-> t.zones, ents |-> es]
  <2>1. r[d] = [t EXCEPT !.ents = es]
    BY <1>1, <1>3
  <2>2. ASSUME NEW E, t \in [kind : {"free", "file", "dir", "new"}, nlinks : Nat, count : Nat,
                             zones : SUBSET Zones, ents : E]
        PROVE  [t EXCEPT !.ents = es] =
                 [kind |-> t.kind, nlinks |-> t.nlinks, count |-> t.count,
                  zones |-> t.zones, ents |-> es]
    BY <2>2
  <2> QED
    BY <1>2, <2>1, <2>2 DEF Recs
<1>6. /\ r[d] \in Recs /\ r[d].ents = es /\ r[d].zones = t.zones
      /\ r[d].kind = t.kind /\ r[d].nlinks = t.nlinks /\ r[d].count = t.count
  <2>1. PICK z : z = t.zones
    OBVIOUS
  <2>2. t \in Recs /\ z \in SUBSET Zones /\ es \in Seq(Ent)
    BY <1>2, <1>4, <2>1 DEF Recs
  <2>3. PICK u : u = r[d]
    OBVIOUS
  <2>4. u = [kind |-> t.kind, nlinks |-> t.nlinks, count |-> t.count, zones |-> z, ents |-> es]
    BY <1>5, <2>1, <2>3
  <2>5. /\ u \in Recs /\ u.ents = es /\ u.zones = z
        /\ u.kind = t.kind /\ u.nlinks = t.nlinks /\ u.count = t.count
    BY <2>2, <2>4, EntsChanged
  <2> QED
    BY <2>1, <2>3, <2>5
<1>7. r \in [Inos -> Recs] /\ \A c \in Inos : c # d => r[c] = tab[c]
  <2>1. DOMAIN r = Inos /\ \A c \in Inos : c # d => r[c] = tab[c]
    OBVIOUS
  <2>2. r = [c \in Inos |-> r[c]]
    OBVIOUS
  <2> QED
    BY <1>6, <2>1, <2>2
<1> QED
  BY <1>1, <1>4, <1>6, <1>7

(* An inode with other counts.                                             *)
LEMMA RecordLinks ==
    ASSUME NEW t \in Recs, NEW n \in Nat, NEW u, u = [t EXCEPT !.nlinks = n]
    PROVE  /\ u \in Recs /\ u.kind = t.kind /\ u.nlinks = n /\ u.count = t.count
           /\ u.zones = t.zones /\ u.ents = t.ents
<1>1. PICK E : E = Seq(Ent)
  OBVIOUS
<1>2. t \in [kind : {"free", "file", "dir", "new"}, nlinks : Nat, count : Nat,
            zones : SUBSET Zones, ents : E]
  BY <1>1 DEF Recs
<1>3. u \in [kind : {"free", "file", "dir", "new"}, nlinks : Nat, count : Nat,
            zones : SUBSET Zones, ents : E]
  BY <1>2
<1>4. /\ u.kind = t.kind /\ u.nlinks = n /\ u.count = t.count
      /\ u.zones = t.zones /\ u.ents = t.ents
  BY <1>2
<1> QED
  BY <1>1, <1>3, <1>4 DEF Recs

LEMMA RecordCount ==
    ASSUME NEW t \in Recs, NEW c \in Nat, NEW u, u = [t EXCEPT !.count = c]
    PROVE  /\ u \in Recs /\ u.kind = t.kind /\ u.nlinks = t.nlinks /\ u.count = c
           /\ u.zones = t.zones /\ u.ents = t.ents
<1>1. PICK E : E = Seq(Ent)
  OBVIOUS
<1>2. t \in [kind : {"free", "file", "dir", "new"}, nlinks : Nat, count : Nat,
            zones : SUBSET Zones, ents : E]
  BY <1>1 DEF Recs
<1>3. u \in [kind : {"free", "file", "dir", "new"}, nlinks : Nat, count : Nat,
            zones : SUBSET Zones, ents : E]
  BY <1>2
<1>4. /\ u.kind = t.kind /\ u.nlinks = t.nlinks /\ u.count = c
      /\ u.zones = t.zones /\ u.ents = t.ents
  BY <1>2
<1> QED
  BY <1>1, <1>3, <1>4 DEF Recs

LEMMA LinksAt ==
    ASSUME NEW tab, tab \in [Inos -> Recs], NEW i \in Inos, NEW n \in Nat,
           NEW r, r = [tab EXCEPT ![i].nlinks = n]
    PROVE  /\ r \in [Inos -> Recs] /\ \A j \in Inos : j # i => r[j] = tab[j]
           /\ r[i].kind = tab[i].kind /\ r[i].nlinks = n /\ r[i].count = tab[i].count
           /\ r[i].zones = tab[i].zones /\ r[i].ents = tab[i].ents
<1>1. PICK t : t = tab[i]
  OBVIOUS
<1>2. PICK u : u = r[i]
  OBVIOUS
<1>3. t \in Recs /\ u = [t EXCEPT !.nlinks = n]
  BY <1>1, <1>2
<1>4. /\ u \in Recs /\ u.kind = t.kind /\ u.nlinks = n /\ u.count = t.count
      /\ u.zones = t.zones /\ u.ents = t.ents
  BY <1>3, RecordLinks
<1>5. DOMAIN r = Inos /\ r = [j \in Inos |-> r[j]] /\ \A j \in Inos : j # i => r[j] = tab[j]
  OBVIOUS
<1>6. r \in [Inos -> Recs]
  BY <1>2, <1>4, <1>5
<1> QED
  BY <1>1, <1>2, <1>4, <1>5, <1>6

LEMMA CountAt ==
    ASSUME NEW tab, tab \in [Inos -> Recs], NEW i \in Inos, NEW c \in Nat,
           NEW r, r = [tab EXCEPT ![i].count = c]
    PROVE  /\ r \in [Inos -> Recs] /\ \A j \in Inos : j # i => r[j] = tab[j]
           /\ r[i].kind = tab[i].kind /\ r[i].nlinks = tab[i].nlinks /\ r[i].count = c
           /\ r[i].zones = tab[i].zones /\ r[i].ents = tab[i].ents
<1>1. PICK t : t = tab[i]
  OBVIOUS
<1>2. PICK u : u = r[i]
  OBVIOUS
<1>3. t \in Recs /\ u = [t EXCEPT !.count = c]
  BY <1>1, <1>2
<1>4. /\ u \in Recs /\ u.kind = t.kind /\ u.nlinks = t.nlinks /\ u.count = c
      /\ u.zones = t.zones /\ u.ents = t.ents
  BY <1>3, RecordCount
<1>5. DOMAIN r = Inos /\ r = [j \in Inos |-> r[j]] /\ \A j \in Inos : j # i => r[j] = tab[j]
  OBVIOUS
<1>6. r \in [Inos -> Recs]
  BY <1>2, <1>4, <1>5
<1> QED
  BY <1>1, <1>2, <1>4, <1>5, <1>6

(* The inode i gets n links and c references.                              *)
BothSet(tab, r, i, n, c) == r = [tab EXCEPT ![i].nlinks = n, ![i].count = c]

Recounted(tab, r, i, n, c) ==
    /\ r \in [Inos -> Recs] /\ \A j \in Inos : j # i => r[j] = tab[j]
    /\ r[i].kind = tab[i].kind /\ r[i].nlinks = n /\ r[i].count = c
    /\ r[i].zones = tab[i].zones /\ r[i].ents = tab[i].ents

LEMMA BothAt ==
    ASSUME NEW tab, tab \in [Inos -> Recs], NEW i \in Inos, NEW n \in Nat, NEW c \in Nat,
           NEW r, BothSet(tab, r, i, n, c)
    PROVE  Recounted(tab, r, i, n, c)
<1> USE DEF BothSet
<1>1. PICK t : t = tab[i]
  OBVIOUS
<1>2. PICK u : u = r[i]
  OBVIOUS
<1>4. PICK E : E = Seq(Ent)
  OBVIOUS
<1>5. t \in [kind : {"free", "file", "dir", "new"}, nlinks : Nat, count : Nat,
            zones : SUBSET Zones, ents : E]
  BY <1>1, <1>4 DEF Recs
<1>6. u = [t EXCEPT !.nlinks = n, !.count = c]
  BY <1>1, <1>2
<1>7. u \in [kind : {"free", "file", "dir", "new"}, nlinks : Nat, count : Nat,
            zones : SUBSET Zones, ents : E]
  BY <1>5, <1>6
<1>8. /\ u.kind = t.kind /\ u.nlinks = n /\ u.count = c
      /\ u.zones = t.zones /\ u.ents = t.ents
  BY <1>5, <1>6
<1>9. DOMAIN r = Inos /\ r = [j \in Inos |-> r[j]] /\ \A j \in Inos : j # i => r[j] = tab[j]
  OBVIOUS
<1>10. r \in [Inos -> Recs]
  BY <1>2, <1>4, <1>7, <1>9 DEF Recs
<1> QED
  BY <1>1, <1>2, <1>8, <1>9, <1>10 DEF Recounted

(* The blocks a directory needs.                                           *)
LEMMA DivAt ==
    ASSUME NEW b \in Nat, b > 0, NEW q \in Nat, NEW r \in Nat, r < b
    PROVE  (q * b + r) \div b = q /\ (q * b + r) % b = r
<1>1. PICK a \in Nat : a = q * b + r
  OBVIOUS
<1>2. PICK d \in Nat : d = a \div b
  OBVIOUS
<1>3. PICK m \in Nat : m = a % b
  OBVIOUS
<1>4. a = d * b + m /\ m < b
  BY <1>2, <1>3
<1>5. d = q
  <2>1. d * b + m = q * b + r
    BY <1>1, <1>4
  <2>2. ~(d > q)
    <3>1. ASSUME d > q PROVE FALSE
      <4>1. PICK e \in Nat : d = q + 1 + e
        BY <3>1
      <4>2. d * b = q * b + b + e * b /\ e * b \in Nat
        BY <4>1
      <4> QED
        BY <1>4, <2>1, <4>2
    <3> QED
      BY <3>1
  <2>3. ~(q > d)
    <3>1. ASSUME q > d PROVE FALSE
      <4>1. PICK e \in Nat : q = d + 1 + e
        BY <3>1
      <4>2. q * b = d * b + b + e * b /\ e * b \in Nat
        BY <4>1
      <4> QED
        BY <1>4, <2>1, <4>2
    <3> QED
      BY <3>1
  <2> QED
    BY <2>2, <2>3
<1>6. m = r
  BY <1>1, <1>4, <1>5
<1> QED
  BY <1>1, <1>2, <1>3, <1>5, <1>6

LEMMA BlocksGrow ==
    ASSUME NEW n \in Nat
    PROVE  Blocks(n + 1) = Blocks(n) + (IF n % PerBlock = 0 THEN 1 ELSE 0) /\ Blocks(n) \in Nat
<1>1. PICK b \in Nat : b = PerBlock
  BY FilesAssumption
<1>2. PICK q \in Nat, r \in Nat : n = q * b + r /\ r < b
  <2>1. PICK q \in Nat : q = n \div b
    BY <1>1, FilesAssumption
  <2>2. PICK r \in Nat : r = n % b
    BY <1>1, FilesAssumption
  <2>3. n = q * b + r /\ r < b
    BY <1>1, <2>1, <2>2, FilesAssumption
  <2> QED
    BY <2>3
<1>3. b > 1
  BY <1>1, FilesAssumption
<1>4. n % b = r
  BY <1>2, <1>3, DivAt
<1>5. PICK p \in Nat : p = q * b
  BY <1>2
<1>6. (q + 1) * b = p + b
  BY <1>5
<1>7. CASE r = 0
  <2>1. (n + b - 1) \div b = q
    <3>1. n + b - 1 = q * b + (b - 1) /\ b - 1 \in Nat /\ b - 1 < b
      BY <1>2, <1>3, <1>5, <1>7
    <3> QED
      BY <1>3, <3>1, DivAt
  <2>2. (n + 1 + b - 1) \div b = q + 1
    <3>1. n + 1 + b - 1 = (q + 1) * b + 0 /\ q + 1 \in Nat
      BY <1>2, <1>5, <1>6, <1>7
    <3> QED
      BY <1>3, <3>1, DivAt
  <2> QED
    BY <1>1, <1>4, <1>7, <2>1, <2>2 DEF Blocks
<1>8. CASE r # 0
  <2>1. (n + b - 1) \div b = q + 1
    <3>1. n + b - 1 = (q + 1) * b + (r - 1) /\ r - 1 \in Nat /\ r - 1 < b /\ q + 1 \in Nat
      BY <1>2, <1>5, <1>6, <1>8
    <3> QED
      BY <1>3, <3>1, DivAt
  <2>2. (n + 1 + b - 1) \div b = q + 1
    <3>1. n + 1 + b - 1 = (q + 1) * b + r /\ q + 1 \in Nat
      BY <1>2, <1>5, <1>6
    <3> QED
      BY <1>2, <1>3, <3>1, DivAt
  <2> QED
    BY <1>1, <1>4, <1>8, <2>1, <2>2 DEF Blocks
<1> QED
  BY <1>7, <1>8

LEMMA BlocksTwo == Blocks(2) = 1
<1>1. PICK b \in Nat : b = PerBlock /\ b > 1
  BY FilesAssumption
<1>2. 2 + b - 1 = 1 * b + 1
  BY <1>1
<1>3. (2 + b - 1) \div b = 1
  BY <1>1, <1>2, DivAt
<1> QED
  BY <1>1, <1>3 DEF Blocks

(* A sequence with one element changed.                                    *)
LEMMA SlotWritten ==
    ASSUME NEW S, NEW q \in Seq(S), NEW k \in 1..Len(q), NEW e \in S,
           NEW r, r = [q EXCEPT ![k] = e]
    PROVE  /\ r \in Seq(S) /\ Len(r) = Len(q) /\ DOMAIN r = 1..Len(q)
           /\ r[k] = e /\ \A j \in 1..Len(q) : j # k => r[j] = q[j]
<1>1. r \in Seq(S) /\ Len(r) = Len(q)
  BY ExceptSeq
<1> QED
  BY <1>1

(* A new entry in the directory d, which takes the blocks zs for it.       *)
Room(tab, d) == Len(tab[d].ents) \in 2..MaxEntries
                /\ (Holes(tab, d) # {} \/ Len(tab[d].ents) < MaxEntries)

AddedTo(tab, new, d, k, e, zm, zs) ==
    /\ new \in [Inos -> Recs] /\ \A c \in Inos : c # d => new[c] = tab[c]
    /\ new[d].kind = tab[d].kind /\ new[d].nlinks = tab[d].nlinks
    /\ new[d].count = tab[d].count
    /\ new[d].zones = tab[d].zones \cup zs /\ Len(new[d].ents) \in 2..MaxEntries
    /\ MapAfter(tab, d, zm) = zm \cup zs /\ zs \subseteq Zones \ zm
    /\ IsFiniteSet(zs)
    /\ Blocks(Len(new[d].ents)) = Blocks(Len(tab[d].ents)) + Cardinality(zs)
    /\ Ino(tab, d, k) = 0 /\ DOMAIN new[d].ents = DOMAIN tab[d].ents \cup {k}
    /\ new[d].ents[k] = e
    /\ \A j \in DOMAIN tab[d].ents : j # k => new[d].ents[j] = tab[d].ents[j]

LEMMA AddedSlot ==
    ASSUME NEW tab, tab \in [Inos -> Recs], NEW d \in Inos, NEW n \in Components, NEW i \in Inos,
           NEW zm, zm \subseteq Zones, CanAdd(tab, d, zm), Room(tab, d),
           NEW new, new = add_entry(tab, d, n, i, zm)
    PROVE  \E k \in 1..MaxEntries, zs \in SUBSET Zones :
               AddedTo(tab, new, d, k, Entry(n, i), zm, zs)
<1> USE DEF Room
<1>14. PICK zs : zs = MapAfter(tab, d, zm) \ zm
  OBVIOUS
<1>1. PICK t : t = tab[d]
  OBVIOUS
<1>2. PICK es : es = IF Holes(tab, d) # {} THEN [t.ents EXCEPT ![Min(Holes(tab, d))] = Entry(n, i)]
                     ELSE Append(t.ents, Entry(n, i))
  OBVIOUS
<1>3. PICK l : l = Len(t.ents)
  OBVIOUS
<1>4. t \in Recs /\ t.zones \in SUBSET Zones
  BY <1>1 DEF Recs
<1>8. /\ es \in Seq(Ent) /\ Len(es) \in 2..MaxEntries
      /\ MapAfter(tab, d, zm) = zm \cup zs /\ zs \subseteq Zones \ zm /\ IsFiniteSet(zs)
      /\ Blocks(Len(es)) = Blocks(l) + Cardinality(zs)
      /\ \E k \in 1..MaxEntries :
              /\ Ino(tab, d, k) = 0 /\ DOMAIN es = DOMAIN t.ents \cup {k}
              /\ es[k] = Entry(n, i)
              /\ \A j \in DOMAIN t.ents : j # k => es[j] = t.ents[j]
  <2>3. l \in Nat /\ l = Len(t.ents) /\ l \in 2..MaxEntries
    BY <1>1, <1>3, FilesAssumption
  <2>4. /\ t \in Recs /\ t.ents \in Seq(Ent) /\ t.zones \in SUBSET Zones
        /\ DOMAIN t.ents = 1..l /\ Entry(n, i) \in Ent /\ Entry(n, i).ino = i
    <3>0. t \in Recs
      BY <1>4
    <3>1. t.ents \in Seq(Ent) /\ t.zones \in SUBSET Zones
      BY <1>4 DEF Recs
    <3>2. Entry(n, i) \in Ent /\ Entry(n, i).ino = i
      BY DEF Ent, Entry
    <3> QED
      BY <2>3, <3>0, <3>1, <3>2
  <2>5. Holes(tab, d) = {k \in 1..l : t.ents[k].ino = 0}
    BY <1>1, <2>4 DEF Holes
  <2>6. CASE Holes(tab, d) # {}
    <3>1. PICK k : k = Min(Holes(tab, d))
      OBVIOUS
    <3>2. k \in 1..l /\ t.ents[k].ino = 0
      <4>1. Holes(tab, d) \subseteq Nat
        BY <2>5
      <4>2. k \in Holes(tab, d)
        BY <2>6, <3>1, <4>1, MinIsLeast
      <4> QED
        BY <2>5, <4>2
    <3>3. es = [t.ents EXCEPT ![k] = Entry(n, i)]
      BY <1>2, <2>6, <3>1
    <3>4. es \in Seq(Ent) /\ Len(es) = l /\ DOMAIN es = 1..l
      BY <2>3, <2>4, <3>2, <3>3, SlotWritten
    <3>5. es[k] = Entry(n, i) /\ \A j \in 1..l : j # k => es[j] = t.ents[j]
      BY <2>4, <3>2, <3>3
    <3>6. zs = {} /\ MapAfter(tab, d, zm) = zm
      BY <1>14, <2>6 DEF MapAfter, Grows
    <3>7. k \in 1..MaxEntries
      BY <2>3, <3>2, FilesAssumption
    <3>8. 1..l = (1..l) \cup {k}
      BY <3>2
    <3> HIDE <2>6
    <3>9. /\ es \in Seq(Ent) /\ Len(es) \in 2..MaxEntries
          /\ \E k1 \in 1..MaxEntries :
                /\ Ino(tab, d, k1) = 0 /\ DOMAIN es = DOMAIN t.ents \cup {k1}
                /\ es[k1] = Entry(n, i)
                /\ \A j \in DOMAIN t.ents : j # k1 => es[j] = t.ents[j]
      <4>1. Ino(tab, d, k) = 0
        BY <1>1, <2>4, <3>2 DEF Ino
      <4> QED
        BY <2>3, <2>4, <3>4, <3>5, <3>7, <3>8, <4>1
    <3>10. Blocks(Len(es)) = Blocks(l) + Cardinality(zs)
      <4>1. Cardinality(zs) = 0 /\ Blocks(l) \in Nat
        BY <2>3, <3>6, FS_EmptySet, BlocksGrow
      <4> QED
        BY <3>4, <4>1
    <3> QED
      BY <3>6, <3>9, <3>10, FS_EmptySet
  <2>7. CASE Holes(tab, d) = {}
    <3>1. es = Append(t.ents, Entry(n, i))
      BY <1>2, <2>7
    <3>2. /\ es \in Seq(Ent) /\ Len(es) = l + 1 /\ es[l + 1] = Entry(n, i)
          /\ \A j \in 1..l : es[j] = t.ents[j]
      BY <2>3, <2>4, <3>1, AppendProperties
    <3>3. DOMAIN es = 1..(l + 1)
      BY <3>2
    <3>4. l < MaxEntries
      BY <1>1, <2>3, <2>7
    <3>5. l + 1 \in 1..MaxEntries /\ l + 1 \in 2..MaxEntries /\ 1..(l + 1) = (1..l) \cup {l + 1}
      BY <2>3, <3>4, FilesAssumption
    <3>6. Ino(tab, d, l + 1) = 0
      BY <1>1, <2>3, <2>4 DEF Ino
    <3>7. /\ es \in Seq(Ent) /\ Len(es) \in 2..MaxEntries
          /\ \E k1 \in 1..MaxEntries :
                /\ Ino(tab, d, k1) = 0 /\ DOMAIN es = DOMAIN t.ents \cup {k1}
                /\ es[k1] = Entry(n, i)
                /\ \A j \in DOMAIN t.ents : j # k1 => es[j] = t.ents[j]
      BY <2>4, <3>2, <3>3, <3>5, <3>6
    <3>8. Blocks(l + 1) = Blocks(l) + (IF l % PerBlock = 0 THEN 1 ELSE 0) /\ Blocks(l) \in Nat
      BY <2>3, BlocksGrow
    <3>9. CASE l % PerBlock = 0
      <4>1. Grows(tab, d)
        BY <1>1, <2>3, <2>7, <3>9 DEF Grows
      <4>2. Zones \ zm # {} /\ Zones \ zm \subseteq Nat
        BY <4>1, FilesAssumption DEF CanAdd
      <4>3. FreeZone(zm) \in Zones \ zm
        BY <4>2, MinIsLeast DEF FreeZone
      <4>4. MapAfter(tab, d, zm) = zm \cup {FreeZone(zm)}
        BY <4>1 DEF MapAfter
      <4>5. zs = {FreeZone(zm)}
        BY <1>14, <4>3, <4>4
      <4>6. IsFiniteSet(zs) /\ Cardinality(zs) = 1
        BY <4>5, FS_Singleton
      <4> QED
        BY <3>2, <3>7, <3>8, <3>9, <4>3, <4>4, <4>5, <4>6
    <3>10. CASE l % PerBlock # 0
      <4>1. MapAfter(tab, d, zm) = zm /\ zs = {}
        BY <1>14, <1>1, <2>3, <3>10 DEF Grows, MapAfter
      <4>2. IsFiniteSet(zs) /\ Cardinality(zs) = 0
        BY <4>1, FS_EmptySet
      <4> QED
        BY <3>2, <3>7, <3>8, <3>10, <4>1, <4>2
    <3> QED
      BY <3>9, <3>10
  <2> QED
    BY <2>6, <2>7
<1>0. PICK z : z = t.zones \cup zs
  OBVIOUS
<1>10. PICK u : u = new[d]
  OBVIOUS
<1>9. u = [t EXCEPT !.ents = es, !.zones = z]
  <2>1. u = [tab[d] EXCEPT
               !.ents = IF Holes(tab, d) # {}
                        THEN [tab[d].ents EXCEPT ![Min(Holes(tab, d))] = Entry(n, i)]
                        ELSE Append(tab[d].ents, Entry(n, i)),
               !.zones = tab[d].zones \cup (MapAfter(tab, d, zm) \ zm)]
    BY <1>10 DEF add_entry
  <2> QED
    BY <1>0, <1>14, <1>1, <1>2, <2>1
<1>11. /\ u \in Recs /\ u.ents = es /\ u.zones = z
       /\ u.kind = t.kind /\ u.nlinks = t.nlinks /\ u.count = t.count
  <2>1. PICK E : E = Seq(Ent)
    OBVIOUS
  <2>2. z \in SUBSET Zones /\ es \in E
    BY <1>0, <1>4, <1>8, <2>1
  <2>3. t \in [kind : {"free", "file", "dir", "new"}, nlinks : Nat, count : Nat,
              zones : SUBSET Zones, ents : E]
    BY <1>4, <2>1 DEF Recs
  <2>4. u \in [kind : {"free", "file", "dir", "new"}, nlinks : Nat, count : Nat,
              zones : SUBSET Zones, ents : E]
    BY <1>9, <2>2, <2>3
  <2>5. /\ u.ents = es /\ u.zones = z
        /\ u.kind = t.kind /\ u.nlinks = t.nlinks /\ u.count = t.count
    BY <1>9, <2>3
  <2> QED
    BY <2>1, <2>4, <2>5 DEF Recs
<1>12. /\ DOMAIN new = Inos /\ new = [c \in Inos |-> new[c]]
       /\ \A c \in Inos : c # d => new[c] = tab[c]
  BY DEF add_entry
<1>13. new \in [Inos -> Recs]
  BY <1>10, <1>11, <1>12
<1>15. PICK k \in 1..MaxEntries :
           /\ Ino(tab, d, k) = 0 /\ DOMAIN es = DOMAIN t.ents \cup {k}
           /\ es[k] = Entry(n, i)
           /\ \A j \in DOMAIN t.ents : j # k => es[j] = t.ents[j]
  BY <1>8
<1>16. AddedTo(tab, new, d, k, Entry(n, i), zm, zs)
  BY <1>0, <1>1, <1>3, <1>8, <1>10, <1>11, <1>12, <1>13, <1>15 DEF AddedTo
<1>17. zs \in SUBSET Zones
  BY <1>8
<1> QED
  BY <1>16, <1>17

(* One inode of an exact table changes and is, or stays, in use.           *)
OnlyAt(tab, new, i) == \A j \in Inos : j # i => new[j] = tab[j]

InOrder(r) ==
    /\ r.nlinks > 0 \/ r.count > 0
    /\ r.kind \in {"file", "dir"}
    /\ r.kind = "dir" => Cardinality(r.zones) = Blocks(Len(r.ents))

(* The map after the zones old are given for the zones z.                  *)
MapWith(zm, old, z, zm2) == zm2 = (zm \ old) \cup z /\ z \cap (zm \ old) = {}

LEMMA ExactAt ==
    ASSUME NEW tab, NEW im, NEW zm, Exact(tab, im, zm), NEW i \in Inos, NEW new,
           OnlyAt(tab, new, i), InOrder(new[i]),
           NEW zm2, MapWith(zm, tab[i].zones, new[i].zones, zm2)
    PROVE  Exact(new, im \cup {i}, zm2)
<1> USE DEF OnlyAt, InOrder, MapWith
<1>1. /\ im = {j \in Inos : tab[j].nlinks > 0 \/ tab[j].count > 0}
      /\ zm = UNION {tab[j].zones : j \in Inos}
      /\ \A j, k \in Inos : j # k => tab[j].zones \cap tab[k].zones = {}
  BY DEF Exact
<1>2. im \cup {i} = {j \in Inos : new[j].nlinks > 0 \/ new[j].count > 0}
  BY <1>1
<1>3. zm2 = UNION {new[j].zones : j \in Inos}
  <2>1. ASSUME NEW z \in zm2 PROVE \E j \in Inos : z \in new[j].zones
    <3>1. CASE z \in new[i].zones
      BY <3>1
    <3>2. CASE z \in zm \ tab[i].zones
      <4>1. PICK j \in Inos : z \in tab[j].zones
        BY <1>1, <3>2
      <4> QED
        BY <3>2, <4>1
    <3> QED
      BY <3>1, <3>2
  <2>2. ASSUME NEW j \in Inos, NEW z \in new[j].zones PROVE z \in zm2
    <3>1. CASE j = i
      BY <3>1
    <3>2. CASE j # i
      BY <1>1, <3>2
    <3> QED
      BY <3>1, <3>2
  <2> QED
    BY <2>1, <2>2
<1>4. ASSUME NEW j \in Inos, NEW k \in Inos, j # k
      PROVE  new[j].zones \cap new[k].zones = {}
  <2>1. ASSUME NEW c \in Inos, c # i PROVE new[c].zones \subseteq zm \ tab[i].zones
    BY <1>1, <2>1
  <2>2. CASE j = i
    BY <1>4, <2>1, <2>2
  <2>3. CASE k = i
    BY <1>4, <2>1, <2>3
  <2>4. CASE j # i /\ k # i
    BY <1>1, <1>4, <2>4
  <2> QED
    BY <2>2, <2>3, <2>4
<1>5. \A j \in Inos \ (im \cup {i}) : new[j] = FreeInode
  BY DEF Exact
<1>6. \A j \in im \cup {i} : new[j].kind \in {"file", "dir"}
  BY <1>1 DEF Exact
<1>7. \A j \in im \cup {i} : new[j].kind = "dir" =>
          Cardinality(new[j].zones) = Blocks(Len(new[j].ents))
  BY <1>1 DEF Exact
<1> QED
  BY <1>2, <1>3, <1>4, <1>5, <1>6, <1>7 DEF Exact

(* A tree whose directories, those in X aside, hang where they did.        *)
Regrown(tab, new, X) ==
    /\ X \subseteq Inos \ {Root}
    /\ \A i \in Inos : new[i].nlinks = Named(new, i)
    /\ \A i \in Inos : new[i].kind # "dir" => new[i].ents = <<>>
    /\ \A d \in Inos : new[d].kind = "dir" => Dots(new, d) /\ Unambiguous(new, d)
    /\ \A d \in Inos \ X : new[d].kind = "dir" =>
           /\ tab[d].kind = "dir" /\ new[d].ents[2].ino = tab[d].ents[2].ino
           /\ \A c \in Inos, j \in 3..MaxEntries : Ino(new, c, j) = d <=> Ino(tab, c, j) = d
    /\ \A d \in X : new[d].kind = "dir" => Hangs(new, d)
    /\ new[Root].kind = "dir"

LEMMA TreeAfter ==
    ASSUME NEW tab, tab \in [Inos -> Recs], Tree(tab), NEW new, new \in [Inos -> Recs],
           NEW X, Regrown(tab, new, X)
    PROVE  Tree(new)
<1>1. ASSUME NEW d \in Inos \ X, new[d].kind = "dir"
      PROVE  Hangs(new, d)
  <2>1. /\ tab[d].kind = "dir" /\ new[d].ents[2].ino = tab[d].ents[2].ino
        /\ \A c \in Inos, j \in 3..MaxEntries : Ino(new, c, j) = d <=> Ino(tab, c, j) = d
    BY <1>1 DEF Regrown
  <2>2. Hangs(tab, d) /\ Dots(tab, d)
    BY <2>1 DEF Tree
  <2>3. PICK p : p = tab[d].ents[2].ino
    OBVIOUS
  <2>4. p \in Inos
    BY <2>2, <2>3, ParentIno
  <2>5. CASE d = Root
    BY <2>5 DEF Hangs
  <2>6. CASE d # Root
    <3>1. PICK k \in 3..MaxEntries :
            /\ Ino(tab, p, k) = d
            /\ \A c \in Inos, j \in 3..MaxEntries : Ino(tab, c, j) = d => c = p /\ j = k
      BY <2>2, <2>3, <2>6 DEF Hangs
    <3>2. /\ Ino(new, p, k) = d
          /\ \A c \in Inos, j \in 3..MaxEntries : Ino(new, c, j) = d => c = p /\ j = k
      BY <2>1, <2>4, <3>1
    <3> QED
      BY <2>1, <2>3, <3>2 DEF Hangs
  <2> QED
    BY <2>5, <2>6
<1>2. \A i \in Inos : new[i].nlinks = Cardinality(Where(Disk(new), Places, i))
  BY DEF Named, Regrown
<1>3. new[Root].ents[2].ino = Root
  <2>1. Root \in Inos \ X
    BY FilesAssumption DEF Regrown
  <2> QED
    BY <2>1 DEF Tree, Regrown
<1>4. \A d \in Inos : new[d].kind = "dir" =>
          Dots(new, d) /\ Unambiguous(new, d) /\ Hangs(new, d)
  BY <1>1 DEF Regrown
<1> QED
  BY <1>2, <1>3, <1>4 DEF Tree, Regrown

(* "." alone keeps a directory's link count above zero.                    *)
LEMMA DotCounts ==
    ASSUME NEW tab, tab \in [Inos -> Recs], NEW d \in Inos,
           Len(tab[d].ents) \in 2..MaxEntries, tab[d].ents[1] = Entry(".", d)
    PROVE  Named(tab, d) > 0 /\ Ino(tab, d, 1) = d
<1>1. 1 \in DOMAIN tab[d].ents /\ 1 \in 1..MaxEntries
  BY FilesAssumption DEF Recs
<1>2. Ino(tab, d, 1) = d
  BY <1>1 DEF Ino, Entry
<1> QED
  BY <1>1, <1>2, NamedSome

(* The directory above is a directory, and "." and ".." are the first two  *)
(* slots: what is named in them is a directory.                            *)
LEMMA FirstSlotsNameDirs ==
    ASSUME NEW tab, tab \in [Inos -> Recs], Tree(tab), NEW d \in Inos, NEW k \in DOMAIN tab[d].ents,
           NEW i \in Inos, tab[d].ents[k].ino = i, tab[i].kind # "dir"
    PROVE  /\ tab[d].kind = "dir" /\ Dots(tab, d) /\ Unambiguous(tab, d)
           /\ k \in 3..MaxEntries /\ k \in 1..MaxEntries /\ Ino(tab, d, k) = i
<1>1. tab[d].kind = "dir"
  <2>1. tab[d].ents # <<>>
    OBVIOUS
  <2> QED
    BY <2>1 DEF Tree
<1>2. Dots(tab, d) /\ Unambiguous(tab, d) /\ Hangs(tab, d)
  BY <1>1 DEF Tree
<1>3. k \in 1..Len(tab[d].ents) /\ Len(tab[d].ents) \in 2..MaxEntries
  BY <1>2 DEF Recs, Dots
<1>4. k # 1
  BY <1>1, <1>2 DEF Dots, Entry
<1>5. k # 2
  <2>1. SUFFICES ASSUME k = 2 PROVE FALSE
    OBVIOUS
  <2>2. CASE d = Root
    BY <1>1, <2>1, <2>2 DEF Tree
  <2>3. CASE d # Root
    <3>1. PICK j \in 3..MaxEntries : Ino(tab, i, j) = d
      BY <1>2, <2>1, <2>3 DEF Hangs
    <3>2. d # 0
      BY FilesAssumption
    <3>3. tab[i].ents # <<>>
      BY <3>1, <3>2 DEF Ino
    <3> QED
      BY <3>3 DEF Tree
  <2> QED
    BY <2>2, <2>3
<1>6. k \in 3..MaxEntries /\ k \in 1..MaxEntries
  BY <1>3, <1>4, <1>5, FilesAssumption
<1> QED
  BY <1>1, <1>2, <1>6 DEF Ino

(* What find_entry finds.                                                  *)
LEMMA Found ==
    ASSUME inode \in [Inos -> Recs], NEW d \in Inos, NEW n, NEW k, k = find_entry(d, n), k # 0
    PROVE  k \in DOMAIN inode[d].ents /\ inode[d].ents[k].ino \in Inos
           /\ lookup(d, n) = inode[d].ents[k].ino
<1>1. PICK name : name = IF n = ".." /\ d = Root THEN "." ELSE n
  OBVIOUS
<1>2. PICK here : here = {j \in Slots(d) : inode[d].ents[j].name = name /\ inode[d].ents[j].ino # 0}
  OBVIOUS
<1>3. k = IF here = {} THEN 0 ELSE Min(here)
  BY <1>1, <1>2 DEF find_entry
<1>4. inode[d].ents \in Seq(Ent)
  BY DEF Recs
<1>5. here \subseteq Nat
  BY <1>2, <1>4 DEF Slots
<1>6. k \in here
  BY <1>3, <1>5, MinIsLeast
<1>7. k \in DOMAIN inode[d].ents /\ inode[d].ents[k].ino # 0 /\ inode[d].ents[k] \in Ent
  BY <1>2, <1>4, <1>6 DEF Slots
<1> QED
  BY <1>7 DEF Ent, lookup

LEMMA NotFound ==
    ASSUME inode \in [Inos -> Recs], Tree(inode), NEW d \in Inos, inode[d].kind = "dir",
           NEW n, find_entry(d, n) = 0
    PROVE  \A j \in DOMAIN inode[d].ents : inode[d].ents[j].name = n => inode[d].ents[j].ino = 0
<1>1. PICK name : name = IF n = ".." /\ d = Root THEN "." ELSE n
  OBVIOUS
<1>2. PICK here : here = {j \in Slots(d) : inode[d].ents[j].name = name /\ inode[d].ents[j].ino # 0}
  OBVIOUS
<1>3. 0 = IF here = {} THEN 0 ELSE Min(here)
  BY <1>1, <1>2 DEF find_entry
<1>4. inode[d].ents \in Seq(Ent)
  BY DEF Recs
<1>5. here \subseteq Nat /\ 0 \notin here
  BY <1>2, <1>4 DEF Slots
<1>6. here = {}
  BY <1>3, <1>5, MinIsLeast
<1>7. Dots(inode, d)
  BY DEF Tree
<1>8. 1 \in DOMAIN inode[d].ents /\ inode[d].ents[1].name = "." /\ inode[d].ents[1].ino # 0
  BY <1>4, <1>7, FilesAssumption DEF Dots, Entry
<1>9. name = n
  BY <1>1, <1>2, <1>6, <1>8 DEF Slots
<1> QED
  BY <1>2, <1>6, <1>9 DEF Slots

(* Where a path leads.                                                     *)
LEMMA GotDir ==
    ASSUME NEW p, NEW path, NEW d, d = get_dir(p, path), d # 0
    PROVE  d \in Inos /\ inode[d].kind = "dir" /\ inode[d].nlinks > 0
<1>1. IsDir(d)
  BY DEF get_dir
<1> QED
  BY <1>1 DEF IsDir

LEMMA GotParent ==
    ASSUME NEW p, NEW path \in Paths, NEW d, d = dir_namei(p, path), d # 0
    PROVE  /\ d \in Inos /\ inode[d].kind = "dir" /\ inode[d].nlinks > 0
           /\ basename(path) \in Components
<1>1. Names(path) # <<>> /\ d = get_dir(p, path)
  BY DEF dir_namei
<1>2. path \in Seq(STRING) /\ path # <<>>
  BY FilesAssumption
<1>3. Names(path) \in Seq(STRING)
  BY <1>2, HeadTailProperties DEF Names
<1>4. PICK q : q = Names(path)
  OBVIOUS
<1>5. q \in Seq(STRING) /\ q # <<>>
  BY <1>1, <1>3, <1>4
<1>6. Len(q) \in 1..Len(q)
  BY <1>5, EmptySeq, LenProperties
<1>7. \A j \in 1..Len(q) : q[j] \in Range(path)
  <2>1. CASE Head(path) = "/"
    <3>1. q = Tail(path)
      BY <1>4, <2>1 DEF Names
    <3>2. /\ Len(q) = Len(path) - 1 /\ Len(path) \in Nat /\ DOMAIN path = 1..Len(path)
          /\ \A j \in 1..Len(path) - 1 : q[j] = path[j + 1]
      BY <1>2, <3>1, HeadTailProperties, LenProperties
    <3> QED
      BY <3>2 DEF Range
  <2>2. CASE Head(path) # "/"
    <3>1. q = path
      BY <1>4, <2>2 DEF Names
    <3> QED
      BY <1>2, <3>1, LenProperties DEF Range
  <2> QED
    BY <2>1, <2>2
<1>8. basename(path) = q[Len(q)]
  BY <1>4 DEF basename, Last
<1>9. basename(path) \in Components
  BY <1>6, <1>7, <1>8 DEF Components
<1> QED
  BY <1>1, <1>9, GotDir

LEMMA GotInode ==
    ASSUME inode \in [Inos -> Recs], NEW p, NEW path, NEW i, i = namei(p, path), i # 0
    PROVE  i \in Inos
<1>1. CASE get_dir(p, path) = 0 \/ Names(path) = <<>>
  <2>1. i = get_dir(p, path)
    BY <1>1 DEF namei
  <2> QED
    BY <2>1, GotDir
<1>2. CASE ~(get_dir(p, path) = 0 \/ Names(path) = <<>>)
  <2>1. i = lookup(get_dir(p, path), basename(path))
    BY <1>2 DEF namei
  <2>2. PICK d : d = get_dir(p, path)
    OBVIOUS
  <2>3. d \in Inos
    BY <1>2, <2>2, GotDir
  <2>4. PICK k : k = find_entry(d, basename(path))
    OBVIOUS
  <2>5. k # 0
    BY <2>1, <2>2, <2>4 DEF lookup
  <2>6. inode[d].ents[k].ino \in Inos /\ lookup(d, basename(path)) = inode[d].ents[k].ino
    BY <2>3, <2>4, <2>5, Found
  <2> QED
    BY <2>1, <2>2, <2>6
<1> QED
  BY <1>1, <1>2

-----------------------------------------------------------------------------
(* Descriptors, files and working directories.                             *)

LEMMA CountsNat ==
    ASSUME NEW fl, NEW wd, NEW i
    PROVE  /\ OpenCount(fl, i) \in Nat /\ WorkCount(wd, i) \in Nat /\ RootCount(wd, i) \in Nat
           /\ i = Root => RootCount(wd, i) >= 2
<1>1. OpenCount(fl, i) \in Nat /\ WorkCount(wd, i) \in Nat
  BY Finite, WhereFinite DEF OpenCount, WorkCount
<1>2. Where(wd, Procs, 0) \subseteq Procs
  BY DEF Where
<1>3. /\ WorkCount(wd, 0) \in Nat /\ Cardinality(Procs) \in Nat
      /\ WorkCount(wd, 0) <= Cardinality(Procs)
  BY <1>2, Finite, TakeAway DEF WorkCount
<1>4. RootCount(wd, i) \in Nat /\ (i = Root => RootCount(wd, i) >= 2)
  BY <1>3 DEF RootCount
<1> QED
  BY <1>1, <1>4

(* One process changes its working directory, is born or dies.             *)
LEMMA WorkChange ==
    ASSUME NEW wd, NEW wd2, NEW p \in Procs, \A q \in Procs : q # p => wd2[q] = wd[q], NEW i
    PROVE  /\ WorkCount(wd2, i) = WorkCount(wd, i) - Is(wd[p], i) + Is(wd2[p], i)
           /\ i = Root => RootCount(wd2, i) = RootCount(wd, i) + Is(wd[p], 0) - Is(wd2[p], 0)
           /\ i # Root => RootCount(wd2, i) = RootCount(wd, i)
<1>1. IsFiniteSet(Procs)
  BY Finite
<1>2. \A v : WorkCount(wd2, v) = WorkCount(wd, v) - Is(wd[p], v) + Is(wd2[p], v)
  <2> SUFFICES ASSUME NEW v
               PROVE  Cardinality(Where(wd2, Procs, v)) =
                        Cardinality(Where(wd, Procs, v)) - Is(wd[p], v) + Is(wd2[p], v)
    BY DEF WorkCount
  <2>1. PICK S : S = Procs
    OBVIOUS
  <2>2. IsFiniteSet(S) /\ SameBut(wd, wd2, S, p)
    BY <1>1, <2>1 DEF SameBut
  <2>3. Cardinality(Where(wd2, S, v)) = Cardinality(Where(wd, S, v)) - Is(wd[p], v) + Is(wd2[p], v)
    BY <2>2, OneChange
  <2> QED
    BY <2>1, <2>3
<1>3. WorkCount(wd2, 0) = WorkCount(wd, 0) - Is(wd[p], 0) + Is(wd2[p], 0)
  BY <1>2
<1>4. WorkCount(wd, 0) \in Nat /\ WorkCount(wd2, 0) \in Nat /\ Cardinality(Procs) \in Nat
  BY <1>1, CountsNat, FS_CardinalityType
<1>5. Is(wd[p], 0) \in Nat /\ Is(wd2[p], 0) \in Nat
  BY DEF Is
<1>6. /\ i = Root => RootCount(wd2, i) = RootCount(wd, i) + Is(wd[p], 0) - Is(wd2[p], 0)
      /\ i # Root => RootCount(wd2, i) = RootCount(wd, i)
  BY <1>3, <1>4, <1>5 DEF RootCount
<1> QED
  BY <1>2, <1>6

LEMMA HeldAt ==
    ASSUME NEW fp, NEW p \in Procs, NEW fd \in Fds
    PROVE  <<p, fd>> \in Procs \X Fds /\ Held(fp)[<<p, fd>>] = fp[p][fd]
BY DEF Held

(* A free descriptor is taken for the file f, which gains a reference.     *)
LEMMA DescriptorTaken ==
    ASSUME NEW fl, NEW fp, FileRefs(fl, fp),
           NEW p \in Procs, NEW new \in Fds, fp[p][new] = 0, NEW f \in Files,
           NEW fl2, fl2[f].count = fl[f].count + 1,
           \A g \in Files : g # f => fl2[g].count = fl[g].count,
           NEW fp2, fp2[p][new] = f,
           \A q \in Procs, fd \in Fds : q # p \/ fd # new => fp2[q][fd] = fp[q][fd]
    PROVE  FileRefs(fl2, fp2)
<1>1. PICK m : m = Held(fp)
  OBVIOUS
<1>2. PICK n : n = Held(fp2)
  OBVIOUS
<1>3. \A q \in Procs, fd \in Fds : m[<<q, fd>>] = fp[q][fd] /\ n[<<q, fd>>] = fp2[q][fd]
  <2> SUFFICES ASSUME NEW q \in Procs, NEW fd \in Fds
               PROVE  m[<<q, fd>>] = fp[q][fd] /\ n[<<q, fd>>] = fp2[q][fd]
    OBVIOUS
  <2>1. Held(fp)[<<q, fd>>] = fp[q][fd] /\ Held(fp2)[<<q, fd>>] = fp2[q][fd]
    BY HeldAt
  <2> QED
    BY <1>1, <1>2, <2>1
<1>4. PICK x : x = <<p, new>>
  OBVIOUS
<1>5. x \in Procs \X Fds /\ m[x] = 0 /\ n[x] = f
  <2>1. m[<<p, new>>] = fp[p][new] /\ n[<<p, new>>] = fp2[p][new]
    BY <1>3
  <2> QED
    BY <1>4, <2>1
<1>6. ASSUME NEW y \in Procs \X Fds, y # x
      PROVE  n[y] = m[y]
  <2>1. PICK q \in Procs, fd \in Fds : y = <<q, fd>>
    OBVIOUS
  <2>2. q # p \/ fd # new
    BY <1>4, <1>6, <2>1
  <2>3. fp2[q][fd] = fp[q][fd]
    BY <2>2
  <2> QED
    BY <1>3, <2>1, <2>3
<1>7. IsFiniteSet(Procs \X Fds)
  BY Finite
<1>8. ASSUME NEW g \in Files
      PROVE  fl2[g].count = Cardinality(Where(n, Procs \X Fds, g))
  <2>1. fl[g].count = Cardinality(Where(m, Procs \X Fds, g))
    BY <1>1 DEF FileRefs, DescCount
  <2>2. Is(m[x], g) = 0 /\ Is(n[x], g) = IF g = f THEN 1 ELSE 0
    BY <1>5, FilesAssumption DEF Is
  <2>3. /\ Cardinality(Where(n, Procs \X Fds, g)) =
              Cardinality(Where(m, Procs \X Fds, g)) - Is(m[x], g) + Is(n[x], g)
        /\ Cardinality(Where(m, Procs \X Fds, g)) \in Nat
    <3>1. PICK S : S = Procs \X Fds
      OBVIOUS
    <3>2. IsFiniteSet(S) /\ SameBut(m, n, S, x)
      BY <1>5, <1>6, <1>7, <3>1 DEF SameBut
    <3>3. /\ Cardinality(Where(n, S, g)) = Cardinality(Where(m, S, g)) - Is(m[x], g) + Is(n[x], g)
          /\ Cardinality(Where(m, S, g)) \in Nat
      BY <3>2, OneChange
    <3> QED
      BY <3>1, <3>3
  <2>4. fl2[g].count = fl[g].count + (IF g = f THEN 1 ELSE 0)
    <3>1. fl[g].count \in Nat
      BY <2>1, <2>3
    <3> QED
      BY <3>1
  <2> QED
    BY <2>1, <2>2, <2>3, <2>4
<1>9. FileRefs(fl2, fp2)
  BY <1>2, <1>8 DEF FileRefs, DescCount
<1> QED
  BY <1>9

(* The descriptors of one process and of the others.                       *)
Row(fp, p, f) == Cardinality({fd \in Fds : fp[p][fd] = f})
Others(fp, p, f) == {d \in Procs \X Fds : d[1] # p /\ fp[d[1]][d[2]] = f}

LEMMA RowAndOthers ==
    ASSUME NEW fp, NEW p \in Procs, NEW f
    PROVE  /\ DescCount(fp, f) = Cardinality(Others(fp, p, f)) + Row(fp, p, f)
           /\ Cardinality(Others(fp, p, f)) \in Nat /\ Row(fp, p, f) \in Nat
<1> DEFINE A == {fd \in Fds : fp[p][fd] = f}
           W == Where(Held(fp), Procs \X Fds, f)
           B == {d \in W : d[1] = p}
           m == [fd \in A |-> <<p, fd>>]
<1>1. IsFiniteSet(W) /\ IsFiniteSet(A) /\ Cardinality(A) \in Nat
  <2>1. IsFiniteSet(W)
    BY Finite, WhereFinite
  <2>2. IsFiniteSet(A)
    BY Finite, FS_Subset
  <2> QED
    BY <2>1, <2>2, FS_CardinalityType
<1>2. B \subseteq W
  OBVIOUS
<1>3. \A d \in Procs \X Fds : d \in W <=> fp[d[1]][d[2]] = f
  BY DEF Held, Where
<1>4. W \ B = Others(fp, p, f)
  <2>1. W \subseteq Procs \X Fds
    BY DEF Where
  <2> QED
    BY <1>3, <2>1 DEF Others
<1>5. m \in [A -> B] /\ (\A x, y \in A : m[x] = m[y] => x = y)
  BY <1>3
<1>6. ASSUME NEW d \in B PROVE \E x \in A : m[x] = d
  <2>0. d \in Procs \X Fds /\ d[1] = p /\ d \in W
    BY DEF Where
  <2>1. PICK q \in Procs, fd \in Fds : d = <<q, fd>>
    BY <2>0
  <2>2. q = p /\ fd \in A
    BY <1>3, <2>0, <2>1
  <2> QED
    BY <2>1, <2>2
<1> HIDE DEF A, B, W, m
<1>7. Cardinality(A) = Cardinality(B)
  BY <1>1, <1>5, <1>6, SameSize
<1>8. Cardinality(W \ B) = Cardinality(W) - Cardinality(B) /\ Cardinality(W) \in Nat
      /\ Cardinality(B) <= Cardinality(W)
  BY <1>1, <1>2, TakeAway
<1>9. Row(fp, p, f) = Cardinality(A)
  BY DEF Row, A
<1> QED
  <2>1. Others(fp, p, f) \subseteq W /\ Others(fp, p, f) = W \ B
    BY <1>4
  <2>2. Cardinality(Others(fp, p, f)) \in Nat /\ Cardinality(B) \in Nat
    BY <1>1, <1>7, <2>1, TakeAway
  <2>3. Cardinality(Others(fp, p, f)) = Cardinality(W) - Cardinality(B)
    BY <1>4, <1>8
  <2>4. DescCount(fp, f) = Cardinality(W)
    BY DEF W, DescCount
  <2> QED
    BY <1>7, <1>8, <1>9, <2>2, <2>3, <2>4

(* A row that changes moves the counts by what it holds before and after.  *)
LEMMA RowChange ==
    ASSUME NEW fp, NEW fp2, NEW p \in Procs, \A q \in Procs : q # p => fp2[q] = fp[q], NEW f
    PROVE  DescCount(fp2, f) =
               DescCount(fp, f) - Row(fp, p, f) + Row(fp2, p, f)
<1>1. Others(fp2, p, f) = Others(fp, p, f)
  <2>1. ASSUME NEW d \in Procs \X Fds, d[1] # p
        PROVE  fp2[d[1]] = fp[d[1]]
    BY <2>1
  <2> QED
    BY <2>1 DEF Others
<1>2. /\ DescCount(fp, f) = Cardinality(Others(fp, p, f)) + Row(fp, p, f)
      /\ Cardinality(Others(fp, p, f)) \in Nat /\ Row(fp, p, f) \in Nat
  BY RowAndOthers
<1>3. /\ DescCount(fp2, f) = Cardinality(Others(fp2, p, f)) + Row(fp2, p, f)
      /\ Row(fp2, p, f) \in Nat
  BY RowAndOthers
<1> QED
  BY <1>1, <1>2, <1>3

(* What the state gives.                                                   *)
LEMMA InvIs ==
    ASSUME Inv
    PROVE  /\ inode \in [Inos -> Recs] /\ imap \subseteq Inos /\ zmap \subseteq Zones
           /\ file \in [Files -> [count : Nat, ino : Inos]]
           /\ filp \in [Procs -> [Fds -> Files \cup {0}]]
           /\ pwd \in [Procs -> Inos \cup {0}]
           /\ Tree(inode) /\ Exact(inode, imap, zmap)
           /\ FileRefs(file, filp) /\ InodeRefs(inode, file, pwd)
<1>1. [kind : {"free", "file", "dir"}, nlinks : Nat, count : Nat, zones : SUBSET Zones,
       ents : Seq([name : Components, ino : Inos \cup {0}])] \subseteq Recs
  BY DEF Recs, Ent
<1>2. inode \in [Inos -> [kind : {"free", "file", "dir"}, nlinks : Nat, count : Nat,
       zones : SUBSET Zones, ents : Seq([name : Components, ino : Inos \cup {0}])]]
  BY DEF Inv, TypeOK
<1>3. inode \in [Inos -> Recs]
  BY <1>1, <1>2
<1> QED
  BY <1>3 DEF Inv, TypeOK

(* The descriptors D of p are closed.                                      *)
LEMMA UsesFit ==
    ASSUME Inv, NEW p \in Procs, NEW D, D \subseteq Fds, NEW f \in Files
    PROVE  /\ Uses(p, D, f) \in Nat /\ file[f].count \in Nat
           /\ Uses(p, D, f) <= Row(filp, p, f) /\ Row(filp, p, f) <= file[f].count
           /\ Row(filp, p, f) \in Nat
<1> DEFINE A == {fd \in Fds : filp[p][fd] = f}
           B == {fd \in D : filp[p][fd] = f}
<1>1. IsFiniteSet(A) /\ B \subseteq A
  BY Finite, FS_Subset
<1>2. Cardinality(A) \in Nat /\ Cardinality(B) \in Nat /\ Cardinality(B) <= Cardinality(A)
  BY <1>1, TakeAway
<1>3. Row(filp, p, f) = Cardinality(A) /\ Uses(p, D, f) = Cardinality(B)
  BY DEF Row, Uses
<1>4. file[f].count = DescCount(filp, f)
  BY InvIs DEF FileRefs
<1>5. /\ DescCount(filp, f) =
             Cardinality(Others(filp, p, f)) + Row(filp, p, f)
      /\ Cardinality(Others(filp, p, f)) \in Nat /\ Row(filp, p, f) \in Nat
  BY RowAndOthers
<1> HIDE DEF A, B
<1> QED
  BY <1>2, <1>3, <1>4, <1>5

LEMMA RowClosed ==
    ASSUME Inv, NEW p \in Procs, NEW D, D \subseteq Fds, NEW f \in Files,
           NEW fp2, \A fd \in D : fp2[p][fd] = 0,
           \A fd \in Fds \ D : fp2[p][fd] = filp[p][fd]
    PROVE  Row(fp2, p, f) = Row(filp, p, f) - Uses(p, D, f)
<1> DEFINE A == {fd \in Fds : filp[p][fd] = f}
           B == {fd \in D : filp[p][fd] = f}
<1>1. IsFiniteSet(A) /\ B \subseteq A
  BY Finite, FS_Subset
<1>2. Cardinality(A \ B) = Cardinality(A) - Cardinality(B)
  BY <1>1, TakeAway
<1>3. Row(filp, p, f) = Cardinality(A) /\ Uses(p, D, f) = Cardinality(B)
  BY DEF Row, Uses
<1>4. {fd \in Fds : fp2[p][fd] = f} = A \ B
  BY FilesAssumption
<1>5. Row(fp2, p, f) = Cardinality(A \ B)
  BY <1>4, Zenon DEF Row
<1> QED
  BY <1>2, <1>3, <1>5

LEMMA ClosedRefs ==
    ASSUME Inv, NEW p \in Procs, NEW D, D \subseteq Fds,
           NEW fp2, \A q \in Procs : q # p => fp2[q] = filp[q],
           \A fd \in D : fp2[p][fd] = 0,
           \A fd \in Fds \ D : fp2[p][fd] = filp[p][fd],
           NEW fl2, fl2 = Closed(p, D)
    PROVE  /\ fl2 \in [Files -> [count : Nat, ino : Inos]] /\ FileRefs(fl2, fp2)
           /\ \A f \in Files : /\ fl2[f].count = file[f].count - Uses(p, D, f)
                               /\ f \notin LastUse(p, D) => fl2[f].ino = file[f].ino
<1>1. ASSUME NEW f \in Files
      PROVE  /\ fl2[f] \in [count : Nat, ino : Inos]
             /\ fl2[f].count = file[f].count - Uses(p, D, f)
             /\ f \notin LastUse(p, D) => fl2[f].ino = file[f].ino
  <2>1. /\ Uses(p, D, f) \in Nat /\ file[f].count \in Nat
        /\ Uses(p, D, f) <= file[f].count
    <3>1. /\ Uses(p, D, f) \in Nat /\ file[f].count \in Nat /\ Row(filp, p, f) \in Nat
          /\ Uses(p, D, f) <= Row(filp, p, f) /\ Row(filp, p, f) <= file[f].count
      BY UsesFit
    <3> QED
      BY <3>1
  <2>2. file[f] \in [count : Nat, ino : Inos]
    BY InvIs
  <2>3. PICK n \in Nat : n = file[f].count - Uses(p, D, f)
    BY <2>1
  <2>4. CASE f \in LastUse(p, D)
    <3>1. fl2[f] = FreeFile /\ file[f].count = Uses(p, D, f)
      BY <2>4 DEF Closed, LastUse
    <3>2. FreeFile \in [count : Nat, ino : Inos] /\ FreeFile.count = 0
      BY FilesAssumption DEF FreeFile
    <3> QED
      BY <2>1, <2>4, <3>1, <3>2
  <2>5. CASE f \notin LastUse(p, D)
    <3>1. fl2[f] = [file[f] EXCEPT !.count = n]
      BY <2>3, <2>5 DEF Closed
    <3> QED
      BY <2>2, <2>3, <3>1
  <2> QED
    BY <2>4, <2>5
<1>2. fl2 = [f \in Files |-> fl2[f]]
  BY DEF Closed
<1>3. fl2 \in [Files -> [count : Nat, ino : Inos]]
  BY <1>1, <1>2
<1>4. ASSUME NEW f \in Files
      PROVE  fl2[f].count = DescCount(fp2, f)
  <2>1. file[f].count = DescCount(filp, f)
    BY InvIs DEF FileRefs
  <2>2. DescCount(fp2, f) =
             DescCount(filp, f) - Row(filp, p, f) + Row(fp2, p, f)
    <3>1. PICK g : g = filp
      OBVIOUS
    <3>2. \A q \in Procs : q # p => fp2[q] = g[q]
      BY <3>1
    <3>3. DescCount(fp2, f) =
             DescCount(g, f) - Row(g, p, f) + Row(fp2, p, f)
      BY <3>2, RowChange
    <3> QED
      BY <3>1, <3>3
  <2>3. Row(fp2, p, f) = Row(filp, p, f) - Uses(p, D, f)
    <3>1. /\ Inv /\ D \subseteq Fds /\ \A fd \in D : fp2[p][fd] = 0
          /\ \A fd \in Fds \ D : fp2[p][fd] = filp[p][fd]
      OBVIOUS
    <3> QED
      BY <3>1, RowClosed, Zenon
  <2>4. Row(filp, p, f) \in Nat /\ Uses(p, D, f) \in Nat /\ file[f].count \in Nat
    BY UsesFit
  <2> QED
    BY <1>1, <2>1, <2>2, <2>3, <2>4
<1>5. FileRefs(fl2, fp2)
  BY <1>4 DEF FileRefs
<1> QED
  BY <1>1, <1>3, <1>5

LEMMA ClosedOpens ==
    ASSUME Inv, NEW p \in Procs, NEW D, D \subseteq Fds,
           NEW fl2, fl2 = Closed(p, D), NEW s, s = InosOf(LastUse(p, D)), NEW i \in Inos
    PROVE  /\ s \in Seq(Inos) /\ Puts(s, i) \in Nat
           /\ OpenCount(fl2, i) = OpenCount(file, i) - Puts(s, i)
           /\ Puts(s, i) <= OpenCount(file, i)
<1>1. PICK F : F = LastUse(p, D)
  OBVIOUS
<1>2. F \subseteq Files /\ \A f \in F : Uses(p, D, f) > 0 /\ file[f].count = Uses(p, D, f)
  BY <1>1 DEF LastUse
<1>3. \A f \in Files : file[f].ino \in Inos
  BY InvIs
<1> DEFINE A == Where(Opens(file), Files, i)
           B == {f \in F : file[f].ino = i}
<1>4. s \in Seq(Inos) /\ Puts(s, i) = Cardinality(B)
  BY <1>1, <1>2, <1>3, PutsFiles
<1>5. IsFiniteSet(A)
  BY Finite, WhereFinite
<1>6. \A f \in Files : f \in A <=> file[f].count > 0 /\ file[f].ino = i
  BY FilesAssumption DEF Where, Opens
<1>7. B \subseteq A
  <2>1. \A f \in F : file[f].count > 0
    BY <1>2
  <2> QED
    BY <1>2, <1>6, <2>1
<1>8. Where(Opens(fl2), Files, i) = A \ B
  <2>1. ASSUME NEW f \in Files
        PROVE  f \in Where(Opens(fl2), Files, i) <=> f \in A \ B
    <3>1. f \in Where(Opens(fl2), Files, i) <=> fl2[f].count > 0 /\ fl2[f].ino = i
      BY FilesAssumption DEF Where, Opens
    <3>2. Uses(p, D, f) \in Nat /\ file[f].count \in Nat /\ Uses(p, D, f) <= file[f].count
      <4>1. /\ Uses(p, D, f) \in Nat /\ file[f].count \in Nat /\ Row(filp, p, f) \in Nat
            /\ Uses(p, D, f) <= Row(filp, p, f) /\ Row(filp, p, f) <= file[f].count
        BY UsesFit
      <4> QED
        BY <4>1
    <3>3. CASE f \in F
      <4>1. fl2[f] = FreeFile
        BY <1>1, <3>3 DEF Closed
      <4>2. fl2[f].count = 0
        BY <4>1 DEF FreeFile
      <4> QED
        BY <1>6, <3>1, <3>3, <4>2
    <3>4. CASE f \notin F
      <4>1. /\ fl2[f].count = file[f].count - Uses(p, D, f) /\ fl2[f].ino = file[f].ino
        <5>1. fl2[f] = [file[f] EXCEPT !.count = file[f].count - Uses(p, D, f)]
          BY <1>1, <3>4 DEF Closed
        <5>2. file[f] \in [count : Nat, ino : Inos]
          BY InvIs
        <5> QED
          BY <5>1, <5>2
      <4>2. Uses(p, D, f) = 0 \/ file[f].count # Uses(p, D, f)
        BY <1>1, <3>2, <3>4 DEF LastUse
      <4>3. fl2[f].count > 0 <=> file[f].count > 0
        BY <3>2, <4>1, <4>2
      <4> QED
        BY <1>6, <3>1, <3>4, <4>1, <4>3
    <3> QED
      BY <3>3, <3>4
  <2>2. Where(Opens(fl2), Files, i) \subseteq Files /\ A \subseteq Files
    BY DEF Where
  <2>3. PICK W : W = Where(Opens(fl2), Files, i)
    OBVIOUS
  <2> HIDE DEF A, B
  <2>4. W \subseteq Files /\ A \subseteq Files /\ \A f \in Files : f \in W <=> f \in A \ B
    BY <2>1, <2>2, <2>3
  <2>5. W = A \ B
    BY <2>4
  <2> QED
    BY <2>3, <2>5
<1>9. /\ Cardinality(A \ B) = Cardinality(A) - Cardinality(B) /\ Cardinality(B) \in Nat
      /\ Cardinality(B) <= Cardinality(A)
  BY <1>5, <1>7, TakeAway
<1>10. OpenCount(file, i) = Cardinality(A) /\ OpenCount(fl2, i) = Cardinality(A \ B)
  BY <1>8 DEF OpenCount
<1> HIDE DEF A, B
<1> QED
  BY <1>4, <1>9, <1>10
=============================================================================
