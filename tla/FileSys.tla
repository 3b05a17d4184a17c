------------------------------ MODULE FileSys ------------------------------
(***************************************************************************)
(* Files, directories and descriptors: fs/namei.c, open.c, fcntl.c, the    *)
(* allocation half of inode.c, bitmap.c and truncate.c, and what fork and  *)
(* exit do to them.                                                        *)
(*                                                                         *)
(* A system call runs to its end before another process runs, so each is   *)
(* one action; its steps are composed of the code's helpers, error paths   *)
(* included: what was allocated is given back by iput as in the code.      *)
(* References taken and given back inside a call (the directories on a     *)
(* path) do not show, except where the code tests i_count.  The caches     *)
(* underneath are transparent (FsCache).  All processes are the            *)
(* super-user's and the disk reads without errors, as in the port.         *)
(***************************************************************************)
EXTENDS Integers, Sequences, FiniteSets, SequencesExt, FiniteSetsExt

CONSTANTS
    Procs,         \* process slots
    Fds,           \* descriptors of a process, NR_OPEN = 20 in the code
    Files,         \* file_table, NR_FILE = 64
    Inos,          \* inode numbers of the disk, from 1, the root
    Zones,         \* data blocks of the disk
    PerBlock,      \* DIR_ENTRIES_PER_BLOCK: 64
    MaxBlocks,     \* bound on the blocks of a file
    MaxEntries,    \* bound on the slots of a directory
    Paths          \* path names: components, "/" first when absolute

Root == 1

ASSUME FilesAssumption ==
    /\ Inos \subseteq Nat /\ Root \in Inos /\ 0 \notin Inos
    /\ Files \subseteq Nat /\ 0 \notin Files
    /\ Fds \subseteq Nat /\ Fds # {}
    /\ Zones \subseteq Nat /\ Zones # {}
    /\ \A S \in {Procs, Fds, Files, Inos, Zones} : IsFiniteSet(S)
    /\ PerBlock \in Nat /\ PerBlock > 1
    /\ MaxBlocks \in Nat /\ MaxEntries \in Nat /\ MaxEntries > 1
    /\ \A path \in Paths : path \in Seq(STRING) /\ path # <<>>

VARIABLES
    inode,         \* i_mode, i_nlinks, i_count, i_zone; entries of a directory
    imap, zmap,    \* the bitmaps of used inodes and zones
    file,          \* file_table: f_count, f_inode
    filp,          \* descriptors of each process: a file or 0
    pwd            \* working directory; 0 when there is no process

vars == <<inode, imap, zmap, file, filp, pwd>>

Alive(p) == pwd[p] # 0
Entry(n, i) == [name |-> n, ino |-> i]
Hole == Entry("", 0)        \* a slot with inode 0; its old name is not read

FreeFile  == [count |-> 0, ino |-> Root]
FreeInode == [kind |-> "free", nlinks |-> 0, count |-> 0, zones |-> {}, ents |-> <<>>]

(***************************************************************************)
(* Looking names up.                                                       *)
(***************************************************************************)
Slots(d) == DOMAIN inode[d].ents

(* find_entry: the slot of a name, 0 if there is none; ".." of the root is *)
(* the root itself.                                                        *)
find_entry(d, n) ==
    LET name == IF n = ".." /\ d = Root THEN "." ELSE n
        here == {k \in Slots(d) : inode[d].ents[k].name = name /\ inode[d].ents[k].ino # 0}
    IN  IF here = {} THEN 0 ELSE Min(here)

lookup(d, n) == IF find_entry(d, n) = 0 THEN 0 ELSE inode[d].ents[find_entry(d, n)].ino

(* A deleted directory may not be searched.                                *)
IsDir(d) == d \in Inos /\ inode[d].kind = "dir" /\ inode[d].nlinks > 0

Names(path) == IF Head(path) = "/" THEN Tail(path) ELSE path
From(p, path) == IF Head(path) = "/" THEN Root ELSE pwd[p]

Walk(p, path) ==
    LET down(d, n) == IF IsDir(d) THEN lookup(d, n) ELSE 0
    IN  FoldLeft(down, From(p, path),
                 IF Names(path) = <<>> THEN <<>> ELSE Front(Names(path)))

get_dir(p, path) == IF IsDir(Walk(p, path)) THEN Walk(p, path) ELSE 0

basename(path) == Last(Names(path))

namei(p, path) ==
    IF get_dir(p, path) = 0 \/ Names(path) = <<>> THEN get_dir(p, path)
    ELSE lookup(get_dir(p, path), basename(path))

(* The directory of a path with a last component.                          *)
dir_namei(p, path) == IF Names(path) = <<>> THEN 0 ELSE get_dir(p, path)

(***************************************************************************)
(* Allocation.  The helpers pass the inode table (tab) and the bitmaps     *)
(* (im, zm) on as the code changes them.                                   *)
(***************************************************************************)
FreeIno(im)  == Min(Inos \ im)
FreeZone(zm) == Min(Zones \ zm)

new_inode(tab, i, kind) ==
    [tab EXCEPT ![i] = [FreeInode EXCEPT !.kind = kind, !.nlinks = 1, !.count = 1]]

Holes(tab, d) == {k \in DOMAIN tab[d].ents : tab[d].ents[k].ino = 0}
Grows(tab, d) == Holes(tab, d) = {} /\ Len(tab[d].ents) % PerBlock = 0

CanAdd(tab, d, zm) == Grows(tab, d) => Zones \ zm # {}
MapAfter(tab, d, zm) == IF Grows(tab, d) THEN zm \cup {FreeZone(zm)} ELSE zm

(* add_entry: the first free slot, else one at the end, which may need a   *)
(* block.                                                                  *)
add_entry(tab, d, n, i, zm) ==
    [tab EXCEPT
        ![d].ents  = IF Holes(tab, d) # {} THEN [@ EXCEPT ![Min(Holes(tab, d))] = Entry(n, i)]
                     ELSE Append(@, Entry(n, i)),
        ![d].zones = @ \cup (MapAfter(tab, d, zm) \ zm)]

(* The bound on the size of a directory.                                   *)
Fits(d) == Holes(inode, d) # {} \/ Len(inode[d].ents) < MaxEntries

(* iput for every inode of the sequence s: one without references left is  *)
(* freed with its zones if it has no links either.                         *)
Puts(s, i) == Cardinality({k \in DOMAIN s : s[k] = i})
Unreferenced(tab, s) ==
    {i \in Inos : Puts(s, i) > 0 /\ tab[i].count = Puts(s, i) /\ tab[i].nlinks = 0}

(* Mutant: free_inode without truncate.                                    *)
iputWithoutTruncate(tab, im, zm, s) ==
    LET gone == Unreferenced(tab, s) IN
    /\ inode' = [i \in Inos |-> IF i \in gone THEN FreeInode
                                ELSE [tab[i] EXCEPT !.count = @ - Puts(s, i)]]
    /\ imap' = im \ gone
    /\ zmap' = zm

iput(tab, im, zm, s) ==
    LET gone == Unreferenced(tab, s) IN
    /\ inode' = [i \in Inos |-> IF i \in gone THEN FreeInode
                                ELSE [tab[i] EXCEPT !.count = @ - Puts(s, i)]]
    /\ imap' = im \ gone
    /\ zmap' = zm \ UNION {tab[i].zones : i \in gone}

Nothing == iput(inode, imap, zmap, <<>>)

(***************************************************************************)
(* Descriptors: open.c and fcntl.c.                                        *)
(***************************************************************************)
FreeFds(p) == {fd \in Fds : filp[p][fd] = 0}
FreeFiles  == {f \in Files : file[f].count = 0}

(* sys_open takes the lowest free descriptor and file for inode i.         *)
Opened(p, i) ==
    LET f == Min(FreeFiles) IN
    /\ file' = [file EXCEPT ![f] = [count |-> 1, ino |-> i]]
    /\ filp' = [filp EXCEPT ![p][Min(FreeFds(p))] = f]
    /\ UNCHANGED pwd

CanOpen(p) == Alive(p) /\ FreeFds(p) # {} /\ FreeFiles # {}

(* open_namei of a name that exists.  A directory is opened for reading    *)
(* only; O_TRUNC gives the zones back; O_EXCL refuses.                     *)
OpenOld(p, path, flag) ==
    LET i == namei(p, path) IN
    /\ CanOpen(p) /\ i # 0
    /\ flag # "excl"
    /\ inode[i].kind = "dir" => flag = "read"
    /\ inode[i].nlinks > 0
    /\ IF flag = "trunc"
       THEN iput([inode EXCEPT ![i].count = @ + 1, ![i].zones = {}],
                 imap, zmap \ inode[i].zones, <<>>)
       ELSE iput([inode EXCEPT ![i].count = @ + 1], imap, zmap, <<>>)
    /\ Opened(p, i)

(* O_CREAT of a new name; without room for the entry the inode goes back.  *)
OpenNew(p, path, flag) ==
    LET d == dir_namei(p, path)
        i == FreeIno(imap)
        tab == new_inode(inode, i, "file")
    IN
    /\ CanOpen(p) /\ flag \in {"trunc", "excl"}
    /\ d # 0 /\ Fits(d)
    /\ find_entry(d, basename(path)) = 0
    /\ Inos \ imap # {}
    /\ IF CanAdd(tab, d, zmap)
       THEN /\ iput(add_entry(tab, d, basename(path), i, zmap), imap \cup {i},
                    MapAfter(tab, d, zmap), <<>>)
            /\ Opened(p, i)
       ELSE /\ iput([tab EXCEPT ![i].nlinks = @ - 1], imap \cup {i}, zmap, <<i>>)
            /\ UNCHANGED <<file, filp, pwd>>

(* Closing the descriptors D of p; the old f_inode of a free file is not   *)
(* read.                                                                   *)
Uses(p, D, f) == Cardinality({fd \in D : filp[p][fd] = f})
LastUse(p, D) == {f \in Files : Uses(p, D, f) > 0 /\ file[f].count = Uses(p, D, f)}
InosOf(F) == LET s == SetToSeq(F) IN [k \in DOMAIN s |-> file[s[k]].ino]

Closed(p, D) ==
    [f \in Files |-> IF f \in LastUse(p, D) THEN FreeFile
                     ELSE [file[f] EXCEPT !.count = @ - Uses(p, D, f)]]

sys_close(p, fd) ==
    /\ Alive(p) /\ filp[p][fd] # 0
    /\ file' = Closed(p, {fd})
    /\ filp' = [filp EXCEPT ![p][fd] = 0]
    /\ iput(inode, imap, zmap, InosOf(LastUse(p, {fd})))
    /\ UNCHANGED pwd

(* dupfd: the lowest free descriptor from arg on.                          *)
dupfd(p, fd, arg) ==
    /\ Alive(p) /\ filp[p][fd] # 0
    /\ \E new \in FreeFds(p) :
          /\ new >= arg /\ \A other \in FreeFds(p) : other >= arg => new <= other
          /\ filp' = [filp EXCEPT ![p][new] = filp[p][fd]]
    /\ file' = [file EXCEPT ![filp[p][fd]].count = @ + 1]
    /\ UNCHANGED pwd

sys_dup(p, fd) == dupfd(p, fd, 0) /\ Nothing

(* sys_dup2 closes the new descriptor first, whether or not the old one is *)
(* open; the old one is looked at afterwards.                              *)
sys_dup2(p, fd, new) ==
    /\ Alive(p)
    /\ LET open == {new} \ FreeFds(p)
           ok == fd # new /\ filp[p][fd] # 0
           f == filp[p][fd]
       IN
       /\ open # {} \/ ok
       /\ filp' = [filp EXCEPT ![p][new] = IF ok THEN f ELSE 0]
       /\ file' = IF ok THEN [Closed(p, open) EXCEPT ![f].count = @ + 1] ELSE Closed(p, open)
       /\ iput(inode, imap, zmap, InosOf(LastUse(p, open)))
    /\ UNCHANGED pwd

sys_chdir(p, path) ==
    LET i == namei(p, path) IN
    /\ Alive(p) /\ i # 0 /\ inode[i].kind = "dir"
    /\ iput([inode EXCEPT ![i].count = @ + 1], imap, zmap, <<pwd[p]>>)
    /\ pwd' = [pwd EXCEPT ![p] = i]
    /\ UNCHANGED <<file, filp>>

(* file_write of one block more; a full disk leaves all as it was.         *)
file_write(p, fd) ==
    LET i == file[filp[p][fd]].ino IN
    /\ Alive(p) /\ filp[p][fd] # 0
    /\ inode[i].kind = "file" /\ Cardinality(inode[i].zones) < MaxBlocks
    /\ Zones \ zmap # {}
    /\ iput([inode EXCEPT ![i].zones = @ \cup {FreeZone(zmap)}],
            imap, zmap \cup {FreeZone(zmap)}, <<>>)
    /\ UNCHANGED <<file, filp, pwd>>

(***************************************************************************)
(* Directories: namei.c.                                                   *)
(***************************************************************************)
Same == UNCHANGED <<file, filp, pwd>>

(* sys_mkdir: an inode, its block with "." and "..", then the entry; what  *)
(* was taken is given back when the next step finds no room.               *)
sys_mkdir(p, path) ==
    LET d == dir_namei(p, path)
        i == FreeIno(imap)
        bare == new_inode(inode, i, "new")
        z == FreeZone(zmap)
        made == [bare EXCEPT ![i].kind = "dir", ![i].nlinks = 2, ![i].zones = {z},
                             ![i].ents = <<Entry(".", i), Entry("..", d)>>]
        zm == zmap \cup {z}
    IN
    /\ Alive(p) /\ d # 0 /\ Fits(d)
    /\ find_entry(d, basename(path)) = 0
    /\ Inos \ imap # {}
    /\ \/ /\ Zones \ zmap = {}
          /\ iput([bare EXCEPT ![i].nlinks = @ - 1], imap \cup {i}, zmap, <<i>>)
       \/ /\ Zones \ zmap # {} /\ ~CanAdd(made, d, zm)
          /\ iput([made EXCEPT ![i].nlinks = 0], imap \cup {i}, zm \ {z}, <<i>>)
       \/ /\ Zones \ zmap # {} /\ CanAdd(made, d, zm)
          /\ LET tab == add_entry(made, d, basename(path), i, zm) IN
             iput([tab EXCEPT ![d].nlinks = @ + 1], imap \cup {i}, MapAfter(made, d, zm), <<i>>)
    /\ Same

(* Mutant: the entry is left in place.                                     *)
RemovedNot(tab, d, k) == tab
Removed(tab, d, k) == [tab EXCEPT ![d].ents[k] = Hole]

(* Mutant: only "." and ".." are looked at.                                *)
empty_dirFirst(i) == Len(inode[i].ents) >= 2
empty_dir(i) == \A k \in Slots(i) : k > 2 => inode[i].ents[k].ino = 0

(* sys_rmdir holds a reference to the directory and to its parent: a       *)
(* directory somebody else uses, or ".", is refused.                       *)
sys_rmdir(p, path) ==
    LET d == dir_namei(p, path)
        k == find_entry(d, basename(path))
        i == lookup(d, basename(path))
        held == inode[i].count + 1 + (IF i = d THEN 1 ELSE 0)
        tab == [Removed(inode, d, k) EXCEPT ![i].nlinks = 0, ![i].count = @ + 1]
    IN
    /\ Alive(p) /\ d # 0 /\ k # 0
    /\ held <= 1 /\ inode[i].kind = "dir" /\ empty_dir(i)
    /\ iput([tab EXCEPT ![d].nlinks = @ - 1], imap, zmap, <<i>>)
    /\ Same

sys_unlink(p, path) ==
    LET d == dir_namei(p, path)
        k == find_entry(d, basename(path))
        i == lookup(d, basename(path))
    IN
    /\ Alive(p) /\ d # 0 /\ k # 0
    /\ inode[i].kind = "file"
    /\ iput([Removed(inode, d, k) EXCEPT ![i].nlinks = @ - 1, ![i].count = @ + 1],
            imap, zmap, <<i>>)
    /\ Same

(* sys_rename of a regular file: the target's entry is taken over, or a    *)
(* new one made, then the old one cleared.                                 *)
sys_rename(p, old, new) ==
    LET od == dir_namei(p, old)
        nd == dir_namei(p, new)
        oe == find_entry(od, basename(old))
        ne == find_entry(nd, basename(new))
        src == lookup(od, basename(old))
        dst == lookup(nd, basename(new))
    IN
    /\ Alive(p) /\ od # 0 /\ nd # 0 /\ oe # 0
    /\ inode[src].kind = "file"
    /\ \/ /\ ne # 0 /\ dst # src /\ inode[dst].kind = "file"
          /\ LET tab == [inode EXCEPT ![nd].ents[ne].ino = src] IN
             iput([Removed(tab, od, oe) EXCEPT ![dst].nlinks = @ - 1, ![dst].count = @ + 1],
                  imap, zmap, <<dst>>)
       \/ /\ ne = 0 /\ Fits(nd) /\ CanAdd(inode, nd, zmap)
          /\ LET tab == add_entry(inode, nd, basename(new), src, zmap) IN
             iput(Removed(tab, od, oe), imap, MapAfter(inode, nd, zmap), <<>>)
    /\ Same

(***************************************************************************)
(* Processes: fork_current and exit_current.                               *)
(***************************************************************************)
(* Mutant: the child's directories are not counted.                        *)
ReferencedNot(tab, i) == tab
Referenced(tab, i) == [tab EXCEPT ![i].count = @ + 1]

fork_current(p, q) ==
    /\ Alive(p) /\ ~Alive(q)
    /\ filp' = [filp EXCEPT ![q] = filp[p]]
    /\ file' = [f \in Files |-> [file[f] EXCEPT !.count = @ + Uses(p, Fds, f)]]
    /\ pwd' = [pwd EXCEPT ![q] = pwd[p]]
    /\ iput(Referenced(Referenced(inode, pwd[p]), Root), imap, zmap, <<>>)

exit_current(p) ==
    /\ Alive(p) /\ \E q \in Procs \ {p} : Alive(q)        \* init never ends
    /\ file' = Closed(p, Fds)
    /\ filp' = [filp EXCEPT ![p] = [fd \in Fds |-> 0]]
    /\ pwd' = [pwd EXCEPT ![p] = 0]
    /\ iput(inode, imap, zmap, InosOf(LastUse(p, Fds)) \o <<pwd[p], Root>>)

(* After mount_root: one process in an empty root directory, which the     *)
(* mounted file system refers to twice.                                    *)
Init ==
    /\ inode = [i \in Inos |-> IF i # Root THEN FreeInode
                 ELSE [kind |-> "dir", nlinks |-> 2, count |-> 4, zones |-> {Min(Zones)},
                       ents |-> <<Entry(".", Root), Entry("..", Root)>>]]
    /\ imap = {Root} /\ zmap = {Min(Zones)}
    /\ file = [f \in Files |-> FreeFile]
    /\ filp = [p \in Procs |-> [fd \in Fds |-> 0]]
    /\ \E first \in Procs : pwd = [p \in Procs |-> IF p = first THEN Root ELSE 0]

Next ==
    \E p \in Procs :
        \/ \E path \in Paths :
              \/ \E flag \in {"read", "trunc", "excl"} : OpenOld(p, path, flag) \/ OpenNew(p, path, flag)
              \/ sys_chdir(p, path) \/ sys_mkdir(p, path) \/ sys_rmdir(p, path) \/ sys_unlink(p, path)
              \/ \E new \in Paths : sys_rename(p, path, new)
        \/ \E fd \in Fds :
              \/ sys_close(p, fd) \/ sys_dup(p, fd) \/ file_write(p, fd)
              \/ \E new \in Fds : sys_dup2(p, fd, new)
        \/ \E q \in Procs : fork_current(p, q)
        \/ exit_current(p)

Spec == Init /\ [][Next]_vars
-----------------------------------------------------------------------------
(* The names on the disk: those of the paths, "." and "..".                *)
Components == {"", ".", ".."} \cup UNION {Range(path) : path \in Paths}

TypeOK ==
    /\ inode \in [Inos -> [kind : {"free", "file", "dir"}, nlinks : Nat, count : Nat,
                           zones : SUBSET Zones,
                           ents : Seq([name : Components, ino : Inos \cup {0}])]]
    /\ imap \subseteq Inos /\ zmap \subseteq Zones
    /\ file \in [Files -> [count : Nat, ino : Inos]]
    /\ filp \in [Procs -> [Fds -> Files \cup {0}]]
    /\ pwd \in [Procs -> Inos \cup {0}]

(* Link counts: an inode has as many links as directory entries name it,   *)
(* "." and ".." included, and an entry never names a free inode.           *)
EntriesTo(i) == {e \in Inos \X (1..MaxEntries) :
                   e[2] \in Slots(e[1]) /\ inode[e[1]].ents[e[2]].ino = i}
LinksMatchEntries == \A i \in Inos : inode[i].nlinks = Cardinality(EntriesTo(i))

(* Reference counts: a file has as many references as descriptors, an      *)
(* inode as many as open files, working directories, root directories and  *)
(* mounts, across fork, dup, exit and every error path.                    *)
Descriptors(f) == {d \in Procs \X Fds : filp[d[1]][d[2]] = f}
OpenOn(i)  == {f \in Files : file[f].count > 0 /\ file[f].ino = i}
Working(i) == {p \in Procs : pwd[p] = i}
RootRefs(i) == IF i = Root THEN 2 + Cardinality({p \in Procs : Alive(p)}) ELSE 0
RefsMatch ==
    /\ TypeOK
    /\ \A f \in Files : file[f].count = Cardinality(Descriptors(f))
    /\ \A i \in Inos :
         inode[i].count = Cardinality(OpenOn(i)) + Cardinality(Working(i)) + RootRefs(i)

(* The bitmaps are exact: an inode is marked while it has a name or is     *)
(* open, a zone while exactly one inode has it, and a directory has the    *)
(* zones its slots need; nothing leaks and nothing is given out twice.     *)
MapsAreExact ==
    /\ imap = {i \in Inos : inode[i].nlinks > 0 \/ inode[i].count > 0}
    /\ zmap = UNION {inode[i].zones : i \in Inos}
    /\ \A i, j \in Inos : i # j => inode[i].zones \cap inode[j].zones = {}
    /\ \A i \in imap : inode[i].kind = "dir" =>
         Cardinality(inode[i].zones) = (Len(inode[i].ents) + PerBlock - 1) \div PerBlock

(* The directories are a tree: each but the root is named by one directory *)
(* only, the one its ".." names, and no two entries have the same name.    *)
DirsFormATree ==
    \A d \in Inos : inode[d].kind = "dir" =>
        /\ inode[d].nlinks > 0
        /\ d # Root => \E e \in EntriesTo(d) :
              /\ e[1] = inode[d].ents[2].ino /\ e[2] > 2
              /\ \A g \in EntriesTo(d) : g[2] > 2 => g = e
        /\ \A j, k \in Slots(d) : inode[d].ents[j].ino # 0 /\ inode[d].ents[k].ino # 0
              /\ inode[d].ents[j].name = inode[d].ents[k].name => j = k
=============================================================================
