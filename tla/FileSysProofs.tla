---------------------------- MODULE FileSysProofs ----------------------------
(***************************************************************************)
(* Every system call of FileSys.tla keeps the invariant of FileSysLemmas:  *)
(* the tree of directories, the link and reference counts, and the         *)
(* bitmaps.  A call passes through tables of inodes that are wrong in one  *)
(* place, a name without its link, an inode without its name; Shaped,      *)
(* Linked, Hung and Exact say which part holds of each of them.            *)
(***************************************************************************)
EXTENDS FileSysLemmas
-----------------------------------------------------------------------------
(* One lemma for each action: it keeps Inv.                                *)

LEMMA InvNext ==
    ASSUME inode' \in [Inos -> Recs], Tree(inode'), Exact(inode', imap', zmap'),
           file' \in [Files -> [count : Nat, ino : Inos]],
           filp' \in [Procs -> [Fds -> Files \cup {0}]], pwd' \in [Procs -> Inos \cup {0}],
           FileRefs(file', filp'),
           \A p \in Procs : pwd'[p] = 0 => \A fd \in Fds : filp'[p][fd] = 0,
           \A i \in Inos : inode'[i].count = Refs(file', pwd', i)
    PROVE  Inv'
<1>1. /\ imap' = {i \in Inos : inode'[i].nlinks > 0 \/ inode'[i].count > 0}
      /\ zmap' = UNION {inode'[i].zones : i \in Inos}
      /\ \A i \in Inos \ imap' : inode'[i] = FreeInode
      /\ \A i \in imap' : inode'[i].kind \in {"file", "dir"}
  BY DEF Exact
<1>2. imap' \subseteq Inos
  BY <1>1
<1>3. zmap' \subseteq Zones
  <2>1. \A i \in Inos : inode'[i].zones \subseteq Zones
    BY DEF Recs
  <2> QED
    BY <1>1, <2>1
<1>4. ASSUME NEW i \in Inos
      PROVE  inode'[i] \in [kind : {"free", "file", "dir"}, nlinks : Nat, count : Nat,
                 zones : SUBSET Zones, ents : Seq([name : Components, ino : Inos \cup {0}])]
  <2>1. inode'[i].kind \in {"free", "file", "dir"}
    BY <1>1 DEF FreeInode
  <2>2. inode'[i] \in Recs
    OBVIOUS
  <2> QED
    BY <2>1, <2>2 DEF Recs, Ent
<1>5. inode' \in [Inos -> [kind : {"free", "file", "dir"}, nlinks : Nat, count : Nat,
                 zones : SUBSET Zones, ents : Seq([name : Components, ino : Inos \cup {0}])]]
  BY <1>4
<1>6. TypeOK'
  BY <1>2, <1>3, <1>5 DEF TypeOK
<1>7. DeadHoldNothing'
  BY DEF DeadHoldNothing, Alive
<1>8. InodeRefs(inode', file', pwd')
  BY DEF InodeRefs
<1> QED
  BY <1>6, <1>7, <1>8 DEF Inv

LEMMA SameNext ==
    ASSUME Inv, Same, inode' \in [Inos -> Recs], Tree(inode'), Exact(inode', imap', zmap'),
           \A i \in Inos : inode'[i].count = inode[i].count
    PROVE  Inv'
<1>1. /\ file' \in [Files -> [count : Nat, ino : Inos]]
      /\ filp' \in [Procs -> [Fds -> Files \cup {0}]] /\ pwd' \in [Procs -> Inos \cup {0}]
      /\ FileRefs(file', filp')
      /\ \A p \in Procs : pwd'[p] = 0 => \A fd \in Fds : filp'[p][fd] = 0
  BY InvIs DEF Same, Inv, DeadHoldNothing, Alive
<1>2. \A i \in Inos : inode'[i].count = Refs(file', pwd', i)
  BY InvIs DEF Same, InodeRefs
<1> QED
  BY <1>1, <1>2, InvNext

(* Nothing is put.                                                         *)
LEMMA PutNothing ==
    ASSUME NEW tab, tab \in [Inos -> Recs], NEW im, NEW zm, iput(tab, im, zm, <<>>),
           Tree(tab), Exact(tab, im, zm)
    PROVE  /\ inode' \in [Inos -> Recs] /\ Tree(inode') /\ Exact(inode', imap', zmap')
           /\ \A i \in Inos : inode'[i].count = tab[i].count
<1>1. PICK s : s = <<>>
  OBVIOUS
<1>2. \A i \in Inos : Puts(s, i) = 0 /\ tab[i].count \in Nat
  BY <1>1, PutsNone DEF Recs
<1>3. \A i \in Inos : Puts(s, i) \in Nat /\ Puts(s, i) <= tab[i].count
  BY <1>2
<1>4. /\ inode' \in [Inos -> Recs] /\ Tree(inode') /\ Exact(inode', imap', zmap')
      /\ \A i \in Inos : inode'[i].count = tab[i].count - Puts(s, i)
  BY <1>1, <1>3, PutKeeps
<1> QED
  BY <1>2, <1>4

(* One reference is put.                                                   *)
LEMMA PutOne ==
    ASSUME NEW tab, tab \in [Inos -> Recs], NEW im, NEW zm, NEW j \in Inos,
           iput(tab, im, zm, <<j>>), Tree(tab), Exact(tab, im, zm), tab[j].count > 0
    PROVE  /\ inode' \in [Inos -> Recs] /\ Tree(inode') /\ Exact(inode', imap', zmap')
           /\ \A i \in Inos : inode'[i].count = tab[i].count - Is(i, j)
<1>1. PICK s : s = <<j>>
  OBVIOUS
<1>2. \A i \in Inos : Puts(s, i) = Is(i, j) /\ tab[i].count \in Nat
  BY <1>1, PutsOne DEF Recs, Is
<1>3. \A i \in Inos : Puts(s, i) \in Nat /\ Puts(s, i) <= tab[i].count
  BY <1>2 DEF Is
<1>4. /\ inode' \in [Inos -> Recs] /\ Tree(inode') /\ Exact(inode', imap', zmap')
      /\ \A i \in Inos : inode'[i].count = tab[i].count - Puts(s, i)
  BY <1>1, <1>3, PutKeeps
<1> QED
  BY <1>2, <1>4

LEMMA CloseKeeps ==
    ASSUME Inv, NEW p \in Procs, NEW fd \in Fds, sys_close(p, fd)
    PROVE  Inv'
<1>1. PICK D : D = {fd}
  OBVIOUS
<1>2. PICK s : s = InosOf(LastUse(p, D))
  OBVIOUS
<1>3. /\ file' = Closed(p, D) /\ filp' = [filp EXCEPT ![p][fd] = 0]
      /\ iput(inode, imap, zmap, s) /\ pwd' = pwd /\ D \subseteq Fds /\ pwd[p] # 0
  BY <1>1, <1>2 DEF sys_close, Alive
<1>4. /\ inode \in [Inos -> Recs] /\ filp \in [Procs -> [Fds -> Files \cup {0}]]
      /\ pwd \in [Procs -> Inos \cup {0}]
      /\ Tree(inode) /\ Exact(inode, imap, zmap) /\ InodeRefs(inode, file, pwd)
  BY InvIs
<1>5. /\ filp' \in [Procs -> [Fds -> Files \cup {0}]]
      /\ \A q \in Procs : q # p => filp'[q] = filp[q]
      /\ \A f \in D : filp'[p][f] = 0
      /\ \A f \in Fds \ D : filp'[p][f] = filp[p][f]
  BY <1>1, <1>3, <1>4
<1>6. file' \in [Files -> [count : Nat, ino : Inos]] /\ FileRefs(file', filp')
  <2>1. PICK fp : fp = filp'
    OBVIOUS
  <2>2. PICK fl : fl = Closed(p, D)
    OBVIOUS
  <2>3. /\ \A q \in Procs : q # p => fp[q] = filp[q]
        /\ \A f \in D : fp[p][f] = 0
        /\ \A f \in Fds \ D : fp[p][f] = filp[p][f]
    BY <1>5, <2>1
  <2>4. D \subseteq Fds
    BY <1>3
  <2>5. fl \in [Files -> [count : Nat, ino : Inos]] /\ FileRefs(fl, fp)
    BY <2>2, <2>3, <2>4, ClosedRefs
  <2>6. file' = fl
    BY <1>3, <2>2
  <2> QED
    BY <2>1, <2>5, <2>6
<1>7. \A i \in Inos : /\ Puts(s, i) \in Nat /\ Puts(s, i) <= OpenCount(file, i)
                      /\ OpenCount(file', i) = OpenCount(file, i) - Puts(s, i)
  BY <1>2, <1>3, ClosedOpens
<1>8. \A i \in Inos :
          /\ inode[i].count = OpenCount(file, i) + WorkCount(pwd, i) + RootCount(pwd, i)
          /\ OpenCount(file, i) \in Nat /\ WorkCount(pwd, i) \in Nat
          /\ RootCount(pwd, i) \in Nat
  BY <1>4, CountsNat DEF InodeRefs, Refs
<1>9. \A i \in Inos : Puts(s, i) \in Nat /\ Puts(s, i) <= inode[i].count
  BY <1>7, <1>8
<1>10. /\ inode' \in [Inos -> Recs] /\ Tree(inode') /\ Exact(inode', imap', zmap')
       /\ \A i \in Inos : inode'[i].count = inode[i].count - Puts(s, i)
  BY <1>3, <1>4, <1>9, PutKeeps
<1>11. \A i \in Inos : inode'[i].count = Refs(file', pwd', i)
  BY <1>3, <1>7, <1>8, <1>10 DEF Refs
<1>12. \A q \in Procs : pwd'[q] = 0 => \A f \in Fds : filp'[q][f] = 0
  BY <1>3, <1>5 DEF Inv, DeadHoldNothing, Alive
<1> QED
  BY <1>3, <1>4, <1>5, <1>6, <1>10, <1>11, <1>12, InvNext

(* A value held somewhere has a positive count.                            *)
LEMMA WhereSome ==
    ASSUME NEW S, IsFiniteSet(S), NEW m, NEW x \in S, NEW v, m[x] = v
    PROVE  Cardinality(Where(m, S, v)) > 0
<1>1. x \in Where(m, S, v)
  BY DEF Where
<1>2. IsFiniteSet(Where(m, S, v)) /\ Cardinality(Where(m, S, v)) \in Nat
  BY WhereFinite
<1>3. Cardinality(Where(m, S, v)) # 0
  BY <1>1, <1>2, FS_EmptySet
<1> QED
  BY <1>2, <1>3

LEMMA HeldSome ==
    ASSUME NEW fl, NEW fp, FileRefs(fl, fp), NEW p \in Procs, NEW fd \in Fds,
           NEW f \in Files, fp[p][fd] = f
    PROVE  fl[f].count > 0
<1>1. PICK S : S = Procs \X Fds
  OBVIOUS
<1>2. PICK x : x = <<p, fd>>
  OBVIOUS
<1>3. IsFiniteSet(S) /\ x \in S /\ Held(fp)[x] = f
  BY <1>1, <1>2, Finite, HeldAt
<1>4. Cardinality(Where(Held(fp), S, f)) > 0
  BY <1>3, WhereSome
<1>5. DescCount(fp, f) > 0
  BY <1>1, <1>4 DEF DescCount
<1> QED
  BY <1>5 DEF FileRefs

LEMMA WorkSome ==
    ASSUME NEW wd, NEW p \in Procs, NEW i, wd[p] = i
    PROVE  WorkCount(wd, i) > 0
<1>1. IsFiniteSet(Procs)
  BY Finite
<1> QED
  BY <1>1, WhereSome DEF WorkCount

(* Files open on the same inodes.                                          *)
LEMMA SameOpens ==
    ASSUME NEW fl, NEW fl2,
           \A f \in Files : /\ fl2[f].count > 0 <=> fl[f].count > 0
                            /\ fl[f].count > 0 => fl2[f].ino = fl[f].ino, NEW i
    PROVE  OpenCount(fl2, i) = OpenCount(fl, i)
<1>1. Opens(fl2) = Opens(fl)
  BY DEF Opens
<1> QED
  BY <1>1 DEF OpenCount

(* An inode with links or references is marked.                            *)
LEMMA InUse ==
    ASSUME NEW tab, NEW im, NEW zm, Exact(tab, im, zm), NEW i \in Inos
    PROVE  /\ tab[i].count > 0 => i \in im
           /\ tab[i].nlinks > 0 => i \in im
           /\ i \in im => tab[i].nlinks > 0 \/ tab[i].count > 0
<1>1. im = {j \in Inos : tab[j].nlinks > 0 \/ tab[j].count > 0}
  BY DEF Exact
<1> QED
  BY <1>1

(* An inode in use gains a reference.                                      *)
OneMore(tab, new, i) ==
    /\ new \in [Inos -> Recs]
    /\ \A j \in Inos : j # i => new[j] = tab[j]
    /\ new[i].kind = tab[i].kind /\ new[i].nlinks = tab[i].nlinks
    /\ new[i].zones = tab[i].zones /\ new[i].ents = tab[i].ents
    /\ new[i].count = tab[i].count + 1

LEMMA OneMoreAt ==
    ASSUME NEW tab, tab \in [Inos -> Recs], NEW i \in Inos,
           NEW new, new = [tab EXCEPT ![i].count = @ + 1]
    PROVE  OneMore(tab, new, i)
<1>1. PICK c : c = tab[i].count + 1
  OBVIOUS
<1>2. c \in Nat
  BY <1>1 DEF Recs
<1>3. new = [tab EXCEPT ![i].count = c]
  BY <1>1
<1>4. /\ new \in [Inos -> Recs] /\ \A j \in Inos : j # i => new[j] = tab[j]
      /\ new[i].kind = tab[i].kind /\ new[i].nlinks = tab[i].nlinks /\ new[i].count = c
      /\ new[i].zones = tab[i].zones /\ new[i].ents = tab[i].ents
  BY <1>2, <1>3, CountAt
<1> QED
  BY <1>1, <1>4 DEF OneMore

LEMMA Referred ==
    ASSUME NEW tab, tab \in [Inos -> Recs], NEW im, NEW zm, Tree(tab), Exact(tab, im, zm),
           NEW i \in Inos, i \in im, NEW new, OneMore(tab, new, i)
    PROVE  /\ new \in [Inos -> Recs] /\ Tree(new) /\ Exact(new, im, zm)
           /\ \A j \in Inos : new[j].count = tab[j].count + Is(j, i)
<1>1. /\ new \in [Inos -> Recs] /\ \A j \in Inos : j # i => new[j] = tab[j]
      /\ new[i].kind = tab[i].kind /\ new[i].nlinks = tab[i].nlinks
      /\ new[i].zones = tab[i].zones /\ new[i].ents = tab[i].ents
      /\ new[i].count = tab[i].count + 1
  BY DEF OneMore
<1>2. Tree(new)
  <2>1. PICK gone : gone = {}
    OBVIOUS
  <2>2. LinksKept(tab, new, gone)
    BY <1>1, <2>1 DEF LinksKept
  <2> QED
    BY <2>2, PutTree
<1>3. i \in im /\ tab[i].zones \subseteq zm /\ tab[i].kind \in {"file", "dir"}
      /\ (tab[i].kind = "dir" => Cardinality(tab[i].zones) = Blocks(Len(tab[i].ents)))
  BY DEF Exact
<1>4. \A j \in Inos : tab[j].count \in Nat
  BY DEF Recs
<1>5. Exact(new, im \cup {i}, (zm \ tab[i].zones) \cup new[i].zones)
  <2>1. new[i].count > 0
    BY <1>1, <1>4
  <2>2. OnlyAt(tab, new, i) /\ InOrder(new[i])
    BY <1>1, <1>3, <2>1 DEF OnlyAt, InOrder
  <2>3. PICK zm2 : zm2 = (zm \ tab[i].zones) \cup new[i].zones
    OBVIOUS
  <2>4. MapWith(zm, tab[i].zones, new[i].zones, zm2)
    BY <1>1, <2>3 DEF MapWith
  <2>5. Exact(new, im \cup {i}, zm2)
    BY <2>2, <2>4, ExactAt
  <2> QED
    BY <2>3, <2>5
<1>6. im \cup {i} = im /\ (zm \ tab[i].zones) \cup new[i].zones = zm
  BY <1>1, <1>3
<1>7. \A j \in Inos : new[j].count = tab[j].count + Is(j, i)
  BY <1>1, <1>4 DEF Is
<1> QED
  BY <1>1, <1>2, <1>5, <1>6, <1>7

LEMMA DupKeeps ==
    ASSUME Inv, NEW p \in Procs, NEW fd \in Fds, sys_dup(p, fd)
    PROVE  Inv'
<1>1. PICK f : f = filp[p][fd]
  OBVIOUS
<1>2. PICK new \in FreeFds(p) : filp' = [filp EXCEPT ![p][new] = f]
  BY <1>1 DEF sys_dup, dupfd
<1>3. /\ pwd[p] # 0 /\ f # 0 /\ pwd' = pwd /\ file' = [file EXCEPT ![f].count = @ + 1]
      /\ iput(inode, imap, zmap, <<>>) /\ new \in Fds /\ filp[p][new] = 0
  BY <1>1, <1>2 DEF sys_dup, dupfd, Nothing, Alive, FreeFds
<1>4. /\ inode \in [Inos -> Recs] /\ filp \in [Procs -> [Fds -> Files \cup {0}]]
      /\ file \in [Files -> [count : Nat, ino : Inos]] /\ pwd \in [Procs -> Inos \cup {0}]
      /\ Tree(inode) /\ Exact(inode, imap, zmap) /\ InodeRefs(inode, file, pwd)
      /\ FileRefs(file, filp)
  BY InvIs
<1>5. f \in Files /\ file[f].count > 0
  BY <1>1, <1>3, <1>4, HeldSome
<1>6. /\ filp' \in [Procs -> [Fds -> Files \cup {0}]] /\ filp'[p][new] = f
      /\ \A q \in Procs, d \in Fds : q # p \/ d # new => filp'[q][d] = filp[q][d]
  BY <1>2, <1>3, <1>4, <1>5
<1>7. /\ file' \in [Files -> [count : Nat, ino : Inos]] /\ file'[f].count = file[f].count + 1
      /\ \A g \in Files : g # f => file'[g].count = file[g].count
      /\ \A g \in Files : file'[g].ino = file[g].ino
  BY <1>3, <1>4, <1>5
<1>8. FileRefs(file', filp')
  <2>1. PICK fl : fl = file'
    OBVIOUS
  <2>2. PICK fp : fp = filp'
    OBVIOUS
  <2>3. /\ fl[f].count = file[f].count + 1 /\ fp[p][new] = f
        /\ \A g \in Files : g # f => fl[g].count = file[g].count
        /\ \A q \in Procs, d \in Fds : q # p \/ d # new => fp[q][d] = filp[q][d]
    BY <1>6, <1>7, <2>1, <2>2
  <2>4. FileRefs(file, filp) /\ new \in Fds /\ filp[p][new] = 0 /\ f \in Files
    BY <1>3, <1>4, <1>5
  <2>5. FileRefs(fl, fp)
    BY <2>3, <2>4, DescriptorTaken
  <2> QED
    BY <2>1, <2>2, <2>5
<1>9. ASSUME NEW i \in Inos PROVE OpenCount(file', i) = OpenCount(file, i)
  <2>1. \A g \in Files : /\ file'[g].count > 0 <=> file[g].count > 0
                         /\ file[g].count > 0 => file'[g].ino = file[g].ino
    BY <1>4, <1>5, <1>7
  <2> QED
    BY <2>1, SameOpens
<1>10. /\ inode' \in [Inos -> Recs] /\ Tree(inode') /\ Exact(inode', imap', zmap')
       /\ \A i \in Inos : inode'[i].count = inode[i].count
  BY <1>3, <1>4, PutNothing
<1>11. \A i \in Inos : inode'[i].count = Refs(file', pwd', i)
  BY <1>3, <1>4, <1>9, <1>10 DEF InodeRefs, Refs
<1>12. \A q \in Procs : pwd'[q] = 0 => \A d \in Fds : filp'[q][d] = 0
  BY <1>3, <1>6 DEF Inv, DeadHoldNothing, Alive
<1> QED
  BY <1>3, <1>4, <1>6, <1>7, <1>8, <1>10, <1>11, <1>12, InvNext

LEMMA Dup2Keeps ==
    ASSUME Inv, NEW p \in Procs, NEW fd \in Fds, NEW new \in Fds, sys_dup2(p, fd, new)
    PROVE  Inv'
<1>1. PICK D : D = {new} \ FreeFds(p)
  OBVIOUS
<1>2. PICK s : s = InosOf(LastUse(p, D))
  OBVIOUS
<1>3. PICK f : f = filp[p][fd]
  OBVIOUS
<1>4. PICK fl : fl = Closed(p, D)
  OBVIOUS
<1>5. PICK fp : fp = [filp EXCEPT ![p][new] = 0]
  OBVIOUS
<1>6. /\ iput(inode, imap, zmap, s) /\ pwd' = pwd /\ D \subseteq Fds /\ pwd[p] # 0
      /\ filp' = [filp EXCEPT ![p][new] = IF fd # new /\ f # 0 THEN f ELSE 0]
      /\ file' = IF fd # new /\ f # 0 THEN [fl EXCEPT ![f].count = @ + 1] ELSE fl
  BY <1>1, <1>2, <1>3, <1>4 DEF sys_dup2, Alive
<1>7. /\ inode \in [Inos -> Recs] /\ filp \in [Procs -> [Fds -> Files \cup {0}]]
      /\ pwd \in [Procs -> Inos \cup {0}]
      /\ Tree(inode) /\ Exact(inode, imap, zmap) /\ InodeRefs(inode, file, pwd)
  BY InvIs
<1>8. /\ fp \in [Procs -> [Fds -> Files \cup {0}]]
      /\ \A q \in Procs : q # p => fp[q] = filp[q]
      /\ \A d \in D : fp[p][d] = 0
      /\ \A d \in Fds \ D : fp[p][d] = filp[p][d]
      /\ fp[p][new] = 0
  BY <1>1, <1>5, <1>7 DEF FreeFds
<1>9. fl \in [Files -> [count : Nat, ino : Inos]] /\ FileRefs(fl, fp)
  BY <1>4, <1>6, <1>8, ClosedRefs
<1>10. /\ file' \in [Files -> [count : Nat, ino : Inos]]
       /\ filp' \in [Procs -> [Fds -> Files \cup {0}]]
       /\ FileRefs(file', filp')
       /\ \A i \in Inos : OpenCount(file', i) = OpenCount(fl, i)
  <2>1. CASE ~(fd # new /\ f # 0)
    BY <1>5, <1>6, <1>8, <1>9, <2>1
  <2>2. CASE fd # new /\ f # 0
    <3>1. /\ filp' = [filp EXCEPT ![p][new] = f] /\ file' = [fl EXCEPT ![f].count = @ + 1]
          /\ f \in Files
      BY <1>3, <1>6, <1>7, <2>2
    <3>2. fl[f].count > 0
      <4>1. fp[p][fd] = f
        BY <1>3, <1>5, <1>7, <2>2
      <4> QED
        BY <1>9, <3>1, <4>1, HeldSome
    <3>3. PICK fl2 : fl2 = file'
      OBVIOUS
    <3>4. PICK fp2 : fp2 = filp'
      OBVIOUS
    <3>5. /\ fl2 \in [Files -> [count : Nat, ino : Inos]] /\ fl2[f].count = fl[f].count + 1
          /\ \A g \in Files : g # f => fl2[g].count = fl[g].count
          /\ \A g \in Files : fl2[g].ino = fl[g].ino
      BY <1>9, <3>1, <3>3
    <3>6. /\ fp2 \in [Procs -> [Fds -> Files \cup {0}]] /\ fp2[p][new] = f
          /\ \A q \in Procs, d \in Fds : q # p \/ d # new => fp2[q][d] = fp[q][d]
      BY <1>5, <1>7, <3>1, <3>4
    <3>7. FileRefs(fl2, fp2)
      <4>1. /\ FileRefs(fl, fp) /\ fp[p][new] = 0 /\ f \in Files
            /\ fl2[f].count = fl[f].count + 1 /\ fp2[p][new] = f
            /\ \A g \in Files : g # f => fl2[g].count = fl[g].count
            /\ \A q \in Procs, d \in Fds : q # p \/ d # new => fp2[q][d] = fp[q][d]
        BY <1>8, <1>9, <3>1, <3>5, <3>6
      <4> QED
        BY <4>1, DescriptorTaken
    <3>8. \A g \in Files : /\ fl2[g].count > 0 <=> fl[g].count > 0
                           /\ fl[g].count > 0 => fl2[g].ino = fl[g].ino
      BY <1>9, <3>1, <3>2, <3>5
    <3>9. \A i \in Inos : OpenCount(fl2, i) = OpenCount(fl, i)
      BY <3>8, SameOpens
    <3> QED
      BY <3>3, <3>4, <3>5, <3>6, <3>7, <3>9
  <2> QED
    BY <2>1, <2>2
<1>11. \A i \in Inos : /\ Puts(s, i) \in Nat /\ Puts(s, i) <= OpenCount(file, i)
                       /\ OpenCount(file', i) = OpenCount(file, i) - Puts(s, i)
  <2>1. \A i \in Inos : /\ Puts(s, i) \in Nat /\ Puts(s, i) <= OpenCount(file, i)
                        /\ OpenCount(fl, i) = OpenCount(file, i) - Puts(s, i)
    BY <1>2, <1>4, <1>6, ClosedOpens
  <2> QED
    BY <1>10, <2>1
<1>12. \A i \in Inos :
           /\ inode[i].count = OpenCount(file, i) + WorkCount(pwd, i) + RootCount(pwd, i)
           /\ OpenCount(file, i) \in Nat /\ WorkCount(pwd, i) \in Nat
           /\ RootCount(pwd, i) \in Nat
  BY <1>7, CountsNat DEF InodeRefs, Refs
<1>13. \A i \in Inos : Puts(s, i) \in Nat /\ Puts(s, i) <= inode[i].count
  BY <1>11, <1>12
<1>14. /\ inode' \in [Inos -> Recs] /\ Tree(inode') /\ Exact(inode', imap', zmap')
       /\ \A i \in Inos : inode'[i].count = inode[i].count - Puts(s, i)
  BY <1>6, <1>7, <1>13, PutKeeps
<1>15. \A i \in Inos : inode'[i].count = Refs(file', pwd', i)
  <2>1. pwd' = pwd
    BY <1>6
  <2>2. ASSUME NEW i \in Inos
        PROVE  inode'[i].count = OpenCount(file', i) + WorkCount(pwd, i) + RootCount(pwd, i)
    BY <1>11, <1>12, <1>14
  <2> QED
    BY <2>1, <2>2 DEF Refs
<1>16. \A q \in Procs : pwd'[q] = 0 => \A d \in Fds : filp'[q][d] = 0
  <2>1. \A q \in Procs : q # p => filp'[q] = filp[q]
    BY <1>6, <1>7
  <2>2. \A q \in Procs : pwd[q] = 0 => \A d \in Fds : filp[q][d] = 0
    BY DEF Inv, DeadHoldNothing, Alive
  <2> QED
    BY <1>6, <2>1, <2>2
<1> QED
  BY <1>6, <1>7, <1>10, <1>14, <1>15, <1>16, InvNext

LEMMA ExitKeeps ==
    ASSUME Inv, NEW p \in Procs, exit_current(p)
    PROVE  Inv'
<1>1. PICK r : r = InosOf(LastUse(p, Fds))
  OBVIOUS
<1>2. PICK w : w = pwd[p]
  OBVIOUS
<1>3. PICK s : s = r \o <<w, Root>>
  OBVIOUS
<1>4. PICK D : D = Fds
  OBVIOUS
<1>5. /\ file' = Closed(p, D) /\ filp' = [filp EXCEPT ![p] = [fd \in Fds |-> 0]]
      /\ pwd' = [pwd EXCEPT ![p] = 0] /\ iput(inode, imap, zmap, s) /\ w # 0
  BY <1>1, <1>2, <1>3, <1>4 DEF exit_current, Alive
<1>6. /\ inode \in [Inos -> Recs] /\ filp \in [Procs -> [Fds -> Files \cup {0}]]
      /\ pwd \in [Procs -> Inos \cup {0}]
      /\ Tree(inode) /\ Exact(inode, imap, zmap) /\ InodeRefs(inode, file, pwd)
  BY InvIs
<1>7. /\ filp' \in [Procs -> [Fds -> Files \cup {0}]]
      /\ \A q \in Procs : q # p => filp'[q] = filp[q]
      /\ \A fd \in D : filp'[p][fd] = 0
      /\ \A fd \in Fds \ D : filp'[p][fd] = filp[p][fd]
      /\ D \subseteq Fds
  BY <1>4, <1>5, <1>6
<1>8. file' \in [Files -> [count : Nat, ino : Inos]] /\ FileRefs(file', filp')
  BY <1>5, <1>7, ClosedRefs
<1>9. \A i \in Inos : /\ r \in Seq(Inos) /\ Puts(r, i) \in Nat /\ Puts(r, i) <= OpenCount(file, i)
                      /\ OpenCount(file', i) = OpenCount(file, i) - Puts(r, i)
  BY <1>1, <1>4, <1>5, <1>7, ClosedOpens
<1>10. /\ pwd' \in [Procs -> Inos \cup {0}] /\ pwd'[p] = 0
       /\ \A q \in Procs : q # p => pwd'[q] = pwd[q]
  BY <1>5, <1>6
<1>11. Root \in Inos /\ w \in Inos /\ r \in Seq(Inos)
  BY <1>2, <1>5, <1>6, <1>9, FilesAssumption
<1>12. ASSUME NEW i \in Inos
       PROVE  Puts(s, i) = Puts(r, i) + Is(i, w) + Is(i, Root)
  <2>1. PICK a : a = Append(r, w)
    OBVIOUS
  <2>2. s = Append(a, Root) /\ a \in Seq(Inos)
    BY <1>3, <1>11, <2>1
  <2>3. Puts(a, i) = Puts(r, i) + (IF i = w THEN 1 ELSE 0)
    BY <1>11, <2>1, PutsAppend
  <2>4. Puts(s, i) = Puts(a, i) + (IF i = Root THEN 1 ELSE 0)
    BY <1>11, <2>2, PutsAppend
  <2> QED
    BY <2>3, <2>4 DEF Is
<1>13. ASSUME NEW i \in Inos
       PROVE  /\ Puts(s, i) \in Nat /\ Puts(s, i) <= inode[i].count
              /\ inode[i].count - Puts(s, i) = Refs(file', pwd', i)
  <2>1. /\ inode[i].count = OpenCount(file, i) + WorkCount(pwd, i) + RootCount(pwd, i)
        /\ OpenCount(file, i) \in Nat /\ WorkCount(pwd, i) \in Nat
        /\ RootCount(pwd, i) \in Nat /\ WorkCount(pwd', i) \in Nat
        /\ i = Root => RootCount(pwd, i) >= 2
    BY <1>6, CountsNat DEF InodeRefs, Refs
  <2>2. /\ WorkCount(pwd', i) = WorkCount(pwd, i) - Is(pwd[p], i) + Is(pwd'[p], i)
        /\ i = Root => RootCount(pwd', i) = RootCount(pwd, i) + Is(pwd[p], 0) - Is(pwd'[p], 0)
        /\ i # Root => RootCount(pwd', i) = RootCount(pwd, i)
    <3>1. PICK wd2 : wd2 = pwd'
      OBVIOUS
    <3>2. \A q \in Procs : q # p => wd2[q] = pwd[q]
      BY <1>10, <3>1
    <3>3. /\ WorkCount(wd2, i) = WorkCount(pwd, i) - Is(pwd[p], i) + Is(wd2[p], i)
          /\ i = Root => RootCount(wd2, i) = RootCount(pwd, i) + Is(pwd[p], 0) - Is(wd2[p], 0)
          /\ i # Root => RootCount(wd2, i) = RootCount(pwd, i)
      BY <3>2, WorkChange
    <3> QED
      BY <3>1, <3>3
  <2>3. /\ Is(pwd[p], i) = Is(i, w) /\ Is(pwd'[p], i) = 0 /\ Is(pwd[p], 0) = 0
        /\ Is(pwd'[p], 0) = 1 /\ Is(i, w) \in {0, 1}
        /\ i # Root => Is(i, Root) = 0
    BY <1>2, <1>5, <1>10, FilesAssumption DEF Is
  <2>4. i = Root => Is(i, Root) = 1
    BY DEF Is
  <2>5. /\ Puts(r, i) \in Nat /\ Puts(r, i) <= OpenCount(file, i)
        /\ OpenCount(file', i) = OpenCount(file, i) - Puts(r, i)
        /\ Puts(s, i) = Puts(r, i) + Is(i, w) + Is(i, Root)
        /\ WorkCount(pwd', i) = WorkCount(pwd, i) - Is(i, w)
    BY <1>9, <1>12, <2>1, <2>2, <2>3
  <2>6. RootCount(pwd', i) = RootCount(pwd, i) - Is(i, Root) /\ Is(i, Root) \in {0, 1}
    BY <2>1, <2>2, <2>3, <2>4
  <2>7. RootCount(pwd, i) >= Is(i, Root)
    BY <2>1, <2>3, <2>4
  <2>8. Refs(file', pwd', i) = OpenCount(file', i) + WorkCount(pwd', i) + RootCount(pwd', i)
    BY DEF Refs
  <2> HIDE DEF Is, Root
  <2>9. \A o, a, c, x, y, z, b \in Nat : x <= o /\ a - y = b /\ z <= c
          => /\ x + y + z \in Nat /\ x + y + z <= o + a + c
             /\ (o + a + c) - (x + y + z) = (o - x) + (a - y) + (c - z)
    OBVIOUS
  <2> QED
    BY <2>1, <2>3, <2>5, <2>6, <2>7, <2>8, <2>9
<1>14. /\ inode' \in [Inos -> Recs] /\ Tree(inode') /\ Exact(inode', imap', zmap')
       /\ \A i \in Inos : inode'[i].count = inode[i].count - Puts(s, i)
  BY <1>5, <1>6, <1>13, PutKeeps
<1>15. \A i \in Inos : inode'[i].count = Refs(file', pwd', i)
  BY <1>13, <1>14
<1>16. \A q \in Procs : pwd'[q] = 0 => \A d \in Fds : filp'[q][d] = 0
  <2>1. \A q \in Procs : pwd[q] = 0 => \A d \in Fds : filp[q][d] = 0
    BY DEF Inv, DeadHoldNothing, Alive
  <2> QED
    BY <1>4, <1>7, <1>10, <2>1
<1> QED
  BY <1>7, <1>8, <1>10, <1>14, <1>15, <1>16, InvNext

LEMMA ForkKeeps ==
    ASSUME Inv, NEW p \in Procs, NEW q \in Procs, fork_current(p, q)
    PROVE  Inv'
<1>1. PICK w : w = pwd[p]
  OBVIOUS
<1>2. PICK t1 : t1 = [inode EXCEPT ![w].count = @ + 1]
  OBVIOUS
<1>3. PICK t2 : t2 = [t1 EXCEPT ![Root].count = @ + 1]
  OBVIOUS
<1>4. /\ filp' = [filp EXCEPT ![q] = filp[p]] /\ pwd' = [pwd EXCEPT ![q] = w]
      /\ iput(t2, imap, zmap, <<>>) /\ w # 0 /\ pwd[q] = 0
      /\ file' = [f \in Files |-> [file[f] EXCEPT !.count = @ + Uses(p, Fds, f)]]
  BY <1>1, <1>2, <1>3 DEF fork_current, Alive, Referenced
<1>5. /\ inode \in [Inos -> Recs] /\ filp \in [Procs -> [Fds -> Files \cup {0}]]
      /\ file \in [Files -> [count : Nat, ino : Inos]] /\ pwd \in [Procs -> Inos \cup {0}]
      /\ Tree(inode) /\ Exact(inode, imap, zmap) /\ InodeRefs(inode, file, pwd)
      /\ FileRefs(file, filp)
  BY InvIs
<1>6. w \in Inos /\ Root \in Inos /\ q # p
  BY <1>1, <1>4, <1>5, FilesAssumption
<1>7. /\ filp' \in [Procs -> [Fds -> Files \cup {0}]] /\ filp'[q] = filp[p]
      /\ \A o \in Procs : o # q => filp'[o] = filp[o]
      /\ pwd' \in [Procs -> Inos \cup {0}] /\ pwd'[q] = w
      /\ \A o \in Procs : o # q => pwd'[o] = pwd[o]
      /\ \A fd \in Fds : filp[q][fd] = 0
  BY <1>4, <1>5, <1>6 DEF Inv, DeadHoldNothing, Alive
<1>8. ASSUME NEW f \in Files
      PROVE  /\ file'[f] \in [count : Nat, ino : Inos] /\ file'[f].ino = file[f].ino
             /\ file'[f].count = file[f].count + Row(filp, p, f)
             /\ Row(filp, p, f) \in Nat /\ file[f].count \in Nat
             /\ Row(filp, p, f) <= file[f].count
  <2>1. PICK n : n = Uses(p, Fds, f)
    OBVIOUS
  <2>2. PICK D : D = Fds
    OBVIOUS
  <2>3. /\ Uses(p, D, f) \in Nat /\ Row(filp, p, f) \in Nat /\ file[f].count \in Nat
        /\ Row(filp, p, f) <= file[f].count
    BY <2>2, UsesFit
  <2>4. n \in Nat /\ n = Row(filp, p, f)
    BY <2>1, <2>2, <2>3 DEF Uses, Row
  <2>5. file'[f] = [file[f] EXCEPT !.count = @ + n]
    BY <1>4, <2>1
  <2> QED
    BY <1>5, <2>3, <2>4, <2>5
<1>9. file' \in [Files -> [count : Nat, ino : Inos]]
  <2>1. DOMAIN file' = Files /\ file' = [f \in Files |-> file'[f]]
    BY <1>4
  <2> QED
    BY <1>8, <2>1
<1>10. FileRefs(file', filp')
  <2>1. PICK fp : fp = filp'
    OBVIOUS
  <2>2. ASSUME NEW f \in Files
        PROVE  file'[f].count = DescCount(fp, f)
    <3>1. DescCount(fp, f) = DescCount(filp, f) - Row(filp, q, f) + Row(fp, q, f)
      <4>1. \A o \in Procs : o # q => fp[o] = filp[o]
        BY <1>7, <2>1
      <4> QED
        BY <4>1, RowChange
    <3>2. Row(filp, q, f) = 0
      <4>1. {fd \in Fds : filp[q][fd] = f} = {}
        BY <1>7, FilesAssumption
      <4> QED
        BY <4>1, FS_EmptySet DEF Row
    <3>3. Row(fp, q, f) = Row(filp, p, f)
      BY <1>7, <2>1 DEF Row
    <3>4. file[f].count = DescCount(filp, f)
      BY <1>5 DEF FileRefs
    <3> QED
      BY <1>8, <3>1, <3>2, <3>3, <3>4
  <2> QED
    BY <2>1, <2>2 DEF FileRefs
<1>11. ASSUME NEW i \in Inos
       PROVE  /\ Refs(file', pwd', i) = Refs(file, pwd, i) + Is(i, w) + Is(i, Root)
              /\ Refs(file, pwd, i) \in Nat
              /\ i \in {w, Root} => Refs(file, pwd, i) > 0
  <2>1. PICK wd : wd = pwd'
    OBVIOUS
  <2>2. \A o \in Procs : o # q => wd[o] = pwd[o]
    BY <1>7, <2>1
  <2>3. /\ WorkCount(wd, i) = WorkCount(pwd, i) - Is(pwd[q], i) + Is(wd[q], i)
        /\ i = Root => RootCount(wd, i) = RootCount(pwd, i) + Is(pwd[q], 0) - Is(wd[q], 0)
        /\ i # Root => RootCount(wd, i) = RootCount(pwd, i)
    BY <2>2, WorkChange
  <2>4. /\ Is(pwd[q], i) = 0 /\ Is(wd[q], i) = Is(i, w) /\ Is(pwd[q], 0) = 1
        /\ Is(wd[q], 0) = 0 /\ Is(i, w) \in {0, 1}
        /\ Is(i, Root) = IF i = Root THEN 1 ELSE 0
    BY <1>4, <1>6, <1>7, <2>1, FilesAssumption DEF Is
  <2>5. OpenCount(file', i) = OpenCount(file, i)
    <3>1. PICK fl : fl = file'
      OBVIOUS
    <3>2. \A f \in Files : /\ fl[f].count > 0 <=> file[f].count > 0
                           /\ file[f].count > 0 => fl[f].ino = file[f].ino
      BY <1>8, <3>1
    <3>3. OpenCount(fl, i) = OpenCount(file, i)
      BY <3>2, SameOpens
    <3> QED
      BY <3>1, <3>3
  <2>6. /\ OpenCount(file, i) \in Nat /\ WorkCount(pwd, i) \in Nat
        /\ RootCount(pwd, i) \in Nat
        /\ i = Root => RootCount(pwd, i) >= 2
    BY CountsNat
  <2>7. i = w => WorkCount(pwd, i) > 0
    BY <1>1, WorkSome
  <2>8. /\ WorkCount(wd, i) = WorkCount(pwd, i) + Is(i, w)
        /\ RootCount(wd, i) = RootCount(pwd, i) + Is(i, Root)
    BY <2>3, <2>4, <2>6
  <2>9. Refs(file', pwd', i) = OpenCount(file, i) + WorkCount(wd, i) + RootCount(wd, i)
    BY <2>1, <2>5 DEF Refs
  <2>10. Refs(file, pwd, i) = OpenCount(file, i) + WorkCount(pwd, i) + RootCount(pwd, i)
    BY DEF Refs
  <2> QED
    BY <2>4, <2>6, <2>7, <2>8, <2>9, <2>10
<1>12. \A i \in Inos : inode[i].count = Refs(file, pwd, i)
  BY <1>5 DEF InodeRefs
<1>13. /\ t1 \in [Inos -> Recs] /\ Tree(t1) /\ Exact(t1, imap, zmap)
       /\ \A j \in Inos : t1[j].count = inode[j].count + Is(j, w)
  <2>1. inode[w].count > 0
    BY <1>6, <1>11, <1>12
  <2>2. w \in imap
    BY <1>5, <1>6, <2>1, InUse
  <2>3. OneMore(inode, t1, w)
    BY <1>2, <1>5, <1>6, OneMoreAt
  <2> QED
    BY <1>5, <1>6, <2>2, <2>3, Referred
<1>14. /\ t2 \in [Inos -> Recs] /\ Tree(t2) /\ Exact(t2, imap, zmap)
       /\ \A j \in Inos : t2[j].count = t1[j].count + Is(j, Root)
  <2>1. inode[Root].count > 0 /\ inode[Root].count \in Nat
    BY <1>6, <1>11, <1>12
  <2>2. t1[Root].count > 0
    BY <1>6, <1>13, <2>1 DEF Is
  <2>3. Root \in imap
    BY <1>6, <1>13, <2>2, InUse
  <2>4. OneMore(t1, t2, Root)
    BY <1>3, <1>6, <1>13, OneMoreAt
  <2> QED
    BY <1>6, <1>13, <2>3, <2>4, Referred
<1>15. /\ inode' \in [Inos -> Recs] /\ Tree(inode') /\ Exact(inode', imap', zmap')
       /\ \A i \in Inos : inode'[i].count = t2[i].count
  BY <1>4, <1>14, PutNothing
<1>16. \A i \in Inos : inode'[i].count = Refs(file', pwd', i)
  BY <1>11, <1>12, <1>13, <1>14, <1>15
<1>17. \A o \in Procs : pwd'[o] = 0 => \A d \in Fds : filp'[o][d] = 0
  <2>1. \A o \in Procs : pwd[o] = 0 => \A d \in Fds : filp[o][d] = 0
    BY DEF Inv, DeadHoldNothing, Alive
  <2> QED
    BY <1>4, <1>7, <2>1
<1> QED
  BY <1>7, <1>9, <1>10, <1>15, <1>16, <1>17, InvNext

(* A directory is marked.                                                  *)
LEMMA DirMarked ==
    ASSUME NEW tab, Tree(tab), NEW im, NEW zm, Exact(tab, im, zm), NEW d \in Inos,
           tab[d].kind = "dir"
    PROVE  d \in im /\ tab[d].nlinks > 0
<1>1. tab[d].nlinks > 0
  BY DEF Tree, Dots
<1> QED
  BY <1>1, InUse

LEMMA ChdirKeeps ==
    ASSUME Inv, NEW p \in Procs, NEW path \in Paths, sys_chdir(p, path)
    PROVE  Inv'
<1>1. PICK w : w = pwd[p]
  OBVIOUS
<1>2. PICK i : i = namei(p, path)
  OBVIOUS
<1>3. PICK t1 : t1 = [inode EXCEPT ![i].count = @ + 1]
  OBVIOUS
<1>4. /\ pwd' = [pwd EXCEPT ![p] = i] /\ file' = file /\ filp' = filp
      /\ iput(t1, imap, zmap, <<w>>) /\ w # 0 /\ i # 0 /\ inode[i].kind = "dir"
  BY <1>1, <1>2, <1>3 DEF sys_chdir, Alive
<1>5. /\ inode \in [Inos -> Recs] /\ filp \in [Procs -> [Fds -> Files \cup {0}]]
      /\ file \in [Files -> [count : Nat, ino : Inos]] /\ pwd \in [Procs -> Inos \cup {0}]
      /\ Tree(inode) /\ Exact(inode, imap, zmap) /\ InodeRefs(inode, file, pwd)
      /\ FileRefs(file, filp)
  BY InvIs
<1>6. i \in Inos /\ w \in Inos
  BY <1>1, <1>2, <1>4, <1>5, GotInode
<1>7. /\ pwd' \in [Procs -> Inos \cup {0}] /\ pwd'[p] = i
      /\ \A o \in Procs : o # p => pwd'[o] = pwd[o]
  BY <1>4, <1>5, <1>6
<1>8. ASSUME NEW j \in Inos
      PROVE  /\ Refs(file', pwd', j) = Refs(file, pwd, j) + Is(j, i) - Is(j, w)
             /\ Refs(file, pwd, j) \in Nat
             /\ j = w => Refs(file, pwd, j) > 0
  <2>1. PICK wd : wd = pwd'
    OBVIOUS
  <2>2. \A o \in Procs : o # p => wd[o] = pwd[o]
    BY <1>7, <2>1
  <2>3. /\ WorkCount(wd, j) = WorkCount(pwd, j) - Is(pwd[p], j) + Is(wd[p], j)
        /\ j = Root => RootCount(wd, j) = RootCount(pwd, j) + Is(pwd[p], 0) - Is(wd[p], 0)
        /\ j # Root => RootCount(wd, j) = RootCount(pwd, j)
    BY <2>2, WorkChange
  <2>4. /\ Is(pwd[p], j) = Is(j, w) /\ Is(wd[p], j) = Is(j, i) /\ Is(pwd[p], 0) = 0
        /\ Is(wd[p], 0) = 0 /\ Is(j, w) \in {0, 1} /\ Is(j, i) \in {0, 1}
    BY <1>1, <1>4, <1>6, <1>7, <2>1, FilesAssumption DEF Is
  <2>5. OpenCount(file, j) \in Nat /\ WorkCount(pwd, j) \in Nat /\ RootCount(pwd, j) \in Nat
    BY CountsNat
  <2>6. j = w => WorkCount(pwd, j) > 0
    BY <1>1, WorkSome
  <2>7. WorkCount(wd, j) = WorkCount(pwd, j) + Is(j, i) - Is(j, w)
        /\ RootCount(wd, j) = RootCount(pwd, j)
    BY <2>3, <2>4, <2>5
  <2>8. Refs(file', pwd', j) = OpenCount(file, j) + WorkCount(wd, j) + RootCount(wd, j)
    BY <1>4, <2>1 DEF Refs
  <2>9. Refs(file, pwd, j) = OpenCount(file, j) + WorkCount(pwd, j) + RootCount(pwd, j)
    BY DEF Refs
  <2> QED
    BY <2>4, <2>5, <2>6, <2>7, <2>8, <2>9
<1>9. \A j \in Inos : inode[j].count = Refs(file, pwd, j)
  BY <1>5 DEF InodeRefs
<1>10. /\ t1 \in [Inos -> Recs] /\ Tree(t1) /\ Exact(t1, imap, zmap)
       /\ \A j \in Inos : t1[j].count = inode[j].count + Is(j, i)
  <2>1. i \in imap
    BY <1>4, <1>5, <1>6, DirMarked
  <2>2. OneMore(inode, t1, i)
    BY <1>3, <1>5, <1>6, OneMoreAt
  <2> QED
    BY <1>5, <1>6, <2>1, <2>2, Referred
<1>11. /\ inode' \in [Inos -> Recs] /\ Tree(inode') /\ Exact(inode', imap', zmap')
       /\ \A j \in Inos : inode'[j].count = t1[j].count - Is(j, w)
  <2>1. t1[w].count > 0
    BY <1>6, <1>8, <1>9, <1>10 DEF Is
  <2> QED
    BY <1>4, <1>6, <1>10, <2>1, PutOne
<1>12. \A j \in Inos : inode'[j].count = Refs(file', pwd', j)
  <2>1. \A j \in Inos : Is(j, w) \in Nat /\ Is(j, i) \in Nat
    BY DEF Is
  <2> QED
    BY <1>8, <1>9, <1>10, <1>11, <2>1
<1>13. /\ file' \in [Files -> [count : Nat, ino : Inos]]
       /\ filp' \in [Procs -> [Fds -> Files \cup {0}]] /\ FileRefs(file', filp')
  BY <1>4, <1>5
<1>14. \A o \in Procs : pwd'[o] = 0 => \A d \in Fds : filp'[o][d] = 0
  <2>1. \A o \in Procs : pwd[o] = 0 => \A d \in Fds : filp[o][d] = 0
    BY DEF Inv, DeadHoldNothing, Alive
  <2>2. 0 \notin Inos
    BY FilesAssumption
  <2> QED
    BY <1>4, <1>6, <1>7, <2>1, <2>2
<1> QED
  BY <1>7, <1>11, <1>12, <1>13, <1>14, InvNext

(* A file is opened on the inode i.                                        *)
LEMMA OpenedRefs ==
    ASSUME Inv, NEW p \in Procs, CanOpen(p), NEW i \in Inos, Opened(p, i)
    PROVE  /\ file' \in [Files -> [count : Nat, ino : Inos]] /\ pwd' = pwd
           /\ filp' \in [Procs -> [Fds -> Files \cup {0}]] /\ FileRefs(file', filp')
           /\ \A q \in Procs : pwd'[q] = 0 => \A d \in Fds : filp'[q][d] = 0
           /\ \A j \in Inos : Refs(file', pwd', j) = Refs(file, pwd, j) + Is(j, i)
           /\ \A j \in Inos : Refs(file, pwd, j) \in Nat
<1>1. PICK f : f = Min(FreeFiles)
  OBVIOUS
<1>2. PICK fd : fd = Min(FreeFds(p))
  OBVIOUS
<1>3. /\ file' = [file EXCEPT ![f] = [count |-> 1, ino |-> i]]
      /\ filp' = [filp EXCEPT ![p][fd] = f] /\ pwd' = pwd /\ pwd[p] # 0
  BY <1>1, <1>2 DEF Opened, CanOpen, Alive
<1>4. /\ filp \in [Procs -> [Fds -> Files \cup {0}]]
      /\ file \in [Files -> [count : Nat, ino : Inos]] /\ FileRefs(file, filp)
  BY InvIs
<1>5. f \in Files /\ file[f].count = 0
  <2>1. PICK S : S = FreeFiles
    OBVIOUS
  <2>2. S \subseteq Nat /\ S # {}
    BY <2>1, FilesAssumption DEF FreeFiles, CanOpen
  <2>3. f \in S
    BY <1>1, <2>1, <2>2, MinIsLeast
  <2> QED
    BY <2>1, <2>3 DEF FreeFiles
<1>6. fd \in Fds /\ filp[p][fd] = 0
  <2>1. PICK S : S = FreeFds(p)
    OBVIOUS
  <2>2. S \subseteq Nat /\ S # {}
    BY <2>1, FilesAssumption DEF FreeFds, CanOpen
  <2>3. fd \in S
    BY <1>2, <2>1, <2>2, MinIsLeast
  <2> QED
    BY <2>1, <2>3 DEF FreeFds
<1>7. PICK fl : fl = file'
  OBVIOUS
<1>8. PICK fp : fp = filp'
  OBVIOUS
<1>9. /\ fl \in [Files -> [count : Nat, ino : Inos]] /\ fl[f].count = 1 /\ fl[f].ino = i
      /\ \A g \in Files : g # f => fl[g] = file[g]
  BY <1>3, <1>4, <1>5, <1>7
<1>10. /\ fp \in [Procs -> [Fds -> Files \cup {0}]] /\ fp[p][fd] = f
       /\ \A q \in Procs, d \in Fds : q # p \/ d # fd => fp[q][d] = filp[q][d]
       /\ \A q \in Procs : q # p => fp[q] = filp[q]
  BY <1>3, <1>4, <1>5, <1>6, <1>8
<1>11. FileRefs(fl, fp)
  <2>1. /\ FileRefs(file, filp) /\ filp[p][fd] = 0 /\ f \in Files /\ fd \in Fds
        /\ fl[f].count = file[f].count + 1 /\ fp[p][fd] = f
        /\ \A g \in Files : g # f => fl[g].count = file[g].count
        /\ \A q \in Procs, d \in Fds : q # p \/ d # fd => fp[q][d] = filp[q][d]
    BY <1>4, <1>5, <1>6, <1>9, <1>10
  <2> QED
    BY <2>1, DescriptorTaken
<1>12. ASSUME NEW j \in Inos
       PROVE  /\ Refs(fl, pwd, j) = Refs(file, pwd, j) + Is(j, i)
              /\ Refs(file, pwd, j) \in Nat
  <2>1. PICK S : S = Files
    OBVIOUS
  <2>2. PICK m : m = Opens(file)
    OBVIOUS
  <2>3. PICK n : n = Opens(fl)
    OBVIOUS
  <2>4. IsFiniteSet(S) /\ f \in S /\ m[f] = 0 /\ n[f] = i /\ \A g \in S : g # f => n[g] = m[g]
    BY <1>5, <1>9, <2>1, <2>2, <2>3, Finite DEF Opens
  <2>5. /\ Cardinality(Where(n, S, j)) = Cardinality(Where(m, S, j)) - Is(m[f], j) + Is(n[f], j)
        /\ Cardinality(Where(m, S, j)) \in Nat
    <3>1. IsFiniteSet(S) /\ SameBut(m, n, S, f)
      BY <2>4 DEF SameBut
    <3> QED
      BY <3>1, OneChange
  <2>6. Is(m[f], j) = 0 /\ Is(n[f], j) = Is(j, i) /\ Is(j, i) \in Nat
    BY <2>4, FilesAssumption DEF Is
  <2>7. OpenCount(fl, j) = OpenCount(file, j) + Is(j, i)
    BY <2>1, <2>2, <2>3, <2>5, <2>6 DEF OpenCount
  <2>8. OpenCount(file, j) \in Nat /\ WorkCount(pwd, j) \in Nat /\ RootCount(pwd, j) \in Nat
    BY CountsNat
  <2> QED
    BY <2>6, <2>7, <2>8 DEF Refs
<1>13. \A q \in Procs : pwd'[q] = 0 => \A d \in Fds : filp'[q][d] = 0
  <2>1. \A q \in Procs : pwd[q] = 0 => \A d \in Fds : filp[q][d] = 0
    BY DEF Inv, DeadHoldNothing, Alive
  <2> QED
    BY <1>3, <1>8, <1>10, <2>1
<1> QED
  BY <1>3, <1>7, <1>8, <1>9, <1>10, <1>11, <1>12, <1>13

(* Opening gives the inode one reference more.                             *)
LEMMA OpenedNext ==
    ASSUME Inv, NEW p \in Procs, CanOpen(p), NEW i \in Inos, Opened(p, i),
           inode' \in [Inos -> Recs], Tree(inode'), Exact(inode', imap', zmap'),
           \A j \in Inos : inode'[j].count = inode[j].count + Is(j, i)
    PROVE  Inv'
<1>1. /\ file' \in [Files -> [count : Nat, ino : Inos]] /\ pwd' = pwd
      /\ filp' \in [Procs -> [Fds -> Files \cup {0}]] /\ FileRefs(file', filp')
      /\ \A q \in Procs : pwd'[q] = 0 => \A d \in Fds : filp'[q][d] = 0
      /\ \A j \in Inos : Refs(file', pwd', j) = Refs(file, pwd, j) + Is(j, i)
  BY OpenedRefs
<1>2. \A j \in Inos : inode[j].count = Refs(file, pwd, j)
  BY InvIs DEF InodeRefs
<1>3. \A j \in Inos : inode'[j].count = Refs(file', pwd', j)
  BY <1>1, <1>2
<1>4. pwd' \in [Procs -> Inos \cup {0}]
  BY <1>1, InvIs
<1> QED
  BY <1>1, <1>3, <1>4, InvNext

(* The blocks of a file change.                                            *)
Rezoned(tab, new, i, z, zm, zm2) ==
    /\ new \in [Inos -> Recs]
    /\ \A j \in Inos : j # i => new[j] = tab[j]
    /\ new[i].kind = tab[i].kind /\ new[i].nlinks = tab[i].nlinks
    /\ new[i].count = tab[i].count /\ new[i].ents = tab[i].ents
    /\ new[i].zones = z /\ tab[i].kind # "dir"
    /\ MapWith(zm, tab[i].zones, z, zm2)

LEMMA RezonedKeeps ==
    ASSUME NEW tab, tab \in [Inos -> Recs], NEW im, NEW zm, Tree(tab), Exact(tab, im, zm),
           NEW i \in Inos, i \in im, NEW z, NEW zm2,
           NEW new, Rezoned(tab, new, i, z, zm, zm2)
    PROVE  /\ new \in [Inos -> Recs] /\ Tree(new) /\ Exact(new, im, zm2)
           /\ \A j \in Inos : new[j].count = tab[j].count
<1>1. /\ new \in [Inos -> Recs] /\ \A j \in Inos : j # i => new[j] = tab[j]
      /\ new[i].kind = tab[i].kind /\ new[i].nlinks = tab[i].nlinks
      /\ new[i].count = tab[i].count /\ new[i].ents = tab[i].ents
      /\ new[i].zones = z /\ tab[i].kind # "dir" /\ MapWith(zm, tab[i].zones, z, zm2)
  BY DEF Rezoned
<1>2. Tree(new)
  <2>1. PICK gone : gone = {}
    OBVIOUS
  <2>2. LinksKept(tab, new, gone)
    BY <1>1, <2>1 DEF LinksKept
  <2> QED
    BY <2>2, PutTree
<1>3. Exact(new, im \cup {i}, zm2)
  <2>1. new[i].nlinks > 0 \/ new[i].count > 0
    BY <1>1, InUse
  <2>2. tab[i].kind \in {"file", "dir"}
    BY DEF Exact
  <2>3. /\ OnlyAt(tab, new, i) /\ InOrder(new[i])
        /\ MapWith(zm, tab[i].zones, new[i].zones, zm2)
    BY <1>1, <2>1, <2>2 DEF OnlyAt, InOrder
  <2> QED
    BY <2>3, ExactAt
<1>4. im \cup {i} = im
  OBVIOUS
<1> QED
  BY <1>1, <1>2, <1>3, <1>4

LEMMA OpenOldKeeps ==
    ASSUME Inv, NEW p \in Procs, NEW path \in Paths, NEW flag, OpenOld(p, path, flag)
    PROVE  Inv'
<1>1. PICK i : i = namei(p, path)
  OBVIOUS
<1>2. PICK t1 : t1 = [inode EXCEPT ![i].count = @ + 1]
  OBVIOUS
<1>3. PICK t2 : t2 = [inode EXCEPT ![i].count = @ + 1, ![i].zones = {}]
  OBVIOUS
<1>4. /\ CanOpen(p) /\ Opened(p, i) /\ i # 0 /\ inode[i].nlinks > 0
      /\ inode[i].kind = "dir" => flag = "read"
      /\ flag = "trunc" => iput(t2, imap, zmap \ inode[i].zones, <<>>)
      /\ flag # "trunc" => iput(t1, imap, zmap, <<>>)
  BY <1>1, <1>2, <1>3 DEF OpenOld
<1>5. inode \in [Inos -> Recs] /\ Tree(inode) /\ Exact(inode, imap, zmap)
  BY InvIs
<1>6. i \in Inos
  BY <1>1, <1>4, <1>5, GotInode
<1>7. i \in imap
  BY <1>4, <1>5, <1>6, InUse
<1>8. OneMore(inode, t1, i)
  BY <1>2, <1>5, <1>6, OneMoreAt
<1>9. /\ t1 \in [Inos -> Recs] /\ Tree(t1) /\ Exact(t1, imap, zmap)
      /\ \A j \in Inos : t1[j].count = inode[j].count + Is(j, i)
  BY <1>5, <1>6, <1>7, <1>8, Referred
<1>10. /\ inode' \in [Inos -> Recs] /\ Tree(inode') /\ Exact(inode', imap', zmap')
       /\ \A j \in Inos : inode'[j].count = t1[j].count
  <2>1. CASE flag = "trunc"
    <3>1. t1[i].kind # "dir" /\ t1[i].zones = inode[i].zones
      BY <1>4, <1>8, <2>1 DEF OneMore
    <3>2. PICK zm : zm = zmap \ inode[i].zones
      OBVIOUS
    <3>3. MapWith(zmap, t1[i].zones, {}, zm)
      <4>1. MapWith(zmap, inode[i].zones, {}, zm)
        BY <3>2 DEF MapWith
      <4> QED
        BY <3>1, <4>1
    <3>4. Rezoned(t1, t2, i, {}, zmap, zm)
      <4>1. PICK E : E = Seq(Ent)
        OBVIOUS
      <4>2. PICK t : t = inode[i]
        OBVIOUS
      <4>3. PICK c : c = t.count + 1
        OBVIOUS
      <4>4. PICK u : u = t2[i]
        OBVIOUS
      <4>5. t \in [kind : {"free", "file", "dir", "new"}, nlinks : Nat, count : Nat,
                  zones : SUBSET Zones, ents : E]
        BY <1>5, <1>6, <4>1, <4>2 DEF Recs
      <4>6. u = [t EXCEPT !.count = c, !.zones = {}] /\ c \in Nat
        BY <1>3, <1>5, <1>6, <4>2, <4>3, <4>4, <4>5
      <4>7. u \in [kind : {"free", "file", "dir", "new"}, nlinks : Nat, count : Nat,
                  zones : SUBSET Zones, ents : E]
        BY <4>5, <4>6
      <4>8. /\ u.kind = t.kind /\ u.nlinks = t.nlinks /\ u.count = c
            /\ u.zones = {} /\ u.ents = t.ents
        BY <4>5, <4>6
      <4>9. DOMAIN t2 = Inos /\ t2 = [j \in Inos |-> t2[j]]
            /\ \A j \in Inos : j # i => t2[j] = inode[j]
        BY <1>3, <1>5
      <4>10. t2 \in [Inos -> Recs]
        BY <1>5, <4>1, <4>4, <4>7, <4>9 DEF Recs
      <4>11. /\ \A j \in Inos : j # i => t1[j] = inode[j]
             /\ t1[i].kind = t.kind /\ t1[i].nlinks = t.nlinks /\ t1[i].count = c
             /\ t1[i].ents = t.ents
        BY <1>8, <4>2, <4>3 DEF OneMore
      <4> QED
        BY <3>1, <3>3, <4>4, <4>8, <4>9, <4>10, <4>11 DEF Rezoned
    <3>5. /\ t2 \in [Inos -> Recs] /\ Tree(t2) /\ Exact(t2, imap, zm)
          /\ \A j \in Inos : t2[j].count = t1[j].count
      <4>1. PICK z : z = {}
        OBVIOUS
      <4>2. Rezoned(t1, t2, i, z, zmap, zm)
        BY <3>4, <4>1
      <4>3. t1 \in [Inos -> Recs] /\ Tree(t1) /\ Exact(t1, imap, zmap)
        BY <1>9
      <4> QED
        BY <1>6, <1>7, <4>2, <4>3, RezonedKeeps
    <3>6. iput(t2, imap, zm, <<>>)
      BY <1>4, <2>1, <3>2
    <3>7. /\ inode' \in [Inos -> Recs] /\ Tree(inode') /\ Exact(inode', imap', zmap')
          /\ \A j \in Inos : inode'[j].count = t2[j].count
      BY <3>5, <3>6, PutNothing
    <3> QED
      BY <3>5, <3>7
  <2>2. CASE flag # "trunc"
    BY <1>4, <1>9, <2>2, PutNothing
  <2> QED
    BY <2>1, <2>2
<1>11. \A j \in Inos : inode'[j].count = inode[j].count + Is(j, i)
  BY <1>9, <1>10
<1> QED
  BY <1>4, <1>6, <1>10, <1>11, OpenedNext

-----------------------------------------------------------------------------
(* Directories between the steps of a call: their shape, and one slot set. *)

Dotted(tab, d) ==
    /\ Len(tab[d].ents) \in 2..MaxEntries
    /\ tab[d].ents[1] = Entry(".", d)
    /\ tab[d].ents[2].name = ".." /\ tab[d].ents[2].ino # 0

Shaped(tab) == \A d \in Inos :
    /\ tab[d].kind = "dir" => Dotted(tab, d) /\ Unambiguous(tab, d)
    /\ tab[d].kind # "dir" => tab[d].ents = <<>>

Linked(tab) == \A i \in Inos : tab[i].nlinks = Named(tab, i)

Hung(tab, new, X) ==
    /\ X \subseteq Inos \ {Root} /\ new[Root].kind = "dir"
    /\ \A d \in Inos \ X : new[d].kind = "dir" =>
           /\ tab[d].kind = "dir" /\ new[d].ents[2].ino = tab[d].ents[2].ino
           /\ \A c \in Inos, j \in 3..MaxEntries : Ino(new, c, j) = d <=> Ino(tab, c, j) = d
    /\ \A d \in X : new[d].kind = "dir" => Hangs(new, d)

LEMMA TreeShaped ==
    ASSUME NEW tab, Tree(tab)
    PROVE  Shaped(tab) /\ Linked(tab)
  BY DEF Tree, Shaped, Linked, Named, Dots, Dotted

LEMMA ShapedTree ==
    ASSUME NEW tab, tab \in [Inos -> Recs], Tree(tab), NEW new, new \in [Inos -> Recs],
           Shaped(new), Linked(new), NEW X, Hung(tab, new, X)
    PROVE  Tree(new)
<1>1. ASSUME NEW d \in Inos, new[d].kind = "dir"
      PROVE  Dots(new, d) /\ Unambiguous(new, d)
  <2>1. Dotted(new, d) /\ Unambiguous(new, d)
    BY <1>1 DEF Shaped
  <2>2. Len(new[d].ents) \in 2..MaxEntries /\ new[d].ents[1] = Entry(".", d)
    BY <2>1 DEF Dotted
  <2>3. Named(new, d) > 0
    BY <2>2, DotCounts
  <2>4. new[d].nlinks > 0
    BY <2>3 DEF Linked
  <2> QED
    BY <2>1, <2>4 DEF Dots, Dotted
<1>2. Regrown(tab, new, X)
  BY <1>1 DEF Regrown, Hung, Linked, Shaped
<1> QED
  BY <1>2, TreeAfter

(* The slot k of the directory d becomes the entry e.                      *)
SlotSet(tab, new, d, k, e) ==
    /\ new \in [Inos -> Recs] /\ OnlyAt(tab, new, d)
    /\ new[d].kind = tab[d].kind /\ new[d].nlinks = tab[d].nlinks
    /\ new[d].count = tab[d].count
    /\ k \in 3..MaxEntries /\ Len(new[d].ents) \in 2..MaxEntries
    /\ DOMAIN new[d].ents = DOMAIN tab[d].ents \cup {k}
    /\ new[d].ents[k] = e
    /\ \A j \in DOMAIN tab[d].ents : j # k => new[d].ents[j] = tab[d].ents[j]

(* One place of the disk names i instead of old.                           *)
Turns(tab, d, k, e, old, i) == Ino(tab, d, k) = old /\ e.ino = i

DiskSet(tab, new, d, k, old, i) ==
    /\ \A c \in Inos, j \in 1..MaxEntries :
          Ino(new, c, j) = IF c = d /\ j = k THEN i ELSE Ino(tab, c, j)
    /\ \A x : Named(new, x) = Named(tab, x) - Is(old, x) + Is(i, x)

LEMMA SetDisk ==
    ASSUME NEW tab, NEW new, NEW d \in Inos, NEW k, NEW e, SlotSet(tab, new, d, k, e),
           NEW old, NEW i, Turns(tab, d, k, e, old, i)
    PROVE  DiskSet(tab, new, d, k, old, i)
<1>1. k \in 1..MaxEntries
  BY FilesAssumption DEF SlotSet
<1>2. EntSet(tab, new, d, k, e)
  BY <1>1 DEF SlotSet, OnlyAt, EntSet
<1>3. /\ \A c \in Inos, j \in 1..MaxEntries :
            Ino(new, c, j) = IF c = d /\ j = k THEN e.ino ELSE Ino(tab, c, j)
      /\ \A x : Named(new, x) = Named(tab, x) - Is(Ino(tab, d, k), x) + Is(e.ino, x)
  BY <1>2, SlotChanged
<1> QED
  BY <1>3 DEF DiskSet, Turns

(* No other entry has the name of e, unless e is none.                     *)
NewName(tab, d, k, e) ==
    e.ino = 0 \/ \A j \in DOMAIN tab[d].ents :
                    j # k /\ tab[d].ents[j].ino # 0 => tab[d].ents[j].name # e.name

LEMMA SetShaped ==
    ASSUME NEW tab, tab \in [Inos -> Recs], Shaped(tab), NEW new, NEW d \in Inos,
           tab[d].kind = "dir", NEW k, NEW e, SlotSet(tab, new, d, k, e), NewName(tab, d, k, e)
    PROVE  Shaped(new) /\ new[d].ents[2].ino = tab[d].ents[2].ino
<1>1. /\ OnlyAt(tab, new, d) /\ new[d].kind = "dir"
      /\ k \in 3..MaxEntries /\ Len(new[d].ents) \in 2..MaxEntries
      /\ DOMAIN new[d].ents = DOMAIN tab[d].ents \cup {k}
      /\ new[d].ents[k] = e
      /\ \A j \in DOMAIN tab[d].ents : j # k => new[d].ents[j] = tab[d].ents[j]
  BY DEF SlotSet
<1>2. Dotted(tab, d) /\ Unambiguous(tab, d)
  BY DEF Shaped
<1>3. 1 \in DOMAIN tab[d].ents /\ 2 \in DOMAIN tab[d].ents /\ k # 1 /\ k # 2
  <2>1. tab[d].ents \in Seq(Ent)
    BY DEF Recs
  <2>2. Len(tab[d].ents) \in 2..MaxEntries
    BY <1>2 DEF Dotted
  <2> QED
    BY <1>1, <2>1, <2>2, FilesAssumption
<1>4. new[d].ents[1] = tab[d].ents[1] /\ new[d].ents[2] = tab[d].ents[2]
  BY <1>1, <1>3
<1>5. Dotted(new, d)
  BY <1>1, <1>2, <1>4 DEF Dotted
<1>6. Unambiguous(new, d)
  <2> SUFFICES ASSUME NEW i \in DOMAIN new[d].ents, NEW j \in DOMAIN new[d].ents,
                      new[d].ents[i].ino # 0, new[d].ents[j].ino # 0,
                      new[d].ents[i].name = new[d].ents[j].name
               PROVE  i = j
    BY DEF Unambiguous
  <2>1. CASE i = k
    BY <1>1, <2>1 DEF NewName
  <2>2. CASE j = k
    BY <1>1, <2>2 DEF NewName
  <2>3. CASE i # k /\ j # k
    BY <1>1, <1>2, <2>3 DEF Unambiguous
  <2> QED
    BY <2>1, <2>2, <2>3
<1>7. ASSUME NEW c \in Inos, c # d
      PROVE  /\ new[c].kind = "dir" => Dotted(new, c) /\ Unambiguous(new, c)
             /\ new[c].kind # "dir" => new[c].ents = <<>>
  <2>1. new[c] = tab[c]
    BY <1>1, <1>7 DEF OnlyAt
  <2> QED
    BY <2>1 DEF Shaped, Dotted, Unambiguous
<1>8. Shaped(new)
  BY <1>1, <1>5, <1>6, <1>7 DEF Shaped
<1> QED
  BY <1>4, <1>8

(* Tables with the same kinds and slots.                                   *)
SlotsKept(tab, new) ==
    \A i \in Inos : new[i].kind = tab[i].kind /\ new[i].ents = tab[i].ents

LEMMA KeptShaped ==
    ASSUME NEW tab, NEW new, SlotsKept(tab, new)
    PROVE  /\ Shaped(tab) => Shaped(new)
           /\ \A c \in Inos : \A j : Ino(new, c, j) = Ino(tab, c, j)
           /\ \A i : Named(new, i) = Named(tab, i)
<1>1. \A c \in Inos : new[c].kind = tab[c].kind /\ new[c].ents = tab[c].ents
  BY DEF SlotsKept
<1>2. \A c \in Inos : \A j : Ino(new, c, j) = Ino(tab, c, j)
  BY <1>1 DEF Ino
<1>3. \A c \in Inos, j \in 1..MaxEntries : Ino(new, c, j) = Ino(tab, c, j)
  BY <1>2
<1>4. \A i : Named(new, i) = Named(tab, i)
  BY <1>3, SameDisk
<1>5. Shaped(tab) => Shaped(new)
  BY <1>1 DEF Shaped, Dotted, Unambiguous
<1> QED
  BY <1>2, <1>4, <1>5

(* The directory d takes the blocks zs for its slots.                      *)
Grown(tab, new, d, zm, zs) ==
    /\ new[d].zones = tab[d].zones \cup zs /\ zs \subseteq Zones \ zm /\ IsFiniteSet(zs)
    /\ Blocks(Len(new[d].ents)) = Blocks(Len(tab[d].ents)) + Cardinality(zs)

(* What add_entry does: a free slot, never "." or "..", takes the entry.   *)
LEMMA Added ==
    ASSUME NEW tab, tab \in [Inos -> Recs], NEW d \in Inos, Dotted(tab, d),
           NEW n \in Components, NEW i \in Inos, NEW zm, zm \subseteq Zones, CanAdd(tab, d, zm),
           Room(tab, d), NEW new, new = add_entry(tab, d, n, i, zm)
    PROVE  \E k \in 3..MaxEntries, zs \in SUBSET Zones :
               /\ SlotSet(tab, new, d, k, Entry(n, i)) /\ Ino(tab, d, k) = 0
               /\ Grown(tab, new, d, zm, zs) /\ MapAfter(tab, d, zm) = zm \cup zs
<1>1. PICK k \in 1..MaxEntries, zs \in SUBSET Zones :
           AddedTo(tab, new, d, k, Entry(n, i), zm, zs)
  BY AddedSlot
<1>2. Len(tab[d].ents) \in 2..MaxEntries
  BY DEF Dotted
<1>3. /\ new \in [Inos -> Recs] /\ \A c \in Inos : c # d => new[c] = tab[c]
      /\ new[d].kind = tab[d].kind /\ new[d].nlinks = tab[d].nlinks
      /\ new[d].count = tab[d].count
      /\ new[d].zones = tab[d].zones \cup zs /\ Len(new[d].ents) \in 2..MaxEntries
      /\ MapAfter(tab, d, zm) = zm \cup zs /\ zs \subseteq Zones \ zm
      /\ IsFiniteSet(zs)
      /\ Blocks(Len(new[d].ents)) = Blocks(Len(tab[d].ents)) + Cardinality(zs)
  BY <1>1 DEF AddedTo
<1>4. /\ Ino(tab, d, k) = 0 /\ DOMAIN new[d].ents = DOMAIN tab[d].ents \cup {k}
      /\ new[d].ents[k] = Entry(n, i)
      /\ \A j \in DOMAIN tab[d].ents : j # k => new[d].ents[j] = tab[d].ents[j]
  BY <1>1 DEF AddedTo
<1>5. k # 1 /\ k # 2
  <2>1. tab[d].ents \in Seq(Ent)
    BY DEF Recs
  <2>2. 1 \in DOMAIN tab[d].ents /\ 2 \in DOMAIN tab[d].ents
    BY <1>2, <2>1, FilesAssumption
  <2>3. tab[d].ents[1].ino # 0 /\ tab[d].ents[2].ino # 0
    BY FilesAssumption DEF Dotted, Entry
  <2> QED
    BY <1>4, <2>2, <2>3 DEF Ino
<1>6. k \in 3..MaxEntries
  BY <1>5, FilesAssumption
<1>7. SlotSet(tab, new, d, k, Entry(n, i))
  BY <1>3, <1>4, <1>6 DEF SlotSet, OnlyAt
<1>8. Grown(tab, new, d, zm, zs)
  BY <1>3 DEF Grown
<1> QED
  BY <1>3, <1>4, <1>6, <1>7, <1>8

LEMMA GrownExact ==
    ASSUME NEW tab, tab \in [Inos -> Recs], NEW im, NEW zm, Exact(tab, im, zm),
           NEW d \in Inos, d \in im, tab[d].kind = "dir", NEW new, NEW k, NEW e,
           SlotSet(tab, new, d, k, e), NEW zs, Grown(tab, new, d, zm, zs)
    PROVE  Exact(new, im, zm \cup zs)
<1>1. tab[d].zones \subseteq Zones /\ tab[d].zones \subseteq zm
  BY DEF Recs, Exact
<1>2. IsFiniteSet(tab[d].zones) /\ IsFiniteSet(zs)
  BY <1>1, Finite, FS_Subset DEF Grown
<1>3. tab[d].zones \cap zs = {} /\ new[d].zones = tab[d].zones \cup zs
  BY <1>1 DEF Grown
<1>4. Cardinality(new[d].zones) = Cardinality(tab[d].zones) + Cardinality(zs)
  <2>1. Cardinality(tab[d].zones \cap zs) = 0
    BY <1>3, FS_EmptySet
  <2>2. /\ Cardinality(tab[d].zones \cup zs) =
             Cardinality(tab[d].zones) + Cardinality(zs) - Cardinality(tab[d].zones \cap zs)
        /\ Cardinality(tab[d].zones) \in Nat /\ Cardinality(zs) \in Nat
    BY <1>2, FS_Union, FS_CardinalityType
  <2> QED
    BY <1>3, <2>1, <2>2
<1>5. Cardinality(tab[d].zones) = Blocks(Len(tab[d].ents))
  BY DEF Exact
<1>6. OnlyAt(tab, new, d) /\ InOrder(new[d])
  <2>1. new[d].nlinks > 0 \/ new[d].count > 0
    BY InUse DEF SlotSet
  <2>2. new[d].kind = "dir"
    BY DEF SlotSet
  <2>3. Cardinality(new[d].zones) = Blocks(Len(new[d].ents))
    BY <1>4, <1>5 DEF Grown
  <2> QED
    BY <2>1, <2>2, <2>3 DEF SlotSet, InOrder
<1>7. PICK zm2 : zm2 = zm \cup zs
  OBVIOUS
<1>8. MapWith(zm, tab[d].zones, new[d].zones, zm2)
  BY <1>1, <1>3, <1>7 DEF MapWith, Grown
<1>9. Exact(new, im \cup {d}, zm2)
  BY <1>6, <1>8, ExactAt
<1>10. im \cup {d} = im
  OBVIOUS
<1> QED
  BY <1>7, <1>9, <1>10

(* A slot that is in use is written.                                       *)
Written(tab, r, d, k, e) == k \in DOMAIN tab[d].ents /\ r = [tab EXCEPT ![d].ents[k] = e]

LEMMA Cleared ==
    ASSUME NEW tab, tab \in [Inos -> Recs], NEW d \in Inos, Dotted(tab, d),
           NEW k \in 3..MaxEntries, NEW e \in Ent, NEW r, Written(tab, r, d, k, e)
    PROVE  SlotSet(tab, r, d, k, e) /\ r[d].zones = tab[d].zones
           /\ Len(r[d].ents) = Len(tab[d].ents)
<1>1. /\ r \in [Inos -> Recs] /\ \A c \in Inos : c # d => r[c] = tab[c]
      /\ r[d].kind = tab[d].kind /\ r[d].nlinks = tab[d].nlinks
      /\ r[d].count = tab[d].count /\ r[d].zones = tab[d].zones
      /\ DOMAIN r[d].ents = DOMAIN tab[d].ents /\ Len(r[d].ents) = Len(tab[d].ents)
      /\ r[d].ents[k] = e
      /\ \A j \in DOMAIN tab[d].ents : j # k => r[d].ents[j] = tab[d].ents[j]
  BY RemovedSlot DEF Written
<1>2. DOMAIN tab[d].ents = DOMAIN tab[d].ents \cup {k}
  BY DEF Written
<1> QED
  BY <1>1, <1>2 DEF SlotSet, OnlyAt, Dotted

(* Inodes that stay in use or stay free, with the same blocks.             *)
BlocksKept(tab, new) == \A i \in Inos :
    /\ new[i].kind = tab[i].kind /\ new[i].zones = tab[i].zones
    /\ Len(new[i].ents) = Len(tab[i].ents)
    /\ (tab[i].nlinks > 0 \/ tab[i].count > 0) => (new[i].nlinks > 0 \/ new[i].count > 0)
    /\ ~(tab[i].nlinks > 0 \/ tab[i].count > 0) => new[i] = tab[i]

LEMMA BlocksExact ==
    ASSUME NEW tab, NEW im, NEW zm, Exact(tab, im, zm), NEW new, BlocksKept(tab, new)
    PROVE  Exact(new, im, zm)
<1>1. \A i \in Inos : /\ new[i].kind = tab[i].kind /\ new[i].zones = tab[i].zones
                      /\ Len(new[i].ents) = Len(tab[i].ents)
                      /\ (new[i].nlinks > 0 \/ new[i].count > 0)
                             <=> (tab[i].nlinks > 0 \/ tab[i].count > 0)
                      /\ ~(tab[i].nlinks > 0 \/ tab[i].count > 0) => new[i] = tab[i]
  BY DEF BlocksKept
<1>2. im = {i \in Inos : tab[i].nlinks > 0 \/ tab[i].count > 0}
  BY DEF Exact
<1>3. im = {i \in Inos : new[i].nlinks > 0 \/ new[i].count > 0}
  BY <1>1, <1>2
<1>4. zm = UNION {new[i].zones : i \in Inos}
  <2>1. zm = UNION {tab[i].zones : i \in Inos}
    BY DEF Exact
  <2> QED
    BY <1>1, <2>1
<1>5. \A i, j \in Inos : i # j => new[i].zones \cap new[j].zones = {}
  BY <1>1 DEF Exact
<1>6. \A i \in Inos \ im : new[i] = FreeInode
  BY <1>1, <1>2 DEF Exact
<1>7. \A i \in im : /\ new[i].kind \in {"file", "dir"}
                    /\ new[i].kind = "dir" =>
                          Cardinality(new[i].zones) = Blocks(Len(new[i].ents))
  BY <1>1, <1>2 DEF Exact
<1> QED
  BY <1>3, <1>4, <1>5, <1>6, <1>7 DEF Exact

-----------------------------------------------------------------------------
(* Inodes that are made and given back.                                    *)

LEMMA FreshInode ==
    ASSUME Inv, NEW i, i = FreeIno(imap), Inos \ imap # {}
    PROVE  /\ i \in Inos /\ i \notin imap /\ i # Root /\ inode[i] = FreeInode
           /\ Named(inode, i) = 0
<1>1. Tree(inode) /\ Exact(inode, imap, zmap)
  BY InvIs
<1>2. i \in Inos \ imap
  <2>1. PICK S : S = Inos \ imap
    OBVIOUS
  <2>2. S \subseteq Nat /\ S # {}
    BY <2>1, FilesAssumption
  <2>3. i \in S
    BY <2>1, <2>2, MinIsLeast DEF FreeIno
  <2> QED
    BY <2>1, <2>3
<1>3. inode[i] = FreeInode
  BY <1>1, <1>2 DEF Exact
<1>4. Named(inode, i) = 0
  BY <1>1, <1>2, <1>3, TreeShaped DEF Linked, FreeInode
<1>5. i # Root
  BY <1>1, <1>3 DEF Tree, FreeInode
<1> QED
  BY <1>2, <1>3, <1>4, <1>5

(* The last reference to an inode without links is put.                    *)
LEMMA PutLast ==
    ASSUME NEW tab, tab \in [Inos -> Recs], NEW i \in Inos, tab[i].nlinks = 0, tab[i].count = 1,
           NEW im, NEW zm, iput(tab, im, zm, <<i>>)
    PROVE  /\ inode' \in [Inos -> Recs] /\ inode'[i] = FreeInode /\ OnlyAt(tab, inode', i)
           /\ imap' = im \ {i} /\ zmap' = zm \ tab[i].zones
<1>1. PICK s : s = <<i>>
  OBVIOUS
<1>2. \A j : Puts(s, j) = IF j = i THEN 1 ELSE 0
  BY <1>1, PutsOne
<1>3. Unreferenced(tab, s) = {i}
  <2>1. Puts(s, i) = 1 /\ \A j \in Inos : j # i => Puts(s, j) = 0
    BY <1>2
  <2> QED
    BY <2>1 DEF Unreferenced
<1>4. /\ inode' = [j \in Inos |-> IF j \in {i} THEN FreeInode
                                  ELSE [tab[j] EXCEPT !.count = @ - Puts(s, j)]]
      /\ imap' = im \ {i} /\ zmap' = zm \ UNION {tab[j].zones : j \in {i}}
  <2>1. iput(tab, im, zm, s)
    BY <1>1
  <2> QED
    BY <1>3, <2>1 DEF iput
<1>5. ASSUME NEW j \in Inos, j # i
      PROVE  inode'[j] = tab[j]
  <2>1. PICK t : t = tab[j]
    OBVIOUS
  <2>2. PICK c : c = t.count
    OBVIOUS
  <2>3. t \in Recs /\ c \in Nat
    BY <2>1, <2>2 DEF Recs
  <2>4. inode'[j] = [t EXCEPT !.count = c - 0]
    BY <1>2, <1>4, <1>5, <2>1, <2>2
  <2>5. PICK r : r = inode'[j]
    OBVIOUS
  <2>6. r = [t EXCEPT !.count = c]
    BY <2>3, <2>4, <2>5
  <2>7. PICK E : E = Seq(Ent)
    OBVIOUS
  <2>8. t \in [kind : {"free", "file", "dir", "new"}, nlinks : Nat, count : Nat,
              zones : SUBSET Zones, ents : E]
    BY <2>3, <2>7 DEF Recs
  <2>9. r = t
    BY <2>2, <2>6, <2>8
  <2> QED
    BY <2>1, <2>5, <2>9
<1>6. inode'[i] = FreeInode /\ DOMAIN inode' = Inos
  BY <1>4
<1>7. FreeInode \in Recs
  BY EmptySeq DEF FreeInode, Recs
<1>8. inode' \in [Inos -> Recs]
  <2>1. \A j \in Inos : inode'[j] \in Recs
    BY <1>5, <1>6, <1>7
  <2>2. inode' = [j \in Inos |-> inode'[j]]
    BY <1>4
  <2> QED
    BY <2>1, <2>2
<1>9. zmap' = zm \ tab[i].zones
  BY <1>4
<1> QED
  BY <1>4, <1>5, <1>6, <1>8, <1>9 DEF OnlyAt

LEMMA GivenBack ==
    ASSUME Inv, Same, NEW i \in Inos, i \notin imap, NEW tab, tab \in [Inos -> Recs],
           OnlyAt(inode, tab, i), tab[i].nlinks = 0, tab[i].count = 1,
           NEW im, im = imap \cup {i}, NEW zm, zm \ tab[i].zones = zmap,
           iput(tab, im, zm, <<i>>)
    PROVE  Inv'
<1>1. inode \in [Inos -> Recs] /\ Tree(inode) /\ Exact(inode, imap, zmap)
  BY InvIs
<1>2. /\ inode' \in [Inos -> Recs] /\ inode'[i] = FreeInode /\ OnlyAt(tab, inode', i)
      /\ imap' = im \ {i} /\ zmap' = zm \ tab[i].zones
  BY PutLast
<1>3. inode[i] = FreeInode
  BY <1>1 DEF Exact
<1>4. \A j \in Inos : inode'[j] = inode[j]
  BY <1>2, <1>3 DEF OnlyAt
<1>5. inode' = inode
  BY <1>1, <1>2, <1>4
<1>6. imap' = imap /\ zmap' = zmap
  BY <1>2
<1>7. Tree(inode') /\ Exact(inode', imap', zmap')
  BY <1>1, <1>5, <1>6
<1> QED
  BY <1>2, <1>4, <1>7, SameNext

(* The inode that new_inode makes.                                         *)
MadeInode(tab, i, kind) ==
    /\ tab \in [Inos -> Recs] /\ OnlyAt(inode, tab, i)
    /\ tab[i].kind = kind /\ tab[i].nlinks = 1 /\ tab[i].count = 1
    /\ tab[i].zones = {} /\ tab[i].ents = <<>>

LEMMA NewInode ==
    ASSUME inode \in [Inos -> Recs], NEW i \in Inos, NEW kind \in {"file", "new"},
           NEW tab, tab = new_inode(inode, i, kind)
    PROVE  MadeInode(tab, i, kind)
<1>1. PICK r : r = [FreeInode EXCEPT !.kind = kind, !.nlinks = 1, !.count = 1]
  OBVIOUS
<1>2. /\ r.kind = kind /\ r.nlinks = 1 /\ r.count = 1 /\ r.zones = {} /\ r.ents = <<>>
      /\ r = [kind |-> kind, nlinks |-> 1, count |-> 1, zones |-> {}, ents |-> <<>>]
  BY <1>1 DEF FreeInode
<1>3. r \in Recs
  BY <1>2, EmptySeq DEF Recs
<1>4. tab = [inode EXCEPT ![i] = r]
  BY <1>1 DEF new_inode
<1> QED
  BY <1>2, <1>3, <1>4 DEF MadeInode, OnlyAt

(* Making it changes no slot.                                              *)
LEMMA MadeSlots ==
    ASSUME inode \in [Inos -> Recs], NEW i \in Inos, inode[i] = FreeInode, Shaped(inode),
           NEW kind \in {"file", "new"}, NEW tab, MadeInode(tab, i, kind)
    PROVE  /\ Shaped(tab)
           /\ \A c \in Inos : \A j : Ino(tab, c, j) = Ino(inode, c, j)
           /\ \A x : Named(tab, x) = Named(inode, x)
<1>1. inode[i].ents = <<>>
  BY DEF FreeInode
<1>2. \A c \in Inos : tab[c].ents = inode[c].ents
  BY <1>1 DEF MadeInode, OnlyAt
<1>3. \A c \in Inos : \A j : Ino(tab, c, j) = Ino(inode, c, j)
  BY <1>2 DEF Ino
<1>4. \A c \in Inos, j \in 1..MaxEntries : Ino(tab, c, j) = Ino(inode, c, j)
  BY <1>3
<1>5. \A x : Named(tab, x) = Named(inode, x)
  BY <1>4, SameDisk
<1>6. \A c \in Inos : c # i => tab[c] = inode[c]
  BY DEF MadeInode, OnlyAt
<1>7. tab[i].kind # "dir" /\ tab[i].ents = <<>>
  BY DEF MadeInode
<1>8. Shaped(tab)
  BY <1>6, <1>7 DEF Shaped, Dotted, Unambiguous
<1> QED
  BY <1>3, <1>5, <1>8

Absent(tab, d, n) == \A j \in DOMAIN tab[d].ents :
                        tab[d].ents[j].name = n => tab[d].ents[j].ino = 0

LEMMA EntryAdded ==
    ASSUME NEW tab, tab \in [Inos -> Recs], Shaped(tab), NEW im, NEW zm, Exact(tab, im, zm),
           NEW d \in Inos, d \in im, tab[d].kind = "dir", Room(tab, d),
           NEW n \in Components, Absent(tab, d, n), NEW i \in Inos, CanAdd(tab, d, zm),
           NEW new, new = add_entry(tab, d, n, i, zm), NEW zm2, zm2 = MapAfter(tab, d, zm)
    PROVE  \E k \in 3..MaxEntries :
               /\ SlotSet(tab, new, d, k, Entry(n, i)) /\ Ino(tab, d, k) = 0
               /\ Shaped(new) /\ Exact(new, im, zm2)
<1>1. zm \subseteq Zones
  <2>1. zm = UNION {tab[j].zones : j \in Inos}
    BY DEF Exact
  <2>2. \A j \in Inos : tab[j].zones \subseteq Zones
    BY DEF Recs
  <2> QED
    BY <2>1, <2>2
<1>2. Dotted(tab, d)
  BY DEF Shaped
<1>3. PICK k \in 3..MaxEntries, zs \in SUBSET Zones :
          /\ SlotSet(tab, new, d, k, Entry(n, i)) /\ Ino(tab, d, k) = 0
          /\ Grown(tab, new, d, zm, zs) /\ MapAfter(tab, d, zm) = zm \cup zs
  BY <1>1, <1>2, Added
<1>4. Exact(new, im, zm \cup zs)
  BY <1>3, GrownExact
<1>5. PICK e : e = Entry(n, i)
  OBVIOUS
<1>6. NewName(tab, d, k, e)
  BY <1>5 DEF NewName, Absent, Entry
<1>7. Shaped(new)
  BY <1>3, <1>5, <1>6, SetShaped
<1> QED
  BY <1>3, <1>4, <1>7

(* The room the caller has tested.                                         *)
LEMMA RoomIn ==
    ASSUME NEW d \in Inos, NEW tab, tab[d] = inode[d], Dotted(inode, d), Fits(d)
    PROVE  Room(tab, d)
<1>1. Holes(tab, d) = Holes(inode, d)
  BY DEF Holes
<1> QED
  BY <1>1 DEF Room, Fits, Dotted

LEMMA AbsentIn ==
    ASSUME Inv, NEW d \in Inos, inode[d].kind = "dir", NEW n, find_entry(d, n) = 0,
           NEW tab, tab[d] = inode[d]
    PROVE  Absent(tab, d, n)
<1>1. inode \in [Inos -> Recs] /\ Tree(inode)
  BY InvIs
<1>2. \A j \in DOMAIN inode[d].ents : inode[d].ents[j].name = n => inode[d].ents[j].ino = 0
  BY <1>1, NotFound
<1> QED
  BY <1>2 DEF Absent

LEMMA OpenNewKeeps ==
    ASSUME Inv, NEW p \in Procs, NEW path \in Paths, NEW flag, OpenNew(p, path, flag)
    PROVE  Inv'
<1>1. PICK d : d = dir_namei(p, path)
  OBVIOUS
<1>2. PICK i : i = FreeIno(imap)
  OBVIOUS
<1>3. PICK tab : tab = new_inode(inode, i, "file")
  OBVIOUS
<1>4. PICK n : n = basename(path)
  OBVIOUS
<1>5. PICK im : im = imap \cup {i}
  OBVIOUS
<1>6. /\ CanOpen(p) /\ d # 0 /\ Fits(d) /\ find_entry(d, n) = 0 /\ Inos \ imap # {}
      /\ CanAdd(tab, d, zmap) =>
            iput(add_entry(tab, d, n, i, zmap), im, MapAfter(tab, d, zmap), <<>>) /\ Opened(p, i)
      /\ ~CanAdd(tab, d, zmap) =>
            iput([tab EXCEPT ![i].nlinks = @ - 1], im, zmap, <<i>>) /\ Same
  BY <1>1, <1>2, <1>3, <1>4, <1>5 DEF OpenNew, Same
<1>7. inode \in [Inos -> Recs] /\ Tree(inode) /\ Exact(inode, imap, zmap)
  BY InvIs
<1>8. /\ i \in Inos /\ i \notin imap /\ i # Root /\ inode[i] = FreeInode /\ Named(inode, i) = 0
  BY <1>2, <1>6, FreshInode
<1>9. d \in Inos /\ inode[d].kind = "dir" /\ n \in Components
  BY <1>1, <1>4, <1>6, GotParent
<1>10. d \in imap /\ d # i
  BY <1>7, <1>8, <1>9, DirMarked
<1>11. MadeInode(tab, i, "file")
  BY <1>3, <1>7, <1>8, NewInode
<1>12. /\ tab \in [Inos -> Recs] /\ OnlyAt(inode, tab, i)
       /\ tab[i].kind = "file" /\ tab[i].nlinks = 1 /\ tab[i].count = 1
       /\ tab[i].zones = {} /\ tab[i].ents = <<>> /\ tab[d] = inode[d]
  BY <1>9, <1>10, <1>11 DEF MadeInode, OnlyAt
<1>13. CASE CanAdd(tab, d, zmap)
  <2>1. PICK new : new = add_entry(tab, d, n, i, zmap)
    OBVIOUS
  <2>2. PICK zm : zm = MapAfter(tab, d, zmap)
    OBVIOUS
  <2>3. iput(new, im, zm, <<>>) /\ Opened(p, i)
    BY <1>6, <1>13, <2>1, <2>2
  <2>4. Exact(tab, im, zmap)
    <3>1. InOrder(tab[i])
      BY <1>12 DEF InOrder
    <3>2. MapWith(zmap, inode[i].zones, tab[i].zones, zmap)
      BY <1>8, <1>12 DEF MapWith, FreeInode
    <3>3. Exact(tab, imap \cup {i}, zmap)
      BY <1>7, <1>8, <1>12, <3>1, <3>2, ExactAt
    <3> QED
      BY <1>5, <3>3
  <2>5. Shaped(inode) /\ Linked(inode)
    BY <1>7, TreeShaped
  <2>6. /\ Shaped(tab)
        /\ \A c \in Inos : \A j : Ino(tab, c, j) = Ino(inode, c, j)
        /\ \A x : Named(tab, x) = Named(inode, x)
    <3>1. PICK kind : kind = "file"
      OBVIOUS
    <3>2. MadeInode(tab, i, kind) /\ kind \in {"file", "new"}
      BY <1>11, <3>1
    <3> QED
      BY <1>7, <1>8, <2>5, <3>2, MadeSlots
  <2>7. Room(tab, d) /\ Absent(tab, d, n)
    <3>1. Dotted(inode, d)
      BY <1>9, <2>5 DEF Shaped
    <3> QED
      BY <1>6, <1>9, <1>12, <3>1, RoomIn, AbsentIn
  <2>8. d \in im /\ tab[d].kind = "dir"
    BY <1>5, <1>9, <1>10, <1>12
  <2>9. PICK k \in 3..MaxEntries :
            /\ SlotSet(tab, new, d, k, Entry(n, i)) /\ Ino(tab, d, k) = 0
            /\ Shaped(new) /\ Exact(new, im, zm)
    BY <1>8, <1>9, <1>12, <1>13, <2>1, <2>2, <2>4, <2>6, <2>7, <2>8, EntryAdded
  <2>10. PICK e : e = Entry(n, i)
    OBVIOUS
  <2>11. SlotSet(tab, new, d, k, e) /\ e.ino = i
    BY <2>9, <2>10 DEF Entry
  <2>12. /\ \A c \in Inos, j \in 1..MaxEntries :
                Ino(new, c, j) = IF c = d /\ j = k THEN i ELSE Ino(tab, c, j)
         /\ \A x : Named(new, x) = Named(tab, x) - Is(0, x) + Is(i, x)
    <3>1. PICK o : o = 0
      OBVIOUS
    <3>2. Turns(tab, d, k, e, o, i)
      BY <2>9, <2>11, <3>1 DEF Turns
    <3>3. SlotSet(tab, new, d, k, e)
      BY <2>11
    <3>4. DiskSet(tab, new, d, k, o, i)
      BY <1>9, <3>2, <3>3, SetDisk
    <3> QED
      BY <3>1, <3>4 DEF DiskSet
  <2>13. /\ new \in [Inos -> Recs] /\ OnlyAt(tab, new, d) /\ new[d].kind = tab[d].kind
         /\ new[d].nlinks = tab[d].nlinks /\ new[d].count = tab[d].count
    BY <2>11 DEF SlotSet
  <2>14. /\ \A x \in Inos : x # i => /\ new[x].kind = inode[x].kind
                                     /\ new[x].nlinks = inode[x].nlinks
                                     /\ new[x].count = inode[x].count
         /\ new[i].kind = "file" /\ new[i].nlinks = 1 /\ new[i].count = 1
    <3>1. new[i] = tab[i]
      BY <1>8, <1>10, <2>13 DEF OnlyAt
    <3>2. ASSUME NEW x \in Inos, x # i
          PROVE  /\ new[x].kind = inode[x].kind /\ new[x].nlinks = inode[x].nlinks
                 /\ new[x].count = inode[x].count
      <4>1. tab[x] = inode[x]
        BY <1>12, <3>2 DEF OnlyAt
      <4>2. CASE x = d
        BY <2>13, <4>1, <4>2
      <4>3. CASE x # d
        BY <2>13, <4>1, <4>3 DEF OnlyAt
      <4> QED
        BY <4>2, <4>3
    <3> QED
      BY <1>12, <3>1, <3>2
  <2>15. Linked(new)
    <3> SUFFICES ASSUME NEW x \in Inos PROVE new[x].nlinks = Named(new, x)
      BY DEF Linked
    <3>1. Named(new, x) = Named(inode, x) - Is(0, x) + Is(i, x) /\ Named(inode, x) \in Nat
      BY <2>6, <2>12, NamedNat
    <3>2. Is(0, x) = 0 /\ (x # i => Is(i, x) = 0) /\ (x = i => Is(i, x) = 1)
      BY FilesAssumption DEF Is
    <3>3. inode[x].nlinks = Named(inode, x)
      BY <2>5 DEF Linked
    <3> QED
      BY <1>8, <2>14, <3>1, <3>2, <3>3
  <2>16. Hung(inode, new, {})
    <3>1. Root # i /\ inode[Root].kind = "dir" /\ Root \in Inos
      BY <1>7, <1>8, FilesAssumption DEF Tree
    <3>2. ASSUME NEW c \in Inos, new[c].kind = "dir"
          PROVE  /\ inode[c].kind = "dir" /\ new[c].ents[2].ino = inode[c].ents[2].ino
                 /\ \A b \in Inos, j \in 3..MaxEntries : Ino(new, b, j) = c <=> Ino(inode, b, j) = c
      <4>1. c # i /\ inode[c].kind = "dir"
        BY <2>14, <3>2
      <4>2. new[c].ents[2].ino = inode[c].ents[2].ino
        <5>1. CASE c = d
          <6>1. NewName(tab, d, k, e)
            BY <2>7, <2>10 DEF NewName, Absent, Entry
          <6>2. new[d].ents[2].ino = tab[d].ents[2].ino
            BY <1>9, <1>12, <2>6, <2>8, <2>11, <6>1, SetShaped
          <6> QED
            BY <1>12, <5>1, <6>2
        <5>2. CASE c # d
          BY <1>12, <2>13, <4>1, <5>2 DEF OnlyAt
        <5> QED
          BY <5>1, <5>2
      <4>3. ASSUME NEW b \in Inos, NEW j \in 3..MaxEntries
            PROVE  Ino(new, b, j) = c <=> Ino(inode, b, j) = c
        <5>1. j \in 1..MaxEntries
          OBVIOUS
        <5>2. CASE b = d /\ j = k
          BY <2>6, <2>9, <2>12, <4>1, <5>1, <5>2, FilesAssumption
        <5>3. CASE ~(b = d /\ j = k)
          BY <2>6, <2>12, <5>1, <5>3
        <5> QED
          BY <5>2, <5>3
      <4> QED
        BY <4>1, <4>2, <4>3
    <3> QED
      BY <2>14, <3>1, <3>2 DEF Hung
  <2>17. Tree(new)
    BY <1>7, <2>9, <2>13, <2>15, <2>16, ShapedTree
  <2>18. /\ inode' \in [Inos -> Recs] /\ Tree(inode') /\ Exact(inode', imap', zmap')
         /\ \A j \in Inos : inode'[j].count = new[j].count
    BY <2>3, <2>9, <2>13, <2>17, PutNothing
  <2>19. \A j \in Inos : inode'[j].count = inode[j].count + Is(j, i)
    <3> SUFFICES ASSUME NEW j \in Inos PROVE new[j].count = inode[j].count + Is(j, i)
      BY <2>18
    <3>1. inode[j].count \in Nat /\ inode[i].count = 0
      BY <1>7, <1>8 DEF Recs, FreeInode
    <3> QED
      BY <2>14, <3>1 DEF Is
  <2> QED
    BY <1>6, <1>8, <2>3, <2>18, <2>19, OpenedNext
<1>14. CASE ~CanAdd(tab, d, zmap)
  <2>1. PICK new : new = [tab EXCEPT ![i].nlinks = 0]
    OBVIOUS
  <2>2. /\ new \in [Inos -> Recs] /\ \A j \in Inos : j # i => new[j] = tab[j]
        /\ new[i].nlinks = 0 /\ new[i].count = tab[i].count /\ new[i].zones = tab[i].zones
    <3>1. PICK z \in Nat : z = 0
      OBVIOUS
    <3>2. new = [tab EXCEPT ![i].nlinks = z]
      BY <2>1, <3>1
    <3>3. /\ new \in [Inos -> Recs] /\ \A j \in Inos : j # i => new[j] = tab[j]
          /\ new[i].nlinks = z /\ new[i].count = tab[i].count /\ new[i].zones = tab[i].zones
      BY <1>8, <1>12, <3>2, LinksAt
    <3> QED
      BY <3>1, <3>3
  <2>3. iput(new, im, zmap, <<i>>) /\ Same
    <3>1. new = [tab EXCEPT ![i].nlinks = @ - 1]
      BY <1>12, <2>1
    <3> QED
      BY <1>6, <1>14, <3>1
  <2>4. OnlyAt(inode, new, i) /\ new[i].count = 1 /\ zmap \ new[i].zones = zmap
    BY <1>12, <2>2 DEF OnlyAt
  <2> QED
    BY <1>5, <1>8, <2>2, <2>3, <2>4, GivenBack
<1> QED
  BY <1>13, <1>14

(* A file that exists is marked.                                           *)
LEMMA FileMarked ==
    ASSUME NEW tab, NEW im, NEW zm, Exact(tab, im, zm), NEW i \in Inos, tab[i].kind # "free"
    PROVE  i \in im
BY DEF Exact, FreeInode

LEMMA FileWriteKeeps ==
    ASSUME Inv, NEW p \in Procs, NEW fd \in Fds, file_write(p, fd)
    PROVE  Inv'
<1>1. PICK f : f = filp[p][fd]
  OBVIOUS
<1>2. PICK i : i = file[f].ino
  OBVIOUS
<1>3. PICK y : y = FreeZone(zmap)
  OBVIOUS
<1>4. PICK new : new = [inode EXCEPT ![i].zones = @ \cup {y}]
  OBVIOUS
<1>5. PICK zm : zm = zmap \cup {y}
  OBVIOUS
<1>6. /\ f # 0 /\ inode[i].kind = "file" /\ Zones \ zmap # {}
      /\ iput(new, imap, zm, <<>>) /\ Same
  <2>1. PICK o : o = {}
    OBVIOUS
  <2> QED
    BY <1>1, <1>2, <1>3, <1>4, <1>5, Zenon DEF file_write, Same
<1>7. inode \in [Inos -> Recs] /\ Tree(inode) /\ Exact(inode, imap, zmap)
  BY InvIs
<1>8. i \in Inos
  <2>1. /\ filp \in [Procs -> [Fds -> Files \cup {0}]]
        /\ file \in [Files -> [count : Nat, ino : Inos]]
    BY InvIs
  <2> QED
    BY <1>1, <1>2, <1>6, <2>1
<1>9. i \in imap
  BY <1>6, <1>7, <1>8, FileMarked
<1>10. y \in Zones \ zmap
  <2>1. PICK S : S = Zones \ zmap
    OBVIOUS
  <2>2. S \subseteq Nat /\ S # {}
    BY <1>6, <2>1, FilesAssumption
  <2>3. y \in S
    BY <1>3, <2>1, <2>2, MinIsLeast DEF FreeZone
  <2> QED
    BY <2>1, <2>3
<1>11. PICK z : z = inode[i].zones \cup {y}
  OBVIOUS
<1>12. MapWith(zmap, inode[i].zones, z, zm)
  <2>1. inode[i].zones \subseteq zmap
    BY <1>7, <1>8 DEF Exact
  <2>2. zm = (zmap \ inode[i].zones) \cup z
    BY <1>5, <1>11, <2>1
  <2>3. z \cap (zmap \ inode[i].zones) = {}
    BY <1>10, <1>11
  <2> QED
    BY <2>2, <2>3 DEF MapWith
<1>13. Rezoned(inode, new, i, z, zmap, zm)
  <2>1. PICK E : E = Seq(Ent)
    OBVIOUS
  <2>2. PICK t : t = inode[i]
    OBVIOUS
  <2>3. PICK u : u = new[i]
    OBVIOUS
  <2>4. t \in [kind : {"free", "file", "dir", "new"}, nlinks : Nat, count : Nat,
              zones : SUBSET Zones, ents : E]
    BY <1>7, <1>8, <2>1, <2>2 DEF Recs
  <2>5. u = [t EXCEPT !.zones = z]
    BY <1>4, <1>7, <1>8, <1>11, <2>2, <2>3
  <2>6. z \in SUBSET Zones
    BY <1>10, <1>11, <2>2, <2>4
  <2>7. u \in [kind : {"free", "file", "dir", "new"}, nlinks : Nat, count : Nat,
              zones : SUBSET Zones, ents : E]
    BY <2>4, <2>5, <2>6
  <2>8. /\ u.kind = t.kind /\ u.nlinks = t.nlinks /\ u.count = t.count
        /\ u.zones = z /\ u.ents = t.ents
    BY <2>4, <2>5
  <2>9. DOMAIN new = Inos /\ new = [j \in Inos |-> new[j]]
        /\ \A j \in Inos : j # i => new[j] = inode[j]
    BY <1>4, <1>7
  <2>10. new \in [Inos -> Recs]
    BY <1>7, <2>1, <2>3, <2>7, <2>9 DEF Recs
  <2> QED
    BY <1>6, <1>12, <2>2, <2>3, <2>8, <2>9, <2>10 DEF Rezoned
<1>14. /\ new \in [Inos -> Recs] /\ Tree(new) /\ Exact(new, imap, zm)
       /\ \A j \in Inos : new[j].count = inode[j].count
  BY <1>7, <1>8, <1>9, <1>13, RezonedKeeps
<1>15. /\ inode' \in [Inos -> Recs] /\ Tree(inode') /\ Exact(inode', imap', zmap')
       /\ \A j \in Inos : inode'[j].count = new[j].count
  BY <1>6, <1>14, PutNothing
<1>16. \A j \in Inos : inode'[j].count = inode[j].count
  BY <1>14, <1>15
<1> QED
  BY <1>6, <1>15, <1>16, SameNext

-----------------------------------------------------------------------------
(* Entries of files that are removed and moved.                            *)

(* The directories hang where they did.                                    *)
DirsKept(tab, new) ==
    /\ \A c \in Inos : /\ new[c].kind = tab[c].kind
                       /\ tab[c].kind = "dir" => new[c].ents[2].ino = tab[c].ents[2].ino
    /\ \A b, c \in Inos, j \in 3..MaxEntries :
          tab[c].kind = "dir" => (Ino(new, b, j) = c <=> Ino(tab, b, j) = c)

LEMMA DirsThrough ==
    ASSUME NEW t1, NEW t2, NEW t3, DirsKept(t1, t2), DirsKept(t2, t3)
    PROVE  DirsKept(t1, t3)
BY DEF DirsKept

LEMMA DirsTree ==
    ASSUME NEW tab, tab \in [Inos -> Recs], Tree(tab), NEW new, new \in [Inos -> Recs],
           Shaped(new), Linked(new), DirsKept(tab, new)
    PROVE  Tree(new)
<1>1. tab[Root].kind = "dir" /\ Root \in Inos
  BY FilesAssumption DEF Tree
<1>2. PICK X : X = {}
  OBVIOUS
<1>3. Hung(tab, new, X)
  <2>1. \A d \in Inos : new[d].kind = "dir" =>
            tab[d].kind = "dir" /\ new[d].ents[2].ino = tab[d].ents[2].ino
    BY DEF DirsKept
  <2>2. \A d \in Inos : new[d].kind = "dir" =>
            \A c \in Inos, j \in 3..MaxEntries : Ino(new, c, j) = d <=> Ino(tab, c, j) = d
    BY DEF DirsKept
  <2>3. new[Root].kind = "dir"
    BY <1>1 DEF DirsKept
  <2> QED
    BY <1>2, <2>1, <2>2, <2>3 DEF Hung
<1> QED
  BY <1>3, ShapedTree

LEMMA SlotsKeepDirs ==
    ASSUME NEW tab, NEW new, SlotsKept(tab, new)
    PROVE  DirsKept(tab, new)
BY DEF SlotsKept, DirsKept, Ino

(* A slot that named no directory and names none.                          *)
NoDir(tab, i) == i \in Inos => tab[i].kind # "dir"

LEMMA SetKeepsDirs ==
    ASSUME NEW tab, tab \in [Inos -> Recs], Shaped(tab), NEW new, NEW d \in Inos,
           tab[d].kind = "dir", NEW k, NEW e, SlotSet(tab, new, d, k, e), NewName(tab, d, k, e),
           NEW old, NEW i, Turns(tab, d, k, e, old, i), NoDir(tab, old), NoDir(tab, i)
    PROVE  DirsKept(tab, new)
<1>1. new[d].ents[2].ino = tab[d].ents[2].ino
  BY SetShaped
<1>2. \A c \in Inos, j \in 1..MaxEntries :
          Ino(new, c, j) = IF c = d /\ j = k THEN i ELSE Ino(tab, c, j)
  <2>1. DiskSet(tab, new, d, k, old, i)
    BY SetDisk
  <2> QED
    BY <2>1 DEF DiskSet
<1>3. \A c \in Inos : c # d => new[c] = tab[c]
  BY DEF SlotSet, OnlyAt
<1>4. new[d].kind = tab[d].kind
  BY DEF SlotSet
<1>5. \A c \in Inos : /\ new[c].kind = tab[c].kind
                      /\ tab[c].kind = "dir" => new[c].ents[2].ino = tab[c].ents[2].ino
  BY <1>1, <1>3, <1>4
<1>6. ASSUME NEW b \in Inos, NEW c \in Inos, NEW j \in 3..MaxEntries, tab[c].kind = "dir"
      PROVE  Ino(new, b, j) = c <=> Ino(tab, b, j) = c
  <2>1. j \in 1..MaxEntries
    OBVIOUS
  <2>2. CASE b = d /\ j = k
    <3>1. Ino(new, b, j) = i /\ Ino(tab, b, j) = old
      BY <1>2, <2>1, <2>2 DEF Turns
    <3>2. i # c /\ old # c
      BY <1>6 DEF NoDir
    <3> QED
      BY <3>1, <3>2
  <2>3. CASE ~(b = d /\ j = k)
    BY <1>2, <2>1, <2>3
  <2> QED
    BY <2>2, <2>3
<1> QED
  BY <1>5, <1>6 DEF DirsKept

(* The slot is written within the blocks the directory has.                *)
LEMMA SetExact ==
    ASSUME NEW tab, NEW im, NEW zm, Exact(tab, im, zm), NEW d \in Inos, d \in im,
           NEW new, NEW k, NEW e, SlotSet(tab, new, d, k, e),
           new[d].zones = tab[d].zones, Len(new[d].ents) = Len(tab[d].ents)
    PROVE  Exact(new, im, zm)
<1>1. tab[d].nlinks > 0 \/ tab[d].count > 0
  BY InUse
<1>2. /\ \A c \in Inos : c # d => new[c] = tab[c]
      /\ new[d].kind = tab[d].kind /\ new[d].nlinks = tab[d].nlinks
      /\ new[d].count = tab[d].count
  BY DEF SlotSet, OnlyAt
<1>3. BlocksKept(tab, new)
  <2>1. ASSUME NEW c \in Inos
        PROVE  /\ new[c].kind = tab[c].kind /\ new[c].zones = tab[c].zones
               /\ Len(new[c].ents) = Len(tab[c].ents)
               /\ new[c].nlinks = tab[c].nlinks /\ new[c].count = tab[c].count
               /\ ~(tab[c].nlinks > 0 \/ tab[c].count > 0) => new[c] = tab[c]
    <3>1. CASE c = d
      BY <1>1, <1>2, <3>1
    <3>2. CASE c # d
      BY <1>2, <3>2
    <3> QED
      BY <3>1, <3>2
  <2> QED
    BY <2>1 DEF BlocksKept
<1> QED
  BY <1>3, BlocksExact

(* The inode i has a link less, and one reference more while it is put.    *)
Dropped(tab, new, i) ==
    /\ new \in [Inos -> Recs] /\ OnlyAt(tab, new, i)
    /\ new[i].kind = tab[i].kind /\ new[i].nlinks = tab[i].nlinks - 1
    /\ new[i].count = tab[i].count + 1
    /\ new[i].zones = tab[i].zones /\ new[i].ents = tab[i].ents

LinkTaken(tab, new, i) == new = [tab EXCEPT ![i].nlinks = @ - 1, ![i].count = @ + 1]

LEMMA DroppedIs ==
    ASSUME NEW tab, tab \in [Inos -> Recs], NEW i \in Inos, tab[i].nlinks > 0,
           NEW new, LinkTaken(tab, new, i)
    PROVE  Dropped(tab, new, i)
<1> USE DEF LinkTaken
<1>1. PICK n : n = tab[i].nlinks - 1
  OBVIOUS
<1>2. PICK c : c = tab[i].count + 1
  OBVIOUS
<1>3. n \in Nat /\ c \in Nat
  BY <1>1, <1>2 DEF Recs
<1>4. BothSet(tab, new, i, n, c)
  BY <1>1, <1>2 DEF BothSet
<1>5. Recounted(tab, new, i, n, c)
  BY <1>3, <1>4, BothAt
<1> QED
  BY <1>1, <1>2, <1>5 DEF Dropped, OnlyAt, Recounted

LEMMA DroppedKeeps ==
    ASSUME NEW tab, tab \in [Inos -> Recs], NEW im, NEW zm, Exact(tab, im, zm), NEW i \in Inos,
           tab[i].nlinks > 0, NEW new, Dropped(tab, new, i)
    PROVE  /\ SlotsKept(tab, new) /\ Exact(new, im, zm)
           /\ \A j \in Inos : /\ new[j].nlinks = tab[j].nlinks - Is(j, i)
                              /\ new[j].count = tab[j].count + Is(j, i)
<1>1. /\ \A j \in Inos : j # i => new[j] = tab[j]
      /\ new[i].kind = tab[i].kind /\ new[i].nlinks = tab[i].nlinks - 1
      /\ new[i].count = tab[i].count + 1
      /\ new[i].zones = tab[i].zones /\ new[i].ents = tab[i].ents
  BY DEF Dropped, OnlyAt
<1>2. \A j \in Inos : tab[j].nlinks \in Nat /\ tab[j].count \in Nat
  BY DEF Recs
<1>3. SlotsKept(tab, new)
  BY <1>1 DEF SlotsKept
<1>4. BlocksKept(tab, new)
  BY <1>1, <1>2 DEF BlocksKept
<1>5. Exact(new, im, zm)
  BY <1>4, BlocksExact
<1>6. \A j \in Inos : /\ new[j].nlinks = tab[j].nlinks - Is(j, i)
                      /\ new[j].count = tab[j].count + Is(j, i)
  BY <1>1, <1>2 DEF Is
<1> QED
  BY <1>3, <1>5, <1>6

LEMMA HoleEnt == Hole \in Ent /\ Hole.ino = 0
<1>1. PICK s : s = ""
  OBVIOUS
<1>2. s \in Components
  BY <1>1 DEF Components
<1>3. Hole = [name |-> s, ino |-> 0]
  BY <1>1 DEF Hole, Entry
<1> QED
  BY <1>2, <1>3 DEF Ent

(* A slot that named the file i, or nothing, comes to name z.              *)
NamesFile(tab, d, k, i) ==
    /\ k \in 3..MaxEntries /\ k \in DOMAIN tab[d].ents
    /\ Ino(tab, d, k) = i /\ NoDir(tab, i)

Rewritten(tab, new, im, zm, d, k, i, z) ==
    /\ new \in [Inos -> Recs] /\ Shaped(new) /\ Exact(new, im, zm)
    /\ DirsKept(tab, new) /\ DiskSet(tab, new, d, k, i, z)
    /\ \A c \in Inos : new[c].nlinks = tab[c].nlinks /\ new[c].count = tab[c].count

LEMMA EntryWritten ==
    ASSUME NEW tab, tab \in [Inos -> Recs], NEW im, NEW zm, Shaped(tab), Exact(tab, im, zm),
           NEW d \in Inos, d \in im, tab[d].kind = "dir",
           NEW k, NEW i, NamesFile(tab, d, k, i), NEW e \in Ent, NewName(tab, d, k, e),
           NEW z, z = e.ino, NoDir(tab, z), NEW new, Written(tab, new, d, k, e)
    PROVE  Rewritten(tab, new, im, zm, d, k, i, z)
<1>1. Dotted(tab, d)
  BY DEF Shaped
<1>2. /\ SlotSet(tab, new, d, k, e) /\ new[d].zones = tab[d].zones
      /\ Len(new[d].ents) = Len(tab[d].ents)
  <2>1. k \in 3..MaxEntries
    BY DEF NamesFile
  <2> QED
    BY <1>1, <2>1, Cleared
<1>3. SlotSet(tab, new, d, k, e)
  BY <1>2
<1>4. Shaped(new)
  BY <1>3, SetShaped
<1>5. Turns(tab, d, k, e, i, z)
  BY DEF Turns, NamesFile
<1>6. DiskSet(tab, new, d, k, i, z)
  BY <1>3, <1>5, SetDisk
<1>7. DirsKept(tab, new)
  <2>1. NoDir(tab, i)
    BY DEF NamesFile
  <2> QED
    BY <1>3, <1>5, <2>1, SetKeepsDirs
<1>8. Exact(new, im, zm)
  BY <1>2, SetExact
<1>9. new \in [Inos -> Recs]
  BY <1>3 DEF SlotSet
<1>10. \A c \in Inos : new[c].nlinks = tab[c].nlinks /\ new[c].count = tab[c].count
  BY <1>3 DEF SlotSet, OnlyAt
<1> QED
  BY <1>4, <1>6, <1>7, <1>8, <1>9, <1>10 DEF Rewritten

LEMMA EntryCleared ==
    ASSUME NEW tab, tab \in [Inos -> Recs], NEW im, NEW zm, Shaped(tab), Exact(tab, im, zm),
           NEW d \in Inos, d \in im, tab[d].kind = "dir",
           NEW k, NEW i, NamesFile(tab, d, k, i), NEW new, new = Removed(tab, d, k)
    PROVE  /\ new \in [Inos -> Recs] /\ Shaped(new) /\ Exact(new, im, zm)
           /\ DirsKept(tab, new)
           /\ \A x : Named(new, x) = Named(tab, x) - Is(i, x) + Is(0, x)
           /\ \A c \in Inos : new[c].nlinks = tab[c].nlinks /\ new[c].count = tab[c].count
<1>1. PICK e : e = Hole
  OBVIOUS
<1>2. PICK z : z = 0
  OBVIOUS
<1>3. e \in Ent /\ z = e.ino
  BY <1>1, <1>2, HoleEnt
<1>4. Written(tab, new, d, k, e)
  BY <1>1 DEF Removed, Written, NamesFile
<1>5. NewName(tab, d, k, e) /\ NoDir(tab, z)
  BY <1>2, <1>3, FilesAssumption DEF NewName, NoDir
<1>6. Rewritten(tab, new, im, zm, d, k, i, z)
  BY <1>3, <1>4, <1>5, EntryWritten
<1> QED
  BY <1>2, <1>6 DEF Rewritten, DiskSet

(* The link that an entry was is taken off the inode, which is then put.   *)
LinkLess(tab, i) ==
    /\ tab \in [Inos -> Recs] /\ Shaped(tab) /\ Exact(tab, imap, zmap)
    /\ DirsKept(inode, tab)
    /\ \A x \in Inos : Named(tab, x) = Named(inode, x) - Is(i, x)
    /\ \A c \in Inos : tab[c].nlinks = inode[c].nlinks /\ tab[c].count = inode[c].count

LEMMA NamedLess ==
    ASSUME NEW tab, NEW new, NEW i, \A x : Named(new, x) = Named(tab, x) - Is(i, x) + Is(0, x)
    PROVE  \A x \in Inos : Named(new, x) = Named(tab, x) - Is(i, x)
<1> SUFFICES ASSUME NEW x \in Inos PROVE Named(new, x) = Named(tab, x) - Is(i, x)
  OBVIOUS
<1>1. Is(0, x) = 0 /\ Is(i, x) \in Nat
  BY FilesAssumption DEF Is
<1>2. Named(new, x) = Named(tab, x) - Is(i, x) + Is(0, x)
  OBVIOUS
<1>3. Named(tab, x) \in Nat
  BY NamedNat
<1> QED
  BY <1>1, <1>2, <1>3

LEMMA LinkDropped ==
    ASSUME Inv, Same, NEW i \in Inos, inode[i].nlinks > 0, NEW t1, LinkLess(t1, i),
           NEW t2, LinkTaken(t1, t2, i),
           iput(t2, imap, zmap, <<i>>)
    PROVE  Inv'
<1>1. inode \in [Inos -> Recs] /\ Tree(inode) /\ Exact(inode, imap, zmap)
  BY InvIs
<1>2. /\ t1 \in [Inos -> Recs] /\ Shaped(t1) /\ Exact(t1, imap, zmap)
      /\ DirsKept(inode, t1)
      /\ \A x \in Inos : Named(t1, x) = Named(inode, x) - Is(i, x)
      /\ \A c \in Inos : t1[c].nlinks = inode[c].nlinks /\ t1[c].count = inode[c].count
  BY DEF LinkLess
<1>3. t1[i].nlinks > 0
  BY <1>2
<1>4. Dropped(t1, t2, i)
  BY <1>2, <1>3, DroppedIs
<1>5. /\ SlotsKept(t1, t2) /\ Exact(t2, imap, zmap)
      /\ \A j \in Inos : /\ t2[j].nlinks = t1[j].nlinks - Is(j, i)
                         /\ t2[j].count = t1[j].count + Is(j, i)
  BY <1>2, <1>3, <1>4, DroppedKeeps
<1>6. t2 \in [Inos -> Recs]
  BY <1>4 DEF Dropped
<1>7. Shaped(t2) /\ \A x : Named(t2, x) = Named(t1, x)
  BY <1>2, <1>5, KeptShaped
<1>8. DirsKept(inode, t2)
  BY <1>2, <1>5, SlotsKeepDirs, DirsThrough
<1>9. Linked(t2)
  <2> SUFFICES ASSUME NEW x \in Inos PROVE t2[x].nlinks = Named(t2, x)
    BY DEF Linked
  <2>1. inode[x].nlinks = Named(inode, x)
    BY <1>1, TreeShaped DEF Linked
  <2>2. t2[x].nlinks = inode[x].nlinks - Is(x, i)
    BY <1>2, <1>5
  <2>3. Named(t2, x) = Named(inode, x) - Is(i, x)
    BY <1>2, <1>7
  <2>4. Is(x, i) = Is(i, x)
    BY DEF Is
  <2> QED
    BY <2>1, <2>2, <2>3, <2>4
<1>10. Tree(t2)
  BY <1>1, <1>6, <1>7, <1>8, <1>9, DirsTree
<1>11. inode[i].count \in Nat
  BY <1>1 DEF Recs
<1>12. t2[i].count > 0
  BY <1>2, <1>5, <1>11 DEF Is
<1>13. /\ inode' \in [Inos -> Recs] /\ Tree(inode') /\ Exact(inode', imap', zmap')
       /\ \A j \in Inos : inode'[j].count = t2[j].count - Is(j, i)
  BY <1>5, <1>6, <1>10, <1>12, PutOne
<1>14. \A j \in Inos : inode'[j].count = inode[j].count
  <2> SUFFICES ASSUME NEW j \in Inos PROVE inode'[j].count = inode[j].count
    OBVIOUS
  <2>1. inode'[j].count = t2[j].count - Is(j, i)
    BY <1>13
  <2>2. t2[j].count = inode[j].count + Is(j, i)
    BY <1>2, <1>5
  <2>3. inode[j].count \in Nat /\ Is(j, i) \in Nat
    BY <1>1 DEF Recs, Is
  <2> QED
    BY <2>1, <2>2, <2>3
<1> QED
  BY <1>13, <1>14, SameNext

LEMMA UnlinkKeeps ==
    ASSUME Inv, NEW p \in Procs, NEW path \in Paths, sys_unlink(p, path)
    PROVE  Inv'
<1>1. PICK d : d = dir_namei(p, path)
  OBVIOUS
<1>2. PICK n : n = basename(path)
  OBVIOUS
<1>3. PICK k : k = find_entry(d, n)
  OBVIOUS
<1>4. PICK i : i = lookup(d, n)
  OBVIOUS
<1>5. PICK t1 : t1 = Removed(inode, d, k)
  OBVIOUS
<1>6. PICK t2 : t2 = [t1 EXCEPT ![i].nlinks = @ - 1, ![i].count = @ + 1]
  OBVIOUS
<1>7. /\ d # 0 /\ k # 0 /\ inode[i].kind = "file"
      /\ iput(t2, imap, zmap, <<i>>) /\ Same
  BY <1>1, <1>2, <1>3, <1>4, <1>5, <1>6 DEF sys_unlink
<1>8. inode \in [Inos -> Recs] /\ Tree(inode) /\ Exact(inode, imap, zmap)
  BY InvIs
<1>9. d \in Inos /\ inode[d].kind = "dir"
  BY <1>1, <1>7, GotParent
<1>10. k \in DOMAIN inode[d].ents /\ inode[d].ents[k].ino = i /\ i \in Inos
  BY <1>3, <1>4, <1>7, <1>8, <1>9, Found
<1>11. k \in 3..MaxEntries /\ k \in 1..MaxEntries /\ Ino(inode, d, k) = i
  BY <1>7, <1>8, <1>9, <1>10, FirstSlotsNameDirs
<1>12. d \in imap
  BY <1>8, <1>9, DirMarked
<1>13. Shaped(inode) /\ Linked(inode)
  BY <1>8, TreeShaped
<1>14. /\ t1 \in [Inos -> Recs] /\ Shaped(t1) /\ Exact(t1, imap, zmap)
       /\ DirsKept(inode, t1)
       /\ \A x : Named(t1, x) = Named(inode, x) - Is(i, x) + Is(0, x)
       /\ \A c \in Inos : t1[c].nlinks = inode[c].nlinks /\ t1[c].count = inode[c].count
  <2>1. NamesFile(inode, d, k, i)
    BY <1>7, <1>10, <1>11 DEF NoDir, NamesFile
  <2> QED
    BY <1>5, <1>8, <1>9, <1>12, <1>13, <2>1, EntryCleared
<1>15. inode[i].nlinks > 0
  <2>1. Named(inode, i) > 0
    BY <1>9, <1>11, NamedSome
  <2> QED
    BY <1>10, <1>13, <2>1 DEF Linked
<1>16. LinkLess(t1, i)
  <2>1. \A x \in Inos : Named(t1, x) = Named(inode, x) - Is(i, x)
    BY <1>14, NamedLess
  <2> QED
    BY <1>14, <2>1 DEF LinkLess
<1>17. LinkTaken(t1, t2, i) /\ iput(t2, imap, zmap, <<i>>) /\ Same
  BY <1>6, <1>7 DEF LinkTaken
<1> QED
  BY <1>10, <1>15, <1>16, <1>17, LinkDropped

(* The old entry of a renamed file goes once the new one names it.         *)
Renamed(t1, zm, nd, k, old, src) ==
    /\ nd \in Inos /\ k \in 1..MaxEntries /\ old # src /\ Ino(inode, nd, k) = old
    /\ Rewritten(inode, t1, imap, zm, nd, k, old, src)

LEMMA OldEntryGone ==
    ASSUME Inv, NEW src \in Inos, NEW od \in Inos, inode[od].kind = "dir",
           NEW oe, NamesFile(inode, od, oe, src), NEW nd, NEW k, NEW old,
           NEW t1, NEW zm, Renamed(t1, zm, nd, k, old, src), NEW t2, t2 = Removed(t1, od, oe)
    PROVE  /\ t2 \in [Inos -> Recs] /\ Shaped(t2) /\ Exact(t2, imap, zm)
           /\ DirsKept(inode, t2)
           /\ \A x \in Inos : Named(t2, x) = Named(inode, x) - Is(old, x)
           /\ \A c \in Inos : t2[c].nlinks = inode[c].nlinks /\ t2[c].count = inode[c].count
<1>1. /\ nd \in Inos /\ k \in 1..MaxEntries /\ old # src /\ Ino(inode, nd, k) = old
      /\ Rewritten(inode, t1, imap, zm, nd, k, old, src)
  BY DEF Renamed
<1>2. /\ t1 \in [Inos -> Recs] /\ Shaped(t1) /\ Exact(t1, imap, zm)
      /\ DirsKept(inode, t1) /\ DiskSet(inode, t1, nd, k, old, src)
      /\ \A c \in Inos : t1[c].nlinks = inode[c].nlinks /\ t1[c].count = inode[c].count
  BY <1>1 DEF Rewritten
<1>3. /\ oe \in 3..MaxEntries /\ oe \in 1..MaxEntries
      /\ Ino(inode, od, oe) = src /\ NoDir(inode, src)
  BY DEF NamesFile
<1>4. Ino(t1, od, oe) = src
  <2>1. ~(od = nd /\ oe = k)
    BY <1>1, <1>3
  <2>2. Ino(t1, od, oe) = Ino(inode, od, oe)
    BY <1>2, <1>3, <2>1 DEF DiskSet
  <2> QED
    BY <1>3, <2>2
<1>5. oe \in DOMAIN t1[od].ents
  <2>1. src # 0
    BY FilesAssumption
  <2> QED
    BY <1>4, <2>1 DEF Ino
<1>6. t1[od].kind = "dir" /\ NoDir(t1, src)
  BY <1>2, <1>3 DEF DirsKept, NoDir
<1>7. NamesFile(t1, od, oe, src)
  BY <1>3, <1>4, <1>5, <1>6 DEF NamesFile
<1>8. od \in imap
  BY InvIs, DirMarked
<1>9. /\ t2 \in [Inos -> Recs] /\ Shaped(t2) /\ Exact(t2, imap, zm)
      /\ DirsKept(t1, t2)
      /\ \A x : Named(t2, x) = Named(t1, x) - Is(src, x) + Is(0, x)
      /\ \A c \in Inos : t2[c].nlinks = t1[c].nlinks /\ t2[c].count = t1[c].count
  BY <1>2, <1>6, <1>7, <1>8, EntryCleared
<1>10. DirsKept(inode, t2)
  BY <1>2, <1>9, DirsThrough
<1>11. ASSUME NEW x \in Inos
       PROVE  Named(t2, x) = Named(inode, x) - Is(old, x)
  <2>1. Named(t2, x) = Named(t1, x) - Is(src, x)
    BY <1>9, NamedLess
  <2>2. Named(t1, x) = Named(inode, x) - Is(old, x) + Is(src, x)
    BY <1>2 DEF DiskSet
  <2>3. Is(old, x) \in Nat /\ Is(src, x) \in Nat /\ Named(inode, x) \in Nat
    BY NamedNat DEF Is
  <2> QED
    BY <2>1, <2>2, <2>3
<1>12. \A c \in Inos : t2[c].nlinks = inode[c].nlinks /\ t2[c].count = inode[c].count
  BY <1>2, <1>9
<1> QED
  BY <1>9, <1>10, <1>11, <1>12

(* An entry that names a file is found beyond the first two slots.         *)
LEMMA FoundFile ==
    ASSUME Inv, NEW d \in Inos, inode[d].kind = "dir", NEW n, NEW k, k = find_entry(d, n), k # 0,
           NEW i, i = lookup(d, n), inode[i].kind = "file"
    PROVE  /\ i \in Inos /\ NamesFile(inode, d, k, i) /\ k \in 1..MaxEntries
           /\ inode[i].nlinks > 0
<1>1. inode \in [Inos -> Recs] /\ Tree(inode) /\ Exact(inode, imap, zmap)
  BY InvIs
<1>2. k \in DOMAIN inode[d].ents /\ inode[d].ents[k].ino = i /\ i \in Inos
  BY <1>1, Found
<1>3. k \in 3..MaxEntries /\ k \in 1..MaxEntries /\ Ino(inode, d, k) = i
  BY <1>1, <1>2, FirstSlotsNameDirs
<1>4. NamesFile(inode, d, k, i)
  BY <1>2, <1>3 DEF NamesFile, NoDir
<1>5. Named(inode, i) > 0
  BY <1>3, NamedSome
<1>6. inode[i].nlinks > 0
  BY <1>1, <1>2, <1>5, TreeShaped DEF Linked
<1> QED
  BY <1>2, <1>3, <1>4, <1>6

(* The new name was taken: its entry now names the source.                 *)
LEMMA EntryTaken ==
    ASSUME Inv, NEW d \in Inos, inode[d].kind = "dir", NEW k, NEW dst, NEW src \in Inos,
           NamesFile(inode, d, k, dst), dst \in Inos, NoDir(inode, src), dst # src,
           NEW t1, t1 = [inode EXCEPT ![d].ents[k].ino = src]
    PROVE  Renamed(t1, zmap, d, k, dst, src)
<1>1. inode \in [Inos -> Recs] /\ Tree(inode) /\ Exact(inode, imap, zmap)
  BY InvIs
<1>2. k \in 3..MaxEntries /\ k \in DOMAIN inode[d].ents /\ Ino(inode, d, k) = dst
  BY DEF NamesFile
<1>3. PICK es : es = inode[d].ents
  OBVIOUS
<1>4. es \in Seq(Ent) /\ k \in DOMAIN es
  BY <1>1, <1>2, <1>3 DEF Recs
<1>5. PICK o : o = es[k]
  OBVIOUS
<1>6. o \in Ent
  BY <1>4, <1>5
<1>7. PICK e : e = [o EXCEPT !.ino = src]
  OBVIOUS
<1>8. e \in Ent /\ e.ino = src /\ e.name = o.name
  BY <1>6, <1>7 DEF Ent
<1>9. Written(inode, t1, d, k, e)
  <2>1. t1 = [inode EXCEPT ![d].ents[k] = e]
    BY <1>1, <1>3, <1>5, <1>7
  <2> QED
    BY <1>2, <2>1 DEF Written
<1>10. NewName(inode, d, k, e)
  <2>1. Unambiguous(inode, d)
    BY <1>1 DEF Tree
  <2>2. inode[d].ents[k].ino # 0
    BY <1>2, FilesAssumption DEF Ino
  <2> QED
    BY <1>2, <1>3, <1>5, <1>8, <2>1, <2>2 DEF NewName, Unambiguous
<1>11. Shaped(inode) /\ d \in imap
  BY <1>1, TreeShaped, DirMarked
<1>12. Rewritten(inode, t1, imap, zmap, d, k, dst, src)
  BY <1>1, <1>8, <1>9, <1>10, <1>11, EntryWritten
<1> QED
  BY <1>2, <1>12 DEF Renamed

(* The new name was free: an entry is made for it.                         *)
LEMMA EntryMade ==
    ASSUME Inv, NEW d \in Inos, inode[d].kind = "dir", Fits(d), CanAdd(inode, d, zmap),
           NEW n \in Components, find_entry(d, n) = 0, NEW src \in Inos, NoDir(inode, src),
           NEW t1, t1 = add_entry(inode, d, n, src, zmap), NEW zm, zm = MapAfter(inode, d, zmap)
    PROVE  \E k \in 1..MaxEntries, z \in {0} : Renamed(t1, zm, d, k, z, src)
<1>1. inode \in [Inos -> Recs] /\ Tree(inode) /\ Exact(inode, imap, zmap)
  BY InvIs
<1>2. Shaped(inode) /\ d \in imap
  BY <1>1, TreeShaped, DirMarked
<1>3. Room(inode, d) /\ Absent(inode, d, n)
  <2>1. Dotted(inode, d)
    BY <1>2 DEF Shaped
  <2>2. Room(inode, d)
    BY <2>1, RoomIn
  <2>3. Absent(inode, d, n)
    BY AbsentIn
  <2> QED
    BY <2>2, <2>3
<1>4. PICK k \in 3..MaxEntries :
          /\ SlotSet(inode, t1, d, k, Entry(n, src)) /\ Ino(inode, d, k) = 0
          /\ Shaped(t1) /\ Exact(t1, imap, zm)
  BY <1>1, <1>2, <1>3, EntryAdded
<1>5. PICK e : e = Entry(n, src)
  OBVIOUS
<1>6. SlotSet(inode, t1, d, k, e) /\ e.ino = src /\ e.name = n
  BY <1>4, <1>5 DEF Entry
<1>7. PICK z : z = 0
  OBVIOUS
<1>8. Turns(inode, d, k, e, z, src) /\ NoDir(inode, z) /\ NewName(inode, d, k, e)
  BY <1>3, <1>4, <1>6, <1>7, FilesAssumption DEF Turns, NoDir, NewName, Absent
<1>9. DiskSet(inode, t1, d, k, z, src)
  BY <1>6, <1>8, SetDisk
<1>10. DirsKept(inode, t1)
  BY <1>1, <1>2, <1>6, <1>8, SetKeepsDirs
<1>11. /\ t1 \in [Inos -> Recs]
       /\ \A c \in Inos : t1[c].nlinks = inode[c].nlinks /\ t1[c].count = inode[c].count
  BY <1>6 DEF SlotSet, OnlyAt
<1>12. Rewritten(inode, t1, imap, zm, d, k, z, src)
  BY <1>4, <1>9, <1>10, <1>11 DEF Rewritten
<1>13. k \in 1..MaxEntries /\ z # src
  BY <1>7, FilesAssumption
<1>14. Renamed(t1, zm, d, k, z, src)
  BY <1>4, <1>7, <1>12, <1>13 DEF Renamed
<1> QED
  BY <1>7, <1>13, <1>14

LEMMA RenameKeeps ==
    ASSUME Inv, NEW p \in Procs, NEW old \in Paths, NEW new \in Paths, sys_rename(p, old, new)
    PROVE  Inv'
<1>1. PICK od : od = dir_namei(p, old)
  OBVIOUS
<1>2. PICK nd : nd = dir_namei(p, new)
  OBVIOUS
<1>3. PICK n : n = basename(new)
  OBVIOUS
<1>4. PICK o : o = basename(old)
  OBVIOUS
<1>5. PICK oe : oe = find_entry(od, o)
  OBVIOUS
<1>6. PICK ne : ne = find_entry(nd, n)
  OBVIOUS
<1>7. PICK src : src = lookup(od, o)
  OBVIOUS
<1>8. PICK dst : dst = lookup(nd, n)
  OBVIOUS
<1>9. PICK a1 : a1 = [inode EXCEPT ![nd].ents[ne].ino = src]
  OBVIOUS
<1>10. PICK a2 : a2 = Removed(a1, od, oe)
  OBVIOUS
<1>11. PICK a3 : LinkTaken(a2, a3, dst)
  BY DEF LinkTaken
<1>12. PICK b1 : b1 = add_entry(inode, nd, n, src, zmap)
  OBVIOUS
<1>13. PICK b2 : b2 = Removed(b1, od, oe)
  OBVIOUS
<1>14. PICK zm : zm = MapAfter(inode, nd, zmap)
  OBVIOUS
<1>15. /\ od # 0 /\ nd # 0 /\ oe # 0 /\ inode[src].kind = "file" /\ Same
       /\ \/ /\ ne # 0 /\ dst # src /\ inode[dst].kind = "file"
             /\ iput(a3, imap, zmap, <<dst>>)
          \/ /\ ne = 0 /\ Fits(nd) /\ CanAdd(inode, nd, zmap)
             /\ iput(b2, imap, zm, <<>>)
  BY <1>1, <1>2, <1>3, <1>4, <1>5, <1>6, <1>7, <1>8, <1>9, <1>10, <1>11, <1>12, <1>13, <1>14
     DEF sys_rename, LinkTaken
<1>16. inode \in [Inos -> Recs] /\ Tree(inode) /\ Exact(inode, imap, zmap)
  BY InvIs
<1>17. od \in Inos /\ inode[od].kind = "dir"
  BY <1>1, <1>15, GotParent
<1>18. nd \in Inos /\ inode[nd].kind = "dir" /\ n \in Components
  BY <1>2, <1>3, <1>15, GotParent
<1>19. src \in Inos /\ NamesFile(inode, od, oe, src) /\ NoDir(inode, src)
  <2>1. src \in Inos /\ NamesFile(inode, od, oe, src)
    BY <1>5, <1>7, <1>15, <1>17, FoundFile
  <2> QED
    BY <2>1 DEF NamesFile
<1>20. CASE /\ ne # 0 /\ dst # src /\ inode[dst].kind = "file"
            /\ iput(a3, imap, zmap, <<dst>>)
  <2>1. dst \in Inos /\ NamesFile(inode, nd, ne, dst) /\ inode[dst].nlinks > 0
    BY <1>6, <1>8, <1>18, <1>20, FoundFile
  <2>2. Renamed(a1, zmap, nd, ne, dst, src)
    BY <1>9, <1>18, <1>19, <1>20, <2>1, EntryTaken
  <2>3. /\ a2 \in [Inos -> Recs] /\ Shaped(a2) /\ Exact(a2, imap, zmap)
        /\ DirsKept(inode, a2)
        /\ \A x \in Inos : Named(a2, x) = Named(inode, x) - Is(dst, x)
        /\ \A c \in Inos : a2[c].nlinks = inode[c].nlinks /\ a2[c].count = inode[c].count
    BY <1>10, <1>17, <1>19, <2>2, OldEntryGone
  <2>4. LinkLess(a2, dst)
    BY <2>3 DEF LinkLess
  <2>5. iput(a3, imap, zmap, <<dst>>) /\ Same
    BY <1>15, <1>20
  <2> QED
    BY <1>11, <2>1, <2>4, <2>5, LinkDropped
<1>21. CASE /\ ne = 0 /\ Fits(nd) /\ CanAdd(inode, nd, zmap)
            /\ iput(b2, imap, zm, <<>>)
  <2>1. PICK k \in 1..MaxEntries, z \in {0} : Renamed(b1, zm, nd, k, z, src)
    BY <1>6, <1>12, <1>14, <1>18, <1>19, <1>21, EntryMade
  <2>2. /\ b2 \in [Inos -> Recs] /\ Shaped(b2) /\ Exact(b2, imap, zm)
        /\ DirsKept(inode, b2)
        /\ \A x \in Inos : Named(b2, x) = Named(inode, x) - Is(z, x)
        /\ \A c \in Inos : b2[c].nlinks = inode[c].nlinks /\ b2[c].count = inode[c].count
    BY <1>13, <1>17, <1>19, <2>1, OldEntryGone
  <2>3. Linked(b2)
    <3> SUFFICES ASSUME NEW x \in Inos PROVE b2[x].nlinks = Named(b2, x)
      BY DEF Linked
    <3>1. Is(z, x) = 0
      BY FilesAssumption DEF Is
    <3>2. b2[x].nlinks = Named(inode, x)
      BY <1>16, <2>2, TreeShaped DEF Linked
    <3>3. Named(inode, x) \in Nat
      BY NamedNat
    <3> QED
      BY <2>2, <3>1, <3>2, <3>3
  <2>4. Tree(b2)
    BY <1>16, <2>2, <2>3, DirsTree
  <2>5. /\ inode' \in [Inos -> Recs] /\ Tree(inode') /\ Exact(inode', imap', zmap')
        /\ \A j \in Inos : inode'[j].count = b2[j].count
    BY <1>21, <2>2, <2>4, PutNothing
  <2>6. \A j \in Inos : inode'[j].count = inode[j].count
    BY <2>2, <2>5
  <2> QED
    BY <1>15, <2>5, <2>6, SameNext
<1> QED
  BY <1>15, <1>20, <1>21

-----------------------------------------------------------------------------
(* A directory that is made: an inode with "." and "..".                   *)

NewDir(tab, i, z, d) ==
    /\ tab \in [Inos -> Recs] /\ OnlyAt(inode, tab, i)
    /\ tab[i].kind = "dir" /\ tab[i].nlinks = 2 /\ tab[i].count = 1 /\ tab[i].zones = {z}
    /\ Len(tab[i].ents) = 2 /\ DOMAIN tab[i].ents = 1..2
    /\ tab[i].ents[1] = Entry(".", i) /\ tab[i].ents[2] = Entry("..", d)

DirMade(bare, tab, i, z, d) ==
    tab = [bare EXCEPT ![i].kind = "dir", ![i].nlinks = 2, ![i].zones = {z},
                       ![i].ents = <<Entry(".", i), Entry("..", d)>>]

LEMMA NewDirMade ==
    ASSUME inode \in [Inos -> Recs], NEW i \in Inos, NEW bare, MadeInode(bare, i, "new"),
           NEW z \in Zones, NEW d \in Inos, NEW tab, DirMade(bare, tab, i, z, d)
    PROVE  NewDir(tab, i, z, d)
<1>1. PICK a : a = Entry(".", i)
  OBVIOUS
<1>2. PICK b : b = Entry("..", d)
  OBVIOUS
<1>3. a \in Ent /\ b \in Ent
  <2>1. PICK s : s = "."
    OBVIOUS
  <2>2. PICK t : t = ".."
    OBVIOUS
  <2>3. s \in Components /\ t \in Components
    BY <2>1, <2>2 DEF Components
  <2>4. a = [name |-> s, ino |-> i] /\ b = [name |-> t, ino |-> d]
    BY <1>1, <1>2, <2>1, <2>2 DEF Entry
  <2> QED
    BY <2>3, <2>4 DEF Ent
<1>4. PICK es : es = <<a, b>>
  OBVIOUS
<1>5. es \in Seq(Ent) /\ Len(es) = 2 /\ DOMAIN es = 1..2 /\ es[1] = a /\ es[2] = b
  BY <1>3, <1>4
<1>6. /\ bare \in [Inos -> Recs] /\ OnlyAt(inode, bare, i)
      /\ bare[i].nlinks = 1 /\ bare[i].count = 1
  BY DEF MadeInode
<1>7. PICK E : E = Seq(Ent)
  OBVIOUS
<1>8. PICK t : t = bare[i]
  OBVIOUS
<1>9. t \in [kind : {"free", "file", "dir", "new"}, nlinks : Nat, count : Nat,
            zones : SUBSET Zones, ents : E]
  BY <1>6, <1>7, <1>8 DEF Recs
<1>10. PICK u : u = [t EXCEPT !.kind = "dir", !.nlinks = 2, !.zones = {z}, !.ents = es]
  OBVIOUS
<1>11. es \in E
  BY <1>5, <1>7
<1>12. u \in [kind : {"free", "file", "dir", "new"}, nlinks : Nat, count : Nat,
            zones : SUBSET Zones, ents : E]
  BY <1>9, <1>10, <1>11
<1>13. /\ u.kind = "dir" /\ u.nlinks = 2 /\ u.count = t.count
       /\ u.zones = {z} /\ u.ents = es
  BY <1>9, <1>10
<1>14. tab = [bare EXCEPT ![i].kind = "dir", ![i].nlinks = 2, ![i].zones = {z},
                          ![i].ents = es]
  BY <1>1, <1>2, <1>4 DEF DirMade
<1>15. DOMAIN tab = Inos /\ tab = [j \in Inos |-> tab[j]] /\ tab[i] = u
       /\ \A j \in Inos : j # i => tab[j] = bare[j]
  BY <1>6, <1>8, <1>10, <1>14
<1>16. tab \in [Inos -> Recs]
  <2>1. u \in Recs
    BY <1>7, <1>12 DEF Recs
  <2> QED
    BY <1>6, <1>15, <2>1
<1>17. OnlyAt(inode, tab, i)
  BY <1>6, <1>15 DEF OnlyAt
<1> QED
  BY <1>1, <1>2, <1>5, <1>6, <1>8, <1>13, <1>15, <1>16, <1>17 DEF NewDir

(* The entries it names: itself and the directory above.                   *)
LEMMA NewDirNames ==
    ASSUME inode \in [Inos -> Recs], Shaped(inode), NEW i \in Inos, inode[i] = FreeInode,
           NEW z \in Zones, NEW d \in Inos, NEW tab, NewDir(tab, i, z, d)
    PROVE  /\ Shaped(tab)
           /\ \A c \in Inos, j \in 3..MaxEntries : Ino(tab, c, j) = Ino(inode, c, j)
           /\ \A x : Named(tab, x) = Named(inode, x) - Is(0, x) + Is(i, x)
                                                     - Is(0, x) + Is(d, x)
<1>1. /\ OnlyAt(inode, tab, i) /\ tab[i].kind = "dir"
      /\ Len(tab[i].ents) = 2 /\ DOMAIN tab[i].ents = 1..2
      /\ tab[i].ents[1] = Entry(".", i) /\ tab[i].ents[2] = Entry("..", d)
  BY DEF NewDir
<1>2. DOMAIN inode[i].ents = {}
  BY DEF FreeInode
<1>3. \A c \in Inos : c # i => tab[c] = inode[c]
  BY <1>1 DEF OnlyAt
<1>4. /\ Ino(tab, i, 1) = i /\ Ino(tab, i, 2) = d
      /\ Ino(inode, i, 1) = 0 /\ Ino(inode, i, 2) = 0
  BY <1>1, <1>2 DEF Ino, Entry
<1>5. ASSUME NEW c \in Inos, NEW j \in 1..MaxEntries, c # i \/ (j # 1 /\ j # 2)
      PROVE  Ino(tab, c, j) = Ino(inode, c, j)
  <2>1. CASE c # i
    BY <1>3, <2>1 DEF Ino
  <2>2. CASE c = i
    BY <1>1, <1>2, <1>5, <2>2 DEF Ino
  <2> QED
    BY <2>1, <2>2
<1>6. ASSUME NEW c \in Inos, NEW j \in 3..MaxEntries
      PROVE  Ino(tab, c, j) = Ino(inode, c, j)
  <2>1. j \in 1..MaxEntries /\ j # 1 /\ j # 2
    OBVIOUS
  <2> QED
    BY <1>5, <2>1
<1>7. ASSUME NEW x
      PROVE  Named(tab, x) = Named(inode, x) - Is(0, x) + Is(i, x) - Is(0, x) + Is(d, x)
  <2>1. PICK S : S = Places
    OBVIOUS
  <2>2. PICK m : m = Disk(inode)
    OBVIOUS
  <2>3. PICK n : n = Disk(tab)
    OBVIOUS
  <2>4. PICK a : a = <<i, 1>>
    OBVIOUS
  <2>5. PICK b : b = <<i, 2>>
    OBVIOUS
  <2>6. 1 \in 1..MaxEntries /\ 2 \in 1..MaxEntries
    BY FilesAssumption
  <2>7. IsFiniteSet(S) /\ a \in S /\ b \in S /\ a # b
    BY <2>1, <2>4, <2>5, <2>6, Finite DEF Places
  <2>8. m[a] = 0 /\ m[b] = 0 /\ n[a] = i /\ n[b] = d
    BY <1>4, <2>2, <2>3, <2>4, <2>5, <2>6, DiskAt
  <2>9. ASSUME NEW y \in S, y # a, y # b
        PROVE  n[y] = m[y]
    <3>1. PICK c \in Inos, j \in 1..MaxEntries : y = <<c, j>>
      BY <2>1 DEF Places
    <3>2. c # i \/ (j # 1 /\ j # 2)
      BY <2>4, <2>5, <2>9, <3>1
    <3>3. Ino(tab, c, j) = Ino(inode, c, j)
      BY <1>5, <3>2
    <3> QED
      BY <2>2, <2>3, <3>1, <3>3, DiskAt
  <2>10. Cardinality(Where(n, S, x)) = Cardinality(Where(m, S, x))
             - Is(m[a], x) + Is(n[a], x) - Is(m[b], x) + Is(n[b], x)
    <3>1. SameButTwo(m, n, S, a, b)
      BY <2>7, <2>9 DEF SameButTwo
    <3> QED
      BY <2>7, <3>1, TwoChanges
  <2> QED
    BY <2>1, <2>2, <2>3, <2>8, <2>10 DEF Named
<1>8. Dotted(tab, i)
  BY <1>1, FilesAssumption DEF Dotted, Entry
<1>9. Unambiguous(tab, i)
  <2>1. tab[i].ents[1].name # tab[i].ents[2].name
    BY <1>1 DEF Entry
  <2> QED
    BY <1>1, <2>1 DEF Unambiguous
<1>10. ASSUME NEW c \in Inos, c # i
       PROVE  /\ tab[c].kind = "dir" => Dotted(tab, c) /\ Unambiguous(tab, c)
              /\ tab[c].kind # "dir" => tab[c].ents = <<>>
  <2>1. tab[c] = inode[c]
    BY <1>3, <1>10
  <2> QED
    BY <2>1 DEF Shaped, Dotted, Unambiguous
<1>11. Shaped(tab)
  BY <1>1, <1>8, <1>9, <1>10 DEF Shaped
<1> QED
  BY <1>6, <1>7, <1>11

LEMMA NewDirExact ==
    ASSUME inode \in [Inos -> Recs], Exact(inode, imap, zmap), NEW i \in Inos,
           inode[i] = FreeInode, NEW z \in Zones \ zmap, NEW d, NEW tab, NewDir(tab, i, z, d),
           NEW im, im = imap \cup {i}, NEW zm, zm = zmap \cup {z}
    PROVE  Exact(tab, im, zm)
<1>1. /\ OnlyAt(inode, tab, i) /\ tab[i].kind = "dir" /\ tab[i].nlinks = 2
      /\ Len(tab[i].ents) = 2 /\ tab[i].zones = {z}
  BY DEF NewDir
<1>2. InOrder(tab[i])
  <2>1. Cardinality({z}) = 1
    BY FS_Singleton
  <2>2. Cardinality(tab[i].zones) = Blocks(Len(tab[i].ents))
    BY <1>1, <2>1, BlocksTwo
  <2> QED
    BY <1>1, <2>2 DEF InOrder
<1>3. MapWith(zmap, inode[i].zones, tab[i].zones, zm)
  BY <1>1 DEF MapWith, FreeInode
<1>4. Exact(tab, imap \cup {i}, zm)
  BY <1>1, <1>2, <1>3, ExactAt
<1> QED
  BY <1>4

(* A directory gets one link more.                                         *)
LinkGained(tab, new, d) == new = [tab EXCEPT ![d].nlinks = @ + 1]

LEMMA LinkGainedKeeps ==
    ASSUME NEW tab, tab \in [Inos -> Recs], NEW im, NEW zm, Exact(tab, im, zm), NEW d \in Inos,
           tab[d].nlinks > 0, NEW new, LinkGained(tab, new, d)
    PROVE  /\ new \in [Inos -> Recs] /\ SlotsKept(tab, new) /\ Exact(new, im, zm)
           /\ \A j \in Inos : /\ new[j].nlinks = tab[j].nlinks + Is(j, d)
                              /\ new[j].count = tab[j].count
<1>1. PICK n : n = tab[d].nlinks + 1
  OBVIOUS
<1>2. PICK c : c = tab[d].count
  OBVIOUS
<1>3. n \in Nat /\ c \in Nat
  BY <1>1, <1>2 DEF Recs
<1>4. new = [tab EXCEPT ![d].nlinks = n]
  BY <1>1 DEF LinkGained
<1>5. /\ new \in [Inos -> Recs] /\ \A j \in Inos : j # d => new[j] = tab[j]
      /\ new[d].kind = tab[d].kind /\ new[d].nlinks = n /\ new[d].count = tab[d].count
      /\ new[d].zones = tab[d].zones /\ new[d].ents = tab[d].ents
  BY <1>3, <1>4, LinksAt
<1>6. \A j \in Inos : tab[j].nlinks \in Nat /\ tab[j].count \in Nat
  BY DEF Recs
<1>7. SlotsKept(tab, new)
  BY <1>5 DEF SlotsKept
<1>8. BlocksKept(tab, new)
  <2>1. ASSUME NEW j \in Inos
        PROVE  /\ new[j].kind = tab[j].kind /\ new[j].zones = tab[j].zones
               /\ Len(new[j].ents) = Len(tab[j].ents)
               /\ new[j].nlinks >= tab[j].nlinks /\ new[j].count = tab[j].count
               /\ ~(tab[j].nlinks > 0 \/ tab[j].count > 0) => new[j] = tab[j]
    <3>1. CASE j = d
      BY <1>1, <1>5, <1>6, <3>1
    <3>2. CASE j # d
      BY <1>5, <1>6, <3>2
    <3> QED
      BY <3>1, <3>2
  <2>2. \A j \in Inos : new[j].nlinks \in Nat
    BY <1>5 DEF Recs
  <2> QED
    BY <1>6, <2>1, <2>2 DEF BlocksKept
<1>9. Exact(new, im, zm)
  BY <1>8, BlocksExact
<1>10. \A j \in Inos : /\ new[j].nlinks = tab[j].nlinks + Is(j, d)
                       /\ new[j].count = tab[j].count
  BY <1>1, <1>5, <1>6 DEF Is
<1> QED
  BY <1>5, <1>7, <1>9, <1>10

(* The new directory enters the tree.                                      *)
Unused(i) == /\ i \in Inos /\ i \notin imap /\ i # Root /\ inode[i] = FreeInode
             /\ Named(inode, i) = 0

Entered(i, d, n, z, made, im, zm, tab, zm2) ==
    /\ z \in Zones \ zmap /\ im = imap \cup {i} /\ zm = zmap \cup {z}
    /\ Fits(d) /\ find_entry(d, n) = 0 /\ CanAdd(made, d, zm)
    /\ tab = add_entry(made, d, n, i, zm) /\ zm2 = MapAfter(made, d, zm)

LEMMA DirEntered ==
    ASSUME Inv, NEW i \in Inos, Unused(i), NEW d \in Inos, inode[d].kind = "dir",
           NEW n \in Components, NEW z, NEW made, NewDir(made, i, z, d),
           NEW im, NEW zm, NEW tab, NEW zm2, Entered(i, d, n, z, made, im, zm, tab, zm2),
           NEW new, LinkGained(tab, new, d)
    PROVE  /\ new \in [Inos -> Recs] /\ Tree(new) /\ Exact(new, im, zm2)
           /\ \A j \in Inos : new[j].count = inode[j].count + Is(j, i)
<1>0. /\ z \in Zones \ zmap /\ im = imap \cup {i} /\ zm = zmap \cup {z}
      /\ Fits(d) /\ find_entry(d, n) = 0 /\ CanAdd(made, d, zm)
      /\ tab = add_entry(made, d, n, i, zm) /\ zm2 = MapAfter(made, d, zm)
  BY DEF Entered
<1>1. inode \in [Inos -> Recs] /\ Tree(inode) /\ Exact(inode, imap, zmap)
  BY InvIs
<1>2. /\ i \notin imap /\ i # Root /\ inode[i] = FreeInode /\ Named(inode, i) = 0
  BY DEF Unused
<1>3. d \in imap /\ d # i
  BY <1>1, <1>2, DirMarked
<1>4. Shaped(inode) /\ Linked(inode)
  BY <1>1, TreeShaped
<1>5. /\ Shaped(made)
      /\ \A c \in Inos, j \in 3..MaxEntries : Ino(made, c, j) = Ino(inode, c, j)
      /\ \A x : Named(made, x) = Named(inode, x) - Is(0, x) + Is(i, x) - Is(0, x) + Is(d, x)
  BY <1>0, <1>1, <1>2, <1>4, NewDirNames
<1>6. /\ made \in [Inos -> Recs] /\ OnlyAt(inode, made, i)
      /\ made[i].kind = "dir" /\ made[i].nlinks = 2 /\ made[i].count = 1
      /\ made[i].ents[2].ino = d
  BY DEF NewDir, Entry
<1>7. made[d] = inode[d] /\ made[d].kind = "dir"
  BY <1>3, <1>6 DEF OnlyAt
<1>8. Exact(made, im, zm)
  BY <1>0, <1>1, <1>2, NewDirExact
<1>9. d \in im
  BY <1>0, <1>3
<1>10. Room(made, d) /\ Absent(made, d, n)
  <2>1. Dotted(inode, d)
    BY <1>4 DEF Shaped
  <2>2. Room(made, d)
    BY <1>0, <1>7, <2>1, RoomIn
  <2>3. Absent(made, d, n)
    BY <1>0, <1>7, AbsentIn
  <2> QED
    BY <2>2, <2>3
<1>11. PICK k \in 3..MaxEntries :
          /\ SlotSet(made, tab, d, k, Entry(n, i)) /\ Ino(made, d, k) = 0
          /\ Shaped(tab) /\ Exact(tab, im, zm2)
  <2>1. CanAdd(made, d, zm) /\ tab = add_entry(made, d, n, i, zm) /\ zm2 = MapAfter(made, d, zm)
    BY <1>0
  <2> QED
    BY <1>5, <1>6, <1>7, <1>8, <1>9, <1>10, <2>1, EntryAdded
<1>12. PICK e : e = Entry(n, i)
  OBVIOUS
<1>13. SlotSet(made, tab, d, k, e) /\ e.ino = i /\ e.name = n
  BY <1>11, <1>12 DEF Entry
<1>14. PICK o : o = 0
  OBVIOUS
<1>15. Turns(made, d, k, e, o, i) /\ NewName(made, d, k, e)
  BY <1>10, <1>11, <1>13, <1>14 DEF Turns, NewName, Absent
<1>16. DiskSet(made, tab, d, k, o, i)
  BY <1>13, <1>15, SetDisk
<1>17. tab[d].ents[2].ino = made[d].ents[2].ino
  BY <1>5, <1>6, <1>7, <1>13, <1>15, SetShaped
<1>18. /\ tab \in [Inos -> Recs] /\ \A c \in Inos : c # d => tab[c] = made[c]
       /\ tab[d].kind = "dir"
       /\ \A c \in Inos : tab[c].nlinks = made[c].nlinks /\ tab[c].count = made[c].count
  BY <1>7, <1>13 DEF SlotSet, OnlyAt
<1>19. inode[d].nlinks > 0
  BY <1>1, DirMarked
<1>20. /\ new \in [Inos -> Recs] /\ SlotsKept(tab, new) /\ Exact(new, im, zm2)
       /\ \A j \in Inos : /\ new[j].nlinks = tab[j].nlinks + Is(j, d)
                          /\ new[j].count = tab[j].count
  <2>1. tab[d].nlinks > 0
    BY <1>7, <1>18, <1>19
  <2>2. tab \in [Inos -> Recs] /\ Exact(tab, im, zm2)
    BY <1>11, <1>18
  <2> QED
    BY <2>1, <2>2, LinkGainedKeeps
<1>21. /\ Shaped(new)
       /\ \A c \in Inos : \A j : Ino(new, c, j) = Ino(tab, c, j)
       /\ \A x : Named(new, x) = Named(tab, x)
  <2>1. SlotsKept(tab, new)
    BY <1>20
  <2>2. Shaped(tab)
    BY <1>11
  <2> QED
    BY <2>1, <2>2, KeptShaped
<1>22. \A c \in Inos : c # i => made[c] = inode[c]
  BY <1>6 DEF OnlyAt
<1>23. Linked(new)
  <2> SUFFICES ASSUME NEW x \in Inos PROVE new[x].nlinks = Named(new, x)
    BY DEF Linked
  <2>1. Is(0, x) = 0 /\ Is(o, x) = 0 /\ Is(i, x) \in Nat /\ Is(d, x) \in Nat
    BY <1>14, FilesAssumption DEF Is
  <2>2. Named(made, x) = Named(inode, x) - Is(0, x) + Is(i, x) - Is(0, x) + Is(d, x)
    BY <1>5
  <2>3. Named(tab, x) = Named(made, x) - Is(o, x) + Is(i, x)
    BY <1>16 DEF DiskSet
  <2>4. Named(inode, x) \in Nat
    BY NamedNat
  <2>5. Named(new, x) = Named(inode, x) + Is(i, x) + Is(d, x) + Is(i, x)
    <3>1. Named(new, x) = Named(tab, x)
      BY <1>21
    <3>2. Named(made, x) = Named(inode, x) + Is(i, x) + Is(d, x)
      BY <2>1, <2>2, <2>4
    <3>3. Named(tab, x) = Named(made, x) + Is(i, x)
      BY <2>1, <2>3, <2>4, <3>2
    <3> QED
      BY <3>1, <3>2, <3>3
  <2>6. new[x].nlinks = made[x].nlinks + Is(x, d) /\ Is(x, d) = Is(d, x)
    BY <1>18, <1>20 DEF Is
  <2>7. CASE x = i
    <3>1. Is(i, x) = 1 /\ Named(inode, x) = 0 /\ made[x].nlinks = 2 /\ Is(d, x) = 0
      BY <1>2, <1>3, <1>6, <2>7 DEF Is
    <3> QED
      BY <2>5, <2>6, <3>1
  <2>8. CASE x # i
    <3>1. Is(i, x) = 0 /\ made[x].nlinks = Named(inode, x)
      BY <1>4, <1>22, <2>8 DEF Is, Linked
    <3> QED
      BY <2>1, <2>4, <2>5, <2>6, <3>1
  <2> QED
    BY <2>7, <2>8
<1>24. \A c \in Inos, j \in 3..MaxEntries :
          Ino(new, c, j) = IF c = d /\ j = k THEN i ELSE Ino(inode, c, j)
  <2> SUFFICES ASSUME NEW c \in Inos, NEW j \in 3..MaxEntries
               PROVE  Ino(new, c, j) = IF c = d /\ j = k THEN i ELSE Ino(inode, c, j)
    OBVIOUS
  <2>1. j \in 1..MaxEntries
    OBVIOUS
  <2>2. Ino(tab, c, j) = IF c = d /\ j = k THEN i ELSE Ino(made, c, j)
    BY <1>16, <2>1 DEF DiskSet
  <2>3. Ino(new, c, j) = Ino(tab, c, j) /\ Ino(made, c, j) = Ino(inode, c, j)
    BY <1>5, <1>21
  <2> QED
    BY <2>2, <2>3
<1>25. Ino(inode, d, k) = 0 /\ k \in 1..MaxEntries
  BY <1>5, <1>11
<1>26. new[i].ents[2].ino = d
  <2>1. new[i].ents = tab[i].ents /\ tab[i] = made[i]
    BY <1>3, <1>18, <1>20 DEF SlotsKept
  <2> QED
    BY <1>6, <2>1
<1>27. ASSUME NEW c \in Inos, c # i, new[c].kind = "dir"
       PROVE  /\ inode[c].kind = "dir" /\ new[c].ents[2].ino = inode[c].ents[2].ino
              /\ \A b \in Inos, j \in 3..MaxEntries : Ino(new, b, j) = c <=> Ino(inode, b, j) = c
  <2>1. new[c].kind = tab[c].kind /\ new[c].ents = tab[c].ents
    BY <1>20 DEF SlotsKept
  <2>2. tab[c].kind = inode[c].kind /\ tab[c].ents[2].ino = inode[c].ents[2].ino
    <3>1. CASE c = d
      BY <1>7, <1>17, <1>18, <3>1
    <3>2. CASE c # d
      BY <1>18, <1>22, <1>27, <3>2
    <3> QED
      BY <3>1, <3>2
  <2>3. ASSUME NEW b \in Inos, NEW j \in 3..MaxEntries
        PROVE  Ino(new, b, j) = c <=> Ino(inode, b, j) = c
    <3>1. CASE b = d /\ j = k
      BY <1>24, <1>25, <1>27, <3>1, FilesAssumption
    <3>2. CASE ~(b = d /\ j = k)
      BY <1>24, <3>2
    <3> QED
      BY <3>1, <3>2
  <2> QED
    BY <1>27, <2>1, <2>2, <2>3
<1>28. Hangs(new, i)
  <2>1. Ino(new, d, k) = i
    BY <1>11, <1>24
  <2>2. ASSUME NEW c \in Inos, NEW j \in 3..MaxEntries, Ino(new, c, j) = i
        PROVE  c = d /\ j = k
    <3>1. SUFFICES ASSUME ~(c = d /\ j = k) PROVE FALSE
      OBVIOUS
    <3>2. Ino(inode, c, j) = i
      BY <1>24, <2>2, <3>1
    <3>3. j \in 1..MaxEntries
      OBVIOUS
    <3>4. Named(inode, i) > 0
      BY <3>2, <3>3, NamedSome
    <3> QED
      BY <1>2, <3>4
  <2> QED
    BY <1>11, <1>26, <2>1, <2>2 DEF Hangs
<1>29. PICK X : X = {i}
  OBVIOUS
<1>30. Hung(inode, new, X)
  <2>1. Root # i /\ Root \in Inos /\ inode[Root].kind = "dir"
    BY <1>1, <1>2, FilesAssumption DEF Tree
  <2>2. new[Root].kind = "dir"
    <3>1. new[Root].kind = tab[Root].kind
      BY <1>20, <2>1 DEF SlotsKept
    <3>2. CASE Root = d
      BY <1>18, <3>1, <3>2
    <3>3. CASE Root # d
      BY <1>18, <1>22, <2>1, <3>1, <3>3
    <3> QED
      BY <3>2, <3>3
  <2>3. X \subseteq Inos \ {Root}
    BY <1>29, <2>1
  <2>4. \A c \in Inos \ X : c # i
    BY <1>29
  <2>5. \A c \in X : c = i
    BY <1>29
  <2> QED
    BY <1>27, <1>28, <2>2, <2>3, <2>4, <2>5 DEF Hung
<1>31. Tree(new)
  BY <1>1, <1>20, <1>21, <1>23, <1>30, ShapedTree
<1>32. ASSUME NEW j \in Inos
       PROVE  new[j].count = inode[j].count + Is(j, i)
  <2>1. new[j].count = made[j].count
    BY <1>18, <1>20
  <2>2. CASE j = i
    BY <1>2, <1>6, <2>1, <2>2 DEF Is, FreeInode
  <2>3. CASE j # i
    BY <1>1, <1>22, <2>1, <2>3 DEF Is, Recs
  <2> QED
    BY <2>2, <2>3
<1> QED
  BY <1>20, <1>31, <1>32

LEMMA MkdirKeeps ==
    ASSUME Inv, NEW p \in Procs, NEW path \in Paths, sys_mkdir(p, path)
    PROVE  Inv'
<1>1. PICK d : d = dir_namei(p, path)
  OBVIOUS
<1>2. PICK i : i = FreeIno(imap)
  OBVIOUS
<1>3. PICK n : n = basename(path)
  OBVIOUS
<1>4. PICK bare : bare = new_inode(inode, i, "new")
  OBVIOUS
<1>5. PICK z : z = FreeZone(zmap)
  OBVIOUS
<1>6. PICK made : DirMade(bare, made, i, z, d)
  BY DEF DirMade
<1>7. PICK zm : zm = zmap \cup {z}
  OBVIOUS
<1>8. PICK im : im = imap \cup {i}
  OBVIOUS
<1>9. PICK bare0 : bare0 = [bare EXCEPT ![i].nlinks = @ - 1]
  OBVIOUS
<1>10. PICK made0 : made0 = [made EXCEPT ![i].nlinks = 0]
  OBVIOUS
<1>11. PICK tab : tab = add_entry(made, d, n, i, zm)
  OBVIOUS
<1>12. PICK new : LinkGained(tab, new, d)
  BY DEF LinkGained
<1>13. PICK zm2 : zm2 = MapAfter(made, d, zm)
  OBVIOUS
<1>14. /\ d # 0 /\ Fits(d) /\ find_entry(d, n) = 0 /\ Inos \ imap # {} /\ Same
       /\ \/ /\ Zones \ zmap = {} /\ iput(bare0, im, zmap, <<i>>)
          \/ /\ Zones \ zmap # {} /\ iput(made0, im, zm \ {z}, <<i>>)
          \/ /\ Zones \ zmap # {} /\ CanAdd(made, d, zm) /\ iput(new, im, zm2, <<i>>)
  BY <1>1, <1>2, <1>3, <1>4, <1>5, <1>6, <1>7, <1>8, <1>9, <1>10, <1>11, <1>12, <1>13
     DEF sys_mkdir, DirMade, LinkGained
<1>15. inode \in [Inos -> Recs] /\ Tree(inode) /\ Exact(inode, imap, zmap)
  BY InvIs
<1>16. /\ i \in Inos /\ i \notin imap /\ i # Root /\ inode[i] = FreeInode /\ Named(inode, i) = 0
  BY <1>2, <1>14, FreshInode
<1>17. d \in Inos /\ inode[d].kind = "dir" /\ n \in Components
  BY <1>1, <1>3, <1>14, GotParent
<1>18. MadeInode(bare, i, "new")
  BY <1>4, <1>15, <1>16, NewInode
<1>19. ASSUME Zones \ zmap # {}
       PROVE  z \in Zones \ zmap
  <2>1. PICK S : S = Zones \ zmap
    OBVIOUS
  <2>2. S \subseteq Nat /\ S # {}
    BY <1>19, <2>1, FilesAssumption
  <2>3. z \in S
    BY <1>5, <2>1, <2>2, MinIsLeast DEF FreeZone
  <2> QED
    BY <2>1, <2>3
<1>20. PICK o \in Nat : o = 0
  OBVIOUS
<1>21. CASE Zones \ zmap = {} /\ iput(bare0, im, zmap, <<i>>)
  <2>1. /\ bare \in [Inos -> Recs] /\ OnlyAt(inode, bare, i)
        /\ bare[i].nlinks = 1 /\ bare[i].count = 1 /\ bare[i].zones = {}
    BY <1>18 DEF MadeInode
  <2>2. bare0 = [bare EXCEPT ![i].nlinks = o]
    BY <1>9, <1>20, <2>1
  <2>3. /\ bare0 \in [Inos -> Recs] /\ \A j \in Inos : j # i => bare0[j] = bare[j]
        /\ bare0[i].nlinks = o /\ bare0[i].count = bare[i].count
        /\ bare0[i].zones = bare[i].zones
    BY <1>16, <2>1, <2>2, LinksAt
  <2>4. /\ OnlyAt(inode, bare0, i) /\ bare0[i].nlinks = 0 /\ bare0[i].count = 1
        /\ zmap \ bare0[i].zones = zmap
    BY <1>20, <2>1, <2>3 DEF OnlyAt
  <2> QED
    BY <1>8, <1>14, <1>16, <1>21, <2>3, <2>4, GivenBack
<1>22. CASE Zones \ zmap # {} /\ iput(made0, im, zm \ {z}, <<i>>)
  <2>1. NewDir(made, i, z, d)
    BY <1>6, <1>15, <1>16, <1>17, <1>18, <1>19, <1>22, NewDirMade
  <2>2. /\ made \in [Inos -> Recs] /\ OnlyAt(inode, made, i)
        /\ made[i].count = 1 /\ made[i].zones = {z}
    BY <2>1 DEF NewDir
  <2>3. made0 = [made EXCEPT ![i].nlinks = o]
    BY <1>10, <1>20
  <2>4. /\ made0 \in [Inos -> Recs] /\ \A j \in Inos : j # i => made0[j] = made[j]
        /\ made0[i].nlinks = o /\ made0[i].count = made[i].count
        /\ made0[i].zones = made[i].zones
    BY <1>16, <2>2, <2>3, LinksAt
  <2>5. OnlyAt(inode, made0, i) /\ made0[i].nlinks = 0 /\ made0[i].count = 1
    BY <1>20, <2>2, <2>4 DEF OnlyAt
  <2>6. PICK zs : zs = zm \ {z}
    OBVIOUS
  <2>7. zs \ made0[i].zones = zmap
    BY <1>7, <1>19, <1>22, <2>2, <2>4, <2>6
  <2>8. iput(made0, im, zs, <<i>>) /\ Same
    BY <1>14, <1>22, <2>6
  <2> QED
    BY <1>8, <1>16, <2>4, <2>5, <2>7, <2>8, GivenBack
<1>23. CASE Zones \ zmap # {} /\ CanAdd(made, d, zm) /\ iput(new, im, zm2, <<i>>)
  <2>1. NewDir(made, i, z, d) /\ z \in Zones \ zmap
    BY <1>6, <1>15, <1>16, <1>17, <1>18, <1>19, <1>23, NewDirMade
  <2>2. Unused(i)
    BY <1>16 DEF Unused
  <2>3. /\ new \in [Inos -> Recs] /\ Tree(new) /\ Exact(new, im, zm2)
        /\ \A j \in Inos : new[j].count = inode[j].count + Is(j, i)
    <3>1. Entered(i, d, n, z, made, im, zm, tab, zm2)
      BY <1>7, <1>8, <1>11, <1>13, <1>14, <1>23, <2>1 DEF Entered
    <3>2. i \in Inos /\ NewDir(made, i, z, d)
      BY <1>16, <2>1
    <3> QED
      BY <1>12, <1>17, <2>2, <3>1, <3>2, DirEntered
  <2>4. \A j \in Inos : inode[j].count \in Nat /\ Is(j, i) \in Nat
    BY <1>15 DEF Recs, Is
  <2>5. new[i].count > 0
    BY <1>16, <2>3, <2>4 DEF Is
  <2>6. /\ inode' \in [Inos -> Recs] /\ Tree(inode') /\ Exact(inode', imap', zmap')
        /\ \A j \in Inos : inode'[j].count = new[j].count - Is(j, i)
    BY <1>16, <1>23, <2>3, <2>5, PutOne
  <2>7. \A j \in Inos : inode'[j].count = inode[j].count
    BY <2>3, <2>4, <2>6
  <2> QED
    BY <1>14, <2>6, <2>7, SameNext
<1> QED
  BY <1>14, <1>21, <1>22, <1>23

-----------------------------------------------------------------------------
(* A directory that is removed: nothing but its entry and its "." name it. *)

EmptyBelow(d, k, i) ==
    /\ i \in Inos /\ i # d /\ i # Root /\ inode[i].kind = "dir"
    /\ k \in 3..MaxEntries /\ k \in DOMAIN inode[d].ents /\ Ino(inode, d, k) = i
    /\ Ino(inode, i, 1) = i /\ Ino(inode, i, 2) = d
    /\ \A j \in 3..MaxEntries : Ino(inode, i, j) = 0
    /\ \A c \in Inos, j \in 1..MaxEntries :
          Ino(inode, c, j) = i => (c = d /\ j = k) \/ (c = i /\ j = 1)

(* What the first two slots of a directory name.                           *)
LEMMA DotSlots ==
    ASSUME Inv, NEW c \in Inos, inode[c].kind = "dir"
    PROVE  /\ 1 \in DOMAIN inode[c].ents /\ 2 \in DOMAIN inode[c].ents
           /\ Ino(inode, c, 1) = c /\ Ino(inode, c, 2) = inode[c].ents[2].ino
           /\ inode[c].ents[2].ino \in Inos
<1>1. inode \in [Inos -> Recs] /\ Tree(inode)
  BY InvIs
<1>2. Dots(inode, c)
  BY <1>1 DEF Tree
<1>3. inode[c].ents \in Seq(Ent) /\ Len(inode[c].ents) \in 2..MaxEntries
  BY <1>1, <1>2 DEF Dots, Recs
<1>4. 1 \in DOMAIN inode[c].ents /\ 2 \in DOMAIN inode[c].ents
  BY <1>3, FilesAssumption
<1>5. inode[c].ents[1].ino = c
  BY <1>2 DEF Dots, Entry
<1>6. inode[c].ents[2].ino \in Inos
  BY <1>1, <1>2, ParentIno
<1> QED
  BY <1>4, <1>5, <1>6 DEF Ino

(* The directory above has an entry for the one below.                     *)
LEMMA NamedAbove ==
    ASSUME Inv, NEW c \in Inos, inode[c].kind = "dir", c # Root,
           NEW u, u = inode[c].ents[2].ino
    PROVE  \E k \in 3..MaxEntries :
               /\ Ino(inode, u, k) = c
               /\ \A b \in Inos, j \in 3..MaxEntries : Ino(inode, b, j) = c => b = u /\ j = k
<1>1. Hangs(inode, c)
  BY InvIs DEF Tree
<1> QED
  BY <1>1 DEF Hangs

LEMMA RemovableDir ==
    ASSUME Inv, NEW d \in Inos, inode[d].kind = "dir", NEW n, NEW k, k = find_entry(d, n), k # 0,
           NEW i, i = lookup(d, n), inode[i].count = 0, i # d, inode[i].kind = "dir", empty_dir(i)
    PROVE  EmptyBelow(d, k, i)
<1>1. inode \in [Inos -> Recs] /\ Tree(inode)
  BY InvIs
<1>2. k \in DOMAIN inode[d].ents /\ inode[d].ents[k].ino = i /\ i \in Inos
  BY <1>1, Found
<1>3. Ino(inode, d, k) = i
  BY <1>2 DEF Ino
<1>4. i # Root
  <2>1. \A j \in Inos : inode[j].count = Refs(file, pwd, j)
    BY InvIs DEF InodeRefs
  <2>2. /\ OpenCount(file, i) \in Nat /\ WorkCount(pwd, i) \in Nat
        /\ i = Root => RootCount(pwd, i) >= 2
        /\ RootCount(pwd, i) \in Nat
    BY CountsNat
  <2> QED
    BY <1>2, <2>1, <2>2 DEF Refs
<1>5. \A j \in 3..MaxEntries : Ino(inode, i, j) = 0
  BY DEF empty_dir, Slots, Ino
<1>6. ASSUME NEW c \in Inos, inode[c].kind = "dir", inode[c].ents[2].ino = i
      PROVE  FALSE
  <2>1. CASE c = Root
    <3>1. inode[Root].ents[2].ino = Root
      BY <1>1 DEF Tree
    <3> QED
      BY <1>4, <1>6, <2>1, <3>1
  <2>2. CASE c # Root
    <3>1. PICK j \in 3..MaxEntries : Ino(inode, i, j) = c
      BY <1>6, <2>2, NamedAbove
    <3> QED
      BY <1>5, <3>1, FilesAssumption
  <2> QED
    BY <2>1, <2>2
<1>7. k # 1
  BY <1>3, DotSlots
<1>8. k # 2
  BY <1>2, <1>6
<1>9. k \in 3..MaxEntries
  <2>1. Len(inode[d].ents) \in 2..MaxEntries /\ inode[d].ents \in Seq(Ent)
    BY <1>1 DEF Tree, Dots, Recs
  <2>2. k \in 1..Len(inode[d].ents)
    BY <1>2, <2>1
  <2> QED
    BY <1>7, <1>8, <2>1, <2>2, FilesAssumption
<1>10. PICK u : u = inode[i].ents[2].ino
  OBVIOUS
<1>11. PICK m \in 3..MaxEntries :
          /\ Ino(inode, u, m) = i
          /\ \A b \in Inos, j \in 3..MaxEntries : Ino(inode, b, j) = i => b = u /\ j = m
  BY <1>2, <1>4, <1>10, NamedAbove
<1>12. u = d /\ m = k
  BY <1>3, <1>9, <1>11
<1>13. Ino(inode, i, 1) = i /\ Ino(inode, i, 2) = d
  BY <1>2, <1>10, <1>12, DotSlots
<1>14. ASSUME NEW c \in Inos, NEW j \in 1..MaxEntries, Ino(inode, c, j) = i
       PROVE  (c = d /\ j = k) \/ (c = i /\ j = 1)
  <2>1. inode[c].kind = "dir"
    <3>1. j \in DOMAIN inode[c].ents
      BY <1>2, <1>14, FilesAssumption DEF Ino
    <3>2. inode[c].ents # <<>>
      BY <3>1
    <3> QED
      BY <1>1, <3>2 DEF Tree
  <2>2. CASE j = 1
    BY <1>14, <2>1, <2>2, DotSlots
  <2>3. CASE j = 2
    BY <1>6, <1>14, <2>1, <2>3, DotSlots
  <2>4. CASE j # 1 /\ j # 2
    <3>1. j \in 3..MaxEntries
      BY <2>4, FilesAssumption
    <3> QED
      BY <1>11, <1>12, <1>14, <3>1
  <2> QED
    BY <2>2, <2>3, <2>4
<1> QED
  BY <1>2, <1>3, <1>4, <1>5, <1>9, <1>13, <1>14 DEF EmptyBelow

(* One inode is freed.                                                     *)
LEMMA OneGone ==
    ASSUME NEW tab, NEW im, NEW zm, Exact(tab, im, zm), NEW i \in Inos, NEW new,
           OnlyAt(tab, new, i), new[i] = FreeInode, NEW zm2, zm2 = zm \ tab[i].zones
    PROVE  Exact(new, im \ {i}, zm2)
<1>1. /\ im = {j \in Inos : tab[j].nlinks > 0 \/ tab[j].count > 0}
      /\ zm = UNION {tab[j].zones : j \in Inos}
      /\ \A j, c \in Inos : j # c => tab[j].zones \cap tab[c].zones = {}
  BY DEF Exact
<1>2. \A j \in Inos : j # i => new[j] = tab[j]
  BY DEF OnlyAt
<1>3. new[i].nlinks = 0 /\ new[i].count = 0 /\ new[i].zones = {}
  BY DEF FreeInode
<1>4. im \ {i} = {j \in Inos : new[j].nlinks > 0 \/ new[j].count > 0}
  <2>1. ~(new[i].nlinks > 0 \/ new[i].count > 0)
    BY <1>3
  <2> QED
    BY <1>1, <1>2, <2>1
<1>5. zm2 = UNION {new[j].zones : j \in Inos}
  <2>1. ASSUME NEW z \in zm2 PROVE \E j \in Inos : z \in new[j].zones
    <3>1. PICK j \in Inos : z \in tab[j].zones
      BY <1>1, <2>1
    <3> QED
      BY <1>2, <2>1, <3>1
  <2>2. ASSUME NEW j \in Inos, NEW z \in new[j].zones PROVE z \in zm2
    <3>1. j # i
      BY <1>3, <2>2
    <3> QED
      BY <1>1, <1>2, <2>2, <3>1
  <2> QED
    BY <2>1, <2>2
<1>6. \A j, c \in Inos : j # c => new[j].zones \cap new[c].zones = {}
  BY <1>1, <1>2, <1>3
<1>7. \A j \in Inos \ (im \ {i}) : new[j] = FreeInode
  BY <1>2 DEF Exact
<1>8. \A j \in im \ {i} : new[j].kind \in {"file", "dir"}
  BY <1>1, <1>2 DEF Exact
<1>9. \A j \in im \ {i} : new[j].kind = "dir" =>
          Cardinality(new[j].zones) = Blocks(Len(new[j].ents))
  BY <1>1, <1>2 DEF Exact
<1> QED
  BY <1>4, <1>5, <1>6, <1>7, <1>8, <1>9 DEF Exact

(* The entry of the directory i is cleared.                                *)
DirUnnamed(t1, d, k, i) ==
    /\ t1 \in [Inos -> Recs] /\ OnlyAt(inode, t1, d) /\ Shaped(t1) /\ Exact(t1, imap, zmap)
    /\ t1[d].kind = "dir" /\ t1[d].ents[2].ino = inode[d].ents[2].ino
    /\ \A c \in Inos : t1[c].nlinks = inode[c].nlinks /\ t1[c].count = inode[c].count
    /\ \A c \in Inos, j \in 1..MaxEntries :
          Ino(t1, c, j) = IF c = d /\ j = k THEN 0 ELSE Ino(inode, c, j)
    /\ \A x \in Inos : Named(t1, x) = Named(inode, x) - Is(i, x)

LEMMA DirUnnames ==
    ASSUME Inv, NEW d \in Inos, inode[d].kind = "dir", NEW k, NEW i, EmptyBelow(d, k, i),
           NEW t1, t1 = Removed(inode, d, k)
    PROVE  DirUnnamed(t1, d, k, i)
<1>1. inode \in [Inos -> Recs] /\ Tree(inode) /\ Exact(inode, imap, zmap)
  BY InvIs
<1>2. Shaped(inode)
  BY <1>1, TreeShaped
<1>3. k \in 3..MaxEntries /\ k \in DOMAIN inode[d].ents /\ Ino(inode, d, k) = i
  BY DEF EmptyBelow
<1>4. PICK e : e = Hole
  OBVIOUS
<1>5. PICK z : z = 0
  OBVIOUS
<1>6. e \in Ent /\ e.ino = z
  BY <1>4, <1>5, HoleEnt
<1>7. Written(inode, t1, d, k, e)
  BY <1>3, <1>4 DEF Removed, Written
<1>8. Dotted(inode, d)
  BY <1>2 DEF Shaped
<1>9. /\ SlotSet(inode, t1, d, k, e) /\ t1[d].zones = inode[d].zones
      /\ Len(t1[d].ents) = Len(inode[d].ents)
  BY <1>1, <1>3, <1>6, <1>7, <1>8, Cleared
<1>10. SlotSet(inode, t1, d, k, e)
  BY <1>9
<1>11. NewName(inode, d, k, e)
  BY <1>5, <1>6 DEF NewName
<1>12. Shaped(t1) /\ t1[d].ents[2].ino = inode[d].ents[2].ino
  BY <1>1, <1>2, <1>10, <1>11, SetShaped
<1>13. Turns(inode, d, k, e, i, z)
  BY <1>3, <1>6 DEF Turns
<1>14. DiskSet(inode, t1, d, k, i, z)
  BY <1>10, <1>13, SetDisk
<1>15. d \in imap
  BY <1>1, DirMarked
<1>16. Exact(t1, imap, zmap)
  BY <1>1, <1>9, <1>15, SetExact
<1>17. /\ t1 \in [Inos -> Recs] /\ OnlyAt(inode, t1, d) /\ t1[d].kind = "dir"
       /\ \A c \in Inos : t1[c].nlinks = inode[c].nlinks /\ t1[c].count = inode[c].count
  BY <1>10 DEF SlotSet, OnlyAt
<1>18. \A c \in Inos, j \in 1..MaxEntries :
          Ino(t1, c, j) = IF c = d /\ j = k THEN 0 ELSE Ino(inode, c, j)
  BY <1>5, <1>14 DEF DiskSet
<1>19. ASSUME NEW x \in Inos
       PROVE  Named(t1, x) = Named(inode, x) - Is(i, x)
  <2>1. Named(t1, x) = Named(inode, x) - Is(i, x) + Is(z, x)
    BY <1>14 DEF DiskSet
  <2>2. Is(z, x) = 0
    BY <1>5, FilesAssumption DEF Is
  <2>3. Named(inode, x) \in Nat /\ Is(i, x) \in Nat
    BY NamedNat DEF Is
  <2> QED
    BY <2>1, <2>2, <2>3
<1> QED
  BY <1>12, <1>16, <1>17, <1>18, <1>19 DEF DirUnnamed

(* Then the directory is given back, and the one above has a link less.    *)
DirFreed(t1, new, d, i) ==
    /\ new \in [Inos -> Recs] /\ new[i] = FreeInode
    /\ \A c \in Inos : c # d /\ c # i => new[c] = t1[c]
    /\ new[d].kind = t1[d].kind /\ new[d].nlinks = t1[d].nlinks - 1
    /\ new[d].count = t1[d].count /\ new[d].zones = t1[d].zones /\ new[d].ents = t1[d].ents

LEMMA DirFreedNames ==
    ASSUME Inv, NEW d \in Inos, NEW k, NEW i, EmptyBelow(d, k, i),
           NEW t1, DirUnnamed(t1, d, k, i), NEW new, DirFreed(t1, new, d, i)
    PROVE  /\ \A c \in Inos, j \in 1..MaxEntries : c # i => Ino(new, c, j) = Ino(t1, c, j)
           /\ \A j : Ino(new, i, j) = 0
           /\ \A x \in Inos : Named(new, x) = Named(t1, x) - Is(i, x) - Is(d, x)
<1>1. /\ i \in Inos /\ i # d
      /\ Ino(inode, i, 1) = i /\ Ino(inode, i, 2) = d
      /\ \A j \in 3..MaxEntries : Ino(inode, i, j) = 0
  BY DEF EmptyBelow
<1>2. \A j \in 1..MaxEntries : Ino(t1, i, j) = Ino(inode, i, j)
  BY <1>1 DEF DirUnnamed
<1>3. 1 \in 1..MaxEntries /\ 2 \in 1..MaxEntries
  BY FilesAssumption
<1>4. Ino(t1, i, 1) = i /\ Ino(t1, i, 2) = d
  BY <1>1, <1>2, <1>3
<1>5. \A j : Ino(new, i, j) = 0
  <2>1. DOMAIN new[i].ents = {}
    BY DEF DirFreed, FreeInode
  <2> QED
    BY <2>1 DEF Ino
<1>6. ASSUME NEW c \in Inos, NEW j \in 1..MaxEntries, c # i
      PROVE  Ino(new, c, j) = Ino(t1, c, j)
  <2>1. new[c].ents = t1[c].ents
    BY <1>6 DEF DirFreed
  <2> QED
    BY <2>1 DEF Ino
<1>7. ASSUME NEW c \in Inos, NEW j \in 1..MaxEntries, c # i \/ (j # 1 /\ j # 2)
      PROVE  Ino(new, c, j) = Ino(t1, c, j)
  <2>1. CASE c # i
    BY <1>6, <2>1
  <2>2. CASE c = i
    <3>1. j \in 3..MaxEntries
      BY <1>7, <2>2, FilesAssumption
    <3>2. Ino(t1, i, j) = 0
      BY <1>1, <1>2, <3>1
    <3> QED
      BY <1>5, <2>2, <3>2
  <2> QED
    BY <2>1, <2>2
<1>8. ASSUME NEW x \in Inos
      PROVE  Named(new, x) = Named(t1, x) - Is(i, x) - Is(d, x)
  <2>1. PICK S : S = Places
    OBVIOUS
  <2>2. PICK m : m = Disk(t1)
    OBVIOUS
  <2>3. PICK n : n = Disk(new)
    OBVIOUS
  <2>4. PICK a : a = <<i, 1>>
    OBVIOUS
  <2>5. PICK b : b = <<i, 2>>
    OBVIOUS
  <2>6. PICK z : z = 0
    OBVIOUS
  <2>7. IsFiniteSet(S) /\ a \in S /\ b \in S /\ a # b
    BY <1>1, <1>3, <2>1, <2>4, <2>5, Finite DEF Places
  <2>8. m[a] = i /\ m[b] = d /\ n[a] = z /\ n[b] = z
    BY <1>1, <1>3, <1>4, <1>5, <2>2, <2>3, <2>4, <2>5, <2>6, DiskAt
  <2>9. ASSUME NEW y \in S, y # a, y # b
        PROVE  n[y] = m[y]
    <3>1. PICK c \in Inos, j \in 1..MaxEntries : y = <<c, j>>
      BY <2>1 DEF Places
    <3>2. c # i \/ (j # 1 /\ j # 2)
      BY <2>4, <2>5, <2>9, <3>1
    <3>3. Ino(new, c, j) = Ino(t1, c, j)
      BY <1>7, <3>2
    <3> QED
      BY <2>2, <2>3, <3>1, <3>3, DiskAt
  <2>10. Cardinality(Where(n, S, x)) = Cardinality(Where(m, S, x))
             - Is(m[a], x) + Is(n[a], x) - Is(m[b], x) + Is(n[b], x)
    <3>1. SameButTwo(m, n, S, a, b)
      BY <2>7, <2>9 DEF SameButTwo
    <3> QED
      BY <2>7, <3>1, TwoChanges
  <2>11. Named(new, x) = Named(t1, x) - Is(i, x) + Is(z, x) - Is(d, x) + Is(z, x)
    BY <2>1, <2>2, <2>3, <2>8, <2>10 DEF Named
  <2>12. Is(z, x) = 0 /\ Is(i, x) \in Nat /\ Is(d, x) \in Nat /\ Named(t1, x) \in Nat
    BY <2>6, NamedNat, FilesAssumption DEF Is
  <2> QED
    BY <2>11, <2>12
<1> QED
  BY <1>5, <1>6, <1>8

LEMMA DirFreedTree ==
    ASSUME Inv, NEW d \in Inos, inode[d].kind = "dir", NEW k, NEW i, EmptyBelow(d, k, i),
           NEW t1, DirUnnamed(t1, d, k, i), NEW new, DirFreed(t1, new, d, i)
    PROVE  Tree(new)
<1>1. inode \in [Inos -> Recs] /\ Tree(inode)
  BY InvIs
<1>2. Linked(inode)
  BY <1>1, TreeShaped
<1>3. /\ i \in Inos /\ i # d /\ i # Root /\ k \in 3..MaxEntries /\ Ino(inode, d, k) = i
      /\ \A j \in 3..MaxEntries : Ino(inode, i, j) = 0
      /\ \A c \in Inos, j \in 1..MaxEntries :
            Ino(inode, c, j) = i => (c = d /\ j = k) \/ (c = i /\ j = 1)
  BY DEF EmptyBelow
<1>4. /\ OnlyAt(inode, t1, d) /\ Shaped(t1)
      /\ t1[d].kind = "dir" /\ t1[d].ents[2].ino = inode[d].ents[2].ino
      /\ \A c \in Inos : t1[c].nlinks = inode[c].nlinks /\ t1[c].count = inode[c].count
      /\ \A c \in Inos, j \in 1..MaxEntries :
            Ino(t1, c, j) = IF c = d /\ j = k THEN 0 ELSE Ino(inode, c, j)
      /\ \A x \in Inos : Named(t1, x) = Named(inode, x) - Is(i, x)
  BY DEF DirUnnamed
<1>5. /\ new \in [Inos -> Recs] /\ new[i] = FreeInode
      /\ \A c \in Inos : c # d /\ c # i => new[c] = t1[c]
      /\ new[d].kind = t1[d].kind /\ new[d].nlinks = t1[d].nlinks - 1
      /\ new[d].ents = t1[d].ents
  BY DEF DirFreed
<1>6. /\ \A c \in Inos, j \in 1..MaxEntries : c # i => Ino(new, c, j) = Ino(t1, c, j)
      /\ \A j : Ino(new, i, j) = 0
      /\ \A x \in Inos : Named(new, x) = Named(t1, x) - Is(i, x) - Is(d, x)
  BY DirFreedNames
<1>7. \A c \in Inos : c # d => t1[c] = inode[c]
  BY <1>4 DEF OnlyAt
<1>8. new[i].kind # "dir" /\ new[i].ents = <<>> /\ new[i].nlinks = 0
  BY <1>5 DEF FreeInode
<1>9. \A c \in Inos : c # i => new[c].kind = t1[c].kind /\ new[c].ents = t1[c].ents
  BY <1>5
<1>10. Shaped(new)
  <2> SUFFICES ASSUME NEW c \in Inos
               PROVE  /\ new[c].kind = "dir" => Dotted(new, c) /\ Unambiguous(new, c)
                      /\ new[c].kind # "dir" => new[c].ents = <<>>
    BY DEF Shaped
  <2>1. CASE c = i
    BY <1>8, <2>1
  <2>2. CASE c # i
    <3>1. new[c].kind = t1[c].kind /\ new[c].ents = t1[c].ents
      BY <1>9, <2>2
    <3>2. /\ t1[c].kind = "dir" => Dotted(t1, c) /\ Unambiguous(t1, c)
          /\ t1[c].kind # "dir" => t1[c].ents = <<>>
      BY <1>4 DEF Shaped
    <3> QED
      BY <3>1, <3>2 DEF Dotted, Unambiguous
  <2> QED
    BY <2>1, <2>2
<1>11. \A c \in Inos, j \in 1..MaxEntries : Ino(new, c, j) # i
  <2> SUFFICES ASSUME NEW c \in Inos, NEW j \in 1..MaxEntries, Ino(new, c, j) = i PROVE FALSE
    OBVIOUS
  <2>1. i # 0
    BY <1>3, FilesAssumption
  <2>2. c # i
    BY <1>6, <2>1
  <2>3. Ino(t1, c, j) = i
    BY <1>6, <2>2
  <2>4. ~(c = d /\ j = k) /\ Ino(inode, c, j) = i
    BY <1>4, <2>1, <2>3
  <2> QED
    BY <1>3, <2>2, <2>4
<1>12. Linked(new)
  <2> SUFFICES ASSUME NEW x \in Inos PROVE new[x].nlinks = Named(new, x)
    BY DEF Linked
  <2>1. /\ Named(new, x) = Named(t1, x) - Is(i, x) - Is(d, x)
        /\ Named(t1, x) = Named(inode, x) - Is(i, x)
        /\ inode[x].nlinks = Named(inode, x) /\ t1[x].nlinks = inode[x].nlinks
    BY <1>2, <1>4, <1>6 DEF Linked
  <2>2. Named(inode, x) \in Nat
    BY NamedNat
  <2>3. CASE x = i
    BY <1>8, <1>11, <2>3, NamedNone
  <2>4. CASE x = d
    <3>1. Is(i, x) = 0 /\ Is(d, x) = 1
      BY <1>3, <2>4 DEF Is
    <3>2. new[x].nlinks = t1[x].nlinks - 1
      BY <1>5, <2>4
    <3> QED
      BY <2>1, <2>2, <3>1, <3>2
  <2>5. CASE x # i /\ x # d
    <3>1. Is(i, x) = 0 /\ Is(d, x) = 0
      BY <2>5 DEF Is
    <3>2. new[x].nlinks = t1[x].nlinks
      BY <1>5, <2>5
    <3> QED
      BY <2>1, <2>2, <3>1, <3>2
  <2> QED
    BY <2>3, <2>4, <2>5
<1>13. ASSUME NEW c \in Inos, new[c].kind = "dir"
       PROVE  /\ inode[c].kind = "dir" /\ new[c].ents[2].ino = inode[c].ents[2].ino
              /\ \A b \in Inos, j \in 3..MaxEntries : Ino(new, b, j) = c <=> Ino(inode, b, j) = c
  <2>1. c # i
    BY <1>8, <1>13
  <2>2. new[c].kind = t1[c].kind /\ new[c].ents = t1[c].ents
    BY <1>9, <2>1
  <2>3. inode[c].kind = "dir" /\ new[c].ents[2].ino = inode[c].ents[2].ino
    <3>1. CASE c = d
      BY <1>4, <2>2, <3>1
    <3>2. CASE c # d
      BY <1>7, <1>13, <2>2, <3>2
    <3> QED
      BY <3>1, <3>2
  <2>4. c # 0
    BY FilesAssumption
  <2>5. ASSUME NEW b \in Inos, NEW j \in 3..MaxEntries
        PROVE  Ino(new, b, j) = c <=> Ino(inode, b, j) = c
    <3>1. j \in 1..MaxEntries
      OBVIOUS
    <3>2. CASE b = i
      BY <1>3, <1>6, <2>4, <3>2
    <3>3. CASE b # i /\ b = d /\ j = k
      <4>1. Ino(new, b, j) = 0
        BY <1>4, <1>6, <3>1, <3>3
      <4> QED
        BY <1>3, <2>1, <2>4, <3>3, <4>1
    <3>4. CASE b # i /\ ~(b = d /\ j = k)
      BY <1>4, <1>6, <3>1, <3>4
    <3> QED
      BY <3>2, <3>3, <3>4
  <2> QED
    BY <2>3, <2>5
<1>14. PICK X : X = {}
  OBVIOUS
<1>15. Hung(inode, new, X)
  <2>1. new[Root].kind = "dir"
    <3>1. inode[Root].kind = "dir" /\ Root \in Inos /\ Root # i
      BY <1>1, <1>3, FilesAssumption DEF Tree
    <3>2. new[Root].kind = t1[Root].kind
      BY <1>9, <3>1
    <3> QED
      BY <1>4, <1>7, <3>1, <3>2
  <2>2. \A c \in Inos \ X : c \in Inos
    OBVIOUS
  <2>3. X \subseteq Inos \ {Root} /\ \A c \in X : FALSE
    BY <1>14
  <2> QED
    BY <1>13, <2>1, <2>2, <2>3 DEF Hung
<1> QED
  BY <1>1, <1>5, <1>10, <1>12, <1>15, ShapedTree

LEMMA DirFreedExact ==
    ASSUME Inv, NEW d \in Inos, inode[d].kind = "dir", NEW k, NEW i, EmptyBelow(d, k, i),
           NEW t1, DirUnnamed(t1, d, k, i), NEW new, DirFreed(t1, new, d, i),
           NEW zm, zm = zmap \ t1[i].zones
    PROVE  Exact(new, imap \ {i}, zm)
<1>1. /\ t1 \in [Inos -> Recs] /\ Exact(t1, imap, zmap)
      /\ t1[d].kind = "dir"
  BY DEF DirUnnamed
<1>2. /\ new \in [Inos -> Recs] /\ new[i] = FreeInode
      /\ \A c \in Inos : c # d /\ c # i => new[c] = t1[c]
      /\ new[d].kind = t1[d].kind /\ new[d].nlinks = t1[d].nlinks - 1
      /\ new[d].count = t1[d].count /\ new[d].zones = t1[d].zones /\ new[d].ents = t1[d].ents
  BY DEF DirFreed
<1>3. i \in Inos /\ i # d
  BY DEF EmptyBelow
<1>4. Tree(new)
  BY DirFreedTree
<1>5. new[d].nlinks > 0
  BY <1>1, <1>2, <1>4 DEF Tree, Dots
<1>6. PICK t2 : t2 = [c \in Inos |-> IF c = d THEN new[d] ELSE t1[c]]
  OBVIOUS
<1>7. t2[d] = new[d] /\ \A c \in Inos : c # d => t2[c] = t1[c]
  BY <1>6
<1>8. BlocksKept(t1, t2)
  <2> SUFFICES ASSUME NEW c \in Inos
               PROVE  /\ t2[c].kind = t1[c].kind /\ t2[c].zones = t1[c].zones
                      /\ Len(t2[c].ents) = Len(t1[c].ents)
                      /\ (t1[c].nlinks > 0 \/ t1[c].count > 0) =>
                             (t2[c].nlinks > 0 \/ t2[c].count > 0)
                      /\ ~(t1[c].nlinks > 0 \/ t1[c].count > 0) => t2[c] = t1[c]
    BY DEF BlocksKept
  <2>1. CASE c # d
    BY <1>7, <2>1
  <2>2. CASE c = d
    <3>1. t1[d].nlinks > 0
      <4>1. t1[d].nlinks \in Nat
        BY <1>1 DEF Recs
      <4> QED
        BY <1>2, <1>5, <4>1
    <3> QED
      BY <1>2, <1>5, <1>7, <2>2, <3>1
  <2> QED
    BY <2>1, <2>2
<1>9. Exact(t2, imap, zmap)
  BY <1>1, <1>8, BlocksExact
<1>10. OnlyAt(t2, new, i)
  BY <1>2, <1>7 DEF OnlyAt
<1>11. zm = zmap \ t2[i].zones
  BY <1>3, <1>7
<1> QED
  BY <1>2, <1>3, <1>9, <1>10, <1>11, OneGone

(* The counts that sys_rmdir sets.                                         *)
LEMMA RmdirKeeps ==
    ASSUME Inv, NEW p \in Procs, NEW path \in Paths, sys_rmdir(p, path)
    PROVE  Inv'
<1>1. PICK d : d = dir_namei(p, path)
  OBVIOUS
<1>2. PICK n : n = basename(path)
  OBVIOUS
<1>3. PICK k : k = find_entry(d, n)
  OBVIOUS
<1>4. PICK i : i = lookup(d, n)
  OBVIOUS
<1>5. PICK t1 : t1 = Removed(inode, d, k)
  OBVIOUS
<1>6. PICK y : y = [t1 EXCEPT ![i].nlinks = 0, ![i].count = @ + 1]
  OBVIOUS
<1>7. PICK x : x = [y EXCEPT ![d].nlinks = @ - 1]
  OBVIOUS
<1>8. /\ d # 0 /\ k # 0 /\ inode[i].count + 1 + (IF i = d THEN 1 ELSE 0) <= 1
      /\ inode[i].kind = "dir" /\ empty_dir(i) /\ iput(x, imap, zmap, <<i>>) /\ Same
  BY <1>1, <1>2, <1>3, <1>4, <1>5, <1>6, <1>7 DEF sys_rmdir
<1>9. inode \in [Inos -> Recs] /\ Tree(inode) /\ Exact(inode, imap, zmap)
  BY InvIs
<1>10. d \in Inos /\ inode[d].kind = "dir"
  BY <1>1, <1>8, GotParent
<1>11. i \in Inos
  BY <1>3, <1>4, <1>8, <1>9, <1>10, Found
<1>12. inode[i].count = 0 /\ i # d
  <2>1. inode[i].count \in Nat
    BY <1>9, <1>11 DEF Recs
  <2>2. CASE i = d
    BY <1>8, <2>1, <2>2
  <2>3. CASE i # d
    BY <1>8, <2>1, <2>3
  <2> QED
    BY <2>2, <2>3
<1>13. EmptyBelow(d, k, i)
  BY <1>3, <1>4, <1>8, <1>10, <1>12, RemovableDir
<1>14. DirUnnamed(t1, d, k, i)
  BY <1>5, <1>10, <1>13, DirUnnames
<1>15. /\ t1 \in [Inos -> Recs] /\ t1[d].kind = "dir" /\ Exact(t1, imap, zmap)
       /\ \A c \in Inos : t1[c].nlinks = inode[c].nlinks /\ t1[c].count = inode[c].count
  BY <1>14 DEF DirUnnamed
<1>16. PICK zero \in Nat : zero = 0
  OBVIOUS
<1>17. PICK one \in Nat : one = 1
  OBVIOUS
<1>18. BothSet(t1, y, i, zero, one)
  <2>1. t1[i].count = 0
    BY <1>11, <1>12, <1>15
  <2>2. t1[i].count + 1 = one
    BY <1>17, <2>1
  <2> QED
    BY <1>6, <1>11, <1>15, <1>16, <2>2 DEF BothSet
<1>19. Recounted(t1, y, i, zero, one)
  BY <1>11, <1>15, <1>18, BothAt
<1>20. /\ y \in [Inos -> Recs] /\ \A j \in Inos : j # i => y[j] = t1[j]
       /\ y[i].nlinks = 0 /\ y[i].count = 1 /\ y[i].zones = t1[i].zones
  BY <1>16, <1>17, <1>19 DEF Recounted
<1>21. t1[d].nlinks > 0
  <2>1. inode[d].nlinks > 0
    BY <1>9, <1>10, DirMarked
  <2> QED
    BY <1>10, <1>15, <2>1
<1>22. PICK less \in Nat : less = t1[d].nlinks - 1
  <2>1. t1[d].nlinks \in Nat
    BY <1>10, <1>15 DEF Recs
  <2> QED
    BY <1>21, <2>1
<1>23. /\ x \in [Inos -> Recs] /\ \A j \in Inos : j # d => x[j] = y[j]
       /\ x[d].kind = y[d].kind /\ x[d].nlinks = less /\ x[d].count = y[d].count
       /\ x[d].zones = y[d].zones /\ x[d].ents = y[d].ents
  <2>1. y[d] = t1[d]
    BY <1>10, <1>12, <1>20
  <2>2. x = [y EXCEPT ![d].nlinks = less]
    BY <1>7, <1>10, <1>20, <1>22, <2>1
  <2> QED
    BY <1>10, <1>20, <2>2, LinksAt
<1>24. x[i].nlinks = 0 /\ x[i].count = 1 /\ x[i].zones = t1[i].zones
  BY <1>11, <1>12, <1>20, <1>23
<1>25. /\ inode' \in [Inos -> Recs] /\ inode'[i] = FreeInode /\ OnlyAt(x, inode', i)
       /\ imap' = imap \ {i} /\ zmap' = zmap \ x[i].zones
  BY <1>8, <1>11, <1>23, <1>24, PutLast
<1>26. PICK new : new = inode'
  OBVIOUS
<1>27. \A c \in Inos : c # i => new[c] = x[c]
  BY <1>25, <1>26 DEF OnlyAt
<1>28. DirFreed(t1, new, d, i)
  <2>1. \A c \in Inos : c # d /\ c # i => new[c] = t1[c]
    BY <1>20, <1>23, <1>27
  <2>2. new[d] = x[d] /\ y[d] = t1[d]
    BY <1>10, <1>12, <1>20, <1>27
  <2> QED
    BY <1>22, <1>23, <1>25, <1>26, <2>1, <2>2 DEF DirFreed
<1>29. Tree(new)
  BY <1>10, <1>13, <1>14, <1>28, DirFreedTree
<1>30. PICK zm : zm = zmap \ t1[i].zones
  OBVIOUS
<1>31. Exact(new, imap \ {i}, zm)
  BY <1>10, <1>13, <1>14, <1>28, <1>30, DirFreedExact
<1>32. Exact(inode', imap', zmap')
  BY <1>24, <1>25, <1>26, <1>30, <1>31
<1>33. ASSUME NEW j \in Inos
       PROVE  inode'[j].count = inode[j].count
  <2>1. CASE j = i
    BY <1>12, <1>25, <2>1 DEF FreeInode
  <2>2. CASE j = d
    BY <1>10, <1>12, <1>15, <1>26, <1>28, <2>2 DEF DirFreed
  <2>3. CASE j # i /\ j # d
    BY <1>15, <1>26, <1>28, <2>3 DEF DirFreed
  <2> QED
    BY <2>1, <2>2, <2>3
<1>34. Tree(inode') /\ inode' \in [Inos -> Recs] /\ Same
  BY <1>8, <1>25, <1>26, <1>29
<1> QED
  BY <1>32, <1>33, <1>34, SameNext

-----------------------------------------------------------------------------
(* The initial state, and the invariants of the model.                     *)
LEMMA InitRoot ==
    ASSUME Init
    PROVE  /\ \A i \in Inos : i # Root => inode[i] = FreeInode
           /\ inode[Root].kind = "dir" /\ inode[Root].nlinks = 2 /\ inode[Root].count = 4
           /\ inode[Root].zones = {Min(Zones)} /\ Min(Zones) \in Zones
           /\ Len(inode[Root].ents) = 2 /\ DOMAIN inode[Root].ents = 1..2
           /\ inode[Root].ents[1] = Entry(".", Root)
           /\ inode[Root].ents[2] = Entry("..", Root)
           /\ inode \in [Inos -> Recs] /\ Root \in Inos
           /\ inode \in [Inos -> [kind : {"free", "file", "dir"}, nlinks : Nat, count : Nat,
                                  zones : SUBSET Zones, ents : Seq(Ent)]]
<1>1. Min(Zones) \in Zones /\ Root \in Inos
  BY FilesAssumption, MinIsLeast
<1>2. PICK z : z = Min(Zones)
  OBVIOUS
<1>3. PICK E : E = Ent
  OBVIOUS
<1>4. PICK a : a = Entry(".", Root)
  OBVIOUS
<1>5. PICK b : b = Entry("..", Root)
  OBVIOUS
<1>6. a \in E /\ b \in E
  BY <1>1, <1>3, <1>4, <1>5 DEF Ent, Entry, Components
<1>7. <<a, b>> \in Seq(E) /\ <<>> \in Seq(E)
  BY <1>6
<1>8. \A i \in Inos : inode[i] = IF i # Root THEN FreeInode
          ELSE [kind |-> "dir", nlinks |-> 2, count |-> 4, zones |-> {z}, ents |-> <<a, b>>]
  BY <1>2, <1>4, <1>5 DEF Init
<1>9. ASSUME NEW i \in Inos
      PROVE  inode[i] \in [kind : {"free", "file", "dir"}, nlinks : Nat, count : Nat,
                           zones : SUBSET Zones, ents : Seq(E)]
  <2>1. {z} \in SUBSET Zones
    BY <1>1, <1>2
  <2>2. PICK zs : zs = {z}
    OBVIOUS
  <2>3. PICK es : es = <<a, b>>
    OBVIOUS
  <2>4. es \in Seq(E) /\ zs \in SUBSET Zones
    BY <1>7, <2>1, <2>2, <2>3
  <2>5. CASE i = Root
    <3>1. inode[i] = [kind |-> "dir", nlinks |-> 2, count |-> 4, zones |-> zs, ents |-> es]
      BY <1>8, <2>2, <2>3, <2>5
    <3> QED
      BY <2>4, <3>1
  <2>6. CASE i # Root
    <3>1. PICK none : none = <<>>
      OBVIOUS
    <3>2. none \in Seq(E)
      BY <1>7, <3>1
    <3>3. inode[i] = [kind |-> "free", nlinks |-> 0, count |-> 0, zones |-> {}, ents |-> none]
      BY <1>8, <2>6, <3>1 DEF FreeInode
    <3> QED
      BY <3>2, <3>3
  <2> QED
    BY <2>5, <2>6
<1>10. inode \in [Inos -> [kind : {"free", "file", "dir"}, nlinks : Nat, count : Nat,
                           zones : SUBSET Zones, ents : Seq(E)]]
  BY <1>9 DEF Init
<1>11. inode \in [Inos -> [kind : {"free", "file", "dir", "new"}, nlinks : Nat, count : Nat,
                           zones : SUBSET Zones, ents : Seq(E)]]
  BY <1>10
<1>12. inode[Root] = [kind |-> "dir", nlinks |-> 2, count |-> 4, zones |-> {z},
                      ents |-> <<a, b>>]
  BY <1>1, <1>8
<1>13. Len(<<a, b>>) = 2 /\ DOMAIN <<a, b>> = 1..2 /\ <<a, b>>[1] = a /\ <<a, b>>[2] = b
  OBVIOUS
<1>14. /\ Len(inode[Root].ents) = 2 /\ DOMAIN inode[Root].ents = 1..2
       /\ inode[Root].ents[1] = a /\ inode[Root].ents[2] = b
  BY <1>12, <1>13
<1>15. /\ inode[Root].kind = "dir" /\ inode[Root].nlinks = 2 /\ inode[Root].count = 4
       /\ inode[Root].zones = {z}
  BY <1>12
<1>16. \A i \in Inos : i # Root => inode[i] = FreeInode
  BY <1>8
<1> QED
  BY <1>1, <1>2, <1>3, <1>4, <1>5, <1>10, <1>11, <1>14, <1>15, <1>16 DEF Recs

LEMMA InitTree ==
    ASSUME Init
    PROVE  Tree(inode)
<1>1. /\ \A i \in Inos : i # Root => inode[i] = FreeInode
      /\ inode[Root].kind = "dir" /\ inode[Root].nlinks = 2 /\ inode[Root].count = 4
      /\ Len(inode[Root].ents) = 2 /\ DOMAIN inode[Root].ents = 1..2
      /\ inode[Root].ents[1] = Entry(".", Root)
      /\ inode[Root].ents[2] = Entry("..", Root)
      /\ Root \in Inos
  BY InitRoot
<1>2. Root # 0 /\ 1 \in 1..MaxEntries /\ 2 \in 1..MaxEntries
  BY FilesAssumption DEF Root
<1>3. Ino(inode, Root, 1) = Root /\ Ino(inode, Root, 2) = Root
  BY <1>1 DEF Ino, Entry
<1>4. ASSUME NEW c \in Inos, NEW j \in 1..MaxEntries, c # Root \/ (j # 1 /\ j # 2)
      PROVE  Ino(inode, c, j) = 0
  <2>1. CASE c # Root
    <3>1. DOMAIN inode[c].ents = {}
      BY <1>1, <2>1 DEF FreeInode
    <3> QED
      BY <3>1 DEF Ino
  <2>2. CASE c = Root
    BY <1>1, <1>4, <2>2 DEF Ino
  <2> QED
    BY <2>1, <2>2
<1>5. ASSUME NEW x \in Inos
      PROVE  inode[x].nlinks = Named(inode, x)
  <2>1. PICK S : S = Places
    OBVIOUS
  <2>2. PICK m : m = [e \in S |-> 0]
    OBVIOUS
  <2>3. PICK n : n = Disk(inode)
    OBVIOUS
  <2>4. PICK a : a = <<Root, 1>>
    OBVIOUS
  <2>5. PICK b : b = <<Root, 2>>
    OBVIOUS
  <2>6. IsFiniteSet(S) /\ a \in S /\ b \in S /\ a # b
    BY <1>1, <1>2, <2>1, <2>4, <2>5, Finite DEF Places
  <2>7. m[a] = 0 /\ m[b] = 0 /\ n[a] = Root /\ n[b] = Root
    BY <1>1, <1>2, <1>3, <2>2, <2>3, <2>4, <2>5, <2>6, DiskAt
  <2>8. ASSUME NEW y \in S, y # a, y # b
        PROVE  n[y] = m[y]
    <3>1. PICK c \in Inos, j \in 1..MaxEntries : y = <<c, j>>
      BY <2>1 DEF Places
    <3>2. c # Root \/ (j # 1 /\ j # 2)
      BY <2>4, <2>5, <2>8, <3>1
    <3>3. Ino(inode, c, j) = 0
      BY <1>4, <3>2
    <3> QED
      BY <2>2, <2>3, <3>1, <3>3, DiskAt
  <2>9. Cardinality(Where(n, S, x)) = Cardinality(Where(m, S, x))
            - Is(m[a], x) + Is(n[a], x) - Is(m[b], x) + Is(n[b], x)
    <3>1. SameButTwo(m, n, S, a, b)
      BY <2>6, <2>8 DEF SameButTwo
    <3> QED
      BY <2>6, <3>1, TwoChanges
  <2>10. x # 0
    BY FilesAssumption
  <2>11. Cardinality(Where(m, S, x)) = 0
    <3>1. Where(m, S, x) = {}
      BY <2>2, <2>10 DEF Where
    <3> QED
      BY <3>1, FS_EmptySet
  <2>12. Is(m[a], x) = 0 /\ Is(m[b], x) = 0
    BY <2>7, <2>10 DEF Is
  <2>13. Named(inode, x) = Is(Root, x) + Is(Root, x)
    <3>1. Is(Root, x) \in Nat
      BY DEF Is
    <3> QED
      BY <2>1, <2>3, <2>7, <2>9, <2>11, <2>12, <3>1 DEF Named
  <2>14. CASE x = Root
    BY <1>1, <2>13, <2>14 DEF Is
  <2>15. CASE x # Root
    BY <1>1, <2>13, <2>15 DEF Is, FreeInode
  <2> QED
    BY <2>14, <2>15
<1>6. Dots(inode, Root)
  BY <1>1, <1>2, FilesAssumption DEF Dots, Entry
<1>7. Unambiguous(inode, Root)
  <2>1. inode[Root].ents[1].name # inode[Root].ents[2].name
    BY <1>1 DEF Entry
  <2> QED
    BY <1>1, <2>1 DEF Unambiguous
<1>8. Hangs(inode, Root)
  BY DEF Hangs
<1>9. \A d \in Inos : d # Root => inode[d].kind # "dir" /\ inode[d].ents = <<>>
  BY <1>1 DEF FreeInode
<1>10. inode[Root].ents[2].ino = Root
  BY <1>1 DEF Entry
<1> QED
  BY <1>1, <1>5, <1>6, <1>7, <1>8, <1>9, <1>10 DEF Tree, Named

LEMMA InitExact ==
    ASSUME Init
    PROVE  Exact(inode, imap, zmap)
<1>1. PICK z : z = Min(Zones)
  OBVIOUS
<1>2. /\ \A i \in Inos : i # Root => inode[i] = FreeInode
      /\ inode[Root].kind = "dir" /\ inode[Root].nlinks = 2
      /\ inode[Root].zones = {z} /\ Len(inode[Root].ents) = 2
      /\ Root \in Inos
  BY <1>1, InitRoot
<1>3. imap = {Root} /\ zmap = {z}
  BY <1>1 DEF Init
<1>4. \A i \in Inos : i # Root =>
          inode[i].zones = {} /\ ~(inode[i].nlinks > 0 \/ inode[i].count > 0)
  BY <1>2 DEF FreeInode
<1>5. imap = {i \in Inos : inode[i].nlinks > 0 \/ inode[i].count > 0}
  BY <1>2, <1>3, <1>4
<1>6. zmap = UNION {inode[i].zones : i \in Inos}
  <2>1. \A y \in zmap : \E i \in Inos : y \in inode[i].zones
    BY <1>2, <1>3
  <2>2. \A i \in Inos : \A y \in inode[i].zones : y \in zmap
    BY <1>2, <1>3, <1>4
  <2> QED
    BY <2>1, <2>2
<1>7. \A i, j \in Inos : i # j => inode[i].zones \cap inode[j].zones = {}
  BY <1>4
<1>8. Cardinality(inode[Root].zones) = Blocks(Len(inode[Root].ents))
  BY <1>2, BlocksTwo, FS_Singleton
<1> QED
  BY <1>2, <1>3, <1>5, <1>6, <1>7, <1>8 DEF Exact

LEMMA InitRefs ==
    ASSUME Init
    PROVE  FileRefs(file, filp) /\ InodeRefs(inode, file, pwd) /\ DeadHoldNothing
<1>1. PICK first \in Procs : pwd = [p \in Procs |-> IF p = first THEN Root ELSE 0]
  BY DEF Init
<1>2. \A p \in Procs : \A fd \in Fds : filp[p][fd] = 0
  BY DEF Init
<1>3. \A f \in Files : file[f].count = 0
  BY DEF Init, FreeFile
<1>4. ASSUME NEW f \in Files
      PROVE  file[f].count = DescCount(filp, f)
  <2>1. f # 0
    BY FilesAssumption
  <2>2. \A d \in Procs \X Fds : Held(filp)[d] = 0
    BY <1>2 DEF Held
  <2>3. Where(Held(filp), Procs \X Fds, f) = {}
    BY <2>1, <2>2 DEF Where
  <2> QED
    BY <1>3, <2>3, FS_EmptySet DEF DescCount
<1>5. ASSUME NEW i \in Inos
      PROVE  inode[i].count = Refs(file, pwd, i)
  <2>1. i # 0 /\ Root # 0
    BY FilesAssumption DEF Root
  <2>2. OpenCount(file, i) = 0
    <3>1. \A f \in Files : Opens(file)[f] = 0
      BY <1>3 DEF Opens
    <3>2. Where(Opens(file), Files, i) = {}
      BY <2>1, <3>1 DEF Where
    <3> QED
      BY <3>2, FS_EmptySet DEF OpenCount
  <2>3. /\ inode[Root].count = 4
        /\ i # Root => inode[i].count = 0
    BY InitRoot DEF FreeInode
  <2>4. CASE i = Root
    <3>1. Where(pwd, Procs, i) = {first}
      BY <1>1, <2>1, <2>4 DEF Where
    <3>2. WorkCount(pwd, i) = 1
      BY <3>1, FS_Singleton DEF WorkCount
    <3>3. Where(pwd, Procs, 0) = Procs \ {first}
      BY <1>1, <2>1 DEF Where
    <3>4. WorkCount(pwd, 0) = Cardinality(Procs) - 1 /\ Cardinality(Procs) \in Nat
      <4>1. Cardinality({first}) = 1 /\ {first} \subseteq Procs
        BY FS_Singleton
      <4> QED
        BY <3>3, <4>1, Finite, TakeAway DEF WorkCount
    <3>5. RootCount(pwd, i) = 3
      BY <2>4, <3>4 DEF RootCount
    <3> QED
      BY <2>2, <2>3, <2>4, <3>2, <3>5 DEF Refs
  <2>5. CASE i # Root
    <3>1. Where(pwd, Procs, i) = {}
      BY <1>1, <2>1, <2>5 DEF Where
    <3>2. WorkCount(pwd, i) = 0
      BY <3>1, FS_EmptySet DEF WorkCount
    <3>3. RootCount(pwd, i) = 0
      BY <2>5 DEF RootCount
    <3> QED
      BY <2>2, <2>3, <2>5, <3>2, <3>3 DEF Refs
  <2> QED
    BY <2>4, <2>5
<1> QED
  BY <1>2, <1>4, <1>5 DEF FileRefs, InodeRefs, DeadHoldNothing

LEMMA InitInv == Init => Inv
<1> SUFFICES ASSUME Init PROVE Inv
  OBVIOUS
<1>1. inode \in [Inos -> [kind : {"free", "file", "dir"}, nlinks : Nat, count : Nat,
                          zones : SUBSET Zones, ents : Seq(Ent)]]
  BY InitRoot
<1>2. imap \subseteq Inos /\ zmap \subseteq Zones
  BY InitRoot DEF Init
<1>3. Root \in Inos
  BY FilesAssumption
<1>4. /\ file \in [Files -> [count : Nat, ino : Inos]]
      /\ filp \in [Procs -> [Fds -> Files \cup {0}]]
      /\ pwd \in [Procs -> Inos \cup {0}]
  BY <1>3 DEF Init, FreeFile
<1>5. TypeOK
  BY <1>1, <1>2, <1>4 DEF TypeOK, Ent
<1> QED
  BY <1>5, InitTree, InitExact, InitRefs DEF Inv

(* Every step of the system keeps the invariant.                           *)
LEMMA StepKeeps == Inv /\ [Next]_vars => Inv'
<1> SUFFICES ASSUME Inv, [Next]_vars PROVE Inv'
  OBVIOUS
<1>1. ASSUME NEW p \in Procs, NEW path \in Paths, NEW flag \in {"read", "trunc", "excl"},
             OpenOld(p, path, flag) \/ OpenNew(p, path, flag)
      PROVE  Inv'
  BY <1>1, OpenOldKeeps, OpenNewKeeps
<1>2. ASSUME NEW p \in Procs, NEW path \in Paths, sys_chdir(p, path)
      PROVE  Inv'
  BY <1>2, ChdirKeeps
<1>3. ASSUME NEW p \in Procs, NEW path \in Paths, sys_mkdir(p, path)
      PROVE  Inv'
  BY <1>3, MkdirKeeps
<1>4. ASSUME NEW p \in Procs, NEW path \in Paths, sys_rmdir(p, path)
      PROVE  Inv'
  BY <1>4, RmdirKeeps
<1>5. ASSUME NEW p \in Procs, NEW path \in Paths, sys_unlink(p, path)
      PROVE  Inv'
  BY <1>5, UnlinkKeeps
<1>6. ASSUME NEW p \in Procs, NEW path \in Paths, NEW new \in Paths, sys_rename(p, path, new)
      PROVE  Inv'
  BY <1>6, RenameKeeps
<1>7. ASSUME NEW p \in Procs, NEW fd \in Fds,
             sys_close(p, fd) \/ sys_dup(p, fd) \/ file_write(p, fd)
      PROVE  Inv'
  BY <1>7, CloseKeeps, DupKeeps, FileWriteKeeps
<1>8. ASSUME NEW p \in Procs, NEW fd \in Fds, NEW new \in Fds, sys_dup2(p, fd, new)
      PROVE  Inv'
  BY <1>8, Dup2Keeps
<1>9. ASSUME NEW p \in Procs, NEW q \in Procs, fork_current(p, q)
      PROVE  Inv'
  BY <1>9, ForkKeeps
<1>10. ASSUME NEW p \in Procs, exit_current(p)
       PROVE  Inv'
  BY <1>10, ExitKeeps
<1>11. CASE UNCHANGED vars
  <2>1. inode' = inode /\ imap' = imap /\ zmap' = zmap /\ Same
    BY <1>11 DEF vars, Same
  <2>2. inode \in [Inos -> Recs] /\ Tree(inode) /\ Exact(inode, imap, zmap)
    BY InvIs
  <2>3. inode' \in [Inos -> Recs] /\ Tree(inode') /\ Exact(inode', imap', zmap')
    BY <2>1, <2>2
  <2>4. \A i \in Inos : inode'[i].count = inode[i].count
    BY <2>1
  <2> QED
    BY <2>1, <2>3, <2>4, SameNext
<1> QED
  BY <1>1, <1>2, <1>3, <1>4, <1>5, <1>6, <1>7, <1>8, <1>9, <1>10, <1>11 DEF Next

(* The inductive invariant of the file system: types, reference counts of  *)
(* files and inodes, link counts, the tree of directories and the bitmaps, *)
(* after every system call, fork and exit.                                 *)
THEOREM FilesInvariant == Spec => []Inv
<1>1. Inv /\ [Next]_vars => Inv'
  BY StepKeeps
<1> QED
  BY <1>1, InitInv, PTL DEF Spec

-----------------------------------------------------------------------------
(* The invariants of the runs.                                             *)
LEMMA InvLinks == Inv => LinksMatchEntries
<1> SUFFICES ASSUME Inv, NEW i \in Inos
             PROVE  inode[i].nlinks = Cardinality(EntriesTo(i))
  BY DEF LinksMatchEntries
<1>1. inode[i].nlinks = Cardinality(Where(Disk(inode), Places, i))
  BY InvIs DEF Tree
<1>2. i # 0
  BY FilesAssumption
<1>3. ASSUME NEW e \in Places
      PROVE  e \in EntriesTo(i) <=> Disk(inode)[e] = i
  BY <1>2 DEF EntriesTo, Slots, Disk, Ino, Places
<1>4. EntriesTo(i) \subseteq Places
  BY DEF EntriesTo, Places
<1>5. EntriesTo(i) = Where(Disk(inode), Places, i)
  BY <1>3, <1>4 DEF Where
<1> QED
  BY <1>1, <1>5

LEMMA InvRefs == Inv => RefsMatch
<1> SUFFICES ASSUME Inv PROVE RefsMatch
  OBVIOUS
<1>1. ASSUME NEW f \in Files
      PROVE  file[f].count = Cardinality(Descriptors(f))
  <2>1. file[f].count = DescCount(filp, f)
    BY InvIs DEF FileRefs
  <2>2. Descriptors(f) = Where(Held(filp), Procs \X Fds, f)
    BY DEF Descriptors, Where, Held
  <2> QED
    BY <2>1, <2>2 DEF DescCount
<1>2. ASSUME NEW i \in Inos
      PROVE  inode[i].count =
                 Cardinality(OpenOn(i)) + Cardinality(Working(i)) + RootRefs(i)
  <2>1. inode[i].count = OpenCount(file, i) + WorkCount(pwd, i) + RootCount(pwd, i)
    BY InvIs DEF InodeRefs, Refs
  <2>2. i # 0
    BY FilesAssumption
  <2>3. OpenOn(i) = Where(Opens(file), Files, i)
    BY <2>2 DEF OpenOn, Where, Opens
  <2>4. Working(i) = Where(pwd, Procs, i)
    BY DEF Working, Where
  <2>5. RootRefs(i) = RootCount(pwd, i)
    <3>1. PICK Z : Z = Where(pwd, Procs, 0)
      OBVIOUS
    <3>2. Z \subseteq Procs /\ {p \in Procs : Alive(p)} = Procs \ Z
      BY <3>1 DEF Where, Alive
    <3>3. /\ Cardinality(Procs \ Z) = Cardinality(Procs) - Cardinality(Z)
          /\ Cardinality(Procs) \in Nat /\ Cardinality(Z) \in Nat
      BY <3>2, Finite, TakeAway
    <3>4. WorkCount(pwd, 0) = Cardinality(Z)
      BY <3>1 DEF WorkCount
    <3> QED
      BY <3>2, <3>3, <3>4 DEF RootRefs, RootCount
  <2> QED
    BY <2>1, <2>3, <2>4, <2>5 DEF OpenCount, WorkCount
<1>3. TypeOK
  BY DEF Inv
<1> QED
  BY <1>1, <1>2, <1>3 DEF RefsMatch

LEMMA InvMaps == Inv => MapsAreExact
<1> SUFFICES ASSUME Inv PROVE MapsAreExact
  OBVIOUS
<1>1. Exact(inode, imap, zmap)
  BY InvIs
<1> QED
  BY <1>1 DEF Exact, MapsAreExact, Blocks

LEMMA InvTree == Inv => DirsFormATree
<1> SUFFICES ASSUME Inv, NEW d \in Inos, inode[d].kind = "dir"
             PROVE  /\ inode[d].nlinks > 0
                    /\ d # Root => \E e \in EntriesTo(d) :
                          /\ e[1] = inode[d].ents[2].ino /\ e[2] > 2
                          /\ \A g \in EntriesTo(d) : g[2] > 2 => g = e
                    /\ \A j, k \in Slots(d) :
                          inode[d].ents[j].ino # 0 /\ inode[d].ents[k].ino # 0
                          /\ inode[d].ents[j].name = inode[d].ents[k].name => j = k
  BY DEF DirsFormATree
<1>1. Dots(inode, d) /\ Unambiguous(inode, d)
  BY InvIs DEF Tree
<1>2. ASSUME d # Root
      PROVE  \E e \in EntriesTo(d) :
                 /\ e[1] = inode[d].ents[2].ino /\ e[2] > 2
                 /\ \A g \in EntriesTo(d) : g[2] > 2 => g = e
  <2>1. PICK u : u = inode[d].ents[2].ino
    OBVIOUS
  <2>2. u \in Inos
    BY <2>1, DotSlots
  <2>3. PICK k \in 3..MaxEntries :
           /\ Ino(inode, u, k) = d
           /\ \A b \in Inos, j \in 3..MaxEntries : Ino(inode, b, j) = d => b = u /\ j = k
    BY <1>2, <2>1, NamedAbove
  <2>4. k \in 1..MaxEntries /\ k > 2 /\ d # 0
    BY FilesAssumption
  <2>5. <<u, k>> \in EntriesTo(d)
    BY <2>2, <2>3, <2>4 DEF EntriesTo, Slots, Ino
  <2>6. ASSUME NEW g \in EntriesTo(d), g[2] > 2
        PROVE  g = <<u, k>>
    <3>1. PICK b \in Inos, j \in 1..MaxEntries : g = <<b, j>>
      BY DEF EntriesTo
    <3>2. Ino(inode, b, j) = d
      BY <3>1 DEF EntriesTo, Slots, Ino
    <3>3. j \in 3..MaxEntries
      BY <2>6, <3>1, FilesAssumption
    <3> QED
      BY <2>3, <3>1, <3>2, <3>3
  <2> QED
    BY <2>1, <2>4, <2>5, <2>6
<1> QED
  BY <1>1, <1>2 DEF Dots, Unambiguous, Slots

(* namei.c and inode.c: an inode has as many links as entries name it,     *)
(* whatever calls were made and whatever ran out on the way.               *)
THEOREM LinkCountsMatch == Spec => []LinksMatchEntries
<1> QED
  BY FilesInvariant, InvLinks, PTL

(* f_count and i_count: across open, dup, fork, chdir and exit every file  *)
(* and inode has exactly the references that exist.                        *)
THEOREM ReferencesMatch == Spec => []RefsMatch
<1> QED
  BY FilesInvariant, InvRefs, PTL

(* bitmap.c: inodes and zones in use are marked and no others, and no zone *)
(* belongs to two inodes.                                                  *)
THEOREM BitmapsMatch == Spec => []MapsAreExact
<1> QED
  BY FilesInvariant, InvMaps, PTL

(* mkdir, rmdir and rename: the directories remain a tree of unambiguous   *)
(* names, each below the directory its ".." names.                         *)
THEOREM DirectoriesStayATree == Spec => []DirsFormATree
<1> QED
  BY FilesInvariant, InvTree, PTL
=============================================================================
