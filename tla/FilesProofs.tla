----------------------------- MODULE FilesProofs -----------------------------
(***************************************************************************)
(* Names lead to allocated inodes, every block has one owner, no inode is  *)
(* freed under anybody and no call meets a freed one, for any number of    *)
(* processes, inodes, blocks and files, as long as no path has "." or "..".*)
(***************************************************************************)
EXTENDS Files, FiniteSetTheorems, WellFoundedInduction, TLAPS
-----------------------------------------------------------------------------
(* Paths *)

\* No path has "." or "..".  The entry ".." of a removed directory leads to a parent that
\* may have been freed: what follows is not true of a path with it.
NoDots == Path \subseteq Seq(Name)

-----------------------------------------------------------------------------
(* The inductive invariant *)

Labels == {"idle", "close", "walk", "walk_new", "end", "bad", "unlink", "unlink_ip", "unlink_dec",
           "link", "link_new", "link_bad", "create", "create_old", "create_new", "open", "opened"}
Kinds  == {"none", "open", "create", "mkdir", "mknod", "unlink", "link"}
InodeTypes == {"none", "dir", "file", "device"}
Inode  == [type : InodeTypes, nlink : Nat, addrs : SUBSET Block]
Owner  == Proc \union {Nobody}
Fs     == [ino : [Inum -> Inode], ents : [Inum -> [Name -> 0 .. NINODES]], used : SUBSET Block,
           ref : [Inum -> Nat], valid : [Inum -> BOOLEAN], lock : [Inum -> Owner],
           ic : [Inum -> Inode]]
Calls  == [pc : Labels, kind : Kinds, path : Seq(Name), new : Seq(Name), dp : 0 .. NINODES,
           ip : 0 .. NINODES, puts : Seq(Inum), phase : {"put", "freed", "drop"}]
FileTable == [File -> [ref : Nat, ip : 0 .. NINODES]]

Types ==
  /\ s \in Fs /\ t \in [Proc -> Calls] /\ boot \in 1 .. NINODES + 1
  /\ file \in FileTable /\ ofile \in [Proc -> 0 .. NFILE]

\* The references a call c has, by the variable it keeps them in; those through which
\* the inode is still allocated (Live), the lock of an inode, and a link it counts that
\* no directory has (Pends).
HasDp(c) == c.pc \in {"walk", "walk_new", "bad", "unlink", "unlink_ip", "link_new", "create",
                      "create_new"}
HasIp(c) == c.pc \in {"open", "opened", "close", "link", "walk_new", "link_new", "link_bad",
                      "unlink_ip", "unlink_dec", "create_old", "create_new"}
One(b)   == IF b THEN 1 ELSE 0
PutAt(c, i, k) == k <= Len(c.puts) /\ c.puts[k] = i
Held(c, i) == One(HasDp(c) /\ c.dp = i) + One(HasIp(c) /\ c.ip = i)
              + One(PutAt(c, i, 1)) + One(PutAt(c, i, 2))
Live(c, i) == \/ HasDp(c) /\ c.dp = i
              \/ HasIp(c) /\ c.ip = i
              \/ PutAt(c, i, 2)
              \/ PutAt(c, i, 1) /\ c.phase = "put"
Locking(c, i) == \/ c.pc \in {"bad", "unlink_ip", "create_new"} /\ c.dp = i
                 \/ c.pc \in {"opened", "unlink_dec"} /\ c.ip = i
                 \/ PutAt(c, i, 1) /\ c.phase = "freed"
Pends(c, i) == c.pc \in {"walk_new", "link_new", "link_bad", "unlink_dec"} /\ c.ip = i

CallRefs(i) == {e \in Proc \X (1 .. 4) : e[2] <= Held(t[e[1]], i)}
FileRefs(i) == {f \in File : file[f].ref > 0 /\ file[f].ip = i}
References ==
  /\ s.ref[Root] = 0
  /\ \A i \in Inum : i # Root => s.ref[i] = Cardinality(CallRefs(i)) + Cardinality(FileRefs(i))
  /\ \A f \in File : file[f].ref = Cardinality({p \in Proc : ofile[p] = f})

\* What a call has at each of its steps.
Place(c) ==
  /\ HasDp(c) => c.dp \in Inum
  /\ HasIp(c) => c.ip \in Inum \ {Root}
  /\ c.pc \in {"walk", "walk_new", "unlink", "unlink_ip", "link_new", "create", "create_new"}
       => c.path # <<>>
  /\ c.pc \in {"walk", "link"} => c.new # <<>>
  /\ c.pc \in {"walk_new", "link", "link_new", "link_bad"} => c.kind = "link"
  /\ c.pc \in {"idle", "close"} => c.puts = <<>>
  /\ c.puts = <<>> => c.phase = "put"
  /\ c.phase = "freed" => \A i \in Inum : PutAt(c, i, 1) => ~Live(c, i)
  /\ Len(c.puts) <= 2 /\ \A i \in Inum, k \in {1, 2} : PutAt(c, i, k) => i # Root
Places == \A p \in Proc : Place(t[p])

Locks == \A p \in Proc, i \in Inum : s.lock[i] = p <=> Locking(t[p], i)

\* The copy in the inode table, but for the one iput() is freeing.
Freeing(i) == \E p \in Proc : PutAt(t[p], i, 1) /\ t[p].phase = "freed"
Copies ==
  \A i \in Inum :
    /\ s.valid[i] => Freeing(i) \/ (s.ic[i] = s.ino[i] /\ s.ino[i].type # "none")
    /\ s.lock[i] # Nobody => s.valid[i]

\* What is referred to is there, in the file system x.
AllocatedTo(x, c) ==
  /\ \A i \in Inum : Live(c, i) => x.ino[i].type # "none"
  /\ c.pc \in {"bad", "unlink", "unlink_ip", "link_new", "create", "create_new"}
       => x.ino[c.dp].type = "dir"
  /\ c.pc \in {"walk_new", "link_new", "link_bad"} => x.ino[c.ip].type # "dir"
  /\ c.pc = "unlink_ip" => x.ents[c.dp][Head(c.path)] = c.ip
Allocated ==
  /\ \A p \in Proc : AllocatedTo(s, t[p])
  /\ \A f \in File : file[f].ref > 0 => file[f].ip \in Inum \ {Root}
                                        /\ s.ino[file[f].ip].type # "none"
  /\ \A d \in Inum, n \in Name : s.ents[d][n] # 0 => s.ino[s.ents[d][n]].type # "none"

\* A new inode is its creator's alone.
NewTo(p) ==
  t[p].pc = "create_new" =>
    /\ s.ino[t[p].ip].type = TypeOf(t[p].kind) /\ s.ino[t[p].ip].nlink = 0
    /\ \A q \in Proc : q # p => ~Live(t[q], t[p].ip)
    /\ FileRefs(t[p].ip) = {}
NewInodes == \A p \in Proc : NewTo(p)

\* The disk x: every block has one owner, what is free is empty, and only
\* directories, the root among them, have entries, none of them the root.
Owned(x) ==
  /\ x.used = UNION {x.ino[i].addrs : i \in Inum}
  /\ \A i, j \in Inum : i # j => x.ino[i].addrs \intersect x.ino[j].addrs = {}
Shaped(x) ==
  /\ x.ino[Root].type = "dir"
  /\ \A i \in Inum : /\ x.ino[i].type = "none" => x.ino[i].addrs = {}
                     /\ x.ino[i].type # "dir" => x.ents[i] = NoEntry
  /\ \A d \in Inum, n \in Name : x.ents[d][n] # Root
Disk(x) == Owned(x) /\ Shaped(x)

\* The names, the calls and the subdirectories that count as links.
Pending(i) == {p \in Proc : Pends(t[p], i)}
Subs(i)    == {n \in Name : s.ents[i][n] # 0 /\ s.ino[s.ents[i][n]].type = "dir"}
Links ==
  \A i \in Inum :
    s.ino[i].nlink >= Cardinality(Entries(i)) + Cardinality(Pending(i)) + Cardinality(Subs(i))
                      + One(i = Root)

Booting ==
  ~Running =>
    /\ t = [p \in Proc |-> Quiet] /\ ofile = [p \in Proc |-> 0]
    /\ file = [f \in File |-> NoFile]
    /\ \A i \in Inum : s.ref[i] = 0 /\ ~s.valid[i] /\ s.lock[i] = Nobody
    /\ \A i \in Inum : i < boot => ~Orphaned(i)

FilesInv == /\ Types /\ References /\ Places /\ Locks /\ Copies /\ Allocated /\ NewInodes
            /\ Disk(s) /\ Links /\ Booting

-----------------------------------------------------------------------------
(* What the operators of fs.c do to each field *)

\* Min() of a set of positive numbers is one of them (balloc, ialloc, filealloc).
LEMMA MinIn ==
  ASSUME NEW S \in SUBSET Nat, S # {}
  PROVE  Min(S) \in S
<1>1. PICK x \in S : \A y \in S : ~(y < x)
  <2>1. IsWellFoundedOn(OpToRel(<, Nat), Nat)
    BY NatLessThanWellFounded
  <2>2. PICK x \in S : \A y \in S : <<y, x>> \notin OpToRel(<, Nat)
    BY <2>1, WFMin
  <2> QED
    BY <2>2 DEF OpToRel
<1>2. \A y \in S : x <= y
  BY <1>1
<1> QED
  BY <1>1, <1>2 DEF Min

\* The constants, for leaves that need no more of them.
LEMMA Bounds ==
  /\ Inum \subseteq Nat \ {0} /\ Root \in Inum /\ Block \subseteq Nat /\ File \subseteq Nat \ {0}
  /\ Inum \subseteq 0 .. NINODES /\ 0 \notin Inum /\ Nobody \notin Proc
  /\ IsFiniteSet(Inum) /\ IsFiniteSet(File) /\ IsFiniteSet(Name) /\ IsFiniteSet(Proc)
<1>1. IsFiniteSet(Inum) /\ IsFiniteSet(File)
  BY FilesAssumption, FS_Interval DEF Inum, File
<1> QED
  BY <1>1, FilesAssumption DEF Inum, Root, Block, File

\* dirlookup() of a name other than "." and "..".
LEMMA NameLooked ==
  ASSUME NEW x, NEW d, NEW n \in Name
  PROVE  Dirlookup(x, d, n) = x.ents[d][n]
BY DEF Dirlookup

\* Such a name never leads to the root, whose references are not counted.
LEMMA FoundCounts ==
  ASSUME NEW x, NEW i, i # Root
  PROVE  Found(x, i) = Iget(x, i)
BY DEF Found

\* ilock() of an inode: the lock, and a copy read from disk unless there is one.
LEMMA IlockIs ==
  ASSUME NEW x \in Fs, NEW p \in Owner, NEW i \in Inum
  PROVE  /\ Ilock(x, p, i) \in Fs
         /\ Ilock(x, p, i).ino = x.ino /\ Ilock(x, p, i).ents = x.ents
         /\ Ilock(x, p, i).used = x.used /\ Ilock(x, p, i).ref = x.ref
         /\ Ilock(x, p, i).lock = [x.lock EXCEPT ![i] = p]
         /\ Ilock(x, p, i).valid = [x.valid EXCEPT ![i] = TRUE]
         /\ Ilock(x, p, i).ic = [x.ic EXCEPT ![i] = IF x.valid[i] THEN @ ELSE x.ino[i]]
BY DEF Ilock, Fs

\* iunlock() gives the lock back and does no more.
LEMMA IunlockIs ==
  ASSUME NEW x \in Fs, NEW i \in Inum
  PROVE  /\ Iunlock(x, i) \in Fs
         /\ Iunlock(x, i).ino = x.ino /\ Iunlock(x, i).ents = x.ents
         /\ Iunlock(x, i).used = x.used /\ Iunlock(x, i).ref = x.ref
         /\ Iunlock(x, i).lock = [x.lock EXCEPT ![i] = Nobody]
         /\ Iunlock(x, i).valid = x.valid
         /\ Iunlock(x, i).ic = x.ic
BY DEF Iunlock, Fs, Owner

\* iget() counts a reference, and starts an unreferenced slot afresh.
LEMMA IgetIs ==
  ASSUME NEW x \in Fs, NEW i \in Inum
  PROVE  /\ Iget(x, i) \in Fs
         /\ Iget(x, i).ino = x.ino /\ Iget(x, i).ents = x.ents
         /\ Iget(x, i).used = x.used /\ Iget(x, i).lock = x.lock
         /\ Iget(x, i).ref = [x.ref EXCEPT ![i] = @ + 1]
         /\ \A k \in Inum : Iget(x, i).valid[k] <=> x.valid[k] /\ (k = i => x.ref[i] > 0)
         /\ Iget(x, i).ic = x.ic
<1> DEFINE v == [x.valid EXCEPT ![i] = @ /\ x.ref[i] > 0]
           r == [x.ref EXCEPT ![i] = @ + 1]
<1>1. x.ref[i] \in Nat /\ r \in [Inum -> Nat]
  BY DEF Fs
<1>2. x.valid \in [Inum -> BOOLEAN]
  BY DEF Fs
<1>3. (x.valid[i] /\ x.ref[i] > 0) \in BOOLEAN
  OBVIOUS
<1>4. v \in [Inum -> BOOLEAN]
  BY <1>2, <1>3
<1>5. \A k \in Inum : v[k] <=> x.valid[k] /\ (k = i => x.ref[i] > 0)
  BY <1>2
<1>6. Iget(x, i) = [x EXCEPT !.ref = r, !.valid = v]
  BY DEF Iget, Fs
<1> HIDE DEF v, r
<1>7. /\ Iget(x, i) \in Fs
      /\ Iget(x, i).ino = x.ino /\ Iget(x, i).ents = x.ents
      /\ Iget(x, i).used = x.used /\ Iget(x, i).lock = x.lock
      /\ Iget(x, i).ref = r /\ Iget(x, i).valid = v /\ Iget(x, i).ic = x.ic
  BY <1>1, <1>4, <1>6 DEF Fs
<1> QED
  BY <1>5, <1>7 DEF r

\* iupdate() copies the inode to disk.
LEMMA IupdateIs ==
  ASSUME NEW x \in Fs, NEW i \in Inum, NEW v \in Inode
  PROVE  \E y \in Fs :
         /\ y = Iupdate([x EXCEPT !.ic[i] = v], i)
         /\ y.ents = x.ents /\ y.used = x.used
         /\ y.ref = x.ref /\ y.lock = x.lock /\ y.valid = x.valid
         /\ y.ino = [x.ino EXCEPT ![i] = v] /\ y.ic = [x.ic EXCEPT ![i] = v]
<1> DEFINE y == [x EXCEPT !.ino[i] = v, !.ic[i] = v]
<1>1. /\ y \in Fs /\ y.ents = x.ents /\ y.used = x.used
      /\ y.ref = x.ref /\ y.lock = x.lock /\ y.valid = x.valid
      /\ y.ino = [x.ino EXCEPT ![i] = v] /\ y.ic = [x.ic EXCEPT ![i] = v]
  BY DEF Fs
<1>2. Iupdate([x EXCEPT !.ic[i] = v], i) = y
  BY DEF Iupdate, Fs
<1> HIDE DEF y
<1> QED
  BY <1>1, <1>2

\* A change of the number of links, saved by iupdate().
LEMMA SetNlinkIs ==
  ASSUME NEW x \in Fs, NEW i \in Inum, NEW n \in Nat, x.ic[i] = x.ino[i]
  PROVE  /\ SetNlink(x, i, n) \in Fs
         /\ SetNlink(x, i, n).ents = x.ents /\ SetNlink(x, i, n).used = x.used
         /\ SetNlink(x, i, n).ref = x.ref /\ SetNlink(x, i, n).lock = x.lock
         /\ SetNlink(x, i, n).valid = x.valid
         /\ SetNlink(x, i, n).ino = [x.ino EXCEPT ![i].nlink = n]
         /\ SetNlink(x, i, n).ic = [x.ic EXCEPT ![i].nlink = n]
<1> DEFINE v == [x.ino[i] EXCEPT !.nlink = n]
<1>1. v \in Inode
  BY DEF Fs, Inode
<1>2. /\ [x EXCEPT !.ic[i].nlink = n] = [x EXCEPT !.ic[i] = v]
      /\ [x.ino EXCEPT ![i].nlink = n] = [x.ino EXCEPT ![i] = v]
      /\ [x.ic EXCEPT ![i].nlink = n] = [x.ic EXCEPT ![i] = v]
  BY DEF Fs
<1> HIDE DEF v
<1> QED
  BY <1>1, <1>2, IupdateIs DEF SetNlink

\* writei() beyond the end takes a free block.
LEMMA WriteiIs ==
  ASSUME NEW x \in Fs, NEW i \in Inum, FreeBlock(x) # {}, x.ic[i] = x.ino[i]
  PROVE  \E b \in FreeBlock(x) :
         /\ Writei(x, i) \in Fs
         /\ Writei(x, i).ents = x.ents /\ Writei(x, i).used = x.used \union {b}
         /\ Writei(x, i).ref = x.ref /\ Writei(x, i).lock = x.lock
         /\ Writei(x, i).valid = x.valid
         /\ Writei(x, i).ino = [x.ino EXCEPT ![i].addrs = @ \union {b}]
         /\ Writei(x, i).ic = [x.ic EXCEPT ![i].addrs = @ \union {b}]
<1>1. Min(FreeBlock(x)) \in FreeBlock(x)
  BY MinIn, Bounds DEF FreeBlock
<1>2. Min(FreeBlock(x)) \in Block
  BY <1>1 DEF FreeBlock
<1> DEFINE b == Min(FreeBlock(x))
           v == [x.ino[i] EXCEPT !.addrs = @ \union {b}]
           z == [x EXCEPT !.used = @ \union {b}]
<1>3. b \in Block /\ b \in FreeBlock(x)
  BY <1>1, <1>2
<1>4. Bmap(x, i) = [x EXCEPT !.used = @ \union {b}, !.ic[i].addrs = @ \union {b}]
  BY DEF Bmap
<1> HIDE DEF b
<1>5. /\ z \in Fs /\ z.ents = x.ents /\ z.used = x.used \union {b} /\ z.ref = x.ref
      /\ z.lock = x.lock /\ z.valid = x.valid /\ z.ino = x.ino /\ z.ic = x.ic
  BY <1>3 DEF Fs
<1>6. v \in Inode
  BY <1>3 DEF Fs, Inode
<1>7. /\ Bmap(x, i) = [z EXCEPT !.ic[i] = v]
      /\ [x.ino EXCEPT ![i].addrs = @ \union {b}] = [x.ino EXCEPT ![i] = v]
      /\ [x.ic EXCEPT ![i].addrs = @ \union {b}] = [x.ic EXCEPT ![i] = v]
  BY <1>4 DEF Fs
<1> HIDE DEF v, z
<1> DEFINE y == Iupdate([z EXCEPT !.ic[i] = v], i)
<1>8. /\ y \in Fs /\ y.ents = z.ents /\ y.used = z.used /\ y.ref = z.ref /\ y.lock = z.lock
      /\ y.valid = z.valid /\ y.ino = [z.ino EXCEPT ![i] = v] /\ y.ic = [z.ic EXCEPT ![i] = v]
  BY <1>5, <1>6, IupdateIs
<1>9. Writei(x, i) = y
  BY <1>7 DEF Writei
<1> HIDE DEF y
<1>10. /\ y \in Fs /\ y.ents = x.ents /\ y.used = x.used \union {b} /\ y.ref = x.ref
       /\ y.lock = x.lock /\ y.valid = x.valid
       /\ y.ino = [x.ino EXCEPT ![i].addrs = @ \union {b}]
       /\ y.ic = [x.ic EXCEPT ![i].addrs = @ \union {b}]
  BY <1>5, <1>7, <1>8
<1> QED
  BY <1>3, <1>9, <1>10

\* itrunc() gives the blocks back.
LEMMA ItruncIs ==
  ASSUME NEW x \in Fs, NEW i \in Inum, x.ic[i] = x.ino[i]
  PROVE  /\ Itrunc(x, i) \in Fs
         /\ Itrunc(x, i).ref = x.ref /\ Itrunc(x, i).lock = x.lock
         /\ Itrunc(x, i).valid = x.valid
         /\ Itrunc(x, i).ents = [x.ents EXCEPT ![i] = NoEntry]
         /\ Itrunc(x, i).used = x.used \ x.ino[i].addrs
         /\ Itrunc(x, i).ino = [x.ino EXCEPT ![i].addrs = {}]
         /\ Itrunc(x, i).ic = [x.ic EXCEPT ![i].addrs = {}]
<1>1. NoEntry \in [Name -> 0 .. NINODES]
  BY Bounds, FilesAssumption DEF NoEntry
<1> DEFINE v == [x.ino[i] EXCEPT !.addrs = {}]
           z == [x EXCEPT !.used = @ \ x.ino[i].addrs, !.ents[i] = NoEntry]
<1>2. /\ z \in Fs /\ z.ents = [x.ents EXCEPT ![i] = NoEntry]
      /\ z.used = x.used \ x.ino[i].addrs /\ z.ref = x.ref
      /\ z.lock = x.lock /\ z.valid = x.valid /\ z.ino = x.ino /\ z.ic = x.ic
  BY <1>1 DEF Fs
<1>3. v \in Inode
  BY DEF Fs, Inode
<1>4. /\ [Bfree(x, x.ic[i].addrs) EXCEPT !.ic[i].addrs = {}, !.ents[i] = NoEntry]
           = [z EXCEPT !.ic[i] = v]
      /\ [x.ino EXCEPT ![i].addrs = {}] = [x.ino EXCEPT ![i] = v]
      /\ [x.ic EXCEPT ![i].addrs = {}] = [x.ic EXCEPT ![i] = v]
  BY DEF Fs, Bfree
<1> HIDE DEF v, z
<1> DEFINE y == Iupdate([z EXCEPT !.ic[i] = v], i)
<1>5. /\ y \in Fs /\ y.ents = z.ents /\ y.used = z.used /\ y.ref = z.ref /\ y.lock = z.lock
      /\ y.valid = z.valid /\ y.ino = [z.ino EXCEPT ![i] = v] /\ y.ic = [z.ic EXCEPT ![i] = v]
  BY <1>2, <1>3, IupdateIs
<1>6. Itrunc(x, i) = y
  BY <1>4 DEF Itrunc
<1> HIDE DEF y
<1> QED
  BY <1>2, <1>4, <1>5, <1>6

\* What iput() does on disk to an inode without links.
LEMMA FreeInodeIs ==
  ASSUME NEW x \in Fs, NEW i \in Inum, x.ic[i] = x.ino[i]
  PROVE  /\ FreeInode(x, i) \in Fs
         /\ FreeInode(x, i).ref = x.ref /\ FreeInode(x, i).lock = x.lock
         /\ FreeInode(x, i).valid = x.valid
         /\ FreeInode(x, i).ents = [x.ents EXCEPT ![i] = NoEntry]
         /\ FreeInode(x, i).used = x.used \ x.ino[i].addrs
         /\ FreeInode(x, i).ino = [x.ino EXCEPT ![i].addrs = {}, ![i].type = "none"]
         /\ FreeInode(x, i).ic = [x.ic EXCEPT ![i].addrs = {}, ![i].type = "none"]
<1> DEFINE y == Itrunc(x, i)
<1>1. /\ y \in Fs /\ y.ref = x.ref /\ y.lock = x.lock /\ y.valid = x.valid
      /\ y.ents = [x.ents EXCEPT ![i] = NoEntry] /\ y.used = x.used \ x.ino[i].addrs
      /\ y.ino = [x.ino EXCEPT ![i].addrs = {}] /\ y.ic = [x.ic EXCEPT ![i].addrs = {}]
  BY ItruncIs
<1> DEFINE v == [x.ino[i] EXCEPT !.addrs = {}, !.type = "none"]
<1>2. FreeInode(x, i) = Iupdate([y EXCEPT !.ic[i].type = "none"], i)
  BY DEF FreeInode
<1> HIDE DEF y
<1>3. v \in Inode
  <2>1. x.ino[i] \in Inode
    BY DEF Fs
  <2> QED
    BY <2>1 DEF Inode, InodeTypes
<1>4. /\ [y EXCEPT !.ic[i].type = "none"] = [y EXCEPT !.ic[i] = v]
      /\ [x.ino EXCEPT ![i].addrs = {}, ![i].type = "none"] = [y.ino EXCEPT ![i] = v]
      /\ [x.ic EXCEPT ![i].addrs = {}, ![i].type = "none"] = [y.ic EXCEPT ![i] = v]
  BY <1>1 DEF Fs
<1> HIDE DEF v
<1> DEFINE w == Iupdate([y EXCEPT !.ic[i] = v], i)
<1>5. /\ w \in Fs /\ w.ents = y.ents /\ w.used = y.used /\ w.ref = y.ref /\ w.lock = y.lock
      /\ w.valid = y.valid /\ w.ino = [y.ino EXCEPT ![i] = v] /\ w.ic = [y.ic EXCEPT ![i] = v]
  BY <1>1, <1>3, IupdateIs
<1>6. FreeInode(x, i) = w
  BY <1>2, <1>4
<1> HIDE DEF w
<1> QED
  BY <1>1, <1>4, <1>5, <1>6

-----------------------------------------------------------------------------
(* What the writes of fs.c do to the disk *)

\* Locks, references and copies are not on disk.
LEMMA DiskSame ==
  ASSUME NEW x, NEW y, Disk(x), y.ino = x.ino, y.ents = x.ents, y.used = x.used
  PROVE  Disk(y)
BY DEF Disk, Owned, Shaped

\* A change of a number of links leaves blocks and entries alone.
LEMMA DiskNlink ==
  ASSUME NEW x \in Fs, NEW y \in Fs, NEW i \in Inum, NEW n \in Nat, Disk(x),
         y.ino = [x.ino EXCEPT ![i].nlink = n], y.ents = x.ents, y.used = x.used
  PROVE  Disk(y)
<1>1. /\ x.ino \in [Inum -> Inode]
      /\ \A j \in Inum : y.ino[j].type = x.ino[j].type /\ y.ino[j].addrs = x.ino[j].addrs
  BY DEF Fs, Inode
<1>2. Owned(y)
  BY <1>1 DEF Disk, Owned
<1>3. Shaped(y)
  BY <1>1, Bounds DEF Disk, Shaped
<1> QED
  BY <1>2, <1>3 DEF Disk

\* writei() takes a block nobody has.
LEMMA DiskWrite ==
  ASSUME NEW x \in Fs, NEW y \in Fs, NEW i \in Inum, NEW b \in FreeBlock(x), Disk(x),
         x.ino[i].type # "none",
         y.ino = [x.ino EXCEPT ![i].addrs = @ \union {b}], y.ents = x.ents,
         y.used = x.used \union {b}
  PROVE  Disk(y)
<1>1. /\ \A j \in Inum : y.ino[j].type = x.ino[j].type
      /\ \A j \in Inum : y.ino[j].addrs = IF j = i THEN x.ino[j].addrs \union {b}
                                          ELSE x.ino[j].addrs
  <2>1. x.ino \in [Inum -> Inode]
    BY DEF Fs
  <2>2. y.ino[i].type = x.ino[i].type /\ y.ino[i].addrs = x.ino[i].addrs \union {b}
    BY <2>1 DEF Inode
  <2>3. \A j \in Inum : j # i => y.ino[j] = x.ino[j]
    BY <2>1
  <2> QED
    BY <2>2, <2>3
<1>2. b \notin x.used
  BY DEF FreeBlock
<1>3. \A j \in Inum : b \notin x.ino[j].addrs
  BY <1>2 DEF Disk, Owned
<1>4. Owned(y)
  <2>1. y.used = UNION {y.ino[j].addrs : j \in Inum}
    <3>1. ASSUME NEW c, c \in y.used PROVE \E j \in Inum : c \in y.ino[j].addrs
      BY <1>1, <3>1 DEF Disk, Owned
    <3>2. ASSUME NEW j \in Inum, NEW c \in y.ino[j].addrs PROVE c \in y.used
      BY <1>1, <3>2 DEF Disk, Owned
    <3> QED
      BY <3>1, <3>2
  <2>2. ASSUME NEW j \in Inum, NEW k \in Inum, j # k
        PROVE  y.ino[j].addrs \intersect y.ino[k].addrs = {}
    BY <1>1, <1>3, <2>2 DEF Disk, Owned
  <2> QED
    BY <2>1, <2>2 DEF Owned
<1>5. Shaped(y)
  BY <1>1, Bounds DEF Disk, Shaped
<1> QED
  BY <1>4, <1>5 DEF Disk

\* dirlink() and unlink() write an entry of a directory.
LEMMA DiskEntry ==
  ASSUME NEW x \in Fs, NEW y \in Fs, NEW d \in Inum, NEW n \in Name, NEW i \in 0 .. NINODES,
         Disk(x), x.ino[d].type = "dir", i # Root,
         y.ino = x.ino, y.ents = [x.ents EXCEPT ![d][n] = i], y.used = x.used
  PROVE  Disk(y)
<1>1. \A e \in Inum, m \in Name :
        y.ents[e][m] = IF e = d /\ m = n THEN i ELSE x.ents[e][m]
  BY DEF Fs
<1>2. \A e \in Inum : e # d => y.ents[e] = x.ents[e]
  BY DEF Fs
<1>3. Owned(y)
  BY DEF Disk, Owned
<1>4. Shaped(y)
  BY <1>1, <1>2 DEF Disk, Shaped
<1> QED
  BY <1>3, <1>4 DEF Disk

\* itrunc() gives back the blocks of an inode, and only those.
LEMMA DiskTrunc ==
  ASSUME NEW x \in Fs, NEW y \in Fs, NEW i \in Inum, Disk(x), i # Root,
         y.ents = [x.ents EXCEPT ![i] = NoEntry], y.used = x.used \ x.ino[i].addrs,
         y.ino[i].addrs = {}, \A j \in Inum : j # i => y.ino[j] = x.ino[j]
  PROVE  Disk(y)
<1>1. y.ents[i] = NoEntry /\ \A j \in Inum : j # i => y.ents[j] = x.ents[j]
  BY DEF Fs
<1>2. Owned(y)
  <2>1. \A j \in Inum : y.ino[j].addrs = IF j = i THEN {} ELSE x.ino[j].addrs
    OBVIOUS
  <2>2. \A j \in Inum : j # i => x.ino[j].addrs \intersect x.ino[i].addrs = {}
    BY DEF Disk, Owned
  <2>3. y.used = UNION {y.ino[j].addrs : j \in Inum}
    <3>1. ASSUME NEW b, b \in y.used PROVE \E j \in Inum : b \in y.ino[j].addrs
      BY <2>1, <3>1 DEF Disk, Owned
    <3>2. ASSUME NEW j \in Inum, NEW b \in y.ino[j].addrs PROVE b \in y.used
      BY <2>1, <2>2, <3>2 DEF Disk, Owned
    <3> QED
      BY <3>1, <3>2
  <2>4. ASSUME NEW j \in Inum, NEW k \in Inum, j # k
        PROVE  y.ino[j].addrs \intersect y.ino[k].addrs = {}
    BY <2>1, <2>4 DEF Disk, Owned
  <2> QED
    BY <2>3, <2>4 DEF Owned
<1>3. Shaped(y)
  <2>1. \A n \in Name : NoEntry[n] # Root
    BY DEF NoEntry, Root
  <2>2. y.ino[Root].type = "dir"
    BY Bounds DEF Disk, Shaped
  <2>3. \A j \in Inum : /\ y.ino[j].type = "none" => y.ino[j].addrs = {}
                        /\ y.ino[j].type # "dir" => y.ents[j] = NoEntry
    BY <1>1 DEF Disk, Shaped
  <2>4. \A j \in Inum, n \in Name : y.ents[j][n] # Root
    BY <1>1, <2>1 DEF Disk, Shaped
  <2> QED
    BY <2>2, <2>3, <2>4 DEF Shaped
<1> QED
  BY <1>2, <1>3 DEF Disk

\* ialloc() takes an inode that has nothing.
LEMMA DiskAlloc ==
  ASSUME NEW x \in Fs, NEW y \in Fs, NEW i \in Inum, NEW type \in InodeTypes, Disk(x),
         x.ino[i].type = "none",
         y.ino = [x.ino EXCEPT ![i] = [NoInode EXCEPT !.type = type]], y.ents = x.ents,
         y.used = x.used
  PROVE  Disk(y)
<1>1. /\ x.ino \in [Inum -> Inode] /\ y.ino[i].type = type
      /\ \A j \in Inum : y.ino[j].addrs = x.ino[j].addrs /\ (j # i => y.ino[j] = x.ino[j])
  <2>1. x.ino \in [Inum -> Inode]
    BY DEF Fs
  <2>2. y.ino[i] = [NoInode EXCEPT !.type = type]
    BY <2>1
  <2>3. y.ino[i].type = type /\ y.ino[i].addrs = {}
    BY <2>2 DEF NoInode
  <2>4. x.ino[i].addrs = {}
    BY DEF Disk, Shaped
  <2> QED
    BY <2>1, <2>3, <2>4
<1>2. i # Root
  BY DEF Disk, Shaped
<1>3. Owned(y)
  BY <1>1 DEF Disk, Owned
<1>4. Shaped(y)
  <2>1. y.ino[Root].type = "dir"
    BY <1>1, <1>2, Bounds DEF Disk, Shaped, Root
  <2>2. x.ents[i] = NoEntry /\ x.ino[i].addrs = {}
    BY DEF Disk, Shaped
  <2>3. \A j \in Inum : /\ y.ino[j].type = "none" => y.ino[j].addrs = {}
                        /\ y.ino[j].type # "dir" => y.ents[j] = NoEntry
    BY <1>1, <2>2 DEF Disk, Shaped
  <2> QED
    BY <2>1, <2>3 DEF Disk, Shaped
<1> QED
  BY <1>3, <1>4 DEF Disk

-----------------------------------------------------------------------------
(* Counting references *)

\* What the processes of a set hold, when H says how much each does.
Count(H) == {e \in Proc \X (1 .. 4) : e[2] <= H[e[1]]}

\* When one process comes to hold m references, the count moves by the difference.
LEMMA CountMoves ==
  ASSUME NEW H \in [Proc -> 0 .. 4], NEW p \in Proc, NEW m \in 0 .. 4
  PROVE  /\ IsFiniteSet(Count(H)) /\ Cardinality(Count(H)) \in Nat
         /\ Cardinality(Count([H EXCEPT ![p] = m])) = Cardinality(Count(H)) + m - H[p]
<1> DEFINE rest == {e \in Count(H) : e[1] # p}
           mine(k) == {p} \X (1 .. k)
<1>1. IsFiniteSet(Count(H)) /\ Cardinality(Count(H)) \in Nat
  <2>1. IsFiniteSet(1 .. 4)
    <3>1. 1 \in Int /\ 4 \in Int
      OBVIOUS
    <3> QED
      BY <3>1, FS_Interval
  <2>2. IsFiniteSet(Proc \X (1 .. 4))
    BY <2>1, Bounds, FS_Product
  <2>3. Count(H) \in SUBSET (Proc \X (1 .. 4))
    BY DEF Count
  <2>4. IsFiniteSet(Count(H))
    BY <2>2, <2>3, FS_Subset
  <2> QED
    BY <2>4, FS_CardinalityType
<1>2. IsFiniteSet(rest)
  BY <1>1, FS_Subset
<1>3. ASSUME NEW k \in 0 .. 4
      PROVE  IsFiniteSet(mine(k)) /\ Cardinality(mine(k)) = k
  <2>1. IsFiniteSet({p}) /\ Cardinality({p}) = 1
    BY FS_Singleton
  <2>2. IsFiniteSet(1 .. k) /\ Cardinality(1 .. k) = k
    <3>1. 1 \in Int /\ k \in Int
      OBVIOUS
    <3>2. IsFiniteSet(1 .. k) /\ Cardinality(1 .. k) = IF 1 > k THEN 0 ELSE k - 1 + 1
      BY <3>1, FS_Interval
    <3> QED
      BY <3>2
  <2> QED
    BY <2>1, <2>2, FS_Product
<1>4. ASSUME NEW k \in 0 .. 4
      PROVE  Cardinality(rest \union mine(k)) = Cardinality(rest) + k
  <2>1. rest \intersect mine(k) = {}
    OBVIOUS
  <2>2. Cardinality(rest \intersect mine(k)) = 0
    BY <2>1, FS_EmptySet
  <2>3. Cardinality(rest) \in Nat
    BY <1>2, FS_CardinalityType
  <2>4. IsFiniteSet(mine(k)) /\ Cardinality(mine(k)) = k
    BY <1>3
  <2> HIDE DEF rest, mine
  <2>5. Cardinality(rest \union mine(k))
          = Cardinality(rest) + Cardinality(mine(k)) - Cardinality(rest \intersect mine(k))
    BY <1>2, <2>4, FS_Union
  <2> QED
    BY <2>2, <2>3, <2>4, <2>5
<1>5. Count(H) = rest \union mine(H[p])
  <2>1. ASSUME NEW e \in Count(H) PROVE e \in rest \union mine(H[p])
    <3>1. e \in Proc \X (1 .. 4) /\ e[2] <= H[e[1]]
      BY DEF Count
    <3> QED
      BY <3>1
  <2>2. ASSUME NEW e \in mine(H[p]) PROVE e \in Count(H)
    <3>1. e[1] = p /\ e[2] \in 1 .. H[p] /\ H[p] \in 0 .. 4
      OBVIOUS
    <3>2. e \in Proc \X (1 .. 4)
      BY <3>1
    <3> QED
      BY <3>1, <3>2 DEF Count
  <2> QED
    BY <2>1, <2>2
<1>6. Count([H EXCEPT ![p] = m]) = rest \union mine(m)
  <2> DEFINE G == [H EXCEPT ![p] = m]
  <2>1. G[p] = m /\ \A q \in Proc : q # p => G[q] = H[q]
    OBVIOUS
  <2> HIDE DEF G
  <2>2. ASSUME NEW e \in Count(G) PROVE e \in rest \union mine(m)
    <3>1. e \in Proc \X (1 .. 4) /\ e[2] <= G[e[1]]
      BY DEF Count
    <3>2. CASE e[1] = p
      BY <2>1, <3>1, <3>2
    <3>3. CASE e[1] # p
      BY <2>1, <3>1, <3>3 DEF Count
    <3> QED
      BY <3>2, <3>3
  <2>3. ASSUME NEW e \in mine(m) PROVE e \in Count(G)
    <3>1. e[1] = p /\ e[2] \in 1 .. m
      OBVIOUS
    <3>2. e \in Proc \X (1 .. 4)
      BY <3>1
    <3> QED
      BY <2>1, <3>1, <3>2 DEF Count
  <2>4. ASSUME NEW e \in rest PROVE e \in Count(G)
    <3>1. e \in Proc \X (1 .. 4) /\ e[2] <= H[e[1]] /\ e[1] # p
      BY DEF Count
    <3> QED
      BY <2>1, <3>1 DEF Count
  <2>5. Count(G) = rest \union mine(m)
    BY <2>2, <2>3, <2>4
  <2> QED
    BY <2>5 DEF G
<1>7. H[p] \in 0 .. 4 /\ Cardinality(rest) \in Nat
  BY <1>2, FS_CardinalityType
<1> HIDE DEF rest, mine
<1>8. Cardinality(rest \union mine(H[p])) = Cardinality(rest) + H[p]
  BY <1>4, <1>7
<1>9. Cardinality(rest \union mine(m)) = Cardinality(rest) + m
  BY <1>4
<1>10. Cardinality(Count(H)) = Cardinality(rest) + H[p]
  BY <1>5, <1>8
<1>11. Cardinality(Count([H EXCEPT ![p] = m])) = Cardinality(rest) + m
  BY <1>6, <1>9
<1> QED
  BY <1>1, <1>7, <1>10, <1>11

\* What each process holds of the inode i.
HeldOf(i) == [p \in Proc |-> Held(t[p], i)]

\* A call has each inode at most four times.
LEMMA HeldFew ==
  ASSUME NEW c, NEW i
  PROVE  Held(c, i) \in 0 .. 4
BY DEF Held, One

\* The references of the calls to i, by what each process holds of it.
LEMMA CallRefsCount ==
  ASSUME NEW i
  PROVE  CallRefs(i) = Count(HeldOf(i)) /\ HeldOf(i) \in [Proc -> 0 .. 4]
<1>1. \A p \in Proc : HeldOf(i)[p] = Held(t[p], i)
  BY DEF HeldOf
<1>2. ASSUME NEW e \in Proc \X (1 .. 4) PROVE HeldOf(i)[e[1]] = Held(t[e[1]], i)
  BY <1>1
<1>3. CallRefs(i) = Count(HeldOf(i))
  BY <1>2 DEF CallRefs, Count
<1> QED
  BY <1>3, HeldFew DEF HeldOf

\* When only p moves on, to the call c, the references of the calls change by what it
\* takes and drops.
LEMMA CallRefsMove ==
  ASSUME t \in [Proc -> Calls], NEW p \in Proc, NEW c, t' = [t EXCEPT ![p] = c], NEW i
  PROVE  /\ Cardinality(CallRefs(i)) \in Nat
         /\ Cardinality(CallRefs(i))' = Cardinality(CallRefs(i)) + Held(c, i) - Held(t[p], i)
<1>1. CallRefs(i) = Count(HeldOf(i)) /\ HeldOf(i) \in [Proc -> 0 .. 4]
  BY CallRefsCount
<1>2. CallRefs(i)' = Count([HeldOf(i) EXCEPT ![p] = Held(c, i)])
  <2> DEFINE G == [HeldOf(i) EXCEPT ![p] = Held(c, i)]
  <2>1. \A q \in Proc : G[q] = Held(t'[q], i)
    BY DEF HeldOf
  <2>2. ASSUME NEW e \in Proc \X (1 .. 4) PROVE G[e[1]] = Held(t'[e[1]], i)
    BY <2>1
  <2> HIDE DEF G
  <2>3. CallRefs(i)' = Count(G)
    BY <2>2 DEF CallRefs, Count, Held, HasDp, HasIp, PutAt, One
  <2> QED
    BY <2>3 DEF G
<1>3. HeldOf(i)[p] = Held(t[p], i)
  BY DEF HeldOf
<1>4. Held(c, i) \in 0 .. 4
  BY HeldFew
<1> HIDE DEF HeldOf, CallRefs, Held
<1>5. Cardinality(CallRefs(i)') = Cardinality(CallRefs(i)) + Held(c, i) - Held(t[p], i)
  BY <1>1, <1>2, <1>3, <1>4, CountMoves
<1> QED
  BY <1>1, <1>3, <1>4, <1>5, CountMoves

\* What two processes hold of an inode counts.
LEMMA HeldCounts ==
  ASSUME NEW p \in Proc, NEW q \in Proc, NEW i
  PROVE  /\ Held(t[p], i) <= Cardinality(CallRefs(i))
         /\ p # q => Held(t[p], i) + Held(t[q], i) <= Cardinality(CallRefs(i))
<1> DEFINE H == HeldOf(i)
           G == [H EXCEPT ![p] = 0]
           F == [G EXCEPT ![q] = 0]
<1>1. CallRefs(i) = Count(H) /\ H \in [Proc -> 0 .. 4]
  BY CallRefsCount
<1>2. H[p] = Held(t[p], i) /\ H[q] = Held(t[q], i)
  BY DEF HeldOf
<1> HIDE DEF H
<1>3. G \in [Proc -> 0 .. 4] /\ F \in [Proc -> 0 .. 4] /\ (p # q => G[q] = H[q])
  BY <1>1
<1>4. /\ Cardinality(Count(G)) = Cardinality(Count(H)) - H[p]
      /\ Cardinality(Count(H)) \in Nat
  <2>1. 0 \in 0 .. 4 /\ H[p] \in 0 .. 4
    BY <1>1
  <2>2. /\ Cardinality(Count([H EXCEPT ![p] = 0])) = Cardinality(Count(H)) + 0 - H[p]
        /\ Cardinality(Count(H)) \in Nat
    <3>1. H \in [Proc -> 0 .. 4]
      BY <1>1
    <3> HIDE DEF G
    <3> QED
      BY <2>1, <3>1, CountMoves
  <2> QED
    BY <2>1, <2>2
<1> HIDE DEF G
<1>5. /\ Cardinality(Count(F)) = Cardinality(Count(G)) - G[q]
      /\ Cardinality(Count(G)) \in Nat
  <2>1. 0 \in 0 .. 4 /\ G[q] \in 0 .. 4
    BY <1>3
  <2>2. /\ Cardinality(Count([G EXCEPT ![q] = 0])) = Cardinality(Count(G)) + 0 - G[q]
        /\ Cardinality(Count(G)) \in Nat
    BY <1>3, CountMoves
  <2> QED
    BY <2>1, <2>2
<1> HIDE DEF F
<1>6. Cardinality(Count(F)) \in Nat
  BY <1>3, CountMoves
<1>7. H[p] \in 0 .. 4 /\ G[q] \in 0 .. 4
  BY <1>1, <1>3
<1> QED
  BY <1>1, <1>2, <1>3, <1>4, <1>5, <1>6, <1>7

-----------------------------------------------------------------------------
(* What the invariant says of one inode *)

\* The types of the parts of a call, of a slot of the file table and of an inode.
LEMMA PartTypes ==
  ASSUME Types
  PROVE  /\ \A p \in Proc : /\ t[p] \in Calls /\ t[p].dp \in 0 .. NINODES
                            /\ t[p].ip \in 0 .. NINODES /\ t[p].path \in Seq(Name)
                            /\ t[p].puts \in Seq(Inum) /\ ofile[p] \in 0 .. NFILE
         /\ \A f \in File : file[f].ref \in Nat /\ file[f].ip \in 0 .. NINODES
         /\ s \in Fs
         /\ \A i \in Inum : /\ s.ino[i] \in Inode /\ s.ic[i] \in Inode
                            /\ s.ino[i].nlink \in Nat /\ s.ino[i].type \in InodeTypes
                            /\ s.ref[i] \in Nat /\ s.valid[i] \in BOOLEAN
                            /\ s.lock[i] \in Proc \union {Nobody}
         /\ \A d \in Inum, n \in Name : s.ents[d][n] \in 0 .. NINODES
<1>1. \A p \in Proc : t[p] \in Calls /\ ofile[p] \in 0 .. NFILE
  BY DEF Types
<1>2. \A f \in File : file[f].ref \in Nat /\ file[f].ip \in 0 .. NINODES
  BY DEF Types, FileTable
<1>3. s \in Fs
  BY DEF Types
<1>4. \A i \in Inum : /\ s.ino[i] \in Inode /\ s.ic[i] \in Inode
                      /\ s.ref[i] \in Nat /\ s.valid[i] \in BOOLEAN
                      /\ s.lock[i] \in Proc \union {Nobody}
  BY <1>3 DEF Fs, Owner
<1>5. \A d \in Inum, n \in Name : s.ents[d][n] \in 0 .. NINODES
  BY <1>3 DEF Fs
<1>6. \A i \in Inum : s.ino[i].nlink \in Nat /\ s.ino[i].type \in InodeTypes
  BY <1>4 DEF Inode
<1>7. \A p \in Proc : /\ t[p].dp \in 0 .. NINODES /\ t[p].ip \in 0 .. NINODES
                      /\ t[p].path \in Seq(Name) /\ t[p].puts \in Seq(Inum)
  BY <1>1 DEF Calls
<1> QED
  BY <1>1, <1>2, <1>3, <1>4, <1>5, <1>6, <1>7

\* Whoever frees an inode in iput() has it locked.
LEMMA FreerLocks ==
  ASSUME Locks, NEW p \in Proc, NEW i \in Inum, s.lock[i] \in {p, Nobody}, t[p].phase = "put"
  PROVE  ~Freeing(i)
<1> SUFFICES ASSUME NEW q \in Proc, PutAt(t[q], i, 1), t[q].phase = "freed"
             PROVE  FALSE
  BY DEF Freeing
<1>1. s.lock[i] = q
  BY DEF Locks, Locking
<1>2. q = p
  BY <1>1, Bounds
<1> QED
  BY <1>2

\* The copy of an inode that is not locked, or locked by a call that is not freeing
\* it, is what is on disk.
LEMMA Current ==
  ASSUME FilesInv, NEW p \in Proc, NEW i \in Inum, s.lock[i] \in {p, Nobody},
         t[p].phase = "put", s.valid[i]
  PROVE  s.ic[i] = s.ino[i] /\ s.ino[i].type # "none"
BY FreerLocks DEF FilesInv, Copies

\* A lock stands for a reference of its owner.
LEMMA LockedIsHeld ==
  ASSUME FilesInv, NEW i \in Inum, s.lock[i] # Nobody
  PROVE  i # Root => s.ref[i] > 0
<1> SUFFICES ASSUME i # Root PROVE s.ref[i] > 0
  OBVIOUS
<1>1. PICK p \in Proc : s.lock[i] = p
  BY PartTypes DEF FilesInv
<1>2. Locking(t[p], i)
  BY <1>1 DEF FilesInv, Locks
<1>3. Held(t[p], i) >= 1
  BY <1>2 DEF Locking, Held, HasDp, HasIp, One
<1>4. Held(t[p], i) <= Cardinality(CallRefs(i)) /\ Held(t[p], i) \in 0 .. 4
  BY HeldCounts, HeldFew
<1>5. Cardinality(CallRefs(i)) \in Nat
  <2>1. HeldOf(i) \in [Proc -> 0 .. 4] /\ CallRefs(i) = Count(HeldOf(i))
    BY CallRefsCount
  <2>2. 0 \in 0 .. 4
    OBVIOUS
  <2> QED
    BY <2>1, <2>2, CountMoves
<1>6. Cardinality(FileRefs(i)) \in Nat
  <2>1. FileRefs(i) \in SUBSET File
    BY DEF FileRefs
  <2>2. IsFiniteSet(FileRefs(i))
    BY <2>1, Bounds, FS_Subset
  <2> QED
    BY <2>2, FS_CardinalityType
<1>7. s.ref[i] = Cardinality(CallRefs(i)) + Cardinality(FileRefs(i))
  BY DEF FilesInv, References
<1> QED
  BY <1>3, <1>4, <1>5, <1>6, <1>7

\* An inode whose only reference p has is nobody else's and no file's.
LEMMA OnlyReference ==
  ASSUME FilesInv, NEW p \in Proc, NEW i \in Inum, i # Root, s.ref[i] = 1, Held(t[p], i) >= 1
  PROVE  /\ FileRefs(i) = {} /\ Held(t[p], i) = 1
         /\ \A q \in Proc : q # p => Held(t[q], i) = 0
<1>1. Held(t[p], i) <= Cardinality(CallRefs(i)) /\ Held(t[p], i) \in 0 .. 4
  BY HeldCounts, HeldFew
<1>2. Cardinality(CallRefs(i)) \in Nat
  <2>1. HeldOf(i) \in [Proc -> 0 .. 4] /\ CallRefs(i) = Count(HeldOf(i))
    BY CallRefsCount
  <2>2. 0 \in 0 .. 4
    OBVIOUS
  <2> QED
    BY <2>1, <2>2, CountMoves
<1>3. IsFiniteSet(FileRefs(i))
  <2>1. FileRefs(i) \in SUBSET File
    BY DEF FileRefs
  <2> QED
    BY <2>1, Bounds, FS_Subset
<1>4. Cardinality(FileRefs(i)) \in Nat
  BY <1>3, FS_CardinalityType
<1>5. s.ref[i] = Cardinality(CallRefs(i)) + Cardinality(FileRefs(i))
  BY DEF FilesInv, References
<1>6. Cardinality(CallRefs(i)) = 1 /\ Cardinality(FileRefs(i)) = 0 /\ Held(t[p], i) = 1
  BY <1>1, <1>2, <1>4, <1>5
<1>7. FileRefs(i) = {}
  BY <1>3, <1>6, FS_EmptySet
<1>8. ASSUME NEW q \in Proc, q # p PROVE Held(t[q], i) = 0
  BY <1>6, <1>8, HeldCounts, HeldFew
<1> QED
  BY <1>6, <1>7, <1>8

\* A set of names, of calls or of entries is finite.
LEMMA Finite ==
  ASSUME NEW i
  PROVE  /\ IsFiniteSet(Entries(i)) /\ Cardinality(Entries(i)) \in Nat
         /\ IsFiniteSet(Pending(i)) /\ Cardinality(Pending(i)) \in Nat
         /\ IsFiniteSet(Subs(i)) /\ Cardinality(Subs(i)) \in Nat
         /\ IsFiniteSet(FileRefs(i)) /\ Cardinality(FileRefs(i)) \in Nat
<1>1. IsFiniteSet(Inum \X Name)
  BY Bounds, FS_Product
<1>2. /\ Entries(i) \in SUBSET (Inum \X Name) /\ Pending(i) \in SUBSET Proc
      /\ Subs(i) \in SUBSET Name /\ FileRefs(i) \in SUBSET File
  BY DEF Entries, Pending, Subs, FileRefs
<1>3. /\ IsFiniteSet(Entries(i)) /\ IsFiniteSet(Pending(i)) /\ IsFiniteSet(Subs(i))
      /\ IsFiniteSet(FileRefs(i))
  BY <1>1, <1>2, Bounds, FS_Subset
<1> QED
  BY <1>3, FS_CardinalityType

\* An inode with a name counts a link.
LEMMA NamedIsLinked ==
  ASSUME FilesInv, NEW d \in Inum, NEW n \in Name, s.ents[d][n] # 0
  PROVE  /\ s.ino[d].type = "dir" /\ s.ents[d][n] \in Inum \ {Root}
         /\ <<d, n>> \in Entries(s.ents[d][n])
         /\ Cardinality(Entries(s.ents[d][n])) >= 1
         /\ s.ino[s.ents[d][n]].nlink >= 1 /\ s.ino[s.ents[d][n]].type # "none"
<1> DEFINE i == s.ents[d][n]
<1>1. i \in Inum /\ i # Root
  <2>1. i \in 0 .. NINODES
    BY PartTypes DEF FilesInv
  <2> QED
    BY <2>1 DEF FilesInv, Disk, Shaped, Inum
<1>2. s.ino[d].type = "dir"
  <2>1. CASE s.ents[d] = NoEntry
    BY <2>1 DEF NoEntry
  <2> QED
    BY <2>1 DEF FilesInv, Disk, Shaped
<1>3. <<d, n>> \in Entries(i)
  BY <1>2 DEF Entries
<1>4. Cardinality(Entries(i)) >= 1
  <2>1. Cardinality(Entries(i)) # 0
    BY <1>3, Finite, FS_EmptySet
  <2> QED
    BY <2>1, Finite
<1>5. s.ino[i].nlink >= 1
  <2>1. s.ino[i].nlink >= Cardinality(Entries(i)) + Cardinality(Pending(i))
                          + Cardinality(Subs(i)) + One(i = Root)
    BY <1>1 DEF FilesInv, Links
  <2>2. One(i = Root) \in Nat /\ s.ino[i].nlink \in Nat
    BY <1>1, PartTypes DEF One, FilesInv
  <2> HIDE DEF i
  <2> QED
    BY <1>4, <2>1, <2>2, Finite
<1>6. s.ino[i].type # "none"
  BY DEF FilesInv, Allocated
<1> QED
  BY <1>1, <1>2, <1>3, <1>4, <1>5, <1>6

-----------------------------------------------------------------------------
(* A step in which p goes on to the call c, part by part *)

Goes(p, c) == c \in Calls /\ t' = [t EXCEPT ![p] = c]

\* p takes and drops locks and references as its call says, ...
LockMoves(p, c) ==
  \A i \in Inum : /\ s'.lock[i] = p <=> Locking(c, i)
                  /\ s'.lock[i] = s.lock[i] \/ {s.lock[i], s'.lock[i]} \subseteq {p, Nobody}
RefMoves(p, c) ==
  /\ s'.ref[Root] = 0
  /\ \A i \in Inum : i # Root => s'.ref[i] = s.ref[i] + Held(c, i) - Held(t[p], i)
\* ... comes to inodes by a name, a file or an allocation, ...
LiveMoves(p, c) ==
  \A i \in Inum : Live(c, i) =>
    Live(t[p], i) \/ s.ino[i].nlink >= 1 \/ FileRefs(i) # {} \/ s.ino[i].type = "none"
FileMoves(p) ==
  \A f \in File : file'[f].ref > 0 =>
    \/ file[f].ref > 0 /\ file'[f].ip = file[f].ip
    \/ t[p].pc = "opened" /\ file'[f].ip = t[p].ip
\* ... and writes inodes that are its own, free, or nobody's.
InoMoves(p) ==
  \A i \in Inum :
    \/ /\ s'.ino[i].type = s.ino[i].type
       /\ s'.ino[i].nlink = s.ino[i].nlink \/ Live(t[p], i)
    \/ s.ino[i].type = "none"
    \/ /\ FileRefs(i) = {} /\ (t[p].pc = "opened" => t[p].ip # i)
       /\ \A q \in Proc : q # p => ~Live(t[q], i)
       /\ \A d \in Inum, n \in Name : s'.ents[d][n] # i
       /\ Entries(i) = {} /\ Subject(p) # i
EntMoves(p) ==
  \A d \in Inum, n \in Name : s'.ents[d][n] # s.ents[d][n] =>
    /\ s.lock[d] \in {p, Nobody}
    /\ s'.ents[d][n] # 0 => s'.ino[s'.ents[d][n]].type # "none"

\* What such a step keeps: the invariant, and what is freed was nobody's.
FreedUnused ==
  \A i \in Inum : s.ino[i].type # "none" /\ s'.ino[i].type = "none" =>
    /\ Entries(i) = {}
    /\ \A f \in File : file[f].ref > 0 => file[f].ip # i
    /\ \A q \in Proc : Subject(q) # i
Kept == FilesInv' /\ FreedUnused

\* The inode that a call locks next is one it has a reference to.
LEMMA SubjectIsLive ==
  ASSUME FilesInv, NEW p \in Proc, Subject(p) # 0
  PROVE  /\ Subject(p) \in Inum /\ Live(t[p], Subject(p)) /\ s.ino[Subject(p)].type # "none"
         /\ (Subject(p) = t[p].dp /\ HasDp(t[p])) \/ (Subject(p) = t[p].ip /\ HasIp(t[p]))
<1>1. Place(t[p]) /\ AllocatedTo(s, t[p])
  BY DEF FilesInv, Places, Allocated
<1>2. (Subject(p) = t[p].dp /\ HasDp(t[p])) \/ (Subject(p) = t[p].ip /\ HasIp(t[p]))
  BY DEF Subject, HasDp, HasIp
<1>3. Subject(p) \in Inum
  BY <1>1, <1>2 DEF Place
<1>4. Live(t[p], Subject(p))
  BY <1>2 DEF Live
<1> QED
  BY <1>1, <1>2, <1>3, <1>4 DEF AllocatedTo

\* The parts of the invariant that speak of all the processes follow.
LEMMA StepKeeps ==
  ASSUME FilesInv, NEW p \in Proc, NEW c, Goes(p, c), Running, boot' = boot,
         Types', References', Place(c), LockMoves(p, c), Copies', Disk(s)', Links',
         AllocatedTo(s', c), NewTo(p)', LiveMoves(p, c), FileMoves(p), InoMoves(p), EntMoves(p)
  PROVE  Kept
<1>1. t'[p] = c /\ \A q \in Proc : q # p => t'[q] = t[q]
  BY DEF Goes, FilesInv, Types
<1>2. Places'
  <2>1. \A q \in Proc : Place(t'[q])
    BY <1>1 DEF FilesInv, Places
  <2> QED
    BY <2>1 DEF Places, Place, Live, HasDp, HasIp, PutAt
<1>3. Locks'
  <2>1. ASSUME NEW q \in Proc, NEW i \in Inum
        PROVE  s'.lock[i] = q <=> Locking(t'[q], i)
    <3>1. CASE q = p
      BY <1>1, <3>1 DEF LockMoves
    <3>2. CASE q # p
      <4>1. s.lock[i] = q <=> Locking(t[q], i)
        BY DEF FilesInv, Locks
      <4>2. s'.lock[i] = q <=> s.lock[i] = q
        BY <3>2, Bounds DEF LockMoves
      <4> QED
        BY <1>1, <3>2, <4>1, <4>2
    <3> QED
      BY <3>1, <3>2
  <2> QED
    BY <2>1 DEF Locks, Locking, PutAt
<1>4. ASSUME NEW q \in Proc, q # p, NEW i \in Inum, Live(t[q], i)
      PROVE  s'.ino[i].type = s.ino[i].type /\ s.ino[i].type # "none"
  <2>1. s.ino[i].type # "none"
    BY <1>4 DEF FilesInv, Allocated, AllocatedTo
  <2> QED
    BY <1>4, <2>1 DEF InoMoves
<1>5. Allocated'
  <2>1. ASSUME NEW q \in Proc, q # p PROVE AllocatedTo(s', t'[q])
    <3>1. t'[q] = t[q] /\ AllocatedTo(s, t[q]) /\ Place(t[q])
      BY <1>1, <2>1 DEF FilesInv, Allocated, Places
    <3>2. \A i \in Inum : Live(t'[q], i) => s'.ino[i].type # "none"
      BY <1>4, <2>1, <3>1
    <3>3. t[q].pc \in {"bad", "unlink", "unlink_ip", "link_new", "create", "create_new"}
            => s'.ino[t[q].dp].type = "dir"
      BY <1>4, <2>1, <3>1 DEF AllocatedTo, Live, HasDp, Place
    <3>4. t[q].pc \in {"walk_new", "link_new", "link_bad"} => s'.ino[t[q].ip].type # "dir"
      BY <1>4, <2>1, <3>1 DEF AllocatedTo, Live, HasIp, Place
    <3>5. t[q].pc = "unlink_ip" => s'.ents[t[q].dp][Head(t[q].path)] = t[q].ip
      <4> SUFFICES ASSUME t[q].pc = "unlink_ip"
                   PROVE  s'.ents[t[q].dp][Head(t[q].path)] = t[q].ip
        OBVIOUS
      <4>1. t[q].dp \in Inum /\ t[q].path # <<>>
        BY <3>1 DEF Place, HasDp
      <4>2. t[q].path \in Seq(Name)
        BY PartTypes DEF FilesInv
      <4>3. Head(t[q].path) \in Name
        BY <4>1, <4>2
      <4>4. s.lock[t[q].dp] = q
        BY <4>1 DEF FilesInv, Locks, Locking
      <4>5. s'.ents[t[q].dp][Head(t[q].path)] = s.ents[t[q].dp][Head(t[q].path)]
        BY <2>1, <4>1, <4>3, <4>4, Bounds DEF EntMoves
      <4> QED
        BY <3>1, <4>5 DEF AllocatedTo
    <3> QED
      BY <3>1, <3>2, <3>3, <3>4, <3>5
         DEF AllocatedTo, Live, HasDp, HasIp, PutAt
  <2>2. \A q \in Proc : AllocatedTo(s', t'[q])
    <3>1. AllocatedTo(s', t'[p])
      BY <1>1 DEF AllocatedTo, Live, HasDp, HasIp, PutAt
    <3> QED
      BY <2>1, <3>1
  <2>3. ASSUME NEW f \in File, file'[f].ref > 0
        PROVE  file'[f].ip \in Inum \ {Root} /\ s'.ino[file'[f].ip].type # "none"
    <3>1. CASE file[f].ref > 0 /\ file'[f].ip = file[f].ip
      <4>1. file[f].ip \in Inum \ {Root} /\ s.ino[file[f].ip].type # "none"
        BY <3>1 DEF FilesInv, Allocated
      <4>2. f \in FileRefs(file[f].ip)
        BY <3>1 DEF FileRefs
      <4> QED
        BY <3>1, <4>1, <4>2 DEF InoMoves
    <3>2. CASE t[p].pc = "opened" /\ file'[f].ip = t[p].ip
      <4>1. t[p].ip \in Inum \ {Root} /\ Live(t[p], t[p].ip)
        BY <3>2 DEF FilesInv, Places, Place, HasIp, Live
      <4>2. s.ino[t[p].ip].type # "none"
        BY <4>1 DEF FilesInv, Allocated, AllocatedTo
      <4> QED
        BY <3>2, <4>1, <4>2 DEF InoMoves
    <3> QED
      BY <2>3, <3>1, <3>2 DEF FileMoves
  <2>4. ASSUME NEW d \in Inum, NEW n \in Name, s'.ents[d][n] # 0
        PROVE  s'.ino[s'.ents[d][n]].type # "none"
    <3>1. CASE s'.ents[d][n] = s.ents[d][n]
      <4>1. s.ents[d][n] \in Inum /\ s.ino[s.ents[d][n]].type # "none"
        BY <2>4, <3>1, NamedIsLinked
      <4> QED
        BY <3>1, <4>1 DEF InoMoves
    <3> QED
      BY <2>4, <3>1 DEF EntMoves
  <2> QED
    BY <2>2, <2>3, <2>4 DEF Allocated
<1>6. NewInodes'
  <2>1. ASSUME NEW q \in Proc, q # p PROVE NewTo(q)'
    <3> SUFFICES ASSUME t'[q].pc = "create_new"
                 PROVE  /\ s'.ino[t'[q].ip].type = TypeOf(t'[q].kind)
                        /\ s'.ino[t'[q].ip].nlink = 0
                        /\ \A r \in Proc : r # q => ~Live(t'[r], t'[q].ip)
                        /\ {f \in File : file'[f].ref > 0 /\ file'[f].ip = t'[q].ip} = {}
      BY DEF NewTo, Live, HasDp, HasIp, PutAt, FileRefs
    <3> DEFINE i == t[q].ip
    <3>1. t'[q] = t[q] /\ t[q].pc = "create_new" /\ i \in Inum /\ Live(t[q], i)
      BY <1>1, <2>1 DEF FilesInv, Places, Place, HasIp, Live
    <3>2. /\ s.ino[i].type = TypeOf(t[q].kind) /\ s.ino[i].nlink = 0
          /\ \A r \in Proc : r # q => ~Live(t[r], i)
          /\ FileRefs(i) = {}
      BY <3>1 DEF FilesInv, NewInodes, NewTo
    <3> HIDE DEF i
    <3>3. s.ino[i].type # "none"
      BY <3>1 DEF FilesInv, Allocated, AllocatedTo
    <3>4. s'.ino[i].type = s.ino[i].type /\ s'.ino[i].nlink = s.ino[i].nlink
      BY <2>1, <3>1, <3>2, <3>3 DEF InoMoves
    <3>5. ~Live(c, i)
      BY <2>1, <3>1, <3>2, <3>3 DEF LiveMoves
    <3>6. \A r \in Proc : r # q => ~Live(t'[r], i)
      BY <1>1, <3>2, <3>5
    <3>7. \A f \in File : ~(file'[f].ref > 0 /\ file'[f].ip = i)
      <4> SUFFICES ASSUME NEW f \in File, file'[f].ref > 0, file'[f].ip = i
                   PROVE  FALSE
        OBVIOUS
      <4>1. f \notin FileRefs(i)
        BY <3>2
      <4>2. t[p].pc = "opened" /\ t[p].ip = i
        BY <4>1 DEF FileMoves, FileRefs
      <4>3. Live(t[p], i)
        BY <4>2 DEF Live, HasIp
      <4> QED
        BY <2>1, <3>2, <4>3
    <3> QED
      BY <3>1, <3>2, <3>4, <3>6, <3>7 DEF i
  <2> QED
    BY <2>1 DEF NewInodes
<1>7. Booting'
  BY DEF Booting, Running
<1>8. FilesInv'
  BY <1>2, <1>3, <1>5, <1>6, <1>7 DEF FilesInv
<1>9. FreedUnused
  <2> SUFFICES ASSUME NEW i \in Inum, s.ino[i].type # "none", s'.ino[i].type = "none"
               PROVE  /\ Entries(i) = {}
                      /\ \A f \in File : file[f].ref > 0 => file[f].ip # i
                      /\ \A q \in Proc : Subject(q) # i
    BY DEF FreedUnused
  <2>1. /\ FileRefs(i) = {} /\ Entries(i) = {} /\ Subject(p) # i
        /\ \A q \in Proc : q # p => ~Live(t[q], i)
    BY DEF InoMoves
  <2>2. \A f \in File : file[f].ref > 0 => file[f].ip # i
    BY <2>1 DEF FileRefs
  <2>3. ASSUME NEW q \in Proc, q # p PROVE Subject(q) # i
    <3>1. i # 0
      BY Bounds
    <3> QED
      BY <2>1, <2>3, <3>1, SubjectIsLive
  <2> QED
    BY <2>1, <2>2, <2>3
<1> QED
  BY <1>8, <1>9 DEF Kept

\* The reference counts stay right when the files are left alone.
LEMMA RefsMove ==
  ASSUME FilesInv, NEW p \in Proc, NEW c, Goes(p, c), RefMoves(p, c), UNCHANGED <<file, ofile>>
  PROVE  References'
<1>1. t \in [Proc -> Calls] /\ t' = [t EXCEPT ![p] = c]
  BY DEF FilesInv, Types, Goes
<1>2. ASSUME NEW i \in Inum, i # Root
      PROVE  s'.ref[i] = Cardinality(CallRefs(i))' + Cardinality(FileRefs(i))'
  <2>1. /\ Cardinality(CallRefs(i)) \in Nat
        /\ Cardinality(CallRefs(i))' = Cardinality(CallRefs(i)) + Held(c, i) - Held(t[p], i)
    BY <1>1, CallRefsMove
  <2>2. FileRefs(i)' = FileRefs(i)
    BY DEF FileRefs
  <2>3. s.ref[i] = Cardinality(CallRefs(i)) + Cardinality(FileRefs(i))
    BY <1>2 DEF FilesInv, References
  <2>4. s'.ref[i] = s.ref[i] + Held(c, i) - Held(t[p], i)
    BY <1>2 DEF RefMoves
  <2>5. Held(c, i) \in 0 .. 4 /\ Held(t[p], i) \in 0 .. 4 /\ Cardinality(FileRefs(i)) \in Nat
    BY HeldFew, Finite
  <2> QED
    BY <2>1, <2>2, <2>3, <2>4, <2>5
<1>3. \A f \in File : file'[f].ref = Cardinality({q \in Proc : ofile'[q] = f})
  BY DEF FilesInv, References
<1> QED
  BY <1>2, <1>3 DEF References, RefMoves

\* The copies stay right when each is left alone or taken from the disk.
LEMMA CopiesMove ==
  ASSUME FilesInv, NEW p \in Proc, NEW c, Goes(p, c), t[p].phase # "freed",
         \A i \in Inum :
           /\ s'.valid[i] => \/ s.valid[i] /\ s'.ic[i] = s.ic[i] /\ s'.ino[i] = s.ino[i]
                             \/ s'.ic[i] = s'.ino[i] /\ s'.ino[i].type # "none"
           /\ s'.lock[i] # Nobody => s'.valid[i]
  PROVE  Copies'
<1>1. \A q \in Proc : q # p => t'[q] = t[q]
  BY DEF Goes, FilesInv, Types
<1>2. ASSUME NEW i \in Inum, Freeing(i) PROVE Freeing(i)'
  BY <1>1, <1>2 DEF Freeing, PutAt
<1> QED
  BY <1>2 DEF FilesInv, Copies

\* The pending links change with the call of p.
LEMMA PendingMoves ==
  ASSUME t \in [Proc -> Calls], NEW p \in Proc, NEW c, t' = [t EXCEPT ![p] = c], NEW i
  PROVE  Cardinality(Pending(i))' = Cardinality(Pending(i)) + (IF Pends(c, i) THEN 1 ELSE 0)
                                    - (IF Pends(t[p], i) THEN 1 ELSE 0)
<1> DEFINE rest == Pending(i) \ {p}
<1>1. \A q \in Proc : t'[q] = IF q = p THEN c ELSE t[q]
  OBVIOUS
<1>2. /\ Pends(t[p], i) <=> p \in Pending(i)
      /\ Pending(i)' = IF Pends(c, i) THEN rest \union {p} ELSE rest
  BY <1>1 DEF Pending, Pends
<1>3. /\ IsFiniteSet(Pending(i)) /\ Cardinality(Pending(i)) \in Nat
      /\ IsFiniteSet(rest)
      /\ Cardinality(rest) = IF p \in Pending(i) THEN Cardinality(Pending(i)) - 1
                             ELSE Cardinality(Pending(i))
  BY Finite, FS_RemoveElement
<1>4. Cardinality(rest \union {p}) = Cardinality(rest) + 1
  BY <1>3, FS_AddElement
<1> HIDE DEF rest
<1>5. CASE Pends(c, i)
  BY <1>2, <1>3, <1>4, <1>5
<1>6. CASE ~Pends(c, i)
  BY <1>2, <1>3, <1>6
<1> QED
  BY <1>5, <1>6

\* The links stay enough when entries and types are left alone.
LEMMA LinksMove ==
  ASSUME FilesInv, Types', NEW p \in Proc, NEW c, Goes(p, c), s'.ents = s.ents,
         \A i \in Inum :
           /\ s'.ino[i].type = s.ino[i].type
           /\ s'.ino[i].nlink - s.ino[i].nlink
                >= (IF Pends(c, i) THEN 1 ELSE 0) - (IF Pends(t[p], i) THEN 1 ELSE 0)
  PROVE  Links'
<1>1. t \in [Proc -> Calls] /\ t' = [t EXCEPT ![p] = c]
  BY DEF FilesInv, Types, Goes
<1>2. ASSUME NEW i \in Inum
      PROVE  s'.ino[i].nlink >= Cardinality(Entries(i))' + Cardinality(Pending(i))'
                                + Cardinality(Subs(i))' + One(i = Root)
  <2>1. Cardinality(Pending(i))' = Cardinality(Pending(i)) + (IF Pends(c, i) THEN 1 ELSE 0)
                                   - (IF Pends(t[p], i) THEN 1 ELSE 0)
    BY <1>1, PendingMoves
  <2>2. Entries(i)' = Entries(i)
    <3>1. \A e \in Inum \X Name : e[1] \in Inum
      OBVIOUS
    <3> QED
      BY <3>1 DEF Entries
  <2>3. Subs(i)' = Subs(i)
    <3>1. \A n \in Name : s.ents[i][n] # 0 => s.ents[i][n] \in Inum
      BY NamedIsLinked
    <3> QED
      BY <3>1 DEF Subs
  <2>4. s.ino[i].nlink >= Cardinality(Entries(i)) + Cardinality(Pending(i))
                          + Cardinality(Subs(i)) + One(i = Root)
    BY DEF FilesInv, Links
  <2>5. One(i = Root) \in Nat
    BY DEF One
  <2>6. s.ino[i].nlink \in Nat /\ s'.ino[i].nlink \in Nat
    <3>1. Types
      BY DEF FilesInv
    <3>2. s'.ino[i] \in Inode
      BY DEF Types, Fs
    <3> QED
      BY <3>1, <3>2, PartTypes DEF Inode
  <2> QED
    BY <2>1, <2>2, <2>3, <2>4, <2>5, <2>6, Finite
<1> QED
  BY <1>2 DEF Links, One

\* Calls are made, and files used, when recovery is over.
LEMMA StepsRun ==
  ASSUME FilesInv, NEW p \in Proc, t[p].pc # "idle" \/ ofile[p] # 0
  PROVE  Running
BY DEF FilesInv, Booting, Quiet

-----------------------------------------------------------------------------
(* Calls on their way out, and inodes locked to be looked at *)

EndCall(is)         == [Quiet EXCEPT !.pc = "end", !.puts = Puts(is)]
MovedCall(p, pc, is) == [t[p] EXCEPT !.pc = pc, !.puts = Puts(is)]

\* What is left of the references to give back: the root is not counted.
LEMMA PutsIs ==
  /\ Puts(<<>>) = <<>>
  /\ \A d \in Inum : Puts(<<d>>) = IF d = Root THEN <<>> ELSE <<d>>
  /\ \A d, i \in Inum : Puts(<<d, i>>) = IF d = Root THEN <<i>> ELSE <<d, i>>
BY DEF Puts

\* A call without references to give back.
LEMMA PutNone ==
  ASSUME NEW c, c.puts = <<>>
  PROVE  c.puts \in Seq(Inum) /\ \A j : ~PutAt(c, j, 1) /\ ~PutAt(c, j, 2)
BY DEF PutAt

\* The same for a call that gives back d, or nothing.
LEMMA PutOne ==
  ASSUME NEW c, NEW d \in Inum, c.puts = Puts(<<d>>)
  PROVE  /\ c.puts \in Seq(Inum) /\ Len(c.puts) <= 1
         /\ \A j : PutAt(c, j, 1) <=> j = d /\ d # Root
         /\ \A j : ~PutAt(c, j, 2)
<1>1. CASE d = Root
  <2>1. c.puts = <<>>
    BY <1>1, PutsIs
  <2>2. c.puts \in Seq(Inum) /\ \A j : ~PutAt(c, j, 1) /\ ~PutAt(c, j, 2)
    BY <2>1, PutNone
  <2>3. Len(c.puts) = 0
    BY <2>1
  <2> QED
    BY <1>1, <2>2, <2>3
<1>2. CASE d # Root
  <2>1. c.puts = <<d>>
    BY <1>2, PutsIs
  <2>2. Len(c.puts) = 1 /\ c.puts[1] = d /\ c.puts \in Seq(Inum)
    <3>1. <<d>> \in Seq(Inum) /\ Len(<<d>>) = 1 /\ <<d>>[1] = d
      OBVIOUS
    <3> QED
      BY <2>1, <3>1
  <2> QED
    BY <1>2, <2>2 DEF PutAt
<1> QED
  BY <1>1, <1>2

\* A call that ends.
LEMMA EndCallIs ==
  ASSUME NEW is \in Seq(Inum)
  PROVE  /\ EndCall(is) \in Calls /\ EndCall(is).pc = "end" /\ EndCall(is).puts = Puts(is)
         /\ EndCall(is).phase = "put"
         /\ \A p \in Proc : To(p, "end", is) => Goes(p, EndCall(is))
<1>1. Puts(is) \in Seq(Inum)
  BY DEF Puts
<1>2. EndCall(is) \in Calls
  <2>1. 0 \in 0 .. NINODES
    BY FilesAssumption
  <2>2. Quiet \in Calls
    BY <2>1 DEF Quiet, Calls, Labels, Kinds
  <2>3. "end" \in Labels
    BY DEF Labels
  <2> HIDE DEF Quiet, Labels, Kinds
  <2> QED
    BY <1>1, <2>2, <2>3 DEF EndCall, Calls
<1>3. /\ EndCall(is).pc = "end" /\ EndCall(is).puts = Puts(is)
      /\ EndCall(is).phase = "put"
  BY DEF EndCall, Quiet
<1>4. ASSUME NEW p \in Proc, To(p, "end", is) PROVE t' = [t EXCEPT ![p] = EndCall(is)]
  BY <1>4 DEF To, EndCall
<1> QED
  BY <1>2, <1>3, <1>4 DEF Goes

\* A call that ends and gives back d has d, and nothing else.
LEMMA EndOne ==
  ASSUME NEW d \in Inum, NEW c, c = EndCall(<<d>>)
  PROVE  /\ c \in Calls /\ c.pc = "end" /\ c.phase = "put" /\ Place(c)
         /\ \A p \in Proc : To(p, "end", <<d>>) => Goes(p, c)
         /\ \A j : /\ Held(c, j) = One(j = d /\ d # Root)
                   /\ Live(c, j) <=> j = d /\ d # Root
                   /\ ~Locking(c, j) /\ ~Pends(c, j)
<1>1. <<d>> \in Seq(Inum)
  OBVIOUS
<1>2. /\ c \in Calls /\ c.pc = "end" /\ c.puts = Puts(<<d>>) /\ c.phase = "put"
      /\ \A p \in Proc : To(p, "end", <<d>>) => Goes(p, c)
  BY <1>1, EndCallIs
<1>3. /\ c.puts \in Seq(Inum) /\ Len(c.puts) <= 1
      /\ \A j : PutAt(c, j, 1) <=> j = d /\ d # Root
      /\ \A j : ~PutAt(c, j, 2)
  BY <1>2, PutOne
<1>4. Place(c)
  BY <1>2, <1>3 DEF Place, HasDp, HasIp
<1>5. \A j : /\ Held(c, j) = One(j = d /\ d # Root)
             /\ Live(c, j) <=> j = d /\ d # Root
             /\ ~Locking(c, j) /\ ~Pends(c, j)
  BY <1>2, <1>3 DEF Held, Live, Locking, Pends, HasDp, HasIp, One
<1> QED
  BY <1>2, <1>4, <1>5

\* A call that ends and has nothing left.
LEMMA EndNone ==
  ASSUME NEW c, c = EndCall(<<>>)
  PROVE  /\ c \in Calls /\ c.pc = "end" /\ c.phase = "put" /\ Place(c)
         /\ \A p \in Proc : To(p, "end", <<>>) => Goes(p, c)
         /\ \A j : Held(c, j) = 0 /\ ~Live(c, j) /\ ~Locking(c, j) /\ ~Pends(c, j)
<1>1. <<>> \in Seq(Inum)
  OBVIOUS
<1>2. /\ c \in Calls /\ c.pc = "end" /\ c.puts = <<>> /\ c.phase = "put"
      /\ \A p \in Proc : To(p, "end", <<>>) => Goes(p, c)
  BY <1>1, EndCallIs, PutsIs
<1>3. \A j : ~PutAt(c, j, 1) /\ ~PutAt(c, j, 2)
  BY <1>2, PutNone
<1>4. Place(c)
  BY <1>2, <1>3 DEF Place, HasDp, HasIp
<1>5. \A j : Held(c, j) = 0 /\ ~Live(c, j) /\ ~Locking(c, j) /\ ~Pends(c, j)
  BY <1>2, <1>3 DEF Held, Live, Locking, Pends, HasDp, HasIp, One
<1> QED
  BY <1>2, <1>4, <1>5

\* A call that goes on to another step, with d to give back.
LEMMA MovedOne ==
  ASSUME Types, NEW p \in Proc, NEW d \in Inum, NEW pc \in Labels, pc # "end",
         NEW c, c = MovedCall(p, pc, <<d>>)
  PROVE  /\ c \in Calls /\ c.pc = pc /\ c.kind = t[p].kind /\ c.path = t[p].path
         /\ c.new = t[p].new /\ c.dp = t[p].dp /\ c.ip = t[p].ip /\ c.phase = t[p].phase
         /\ Len(c.puts) <= 1
         /\ \A j : PutAt(c, j, 1) <=> j = d /\ d # Root
         /\ \A j : ~PutAt(c, j, 2)
         /\ To(p, pc, <<d>>) => Goes(p, c)
<1>1. t[p] \in Calls
  BY DEF Types
<1>2. Puts(<<d>>) \in Seq(Inum)
  BY DEF Puts
<1>3. /\ c \in Calls /\ c.pc = pc /\ c.kind = t[p].kind /\ c.path = t[p].path
      /\ c.new = t[p].new /\ c.dp = t[p].dp /\ c.ip = t[p].ip /\ c.phase = t[p].phase
      /\ c.puts = Puts(<<d>>)
  BY <1>1, <1>2 DEF MovedCall, Calls
<1>4. To(p, pc, <<d>>) => Goes(p, c)
  BY <1>3 DEF To, Goes, MovedCall
<1> QED
  BY <1>3, <1>4, PutOne

\* A call that goes on to another step and gives nothing back.
LEMMA MovedNone ==
  ASSUME Types, NEW p \in Proc, NEW pc \in Labels, pc # "end",
         NEW c, c = MovedCall(p, pc, <<>>)
  PROVE  /\ c \in Calls /\ c.pc = pc /\ c.kind = t[p].kind /\ c.path = t[p].path
         /\ c.new = t[p].new /\ c.dp = t[p].dp /\ c.ip = t[p].ip /\ c.phase = t[p].phase
         /\ c.puts = <<>> /\ \A j : ~PutAt(c, j, 1) /\ ~PutAt(c, j, 2)
         /\ To(p, pc, <<>>) => Goes(p, c)
<1>1. t[p] \in Calls
  BY DEF Types
<1>2. Puts(<<>>) = <<>> /\ <<>> \in Seq(Inum)
  BY PutsIs
<1>3. /\ c \in Calls /\ c.pc = pc /\ c.kind = t[p].kind /\ c.path = t[p].path
      /\ c.new = t[p].new /\ c.dp = t[p].dp /\ c.ip = t[p].ip /\ c.phase = t[p].phase
      /\ c.puts = <<>>
  BY <1>1, <1>2 DEF MovedCall, Calls
<1>4. To(p, pc, <<>>) => Goes(p, c)
  BY <1>3 DEF To, Goes, MovedCall
<1> QED
  BY <1>3, <1>4, PutNone

\* An inode p has locked, as ilock() leaves it.
LEMMA Locked ==
  ASSUME FilesInv, NEW p \in Proc, NEW d \in Inum, Unlocked(d), t[p].phase = "put",
         s.ino[d].type # "none"
  PROVE  /\ Ilock(s, p, d) \in Fs
         /\ Ilock(s, p, d).ino = s.ino
         /\ Ilock(s, p, d).ents = s.ents
         /\ Ilock(s, p, d).used = s.used
         /\ Ilock(s, p, d).ref = s.ref
         /\ Ilock(s, p, d).lock = [s.lock EXCEPT ![d] = p]
         /\ Ilock(s, p, d).valid = [s.valid EXCEPT ![d] = TRUE]
         /\ Ilock(s, p, d).ic = [s.ic EXCEPT ![d] = s.ino[d]]
         /\ Ilock(s, p, d).ic[d] = s.ino[d]
<1> DEFINE x == Ilock(s, p, d)
<1>1. s \in Fs /\ s.ic \in [Inum -> Inode]
  BY DEF FilesInv, Types, Fs
<1>2. s.valid[d] => s.ic[d] = s.ino[d]
  BY Current DEF Unlocked
<1>3. /\ x \in Fs /\ x.ino = s.ino /\ x.ents = s.ents /\ x.used = s.used /\ x.ref = s.ref
      /\ x.lock = [s.lock EXCEPT ![d] = p] /\ x.valid = [s.valid EXCEPT ![d] = TRUE]
      /\ x.ic = [s.ic EXCEPT ![d] = IF s.valid[d] THEN @ ELSE s.ino[d]]
  <2>1. p \in Owner
    BY DEF Owner
  <2>2. s \in Fs
    BY <1>1
  <2> QED
    BY <2>1, <2>2, IlockIs
<1> HIDE DEF x
<1>4. x.ic = [s.ic EXCEPT ![d] = s.ino[d]]
  BY <1>2, <1>3
<1> QED
  BY <1>1, <1>3, <1>4 DEF x

\* The same inode unlocked again: its copy is there now.
LEMMA Looked ==
  ASSUME FilesInv, NEW p \in Proc, NEW d \in Inum, Unlocked(d), t[p].phase = "put",
         s.ino[d].type # "none"
  PROVE  /\ Iunlock(Ilock(s, p, d), d) \in Fs
         /\ Iunlock(Ilock(s, p, d), d).ino = s.ino
         /\ Iunlock(Ilock(s, p, d), d).ents = s.ents
         /\ Iunlock(Ilock(s, p, d), d).used = s.used
         /\ Iunlock(Ilock(s, p, d), d).ref = s.ref
         /\ Iunlock(Ilock(s, p, d), d).lock = s.lock
         /\ Iunlock(Ilock(s, p, d), d).valid = [s.valid EXCEPT ![d] = TRUE]
         /\ Iunlock(Ilock(s, p, d), d).ic = [s.ic EXCEPT ![d] = s.ino[d]]
         /\ Iunlock(Ilock(s, p, d), d).ic[d] = s.ino[d]
<1> DEFINE x == Iunlock(Ilock(s, p, d), d)
<1> DEFINE y == Ilock(s, p, d)
<1>1. /\ y \in Fs /\ y.ino = s.ino /\ y.ents = s.ents /\ y.used = s.used /\ y.ref = s.ref
      /\ y.lock = [s.lock EXCEPT ![d] = p] /\ y.valid = [s.valid EXCEPT ![d] = TRUE]
      /\ y.ic = [s.ic EXCEPT ![d] = s.ino[d]] /\ y.ic[d] = s.ino[d]
  BY Locked
<1> HIDE DEF y
<1>2. /\ x \in Fs /\ x.ino = y.ino /\ x.ents = y.ents /\ x.used = y.used /\ x.ref = y.ref
      /\ x.lock = [y.lock EXCEPT ![d] = Nobody] /\ x.valid = y.valid /\ x.ic = y.ic
  BY <1>1, IunlockIs DEF y
<1> HIDE DEF x
<1>3. s.lock \in [Inum -> Owner] /\ s.lock[d] = Nobody
  BY DEF FilesInv, Types, Fs, Unlocked
<1>4. x.lock = s.lock
  BY <1>1, <1>2, <1>3
<1> QED
  BY <1>1, <1>2, <1>4 DEF x

\* A step that looks and locks, and writes nothing.
LEMMA LookKeeps ==
  ASSUME FilesInv, NEW p \in Proc, NEW c, Goes(p, c), Running, UNCHANGED <<file, ofile, boot>>,
         s' \in Fs, s'.ino = s.ino, s'.ents = s.ents, s'.used = s.used,
         Place(c), LockMoves(p, c), RefMoves(p, c), LiveMoves(p, c), AllocatedTo(s, c),
         \A i : Pends(c, i) => Pends(t[p], i),
         c.pc = "create_new" => /\ t[p].pc = "create_new" /\ c.ip = t[p].ip /\ c.kind = t[p].kind,
         Copies'
  PROVE  Kept
<1>1. Types'
  <2>1. t' \in [Proc -> Calls]
    BY DEF FilesInv, Types, Goes
  <2> QED
    BY <2>1 DEF FilesInv, Types
<1>2. References'
  BY RefsMove
<1>3. Disk(s)'
  <2>1. Disk(s)
    BY DEF FilesInv
  <2> QED
    BY <2>1 DEF Disk, Owned, Shaped
<1>4. Links'
  <2>1. ASSUME NEW i \in Inum
        PROVE  s'.ino[i].nlink - s.ino[i].nlink
                 >= (IF Pends(c, i) THEN 1 ELSE 0) - (IF Pends(t[p], i) THEN 1 ELSE 0)
    <3>1. s.ino[i].nlink \in Nat
      BY PartTypes DEF FilesInv
    <3> QED
      BY <3>1
  <2> QED
    BY <1>1, <2>1, LinksMove
<1>5. AllocatedTo(s', c)
  BY DEF AllocatedTo, Live, HasDp, HasIp, PutAt
<1>6. NewTo(p)'
  <2>1. t'[p] = c /\ \A q \in Proc : q # p => t'[q] = t[q]
    BY DEF Goes, FilesInv, Types
  <2>2. NewTo(p)
    BY DEF FilesInv, NewInodes
  <2> QED
    BY <2>1, <2>2 DEF NewTo, Live, HasDp, HasIp, PutAt, FileRefs
<1>7. FileMoves(p) /\ InoMoves(p) /\ EntMoves(p)
  BY DEF FileMoves, InoMoves, EntMoves
<1> QED
  BY <1>1, <1>2, <1>3, <1>4, <1>5, <1>6, <1>7, StepKeeps

-----------------------------------------------------------------------------
(* The steps that write nothing *)

\* A call that has nothing to give back.
LEMMA NoPuts ==
  ASSUME FilesInv, NEW p \in Proc, t[p].puts = <<>>
  PROVE  t[p].phase = "put" /\ \A j : ~PutAt(t[p], j, 1) /\ ~PutAt(t[p], j, 2)
<1>1. \A j : ~PutAt(t[p], j, 1) /\ ~PutAt(t[p], j, 2)
  BY PutNone
<1> QED
  BY <1>1 DEF FilesInv, Places, Place

\* The root is linked.
LEMMA RootLinked ==
  ASSUME FilesInv
  PROVE  s.ino[Root].nlink >= 1 /\ s.ino[Root].type = "dir" /\ Root \in Inum
<1>1. Root \in Inum
  BY Bounds
<1>2. s.ino[Root].nlink >= Cardinality(Entries(Root)) + Cardinality(Pending(Root))
                          + Cardinality(Subs(Root)) + One(Root = Root)
  BY <1>1 DEF FilesInv, Links
<1>3. s.ino[Root].nlink \in Nat /\ One(Root = Root) = 1
  BY <1>1, PartTypes DEF FilesInv, One
<1> QED
  BY <1>1, <1>2, <1>3, Finite DEF FilesInv, Disk, Shaped

\* A directory that a call looks at leaves the other copies alone.
LEMMA LookedCopies ==
  ASSUME FilesInv, NEW p \in Proc, NEW c, Goes(p, c), t[p].phase = "put",
         NEW d \in Inum, s.ino[d].type # "none",
         s'.ino = s.ino, s'.ic = [s.ic EXCEPT ![d] = s.ino[d]],
         \A i \in Inum : s'.valid[i] => s.valid[i] \/ i = d,
         \A i \in Inum : s'.lock[i] # Nobody => s'.valid[i]
  PROVE  Copies'
<1>1. s.ic \in [Inum -> Inode]
  BY DEF FilesInv, Types, Fs
<1>2. s'.ic[d] = s.ino[d] /\ \A i \in Inum : i # d => s'.ic[i] = s.ic[i]
  BY <1>1
<1> QED
  BY <1>2, CopiesMove

\* namex() takes a directory, gives the last one back, or fails.
LEMMA WalkKeeps ==
  ASSUME FilesInv, NEW p \in Proc, Walk(p)
  PROVE  Kept
<1> DEFINE d == t[p].dp
           x == Iunlock(Ilock(s, p, d), d)
           path == t[p].path
           stop == WantsParent(p) /\ Len(path) = 1
           next == Dirlookup(x, d, Head(path))
<1>1. /\ t[p].pc \in {"walk", "walk_new"} /\ t[p].puts = <<>> /\ Unlocked(d)
      /\ UNCHANGED <<file, ofile, boot>>
  BY DEF Walk
<1>2. /\ t[p].phase = "put" /\ \A j : ~PutAt(t[p], j, 1) /\ ~PutAt(t[p], j, 2)
      /\ d \in Inum /\ path \in Seq(Name) /\ path # <<>> /\ t[p] \in Calls
      /\ Live(t[p], d) /\ s.ino[d].type # "none"
  <2>1. d \in Inum /\ path # <<>>
    BY <1>1 DEF FilesInv, Places, Place, HasDp
  <2>2. Live(t[p], d)
    BY <1>1 DEF Live, HasDp
  <2> QED
    BY <1>1, <2>1, <2>2, NoPuts, PartTypes DEF FilesInv, Allocated, AllocatedTo
<1>3. /\ x \in Fs /\ x.ino = s.ino /\ x.ents = s.ents /\ x.used = s.used /\ x.ref = s.ref
      /\ x.lock = s.lock /\ x.valid = [s.valid EXCEPT ![d] = TRUE]
      /\ x.ic = [s.ic EXCEPT ![d] = s.ino[d]] /\ x.ic[d] = s.ino[d]
  <2>1. Unlocked(d) /\ d \in Inum /\ t[p].phase = "put" /\ s.ino[d].type # "none"
    BY <1>1, <1>2
  <2> HIDE DEF d
  <2> QED
    BY <2>1, Looked
<1>4. Running
  BY <1>1, StepsRun
<1>5. /\ Head(path) \in Name /\ next = s.ents[d][Head(path)]
  <2>1. Head(path) \in Name /\ x.ents = s.ents
    BY <1>2, <1>3
  <2> QED
    BY <2>1, NameLooked
<1>6. \A i \in Inum : x.valid[i] <=> s.valid[i] \/ i = d
  BY <1>3 DEF FilesInv, Types, Fs
<1>7. \A i \in Inum : x.lock[i] # Nobody => x.valid[i]
  BY <1>3, <1>6 DEF FilesInv, Copies
<1>8. \A i : /\ Held(t[p], i) = One(d = i) + One(t[p].pc = "walk_new" /\ t[p].ip = i)
             /\ Live(t[p], i) <=> d = i \/ (t[p].pc = "walk_new" /\ t[p].ip = i)
             /\ ~Locking(t[p], i)
             /\ Pends(t[p], i) <=> t[p].pc = "walk_new" /\ t[p].ip = i
  BY <1>1, <1>2 DEF Held, Live, Locking, Pends, HasDp, HasIp, One
<1>9. \A i \in Inum : s.lock[i] # p
  BY <1>8 DEF FilesInv, Locks
<1>10. s.ref[Root] = 0 /\ Place(t[p]) /\ AllocatedTo(s, t[p])
  BY DEF FilesInv, References, Places, Allocated
<1>11. s \in Fs /\ s.ref \in [Inum -> Nat]
  BY DEF FilesInv, Types, Fs
<1> HIDE DEF x, next
<1>12. CASE x.ic[d].type # "dir" \/ (~stop /\ next = 0)
  <2>1. s' = x /\ To(p, OnFail(p), <<d>>)
    BY <1>12 DEF Walk, x, next
  <2>2. \A i \in Inum : s'.lock[i] = s.lock[i]
    BY <1>3, <2>1
  <2>3. CASE t[p].pc = "walk"
    <3> DEFINE c == EndCall(<<d>>)
    <3>1. /\ c \in Calls /\ c.pc = "end" /\ Place(c) /\ Goes(p, c)
          /\ \A j : /\ Held(c, j) = One(j = d /\ d # Root)
                    /\ Live(c, j) <=> j = d /\ d # Root
                    /\ ~Locking(c, j) /\ ~Pends(c, j)
      <4>1. To(p, "end", <<d>>)
        BY <2>1, <2>3 DEF OnFail
      <4> QED
        BY <1>2, <4>1, EndOne
    <3> HIDE DEF c
    <3>2. LockMoves(p, c)
      BY <1>9, <2>2, <3>1 DEF LockMoves
    <3>3. RefMoves(p, c)
      BY <1>3, <1>8, <1>10, <1>11, <2>1, <2>3, <3>1 DEF RefMoves, One
    <3>4. LiveMoves(p, c)
      BY <1>8, <3>1 DEF LiveMoves
    <3>5. AllocatedTo(s, c)
      BY <1>2, <3>1 DEF AllocatedTo
    <3>6. Copies'
      BY <1>2, <1>3, <1>6, <1>7, <2>1, <3>1, LookedCopies
    <3> QED
      BY <1>1, <1>3, <1>4, <2>1, <3>1, <3>2, <3>3, <3>4, <3>5, <3>6, LookKeeps
  <2>4. CASE t[p].pc = "walk_new"
    <3> DEFINE c == MovedCall(p, "link_bad", <<d>>)
    <3>1. /\ c \in Calls /\ c.pc = "link_bad" /\ c.kind = t[p].kind
          /\ c.ip = t[p].ip /\ c.phase = "put" /\ Len(c.puts) <= 1
          /\ \A j : PutAt(c, j, 1) <=> j = d /\ d # Root
          /\ \A j : ~PutAt(c, j, 2)
          /\ Goes(p, c)
      <4>1. To(p, "link_bad", <<d>>) /\ "link_bad" \in Labels
        BY <2>1, <2>4 DEF OnFail, Labels
      <4> QED
        BY <1>2, <4>1, MovedOne DEF FilesInv
    <3> HIDE DEF c
    <3>2. \A j : /\ Held(c, j) = One(j = d /\ d # Root) + One(t[p].ip = j)
                 /\ Live(c, j) <=> (j = d /\ d # Root) \/ t[p].ip = j
                 /\ ~Locking(c, j)
                 /\ Pends(c, j) <=> t[p].ip = j
      BY <3>1 DEF Held, Live, Locking, Pends, HasDp, HasIp, One
    <3>3. LockMoves(p, c)
      BY <1>9, <2>2, <3>2 DEF LockMoves
    <3>4. RefMoves(p, c)
      BY <1>3, <1>8, <1>10, <1>11, <2>1, <2>4, <3>2 DEF RefMoves, One
    <3>5. LiveMoves(p, c)
      BY <1>8, <2>4, <3>2 DEF LiveMoves
    <3>6. AllocatedTo(s, c)
      BY <1>2, <1>8, <1>10, <2>4, <3>1, <3>2 DEF AllocatedTo
    <3>7. Copies'
      BY <1>2, <1>3, <1>6, <1>7, <2>1, <3>1, LookedCopies
    <3>8. Place(c)
      BY <1>10, <2>4, <3>1 DEF Place, HasDp, HasIp
    <3> QED
      BY <1>1, <1>3, <1>4, <1>8, <2>1, <2>4, <3>1, <3>2, <3>3, <3>4, <3>5, <3>6, <3>7, <3>8,
         LookKeeps
  <2> QED
    BY <1>1, <2>3, <2>4
<1>13. CASE x.ic[d].type = "dir" /\ stop
  <2>1. s' = x /\ To(p, OnParent(p), <<>>)
    BY <1>13 DEF Walk, x, next
  <2> DEFINE c == MovedCall(p, OnParent(p), <<>>)
  <2>2. OnParent(p) \in {"unlink", "link_new", "create"}
        /\ (OnParent(p) = "link_new" <=> t[p].pc = "walk_new")
    BY <1>1, <1>10, <1>13 DEF OnParent, WantsParent, Place
  <2>3. /\ c \in Calls /\ c.pc = OnParent(p) /\ c.kind = t[p].kind /\ c.path = path
        /\ c.dp = d /\ c.ip = t[p].ip /\ c.phase = "put"
        /\ c.puts = <<>> /\ \A j : ~PutAt(c, j, 1) /\ ~PutAt(c, j, 2)
        /\ Goes(p, c)
    <3>1. OnParent(p) \in Labels /\ OnParent(p) # "end"
      BY <2>2 DEF Labels
    <3> QED
      BY <1>2, <2>1, <3>1, MovedNone DEF FilesInv
  <2> HIDE DEF c
  <2>4. \A j : /\ Held(c, j) = Held(t[p], j) /\ (Live(c, j) <=> Live(t[p], j))
               /\ ~Locking(c, j)
               /\ Pends(c, j) <=> Pends(t[p], j)
    <3>1. \A j : /\ Held(c, j) = One(d = j) + One(t[p].pc = "walk_new" /\ t[p].ip = j)
                 /\ Live(c, j) <=> d = j \/ (t[p].pc = "walk_new" /\ t[p].ip = j)
                 /\ ~Locking(c, j)
                 /\ Pends(c, j) <=> t[p].pc = "walk_new" /\ t[p].ip = j
      BY <2>2, <2>3 DEF Held, Live, Locking, Pends, HasDp, HasIp, One
    <3> QED
      BY <1>8, <3>1
  <2>5. LockMoves(p, c)
    BY <1>3, <1>9, <2>1, <2>4 DEF LockMoves
  <2>6. RefMoves(p, c)
    BY <1>3, <1>10, <1>11, <2>1, <2>4, HeldFew DEF RefMoves
  <2>7. LiveMoves(p, c)
    BY <2>4 DEF LiveMoves
  <2>8. AllocatedTo(s, c)
    BY <1>1, <1>3, <1>10, <1>13, <2>2, <2>3, <2>4 DEF AllocatedTo
  <2>9. Copies'
    BY <1>2, <1>3, <1>6, <1>7, <2>1, <2>3, LookedCopies
  <2>10. Place(c)
    BY <1>1, <1>2, <1>10, <2>2, <2>3 DEF Place, HasDp, HasIp
  <2> QED
    BY <1>1, <1>3, <1>4, <2>1, <2>2, <2>3, <2>4, <2>5, <2>6, <2>7, <2>8, <2>9, <2>10, LookKeeps
<1>14. CASE x.ic[d].type = "dir" /\ ~stop /\ next # 0
  <2> DEFINE c == [t[p] EXCEPT !.dp = next, !.path = Tail(path), !.puts = Puts(<<d>>),
                               !.ip = IF Len(path) = 1 THEN next ELSE @,
                               !.pc = IF Len(path) = 1 THEN OnInode(p) ELSE @]
  <2>1. next \in Inum \ {Root} /\ s.ino[next].nlink >= 1 /\ s.ino[next].type # "none"
        /\ next \in 0 .. NINODES
    BY <1>2, <1>5, <1>14, NamedIsLinked, Bounds
  <2>2. s' = Iget(x, next) /\ t' = [t EXCEPT ![p] = c]
    <3>1. s' = Found(x, next) /\ t' = [t EXCEPT ![p] = c]
      BY <1>2, <1>12, <1>13, <1>14 DEF Walk, x, next, FilesInv, Types
    <3>2. Found(x, next) = Iget(x, next)
      BY <2>1, FoundCounts
    <3> QED
      BY <3>1, <3>2
  <2>3. OnInode(p) \in {"open", "link"} /\ OnInode(p) \in Labels
        /\ (Len(path) = 1 => t[p].pc = "walk" /\ t[p].kind \in {"open", "link"})
        /\ (OnInode(p) = "link" <=> t[p].kind # "open")
    BY <1>1, <1>14 DEF OnInode, WantsParent, Labels
  <2>4. /\ c \in Calls /\ c.pc = (IF Len(path) = 1 THEN OnInode(p) ELSE t[p].pc)
        /\ c.dp = next /\ c.ip = (IF Len(path) = 1 THEN next ELSE t[p].ip)
        /\ c.kind = t[p].kind /\ c.path = Tail(path) /\ c.new = t[p].new
        /\ c.phase = "put" /\ c.puts = Puts(<<d>>)
    <3>1. Puts(<<d>>) \in Seq(Inum)
      <4>1. <<d>> \in Seq(Inum)
        BY <1>2
      <4> QED
        BY <4>1 DEF Puts
    <3>2. Tail(path) \in Seq(Name)
      BY <1>2
    <3> QED
      BY <1>2, <2>1, <2>3, <3>1, <3>2 DEF Calls
  <2>5. Goes(p, c)
    BY <2>2, <2>4 DEF Goes
  <2> HIDE DEF c
  <2>6. /\ Len(c.puts) <= 1
        /\ \A j : PutAt(c, j, 1) <=> j = d /\ d # Root
        /\ \A j : ~PutAt(c, j, 2)
    BY <1>2, <2>4, PutOne
  <2>7. \A j : /\ Held(c, j) = One(next = j) + One(t[p].pc = "walk_new" /\ t[p].ip = j)
                               + One(j = d /\ d # Root)
               /\ Live(c, j) <=> \/ next = j \/ (t[p].pc = "walk_new" /\ t[p].ip = j)
                                 \/ (j = d /\ d # Root)
               /\ ~Locking(c, j)
               /\ Pends(c, j) <=> Pends(t[p], j)
    <3>1. CASE Len(path) = 1
      BY <1>1, <1>8, <2>3, <2>4, <2>6, <3>1 DEF Held, Live, Locking, Pends, HasDp, HasIp, One
    <3>2. CASE Len(path) # 1
      BY <1>1, <1>8, <2>4, <2>6, <3>2 DEF Held, Live, Locking, Pends, HasDp, HasIp, One
    <3> QED
      BY <3>1, <3>2
  <2>8. /\ s' \in Fs /\ s'.ino = s.ino /\ s'.ents = s.ents /\ s'.used = s.used
        /\ s'.lock = s.lock /\ s'.ref = [s.ref EXCEPT ![next] = @ + 1]
        /\ s'.ic = [s.ic EXCEPT ![d] = s.ino[d]]
        /\ \A k \in Inum : s'.valid[k] <=> x.valid[k] /\ (k = next => s.ref[k] > 0)
    <3> DEFINE y == Iget(x, next)
    <3>1. /\ y \in Fs /\ y.ino = x.ino /\ y.ents = x.ents
          /\ y.used = x.used /\ y.lock = x.lock /\ y.ref = [x.ref EXCEPT ![next] = @ + 1]
          /\ \A k \in Inum : y.valid[k] <=> x.valid[k] /\ (k = next => x.ref[next] > 0)
          /\ y.ic = x.ic
      <4>1. x \in Fs /\ next \in Inum
        BY <1>3, <2>1
      <4> QED
        BY <4>1, IgetIs
    <3> HIDE DEF y
    <3>2. s' = y
      BY <2>2 DEF y
    <3> QED
      BY <1>3, <3>1, <3>2
  <2>9. LockMoves(p, c)
    BY <1>9, <2>7, <2>8 DEF LockMoves
  <2>10. RefMoves(p, c)
    BY <1>8, <1>10, <1>11, <2>1, <2>7, <2>8 DEF RefMoves, One
  <2>11. LiveMoves(p, c)
    BY <1>8, <2>1, <2>7 DEF LiveMoves
  <2>12. AllocatedTo(s, c)
    BY <1>1, <1>2, <1>8, <1>10, <2>1, <2>3, <2>4, <2>7 DEF AllocatedTo
  <2>13. Copies'
    <3>1. \A k \in Inum : s'.lock[k] # Nobody => s'.valid[k]
      BY <1>3, <1>7, <2>1, <2>8, LockedIsHeld
    <3> QED
      BY <1>2, <1>6, <2>5, <2>8, <3>1, LookedCopies
  <2>14. Place(c)
    <3>1. c.puts = <<>> => c.phase = "put"
      BY <2>4
    <3>2. Len(path) # 1 => Tail(path) # <<>>
      <4> DEFINE rest == Tail(path)
      <4>1. Len(path) >= 1 /\ Len(rest) = Len(path) - 1 /\ Len(path) \in Nat
        BY <1>2
      <4> HIDE DEF rest
      <4>2. Len(<<>>) = 0
        OBVIOUS
      <4>3. rest = <<>> => Len(rest) = Len(<<>>)
        OBVIOUS
      <4>4. Len(path) # 1 => Len(rest) # 0
        BY <4>1
      <4> QED
        BY <4>2, <4>3, <4>4 DEF rest
    <3> QED
      BY <1>1, <1>2, <1>10, <2>1, <2>3, <2>4, <2>6, <3>1, <3>2 DEF Place, HasDp, HasIp
  <2>15. c.pc # "create_new"
    BY <1>1, <2>3, <2>4
  <2> QED
    BY <1>1, <1>4, <2>5, <2>7, <2>8, <2>9, <2>10, <2>11, <2>12, <2>13, <2>14, <2>15, LookKeeps
<1> QED
  BY <1>12, <1>13, <1>14 DEF Walk, x, next

\* What a call that acts, with nothing to give back, can count on.
LEMMA Acting ==
  ASSUME FilesInv, NEW p \in Proc, t[p].puts = <<>>
  PROVE  /\ t[p].pc # "idle" => Running
         /\ t[p].phase = "put" /\ \A j : ~PutAt(t[p], j, 1) /\ ~PutAt(t[p], j, 2)
         /\ t[p] \in Calls /\ Place(t[p]) /\ AllocatedTo(s, t[p])
         /\ s \in Fs /\ s.ref \in [Inum -> Nat] /\ s.ref[Root] = 0
         /\ s.lock \in [Inum -> Owner] /\ s.ic \in [Inum -> Inode] /\ s.ino \in [Inum -> Inode]
         /\ \A i \in Inum : s.lock[i] = p <=> Locking(t[p], i)
         /\ HasDp(t[p]) => t[p].dp \in Inum /\ s.ino[t[p].dp].type # "none"
         /\ HasIp(t[p]) => t[p].ip \in Inum \ {Root} /\ s.ino[t[p].ip].type # "none"
<1>1. t[p].phase = "put" /\ \A j : ~PutAt(t[p], j, 1) /\ ~PutAt(t[p], j, 2)
  BY NoPuts
<1>2. t[p].pc # "idle" => Running
  BY StepsRun
<1>3. t[p] \in Calls /\ Place(t[p]) /\ AllocatedTo(s, t[p])
  BY PartTypes DEF FilesInv, Places, Allocated
<1>4. /\ s \in Fs /\ s.ref \in [Inum -> Nat] /\ s.ref[Root] = 0
      /\ s.lock \in [Inum -> Owner] /\ s.ic \in [Inum -> Inode] /\ s.ino \in [Inum -> Inode]
  BY DEF FilesInv, Types, Fs, References
<1>5. \A i \in Inum : s.lock[i] = p <=> Locking(t[p], i)
  BY DEF FilesInv, Locks
<1>6. HasDp(t[p]) => t[p].dp \in Inum /\ s.ino[t[p].dp].type # "none"
  BY <1>3 DEF Place, AllocatedTo, Live
<1>7. HasIp(t[p]) => t[p].ip \in Inum \ {Root} /\ s.ino[t[p].ip].type # "none"
  BY <1>3 DEF Place, AllocatedTo, Live
<1> QED
  BY <1>1, <1>2, <1>3, <1>4, <1>5, <1>6, <1>7

\* A locked inode has a copy.
LEMMA LockedCopies ==
  ASSUME FilesInv, NEW i \in Inum, s.lock[i] # Nobody
  PROVE  s.valid[i]
BY DEF FilesInv, Copies

\* A call that looked at an inode ends and gives it back.
LEMMA LookedEndKeeps ==
  ASSUME FilesInv, NEW p \in Proc, t[p].puts = <<>>, t[p].pc # "idle",
         NEW d \in Inum, s.ino[d].type # "none", Unlocked(d),
         To(p, "end", <<d>>), UNCHANGED <<file, ofile, boot>>,
         s' \in Fs, s'.ino = s.ino, s'.ents = s.ents, s'.used = s.used, s'.ref = s.ref,
         s'.lock = s.lock, s'.valid = [s.valid EXCEPT ![d] = TRUE],
         s'.ic = [s.ic EXCEPT ![d] = s.ino[d]],
         \A j \in Inum : j # Root => Held(t[p], j) = IF j = d THEN 1 ELSE 0,
         \A j \in Inum : ~Locking(t[p], j)
  PROVE  Kept
<1> DEFINE c == EndCall(<<d>>)
<1>1. /\ Running /\ t[p].phase = "put" /\ s.ref \in [Inum -> Nat] /\ s.ref[Root] = 0
      /\ \A i \in Inum : s.lock[i] # p
  BY Acting
<1>2. /\ c \in Calls /\ c.pc = "end" /\ Place(c) /\ Goes(p, c)
      /\ \A j : /\ Held(c, j) = One(j = d /\ d # Root)
                /\ Live(c, j) <=> j = d /\ d # Root
                /\ ~Locking(c, j) /\ ~Pends(c, j)
  BY EndOne
<1> HIDE DEF c
<1>3. LockMoves(p, c)
  BY <1>1, <1>2 DEF LockMoves
<1>4. RefMoves(p, c)
  BY <1>1, <1>2 DEF RefMoves, One
<1>5. LiveMoves(p, c)
  <2>1. ASSUME NEW i \in Inum, Live(c, i) PROVE Live(t[p], i)
    <3>1. i = d /\ i # Root
      BY <1>2, <2>1
    <3>2. Held(t[p], i) = 1
      BY <3>1 DEF One
    <3> QED
      BY <1>1, <3>2 DEF Held, Live, One
  <2> QED
    BY <2>1 DEF LiveMoves
<1>6. AllocatedTo(s, c)
  BY <1>2 DEF AllocatedTo
<1>7. \A i \in Inum : s'.valid[i] <=> s.valid[i] \/ i = d
  BY DEF FilesInv, Types, Fs
<1>8. \A i \in Inum : s'.lock[i] # Nobody => s'.valid[i]
  BY <1>2, <1>7, LockedCopies
<1>9. Copies'
  BY <1>1, <1>2, <1>7, <1>8, LookedCopies
<1> QED
  BY <1>1, <1>2, <1>3, <1>4, <1>5, <1>6, <1>9, LookKeeps

\* A step that leaves the file system alone.
LEMMA RestKeeps ==
  ASSUME FilesInv, NEW p \in Proc, NEW c, Goes(p, c), Running, UNCHANGED <<s, file, ofile, boot>>,
         t[p].phase # "freed", Place(c), AllocatedTo(s, c), LiveMoves(p, c), c.pc # "create_new",
         \A j : /\ Locking(c, j) <=> Locking(t[p], j)
                /\ Pends(c, j) => Pends(t[p], j),
         \A j \in Inum : j # Root => Held(c, j) = Held(t[p], j)
  PROVE  Kept
<1>1. LockMoves(p, c)
  BY DEF LockMoves, FilesInv, Locks
<1>2. RefMoves(p, c)
  BY HeldFew, PartTypes DEF RefMoves, FilesInv, References
<1>3. Copies'
  <2>1. \A i \in Inum : s'.lock[i] # Nobody => s'.valid[i]
    BY LockedCopies
  <2> QED
    BY <2>1, CopiesMove
<1>4. s' \in Fs
  BY DEF FilesInv, Types
<1> QED
  BY <1>1, <1>2, <1>3, <1>4, LookKeeps

\* begin_op() of a call.
LEMMA CallKeeps ==
  ASSUME NoDots, FilesInv, NEW p \in Proc, NEW kind, NEW path \in Path, NEW new \in Path,
         Call(p, kind, path, new)
  PROVE  Kept
<1> DEFINE c == [Quiet EXCEPT !.pc = "walk", !.kind = kind, !.path = path, !.new = new,
                              !.dp = Root]
<1>1. /\ Running /\ t[p].pc = "idle" /\ kind \in Kind /\ t' = [t EXCEPT ![p] = c]
      /\ UNCHANGED <<s, file, ofile, boot>>
  BY DEF Call
<1>2. t[p].puts = <<>>
  BY <1>1 DEF FilesInv, Places, Place
<1>3. /\ c.pc = "walk" /\ c.kind = kind /\ c.path = path /\ c.new = new /\ c.dp = Root
      /\ c.puts = <<>> /\ c.phase = "put"
  BY DEF Quiet
<1>4. /\ path \in Seq(Name) /\ path # <<>> /\ new \in Seq(Name) /\ new # <<>> /\ kind \in Kinds
  BY <1>1, FilesAssumption DEF NoDots, Kinds
<1>5. c \in Calls
  <2>1. 0 \in 0 .. NINODES /\ Root \in 0 .. NINODES
    BY FilesAssumption, Bounds
  <2>2. Quiet \in Calls
    BY <2>1 DEF Quiet, Calls, Labels, Kinds
  <2>3. "walk" \in Labels
    BY DEF Labels
  <2> HIDE DEF Quiet, Labels, Kinds
  <2> QED
    BY <1>4, <2>1, <2>2, <2>3 DEF Calls
<1>6. Goes(p, c)
  BY <1>1, <1>5 DEF Goes
<1> HIDE DEF c
<1>7. \A j : ~PutAt(c, j, 1) /\ ~PutAt(c, j, 2)
  BY <1>3, PutNone
<1>8. /\ t[p].phase = "put" /\ \A j : ~PutAt(t[p], j, 1) /\ ~PutAt(t[p], j, 2)
  BY <1>2, Acting
<1>9. \A j : /\ Held(c, j) = One(Root = j) /\ (Live(c, j) <=> j = Root) /\ ~Locking(c, j)
             /\ ~Pends(c, j) /\ Held(t[p], j) = 0 /\ ~Locking(t[p], j)
  BY <1>1, <1>3, <1>7, <1>8 DEF Held, Live, Locking, Pends, HasDp, HasIp, One
<1>10. Root \in Inum /\ s.ino[Root].type = "dir" /\ s.ino[Root].nlink >= 1
  BY RootLinked
<1>11. Place(c)
  BY <1>3, <1>4, <1>7, <1>10 DEF Place, HasDp, HasIp
<1>12. AllocatedTo(s, c) /\ LiveMoves(p, c)
  BY <1>3, <1>9, <1>10 DEF AllocatedTo, LiveMoves
<1> QED
  BY <1>1, <1>3, <1>6, <1>8, <1>9, <1>11, <1>12, RestKeeps DEF One

\* end_op() of a call.
LEMMA EndKeeps ==
  ASSUME FilesInv, NEW p \in Proc, End(p)
  PROVE  Kept
<1>1. /\ t[p].pc = "end" /\ t[p].puts = <<>> /\ t' = [t EXCEPT ![p] = Quiet]
      /\ UNCHANGED <<s, file, ofile, boot>>
  BY DEF End, At
<1>2. /\ Running /\ t[p].phase = "put" /\ \A j : ~PutAt(t[p], j, 1) /\ ~PutAt(t[p], j, 2)
  BY <1>1, Acting
<1> DEFINE c == Quiet
<1>3. /\ c \in Calls /\ c.pc = "idle" /\ c.puts = <<>> /\ c.phase = "put"
  <2>1. 0 \in 0 .. NINODES
    BY FilesAssumption
  <2> QED
    BY <2>1 DEF Quiet, Calls, Labels, Kinds
<1> HIDE DEF c
<1>4. Goes(p, c)
  BY <1>1, <1>3 DEF Goes, c
<1>5. \A j : ~PutAt(c, j, 1) /\ ~PutAt(c, j, 2)
  BY <1>3, PutNone
<1>6. \A j : /\ Held(c, j) = 0 /\ ~Live(c, j) /\ ~Locking(c, j) /\ ~Pends(c, j)
             /\ Held(t[p], j) = 0 /\ ~Locking(t[p], j)
  BY <1>1, <1>2, <1>3, <1>5 DEF Held, Live, Locking, Pends, HasDp, HasIp, One
<1>7. Place(c) /\ AllocatedTo(s, c) /\ LiveMoves(p, c)
  BY <1>3, <1>5, <1>6 DEF Place, HasDp, HasIp, AllocatedTo, LiveMoves
<1> QED
  BY <1>1, <1>2, <1>3, <1>4, <1>6, <1>7, RestKeeps

\* fileclose() comes to the inode.
LEMMA CloseInodeKeeps ==
  ASSUME FilesInv, NEW p \in Proc, CloseInode(p)
  PROVE  Kept
<1> DEFINE i == t[p].ip
           c == EndCall(<<i>>)
<1>1. t[p].pc = "close" /\ To(p, "end", <<i>>) /\ UNCHANGED <<s, file, ofile, boot>>
  BY DEF CloseInode
<1>2. t[p].puts = <<>>
  BY <1>1 DEF FilesInv, Places, Place
<1>3. /\ Running /\ t[p].phase = "put" /\ \A j : ~PutAt(t[p], j, 1) /\ ~PutAt(t[p], j, 2)
      /\ i \in Inum \ {Root} /\ s.ino[i].type # "none"
  BY <1>1, <1>2, Acting DEF HasIp
<1>4. \A j : Held(t[p], j) = One(i = j) /\ ~Locking(t[p], j) /\ (Live(t[p], j) <=> j = i)
  BY <1>1, <1>3 DEF Held, Live, Locking, HasDp, HasIp, One
<1> HIDE DEF i
<1>5. /\ c \in Calls /\ c.pc = "end" /\ Place(c) /\ Goes(p, c)
      /\ \A j : /\ Held(c, j) = One(j = i /\ i # Root)
                /\ Live(c, j) <=> j = i /\ i # Root
                /\ ~Locking(c, j) /\ ~Pends(c, j)
  BY <1>1, <1>3, EndOne
<1> HIDE DEF c
<1>6. AllocatedTo(s, c) /\ LiveMoves(p, c)
  BY <1>3, <1>4, <1>5 DEF AllocatedTo, LiveMoves
<1> QED
  BY <1>1, <1>3, <1>4, <1>5, <1>6, RestKeeps DEF One

\* A call that had one inode, locked, unlocks it, ends and gives it back.
LEMMA UnlockEndKeeps ==
  ASSUME FilesInv, NEW p \in Proc, t[p].puts = <<>>, t[p].pc # "idle",
         NEW d \in Inum, s.ino[d].type # "none", s.lock[d] = p,
         To(p, "end", <<d>>), UNCHANGED <<file, ofile, boot>>,
         s' \in Fs, s'.ino = s.ino, s'.ents = s.ents, s'.used = s.used, s'.ref = s.ref,
         s'.lock = [s.lock EXCEPT ![d] = Nobody], s'.valid = s.valid, s'.ic = s.ic,
         \A j \in Inum : j # Root => Held(t[p], j) = IF j = d THEN 1 ELSE 0,
         \A j \in Inum : Locking(t[p], j) => j = d
  PROVE  Kept
<1> DEFINE c == EndCall(<<d>>)
<1>1. /\ Running /\ t[p].phase = "put" /\ s.ref \in [Inum -> Nat] /\ s.ref[Root] = 0
      /\ s.lock \in [Inum -> Owner] /\ \A i \in Inum : s.lock[i] = p => i = d
  BY Acting
<1>2. /\ c \in Calls /\ c.pc = "end" /\ Place(c) /\ Goes(p, c)
      /\ \A j : /\ Held(c, j) = One(j = d /\ d # Root)
                /\ Live(c, j) <=> j = d /\ d # Root
                /\ ~Locking(c, j) /\ ~Pends(c, j)
  BY EndOne
<1> HIDE DEF c
<1>3. LockMoves(p, c)
  BY <1>1, <1>2, Bounds DEF LockMoves
<1>4. RefMoves(p, c)
  BY <1>1, <1>2 DEF RefMoves, One
<1>5. LiveMoves(p, c)
  <2>1. ASSUME NEW i \in Inum, Live(c, i) PROVE Live(t[p], i)
    <3>1. i = d /\ i # Root
      BY <1>2, <2>1
    <3>2. Held(t[p], i) = 1
      BY <3>1
    <3> QED
      BY <1>1, <3>2 DEF Held, Live, One
  <2> QED
    BY <2>1 DEF LiveMoves
<1>6. AllocatedTo(s, c)
  BY <1>2 DEF AllocatedTo
<1>7. Copies'
  <2>1. \A i \in Inum : s'.lock[i] # Nobody => s'.valid[i]
    BY <1>1, LockedCopies
  <2> QED
    BY <1>1, <1>2, <2>1, CopiesMove
<1> QED
  BY <1>1, <1>2, <1>3, <1>4, <1>5, <1>6, <1>7, LookKeeps

\* The way out with the directory locked.
LEMMA BadKeeps ==
  ASSUME FilesInv, NEW p \in Proc, Bad(p)
  PROVE  Kept
<1> DEFINE d == t[p].dp
<1>1. /\ t[p].pc = "bad" /\ t[p].puts = <<>> /\ s' = Iunlock(s, d) /\ To(p, "end", <<d>>)
      /\ UNCHANGED <<file, ofile, boot>>
  BY DEF Bad, At
<1>2. /\ d \in Inum /\ s.ino[d].type # "none" /\ s \in Fs
      /\ \A j : ~PutAt(t[p], j, 1) /\ ~PutAt(t[p], j, 2)
      /\ \A j \in Inum : s.lock[j] = p <=> Locking(t[p], j)
  BY <1>1, Acting DEF HasDp
<1>3. \A j : /\ Held(t[p], j) = IF j = d THEN 1 ELSE 0
             /\ Locking(t[p], j) <=> j = d
  BY <1>1, <1>2 DEF Held, Locking, HasDp, HasIp, One
<1> HIDE DEF d
<1>4. /\ s' \in Fs /\ s'.ino = s.ino /\ s'.ents = s.ents /\ s'.used = s.used /\ s'.ref = s.ref
      /\ s'.lock = [s.lock EXCEPT ![d] = Nobody] /\ s'.valid = s.valid /\ s'.ic = s.ic
  BY <1>1, <1>2, IunlockIs
<1>5. s.lock[d] = p
  BY <1>2, <1>3
<1> QED
  BY <1>1, <1>2, <1>3, <1>4, <1>5, UnlockEndKeeps

\* sys_unlink() looks the name up, and keeps the directory locked if it is there.
LEMMA UnlinkDirKeeps ==
  ASSUME FilesInv, NEW p \in Proc, UnlinkDir(p)
  PROVE  Kept
<1> DEFINE d == t[p].dp
           x == Ilock(s, p, d)
           i == Dirlookup(x, d, Head(t[p].path))
<1>1. /\ t[p].pc = "unlink" /\ t[p].puts = <<>> /\ Unlocked(d)
      /\ UNCHANGED <<file, ofile, boot>>
  BY DEF UnlinkDir, At
<1>2. /\ Running /\ t[p].phase = "put"
      /\ t[p] \in Calls /\ Place(t[p]) /\ AllocatedTo(s, t[p])
      /\ s.ref \in [Inum -> Nat] /\ s.ref[Root] = 0 /\ s.lock \in [Inum -> Owner]
      /\ d \in Inum /\ s.ino[d].type # "none"
      /\ \A j : ~PutAt(t[p], j, 1) /\ ~PutAt(t[p], j, 2)
      /\ \A j \in Inum : s.lock[j] = p <=> Locking(t[p], j)
  BY <1>1, Acting DEF HasDp
<1>3. \A j : /\ Held(t[p], j) = IF j = d THEN 1 ELSE 0
             /\ ~Locking(t[p], j) /\ (Live(t[p], j) <=> j = d)
  BY <1>1, <1>2 DEF Held, Live, Locking, HasDp, HasIp, One
<1>4. /\ x \in Fs /\ x.ino = s.ino /\ x.ents = s.ents /\ x.used = s.used /\ x.ref = s.ref
      /\ x.lock = [s.lock EXCEPT ![d] = p] /\ x.valid = [s.valid EXCEPT ![d] = TRUE]
      /\ x.ic = [s.ic EXCEPT ![d] = s.ino[d]]
  <2>1. Unlocked(d) /\ d \in Inum /\ t[p].phase = "put" /\ s.ino[d].type # "none"
    BY <1>1, <1>2
  <2> HIDE DEF d
  <2> QED
    BY <2>1, Locked
<1>5. t[p].path \in Seq(Name) /\ t[p].path # <<>>
  BY <1>1, <1>2, PartTypes DEF Place, FilesInv
<1>6. Head(t[p].path) \in Name /\ i = s.ents[d][Head(t[p].path)]
  <2>1. Head(t[p].path) \in Name /\ x.ents = s.ents
    BY <1>4, <1>5
  <2> QED
    BY <2>1, NameLooked
<1>7. /\ i = 0 => s' = Iunlock(x, d) /\ To(p, "end", <<d>>)
      /\ i # 0 => s' = Iget(x, i) /\ t' = [t EXCEPT ![p].pc = "unlink_ip", ![p].ip = i]
  <2>1. Head(t[p].path) \notin {Dot, DotDot}
    BY <1>6, FilesAssumption
  <2> QED
    BY <2>1 DEF UnlinkDir
<1>8. CASE i = 0
  <2>1. s' = Iunlock(Ilock(s, p, d), d) /\ To(p, "end", <<d>>)
    BY <1>8, <1>7
  <2> HIDE DEF d
  <2> DEFINE y == Iunlock(Ilock(s, p, d), d)
  <2>2. /\ y \in Fs /\ y.ino = s.ino /\ y.ents = s.ents /\ y.used = s.used
        /\ y.ref = s.ref /\ y.lock = s.lock /\ y.valid = [s.valid EXCEPT ![d] = TRUE]
        /\ y.ic = [s.ic EXCEPT ![d] = s.ino[d]]
    <3>1. Unlocked(d) /\ d \in Inum /\ t[p].phase = "put" /\ s.ino[d].type # "none"
      BY <1>1, <1>2 DEF d
    <3> QED
      BY <3>1, Looked
  <2>3. s' = y
    BY <2>1
  <2> HIDE DEF x, i, y
  <2> QED
    BY <1>1, <1>2, <1>3, <2>1, <2>2, <2>3, LookedEndKeeps
<1> HIDE DEF i, x
<1>9. CASE i # 0
  <2> DEFINE c == [t[p] EXCEPT !.pc = "unlink_ip", !.ip = i]
  <2>1. s' = Iget(x, i) /\ t' = [t EXCEPT ![p] = c]
    BY <1>2, <1>9, <1>7 DEF FilesInv, Types
  <2>2. i \in Inum \ {Root} /\ s.ino[i].nlink >= 1 /\ s.ino[i].type # "none"
        /\ i \in 0 .. NINODES
    BY <1>2, <1>6, <1>9, NamedIsLinked, Bounds
  <2>3. /\ c \in Calls /\ c.pc = "unlink_ip" /\ c.dp = d /\ c.ip = i /\ c.kind = t[p].kind
        /\ c.path = t[p].path /\ c.new = t[p].new /\ c.phase = "put" /\ c.puts = <<>>
    BY <1>1, <1>2, <2>2 DEF Calls, Labels
  <2>4. Goes(p, c)
    BY <2>1, <2>3 DEF Goes
  <2> HIDE DEF c
  <2>5. \A j : ~PutAt(c, j, 1) /\ ~PutAt(c, j, 2)
    BY <2>3, PutNone
  <2>6. \A j : /\ Held(c, j) = (IF j = d THEN 1 ELSE 0) + (IF j = i THEN 1 ELSE 0)
               /\ Locking(c, j) <=> j = d
               /\ Live(c, j) <=> j = d \/ j = i
               /\ ~Pends(c, j)
    BY <2>3, <2>5 DEF Held, Live, Locking, Pends, HasDp, HasIp, One
  <2> HIDE DEF d
  <2>7. /\ s' \in Fs /\ s'.ino = s.ino /\ s'.ents = s.ents /\ s'.used = s.used
        /\ s'.lock = [s.lock EXCEPT ![d] = p] /\ s'.ref = [s.ref EXCEPT ![i] = @ + 1]
        /\ s'.ic = [s.ic EXCEPT ![d] = s.ino[d]]
        /\ \A k \in Inum : s'.valid[k] <=> x.valid[k] /\ (k = i => s.ref[k] > 0)
    <3> DEFINE y == Iget(x, i)
    <3>1. /\ y \in Fs /\ y.ino = x.ino /\ y.ents = x.ents
          /\ y.used = x.used /\ y.lock = x.lock /\ y.ref = [x.ref EXCEPT ![i] = @ + 1]
          /\ \A k \in Inum : y.valid[k] <=> x.valid[k] /\ (k = i => x.ref[i] > 0)
          /\ y.ic = x.ic
      <4>1. x \in Fs /\ i \in Inum
        BY <1>4, <2>2
      <4> QED
        BY <4>1, IgetIs
    <3> HIDE DEF y
    <3>2. s' = y
      BY <2>1 DEF y
    <3> QED
      BY <1>4, <3>1, <3>2
  <2>8. LockMoves(p, c)
    BY <1>1, <1>2, <1>3, <2>6, <2>7, Bounds DEF LockMoves, Unlocked
  <2>9. RefMoves(p, c)
    BY <1>2, <1>3, <2>2, <2>6, <2>7 DEF RefMoves
  <2>10. LiveMoves(p, c)
    BY <1>3, <2>2, <2>6 DEF LiveMoves
  <2>11. AllocatedTo(s, c)
    BY <1>1, <1>2, <1>6, <2>2, <2>3, <2>6 DEF AllocatedTo, d
  <2>12. Copies'
    <3>1. \A k \in Inum : x.valid[k] <=> s.valid[k] \/ k = d
      BY <1>4 DEF FilesInv, Types, Fs
    <3>2. d # Root => s.ref[d] > 0
      <4>1. d # Root => Held(t[p], d) = 1 /\ Held(t[p], d) <= Cardinality(CallRefs(d))
        BY <1>3, HeldCounts
      <4>2. d # Root => s.ref[d] = Cardinality(CallRefs(d)) + Cardinality(FileRefs(d))
        BY <1>2 DEF FilesInv, References
      <4>3. Cardinality(CallRefs(d)) \in Nat /\ Cardinality(FileRefs(d)) \in Nat
        BY <2>4, CallRefsMove, Finite DEF FilesInv, Types, Goes
      <4> QED
        BY <4>1, <4>2, <4>3
    <3>3. \A k \in Inum : s'.lock[k] # Nobody => s'.valid[k]
      <4>1. ASSUME NEW k \in Inum, s'.lock[k] # Nobody PROVE s'.valid[k]
        <5>1. CASE k = d
          BY <2>2, <2>7, <3>1, <3>2, <5>1
        <5>2. CASE k # d
          <6>1. s.lock[k] # Nobody
            BY <1>2, <2>7, <4>1, <5>2
          <6> QED
            BY <2>2, <2>7, <3>1, <6>1, LockedIsHeld, LockedCopies
        <5> QED
          BY <5>1, <5>2
      <4> QED
        BY <4>1
    <3> QED
      BY <1>2, <2>4, <2>7, <3>1, <3>3, LookedCopies
  <2>13. Place(c)
    BY <1>2, <1>5, <2>2, <2>3, <2>5 DEF Place, HasDp, HasIp
  <2>14. c.pc # "create_new"
    BY <2>3
  <2> QED
    BY <1>1, <1>2, <2>4, <2>6, <2>7, <2>8, <2>9, <2>10, <2>11, <2>12, <2>13, <2>14, LookKeeps
<1> QED
  BY <1>8, <1>9

-----------------------------------------------------------------------------
(* iput() *)

\* What is live to a call it also holds, and what it locks.
LEMMA LiveIsHeld ==
  ASSUME NEW c, NEW i, Live(c, i) \/ Locking(c, i)
  PROVE  Held(c, i) >= 1
BY DEF Live, Locking, Held, HasDp, HasIp, One

\* What a call holds has a reference.
LEMMA HeldIsCounted ==
  ASSUME FilesInv, NEW p \in Proc, NEW i \in Inum, i # Root, Held(t[p], i) >= 1
  PROVE  s.ref[i] > 0
<1>1. Held(t[p], i) <= Cardinality(CallRefs(i)) /\ Held(t[p], i) \in 0 .. 4
  BY HeldCounts, HeldFew
<1>2. Cardinality(CallRefs(i)) \in Nat
  <2>1. HeldOf(i) \in [Proc -> 0 .. 4] /\ CallRefs(i) = Count(HeldOf(i))
    BY CallRefsCount
  <2>2. 0 \in 0 .. 4
    OBVIOUS
  <2> QED
    BY <2>1, <2>2, CountMoves
<1>3. s.ref[i] = Cardinality(CallRefs(i)) + Cardinality(FileRefs(i))
  BY DEF FilesInv, References
<1> QED
  BY <1>1, <1>2, <1>3, Finite

\* A call that has something to give back, and what that is.
LEMMA PuttingIs ==
  ASSUME FilesInv, NEW p \in Proc, t[p].puts # <<>>
  PROVE  /\ Head(t[p].puts) \in Inum \ {Root}
         /\ \A j : PutAt(t[p], j, 1) <=> j = Head(t[p].puts)
         /\ Tail(t[p].puts) \in Seq(Inum) /\ Len(Tail(t[p].puts)) <= 1
         /\ \A j : 1 <= Len(Tail(t[p].puts)) /\ Tail(t[p].puts)[1] = j <=> PutAt(t[p], j, 2)
         /\ t[p].pc \notin {"idle", "close"} /\ Running /\ t[p] \in Calls
         /\ Place(t[p]) /\ AllocatedTo(s, t[p])
         /\ s \in Fs /\ s.ref \in [Inum -> Nat] /\ s.ref[Root] = 0
         /\ s.lock \in [Inum -> Owner] /\ s.ic \in [Inum -> Inode] /\ s.ino \in [Inum -> Inode]
         /\ s.valid \in [Inum -> BOOLEAN]
         /\ \A i \in Inum : s.lock[i] = p <=> Locking(t[p], i)
<1> DEFINE is == t[p].puts
<1>1. /\ t[p] \in Calls /\ Place(t[p]) /\ AllocatedTo(s, t[p]) /\ is \in Seq(Inum)
  BY PartTypes DEF FilesInv, Places, Allocated
<1>2. /\ t[p].pc \notin {"idle", "close"} /\ Len(is) <= 2
      /\ \A i \in Inum, k \in {1, 2} : PutAt(t[p], i, k) => i # Root
  BY <1>1 DEF Place
<1>3. Running
  BY <1>2, StepsRun
<1>4. /\ s \in Fs /\ s.ref \in [Inum -> Nat] /\ s.ref[Root] = 0
      /\ s.lock \in [Inum -> Owner] /\ s.ic \in [Inum -> Inode] /\ s.ino \in [Inum -> Inode]
      /\ s.valid \in [Inum -> BOOLEAN]
  BY DEF FilesInv, Types, Fs, References
<1>5. \A i \in Inum : s.lock[i] = p <=> Locking(t[p], i)
  BY DEF FilesInv, Locks
<1>6. \A j, k : PutAt(t[p], j, k) <=> k <= Len(is) /\ is[k] = j
  BY DEF PutAt
<1> HIDE DEF is
<1>7. /\ Len(is) \in Nat /\ Len(is) >= 1 /\ Head(is) = is[1] /\ Head(is) \in Inum
      /\ Tail(is) \in Seq(Inum) /\ Len(Tail(is)) = Len(is) - 1
  BY <1>1 DEF is
<1>8. Len(is) = 2 => Tail(is)[1] = is[2]
  BY <1>1, <1>7
<1>9. \A j : PutAt(t[p], j, 1) <=> j = Head(is)
  BY <1>6, <1>7
<1>10. Head(is) # Root
  BY <1>2, <1>7, <1>9
<1>11. \A j : 1 <= Len(Tail(is)) /\ Tail(is)[1] = j <=> PutAt(t[p], j, 2)
  BY <1>2, <1>6, <1>7, <1>8
<1> QED
  BY <1>1, <1>2, <1>3, <1>4, <1>5, <1>7, <1>9, <1>10, <1>11 DEF is

\* iput() of an inode that others refer to, or that has links, or that is freed.
LEMMA IputDropKeeps ==
  ASSUME FilesInv, NEW p \in Proc, IputDrop(p)
  PROVE  Kept
<1> DEFINE i == Head(t[p].puts)
           c == [t[p] EXCEPT !.puts = Tail(@), !.phase = "put"]
<1>1. /\ t[p].puts # <<>> /\ t[p].phase # "freed" /\ s' = Unreferenced(i)
      /\ t' = [t EXCEPT ![p] = c] /\ UNCHANGED <<file, ofile, boot>>
  BY DEF IputDrop, Putting, FilesInv, Types
<1>2. /\ i \in Inum \ {Root} /\ \A j : PutAt(t[p], j, 1) <=> j = i
      /\ Tail(t[p].puts) \in Seq(Inum) /\ Len(Tail(t[p].puts)) <= 1
      /\ \A j : 1 <= Len(Tail(t[p].puts)) /\ Tail(t[p].puts)[1] = j <=> PutAt(t[p], j, 2)
      /\ t[p].pc \notin {"idle", "close"} /\ Running /\ t[p] \in Calls
      /\ Place(t[p]) /\ AllocatedTo(s, t[p])
      /\ s \in Fs /\ s.ref \in [Inum -> Nat] /\ s.ref[Root] = 0
      /\ s.lock \in [Inum -> Owner] /\ s.ic \in [Inum -> Inode] /\ s.valid \in [Inum -> BOOLEAN]
      /\ \A k \in Inum : s.lock[k] = p <=> Locking(t[p], k)
  BY <1>1, PuttingIs
<1>3. /\ c \in Calls /\ c.pc = t[p].pc /\ c.kind = t[p].kind /\ c.path = t[p].path
      /\ c.new = t[p].new /\ c.dp = t[p].dp /\ c.ip = t[p].ip /\ c.phase = "put"
      /\ c.puts = Tail(t[p].puts)
  BY <1>2 DEF Calls
<1>4. Goes(p, c)
  BY <1>1, <1>3 DEF Goes
<1> HIDE DEF i, c
<1>5. \A j : (PutAt(c, j, 1) <=> PutAt(t[p], j, 2)) /\ ~PutAt(c, j, 2)
  <2>1. Len(c.puts) \in Nat /\ Len(c.puts) <= 1
    BY <1>2, <1>3
  <2> QED
    BY <1>2, <1>3, <2>1 DEF PutAt
<1>6. \A j : /\ Held(t[p], j) = Held(c, j) + IF j = i THEN 1 ELSE 0
             /\ Live(c, j) => Live(t[p], j)
             /\ Locking(c, j) <=> Locking(t[p], j)
             /\ Pends(c, j) <=> Pends(t[p], j)
  BY <1>1, <1>2, <1>3, <1>5 DEF Held, Live, Locking, Pends, HasDp, HasIp, One
<1>7. s.ref[i] > 0
  BY <1>2, <1>6, HeldFew, HeldIsCounted
<1>8. /\ s' \in Fs /\ s'.ino = s.ino /\ s'.ents = s.ents /\ s'.used = s.used
      /\ s'.lock = s.lock /\ s'.ref = [s.ref EXCEPT ![i] = @ - 1]
      /\ \A k \in Inum : s'.valid[k] => /\ s.valid[k] /\ s'.ic[k] = s.ic[k]
      /\ \A k \in Inum : s.valid[k] => s'.valid[k] \/ (k = i /\ s.ref[i] = 1)
  <2> DEFINE r == [s.ref EXCEPT ![i] = @ - 1]
  <2>1. r \in [Inum -> Nat]
    BY <1>2, <1>7
  <2>2. NoInode \in Inode
    BY DEF NoInode, Inode, InodeTypes
  <2>3. CASE s.ref[i] = 1
    <3> DEFINE v == [s.valid EXCEPT ![i] = FALSE]
               m == [s.ic EXCEPT ![i] = NoInode]
    <3>1. v \in [Inum -> BOOLEAN] /\ m \in [Inum -> Inode]
      BY <1>2, <2>2
    <3>2. \A k \in Inum : /\ v[k] <=> s.valid[k] /\ k # i
                          /\ k # i => m[k] = s.ic[k]
      BY <1>2
    <3>3. s' = [s EXCEPT !.ref = r, !.valid = v, !.ic = m]
      BY <1>1, <1>2, <2>3 DEF Unreferenced, Invalid, Fs
    <3> HIDE DEF r, v, m
    <3>4. /\ s' \in Fs /\ s'.ino = s.ino /\ s'.ents = s.ents /\ s'.used = s.used
          /\ s'.lock = s.lock /\ s'.ref = r /\ s'.valid = v /\ s'.ic = m
      BY <1>2, <2>1, <3>1, <3>3 DEF Fs
    <3> QED
      BY <2>3, <3>2, <3>4 DEF r
  <2>4. CASE s.ref[i] # 1
    <3>1. s' = [s EXCEPT !.ref = r]
      BY <1>1, <1>2, <2>4 DEF Unreferenced, Fs
    <3> HIDE DEF r
    <3>2. /\ s' \in Fs /\ s'.ino = s.ino /\ s'.ents = s.ents /\ s'.used = s.used
          /\ s'.lock = s.lock /\ s'.ref = r /\ s'.valid = s.valid /\ s'.ic = s.ic
      BY <1>2, <2>1, <3>1 DEF Fs
    <3> QED
      BY <3>2 DEF r
  <2> QED
    BY <2>3, <2>4
<1>9. LockMoves(p, c)
  BY <1>2, <1>6, <1>8 DEF LockMoves
<1>10. RefMoves(p, c)
  <2>1. s'.ref[Root] = 0 /\ \A k \in Inum : s'.ref[k] = s.ref[k] - IF k = i THEN 1 ELSE 0
    BY <1>2, <1>8
  <2>2. \A k \in Inum : Held(c, k) \in 0 .. 4 /\ Held(t[p], k) \in 0 .. 4 /\ s.ref[k] \in Nat
    BY <1>2, HeldFew
  <2> QED
    BY <1>6, <2>1, <2>2 DEF RefMoves
<1>11. LiveMoves(p, c) /\ AllocatedTo(s, c)
  BY <1>2, <1>3, <1>6 DEF LiveMoves, AllocatedTo
<1>12. Place(c)
  BY <1>2, <1>3, <1>5 DEF Place, HasDp, HasIp
<1>13. Copies'
  <2>1. s.ref[i] = 1 => s.lock[i] = Nobody
    <3> SUFFICES ASSUME s.ref[i] = 1, s.lock[i] # Nobody PROVE FALSE
      OBVIOUS
    <3>1. PICK q \in Proc : s.lock[i] = q
      BY <1>2 DEF Owner
    <3>2. Locking(t[q], i)
      BY <1>2, <3>1 DEF FilesInv, Locks
    <3>3. Held(t[q], i) >= 1
      BY <3>2, LiveIsHeld
    <3>4. Held(t[p], i) = 1 /\ q = p
      BY <1>2, <1>6, <3>3, HeldFew, OnlyReference
    <3>5. Held(c, i) = 0
      BY <1>6, <3>4, HeldFew
    <3>6. Locking(c, i)
      BY <1>6, <3>2, <3>4
    <3> QED
      BY <3>5, <3>6, LiveIsHeld
  <2>2. \A k \in Inum : s'.lock[k] # Nobody => s'.valid[k]
    BY <1>8, <2>1, LockedCopies
  <2> QED
    BY <1>1, <1>4, <1>8, <2>2, CopiesMove
<1> QED
  BY <1>1, <1>2, <1>3, <1>4, <1>6, <1>8, <1>9, <1>10, <1>11, <1>12, <1>13, LookKeeps

\* The inode that iput() freed is unlocked and has no copy.
LEMMA IputUnlockKeeps ==
  ASSUME FilesInv, NEW p \in Proc, IputUnlock(p)
  PROVE  Kept
<1> DEFINE i == Head(t[p].puts)
           c == [t[p] EXCEPT !.phase = "drop"]
<1>1. /\ t[p].puts # <<>> /\ t[p].phase = "freed" /\ s' = Iunlock(Invalid(i), i)
      /\ t' = [t EXCEPT ![p] = c] /\ UNCHANGED <<file, ofile, boot>>
  BY DEF IputUnlock, Putting, FilesInv, Types
<1>2. /\ i \in Inum \ {Root} /\ \A j : PutAt(t[p], j, 1) <=> j = i
      /\ t[p].pc \notin {"idle", "close"} /\ Running /\ t[p] \in Calls
      /\ Place(t[p]) /\ AllocatedTo(s, t[p])
      /\ s \in Fs /\ s.ref \in [Inum -> Nat] /\ s.ref[Root] = 0
      /\ s.lock \in [Inum -> Owner] /\ s.ic \in [Inum -> Inode] /\ s.valid \in [Inum -> BOOLEAN]
      /\ \A k \in Inum : s.lock[k] = p <=> Locking(t[p], k)
  BY <1>1, PuttingIs
<1>3. /\ c \in Calls /\ c.pc = t[p].pc /\ c.kind = t[p].kind /\ c.path = t[p].path
      /\ c.new = t[p].new /\ c.dp = t[p].dp /\ c.ip = t[p].ip /\ c.phase = "drop"
      /\ c.puts = t[p].puts
  BY <1>2 DEF Calls
<1>4. Goes(p, c)
  BY <1>1, <1>3 DEF Goes
<1> HIDE DEF i, c
<1>5. \A j, k : PutAt(c, j, k) <=> PutAt(t[p], j, k)
  BY <1>3 DEF PutAt
<1>6. ~Live(t[p], i)
  BY <1>1, <1>2 DEF Place
<1>7. \A j : /\ Held(c, j) = Held(t[p], j)
             /\ Live(c, j) <=> Live(t[p], j)
             /\ Pends(c, j) <=> Pends(t[p], j)
             /\ Locking(c, j) <=> Locking(t[p], j) /\ j # i
  <2>1. ~(HasDp(t[p]) /\ t[p].dp = i) /\ ~(HasIp(t[p]) /\ t[p].ip = i)
    BY <1>6 DEF Live
  <2>2. \A j : /\ Live(c, j) <=> Live(t[p], j)
               /\ Pends(c, j) <=> Pends(t[p], j)
    BY <1>1, <1>3, <1>5 DEF Live, Pends, HasDp, HasIp
  <2>3. \A j : Locking(c, j) <=> Locking(t[p], j) /\ j # i
    BY <1>1, <1>2, <1>3, <1>5, <2>1 DEF Locking, HasDp, HasIp
  <2>4. (HasDp(c) <=> HasDp(t[p])) /\ (HasIp(c) <=> HasIp(t[p]))
    BY <1>3 DEF HasDp, HasIp
  <2>5. \A j : Held(c, j) = Held(t[p], j)
    BY <1>3, <1>5, <2>4 DEF Held, One
  <2> QED
    BY <2>2, <2>3, <2>5
<1>8. /\ s' \in Fs /\ s'.ino = s.ino /\ s'.ents = s.ents /\ s'.used = s.used
      /\ s'.ref = s.ref /\ s'.lock = [s.lock EXCEPT ![i] = Nobody]
      /\ \A k \in Inum : s'.valid[k] <=> s.valid[k] /\ k # i
      /\ \A k \in Inum : k # i => s'.ic[k] = s.ic[k]
  <2> DEFINE v == [s.valid EXCEPT ![i] = FALSE]
             m == [s.ic EXCEPT ![i] = NoInode]
             x == Invalid(i)
  <2>1. NoInode \in Inode
    BY DEF NoInode, Inode, InodeTypes
  <2>2. v \in [Inum -> BOOLEAN] /\ m \in [Inum -> Inode]
    BY <1>2, <2>1
  <2>3. \A k \in Inum : /\ v[k] <=> s.valid[k] /\ k # i
                        /\ k # i => m[k] = s.ic[k]
    BY <1>2
  <2>4. x = [s EXCEPT !.valid = v, !.ic = m]
    BY <1>2 DEF Invalid, Fs
  <2> HIDE DEF v, m, x
  <2>5. /\ x \in Fs /\ x.ino = s.ino /\ x.ents = s.ents /\ x.used = s.used
        /\ x.lock = s.lock /\ x.ref = s.ref /\ x.valid = v /\ x.ic = m
    BY <1>2, <2>2, <2>4 DEF Fs
  <2> DEFINE y == Iunlock(x, i)
  <2>6. /\ y \in Fs /\ y.ino = x.ino /\ y.ents = x.ents /\ y.used = x.used /\ y.ref = x.ref
        /\ y.lock = [x.lock EXCEPT ![i] = Nobody] /\ y.valid = x.valid /\ y.ic = x.ic
    BY <1>2, <2>5, IunlockIs
  <2>7. s' = y
    BY <1>1 DEF x
  <2> HIDE DEF y
  <2> QED
    BY <2>3, <2>5, <2>6, <2>7
<1>9. \A k \in Inum : s'.lock[k] = IF k = i THEN Nobody ELSE s.lock[k]
  BY <1>2, <1>8
<1>10. s.lock[i] = p
  BY <1>1, <1>2 DEF Locking
<1>11. LockMoves(p, c)
  BY <1>2, <1>7, <1>9, <1>10, Bounds DEF LockMoves
<1>12. RefMoves(p, c)
  BY <1>2, <1>7, <1>8, HeldFew DEF RefMoves
<1>13. LiveMoves(p, c) /\ AllocatedTo(s, c)
  BY <1>2, <1>3, <1>7 DEF LiveMoves, AllocatedTo
<1>14. Place(c)
  BY <1>1, <1>2, <1>3, <1>5 DEF Place, HasDp, HasIp
<1>15. Copies'
  <2>1. \A q \in Proc : q # p => t'[q] = t[q]
    BY <1>4 DEF Goes, FilesInv, Types
  <2>2. ASSUME NEW j \in Inum, j # i, Freeing(j) PROVE Freeing(j)'
    BY <1>2, <2>1, <2>2 DEF Freeing, PutAt
  <2>3. ASSUME NEW j \in Inum
        PROVE  /\ s'.valid[j] => Freeing(j)' \/ (s'.ic[j] = s'.ino[j] /\ s'.ino[j].type # "none")
               /\ s'.lock[j] # Nobody => s'.valid[j]
    <3>1. CASE j = i
      BY <1>8, <1>9, <3>1
    <3>2. CASE j # i
      BY <1>8, <1>9, <2>2, <3>2 DEF FilesInv, Copies
    <3> QED
      BY <3>1, <3>2
  <2> QED
    BY <2>3 DEF Copies
<1> QED
  BY <1>1, <1>2, <1>3, <1>4, <1>7, <1>8, <1>11, <1>12, <1>13, <1>14, <1>15, LookKeeps

\* What iput() frees: an inode that only its caller refers to, and no name leads to.
LEMMA OrphanIs ==
  ASSUME FilesInv, NEW p \in Proc, t[p].puts # <<>>, t[p].phase = "put",
         Orphan(Head(t[p].puts))
  PROVE  /\ s.lock[Head(t[p].puts)] = Nobody
         /\ s.ic[Head(t[p].puts)] = s.ino[Head(t[p].puts)]
         /\ s.ino[Head(t[p].puts)].nlink = 0
         /\ FileRefs(Head(t[p].puts)) = {}
         /\ Held(t[p], Head(t[p].puts)) = 1
         /\ \A q \in Proc : q # p => Held(t[q], Head(t[p].puts)) = 0
         /\ \A d \in Inum, n \in Name : s.ents[d][n] # Head(t[p].puts)
<1> DEFINE i == Head(t[p].puts)
<1>1. /\ i \in Inum \ {Root} /\ PutAt(t[p], i, 1) /\ s.lock \in [Inum -> Owner]
      /\ \A k \in Inum : s.lock[k] = p <=> Locking(t[p], k)
  <2>1. /\ Head(t[p].puts) \in Inum \ {Root} /\ s.lock \in [Inum -> Owner]
        /\ \A j : PutAt(t[p], j, 1) <=> j = Head(t[p].puts)
        /\ \A k \in Inum : s.lock[k] = p <=> Locking(t[p], k)
    BY PuttingIs
  <2> QED
    BY <2>1
<1> HIDE DEF i
<1>2. s.ref[i] = 1 /\ s.valid[i] /\ s.ic[i].nlink = 0
  BY DEF Orphan, i
<1>3. Held(t[p], i) >= 1
  BY <1>1 DEF Held, HasDp, HasIp, One
<1>4. /\ FileRefs(i) = {} /\ Held(t[p], i) = 1
      /\ \A q \in Proc : q # p => Held(t[q], i) = 0
  BY <1>1, <1>2, <1>3, OnlyReference
<1>5. s.lock[i] = Nobody
  <2> SUFFICES ASSUME s.lock[i] # Nobody PROVE FALSE
    OBVIOUS
  <2>1. PICK q \in Proc : s.lock[i] = q
    BY <1>1 DEF Owner
  <2>2. Locking(t[q], i)
    BY <1>1, <2>1 DEF FilesInv, Locks
  <2>3. Held(t[q], i) >= 1
    BY <2>2, LiveIsHeld
  <2>4. q = p
    BY <1>4, <2>3
  <2> QED
    BY <1>1, <1>4, <2>2, <2>4 DEF Locking, Held, HasDp, HasIp, One
<1>6. s.ic[i] = s.ino[i]
  BY <1>1, <1>2, <1>5, Current
<1>7. ASSUME NEW d \in Inum, NEW n \in Name PROVE s.ents[d][n] # i
  <2>1. s.ents[d][n] # 0 => s.ino[s.ents[d][n]].nlink >= 1
    BY NamedIsLinked
  <2>2. i # 0 /\ s.ino[i].nlink = 0
    BY <1>1, <1>2, <1>6, Bounds
  <2> QED
    BY <2>1, <2>2
<1> QED
  BY <1>2, <1>4, <1>5, <1>6, <1>7 DEF i

\* Fewer names are counted when entries go and inodes are freed.
LEMMA LinksShrink ==
  ASSUME FilesInv, t \in [Proc -> Calls], NEW p \in Proc, NEW c, t' = [t EXCEPT ![p] = c],
         NEW i \in Inum, s'.ino[i].nlink = s.ino[i].nlink, Pends(c, i) <=> Pends(t[p], i),
         \A d \in Inum, n \in Name : s'.ents[d][n] = s.ents[d][n] \/ s'.ents[d][n] = 0,
         \A j \in Inum : s'.ino[j].type \in {s.ino[j].type, "none"}
  PROVE  s'.ino[i].nlink >= Cardinality(Entries(i))' + Cardinality(Pending(i))'
                            + Cardinality(Subs(i))' + One(i = Root)
<1>1. Cardinality(Pending(i))' = Cardinality(Pending(i)) /\ Cardinality(Pending(i)) \in Nat
  <2>1. Cardinality(Pending(i))' = Cardinality(Pending(i)) + (IF Pends(c, i) THEN 1 ELSE 0)
                                   - (IF Pends(t[p], i) THEN 1 ELSE 0)
    BY PendingMoves
  <2> QED
    BY <2>1, Finite
<1>2. Cardinality(Entries(i))' <= Cardinality(Entries(i)) /\ Cardinality(Entries(i)) \in Nat
      /\ Cardinality(Entries(i))' \in Nat
  <2>1. Entries(i)' \subseteq Entries(i)
    <3>1. \A e \in Inum \X Name : e[1] \in Inum /\ e[2] \in Name
      OBVIOUS
    <3>2. ASSUME NEW e \in Inum \X Name, s'.ino[e[1]].type = "dir", s'.ents[e[1]][e[2]] = i
          PROVE  s.ino[e[1]].type = "dir" /\ s.ents[e[1]][e[2]] = i
      BY <3>1, <3>2, Bounds
    <3> QED
      BY <3>2 DEF Entries
  <2>2. IsFiniteSet(Entries(i))
    BY Finite
  <2>3. Cardinality(Entries(i)') <= Cardinality(Entries(i)) /\ IsFiniteSet(Entries(i)')
    BY <2>1, <2>2, FS_Subset
  <2> QED
    BY <2>2, <2>3, FS_CardinalityType
<1>3. Cardinality(Subs(i))' <= Cardinality(Subs(i)) /\ Cardinality(Subs(i)) \in Nat
      /\ Cardinality(Subs(i))' \in Nat
  <2>1. Subs(i)' \subseteq Subs(i)
    <3>1. ASSUME NEW n \in Name, s'.ents[i][n] # 0, s'.ino[s'.ents[i][n]].type = "dir"
          PROVE  s.ents[i][n] # 0 /\ s.ino[s.ents[i][n]].type = "dir"
      <4>1. s'.ents[i][n] = s.ents[i][n]
        BY <3>1
      <4>2. s.ents[i][n] \in Inum
        BY <3>1, <4>1, NamedIsLinked
      <4> QED
        BY <3>1, <4>1, <4>2
    <3> QED
      BY <3>1 DEF Subs
  <2>2. IsFiniteSet(Subs(i))
    BY Finite
  <2>3. Cardinality(Subs(i)') <= Cardinality(Subs(i)) /\ IsFiniteSet(Subs(i)')
    BY <2>1, <2>2, FS_Subset
  <2> QED
    BY <2>2, <2>3, FS_CardinalityType
<1>4. s.ino[i].nlink >= Cardinality(Entries(i)) + Cardinality(Pending(i))
                        + Cardinality(Subs(i)) + One(i = Root)
  BY DEF FilesInv, Links
<1>5. One(i = Root) \in Nat /\ s.ino[i].nlink \in Nat
  BY PartTypes DEF One, FilesInv
<1> QED
  BY <1>1, <1>2, <1>3, <1>4, <1>5

\* iput() frees an inode.
LEMMA IputFreeKeeps ==
  ASSUME FilesInv, NEW p \in Proc, IputFree(p)
  PROVE  Kept
<1> DEFINE i == Head(t[p].puts)
           c == [t[p] EXCEPT !.phase = "freed"]
           x == [s EXCEPT !.lock[i] = p]
<1>1. /\ t[p].puts # <<>> /\ t[p].phase = "put" /\ s' = FreeInode(x, i) /\ Orphan(i)
      /\ t' = [t EXCEPT ![p] = c] /\ UNCHANGED <<file, ofile, boot>>
  BY DEF IputFree, Putting, FilesInv, Types
<1>2. /\ i \in Inum \ {Root} /\ \A j : PutAt(t[p], j, 1) <=> j = i
      /\ t[p].pc \notin {"idle", "close"} /\ Running /\ t[p] \in Calls
      /\ Place(t[p]) /\ AllocatedTo(s, t[p])
      /\ s \in Fs /\ s.ref \in [Inum -> Nat] /\ s.ref[Root] = 0
      /\ s.lock \in [Inum -> Owner] /\ s.ic \in [Inum -> Inode] /\ s.valid \in [Inum -> BOOLEAN]
      /\ s.ino \in [Inum -> Inode]
      /\ \A k \in Inum : s.lock[k] = p <=> Locking(t[p], k)
  BY <1>1, PuttingIs
<1>3. /\ c \in Calls /\ c.pc = t[p].pc /\ c.kind = t[p].kind /\ c.path = t[p].path
      /\ c.new = t[p].new /\ c.dp = t[p].dp /\ c.ip = t[p].ip /\ c.phase = "freed"
      /\ c.puts = t[p].puts
  BY <1>2 DEF Calls
<1>4. Goes(p, c)
  BY <1>1, <1>3 DEF Goes
<1>5. /\ s.lock[i] = Nobody /\ s.ic[i] = s.ino[i] /\ s.ino[i].nlink = 0
      /\ FileRefs(i) = {} /\ Held(t[p], i) = 1
      /\ \A q \in Proc : q # p => Held(t[q], i) = 0
      /\ \A d \in Inum, n \in Name : s.ents[d][n] # i
  BY <1>1, OrphanIs
<1>6. s.valid[i]
  BY <1>1 DEF Orphan
<1> HIDE DEF i, c
<1>7. /\ x \in Fs /\ x.ino = s.ino /\ x.ents = s.ents /\ x.used = s.used /\ x.ref = s.ref
      /\ x.lock = [s.lock EXCEPT ![i] = p] /\ x.valid = s.valid /\ x.ic = s.ic
  BY <1>2 DEF Fs, Owner
<1> HIDE DEF x
<1>8. /\ s' \in Fs /\ s'.ref = s.ref /\ s'.lock = [s.lock EXCEPT ![i] = p]
      /\ s'.valid = s.valid /\ s'.ents = [s.ents EXCEPT ![i] = NoEntry]
      /\ s'.used = s.used \ s.ino[i].addrs
      /\ s'.ino = [s.ino EXCEPT ![i].addrs = {}, ![i].type = "none"]
      /\ s'.ic = [s.ic EXCEPT ![i].addrs = {}, ![i].type = "none"]
  <2> DEFINE y == FreeInode(x, i)
  <2>1. /\ y \in Fs /\ y.ref = x.ref /\ y.lock = x.lock /\ y.valid = x.valid
        /\ y.ents = [x.ents EXCEPT ![i] = NoEntry] /\ y.used = x.used \ x.ino[i].addrs
        /\ y.ino = [x.ino EXCEPT ![i].addrs = {}, ![i].type = "none"]
        /\ y.ic = [x.ic EXCEPT ![i].addrs = {}, ![i].type = "none"]
    <3>1. x \in Fs /\ i \in Inum /\ x.ic[i] = x.ino[i]
      BY <1>2, <1>5, <1>7
    <3> QED
      BY <3>1, FreeInodeIs
  <2>2. s' = y
    BY <1>1
  <2> HIDE DEF y
  <2> QED
    BY <1>7, <2>1, <2>2
<1>9. /\ s'.ino[i].type = "none" /\ s'.ino[i].nlink = s.ino[i].nlink /\ s'.ino[i].addrs = {}
      /\ \A j \in Inum : j # i => s'.ino[j] = s.ino[j] /\ s'.ic[j] = s.ic[j]
      /\ \A j \in Inum : j # i => s'.ents[j] = s.ents[j]
      /\ s'.ents[i] = NoEntry
  <2>1. s.ino[i] \in Inode /\ s.ents \in [Inum -> [Name -> 0 .. NINODES]]
    BY <1>2 DEF Fs
  <2> QED
    BY <1>2, <1>8, <2>1 DEF Inode
<1>10. \A d \in Inum, n \in Name : s'.ents[d][n] = IF d = i THEN 0 ELSE s.ents[d][n]
  BY <1>9 DEF NoEntry
<1>11. \A j, k : PutAt(c, j, k) <=> PutAt(t[p], j, k)
  BY <1>3 DEF PutAt
<1>12. ~(HasDp(t[p]) /\ t[p].dp = i) /\ ~(HasIp(t[p]) /\ t[p].ip = i) /\ ~PutAt(t[p], i, 2)
  BY <1>2, <1>5 DEF Held, One
<1>13. /\ \A j : Held(c, j) = Held(t[p], j) /\ (Pends(c, j) <=> Pends(t[p], j))
       /\ \A j : Live(c, j) <=> Live(t[p], j) /\ j # i
       /\ \A j : Locking(c, j) <=> Locking(t[p], j) \/ j = i
  <2>1. (HasDp(c) <=> HasDp(t[p])) /\ (HasIp(c) <=> HasIp(t[p]))
    BY <1>3 DEF HasDp, HasIp
  <2>2. \A j : Held(c, j) = Held(t[p], j) /\ (Pends(c, j) <=> Pends(t[p], j))
    BY <1>3, <1>11, <2>1 DEF Held, One, Pends
  <2>3. \A j : Live(c, j) <=> Live(t[p], j) /\ j # i
    BY <1>1, <1>2, <1>3, <1>11, <1>12, <2>1 DEF Live
  <2>4. \A j : Locking(c, j) <=> Locking(t[p], j) \/ j = i
    BY <1>1, <1>2, <1>3, <1>11 DEF Locking
  <2> QED
    BY <2>2, <2>3, <2>4
<1>14. Types'
  <2>1. t' \in [Proc -> Calls]
    BY <1>4 DEF FilesInv, Types, Goes
  <2> QED
    BY <1>1, <1>8, <2>1 DEF FilesInv, Types
<1>15. References'
  <2>1. RefMoves(p, c)
    BY <1>2, <1>8, <1>13, HeldFew DEF RefMoves
  <2> QED
    BY <1>1, <1>4, <2>1, RefsMove
<1>16. Place(c)
  BY <1>1, <1>2, <1>3, <1>11, <1>13 DEF Place, HasDp, HasIp
<1>17. \A j \in Inum : s'.lock[j] = IF j = i THEN p ELSE s.lock[j]
  BY <1>2, <1>8
<1>18. LockMoves(p, c)
  BY <1>2, <1>5, <1>13, <1>17, Bounds DEF LockMoves
<1>19. t'[p] = c /\ \A q \in Proc : q # p => t'[q] = t[q]
  BY <1>4 DEF Goes, FilesInv, Types
<1>20. Copies'
  <2>1. ASSUME NEW j \in Inum, Freeing(j) PROVE Freeing(j)'
    BY <1>1, <1>19, <2>1 DEF Freeing, PutAt
  <2>2. PutAt(t'[p], i, 1) /\ t'[p].phase = "freed"
    BY <1>2, <1>3, <1>11, <1>19
  <2>3. ASSUME NEW j \in Inum
        PROVE  /\ s'.valid[j] => Freeing(j)' \/ (s'.ic[j] = s'.ino[j] /\ s'.ino[j].type # "none")
               /\ s'.lock[j] # Nobody => s'.valid[j]
    <3>1. CASE j = i
      <4>1. Freeing(j)'
        BY <2>2, <3>1 DEF Freeing, PutAt
      <4> QED
        BY <1>6, <1>8, <3>1, <4>1
    <3>2. CASE j # i
      <4>1. /\ s.valid[j] => Freeing(j) \/ (s.ic[j] = s.ino[j] /\ s.ino[j].type # "none")
            /\ s.lock[j] # Nobody => s.valid[j]
        BY DEF FilesInv, Copies
      <4> QED
        BY <1>8, <1>9, <1>17, <2>1, <3>2, <4>1
    <3> QED
      BY <3>1, <3>2
  <2> QED
    BY <2>3 DEF Copies
<1>21. Disk(s)'
  <2>1. Disk(s)
    BY DEF FilesInv
  <2>2. Disk(s')
    <3> DEFINE y == s'
    <3>1. /\ s \in Fs /\ y \in Fs /\ i \in Inum /\ i # Root
          /\ y.ents = [s.ents EXCEPT ![i] = NoEntry] /\ y.used = s.used \ s.ino[i].addrs
          /\ y.ino[i].addrs = {} /\ \A j \in Inum : j # i => y.ino[j] = s.ino[j]
      BY <1>2, <1>8, <1>9
    <3> HIDE DEF y
    <3>2. Disk(y)
      BY <2>1, <3>1, DiskTrunc
    <3> QED
      BY <3>2 DEF y
  <2> QED
    BY <2>2 DEF Disk, Owned, Shaped
<1>22. Links'
  <2>1. ASSUME NEW j \in Inum
        PROVE  s'.ino[j].nlink >= Cardinality(Entries(j))' + Cardinality(Pending(j))'
                                  + Cardinality(Subs(j))' + One(j = Root)
    <3>1. s'.ino[j].nlink = s.ino[j].nlink
      BY <1>9
    <3>2. \A k \in Inum : s'.ino[k].type \in {s.ino[k].type, "none"}
      BY <1>9
    <3>3. t \in [Proc -> Calls]
      BY DEF FilesInv, Types
    <3>4. \A d \in Inum, n \in Name : s'.ents[d][n] = s.ents[d][n] \/ s'.ents[d][n] = 0
      BY <1>10
    <3> QED
      BY <1>1, <1>13, <3>1, <3>2, <3>3, <3>4, LinksShrink
  <2> QED
    BY <2>1 DEF Links, One
<1>23. AllocatedTo(s', c)
  <2>1. \A j \in Inum : Live(c, j) => s'.ino[j] = s.ino[j] /\ s.ino[j].type # "none"
    BY <1>2, <1>9, <1>13 DEF AllocatedTo
  <2>2. HasDp(c) => c.dp # i /\ c.dp \in Inum
    BY <1>3, <1>12, <1>16 DEF Place, HasDp
  <2>3. HasIp(c) => c.ip # i /\ c.ip \in Inum
    BY <1>3, <1>12, <1>16 DEF Place, HasIp
  <2>4. c.pc \in {"bad", "unlink", "unlink_ip", "link_new", "create", "create_new"}
          => s'.ino[c.dp].type = "dir"
    BY <1>2, <1>3, <1>9, <2>2 DEF AllocatedTo, HasDp
  <2>5. c.pc \in {"walk_new", "link_new", "link_bad"} => s'.ino[c.ip].type # "dir"
    BY <1>2, <1>3, <1>9, <2>3 DEF AllocatedTo, HasIp
  <2>6. c.pc = "unlink_ip" => s'.ents[c.dp][Head(c.path)] = c.ip
    BY <1>2, <1>3, <1>9, <2>2 DEF AllocatedTo, HasDp
  <2> QED
    BY <2>1, <2>4, <2>5, <2>6 DEF AllocatedTo
<1>24. NewTo(p)'
  <2> SUFFICES ASSUME c.pc = "create_new"
               PROVE  /\ s'.ino[c.ip].type = TypeOf(c.kind) /\ s'.ino[c.ip].nlink = 0
                      /\ \A q \in Proc : q # p => ~Live(t'[q], c.ip)
                      /\ FileRefs(c.ip) = {}
    BY <1>1, <1>19 DEF NewTo, Live, HasDp, HasIp, PutAt, FileRefs
  <2>1. c.ip # i /\ c.ip \in Inum /\ t[p].pc = "create_new"
    BY <1>3, <1>12, <1>16 DEF Place, HasIp
  <2>2. NewTo(p)
    BY DEF FilesInv, NewInodes
  <2> QED
    BY <1>3, <1>9, <1>19, <2>1, <2>2 DEF NewTo
<1>25. LiveMoves(p, c) /\ FileMoves(p)
  BY <1>1, <1>13 DEF LiveMoves, FileMoves
<1>26. InoMoves(p)
  <2>1. \A q \in Proc : q # p => ~Live(t[q], i)
    BY <1>5, LiveIsHeld, HeldFew
  <2>2. t[p].pc = "opened" => t[p].ip # i
    BY <1>12 DEF HasIp
  <2>3. \A d \in Inum, n \in Name : s'.ents[d][n] # i
    BY <1>2, <1>5, <1>10, Bounds
  <2>4. Entries(i) = {}
    BY <1>5 DEF Entries
  <2>5. Subject(p) # i
    BY <1>2, <1>12, Bounds DEF Subject, HasDp, HasIp
  <2> QED
    BY <1>5, <1>9, <2>1, <2>2, <2>3, <2>4, <2>5 DEF InoMoves
<1>27. EntMoves(p)
  BY <1>5, <1>10 DEF EntMoves
<1> QED
  BY <1>1, <1>2, <1>4, <1>14, <1>15, <1>16, <1>18, <1>20, <1>21, <1>22, <1>23, <1>24, <1>25,
     <1>26, <1>27, StepKeeps

-----------------------------------------------------------------------------
(* The steps that write inodes and entries *)

\* From x to y only the inode i and its copy change, and its type stays.
Wrote(x, y, i) ==
  /\ y \in Fs /\ y.ref = x.ref /\ y.lock = x.lock /\ y.valid = x.valid
  /\ \A j \in Inum : j # i => y.ino[j] = x.ino[j] /\ y.ic[j] = x.ic[j]
  /\ y.ino[i].type = x.ino[i].type /\ y.ic[i] = y.ino[i]
  /\ Disk(y)

\* A changed number of links, ...
LEMMA SetNlinkWrote ==
  ASSUME NEW x \in Fs, Disk(x), NEW i \in Inum, NEW n \in Nat, x.ic[i] = x.ino[i]
  PROVE  /\ Wrote(x, SetNlink(x, i, n), i)
         /\ SetNlink(x, i, n).ents = x.ents /\ SetNlink(x, i, n).ino[i].nlink = n
<1> DEFINE y == SetNlink(x, i, n)
<1>1. /\ y \in Fs /\ y.ents = x.ents /\ y.used = x.used /\ y.ref = x.ref /\ y.lock = x.lock
      /\ y.valid = x.valid /\ y.ino = [x.ino EXCEPT ![i].nlink = n]
      /\ y.ic = [x.ic EXCEPT ![i].nlink = n]
  BY SetNlinkIs
<1> HIDE DEF y
<1>2. Disk(y)
  BY <1>1, DiskNlink
<1>3. x.ino \in [Inum -> Inode] /\ x.ic \in [Inum -> Inode] /\ x.ino[i] \in Inode
  BY DEF Fs
<1>4. y.ino[i] = [x.ino[i] EXCEPT !.nlink = n] /\ y.ic[i] = [x.ino[i] EXCEPT !.nlink = n]
      /\ \A j \in Inum : j # i => y.ino[j] = x.ino[j] /\ y.ic[j] = x.ic[j]
  BY <1>1, <1>3
<1>5. y.ino[i].nlink = n /\ y.ino[i].type = x.ino[i].type
  BY <1>3, <1>4 DEF Inode
<1> QED
  BY <1>1, <1>2, <1>4, <1>5 DEF Wrote, y

\* ... a block more, ...
LEMMA WriteiWrote ==
  ASSUME NEW x \in Fs, Disk(x), NEW i \in Inum, x.ic[i] = x.ino[i], x.ino[i].type # "none",
         FreeBlock(x) # {}
  PROVE  /\ Wrote(x, Writei(x, i), i)
         /\ Writei(x, i).ents = x.ents /\ Writei(x, i).ino[i].nlink = x.ino[i].nlink
<1> DEFINE y == Writei(x, i)
<1>1. PICK b \in FreeBlock(x) :
        /\ y \in Fs /\ y.ents = x.ents /\ y.used = x.used \union {b} /\ y.ref = x.ref
        /\ y.lock = x.lock /\ y.valid = x.valid
        /\ y.ino = [x.ino EXCEPT ![i].addrs = @ \union {b}]
        /\ y.ic = [x.ic EXCEPT ![i].addrs = @ \union {b}]
  <2>1. \E b \in FreeBlock(x) :
          /\ Writei(x, i) \in Fs
          /\ Writei(x, i).ents = x.ents /\ Writei(x, i).used = x.used \union {b}
          /\ Writei(x, i).ref = x.ref /\ Writei(x, i).lock = x.lock
          /\ Writei(x, i).valid = x.valid
          /\ Writei(x, i).ino = [x.ino EXCEPT ![i].addrs = @ \union {b}]
          /\ Writei(x, i).ic = [x.ic EXCEPT ![i].addrs = @ \union {b}]
    BY WriteiIs
  <2> QED
    BY <2>1
<1> HIDE DEF y
<1>2. Disk(y)
  BY <1>1, DiskWrite
<1>3. x.ino \in [Inum -> Inode] /\ x.ic \in [Inum -> Inode] /\ x.ino[i] \in Inode
  BY DEF Fs
<1>4. /\ y.ino[i] = [x.ino[i] EXCEPT !.addrs = @ \union {b}]
      /\ y.ic[i] = [x.ino[i] EXCEPT !.addrs = @ \union {b}]
      /\ \A j \in Inum : j # i => y.ino[j] = x.ino[j] /\ y.ic[j] = x.ic[j]
  BY <1>1, <1>3
<1>5. y.ino[i].nlink = x.ino[i].nlink /\ y.ino[i].type = x.ino[i].type
  BY <1>3, <1>4 DEF Inode
<1> QED
  BY <1>1, <1>2, <1>4, <1>5 DEF Wrote, y

\* ... none, for a file, ...
LEMMA ItruncWrote ==
  ASSUME NEW x \in Fs, Disk(x), NEW i \in Inum, x.ic[i] = x.ino[i], x.ino[i].type = "file"
  PROVE  /\ Wrote(x, Itrunc(x, i), i)
         /\ Itrunc(x, i).ents = x.ents /\ Itrunc(x, i).ino[i].nlink = x.ino[i].nlink
<1> DEFINE y == Itrunc(x, i)
<1>1. /\ y \in Fs /\ y.ref = x.ref /\ y.lock = x.lock /\ y.valid = x.valid
      /\ y.ents = [x.ents EXCEPT ![i] = NoEntry] /\ y.used = x.used \ x.ino[i].addrs
      /\ y.ino = [x.ino EXCEPT ![i].addrs = {}] /\ y.ic = [x.ic EXCEPT ![i].addrs = {}]
  BY ItruncIs
<1> HIDE DEF y
<1>2. x.ino \in [Inum -> Inode] /\ x.ic \in [Inum -> Inode] /\ x.ino[i] \in Inode
  BY DEF Fs
<1>3. y.ino[i] = [x.ino[i] EXCEPT !.addrs = {}] /\ y.ic[i] = [x.ino[i] EXCEPT !.addrs = {}]
      /\ \A j \in Inum : j # i => y.ino[j] = x.ino[j] /\ y.ic[j] = x.ic[j]
  BY <1>1, <1>2
<1>4. /\ y.ino[i].nlink = x.ino[i].nlink /\ y.ino[i].type = x.ino[i].type
      /\ y.ino[i].addrs = {}
  BY <1>2, <1>3 DEF Inode
<1>5. i # Root /\ x.ents[i] = NoEntry
  BY DEF Disk, Shaped
<1>6. Disk(y)
  BY <1>1, <1>3, <1>4, <1>5, DiskTrunc
<1>7. y.ents = x.ents
  <2>1. x.ents \in [Inum -> [Name -> 0 .. NINODES]]
    BY DEF Fs
  <2> QED
    BY <1>1, <1>5, <2>1
<1> QED
  BY <1>1, <1>3, <1>4, <1>6, <1>7 DEF Wrote, y

\* ... or an entry.
LEMMA DirlinkWrote ==
  ASSUME NEW x \in Fs, Disk(x), NEW d \in Inum, NEW n \in Name, NEW i \in Inum \ {Root},
         x.ic[d] = x.ino[d], x.ino[d].type = "dir", CanLink(x, d, n),
         NEW z, z = Dirlink(x, d, n, i)
  PROVE  /\ Wrote(x, z, d) /\ z.ents = [x.ents EXCEPT ![d][n] = i]
         /\ z.ino[d].nlink = x.ino[d].nlink
<1> DEFINE y == IF x.ic[d].addrs = {} THEN Writei(x, d) ELSE x
<1>1. Wrote(x, y, d) /\ y.ents = x.ents /\ y.ino[d].nlink = x.ino[d].nlink
  <2>1. CASE x.ic[d].addrs = {}
    <3>1. FreeBlock(x) # {}
      BY <2>1 DEF CanLink
    <3>2. y = Writei(x, d)
      BY <2>1
    <3> HIDE DEF y
    <3> QED
      BY <3>1, <3>2, WriteiWrote
  <2>2. CASE x.ic[d].addrs # {}
    BY <2>2 DEF Wrote
  <2> QED
    BY <2>1, <2>2
<1>2. z = [y EXCEPT !.ents[d][n] = i]
  BY DEF Dirlink
<1> HIDE DEF y
<1>3. i \in 0 .. NINODES /\ i # Root
  BY Bounds
<1>4. y \in Fs /\ Disk(y) /\ y.ino[d].type = "dir"
  BY <1>1 DEF Wrote
<1>5. /\ z \in Fs /\ z.ino = y.ino /\ z.used = y.used /\ z.ref = y.ref /\ z.lock = y.lock
      /\ z.valid = y.valid /\ z.ic = y.ic /\ z.ents = [y.ents EXCEPT ![d][n] = i]
  <2> DEFINE e == [y.ents EXCEPT ![d][n] = i]
  <2>1. e \in [Inum -> [Name -> 0 .. NINODES]]
    BY <1>3, <1>4 DEF Fs
  <2>2. z = [y EXCEPT !.ents = e]
    BY <1>2, <1>4 DEF Fs
  <2> HIDE DEF e
  <2>3. /\ z \in Fs /\ z.ino = y.ino /\ z.used = y.used /\ z.ref = y.ref /\ z.lock = y.lock
        /\ z.valid = y.valid /\ z.ic = y.ic /\ z.ents = e
    BY <1>4, <2>1, <2>2 DEF Fs
  <2> QED
    BY <2>3 DEF e
<1>6. Disk(z)
  BY <1>3, <1>4, <1>5, DiskEntry
<1> QED
  BY <1>1, <1>5, <1>6 DEF Wrote

\* A changed entry moves the counts of names and of subdirectories.
LEMMA EntriesMove ==
  ASSUME FilesInv, NEW d \in Inum, NEW n \in Name, NEW v \in 0 .. NINODES,
         s.ino[d].type = "dir", s'.ents = [s.ents EXCEPT ![d][n] = v],
         \A j \in Inum : s'.ino[j].type = s.ino[j].type, NEW i \in Inum
  PROVE  /\ Cardinality(Entries(i))' = Cardinality(Entries(i)) + (IF v = i THEN 1 ELSE 0)
                                       - (IF s.ents[d][n] = i THEN 1 ELSE 0)
         /\ Cardinality(Subs(i))'
              = Cardinality(Subs(i))
                + (IF i = d /\ v # 0 /\ s.ino[v].type = "dir" THEN 1 ELSE 0)
                - (IF i = d /\ s.ents[d][n] # 0 /\ s.ino[s.ents[d][n]].type = "dir" THEN 1 ELSE 0)
<1>1. s.ents \in [Inum -> [Name -> 0 .. NINODES]]
  BY DEF FilesInv, Types, Fs
<1>2. /\ \A e \in Inum, m \in Name :
           s'.ents[e][m] = IF e = d /\ m = n THEN v ELSE s.ents[e][m]
      /\ s'.ents \in [Inum -> [Name -> 0 .. NINODES]]
  BY <1>1
<1>3. Cardinality(Entries(i))' = Cardinality(Entries(i)) + (IF v = i THEN 1 ELSE 0)
                                 - (IF s.ents[d][n] = i THEN 1 ELSE 0)
  <2> DEFINE e == <<d, n>>
             rest == Entries(i) \ {e}
  <2>1. e \in Entries(i) <=> s.ents[d][n] = i
    BY DEF Entries
  <2>2. Entries(i)' = IF v = i THEN rest \union {e} ELSE rest
    <3>1. ASSUME NEW f \in Inum \X Name
          PROVE  f \in Entries(i)' <=> (f = e /\ v = i) \/ f \in rest
      <4>1. f[1] \in Inum /\ f[2] \in Name /\ (f = e <=> f[1] = d /\ f[2] = n)
        OBVIOUS
      <4>2. f \in Entries(i)' <=> s'.ino[f[1]].type = "dir" /\ s'.ents[f[1]][f[2]] = i
        BY DEF Entries
      <4>3. f \in Entries(i) <=> s.ino[f[1]].type = "dir" /\ s.ents[f[1]][f[2]] = i
        BY DEF Entries
      <4> HIDE DEF e
      <4>4. f \in rest <=> f \in Entries(i) /\ f # e
        OBVIOUS
      <4> HIDE DEF rest
      <4>5. CASE f = e
        BY <1>2, <4>1, <4>2, <4>4, <4>5
      <4>6. CASE f # e
        BY <1>2, <4>1, <4>2, <4>3, <4>4, <4>6
      <4> QED
        BY <4>5, <4>6
    <3>2. Entries(i)' \subseteq Inum \X Name /\ rest \subseteq Inum \X Name /\ e \in Inum \X Name
      BY DEF Entries
    <3> HIDE DEF rest, e
    <3>3. Entries(i)' = {f \in Inum \X Name : (f = e /\ v = i) \/ f \in rest}
      BY <3>1, <3>2
    <3> QED
      BY <3>2, <3>3
  <2>3. /\ IsFiniteSet(Entries(i)) /\ Cardinality(Entries(i)) \in Nat /\ IsFiniteSet(rest)
        /\ Cardinality(rest) = IF e \in Entries(i) THEN Cardinality(Entries(i)) - 1
                               ELSE Cardinality(Entries(i))
    BY Finite, FS_RemoveElement
  <2>4. Cardinality(rest \union {e}) = Cardinality(rest) + 1
    BY <2>3, FS_AddElement
  <2> HIDE DEF rest, e
  <2>5. Cardinality(Entries(i)') = Cardinality(rest) + IF v = i THEN 1 ELSE 0
    BY <2>2, <2>3, <2>4
  <2> QED
    BY <2>1, <2>3, <2>5
<1>4. CASE i # d
  <2>1. Subs(i)' = Subs(i)
    <3>1. \A m \in Name : s.ents[i][m] # 0 => s.ents[i][m] \in Inum
      BY NamedIsLinked
    <3> QED
      BY <1>2, <1>4, <3>1 DEF Subs
  <2> QED
    BY <1>3, <1>4, <2>1, Finite
<1>5. CASE i = d
  <2> DEFINE rest == Subs(i) \ {n}
             gain == v # 0 /\ s.ino[v].type = "dir"
  <2>1. n \in Subs(i) <=> s.ents[d][n] # 0 /\ s.ino[s.ents[d][n]].type = "dir"
    BY <1>5 DEF Subs
  <2>2. Subs(i)' = IF gain THEN rest \union {n} ELSE rest
    <3>1. v # 0 => v \in Inum
      BY DEF Inum
    <3>2. \A m \in Name : s.ents[i][m] # 0 => s.ents[i][m] \in Inum
      BY NamedIsLinked
    <3>3. ASSUME NEW m \in Name
          PROVE  s'.ents[i][m] # 0 /\ s'.ino[s'.ents[i][m]].type = "dir"
                   <=> (m = n /\ gain) \/ m \in rest
      <4>1. m \in rest <=> m # n /\ s.ents[i][m] # 0 /\ s.ino[s.ents[i][m]].type = "dir"
        BY DEF Subs
      <4> HIDE DEF rest
      <4> QED
        BY <1>2, <1>5, <3>1, <3>2, <4>1
    <3>4. rest \subseteq Name
      BY DEF Subs
    <3> HIDE DEF rest, gain
    <3>5. Subs(i)' = {m \in Name : (m = n /\ gain) \/ m \in rest}
      BY <3>3 DEF Subs
    <3> QED
      BY <3>4, <3>5
  <2>3. /\ IsFiniteSet(Subs(i)) /\ Cardinality(Subs(i)) \in Nat /\ IsFiniteSet(rest)
        /\ Cardinality(rest) = IF n \in Subs(i) THEN Cardinality(Subs(i)) - 1
                               ELSE Cardinality(Subs(i))
    BY Finite, FS_RemoveElement
  <2>4. Cardinality(rest \union {n}) = Cardinality(rest) + 1
    BY <2>3, FS_AddElement
  <2> HIDE DEF rest
  <2>5. Cardinality(Subs(i)') = Cardinality(rest) + IF gain THEN 1 ELSE 0
    BY <2>2, <2>3, <2>4
  <2> QED
    BY <1>3, <1>5, <2>1, <2>3, <2>5
<1> QED
  BY <1>4, <1>5

\* Types are kept by a step of a call.
LEMMA TypesMove ==
  ASSUME FilesInv, NEW p \in Proc, NEW c, Goes(p, c), s' \in Fs, UNCHANGED <<file, ofile, boot>>
  PROVE  Types'
<1>1. t' \in [Proc -> Calls]
  BY DEF FilesInv, Types, Goes
<1> QED
  BY <1>1 DEF FilesInv, Types

\* The links stay enough when an entry is written.
LEMMA LinksEntry ==
  ASSUME FilesInv, NEW p \in Proc, NEW c, Goes(p, c), s' \in Fs,
         NEW d \in Inum, NEW n \in Name, NEW v \in 0 .. NINODES,
         s.ino[d].type = "dir", s'.ents = [s.ents EXCEPT ![d][n] = v],
         \A i \in Inum : s'.ino[i].type = s.ino[i].type,
         \A i \in Inum :
           s'.ino[i].nlink - s.ino[i].nlink
             >= (IF v = i THEN 1 ELSE 0) - (IF s.ents[d][n] = i THEN 1 ELSE 0)
                + (IF i = d /\ v # 0 /\ s.ino[v].type = "dir" THEN 1 ELSE 0)
                - (IF i = d /\ s.ents[d][n] # 0 /\ s.ino[s.ents[d][n]].type = "dir" THEN 1 ELSE 0)
                + (IF Pends(c, i) THEN 1 ELSE 0) - (IF Pends(t[p], i) THEN 1 ELSE 0)
  PROVE  Links'
<1>1. t \in [Proc -> Calls] /\ t' = [t EXCEPT ![p] = c]
  BY DEF FilesInv, Types, Goes
<1>2. ASSUME NEW i \in Inum
      PROVE  s'.ino[i].nlink >= Cardinality(Entries(i))' + Cardinality(Pending(i))'
                                + Cardinality(Subs(i))' + One(i = Root)
  <2> DEFINE a == IF v = i THEN 1 ELSE 0
             b == IF s.ents[d][n] = i THEN 1 ELSE 0
             e == IF i = d /\ v # 0 /\ s.ino[v].type = "dir" THEN 1 ELSE 0
             f == IF i = d /\ s.ents[d][n] # 0 /\ s.ino[s.ents[d][n]].type = "dir" THEN 1 ELSE 0
             g == IF Pends(c, i) THEN 1 ELSE 0
             h == IF Pends(t[p], i) THEN 1 ELSE 0
  <2>1. Cardinality(Pending(i))' = Cardinality(Pending(i)) + g - h
    BY <1>1, PendingMoves
  <2>2. /\ Cardinality(Entries(i))' = Cardinality(Entries(i)) + a - b
        /\ Cardinality(Subs(i))' = Cardinality(Subs(i)) + e - f
    BY EntriesMove
  <2>3. s.ino[i].nlink >= Cardinality(Entries(i)) + Cardinality(Pending(i))
                          + Cardinality(Subs(i)) + One(i = Root)
    BY DEF FilesInv, Links
  <2>4. s.ino[i].nlink \in Nat /\ s'.ino[i].nlink \in Nat /\ One(i = Root) \in Nat
    <3>1. s.ino[i].nlink \in Nat
      BY PartTypes DEF FilesInv
    <3>2. s'.ino[i] \in Inode
      BY DEF Fs
    <3> QED
      BY <3>1, <3>2 DEF Inode, One
  <2>5. s'.ino[i].nlink - s.ino[i].nlink >= a - b + e - f + g - h
    OBVIOUS
  <2>6. /\ a \in Int /\ b \in Int /\ e \in Int /\ f \in Int /\ g \in Int /\ h \in Int
        /\ Cardinality(Entries(i)) \in Nat /\ Cardinality(Pending(i)) \in Nat
        /\ Cardinality(Subs(i)) \in Nat
    BY Finite
  <2> HIDE DEF a, b, e, f, g, h
  <2> QED
    BY <2>1, <2>2, <2>3, <2>4, <2>5, <2>6
<1> QED
  BY <1>2 DEF Links, One

\* A step that writes inodes it refers to, and entries of directories it has locked.
LEMMA WriteKeeps ==
  ASSUME FilesInv, NEW p \in Proc, NEW c, Goes(p, c), Running, UNCHANGED <<file, ofile, boot>>,
         s' \in Fs, t[p].phase # "freed", c.pc # "create_new",
         Place(c), LockMoves(p, c), RefMoves(p, c), LiveMoves(p, c), AllocatedTo(s', c),
         \A i \in Inum :
           /\ s'.ino[i].type = s.ino[i].type
           /\ s'.ino[i].nlink = s.ino[i].nlink \/ Live(t[p], i)
           /\ s'.valid[i] => \/ s.valid[i] /\ s'.ic[i] = s.ic[i] /\ s'.ino[i] = s.ino[i]
                             \/ s'.ic[i] = s'.ino[i] /\ s'.ino[i].type # "none"
           /\ s'.lock[i] # Nobody => s'.valid[i],
         Disk(s'), EntMoves(p), Links'
  PROVE  Kept
<1>1. Types'
  BY TypesMove
<1>2. References'
  BY RefsMove
<1>3. Copies'
  BY CopiesMove
<1>4. Disk(s)'
  BY DEF Disk, Owned, Shaped
<1>5. NewTo(p)'
  <2>1. t'[p] = c
    BY DEF Goes, FilesInv, Types
  <2> QED
    BY <2>1 DEF NewTo
<1>6. FileMoves(p) /\ InoMoves(p)
  BY DEF FileMoves, InoMoves
<1> QED
  BY <1>1, <1>2, <1>3, <1>4, <1>5, <1>6, StepKeeps

\* The links an inode counts, without the root's own.
LEMMA LinksAt ==
  ASSUME FilesInv, NEW i \in Inum
  PROVE  /\ s.ino[i].nlink >= Cardinality(Entries(i)) + Cardinality(Pending(i))
                              + Cardinality(Subs(i))
         /\ s.ino[i].nlink \in Nat
<1> DEFINE r == One(i = Root)
<1>1. s.ino[i].nlink >= Cardinality(Entries(i)) + Cardinality(Pending(i))
                        + Cardinality(Subs(i)) + r
  BY DEF FilesInv, Links
<1>2. r \in Nat /\ s.ino[i].nlink \in Nat
  BY PartTypes DEF One, FilesInv
<1> HIDE DEF r
<1> QED
  BY <1>1, <1>2, Finite

\* A directory with a subdirectory counts a link for it.
LEMMA SubIsLinked ==
  ASSUME FilesInv, NEW d \in Inum, NEW n \in Name, s.ents[d][n] # 0,
         s.ino[s.ents[d][n]].type = "dir"
  PROVE  s.ino[d].nlink >= 1
<1>1. n \in Subs(d)
  BY DEF Subs
<1>2. Cardinality(Subs(d)) # 0
  BY <1>1, Finite, FS_EmptySet
<1> QED
  BY <1>2, Finite, LinksAt

\* A pending link is counted.
LEMMA PendingIsLinked ==
  ASSUME FilesInv, NEW p \in Proc, NEW i \in Inum, Pends(t[p], i)
  PROVE  s.ino[i].nlink >= 1
<1>1. p \in Pending(i)
  BY DEF Pending
<1>2. Cardinality(Pending(i)) # 0
  BY <1>1, Finite, FS_EmptySet
<1> QED
  BY <1>2, Finite, LinksAt

\* sys_unlink() fails with both inodes, the directory locked.
LEMMA UnlinkIpFailKeeps ==
  ASSUME FilesInv, NEW p \in Proc, t[p].pc = "unlink_ip", t[p].puts = <<>>,
         Unlocked(t[p].ip), s' = Iunlock(Ilock(s, p, t[p].ip), t[p].ip),
         To(p, "bad", <<t[p].ip>>), UNCHANGED <<file, ofile, boot>>
  PROVE  Kept
<1> DEFINE i == t[p].ip
           c == MovedCall(p, "bad", <<i>>)
<1>1. /\ Running /\ t[p].phase = "put" /\ \A j : ~PutAt(t[p], j, 1) /\ ~PutAt(t[p], j, 2)
      /\ Place(t[p]) /\ AllocatedTo(s, t[p])
      /\ s.ref \in [Inum -> Nat] /\ s.ref[Root] = 0 /\ s.lock \in [Inum -> Owner]
      /\ i \in Inum \ {Root} /\ s.ino[i].type # "none"
      /\ \A j \in Inum : s.lock[j] = p <=> Locking(t[p], j)
  BY Acting DEF HasIp
<1>2. /\ c \in Calls /\ c.pc = "bad" /\ c.kind = t[p].kind /\ c.path = t[p].path
      /\ c.dp = t[p].dp /\ c.phase = "put" /\ Len(c.puts) <= 1
      /\ \A j : PutAt(c, j, 1) <=> j = i /\ i # Root
      /\ \A j : ~PutAt(c, j, 2)
      /\ Goes(p, c)
  <2>1. "bad" \in Labels /\ i \in Inum
    BY <1>1 DEF Labels
  <2> HIDE DEF i
  <2> QED
    BY <1>1, <2>1, MovedOne DEF FilesInv, i
<1> HIDE DEF i, c
<1>3. \A j : /\ Held(c, j) = Held(t[p], j) /\ (Live(c, j) <=> Live(t[p], j))
             /\ Locking(c, j) <=> Locking(t[p], j)
             /\ ~Pends(c, j)
  BY <1>1, <1>2 DEF Held, Live, Locking, Pends, HasDp, HasIp, One, i
<1>4. /\ s' \in Fs /\ s'.ino = s.ino /\ s'.ents = s.ents /\ s'.used = s.used /\ s'.ref = s.ref
      /\ s'.lock = s.lock /\ s'.valid = [s.valid EXCEPT ![i] = TRUE]
      /\ s'.ic = [s.ic EXCEPT ![i] = s.ino[i]]
  <2> DEFINE y == Iunlock(Ilock(s, p, i), i)
  <2>1. Unlocked(i) /\ i \in Inum
    BY <1>1 DEF i
  <2>2. /\ y \in Fs /\ y.ino = s.ino /\ y.ents = s.ents /\ y.used = s.used
        /\ y.ref = s.ref /\ y.lock = s.lock /\ y.valid = [s.valid EXCEPT ![i] = TRUE]
        /\ y.ic = [s.ic EXCEPT ![i] = s.ino[i]]
    <3>1. t[p].phase = "put" /\ s.ino[i].type # "none"
      BY <1>1 DEF i
    <3> QED
      BY <2>1, <3>1, Looked
  <2>3. s' = y
    BY DEF i
  <2> HIDE DEF y
  <2> QED
    BY <2>2, <2>3
<1>5. LockMoves(p, c)
  BY <1>1, <1>3, <1>4 DEF LockMoves
<1>6. RefMoves(p, c)
  BY <1>1, <1>3, <1>4, HeldFew DEF RefMoves
<1>7. LiveMoves(p, c) /\ AllocatedTo(s, c)
  BY <1>1, <1>2, <1>3 DEF LiveMoves, AllocatedTo
<1>8. Place(c)
  BY <1>1, <1>2 DEF Place, HasDp, HasIp
<1>9. Copies'
  <2>1. \A k \in Inum : s'.valid[k] <=> s.valid[k] \/ k = i
    BY <1>1, <1>4 DEF FilesInv, Types, Fs
  <2>2. \A k \in Inum : s'.lock[k] # Nobody => s'.valid[k]
    BY <1>4, <2>1, LockedCopies
  <2> QED
    BY <1>1, <1>2, <1>4, <2>1, <2>2, LookedCopies
<1> QED
  BY <1>1, <1>2, <1>3, <1>4, <1>5, <1>6, <1>7, <1>8, <1>9, LookKeeps

\* sys_unlink() takes the name away, and the parent's link with it.
LEMMA UnlinkIpKeeps ==
  ASSUME FilesInv, NEW p \in Proc, UnlinkIp(p)
  PROVE  Kept
<1> DEFINE d == t[p].dp
           i == t[p].ip
           n == Head(t[p].path)
           x == Ilock(s, p, i)
           y == [x EXCEPT !.ents[d][n] = 0]
           w == IF x.ic[i].type = "dir" THEN SetNlink(y, d, x.ic[d].nlink - 1) ELSE y
           c == MovedCall(p, "unlink_dec", <<d>>)
<1>1. /\ t[p].pc = "unlink_ip" /\ t[p].puts = <<>> /\ Unlocked(i)
      /\ UNCHANGED <<file, ofile, boot>>
  BY DEF UnlinkIp, At
<1>2. CASE NotEmpty(x, i)
  <2>1. s' = Iunlock(Ilock(s, p, t[p].ip), t[p].ip) /\ To(p, "bad", <<t[p].ip>>)
    BY <1>2 DEF UnlinkIp
  <2> QED
    BY <1>1, <2>1, UnlinkIpFailKeeps
<1>3. CASE ~NotEmpty(x, i)
  <2>1. s' = Iunlock(w, d) /\ To(p, "unlink_dec", <<d>>)
    BY <1>3 DEF UnlinkIp
  <2>2. /\ Running /\ t[p].phase = "put" /\ \A j : ~PutAt(t[p], j, 1) /\ ~PutAt(t[p], j, 2)
        /\ Place(t[p]) /\ AllocatedTo(s, t[p]) /\ s \in Fs
        /\ s.ref \in [Inum -> Nat] /\ s.ref[Root] = 0 /\ s.lock \in [Inum -> Owner]
        /\ s.ic \in [Inum -> Inode] /\ s.ino \in [Inum -> Inode]
        /\ i \in Inum \ {Root} /\ s.ino[i].type # "none" /\ d \in Inum
        /\ \A j \in Inum : s.lock[j] = p <=> Locking(t[p], j)
    BY <1>1, Acting DEF HasIp, HasDp
  <2>3. /\ \A j : Held(t[p], j) = (IF j = d THEN 1 ELSE 0) + (IF j = i THEN 1 ELSE 0)
        /\ \A j : Locking(t[p], j) <=> j = d
        /\ \A j : (Live(t[p], j) <=> j = d \/ j = i) /\ ~Pends(t[p], j)
    BY <1>1, <2>2 DEF Held, Live, Locking, Pends, HasDp, HasIp, One
  <2>4. /\ n \in Name /\ s.ino[d].type = "dir" /\ s.ents[d][n] = i
    <3>1. t[p].path \in Seq(Name) /\ t[p].path # <<>>
      BY <1>1, <2>2, PartTypes DEF Place, FilesInv
    <3> QED
      BY <1>1, <2>2, <3>1 DEF AllocatedTo
  <2>5. /\ c \in Calls /\ c.pc = "unlink_dec" /\ c.kind = t[p].kind /\ c.ip = i
        /\ c.phase = "put" /\ Len(c.puts) <= 1
        /\ \A j : PutAt(c, j, 1) <=> j = d /\ d # Root
        /\ \A j : ~PutAt(c, j, 2)
        /\ Goes(p, c)
    <3>1. /\ Types /\ d \in Inum /\ "unlink_dec" \in Labels /\ "unlink_dec" # "end"
          /\ c = MovedCall(p, "unlink_dec", <<d>>)
      BY <2>2 DEF Labels, FilesInv
    <3>2. /\ To(p, "unlink_dec", <<d>>) /\ t[p].phase = "put"
      BY <2>1, <2>2
    <3>3. i = t[p].ip
      OBVIOUS
    <3> HIDE DEF c, d, i
    <3> QED
      BY <3>1, <3>2, <3>3, MovedOne
  <2> HIDE DEF c
  <2>6. /\ \A j : Held(c, j) = (IF j = d /\ d # Root THEN 1 ELSE 0) + (IF j = i THEN 1 ELSE 0)
        /\ \A j : Locking(c, j) <=> j = i
        /\ \A j : Live(c, j) <=> (j = d /\ d # Root) \/ j = i
        /\ \A j : Pends(c, j) <=> j = i
    BY <2>5 DEF Held, Live, Locking, Pends, HasDp, HasIp, One
  <2>7. s.lock[d] = p /\ s.lock[i] = Nobody /\ i # d
    BY <1>1, <2>2, <2>3, Bounds DEF Unlocked
  <2>8. s.ic[d] = s.ino[d]
    BY <2>2, <2>7, Bounds, Current, LockedCopies
  <2>9. /\ x \in Fs /\ x.ino = s.ino /\ x.ents = s.ents /\ x.used = s.used /\ x.ref = s.ref
        /\ x.lock = [s.lock EXCEPT ![i] = p] /\ x.valid = [s.valid EXCEPT ![i] = TRUE]
        /\ x.ic = [s.ic EXCEPT ![i] = s.ino[i]]
    <3>1. Unlocked(i) /\ i \in Inum /\ t[p].phase = "put" /\ s.ino[i].type # "none"
      BY <1>1, <2>2
    <3> HIDE DEF i
    <3> QED
      BY <3>1, Locked
  <2> HIDE DEF x, n
  <2>10. 0 \in 0 .. NINODES /\ 0 # Root
    BY FilesAssumption DEF Root
  <2>11. /\ y \in Fs /\ y.ino = s.ino /\ y.ents = [s.ents EXCEPT ![d][n] = 0]
         /\ y.used = s.used /\ y.ref = s.ref /\ y.lock = x.lock /\ y.valid = x.valid
         /\ y.ic = x.ic
    BY <2>2, <2>4, <2>9, <2>10 DEF Fs
  <2> HIDE DEF d, i, y
  <2>12. Disk(y) /\ y.ic[d] = y.ino[d]
    <3>1. Disk(s)
      BY DEF FilesInv
    <3>2. Disk(y)
      BY <2>2, <2>4, <2>10, <2>11, <3>1, DiskEntry
    <3> QED
      BY <2>2, <2>7, <2>8, <2>9, <2>11, <3>2
  <2>13. /\ Wrote(y, w, d) /\ w.ents = y.ents
         /\ w.ino[d].nlink = s.ino[d].nlink - IF s.ino[i].type = "dir" THEN 1 ELSE 0
    <3>1. x.ic[i].type = s.ino[i].type /\ x.ic[d] = s.ino[d] /\ s.ino[d].nlink \in Nat
      BY <2>2, <2>7, <2>8, <2>9 DEF Inode
    <3>2. CASE s.ino[i].type = "dir"
      <4>1. w = SetNlink(y, d, s.ino[d].nlink - 1)
        BY <3>1, <3>2
      <4>2. s.ino[d].nlink >= 1
        BY <2>2, <2>4, <3>2, Bounds, SubIsLinked
      <4>3. s.ino[d].nlink - 1 \in Nat
        BY <3>1, <4>2
      <4> HIDE DEF w
      <4> QED
        BY <2>2, <2>11, <2>12, <3>2, <4>1, <4>3, SetNlinkWrote
    <3>3. CASE s.ino[i].type # "dir"
      <4>1. w = y
        BY <3>1, <3>3
      <4> QED
        BY <2>11, <2>12, <3>1, <3>3, <4>1 DEF Wrote
    <3> QED
      BY <3>2, <3>3
  <2> HIDE DEF w
  <2>14. /\ s' \in Fs /\ s'.ino = w.ino /\ s'.ents = [s.ents EXCEPT ![d][n] = 0]
         /\ s'.used = w.used /\ s'.ref = s.ref
         /\ \A k \in Inum : s'.lock[k] = IF k = d THEN Nobody ELSE IF k = i THEN p ELSE s.lock[k]
         /\ \A k \in Inum : s'.valid[k] <=> s.valid[k] \/ k = i
         /\ s'.ic = w.ic
    <3> DEFINE z == Iunlock(w, d)
    <3>1. w \in Fs
      BY <2>13 DEF Wrote
    <3>2. /\ z \in Fs /\ z.ino = w.ino /\ z.ents = w.ents /\ z.used = w.used /\ z.ref = w.ref
          /\ z.lock = [w.lock EXCEPT ![d] = Nobody] /\ z.valid = w.valid /\ z.ic = w.ic
      BY <2>2, <3>1, IunlockIs
    <3>3. s' = z
      BY <2>1
    <3> HIDE DEF z
    <3>4. z.lock = [[s.lock EXCEPT ![i] = p] EXCEPT ![d] = Nobody]
          /\ z.valid = [s.valid EXCEPT ![i] = TRUE]
      BY <2>9, <2>11, <2>13, <3>2 DEF Wrote
    <3>5. s.valid \in [Inum -> BOOLEAN]
      BY <2>2 DEF Fs
    <3> QED
      BY <2>2, <2>11, <2>13, <3>2, <3>3, <3>4, <3>5 DEF Wrote
  <2>15. /\ \A k \in Inum : k # d => s'.ino[k] = s.ino[k]
         /\ \A k \in Inum : s'.ino[k].type = s.ino[k].type
         /\ s'.ino[d].nlink = s.ino[d].nlink - IF s.ino[i].type = "dir" THEN 1 ELSE 0
         /\ s'.ic[d] = s'.ino[d] /\ s'.ic[i] = s.ino[i]
         /\ \A k \in Inum : k # d /\ k # i => s'.ic[k] = s.ic[k]
    <3>1. /\ \A k \in Inum : k # d => w.ino[k] = s.ino[k] /\ w.ic[k] = x.ic[k]
          /\ w.ino[d].type = s.ino[d].type /\ w.ic[d] = w.ino[d]
      BY <2>9, <2>11, <2>13 DEF Wrote
    <3>2. x.ic[i] = s.ino[i] /\ \A k \in Inum : k # i => x.ic[k] = s.ic[k]
      BY <2>2, <2>9
    <3>3. s'.ino = w.ino /\ s'.ic = w.ic
      BY <2>14
    <3>4. s'.ino[d].nlink = s.ino[d].nlink - IF s.ino[i].type = "dir" THEN 1 ELSE 0
      BY <2>13, <3>3
    <3>5. \A k \in Inum : s'.ino[k].type = s.ino[k].type
      BY <3>1, <3>3
    <3>6. s'.ic[d] = s'.ino[d] /\ \A k \in Inum : k # d => s'.ino[k] = s.ino[k]
      BY <3>1, <3>3
    <3>7. s'.ic[i] = s.ino[i] /\ \A k \in Inum : k # d /\ k # i => s'.ic[k] = s.ic[k]
      BY <2>2, <2>7, <3>1, <3>2, <3>3
    <3> QED
      BY <3>4, <3>5, <3>6, <3>7
  <2>16. LockMoves(p, c)
    <3>1. \A k \in Inum : s'.lock[k] = IF k = d THEN Nobody ELSE IF k = i THEN p ELSE s.lock[k]
      BY <2>14
    <3>2. \A k \in Inum : s.lock[k] = p <=> k = d
      BY <2>2, <2>3
    <3>3. p # Nobody
      BY Bounds
    <3> QED
      BY <2>6, <2>7, <3>1, <3>2, <3>3 DEF LockMoves
  <2>17. RefMoves(p, c)
    BY <2>2, <2>3, <2>6, <2>14 DEF RefMoves
  <2>18. LiveMoves(p, c)
    BY <2>3, <2>6 DEF LiveMoves
  <2>19. AllocatedTo(s', c)
    BY <2>2, <2>4, <2>5, <2>6, <2>15 DEF AllocatedTo
  <2>20. Place(c)
    BY <2>2, <2>5 DEF Place, HasDp, HasIp
  <2>21. ASSUME NEW k \in Inum
         PROVE  /\ s'.ino[k].nlink = s.ino[k].nlink \/ Live(t[p], k)
                /\ s'.valid[k] => \/ s.valid[k] /\ s'.ic[k] = s.ic[k] /\ s'.ino[k] = s.ino[k]
                                  \/ s'.ic[k] = s'.ino[k] /\ s'.ino[k].type # "none"
                /\ s'.lock[k] # Nobody => s'.valid[k]
    <3>1. s.ino[d].type # "none"
      BY <2>4
    <3>2. s.lock[k] # Nobody => s.valid[k]
      BY LockedCopies
    <3> QED
      BY <2>2, <2>3, <2>7, <2>14, <2>15, <3>1, <3>2
  <2>22. Disk(s')
    <3>1. Disk(w)
      BY <2>13 DEF Wrote
    <3>2. s'.ents = w.ents
      BY <2>11, <2>13, <2>14
    <3> DEFINE z == s'
    <3>3. z.ino = w.ino /\ z.ents = w.ents /\ z.used = w.used
      BY <2>14, <3>2
    <3> HIDE DEF z
    <3>4. Disk(z)
      BY <3>1, <3>3, DiskSame
    <3> QED
      BY <3>4 DEF z
  <2>23. EntMoves(p)
    <3>1. \A e \in Inum, m \in Name :
            s'.ents[e][m] = IF e = d /\ m = n THEN 0 ELSE s.ents[e][m]
      BY <2>2, <2>4, <2>14 DEF Fs
    <3> QED
      BY <2>7, <3>1 DEF EntMoves
  <2>24. Links'
    <3>1. \A k \in Inum : s.ino[k].nlink \in Nat /\ (k # d => s'.ino[k].nlink = s.ino[k].nlink)
      BY <2>15, PartTypes DEF FilesInv
    <3>2. i # 0 /\ i # Root
      BY <2>2, Bounds
    <3>3. ASSUME NEW k \in Inum
          PROVE  s'.ino[k].nlink - s.ino[k].nlink
                   >= (IF 0 = k THEN 1 ELSE 0) - (IF s.ents[d][n] = k THEN 1 ELSE 0)
                      + (IF k = d /\ 0 # 0 /\ s.ino[0].type = "dir" THEN 1 ELSE 0)
                      - (IF k = d /\ s.ents[d][n] # 0 /\ s.ino[s.ents[d][n]].type = "dir"
                         THEN 1 ELSE 0)
                      + (IF Pends(c, k) THEN 1 ELSE 0) - (IF Pends(t[p], k) THEN 1 ELSE 0)
      <4>1. k # 0
        BY Bounds
      <4>2. (Pends(c, k) <=> k = i) /\ ~Pends(t[p], k)
        BY <2>3, <2>6
      <4>3. CASE k = d
        BY <2>4, <2>7, <2>15, <3>1, <3>2, <4>1, <4>2, <4>3
      <4>4. CASE k # d
        BY <2>4, <2>7, <2>15, <3>1, <3>2, <4>1, <4>2, <4>4
      <4> QED
        BY <4>3, <4>4
    <3> QED
      <4>1. /\ Goes(p, c) /\ s' \in Fs /\ d \in Inum /\ n \in Name /\ 0 \in 0 .. NINODES
            /\ s.ino[d].type = "dir" /\ s'.ents = [s.ents EXCEPT ![d][n] = 0]
            /\ \A k \in Inum : s'.ino[k].type = s.ino[k].type
        BY <2>2, <2>4, <2>5, <2>10, <2>14, <2>15
      <4> QED
        BY <3>3, <4>1, LinksEntry
  <2>25. t[p].phase # "freed" /\ c.pc # "create_new"
    BY <2>2, <2>5
  <2> QED
    BY <1>1, <2>2, <2>5, <2>14, <2>15, <2>16, <2>17, <2>18, <2>19, <2>20, <2>21, <2>22, <2>23,
       <2>24, <2>25, WriteKeeps
<1> QED
  BY <1>2, <1>3

\* The inode i locked and its copy current, in x; the rest as it was.
Opens(x, i) ==
  /\ x \in Fs /\ x.ino = s.ino /\ x.ents = s.ents /\ x.used = s.used /\ x.ref = s.ref
  /\ \A k \in Inum : k # i => /\ x.lock[k] = s.lock[k] /\ x.ic[k] = s.ic[k]
                              /\ x.valid[k] <=> s.valid[k]
  /\ x.valid[i] /\ x.ic[i] = x.ino[i]

\* The inode is so when p has locked it just now, ...
LEMMA IlockOpens ==
  ASSUME FilesInv, NEW p \in Proc, NEW i \in Inum, Unlocked(i), t[p].phase = "put",
         s.ino[i].type # "none"
  PROVE  Opens(Ilock(s, p, i), i)
<1> DEFINE x == Ilock(s, p, i)
<1>1. /\ x \in Fs /\ x.ino = s.ino /\ x.ents = s.ents /\ x.used = s.used /\ x.ref = s.ref
      /\ x.lock = [s.lock EXCEPT ![i] = p] /\ x.valid = [s.valid EXCEPT ![i] = TRUE]
      /\ x.ic = [s.ic EXCEPT ![i] = s.ino[i]] /\ x.ic[i] = s.ino[i]
  BY Locked
<1>2. s.lock \in [Inum -> Owner] /\ s.valid \in [Inum -> BOOLEAN] /\ s.ic \in [Inum -> Inode]
  BY DEF FilesInv, Types, Fs
<1> HIDE DEF x
<1> QED
  BY <1>1, <1>2 DEF Opens, x

\* ... and when it had it locked before.
LEMMA LockedOpens ==
  ASSUME FilesInv, NEW p \in Proc, NEW i \in Inum, s.lock[i] = p, t[p].phase = "put"
  PROVE  Opens(s, i)
<1>1. s.valid[i]
  BY Bounds, LockedCopies
<1>2. s.ic[i] = s.ino[i]
  BY <1>1, Current
<1> QED
  BY <1>1, <1>2 DEF Opens, FilesInv, Types

\* A number of links set, and the inode unlocked.
LEMMA NlinkSet ==
  ASSUME FilesInv, NEW i \in Inum, NEW n \in Nat, NEW x, Opens(x, i),
         NEW z, z = Iunlock(SetNlink(x, i, n), i)
  PROVE  /\ z \in Fs /\ z.ents = s.ents /\ z.ref = s.ref /\ Disk(z)
         /\ \A k \in Inum : k # i => /\ z.lock[k] = s.lock[k] /\ z.ic[k] = s.ic[k]
                                     /\ z.ino[k] = s.ino[k] /\ (z.valid[k] <=> s.valid[k])
         /\ z.lock[i] = Nobody /\ z.valid[i] /\ z.ic[i] = z.ino[i]
         /\ z.ino[i].type = s.ino[i].type /\ z.ino[i].nlink = n
<1> DEFINE y == SetNlink(x, i, n)
<1>1. x \in Fs /\ x.ic[i] = x.ino[i] /\ Disk(x)
  <2>1. Disk(s) /\ x \in Fs /\ x.ic[i] = x.ino[i]
        /\ x.ino = s.ino /\ x.ents = s.ents /\ x.used = s.used
    BY DEF FilesInv, Opens
  <2> QED
    BY <2>1, DiskSame
<1>2. Wrote(x, y, i) /\ y.ents = x.ents /\ y.ino[i].nlink = n
  BY <1>1, SetNlinkWrote
<1>3. z = Iunlock(y, i)
  OBVIOUS
<1> HIDE DEF y
<1>4. y \in Fs
  BY <1>2 DEF Wrote
<1>5. /\ z \in Fs /\ z.ino = y.ino /\ z.ents = y.ents /\ z.used = y.used /\ z.ref = y.ref
      /\ z.lock = [y.lock EXCEPT ![i] = Nobody] /\ z.valid = y.valid /\ z.ic = y.ic
  BY <1>4, <1>3, IunlockIs
<1>6. Disk(z)
  BY <1>2, <1>5, DiskSame DEF Wrote
<1>7. x.lock \in [Inum -> Owner] /\ y.lock = x.lock /\ y.valid = x.valid
  BY <1>1, <1>2 DEF Wrote, Fs
<1>8. /\ \A k \in Inum : k # i => z.lock[k] = s.lock[k] /\ (z.valid[k] <=> s.valid[k])
      /\ z.lock[i] = Nobody /\ z.valid[i]
  BY <1>5, <1>7 DEF Opens
<1>9. /\ \A k \in Inum : k # i => z.ic[k] = s.ic[k] /\ z.ino[k] = s.ino[k]
      /\ z.ic[i] = z.ino[i] /\ z.ino[i].type = s.ino[i].type /\ z.ino[i].nlink = n
      /\ z.ents = s.ents /\ z.ref = s.ref
  BY <1>2, <1>5 DEF Opens, Wrote
<1> QED
  BY <1>5, <1>6, <1>8, <1>9

\* A call counts a link more or less, and keeps what it has.
LEMMA NlinkKeeps ==
  ASSUME FilesInv, NEW p \in Proc, t[p].puts = <<>>, t[p].pc # "idle",
         NEW i \in Inum, NEW n \in Nat, NEW x, Opens(x, i), s.lock[i] \in {p, Nobody},
         NEW z, z = Iunlock(SetNlink(x, i, n), i), s' = z, UNCHANGED <<file, ofile, boot>>,
         NEW c, Goes(p, c), Place(c), AllocatedTo(s, c), c.pc # "create_new",
         Live(t[p], i), \A j \in Inum : Live(c, j) => Live(t[p], j) \/ j = Root,
         \A j \in Inum : Locking(t[p], j) => j = i, \A j \in Inum : ~Locking(c, j),
         \A j \in Inum : j # Root => Held(c, j) = Held(t[p], j),
         \A j \in Inum : j # i => (Pends(c, j) => Pends(t[p], j)),
         n - s.ino[i].nlink >= (IF Pends(c, i) THEN 1 ELSE 0) - (IF Pends(t[p], i) THEN 1 ELSE 0),
         c.pc # "unlink_ip"
  PROVE  Kept
<1>1. /\ Running /\ t[p].phase = "put" /\ s.ref[Root] = 0 /\ s.ref \in [Inum -> Nat]
      /\ AllocatedTo(s, t[p])
      /\ \A j \in Inum : s.lock[j] = p <=> Locking(t[p], j)
  BY Acting
<1>2. s.ino[i].type # "none"
  BY <1>1 DEF AllocatedTo
<1>3. /\ z \in Fs /\ z.ents = s.ents /\ z.ref = s.ref /\ Disk(z)
      /\ \A k \in Inum : k # i => /\ z.lock[k] = s.lock[k] /\ z.ic[k] = s.ic[k]
                                  /\ z.ino[k] = s.ino[k] /\ (z.valid[k] <=> s.valid[k])
      /\ z.lock[i] = Nobody /\ z.valid[i] /\ z.ic[i] = z.ino[i]
      /\ z.ino[i].type = s.ino[i].type /\ z.ino[i].nlink = n
  BY NlinkSet
<1>4. /\ s' \in Fs /\ s'.ents = s.ents /\ s'.ref = s.ref
      /\ \A k \in Inum : /\ s'.lock[k] = IF k = i THEN Nobody ELSE s.lock[k]
                         /\ k # i => s'.ic[k] = s.ic[k] /\ s'.ino[k] = s.ino[k]
      /\ s'.ic[i] = s'.ino[i] /\ s'.ino[i].type = s.ino[i].type /\ s'.ino[i].nlink = n
  BY <1>3
<1>5. \A k \in Inum : s'.valid[k] <=> s.valid[k] \/ k = i
  BY <1>3
<1>6. Disk(s')
  BY <1>3
<1>7. LockMoves(p, c)
  <2>1. \A k \in Inum : s'.lock[k] = IF k = i THEN Nobody ELSE s.lock[k]
    BY <1>4
  <2>2. \A k \in Inum : s.lock[k] = p => k = i
    BY <1>1
  <2>3. p # Nobody /\ s.lock[i] \in {p, Nobody}
    BY Bounds
  <2> QED
    BY <2>1, <2>2, <2>3 DEF LockMoves
<1>8. RefMoves(p, c)
  BY <1>1, <1>4, HeldFew DEF RefMoves
<1>9. LiveMoves(p, c)
  BY RootLinked DEF LiveMoves
<1>10. AllocatedTo(s', c)
  <2>1. \A k \in Inum : s'.ino[k].type = s.ino[k].type
    BY <1>4
  <2>2. HasDp(c) => c.dp \in Inum
    BY DEF Place
  <2>3. HasIp(c) => c.ip \in Inum
    BY DEF Place
  <2> QED
    BY <2>1, <2>2, <2>3 DEF AllocatedTo, HasDp, HasIp
<1>11. ASSUME NEW k \in Inum
       PROVE  /\ s'.ino[k].type = s.ino[k].type
              /\ s'.ino[k].nlink = s.ino[k].nlink \/ Live(t[p], k)
              /\ s'.valid[k] => \/ s.valid[k] /\ s'.ic[k] = s.ic[k] /\ s'.ino[k] = s.ino[k]
                                \/ s'.ic[k] = s'.ino[k] /\ s'.ino[k].type # "none"
              /\ s'.lock[k] # Nobody => s'.valid[k]
  <2>1. s.lock[k] # Nobody => s.valid[k]
    BY LockedCopies
  <2>2. s'.lock[k] = (IF k = i THEN Nobody ELSE s.lock[k]) /\ (s'.valid[k] <=> s.valid[k] \/ k = i)
    BY <1>4, <1>5
  <2>3. CASE k = i
    BY <1>2, <1>4, <2>1, <2>2, <2>3
  <2>4. CASE k # i
    BY <1>4, <2>1, <2>2, <2>4
  <2> QED
    BY <2>3, <2>4
<1>12. EntMoves(p)
  BY <1>4 DEF EntMoves
<1>13. Links'
  <2>1. Types'
    BY <1>4, TypesMove
  <2>2. ASSUME NEW k \in Inum
        PROVE  s'.ino[k].nlink - s.ino[k].nlink
                 >= (IF Pends(c, k) THEN 1 ELSE 0) - (IF Pends(t[p], k) THEN 1 ELSE 0)
    <3>1. s.ino[k].nlink \in Nat
      BY PartTypes DEF FilesInv
    <3>2. CASE k = i
      BY <1>4, <3>2
    <3>3. CASE k # i
      <4>1. s'.ino[k].nlink = s.ino[k].nlink
        BY <1>4, <3>3
      <4>2. Pends(c, k) => Pends(t[p], k)
        BY <3>3
      <4> QED
        BY <3>1, <4>1, <4>2
    <3> QED
      BY <3>2, <3>3
  <2> QED
    BY <1>4, <1>11, <2>1, <2>2, LinksMove
<1>14. t[p].phase # "freed"
  BY <1>1
<1> QED
  BY <1>1, <1>4, <1>6, <1>7, <1>8, <1>9, <1>10, <1>11, <1>12, <1>13, <1>14, WriteKeeps

\* One link taken back, and the inode unlocked.
Taken(x, i) == Iunlock(SetNlink(x, i, x.ic[i].nlink - 1), i)

\* The end of a call that took back a link.
LEMMA DecKeeps ==
  ASSUME FilesInv, NEW p \in Proc, NEW x, t[p].pc \in {"unlink_dec", "link_bad"},
         t[p].puts = <<>>, s.lock[t[p].ip] \in {p, Nobody}, Opens(x, t[p].ip),
         s' = Taken(x, t[p].ip),
         To(p, "end", <<t[p].ip>>), UNCHANGED <<file, ofile, boot>>
  PROVE  Kept
<1> DEFINE i == t[p].ip
           n == s.ino[i].nlink - 1
           c == EndCall(<<i>>)
           z == Iunlock(SetNlink(x, i, n), i)
<1>1. /\ \A j : ~PutAt(t[p], j, 1) /\ ~PutAt(t[p], j, 2)
      /\ i \in Inum \ {Root} /\ s.ino[i].type # "none" /\ t[p].pc # "idle"
  BY Acting DEF HasIp
<1>2. \A j : /\ Held(t[p], j) = IF j = i THEN 1 ELSE 0
             /\ Locking(t[p], j) => j = i
             /\ (Live(t[p], j) <=> j = i) /\ (Pends(t[p], j) <=> j = i)
  BY <1>1 DEF Held, Live, Locking, Pends, HasDp, HasIp, One
<1>3. n \in Nat /\ x.ic[i].nlink - 1 = n /\ n - s.ino[i].nlink >= 0 - 1
  <2>1. s.ino[i].nlink >= 1 /\ s.ino[i].nlink \in Nat
    BY <1>1, <1>2, LinksAt, PendingIsLinked
  <2>2. x.ic[i] = s.ino[i]
    BY DEF Opens
  <2> QED
    BY <2>1, <2>2
<1>4. s.lock[i] \in {p, Nobody} /\ Opens(x, i) /\ s' = z
  BY <1>3 DEF Taken
<1>5. /\ c.pc = "end" /\ Place(c) /\ Goes(p, c)
      /\ \A j : /\ Held(c, j) = IF j = i THEN 1 ELSE 0
                /\ Live(c, j) <=> j = i
                /\ ~Locking(c, j) /\ ~Pends(c, j)
  <2>1. To(p, "end", <<i>>) /\ i \in Inum /\ i # Root
    BY <1>1
  <2> HIDE DEF i
  <2>2. /\ c.pc = "end" /\ Place(c) /\ Goes(p, c)
        /\ \A j : /\ Held(c, j) = One(j = i /\ i # Root)
                  /\ Live(c, j) <=> j = i /\ i # Root
                  /\ ~Locking(c, j) /\ ~Pends(c, j)
    BY <2>1, EndOne
  <2> QED
    BY <2>1, <2>2 DEF One
<1> HIDE DEF c, i, n
<1>6. AllocatedTo(s, c)
  BY <1>1, <1>5 DEF AllocatedTo
<1>7. n - s.ino[i].nlink >= (IF Pends(c, i) THEN 1 ELSE 0) - (IF Pends(t[p], i) THEN 1 ELSE 0)
  <2>1. ~Pends(c, i) /\ Pends(t[p], i)
    BY <1>2, <1>5
  <2> QED
    BY <1>3, <2>1
<1>8. z = Iunlock(SetNlink(x, i, n), i)
  OBVIOUS
<1>9. /\ Live(t[p], i) /\ \A j \in Inum : Live(c, j) => Live(t[p], j) \/ j = Root
      /\ \A j \in Inum : Locking(t[p], j) => j = i
      /\ \A j \in Inum : ~Locking(c, j)
      /\ \A j \in Inum : j # Root => Held(c, j) = Held(t[p], j)
      /\ \A j \in Inum : j # i => (Pends(c, j) => Pends(t[p], j))
  BY <1>2, <1>5
<1>10. c.pc # "create_new" /\ c.pc # "unlink_ip" /\ i \in Inum
  BY <1>1, <1>5
<1> HIDE DEF z
<1> QED
  BY <1>1, <1>3, <1>4, <1>5, <1>6, <1>7, <1>8, <1>9, <1>10, NlinkKeeps

\* The link that sys_unlink() took back.
LEMMA UnlinkDecKeeps ==
  ASSUME FilesInv, NEW p \in Proc, UnlinkDec(p)
  PROVE  Kept
<1> DEFINE i == t[p].ip
<1>1. /\ t[p].pc = "unlink_dec" /\ t[p].puts = <<>> /\ To(p, "end", <<i>>)
      /\ s' = Taken(s, i) /\ UNCHANGED <<file, ofile, boot>>
  BY DEF UnlinkDec, At, Taken
<1>2. /\ t[p].phase = "put" /\ i \in Inum
      /\ \A j \in Inum : s.lock[j] = p <=> Locking(t[p], j)
  BY <1>1, Acting DEF HasIp
<1>3. s.lock[i] = p
  BY <1>1, <1>2 DEF Locking
<1>4. Opens(s, i)
  <2> HIDE DEF i
  <2> QED
    BY <1>2, <1>3, LockedOpens
<1> QED
  BY <1>1, <1>3, <1>4, DecKeeps

\* sys_link() takes back the link it had counted first.
LEMMA LinkBadKeeps ==
  ASSUME FilesInv, NEW p \in Proc, LinkBad(p)
  PROVE  Kept
<1> DEFINE i == t[p].ip
           x == Ilock(s, p, i)
<1>1. /\ t[p].pc = "link_bad" /\ t[p].puts = <<>> /\ To(p, "end", <<i>>) /\ Unlocked(i)
      /\ s' = Taken(x, i) /\ UNCHANGED <<file, ofile, boot>>
  BY DEF LinkBad, At, Taken
<1>2. t[p].phase = "put" /\ i \in Inum /\ s.ino[i].type # "none"
  BY <1>1, Acting DEF HasIp
<1>3. s.lock[i] = Nobody
  BY <1>1 DEF Unlocked
<1>4. Opens(x, i)
  <2>1. Unlocked(i)
    BY <1>1
  <2> HIDE DEF i
  <2> QED
    BY <1>2, <2>1, IlockOpens
<1> HIDE DEF x
<1> QED
  BY <1>1, <1>3, <1>4, DecKeeps

\* sys_link() counts the link first, and looks for the new name's directory.
LEMMA LinkIncKeeps ==
  ASSUME FilesInv, NEW p \in Proc, LinkInc(p)
  PROVE  Kept
<1> DEFINE i == t[p].ip
           x == Ilock(s, p, i)
           n == s.ino[i].nlink + 1
           z == Iunlock(SetNlink(x, i, n), i)
           c == [t[p] EXCEPT !.pc = "walk_new", !.path = t[p].new, !.dp = Root]
<1>1. /\ t[p].pc = "link" /\ t[p].puts = <<>> /\ Unlocked(i) /\ UNCHANGED <<file, ofile, boot>>
  BY DEF LinkInc, At
<1>2. /\ t[p].phase = "put" /\ \A j : ~PutAt(t[p], j, 1) /\ ~PutAt(t[p], j, 2)
      /\ i \in Inum \ {Root} /\ s.ino[i].type # "none" /\ t[p] \in Calls /\ Place(t[p])
  BY <1>1, Acting DEF HasIp
<1>3. \A j : /\ Held(t[p], j) = IF j = i THEN 1 ELSE 0
             /\ ~Locking(t[p], j) /\ (Live(t[p], j) <=> j = i) /\ ~Pends(t[p], j)
  BY <1>1, <1>2 DEF Held, Live, Locking, Pends, HasDp, HasIp, One
<1>4. Opens(x, i) /\ x.ic[i] = s.ino[i]
  <2>1. Unlocked(i)
    BY <1>1
  <2> HIDE DEF i
  <2>2. Opens(x, i)
    BY <1>2, <2>1, IlockOpens
  <2> QED
    BY <2>2 DEF Opens
<1>5. CASE x.ic[i].type = "dir"
  <2>1. s' = Iunlock(Ilock(s, p, i), i) /\ To(p, "end", <<i>>)
    BY <1>5 DEF LinkInc
  <2> HIDE DEF i, x, n, z, c
  <2> DEFINE y == Iunlock(Ilock(s, p, i), i)
  <2>2. /\ y \in Fs /\ y.ino = s.ino /\ y.ents = s.ents /\ y.used = s.used
        /\ y.ref = s.ref /\ y.lock = s.lock /\ y.valid = [s.valid EXCEPT ![i] = TRUE]
        /\ y.ic = [s.ic EXCEPT ![i] = s.ino[i]]
    <3>1. Unlocked(i) /\ i \in Inum /\ t[p].phase = "put" /\ s.ino[i].type # "none"
      BY <1>1, <1>2 DEF i
    <3> QED
      BY <3>1, Looked
  <2>3. s' = y
    BY <2>1
  <2>4. \A j \in Inum : j # Root => Held(t[p], j) = IF j = i THEN 1 ELSE 0
    BY <1>3
  <2>5. \A j \in Inum : ~Locking(t[p], j)
    BY <1>3
  <2> HIDE DEF y
  <2>6. t[p].pc # "idle" /\ i \in Inum
    BY <1>1, <1>2
  <2>7. /\ s' \in Fs /\ s'.ino = s.ino /\ s'.ents = s.ents /\ s'.used = s.used
        /\ s'.ref = s.ref /\ s'.lock = s.lock /\ s'.valid = [s.valid EXCEPT ![i] = TRUE]
        /\ s'.ic = [s.ic EXCEPT ![i] = s.ino[i]]
    BY <2>2, <2>3
  <2> QED
    BY <1>1, <1>2, <2>1, <2>4, <2>5, <2>6, <2>7, LookedEndKeeps
<1>6. CASE x.ic[i].type # "dir"
  <2>1. s' = z /\ t' = [t EXCEPT ![p] = c]
    BY <1>4, <1>6 DEF LinkInc, FilesInv, Types
  <2>2. n \in Nat /\ n - s.ino[i].nlink >= 1 /\ s.ino[i].type # "dir"
    <3>1. s.ino[i].nlink \in Nat
      BY <1>2, PartTypes DEF FilesInv
    <3>2. s.ino[i].type # "dir"
      BY <1>4, <1>6
    <3> QED
      BY <3>1, <3>2
  <2>3. Root \in 0 .. NINODES /\ Root \in Inum
    BY Bounds
  <2>4. /\ c \in Calls /\ c.pc = "walk_new" /\ c.path = t[p].new /\ c.dp = Root /\ c.ip = i
        /\ c.kind = t[p].kind /\ c.phase = "put" /\ c.puts = <<>> /\ c.new = t[p].new
    BY <1>1, <1>2, <2>3 DEF Calls, Labels
  <2>5. Goes(p, c)
    BY <2>1, <2>4 DEF Goes
  <2> HIDE DEF i, n, x, c
  <2>6. \A j : ~PutAt(c, j, 1) /\ ~PutAt(c, j, 2)
    BY <2>4, PutNone
  <2>7. \A j : /\ Held(c, j) = (IF j = Root THEN 1 ELSE 0) + (IF j = i THEN 1 ELSE 0)
               /\ Live(c, j) <=> j = Root \/ j = i
               /\ ~Locking(c, j) /\ (Pends(c, j) <=> j = i)
    BY <2>4, <2>6 DEF Held, Live, Locking, Pends, HasDp, HasIp, One
  <2>8. Place(c)
    BY <1>1, <1>2, <2>3, <2>4, <2>6 DEF Place, HasDp, HasIp
  <2>9. AllocatedTo(s, c)
    BY <1>2, <2>2, <2>4, <2>7, RootLinked DEF AllocatedTo
  <2>10. n - s.ino[i].nlink >= (IF Pends(c, i) THEN 1 ELSE 0) - (IF Pends(t[p], i) THEN 1 ELSE 0)
    <3>1. ~Pends(t[p], i) /\ Pends(c, i)
      BY <1>3, <2>7
    <3> QED
      BY <2>2, <3>1
  <2>11. z = Iunlock(SetNlink(x, i, n), i)
    OBVIOUS
  <2>12. /\ Live(t[p], i) /\ \A j \in Inum : Live(c, j) => Live(t[p], j) \/ j = Root
         /\ \A j \in Inum : Locking(t[p], j) => j = i
         /\ \A j \in Inum : ~Locking(c, j)
         /\ \A j \in Inum : j # Root => Held(c, j) = Held(t[p], j)
         /\ \A j \in Inum : j # i => (Pends(c, j) => Pends(t[p], j))
    BY <1>3, <2>7
  <2>13. /\ c.pc # "create_new" /\ c.pc # "unlink_ip" /\ i \in Inum /\ t[p].pc # "idle"
         /\ s.lock[i] \in {p, Nobody}
    BY <1>1, <1>2, <2>4 DEF Unlocked
  <2> HIDE DEF z
  <2> QED
    BY <1>1, <1>4, <2>1, <2>2, <2>5, <2>8, <2>9, <2>10, <2>11, <2>12, <2>13, NlinkKeeps
<1> QED
  BY <1>5, <1>6

\* A call that ends with two references to give back.
LEMMA EndTwo ==
  ASSUME NEW d \in Inum, NEW i \in Inum \ {Root}, NEW c, c = EndCall(<<d, i>>)
  PROVE  /\ c \in Calls /\ c.pc = "end" /\ c.phase = "put" /\ Place(c)
         /\ \A p \in Proc : To(p, "end", <<d, i>>) => Goes(p, c)
         /\ \A j : /\ Held(c, j) = (IF j = d /\ d # Root THEN 1 ELSE 0) + (IF j = i THEN 1 ELSE 0)
                   /\ Live(c, j) <=> (j = d /\ d # Root) \/ j = i
                   /\ ~Locking(c, j) /\ ~Pends(c, j)
<1>1. <<d, i>> \in Seq(Inum)
  OBVIOUS
<1>2. /\ c \in Calls /\ c.pc = "end" /\ c.puts = Puts(<<d, i>>) /\ c.phase = "put"
      /\ \A p \in Proc : To(p, "end", <<d, i>>) => Goes(p, c)
  BY <1>1, EndCallIs
<1>3. CASE d = Root
  <2>1. c.puts = <<i>>
    BY <1>2, <1>3, PutsIs
  <2>2. Len(c.puts) = 1 /\ c.puts[1] = i
    <3>1. Len(<<i>>) = 1 /\ <<i>>[1] = i
      OBVIOUS
    <3> QED
      BY <2>1, <3>1
  <2>3. \A j : (PutAt(c, j, 1) <=> j = i) /\ ~PutAt(c, j, 2)
    BY <2>2 DEF PutAt
  <2>4. Place(c)
    <3>1. Len(c.puts) <= 2 /\ i # Root
      <4>1. Len(<<i>>) <= 2 /\ i # Root
        OBVIOUS
      <4> QED
        BY <2>1, <4>1
    <3> QED
      BY <1>2, <2>3, <3>1 DEF Place, HasDp, HasIp
  <2>5. \A j : /\ Held(c, j) = IF j = i THEN 1 ELSE 0
               /\ Live(c, j) <=> j = i
               /\ ~Locking(c, j) /\ ~Pends(c, j)
    BY <1>2, <2>3 DEF Held, Live, Locking, Pends, HasDp, HasIp, One
  <2> QED
    BY <1>2, <1>3, <2>4, <2>5
<1>4. CASE d # Root
  <2>1. c.puts = <<d, i>>
    BY <1>2, <1>4, PutsIs
  <2>2. Len(c.puts) = 2 /\ c.puts[1] = d /\ c.puts[2] = i
    <3>1. Len(<<d, i>>) = 2 /\ <<d, i>>[1] = d /\ <<d, i>>[2] = i
      OBVIOUS
    <3> QED
      BY <2>1, <3>1
  <2>3. \A j : (PutAt(c, j, 1) <=> j = d) /\ (PutAt(c, j, 2) <=> j = i)
    BY <2>2 DEF PutAt
  <2>4. Place(c)
    <3>1. c.puts # <<>>
      <4>1. Len(<<>>) = 0
        OBVIOUS
      <4> QED
        BY <2>2, <4>1
    <3>2. Len(c.puts) <= 2 /\ i # Root
      <4>1. Len(<<d, i>>) <= 2 /\ i # Root
        OBVIOUS
      <4> QED
        BY <2>1, <4>1
    <3> QED
      BY <1>2, <1>4, <2>3, <3>1, <3>2 DEF Place, HasDp, HasIp
  <2>5. \A j : /\ Held(c, j) = (IF j = d THEN 1 ELSE 0) + (IF j = i THEN 1 ELSE 0)
               /\ Live(c, j) <=> j = d \/ j = i
               /\ ~Locking(c, j) /\ ~Pends(c, j)
    BY <1>2, <2>3 DEF Held, Live, Locking, Pends, HasDp, HasIp, One
  <2> QED
    BY <1>2, <1>4, <2>4, <2>5
<1> QED
  BY <1>3, <1>4

\* sys_link() cannot write the name.
LEMMA LinkDirFailKeeps ==
  ASSUME FilesInv, NEW p \in Proc, t[p].pc = "link_new", t[p].puts = <<>>,
         Unlocked(t[p].dp), s' = Iunlock(Ilock(s, p, t[p].dp), t[p].dp),
         To(p, "link_bad", <<t[p].dp>>), UNCHANGED <<file, ofile, boot>>
  PROVE  Kept
<1> DEFINE d == t[p].dp
           i == t[p].ip
           c == MovedCall(p, "link_bad", <<d>>)
<1>1. /\ Running /\ t[p].phase = "put" /\ \A j : ~PutAt(t[p], j, 1) /\ ~PutAt(t[p], j, 2)
      /\ Place(t[p]) /\ AllocatedTo(s, t[p])
      /\ s.ref \in [Inum -> Nat] /\ s.ref[Root] = 0 /\ s.lock \in [Inum -> Owner]
      /\ i \in Inum \ {Root} /\ d \in Inum /\ s.ino[d].type # "none"
      /\ \A j \in Inum : s.lock[j] = p <=> Locking(t[p], j)
  BY Acting DEF HasIp, HasDp
<1>2. \A j : /\ Held(t[p], j) = (IF j = d THEN 1 ELSE 0) + (IF j = i THEN 1 ELSE 0)
             /\ ~Locking(t[p], j) /\ (Live(t[p], j) <=> j = d \/ j = i)
             /\ Pends(t[p], j) <=> j = i
  BY <1>1 DEF Held, Live, Locking, Pends, HasDp, HasIp, One
<1>3. /\ c \in Calls /\ c.pc = "link_bad" /\ c.kind = t[p].kind /\ c.path = t[p].path
      /\ c.ip = i /\ c.phase = "put" /\ Len(c.puts) <= 1
      /\ \A j : PutAt(c, j, 1) <=> j = d /\ d # Root
      /\ \A j : ~PutAt(c, j, 2)
      /\ Goes(p, c)
  <2>1. "link_bad" \in Labels
    BY DEF Labels
  <2>2. To(p, "link_bad", <<d>>) /\ d \in Inum
    BY <1>1
  <2> HIDE DEF d
  <2> QED
    BY <1>1, <2>1, <2>2, MovedOne DEF FilesInv
<1>4. d # i /\ s.ino[i].type # "dir"
  BY <1>1 DEF AllocatedTo
<1> HIDE DEF c
<1>5. \A j : /\ Held(c, j) = (IF j = d /\ d # Root THEN 1 ELSE 0) + (IF j = i THEN 1 ELSE 0)
             /\ Live(c, j) <=> (j = d /\ d # Root) \/ j = i
             /\ ~Locking(c, j) /\ (Pends(c, j) <=> j = i)
  BY <1>3 DEF Held, Live, Locking, Pends, HasDp, HasIp, One
<1>6. /\ s' \in Fs /\ s'.ino = s.ino /\ s'.ents = s.ents /\ s'.used = s.used /\ s'.ref = s.ref
      /\ s'.lock = s.lock /\ s'.valid = [s.valid EXCEPT ![d] = TRUE]
      /\ s'.ic = [s.ic EXCEPT ![d] = s.ino[d]]
  <2> DEFINE y == Iunlock(Ilock(s, p, d), d)
  <2>1. Unlocked(d) /\ s' = y
    OBVIOUS
  <2>2. d \in Inum /\ t[p].phase = "put" /\ s.ino[d].type # "none"
    BY <1>1
  <2> HIDE DEF d
  <2>3. /\ y \in Fs /\ y.ino = s.ino /\ y.ents = s.ents /\ y.used = s.used
        /\ y.ref = s.ref /\ y.lock = s.lock /\ y.valid = [s.valid EXCEPT ![d] = TRUE]
        /\ y.ic = [s.ic EXCEPT ![d] = s.ino[d]]
    BY <2>1, <2>2, Looked
  <2> HIDE DEF y
  <2> QED
    BY <2>1, <2>3
<1>7. AllocatedTo(s, c)
  BY <1>1, <1>2, <1>3, <1>4, <1>5 DEF AllocatedTo
<1>8. Place(c)
  <2>1. c.kind = "link"
    BY <1>1, <1>3 DEF Place
  <2>2. Len(c.puts) <= 2 /\ (c.puts = <<>> => c.phase = "put")
    BY <1>3
  <2> QED
    BY <1>1, <1>3, <2>1, <2>2 DEF Place, HasDp, HasIp
<1> HIDE DEF d, i
<1>9. LockMoves(p, c)
  BY <1>1, <1>2, <1>5, <1>6 DEF LockMoves
<1>10. RefMoves(p, c)
  <2>1. \A j \in Inum : j # Root => Held(c, j) = Held(t[p], j)
    BY <1>2, <1>5
  <2>2. s'.ref = s.ref /\ s.ref[Root] = 0 /\ \A j \in Inum : s.ref[j] \in Nat
    BY <1>1, <1>6
  <2>3. ASSUME NEW j \in Inum, j # Root
        PROVE  s'.ref[j] = s.ref[j] + Held(c, j) - Held(t[p], j)
    <3>1. Held(c, j) = Held(t[p], j) /\ Held(t[p], j) \in 0 .. 4
      BY <2>1, <2>3, HeldFew
    <3> QED
      BY <2>2, <3>1
  <2> QED
    BY <2>2, <2>3 DEF RefMoves
<1>11. LiveMoves(p, c)
  BY <1>2, <1>5 DEF LiveMoves
<1>12. Copies'
  <2>1. \A k \in Inum : s'.valid[k] <=> s.valid[k] \/ k = d
    BY <1>1, <1>6 DEF FilesInv, Types, Fs
  <2>2. \A k \in Inum : s'.lock[k] # Nobody => s'.valid[k]
    BY <1>6, <2>1, LockedCopies
  <2> QED
    BY <1>1, <1>3, <1>6, <2>1, <2>2, LookedCopies
<1>13. c.pc # "create_new" /\ \A j : Pends(c, j) => Pends(t[p], j)
  BY <1>2, <1>3, <1>5
<1> QED
  BY <1>1, <1>3, <1>6, <1>7, <1>8, <1>9, <1>10, <1>11, <1>12, <1>13, LookKeeps

\* sys_link() writes the name it has counted.
LEMMA LinkDirKeeps ==
  ASSUME FilesInv, NEW p \in Proc, LinkDir(p)
  PROVE  Kept
<1> DEFINE d == t[p].dp
           i == t[p].ip
           n == Head(t[p].path)
           x == Ilock(s, p, d)
           y == Dirlink(x, d, n, i)
           c == EndCall(<<d, i>>)
<1>1. /\ t[p].pc = "link_new" /\ t[p].puts = <<>> /\ Unlocked(d)
      /\ UNCHANGED <<file, ofile, boot>>
  BY DEF LinkDir, At
<1>2. CASE ~CanLink(x, d, n)
  <2>1. s' = Iunlock(Ilock(s, p, t[p].dp), t[p].dp) /\ To(p, "link_bad", <<t[p].dp>>)
    BY <1>2 DEF LinkDir
  <2> QED
    BY <1>1, <2>1, LinkDirFailKeeps
<1>3. CASE CanLink(x, d, n)
  <2>1. s' = Iunlock(y, d) /\ To(p, "end", <<d, i>>)
    BY <1>3 DEF LinkDir
  <2>2. /\ Running /\ t[p].phase = "put" /\ \A j : ~PutAt(t[p], j, 1) /\ ~PutAt(t[p], j, 2)
        /\ Place(t[p]) /\ AllocatedTo(s, t[p]) /\ s \in Fs
        /\ s.ref \in [Inum -> Nat] /\ s.ref[Root] = 0 /\ s.lock \in [Inum -> Owner]
        /\ s.ic \in [Inum -> Inode] /\ s.ino \in [Inum -> Inode]
        /\ i \in Inum \ {Root} /\ s.ino[i].type # "none" /\ d \in Inum
        /\ \A j \in Inum : s.lock[j] = p <=> Locking(t[p], j)
    BY <1>1, Acting DEF HasIp, HasDp
  <2>3. \A j : /\ Held(t[p], j) = (IF j = d THEN 1 ELSE 0) + (IF j = i THEN 1 ELSE 0)
               /\ ~Locking(t[p], j) /\ (Live(t[p], j) <=> j = d \/ j = i)
               /\ Pends(t[p], j) <=> j = i
    BY <1>1, <2>2 DEF Held, Live, Locking, Pends, HasDp, HasIp, One
  <2>4. n \in Name /\ s.ino[d].type = "dir" /\ s.ino[i].type # "dir" /\ i # d
    <3>1. t[p].path \in Seq(Name) /\ t[p].path # <<>>
      BY <1>1, <2>2, PartTypes DEF Place, FilesInv
    <3> QED
      BY <1>1, <2>2, <3>1 DEF AllocatedTo
  <2>5. s.lock[d] = Nobody
    BY <1>1 DEF Unlocked
  <2>6. Unlocked(d)
    BY <1>1
  <2> HIDE DEF d, i, n, x
  <2>7. /\ c.pc = "end" /\ Place(c) /\ Goes(p, c)
        /\ \A j : /\ Held(c, j) = (IF j = d /\ d # Root THEN 1 ELSE 0) + (IF j = i THEN 1 ELSE 0)
                  /\ Live(c, j) <=> (j = d /\ d # Root) \/ j = i
                  /\ ~Locking(c, j) /\ ~Pends(c, j)
    BY <2>1, <2>2, EndTwo
  <2> HIDE DEF c
  <2>8. /\ x \in Fs /\ x.ino = s.ino /\ x.ents = s.ents /\ x.used = s.used /\ x.ref = s.ref
        /\ x.lock = [s.lock EXCEPT ![d] = p] /\ x.valid = [s.valid EXCEPT ![d] = TRUE]
        /\ x.ic = [s.ic EXCEPT ![d] = s.ino[d]]
    <3>1. Unlocked(d) /\ d \in Inum /\ t[p].phase = "put" /\ s.ino[d].type # "none"
      BY <2>2, <2>4, <2>6
    <3> QED
      BY <3>1, Locked DEF x
  <2>9. Disk(x) /\ x.ic[d] = x.ino[d] /\ x.ino[d].type = "dir"
    <3>1. Disk(s)
      BY DEF FilesInv
    <3>2. Disk(x)
      BY <2>8, <3>1, DiskSame
    <3> QED
      BY <2>2, <2>4, <2>8, <3>2
  <2>10. s.ents[d][n] = 0
    <3>1. Dirlookup(x, d, n) = 0 /\ n \in Name
      BY <1>3, <2>4 DEF CanLink
    <3> QED
      BY <2>8, <3>1, NameLooked
  <2>11. /\ Wrote(x, y, d) /\ y.ents = [s.ents EXCEPT ![d][n] = i]
         /\ y.ino[d].nlink = s.ino[d].nlink
    <3>1. /\ Wrote(x, y, d) /\ y.ents = [x.ents EXCEPT ![d][n] = i]
          /\ y.ino[d].nlink = x.ino[d].nlink
      <4>1. /\ x \in Fs /\ Disk(x) /\ d \in Inum /\ n \in Name /\ i \in Inum \ {Root}
            /\ x.ic[d] = x.ino[d] /\ x.ino[d].type = "dir" /\ CanLink(x, d, n)
        BY <1>3, <2>2, <2>4, <2>8, <2>9
      <4> QED
        BY <4>1, DirlinkWrote
    <3> QED
      BY <2>8, <3>1
  <2> HIDE DEF y
  <2>12. /\ s' \in Fs /\ s'.ino = y.ino /\ s'.ents = [s.ents EXCEPT ![d][n] = i]
         /\ s'.used = y.used /\ s'.ref = s.ref /\ s'.lock = s.lock /\ s'.ic = y.ic
         /\ \A k \in Inum : s'.valid[k] <=> s.valid[k] \/ k = d
    <3> DEFINE z == Iunlock(y, d)
    <3>1. y \in Fs
      BY <2>11 DEF Wrote
    <3>2. /\ z \in Fs /\ z.ino = y.ino /\ z.ents = y.ents /\ z.used = y.used /\ z.ref = y.ref
          /\ z.lock = [y.lock EXCEPT ![d] = Nobody] /\ z.valid = y.valid /\ z.ic = y.ic
      BY <2>2, <3>1, IunlockIs
    <3>3. s' = z
      BY <2>1
    <3> HIDE DEF z
    <3>4. z.lock = [[s.lock EXCEPT ![d] = p] EXCEPT ![d] = Nobody]
          /\ z.valid = [s.valid EXCEPT ![d] = TRUE]
      BY <2>8, <2>11, <3>2 DEF Wrote
    <3>5. s.valid \in [Inum -> BOOLEAN]
      BY <2>2 DEF Fs
    <3>6. z.lock = s.lock
      BY <2>2, <2>5, <3>4
    <3> QED
      BY <2>2, <2>8, <2>11, <3>2, <3>3, <3>4, <3>5, <3>6 DEF Wrote
  <2>13. /\ \A k \in Inum : /\ k # d => s'.ino[k] = s.ino[k] /\ s'.ic[k] = s.ic[k]
                            /\ s'.ino[k].type = s.ino[k].type
                            /\ s'.ino[k].nlink = s.ino[k].nlink
         /\ s'.ic[d] = s'.ino[d]
    <3>1. /\ \A k \in Inum : k # d => y.ino[k] = s.ino[k] /\ y.ic[k] = x.ic[k]
          /\ y.ino[d].type = s.ino[d].type /\ y.ic[d] = y.ino[d]
      BY <2>8, <2>11 DEF Wrote
    <3>2. \A k \in Inum : k # d => x.ic[k] = s.ic[k]
      BY <2>2, <2>8
    <3> QED
      BY <2>11, <2>12, <3>1, <3>2
  <2>14. LockMoves(p, c)
    BY <2>2, <2>3, <2>7, <2>12 DEF LockMoves
  <2>15. RefMoves(p, c)
    BY <2>2, <2>3, <2>7, <2>12 DEF RefMoves
  <2>16. LiveMoves(p, c)
    BY <2>3, <2>7 DEF LiveMoves
  <2>17. AllocatedTo(s', c)
    BY <2>2, <2>4, <2>7, <2>13 DEF AllocatedTo
  <2>18. ASSUME NEW k \in Inum
         PROVE  /\ s'.valid[k] => \/ s.valid[k] /\ s'.ic[k] = s.ic[k] /\ s'.ino[k] = s.ino[k]
                                  \/ s'.ic[k] = s'.ino[k] /\ s'.ino[k].type # "none"
                /\ s'.lock[k] # Nobody => s'.valid[k]
    <3>1. s.lock[k] # Nobody => s.valid[k]
      BY LockedCopies
    <3> QED
      BY <2>4, <2>12, <2>13, <3>1
  <2>19. Disk(s')
    <3>1. Disk(y)
      BY <2>11 DEF Wrote
    <3> DEFINE z == s'
    <3>2. z.ino = y.ino /\ z.ents = y.ents /\ z.used = y.used
      BY <2>11, <2>12
    <3> HIDE DEF z
    <3>3. Disk(z)
      BY <3>1, <3>2, DiskSame
    <3> QED
      BY <3>3 DEF z
  <2>20. EntMoves(p)
    <3>1. \A e \in Inum, m \in Name :
            s'.ents[e][m] = IF e = d /\ m = n THEN i ELSE s.ents[e][m]
      BY <2>2, <2>4, <2>12 DEF Fs
    <3> QED
      BY <2>2, <2>5, <2>13, <3>1 DEF EntMoves
  <2>21. Links'
    <3>1. \A k \in Inum : s.ino[k].nlink \in Nat
      BY PartTypes DEF FilesInv
    <3>2. i # 0 /\ i \in 0 .. NINODES /\ i # Root
      BY <2>2, Bounds
    <3>3. ASSUME NEW k \in Inum
          PROVE  s'.ino[k].nlink - s.ino[k].nlink
                   >= (IF i = k THEN 1 ELSE 0) - (IF s.ents[d][n] = k THEN 1 ELSE 0)
                      + (IF k = d /\ i # 0 /\ s.ino[i].type = "dir" THEN 1 ELSE 0)
                      - (IF k = d /\ s.ents[d][n] # 0 /\ s.ino[s.ents[d][n]].type = "dir"
                         THEN 1 ELSE 0)
                      + (IF Pends(c, k) THEN 1 ELSE 0) - (IF Pends(t[p], k) THEN 1 ELSE 0)
      <4>1. k # 0
        BY Bounds
      <4>2. ~Pends(c, k) /\ (Pends(t[p], k) <=> k = i)
        BY <2>3, <2>7
      <4>3. s'.ino[k].nlink = s.ino[k].nlink
        BY <2>13
      <4> QED
        BY <2>4, <2>10, <3>1, <4>1, <4>2, <4>3
    <3> QED
      BY <2>2, <2>4, <2>7, <2>12, <2>13, <3>2, <3>3, LinksEntry
  <2>22. t[p].phase # "freed" /\ c.pc # "create_new"
    BY <2>2, <2>7
  <2> QED
    BY <1>1, <2>2, <2>7, <2>12, <2>13, <2>14, <2>15, <2>16, <2>17, <2>18, <2>19, <2>20, <2>21,
       <2>22, WriteKeeps
<1> QED
  BY <1>2, <1>3

\* create() finds the name there.
LEMMA CreateFoundKeeps ==
  ASSUME FilesInv, NEW p \in Proc, CreateDir(p), s.ents[t[p].dp][Head(t[p].path)] # 0
  PROVE  Kept
<1> DEFINE d == t[p].dp
           i == s.ents[d][Head(t[p].path)]
           x == Iunlock(Ilock(s, p, d), d)
           c == [t[p] EXCEPT !.pc = "create_old", !.ip = i, !.puts = Puts(<<d>>)]
<1>1. /\ Running /\ t[p].phase = "put" /\ \A j : ~PutAt(t[p], j, 1) /\ ~PutAt(t[p], j, 2)
      /\ t[p] \in Calls /\ Place(t[p]) /\ AllocatedTo(s, t[p]) /\ s \in Fs
      /\ s.ref \in [Inum -> Nat] /\ s.ref[Root] = 0 /\ s.lock \in [Inum -> Owner]
      /\ d \in Inum /\ s.ino[d].type # "none" /\ t[p].pc = "create" /\ Unlocked(d)
      /\ \A j \in Inum : s.lock[j] = p <=> Locking(t[p], j)
      /\ UNCHANGED <<file, ofile, boot>>
  <2>1. /\ t[p].pc = "create" /\ t[p].puts = <<>> /\ Unlocked(d)
        /\ UNCHANGED <<file, ofile, boot>>
    BY DEF CreateDir, At
  <2> QED
    BY <2>1, Acting DEF HasDp
<1>2. \A j : /\ Held(t[p], j) = IF j = d THEN 1 ELSE 0
             /\ ~Locking(t[p], j) /\ (Live(t[p], j) <=> j = d)
  BY <1>1 DEF Held, Live, Locking, HasDp, HasIp, One
<1>3. t[p].path \in Seq(Name) /\ t[p].path # <<>>
  BY <1>1, PartTypes DEF Place, FilesInv
<1>4. i \in Inum \ {Root} /\ s.ino[i].nlink >= 1 /\ s.ino[i].type # "none" /\ i \in 0 .. NINODES
  <2>1. Head(t[p].path) \in Name
    BY <1>3
  <2>2. i # 0
    OBVIOUS
  <2> QED
    BY <1>1, <2>1, <2>2, NamedIsLinked, Bounds
<1>5. s' = Iget(x, i) /\ t' = [t EXCEPT ![p] = c]
  <2> DEFINE z == Ilock(s, p, d)
  <2>1. z.ents = s.ents
    BY <1>1, Locked
  <2>2. Head(t[p].path) \in Name
    BY <1>3
  <2>3. Dirlookup(z, d, Head(t[p].path)) = i
    BY <2>1, <2>2, NameLooked
  <2>4. s' = Found(x, i) /\ t' = [t EXCEPT ![p] = c]
    BY <2>3 DEF CreateDir, FilesInv, Types
  <2>5. Found(x, i) = Iget(x, i)
    BY <1>4, FoundCounts
  <2> QED
    BY <2>4, <2>5
<1>6. /\ c \in Calls /\ c.pc = "create_old" /\ c.ip = i /\ c.phase = "put" /\ c.puts = Puts(<<d>>)
      /\ Goes(p, c)
  <2>1. Puts(<<d>>) \in Seq(Inum)
    <3>1. <<d>> \in Seq(Inum)
      BY <1>1
    <3> QED
      BY <3>1 DEF Puts
  <2>2. /\ c \in Calls /\ c.pc = "create_old" /\ c.ip = i /\ c.phase = "put"
        /\ c.puts = Puts(<<d>>)
    BY <1>1, <1>4, <2>1 DEF Calls, Labels
  <2> QED
    BY <1>5, <2>2 DEF Goes
<1> HIDE DEF c
<1>7. /\ Len(c.puts) <= 1
      /\ \A j : PutAt(c, j, 1) <=> j = d /\ d # Root
      /\ \A j : ~PutAt(c, j, 2)
  BY <1>1, <1>6, PutOne
<1>8. \A j : /\ Held(c, j) = (IF j = d /\ d # Root THEN 1 ELSE 0) + (IF j = i THEN 1 ELSE 0)
             /\ Live(c, j) <=> (j = d /\ d # Root) \/ j = i
             /\ ~Locking(c, j) /\ ~Pends(c, j)
  BY <1>6, <1>7 DEF Held, Live, Locking, Pends, HasDp, HasIp, One
<1> HIDE DEF d, i
<1>9. /\ x \in Fs /\ x.ino = s.ino /\ x.ents = s.ents /\ x.used = s.used /\ x.ref = s.ref
      /\ x.lock = s.lock /\ x.valid = [s.valid EXCEPT ![d] = TRUE]
      /\ x.ic = [s.ic EXCEPT ![d] = s.ino[d]]
  <2>1. Unlocked(d) /\ d \in Inum /\ t[p].phase = "put" /\ s.ino[d].type # "none"
    BY <1>1 DEF d
  <2> QED
    BY <2>1, Looked
<1> HIDE DEF x
<1>10. /\ s' \in Fs /\ s'.ino = s.ino /\ s'.ents = s.ents /\ s'.used = s.used
       /\ s'.lock = s.lock /\ s'.ref = [s.ref EXCEPT ![i] = @ + 1]
       /\ s'.ic = [s.ic EXCEPT ![d] = s.ino[d]]
       /\ \A k \in Inum : s'.valid[k] <=> (s.valid[k] \/ k = d) /\ (k = i => s.ref[k] > 0)
  <2> DEFINE y == Iget(x, i)
  <2>1. /\ y \in Fs /\ y.ino = x.ino /\ y.ents = x.ents
        /\ y.used = x.used /\ y.lock = x.lock /\ y.ref = [x.ref EXCEPT ![i] = @ + 1]
        /\ \A k \in Inum : y.valid[k] <=> x.valid[k] /\ (k = i => x.ref[i] > 0)
        /\ y.ic = x.ic
    <3>1. x \in Fs /\ i \in Inum
      BY <1>4, <1>9
    <3> QED
      BY <3>1, IgetIs
  <2> HIDE DEF y
  <2>2. s' = y
    BY <1>5 DEF y
  <2>3. \A k \in Inum : x.valid[k] <=> s.valid[k] \/ k = d
    BY <1>1, <1>9 DEF Fs
  <2> QED
    BY <1>9, <2>1, <2>2, <2>3
<1>11. LockMoves(p, c)
  BY <1>1, <1>2, <1>8, <1>10 DEF LockMoves
<1>12. RefMoves(p, c)
  BY <1>1, <1>2, <1>4, <1>8, <1>10 DEF RefMoves
<1>13. LiveMoves(p, c)
  BY <1>2, <1>4, <1>8 DEF LiveMoves
<1>14. AllocatedTo(s, c)
  BY <1>1, <1>4, <1>6, <1>8 DEF AllocatedTo
<1>15. Copies'
  <2>1. \A k \in Inum : s'.lock[k] # Nobody => s'.valid[k]
    BY <1>1, <1>4, <1>10, LockedIsHeld, LockedCopies
  <2> QED
    BY <1>1, <1>6, <1>10, <2>1, LookedCopies
<1>16. Place(c)
  BY <1>4, <1>6, <1>7 DEF Place, HasDp, HasIp
<1>17. c.pc # "create_new"
  BY <1>6
<1> QED
  BY <1>1, <1>6, <1>8, <1>10, <1>11, <1>12, <1>13, <1>14, <1>15, <1>16, <1>17, LookKeeps

\* ialloc(), which gives out the first free inode.
LEMMA IallocIs ==
  ASSUME NEW x \in Fs, FreeInodes(x) # {}, NEW type \in InodeTypes
  PROVE  \E i \in Inum, y \in Fs :
           /\ i = Min(FreeInodes(x)) /\ x.ino[i].type = "none" /\ y = Ialloc(x, type)
           /\ y.ino = [x.ino EXCEPT ![i] = [NoInode EXCEPT !.type = type]]
           /\ y.ents = x.ents /\ y.used = x.used /\ y.lock = x.lock /\ y.ic = x.ic
           /\ y.ref = [x.ref EXCEPT ![i] = @ + 1]
           /\ \A k \in Inum : y.valid[k] <=> x.valid[k] /\ (k = i => x.ref[i] > 0)
<1> DEFINE i == Min(FreeInodes(x))
           v == [NoInode EXCEPT !.type = type]
           w == [x EXCEPT !.ino[i] = v]
<1>1. i \in FreeInodes(x)
  <2>1. FreeInodes(x) \in SUBSET Nat
    BY Bounds DEF FreeInodes
  <2> QED
    BY <2>1, MinIn
<1>2. i \in Inum /\ x.ino[i].type = "none"
  BY <1>1 DEF FreeInodes
<1>3. v \in Inode
  BY DEF NoInode, Inode
<1> HIDE DEF i, v
<1>4. /\ w \in Fs /\ w.ino = [x.ino EXCEPT ![i] = v] /\ w.ents = x.ents /\ w.used = x.used
      /\ w.lock = x.lock /\ w.ic = x.ic /\ w.ref = x.ref /\ w.valid = x.valid
  BY <1>2, <1>3 DEF Fs
<1> DEFINE y == Iget(w, i)
<1>5. y = Ialloc(x, type)
  BY DEF Ialloc, i, v
<1> HIDE DEF w
<1>6. /\ y \in Fs /\ y.ino = w.ino /\ y.ents = w.ents /\ y.used = w.used /\ y.lock = w.lock
      /\ y.ref = [w.ref EXCEPT ![i] = @ + 1] /\ y.ic = w.ic
      /\ \A k \in Inum : y.valid[k] <=> w.valid[k] /\ (k = i => w.ref[i] > 0)
  BY <1>2, <1>4, IgetIs
<1> HIDE DEF y
<1>7. /\ i = Min(FreeInodes(x)) /\ y = Ialloc(x, type)
      /\ y.ino = [x.ino EXCEPT ![i] = [NoInode EXCEPT !.type = type]]
      /\ y.ents = x.ents /\ y.used = x.used /\ y.lock = x.lock /\ y.ic = x.ic
      /\ y.ref = [x.ref EXCEPT ![i] = @ + 1]
      /\ \A k \in Inum : y.valid[k] <=> x.valid[k] /\ (k = i => x.ref[i] > 0)
  BY <1>4, <1>5, <1>6 DEF v, i
<1>8. i \in Inum /\ y \in Fs /\ x.ino[i].type = "none"
  BY <1>2, <1>6
<1> i \in Inum /\ y \in Fs
  BY <1>8
<1> WITNESS i \in Inum, y \in Fs
<1> QED
  BY <1>7, <1>8

\* Nobody has an inode that is free.
LEMMA FreeIsUnused ==
  ASSUME FilesInv, NEW i \in Inum, s.ino[i].type = "none"
  PROVE  /\ i # Root /\ \A q \in Proc : ~Live(t[q], i) /\ ~Pends(t[q], i)
         /\ FileRefs(i) = {} /\ Entries(i) = {} /\ Pending(i) = {} /\ Subs(i) = {}
         /\ s.ents[i] = NoEntry /\ \A d \in Inum, n \in Name : s.ents[d][n] # i
<1>1. i # Root /\ s.ents[i] = NoEntry
  BY DEF FilesInv, Disk, Shaped
<1>2. ASSUME NEW q \in Proc PROVE ~Live(t[q], i) /\ ~Pends(t[q], i)
  <2>1. ~Live(t[q], i)
    BY DEF FilesInv, Allocated, AllocatedTo
  <2> QED
    BY <2>1 DEF Pends, Live, HasIp
<1>3. FileRefs(i) = {} /\ Pending(i) = {}
  BY <1>2 DEF FilesInv, Allocated, FileRefs, Pending
<1>4. \A d \in Inum, n \in Name : s.ents[d][n] # i
  <2>1. ASSUME NEW d \in Inum, NEW n \in Name, s.ents[d][n] = i PROVE FALSE
    <3>1. s.ents[d][n] # 0
      BY <2>1, Bounds
    <3>2. s.ino[s.ents[d][n]].type # "none"
      BY <3>1, NamedIsLinked
    <3> QED
      BY <2>1, <3>2
  <2> QED
    BY <2>1
<1>5. Entries(i) = {}
  <2>1. \A e \in Inum \X Name : e[1] \in Inum /\ e[2] \in Name
    OBVIOUS
  <2> QED
    BY <1>4, <2>1 DEF Entries
<1>6. Subs(i) = {}
  BY <1>1 DEF Subs, NoEntry
<1> QED
  BY <1>1, <1>2, <1>3, <1>4, <1>5, <1>6

\* create() finds no inode free.
LEMMA CreateNoneKeeps ==
  ASSUME FilesInv, NEW p \in Proc, t[p].pc = "create", t[p].puts = <<>>, Unlocked(t[p].dp),
         s' = Iunlock(Ilock(s, p, t[p].dp), t[p].dp), To(p, "end", <<t[p].dp>>),
         UNCHANGED <<file, ofile, boot>>
  PROVE  Kept
<1> DEFINE d == t[p].dp
           y == Iunlock(Ilock(s, p, d), d)
<1>1. /\ t[p].phase = "put" /\ \A j : ~PutAt(t[p], j, 1) /\ ~PutAt(t[p], j, 2)
      /\ d \in Inum /\ s.ino[d].type # "none" /\ t[p].pc # "idle"
  BY Acting DEF HasDp
<1>2. /\ \A j \in Inum : j # Root => Held(t[p], j) = IF j = d THEN 1 ELSE 0
      /\ \A j \in Inum : ~Locking(t[p], j)
  BY <1>1 DEF Held, Locking, HasDp, HasIp, One
<1>3. Unlocked(d) /\ s' = y /\ To(p, "end", <<d>>)
  OBVIOUS
<1> HIDE DEF d
<1>4. /\ y \in Fs /\ y.ino = s.ino /\ y.ents = s.ents /\ y.used = s.used
      /\ y.ref = s.ref /\ y.lock = s.lock /\ y.valid = [s.valid EXCEPT ![d] = TRUE]
      /\ y.ic = [s.ic EXCEPT ![d] = s.ino[d]]
  BY <1>1, <1>3, Looked
<1> HIDE DEF y
<1>5. /\ s' \in Fs /\ s'.ino = s.ino /\ s'.ents = s.ents /\ s'.used = s.used
      /\ s'.ref = s.ref /\ s'.lock = s.lock /\ s'.valid = [s.valid EXCEPT ![d] = TRUE]
      /\ s'.ic = [s.ic EXCEPT ![d] = s.ino[d]]
  BY <1>3, <1>4
<1> QED
  BY <1>1, <1>2, <1>3, <1>5, LookedEndKeeps

\* create() has locked the directory and allocated the inode i.
Allocates(p, c, i) ==
  LET d == t[p].dp IN
  /\ c = [t[p] EXCEPT !.pc = "create_new", !.ip = i] /\ t' = [t EXCEPT ![p] = c]
  /\ s' \in Fs /\ s'.ino = [s.ino EXCEPT ![i] = [NoInode EXCEPT !.type = TypeOf(t[p].kind)]]
  /\ s'.ents = s.ents /\ s'.used = s.used /\ s'.lock = [s.lock EXCEPT ![d] = p]
  /\ s'.ic = [s.ic EXCEPT ![d] = s.ino[d]] /\ s'.ref = [s.ref EXCEPT ![i] = @ + 1]
  /\ \A k \in Inum : s'.valid[k] <=> (s.valid[k] \/ k = d) /\ (k = i => s.ref[k] > 0)

\* The new inode is its creator's alone.
LEMMA AllocatesKeeps ==
  ASSUME FilesInv, NEW p \in Proc, t[p].pc = "create", t[p].puts = <<>>, Unlocked(t[p].dp),
         NEW i \in Inum, s.ino[i].type = "none", NEW c, Allocates(p, c, i),
         UNCHANGED <<file, ofile, boot>>
  PROVE  Kept
<1> DEFINE d == t[p].dp
<1>1. /\ Running /\ t[p].phase = "put" /\ \A j : ~PutAt(t[p], j, 1) /\ ~PutAt(t[p], j, 2)
      /\ t[p] \in Calls /\ Place(t[p]) /\ AllocatedTo(s, t[p]) /\ s \in Fs
      /\ s.ref \in [Inum -> Nat] /\ s.ref[Root] = 0 /\ s.lock \in [Inum -> Owner]
      /\ s.ino \in [Inum -> Inode] /\ s.ic \in [Inum -> Inode]
      /\ d \in Inum /\ s.ino[d].type # "none"
      /\ \A j \in Inum : s.lock[j] = p <=> Locking(t[p], j)
  BY Acting DEF HasDp
<1>2. \A j : /\ Held(t[p], j) = IF j = d THEN 1 ELSE 0
             /\ ~Locking(t[p], j) /\ (Live(t[p], j) <=> j = d) /\ ~Pends(t[p], j)
  BY <1>1 DEF Held, Live, Locking, Pends, HasDp, HasIp, One
<1>3. i # d /\ s.ino[d].type = "dir" /\ i # Root /\ s.lock[d] = Nobody
  BY <1>1, FreeIsUnused DEF AllocatedTo, Unlocked
<1>4. /\ c \in Calls /\ c.pc = "create_new" /\ c.dp = d /\ c.ip = i /\ c.kind = t[p].kind
      /\ c.path = t[p].path /\ c.phase = "put" /\ c.puts = <<>> /\ Goes(p, c)
  <2>1. i \in 0 .. NINODES
    BY Bounds
  <2>2. /\ c \in Calls /\ c.pc = "create_new" /\ c.dp = d /\ c.ip = i /\ c.kind = t[p].kind
        /\ c.path = t[p].path /\ c.phase = "put" /\ c.puts = <<>>
    BY <1>1, <2>1 DEF Calls, Labels, Allocates
  <2> QED
    BY <2>2 DEF Goes, Allocates
<1>5. /\ s' \in Fs /\ s'.ino = [s.ino EXCEPT ![i] = [NoInode EXCEPT !.type = TypeOf(t[p].kind)]]
      /\ s'.ents = s.ents /\ s'.used = s.used /\ s'.lock = [s.lock EXCEPT ![d] = p]
      /\ s'.ic = [s.ic EXCEPT ![d] = s.ino[d]] /\ s'.ref = [s.ref EXCEPT ![i] = @ + 1]
      /\ \A k \in Inum : s'.valid[k] <=> (s.valid[k] \/ k = d) /\ (k = i => s.ref[k] > 0)
  BY DEF Allocates
<1>6. \A j : ~PutAt(c, j, 1) /\ ~PutAt(c, j, 2)
  BY <1>4, PutNone
<1>7. \A j : /\ Held(c, j) = (IF j = d THEN 1 ELSE 0) + (IF j = i THEN 1 ELSE 0)
             /\ Locking(c, j) <=> j = d
             /\ Live(c, j) <=> j = d \/ j = i
             /\ ~Pends(c, j)
  BY <1>4, <1>6 DEF Held, Live, Locking, Pends, HasDp, HasIp, One
<1>8. Place(c)
  BY <1>1, <1>3, <1>4, <1>6 DEF Place, HasDp, HasIp
<1>9. TypeOf(t[p].kind) \in InodeTypes \ {"none"}
  BY DEF TypeOf, InodeTypes
<1> DEFINE type == TypeOf(t[p].kind)
<1>10. /\ \A k \in Inum : k # i => s'.ino[k] = s.ino[k]
       /\ s'.ino[i].type = type /\ s'.ino[i].nlink = 0
  BY <1>1, <1>5 DEF NoInode
<1> HIDE DEF d, type
<1>11. LockMoves(p, c)
  BY <1>1, <1>2, <1>3, <1>5, <1>7 DEF LockMoves
<1>12. References'
  <2>1. RefMoves(p, c)
    BY <1>1, <1>2, <1>3, <1>5, <1>7 DEF RefMoves
  <2> QED
    BY <1>4, <2>1, RefsMove
<1>13. LiveMoves(p, c)
  BY <1>2, <1>7 DEF LiveMoves
<1>14. AllocatedTo(s', c)
  BY <1>1, <1>3, <1>4, <1>7, <1>9, <1>10 DEF AllocatedTo, type
<1>15. t'[p] = c /\ \A q \in Proc : q # p => t'[q] = t[q]
  BY <1>4 DEF Goes, FilesInv, Types
<1>16. NewTo(p)'
  <2>1. \A q \in Proc : q # p => ~Live(t'[q], i)
    BY <1>15, FreeIsUnused
  <2>2. FileRefs(i) = {}
    BY FreeIsUnused
  <2>3. {f \in File : file'[f].ref > 0 /\ file'[f].ip = i} = {}
    BY <2>2 DEF FileRefs
  <2>4. s'.ino[i].type = TypeOf(t[p].kind)
    BY <1>10 DEF type
  <2> SUFFICES ASSUME t'[p].pc = "create_new"
               PROVE  /\ s'.ino[t'[p].ip].type = TypeOf(t'[p].kind)
                      /\ s'.ino[t'[p].ip].nlink = 0
                      /\ \A q \in Proc : q # p => ~Live(t'[q], t'[p].ip)
                      /\ {f \in File : file'[f].ref > 0 /\ file'[f].ip = t'[p].ip} = {}
    BY DEF NewTo, Live, HasDp, HasIp, PutAt, FileRefs
  <2> QED
    BY <1>4, <1>10, <1>15, <2>1, <2>3, <2>4
<1>17. Copies'
  <2>1. ASSUME NEW k \in Inum, Freeing(k) PROVE Freeing(k)'
    BY <1>1, <1>15, <2>1 DEF Freeing, PutAt
  <2>2. ASSUME NEW k \in Inum, s'.valid[k]
        PROVE  Freeing(k) \/ (s'.ic[k] = s'.ino[k] /\ s'.ino[k].type # "none")
    <3>1. CASE k = d
      BY <1>1, <1>3, <1>5, <1>10, <3>1
    <3>2. CASE k = i
      BY <1>3, <1>5, <2>2, <3>2 DEF FilesInv, Copies
    <3>3. CASE k # d /\ k # i
      <4>1. s.valid[k] /\ s'.ic[k] = s.ic[k] /\ s'.ino[k] = s.ino[k]
        BY <1>1, <1>5, <1>10, <2>2, <3>3
      <4> QED
        BY <4>1 DEF FilesInv, Copies
    <3> QED
      BY <3>1, <3>2, <3>3
  <2>3. ASSUME NEW k \in Inum, s'.lock[k] # Nobody PROVE s'.valid[k]
    <3>1. CASE k = d
      BY <1>3, <1>5, <3>1
    <3>2. CASE k # d
      <4>1. s.lock[k] # Nobody
        BY <1>1, <1>5, <2>3, <3>2
      <4>2. s.valid[k] /\ (k # Root => s.ref[k] > 0)
        BY <4>1, LockedIsHeld, LockedCopies
      <4> QED
        BY <1>3, <1>5, <4>2
    <3> QED
      BY <3>1, <3>2
  <2> QED
    BY <2>1, <2>2, <2>3 DEF Copies
<1>18. Disk(s)'
  <2> DEFINE z == s'
  <2>1. /\ z \in Fs /\ z.ino = [s.ino EXCEPT ![i] = [NoInode EXCEPT !.type = type]]
        /\ z.ents = s.ents /\ z.used = s.used
    BY <1>5 DEF type
  <2>2. type \in InodeTypes /\ Disk(s)
    BY <1>9 DEF type, FilesInv
  <2> HIDE DEF z
  <2>3. Disk(z)
    BY <1>1, <2>1, <2>2, DiskAlloc
  <2>4. Disk(s')
    BY <2>3 DEF z
  <2> QED
    BY <2>4 DEF Disk, Owned, Shaped
<1>19. FileMoves(p) /\ InoMoves(p) /\ EntMoves(p)
  BY <1>5, <1>10 DEF FileMoves, InoMoves, EntMoves
<1>20. Types'
  BY <1>4, <1>5, TypesMove
<1>21. Links'
  <2>1. ASSUME NEW k \in Inum
        PROVE  s'.ino[k].nlink >= Cardinality(Entries(k))' + Cardinality(Pending(k))'
                                  + Cardinality(Subs(k))' + One(k = Root)
    <3>1. Pending(k)' = Pending(k)
      <4>1. \A q \in Proc : Pends(t'[q], k) <=> Pends(t[q], k)
        BY <1>2, <1>7, <1>15
      <4> QED
        BY <4>1 DEF Pending, Pends
    <3>2. Entries(k)' = Entries(k)
      <4>1. \A e \in Inum \X Name : e[1] \in Inum /\ e[2] \in Name
        OBVIOUS
      <4>2. \A n \in Name : s.ents[i][n] = 0
        BY FreeIsUnused DEF NoEntry
      <4>3. k # 0
        BY Bounds
      <4> QED
        BY <1>5, <1>10, <4>1, <4>2, <4>3 DEF Entries
    <3>3. Subs(k)' = Subs(k)
      <4>1. ASSUME NEW n \in Name, s.ents[k][n] # 0
            PROVE  s.ents[k][n] \in Inum /\ s.ents[k][n] # i
        BY <4>1, NamedIsLinked, FreeIsUnused
      <4> QED
        BY <1>5, <1>10, <4>1 DEF Subs
    <3>4. CASE k = i
      <4>1. Entries(k) = {} /\ Pending(k) = {} /\ Subs(k) = {} /\ k # Root
        BY <3>4, FreeIsUnused
      <4>2. Cardinality({}) = 0
        BY FS_EmptySet
      <4>3. One(k = Root) = 0
        BY <4>1 DEF One
      <4> QED
        BY <1>10, <3>1, <3>2, <3>3, <3>4, <4>1, <4>2, <4>3
    <3>5. CASE k # i
      <4>1. s'.ino[k].nlink = s.ino[k].nlink
        BY <1>10, <3>5
      <4>2. s.ino[k].nlink >= Cardinality(Entries(k)) + Cardinality(Pending(k))
                              + Cardinality(Subs(k)) + One(k = Root)
        BY DEF FilesInv, Links
      <4> QED
        BY <3>1, <3>2, <3>3, <4>1, <4>2
    <3> QED
      BY <3>4, <3>5
  <2> QED
    BY <2>1 DEF Links, One
<1>22. boot' = boot
  OBVIOUS
<1> QED
  BY <1>1, <1>4, <1>8, <1>11, <1>12, <1>13, <1>14, <1>16, <1>17, <1>18, <1>19, <1>20, <1>21,
     <1>22, StepKeeps

\* create() looks for the name, and for an inode when there is none.
LEMMA CreateDirKeeps ==
  ASSUME FilesInv, NEW p \in Proc, CreateDir(p)
  PROVE  Kept
<1> DEFINE d == t[p].dp
           x == Ilock(s, p, d)
           n == Head(t[p].path)
           type == TypeOf(t[p].kind)
<1>1. /\ t[p].pc = "create" /\ t[p].puts = <<>> /\ Unlocked(d)
      /\ UNCHANGED <<file, ofile, boot>>
  BY DEF CreateDir, At
<1>2. t[p].phase = "put" /\ d \in Inum /\ s.ino[d].type # "none" /\ s \in Fs
  BY <1>1, Acting DEF HasDp
<1>3. /\ x \in Fs /\ x.ino = s.ino /\ x.ents = s.ents /\ x.used = s.used /\ x.ref = s.ref
      /\ x.lock = [s.lock EXCEPT ![d] = p] /\ x.valid = [s.valid EXCEPT ![d] = TRUE]
      /\ x.ic = [s.ic EXCEPT ![d] = s.ino[d]]
  <2>1. Unlocked(d)
    BY <1>1
  <2> HIDE DEF d
  <2> QED
    BY <1>2, <2>1, Locked
<1>4. Dirlookup(x, d, n) = s.ents[d][n]
  <2>1. n \in Name /\ x.ents = s.ents
    <3>1. t[p].path \in Seq(Name) /\ t[p].path # <<>>
      BY <1>1, PartTypes DEF Place, Places, FilesInv
    <3> QED
      BY <1>3, <3>1
  <2> QED
    BY <2>1, NameLooked
<1>5. CASE s.ents[d][n] # 0
  BY <1>5, CreateFoundKeeps
<1>6. CASE s.ents[d][n] = 0 /\ FreeInodes(x) = {}
  <2>1. s' = Iunlock(x, d) /\ To(p, "end", <<d>>)
    BY <1>4, <1>6 DEF CreateDir
  <2> QED
    BY <1>1, <2>1, CreateNoneKeeps
<1>7. CASE s.ents[d][n] = 0 /\ FreeInodes(x) # {}
  <2>1. /\ s' = Ialloc(x, type)
        /\ t' = [t EXCEPT ![p].pc = "create_new", ![p].ip = Min(FreeInodes(x))]
    BY <1>4, <1>7 DEF CreateDir
  <2>2. type \in InodeTypes
    BY DEF TypeOf, InodeTypes
  <2> HIDE DEF x, type
  <2>3. \E i \in Inum, y \in Fs :
           /\ i = Min(FreeInodes(x)) /\ x.ino[i].type = "none" /\ y = Ialloc(x, type)
           /\ y.ino = [x.ino EXCEPT ![i] = [NoInode EXCEPT !.type = type]]
           /\ y.ents = x.ents /\ y.used = x.used /\ y.lock = x.lock /\ y.ic = x.ic
           /\ y.ref = [x.ref EXCEPT ![i] = @ + 1]
           /\ \A k \in Inum : y.valid[k] <=> x.valid[k] /\ (k = i => x.ref[i] > 0)
    <3>1. x \in Fs /\ FreeInodes(x) # {}
      BY <1>3, <1>7
    <3> QED
      BY <2>2, <3>1, IallocIs
  <2>4. PICK i \in Inum, y \in Fs :
           /\ i = Min(FreeInodes(x)) /\ x.ino[i].type = "none" /\ y = Ialloc(x, type)
           /\ y.ino = [x.ino EXCEPT ![i] = [NoInode EXCEPT !.type = type]]
           /\ y.ents = x.ents /\ y.used = x.used /\ y.lock = x.lock /\ y.ic = x.ic
           /\ y.ref = [x.ref EXCEPT ![i] = @ + 1]
           /\ \A k \in Inum : y.valid[k] <=> x.valid[k] /\ (k = i => x.ref[i] > 0)
    BY <2>3
  <2> DEFINE c == [t[p] EXCEPT !.pc = "create_new", !.ip = i]
  <2>5. t' = [t EXCEPT ![p] = c]
    BY <2>1, <2>4 DEF FilesInv, Types
  <2>6. s' = y
    BY <2>1, <2>4
  <2>7. \A k \in Inum : x.valid[k] <=> s.valid[k] \/ k = d
    BY <1>2, <1>3 DEF Fs
  <2> HIDE DEF d
  <2>8. /\ y.ino = [s.ino EXCEPT ![i] = [NoInode EXCEPT !.type = type]]
        /\ y.ents = s.ents /\ y.used = s.used /\ y.lock = [s.lock EXCEPT ![d] = p]
        /\ y.ic = [s.ic EXCEPT ![d] = s.ino[d]] /\ y.ref = [s.ref EXCEPT ![i] = @ + 1]
        /\ \A k \in Inum : y.valid[k] <=> (s.valid[k] \/ k = d) /\ (k = i => s.ref[k] > 0)
    BY <1>3, <2>4, <2>7
  <2>9. Allocates(p, c, i)
    <3> HIDE DEF c
    <3>1. /\ s' \in Fs /\ s'.ino = [s.ino EXCEPT ![i] = [NoInode EXCEPT !.type = type]]
          /\ s'.ents = s.ents /\ s'.used = s.used /\ s'.lock = [s.lock EXCEPT ![d] = p]
          /\ s'.ic = [s.ic EXCEPT ![d] = s.ino[d]] /\ s'.ref = [s.ref EXCEPT ![i] = @ + 1]
          /\ \A k \in Inum : s'.valid[k] <=> (s.valid[k] \/ k = d) /\ (k = i => s.ref[k] > 0)
      BY <2>6, <2>8
    <3>2. c = [t[p] EXCEPT !.pc = "create_new", !.ip = i]
      BY DEF c
    <3> QED
      BY <2>5, <3>1, <3>2 DEF Allocates, d, type
  <2>10. s.ino[i].type = "none"
    BY <1>3, <2>4
  <2>11. Unlocked(t[p].dp)
    BY <1>1 DEF d
  <2> HIDE DEF c
  <2> QED
    BY <1>1, <2>9, <2>10, <2>11, AllocatesKeeps
<1> QED
  BY <1>5, <1>6, <1>7

\* The new inode i locked, with one link and perhaps a block, in x.
Made(x, p, i) ==
  /\ x \in Fs /\ Disk(x) /\ x.ents = s.ents /\ x.ref = s.ref
  /\ \A k \in Inum : /\ k # i => x.ino[k] = s.ino[k] /\ x.ic[k] = s.ic[k]
                     /\ x.lock[k] = IF k = i THEN p ELSE s.lock[k]
  /\ \A k \in Inum : x.valid[k] <=> s.valid[k] \/ k = i
  /\ x.ino[i].type = s.ino[i].type /\ x.ino[i].nlink = 1 /\ x.ic[i] = x.ino[i]

\* create() gives the new inode its link and, if it is a directory, its entries.
LEMMA MadeIs ==
  ASSUME FilesInv, NEW p \in Proc, NEW i \in Inum, Unlocked(i), t[p].phase = "put",
         s.ino[i].type # "none", NEW b \in BOOLEAN, NEW x, x = SetNlink(Ilock(s, p, i), i, 1),
         NEW y, y = IF b /\ FreeBlock(x) # {} THEN Writei(x, i) ELSE x
  PROVE  Made(y, p, i)
<1> DEFINE w == Ilock(s, p, i)
<1>1. /\ w \in Fs /\ w.ino = s.ino /\ w.ents = s.ents /\ w.used = s.used /\ w.ref = s.ref
      /\ w.lock = [s.lock EXCEPT ![i] = p] /\ w.valid = [s.valid EXCEPT ![i] = TRUE]
      /\ w.ic = [s.ic EXCEPT ![i] = s.ino[i]] /\ w.ic[i] = s.ino[i]
  BY Locked
<1>2. s \in Fs /\ Disk(s)
  BY DEF FilesInv, Types
<1>3. x = SetNlink(w, i, 1)
  OBVIOUS
<1> HIDE DEF w
<1>4. Disk(w) /\ w.ic[i] = w.ino[i]
  BY <1>1, <1>2, DiskSame
<1>5. Wrote(w, x, i) /\ x.ents = w.ents /\ x.ino[i].nlink = 1
  <2>1. 1 \in Nat /\ w \in Fs
    BY <1>1
  <2> QED
    BY <1>3, <1>4, <2>1, SetNlinkWrote
<1>6. Wrote(x, y, i) /\ y.ents = x.ents /\ y.ino[i].nlink = x.ino[i].nlink
  <2>1. x \in Fs /\ Disk(x) /\ x.ic[i] = x.ino[i] /\ x.ino[i].type # "none"
    BY <1>1, <1>5 DEF Wrote
  <2>2. CASE b /\ FreeBlock(x) # {}
    <3>1. y = Writei(x, i)
      BY <2>2
    <3> QED
      BY <2>1, <2>2, <3>1, WriteiWrote
  <2>3. CASE ~(b /\ FreeBlock(x) # {})
    <3>1. y = x
      BY <2>3
    <3> QED
      BY <2>1, <3>1 DEF Wrote
  <2> QED
    BY <2>2, <2>3
<1>7. y \in Fs /\ Disk(y) /\ y.ents = s.ents /\ y.ref = s.ref
  BY <1>1, <1>5, <1>6 DEF Wrote
<1>8. y.lock = [s.lock EXCEPT ![i] = p] /\ y.valid = [s.valid EXCEPT ![i] = TRUE]
  BY <1>1, <1>5, <1>6 DEF Wrote
<1>9. s.lock \in [Inum -> Owner] /\ s.valid \in [Inum -> BOOLEAN] /\ s.ic \in [Inum -> Inode]
  BY <1>2 DEF Fs
<1>10. \A k \in Inum : k # i => y.ino[k] = s.ino[k] /\ y.ic[k] = s.ic[k]
  <2>1. \A k \in Inum : k # i => w.ic[k] = s.ic[k] /\ w.ino[k] = s.ino[k]
    BY <1>1, <1>9
  <2> QED
    BY <1>5, <1>6, <2>1 DEF Wrote
<1>11. y.ino[i].type = s.ino[i].type /\ y.ino[i].nlink = 1 /\ y.ic[i] = y.ino[i]
  BY <1>1, <1>5, <1>6 DEF Wrote
<1>12. \A k \in Inum : y.lock[k] = IF k = i THEN p ELSE s.lock[k]
  BY <1>8, <1>9
<1>13. \A k \in Inum : y.valid[k] <=> s.valid[k] \/ k = i
  BY <1>8, <1>9
<1> QED
  BY <1>7, <1>10, <1>11, <1>12, <1>13 DEF Made

\* What holds of a call that has made its inode.
LEMMA Making ==
  ASSUME FilesInv, NEW p \in Proc, t[p].pc = "create_new", t[p].puts = <<>>, Unlocked(t[p].ip)
  PROVE  /\ Running /\ t[p].phase = "put" /\ \A j : ~PutAt(t[p], j, 1) /\ ~PutAt(t[p], j, 2)
         /\ Place(t[p]) /\ AllocatedTo(s, t[p]) /\ s.ref \in [Inum -> Nat] /\ s.ref[Root] = 0
         /\ t[p].ip \in Inum \ {Root} /\ s.ino[t[p].ip].type # "none" /\ t[p].dp \in Inum
         /\ s.ino[t[p].ip].type = TypeOf(t[p].kind) /\ s.ino[t[p].ip].nlink = 0
         /\ s.ino[t[p].dp].type = "dir" /\ t[p].ip # t[p].dp
         /\ s.lock[t[p].dp] = p /\ s.lock[t[p].ip] = Nobody
         /\ s.ic[t[p].dp] = s.ino[t[p].dp] /\ Head(t[p].path) \in Name
         /\ \A j : /\ Held(t[p], j) = (IF j = t[p].dp THEN 1 ELSE 0)
                                      + (IF j = t[p].ip THEN 1 ELSE 0)
                   /\ Locking(t[p], j) <=> j = t[p].dp
                   /\ Live(t[p], j) <=> j = t[p].dp \/ j = t[p].ip
                   /\ ~Pends(t[p], j)
<1> DEFINE d == t[p].dp
           i == t[p].ip
<1>1. /\ Running /\ t[p].phase = "put" /\ \A j : ~PutAt(t[p], j, 1) /\ ~PutAt(t[p], j, 2)
      /\ Place(t[p]) /\ AllocatedTo(s, t[p]) /\ s.ref \in [Inum -> Nat] /\ s.ref[Root] = 0
      /\ i \in Inum \ {Root} /\ s.ino[i].type # "none" /\ d \in Inum
      /\ \A j \in Inum : s.lock[j] = p <=> Locking(t[p], j)
  BY Acting DEF HasIp, HasDp
<1>2. \A j : /\ Held(t[p], j) = (IF j = d THEN 1 ELSE 0) + (IF j = i THEN 1 ELSE 0)
             /\ Locking(t[p], j) <=> j = d
             /\ Live(t[p], j) <=> j = d \/ j = i
             /\ ~Pends(t[p], j)
  BY <1>1 DEF Held, Live, Locking, Pends, HasDp, HasIp, One
<1>3. s.lock[d] = p /\ s.lock[i] = Nobody /\ i # d
  BY <1>1, <1>2, Bounds DEF Unlocked
<1>4. s.ic[d] = s.ino[d]
  <2>1. d \in Inum /\ s.lock[d] \in {p, Nobody} /\ t[p].phase = "put" /\ s.lock[d] # Nobody
    BY <1>1, <1>3, Bounds
  <2> HIDE DEF d
  <2>2. s.valid[d]
    BY <2>1, LockedCopies
  <2> QED
    BY <2>1, <2>2, Current
<1>5. s.ino[i].type = TypeOf(t[p].kind) /\ s.ino[i].nlink = 0
  BY DEF FilesInv, NewInodes, NewTo
<1>6. Head(t[p].path) \in Name
  <2>1. t[p].path \in Seq(Name) /\ t[p].path # <<>>
    BY <1>1, PartTypes DEF Place, FilesInv
  <2> QED
    BY <2>1
<1>7. s.ino[d].type = "dir"
  BY <1>1 DEF AllocatedTo
<1> QED
  BY <1>1, <1>2, <1>3, <1>4, <1>5, <1>6, <1>7

\* create() cannot write a name: it takes the new inode's link away again.
LEMMA CreateNewFailKeeps ==
  ASSUME FilesInv, NEW p \in Proc, t[p].pc = "create_new", t[p].puts = <<>>, Unlocked(t[p].ip),
         NEW x, Made(x, p, t[p].ip), NEW z, z = Iunlock(SetNlink(x, t[p].ip, 0), t[p].ip), s' = z,
         To(p, "bad", <<t[p].ip>>), UNCHANGED <<file, ofile, boot>>
  PROVE  Kept
<1> DEFINE d == t[p].dp
           i == t[p].ip
           c == MovedCall(p, "bad", <<i>>)
           y == SetNlink(x, i, 0)
<1>1. /\ Running /\ t[p].phase = "put" /\ AllocatedTo(s, t[p]) /\ Place(t[p])
      /\ s.ref \in [Inum -> Nat] /\ s.ref[Root] = 0
      /\ i \in Inum \ {Root} /\ s.ino[i].type # "none" /\ d \in Inum /\ s.ino[i].nlink = 0
      /\ s.ino[d].type = "dir" /\ i # d /\ s.lock[d] = p /\ s.lock[i] = Nobody
  BY Making
<1>2. \A j : /\ Held(t[p], j) = (IF j = d THEN 1 ELSE 0) + (IF j = i THEN 1 ELSE 0)
             /\ Locking(t[p], j) <=> j = d
             /\ Live(t[p], j) <=> j = d \/ j = i
             /\ ~Pends(t[p], j)
  BY Making
<1>3. /\ c.pc = "bad" /\ c.dp = d /\ c.kind = t[p].kind /\ c.phase = "put" /\ Len(c.puts) <= 1
      /\ \A j : PutAt(c, j, 1) <=> j = i /\ i # Root
      /\ \A j : ~PutAt(c, j, 2)
      /\ Goes(p, c)
  <2>1. "bad" \in Labels /\ To(p, "bad", <<i>>) /\ i \in Inum /\ Types
    BY <1>1 DEF Labels, FilesInv
  <2> HIDE DEF i
  <2> QED
    BY <1>1, <2>1, MovedOne
<1> HIDE DEF c
<1>4. \A j : /\ Held(c, j) = (IF j = d THEN 1 ELSE 0) + (IF j = i THEN 1 ELSE 0)
             /\ Locking(c, j) <=> j = d
             /\ Live(c, j) <=> j = d \/ j = i
             /\ ~Pends(c, j)
  BY <1>1, <1>3 DEF Held, Live, Locking, Pends, HasDp, HasIp, One
<1>5. Place(c)
  <2>1. Len(c.puts) <= 2 /\ (c.puts = <<>> => c.phase = "put")
    BY <1>3
  <2> QED
    BY <1>1, <1>3, <2>1 DEF Place, HasDp, HasIp
<1>6. /\ x \in Fs /\ Disk(x) /\ x.ents = s.ents /\ x.ref = s.ref /\ x.ic[i] = x.ino[i]
      /\ \A k \in Inum : /\ k # i => x.ino[k] = s.ino[k] /\ x.ic[k] = s.ic[k]
                         /\ x.lock[k] = IF k = i THEN p ELSE s.lock[k]
      /\ \A k \in Inum : x.valid[k] <=> s.valid[k] \/ k = i
      /\ x.ino[i].type = s.ino[i].type
  BY DEF Made
<1>7. z = Iunlock(y, i)
  OBVIOUS
<1>8. 0 \in Nat
  OBVIOUS
<1> HIDE DEF i, d
<1>9. Wrote(x, y, i) /\ y.ents = x.ents /\ y.ino[i].nlink = 0
  BY <1>1, <1>6, <1>8, SetNlinkWrote
<1> HIDE DEF y
<1>10. y \in Fs
  BY <1>9 DEF Wrote
<1>11. /\ z \in Fs /\ z.ino = y.ino /\ z.ents = y.ents /\ z.used = y.used /\ z.ref = y.ref
       /\ z.lock = [y.lock EXCEPT ![i] = Nobody] /\ z.valid = y.valid /\ z.ic = y.ic
  <2> DEFINE w == Iunlock(y, i)
  <2>1. z = w
    BY <1>7
  <2>2. /\ w \in Fs /\ w.ino = y.ino /\ w.ents = y.ents /\ w.used = y.used /\ w.ref = y.ref
        /\ w.lock = [y.lock EXCEPT ![i] = Nobody] /\ w.valid = y.valid /\ w.ic = y.ic
    BY <1>1, <1>10, IunlockIs
  <2> HIDE DEF w
  <2> QED
    BY <2>1, <2>2
<1>12. /\ s' \in Fs /\ s'.ents = s.ents /\ s'.ref = s.ref /\ Disk(s')
  <2>1. Disk(y) /\ y.ref = x.ref
    BY <1>9 DEF Wrote
  <2>2. Disk(z)
    BY <1>11, <2>1, DiskSame
  <2> QED
    BY <1>6, <1>9, <1>11, <2>1, <2>2
<1>13. \A k \in Inum : s'.lock[k] = s.lock[k]
  <2>1. y.lock \in [Inum -> Owner] /\ y.lock = x.lock
    BY <1>9, <1>10 DEF Wrote, Fs
  <2> QED
    BY <1>1, <1>6, <1>11, <2>1
<1>14. \A k \in Inum : s'.valid[k] <=> s.valid[k] \/ k = i
  <2>1. z.valid = x.valid
    BY <1>9, <1>11 DEF Wrote
  <2> QED
    BY <1>6, <2>1
<1>15. /\ \A k \in Inum : k # i => s'.ino[k] = s.ino[k] /\ s'.ic[k] = s.ic[k]
       /\ s'.ino[i].type = s.ino[i].type /\ s'.ino[i].nlink = 0 /\ s'.ic[i] = s'.ino[i]
  <2>1. z.ino = y.ino /\ z.ic = y.ic
    BY <1>11
  <2> QED
    BY <1>6, <1>9, <2>1 DEF Wrote
<1>16. \A k \in Inum : s'.ino[k].type = s.ino[k].type /\ s'.ino[k].nlink = s.ino[k].nlink
  BY <1>1, <1>15
<1>17. LockMoves(p, c)
  BY <1>2, <1>4, <1>13 DEF LockMoves, FilesInv, Locks
<1>18. RefMoves(p, c)
  BY <1>1, <1>2, <1>4, <1>12 DEF RefMoves
<1>19. LiveMoves(p, c)
  BY <1>2, <1>4 DEF LiveMoves
<1>20. AllocatedTo(s', c)
  BY <1>1, <1>3, <1>4, <1>16 DEF AllocatedTo
<1>21. ASSUME NEW k \in Inum
       PROVE  /\ s'.valid[k] => \/ s.valid[k] /\ s'.ic[k] = s.ic[k] /\ s'.ino[k] = s.ino[k]
                                \/ s'.ic[k] = s'.ino[k] /\ s'.ino[k].type # "none"
              /\ s'.lock[k] # Nobody => s'.valid[k]
  <2>1. s.lock[k] # Nobody => s.valid[k]
    BY LockedCopies
  <2>2. s'.lock[k] = s.lock[k] /\ (s'.valid[k] <=> s.valid[k] \/ k = i)
    BY <1>13, <1>14
  <2>3. CASE k = i
    BY <1>1, <1>15, <2>1, <2>2, <2>3
  <2>4. CASE k # i
    BY <1>15, <2>1, <2>2, <2>4
  <2> QED
    BY <2>3, <2>4
<1>22. EntMoves(p)
  BY <1>12 DEF EntMoves
<1>23. Links'
  <2>1. Types'
    BY <1>3, <1>12, TypesMove
  <2>2. ASSUME NEW k \in Inum
        PROVE  s'.ino[k].nlink - s.ino[k].nlink
                 >= (IF Pends(c, k) THEN 1 ELSE 0) - (IF Pends(t[p], k) THEN 1 ELSE 0)
    <3>1. s.ino[k].nlink \in Nat
      BY PartTypes DEF FilesInv
    <3>2. ~Pends(c, k) /\ ~Pends(t[p], k) /\ s'.ino[k].nlink = s.ino[k].nlink
      BY <1>2, <1>4, <1>16
    <3> QED
      BY <3>1, <3>2
  <2> QED
    BY <1>3, <1>12, <1>16, <2>1, <2>2, LinksMove
<1>24. t[p].phase # "freed" /\ c.pc # "create_new"
  BY <1>1, <1>3
<1>25. \A k \in Inum :
         /\ s'.ino[k].type = s.ino[k].type
         /\ s'.ino[k].nlink = s.ino[k].nlink \/ Live(t[p], k)
         /\ s'.valid[k] => \/ s.valid[k] /\ s'.ic[k] = s.ic[k] /\ s'.ino[k] = s.ino[k]
                           \/ s'.ic[k] = s'.ino[k] /\ s'.ino[k].type # "none"
         /\ s'.lock[k] # Nobody => s'.valid[k]
  BY <1>16, <1>21
<1>26. Running /\ Goes(p, c) /\ s' \in Fs /\ Disk(s')
  BY <1>1, <1>3, <1>12
<1> QED
  BY <1>5, <1>17, <1>18, <1>19, <1>20, <1>22, <1>23, <1>24, <1>25, <1>26, WriteKeeps

\* The name n written in the directory d for the new inode i, both inodes' links
\* counted, and d unlocked, in z.
Named(z, p, d, n, i) ==
  /\ z \in Fs /\ z.ents = [s.ents EXCEPT ![d][n] = i] /\ z.ref = s.ref /\ Disk(z)
  /\ s.ents[d][n] = 0
  /\ \A k \in Inum : z.lock[k] = IF k = d THEN Nobody ELSE IF k = i THEN p ELSE s.lock[k]
  /\ \A k \in Inum : z.valid[k] <=> s.valid[k] \/ k = i
  /\ \A k \in Inum : k # d /\ k # i => z.ino[k] = s.ino[k] /\ z.ic[k] = s.ic[k]
  /\ z.ino[i].type = s.ino[i].type /\ z.ino[i].nlink = 1 /\ z.ic[i] = z.ino[i]
  /\ z.ino[d].type = s.ino[d].type /\ z.ic[d] = z.ino[d]
  /\ z.ino[d].nlink = s.ino[d].nlink + IF s.ino[i].type = "dir" THEN 1 ELSE 0

\* This is what create() makes of the file system when it gives the name.
LEMMA NamedIs ==
  ASSUME FilesInv, NEW p \in Proc, NEW d \in Inum, NEW n \in Name, NEW i \in Inum \ {Root},
         i # d, s.ino[d].type = "dir", s.ic[d] = s.ino[d], NEW x, Made(x, p, i), CanLink(x, d, n),
         NEW b \in BOOLEAN, b <=> s.ino[i].type = "dir", NEW y, y = Dirlink(x, d, n, i),
         NEW w, w = IF b THEN SetNlink(y, d, y.ic[d].nlink + 1) ELSE y
  PROVE  Named(Iunlock(w, d), p, d, n, i)
<1> DEFINE more == IF s.ino[i].type = "dir" THEN 1 ELSE 0
           z == Iunlock(w, d)
<1>6. /\ x \in Fs /\ Disk(x) /\ x.ents = s.ents /\ x.ref = s.ref /\ x.ic[i] = x.ino[i]
      /\ \A k \in Inum : /\ k # i => x.ino[k] = s.ino[k] /\ x.ic[k] = s.ic[k]
                         /\ x.lock[k] = IF k = i THEN p ELSE s.lock[k]
      /\ \A k \in Inum : x.valid[k] <=> s.valid[k] \/ k = i
      /\ x.ino[i].type = s.ino[i].type /\ x.ino[i].nlink = 1
  BY DEF Made
<1>9. s.ents[d][n] = 0
  <2>1. Dirlookup(x, d, n) = 0
    BY DEF CanLink
  <2> QED
    BY <1>6, <2>1, NameLooked
<1>10. Wrote(x, y, d) /\ y.ents = [s.ents EXCEPT ![d][n] = i] /\ y.ino[d].nlink = s.ino[d].nlink
  <2>1. /\ x \in Fs /\ Disk(x) /\ x.ic[d] = x.ino[d] /\ x.ino[d].type = "dir"
        /\ CanLink(x, d, n) /\ y = Dirlink(x, d, n, i)
    BY <1>6
  <2>2. /\ Wrote(x, y, d) /\ y.ents = [x.ents EXCEPT ![d][n] = i]
        /\ y.ino[d].nlink = x.ino[d].nlink
    BY <2>1, DirlinkWrote
  <2> QED
    BY <1>6, <2>2
<1>11. Wrote(y, w, d) /\ w.ents = y.ents /\ w.ino[d].nlink = s.ino[d].nlink + more
  <2>1. /\ y \in Fs /\ Disk(y) /\ y.ic[d] = y.ino[d] /\ s.ino[d].nlink \in Nat
    BY <1>10, PartTypes DEF Wrote, FilesInv
  <2>2. CASE s.ino[i].type = "dir"
    <3> DEFINE m == s.ino[d].nlink + 1
               v == SetNlink(y, d, m)
    <3>1. m \in Nat /\ y.ic[d].nlink + 1 = m
      BY <1>10, <2>1
    <3>2. w = v
      BY <2>2, <3>1
    <3>3. more = 1
      BY <2>2
    <3> HIDE DEF m, more
    <3>4. Wrote(y, v, d) /\ v.ents = y.ents /\ v.ino[d].nlink = m
      BY <2>1, <3>1, SetNlinkWrote
    <3> HIDE DEF v
    <3> QED
      BY <3>2, <3>3, <3>4 DEF m
  <2>3. CASE s.ino[i].type # "dir"
    <3>1. w = y /\ more = 0
      BY <2>3
    <3> HIDE DEF more
    <3> QED
      BY <1>10, <2>1, <3>1 DEF Wrote
  <2> QED
    BY <2>2, <2>3
<1> HIDE DEF more
<1>12. /\ z \in Fs /\ z.ino = w.ino /\ z.ents = w.ents /\ z.used = w.used /\ z.ref = w.ref
       /\ z.lock = [w.lock EXCEPT ![d] = Nobody] /\ z.valid = w.valid /\ z.ic = w.ic
  <2>1. w \in Fs
    BY <1>11 DEF Wrote
  <2> QED
    BY <2>1, IunlockIs
<1> HIDE DEF z
<1>13. /\ z \in Fs /\ z.ents = [s.ents EXCEPT ![d][n] = i] /\ z.ref = s.ref /\ Disk(z)
  <2>1. Disk(w) /\ w.ref = x.ref
    BY <1>10, <1>11 DEF Wrote
  <2>2. Disk(z)
    BY <1>12, <2>1, DiskSame
  <2> QED
    BY <1>6, <1>10, <1>11, <1>12, <2>1, <2>2
<1>14. \A k \in Inum : z.lock[k] = IF k = d THEN Nobody ELSE IF k = i THEN p ELSE s.lock[k]
  <2>1. x.lock \in [Inum -> Owner] /\ w.lock = x.lock
    BY <1>6, <1>10, <1>11 DEF Wrote, Fs
  <2> QED
    BY <1>6, <1>12, <2>1
<1>15. \A k \in Inum : z.valid[k] <=> s.valid[k] \/ k = i
  <2>1. z.valid = x.valid
    BY <1>10, <1>11, <1>12 DEF Wrote
  <2> QED
    BY <1>6, <2>1
<1>16. /\ \A k \in Inum : k # d /\ k # i => z.ino[k] = s.ino[k] /\ z.ic[k] = s.ic[k]
       /\ z.ino[i].type = s.ino[i].type /\ z.ino[i].nlink = 1 /\ z.ic[i] = z.ino[i]
       /\ z.ino[d].type = s.ino[d].type /\ z.ic[d] = z.ino[d]
       /\ z.ino[d].nlink = s.ino[d].nlink + more
  <2>1. \A k \in Inum : k # d => w.ino[k] = x.ino[k] /\ w.ic[k] = x.ic[k]
    BY <1>10, <1>11 DEF Wrote
  <2>2. w.ino[d].type = x.ino[d].type /\ w.ic[d] = w.ino[d]
    BY <1>10, <1>11 DEF Wrote
  <2>3. z.ino = w.ino /\ z.ic = w.ic
    BY <1>12
  <2>4. \A k \in Inum : k # d /\ k # i => z.ino[k] = s.ino[k] /\ z.ic[k] = s.ic[k]
    BY <1>6, <2>1, <2>3
  <2>5. z.ino[i].type = s.ino[i].type /\ z.ino[i].nlink = 1 /\ z.ic[i] = z.ino[i]
    BY <1>6, <2>1, <2>3
  <2>6. z.ino[d].type = s.ino[d].type /\ z.ic[d] = z.ino[d]
    BY <1>6, <2>2, <2>3
  <2>7. z.ino[d].nlink = s.ino[d].nlink + more
    BY <1>11, <2>3
  <2> QED
    BY <2>4, <2>5, <2>6, <2>7
<1>17. Named(z, p, d, n, i)
  BY <1>9, <1>13, <1>14, <1>15, <1>16 DEF Named, more
<1> QED
  BY <1>17 DEF z

\* create() writes the name of the new inode, and its parent's link.
LEMMA CreateNewDoneKeeps ==
  ASSUME FilesInv, NEW p \in Proc, t[p].pc = "create_new", t[p].puts = <<>>, Unlocked(t[p].ip),
         NEW z, Named(z, p, t[p].dp, Head(t[p].path), t[p].ip), s' = z,
         To(p, "opened", <<t[p].dp>>), UNCHANGED <<file, ofile, boot>>
  PROVE  Kept
<1> DEFINE d == t[p].dp
           i == t[p].ip
           n == Head(t[p].path)
           more == IF s.ino[i].type = "dir" THEN 1 ELSE 0
           c == MovedCall(p, "opened", <<d>>)
<1>1. /\ Running /\ t[p].phase = "put" /\ AllocatedTo(s, t[p]) /\ Place(t[p]) /\ n \in Name
      /\ s.ref \in [Inum -> Nat] /\ s.ref[Root] = 0
      /\ i \in Inum \ {Root} /\ s.ino[i].type # "none" /\ d \in Inum /\ s.ino[i].nlink = 0
      /\ s.ino[d].type = "dir" /\ i # d /\ s.lock[d] = p /\ s.lock[i] = Nobody
      /\ s.ic[d] = s.ino[d]
  BY Making
<1>2. \A j : /\ Held(t[p], j) = (IF j = d THEN 1 ELSE 0) + (IF j = i THEN 1 ELSE 0)
             /\ Locking(t[p], j) <=> j = d
             /\ Live(t[p], j) <=> j = d \/ j = i
             /\ ~Pends(t[p], j)
  BY Making
<1>3. /\ c.pc = "opened" /\ c.ip = i /\ c.kind = t[p].kind /\ c.phase = "put" /\ Len(c.puts) <= 1
      /\ \A j : PutAt(c, j, 1) <=> j = d /\ d # Root
      /\ \A j : ~PutAt(c, j, 2)
      /\ Goes(p, c)
  <2>1. "opened" \in Labels /\ To(p, "opened", <<d>>) /\ d \in Inum /\ Types
    BY <1>1 DEF Labels, FilesInv
  <2> HIDE DEF d
  <2> QED
    BY <1>1, <2>1, MovedOne
<1> HIDE DEF c
<1>4. \A j : /\ Held(c, j) = (IF j = d /\ d # Root THEN 1 ELSE 0) + (IF j = i THEN 1 ELSE 0)
             /\ Locking(c, j) <=> j = i
             /\ Live(c, j) <=> (j = d /\ d # Root) \/ j = i
             /\ ~Pends(c, j)
  BY <1>1, <1>3 DEF Held, Live, Locking, Pends, HasDp, HasIp, One
<1>5. Place(c)
  <2>1. Len(c.puts) <= 2 /\ (c.puts = <<>> => c.phase = "put")
    BY <1>3
  <2> QED
    BY <1>1, <1>3, <2>1 DEF Place, HasDp, HasIp
<1> HIDE DEF i, d, n
<1>6. more \in Nat
  OBVIOUS
<1>7. Named(z, p, d, n, i)
  BY DEF i, d, n
<1>9. s.ents[d][n] = 0
  BY <1>7 DEF Named
<1>13. /\ s' \in Fs /\ s'.ents = [s.ents EXCEPT ![d][n] = i] /\ s'.ref = s.ref /\ Disk(s')
  BY <1>7 DEF Named
<1>14. \A k \in Inum : s'.lock[k] = IF k = d THEN Nobody ELSE IF k = i THEN p ELSE s.lock[k]
  BY <1>7 DEF Named
<1>15. \A k \in Inum : s'.valid[k] <=> s.valid[k] \/ k = i
  BY <1>7 DEF Named
<1>16. /\ \A k \in Inum : k # d /\ k # i => s'.ino[k] = s.ino[k] /\ s'.ic[k] = s.ic[k]
       /\ s'.ino[i].type = s.ino[i].type /\ s'.ino[i].nlink = 1 /\ s'.ic[i] = s'.ino[i]
       /\ s'.ino[d].type = s.ino[d].type /\ s'.ic[d] = s'.ino[d]
       /\ s'.ino[d].nlink = s.ino[d].nlink + more
  BY <1>7 DEF Named
<1> HIDE DEF more
<1>17. \A k \in Inum : s'.ino[k].type = s.ino[k].type
  BY <1>1, <1>16
<1>18. LockMoves(p, c)
  <2>1. p # Nobody
    BY Bounds
  <2>2. \A k \in Inum : s.lock[k] = p => k = d
    BY <1>2 DEF FilesInv, Locks
  <2> QED
    BY <1>1, <1>4, <1>14, <2>1, <2>2 DEF LockMoves
<1>19. RefMoves(p, c)
  BY <1>1, <1>2, <1>4, <1>13 DEF RefMoves
<1>20. LiveMoves(p, c)
  BY <1>2, <1>4 DEF LiveMoves
<1>21. AllocatedTo(s', c)
  BY <1>1, <1>3, <1>4, <1>17 DEF AllocatedTo
<1>22. ASSUME NEW k \in Inum
       PROVE  /\ s'.ino[k].type = s.ino[k].type
              /\ s'.ino[k].nlink = s.ino[k].nlink \/ Live(t[p], k)
              /\ s'.valid[k] => \/ s.valid[k] /\ s'.ic[k] = s.ic[k] /\ s'.ino[k] = s.ino[k]
                                \/ s'.ic[k] = s'.ino[k] /\ s'.ino[k].type # "none"
              /\ s'.lock[k] # Nobody => s'.valid[k]
  <2>1. s.lock[k] # Nobody => s.valid[k]
    BY LockedCopies
  <2>2. s'.valid[k] <=> s.valid[k] \/ k = i
    BY <1>15
  <2>3. s'.lock[k] = IF k = d THEN Nobody ELSE IF k = i THEN p ELSE s.lock[k]
    BY <1>14
  <2>4. CASE k = i
    BY <1>1, <1>2, <1>16, <2>1, <2>2, <2>3, <2>4
  <2>5. CASE k = d
    BY <1>1, <1>2, <1>16, <2>1, <2>2, <2>3, <2>5
  <2>6. CASE k # d /\ k # i
    BY <1>16, <2>1, <2>2, <2>3, <2>6
  <2> QED
    BY <2>4, <2>5, <2>6
<1>23. EntMoves(p)
  <2>1. \A e \in Inum, m \in Name : s'.ents[e][m] = IF e = d /\ m = n THEN i ELSE s.ents[e][m]
    <3>1. s.ents \in [Inum -> [Name -> 0 .. NINODES]]
      BY DEF FilesInv, Types, Fs
    <3> QED
      BY <1>1, <1>13, <3>1
  <2> QED
    BY <1>1, <1>17, <2>1 DEF EntMoves
<1>24. Links'
  <2>1. i # 0 /\ i \in 0 .. NINODES
    BY <1>1, Bounds
  <2>2. ASSUME NEW k \in Inum
        PROVE  s'.ino[k].nlink - s.ino[k].nlink
                 >= (IF i = k THEN 1 ELSE 0) - (IF s.ents[d][n] = k THEN 1 ELSE 0)
                    + (IF k = d /\ i # 0 /\ s.ino[i].type = "dir" THEN 1 ELSE 0)
                    - (IF k = d /\ s.ents[d][n] # 0 /\ s.ino[s.ents[d][n]].type = "dir"
                       THEN 1 ELSE 0)
                    + (IF Pends(c, k) THEN 1 ELSE 0) - (IF Pends(t[p], k) THEN 1 ELSE 0)
    <3>1. s.ino[k].nlink \in Nat /\ k # 0
      BY PartTypes, Bounds DEF FilesInv
    <3>2. ~Pends(c, k) /\ ~Pends(t[p], k)
      BY <1>2, <1>4
    <3>3. CASE k = i
      <4>1. s'.ino[k].nlink = 1 /\ s.ino[k].nlink = 0
        BY <1>1, <1>16, <3>3
      <4> QED
        BY <1>1, <1>9, <3>1, <3>2, <3>3, <4>1
    <3>4. CASE k = d
      <4>1. s'.ino[k].nlink = s.ino[k].nlink + IF s.ino[i].type = "dir" THEN 1 ELSE 0
        BY <1>16, <3>4 DEF more
      <4> QED
        BY <1>1, <1>9, <3>1, <3>2, <3>4, <4>1
    <3>5. CASE k # d /\ k # i
      <4>1. s'.ino[k].nlink = s.ino[k].nlink
        BY <1>16, <3>5
      <4> QED
        BY <1>9, <3>1, <3>2, <3>5, <4>1
    <3> QED
      BY <3>3, <3>4, <3>5
  <2>3. /\ s' \in Fs /\ s.ino[d].type = "dir" /\ s'.ents = [s.ents EXCEPT ![d][n] = i]
        /\ Goes(p, c) /\ d \in Inum /\ n \in Name
    BY <1>1, <1>3, <1>13
  <2> QED
    BY <1>17, <2>1, <2>2, <2>3, LinksEntry
<1>25. t[p].phase # "freed" /\ c.pc # "create_new"
  BY <1>1, <1>3
<1>26. Running /\ Goes(p, c) /\ s' \in Fs /\ Disk(s')
  BY <1>1, <1>3, <1>13
<1> QED
  BY <1>5, <1>18, <1>19, <1>20, <1>21, <1>22, <1>23, <1>24, <1>25, <1>26, WriteKeeps

\* The rest of create().
LEMMA CreateNewKeeps ==
  ASSUME FilesInv, NEW p \in Proc, CreateNew(p)
  PROVE  Kept
<1> DEFINE d == t[p].dp
           i == t[p].ip
           n == Head(t[p].path)
           isdir == t[p].kind = "mkdir"
           x == SetNlink(Ilock(s, p, i), i, 1)
           room == FreeBlock(x) # {}
           dots == IF isdir /\ room THEN Writei(x, i) ELSE x
           y == Dirlink(dots, d, n, i)
           w == IF isdir THEN SetNlink(y, d, y.ic[d].nlink + 1) ELSE y
<1>1. /\ t[p].pc = "create_new" /\ t[p].puts = <<>> /\ Unlocked(i)
      /\ UNCHANGED <<file, ofile, boot>>
  BY DEF CreateNew, At
<1>2. Made(dots, p, i)
  <2>1. t[p].phase = "put" /\ i \in Inum /\ s.ino[i].type # "none" /\ Unlocked(i)
    BY <1>1, Making
  <2>2. isdir \in BOOLEAN
    OBVIOUS
  <2> HIDE DEF i, isdir
  <2> QED
    BY <2>1, <2>2, MadeIs
<1>3. CASE (isdir => room) /\ CanLink(dots, d, n)
  <2>1. s' = Iunlock(w, d) /\ To(p, "opened", <<d>>)
    BY <1>3 DEF CreateNew
  <2>2. /\ d \in Inum /\ n \in Name /\ i \in Inum \ {Root} /\ i # d
        /\ s.ino[d].type = "dir" /\ s.ic[d] = s.ino[d] /\ s.ino[i].type = TypeOf(t[p].kind)
    BY <1>1, Making
  <2>3. isdir \in BOOLEAN /\ (isdir <=> s.ino[i].type = "dir")
    BY <2>2 DEF TypeOf
  <2>4. Named(Iunlock(w, d), p, d, n, i)
    <3> HIDE DEF d, i, n, isdir, dots
    <3> QED
      BY <1>2, <1>3, <2>2, <2>3, NamedIs
  <2> HIDE DEF w
  <2> QED
    BY <1>1, <2>1, <2>4, CreateNewDoneKeeps
<1>4. CASE ~((isdir => room) /\ CanLink(dots, d, n))
  <2>1. s' = Iunlock(SetNlink(dots, i, 0), i) /\ To(p, "bad", <<i>>)
    BY <1>4 DEF CreateNew
  <2> HIDE DEF dots
  <2> QED
    BY <1>1, <1>2, <2>1, CreateNewFailKeeps
<1> QED
  BY <1>3, <1>4

-----------------------------------------------------------------------------
(* sys_open() and the files *)

\* A call locks the inode it has found, and goes on to open it.
LEMMA LocksKeeps ==
  ASSUME FilesInv, NEW p \in Proc, t[p].pc \in {"create_old", "open"}, t[p].puts = <<>>,
         Unlocked(t[p].ip), s' = Ilock(s, p, t[p].ip), To(p, "opened", <<>>),
         UNCHANGED <<file, ofile, boot>>
  PROVE  Kept
<1> DEFINE i == t[p].ip
           y == Ilock(s, p, i)
           c == MovedCall(p, "opened", <<>>)
<1>1. /\ Running /\ t[p].phase = "put" /\ \A j : ~PutAt(t[p], j, 1) /\ ~PutAt(t[p], j, 2)
      /\ Place(t[p]) /\ s.ref \in [Inum -> Nat] /\ s.ref[Root] = 0 /\ s.lock \in [Inum -> Owner]
      /\ i \in Inum \ {Root} /\ s.ino[i].type # "none"
      /\ \A j \in Inum : s.lock[j] = p <=> Locking(t[p], j)
  BY Acting DEF HasIp
<1>2. \A j : /\ Held(t[p], j) = IF j = i THEN 1 ELSE 0
             /\ ~Locking(t[p], j) /\ (Live(t[p], j) <=> j = i)
  BY <1>1 DEF Held, Live, Locking, HasDp, HasIp, One
<1>3. /\ c.pc = "opened" /\ c.ip = i /\ c.phase = "put" /\ c.puts = <<>>
      /\ \A j : ~PutAt(c, j, 1) /\ ~PutAt(c, j, 2)
      /\ Goes(p, c)
  <2>1. "opened" \in Labels /\ Types
    BY DEF Labels, FilesInv
  <2> QED
    BY <1>1, <2>1, MovedNone
<1>4. s.lock[i] = Nobody /\ Unlocked(i) /\ s' = y
  BY DEF Unlocked
<1> HIDE DEF c, i
<1>5. \A j : /\ Held(c, j) = IF j = i THEN 1 ELSE 0
             /\ (Locking(c, j) <=> j = i) /\ (Live(c, j) <=> j = i) /\ ~Pends(c, j)
  BY <1>3 DEF Held, Live, Locking, Pends, HasDp, HasIp, One
<1>6. Place(c)
  BY <1>1, <1>3 DEF Place, HasDp, HasIp
<1>7. /\ y \in Fs /\ y.ino = s.ino /\ y.ents = s.ents /\ y.used = s.used /\ y.ref = s.ref
      /\ y.lock = [s.lock EXCEPT ![i] = p] /\ y.valid = [s.valid EXCEPT ![i] = TRUE]
      /\ y.ic = [s.ic EXCEPT ![i] = s.ino[i]]
  <2>1. Unlocked(i) /\ i \in Inum /\ t[p].phase = "put" /\ s.ino[i].type # "none"
    BY <1>1, <1>4
  <2> QED
    BY <2>1, Locked
<1> HIDE DEF y
<1>8. /\ s' \in Fs /\ s'.ino = s.ino /\ s'.ents = s.ents /\ s'.used = s.used /\ s'.ref = s.ref
      /\ s'.lock = [s.lock EXCEPT ![i] = p] /\ s'.valid = [s.valid EXCEPT ![i] = TRUE]
      /\ s'.ic = [s.ic EXCEPT ![i] = s.ino[i]]
  BY <1>4, <1>7
<1>9. LockMoves(p, c)
  BY <1>1, <1>2, <1>4, <1>5, <1>8, Bounds DEF LockMoves
<1>10. RefMoves(p, c)
  BY <1>1, <1>2, <1>5, <1>8 DEF RefMoves
<1>11. LiveMoves(p, c) /\ AllocatedTo(s, c)
  BY <1>1, <1>2, <1>3, <1>5 DEF LiveMoves, AllocatedTo
<1>12. Copies'
  <2>1. \A k \in Inum : s'.valid[k] <=> s.valid[k] \/ k = i
    BY <1>8 DEF FilesInv, Types, Fs
  <2>2. \A k \in Inum : s'.lock[k] # Nobody => s'.valid[k]
    BY <1>1, <1>8, <2>1, LockedCopies
  <2> QED
    BY <1>1, <1>3, <1>8, <2>1, <2>2, LookedCopies
<1>13. c.pc # "create_new"
  BY <1>3
<1> QED
  BY <1>1, <1>3, <1>5, <1>6, <1>8, <1>9, <1>10, <1>11, <1>12, <1>13, LookKeeps

\* A call locks the inode it has found, and gives it back.
LEMMA LookedPutKeeps ==
  ASSUME FilesInv, NEW p \in Proc, t[p].pc \in {"create_old", "open"}, t[p].puts = <<>>,
         Unlocked(t[p].ip), s' = Iunlock(Ilock(s, p, t[p].ip), t[p].ip),
         To(p, "end", <<t[p].ip>>), UNCHANGED <<file, ofile, boot>>
  PROVE  Kept
<1> DEFINE i == t[p].ip
           y == Iunlock(Ilock(s, p, i), i)
<1>1. /\ t[p].phase = "put" /\ \A j : ~PutAt(t[p], j, 1) /\ ~PutAt(t[p], j, 2)
      /\ i \in Inum /\ s.ino[i].type # "none" /\ t[p].pc # "idle"
  BY Acting DEF HasIp
<1>2. /\ \A j \in Inum : j # Root => Held(t[p], j) = IF j = i THEN 1 ELSE 0
      /\ \A j \in Inum : ~Locking(t[p], j)
  BY <1>1 DEF Held, Locking, HasDp, HasIp, One
<1>3. Unlocked(i) /\ s' = y /\ To(p, "end", <<i>>)
  OBVIOUS
<1> HIDE DEF i
<1>4. /\ y \in Fs /\ y.ino = s.ino /\ y.ents = s.ents /\ y.used = s.used
      /\ y.ref = s.ref /\ y.lock = s.lock /\ y.valid = [s.valid EXCEPT ![i] = TRUE]
      /\ y.ic = [s.ic EXCEPT ![i] = s.ino[i]]
  BY <1>1, <1>3, Looked
<1> HIDE DEF y
<1>5. /\ s' \in Fs /\ s'.ino = s.ino /\ s'.ents = s.ents /\ s'.used = s.used
      /\ s'.ref = s.ref /\ s'.lock = s.lock /\ s'.valid = [s.valid EXCEPT ![i] = TRUE]
      /\ s'.ic = [s.ic EXCEPT ![i] = s.ino[i]]
  BY <1>3, <1>4
<1> QED
  BY <1>1, <1>2, <1>3, <1>5, LookedEndKeeps

\* open() of an inode found by its path.
LEMMA OpenLockKeeps ==
  ASSUME FilesInv, NEW p \in Proc, OpenLock(p)
  PROVE  Kept
<1>1. /\ t[p].pc = "open" /\ t[p].puts = <<>> /\ Unlocked(t[p].ip)
      /\ UNCHANGED <<file, ofile, boot>>
  BY DEF OpenLock, At
<1>2. CASE s' = Ilock(s, p, t[p].ip) /\ To(p, "opened", <<>>)
  <2>1. t[p].pc \in {"create_old", "open"} /\ s' = Ilock(s, p, t[p].ip) /\ To(p, "opened", <<>>)
    BY <1>1, <1>2
  <2> QED
    BY <1>1, <2>1, LocksKeeps
<1>3. CASE s' = Iunlock(Ilock(s, p, t[p].ip), t[p].ip) /\ To(p, "end", <<t[p].ip>>)
  BY <1>1, <1>3, LookedPutKeeps
<1> QED
  BY <1>2, <1>3 DEF OpenLock

\* create() of a name that is there: an inode that open() can go on with, or none.
LEMMA CreateOldKeeps ==
  ASSUME FilesInv, NEW p \in Proc, CreateOld(p)
  PROVE  Kept
<1> DEFINE i == t[p].ip
           x == Ilock(s, p, i)
           y == Iunlock(x, i)
<1>1. /\ t[p].pc = "create_old" /\ t[p].puts = <<>> /\ Unlocked(i)
      /\ UNCHANGED <<file, ofile, boot>>
  BY DEF CreateOld, At
<1>2. CASE t[p].kind = "create" /\ x.ic[i].type # "dir"
  <2>1. t[p].pc \in {"create_old", "open"} /\ s' = Ilock(s, p, t[p].ip) /\ To(p, "opened", <<>>)
    BY <1>1, <1>2 DEF CreateOld
  <2> QED
    BY <1>1, <2>1, LocksKeeps
<1>3. CASE ~(t[p].kind = "create" /\ x.ic[i].type # "dir")
  <2>1. s' = y /\ To(p, "end", <<i>>)
    BY <1>3 DEF CreateOld
  <2>2. t[p].pc \in {"create_old", "open"}
    BY <1>1
  <2> QED
    BY <1>1, <2>1, <2>2, LookedPutKeeps
<1> QED
  BY <1>2, <1>3

\* open() fails, or mkdir() and mknod() are done.
LEMMA OpenedEndKeeps ==
  ASSUME FilesInv, NEW p \in Proc, t[p].pc = "opened", t[p].puts = <<>>,
         NEW z, z = Iunlock(s, t[p].ip), s' = z, To(p, "end", <<t[p].ip>>),
         UNCHANGED <<file, ofile, boot>>
  PROVE  Kept
<1> DEFINE i == t[p].ip
<1>1. /\ \A j : ~PutAt(t[p], j, 1) /\ ~PutAt(t[p], j, 2)
      /\ i \in Inum /\ s.ino[i].type # "none" /\ t[p].pc # "idle" /\ s \in Fs
      /\ \A j \in Inum : s.lock[j] = p <=> Locking(t[p], j)
  BY Acting DEF HasIp
<1>2. /\ \A j \in Inum : j # Root => Held(t[p], j) = IF j = i THEN 1 ELSE 0
      /\ \A j \in Inum : Locking(t[p], j) <=> j = i
  BY <1>1 DEF Held, Locking, HasDp, HasIp, One
<1>3. s.lock[i] = p /\ To(p, "end", <<i>>)
  BY <1>1, <1>2
<1>4. /\ z \in Fs /\ z.ino = s.ino /\ z.ents = s.ents /\ z.used = s.used /\ z.ref = s.ref
      /\ z.lock = [s.lock EXCEPT ![i] = Nobody] /\ z.valid = s.valid /\ z.ic = s.ic
  BY <1>1, IunlockIs
<1>5. /\ s' \in Fs /\ s'.ino = s.ino /\ s'.ents = s.ents /\ s'.used = s.used /\ s'.ref = s.ref
      /\ s'.lock = [s.lock EXCEPT ![i] = Nobody] /\ s'.valid = s.valid /\ s'.ic = s.ic
  BY <1>4
<1> HIDE DEF i
<1> QED
  BY <1>1, <1>2, <1>3, <1>5, UnlockEndKeeps

-----------------------------------------------------------------------------
(* Open files *)

\* The processes that have the slot f.
Users(f) == {q \in Proc : ofile[q] = f}

\* They are counted in it.
LEMMA UsersCount ==
  ASSUME FilesInv, NEW f \in File
  PROVE  /\ IsFiniteSet(Users(f)) /\ Cardinality(Users(f)) \in Nat
         /\ file[f].ref = Cardinality(Users(f)) /\ (file[f].ref = 0 => Users(f) = {})
<1>1. Users(f) \in SUBSET Proc
  BY DEF Users
<1>2. IsFiniteSet(Users(f))
  BY <1>1, Bounds, FS_Subset
<1>3. file[f].ref = Cardinality(Users(f))
  BY DEF FilesInv, References, Users
<1> QED
  BY <1>2, <1>3, FS_CardinalityType, FS_EmptySet

\* open() takes the slot f for the inode i, and the descriptor of p.
Opening(p, f, i) ==
  /\ file'  = [file EXCEPT ![f] = [ref |-> 1, ip |-> i]]
  /\ ofile' = [ofile EXCEPT ![p] = f]

\* The slot is one more reference to i, and has one user.
LEMMA OpeningIs ==
  ASSUME FilesInv, NEW p \in Proc, NEW f \in File, NEW i \in Inum,
         file[f].ref = 0, ofile[p] = 0, Opening(p, f, i)
  PROVE  /\ file' \in FileTable /\ ofile' \in [Proc -> 0 .. NFILE]
         /\ file'[f].ref = 1 /\ file'[f].ip = i
         /\ \A g \in File : g # f => file'[g] = file[g]
         /\ Cardinality(FileRefs(i))' = Cardinality(FileRefs(i)) + 1
         /\ \A j \in Inum : j # i => FileRefs(j)' = FileRefs(j)
         /\ \A g \in File : file'[g].ref = Cardinality({q \in Proc : ofile'[q] = g})
<1>1. file \in FileTable /\ ofile \in [Proc -> 0 .. NFILE] /\ i \in 0 .. NINODES
  BY Bounds DEF FilesInv, Types
<1>2. f \in 0 .. NFILE /\ f # 0
  BY DEF File
<1>3. /\ file'[f] = [ref |-> 1, ip |-> i] /\ \A g \in File : g # f => file'[g] = file[g]
      /\ ofile'[p] = f /\ \A q \in Proc : q # p => ofile'[q] = ofile[q]
      /\ file' \in FileTable /\ ofile' \in [Proc -> 0 .. NFILE]
  BY <1>1, <1>2 DEF Opening, FileTable
<1>4. file'[f].ref = 1 /\ file'[f].ip = i
  BY <1>3
<1>5. FileRefs(i)' = FileRefs(i) \union {f} /\ f \notin FileRefs(i)
  BY <1>3, <1>4 DEF FileRefs
<1>6. \A j \in Inum : j # i => FileRefs(j)' = FileRefs(j)
  BY <1>3, <1>4 DEF FileRefs
<1>7. Cardinality(FileRefs(i))' = Cardinality(FileRefs(i)) + 1
  BY <1>5, Finite, FS_AddElement
<1>8. ASSUME NEW g \in File PROVE file'[g].ref = Cardinality({q \in Proc : ofile'[q] = g})
  <2> DEFINE U == {q \in Proc : ofile'[q] = g}
  <2>1. CASE g = f
    <3>1. Users(f) = {}
      BY UsersCount
    <3>2. U = {p}
      BY <1>3, <2>1, <3>1 DEF Users
    <3> QED
      BY <1>4, <2>1, <3>2, FS_Singleton
  <2>2. CASE g # f
    <3>1. U = Users(g)
      BY <1>3, <2>2, Bounds DEF Users
    <3> QED
      BY <1>3, <2>2, <3>1, UsersCount
  <2> QED
    BY <2>1, <2>2
<1> QED
  BY <1>3, <1>4, <1>6, <1>7, <1>8

\* open() succeeds, on the inode that it truncated or left.
LEMMA OpenedFileKeeps ==
  ASSUME FilesInv, NEW p \in Proc, t[p].pc = "opened", t[p].puts = <<>>,
         NEW i \in Inum, i = t[p].ip,
         NEW f \in File, file[f].ref = 0, ofile[p] = 0, Opening(p, f, i),
         NEW w, Wrote(s, w, i), w.ents = s.ents, w.ino[i].nlink = s.ino[i].nlink,
         NEW z, z = Iunlock(w, i), s' = z, To(p, "end", <<>>), boot' = boot
  PROVE  Kept
<1> DEFINE c == EndCall(<<>>)
<1>1. /\ Running /\ t[p].phase = "put" /\ \A j : ~PutAt(t[p], j, 1) /\ ~PutAt(t[p], j, 2)
      /\ i \in Inum \ {Root} /\ s.ino[i].type # "none" /\ s \in Fs
      /\ s.ref \in [Inum -> Nat] /\ s.ref[Root] = 0
      /\ \A j \in Inum : s.lock[j] = p <=> Locking(t[p], j)
  BY Acting DEF HasIp
<1>2. \A j : /\ Held(t[p], j) = IF j = i THEN 1 ELSE 0
             /\ (Locking(t[p], j) <=> j = i) /\ (Live(t[p], j) <=> j = i) /\ ~Pends(t[p], j)
  BY <1>1 DEF Held, Locking, Live, Pends, HasDp, HasIp, One
<1>3. /\ c.pc = "end" /\ c.phase = "put" /\ Place(c) /\ Goes(p, c)
      /\ \A j : Held(c, j) = 0 /\ ~Live(c, j) /\ ~Locking(c, j) /\ ~Pends(c, j)
  BY EndNone
<1>4. /\ w \in Fs /\ w.ref = s.ref /\ w.lock = s.lock /\ w.valid = s.valid /\ w.ents = s.ents
      /\ \A j \in Inum : j # i => w.ino[j] = s.ino[j] /\ w.ic[j] = s.ic[j]
      /\ w.ino[i].type = s.ino[i].type /\ w.ic[i] = w.ino[i] /\ Disk(w)
  BY DEF Wrote
<1>5. /\ z \in Fs /\ z.ino = w.ino /\ z.ents = w.ents /\ z.used = w.used /\ z.ref = w.ref
      /\ z.lock = [w.lock EXCEPT ![i] = Nobody] /\ z.valid = w.valid /\ z.ic = w.ic
  BY <1>1, <1>4, IunlockIs
<1>6. Opening(p, f, i) /\ w.ino[i].nlink = s.ino[i].nlink
  OBVIOUS
<1> HIDE DEF c
<1>7. Disk(z)
  BY <1>4, <1>5, DiskSame
<1>8. /\ s' \in Fs /\ s'.ref = s.ref /\ s'.ents = s.ents /\ s'.valid = s.valid
      /\ s'.lock = [s.lock EXCEPT ![i] = Nobody]
      /\ \A j \in Inum : j # i => s'.ino[j] = s.ino[j] /\ s'.ic[j] = s.ic[j]
      /\ s'.ino[i].type = s.ino[i].type /\ s'.ic[i] = s'.ino[i]
      /\ s'.ino[i].nlink = s.ino[i].nlink
  BY <1>4, <1>5, <1>6
<1>9. Disk(s)'
  <2>1. Disk(s')
    BY <1>7
  <2> QED
    BY <2>1 DEF Disk, Owned, Shaped
<1>10. /\ file' \in FileTable /\ ofile' \in [Proc -> 0 .. NFILE]
       /\ file'[f].ref = 1 /\ file'[f].ip = i
       /\ \A g \in File : g # f => file'[g] = file[g]
       /\ Cardinality(FileRefs(i))' = Cardinality(FileRefs(i)) + 1
       /\ \A j \in Inum : j # i => FileRefs(j)' = FileRefs(j)
       /\ \A g \in File : file'[g].ref = Cardinality({q \in Proc : ofile'[q] = g})
  BY <1>1, <1>6, OpeningIs
<1>11. t \in [Proc -> Calls] /\ t' = [t EXCEPT ![p] = c] /\ c \in Calls
  BY <1>3 DEF Goes, FilesInv, Types
<1>12. Types'
  <2>1. t' \in [Proc -> Calls] /\ boot \in 1 .. NINODES + 1
    BY <1>11 DEF FilesInv, Types
  <2> QED
    BY <1>8, <1>10, <2>1 DEF Types
<1>13. References'
  <2>1. ASSUME NEW j \in Inum, j # Root
        PROVE  s'.ref[j] = Cardinality(CallRefs(j))' + Cardinality(FileRefs(j))'
    <3>1. /\ Cardinality(CallRefs(j)) \in Nat
          /\ Cardinality(CallRefs(j))' = Cardinality(CallRefs(j)) + Held(c, j) - Held(t[p], j)
      BY <1>11, CallRefsMove
    <3>2. s.ref[j] = Cardinality(CallRefs(j)) + Cardinality(FileRefs(j))
      BY <2>1 DEF FilesInv, References
    <3>3. Cardinality(FileRefs(j)) \in Nat /\ s'.ref[j] = s.ref[j]
      BY <1>8, Finite
    <3>4. CASE j = i
      <4>1. Held(c, j) = 0 /\ Held(t[p], j) = 1
        BY <1>2, <1>3, <3>4
      <4>2. Cardinality(FileRefs(j))' = Cardinality(FileRefs(j)) + 1
        BY <1>10, <3>4
      <4> QED
        BY <3>1, <3>2, <3>3, <4>1, <4>2
    <3>5. CASE j # i
      <4>1. Held(c, j) = 0 /\ Held(t[p], j) = 0
        BY <1>2, <1>3, <3>5
      <4>2. Cardinality(FileRefs(j))' = Cardinality(FileRefs(j))
        BY <1>10, <3>5
      <4> QED
        BY <3>1, <3>2, <3>3, <4>1, <4>2
    <3> QED
      BY <3>4, <3>5
  <2>2. s'.ref[Root] = 0
    BY <1>1, <1>8
  <2> QED
    BY <1>10, <2>1, <2>2 DEF References
<1>14. LockMoves(p, c)
  <2>1. /\ \A j \in Inum : s'.lock[j] = IF j = i THEN Nobody ELSE s.lock[j]
        /\ s.lock[i] = p
    BY <1>1, <1>2, <1>8 DEF Fs
  <2> QED
    BY <1>1, <1>2, <1>3, <2>1, Bounds DEF LockMoves
<1>15. Copies'
  <2>1. ASSUME NEW j \in Inum
        PROVE  /\ s'.valid[j] => \/ s.valid[j] /\ s'.ic[j] = s.ic[j] /\ s'.ino[j] = s.ino[j]
                                 \/ s'.ic[j] = s'.ino[j] /\ s'.ino[j].type # "none"
               /\ s'.lock[j] # Nobody => s'.valid[j]
    <3>1. s'.lock[j] # Nobody => s'.valid[j]
      BY <1>8 DEF FilesInv, Copies, Fs
    <3>2. CASE j = i
      BY <1>1, <1>8, <3>1, <3>2
    <3>3. CASE j # i
      BY <1>8, <3>1, <3>3
    <3> QED
      BY <3>2, <3>3
  <2>2. t[p].phase # "freed"
    BY <1>1
  <2> QED
    BY <1>3, <2>1, <2>2, CopiesMove
<1>16. \A j \in Inum : s'.ino[j].type = s.ino[j].type /\ s'.ino[j].nlink = s.ino[j].nlink
  BY <1>8
<1>17. Links'
  <2>1. \A j \in Inum :
          /\ s'.ino[j].type = s.ino[j].type
          /\ s'.ino[j].nlink - s.ino[j].nlink
               >= (IF Pends(c, j) THEN 1 ELSE 0) - (IF Pends(t[p], j) THEN 1 ELSE 0)
    BY <1>2, <1>3, <1>16, PartTypes DEF FilesInv
  <2> QED
    BY <1>3, <1>8, <1>12, <2>1, LinksMove
<1>18. AllocatedTo(s', c) /\ LiveMoves(p, c)
  BY <1>3 DEF AllocatedTo, LiveMoves
<1>19. NewTo(p)'
  <2>1. t'[p].pc = "end"
    BY <1>3, <1>11
  <2> QED
    BY <2>1 DEF NewTo
<1>20. InoMoves(p) /\ EntMoves(p)
  BY <1>8, <1>16 DEF InoMoves, EntMoves
<1>21. FileMoves(p)
  BY <1>10 DEF FileMoves
<1> QED
  BY <1>1, <1>3, <1>9, <1>12, <1>13, <1>14, <1>15, <1>17, <1>18, <1>19, <1>20, <1>21, StepKeeps

\* open(), mkdir() and mknod() with the inode at hand.
LEMMA OpenedKeeps ==
  ASSUME FilesInv, NEW p \in Proc, Opened(p)
  PROVE  Kept
<1> DEFINE i == t[p].ip
           f == Min(FreeSlots)
           w == IF t[p].kind = "create" /\ s.ic[i].type = "file" THEN Itrunc(s, i) ELSE s
<1>1. t[p].pc = "opened" /\ t[p].puts = <<>> /\ boot' = boot
  BY DEF Opened, At
<1>2. CASE s' = Iunlock(s, i) /\ To(p, "end", <<i>>) /\ UNCHANGED <<file, ofile>>
  BY <1>1, <1>2, OpenedEndKeeps
<1>3. CASE /\ FreeSlots # {} /\ FdFree(p)
           /\ s' = Iunlock(w, i) /\ Opening(p, f, i) /\ To(p, "end", <<>>)
  <2>1. s' = Iunlock(w, i) /\ Opening(p, f, i) /\ To(p, "end", <<>>)
    BY <1>3
  <2>2. f \in File /\ file[f].ref = 0 /\ ofile[p] = 0
    <3>1. FreeSlots \in SUBSET Nat /\ FreeSlots # {}
      BY <1>3, Bounds DEF FreeSlots
    <3>2. f \in FreeSlots
      BY <3>1, MinIn
    <3> HIDE DEF f
    <3> QED
      BY <1>3, <3>2 DEF FreeSlots, FdFree
  <2>3. /\ i \in Inum /\ s \in Fs /\ t[p].phase = "put" /\ s.lock[i] = p
        /\ s.ino[i].type # "none"
    BY <1>1, Acting DEF HasIp, Locking
  <2>4. Opens(s, i) /\ Disk(s)
    BY <2>3, LockedOpens DEF FilesInv
  <2>5. s.ic[i] = s.ino[i]
    BY <2>4 DEF Opens
  <2> HIDE DEF f, i
  <2>6. Wrote(s, w, i) /\ w.ents = s.ents /\ w.ino[i].nlink = s.ino[i].nlink
    <3>1. CASE t[p].kind = "create" /\ s.ic[i].type = "file"
      <4>1. s.ino[i].type = "file" /\ w = Itrunc(s, i)
        BY <2>5, <3>1
      <4> HIDE DEF w
      <4>2. /\ Wrote(s, Itrunc(s, i), i)
            /\ Itrunc(s, i).ents = s.ents /\ Itrunc(s, i).ino[i].nlink = s.ino[i].nlink
        BY <2>3, <2>4, <2>5, <4>1, ItruncWrote
      <4> QED
        BY <4>1, <4>2
    <3>2. CASE ~(t[p].kind = "create" /\ s.ic[i].type = "file")
      <4>1. w = s
        BY <3>2
      <4> HIDE DEF w
      <4> QED
        BY <2>3, <2>4, <2>5, <4>1 DEF Wrote
    <3> QED
      BY <3>1, <3>2
  <2> HIDE DEF w
  <2>7. i = t[p].ip
    BY DEF i
  <2>8. s' = Iunlock(w, i) /\ Opening(p, f, i) /\ To(p, "end", <<>>)
    BY <2>1
  <2> QED
    BY <1>1, <2>2, <2>3, <2>6, <2>7, <2>8, OpenedFileKeeps
<1> QED
  BY <1>2, <1>3 DEF Opened, Opening

\* An open file stands for an allocated inode, which is not the root.
LEMMA FileIs ==
  ASSUME FilesInv, NEW p \in Proc, ofile[p] # 0
  PROVE  /\ ofile[p] \in File /\ file[ofile[p]].ref \in Nat \ {0}
         /\ file[ofile[p]].ref = Cardinality(Users(ofile[p])) /\ p \in Users(ofile[p])
         /\ file[ofile[p]].ip \in Inum \ {Root} /\ s.ino[file[ofile[p]].ip].type # "none"
         /\ ofile[p] \in FileRefs(file[ofile[p]].ip)
<1> DEFINE f == ofile[p]
<1>1. f \in File
  BY PartTypes DEF FilesInv, File
<1>2. p \in Users(f)
  BY DEF Users
<1> HIDE DEF f
<1>3. IsFiniteSet(Users(f)) /\ Cardinality(Users(f)) \in Nat /\ file[f].ref = Cardinality(Users(f))
  BY <1>1, UsersCount
<1>4. Cardinality(Users(f)) # 0
  BY <1>2, <1>3, FS_EmptySet
<1>5. file[f].ref \in Nat \ {0}
  BY <1>3, <1>4
<1>6. file[f].ip \in Inum \ {Root} /\ s.ino[file[f].ip].type # "none"
  BY <1>1, <1>5 DEF FilesInv, Allocated
<1>7. f \in FileRefs(file[f].ip)
  BY <1>1, <1>5 DEF FileRefs
<1> QED
  BY <1>1, <1>2, <1>3, <1>5, <1>6, <1>7 DEF f

\* A process between calls has no inode.
LEMMA IdleIs ==
  ASSUME FilesInv, NEW p \in Proc, t[p].pc = "idle"
  PROVE  /\ t[p].phase = "put" /\ t[p].puts = <<>> /\ Place(t[p]) /\ t[p] \in Calls
         /\ \A j : Held(t[p], j) = 0 /\ ~Live(t[p], j) /\ ~Locking(t[p], j) /\ ~Pends(t[p], j)
<1>1. t[p].puts = <<>>
  BY DEF FilesInv, Places, Place
<1>2. t[p].phase = "put" /\ (\A j : ~PutAt(t[p], j, 1) /\ ~PutAt(t[p], j, 2)) /\ Place(t[p])
      /\ t[p] \in Calls
  BY <1>1, Acting
<1> QED
  BY <1>1, <1>2 DEF Held, Live, Locking, Pends, HasDp, HasIp, One

\* filewrite() adds a block to the file's inode.
LEMMA WritesKeeps ==
  ASSUME FilesInv, NEW p \in Proc, t[p].pc = "idle", ofile[p] # 0,
         NEW i \in Inum \ {Root}, Unlocked(i), s.ino[i].type # "none",
         NEW x, Opens(x, i), Disk(x), NEW y, Wrote(x, y, i), y.ents = x.ents,
         x.lock[i] = p, y.ino[i].nlink = x.ino[i].nlink,
         NEW z, z = Iunlock(y, i), s' = z, UNCHANGED <<file, ofile, t, boot>>
  PROVE  Kept
<1>1. PICK c : c = t[p]
  OBVIOUS
<1>2. /\ c.phase = "put" /\ Place(c) /\ c \in Calls /\ c.pc = "idle"
      /\ \A j : Held(c, j) = 0 /\ ~Live(c, j) /\ ~Locking(c, j) /\ ~Pends(c, j)
  BY <1>1, IdleIs
<1>3. Running
  BY StepsRun
<1>4. t \in [Proc -> Calls] /\ s \in Fs /\ \A j \in Inum : s.lock[j] = p <=> Locking(t[p], j)
  BY DEF FilesInv, Types, Locks
<1>5. t' = t /\ t' = [t EXCEPT ![p] = c]
  BY <1>1, <1>4
<1>6. Goes(p, c)
  BY <1>2, <1>5 DEF Goes
<1>7. /\ x \in Fs /\ x.ino = s.ino /\ x.ents = s.ents /\ x.ref = s.ref
      /\ \A k \in Inum : k # i => /\ x.lock[k] = s.lock[k] /\ x.ic[k] = s.ic[k]
                                  /\ x.valid[k] <=> s.valid[k]
      /\ x.valid[i] /\ x.ic[i] = x.ino[i]
  BY DEF Opens
<1>8. /\ y \in Fs /\ y.ref = x.ref /\ y.lock = x.lock /\ y.valid = x.valid
      /\ \A j \in Inum : j # i => y.ino[j] = x.ino[j] /\ y.ic[j] = x.ic[j]
      /\ y.ino[i].type = x.ino[i].type /\ y.ic[i] = y.ino[i]
      /\ Disk(y)
  BY DEF Wrote
<1>9. /\ z \in Fs /\ z.ino = y.ino /\ z.ents = y.ents /\ z.used = y.used /\ z.ref = y.ref
      /\ z.lock = [y.lock EXCEPT ![i] = Nobody] /\ z.valid = y.valid /\ z.ic = y.ic
  BY <1>8, IunlockIs
<1>10. Disk(z) /\ Disk(s')
  <2>1. Disk(z)
    BY <1>8, <1>9, DiskSame
  <2> QED
    BY <2>1
<1>11. /\ s' \in Fs /\ s'.ref = s.ref /\ s'.ents = s.ents
       /\ \A j \in Inum : s'.lock[j] = s.lock[j]
       /\ \A j \in Inum : j # i => /\ s'.ino[j] = s.ino[j] /\ s'.ic[j] = s.ic[j]
                                   /\ s'.valid[j] <=> s.valid[j]
       /\ s'.valid[i] /\ s'.ic[i] = s'.ino[i]
       /\ s'.ino[i].type = s.ino[i].type /\ s'.ino[i].nlink = s.ino[i].nlink
  <2>1. /\ s' \in Fs /\ s'.ref = s.ref /\ s'.ents = s.ents
    BY <1>7, <1>8, <1>9
  <2>2. ASSUME NEW j \in Inum PROVE s'.lock[j] = s.lock[j]
    <3>1. s.lock[i] = Nobody /\ y.lock \in [Inum -> Owner]
      BY <1>8 DEF Unlocked, Fs
    <3> QED
      BY <1>7, <1>8, <1>9, <3>1
  <2>3. \A j \in Inum : j # i => /\ s'.ino[j] = s.ino[j] /\ s'.ic[j] = s.ic[j]
                                 /\ s'.valid[j] <=> s.valid[j]
    BY <1>7, <1>8, <1>9
  <2>4. /\ s'.valid[i] /\ s'.ic[i] = s'.ino[i]
        /\ s'.ino[i].type = s.ino[i].type /\ s'.ino[i].nlink = s.ino[i].nlink
    BY <1>7, <1>8, <1>9
  <2> QED
    BY <2>1, <2>2, <2>3, <2>4
<1>12. \A j \in Inum : s'.ino[j].type = s.ino[j].type /\ s'.ino[j].nlink = s.ino[j].nlink
  BY <1>11
<1>13. LockMoves(p, c)
  BY <1>1, <1>2, <1>4, <1>11 DEF LockMoves
<1>14. RefMoves(p, c)
  <2>1. s.ref[Root] = 0 /\ \A j \in Inum : s.ref[j] \in Nat
    BY PartTypes DEF FilesInv, References
  <2> QED
    BY <1>1, <1>2, <1>11, <2>1 DEF RefMoves
<1>15. LiveMoves(p, c) /\ AllocatedTo(s', c) /\ EntMoves(p)
  BY <1>2, <1>11 DEF LiveMoves, AllocatedTo, EntMoves
<1>16. Types'
  <2>1. UNCHANGED <<file, ofile, boot>>
    OBVIOUS
  <2> QED
    BY <1>6, <1>11, <2>1, TypesMove
<1>17. Links'
  <2>1. \A j \in Inum :
          /\ s'.ino[j].type = s.ino[j].type
          /\ s'.ino[j].nlink - s.ino[j].nlink
               >= (IF Pends(c, j) THEN 1 ELSE 0) - (IF Pends(t[p], j) THEN 1 ELSE 0)
    BY <1>1, <1>2, <1>12, PartTypes DEF FilesInv
  <2> QED
    BY <1>6, <1>11, <1>16, <2>1, LinksMove
<1>18. \A j \in Inum :
         /\ s'.ino[j].type = s.ino[j].type
         /\ s'.ino[j].nlink = s.ino[j].nlink \/ Live(t[p], j)
         /\ s'.valid[j] => \/ s.valid[j] /\ s'.ic[j] = s.ic[j] /\ s'.ino[j] = s.ino[j]
                           \/ s'.ic[j] = s'.ino[j] /\ s'.ino[j].type # "none"
         /\ s'.lock[j] # Nobody => s'.valid[j]
  <2>1. ASSUME NEW j \in Inum
        PROVE /\ s'.valid[j] => \/ s.valid[j] /\ s'.ic[j] = s.ic[j] /\ s'.ino[j] = s.ino[j]
                                \/ s'.ic[j] = s'.ino[j] /\ s'.ino[j].type # "none"
              /\ s'.lock[j] # Nobody => s'.valid[j]
    <3>1. s.lock[j] # Nobody => s.valid[j]
      BY DEF FilesInv, Copies
    <3>2. CASE j = i
      BY <1>11, <3>2
    <3>3. CASE j # i
      BY <1>11, <3>1, <3>3
    <3> QED
      BY <3>2, <3>3
  <2> QED
    BY <1>12, <2>1
<1>19. UNCHANGED <<file, ofile, boot>> /\ t[p].phase # "freed" /\ c.pc # "create_new"
  BY <1>1, <1>2
<1> QED
  BY <1>2, <1>3, <1>6, <1>10, <1>11, <1>13, <1>14, <1>15, <1>17, <1>18, <1>19, WriteKeeps

\* A chunk of filewrite().
LEMMA WriteFileKeeps ==
  ASSUME FilesInv, NEW p \in Proc, Write(p)
  PROVE  Kept
<1> DEFINE i == file[ofile[p]].ip
           x == Ilock(s, p, i)
           y == Writei(x, i)
           z == Iunlock(y, i)
<1>1. /\ t[p].pc = "idle" /\ ofile[p] # 0 /\ Unlocked(i) /\ FreeBlock(x) # {} /\ s' = z
      /\ UNCHANGED <<file, ofile, t, boot>>
  BY DEF Write, HasFile
<1>2. i \in Inum \ {Root} /\ s.ino[i].type # "none"
  BY <1>1, FileIs
<1>3. t[p].phase = "put" /\ s \in Fs /\ Disk(s)
  BY <1>1, IdleIs DEF FilesInv, Types
<1> HIDE DEF i
<1>4. /\ x \in Fs /\ x.ino = s.ino /\ x.ents = s.ents /\ x.used = s.used
      /\ x.lock = [s.lock EXCEPT ![i] = p] /\ x.ic[i] = s.ino[i]
  BY <1>1, <1>2, <1>3, Locked
<1>5. Opens(x, i)
  BY <1>1, <1>2, <1>3, IlockOpens
<1> HIDE DEF x
<1>6. x.lock[i] = p /\ Disk(x)
  <2>1. Disk(x)
    BY <1>3, <1>4, DiskSame
  <2>2. s.lock \in [Inum -> Owner]
    BY <1>3 DEF Fs
  <2> QED
    BY <1>2, <1>4, <2>1, <2>2
<1>7. Wrote(x, y, i) /\ y.ents = x.ents /\ y.ino[i].nlink = x.ino[i].nlink
  <2>1. x.ic[i] = x.ino[i] /\ x.ino[i].type # "none" /\ i \in Inum
    BY <1>2, <1>4
  <2> QED
    BY <1>1, <1>4, <1>6, <2>1, WriteiWrote
<1> HIDE DEF y
<1>8. z = Iunlock(y, i)
  OBVIOUS
<1> HIDE DEF z
<1> QED
  BY <1>1, <1>2, <1>5, <1>6, <1>7, <1>8, WritesKeeps

\* Steps of a process between calls that only change the open files: what it comes to
\* have it had as a file.
LEMMA TableKeeps ==
  ASSUME FilesInv, NEW p \in Proc, NEW c, Goes(p, c), t[p].pc = "idle", ofile[p] # 0,
         UNCHANGED <<s, boot>>, file' \in FileTable, ofile' \in [Proc -> 0 .. NFILE], References',
         \A f \in File : file'[f].ref > 0 => file[f].ref > 0 /\ file'[f].ip = file[f].ip,
         c.pc \in {"idle", "close"}, Place(c),
         \A j \in Inum : ~Locking(c, j) /\ ~Pends(c, j) /\ (Live(c, j) => FileRefs(j) # {})
  PROVE  Kept
<1>1. /\ t[p].phase = "put" /\ \A j : ~Live(t[p], j) /\ ~Locking(t[p], j) /\ ~Pends(t[p], j)
  BY IdleIs
<1>2. Running
  BY StepsRun
<1>3. t \in [Proc -> Calls] /\ t' = [t EXCEPT ![p] = c] /\ c \in Calls /\ s \in Fs
      /\ boot \in 1 .. NINODES + 1 /\ \A j \in Inum : s.lock[j] = p <=> Locking(t[p], j)
  BY DEF Goes, FilesInv, Types, Locks
<1>4. Types'
  <2>1. t' \in [Proc -> Calls]
    BY <1>3
  <2> QED
    BY <1>3, <2>1 DEF Types
<1>5. LockMoves(p, c)
  BY <1>1, <1>3 DEF LockMoves
<1>6. Copies'
  <2>1. \A i \in Inum :
           /\ s'.valid[i] => \/ s.valid[i] /\ s'.ic[i] = s.ic[i] /\ s'.ino[i] = s.ino[i]
                             \/ s'.ic[i] = s'.ino[i] /\ s'.ino[i].type # "none"
           /\ s'.lock[i] # Nobody => s'.valid[i]
    BY DEF FilesInv, Copies
  <2> QED
    BY <1>1, <2>1, CopiesMove
<1>7. Disk(s)'
  BY DEF FilesInv, Disk, Owned, Shaped
<1>8. Links'
  <2>1. \A i \in Inum :
          /\ s'.ino[i].type = s.ino[i].type
          /\ s'.ino[i].nlink - s.ino[i].nlink
               >= (IF Pends(c, i) THEN 1 ELSE 0) - (IF Pends(t[p], i) THEN 1 ELSE 0)
    BY <1>1, PartTypes DEF FilesInv
  <2>2. s'.ents = s.ents
    OBVIOUS
  <2> QED
    BY <1>4, <2>1, <2>2, LinksMove
<1>9. ASSUME NEW j \in Inum, FileRefs(j) # {} PROVE s.ino[j].type # "none"
  BY <1>9 DEF FileRefs, FilesInv, Allocated
<1>10. AllocatedTo(s', c)
  <2>1. \A j \in Inum : Live(c, j) => s.ino[j].type # "none"
    BY <1>9
  <2> QED
    BY <2>1 DEF AllocatedTo
<1>11. NewTo(p)'
  <2>1. t'[p].pc # "create_new"
    BY <1>3
  <2> QED
    BY <2>1 DEF NewTo
<1>12. LiveMoves(p, c)
  BY DEF LiveMoves
<1>13. FileMoves(p) /\ InoMoves(p) /\ EntMoves(p)
  BY DEF FileMoves, InoMoves, EntMoves
<1>14. boot' = boot
  OBVIOUS
<1> QED
  BY <1>2, <1>4, <1>5, <1>6, <1>7, <1>8, <1>10, <1>11, <1>12, <1>13, <1>14, StepKeeps

\* kfork() counts one more user of the slot, and no reference to an inode.
LEMMA SharesIs ==
  ASSUME FilesInv, NEW p \in Proc, NEW q \in Proc, Share(p, q)
  PROVE  /\ file' \in FileTable /\ ofile' \in [Proc -> 0 .. NFILE] /\ References'
         /\ \A f \in File : file'[f].ref > 0 => file[f].ref > 0 /\ file'[f].ip = file[f].ip
<1>1. PICK f : f = ofile[p]
  OBVIOUS
<1>2. /\ ofile[p] # 0 /\ ofile[q] = 0 /\ t' = t /\ s' = s
      /\ file' = [file EXCEPT ![f].ref = @ + 1] /\ ofile' = [ofile EXCEPT ![q] = f]
  BY <1>1 DEF Share, HasFile, FdFree
<1>3. f \in File /\ file[f].ref \in Nat \ {0}
  BY <1>1, <1>2, FileIs
<1>4. file \in FileTable /\ ofile \in [Proc -> 0 .. NFILE] /\ f \in 0 .. NFILE /\ f # 0
  BY <1>3 DEF FilesInv, Types, File
<1>5. /\ file'[f].ref = file[f].ref + 1 /\ file'[f].ip = file[f].ip
      /\ \A g \in File : g # f => file'[g] = file[g]
      /\ file' \in FileTable
  BY <1>2, <1>3, <1>4 DEF FileTable
<1>6. /\ ofile'[q] = f /\ \A r \in Proc : r # q => ofile'[r] = ofile[r]
      /\ ofile' \in [Proc -> 0 .. NFILE]
  BY <1>2, <1>4
<1>7. \A g \in File : file'[g].ref > 0 => file[g].ref > 0 /\ file'[g].ip = file[g].ip
  BY <1>3, <1>5
<1>8. ASSUME NEW i \in Inum PROVE FileRefs(i)' = FileRefs(i) /\ CallRefs(i)' = CallRefs(i)
  <2>1. \A g \in File : file'[g].ref > 0 /\ file'[g].ip = i <=> file[g].ref > 0 /\ file[g].ip = i
    BY <1>3, <1>5
  <2>2. CallRefs(i)' = CallRefs(i)
    BY <1>2 DEF CallRefs, Held, HasDp, HasIp, PutAt, One
  <2> QED
    BY <2>1, <2>2 DEF FileRefs
<1>9. ASSUME NEW g \in File PROVE file'[g].ref = Cardinality({r \in Proc : ofile'[r] = g})
  <2> DEFINE U == {r \in Proc : ofile'[r] = g}
  <2>1. IsFiniteSet(Users(g)) /\ Cardinality(Users(g)) \in Nat
        /\ file[g].ref = Cardinality(Users(g))
    BY UsersCount
  <2>2. CASE g = f
    <3>1. U = Users(g) \union {q} /\ q \notin Users(g)
      BY <1>2, <1>4, <1>6, <2>2 DEF Users
    <3>2. Cardinality(U) = Cardinality(Users(g)) + 1
      BY <2>1, <3>1, FS_AddElement
    <3> QED
      BY <1>5, <2>1, <2>2, <3>2
  <2>3. CASE g # f
    <3>1. U = Users(g)
      BY <1>2, <1>6, <2>3, Bounds DEF Users
    <3> QED
      BY <1>5, <2>1, <2>3, <3>1
  <2> QED
    BY <2>2, <2>3
<1>10. References'
  BY <1>2, <1>8, <1>9 DEF FilesInv, References
<1> QED
  BY <1>5, <1>6, <1>7, <1>10

\* kfork() gives away files.
LEMMA ShareKeeps ==
  ASSUME FilesInv, NEW p \in Proc, NEW q \in Proc, Share(p, q)
  PROVE  Kept
<1>1. /\ t[p].pc = "idle" /\ ofile[p] # 0 /\ t' = t /\ UNCHANGED <<s, boot>>
  BY DEF Share, HasFile
<1>2. PICK c : c = t[p]
  OBVIOUS
<1>3. /\ Place(c) /\ c \in Calls /\ c.pc = "idle"
      /\ \A j : ~Live(c, j) /\ ~Locking(c, j) /\ ~Pends(c, j)
  BY <1>1, <1>2, IdleIs
<1>4. t' = [t EXCEPT ![p] = c]
  BY <1>1, <1>2 DEF FilesInv, Types
<1>5. Goes(p, c)
  BY <1>3, <1>4 DEF Goes
<1>6. /\ file' \in FileTable /\ ofile' \in [Proc -> 0 .. NFILE] /\ References'
      /\ \A f \in File : file'[f].ref > 0 => file[f].ref > 0 /\ file'[f].ip = file[f].ip
  BY SharesIs
<1> QED
  BY <1>1, <1>3, <1>5, <1>6, TableKeeps

\* The processes with the slot g when their descriptors are o; p gives its own up.
UsersIn(o, g) == {r \in Proc : o[r] = g}
Drops(o, p)   == o = [ofile EXCEPT ![p] = 0]
\* The users of one slot become one fewer.
LEMMA UsersDrop ==
  ASSUME FilesInv, NEW p \in Proc, NEW f \in File, f = ofile[p],
         NEW o, Drops(o, p), NEW g \in File
  PROVE  Cardinality(UsersIn(o, g))
           = Cardinality(Users(g)) - (IF g = f THEN 1 ELSE 0)
<1> DEFINE U == UsersIn(o, g)
<1>1. /\ o[p] = 0 /\ \A r \in Proc : r # p => o[r] = ofile[r]
  BY DEF Drops, FilesInv, Types
<1>2. 0 \notin File
  BY Bounds
<1>3. IsFiniteSet(Users(g)) /\ Cardinality(Users(g)) \in Nat
  BY UsersCount
<1>4. ASSUME g = f PROVE Cardinality(U) = Cardinality(Users(g)) - 1
  <2>1. U = Users(g) \ {p} /\ p \in Users(g)
    BY <1>1, <1>2, <1>4 DEF Users, UsersIn
  <2> QED
    BY <1>3, <2>1, FS_RemoveElement
<1>5. ASSUME g # f PROVE Cardinality(U) = Cardinality(Users(g))
  <2>1. U = Users(g)
    BY <1>1, <1>2, <1>5 DEF Users, UsersIn
  <2> QED
    BY <2>1
<1> QED
  BY <1>3, <1>4, <1>5

\* The last close of a slot f: p goes on to the call c.
Closing(p, f, i, c) ==
  /\ ofile' = [ofile EXCEPT ![p] = 0] /\ file' = [file EXCEPT ![f] = NoFile]
  /\ t' = [t EXCEPT ![p] = c]
\* The slot leaves its reference to the inode i with that call.
LEMMA LastIs ==
  ASSUME FilesInv, NEW p \in Proc, t[p].pc = "idle", NEW f \in File, f = ofile[p],
         file[f].ref = 1, NEW i \in Inum \ {Root}, i = file[f].ip, NEW c, Closing(p, f, i, c),
         \A j : Held(c, j) = IF j = i THEN 1 ELSE 0, s' = s
  PROVE  /\ file' \in FileTable /\ ofile' \in [Proc -> 0 .. NFILE] /\ References'
         /\ \A g \in File : file'[g].ref > 0 => file[g].ref > 0 /\ file'[g].ip = file[g].ip
<1>1. /\ file \in FileTable /\ ofile \in [Proc -> 0 .. NFILE] /\ t \in [Proc -> Calls]
      /\ 0 \in 0 .. NINODES /\ 0 \in 0 .. NFILE
  BY FilesAssumption DEF FilesInv, Types
<1>2. /\ file'[f].ref = 0 /\ \A g \in File : g # f => file'[g] = file[g]
      /\ file' \in FileTable
  <2>1. file' = [file EXCEPT ![f] = NoFile]
    BY DEF Closing
  <2> QED
    BY <1>1, <2>1 DEF FileTable, NoFile
<1>3. Drops(ofile', p) /\ ofile' \in [Proc -> 0 .. NFILE]
  BY <1>1 DEF Closing, Drops
<1>4. \A g \in File : file'[g].ref > 0 => file[g].ref > 0 /\ file'[g].ip = file[g].ip
  BY <1>2
<1>5. ASSUME NEW g \in File PROVE file'[g].ref = Cardinality({r \in Proc : ofile'[r] = g})
  <2>1. Cardinality(UsersIn(ofile', g))
          = Cardinality(Users(g)) - (IF g = f THEN 1 ELSE 0)
    BY <1>3, UsersDrop
  <2>2. file[g].ref = Cardinality(Users(g)) /\ Cardinality(Users(g)) \in Nat
    BY UsersCount
  <2> QED
    BY <1>2, <2>1, <2>2 DEF UsersIn
<1>6. ASSUME NEW j \in Inum, j # Root
      PROVE  s'.ref[j] = Cardinality(CallRefs(j))' + Cardinality(FileRefs(j))'
  <2>1. t' = [t EXCEPT ![p] = c]
    BY DEF Closing
  <2>2. /\ Cardinality(CallRefs(j)) \in Nat
        /\ Cardinality(CallRefs(j))' = Cardinality(CallRefs(j)) + Held(c, j) - Held(t[p], j)
    <3>1. t \in [Proc -> Calls]
      BY <1>1
    <3> QED
      BY <2>1, <3>1, CallRefsMove
  <2>3. s.ref[j] = Cardinality(CallRefs(j)) + Cardinality(FileRefs(j))
    BY <1>6 DEF FilesInv, References
  <2>4. Held(t[p], j) = 0
    BY IdleIs
  <2>5. IsFiniteSet(FileRefs(j)) /\ Cardinality(FileRefs(j)) \in Nat
    BY Finite
  <2>6. CASE j = i
    <3>1. FileRefs(j)' = FileRefs(j) \ {f} /\ f \in FileRefs(j)
      BY <1>2, <2>6 DEF FileRefs
    <3>2. Cardinality(FileRefs(j) \ {f}) = Cardinality(FileRefs(j)) - 1
      BY <2>5, <3>1, FS_RemoveElement
    <3>3. Cardinality(FileRefs(j))' = Cardinality(FileRefs(j)) - 1
      BY <3>1, <3>2
    <3>4. Held(c, j) = 1
      BY <2>6
    <3> QED
      BY <2>2, <2>3, <2>4, <2>5, <3>3, <3>4
  <2>7. CASE j # i
    <3>1. FileRefs(j)' = FileRefs(j)
      BY <1>2, <2>7 DEF FileRefs
    <3>2. Held(c, j) = 0
      BY <2>7
    <3> QED
      BY <2>2, <2>3, <2>4, <2>5, <3>1, <3>2
  <2> QED
    BY <2>6, <2>7
<1>7. References'
  <2>1. s'.ref[Root] = 0
    BY DEF FilesInv, References
  <2> QED
    BY <1>5, <1>6, <2>1 DEF References
<1> QED
  BY <1>2, <1>3, <1>4, <1>7

\* The close of a slot that others have too takes one user off it.
LEMMA NotLastIs ==
  ASSUME FilesInv, NEW p \in Proc, NEW f \in File, f = ofile[p], Close(p),
         file[f].ref \notin {0, 1}
  PROVE  /\ file' \in FileTable /\ ofile' \in [Proc -> 0 .. NFILE] /\ References'
         /\ \A g \in File : file'[g].ref > 0 => file[g].ref > 0 /\ file'[g].ip = file[g].ip
<1>1. /\ ofile[p] # 0 /\ file[f].ref \in Nat /\ file[f].ref > 1
  <2>1. ofile[p] # 0
    BY DEF Close, HasFile
  <2>2. file[f].ref \in Nat \ {0}
    BY <2>1, FileIs
  <2> QED
    BY <2>1, <2>2
<1>2. /\ t' = t /\ s' = s /\ ofile' = [ofile EXCEPT ![p] = 0]
      /\ file' = [file EXCEPT ![f].ref = @ - 1]
  <2>1. /\ t' = t /\ s' = s /\ file' = Fileclose(f) /\ ofile' = [ofile EXCEPT ![p] = 0]
    BY <1>1 DEF Close
  <2> QED
    BY <1>1, <2>1 DEF Fileclose
<1>3. Drops(ofile', p)
  BY <1>2 DEF Drops
<1>4. file \in FileTable /\ ofile \in [Proc -> 0 .. NFILE] /\ 0 \in 0 .. NFILE
  BY FilesAssumption DEF FilesInv, Types
<1>5. /\ file'[f].ref = file[f].ref - 1 /\ file'[f].ip = file[f].ip
      /\ \A g \in File : g # f => file'[g] = file[g]
      /\ file' \in FileTable
  <2>1. file[f].ref - 1 \in Nat
    BY <1>1
  <2> QED
    BY <1>2, <1>4, <2>1 DEF FileTable
<1>6. ofile' \in [Proc -> 0 .. NFILE]
  BY <1>2, <1>4
<1>7. \A g \in File : file'[g].ref > 0 => file[g].ref > 0 /\ file'[g].ip = file[g].ip
  BY <1>1, <1>5
<1>8. ASSUME NEW i \in Inum PROVE FileRefs(i)' = FileRefs(i) /\ CallRefs(i)' = CallRefs(i)
  <2>1. \A g \in File : file'[g].ref > 0 /\ file'[g].ip = i <=> file[g].ref > 0 /\ file[g].ip = i
    BY <1>1, <1>5
  <2>2. CallRefs(i)' = CallRefs(i)
    BY <1>2 DEF CallRefs, Held, HasDp, HasIp, PutAt, One
  <2> QED
    BY <2>1, <2>2 DEF FileRefs
<1>9. ASSUME NEW g \in File PROVE file'[g].ref = Cardinality({r \in Proc : ofile'[r] = g})
  <2>1. Cardinality(UsersIn(ofile', g))
          = Cardinality(Users(g)) - (IF g = f THEN 1 ELSE 0)
    BY <1>3, <1>6, UsersDrop
  <2>2. file[g].ref = Cardinality(Users(g)) /\ Cardinality(Users(g)) \in Nat
    BY UsersCount
  <2> QED
    BY <1>5, <2>1, <2>2 DEF UsersIn
<1>10. References'
  BY <1>2, <1>8, <1>9 DEF FilesInv, References
<1> QED
  BY <1>5, <1>6, <1>7, <1>10

\* fileclose(), its first half.
LEMMA CloseKeeps ==
  ASSUME FilesInv, NEW p \in Proc, Close(p)
  PROVE  Kept
<1>1. t[p].pc = "idle" /\ ofile[p] # 0 /\ UNCHANGED <<s, boot>> /\ s' = s
  BY DEF Close, HasFile
<1>2. PICK f : f = ofile[p]
  OBVIOUS
<1>3. PICK i : i = file[f].ip
  OBVIOUS
<1>4. /\ f \in File /\ file[f].ref \in Nat \ {0} /\ i \in Inum \ {Root} /\ f \in FileRefs(i)
  BY <1>1, <1>2, <1>3, FileIs
<1>5. /\ t[p].phase = "put" /\ t[p].puts = <<>> /\ Place(t[p]) /\ t[p] \in Calls
      /\ \A j : ~Live(t[p], j) /\ ~Locking(t[p], j) /\ ~Pends(t[p], j)
  BY <1>1, IdleIs
<1>6. t \in [Proc -> Calls]
  BY DEF FilesInv, Types
<1>7. CASE file[f].ref > 1
  <2>1. PICK c : c = t[p]
    OBVIOUS
  <2>2. t' = t
    BY <1>2, <1>7 DEF Close
  <2>3. Goes(p, c)
    BY <1>5, <1>6, <2>1, <2>2 DEF Goes
  <2>4. /\ file' \in FileTable /\ ofile' \in [Proc -> 0 .. NFILE] /\ References'
        /\ \A g \in File : file'[g].ref > 0 => file[g].ref > 0 /\ file'[g].ip = file[g].ip
    <3>1. file[f].ref \notin {0, 1}
      BY <1>7
    <3> QED
      BY <1>2, <1>4, <3>1, NotLastIs
  <2> QED
    BY <1>1, <1>5, <2>1, <2>3, <2>4, TableKeeps
<1>8. CASE ~(file[f].ref > 1)
  <2>1. file[f].ref = 1
    BY <1>4, <1>8
  <2>2. PICK c : c = [t[p] EXCEPT !.pc = "close", !.ip = i]
    OBVIOUS
  <2>3. i \in 0 .. NINODES /\ "close" \in Labels
    BY <1>4, Bounds DEF Labels
  <2>4. /\ c \in Calls /\ c.pc = "close" /\ c.ip = i /\ c.puts = <<>> /\ c.phase = "put"
    BY <1>5, <2>2, <2>3 DEF Calls
  <2>5. Closing(p, f, i, c)
    BY <1>2, <1>3, <1>8, <2>2 DEF Closing, Close, Fileclose
  <2>6. Goes(p, c)
    BY <2>4, <2>5 DEF Goes, Closing
  <2>7. \A j : ~PutAt(c, j, 1) /\ ~PutAt(c, j, 2)
    BY <2>4, PutNone
  <2>8. \A j : /\ Held(c, j) = IF j = i THEN 1 ELSE 0
               /\ ~Locking(c, j) /\ ~Pends(c, j) /\ (Live(c, j) <=> j = i)
    BY <2>4, <2>7 DEF Held, Live, Locking, Pends, HasDp, HasIp, One
  <2>9. Place(c)
    BY <1>4, <2>4, <2>7 DEF Place, HasDp, HasIp
  <2>10. /\ file' \in FileTable /\ ofile' \in [Proc -> 0 .. NFILE] /\ References'
         /\ \A g \in File : file'[g].ref > 0 => file[g].ref > 0 /\ file'[g].ip = file[g].ip
    BY <1>1, <1>2, <1>3, <1>4, <2>1, <2>5, <2>8, LastIs
  <2>11. \A j \in Inum : ~Locking(c, j) /\ ~Pends(c, j) /\ (Live(c, j) => FileRefs(j) # {})
    BY <1>4, <2>8
  <2> QED
    BY <1>1, <2>4, <2>6, <2>9, <2>10, <2>11, TableKeeps
<1> QED
  BY <1>7, <1>8

-----------------------------------------------------------------------------
(* Power-up *)

\* The file system of a disk without calls, open files or references: the state of
\* Init, of a crash and of every step of ireclaim().
LinkedAlone == \A i \in Inum : s.ino[i].nlink >= Cardinality(Entries(i)) + Cardinality(Subs(i))
                                                + One(i = Root)
NamesThere  == \A d \in Inum, n \in Name : s.ents[d][n] # 0 => s.ino[s.ents[d][n]].type # "none"
Booted ==
  /\ s \in Fs /\ t = [p \in Proc |-> Quiet] /\ ofile = [p \in Proc |-> 0]
  /\ file = [f \in File |-> NoFile] /\ boot \in 1 .. NINODES + 1
  /\ \A i \in Inum : s.ref[i] = 0 /\ ~s.valid[i] /\ s.lock[i] = Nobody
  /\ Disk(s) /\ NamesThere /\ LinkedAlone
  /\ \A i \in Inum : i < boot => ~Orphaned(i)

\* A quiet call has nothing.
LEMMA QuietIs ==
  /\ Quiet \in Calls /\ Quiet.pc = "idle" /\ Quiet.phase = "put" /\ Place(Quiet)
  /\ \A i : Held(Quiet, i) = 0 /\ ~Live(Quiet, i) /\ ~Locking(Quiet, i) /\ ~Pends(Quiet, i)
  /\ \A i : ~PutAt(Quiet, i, 1) /\ ~PutAt(Quiet, i, 2)
<1>1. /\ Quiet.pc = "idle" /\ Quiet.kind = "none" /\ Quiet.path = <<>> /\ Quiet.new = <<>>
      /\ Quiet.dp = 0 /\ Quiet.ip = 0 /\ Quiet.puts = <<>> /\ Quiet.phase = "put"
  BY DEF Quiet
<1>2. Quiet \in Calls
  <2>1. /\ "idle" \in Labels /\ "none" \in Kinds /\ 0 \in 0 .. NINODES
        /\ <<>> \in Seq(Name) /\ <<>> \in Seq(Inum)
    BY FilesAssumption DEF Labels, Kinds
  <2> QED
    BY <2>1 DEF Quiet, Calls
<1> HIDE DEF Quiet
<1>3. \A i : ~PutAt(Quiet, i, 1) /\ ~PutAt(Quiet, i, 2)
  BY <1>1, PutNone
<1>4. Place(Quiet)
  BY <1>1, <1>3 DEF Place, HasDp, HasIp
<1>5. \A i : Held(Quiet, i) = 0 /\ ~Live(Quiet, i) /\ ~Locking(Quiet, i) /\ ~Pends(Quiet, i)
  BY <1>1, <1>3 DEF Held, Live, Locking, Pends, HasDp, HasIp, One
<1> QED
  BY <1>1, <1>2, <1>3, <1>4, <1>5

\* The invariant holds there.
LEMMA BootedIs == Booted => FilesInv
<1> SUFFICES ASSUME Booted PROVE FilesInv
  OBVIOUS
<1>1. \A p \in Proc : t[p] = Quiet /\ ofile[p] = 0
  BY DEF Booted
<1>2. \A f \in File : file[f].ref = 0
  BY DEF Booted, NoFile
<1>3. Types
  <2>1. t \in [Proc -> Calls]
    BY QuietIs DEF Booted
  <2>2. ofile \in [Proc -> 0 .. NFILE]
    BY FilesAssumption DEF Booted
  <2>3. file \in FileTable
    BY FilesAssumption DEF Booted, FileTable, NoFile
  <2> QED
    BY <2>1, <2>2, <2>3 DEF Types, Booted
<1>4. \A i \in Inum : CallRefs(i) = {} /\ FileRefs(i) = {} /\ Pending(i) = {}
  <2>1. ASSUME NEW i \in Inum PROVE CallRefs(i) = {}
    <3>1. ASSUME NEW e \in Proc \X (1 .. 4) PROVE ~(e[2] <= Held(t[e[1]], i))
      <4>1. e[1] \in Proc /\ e[2] \in 1 .. 4
        OBVIOUS
      <4>2. Held(t[e[1]], i) = 0
        BY <1>1, <4>1, QuietIs
      <4> QED
        BY <4>1, <4>2
    <3> QED
      BY <3>1 DEF CallRefs
  <2>2. ASSUME NEW i \in Inum PROVE FileRefs(i) = {} /\ Pending(i) = {}
    BY <1>1, <1>2, QuietIs DEF FileRefs, Pending
  <2> QED
    BY <2>1, <2>2
<1>5. References
  <2>1. ASSUME NEW f \in File PROVE file[f].ref = Cardinality({p \in Proc : ofile[p] = f})
    <3>1. {p \in Proc : ofile[p] = f} = {}
      BY <1>1, Bounds
    <3> QED
      BY <1>2, <3>1, FS_EmptySet
  <2>2. \A i \in Inum : s.ref[i] = Cardinality(CallRefs(i)) + Cardinality(FileRefs(i))
    <3>1. Cardinality({}) = 0 /\ \A i \in Inum : s.ref[i] = 0
      BY FS_EmptySet DEF Booted
    <3> QED
      BY <1>4, <3>1
  <2>3. s.ref[Root] = 0
    BY Bounds DEF Booted
  <2> QED
    BY <2>1, <2>2, <2>3 DEF References
<1>6. Places /\ Locks /\ Copies /\ NewInodes
  <2>1. Places
    BY <1>1, QuietIs DEF Places
  <2>2. Locks
    BY <1>1, QuietIs, Bounds DEF Locks, Booted
  <2>3. Copies
    BY DEF Copies, Booted
  <2>4. NewInodes
    BY <1>1, QuietIs DEF NewInodes, NewTo
  <2> QED
    BY <2>1, <2>2, <2>3, <2>4
<1>7. Allocated
  <2>1. \A p \in Proc : AllocatedTo(s, t[p])
    BY <1>1, QuietIs DEF AllocatedTo
  <2>2. \A f \in File : ~(file[f].ref > 0)
    BY <1>2
  <2> QED
    BY <2>1, <2>2 DEF Allocated, Booted, NamesThere
<1>8. Links
  <2>1. ASSUME NEW i \in Inum
        PROVE  s.ino[i].nlink >= Cardinality(Entries(i)) + Cardinality(Pending(i))
                                 + Cardinality(Subs(i)) + One(i = Root)
    <3>1. Cardinality(Pending(i)) = 0
      BY <1>4, FS_EmptySet
    <3>2. Cardinality(Entries(i)) \in Nat /\ Cardinality(Subs(i)) \in Nat
      BY Finite
    <3>3. s.ino[i].nlink >= Cardinality(Entries(i)) + Cardinality(Subs(i)) + One(i = Root)
      BY DEF Booted, LinkedAlone
    <3> QED
      BY <3>1, <3>2, <3>3
  <2> QED
    BY <2>1 DEF Links
<1>9. Booting
  BY DEF Booting, Booted
<1> QED
  BY <1>3, <1>5, <1>6, <1>7, <1>8, <1>9 DEF FilesInv, Booted

\* So it does after a step to such a state.
LEMMA BootedNext == Booted' => FilesInv'
BY BootedIs, PTL

\* mkfs makes a disk that is right.
LEMMA MkfsIs ==
  ASSUME Init
  PROVE  /\ Booted
         /\ s.ino = [i \in Inum |-> IF i = Root THEN [type |-> "dir", nlink |-> 1, addrs |-> {1}]
                                    ELSE NoInode]
<1>1. /\ s.ino = [i \in Inum |-> IF i = Root THEN [type |-> "dir", nlink |-> 1, addrs |-> {1}]
                                 ELSE NoInode]
      /\ s.ents = [i \in Inum |-> NoEntry] /\ s.used = {1}
      /\ s.ref = [i \in Inum |-> 0] /\ s.valid = [i \in Inum |-> FALSE]
      /\ s.lock = [i \in Inum |-> Nobody] /\ s.ic = [i \in Inum |-> NoInode]
      /\ s = Fresh(Mkfs)
  BY DEF Init, Fresh, Mkfs
<1>2. NINODES \in Nat /\ 1 \in Inum /\ 1 \in Block /\ Root = 1
  BY FilesAssumption DEF Inum, Block, Root
<1>3. NoInode \in Inode /\ [type |-> "dir", nlink |-> 1, addrs |-> {1}] \in Inode
  BY <1>2 DEF NoInode, Inode, InodeTypes
<1>4. NoEntry \in [Name -> 0 .. NINODES]
  BY <1>2 DEF NoEntry
<1>5. s \in Fs
  <2>1. /\ s.ino \in [Inum -> Inode] /\ s.ic \in [Inum -> Inode]
        /\ s.ents \in [Inum -> [Name -> 0 .. NINODES]] /\ s.used \in SUBSET Block
        /\ s.ref \in [Inum -> Nat] /\ s.valid \in [Inum -> BOOLEAN] /\ s.lock \in [Inum -> Owner]
    BY <1>1, <1>2, <1>3, <1>4 DEF Owner
  <2>2. s = [ino |-> s.ino, ents |-> s.ents, used |-> s.used, ref |-> s.ref,
             valid |-> s.valid, lock |-> s.lock, ic |-> s.ic]
    BY <1>1 DEF Fresh
  <2> QED
    BY <2>1, <2>2 DEF Fs
<1>6. /\ s.ino[Root].type = "dir" /\ s.ino[Root].nlink = 1 /\ s.ino[Root].addrs = {1}
      /\ \A i \in Inum : i # Root => /\ s.ino[i].type = "none" /\ s.ino[i].nlink = 0
                                     /\ s.ino[i].addrs = {}
      /\ \A i \in Inum, n \in Name : s.ents[i][n] = 0
      /\ \A i \in Inum : s.ents[i] = NoEntry
  BY <1>1, <1>2 DEF NoInode, NoEntry
<1>7. Disk(s)
  <2>1. Owned(s)
    BY <1>1, <1>2, <1>6 DEF Owned
  <2>2. Shaped(s)
    BY <1>2, <1>6 DEF Shaped
  <2> QED
    BY <2>1, <2>2 DEF Disk
<1>8. NamesThere
  BY <1>6 DEF NamesThere
<1>9. LinkedAlone
  <2>1. ASSUME NEW i \in Inum
        PROVE  s.ino[i].nlink >= Cardinality(Entries(i)) + Cardinality(Subs(i)) + One(i = Root)
    <3>1. i # 0
      BY <2>1, Bounds
    <3>2. Entries(i) = {}
      <4>1. ASSUME NEW e \in Inum \X Name PROVE s.ents[e[1]][e[2]] = 0
        BY <1>6
      <4> QED
        BY <3>1, <4>1 DEF Entries
    <3>3. Subs(i) = {}
      BY <1>6 DEF Subs
    <3>4. Cardinality(Entries(i)) = 0 /\ Cardinality(Subs(i)) = 0
      BY <3>2, <3>3, FS_EmptySet
    <3>5. CASE i = Root
      BY <1>6, <3>4, <3>5 DEF One
    <3>6. CASE i # Root
      BY <1>6, <3>4, <3>6 DEF One
    <3> QED
      BY <3>5, <3>6
  <2> QED
    BY <2>1 DEF LinkedAlone
<1>10. boot = 1 /\ boot \in 1 .. NINODES + 1 /\ \A i \in Inum : ~(i < boot)
  BY <1>2 DEF Init, Inum
<1>11. /\ \A i \in Inum : s.ref[i] = 0 /\ ~s.valid[i] /\ s.lock[i] = Nobody
       /\ t = [p \in Proc |-> Quiet] /\ ofile = [p \in Proc |-> 0]
       /\ file = [f \in File |-> NoFile]
  BY <1>1 DEF Init
<1> QED
  BY <1>1, <1>5, <1>7, <1>8, <1>9, <1>10, <1>11 DEF Booted

\* The disk that a crash leaves, when its inodes have their links and their names.
LEMMA FreshIs ==
  ASSUME NEW x \in Fs
  PROVE  /\ Fresh(x) \in Fs /\ Fresh(x).ino = x.ino /\ Fresh(x).ents = x.ents
         /\ Fresh(x).used = x.used
         /\ \A i \in Inum : /\ Fresh(x).ref[i] = 0 /\ ~Fresh(x).valid[i]
                            /\ Fresh(x).lock[i] = Nobody
<1>1. /\ Fresh(x).ino = x.ino /\ Fresh(x).ents = x.ents /\ Fresh(x).used = x.used
      /\ Fresh(x).ref = [i \in Inum |-> 0] /\ Fresh(x).valid = [i \in Inum |-> FALSE]
      /\ Fresh(x).lock = [i \in Inum |-> Nobody]
  BY DEF Fresh
<1>2. NoInode \in Inode
  BY DEF NoInode, Inode, InodeTypes
<1>3. Fresh(x) \in Fs
  BY <1>2 DEF Fresh, Fs, Owner
<1> QED
  BY <1>1, <1>3

\* A crash.
LEMMA CrashKeeps ==
  ASSUME FilesInv, Crash
  PROVE  FilesInv'
<1>1. /\ s' = Fresh(s) /\ file' = [f \in File |-> NoFile] /\ ofile' = [p \in Proc |-> 0]
      /\ t' = [p \in Proc |-> Quiet] /\ boot' = 1
  BY DEF Crash
<1>2. s \in Fs /\ Disk(s)
  BY DEF FilesInv, Types
<1>3. /\ s' \in Fs /\ s'.ino = s.ino /\ s'.ents = s.ents /\ s'.used = s.used
      /\ \A i \in Inum : s'.ref[i] = 0 /\ ~s'.valid[i] /\ s'.lock[i] = Nobody
  BY <1>1, <1>2, FreshIs
<1>4. Disk(s)'
  <2>1. Disk(s')
    BY <1>2, <1>3, DiskSame
  <2> QED
    BY <2>1 DEF Disk, Owned, Shaped
<1>5. NamesThere'
  BY <1>3 DEF NamesThere, FilesInv, Allocated
<1>6. LinkedAlone'
  <2>1. ASSUME NEW i \in Inum
        PROVE  s'.ino[i].nlink >= Cardinality(Entries(i))' + Cardinality(Subs(i))' + One(i = Root)
    <3>1. Entries(i)' = Entries(i) /\ Subs(i)' = Subs(i)
      BY <1>3 DEF Entries, Subs
    <3>2. s.ino[i].nlink >= Cardinality(Entries(i)) + Cardinality(Pending(i))
                            + Cardinality(Subs(i)) + One(i = Root)
      BY DEF FilesInv, Links
    <3>3. /\ Cardinality(Entries(i)) \in Nat /\ Cardinality(Subs(i)) \in Nat
          /\ Cardinality(Pending(i)) \in Nat /\ One(i = Root) \in Nat /\ s.ino[i].nlink \in Nat
      BY Finite, PartTypes DEF One, FilesInv
    <3> HIDE DEF One
    <3> QED
      BY <1>3, <3>1, <3>2, <3>3
  <2> QED
    BY <2>1 DEF LinkedAlone
<1>7. boot' \in 1 .. NINODES + 1 /\ \A i \in Inum : ~(i < boot')
  BY <1>1, FilesAssumption DEF Inum
<1>8. Booted'
  BY <1>1, <1>3, <1>4, <1>5, <1>6, <1>7 DEF Booted
<1> QED
  BY <1>8, BootedNext

\* ireclaim() locks an inode.
LEMMA BootLocks ==
  ASSUME FilesInv, ~Running, NEW i \in Inum
  PROVE  /\ Ilock(s, Nobody, i) \in Fs /\ Ilock(s, Nobody, i).ino = s.ino
         /\ Ilock(s, Nobody, i).ents = s.ents /\ Ilock(s, Nobody, i).used = s.used
         /\ Ilock(s, Nobody, i).ic[i] = s.ino[i]
<1>1. s \in Fs /\ ~s.valid[i] /\ s.ic \in [Inum -> Inode]
  BY DEF FilesInv, Types, Booting, Fs
<1>2. PICK p \in Owner : p = Nobody
  BY DEF Owner
<1> DEFINE x == Ilock(s, p, i)
<1>3. /\ x \in Fs /\ x.ino = s.ino /\ x.ents = s.ents /\ x.used = s.used /\ x.ref = s.ref
      /\ x.lock = [s.lock EXCEPT ![i] = p] /\ x.valid = [s.valid EXCEPT ![i] = TRUE]
      /\ x.ic = [s.ic EXCEPT ![i] = IF s.valid[i] THEN @ ELSE s.ino[i]]
  <2>1. s \in Fs
    BY <1>1
  <2> QED
    BY <2>1, IlockIs
<1>4. x.ic[i] = s.ino[i]
  BY <1>1, <1>3
<1> QED
  BY <1>2, <1>3, <1>4

\* What ireclaim() makes of the disk when it frees the inode i, ...
Reclaims(i) ==
  /\ s' \in Fs /\ \A k \in Inum : s'.ref[k] = 0 /\ ~s'.valid[k] /\ s'.lock[k] = Nobody
  /\ Disk(s') /\ s'.ents = [s.ents EXCEPT ![i] = NoEntry]
  /\ \A k \in Inum : k # i => s'.ino[k] = s.ino[k]
  /\ s'.ino[i].type = "none" /\ s'.ino[i].nlink = s.ino[i].nlink
\* ... which is an orphan.
LEMMA ReclaimsIs ==
  ASSUME FilesInv, ~Running, NEW i \in Inum, Orphaned(i),
         NEW z, z = Fresh(FreeInode(Ilock(s, Nobody, i), i)), s' = z
  PROVE  Reclaims(i)
<1> DEFINE x == Ilock(s, Nobody, i)
           y == FreeInode(x, i)
<1>1. s \in Fs /\ Disk(s) /\ ~s.valid[i]
  BY DEF FilesInv, Types, Booting
<1>2. /\ x \in Fs /\ x.ino = s.ino /\ x.ents = s.ents /\ x.used = s.used /\ x.ic[i] = s.ino[i]
  BY BootLocks
<1>3. z = Fresh(y)
  OBVIOUS
<1> HIDE DEF x
<1>4. x.ic[i] = x.ino[i]
  BY <1>2
<1>5. /\ y \in Fs /\ y.ents = [x.ents EXCEPT ![i] = NoEntry]
      /\ y.used = x.used \ x.ino[i].addrs
      /\ y.ino = [x.ino EXCEPT ![i].addrs = {}, ![i].type = "none"]
  BY <1>2, <1>4, FreeInodeIs
<1> HIDE DEF y
<1>6. /\ z \in Fs /\ z.ino = y.ino /\ z.ents = y.ents /\ z.used = y.used
      /\ \A k \in Inum : z.ref[k] = 0 /\ ~z.valid[k] /\ z.lock[k] = Nobody
  BY <1>3, <1>5, FreshIs
<1>7. /\ y.ino[i].addrs = {} /\ y.ino[i].type = "none" /\ y.ino[i].nlink = s.ino[i].nlink
      /\ \A k \in Inum : k # i => y.ino[k] = s.ino[k]
  BY <1>1, <1>2, <1>5 DEF Fs, Inode
<1>8. i # Root
  BY RootLinked DEF Orphaned
<1>9. Disk(x)
  BY <1>1, <1>2, DiskSame
<1>10. Disk(y)
  <2>1. \A k \in Inum : k # i => y.ino[k] = x.ino[k]
    BY <1>2, <1>7
  <2> QED
    BY <1>2, <1>5, <1>7, <1>8, <1>9, <2>1, DiskTrunc
<1>11. Disk(z)
  BY <1>6, <1>10, DiskSame
<1> QED
  BY <1>2, <1>5, <1>6, <1>7, <1>11 DEF Reclaims

\* Freeing an orphan before the first process runs.
LEMMA IreclaimFreesKeeps ==
  ASSUME FilesInv, ~Running, Orphaned(boot), boot \in Inum, Reclaims(boot),
         boot' = boot + 1, UNCHANGED <<file, ofile, t>>
  PROVE  FilesInv'
<1>1. PICK i : i = boot
  OBVIOUS
<1>2. i \in Inum /\ s.ino[i].nlink = 0 /\ Reclaims(i) /\ boot' = i + 1
  BY <1>1 DEF Orphaned
<1>3. /\ t = [p \in Proc |-> Quiet] /\ ofile = [p \in Proc |-> 0]
      /\ file = [f \in File |-> NoFile] /\ \A j \in Inum : j < i => ~Orphaned(j)
      /\ s \in Fs
  BY <1>1 DEF FilesInv, Booting, Types
<1>4. /\ s' \in Fs /\ Disk(s') /\ s'.ents = [s.ents EXCEPT ![i] = NoEntry]
      /\ \A k \in Inum : k # i => s'.ino[k] = s.ino[k]
      /\ s'.ino[i].type = "none" /\ s'.ino[i].nlink = s.ino[i].nlink
      /\ \A k \in Inum : s'.ref[k] = 0 /\ ~s'.valid[k] /\ s'.lock[k] = Nobody
  BY <1>2 DEF Reclaims
<1>5. \A d \in Inum, n \in Name : s'.ents[d][n] = s.ents[d][n] \/ s'.ents[d][n] = 0
  <2>1. \A d \in Inum : s'.ents[d] = IF d = i THEN NoEntry ELSE s.ents[d]
    BY <1>2, <1>3, <1>4 DEF Fs
  <2> QED
    BY <2>1 DEF NoEntry
<1>6. \A d \in Inum, n \in Name : s.ents[d][n] # i
  <2>1. SUFFICES ASSUME NEW d \in Inum, NEW n \in Name, s.ents[d][n] = i PROVE FALSE
    OBVIOUS
  <2>2. s.ents[d][n] # 0
    BY <1>2, <2>1, Bounds
  <2>3. s.ino[s.ents[d][n]].nlink >= 1
    BY <2>2, NamedIsLinked
  <2> QED
    BY <1>2, <2>1, <2>3
<1>7. Disk(s)'
  BY <1>4 DEF Disk, Owned, Shaped
<1>8. NamesThere'
  <2>1. ASSUME NEW d \in Inum, NEW n \in Name, s'.ents[d][n] # 0
        PROVE  s'.ino[s'.ents[d][n]].type # "none"
    <3>1. s'.ents[d][n] = s.ents[d][n]
      BY <1>5, <2>1
    <3>2. s.ents[d][n] \in Inum /\ s.ino[s.ents[d][n]].type # "none"
      BY <2>1, <3>1, NamedIsLinked
    <3> QED
      BY <1>4, <1>6, <3>1, <3>2
  <2> QED
    BY <2>1 DEF NamesThere
<1>9. LinkedAlone'
  <2>1. ASSUME NEW j \in Inum
        PROVE  s'.ino[j].nlink >= Cardinality(Entries(j))' + Cardinality(Subs(j))' + One(j = Root)
    <3>1. Entries(j)' \subseteq Entries(j)
      <4>1. ASSUME NEW e \in Inum \X Name, s'.ino[e[1]].type = "dir", s'.ents[e[1]][e[2]] = j
            PROVE  s.ino[e[1]].type = "dir" /\ s.ents[e[1]][e[2]] = j
        <5>1. e[1] \in Inum /\ e[2] \in Name
          OBVIOUS
        <5> QED
          BY <1>4, <1>5, <2>1, <4>1, <5>1, Bounds
      <4> QED
        BY <4>1 DEF Entries
    <3>2. Subs(j)' \subseteq Subs(j)
      <4>1. ASSUME NEW n \in Name, s'.ents[j][n] # 0, s'.ino[s'.ents[j][n]].type = "dir"
            PROVE  s.ents[j][n] # 0 /\ s.ino[s.ents[j][n]].type = "dir"
        <5>1. s'.ents[j][n] = s.ents[j][n]
          BY <1>5, <4>1
        <5>2. s.ents[j][n] \in Inum
          BY <4>1, <5>1, NamedIsLinked
        <5> QED
          BY <1>4, <1>6, <4>1, <5>1, <5>2
      <4> QED
        BY <4>1 DEF Subs
    <3>3. /\ Cardinality(Entries(j)') <= Cardinality(Entries(j))
          /\ Cardinality(Subs(j)') <= Cardinality(Subs(j))
          /\ IsFiniteSet(Entries(j)') /\ IsFiniteSet(Subs(j)')
      BY <3>1, <3>2, Finite, FS_Subset
    <3>4. Cardinality(Entries(j)') \in Nat /\ Cardinality(Subs(j)') \in Nat
      BY <3>3, FS_CardinalityType
    <3>5. s.ino[j].nlink >= Cardinality(Entries(j)) + Cardinality(Pending(j))
                            + Cardinality(Subs(j)) + One(j = Root)
      BY DEF FilesInv, Links
    <3>6. /\ Cardinality(Entries(j)) \in Nat /\ Cardinality(Subs(j)) \in Nat
          /\ Cardinality(Pending(j)) \in Nat /\ One(j = Root) \in Nat /\ s.ino[j].nlink \in Nat
      BY Finite, PartTypes DEF One, FilesInv
    <3>7. s'.ino[j].nlink = s.ino[j].nlink
      BY <1>4
    <3> QED
      BY <3>3, <3>4, <3>5, <3>6, <3>7
  <2> QED
    BY <2>1 DEF LinkedAlone
<1>10. \A j \in Inum : j < boot' => ~Orphaned(j)'
  <2>1. ASSUME NEW j \in Inum, j < i + 1 PROVE ~Orphaned(j)'
    <3>1. CASE j = i
      BY <1>4, <3>1 DEF Orphaned
    <3>2. CASE j # i
      <4>1. j < i
        BY <1>2, <2>1, <3>2, Bounds DEF Inum
      <4> QED
        BY <1>3, <1>4, <3>2, <4>1 DEF Orphaned
    <3> QED
      BY <3>1, <3>2
  <2> QED
    BY <1>2, <2>1
<1>11. boot' \in 1 .. NINODES + 1
  BY <1>2, FilesAssumption DEF Inum
<1>12. Booted'
  BY <1>3, <1>4, <1>7, <1>8, <1>9, <1>10, <1>11 DEF Booted
<1> QED
  BY <1>12, BootedNext

\* The parts of the invariant that do not speak of the boot stay when nothing else moves.
LEMMA SameParts ==
  ASSUME FilesInv, UNCHANGED <<s, file, ofile, t>>
  PROVE  /\ References' /\ Places' /\ Locks' /\ Copies' /\ Allocated' /\ NewInodes'
         /\ Disk(s)' /\ Links'
<1>1. References' /\ Places' /\ Locks'
  <2>1. References'
    <3>1. \A i : CallRefs(i)' = CallRefs(i) /\ FileRefs(i)' = FileRefs(i)
      BY DEF CallRefs, FileRefs, Held, HasDp, HasIp, PutAt, One
    <3>2. \A f \in File : file'[f].ref = Cardinality({p \in Proc : ofile'[p] = f})
      BY DEF FilesInv, References
    <3>3. \A i \in Inum : i # Root =>
            s'.ref[i] = Cardinality(CallRefs(i))' + Cardinality(FileRefs(i))'
      BY <3>1 DEF FilesInv, References
    <3>4. s'.ref[Root] = 0
      BY DEF FilesInv, References
    <3> QED
      BY <3>2, <3>3, <3>4 DEF References
  <2>2. Places'
    BY DEF FilesInv, Places, Place, Live, HasDp, HasIp, PutAt
  <2>3. Locks'
    BY DEF FilesInv, Locks, Locking, PutAt
  <2> QED
    BY <2>1, <2>2, <2>3
<1>2. Copies' /\ Allocated' /\ NewInodes'
  <2>1. Copies'
    BY DEF FilesInv, Copies, Freeing, PutAt
  <2>2. Allocated'
    BY DEF FilesInv, Allocated, AllocatedTo, Live, HasDp, HasIp, PutAt
  <2>3. NewInodes'
    BY DEF FilesInv, NewInodes, NewTo, Live, HasDp, HasIp, PutAt, FileRefs
  <2> QED
    BY <2>1, <2>2, <2>3
<1>3. Disk(s)' /\ Links'
  <2>1. Disk(s)'
    BY DEF FilesInv, Disk, Owned, Shaped
  <2>2. Links'
    BY DEF FilesInv, Links, Entries, Pending, Pends, Subs, One
  <2> QED
    BY <2>1, <2>2
<1> QED
  BY <1>1, <1>2, <1>3

\* Passing over an inode that is no orphan.
LEMMA IreclaimSkipsKeeps ==
  ASSUME FilesInv, ~Running, ~Orphaned(boot), boot \in Inum, boot' = boot + 1,
         UNCHANGED <<s, file, ofile, t>>
  PROVE  FilesInv'
<1>1. Types'
  <2>1. boot' \in 1 .. NINODES + 1
    BY FilesAssumption DEF Inum
  <2> QED
    BY <2>1 DEF FilesInv, Types
<1>2. Booting'
  <2>1. ASSUME NEW j \in Inum, j < boot' PROVE ~Orphaned(j)'
    <3>1. CASE j = boot
      BY <3>1 DEF Orphaned
    <3>2. CASE j # boot
      <4>1. j < boot
        BY <2>1, <3>2 DEF Inum
      <4> QED
        BY <4>1 DEF FilesInv, Booting, Orphaned
    <3> QED
      BY <3>1, <3>2
  <2> QED
    BY <2>1 DEF FilesInv, Booting, Running
<1>3. /\ References' /\ Places' /\ Locks' /\ Copies' /\ Allocated' /\ NewInodes'
      /\ Disk(s)' /\ Links'
  BY SameParts
<1> QED
  BY <1>1, <1>2, <1>3 DEF FilesInv

\* ireclaim() looks at one inode, and frees an orphan.
LEMMA IreclaimIs ==
  ASSUME FilesInv, Ireclaim
  PROVE  /\ ~Running /\ boot \in Inum /\ boot' = boot + 1 /\ UNCHANGED <<file, ofile, t>>
         /\ \/ Orphaned(boot) /\ Reclaims(boot)
            \/ ~Orphaned(boot) /\ s' = s
<1>1. ~Running /\ boot' = boot + 1 /\ UNCHANGED <<file, ofile, t>>
  BY DEF Ireclaim
<1>2. boot \in Inum
  BY <1>1, FilesAssumption DEF FilesInv, Types, Running, Inum
<1>3. CASE Orphaned(boot)
  <2>1. s' = Fresh(FreeInode(Ilock(s, Nobody, boot), boot))
    BY <1>3 DEF Ireclaim
  <2>2. Reclaims(boot)
    BY <1>1, <1>2, <1>3, <2>1, ReclaimsIs
  <2> QED
    BY <1>1, <1>2, <1>3, <2>2
<1>4. CASE ~Orphaned(boot)
  <2>1. s' = s
    BY <1>4 DEF Ireclaim
  <2> QED
    BY <1>1, <1>2, <1>4, <2>1
<1> QED
  BY <1>3, <1>4

\* It keeps the invariant, ...
LEMMA IreclaimKeeps ==
  ASSUME FilesInv, Ireclaim
  PROVE  FilesInv'
<1>1. ~Running /\ boot \in Inum /\ boot' = boot + 1 /\ UNCHANGED <<file, ofile, t>>
  BY IreclaimIs
<1>2. CASE Orphaned(boot) /\ Reclaims(boot)
  BY <1>1, <1>2, IreclaimFreesKeeps
<1>3. CASE ~Orphaned(boot) /\ s' = s
  BY <1>1, <1>3, IreclaimSkipsKeeps
<1> QED
  BY <1>2, <1>3, IreclaimIs

\* ... and what it frees was nobody's.
LEMMA IreclaimFreesUnused ==
  ASSUME FilesInv, Ireclaim
  PROVE  FreedUnused
<1> SUFFICES ASSUME NEW i \in Inum, s.ino[i].type # "none", s'.ino[i].type = "none"
             PROVE  /\ Entries(i) = {}
                    /\ \A f \in File : file[f].ref > 0 => file[f].ip # i
                    /\ \A q \in Proc : Subject(q) # i
  BY DEF FreedUnused
<1>1. ~Running /\ i = boot /\ Orphaned(boot)
  BY IreclaimIs DEF Reclaims
<1>2. /\ s.ino[i].nlink = 0 /\ t = [p \in Proc |-> Quiet] /\ i # 0
      /\ file = [f \in File |-> NoFile]
  BY <1>1, Bounds DEF Orphaned, FilesInv, Booting
<1>3. ASSUME NEW e \in Inum \X Name, s.ents[e[1]][e[2]] = i PROVE FALSE
  <2>1. e[1] \in Inum /\ e[2] \in Name /\ s.ents[e[1]][e[2]] # 0
    BY <1>2, <1>3
  <2>2. s.ino[s.ents[e[1]][e[2]]].nlink >= 1
    BY <2>1, NamedIsLinked
  <2> QED
    BY <1>2, <1>3, <2>2
<1>4. Entries(i) = {}
  BY <1>3 DEF Entries
<1>5. \A f \in File : ~(file[f].ref > 0)
  BY <1>2 DEF NoFile
<1>6. \A q \in Proc : Subject(q) # i
  BY <1>2 DEF Subject, Quiet
<1> QED
  BY <1>4, <1>5, <1>6

-----------------------------------------------------------------------------
(* The invariant *)

\* A step of the system on behalf of the process p.
LEMMA StepsKeep ==
  ASSUME FilesInv, NEW p \in Proc, Step(p)
  PROVE  Kept
<1>1. CASE Walk(p)
  BY <1>1, WalkKeeps
<1>2. CASE Iput(p)
  BY <1>2, IputFreeKeeps, IputUnlockKeeps, IputDropKeeps DEF Iput
<1>3. CASE Unlink(p)
  BY <1>3, UnlinkDirKeeps, UnlinkIpKeeps, UnlinkDecKeeps, BadKeeps DEF Unlink
<1>4. CASE Link(p)
  BY <1>4, LinkIncKeeps, LinkDirKeeps, LinkBadKeeps DEF Link
<1>5. CASE Create(p)
  BY <1>5, CreateDirKeeps, CreateNewKeeps, CreateOldKeeps DEF Create
<1>6. CASE Open(p)
  BY <1>6, OpenLockKeeps, OpenedKeeps DEF Open
<1>7. CASE CloseInode(p)
  BY <1>7, CloseInodeKeeps
<1>8. CASE End(p)
  BY <1>8, EndKeeps
<1> QED
  BY <1>1, <1>2, <1>3, <1>4, <1>5, <1>6, <1>7, <1>8 DEF Step

\* Every step keeps the invariant.
LEMMA NextKeeps ==
  ASSUME NoDots, FilesInv, [Next]_vars
  PROVE  Kept
<1>1. ASSUME NEW p \in Proc, Step(p) PROVE Kept
  BY <1>1, StepsKeep
<1>2. ASSUME NEW p \in Proc, Write(p) PROVE Kept
  BY <1>2, WriteFileKeeps
<1>3. ASSUME NEW p \in Proc, Close(p) PROVE Kept
  BY <1>3, CloseKeeps
<1>4. ASSUME NEW p \in Proc, NEW kind \in Kind, NEW path \in Path, NEW new \in Path,
             Call(p, kind, path, new)
      PROVE  Kept
  BY <1>4, CallKeeps
<1>5. ASSUME NEW p \in Proc, NEW q \in Proc, Share(p, q) PROVE Kept
  BY <1>5, ShareKeeps
<1>6. CASE Crash
  <2>1. s \in Fs /\ s' = Fresh(s)
    BY <1>6 DEF FilesInv, Types, Crash
  <2>2. s'.ino = s.ino
    BY <2>1, FreshIs
  <2>3. FilesInv'
    BY <1>6, CrashKeeps
  <2> QED
    BY <2>2, <2>3 DEF Kept, FreedUnused
<1>7. CASE Ireclaim
  BY <1>7, IreclaimKeeps, IreclaimFreesUnused DEF Kept
<1>8. CASE UNCHANGED vars
  <2>1. UNCHANGED <<s, file, ofile, t>> /\ boot' = boot
    BY <1>8 DEF vars
  <2>2. Types' /\ Booting'
    BY <2>1 DEF FilesInv, Types, Booting, Running, Orphaned
  <2>3. FilesInv'
    BY <2>1, <2>2, SameParts DEF FilesInv
  <2> QED
    BY <2>1, <2>3 DEF Kept, FreedUnused
<1> QED
  BY <1>1, <1>2, <1>3, <1>4, <1>5, <1>6, <1>7, <1>8 DEF Next

\* With paths without "." and "..", every reachable state satisfies the invariant:
\* references, locks, copies, names, links and blocks agree (fs.c, file.c, sysfile.c).
THEOREM FilesInvariant ==
  ASSUME NoDots
  PROVE  Spec => []FilesInv
<1>1. Init => FilesInv
  BY MkfsIs, BootedIs
<1>2. FilesInv /\ [Next]_vars => FilesInv'
  BY NextKeeps DEF Kept
<1> QED
  BY <1>1, <1>2, PTL DEF Spec

-----------------------------------------------------------------------------
(* What follows *)

\* What ".." leads to is a number of an inode, or 0.
UpTyped == up \in [Inum -> 0 .. NINODES]

\* A step changes it for one inode: create() writes the directory's number, iput() and
\* ireclaim() take the entry away.
LEMMA UpMoves ==
  ASSUME FilesInv, UpTyped, [Next]_vars
  PROVE  UpTyped'
<1>1. 0 \in 0 .. NINODES
  BY FilesAssumption
<1>2. ASSUME NEW p \in Proc, CreateNew(p) PROVE UpTyped'
  <2>1. t[p].dp \in 0 .. NINODES
    BY DEF FilesInv, Types, Calls
  <2>2. up' = [up EXCEPT ![t[p].ip] = t[p].dp] \/ up' = up
    BY <1>2 DEF CreateNew
  <2> QED
    BY <2>1, <2>2 DEF UpTyped
<1>3. ASSUME NEW p \in Proc, IputFree(p) PROVE UpTyped'
  BY <1>1, <1>3 DEF IputFree, UpTyped
<1>4. CASE Ireclaim
  BY <1>1, <1>4 DEF Ireclaim, UpTyped
<1>5. CASE Crash \/ UNCHANGED vars
  BY <1>5 DEF Crash, vars, UpTyped
<1>6. ASSUME NEW p \in Proc, Step(p) PROVE UpTyped'
  <2>1. CASE Walk(p) \/ CloseInode(p) \/ End(p)
    BY <2>1 DEF Walk, CloseInode, End, UpTyped
  <2>2. CASE Iput(p)
    BY <1>3, <2>2 DEF Iput, IputUnlock, IputDrop, UpTyped
  <2>3. CASE Unlink(p) \/ Link(p)
    BY <2>3 DEF Unlink, UnlinkDir, UnlinkIp, UnlinkDec, Bad, Link, LinkInc, LinkDir, LinkBad,
                UpTyped
  <2>4. CASE Create(p) \/ Open(p)
    BY <1>2, <2>4 DEF Create, CreateDir, CreateOld, Open, OpenLock, Opened, UpTyped
  <2> QED
    BY <1>6, <2>1, <2>2, <2>3, <2>4 DEF Step
<1>7. ASSUME NEW p \in Proc,
             \/ Write(p) \/ Close(p)
             \/ \E kind \in Kind, path, new \in Path : Call(p, kind, path, new)
             \/ \E q \in Proc : Share(p, q)
      PROVE  UpTyped'
  BY <1>7 DEF Write, Close, Call, Share, UpTyped
<1> QED
  BY <1>4, <1>5, <1>6, <1>7 DEF Next

\* The variables keep their types, for paths without "." and ".." (fs.c, file.c).
THEOREM FilesTypes ==
  ASSUME NoDots
  PROVE  Spec => []TypeOK
<1>1. FilesInv /\ UpTyped => TypeOK
  <2> SUFFICES ASSUME FilesInv, UpTyped PROVE TypeOK
    OBVIOUS
  <2>1. /\ s.ino \in [Inum -> Inode] /\ s.ents \in [Inum -> [Name -> 0 .. NINODES]]
        /\ s.used \in SUBSET Block /\ s.ref \in [Inum -> Nat] /\ s.valid \in [Inum -> BOOLEAN]
        /\ s.lock \in [Inum -> Owner]
    BY DEF FilesInv, Types, Fs
  <2>2. ofile \in [Proc -> 0 .. NFILE] /\ boot \in 1 .. NINODES + 1
    BY DEF FilesInv, Types
  <2>3. \A f \in File : file[f].ref \in Nat /\ file[f].ip \in 0 .. NINODES
    BY PartTypes DEF FilesInv
  <2> QED
    BY <2>1, <2>2, <2>3 DEF TypeOK, UpTyped, Inode, InodeTypes, Owner
<1>2. Init => UpTyped
  <2>1. 0 \in 0 .. NINODES /\ Root \in 0 .. NINODES
    BY FilesAssumption DEF Root
  <2> QED
    BY <2>1 DEF Init, UpTyped
<1>3. FilesInv /\ UpTyped /\ [Next]_vars => UpTyped'
  BY UpMoves
<1> QED
  BY <1>1, <1>2, <1>3, FilesInvariant, PTL DEF Spec

\* For paths without "." and "..": every block in use belongs to one inode, in the
\* middle of calls and after every crash (fs.c: balloc, bmap, itrunc).
THEOREM BlocksHaveOwners ==
  ASSUME NoDots
  PROVE  Spec => []BlocksOwned
<1>1. FilesInv => BlocksOwned
  BY DEF FilesInv, Disk, Owned, BlocksOwned
<1> QED
  BY <1>1, FilesInvariant, PTL

\* For paths without "." and "..": a name leads to an allocated inode that counts at
\* least the names it has (fs.c: dirlink, iput; sysfile.c: create, sys_link, sys_unlink).
THEOREM NamesLeadSomewhere ==
  ASSUME NoDots
  PROVE  Spec => []NamesResolve
<1>1. FilesInv => NamesResolve
  <2> SUFFICES ASSUME FilesInv, NEW i \in Inum, Entries(i) # {}
               PROVE  s.ino[i].type # "none" /\ s.ino[i].nlink >= Cardinality(Entries(i))
    BY DEF NamesResolve
  <2>1. PICK e \in Inum \X Name : s.ents[e[1]][e[2]] = i
    BY DEF Entries
  <2>2. e[1] \in Inum /\ e[2] \in Name /\ s.ents[e[1]][e[2]] # 0
    BY <2>1, Bounds
  <2>3. s.ino[i].type # "none"
    BY <2>1, <2>2, NamedIsLinked
  <2>4. s.ino[i].nlink >= Cardinality(Entries(i))
    <3>1. s.ino[i].nlink >= Cardinality(Entries(i)) + Cardinality(Pending(i))
                            + Cardinality(Subs(i)) /\ s.ino[i].nlink \in Nat
      BY LinksAt
    <3> QED
      BY <3>1, Finite
  <2> QED
    BY <2>3, <2>4
<1> QED
  BY <1>1, FilesInvariant, PTL

\* For paths without "." and "..": no call meets a freed inode, a removed name had a
\* link, and iput() does not wait for the lock of an inode it frees (fs.c: ilock, iput;
\* sysfile.c: sys_unlink).
THEOREM FileCallsNeverPanic ==
  ASSUME NoDots
  PROVE  Spec => []CallsNeverPanic
<1>1. FilesInv => CallsNeverPanic
  <2> SUFFICES ASSUME FilesInv, NEW p \in Proc
               PROVE  /\ Subject(p) # 0 => s.ino[Subject(p)].type # "none"
                      /\ t[p].pc = "unlink_ip" => s.ino[t[p].ip].nlink >= 1
                      /\ Putting(p, "put") /\ Orphan(Head(t[p].puts))
                           => Unlocked(Head(t[p].puts))
    BY DEF CallsNeverPanic
  <2>1. Subject(p) # 0 => s.ino[Subject(p)].type # "none"
    BY SubjectIsLive
  <2>2. ASSUME t[p].pc = "unlink_ip" PROVE s.ino[t[p].ip].nlink >= 1
    <3>1. Place(t[p]) /\ AllocatedTo(s, t[p]) /\ t[p].path \in Seq(Name)
      BY PartTypes DEF FilesInv, Places, Allocated
    <3>2. /\ t[p].dp \in Inum /\ t[p].ip \in Inum /\ t[p].path # <<>>
          /\ s.ents[t[p].dp][Head(t[p].path)] = t[p].ip
      BY <2>2, <3>1 DEF Place, AllocatedTo, HasDp, HasIp
    <3>3. Head(t[p].path) \in Name
      BY <3>1, <3>2
    <3>4. s.ents[t[p].dp][Head(t[p].path)] # 0
      BY <3>2, Bounds
    <3> QED
      BY <3>2, <3>3, <3>4, NamedIsLinked
  <2>3. ASSUME Putting(p, "put"), Orphan(Head(t[p].puts)) PROVE Unlocked(Head(t[p].puts))
    BY <2>3, OrphanIs DEF Putting, Unlocked
  <2> QED
    BY <2>1, <2>2, <2>3
<1> QED
  BY <1>1, FilesInvariant, PTL

-----------------------------------------------------------------------------
(* What a step may not do *)

\* For paths without "." and "..": an inode is freed when it has no name, no open file
\* stands for it and no call is about to use it (fs.c: iput; file.c: fileclose).
THEOREM UnusedAreFreed ==
  ASSUME NoDots
  PROVE  Spec => FreedOnlyUnused
<1>1. FilesInv /\ [Next]_vars =>
        [\A i \in Inum : s.ino[i].type # "none" /\ s'.ino[i].type = "none" =>
           /\ Entries(i) = {}
           /\ \A f \in File : file[f].ref > 0 => file[f].ip # i
           /\ \A p \in Proc : Subject(p) # i]_vars
  BY NextKeeps DEF Kept, FreedUnused
<1> QED
  BY <1>1, FilesInvariant, PTL DEF Spec, FreedOnlyUnused

\* Before the first process runs there is ireclaim(), or a crash.
LEMMA BootsAlone ==
  ASSUME FilesInv, Next, ~Running
  PROVE  Crash \/ Ireclaim
<1>1. ASSUME NEW p \in Proc PROVE ~Step(p)
  <2>1. t[p].pc = "idle" /\ t[p].puts = <<>>
    BY DEF FilesInv, Booting, Quiet
  <2>2. ~Iput(p)
    BY <2>1 DEF Iput, IputFree, IputUnlock, IputDrop, Putting
  <2>3. ~Unlink(p) /\ ~Link(p)
    BY <2>1 DEF Unlink, UnlinkDir, UnlinkIp, UnlinkDec, Bad, Link, LinkInc, LinkDir, LinkBad, At
  <2>4. ~Create(p) /\ ~Open(p)
    BY <2>1 DEF Create, CreateDir, CreateNew, CreateOld, Open, OpenLock, Opened, At
  <2>5. ~Walk(p) /\ ~CloseInode(p) /\ ~End(p)
    BY <2>1 DEF Walk, CloseInode, End, At
  <2> QED
    BY <2>2, <2>3, <2>4, <2>5 DEF Step
<1>2. ASSUME NEW p \in Proc PROVE ~Write(p) /\ ~Close(p) /\ \A q \in Proc : ~Share(p, q)
  <2>1. ~HasFile(p)
    BY DEF FilesInv, Booting, HasFile
  <2> QED
    BY <2>1 DEF Write, Close, Share
<1>3. ASSUME NEW p \in Proc, NEW kind, NEW path, NEW new PROVE ~Call(p, kind, path, new)
  BY DEF Call
<1> QED
  BY <1>1, <1>2, <1>3 DEF Next

\* What recovery changes is an orphan, and when it is over there is none.
LEMMA RecoveryReclaims ==
  ASSUME FilesInv, [Next]_vars, ~Running
  PROVE  /\ \A i \in Inum : s'.ino[i] # s.ino[i] => s.ino[i].nlink = 0
         /\ Running' => \A i \in Inum : s'.ino[i].type = "none" \/ s'.ino[i].nlink > 0
<1>1. CASE Crash
  <2>1. s \in Fs /\ s' = Fresh(s) /\ boot' = 1
    BY <1>1 DEF FilesInv, Types, Crash
  <2>2. s'.ino = s.ino
    BY <2>1, FreshIs
  <2>3. ~Running'
    BY <2>1, FilesAssumption DEF Running
  <2> QED
    BY <2>2, <2>3
<1>2. CASE Ireclaim
  <2>1. PICK b \in Inum : b = boot
    BY <1>2, IreclaimIs
  <2>2. /\ boot' = b + 1
        /\ \/ Orphaned(b) /\ Reclaims(b)
           \/ ~Orphaned(b) /\ s' = s
    BY <1>2, <2>1, IreclaimIs
  <2>3. \A i \in Inum : i < b => ~Orphaned(i)
    BY <2>1 DEF FilesInv, Booting
  <2>4. \A i \in Inum : i # b => s'.ino[i] = s.ino[i]
    BY <2>2 DEF Reclaims
  <2>5. s'.ino[b] = s.ino[b] \/ (s'.ino[b].type = "none" /\ s.ino[b].nlink = 0)
    BY <2>2 DEF Reclaims, Orphaned
  <2>6. ASSUME Running', NEW i \in Inum
        PROVE  s'.ino[i].type = "none" \/ s'.ino[i].nlink > 0
    <3>1. s.ino[i].nlink \in Nat
      BY PartTypes DEF FilesInv
    <3>2. i = b \/ i < b
      BY <2>1, <2>2, <2>6, FilesAssumption DEF Running, Inum
    <3>3. CASE i < b
      <4>1. i # b /\ ~Orphaned(i)
        BY <2>3, <3>3 DEF Inum
      <4> QED
        BY <2>4, <3>1, <4>1 DEF Orphaned
    <3>4. CASE i = b
      BY <2>2, <3>1, <3>4 DEF Reclaims, Orphaned
    <3> QED
      BY <3>2, <3>3, <3>4
  <2> QED
    BY <2>4, <2>5, <2>6
<1>3. CASE UNCHANGED vars
  BY <1>3 DEF vars, Running
<1> QED
  BY <1>1, <1>2, <1>3, BootsAlone

\* For paths without "." and "..": recovery frees the inodes that had lost their last
\* name before the crash, all of them, and touches no other (fs.c: ireclaim).
THEOREM OrphansReclaimed ==
  ASSUME NoDots
  PROVE  Spec => ReclaimsOrphans
<1>1. FilesInv /\ [Next]_vars =>
        [~Running => /\ \A i \in Inum : s'.ino[i] # s.ino[i] => s.ino[i].nlink = 0
                     /\ Running' => \A i \in Inum : s'.ino[i].type = "none"
                                                    \/ s'.ino[i].nlink > 0]_vars
  BY RecoveryReclaims
<1> QED
  BY <1>1, FilesInvariant, PTL DEF Spec, ReclaimsOrphans
=============================================================================
