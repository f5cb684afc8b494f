------------------------------- MODULE Files --------------------------------
(***************************************************************************)
(* Inodes, blocks, directories and open files: kernel/fs.c, file.c and the *)
(* system calls of sysfile.c, above the disk that the log implements       *)
(* (module AtomicDisk).  Processes open, create, link, remove, write and   *)
(* close files while others do; power may fail at any moment.              *)
(*                                                                         *)
(* Abstractions.  What a process does between two waits for an inode's     *)
(* lock is one step: other processes see of it only what the lock hides.   *)
(* A path starts at the root: p->cwd is always the root, and what another  *)
(* directory would do there, a lookup on its way does, as it holds one     *)
(* that others may remove.  An inode's blocks are a set; a directory's     *)
(* entries fit in one block.  The log commits when no call is in a         *)
(* transaction, and a crash goes back to the last commit.                  *)
(***************************************************************************)
EXTENDS Integers, Sequences, FiniteSets, FiniteSetsExt

CONSTANTS
  Proc, Nobody,   \* the processes
  Name,           \* path elements other than the next two
  Dot, DotDot,    \* "." and ".."
  Path,           \* the paths the calls use
  NINODES,        \* inodes on disk, numbered from 1
  NBLOCKS,        \* blocks on disk, numbered from 1; the root directory has block 1
  NFILE,          \* open files
  Kind            \* the calls the processes make

ASSUME FilesAssumption ==
  /\ IsFiniteSet(Proc) /\ Nobody \notin Proc
  /\ IsFiniteSet(Name) /\ Dot \notin Name /\ DotDot \notin Name /\ Dot # DotDot
  /\ Path \subseteq Seq(Name \union {Dot, DotDot}) /\ <<>> \notin Path
  /\ NINODES \in Nat \ {0} /\ NBLOCKS \in Nat \ {0} /\ NFILE \in Nat
  /\ Kind \subseteq {"open", "create", "mkdir", "mknod", "unlink", "link"}

Inum  == 1 .. NINODES
Block == 1 .. NBLOCKS
File  == 1 .. NFILE
Root  == 1

VARIABLES
  s,      \* the file system as its code sees it: on disk (through the cache) ino, ents
          \* and used, and the inode table, by number: ref, valid, lock and the copy ic
  up,     \* what ".." of a directory leads to; 0 where neither it nor "." is written
  file,   \* ftable: reference count and inode of each slot
  ofile,  \* the one descriptor of each process: a slot, or 0
  t,      \* what each process does
  boot    \* the inode ireclaim() looks at next; past the last one, the system runs

vars == <<s, up, file, ofile, t, boot>>

NoInode  == [type |-> "none", nlink |-> 0, addrs |-> {}]
NoFile   == [ref |-> 0, ip |-> 0]
NoEntry  == [n \in Name |-> 0]
Quiet    == [pc |-> "idle", kind |-> "none", path |-> <<>>, new |-> <<>>, dp |-> 0, ip |-> 0,
             puts |-> <<>>, phase |-> "put"]
Fresh(d)  == [ino  |-> d.ino, ents |-> d.ents, used |-> d.used,
              ref  |-> [i \in Inum |-> 0], valid |-> [i \in Inum |-> FALSE],
              lock |-> [i \in Inum |-> Nobody], ic |-> [i \in Inum |-> NoInode]]

\* The disk that mkfs makes: an empty root directory.
Mkfs == [ino  |-> [i \in Inum |-> IF i = Root THEN [type |-> "dir", nlink |-> 1, addrs |-> {1}]
                                  ELSE NoInode],
         ents |-> [i \in Inum |-> NoEntry], used |-> {1}]

Init ==
  /\ s = Fresh(Mkfs) /\ up = [i \in Inum |-> IF i = Root THEN Root ELSE 0]
  /\ file = [f \in File |-> NoFile] /\ ofile = [p \in Proc |-> 0]
  /\ t = [p \in Proc |-> Quiet] /\ boot = 1

-----------------------------------------------------------------------------
(* fs.c, as functions of s *)

IgetUncounted(x, i) == [x EXCEPT !.valid[i] = @ /\ x.ref[i] > 0]
Iget(x, i) == [x EXCEPT !.ref[i] = @ + 1, !.valid[i] = @ /\ x.ref[i] > 0]

Ilock(x, p, i) == [x EXCEPT !.lock[i] = p, !.valid[i] = TRUE,
                            !.ic[i] = IF x.valid[i] THEN @ ELSE x.ino[i]]
Iunlock(x, i)  == [x EXCEPT !.lock[i] = Nobody]
Iupdate(x, i)  == [x EXCEPT !.ino[i] = x.ic[i]]
SetNlink(x, i, n) == Iupdate([x EXCEPT !.ic[i].nlink = n], i)

FreeBlock(x) == Block \ x.used
\* bmap() of one block more than the inode has, and writei(), which saves the inode.
BmapUnmarked(x, i) == [x EXCEPT !.ic[i].addrs = @ \union {Min(FreeBlock(x))}]
Bmap(x, i) == LET b == Min(FreeBlock(x)) IN
              [x EXCEPT !.used = @ \union {b}, !.ic[i].addrs = @ \union {b}]
Writei(x, i) == Iupdate(Bmap(x, i), i)

Bfree(x, bs) == [x EXCEPT !.used = @ \ bs]
Itrunc(x, i) == Iupdate([Bfree(x, x.ic[i].addrs) EXCEPT !.ic[i].addrs = {}, !.ents[i] = NoEntry], i)
FreeInode(x, i) == Iupdate([Itrunc(x, i) EXCEPT !.ic[i].type = "none"], i)

FreeInodes(x) == {i \in Inum : x.ino[i].type = "none"}
Ialloc(x, type) ==
  LET i == Min(FreeInodes(x)) IN Iget([x EXCEPT !.ino[i] = [NoInode EXCEPT !.type = type]], i)

\* The entries "." and ".." hold no reference and stay when the directory is removed.
Dirlookup(x, d, n) ==
  IF n \in Name THEN x.ents[d][n] ELSE IF n = Dot /\ up[d] # 0 THEN d ELSE up[d]
\* iget() in dirlookup(); references to the root are not counted.
Found(x, i) == IF i = Root THEN x ELSE Iget(x, i)
\* dirlink() fails on a name that is there and when it needs a block and there is none.
CanLink(x, d, n) == Dirlookup(x, d, n) = 0 /\ (x.ic[d].addrs # {} \/ FreeBlock(x) # {})
Dirlink(x, d, n, i) == [(IF x.ic[d].addrs = {} THEN Writei(x, d) ELSE x) EXCEPT !.ents[d][n] = i]
IsDirEmpty(x, d) == x.ents[d] = NoEntry

-----------------------------------------------------------------------------
(* Processes *)

Running == boot > NINODES
Active  == {p \in Proc : t[p].pc \notin {"idle", "close"}}       \* begin_op() to end_op()

\* The next step of p: its label, and the inodes it has to iput() first.  References
\* to the root are not counted: init's current directory is always one.  Of two inodes
\* only the first, a directory, can be the root.
Puts(is) == IF is # <<>> /\ Head(is) = Root THEN Tail(is) ELSE is
To(p, label, is) ==
  t' = [t EXCEPT ![p] = [(IF label = "end" THEN Quiet ELSE @) EXCEPT !.pc = label, !.puts = Puts(is)]]
At(p, label) == t[p].pc = label /\ t[p].puts = <<>>
Unlocked(i)  == s.lock[i] = Nobody

\* begin_op(); namex() starts at the root.
Call(p, kind, path, new) ==
  /\ Running /\ t[p].pc = "idle" /\ kind \in Kind
  /\ (kind # "link") => (new = path)
  /\ t' = [t EXCEPT ![p] = [Quiet EXCEPT !.pc = "walk", !.kind = kind, !.path = path,
                                         !.new = new, !.dp = Root]]
  /\ UNCHANGED <<s, up, file, ofile, boot>>

\* Where a call goes on from a failed lookup, from the inode of a path and from the
\* directory of its last element.
OnFail(p)   == IF t[p].pc = "walk_new" THEN "link_bad" ELSE "end"
OnInode(p)  == IF t[p].kind = "open" THEN "open" ELSE "link"
OnParent(p) == IF t[p].kind = "unlink" THEN "unlink"
               ELSE IF t[p].kind = "link" THEN "link_new" ELSE "create"
WantsParent(p) == t[p].pc = "walk_new" \/ t[p].kind \notin {"open", "link"}

\* One element of namex(): lock the directory, look the element up, go to it.
Walk(p) ==
  LET d == t[p].dp   x == Iunlock(Ilock(s, p, d), d)   path == t[p].path IN
  LET stop == WantsParent(p) /\ Len(path) = 1   next == Dirlookup(x, d, Head(path)) IN
  /\ t[p].pc \in {"walk", "walk_new"} /\ t[p].puts = <<>> /\ Unlocked(d)
  /\ \/ /\ x.ic[d].type # "dir" \/ (~stop /\ next = 0)
        /\ s' = x /\ To(p, OnFail(p), <<d>>)
     \/ /\ x.ic[d].type = "dir" /\ stop
        /\ s' = x /\ To(p, OnParent(p), <<>>)
     \/ /\ x.ic[d].type = "dir" /\ ~stop /\ next # 0
        /\ s' = Found(x, next)
        /\ t' = [t EXCEPT ![p].dp = next, ![p].path = Tail(path), ![p].puts = Puts(<<d>>),
                          ![p].ip = IF Len(path) = 1 THEN next ELSE @,
                          ![p].pc = IF Len(path) = 1 THEN OnInode(p) ELSE @]
  /\ UNCHANGED <<up, file, ofile, boot>>

End(p) ==
  /\ At(p, "end")
  /\ t' = [t EXCEPT ![p] = Quiet]
  /\ UNCHANGED <<s, up, file, ofile, boot>>

-----------------------------------------------------------------------------
(* iput() *)

OrphanForMe(i) == s.valid[i] /\ s.ic[i].nlink = 0
Orphan(i) == s.ref[i] = 1 /\ s.valid[i] /\ s.ic[i].nlink = 0
Putting(p, phase) == t[p].puts # <<>> /\ t[p].phase = phase

\* Nobody else refers to the inode and it has no links: lock it, give itable.lock
\* up, free it on disk ...
IputFree(p) ==
  LET i == Head(t[p].puts) IN
  /\ Putting(p, "put") /\ Orphan(i) /\ Unlocked(i)
  /\ s' = FreeInode([s EXCEPT !.lock[i] = p], i) /\ up' = [up EXCEPT ![i] = 0]
  /\ t' = [t EXCEPT ![p].phase = "freed"]
  /\ UNCHANGED <<file, ofile, boot>>

LeftValid(i) == s
Invalid(i)   == [s EXCEPT !.valid[i] = FALSE, !.ic[i] = NoInode]
\* ... mark the copy invalid, unlock it ...
IputUnlock(p) ==
  LET i == Head(t[p].puts) IN
  /\ Putting(p, "freed")
  /\ s' = Iunlock(Invalid(i), i)
  /\ t' = [t EXCEPT ![p].phase = "drop"]
  /\ UNCHANGED <<up, file, ofile, boot>>

\* A slot without references keeps nothing: iget() starts it afresh.
Unreferenced(i) ==
  [(IF s.ref[i] = 1 THEN Invalid(i) ELSE s) EXCEPT !.ref[i] = @ - 1]
\* ... and drop the reference under itable.lock again.
IputDrop(p) ==
  LET i == Head(t[p].puts) IN
  /\ Putting(p, "drop") \/ (Putting(p, "put") /\ ~Orphan(i))
  /\ s' = Unreferenced(i)
  /\ t' = [t EXCEPT ![p].puts = Tail(@), ![p].phase = "put"]
  /\ UNCHANGED <<up, file, ofile, boot>>

-----------------------------------------------------------------------------
(* sys_unlink() *)

\* The directory stays locked while the call waits for the inode.
UnlinkDir(p) ==
  LET d == t[p].dp   x == Ilock(s, p, d)   i == Dirlookup(x, d, Head(t[p].path)) IN
  /\ At(p, "unlink") /\ Unlocked(d)
  /\ IF i = 0 \/ Head(t[p].path) \in {Dot, DotDot}
     THEN s' = Iunlock(x, d) /\ To(p, "end", <<d>>)
     ELSE s' = Iget(x, i) /\ t' = [t EXCEPT ![p].pc = "unlink_ip", ![p].ip = i]
  /\ UNCHANGED <<up, file, ofile, boot>>

NotEmpty(x, i) == x.ic[i].type = "dir" /\ ~IsDirEmpty(x, i)
UnlinkIp(p) ==
  LET d == t[p].dp   i == t[p].ip   x == Ilock(s, p, i)
      y == [x EXCEPT !.ents[d][Head(t[p].path)] = 0] IN
  /\ At(p, "unlink_ip") /\ Unlocked(i)
  /\ IF NotEmpty(x, i) THEN s' = Iunlock(x, i) /\ To(p, "bad", <<i>>)
     ELSE /\ s' = Iunlock(IF x.ic[i].type = "dir" THEN SetNlink(y, d, x.ic[d].nlink - 1) ELSE y, d)
          /\ To(p, "unlink_dec", <<d>>)
  /\ UNCHANGED <<up, file, ofile, boot>>

\* The way out of sys_unlink() and create() that still has the directory locked.
Bad(p) ==
  /\ At(p, "bad")
  /\ s' = Iunlock(s, t[p].dp)
  /\ To(p, "end", <<t[p].dp>>)
  /\ UNCHANGED <<up, file, ofile, boot>>

UnlinkDec(p) ==
  LET i == t[p].ip IN
  /\ At(p, "unlink_dec")
  /\ s' = Iunlock(SetNlink(s, i, s.ic[i].nlink - 1), i)
  /\ To(p, "end", <<i>>)
  /\ UNCHANGED <<up, file, ofile, boot>>

-----------------------------------------------------------------------------
(* sys_link() *)

LinkInc(p) ==
  LET i == t[p].ip   x == Ilock(s, p, i) IN
  /\ At(p, "link") /\ Unlocked(i)
  /\ IF x.ic[i].type = "dir" THEN s' = Iunlock(x, i) /\ To(p, "end", <<i>>)
     ELSE /\ s' = Iunlock(SetNlink(x, i, x.ic[i].nlink + 1), i)
          /\ t' = [t EXCEPT ![p].pc = "walk_new", ![p].path = t[p].new, ![p].dp = Root]
  /\ UNCHANGED <<up, file, ofile, boot>>

LinkDir(p) ==
  LET d == t[p].dp   n == Head(t[p].path)   x == Ilock(s, p, d) IN
  /\ At(p, "link_new") /\ Unlocked(d)
  /\ IF CanLink(x, d, n)
     THEN s' = Iunlock(Dirlink(x, d, n, t[p].ip), d) /\ To(p, "end", <<d, t[p].ip>>)
     ELSE s' = Iunlock(x, d) /\ To(p, "link_bad", <<d>>)
  /\ UNCHANGED <<up, file, ofile, boot>>

LinkBad(p) ==
  LET i == t[p].ip   x == Ilock(s, p, i) IN
  /\ At(p, "link_bad") /\ Unlocked(i)
  /\ s' = Iunlock(SetNlink(x, i, x.ic[i].nlink - 1), i)
  /\ To(p, "end", <<i>>)
  /\ UNCHANGED <<up, file, ofile, boot>>

-----------------------------------------------------------------------------
(* create() and sys_open() *)

TypeOf(kind) == CASE kind = "mkdir" -> "dir" [] kind = "mknod" -> "device" [] OTHER -> "file"

CreateDir(p) ==
  LET d == t[p].dp   x == Ilock(s, p, d)   i == Dirlookup(x, d, Head(t[p].path)) IN
  /\ At(p, "create") /\ Unlocked(d)
  /\ \/ /\ i # 0
        /\ s' = Found(Iunlock(x, d), i)
        /\ t' = [t EXCEPT ![p].pc = "create_old", ![p].ip = i, ![p].puts = Puts(<<d>>)]
     \/ /\ i = 0 /\ FreeInodes(x) = {}
        /\ s' = Iunlock(x, d) /\ To(p, "end", <<d>>)
     \/ /\ i = 0 /\ FreeInodes(x) # {}
        /\ s' = Ialloc(x, TypeOf(t[p].kind))
        /\ t' = [t EXCEPT ![p].pc = "create_new", ![p].ip = Min(FreeInodes(x))]
  /\ UNCHANGED <<up, file, ofile, boot>>

\* The new inode gets its link first; a failure takes it away again.
CreateNew(p) ==
  LET d == t[p].dp   i == t[p].ip   n == Head(t[p].path)   isdir == t[p].kind = "mkdir"
      x == SetNlink(Ilock(s, p, i), i, 1)
      room == FreeBlock(x) # {}
      dots == IF isdir /\ room THEN Writei(x, i) ELSE x IN
  /\ At(p, "create_new") /\ Unlocked(i)
  /\ up' = IF isdir /\ room THEN [up EXCEPT ![i] = d] ELSE up
  /\ IF (isdir => room) /\ CanLink(dots, d, n)
     THEN LET y == Dirlink(dots, d, n, i)
              z == Iunlock(IF isdir THEN SetNlink(y, d, y.ic[d].nlink + 1) ELSE y, d) IN
          s' = z /\ To(p, "opened", <<d>>)
     ELSE s' = Iunlock(SetNlink(dots, i, 0), i) /\ To(p, "bad", <<i>>)
  /\ UNCHANGED <<file, ofile, boot>>

CreateOld(p) ==
  LET i == t[p].ip   x == Ilock(s, p, i) IN
  /\ At(p, "create_old") /\ Unlocked(i)
  /\ IF t[p].kind = "create" /\ x.ic[i].type # "dir" THEN s' = x /\ To(p, "opened", <<>>)
     ELSE s' = Iunlock(x, i) /\ To(p, "end", <<i>>)
  /\ UNCHANGED <<up, file, ofile, boot>>

\* Without O_CREATE: a directory may be opened to be read only.
OpenLock(p) ==
  LET i == t[p].ip   x == Ilock(s, p, i) IN
  /\ At(p, "open") /\ Unlocked(i)
  /\ \/ s' = x /\ To(p, "opened", <<>>)
     \/ /\ x.ic[i].type = "dir"
        /\ s' = Iunlock(x, i) /\ To(p, "end", <<i>>)
  /\ UNCHANGED <<up, file, ofile, boot>>

HasFile(p) == ofile[p] # 0
FdFree(p)  == ofile[p] = 0
FreeSlots  == {f \in File : file[f].ref = 0}

\* mkdir() and mknod() are done; open() goes on to filealloc() and fdalloc(), or gives
\* the inode back, also that of a device whose major number is none.  O_TRUNC comes
\* with O_CREATE.
Opened(p) ==
  LET i == t[p].ip   f == Min(FreeSlots)
      ends == FreeSlots = {} \/ ~FdFree(p) \/ t[p].kind \in {"mkdir", "mknod"} IN
  /\ At(p, "opened")
  /\ \/ /\ ends \/ s.ic[i].type = "device"
        /\ s' = Iunlock(s, i) /\ To(p, "end", <<i>>) /\ UNCHANGED <<file, ofile>>
     \/ /\ ~ends
        /\ file'  = [file EXCEPT ![f] = [ref |-> 1, ip |-> i]]
        /\ ofile' = [ofile EXCEPT ![p] = f]
        /\ s' = Iunlock(IF t[p].kind = "create" /\ s.ic[i].type = "file" THEN Itrunc(s, i) ELSE s, i)
        /\ To(p, "end", <<>>)
  /\ UNCHANGED <<up, boot>>

-----------------------------------------------------------------------------
(* Open files *)

\* A chunk of filewrite(), in a transaction of its own; without a free block it ends
\* short.
Write(p) ==
  LET i == file[ofile[p]].ip   x == Ilock(s, p, i) IN
  /\ t[p].pc = "idle" /\ HasFile(p) /\ Unlocked(i)
  /\ x.ic[i].type = "file" /\ FreeBlock(x) # {}
  /\ s' = Iunlock(Writei(x, i), i)
  /\ UNCHANGED <<up, file, ofile, t, boot>>

\* kfork() gives q, a process without files, the files of p.
Share(p, q) ==
  /\ t[p].pc = "idle" /\ HasFile(p) /\ t[q].pc = "idle" /\ FdFree(q)
  /\ file'  = [file EXCEPT ![ofile[p]].ref = @ + 1]
  /\ ofile' = [ofile EXCEPT ![q] = ofile[p]]
  /\ UNCHANGED <<s, up, t, boot>>

\* fileclose() gives the slot back first ...
Fileclose(f) ==
  IF file[f].ref > 1 THEN [file EXCEPT ![f].ref = @ - 1] ELSE [file EXCEPT ![f] = NoFile]
Close(p) ==
  LET f == ofile[p] IN
  /\ t[p].pc = "idle" /\ HasFile(p)
  /\ ofile' = [ofile EXCEPT ![p] = 0]
  /\ file' = Fileclose(f)
  /\ t' = IF file[f].ref > 1 THEN t ELSE [t EXCEPT ![p].pc = "close", ![p].ip = file[f].ip]
  /\ UNCHANGED <<s, up, boot>>

\* ... and then, in a transaction, what it stood for.
CloseInode(p) ==
  /\ t[p].pc = "close"
  /\ To(p, "end", <<t[p].ip>>)
  /\ UNCHANGED <<s, up, file, ofile, boot>>

-----------------------------------------------------------------------------
(* Crash, and ireclaim() before the first process *)

\* The disk is what the last commit left, and a commit comes when no call is in a
\* transaction (AtomicDisk!Commit): a crash in the middle of calls is the crash that
\* could have come before they began.
Crash ==
  /\ Active = {}
  /\ s' = Fresh(s) /\ up' = up
  /\ file' = [f \in File |-> NoFile] /\ ofile' = [p \in Proc |-> 0]
  /\ t' = [p \in Proc |-> Quiet] /\ boot' = 1

OrphanedFile(i) == s.ino[i].type = "file" /\ s.ino[i].nlink = 0
Orphaned(i) == s.ino[i].type # "none" /\ s.ino[i].nlink = 0
Ireclaim ==
  /\ ~Running
  /\ boot' = boot + 1
  /\ s' = IF Orphaned(boot) THEN Fresh(FreeInode(Ilock(s, Nobody, boot), boot)) ELSE s
  /\ up' = IF Orphaned(boot) THEN [up EXCEPT ![boot] = 0] ELSE up
  /\ UNCHANGED <<file, ofile, t>>

-----------------------------------------------------------------------------
Iput(p)   == IputFree(p) \/ IputUnlock(p) \/ IputDrop(p)
Unlink(p) == UnlinkDir(p) \/ UnlinkIp(p) \/ UnlinkDec(p) \/ Bad(p)
Link(p)   == LinkInc(p) \/ LinkDir(p) \/ LinkBad(p)
Create(p) == CreateDir(p) \/ CreateNew(p) \/ CreateOld(p)
Open(p)   == OpenLock(p) \/ Opened(p)
Step(p)   == Walk(p) \/ Iput(p) \/ Unlink(p) \/ Link(p) \/ Create(p) \/ Open(p)
             \/ CloseInode(p) \/ End(p)

Next ==
  \/ \E p \in Proc :
       \/ Step(p) \/ Write(p) \/ Close(p)
       \/ \E kind \in Kind, path, new \in Path : Call(p, kind, path, new)
       \/ \E q \in Proc : Share(p, q)
  \/ Crash \/ Ireclaim

Spec == Init /\ [][Next]_vars

-----------------------------------------------------------------------------
TypeOK ==
  /\ s.ino \in [Inum -> [type : {"none", "dir", "file", "device"}, nlink : Nat, addrs : SUBSET Block]]
  /\ s.ents \in [Inum -> [Name -> 0 .. NINODES]] /\ up \in [Inum -> 0 .. NINODES]
  /\ s.used \subseteq Block
  /\ s.ref \in [Inum -> Nat] /\ s.valid \in [Inum -> BOOLEAN]
  /\ s.lock \in [Inum -> Proc \union {Nobody}]
  /\ \A f \in File : file[f].ref \in Nat /\ file[f].ip \in 0 .. NINODES
  /\ ofile \in [Proc -> 0 .. NFILE] /\ boot \in 1 .. NINODES + 1

Subject(p) ==   \* the inode the call of p locks next, or 0
  CASE t[p].pc \in {"walk", "walk_new", "unlink", "link_new", "create"} -> t[p].dp
    [] t[p].pc \in {"unlink_ip", "link", "link_bad", "create_new", "create_old", "open"} -> t[p].ip
    [] OTHER -> 0
\* "." and ".." are not among an inode's names.
Entries(i) == {e \in Inum \X Name : s.ino[e[1]].type = "dir" /\ s.ents[e[1]][e[2]] = i}

\* No call locks an inode that was freed after the call found it ("ilock: no type"),
\* or removes a name from one that has no links left ("unlink: nlink < 1"); and
\* iput() does not block on the lock of the inode it frees (fs.c: ilock, iput;
\* sysfile.c: sys_unlink).  It holds for paths without "..": that entry of a removed
\* directory leads to a parent that may have been freed.
CallsNeverPanic ==
  \A p \in Proc :
    /\ Subject(p) # 0 => s.ino[Subject(p)].type # "none"
    /\ t[p].pc = "unlink_ip" => s.ino[t[p].ip].nlink >= 1
    /\ Putting(p, "put") /\ Orphan(Head(t[p].puts)) => Unlocked(Head(t[p].puts))

\* A name leads to an allocated inode that counts at least as many links as it has
\* names, in the middle of calls, after every crash and over reuse of inodes
\* (fs.c: dirlink, iput; sysfile.c: create, sys_link, sys_unlink).  The names are those
\* in Name: ".." of a removed directory does dangle.
NamesResolve ==
  \A i \in Inum : Entries(i) # {} =>
    s.ino[i].type # "none" /\ s.ino[i].nlink >= Cardinality(Entries(i))

\* Every block in use belongs to one inode and to no other: none is lost by a failed
\* call, a crash or a removal, and none is given out twice (fs.c: balloc, bmap,
\* itrunc, iput).
BlocksOwned ==
  /\ s.used = UNION {s.ino[i].addrs : i \in Inum}
  /\ \A i, j \in Inum : i # j => s.ino[i].addrs \intersect s.ino[j].addrs = {}

\* An inode is freed when it has no name, no open file stands for it and no call is
\* about to use it (fs.c: iput; file.c: fileclose).
FreedOnlyUnused ==
  [][\A i \in Inum : s.ino[i].type # "none" /\ s'.ino[i].type = "none" =>
       /\ Entries(i) = {}
       /\ \A f \in File : file[f].ref > 0 => file[f].ip # i
       /\ \A p \in Proc : Subject(p) # i]_vars

\* Recovery frees the inodes that had lost their last name before the crash, all of
\* them, and touches no other (fs.c: ireclaim).
ReclaimsOrphans ==
  [][~Running => /\ \A i \in Inum : s'.ino[i] # s.ino[i] => s.ino[i].nlink = 0
                 /\ Running' => \A i \in Inum : s'.ino[i].type = "none" \/ s'.ino[i].nlink > 0]_vars

\* An inode without references and without links is free: "iput() frees if the
\* reference and link counts have fallen to zero" (fs.c: iput).
UnusedInodesFree ==
  Running => \A i \in Inum : Orphaned(i) => s.ref[i] > 0
=============================================================================
