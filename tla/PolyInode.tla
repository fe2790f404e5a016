------------------------------ MODULE PolyInode ------------------------------
(***************************************************************************)
(* The life of Poly-inodes: open, close, unlink and rename, which PolyLib  *)
(* (opemetadata.c, the inode map of context.c) and PolyOS, the kernel      *)
(* module (operation.c, inode.c), carry out in turns.  The kernel keeps    *)
(* the table from path hashes to inodes and frees them; the library        *)
(* increments the reference count, the kernel decrements it; the library   *)
(* keeps a map of its own, for the cache.  A call is not atomic: a step is *)
(* a critical section, a system call or an unlocked access.                *)
(*                                                                         *)
(* A path stands for its hash, a file for its incarnation on both devices, *)
(* whose directories change together.  Calls that fail in the file systems *)
(* and allocations that fail are left out.                                 *)
(***************************************************************************)
EXTENDS Integers, Sequences, FiniteSets, SequencesExt

CONSTANTS Paths,
          Threads,
          MaxCalls,   \* bound: calls in a behaviour, and so files and inodes
          AnyRename,  \* renames may overlap other calls and replace files
          None        \* no path, no file, no inode

ASSUME PathAssumption == None \notin Paths
ASSUME BoundAssumption == MaxCalls \in Nat /\ None \notin 1 .. MaxCalls
ASSUME RenameAssumption == AnyRename \in BOOLEAN

Ids == 1 .. MaxCalls

VARIABLES
    disk,       \* per path: the file there (external: both file systems)
    files,      \* files created so far
    table,      \* i_hashtable: entries of the kernel, newest first
    hashmap,    \* poly_inode_hashmap of the library
    inode,      \* per inode number: the fields, and whether its memory exists
    inodes,     \* inode numbers given out
    cached,     \* per inode: the files whose data its intervals buffer
    lost,       \* files whose buffered data was dropped
    fds,        \* open descriptors: the file and the Poly-inode behind each
    thr,        \* per thread: the call in progress and its locals
    calls,      \* calls made so far
    raced,      \* history: an unlink overlapped another call on its path, or a
                \* close a call on a file that was unlinked
    undefined   \* an inode was used after its memory was freed; nothing follows

kernel == <<table, inodes>>
data   == <<cached, lost>>
vars   == <<disk, files, kernel, hashmap, inode, data, fds, thr, calls, raced, undefined>>

OpenPCs   == {"search", "insert", "count"}
ClosePCs  == {"check", "closedrop", "closecmd", "closefind", "closed"}
UnlinkPCs == {"find", "drop", "unlink", "unlinkfind", "unlinked"}
RenamePCs == {"rename", "krename", "hashrename"}
PCs       == {"idle"} \cup OpenPCs \cup ClosePCs \cup UnlinkPCs \cup RenamePCs

TypeOK ==
    /\ disk \in [Paths -> Ids \cup {None}] /\ files \in 0 .. MaxCalls
    /\ table \in Seq([path : Paths, ino : Ids])
    /\ hashmap \in [Paths -> Ids \cup {None}]
    /\ inode \in [Ids -> [memory : {"none", "live", "freed"}, path : Paths \cup {None},
                          refcount : Nat, reclaim : BOOLEAN]]
    /\ inodes \in 0 .. MaxCalls
    /\ cached \in [Ids -> SUBSET Ids] /\ lost \subseteq Ids
    /\ fds \subseteq [fd : Ids, file : Ids, ino : Ids]
    /\ thr \in [Threads -> [pc : PCs, path : Paths \cup {None}, to : Paths \cup {None},
                            fd : Ids \cup {None}, file : Ids \cup {None},
                            ino : Ids \cup {None}, found : Ids \cup {None}]]
    /\ calls \in 0 .. MaxCalls /\ raced \in BOOLEAN /\ undefined \in BOOLEAN

-----------------------------------------------------------------------------
(* The kernel's hash table; a new entry goes to the front of its bucket. *)

Find(p) == SelectInSeq(table, LAMBDA e : e.path = p)

i_hashtable_search(p) == IF Find(p) = 0 THEN None ELSE table[Find(p)].ino

i_hashtable_delete(p) == IF Find(p) = 0 THEN table ELSE RemoveAt(table, Find(p))

i_hashtable_insert(l, p, i) == <<[path |-> p, ino |-> i]>> \o l

-----------------------------------------------------------------------------
(* Threads. *)

Idle == [pc |-> "idle", path |-> None, to |-> None, fd |-> None, file |-> None,
         ino |-> None, found |-> None]

Goto(t, p) == thr' = [thr EXCEPT ![t].pc = p]
Return(t)  == thr' = [thr EXCEPT ![t] = Idle]

(* The inode a thread's next step reads or writes. *)
Uses(t) ==
    LET r == thr[t]
    IN  (CASE r.pc \in {"count", "check", "closedrop", "closecmd", "drop"} -> {r.ino}
           [] r.pc \in {"closed", "unlinked"}   -> {r.found}
           [] r.pc \in {"find", "hashrename"}   -> {hashmap[r.path]}
           [] r.pc = "krename"                  -> {i_hashtable_search(r.path)}
           [] OTHER -> {}) \ {None}

Freed(i) == inode[i].memory = "freed"

At(t, p) == ~ undefined /\ thr[t].pc = p /\ \A i \in Uses(t) : ~ Freed(i)

(* The application may call: renames are alone unless AnyRename. *)
MayCall(t) ==
    /\ At(t, "idle") /\ calls < MaxCalls
    /\ AnyRename \/ \A u \in Threads : thr[u].pc \notin RenamePCs
    /\ calls' = calls + 1

(* The calls in progress on a path, by their program counters. *)
On(p) == {thr[u].pc : u \in {u \in Threads : thr[u].pc # "idle" /\ p =
             IF thr[u].path # None THEN thr[u].path ELSE inode[thr[u].ino].path}}

Unlinked(p) == Find(p) # 0 /\ inode[table[Find(p)].ino].reclaim

(* A call on path p begins; what names its kind. *)
Begins(what, p) ==
    raced' = \/ raced
             \/ what = "unlink" /\ On(p) # {}
             \/ On(p) \cap UnlinkPCs # {}
             \/ Unlinked(p) /\ what = "close" /\ On(p) # {}
             \/ Unlinked(p) /\ On(p) \cap ClosePCs # {}

-----------------------------------------------------------------------------
(* open: polyos_open, then the library. *)

(* The files on the devices are opened, and created where there is none. *)
Open(t) ==
    /\ MayCall(t)
    /\ \E p \in Paths :
          LET f == IF disk[p] = None THEN files + 1 ELSE disk[p]
          IN  /\ Begins("open", p)
              /\ disk' = [disk EXCEPT ![p] = f]
              /\ files' = IF disk[p] = None THEN files + 1 ELSE files
              /\ thr' = [thr EXCEPT ![t] = [Idle EXCEPT !.pc = "search", !.path = p,
                                                        !.fd = calls + 1, !.file = f]]
    /\ UNCHANGED <<kernel, hashmap, inode, data, fds, undefined>>

Search(t) ==
    LET i == i_hashtable_search(thr[t].path)
    IN  /\ At(t, "search")
        /\ thr' = [thr EXCEPT ![t].ino = i, ![t].pc = IF i = None THEN "insert" ELSE "count"]
        /\ UNCHANGED <<disk, files, kernel, hashmap, inode, data, fds, calls, raced, undefined>>

NewInode(p) == [memory |-> "live", path |-> p, refcount |-> 0, reclaim |-> FALSE]

(* Mutant of Insert: the table is not searched again under its write lock. *)
Insert_blind(t) ==
    LET p == thr[t].path
        n == inodes + 1
    IN  /\ At(t, "insert")
        /\ inodes' = n
        /\ thr' = [thr EXCEPT ![t].ino = n, ![t].pc = "count"]
        /\ table' = i_hashtable_insert(table, p, n)
        /\ inode' = [inode EXCEPT ![n] = NewInode(p)]
        /\ UNCHANGED <<disk, files, hashmap, data, fds, calls, raced, undefined>>

(* i_hashtable_search_and_insert: an inode is allocated, its number used   *)
(* up, and thrown away if another thread was first.                        *)
Insert(t) ==
    LET p == thr[t].path
        i == i_hashtable_search(p)
        n == inodes + 1
    IN  /\ At(t, "insert")
        /\ inodes' = n
        /\ \/ /\ i # None
              /\ thr' = [thr EXCEPT ![t].ino = i, ![t].pc = "count"]
              /\ UNCHANGED <<table, inode>>
           \/ /\ i = None
              /\ thr' = [thr EXCEPT ![t].ino = n, ![t].pc = "count"]
              /\ table' = i_hashtable_insert(table, p, n)
              /\ inode' = [inode EXCEPT ![n] = NewInode(p)]
        /\ UNCHANGED <<disk, files, hashmap, data, fds, calls, raced, undefined>>

(* Back in the library: the reference is counted, the first one enters the *)
(* inode in the library's map.  The application then writes to the file.   *)
Count(t) ==
    LET r == thr[t]
    IN  /\ At(t, "count")
        /\ inode' = [inode EXCEPT ![r.ino].refcount = @ + 1]
        /\ hashmap' = IF inode[r.ino].refcount = 0
                      THEN [hashmap EXCEPT ![inode[r.ino].path] = r.ino] ELSE hashmap
        /\ fds' = fds \cup {[fd |-> r.fd, file |-> r.file, ino |-> r.ino]}
        /\ cached' = [cached EXCEPT ![r.ino] = @ \cup {r.file}]
        /\ Return(t)
        /\ UNCHANGED <<disk, files, kernel, lost, calls, raced, undefined>>

-----------------------------------------------------------------------------
(* close. *)

Close(t) ==
    /\ MayCall(t)
    /\ \E h \in fds :
          /\ Begins("close", inode[h.ino].path)
          /\ fds' = fds \ {h}
          /\ thr' = [thr EXCEPT ![t] = [Idle EXCEPT !.pc = "check", !.fd = h.fd,
                                                    !.file = h.file, !.ino = h.ino]]
    /\ UNCHANGED <<disk, files, kernel, hashmap, inode, data, undefined>>

CheckLast(t) ==
    LET n == inode[thr[t].ino]
    IN  /\ At(t, "check")
        /\ Goto(t, IF n.refcount = 1 /\ n.reclaim THEN "closedrop" ELSE "closecmd")
        /\ UNCHANGED <<disk, files, kernel, hashmap, inode, data, fds, calls, raced, undefined>>

(* Mutant of Drop: the inode stays in the library's map. *)
Drop_keeps_entry(i) ==
    /\ lost' = lost \cup cached[i]
    /\ cached' = [cached EXCEPT ![i] = {}]
    /\ UNCHANGED hashmap

(* poly_cache_drop, then polystore_inode_hashmap_delete. *)
Drop(i) ==
    /\ lost' = lost \cup cached[i]
    /\ cached' = [cached EXCEPT ![i] = {}]
    /\ hashmap' = [hashmap EXCEPT ![inode[i].path] = None]

CloseDrop(t) ==
    /\ At(t, "closedrop")
    /\ Drop(thr[t].ino)
    /\ Goto(t, "closecmd")
    /\ UNCHANGED <<disk, files, kernel, inode, fds, calls, raced, undefined>>

(* The library reads the path for the command, then polyos_close looks it  *)
(* up.                                                                     *)
CloseCmd(t) ==
    /\ At(t, "closecmd")
    /\ thr' = [thr EXCEPT ![t].path = inode[thr[t].ino].path, ![t].pc = "closefind"]
    /\ UNCHANGED <<disk, files, kernel, hashmap, inode, data, fds, calls, raced, undefined>>

CloseFind(t) ==
    LET i == i_hashtable_search(thr[t].path)
    IN  /\ At(t, "closefind")
        /\ thr' = [thr EXCEPT ![t] = IF i = None THEN Idle
                                     ELSE [@ EXCEPT !.found = i, !.pc = "closed"]]
        /\ UNCHANGED <<disk, files, kernel, hashmap, inode, data, fds, calls, raced, undefined>>

(* Mutant of polyos_close: an unlinked inode goes with any of its closes. *)
polyos_close_early(t) ==
    LET i == thr[t].found
        n == inode[i].refcount - 1
    IN  /\ At(t, "closed")
        /\ \/ /\ inode[i].reclaim
              /\ inode' = [inode EXCEPT ![i].refcount = n, ![i].memory = "freed"]
              /\ table' = i_hashtable_delete(thr[t].path)
           \/ /\ ~ inode[i].reclaim
              /\ inode' = [inode EXCEPT ![i].refcount = n]
              /\ UNCHANGED table
        /\ Return(t)
        /\ UNCHANGED <<disk, files, inodes, hashmap, data, fds, calls, raced, undefined>>

polyos_close(t) ==
    LET i == thr[t].found
        n == inode[i].refcount - 1
    IN  /\ At(t, "closed")
        /\ \/ /\ n = 0 /\ inode[i].reclaim
              /\ inode' = [inode EXCEPT ![i].refcount = n, ![i].memory = "freed"]
              /\ table' = i_hashtable_delete(thr[t].path)
           \/ /\ ~ (n = 0 /\ inode[i].reclaim)
              /\ inode' = [inode EXCEPT ![i].refcount = n]
              /\ UNCHANGED table
        /\ Return(t)
        /\ UNCHANGED <<disk, files, inodes, hashmap, data, fds, calls, raced, undefined>>

-----------------------------------------------------------------------------
(* unlink. *)

Unlink(t) ==
    /\ MayCall(t)
    /\ \E p \in Paths :
          /\ Begins("unlink", p)
          /\ thr' = [thr EXCEPT ![t] = [Idle EXCEPT !.pc = "find", !.path = p]]
    /\ UNCHANGED <<disk, files, kernel, hashmap, inode, data, fds, undefined>>

(* The count is read without the inode's lock. *)
FindUnused(t) ==
    LET i == hashmap[thr[t].path]
    IN  /\ At(t, "find")
        /\ thr' = [thr EXCEPT
              ![t].ino = i,
              ![t].pc = IF i # None /\ inode[i].refcount = 0 THEN "drop" ELSE "unlink"]
        /\ UNCHANGED <<disk, files, kernel, hashmap, inode, data, fds, calls, raced, undefined>>

DropUnused(t) ==
    /\ At(t, "drop")
    /\ Drop(thr[t].ino)
    /\ Goto(t, "unlink")
    /\ UNCHANGED <<disk, files, kernel, inode, fds, calls, raced, undefined>>

UnlinkFiles(t) ==
    /\ At(t, "unlink")
    /\ disk' = [disk EXCEPT ![thr[t].path] = None]
    /\ Goto(t, "unlinkfind")
    /\ UNCHANGED <<files, kernel, hashmap, inode, data, fds, calls, raced, undefined>>

UnlinkFind(t) ==
    LET i == i_hashtable_search(thr[t].path)
    IN  /\ At(t, "unlinkfind")
        /\ thr' = [thr EXCEPT ![t] = IF i = None THEN Idle
                                     ELSE [@ EXCEPT !.found = i, !.pc = "unlinked"]]
        /\ UNCHANGED <<disk, files, kernel, hashmap, inode, data, fds, calls, raced, undefined>>

polyos_unlink(t) ==
    LET i == thr[t].found
    IN  /\ At(t, "unlinked")
        /\ \/ /\ inode[i].refcount = 0
              /\ inode' = [inode EXCEPT ![i].memory = "freed"]
              /\ table' = i_hashtable_delete(thr[t].path)
           \/ /\ inode[i].refcount # 0
              /\ inode' = [inode EXCEPT ![i].reclaim = TRUE]
              /\ UNCHANGED table
        /\ Return(t)
        /\ UNCHANGED <<disk, files, inodes, hashmap, data, fds, calls, raced, undefined>>

-----------------------------------------------------------------------------
(* rename. *)

(* Nobody else is in a call and the new name is free everywhere. *)
Alone(t, q) ==
    /\ \A u \in Threads \ {t} : thr[u].pc = "idle"
    /\ disk[q] = None /\ Find(q) = 0 /\ hashmap[q] = None

Rename(t) ==
    /\ MayCall(t)
    /\ \E p, q \in Paths :
          /\ p # q /\ (AnyRename \/ Alone(t, q))
          /\ thr' = [thr EXCEPT ![t] = [Idle EXCEPT !.pc = "rename", !.path = p, !.to = q]]
    /\ UNCHANGED raced
    /\ UNCHANGED <<disk, files, kernel, hashmap, inode, data, fds, undefined>>

(* The file systems replace what is at the new name; without a file at the *)
(* old one the call ends.                                                  *)
RenameFiles(t) ==
    LET p == thr[t].path
    IN  /\ At(t, "rename")
        /\ \/ disk[p] = None /\ Return(t) /\ UNCHANGED disk
           \/ /\ disk[p] # None
              /\ disk' = [disk EXCEPT ![p] = None, ![thr[t].to] = disk[p]]
              /\ Goto(t, "krename")
        /\ UNCHANGED <<files, kernel, hashmap, inode, data, fds, calls, raced, undefined>>

(* i_hashtable_search_and_rename: an entry at the new name stays, behind. *)
polyos_rename(t) ==
    LET p == thr[t].path
        q == thr[t].to
        i == i_hashtable_search(p)
    IN  /\ At(t, "krename")
        /\ IF i = None THEN UNCHANGED <<table, inode>>
           ELSE /\ table' = i_hashtable_insert(i_hashtable_delete(p), q, i)
                /\ inode' = [inode EXCEPT ![i].path = q]
        /\ Goto(t, "hashrename")
        /\ UNCHANGED <<disk, files, inodes, hashmap, data, fds, calls, raced, undefined>>

HashmapRename(t) ==
    LET p == thr[t].path
    IN  /\ At(t, "hashrename")
        /\ hashmap' = IF hashmap[p] = None THEN hashmap
                      ELSE [hashmap EXCEPT ![p] = None, ![thr[t].to] = hashmap[p]]
        /\ Return(t)
        /\ UNCHANGED <<disk, files, kernel, inode, data, fds, calls, raced, undefined>>

-----------------------------------------------------------------------------
(* A step on an inode whose pages the kernel has freed and unmapped. *)
UseFreedInode ==
    /\ ~ undefined
    /\ \E t \in Threads : \E i \in Uses(t) : Freed(i)
    /\ undefined' = TRUE
    /\ UNCHANGED <<disk, files, kernel, hashmap, inode, data, fds, thr, calls, raced>>

Init ==
    /\ disk = [p \in Paths |-> None] /\ files = 0
    /\ table = <<>> /\ hashmap = [p \in Paths |-> None]
    /\ inode = [i \in Ids |-> [memory |-> "none", path |-> None, refcount |-> 0,
                               reclaim |-> FALSE]]
    /\ inodes = 0
    /\ cached = [i \in Ids |-> {}] /\ lost = {}
    /\ fds = {} /\ thr = [t \in Threads |-> Idle]
    /\ calls = 0 /\ raced = FALSE /\ undefined = FALSE

Thread(t) ==
    \/ Open(t) \/ Search(t) \/ Insert(t) \/ Count(t)
    \/ Close(t) \/ CheckLast(t) \/ CloseDrop(t) \/ CloseCmd(t) \/ CloseFind(t) \/ polyos_close(t)
    \/ Unlink(t) \/ FindUnused(t) \/ DropUnused(t) \/ UnlinkFiles(t) \/ UnlinkFind(t)
    \/ polyos_unlink(t)
    \/ Rename(t) \/ RenameFiles(t) \/ polyos_rename(t) \/ HashmapRename(t)

Next == (\E t \in Threads : Thread(t)) \/ UseFreedInode

Spec == Init /\ [][Next]_vars

-----------------------------------------------------------------------------
(* Properties. *)

(* References that are counted: descriptors the application holds and those *)
(* whose close has not reached the kernel's decrement.                     *)
Closing == {[fd |-> thr[t].fd, file |-> thr[t].file, ino |-> thr[t].ino] :
               t \in {t \in Threads : thr[t].pc \in ClosePCs}}
Refs    == fds \cup Closing

(* The reference count is kept by two parties, the library counting up and *)
(* the kernel counting down on the inode it finds by path; it is the exact *)
(* number of descriptors whatever opens, closes and unlinks interleave.    *)
RefcountExact ==
    \A i \in Ids : inode[i].memory = "live" =>
        inode[i].refcount = Cardinality({h \in Refs : h.ino = i})

(* Descriptors of one file share one Poly-inode, and so one index, one     *)
(* size and one lock: concurrent first opens do not make two.              *)
OneInodePerFile == \A g, h \in Refs : g.file = h.file => g.ino = h.ino

(* As long as a descriptor is open the kernel's table leads from the path  *)
(* of its inode to that inode, so that close and unlink act on the right   *)
(* one; and the table never leads to freed memory.                         *)
TableFinds ==
    /\ \A h \in Refs : ~ Freed(h.ino) /\ i_hashtable_search(inode[h.ino].path) = h.ino
    /\ \A k \in DOMAIN table : ~ Freed(table[k].ino)

(* Steps on freed inodes are possible: open returns an inode that is not   *)
(* counted yet, unlink and close decide on a count they read earlier, the  *)
(* library's map outlives its inodes.  They all need an unlink that        *)
(* overlaps another call on its path, or a close that overlaps a call on   *)
(* an unlinked file: sequential programs, and programs whose calls on      *)
(* linked files overlap in any way, never touch a freed inode.             *)
NoFreedUse == undefined => raced

(* Buffered data is dropped for files that are unlinked, or being unlinked *)
(* by a call that has not reached the file systems yet, and no others.     *)
LostAreUnlinked ==
    \A p \in Paths : disk[p] \in lost =>
        \E t \in Threads : thr[t].pc \in UnlinkPCs /\ thr[t].path = p
=============================================================================
