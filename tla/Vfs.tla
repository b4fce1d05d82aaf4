-------------------------------- MODULE Vfs ---------------------------------
(***************************************************************************)
(* The name space of fs/vfs.c over fs/ramfs.c: dentries and inodes with    *)
(* their reference counts, path resolution across mounts and links, and    *)
(* the calls that open, create, link, remove and rename.                   *)
(*                                                                         *)
(* A call is one step: it runs with interrupts off and does not sleep.     *)
(* Operators named as in the source take a record of the whole state and   *)
(* return the one the function leaves.                                     *)
(***************************************************************************)
EXTENDS Integers, FiniteSets, FiniteSetsExt, SequencesExt, Eval

CONSTANTS
  Name,       \* names of files and directories
  File,       \* the objects of file_cache
  NULL,
  DENTRIES,   \* dentries dentry_cache can hand out
  INODES,     \* the same for inode_cache
  NLINKS,     \* i_nlink wraps here, 2^32 in the code
  Initrd,     \* "reg", "dir" or "none": what initrd_populate puts in the root
  First,      \* its name
  Target,     \* paths that symbolic links hold
  STACK,      \* frames of 4 KB, see deepen, that fit the stack of a task: one
  MAX_DEPTH,  \* bound on these frames: deeper links, most of which never end,
              \* are taken to use up the stack
  MAX_REFS,   \* bounds: a call that would count further, or leave a link
  MAX_NLINK   \* count above this one, is left out

ASSUME VfsConstants ==
  /\ NULL \notin Name \cup File /\ NULL \notin Int
  /\ {DENTRIES, INODES, STACK, MAX_DEPTH, MAX_REFS} \subseteq Nat \ {0}
  /\ MAX_NLINK \in Nat /\ NLINKS \in Nat \ 0 .. MAX_NLINK
  /\ Initrd \subseteq {"none", "reg", "dir"} /\ First \in Name

Dentry == 0 .. DENTRIES - 1
Inode == 0 .. INODES - 1
vfs_root == 0

VARIABLES
  dentry,    \* name, inode, parent, refs (0: free) and mount, the d_mountpoint
  children,  \* d_children of each
  inode,     \* kind, nlink, refs (0: free) and data, the target of a link
  files,     \* f_dentry of each open file, NULL for a free object
  cwd,       \* of the process that makes the calls
  mounts,    \* the mount points of the list of mounts
  crash,     \* "null" or "freed": the kernel has used such a pointer;
             \* "stack": it has written below its stack, to memory in use
  bare,      \* dentries that a failing symlink or mknod left without inode
  skew,      \* history: by how much each d_refcount is off, see RefsAccounted
  trace      \* history: the latest call failed, is not one of those that undo
             \* only a part ("partly"), and changed something

vars == <<dentry, children, inode, files, cwd, mounts, crash, bare, skew, trace>>

Now == [dentry |-> dentry, children |-> children, inode |-> inode, files |-> files,
        cwd |-> cwd, mounts |-> mounts, crash |-> crash, bare |-> bare, skew |-> skew,
        depth |-> 0]

NoDentry == [name |-> NULL, inode |-> NULL, parent |-> NULL, refs |-> 0, mount |-> NULL]
NoInode == [kind |-> "none", nlink |-> 0, refs |-> 0, data |-> NULL]

\* The inodes of S.  No call reads one again that no dentry holds: only its
\* references are kept.
Inodes(S) ==
  [i \in Inode |-> IF \E d \in Dentry : S.dentry[d].inode = i THEN S.inode[i]
                   ELSE [NoInode EXCEPT !.refs = S.inode[i].refs]]

\* The call leaves S and returns r, or crashes.
Done(S, r) ==
  \/ /\ S.crash # "no" /\ crash' = S.crash
     \* the rest says nothing any more
     /\ dentry' = [d \in Dentry |-> NoDentry] /\ children' = [d \in Dentry |-> <<>>]
     /\ inode' = [i \in Inode |-> NoInode] /\ files' = [f \in File |-> NULL]
     /\ cwd' = vfs_root /\ mounts' = <<>> /\ bare' = {} /\ skew' = [d \in Dentry |-> 0]
     /\ trace' = FALSE
  \/ /\ S.crash = "no"
     /\ \A d \in Dentry : S.dentry[d].refs <= MAX_REFS
     /\ \A i \in Inode : S.inode[i].nlink <= MAX_NLINK
     /\ dentry' = S.dentry /\ children' = S.children /\ inode' = Inodes(S)
     /\ files' = S.files /\ cwd' = S.cwd /\ mounts' = S.mounts
     /\ bare' = S.bare /\ skew' = S.skew
     /\ trace' = (r = "fail" /\ [S EXCEPT !.depth = 0] # Now)
     /\ UNCHANGED crash

\* After kmain: the root, held by its super block, by its mount and by init's
\* root and cwd, and the file or directory of the initrd, if any.  ramfs_mount,
\* ramfs_create and ramfs_mkdir keep the reference of inode_alloc besides the
\* dentry's.
Init ==
  /\ \E kind \in Initrd :
       /\ dentry = [d \in Dentry |->
            CASE d = vfs_root -> [NoDentry EXCEPT !.inode = 0, !.refs = 4]
              [] d = 1 /\ kind # "none" ->
                   [name |-> First, inode |-> 1, parent |-> vfs_root, refs |-> 1, mount |-> NULL]
              [] OTHER -> NoDentry]
       /\ children = [d \in Dentry |-> IF d = vfs_root /\ kind # "none" THEN <<1>> ELSE <<>>]
       /\ inode = [i \in Inode |->
            CASE i = 0 -> [kind |-> "dir", nlink |-> IF kind = "dir" THEN 3 ELSE 2,
                       refs |-> 2, data |-> NULL]
              [] i = 1 /\ kind # "none" -> [kind |-> kind, nlink |-> 1, refs |-> 2, data |-> NULL]
              [] OTHER -> NoInode]
  /\ files = [f \in File |-> NULL]
  /\ cwd = vfs_root
  /\ mounts = <<vfs_root>>
  /\ crash = "no"
  /\ bare = {}
  /\ skew = [d \in Dentry |-> 0]
  /\ trace = FALSE

-----------------------------------------------------------------------------
(* Dentries and inodes.                                                    *)

Crash(S, why) == [S EXCEPT !.crash = why]

\* The call has n frames of 4 KB inside each other: a call of vfs_lookup has the
\* text of a link and a component, one of vfs_lookup_parent a path.
deepen(S, n) == [S EXCEPT !.depth = Max({@, n})]

FreeDentries(S) == {d \in Dentry : S.dentry[d].refs = 0}
FreeInodes(S) == {i \in Inode : S.inode[i].refs = 0}

\* The ones a cache hands out: the lowest.
NewDentry(S) == CHOOSE d \in FreeDentries(S) : \A e \in 0 .. d - 1 : S.dentry[e].refs # 0
NewInode(S) == CHOOSE i \in FreeInodes(S) : \A j \in 0 .. i - 1 : S.inode[j].refs # 0

\* The caches have an object left for a new name, and for its inode.
CanAlloc(S) == FreeDentries(S) # {} /\ FreeInodes(S) # {}

\* Somebody still points to d.
Used(S, d) ==
  \/ S.cwd = d \/ d \in Range(S.mounts) \/ S.children[d] # <<>>
  \/ \E f \in File : S.files[f] = d
  \/ \E e \in Dentry : S.dentry[e].mount = d

dentry_alloc(S, d, name, parent) ==
  LET T == [S EXCEPT !.dentry[d] = [NoDentry EXCEPT !.name = name, !.parent = parent,
                                                    !.refs = 1],
                     !.children[d] = <<>>, !.skew[d] = 0]
  IN  IF parent = NULL THEN T ELSE [T EXCEPT !.children[parent] = Append(@, d)]

inode_put(S, i) ==
  IF S.inode[i].refs = 1 THEN [S EXCEPT !.inode[i] = NoInode]
  ELSE [S EXCEPT !.inode[i].refs = @ - 1]

\* Faulty: the dentry stays in its directory.
list_del_none(S, d) == S

list_del(S, d) ==
  LET p == S.dentry[d].parent
  IN  IF p = NULL THEN S ELSE [S EXCEPT !.children[p] = Remove(@, d)]

dentry_free(S, d) ==
  LET i == S.dentry[d].inode
      T == IF i = NULL THEN list_del(S, d) ELSE inode_put(list_del(S, d), i)
  IN  With([T EXCEPT !.dentry[d] = NoDentry, !.bare = @ \ {d}, !.skew[d] = 0], LAMBDA U :
        IF Used(U, d) THEN Crash(U, "freed") ELSE U)

dentry_get(S, d) ==
  IF S.dentry[d].refs = 0 THEN Crash(S, "freed")
  ELSE [S EXCEPT !.dentry[d].refs = @ + 1]

dentry_put(S, d) ==
  With(S, LAMBDA T : IF T.dentry[d].refs = 1 THEN dentry_free(T, d)
                     ELSE [T EXCEPT !.dentry[d].refs = @ - 1])

\* The first child of d with the name, NULL when there is none.
dentry_lookup_child(S, d, name) ==
  LET c == SelectInSeq(S.children[d], LAMBDA e : S.dentry[e].name = name)
  IN  IF c = 0 THEN NULL ELSE S.children[d][c]

-----------------------------------------------------------------------------
(* Paths: absolute or not, and the components.                             *)

Kind(S, d) == S.inode[S.dentry[d].inode].kind
IsDir(S, d) == Kind(S, d) = "dir"
IsLink(S, d) == S.dentry[d].inode # NULL /\ Kind(S, d) = "lnk"

Walk(S, de, err) == [S |-> S, de |-> de, err |-> err]
Failed(w) == w.err # "ok" \/ w.S.crash # "no"

\* Following a mount replaces the pointer and leaves both counts as they are.
follow_mount(S, d) ==
  LET m == S.dentry[d].mount
  IN  IF m = NULL THEN Walk(S, d, "ok")
      ELSE Walk([S EXCEPT !.skew[d] = @ + 1, !.skew[m] = @ - 1], m, "ok")

\* One turn of the loop of vfs_lookup.  A name that is not in the dentry tree
\* is not found: ramfs_lookup refuses the dentry allocated for it, which goes.
lookup_component(w, c) ==
  LET up == w.S.dentry[w.de].parent
  IN  IF Failed(w) \/ (c = ".." /\ up = NULL) THEN w
      ELSE IF c = ".." THEN Walk(dentry_put(dentry_get(w.S, up), w.de), up, "ok")
      ELSE With(follow_mount(w.S, w.de), LAMBDA m :
             LET ch == dentry_lookup_child(m.S, m.de, c)
                 err == IF m.S.dentry[m.de].inode = NULL THEN "ENOENT"
                        ELSE IF ~IsDir(m.S, m.de) THEN "ENOTDIR"
                        ELSE IF ch = NULL THEN "ENOENT" ELSE "ok"
             IN  IF err # "ok" THEN Walk(dentry_put(m.S, m.de), NULL, err)
                 ELSE Walk(dentry_put(dentry_get(m.S, ch), m.de), ch, "ok"))

\* Faulty: a component that is not found forgets the directory it holds.
lookup_component_leak(w, c) ==
  LET ch == dentry_lookup_child(w.S, w.de, c)
  IN  IF w.err = "ok" /\ c # ".." /\ ch = NULL THEN Walk(w.S, NULL, "ENOENT")
      ELSE lookup_component(w, c)

\* Where a path starts, given the directory of relative ones.
From(S, path, dir) ==
  LET d == IF path.abs THEN vfs_root ELSE dir IN Walk(dentry_get(S, d), d, "ok")

\* Faulty: path resolution with that component.
vfs_lookup_leak(S, path) ==
  FoldLeft(lookup_component_leak, From(S, path, S.cwd), path.names)

\* Faulty: a relative link is read from the cwd of the caller.
LinkDir_cwd(S, d) == S.cwd

\* The directory of relative links: the one that holds the link.
LinkDir(S, d) == S.dentry[d].parent

\* What is left to do of vfs_lookup, and of the calls of it that are under way
\* for links: names to take, and links to let go where such a call returns.
Take(c) == [name |-> c, put |-> NULL]
Put(d) == [name |-> NULL, put |-> d]

Names(names) == [k \in 1 .. Len(names) |-> Take(names[k])]

\* A name c was taken and led to v, base frames being below vfs_lookup.  A link
\* is followed unless it comes last; there may have been no memory for its text.
arrive(v, c, rest, base) ==
  LET last  == IF rest = <<>> THEN TRUE ELSE Head(rest).put # NULL
      lnk   == v.S.inode[v.S.dentry[v.de].inode].data
      depth == base + Len(SelectSeq(rest, LAMBDA t : t.put # NULL)) + 2
      to(w, todo) == [w |-> w, todo |-> todo, base |-> base]
  IN  IF Failed(v) \/ last \/ c = ".." \/ ~IsLink(v.S, v.de) THEN to(v, rest)
      ELSE IF lnk = NULL THEN to(Walk(dentry_put(v.S, v.de), NULL, "EINVAL"), rest)
      ELSE IF depth > MAX_DEPTH THEN to(Walk(Crash(v.S, "stack"), NULL, "ok"), <<>>)
      ELSE to(From(deepen(v.S, depth), lnk, LinkDir(v.S, v.de)),
              Names(lnk.names) \o <<Put(v.de)>> \o rest)

\* vfs_lookup does what is left one thing at a time.
RECURSIVE lookup(_)
lookup(l) ==
  IF l.todo = <<>> \/ l.w.S.crash # "no" THEN l.w
  ELSE LET c == Head(l.todo)
       IN  With(IF c.put # NULL
                THEN [l EXCEPT !.w.S = dentry_put(@, c.put), !.todo = Tail(@)]
                ELSE arrive(lookup_component(l.w, c.name), c.name, Tail(l.todo), l.base),
                LAMBDA m : lookup(m))

lookup_below(S, path, base) ==
  lookup([w |-> From(deepen(S, base + 1), path, S.cwd), todo |-> Names(path.names), base |-> base])

vfs_lookup(S, path) == lookup_below(S, path, 0)

\* The directory of a path whose last component is a name.
vfs_lookup_parent(S, path) ==
  IF Len(path.names) = 1 THEN From(deepen(S, 1), path, S.cwd)
  ELSE lookup_below(S, [path EXCEPT !.names = Front(@)], 1)

\* Absolute paths of one and two names, and names and ".." in the cwd.  Next
\* takes fewer where more tell nothing new: link always fails or crashes.  The
\* mount of the root is not taken off.
NamePath ==
  {[abs |-> TRUE, names |-> <<n, m>>] : n \in Name, m \in Name} \cup
  {[abs |-> a, names |-> <<n>>] : a \in {TRUE, cwd = vfs_root}, n \in Name}
Path == NamePath \cup {[abs |-> FALSE, names |-> <<>>], [abs |-> FALSE, names |-> <<"..">>]}

-----------------------------------------------------------------------------
(* open and close.                                                         *)

\* What a call leaves and returns.
Ret(S, r) == [S |-> S, ret |-> r]

FreeFiles(S) == {f \in File : S.files[f] = NULL}

\* The end of vfs_open, for either way of finding de; writes: O_WRONLY or
\* O_RDWR is set.
open_found(S, de, writes, fail) ==
  IF S.crash # "no" THEN Ret(S, fail)
  ELSE IF \/ S.dentry[de].inode = NULL
          \/ S.dentry[de].inode # NULL /\ writes /\ IsDir(S, de)
          \/ FreeFiles(S) = {}
  THEN Ret(dentry_put(S, de), fail)
  ELSE Ret([S EXCEPT !.files[CHOOSE f \in FreeFiles(S) : TRUE] = de], "ok")

vfs_open(S, path, writes) ==
  With(vfs_lookup(S, path), LAMBDA w :
    IF Failed(w) THEN Ret(w.S, "fail") ELSE open_found(w.S, w.de, writes, "fail"))

\* What ramfs_create, ramfs_mkdir, ramfs_symlink and ramfs_mknod give a dentry.
ramfs_new_inode(S, de, kind, data) ==
  With(S, LAMBDA T :
    LET i == NewInode(T)
    IN  [T EXCEPT !.inode[i] = [kind |-> kind, nlink |-> 1, refs |-> 2, data |-> data],
                  !.dentry[de].inode = i])

\* i_ops is set: in all inodes but those of mknod.
HasOps(S, i) == S.inode[i].kind # "dev"

\* A dentry taken by O_CREAT and not counted: see RefsAccounted.
Uncounted(S, de) == [S EXCEPT !.skew[de] = @ - 1]

\* vfs_open with O_CREAT.  The dentry is used without a reference of its own.
vfs_open_creat(S, path, writes, excl) ==
  With(vfs_lookup_parent(S, path), LAMBDA w :
    LET name == Last(path.names)
        i    == w.S.dentry[w.de].inode
        de   == dentry_lookup_child(w.S, w.de, name)
        d    == NewDentry(w.S)
        N    == ramfs_new_inode(dentry_alloc(w.S, d, name, w.de), d, "reg", NULL)
        put(T) == dentry_put(T, w.de)
    IN  IF Failed(w) THEN Ret(w.S, "partly")
        ELSE IF de # NULL /\ excl THEN Ret(put(dentry_put(Uncounted(w.S, de), de)), "partly")
        ELSE IF de # NULL THEN open_found(put(Uncounted(w.S, de)), de, writes, "partly")
        ELSE IF FreeDentries(w.S) = {} THEN Ret(put(w.S), "partly")
        ELSE IF i = NULL THEN Ret(Crash(w.S, "null"), "partly")
        ELSE IF ~HasOps(w.S, i) \/ FreeInodes(w.S) = {} THEN Ret(put(w.S), "partly")
        ELSE open_found(put(Uncounted(N, d)), d, writes, "partly"))

\* vfs_close: the last file_put, file_free.
vfs_close(S, f) == Ret(dentry_put([S EXCEPT !.files[f] = NULL], S.files[f]), "ok")

-----------------------------------------------------------------------------
(* New names.                                                              *)

\* The body of vfs_mkdir, vfs_symlink and sys_mknod: a dentry, then its inode
\* from the directory's i_ops, which sys_mknod does not look at.  Only
\* vfs_mkdir takes the dentry back when there is no inode.
make(S, path, kind, data) ==
  With(vfs_lookup_parent(S, path), LAMBDA w :
    LET i == w.S.dentry[w.de].inode
        d == NewDentry(w.S)
        D == dentry_alloc(w.S, d, Last(path.names), w.de)
        N == ramfs_new_inode(D, d, kind, data)
        put(T) == dentry_put(T, w.de)
    IN  IF Failed(w) THEN Ret(w.S, "fail")
        ELSE IF FreeDentries(w.S) = {} THEN Ret(put(w.S), "fail")
        ELSE IF i = NULL \/ (kind = "dev" /\ ~HasOps(w.S, i))
        THEN Ret(Crash(w.S, "null"), "fail")
        ELSE IF ~HasOps(w.S, i) \/ (kind = "dir" /\ FreeInodes(w.S) = {}) THEN Ret(put(w.S), "fail")
        ELSE IF FreeInodes(w.S) = {} THEN Ret(put([D EXCEPT !.bare = @ \cup {d}]), "partly")
        ELSE IF kind # "dir" THEN Ret(put(N), "ok")
        ELSE Ret(put([N EXCEPT !.inode[i].nlink = (@ + 1) % NLINKS]), "ok"))

vfs_mkdir(S, path) == make(S, path, "dir", NULL)
vfs_symlink(S, target, path) == make(S, path, "lnk", target)
sys_mknod(S, path) == make(S, path, "dev", NULL)

\* The start of sys_link and vfs_rename: a second path is looked up, then a
\* dentry is allocated in its directory; ready tells whether there is a reason
\* to go on.
second(o, new, ready(_, _), rest(_, _)) ==
  IF Failed(o) THEN Ret(o.S, "fail")
  ELSE With(vfs_lookup_parent(o.S, new), LAMBDA n :
         IF n.S.crash # "no" THEN Ret(n.S, "fail")
         ELSE IF n.err # "ok" THEN Ret(dentry_put(n.S, o.de), "fail")
         ELSE IF ~ready(n.S, o.de) \/ FreeDentries(n.S) = {}
         THEN Ret(dentry_put(dentry_put(n.S, o.de), n.de), "fail")
         ELSE rest(n.S, n.de))

\* Nothing sets the link operation that sys_link calls.
sys_link(S, old, new) ==
  With(vfs_lookup(S, old), LAMBDA o :
    second(o, new, LAMBDA T, d : TRUE, LAMBDA T, d : Ret(Crash(T, "null"), "fail")))

\* A dentry leaves the tree, and the reference for its place there stays.
leave_tree(S, d) == [list_del(S, d) EXCEPT !.skew[d] = @ + 1]

\* ramfs_rename moves the inode to a dentry made for the new name.
ramfs_rename(S, ode, nde) ==
  leave_tree([S EXCEPT !.dentry[nde].inode = S.dentry[ode].inode, !.dentry[ode].inode = NULL,
                       !.bare = IF ode \in @ THEN @ \cup {nde} ELSE @], ode)

vfs_rename(S, old, new) ==
  LET ode(T, opar) == dentry_lookup_child(T, opar, Last(old.names))
  IN  With(vfs_lookup_parent(S, old), LAMBDA o :
        second(o, new, LAMBDA T, opar : ode(T, opar) # NULL, LAMBDA T, npar :
          LET i == T.dentry[o.de].inode
              nde == NewDentry(T)
              D == dentry_alloc(T, nde, Last(new.names), npar)
              put(U) == dentry_put(dentry_put(U, o.de), npar)
          IN  IF i = NULL THEN Ret(Crash(T, "null"), "fail")
              ELSE IF ~HasOps(T, i) THEN Ret(put(T), "fail")
              ELSE Ret(put(ramfs_rename(D, ode(T, o.de), nde)), "ok")))

-----------------------------------------------------------------------------
(* Names removed.                                                          *)

\* Faulty: the inode of the removed name keeps the dentry's reference.
ramfs_unlink_no_put(S, de) ==
  LET i == S.dentry[de].inode
  IN  leave_tree([S EXCEPT !.inode[i].nlink = (@ - 1) % NLINKS, !.dentry[de].inode = NULL], de)

\* ramfs_unlink, of a name that has an inode.
ramfs_unlink(S, de) ==
  LET i == S.dentry[de].inode
      T == [S EXCEPT !.inode[i].nlink = (@ - 1) % NLINKS]
      U == IF T.inode[i].nlink = 0 THEN [inode_put(T, i) EXCEPT !.dentry[de].inode = NULL]
           ELSE T
  IN  leave_tree(U, de)

vfs_unlink(S, path) ==
  With(vfs_lookup_parent(S, path), LAMBDA w :
    LET i  == w.S.dentry[w.de].inode
        de == dentry_lookup_child(w.S, w.de, Last(path.names))
    IN  IF Failed(w) THEN Ret(w.S, "fail")
        ELSE IF de = NULL THEN Ret(dentry_put(w.S, w.de), "fail")
        ELSE IF w.S.dentry[de].inode = NULL THEN Ret(Crash(w.S, "null"), "fail")
        ELSE IF IsDir(w.S, de) THEN Ret(dentry_put(w.S, w.de), "fail")
        ELSE IF i = NULL THEN Ret(Crash(w.S, "null"), "fail")
        ELSE IF ~HasOps(w.S, i) THEN Ret(dentry_put(w.S, w.de), "fail")
        ELSE Ret(dentry_put(ramfs_unlink(w.S, de), w.de), "ok"))

\* vfs_rmdir and ramfs_rmdir, which lowers the link count of the directory
\* before it finds that there is no inode.
vfs_rmdir(S, path) ==
  With(vfs_lookup_parent(S, path), LAMBDA w :
    LET i  == w.S.dentry[w.de].inode
        de == dentry_lookup_child(w.S, w.de, Last(path.names))
        L  == [w.S EXCEPT !.inode[i].nlink = (@ - 1) % NLINKS]
        full == w.S.children[de] # <<>>
    IN  IF Failed(w) THEN Ret(w.S, "fail")
        ELSE IF de = NULL THEN Ret(dentry_put(w.S, w.de), "fail")
        ELSE IF ~full /\ i = NULL THEN Ret(Crash(w.S, "null"), "fail")
        ELSE IF full \/ ~HasOps(w.S, i) THEN Ret(dentry_put(w.S, w.de), "fail")
        ELSE IF L.dentry[de].inode = NULL THEN Ret(dentry_put(L, w.de), "partly")
        ELSE Ret(dentry_put(ramfs_unlink(L, de), w.de), "ok"))

-----------------------------------------------------------------------------
(* The rest.                                                               *)

\* A call that looks a path up and uses the inode it finds.
on_inode(S, path, Good(_, _)) ==
  With(vfs_lookup(S, path), LAMBDA w :
    IF Failed(w) THEN Ret(w.S, "fail")
    ELSE IF w.S.dentry[w.de].inode = NULL THEN Ret(Crash(w.S, "null"), "fail")
    ELSE Ret(dentry_put(w.S, w.de), IF Good(w.S, w.de) THEN "ok" ELSE "fail"))

vfs_stat(S, path) == on_inode(S, path, LAMBDA T, d : TRUE)
vfs_readlink(S, path) == on_inode(S, path, IsLink)
sys_chmod(S, path) == on_inode(S, path, LAMBDA T, d : HasOps(T, T.dentry[d].inode))

sys_chdir(S, path) ==
  With(on_inode(S, path, IsDir), LAMBDA r :
    IF r.ret = "fail" THEN r
    ELSE With(vfs_lookup(S, path), LAMBDA w : Ret(dentry_put([w.S EXCEPT !.cwd = w.de], S.cwd), "ok")))

\* The names that sys_getcwd puts before each other, on the way from d to a
\* root: to that of the mount, if d lies in one.
RECURSIVE getcwd(_)
getcwd(d) ==
  IF d = vfs_root \/ dentry[d].parent = NULL THEN <<>>
  ELSE Append(getcwd(dentry[d].parent), dentry[d].name)

\* ramfs_mount makes a root.
ramfs_mount(S, r) ==
  LET R == ramfs_new_inode(dentry_alloc(S, r, NULL, NULL), r, "dir", NULL)
  IN  [R EXCEPT !.inode[R.dentry[r].inode].nlink = 2]

\* vfs_mount of another ramfs.  Its root is made before there is memory for a
\* struct mount (mnt) and before the mount point is looked up, and stays when
\* either fails.  The mount keeps the reference to its mount point.
vfs_mount(S, path, mnt) ==
  LET r == NewDentry(S)
  IN  IF ~CanAlloc(S) THEN Ret(Crash(S, "null"), "fail")
      ELSE IF ~mnt THEN Ret(ramfs_mount(S, r), "partly")
      ELSE With(vfs_lookup(ramfs_mount(S, r), path), LAMBDA w :
             IF Failed(w) THEN Ret(w.S, "partly")
             ELSE Ret([w.S EXCEPT !.dentry[w.de].mount = r, !.mounts = Append(@, w.de)],
                      "ok"))

\* vfs_umount takes mount n, found by the name of its device or of its mount
\* point, off the list; the reference to the mount point stays.
vfs_umount(S, n) ==
  IF n \in DOMAIN S.mounts
  THEN Ret([S EXCEPT !.mounts = RemoveAt(@, n), !.skew[S.mounts[n]] = @ + 1], "ok")
  ELSE Ret(S, "fail")

\* A read, write or lseek uses the inode of the file's dentry unseen.
use_file(S, f) ==
  IF S.dentry[S.files[f]].inode = NULL THEN Ret(Crash(S, "null"), "fail") ELSE Ret(S, "ok")

\* A call that takes more stack than there is writes to the page frame below,
\* which may be in use or not.
Leaves(S, r, stack) == Done(S, r) \/ (S.depth > stack /\ Done(Crash(S, "stack"), r))

Returns(r) == \E q \in {r} : Leaves(q.S, q.ret, STACK)

Next ==
  /\ crash = "no"
  /\ \/ \E p \in Path :
          \/ \E writes \in BOOLEAN : Returns(vfs_open(Now, p, writes))
          \/ Returns(sys_chdir(Now, p))
          \/ Returns(vfs_mount(Now, p, TRUE))
     \/ Returns(vfs_mount(Now, [abs |-> TRUE, names |-> <<>>], FALSE))
     \/ \E p \in NamePath :
          \/ Returns(vfs_stat(Now, p))
          \/ Returns(vfs_readlink(Now, p))
          \/ Returns(sys_chmod(Now, p))
          \/ \E excl \in BOOLEAN : \E writes \in {FALSE, ~excl} : Returns(vfs_open_creat(Now, p, writes, excl))
          \/ Returns(vfs_mkdir(Now, p))
          \/ \E t \in Target \cup {NULL} : Returns(vfs_symlink(Now, t, p))
          \/ Returns(sys_mknod(Now, p))
          \/ Returns(vfs_unlink(Now, p))
          \/ Returns(vfs_rmdir(Now, p))
          \/ \E q \in NamePath : q.abs /\ Returns(vfs_rename(Now, p, q))
          \/ \E q \in NamePath : Len(q.names) = 2 /\ Returns(sys_link(Now, p, q))
     \/ \E f \in File : files[f] # NULL /\ (Returns(vfs_close(Now, f)) \/ Returns(use_file(Now, f)))
     \/ \E n \in 2 .. Len(mounts) + 1 : Returns(vfs_umount(Now, n))

Spec == Init /\ [][Next]_vars

-----------------------------------------------------------------------------
(* Properties.                                                             *)

\* Counts are not negative, and names, inodes and parents are what they should
\* be.
TypeOK ==
  /\ dentry \in [Dentry -> [name : Name \cup {NULL}, inode : Inode \cup {NULL},
                            parent : Dentry \cup {NULL}, refs : 0 .. MAX_REFS,
                            mount : Dentry \cup {NULL}]]
  /\ \A d \in Dentry : children[d] \in Seq(Dentry)
  /\ inode \in [Inode -> [kind : {"none", "dir", "reg", "lnk", "dev"},
                         nlink : 0 .. NLINKS - 1, refs : Nat, data : Target \cup {NULL}]]
  /\ files \in [File -> Dentry \cup {NULL}]
  /\ cwd \in Dentry /\ mounts \in Seq(Dentry)
  /\ skew \in [Dentry -> Int]
  /\ crash \in {"no", "null", "freed", "stack"} /\ bare \subseteq Dentry
  /\ trace \in BOOLEAN

Allocated(d) == dentry[d].refs > 0

\* d has its place in the tree: in the list of its directory, or as a root.
InTree(d) == IF dentry[d].parent = NULL THEN TRUE ELSE d \in Range(children[dentry[d].parent])

\* The references to d that the kernel should have: for its place in the tree,
\* open files, mounts, the cwd and the root of the process.
Holders(d) ==
  LET one(b) == IF b THEN 1 ELSE 0
  IN  one(InTree(d)) + one(cwd = d) + one(vfs_root = d)
      + Cardinality({f \in File : files[f] = d}) + Cardinality({n \in DOMAIN mounts : mounts[n] = d})

\* Types are right and, as long as nothing dangles, the reference count of a
\* dentry is that of its holders and what skew records, and no more: open with
\* O_CREAT takes none, O_EXCL drops one it never took, a path that crosses a
\* mount moves one from the mount point to the root there, and unlink, rmdir,
\* rename and umount never drop the one for the place that they take away.
\* Every other path through vfs_lookup and its callers, failures included, gives
\* back what it took.
RefsAccounted ==
  /\ TypeOK
  /\ crash = "no" => \A d \in Dentry : Allocated(d) => dentry[d].refs = Holders(d) + skew[d]

\* An inode in use has one reference for each dentry that holds it and the one
\* that ramfs never gives back: it is never freed under a name.
InodesHeld ==
  crash = "no" =>
    \A i \in Inode :
      inode[i].refs > 0 => inode[i].refs = 1 + Cardinality({d \in Dentry : dentry[d].inode = i})

\* ramfs_lookup: "In ramfs the dentries ARE the data".  The lists of children
\* and the parents agree: what a directory lists is allocated, has an inode, is
\* listed once and has that directory as its parent.
TreeExact ==
  crash = "no" =>
    \A d \in Dentry :
      /\ IsInjective(children[d])
      /\ \A k \in 1 .. Len(children[d]) :
           LET c == children[d][k]
           IN  Allocated(c) /\ (dentry[c].inode # NULL \/ c \in bare) /\ dentry[c].parent = d

\* A call that fails leaves the tree, the open files and all counts as they
\* were, whichever component, check or allocation it failed at.  Paths across
\* a mount are the exception, and open with O_CREAT, mount, and symlink, mknod
\* and rmdir where a name has no inode.
FailureLeavesNoTrace == [][trace' => skew' # skew]_vars

\* A path through a symbolic link reaches what it reaches with the text of the
\* link in its place, whatever the cwd: vfs_lookup reads a relative link from
\* the directory that holds it, the one getcwd would name.  Links to links are
\* the exception, which vfs_lookup does not follow on.  A call that follows a
\* link needs more than the stack of a task, so the kernel may stop instead.
LinksTransparent ==
  crash = "no" =>
    \A l \in {d \in Dentry : IsLink(Now, d)} :
      LET lnk  == inode[dentry[l].inode].data
          dir  == IF lnk.abs THEN <<>> ELSE getcwd(dentry[l].parent)
          look(names) == vfs_lookup(Now, [abs |-> TRUE, names |-> names])
          end  == look(dir \o lnk.names)
      IN  (/\ lnk # NULL /\ look(getcwd(l)).de = l
           /\ end.S.crash = "no"
           /\ IF end.err = "ok" THEN ~IsLink(Now, end.de) ELSE TRUE) =>
             \A n \in Name \cup {".."} :
               LET via == look(Append(getcwd(l), n))
                   plain == look(dir \o Append(lnk.names, n))
               IN  via.de = plain.de /\ via.err = plain.err

=============================================================================
