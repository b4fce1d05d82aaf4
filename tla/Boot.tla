-------------------------------- MODULE Boot --------------------------------
(***************************************************************************)
(* kmain from the multiboot tags to the first program: the root file       *)
(* system with its directories and devices, the files of the initrd, and   *)
(* run_init, which tries one program after the other.  Only the boot CPU   *)
(* runs, and only this thread.                                             *)
(*                                                                         *)
(* A path of the archive is a sequence of names, << >> for ".".  The cpio  *)
(* headers and the alignment of what follows them are left out.            *)
(***************************************************************************)
EXTENDS Vfs, Elf

CONSTANTS
  TagLists,   \* multiboot tags that the boot loader may pass
  StdDirs,    \* directories that kmain creates, in order
  Nodes,      \* names of the device nodes of devfs_init
  FreeFrames, \* page frames that may be free when init is created
  Program,    \* programs an "elf" file may hold
  Args,       \* arguments and environments of init
  BOOT_STACK  \* frames of 4 KB, see deepen, that fit the stack of _start: three

ASSUME BootConstants ==
  /\ \A t \in UNION {Range(l) : l \in TagLists} : t.type \in {"cmdline", "module", "end", "other"}
  /\ FreeFrames \subseteq SUBSET (Nat \ {0})
  /\ BOOT_STACK \in Nat \ {0}

VARIABLES
  step,      \* where kmain or run_init is
  k,         \* the index of the loop it is in
  tags,      \* the multiboot tags
  cmdline,   \* the path after "init=" in kernel_cmdline, NULL without one
  archive,   \* entries of the initrd: path, kind and data, NULL without one
  fds,       \* the file behind each of the descriptors 0, 1 and 2 of init
  frames,    \* free page frames
  run,       \* what runs in user mode: path, program, arguments and memory
  refused,   \* history: programs that failed for want of memory or of headers
  lost       \* history: page frames that a failing exec did not give back, see Elf

bootVars == <<step, k, tags, cmdline, archive, fds, frames, run, refused, lost>>

Abs(names) == [abs |-> TRUE, names |-> names]

\* What a file holds, in the form of what a link holds.
Text(t) == [abs |-> FALSE, names |-> <<t>>]

\* _start has called kmain; no memory of the file system is in use.
BootInit ==
  /\ dentry = [d \in Dentry |-> NoDentry]
  /\ children = [d \in Dentry |-> <<>>]
  /\ inode = [i \in Inode |-> NoInode]
  /\ files = [f \in File |-> NULL]
  /\ cwd = NULL /\ mounts = <<>> /\ crash = "no" /\ bare = {}
  /\ skew = [d \in Dentry |-> 0]
  /\ trace = FALSE
  /\ step = "tags" /\ k = 1
  /\ tags \in TagLists
  /\ cmdline = NULL /\ archive = NULL
  /\ fds = [i \in 0 .. 2 |-> NULL]
  /\ frames = {}
  /\ run = NULL
  /\ refused = {}
  /\ lost = [table |-> {}, shared |-> {}]

\* The loop goes on, or kmain goes on to the next step.
Goto(s) == step' = s /\ k' = 1
Again == k' = k + 1 /\ UNCHANGED step

At(s) == step = s /\ crash = "no"

-----------------------------------------------------------------------------
(* kmain.                                                                  *)


\* The first module is the initrd.
keep_module(value) == IF archive = NULL THEN value ELSE archive

\* The loop over the tags.  A later command line replaces an earlier one.
parse_tag ==
  /\ At("tags")
  /\ \/ /\ k > Len(tags) \/ (k <= Len(tags) /\ tags[k].type = "end")
        /\ Goto("root") /\ UNCHANGED <<cmdline, archive>>
     \/ /\ k <= Len(tags) /\ tags[k].type # "end" /\ Again
        /\ cmdline' = IF tags[k].type = "cmdline" THEN tags[k].value ELSE cmdline
        /\ archive' = IF tags[k].type = "module" THEN keep_module(tags[k].value) ELSE archive
  /\ UNCHANGED <<vars, tags, fds, frames, run, refused, lost>>

\* The call leaves S; what is not said otherwise stays.
Does(S) == (\E T \in {S} : Done(T, "ok")) /\ UNCHANGED <<tags, cmdline, archive>>
Only(S) == Does(S) /\ UNCHANGED <<fds, frames, run, refused, lost>>

\* The kernel stops in S.
Stops(S, why) == UNCHANGED <<step, k>> /\ Only(Crash(S, why))

\* vfs_mount of "/": the first mount is the root.
mount_root ==
  /\ At("root") /\ Goto("dirs")
  /\ Only([ramfs_mount(Now, vfs_root) EXCEPT !.dentry[vfs_root].refs = 2,
                                             !.mounts = <<vfs_root>>])

make_dir ==
  /\ At("dirs")
  /\ IF k > Len(StdDirs) THEN Goto("dev") /\ Only(Now)
     ELSE Again /\ Only(vfs_mkdir(Now, Abs(StdDirs[k])).S)

\* devfs_init, one device: a dentry and an inode with the driver's f_ops.  The
\* directory has been looked up before and is let go after the last.
devfs_init ==
  /\ At("dev")
  /\ LET dev == vfs_lookup(Now, Abs(<<"dev">>)).de
         d == NewDentry(Now)
     IN  IF k > Len(Nodes) THEN Goto("initrd") /\ Only(Now)
         ELSE /\ Again
              /\ Only(ramfs_new_inode(dentry_alloc(Now, d, Nodes[k], dev), d, "chr", NULL))

-----------------------------------------------------------------------------
(* initrd_populate.                                                        *)

\* ramfs_create_dir and ramfs_create_file: no look whether the name is taken.
ramfs_create(S, parent, name, kind, data) ==
  With(NewDentry(S), LAMBDA d :
    LET T == ramfs_new_inode(dentry_alloc(S, d, name, parent), d, kind, data)
    IN  IF kind # "dir" THEN T
        ELSE [T EXCEPT !.inode[S.dentry[parent].inode].nlink = (@ + 1) % NLINKS])

\* Faulty: a directory that is there is made again.
find_or_create_again(w, name) ==
  LET S == ramfs_create(w.S, w.de, name, "dir", NULL)
  IN  Walk(S, Last(S.children[w.de]), "ok")

\* A directory on the way to an entry, created when no child has the name.
find_or_create(w, name) ==
  With(IF dentry_lookup_child(w.S, w.de, name) # NULL THEN w.S
       ELSE ramfs_create(w.S, w.de, name, "dir", NULL),
       LAMBDA S : Walk(S, dentry_lookup_child(S, w.de, name), "ok"))

\* The entry itself, in the directory found.
add_entry(w, e) ==
  IF e.kind = "lnk" THEN vfs_symlink(w.S, e.data, Abs(e.path)).S
  ELSE IF e.kind \in {"dir", "reg"} THEN ramfs_create(w.S, w.de, Last(e.path), e.kind, e.data)
  ELSE w.S

\* Where links lead to links, the way to an entry takes more stack than there is.
populate ==
  /\ At("initrd")
  /\ IF archive = NULL \/ (archive # NULL /\ k > Len(archive)) THEN Goto("hostname") /\ Only(Now)
     ELSE IF archive[k].kind = "trailer" THEN Goto("hostname") /\ Only(Now)
     ELSE IF archive[k].path = <<>> THEN Again /\ Only(Now)
     ELSE LET w == FoldLeft(find_or_create, Walk(Now, vfs_root, "ok"), Front(archive[k].path))
          IN  \E S \in {add_entry(w, archive[k])} :
                \/ Again /\ Only(S)
                \/ S.depth > BOOT_STACK /\ Stops(S, "stack")

-----------------------------------------------------------------------------
(* The files of /etc, and init.                                            *)

\* vfs_open with O_CREAT, vfs_write, vfs_close.  Without O_TRUNC the end of a
\* longer file stays.
write_file(S, path, trunc, text) ==
  With(vfs_open_creat(S, path, TRUE, FALSE), LAMBDA r :
    IF r.ret # "ok" THEN r.S
    ELSE LET f == CHOOSE g \in File : r.S.files[g] # NULL
             i == r.S.dentry[r.S.files[f]].inode
             old == r.S.inode[i].data
             new == IF trunc \/ old = NULL THEN text ELSE [text EXCEPT !.names = @ \o old.names]
         IN  vfs_close(IF r.S.inode[i].kind = "reg" THEN [r.S EXCEPT !.inode[i].data = new]
                       ELSE r.S, f).S)

write_hostname ==
  /\ At("hostname") /\ Goto("passwd")
  /\ Only(write_file(Now, Abs(<<"etc", "hostname">>), TRUE, Text("myos")))

write_passwd ==
  /\ At("passwd") /\ Goto("task")
  /\ Only(write_file(Now, Abs(<<"etc", "passwd">>), FALSE, Text("root")))

\* task_create for run_init, whose root and cwd are looked up.
create_init ==
  /\ At("task") /\ Goto("console")
  /\ Does([Now EXCEPT !.cwd = vfs_root, !.dentry[vfs_root].refs = @ + 2])
  /\ frames' \in FreeFrames
  /\ UNCHANGED <<fds, run, refused, lost>>

\* run_init opens the console as descriptor 0 and copies it to 1 and 2.
open_console ==
  /\ At("console") /\ Goto("exec")
  /\ LET r == vfs_open(Now, Abs(<<"dev", "console">>), TRUE)
         f == CHOOSE g \in File : files[g] = NULL
     IN  /\ Does(r.S)
         /\ fds' = IF r.ret = "ok" THEN [i \in 0 .. 2 |-> f] ELSE fds
  /\ UNCHANGED <<frames, run, refused, lost>>

\* The programs in the order of run_init, "init=" first.
init_paths ==
  (IF cmdline = NULL THEN <<>> ELSE <<cmdline>>)
  \o << <<"sbin", "init">>, <<"init">>, <<"bin", "sh">> >>

\* sys_exec of what is open in S as f, an "elf" file.
exec_elf(path, S, f) ==
  \E p \in Program, a \in Args, nomem \in {"none", "phdrs", "mm", "envp", "argv"} :
    \E M \in {exec_image(frames, p, a, nomem)} :
      \/ M.err = "direct" /\ Stops(S, "direct")
      \/ /\ M.err # "direct"
         /\ Does(vfs_close(S, f).S) /\ frames' = M.free /\ UNCHANGED fds
         /\ lost' = [c \in DOMAIN lost |-> lost[c] \cup M.lost[c]]
         /\ \/ /\ M.err # "ok" /\ Again
               /\ refused' = refused \cup {path} /\ UNCHANGED run
            \/ /\ M.err = "ok" /\ Goto("user")
               /\ run' = [path |-> path, prog |-> p, args |-> a, mem |-> M]
               /\ UNCHANGED refused

\* sys_exec for one of them.  The way there may take more stack than there is.
\* A symbolic link, which open does not follow, has no f_ops to read with.  What
\* is no program for the 386 is closed again.
sys_exec(path) ==
  LET r == vfs_open(Now, Abs(path), FALSE)
      f == CHOOSE g \in File : files[g] = NULL
      i == r.S.dentry[r.S.files[f]].inode
  IN  \/ r.S.depth > STACK /\ Stops(r.S, "stack")
      \/ IF r.ret # "ok" THEN Again /\ Only(r.S)
         ELSE IF r.S.inode[i].kind = "lnk" THEN Stops(r.S, "null")
         ELSE IF r.S.inode[i].kind # "reg" \/ r.S.inode[i].data # Text("elf")
         THEN Again /\ Only(vfs_close(r.S, f).S)
         ELSE exec_elf(path, r.S, f)

run_init ==
  /\ At("exec")
  /\ IF k > Len(init_paths) THEN Goto("panic") /\ Only(Now) ELSE sys_exec(init_paths[k])

\* A program runs, or the kernel has stopped: what follows is not kmain's.
booted ==
  (step \in {"user", "panic"} \/ crash # "no") /\ UNCHANGED <<vars, bootVars>>

BootNext ==
  \/ parse_tag \/ mount_root \/ make_dir \/ devfs_init \/ populate
  \/ write_hostname \/ write_passwd \/ create_init \/ open_console \/ run_init \/ booted

BootSpec == BootInit /\ [][BootNext]_<<vars, bootVars>>

-----------------------------------------------------------------------------
(* Properties.                                                             *)

\* The part of a sequence before the first member that ends it.
Before(seq, Ends(_)) ==
  LET end == SelectInSeq(seq, Ends) IN IF end = 0 THEN seq ELSE SubSeq(seq, 1, end - 1)

\* The boot tags of a type.
Given(type) ==
  SelectSeq(Before(tags, LAMBDA t : t.type = "end"), LAMBDA t : t.type = type)

\* The entries of the first module that have a name and are not skipped.
Entries ==
  IF Given("module") = <<>> THEN <<>>
  ELSE SelectSeq(Before(Head(Given("module")).value, LAMBDA e : e.kind = "trailer"),
                 LAMBDA e : e.path # <<>> /\ e.kind # "other")

Dir(path) == [path |-> path, kind |-> "dir", data |-> NULL]

\* Directories of kmain, then those the entries need and the entries, in order.
Listed ==
  LET made(e) == [n \in 1 .. Len(e.path) - 1 |-> Dir(SubSeq(e.path, 1, n))] \o <<e>>
  IN  FoldLeft(LAMBDA l, e : l \o made(e), [n \in DOMAIN StdDirs |-> Dir(StdDirs[n])], Entries)

\* The first of a list with a path, NULL without one.
FirstAt(list, path) ==
  LET n == SelectInSeq(list, LAMBDA e : e.path = path) IN IF n = 0 THEN NULL ELSE list[n]

\* All directories of the path are directories.
Plain(list, path) == \A n \in 1 .. Len(path) - 1 : FirstAt(list, SubSeq(path, 1, n)).kind = "dir"

\* "CPIO initrd", README: from the time the archive has been read, every path
\* of it leads to what its first entry says, kmain's own directories taken
\* first; but for the two files of /etc that kmain opens, and for paths through
\* links or files.
InitrdFound ==
  crash = "no" /\ step \in {"hostname", "passwd", "task", "console", "exec", "user"} =>
    \A list \in {Listed} : \A e \in Range(Entries) :
      Plain(list, e.path) /\ e.path \notin {<<"etc", "hostname">>, <<"etc", "passwd">>} =>
        \E w \in {vfs_lookup(Now, Abs(e.path))} :
          /\ w.err = "ok"
          /\ inode[dentry[w.de].inode].kind = FirstAt(list, e.path).kind
          /\ inode[dentry[w.de].inode].data = FirstAt(list, e.path).data

\* What exec would find at a path is of a kind, and holds data.
Finds(list, path, kind, data) ==
  /\ FirstAt(list, path) # NULL /\ Plain(list, path)
  /\ FirstAt(list, path).kind = kind /\ FirstAt(list, path).data \in data

\* The path leads through a link.
Linked(list, path) == \E n \in 1 .. Len(path) - 1 :
  LET e == FirstAt(list, SubSeq(path, 1, n)) IN IF e = NULL THEN FALSE ELSE e.kind = "lnk"

\* The page frames an exec of the program takes.
Needs(prog) ==
  1 + Cardinality(Table) + STACK_PAGES
  + MapThenSumSet(LAMBDA n : Cardinality({p \in UserPage : Covers(prog.phdrs[n], p)}), DOMAIN prog.phdrs)


\* The program that runs has in memory what its headers say, and on its stack
\* argc, the auxiliary vector, argv and envp, as far as the frames of the stack
\* are consecutive: push_strings copies across the end of a page to the frame
\* that follows in memory.
ImageExact ==
  step = "user" /\ StackContiguous(run.mem) =>
    ImageOf(run.mem, run.prog) /\ StackOf(run.mem, run.args)

\* An exec that fails closes the file again, init has only its console open, and
\* gives all page frames back but those that its page tables do not have: the
\* very last one, when there was none for the page table, since sys_exec does not
\* look at what map_page returns; and those of pages that two segments share.
ExecFailureClean ==
  [][step = "exec" /\ crash' = "no" /\ run' = run =>
       /\ UNCHANGED files
       /\ frames' \cup UNION Range(lost') = frames \cup UNION Range(lost)
       /\ lost'.table \ lost.table \subseteq {f \in frames : \A g \in frames : g <= f}
    ]_<<vars, bootVars>>

=============================================================================
