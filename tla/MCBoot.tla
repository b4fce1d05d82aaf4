------------------------------- MODULE MCBoot -------------------------------
(***************************************************************************)
(* Small instances of Boot: archives of up to three entries, programs of   *)
(* up to two segments.                                                     *)
(***************************************************************************)
EXTENDS Boot

Names4 == {"bin", "sbin", "etc", "dev", "console", "init", "sh", "busybox", "d", "x", "l", "hostname",
           "passwd"}
Dirs4 == << <<"bin">>, <<"sbin">>, <<"etc">>, <<"dev">> >>
Console == <<"console">>

File1(path, data) == [path |-> path, kind |-> "reg", data |-> Text(data)]
Link(path, target) == [path |-> path, kind |-> "lnk", data |-> target]
Targets == {Text("busybox"), Abs(<<"bin">>), Abs(<<>>), Abs(<<"l", "bin">>)}

Entry ==
  { [path |-> <<"bin">>, kind |-> "dir", data |-> NULL],
    File1(<<"bin", "busybox">>, "elf"), Link(<<"bin", "sh">>, Text("busybox")),
    File1(<<"sbin", "init">>, "elf"), File1(<<"init">>, "elf"), File1(<<"bin", "sh">>, "elf"),
    File1(<<"init">>, "script"), File1(<<"etc", "hostname">>, "name"),
    File1(<<"etc", "passwd">>, "users"),
    File1(<<"d", "x">>, "elf"), Link(<<"d">>, Abs(<<"bin">>)),
    [path |-> <<>>, kind |-> "dir", data |-> NULL],
    [path |-> <<"x">>, kind |-> "other", data |-> NULL],
    [path |-> <<>>, kind |-> "trailer", data |-> NULL] }

Module(a) == [type |-> "module", value |-> a]
Cmdline(p) == [type |-> "cmdline", value |-> p]
End == [type |-> "end", value |-> NULL]
Tag(t) == [type |-> "other", value |-> NULL]

Lists ==
  {<<Cmdline(<<"d", "x">>), Module(a)>> : a \in SeqOf(Entry, 2)} \cup
  {<<Module(<<e>>), Tag(0), Module(a), Cmdline(<<"bin", "busybox">>)>> : e \in Entry, a \in {<<>>}} \cup
  {<<Cmdline(<<"init">>), Module(<<e>>), Cmdline(NULL)>> : e \in Entry} \cup
  {<<Module(a), End, Cmdline(<<"x">>)>> : a \in [1 .. 3 -> Entry]} \cup
  {<<Cmdline(<<"d", "x">>), Module(<<Link(<<"d">>, Abs(<<"bin">>)), File1(<<"bin", "x">>, "elf")>>)>>,
   <<Module(<<Link(<<"l">>, Abs(<<>>)), Link(<<"d">>, Abs(<<"l", "bin">>)),
              Link(<<"d", "x", "sh">>, Text("busybox"))>>)>>}

Seg(vaddr, filesz, memsz, offset) ==
  [load |-> TRUE, vaddr |-> vaddr, filesz |-> filesz, memsz |-> memsz, offset |-> offset]
Note == [Seg(0, 0, 0, 0) EXCEPT !.load = FALSE]

Programs ==
  { [size |-> 9, phoff |-> 0, phdrs |-> <<Note, Seg(1, 5, 5, 1), Seg(9, 2, 3, 7)>>],
    [size |-> 4, phoff |-> 1, phdrs |-> <<Seg(2, 3, 9, 2)>>],
    [size |-> 6, phoff |-> 3, phdrs |-> <<Seg(4, 4, 4, 1), Seg(8, 0, 2, 0), Seg(8, 0, 0, 0)>>],
    [size |-> 6, phoff |-> 0, phdrs |-> <<Seg(0, 2, 2, 0), Seg(2, 4, 5, 2)>>],
    [size |-> 3, phoff |-> 2, phdrs |-> <<Seg(4, 2, 4, 0), Note>>] }

Arguments == { [argv |-> <<3>>, envp |-> <<2>>], [argv |-> <<2>>, envp |-> <<1, 2>>] }

\* Enough frames, consecutive or not; too many of them outside the direct map; too
\* few, at each of the places where one is taken.
Free == { 1 .. 12, (1 .. 13) \ {9}, 6 .. 16, 1 .. 6, 2 .. 4, {3, 5}, {2}, {} }
=============================================================================
