------------------------------- MODULE MCVfs --------------------------------
(***************************************************************************)
(* Small instances of Vfs: what symbolic links hold.                       *)
(***************************************************************************)
EXTENDS Vfs

CONSTANT x

\* The first is absolute: it leads to the root, nowhere when there is no x, and
\* through itself when the link is x.  The second leads to a name x in the same
\* directory; the third, in a subdirectory, to one next to the subdirectory.
Targets == {[abs |-> TRUE, names |-> <<x, "..">>], [abs |-> FALSE, names |-> <<x>>],
            [abs |-> FALSE, names |-> <<"..", x>>]}
=============================================================================
