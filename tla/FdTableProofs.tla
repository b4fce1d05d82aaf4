--------------------------- MODULE FdTableProofs ---------------------------
(***************************************************************************)
(* The reference counts of open files are exact, for any number of         *)
(* processes, files and descriptors, and a call that fails undoes what it  *)
(* did.                                                                    *)
(***************************************************************************)
EXTENDS FdTable, FiniteSetTheorems, TLAPS

Table == [Fd -> File \cup {NULL}]

\* The descriptors of the processes of l that refer to f, d being the tables.
Held(l, d, f) == {p \in l \X Fd : d[p[1]][p[2]] = f}

\* There are OPEN_MAX descriptors.
LEMMA FdFinite == IsFiniteSet(Fd) /\ Cardinality(Fd) = OPEN_MAX
  BY FdTableConstants, FS_Interval DEF Fd

\* A count of a table is a number.
LEMMA RefsFinite ==
  ASSUME NEW table, NEW f
  PROVE  IsFiniteSet({i \in Fd : table[i] = f}) /\ Refs(table, f) \in Nat
  BY FdFinite, FS_Subset, FS_CardinalityType DEF Refs

\* All tables together have no more descriptors than they have room for.
LEMMA HeldBound ==
  ASSUME NEW l \in SUBSET Task, NEW d, NEW f
  PROVE  /\ IsFiniteSet(Held(l, d, f))
         /\ Cardinality(Held(l, d, f)) \in 0 .. Cardinality(Task) * OPEN_MAX
  <1> USE FdTableConstants
  <1>1. /\ IsFiniteSet(Task \X Fd)
        /\ Cardinality(Task \X Fd) = Cardinality(Task) * OPEN_MAX
    BY FdFinite, FS_Product
  <1>2. Held(l, d, f) \subseteq Task \X Fd
    BY DEF Held
  <1>3. /\ IsFiniteSet(Held(l, d, f))
        /\ Cardinality(Held(l, d, f)) <= Cardinality(Task \X Fd)
    BY <1>1, <1>2, FS_Subset
  <1>4. Cardinality(Held(l, d, f)) \in Nat /\ Cardinality(Task \X Fd) \in Nat
    BY <1>1, <1>3, FS_CardinalityType
  <1> QED
    BY <1>1, <1>3, <1>4

\* The descriptors of t and those of the others.
LEMMA HeldSplit ==
  ASSUME NEW l \in SUBSET Task, NEW t \in l, NEW d, NEW f
  PROVE  Cardinality(Held(l, d, f)) = Cardinality(Held(l \ {t}, d, f)) + Refs(d[t], f)
  <1> USE FdTableConstants
  <1> DEFINE I == {i \in Fd : d[t][i] = f}
             row == {t} \X I
             rest == Held(l \ {t}, d, f)
  <1>a. IsFiniteSet(I)
    BY RefsFinite, Zenon
  <1>b. IsFiniteSet({t}) /\ Cardinality({t}) = 1
    BY FS_Singleton
  <1>1. IsFiniteSet(I) /\ IsFiniteSet({t}) /\ Cardinality({t}) = 1
    BY <1>a, <1>b
  <1>2. IsFiniteSet(row) /\ Cardinality(row) = 1 * Cardinality(I)
    BY <1>1, FS_Product
  <1>3. Cardinality(I) = Refs(d[t], f) /\ Refs(d[t], f) \in Nat
    BY RefsFinite DEF Refs
  <1>4. IsFiniteSet(rest) /\ Cardinality(rest) \in Nat
    BY HeldBound, FS_CardinalityType
  <1>5. Held(l, d, f) = rest \cup row
    BY DEF Held
  <1>6. rest \cap row = {}
    BY DEF Held
  <1> HIDE DEF I, row, rest
  <1>7. Cardinality(rest \cup row) = Cardinality(rest) + Cardinality(row) - Cardinality(rest \cap row)
    BY <1>2, <1>4, FS_Union
  <1>8. Cardinality(rest \cap row) = 0
    BY <1>6, FS_EmptySet
  <1>9. Cardinality(Held(l, d, f)) = Cardinality(rest) + Refs(d[t], f)
    BY <1>2, <1>3, <1>4, <1>5, <1>7, <1>8
  <1> QED
    BY <1>9 DEF rest

\* What the tables of other processes hold does not matter.
LEMMA HeldSame ==
  ASSUME NEW l, NEW d, NEW e, NEW f, \A t \in l : d[t] = e[t]
  PROVE  Held(l, d, f) = Held(l, e, f)
  BY DEF Held

\* Setting descriptor i to g.
LEMMA RefsSet ==
  ASSUME NEW table \in Table, NEW i \in Fd, NEW g \in File \cup {NULL}, NEW f
  PROVE  Refs([table EXCEPT ![i] = g], f) =
           Refs(table, f) - (IF table[i] = f THEN 1 ELSE 0) + (IF g = f THEN 1 ELSE 0)
  <1> DEFINE rest == {k \in Fd \ {i} : table[k] = f}
             e == [table EXCEPT ![i] = g]
             I == {k \in Fd : table[k] = f}
  <1>1. /\ IsFiniteSet(rest) /\ Cardinality(rest) \in Nat /\ i \notin rest
        /\ Cardinality(rest \cup {i}) = Cardinality(rest) + 1
    BY FdFinite, FS_Subset, FS_CardinalityType, FS_AddElement
  <1>2. I = IF table[i] = f THEN rest \cup {i} ELSE rest
    OBVIOUS
  <1>3. {k \in Fd : e[k] = f} = IF g = f THEN rest \cup {i} ELSE rest
    BY DEF Table
  <1>4. Refs(table, f) = Cardinality(I)
    BY Zenon DEF Refs
  <1>5. Refs(e, f) = Cardinality({k \in Fd : e[k] = f})
    BY Zenon DEF Refs
  <1> HIDE DEF rest, e, I
  <1>6. Refs(table, f) = Cardinality(rest) + (IF table[i] = f THEN 1 ELSE 0)
    BY <1>1, <1>2, <1>4
  <1>7. Refs(e, f) = Cardinality(rest) + (IF g = f THEN 1 ELSE 0)
    BY <1>1, <1>3, <1>5
  <1>8. Refs(e, f) = Refs(table, f) - (IF table[i] = f THEN 1 ELSE 0) + (IF g = f THEN 1 ELSE 0)
    BY <1>1, <1>6, <1>7
  <1> QED
    BY <1>8 DEF e

\* An empty table refers to nothing.
LEMMA RefsEmpty == \A f \in File : Refs(Empty, f) = 0
  <1> SUFFICES ASSUME NEW f \in File PROVE Refs(Empty, f) = 0
    OBVIOUS
  <1>1. {i \in Fd : Empty[i] = f} = {}
    BY FdTableConstants DEF Empty
  <1> QED
    BY <1>1, FS_EmptySet DEF Refs

\* A table that is divided in two.
LEMMA RefsDivide ==
  ASSUME NEW table \in Table, NEW S \in SUBSET Fd, NEW f \in File
  PROVE  Refs([i \in Fd |-> IF i \in S THEN NULL ELSE table[i]], f) =
           Refs(table, f) - Refs([i \in Fd |-> IF i \in S THEN table[i] ELSE NULL], f)
  <1> USE FdTableConstants
  <1> DEFINE kept == {i \in Fd : i \notin S /\ table[i] = f}
             gone == {i \in Fd : i \in S /\ table[i] = f}
             k == [i \in Fd |-> IF i \in S THEN NULL ELSE table[i]]
             g == [i \in Fd |-> IF i \in S THEN table[i] ELSE NULL]
  <1>1. /\ IsFiniteSet(kept) /\ Cardinality(kept) \in Nat
        /\ IsFiniteSet(gone) /\ Cardinality(gone) \in Nat
    BY FdFinite, FS_Subset, FS_CardinalityType
  <1>2. {i \in Fd : k[i] = f} = kept
    OBVIOUS
  <1>3. {i \in Fd : g[i] = f} = gone
    OBVIOUS
  <1>4. {i \in Fd : table[i] = f} = kept \cup gone /\ kept \cap gone = {}
    OBVIOUS
  <1> HIDE DEF kept, gone, k, g
  <1>5. Cardinality(kept \cap gone) = 0
    BY <1>4, FS_EmptySet
  <1>6. Cardinality(kept \cup gone) = Cardinality(kept) + Cardinality(gone) - Cardinality(kept \cap gone)
    BY <1>1, FS_Union
  <1>7. /\ Refs(table, f) = Cardinality(kept \cup gone)
        /\ Refs(k, f) = Cardinality(kept) /\ Refs(g, f) = Cardinality(gone)
    BY <1>2, <1>3, <1>4, Zenon DEF Refs
  <1>8. Refs(k, f) = Refs(table, f) - Refs(g, f)
    BY <1>1, <1>5, <1>6, <1>7
  <1> QED
    BY <1>8 DEF k, g

-----------------------------------------------------------------------------
(* Steps.                                                                  *)

\* RefsExact, its two halves apart.
Exact == \A f \in File : f_refcount[f] = Cardinality(Held(live, fd, f))

Types ==
  /\ live \subseteq Task /\ freed \subseteq Task /\ wild \subseteq Task
  /\ fd \in [Task -> Table]
  /\ close_on_exec \in [Task -> SUBSET Fd]
  /\ ret \in Fd \cup {EMFILE, ENOMEM, EBADF}
  /\ f_refcount \in [File -> Int]

\* With exact counts the range of the counts follows.
LEMMA ExactIs == Types /\ Exact => RefsExact
  <1> SUFFICES ASSUME Types, Exact PROVE RefsExact
    OBVIOUS
  <1>1. \A f \in File : f_refcount[f] \in 0 .. Cardinality(Task) * OPEN_MAX
    BY HeldBound DEF Types, Exact
  <1>2. f_refcount \in [File -> 0 .. Cardinality(Task) * OPEN_MAX]
    BY <1>1 DEF Types
  <1>3. TypeOK
    BY <1>2 DEF TypeOK, Types, Table
  <1> QED
    BY <1>3 DEF RefsExact, Exact, Held

\* The table of one process becomes tab, and the counts follow.
LEMMA RowStep ==
  ASSUME Types, Exact, NEW t \in live, NEW tab \in Table, live' = live,
         fd' = [fd EXCEPT ![t] = tab],
         \A f \in File : f_refcount'[f] = f_refcount[f] - Refs(fd[t], f) + Refs(tab, f)
  PROVE  Exact'
  <1> SUFFICES ASSUME NEW f \in File
               PROVE  f_refcount'[f] = Cardinality(Held(live', fd', f))
    BY DEF Exact
  <1> DEFINE l == live
             d == fd
             e == [fd EXCEPT ![t] = tab]
  <1>1. l \in SUBSET Task /\ t \in l /\ t \in Task /\ e[t] = tab
        /\ \A u \in l \ {t} : d[u] = e[u]
    BY DEF Types
  <1>2. /\ fd' = e /\ live' = l
        /\ f_refcount'[f] = f_refcount[f] - Refs(d[t], f) + Refs(tab, f)
    OBVIOUS
  <1>3. f_refcount[f] = Cardinality(Held(l, d, f))
    BY DEF Exact
  <1> HIDE DEF l, d, e
  <1>4. Cardinality(Held(l, d, f)) = Cardinality(Held(l \ {t}, d, f)) + Refs(d[t], f)
    BY <1>1, HeldSplit
  <1>5. Cardinality(Held(l, e, f)) = Cardinality(Held(l \ {t}, e, f)) + Refs(e[t], f)
    BY <1>1, HeldSplit
  <1>6. Held(l \ {t}, d, f) = Held(l \ {t}, e, f)
    BY <1>1, HeldSame
  <1>7. Cardinality(Held(l \ {t}, d, f)) \in Nat
    BY <1>1, HeldBound
  <1>8. Refs(d[t], f) \in Nat /\ Refs(tab, f) \in Nat
    BY RefsFinite
  <1> QED
    <2>1. f_refcount'[f] = Cardinality(Held(l, e, f))
      BY <1>1, <1>2, <1>3, <1>4, <1>5, <1>6, <1>7, <1>8
    <2> QED
      BY <2>1, <1>2, Zenon

-----------------------------------------------------------------------------
(* The calls.                                                              *)

\* The process that exists at first has no descriptors.
LEMMA InitExact == Init => Types /\ Exact
  <1> USE FdTableConstants
  <1> SUFFICES ASSUME Init PROVE Types /\ Exact
    OBVIOUS
  <1>1. Types
    BY DEF Init, Types, Table, Empty, Fd
  <1>2. ASSUME NEW f \in File PROVE Cardinality(Held(live, fd, f)) = 0
    <2>1. Held(live, fd, f) = {}
      BY DEF Init, Held, Empty
    <2> QED
      BY <2>1, FS_EmptySet
  <1> QED
    BY <1>1, <1>2 DEF Init, Exact

\* One descriptor of t becomes g.
LEMMA SetExact ==
  ASSUME Types, Exact, NEW t \in live, NEW i \in Fd, NEW g \in File \cup {NULL},
         Install(t, i, g), f_refcount' \in [File -> Int], ret' \in Fd,
         \A f \in File : f_refcount'[f] =
           f_refcount[f] - (IF fd[t][i] = f THEN 1 ELSE 0) + (IF g = f THEN 1 ELSE 0)
  PROVE  Types' /\ Exact'
  <1> USE FdTableConstants
  <1> DEFINE tab == [fd[t] EXCEPT ![i] = g]
  <1>1. t \in Task /\ fd[t] \in Table /\ tab \in Table
    BY DEF Types, Table
  <1>2. fd' = [fd EXCEPT ![t] = tab] /\ UNCHANGED <<live, close_on_exec, freed, wild>>
    BY DEF Install
  <1>3. Types'
    BY <1>1, <1>2 DEF Types
  <1>4. ASSUME NEW f \in File
        PROVE  f_refcount'[f] = f_refcount[f] - Refs(fd[t], f) + Refs(tab, f)
    <2>1. Refs(tab, f) = Refs(fd[t], f) - (IF fd[t][i] = f THEN 1 ELSE 0) + (IF g = f THEN 1 ELSE 0)
      BY <1>1, RefsSet
    <2>2. Refs(fd[t], f) \in Nat /\ f_refcount[f] \in Int
      BY RefsFinite DEF Types
    <2> HIDE DEF tab
    <2> QED
      BY <2>1, <2>2
  <1> HIDE DEF tab
  <1> QED
    BY <1>1, <1>2, <1>3, <1>4, RowStep

\* sys_open: a file that was free is installed at a descriptor that was free.
LEMMA OpenExact ==
  ASSUME Types, Exact, NEW t \in Task, sys_open(t)
  PROVE  Types' /\ Exact'
  <1> USE FdTableConstants
  <1>1. PICK f \in File :
          /\ f_refcount[f] = 0
          /\ \/ \E i \in files_alloc_fd(fd[t]) :
                  /\ Install(t, i, f)
                  /\ f_refcount' = [f_refcount EXCEPT ![f] = 1]
                  /\ ret' = i
             \/ /\ f_refcount' = file_put([f_refcount EXCEPT ![f] = 1], f)
                /\ ret' = EMFILE
                /\ UNCHANGED <<live, fd, close_on_exec, freed, wild>>
    BY DEF sys_open
  <1>2. CASE f_refcount' = file_put([f_refcount EXCEPT ![f] = 1], f)
             /\ ret' = EMFILE /\ UNCHANGED <<live, fd, close_on_exec, freed, wild>>
    <2>1. f_refcount' = f_refcount
      BY <1>1, <1>2 DEF file_put, Types
    <2> QED
      BY <2>1, <1>2 DEF Types, Exact
  <1>3. ASSUME NEW i \in files_alloc_fd(fd[t]), Install(t, i, f),
               f_refcount' = [f_refcount EXCEPT ![f] = 1], ret' = i
        PROVE  Types' /\ Exact'
    <2>1. t \in live /\ i \in Fd /\ fd[t][i] = NULL /\ ret' \in Fd
      BY <1>3 DEF files_alloc_fd, sys_open, Calls
    <2>2. f_refcount' \in [File -> Int]
      BY <1>3 DEF Types
    <2>3. \A g \in File : f_refcount'[g] =
            f_refcount[g] - (IF fd[t][i] = g THEN 1 ELSE 0) + (IF f = g THEN 1 ELSE 0)
      BY <2>1, <1>1, <1>3 DEF Types
    <2> QED
      BY <2>1, <2>2, <2>3, <1>3, SetExact
  <1> QED
    BY <1>1, <1>2, <1>3

\* sys_close.
LEMMA CloseExact ==
  ASSUME Types, Exact, NEW t \in Task, NEW i \in Fd, sys_close(t, i)
  PROVE  Types' /\ Exact'
  <1> USE FdTableConstants
  <1>1. /\ t \in live /\ fd[t][i] \in File /\ Install(t, i, NULL) /\ ret' \in Fd
        /\ f_refcount' = [f_refcount EXCEPT ![fd[t][i]] = @ - 1]
    BY DEF sys_close, Calls, Types, Table, file_put, Fd
  <1>2. f_refcount' \in [File -> Int]
    BY <1>1 DEF Types
  <1>3. \A f \in File : f_refcount'[f] =
          f_refcount[f] - (IF fd[t][i] = f THEN 1 ELSE 0) + (IF NULL = f THEN 1 ELSE 0)
    BY <1>1 DEF Types
  <1> QED
    BY <1>1, <1>2, <1>3, SetExact

\* sys_dup.
LEMMA DupExact ==
  ASSUME Types, Exact, NEW t \in Task, NEW i \in Fd, sys_dup(t, i)
  PROVE  Types' /\ Exact'
  <1> USE FdTableConstants
  <1>1. t \in live /\ fd[t][i] \in File
    BY DEF sys_dup, Calls, Types, Table
  <1>2. CASE Fails(EMFILE)
    BY <1>2 DEF Fails, Types, Exact
  <1>3. ASSUME NEW j \in files_alloc_fd(fd[t]), Install(t, j, fd[t][i]),
               f_refcount' = file_get(f_refcount, fd[t][i]), ret' = j
        PROVE  Types' /\ Exact'
    <2>1. j \in Fd /\ fd[t][j] = NULL /\ ret' \in Fd
      BY <1>3 DEF files_alloc_fd
    <2>2. f_refcount' \in [File -> Int]
      BY <1>1, <1>3 DEF Types, file_get
    <2>3. \A f \in File : f_refcount'[f] =
            f_refcount[f] - (IF fd[t][j] = f THEN 1 ELSE 0) + (IF fd[t][i] = f THEN 1 ELSE 0)
      BY <2>1, <1>1, <1>3 DEF Types, file_get
    <2> QED
      BY <2>1, <2>2, <2>3, <1>1, <1>3, SetExact
  <1> QED
    BY <1>2, <1>3 DEF sys_dup

\* sys_dup2: what was open at j is put, unless it is the same file again.
LEMMA Dup2Exact ==
  ASSUME Types, Exact, NEW t \in Task, NEW i \in Fd, NEW j \in Fd, sys_dup2(t, i, j)
  PROVE  Types' /\ Exact'
  <1> USE FdTableConstants
  <1> DEFINE x == fd[t][i]
             y == fd[t][j]
             closed == IF y = NULL THEN f_refcount ELSE file_put(f_refcount, y)
  <1>1. /\ t \in live /\ x \in File /\ y \in File \cup {NULL}
        /\ Install(t, j, x) /\ f_refcount' = file_get(closed, x) /\ ret' \in Fd
    BY DEF sys_dup2, Calls, Types, Table
  <1>2. closed \in [File -> Int] /\ \A f \in File : closed[f] = f_refcount[f] - (IF y = f THEN 1 ELSE 0)
    <2> HIDE DEF x, y
    <2> QED
      BY <1>1 DEF Types, file_put
  <1> HIDE DEF x, y, closed
  <1>3. /\ f_refcount' \in [File -> Int]
        /\ \A f \in File : f_refcount'[f] = closed[f] + (IF x = f THEN 1 ELSE 0)
    BY <1>1, <1>2 DEF file_get
  <1>4. \A f \in File : f_refcount'[f] =
          f_refcount[f] - (IF y = f THEN 1 ELSE 0) + (IF x = f THEN 1 ELSE 0)
    BY <1>2, <1>3
  <1>5. x \in File \cup {NULL}
    BY <1>1
  <1> QED
    BY <1>1, <1>3, <1>4, <1>5, SetExact DEF y

\* What the two failing branches of sys_pipe come to: counts that were raised
\* for two free files and put again are what they were, and so is a table with
\* the descriptor cleared that was free before.
LEMMA PipeUndone ==
  ASSUME Types, NEW t \in Task, NEW r \in File, NEW w \in File, r # w,
         f_refcount[r] = 0, f_refcount[w] = 0
  PROVE  /\ file_put(file_put([f_refcount EXCEPT ![r] = 1, ![w] = 1], r), w) = f_refcount
         /\ \A rfd \in files_alloc_fd(fd[t]) :
              LET one == [fd[t] EXCEPT ![rfd] = r]
              IN  one[rfd] = r /\ [fd EXCEPT ![t] = [one EXCEPT ![rfd] = NULL]] = fd
  <1>1. f_refcount \in [File -> Int] /\ fd \in [Task -> Table] /\ fd[t] \in Table
    BY DEF Types
  <1>2. file_put(file_put([f_refcount EXCEPT ![r] = 1, ![w] = 1], r), w) = f_refcount
    <2> DEFINE m == [f_refcount EXCEPT ![r] = 1, ![w] = 1]
               p == [m EXCEPT ![r] = m[r] - 1]
               q == [p EXCEPT ![w] = p[w] - 1]
    <2>1. m \in [File -> Int] /\ m[r] = 1 /\ m[w] = 1
      BY <1>1
    <2>2. p \in [File -> Int] /\ p[r] = 0 /\ p[w] = 1
      BY <2>1
    <2>3. q \in [File -> Int] /\ q[r] = 0 /\ q[w] = 0
      BY <2>2
    <2>4. ASSUME NEW f \in File PROVE q[f] = f_refcount[f]
      BY <1>1, <2>3
    <2>5. q = f_refcount
      BY <1>1, <2>3, <2>4
    <2> QED
      BY <2>5 DEF file_put
  <1>3. ASSUME NEW rfd \in files_alloc_fd(fd[t])
        PROVE  /\ [fd[t] EXCEPT ![rfd] = r][rfd] = r
               /\ [fd EXCEPT ![t] = [[fd[t] EXCEPT ![rfd] = r] EXCEPT ![rfd] = NULL]] = fd
    <2>1. rfd \in Fd /\ fd[t][rfd] = NULL
      BY DEF files_alloc_fd
    <2>2. [fd[t] EXCEPT ![rfd] = r][rfd] = r
      BY <1>1, <2>1 DEF Table
    <2>3. [[fd[t] EXCEPT ![rfd] = r] EXCEPT ![rfd] = NULL] = fd[t]
      BY <1>1, <2>1 DEF Table
    <2>4. [fd EXCEPT ![t] = fd[t]] = fd
      BY <1>1
    <2> QED
      BY <2>2, <2>3, <2>4
  <1> QED
    BY <1>2, <1>3

\* The outcomes of sys_pipe: what it undoes leaves no trace, or both ends are
\* installed.
LEMMA PipeOutcome ==
  ASSUME Types, NEW t \in Task, sys_pipe(t)
  PROVE  \/ /\ ret' \in {EMFILE, ENOMEM}
            /\ UNCHANGED <<live, fd, close_on_exec, freed, wild, f_refcount>>
         \/ \E r, w \in File : \E i \in files_alloc_fd(fd[t]) :
              \E j \in files_alloc_fd([fd[t] EXCEPT ![i] = r]) :
                /\ r # w /\ f_refcount[r] = 0 /\ f_refcount[w] = 0
                /\ fd' = [fd EXCEPT ![t] = [[fd[t] EXCEPT ![i] = r] EXCEPT ![j] = w]]
                /\ f_refcount' = [f_refcount EXCEPT ![r] = 1, ![w] = 1]
                /\ ret' = 0 /\ UNCHANGED <<live, close_on_exec, freed, wild>>
  <1> DEFINE Undone == /\ ret' \in {EMFILE, ENOMEM}
                       /\ UNCHANGED <<live, fd, close_on_exec, freed, wild, f_refcount>>
             Both(r, w) ==
               \E i \in files_alloc_fd(fd[t]) :
                 \E j \in files_alloc_fd([fd[t] EXCEPT ![i] = r]) :
                   /\ r # w /\ f_refcount[r] = 0 /\ f_refcount[w] = 0
                   /\ fd' = [fd EXCEPT ![t] = [[fd[t] EXCEPT ![i] = r] EXCEPT ![j] = w]]
                   /\ f_refcount' = [f_refcount EXCEPT ![r] = 1, ![w] = 1]
                   /\ ret' = 0 /\ UNCHANGED <<live, close_on_exec, freed, wild>>
             made(r, w) == [f_refcount EXCEPT ![r] = 1, ![w] = 1]
             one(r, i) == [fd[t] EXCEPT ![i] = r]
  <1>1. CASE Fails(ENOMEM)
    BY <1>1 DEF Fails
  <1>2. ASSUME NEW r \in File, NEW w \in File, r # w, f_refcount[r] = 0, f_refcount[w] = 0
        PROVE  /\ file_put(file_put(made(r, w), r), w) = f_refcount
               /\ \A i \in files_alloc_fd(fd[t]) :
                    /\ one(r, i)[i] = r
                    /\ [fd EXCEPT ![t] = [one(r, i) EXCEPT ![i] = NULL]] = fd
    BY <1>2, PipeUndone
  <1>3. ASSUME NEW r \in File, NEW w \in File, r # w, f_refcount[r] = 0, f_refcount[w] = 0,
               f_refcount' = file_put(file_put(made(r, w), r), w),
               ret' = EMFILE, UNCHANGED <<live, fd, close_on_exec, freed, wild>>
        PROVE  Undone
    <2>1. f_refcount' = f_refcount
      BY <1>2, <1>3
    <2> QED
      BY <2>1, <1>3
  <1>4. ASSUME NEW r \in File, NEW w \in File, r # w, f_refcount[r] = 0, f_refcount[w] = 0,
               NEW i \in files_alloc_fd(fd[t]),
               fd' = [fd EXCEPT ![t] = [one(r, i) EXCEPT ![i] = NULL]],
               f_refcount' = file_put(file_put(made(r, w), one(r, i)[i]), w),
               ret' = EMFILE, UNCHANGED <<live, close_on_exec, freed, wild>>
        PROVE  Undone
    <2>1. one(r, i)[i] = r /\ fd' = fd
      BY <1>2, <1>4
    <2>2. f_refcount' = f_refcount
      BY <2>1, <1>2, <1>4
    <2> QED
      BY <2>1, <2>2, <1>4
  <1>5. ASSUME NEW r \in File, NEW w \in File, r # w, f_refcount[r] = 0, f_refcount[w] = 0,
               NEW i \in files_alloc_fd(fd[t]), NEW j \in files_alloc_fd(one(r, i)),
               fd' = [fd EXCEPT ![t] = [one(r, i) EXCEPT ![j] = w]],
               f_refcount' = made(r, w),
               ret' = 0, UNCHANGED <<live, close_on_exec, freed, wild>>
        PROVE  Both(r, w)
    BY <1>5
  <1>6. Fails(ENOMEM) \/ Undone \/ \E r, w \in File : Both(r, w)
    <2> HIDE DEF Undone, Both
    <2> QED
      BY <1>3, <1>4, <1>5, Zenon DEF sys_pipe
  <1> QED
    BY <1>1, <1>6

\* sys_pipe: both ends or none.
LEMMA PipeExact ==
  ASSUME Types, Exact, NEW t \in Task, sys_pipe(t)
  PROVE  Types' /\ Exact'
  <1> USE FdTableConstants
  <1>1. CASE /\ ret' \in {EMFILE, ENOMEM}
             /\ UNCHANGED <<live, fd, close_on_exec, freed, wild, f_refcount>>
    BY <1>1 DEF Types, Exact
  <1>2. ASSUME NEW r \in File, NEW w \in File, r # w, f_refcount[r] = 0, f_refcount[w] = 0,
               NEW i \in files_alloc_fd(fd[t]),
               NEW j \in files_alloc_fd([fd[t] EXCEPT ![i] = r]),
               fd' = [fd EXCEPT ![t] = [[fd[t] EXCEPT ![i] = r] EXCEPT ![j] = w]],
               f_refcount' = [f_refcount EXCEPT ![r] = 1, ![w] = 1],
               ret' = 0, UNCHANGED <<live, close_on_exec, freed, wild>>
        PROVE  Types' /\ Exact'
    <2> DEFINE one == [fd[t] EXCEPT ![i] = r]
               two == [one EXCEPT ![j] = w]
    <2>1. t \in live /\ fd[t] \in Table /\ i \in Fd /\ fd[t][i] = NULL /\ one \in Table
      BY DEF files_alloc_fd, sys_pipe, Calls, Types, Table
    <2>2. j \in Fd /\ one[j] = NULL /\ two \in Table
      BY <2>1 DEF files_alloc_fd, Table
    <2>3. fd' = [fd EXCEPT ![t] = two]
      BY <1>2
    <2>4. f_refcount' \in [File -> Int]
          /\ \A f \in File : f_refcount'[f] =
               f_refcount[f] + (IF r = f THEN 1 ELSE 0) + (IF w = f THEN 1 ELSE 0)
      BY <1>2 DEF Types
    <2>5. ASSUME NEW f \in File
          PROVE  f_refcount'[f] = f_refcount[f] - Refs(fd[t], f) + Refs(two, f)
      <3>1. Refs(one, f) = Refs(fd[t], f) - (IF fd[t][i] = f THEN 1 ELSE 0) + (IF r = f THEN 1 ELSE 0)
        BY <2>1, RefsSet
      <3>2. Refs(two, f) = Refs(one, f) - (IF one[j] = f THEN 1 ELSE 0) + (IF w = f THEN 1 ELSE 0)
        <4> HIDE DEF one
        <4> QED
          BY <2>1, <2>2, RefsSet
      <3>3. Refs(fd[t], f) \in Nat /\ f_refcount[f] \in Int /\ fd[t][i] # f /\ one[j] # f
        BY <2>1, <2>2, RefsFinite DEF Types
      <3> HIDE DEF one, two
      <3> QED
        BY <3>1, <3>2, <3>3, <2>4
    <2> HIDE DEF one, two
    <2>6. Types'
      BY <2>1, <2>2, <2>3, <2>4, <1>2 DEF Types, Fd
    <2> QED
      BY <2>1, <2>2, <2>3, <2>5, <2>6, <1>2, RowStep
  <1> QED
    BY <1>1, <1>2, PipeOutcome, Zenon

\* sys_exec: what is closed on exec is put.
LEMMA ExecExact ==
  ASSUME Types, Exact, NEW t \in Task, sys_exec(t)
  PROVE  Types' /\ Exact'
  <1> USE FdTableConstants
  <1> DEFINE S == {i \in close_on_exec[t] : fd[t][i] # NULL}
             gone == [i \in Fd |-> IF i \in S THEN fd[t][i] ELSE NULL]
             kept == [i \in Fd |-> IF i \in S THEN NULL ELSE fd[t][i]]
  <1>1. t \in live /\ fd[t] \in Table /\ S \in SUBSET Fd /\ kept \in Table
    BY DEF sys_exec, Calls, Types, Table
  <1>2. /\ fd' = [fd EXCEPT ![t] = kept]
        /\ f_refcount' = [f \in File |-> f_refcount[f] - Refs(gone, f)]
        /\ ret' = 0 /\ UNCHANGED <<live, close_on_exec, freed, wild>>
    BY DEF sys_exec, files_destroy
  <1>3. ASSUME NEW f \in File PROVE Refs(kept, f) = Refs(fd[t], f) - Refs(gone, f)
    <2> HIDE DEF S
    <2> QED
      BY <1>1, RefsDivide
  <1> HIDE DEF S, gone, kept
  <1>4. \A f \in File : /\ Refs(gone, f) \in Nat /\ Refs(fd[t], f) \in Nat
                        /\ f_refcount[f] \in Int
    BY RefsFinite DEF Types
  <1>5. f_refcount' \in [File -> Int]
    BY <1>2, <1>4
  <1>6. Types'
    BY <1>1, <1>2, <1>5 DEF Types, Fd
  <1>7. \A f \in File : f_refcount'[f] = f_refcount[f] - Refs(fd[t], f) + Refs(kept, f)
    BY <1>2, <1>3, <1>4
  <1> QED
    BY <1>1, <1>2, <1>6, <1>7, RowStep

\* sys_fork: the child has a reference of its own for every descriptor.
LEMMA ForkExact ==
  ASSUME Types, Exact, NEW t \in Task, NEW u \in Task, sys_fork(t, u)
  PROVE  Types' /\ Exact'
  <1> USE FdTableConstants
  <1>1. /\ t \in live /\ u \notin live /\ fd[t] \in Table
        /\ live' = live \cup {u} /\ fd' = [fd EXCEPT ![u] = fd[t]]
        /\ f_refcount' = [f \in File |-> f_refcount[f] + Refs(fd[t], f)]
        /\ close_on_exec' = [close_on_exec EXCEPT ![u] = {}] /\ ret' = 0
        /\ freed' = freed /\ wild' = wild
    BY DEF sys_fork, Calls, Types, files_clone
  <1>2. \A f \in File : Refs(fd[t], f) \in Nat /\ f_refcount[f] \in Int
    BY RefsFinite DEF Types
  <1>3. f_refcount' \in [File -> Int]
    BY <1>1, <1>2
  <1>4. Types'
    BY <1>1, <1>3 DEF Types, Fd
  <1>5. ASSUME NEW f \in File PROVE f_refcount'[f] = Cardinality(Held(live', fd', f))
    <2> DEFINE l == live \cup {u}
               d == fd
               e == [fd EXCEPT ![u] = fd[t]]
    <2>1. /\ l \in SUBSET Task /\ u \in l /\ l \ {u} = live /\ e[u] = d[t]
          /\ \A v \in live : d[v] = e[v]
      BY <1>1 DEF Types
    <2>2. live' = l /\ fd' = e /\ f_refcount'[f] = f_refcount[f] + Refs(d[t], f)
      BY <1>1
    <2>3. f_refcount[f] = Cardinality(Held(live, d, f))
      BY DEF Exact
    <2> HIDE DEF l, d, e
    <2>4. Cardinality(Held(l, e, f)) = Cardinality(Held(l \ {u}, e, f)) + Refs(e[u], f)
      BY <2>1, HeldSplit
    <2>5. Held(live, d, f) = Held(live, e, f)
      BY <2>1, HeldSame
    <2>6. f_refcount'[f] = Cardinality(Held(l, e, f))
      BY <2>1, <2>2, <2>3, <2>4, <2>5
    <2> QED
      BY <2>2, <2>6, Zenon
  <1> QED
    BY <1>4, <1>5 DEF Exact

\* sys_exit: the references of a process go with it.
LEMMA ExitExact ==
  ASSUME Types, Exact, NEW t \in Task, sys_exit(t)
  PROVE  Types' /\ Exact'
  <1> USE FdTableConstants
  <1>1. /\ t \in live /\ live' = live \ {t} /\ fd' = [fd EXCEPT ![t] = Empty]
        /\ f_refcount' = [f \in File |-> f_refcount[f] - Refs(fd[t], f)]
        /\ close_on_exec' = [close_on_exec EXCEPT ![t] = {}] /\ ret' = 0
        /\ freed' = freed /\ wild' = wild
    BY DEF sys_exit, Calls, files_destroy
  <1>2. \A f \in File : Refs(fd[t], f) \in Nat /\ f_refcount[f] \in Int
    BY RefsFinite DEF Types
  <1>3. f_refcount' \in [File -> Int] /\ Empty \in Table
    BY <1>1, <1>2 DEF Empty, Table
  <1>4. Types'
    BY <1>1, <1>3 DEF Types, Fd
  <1>5. ASSUME NEW f \in File PROVE f_refcount'[f] = Cardinality(Held(live', fd', f))
    <2> DEFINE l == live
               d == fd
               e == [fd EXCEPT ![t] = Empty]
    <2>1. l \in SUBSET Task /\ t \in l /\ \A v \in l \ {t} : d[v] = e[v]
      BY <1>1 DEF Types
    <2>2. live' = l \ {t} /\ fd' = e /\ f_refcount'[f] = f_refcount[f] - Refs(d[t], f)
      BY <1>1
    <2>3. f_refcount[f] = Cardinality(Held(l, d, f)) /\ Refs(d[t], f) \in Nat
      BY <1>2 DEF Exact
    <2> HIDE DEF l, d, e
    <2>4. Cardinality(Held(l, d, f)) = Cardinality(Held(l \ {t}, d, f)) + Refs(d[t], f)
      BY <2>1, HeldSplit
    <2>5. Held(l \ {t}, d, f) = Held(l \ {t}, e, f)
      BY <2>1, HeldSame
    <2>6. Cardinality(Held(l \ {t}, d, f)) \in Nat
      BY <2>1, HeldBound
    <2>7. f_refcount'[f] = Cardinality(Held(l \ {t}, e, f))
      BY <2>2, <2>3, <2>4, <2>5, <2>6
    <2> QED
      BY <2>2, <2>7, Zenon
  <1> QED
    BY <1>4, <1>5 DEF Exact

\* sys_fork that fails, after it has copied the table or before.
LEMMA ForkErrExact ==
  ASSUME Types, Exact, NEW t \in Task, sys_fork_err(t)
  PROVE  Types' /\ Exact'
  <1> USE FdTableConstants
  <1>0. \A f \in File : Refs(fd[t], f) \in Nat /\ f_refcount[f] \in Int
    BY RefsFinite DEF Types
  <1>1. CASE /\ f_refcount' = files_destroy(f_refcount, fd[t])
             /\ fd' = [fd EXCEPT ![t] = Empty] /\ freed' = freed \cup {t}
             /\ ret' = ENOMEM /\ UNCHANGED <<live, close_on_exec, wild>>
    <2>1. t \in live /\ Empty \in Table
      BY DEF sys_fork_err, Calls, Empty, Table
    <2>2. f_refcount' \in [File -> Int]
      BY <1>0, <1>1 DEF files_destroy
    <2>3. Types'
      BY <2>1, <2>2, <1>1 DEF Types
    <2>4. \A f \in File : f_refcount'[f] = f_refcount[f] - Refs(fd[t], f) + Refs(Empty, f)
      BY <1>0, <1>1, RefsEmpty DEF files_destroy
    <2> QED
      BY <2>1, <2>3, <2>4, <1>1, RowStep
  <1>2. CASE Fails(ENOMEM)
    BY <1>2 DEF Fails, Types, Exact
  <1>3. CASE /\ f_refcount' = files_destroy(files_clone(f_refcount, fd[t]), fd[t])
             /\ ret' = ENOMEM /\ UNCHANGED <<live, fd, close_on_exec, freed, wild>>
    <2>1. f_refcount' = f_refcount
      BY <1>0, <1>3 DEF files_destroy, files_clone, Types
    <2> QED
      BY <2>1, <1>3 DEF Types, Exact
  <1> QED
    BY <1>1, <1>2, <1>3 DEF sys_fork_err

\* Every call keeps the counts exact.
LEMMA NextExact == Types /\ Exact /\ [Next]_vars => Types' /\ Exact'
  <1> USE FdTableConstants
  <1> SUFFICES ASSUME Types, Exact, [Next]_vars PROVE Types' /\ Exact'
    OBVIOUS
  <1>1. CASE UNCHANGED vars
    BY <1>1 DEF vars, Types, Exact
  <1>2. ASSUME NEW t \in Task, NEW i \in Fd, NEW on \in BOOLEAN, fcntl_setfd(t, i, on)
        PROVE  Types' /\ Exact'
    BY <1>2 DEF fcntl_setfd, Types, Exact, Fd
  <1>3. ASSUME NEW t \in Task, fcntl_outside(t) PROVE Types' /\ Exact'
    BY <1>3 DEF fcntl_outside, Fails, Types, Exact, Fd
  <1> QED
    BY <1>1, <1>2, <1>3, OpenExact, CloseExact, DupExact, Dup2Exact, PipeExact, ExecExact,
       ForkExact, ExitExact, ForkErrExact DEF Next

\* For any number of processes, files and descriptors, f_refcount is the
\* number of descriptors that refer to the file.
THEOREM FdRefsExact == Spec => []RefsExact
  <1>1. Spec => [](Types /\ Exact)
    BY InitExact, NextExact, PTL DEF Spec
  <1> QED
    BY <1>1, ExactIs, PTL

\* A call that fails gives back every reference and descriptor that it took.
LEMMA FailureStep ==
  Types /\ [Next]_vars =>
    [ret' < 0 /\ freed' = freed => UNCHANGED <<live, fd, close_on_exec, f_refcount>>]_vars
  <1> USE FdTableConstants
  <1> SUFFICES ASSUME Types, Next, ret' < 0, freed' = freed
               PROVE  UNCHANGED <<live, fd, close_on_exec, f_refcount>>
    BY DEF vars
  <1>0. \A i \in Fd : ~(i < 0)
    BY DEF Fd
  <1>1. ASSUME NEW t \in Task, sys_open(t) PROVE UNCHANGED <<live, fd, close_on_exec, f_refcount>>
    <2>1. PICK f \in File :
            /\ f_refcount[f] = 0
            /\ \/ ret' \in Fd
               \/ /\ f_refcount' = file_put([f_refcount EXCEPT ![f] = 1], f)
                  /\ UNCHANGED <<live, fd, close_on_exec>>
      BY <1>1 DEF sys_open, files_alloc_fd
    <2> QED
      BY <2>1, <1>0 DEF file_put, Types
  <1>2. ASSUME NEW t \in Task, sys_fork_err(t) PROVE UNCHANGED <<live, fd, close_on_exec, f_refcount>>
    <2>0. \A f \in File : Refs(fd[t], f) \in Nat /\ f_refcount[f] \in Int
      BY RefsFinite DEF Types
    <2>1. t \notin freed
      BY <1>2 DEF sys_fork_err, Calls
    <2>2. CASE f_refcount' = files_destroy(files_clone(f_refcount, fd[t]), fd[t])
               /\ UNCHANGED <<live, fd, close_on_exec>>
      BY <2>0, <2>2 DEF files_destroy, files_clone, Types
    <2> QED
      BY <2>1, <2>2, <1>2 DEF sys_fork_err, Fails
  <1>3. ASSUME NEW t \in Task, sys_pipe(t) PROVE UNCHANGED <<live, fd, close_on_exec, f_refcount>>
    <2>1. ret' = 0 \/ UNCHANGED <<live, fd, close_on_exec, f_refcount>>
      BY <1>3, PipeOutcome, Zenon
    <2> QED
      BY <2>1
  <1>4. ASSUME NEW t \in Task, NEW i \in Fd, sys_dup(t, i)
        PROVE  UNCHANGED <<live, fd, close_on_exec, f_refcount>>
    BY <1>0, <1>4 DEF sys_dup, Fails, files_alloc_fd
  <1>5. ASSUME NEW t \in Task,
               \/ sys_exec(t) \/ sys_exit(t) \/ \E u \in Task : sys_fork(t, u)
               \/ \E i \in Fd : sys_close(t, i) \/ \E on \in BOOLEAN : fcntl_setfd(t, i, on)
        PROVE  FALSE
    BY <1>5 DEF sys_exec, sys_exit, sys_fork, sys_close, fcntl_setfd
  <1>6. ASSUME NEW t \in Task, NEW i \in Fd, NEW j \in Fd, sys_dup2(t, i, j) PROVE FALSE
    BY <1>0, <1>6 DEF sys_dup2
  <1>7. ASSUME NEW t \in Task, fcntl_outside(t)
        PROVE  UNCHANGED <<live, fd, close_on_exec, f_refcount>>
    BY <1>7 DEF fcntl_outside, Fails
  <1> QED
    BY <1>1, <1>2, <1>3, <1>4, <1>5, <1>6, <1>7 DEF Next

\* For any number of processes, files and descriptors, a call that fails
\* leaves descriptors and counts as they were.
THEOREM FdFailureLeavesNoTrace == Spec => FailureLeavesNoTrace
  <1>1. Spec => [](Types /\ Exact)
    BY InitExact, NextExact, PTL DEF Spec
  <1> QED
    BY <1>1, FailureStep, PTL DEF Spec, FailureLeavesNoTrace

=============================================================================
