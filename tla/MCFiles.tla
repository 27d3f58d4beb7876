------------------------------ MODULE MCFiles ------------------------------
EXTENDS Files

A == <<"/", "a">>
B == <<"/", "b">>
AB == <<"/", "a", "b">>

Mkdir(path) == [op |-> "mkdir", path |-> path]
Mknod(path) == [op |-> "mknod", path |-> path]
Creat(path) == [op |-> "creat", path |-> path, mode |-> "trunc"]
Open(path, mode) == [op |-> "open", path |-> path, mode |-> mode]
Cd(path) == [op |-> "chdir", path |-> path]
Unlink(path) == [op |-> "unlink", path |-> path]
Link(path, new) == [op |-> "link", path |-> path, new |-> new]

Run(calls, others) == [p \in Procs |-> IF p = InitProc THEN calls ELSE others]

\* Two processes make and remove the names of the same files.
SharedFiles ==
  Run({Mkdir(A), Creat(AB), Link(AB, B), Unlink(B)}, {Creat(AB), Unlink(AB)})

\* A directory is removed while others are on the way to it, or in it.
SharedDirs ==
  Run({Mkdir(A), Unlink(A), Unlink(<<"/", "a", "..">>)}, {Mkdir(A), Cd(A), Cd(<<"..">>), Unlink(A)})

\* Calls that fail.
Errors ==
  Run({Mkdir(A), Creat(AB), Unlink(A), Unlink(<<"/">>), Link(A, B), Link(AB, <<"/">>),
       Open(A, "w"), Cd(AB)}, {})

\* No inode or no block is left.
FullDisk ==
  Run({Mkdir(A), Creat(AB), Link(AB, <<"/", "a", "a">>), Unlink(AB), Unlink(<<"/", "a", "a">>),
       Mkdir(B), Mknod(B), Open(B, "r")}, {})

MCPrograms == <<SharedFiles, SharedDirs, Errors, FullDisk>>

\* Two processes make and remove a file of the same name.
MCReuse == <<Run({Creat(A), Unlink(A)}, {Creat(A), Unlink(A)})>>
=============================================================================
