--------------------------- MODULE StoreProcesses ---------------------------
(***************************************************************************)
(* The processes that work in one clone.  Nothing locks the store: each    *)
(* walks its own sequence of system calls, while it is set up (StoreInit)  *)
(* and while objects are written and read (ObjectStore).                   *)
(***************************************************************************)
EXTENDS Naturals

CONSTANT
    Procs       \* rickygit processes working in the same clone

VARIABLE
    pc          \* the next system call of each process

Goto(p, l) == pc' = [pc EXCEPT ![p] = l]
=============================================================================
