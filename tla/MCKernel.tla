------------------------------ MODULE MCKernel ------------------------------
(* Instances of Kernel for TLC.  Two kernel pages (0, which is the NULL page, and 1, a guard
   page) and one page of code; init_frames gives out every second frame from 2 on. *)
EXTENDS Kernel

MCSemValues == {0}
MCGuardPages == {1}

(* Everything the programs can do to processes and memory. *)
CallsAll == {"fork", "exit", "alloc", "dealloc", "createthread", "terminatethread"}
CallsDisciplined == DisciplinedCalls

(* The shortest way to each disagreement between a comment and the code. *)
CallsAllocFork == {"alloc", "fork"}
CallsOrphan == {"createthread", "exit", "fork"}
=============================================================================
