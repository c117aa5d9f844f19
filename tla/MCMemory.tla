------------------------------ MODULE MCMemory ------------------------------
(***************************************************************************)
(* An instance of Memory.  Three levels of six entries: a table of the     *)
(* last level covers 6 pages, an entry of the root 36, and the lower half  *)
(* has the pages 0 to 107.  Pages are two bytes long.                      *)
(***************************************************************************)
EXTENDS Memory

Addr(page) == page * PAGE_SIZE

MCConventional == 1 .. 22
MCRam == 1 .. 27
MCMmio == {28}
MCFramebuffer == {29}
MCBootStack == {27, 28}

\* Ranges that overlap, the first across two tables, and one that is refused.
MCVirtAddrs == {Addr(41), Addr(42), Addr(KernelBase + 36)}
\* A range in the lower half, and the mirror in the higher half.
MCRemapAddrs == {Addr(41), Addr(KernelBase + 1)}
\* A range across two tables, one whose second page is taken by RAM, and one
\* under an entry of the root that is not in use at boot.
MCSharedAddrs == {Addr(41), Addr(0), Addr(KernelBase + 36)}
MCPhysAddrs == {Addr(60)}
MCSizes == {4}
MCImages == {[text |-> 2, data |-> 2, bss |-> 1]}

Symmetry == Permutations(Threads)
=============================================================================
