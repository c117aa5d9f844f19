------------------------------- MODULE Paging -------------------------------
(***************************************************************************)
(* Physical pages and page tables: mm/pmm.rs and mm/vm.rs as operators on  *)
(* a record m that stands for the memory they share:                       *)
(*   free        the pages whose bit is clear in BITMAP                    *)
(*   FREE_PAGES, MAPPED_PAGES, PAGE_TABLE_PAGES   the counters             *)
(*   tables      what the pages used as page tables hold                   *)
(*   tlb         the translations the processor has cached for the loaded  *)
(*               root                                                      *)
(* Pages are numbered; an address is a page number times PAGE_SIZE.  A     *)
(* root is the page of its PML4.  A table is a function on the indices of  *)
(* its present entries; of their flags only USER is told apart.            *)
(***************************************************************************)
EXTENDS Integers, Sequences, FiniteSets, SequencesExt

CONSTANTS
    Levels,             \* 4 in the code: PML4, PDPT, PD, PT
    ENTRIES_PER_TABLE,  \* 512 in the code
    PAGE_SIZE,
    MAX_PAGES,          \* the pages BITMAP has room for
    TOTAL_PAGES,        \* the pages up to the end of the memory map
    Conventional,       \* the pages of EFI_CONVENTIONAL_MEMORY
    Ram,                \* the pages is_mappable_ram holds of
    Mmio,               \* VGA, Local APIC and I/O APIC pages
    Framebuffer,        \* the pages of the framebuffer
    BootStack,          \* the pages of the stack kmain runs on
    MirrorPages,        \* HIGHER_HALF_MIRROR_SIZE in pages
    HeapPages           \* HEAP_SIZE in pages

Pages == 0 .. TOTAL_PAGES - 1

ASSUME PagingAssumption ==
    /\ Levels \in Nat \ {0, 1}
    /\ ENTRIES_PER_TABLE \in Nat \ {0} /\ ENTRIES_PER_TABLE % 2 = 0
    /\ PAGE_SIZE \in Nat \ {0}
    /\ TOTAL_PAGES <= MAX_PAGES
    \* A page at address 0 would read as "no root" (vm.rs:446, heap.rs:51).
    /\ Conventional \subseteq Pages \ {0}
    /\ Conventional \subseteq Ram
    /\ MirrorPages > 0 => \E p \in Ram : p < MirrorPages

\* The pages of the lower half; USER_CANONICAL_MAX is their last byte.
LowerHalf == 0 .. ENTRIES_PER_TABLE ^ Levels \div 2 - 1
USER_CANONICAL_MAX == (ENTRIES_PER_TABLE ^ Levels \div 2) * PAGE_SIZE - 1

\* The first page of the higher half, beyond the non-canonical addresses.
KernelBase == 3 * (ENTRIES_PER_TABLE ^ Levels \div 2)
KERNEL_BASE == KernelBase * PAGE_SIZE

align_up(addr) == ((addr + PAGE_SIZE - 1) \div PAGE_SIZE) * PAGE_SIZE
num_pages(size) == align_up(size) \div PAGE_SIZE

-----------------------------------------------------------------------------
(***************************************************************************)
(* pmm.rs.  An allocation returns ok, the page and the memory after it.    *)
(***************************************************************************)
is_page_free(m, p) == p \in m.free

alloc_page(m) ==
    IF m.FREE_PAGES = 0 \/ m.free = {}
    THEN [ok |-> FALSE, m |-> m, page |-> 0]
    ELSE LET p == Min(m.free)
         IN  [ok |-> TRUE, page |-> p,
              m |-> [m EXCEPT !.free = @ \ {p}, !.FREE_PAGES = @ - 1]]

\* A page that is already free is left alone.
free_page(m, p) ==
    IF p >= MAX_PAGES \/ is_page_free(m, p) THEN m
    ELSE [m EXCEPT !.free = @ \union ({p} \intersect Pages), !.FREE_PAGES = @ + 1,
                   !.tables = [q \in DOMAIN @ \ {p} |-> @[q]]]

\* First fit: the lowest run of count free pages.
alloc_pages(m, count) ==
    LET starts == {s \in Pages : s .. s + count - 1 \subseteq m.free}
    IN  IF count = 1 THEN alloc_page(m)
        ELSE IF count = 0 \/ m.FREE_PAGES < count \/ starts = {}
        THEN [ok |-> FALSE, m |-> m, page |-> 0]
        ELSE [ok |-> TRUE, page |-> Min(starts),
              m |-> [m EXCEPT !.free = @ \ (Min(starts) .. Min(starts) + count - 1),
                              !.FREE_PAGES = @ - count]]

free_pages(m, p, count) ==
    FoldLeft(free_page, m, [i \in 1 .. count |-> p + i - 1])

alloc_pages_zeroed(m, count) == alloc_pages(m, IF count = 0 THEN 1 ELSE count)

ZeroTable == <<>>

Zeroed(a) == IF a.ok THEN [a EXCEPT !.m.tables = (a.page :> ZeroTable) @@ @] ELSE a
alloc_page_zeroed(m) == Zeroed(alloc_page(m))

-----------------------------------------------------------------------------
(***************************************************************************)
(* vm.rs.  Results carry err, "Ok" or the VmError.                         *)
(***************************************************************************)
\* The index at each level, the PML4's first.
split_indices(v) ==
    [l \in 1 .. Levels |->
        (v \div ENTRIES_PER_TABLE ^ (Levels - l)) % ENTRIES_PER_TABLE]

SetEntry(table, idx, addr, user) == (idx :> [addr |-> addr, user |-> user]) @@ table
ClearEntry(table, idx) == [i \in DOMAIN table \ {idx} |-> table[i]]

\* Enters a new table in the walk's, if there was a page for it.
NewTable(w, idx, new, user_access) ==
    IF ~new.ok THEN [w EXCEPT !.err = "OutOfMemory"]
    ELSE [err |-> "Ok", table |-> new.page, created |-> TRUE,
          m |-> [new.m EXCEPT
                    !.tables[w.table] = SetEntry(@, idx, new.page, user_access),
                    !.PAGE_TABLE_PAGES = @ + 1]]

(***************************************************************************)
(* One level of a walk: w.table is the table reached so far.  A present    *)
(* entry is promoted when the walk is for a user page; an absent one gets  *)
(* a new zeroed table when create says so.                                 *)
(***************************************************************************)
ensure_table_user(w, idx, create, user_access) ==
    LET table == w.m.tables[w.table]
    IN  IF w.err # "Ok" THEN w
        ELSE IF idx \in DOMAIN table
        THEN [w EXCEPT !.m.tables[w.table][idx].user = @ \/ user_access,
                       !.table = table[idx].addr]
        ELSE IF ~create THEN [w EXCEPT !.err = "NotMapped"]
        ELSE NewTable(w, idx, alloc_page_zeroed(w.m), user_access)

walk_to_entry_with_root_user(m, root, v, create, user_access) ==
    FoldLeft(LAMBDA w, idx : ensure_table_user(w, idx, create, user_access),
             [err |-> "Ok", m |-> m, table |-> root, created |-> FALSE],
             SubSeq(split_indices(v), 1, Levels - 1))

LastIndex(v) == split_indices(v)[Levels]

invalidate_page(m, v) == [m EXCEPT !.tlb = {t \in @ : t[1] # v}]

\* The entry for v at the end of a walk is set.  Tables that the walk created or
\* promoted stay so when there is an entry already.
SetMapping(w, v, phys, user) ==
    LET set == [w.m EXCEPT
                    !.tables[w.table] = SetEntry(@, LastIndex(v), phys, user),
                    !.MAPPED_PAGES = @ + 1]
    IN  IF w.err # "Ok" THEN [err |-> w.err, m |-> w.m]
        ELSE IF LastIndex(v) \in DOMAIN w.m.tables[w.table]
        THEN [err |-> "AlreadyMapped", m |-> w.m]
        ELSE [err |-> "Ok",
              m |-> IF w.created THEN invalidate_page(set, v) ELSE set]

map_page_internal(m, root, v, phys, user) ==
    SetMapping(walk_to_entry_with_root_user(m, root, v, TRUE, user), v, phys, user)

\* A root of 0 is one that is not initialised.
map_page_in_pml4(m, root, v, phys, user) ==
    IF root = 0 THEN [err |-> "NotInitialized", m |-> m]
    ELSE map_page_internal(m, root, v, phys, user)

\* The entry for v at the end of a walk is cleared.
ClearMapping(m, w, v) ==
    IF w.err # "Ok" THEN [err |-> w.err, m |-> m]
    ELSE IF LastIndex(v) \notin DOMAIN w.m.tables[w.table]
    THEN [err |-> "NotMapped", m |-> m]
    ELSE [err |-> "Ok",
          m |-> [m EXCEPT !.tables[w.table] = ClearEntry(@, LastIndex(v)),
                          !.MAPPED_PAGES = @ - 1]]

\* No invlpg: the root is taken not to be the loaded one.
unmap_page_in_pml4(m, root, v) ==
    ClearMapping(m, walk_to_entry_with_root_user(m, root, v, FALSE, FALSE), v)

unmap_page_NoInvalidate(m, root, v) == unmap_page_in_pml4(m, root, v)

Invalidated(u, v) == IF u.err = "Ok" THEN [u EXCEPT !.m = invalidate_page(@, v)] ELSE u

\* On the active root.
unmap_page(m, root, v) == Invalidated(unmap_page_in_pml4(m, root, v), v)

EntryAt(w, v) ==
    LET table == w.m.tables[w.table]
    IN  IF w.err # "Ok" \/ LastIndex(v) \notin DOMAIN table
        THEN [err |-> "NotMapped", addr |-> 0, user |-> FALSE]
        ELSE [err |-> "Ok", addr |-> table[LastIndex(v)].addr, user |-> table[LastIndex(v)].user]

\* What a root maps a page to.
query_mapping_in_pml4(m, root, v) ==
    EntryAt(walk_to_entry_with_root_user(m, root, v, FALSE, FALSE), v)

clone_kernel_mappings_AllEntries(m, src, dst) ==
    [m EXCEPT !.tables[dst] = m.tables[src]]

clone_kernel_mappings(m, src, dst) ==
    [m EXCEPT !.tables[dst] =
        [i \in {j \in DOMAIN m.tables[src] : j >= ENTRIES_PER_TABLE \div 2} |-> m.tables[src][i]]]

-----------------------------------------------------------------------------
(***************************************************************************)
(* Boot: pmm::init, vm::init, heap::init and the two calls of kmain after  *)
(* them.  Every page of RAM is mapped at its own address and the first     *)
(* ones also in the higher half.                                           *)
(***************************************************************************)
pmm_init ==
    [free |-> Conventional, FREE_PAGES |-> Cardinality(Conventional),
     MAPPED_PAGES |-> 0, PAGE_TABLE_PAGES |-> 0,
     tables |-> [p \in {} |-> <<>>], tlb |-> {}]

\* The PML4 is the first page taken, and load_cr3 makes it the active root.
ActivePml4 == alloc_page_zeroed(pmm_init).page

vm_init == [alloc_page_zeroed(pmm_init).m EXCEPT !.PAGE_TABLE_PAGES = 1]

\* One round of vm::init's loop over the pages of RAM.  Errors are logged.
MapRam(m, p) ==
    FoldLeft(LAMBDA n, v : map_page_internal(n, ActivePml4, v, p, FALSE).m, m,
             IF p < MirrorPages THEN <<p, KernelBase + p>> ELSE <<p>>)

\* Maps pages at their own addresses.
MapIdentity(m, pages, user) ==
    FoldLeft(LAMBDA n, p : map_page_internal(n, ActivePml4, p, p, user).m, m,
             SelectSeq([i \in 1 .. Max(pages \union {0}) |-> i], LAMBDA p : p \in pages))

MapMmio(m) == MapIdentity(m, {ActivePml4} \union Mmio, FALSE)

\* A quarter of the heap will do.
Run(a, count) == [m |-> a.m, pages |-> a.page .. a.page + count - 1]

heap_init(m) ==
    LET count == IF alloc_pages(m, HeapPages).ok THEN HeapPages ELSE HeapPages \div 4
    IN  Run(alloc_pages(m, count), count)

map_framebuffer(m) == MapIdentity(m, Framebuffer, TRUE)

ensure_current_stack_mapped(m) ==
    MapIdentity(m, {p \in BootStack : query_mapping_in_pml4(m, ActivePml4, p).err # "Ok"}, FALSE)
=============================================================================
