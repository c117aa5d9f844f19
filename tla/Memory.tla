------------------------------- MODULE Memory -------------------------------
(***************************************************************************)
(* The memory calls: address spaces (mm/addrspace.rs), shared regions      *)
(* (shared_mem.rs), the loader (executable.rs) and the memory that         *)
(* launch_init takes (init_process.rs), over the pages and tables of       *)
(* Paging.  No handler touches this state and no call reschedules, so a    *)
(* call is one step.                                                       *)
(***************************************************************************)
EXTENDS Paging

CONSTANTS
    Threads,
    VirtAddrs,          \* the addresses calls are made with
    RemapAddrs,         \* the old addresses remap is called with
    SharedAddrs,        \* the addresses regions are mapped at
    PhysAddrs,          \* the physical addresses map_region is called with
    Sizes,              \* the sizes calls are made with, in bytes
    Images,             \* sections of an executable: text, data, bss in bytes
    MAX_REGION_SIZE,
    USER_EXEC_LOAD_BASE,
    USER_STACK_TOP,
    USER_STACK_PAGES,
    KERNEL_STACK_PAGES,
    MaxSpaces,          \* bounds on the identifiers handed out
    MaxRegions

VARIABLES
    m,                  \* the memory, see Paging
    spaces,             \* AddressSpaceManager.spaces
    regions,            \* SharedMemManager.regions
    next_space,
    next_region,
    resident,           \* pages the kernel and the loaders keep for good
    phase               \* "vm", "boot", "running" or "halted"

vars == <<m, spaces, regions, next_space, next_region, resident, phase>>

Root(id) == spaces[id].pml4

RangePages(addr, size) ==
    [i \in 1 .. num_pages(size) |-> addr \div PAGE_SIZE + i - 1]

\* The loop's state after the result r of round i.
Round(a, i, r) == [err |-> r.err, m |-> r.m, mapped |-> IF r.err = "Ok" THEN i ELSE a.mapped]

\* Maps pages in order up to the first that fails.
MapPages(mem, root, virts, phys, user) ==
    FoldLeft(LAMBDA a, i :
                IF a.err # "Ok" THEN a
                ELSE Round(a, i, map_page_in_pml4(a.m, root, virts[i], phys[i], user[i])),
             [err |-> "Ok", m |-> mem, mapped |-> 0],
             [i \in 1 .. Len(virts) |-> i])

Counted(a, u) == [m |-> u.m, done |-> a.done + (IF u.err = "Ok" THEN 1 ELSE 0)]

\* Unmaps pages of a root, going on after a failure.
UnmapPages(mem, root, virts) ==
    FoldLeft(LAMBDA a, v : Counted(a, unmap_page_in_pml4(a.m, root, v)),
             [m |-> mem, done |-> 0], virts)

\* Unmaps pages of the active root, whatever unmap_page says.
UnmapActive(mem, virts) == FoldLeft(LAMBDA n, v : unmap_page(n, ActivePml4, v).m, mem, virts)

All(virts, user) == [i \in DOMAIN virts |-> user]

-----------------------------------------------------------------------------
(***************************************************************************)
(* Address spaces.  k = [m, spaces] is passed through the calls of         *)
(* AddressSpaceManager; they add err, "Ok" or the AddressSpaceError.       *)
(* inexact is a history variable: the space has had an unmap of a page     *)
(* that was not mapped, or a remap that failed after unmapping or that     *)
(* took its pages from the higher half.                                    *)
(***************************************************************************)
Failed(k, err) == [m |-> k.m, spaces |-> k.spaces, err |-> err]

inc_mappings(k, id, mem, n) ==
    [m |-> mem, err |-> "Ok",
     spaces |-> [k.spaces EXCEPT ![id].mapping_count = @ + n]]

dec_mappings(k, id, mem, n) ==
    [m |-> mem, err |-> "Ok",
     spaces |-> [k.spaces EXCEPT ![id].mapping_count = IF @ > n THEN @ - n ELSE 0]]

\* The checks map_region and unmap_region make of a range.
RangeError(virt, size) ==
    IF virt % PAGE_SIZE # 0 \/ virt > USER_CANONICAL_MAX THEN "InvalidAddress"
    ELSE IF size = 0 \/ virt + size > USER_CANONICAL_MAX THEN "InvalidSize"
    ELSE "Ok"

OwnerError(k, id, t) ==
    IF id \notin DOMAIN k.spaces THEN "NotFound"
    ELSE IF k.spaces[id].owner # t THEN "PermissionDenied"
    ELSE "Ok"

map_region_NoRollback(k, id, t, virt, phys, size) ==
    LET virts == RangePages(virt, size)
        done == MapPages(k.m, k.spaces[id].pml4, virts, RangePages(phys, size), All(virts, TRUE))
    IN  IF RangeError(virt, size) # "Ok" THEN Failed(k, RangeError(virt, size))
        ELSE IF OwnerError(k, id, t) # "Ok" THEN Failed(k, OwnerError(k, id, t))
        ELSE IF done.err = "Ok" THEN inc_mappings(k, id, done.m, done.mapped)
        ELSE [m |-> done.m, spaces |-> k.spaces, err |-> "AlreadyMapped"]

map_region(k, id, t, virt, phys, size) ==
    LET virts == RangePages(virt, size)
        root == k.spaces[id].pml4
        done == MapPages(k.m, root, virts, RangePages(phys, size), All(virts, TRUE))
        back == UnmapPages(done.m, root, SubSeq(virts, 1, done.mapped))
    IN  IF RangeError(virt, size) # "Ok" THEN Failed(k, RangeError(virt, size))
        ELSE IF phys % PAGE_SIZE # 0 THEN Failed(k, "InvalidAddress")
        ELSE IF size > MAX_REGION_SIZE THEN Failed(k, "InvalidSize")
        ELSE IF OwnerError(k, id, t) # "Ok" THEN Failed(k, OwnerError(k, id, t))
        ELSE IF done.err = "Ok" THEN inc_mappings(k, id, done.m, done.mapped)
        ELSE [inc_mappings(k, id, back.m, done.mapped - back.done)
                EXCEPT !.err = "AlreadyMapped"]

\* Counts every page of the range off, the unmapped ones too.
unmap_region(k, id, t, virt, size) ==
    LET virts == RangePages(virt, size)
        done == UnmapPages(k.m, k.spaces[id].pml4, virts)
    IN  IF RangeError(virt, size) # "Ok" THEN Failed(k, RangeError(virt, size))
        ELSE IF OwnerError(k, id, t) # "Ok" THEN Failed(k, OwnerError(k, id, t))
        ELSE [dec_mappings(k, id, done.m, Len(virts))
                EXCEPT !.spaces[id].inexact = @ \/ done.done < Len(virts)]

\* Nothing is mapped back when a page cannot be mapped at its new place.
remap_region(k, id, t, old_virt, new_virt, size) ==
    LET old == RangePages(old_virt, size)
        root == k.spaces[id].pml4
        entries == [i \in DOMAIN old |-> query_mapping_in_pml4(k.m, root, old[i])]
        off == UnmapPages(k.m, root, old)
        on == MapPages(off.m, root, RangePages(new_virt, size),
                       [i \in DOMAIN old |-> entries[i].addr],
                       [i \in DOMAIN old |-> entries[i].user])
    IN  IF old_virt % PAGE_SIZE # 0 \/ new_virt % PAGE_SIZE # 0
        THEN Failed(k, "InvalidAddress")
        ELSE IF size = 0 THEN Failed(k, "InvalidSize")
        ELSE IF new_virt + size > KERNEL_BASE THEN Failed(k, "KernelSpaceViolation")
        ELSE IF OwnerError(k, id, t) # "Ok" THEN Failed(k, OwnerError(k, id, t))
        ELSE IF \E i \in DOMAIN old : entries[i].err # "Ok" THEN Failed(k, "NotMapped")
        ELSE [m |-> on.m,
              spaces |-> [k.spaces EXCEPT ![id].inexact =
                            @ \/ on.err # "Ok" \/ old[Len(old)] \notin LowerHalf],
              err |-> IF on.err = "Ok" THEN "Ok" ELSE "AlreadyMapped"]

-----------------------------------------------------------------------------
(***************************************************************************)
(* The loader for an address space: three segments, each taken off again   *)
(* by the guard when a later one fails.  l carries m, spaces, err and the  *)
(* segments tracked so far.                                                *)
(***************************************************************************)
\* The load after map_region's result r for the segment's frames from page.
SegmentMapped(l, r, page, virt, size) ==
    IF r.err # "Ok"
    THEN [l EXCEPT !.m = free_pages(r.m, page, num_pages(size)),
                   !.spaces = r.spaces, !.err = "AddressSpace"]
    ELSE [m |-> r.m, spaces |-> r.spaces, err |-> "Ok",
          mapped |-> Append(l.mapped, [virt |-> virt, page |-> page, size |-> align_up(size)])]

map_segment(l, id, t, virt, size) ==
    LET a == alloc_pages_zeroed(l.m, num_pages(size))
    IN  IF l.err # "Ok" \/ size = 0 THEN l
        ELSE IF ~a.ok THEN [l EXCEPT !.err = "OutOfMemory"]
        ELSE SegmentMapped(l, map_region([m |-> a.m, spaces |-> l.spaces], id, t, virt,
                                         a.page * PAGE_SIZE, align_up(size)),
                           a.page, virt, size)

RollbackGuard_drop(l, id, t) ==
    FoldRight(LAMBDA s, k :
                LET u == unmap_region(k, id, t, s.virt, s.size)
                IN  [u EXCEPT !.m = free_pages(@, s.page, num_pages(s.size))],
              l.mapped, Failed(l, l.err))

\* The guard is disarmed when every segment is mapped.
Guarded(l, id, t) ==
    IF l.err = "Ok" THEN l
    ELSE [err |-> l.err, mapped |-> <<>>] @@ RollbackGuard_drop(l, id, t)

do_load(image, id, t) ==
    LET data_base == USER_EXEC_LOAD_BASE + align_up(image.text)
        bss_base == data_base + align_up(image.data)
        l == [m |-> m, spaces |-> spaces, err |-> "Ok", mapped |-> <<>>]
        segments == <<[virt |-> USER_EXEC_LOAD_BASE, size |-> image.text],
                      [virt |-> data_base, size |-> image.data],
                      [virt |-> bss_base, size |-> image.bss]>>
    IN  IF bss_base + align_up(image.bss) > USER_CANONICAL_MAX
        THEN [l EXCEPT !.err = "NonCanonicalLayout"]
        ELSE Guarded(FoldLeft(LAMBDA k, s : map_segment(k, id, t, s.virt, s.size), l, segments),
                     id, t)

SegmentPages(s) == s.page .. s.page + num_pages(s.size) - 1

-----------------------------------------------------------------------------
(***************************************************************************)
(* Boot: vm::init maps RAM page by page; then the rest of mm::init,        *)
(* kmain's own mappings and the idle thread's stack, and launch_init.      *)
(***************************************************************************)
Init ==
    /\ m = vm_init
    /\ resident = {}
    /\ spaces = [i \in {} |-> <<>>] /\ next_space = 1
    /\ regions = [i \in {} |-> <<>>] /\ next_region = 1
    /\ phase = "vm"

Unmapped == {p \in Ram : query_mapping_in_pml4(m, ActivePml4, p).err # "Ok"}

MapNextPage ==
    /\ phase = "vm" /\ Unmapped # {}
    /\ m' = MapRam(m, Min(Unmapped))
    /\ UNCHANGED <<spaces, regions, next_space, next_region, resident, phase>>

FinishBoot ==
    LET heap == heap_init(MapMmio(m))
        idle == alloc_pages(ensure_current_stack_mapped(map_framebuffer(heap.m)),
                            KERNEL_STACK_PAGES)
    IN  /\ phase = "vm" /\ Unmapped = {}
        /\ m' = idle.m
        /\ resident' = heap.pages \union (idle.page .. idle.page + KERNEL_STACK_PAGES - 1)
        /\ phase' = "boot"
        /\ UNCHANGED <<spaces, regions, next_space, next_region>>

\* Frames for count pages from virt, replacing what is mapped there.
Place(l, virt, count, replace) ==
    LET a == alloc_pages_zeroed(l.m, count)
        virts == RangePages(virt, count * PAGE_SIZE)
        cleared == IF replace THEN UnmapActive(a.m, virts) ELSE a.m
        done == MapPages(cleared, ActivePml4, virts,
                         RangePages(a.page * PAGE_SIZE, count * PAGE_SIZE), All(virts, TRUE))
    IN  IF l.err # "Ok" \/ ~a.ok THEN [l EXCEPT !.err = "OutOfMemory"]
        ELSE [err |-> done.err, m |-> done.m,
              pages |-> l.pages \union (a.page .. a.page + count - 1)]

AtLeastOne(size) == IF size = 0 THEN 1 ELSE size

load_payload_into_kernel(image) ==
    LET text_pages == num_pages(AtLeastOne(image.text))
        text == Place([err |-> "Ok", m |-> m, pages |-> {}], USER_EXEC_LOAD_BASE,
                      text_pages, TRUE)
    IN  Place(text, USER_EXEC_LOAD_BASE + text_pages * PAGE_SIZE,
              num_pages(AtLeastOne(image.bss)), TRUE)

map_user_stack_into_kernel(l) ==
    Place(l, USER_STACK_TOP - USER_STACK_PAGES * PAGE_SIZE, USER_STACK_PAGES, FALSE)

\* kmain halts when a step fails.
create_init_process(image) ==
    \E l \in {map_user_stack_into_kernel(load_payload_into_kernel(image))} :
    LET stack == alloc_pages(l.m, KERNEL_STACK_PAGES)
        ok == l.err = "Ok" /\ stack.ok
    IN  /\ phase = "boot"
        /\ phase' = IF ok THEN "running" ELSE "halted"
        /\ m' = IF ok THEN stack.m ELSE l.m
        /\ resident' = resident \union l.pages \union
                       (IF ok THEN stack.page .. stack.page + KERNEL_STACK_PAGES - 1 ELSE {})
        /\ UNCHANGED <<spaces, regions, next_space, next_region>>

-----------------------------------------------------------------------------
(***************************************************************************)
(* The calls.  One that is refused changes nothing and is not a step; its  *)
(* return value is left out.                                               *)
(***************************************************************************)
Space == [m |-> m, spaces |-> spaces]

\* A call of the manager that takes the state to k.
SpaceCall(k) ==
    /\ phase = "running"
    /\ m' = k.m
    /\ spaces' = k.spaces
    /\ UNCHANGED <<regions, next_space, next_region, phase>>

\* A root with the kernel's half of the active one.
AddressSpace_new ==
    LET a == alloc_page_zeroed(m)
    IN  IF a.ok THEN [a EXCEPT !.m = clone_kernel_mappings(@, ActivePml4, a.page)] ELSE a

sys_addrspace_create(t) ==
    LET a == AddressSpace_new
    IN  /\ phase = "running"
        /\ next_space <= MaxSpaces
        /\ a.ok
        /\ m' = a.m
        /\ spaces' = (next_space :> [pml4 |-> a.page, owner |-> t,
                                     mapping_count |-> 0, inexact |-> FALSE]) @@ spaces
        /\ next_space' = next_space + 1
        /\ UNCHANGED <<regions, next_region, resident, phase>>

\* Only the PML4 is freed; the tables below it are kept.
AddressSpace_drop(id) == free_page(m, Root(id))

sys_addrspace_destroy(t, id) ==
    /\ OwnerError(Space, id, t) = "Ok"
    /\ spaces[id].mapping_count = 0
    /\ SpaceCall([m |-> AddressSpace_drop(id),
                  spaces |-> [i \in DOMAIN spaces \ {id} |-> spaces[i]]])
    /\ UNCHANGED resident

sys_map_region(t, id, virt, phys, size) ==
    SpaceCall(map_region(Space, id, t, virt, phys, size)) /\ UNCHANGED resident

sys_unmap_region(t, id, virt, size) ==
    SpaceCall(unmap_region(Space, id, t, virt, size)) /\ UNCHANGED resident

sys_remap_region(t, id, old_virt, new_virt, size) ==
    SpaceCall(remap_region(Space, id, t, old_virt, new_virt, size)) /\ UNCHANGED resident

load_into_address_space(t, id, image) ==
    \E l \in {do_load(image, id, t)} :
        /\ SpaceCall(l)
        /\ resident' = resident \union UNION {SegmentPages(s) : s \in ToSet(l.mapped)}

-----------------------------------------------------------------------------
RegionCall(mem, regs) ==
    /\ phase = "running"
    /\ m' = mem
    /\ regions' = regs
    /\ UNCHANGED <<spaces, next_space, resident, phase>>

SharedRegion_new_NoGiveBack(size) ==
    LET got == FoldLeft(LAMBDA a, i :
                            LET r == alloc_page_zeroed(a.m)
                            IN  IF ~a.ok THEN a
                                ELSE IF ~r.ok THEN [a EXCEPT !.ok = FALSE]
                                ELSE [ok |-> TRUE, m |-> r.m, pages |-> Append(a.pages, r.page)],
                        [ok |-> size > 0, m |-> m, pages |-> <<>>],
                        [i \in 1 .. num_pages(size) |-> i])
    IN  IF got.ok THEN got ELSE [got EXCEPT !.pages = <<>>]

\* Pages for a region; what was taken is given back when they do not suffice.
SharedRegion_new(size) ==
    LET got == FoldLeft(LAMBDA a, i :
                            LET r == alloc_page_zeroed(a.m)
                            IN  IF ~a.ok THEN a
                                ELSE IF ~r.ok THEN [a EXCEPT !.ok = FALSE]
                                ELSE [ok |-> TRUE, m |-> r.m, pages |-> Append(a.pages, r.page)],
                        [ok |-> size > 0, m |-> m, pages |-> <<>>],
                        [i \in 1 .. num_pages(size) |-> i])
    IN  IF got.ok THEN got
        ELSE [ok |-> FALSE, m |-> FoldLeft(free_page, got.m, got.pages), pages |-> <<>>]

\* The identifier is used up when the region cannot be made.
sys_shared_region_create(t, size) ==
    LET new == SharedRegion_new(size)
        region == [owner |-> t, pages |-> new.pages, mappings |-> <<>>, ref_count |-> 0]
    IN  /\ next_region <= MaxRegions
        /\ next_region' = next_region + 1
        /\ RegionCall(new.m, IF new.ok THEN (next_region :> region) @@ regions ELSE regions)

\* Rolls one page too many back.
SharedRegion_map_RollbackTooFar(virts, pages) ==
    LET done == MapPages(m, ActivePml4, virts, pages, All(virts, TRUE))
    IN  [err |-> done.err,
         m |-> IF done.err = "Ok" THEN done.m
               ELSE UnmapActive(done.m, SubSeq(virts, 1, done.mapped + 1))]

\* Rolls nothing back.
SharedRegion_map_NoRollback(virts, pages) ==
    MapPages(m, ActivePml4, virts, pages, All(virts, TRUE))

\* The pages mapped before one that fails are unmapped.
SharedRegion_map(virts, pages) ==
    LET done == MapPages(m, ActivePml4, virts, pages, All(virts, TRUE))
    IN  [err |-> done.err,
         m |-> IF done.err = "Ok" THEN done.m
               ELSE UnmapActive(done.m, SubSeq(virts, 1, done.mapped))]

sys_shared_region_map(t, id, virt) ==
    /\ id \in DOMAIN regions
    /\ virt % PAGE_SIZE = 0
    /\ LET r == regions[id]
           done == SharedRegion_map(RangePages(virt, Len(r.pages) * PAGE_SIZE), r.pages)
           mapping == [thread_id |-> t, virt |-> virt \div PAGE_SIZE]
       IN  /\ \A x \in ToSet(r.mappings) : x.thread_id # t
           /\ RegionCall(done.m,
                IF done.err = "Ok"
                THEN [regions EXCEPT ![id].mappings = Append(@, mapping), ![id].ref_count = @ + 1]
                ELSE regions)
    /\ UNCHANGED next_region

sys_shared_region_unmap(t, id) ==
    /\ id \in DOMAIN regions
    /\ \E i \in DOMAIN regions[id].mappings :
        LET r == regions[id]
            virts == [j \in DOMAIN r.pages |-> r.mappings[i].virt + j - 1]
        IN  /\ r.mappings[i].thread_id = t
            /\ RegionCall(UnmapActive(m, virts),
                          [regions EXCEPT ![id].mappings = RemoveAt(@, i),
                                          ![id].ref_count = @ - 1])
    /\ UNCHANGED next_region

SharedRegion_destroy(pages) == FoldLeft(free_page, m, pages)

\* Frees before it looks at the reference count.
sys_shared_region_destroy_FreesFirst(t, id) ==
    /\ id \in DOMAIN regions
    /\ regions[id].owner = t
    /\ RegionCall(SharedRegion_destroy(regions[id].pages),
                  [i \in {j \in DOMAIN regions : j # id \/ regions[j].ref_count > 0} |-> regions[i]])
    /\ UNCHANGED next_region

sys_shared_region_destroy(t, id) ==
    /\ id \in DOMAIN regions
    /\ regions[id].owner = t
    /\ regions[id].ref_count = 0
    /\ RegionCall(SharedRegion_destroy(regions[id].pages),
                  [i \in DOMAIN regions \ {id} |-> regions[i]])
    /\ UNCHANGED next_region

-----------------------------------------------------------------------------
\* What is mapped under a root: every page with a present entry at each level.
Translations(mem, root) ==
    LET below(S) == UNION {{[v |-> x.v * ENTRIES_PER_TABLE + i, addr |-> t[i].addr, user |-> t[i].user] :
                                i \in DOMAIN t} : <<x, t>> \in {<<y, mem.tables[y.addr]>> : y \in S}}
    IN  FoldLeft(LAMBDA S, l : below(S), {[v |-> 0, addr |-> root, user |-> TRUE]},
                 [l \in 1 .. Levels |-> l])

Lower(mem, root) == {x \in Translations(mem, root) : x.v \in LowerHalf}

\* The processor walks the active root and caches what it finds.
TlbFill(v) ==
    LET e == query_mapping_in_pml4(m, ActivePml4, v)
    IN  /\ phase = "running"
        /\ e.err = "Ok"
        /\ m' = [m EXCEPT !.tlb = @ \union {<<v, e.addr>>}]
        /\ UNCHANGED <<spaces, regions, next_space, next_region, resident, phase>>

\* A bound: a space that was misused is only destroyed.
InUse == {id \in DOMAIN spaces : ~spaces[id].inexact}

Next ==
    \/ MapNextPage
    \/ FinishBoot
    \/ \E image \in Images : create_init_process(image)
    \/ \E t \in Threads :
        \/ sys_addrspace_create(t)
        \/ \E id \in DOMAIN spaces : sys_addrspace_destroy(t, id)
        \/ \E id \in InUse :
            \/ \E virt \in VirtAddrs, size \in Sizes :
                \/ \E phys \in PhysAddrs : sys_map_region(t, id, virt, phys, size)
                \/ sys_unmap_region(t, id, virt, size)
                \/ \E old \in RemapAddrs :
                    /\ virt + size <= USER_CANONICAL_MAX + 1
                    /\ sys_remap_region(t, id, old, virt, size)
            \/ \E image \in Images : load_into_address_space(t, id, image)
        \/ \E size \in Sizes : sys_shared_region_create(t, size)
        \/ \E id \in DOMAIN regions :
            \/ \E virt \in SharedAddrs : sys_shared_region_map(t, id, virt)
            \/ sys_shared_region_unmap(t, id)
            \/ sys_shared_region_destroy(t, id)
    \/ \E virt \in SharedAddrs : virt <= USER_CANONICAL_MAX /\ TlbFill(virt \div PAGE_SIZE)

Spec == Init /\ [][Next]_vars

-----------------------------------------------------------------------------
Roots == {ActivePml4} \union {Root(id) : id \in DOMAIN spaces}
RegionPages(id) == ToSet(regions[id].pages)

\* The tables a root reaches, the root included.
TablesUnder(root) ==
    LET below(S) == UNION {{m.tables[t][i].addr : i \in DOMAIN m.tables[t]} : t \in S}
    IN  FoldLeft(LAMBDA a, l : [all |-> a.all \union below(a.last), last |-> below(a.last)],
                 [all |-> {root}, last |-> {root}], [l \in 1 .. Levels - 1 |-> l]).all

(***************************************************************************)
(* No page is lost or counted twice: the free counter is the number of     *)
(* clear bits (pmm.rs), and the pages taken from the PMM are the           *)
(* tables, the roots of live spaces, the pages of regions and what the     *)
(* kernel and the loaders keep, whichever calls failed in the middle       *)
(* (SharedRegion::new, map_segment and RollbackGuard give back what they   *)
(* took).                                                                  *)
(***************************************************************************)
FramesConserved ==
    /\ m.FREE_PAGES = Cardinality(m.free)
    /\ Cardinality(Conventional) - m.FREE_PAGES =
            m.PAGE_TABLE_PAGES + Cardinality(DOMAIN spaces) + Cardinality(resident)
            + MapThenSumSet(LAMBDA id : Len(regions[id].pages), DOMAIN regions)

(***************************************************************************)
(* A page in use has one use and is not free: page tables in reach of a    *)
(* root, the roots, the pages of each region and the resident pages.  Nor  *)
(* is a page free that is still mapped for user access: regions are        *)
(* unmapped before they are destroyed, and the loader's guard unmaps       *)
(* before it frees.                                                        *)
(***************************************************************************)
OneUsePerFrame ==
    LET uses == {TablesUnder(root) : root \in Roots} IN
    /\ \A root \in Roots : TablesUnder(root) \intersect m.free = {}
    /\ \A root \in Roots : TablesUnder(root) \intersect resident = {}
    /\ \A root \in Roots : \A y \in Lower(m, root) : y.user => y.addr \notin m.free
    /\ \A id \in DOMAIN regions :
        /\ RegionPages(id) \intersect (m.free \union resident \union UNION uses) = {}
        /\ \A other \in DOMAIN regions \ {id} : RegionPages(id) \intersect RegionPages(other) = {}
    /\ resident \intersect m.free = {}
    /\ \A a, b \in DOMAIN spaces : a # b => Root(a) # Root(b)

(***************************************************************************)
(* The processor never holds a translation of the lower half that the      *)
(* active tables no longer have: unmap_page invalidates, and map_page may  *)
(* do without.                                                             *)
(***************************************************************************)
TlbCoherent ==
    \A e \in m.tlb : e[1] \in LowerHalf =>
        \E y \in Translations(m, ActivePml4) : y.v = e[1] /\ y.addr = e[2]

(***************************************************************************)
(* mapping_count, which guards destroy, is the number of pages mapped in   *)
(* the lower half, through failed maps and their rollback, the loader's    *)
(* guard and remaps onto overlapping ranges, unless the space was misused. *)
(***************************************************************************)
CountExactUnlessMisused ==
    \A id \in DOMAIN spaces : ~spaces[id].inexact =>
        spaces[id].mapping_count = Cardinality(Lower(m, Root(id)))

(***************************************************************************)
(* The kernel reaches every page it allocates at its physical address, as  *)
(* alloc_page_zeroed and the table walks do: all of conventional memory    *)
(* stays identity-mapped in the active root.                               *)
(***************************************************************************)
IdentityMapped ==
    LET active == Translations(m, ActivePml4) IN
    phase # "vm" => \A p \in Conventional : \E y \in active : y.v = p /\ y.addr = p

Mapped(mem, root) == {<<y.v, y.addr>> : y \in Lower(mem, root)}
Frames(mem, root) == {y.addr : y \in Lower(mem, root)}

(***************************************************************************)
(* The tables follow the books.  The active lower half changes only when   *)
(* a region records a mapping, and what a space maps only when its         *)
(* mapping_count does (a remap moves pages, and a misused space is         *)
(* exempt): a map that fails in the middle leaves nothing behind.          *)
(***************************************************************************)
TablesFollowBooks ==
    [][m'.tables # m.tables /\ phase = "running" =>
        /\ regions' = regions => Mapped(m', ActivePml4) = Mapped(m, ActivePml4)
        /\ \A id \in DOMAIN spaces \intersect DOMAIN spaces' :
            (spaces'[id].mapping_count = spaces[id].mapping_count /\ ~spaces'[id].inexact)
                => Frames(m', Root(id)) = Frames(m, Root(id))]_m

(***************************************************************************)
(* A call changes the lower half of one root at most: the spaces share no  *)
(* table there with each other or with the kernel.                         *)
(***************************************************************************)
SpacesIsolated ==
    [][m'.tables # m.tables =>
        Cardinality({r \in Roots \intersect Roots' : Lower(m', r) # Lower(m, r)}) <= 1]_m
=============================================================================
