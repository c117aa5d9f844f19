------------------------------- MODULE Image --------------------------------
(***************************************************************************)
(* The checks of parse_image (executable.rs) on the header of an ATXF      *)
(* image of `size` bytes.  The header's fields are numbers below U32; sums *)
(* are taken in 64 bits, except those of the overlap test, which are taken *)
(* in 32 bits.                                                             *)
(***************************************************************************)
EXTENDS Integers, Sequences

CONSTANTS PAGE_SIZE, HeaderBytes, U32

ASSUME ImageAssumption == PAGE_SIZE \in Nat \ {0} /\ HeaderBytes \in Nat \ {0} /\ U32 \in Nat \ {0}

Add32(a, b) == (a + b) % U32

\* The error of the first test that fails.
FirstFailure(tests) ==
    LET failed == {i \in DOMAIN tests : tests[i].fails}
    IN  IF failed = {} THEN "Ok" ELSE tests[CHOOSE i \in failed : \A j \in failed : i <= j].error

Test(fails, error) == [fails |-> fails, error |-> error]

Overlap(h) ==
    \/ h.text_offset <= h.data_offset /\ Add32(h.text_offset, h.text_size) > h.data_offset
    \/ h.data_offset <= h.text_offset /\ Add32(h.data_offset, h.data_size) > h.text_offset

parse_image_OneOverlap(h, size) ==
    FirstFailure(<<
        Test(size < HeaderBytes, "Truncated"),
        Test(~h.magic, "InvalidMagic"),
        Test(~h.version, "UnsupportedVersion"),
        Test(h.header_size < HeaderBytes, "Truncated"),
        Test(h.text_offset % PAGE_SIZE # 0 \/ h.data_offset % PAGE_SIZE # 0, "MisalignedSection"),
        Test(h.text_offset < h.header_size \/ h.data_offset < h.header_size, "OverlappingSection"),
        Test(h.text_offset + h.text_size > size, "Truncated"),
        Test(h.data_offset + h.data_size > size, "Truncated"),
        Test(h.text_offset <= h.data_offset /\ Add32(h.text_offset, h.text_size) > h.data_offset,
             "OverlappingSection"),
        Test(h.entry_offset >= h.text_size, "EntryOutOfBounds"),
        Test(size < h.header_size, "Truncated")>>)

parse_image(h, size) ==
    FirstFailure(<<
        Test(size < HeaderBytes, "Truncated"),
        Test(~h.magic, "InvalidMagic"),
        Test(~h.version, "UnsupportedVersion"),
        Test(h.header_size < HeaderBytes, "Truncated"),
        Test(h.text_offset % PAGE_SIZE # 0 \/ h.data_offset % PAGE_SIZE # 0, "MisalignedSection"),
        Test(h.text_offset < h.header_size \/ h.data_offset < h.header_size, "OverlappingSection"),
        Test(h.text_offset + h.text_size > size, "Truncated"),
        Test(h.data_offset + h.data_size > size, "Truncated"),
        Test(Overlap(h), "OverlappingSection"),
        Test(h.entry_offset >= h.text_size, "EntryOutOfBounds"),
        Test(size < h.header_size, "Truncated")>>)

\* build_embedded_image: one page of text, no data, after a page for the header.
EmbeddedHeader ==
    [magic |-> TRUE, version |-> TRUE, header_size |-> HeaderBytes, entry_offset |-> 0,
     text_offset |-> PAGE_SIZE, text_size |-> PAGE_SIZE, data_offset |-> 2 * PAGE_SIZE, data_size |-> 0]

embedded_init_image == [header |-> EmbeddedHeader, size |-> 2 * PAGE_SIZE]
=============================================================================
