----------------------------- MODULE MCStartup -----------------------------
(***************************************************************************)
(* Disks whose kernel has two segments at unaligned places, of no, a part  *)
(* of, or several sectors, with its entry before, at and behind the first  *)
(* sector's end, and its clusters in one or in several sectors of the      *)
(* table; one whose last segment lies at the file's end, and one whose     *)
(* file is not an ELF file.                                                *)
(***************************************************************************)
EXTENDS Startup

Segments == {<<[off |-> o, filesz |-> n, memsz |-> n + 1, addr |-> 0],
               [off |-> o + n + g, filesz |-> m, memsz |-> m + 2, addr |-> n + 1 + g]>> :
                o \in {3, 4}, n \in {0, 1, 9}, g \in {0, 3}, m \in {1, 8}}

Disk(dir, slot, kernel, size, segs) ==
    [dir |-> dir, slot |-> slot, used |-> 6, kernel |-> kernel, size |-> size, elf |-> TRUE,
     segs |-> segs]

MCImages ==
    {d \in {Disk(<<0>>, 0, <<5, 10, 2>>, size, s) : size \in {21, 24}, s \in Segments} :
        \A k \in {1, 2} : d.segs[k].off + d.segs[k].filesz <= d.size}
    \cup {Disk(dir, slot, kernel, 21, s) :
             dir \in {<<0>>, <<0, 6>>}, slot \in {2, 3, 4, 5}, kernel \in {<<1, 2, 3>>, <<4, 9, 3>>},
             s \in {t \in Segments : t[1].filesz = 9 /\ t[2].off = 12}}
    \cup {Disk(<<0>>, 1, <<5, 10, 2>>, 21,
               <<[off |-> 3, filesz |-> 9, memsz |-> 9, addr |-> 0],
                 [off |-> 21, filesz |-> 0, memsz |-> 2, addr |-> 12]>>)}
    \cup {[Disk(<<0>>, 1, <<1>>, 3, <<>>) EXCEPT !.elf = FALSE]}

MCVectors == {6, 8, 9, 14, 22, 32, 33, 46}
=============================================================================
