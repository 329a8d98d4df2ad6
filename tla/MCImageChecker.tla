--------------------------- MODULE MCImageChecker ---------------------------
(***************************************************************************)
(* Images of 20 blocks and 24 inodes, two direct pointers to an inode and  *)
(* two pointers to an indirect block: three that are sound, one with two   *)
(* directories in each other, and what becomes of them when one or two     *)
(* fields change.                                                          *)
(*   blocks 3 and 4 bitmaps, 5 to 7 inode table, 8 on data                 *)
(***************************************************************************)
EXTENDS ImageChecker

None == [type |-> "none", links |-> 0, ptr |-> [s \in Slot |-> 0]]
Node(type, links, ptrs) ==
    [type |-> type, links |-> links, ptr |-> [s \in Slot |-> ptrs[s + 1]]]
E(inode, rec_len, name) == [inode |-> inode, rec_len |-> rec_len, name |-> <<name>>]
P(first, second) == [k \in 0 .. 1 |-> IF k = 0 THEN first ELSE second]

(* Sets the bitmaps and counts of an image from the numbers that are free. *)
WithFree(d, blocks, inodes) ==
    [d EXCEPT !.clear = (3 :> {b - 1 : b \in blocks}) @@ (4 :> {i - 1 : i \in inodes}) @@ @,
              !.group[1].free_blocks = Cardinality(blocks),
              !.group[1].free_inodes = Cardinality(inodes)]

Blank ==
    [magic |-> TRUE, blocks |-> 20, inodes |-> 24, per_group |-> 20, inodes_per_group |-> 24,
     first_ino |-> 11,
     group |-> <<[free_blocks |-> 0, free_inodes |-> 0, block_bitmap |-> 3,
                  inode_bitmap |-> 4, inode_table |-> 5]>>,
     clear |-> (3 :> {}) @@ (4 :> {}),
     table |-> 5 :> [j \in 0 .. 23 |-> None],
     entries |-> 8 :> <<>>, pointers |-> 13 :> P(0, 0)]

WithInodes(d, nodes) ==
    [d EXCEPT !.table = 5 :> [j \in 0 .. 23 |-> IF j + 1 \in DOMAIN nodes THEN nodes[j + 1] ELSE None]]

(* A directory in the root, a file with one, two and two levels of         *)
(* indirect blocks; blocks 18 and 19 free.                                 *)
Ordered ==
    WithFree(
      WithInodes(
        [Blank EXCEPT
            !.entries = (8 :> <<E(2, 12, "."), E(2, 12, ".."), E(11, 12, "sub"), E(12, 988, "f")>>)
                     @@ (9 :> <<E(11, 12, "."), E(2, 1012, "..")>>),
            !.pointers = (11 :> P(12, 0)) @@ (13 :> P(14, 16)) @@ (14 :> P(15, 0)) @@ (16 :> P(17, 0))],
        (2 :> Node("d", 3, <<8, 0, 0, 0, 0>>)) @@ (11 :> Node("d", 2, <<9, 0, 0, 0, 0>>))
          @@ (12 :> Node("f", 1, <<10, 0, 11, 13, 0>>))),
      18 .. 19, 13 .. 24)

(* The root has two blocks, its second directory comes after it as text, a *)
(* file has two names, a link, and a file with three levels.               *)
Unordered ==
    WithFree(
      WithInodes(
        [Blank EXCEPT
            !.entries = (8 :> <<E(2, 12, "."), E(2, 12, ".."), E(20, 12, "late"), E(12, 988, "f")>>)
                     @@ (9 :> <<E(13, 500, "link"), E(11, 12, "sub"), E(12, 512, "g")>>)
                     @@ (10 :> <<E(20, 12, "."), E(2, 1012, "..")>>)
                     @@ (11 :> <<E(11, 12, "."), E(2, 1012, "..")>>),
            !.pointers = (13 :> P(14, 0)) @@ (14 :> P(15, 0)) @@ (15 :> P(16, 17))],
        (2 :> Node("d", 4, <<8, 9, 0, 0, 0>>)) @@ (11 :> Node("d", 2, <<11, 0, 0, 0, 0>>))
          @@ (20 :> Node("d", 2, <<10, 0, 0, 0, 0>>)) @@ (13 :> Node("s", 1, <<7777, 0, 0, 0, 0>>))
          @@ (12 :> Node("f", 2, <<12, 0, 0, 0, 13>>))),
      18 .. 19, (14 .. 19) \cup (21 .. 24))

(* Two groups, the second with free blocks, a directory and a file.        *)
TwoGroups ==
    [WithFree(Ordered, 18 .. 19, 13 .. 24) EXCEPT
        !.per_group = 12, !.inodes_per_group = 12,
        !.group = <<[free_blocks |-> 0, free_inodes |-> 0, block_bitmap |-> 3, inode_bitmap |-> 4,
                     inode_table |-> 5],
                    [free_blocks |-> 2, free_inodes |-> 11, block_bitmap |-> 1, inode_bitmap |-> 2,
                     inode_table |-> 6]>>,
        !.clear = (3 :> {}) @@ (4 :> {}) @@ (1 :> 5 .. 6) @@ (2 :> 1 .. 11),
        !.table = (5 :> [j \in 0 .. 11 |-> Ordered.table[5][j]])
               @@ (6 :> [j \in 0 .. 11 |-> IF j = 1 THEN Node("f", 1, <<19, 0, 0, 0, 0>>) ELSE None])]

SetPtr(d, i, s, b) == [d EXCEPT !.table[5][i - 1].ptr[s] = b]
SetEntry(d, b, n, inode) == [d EXCEPT !.entries[b][n].inode = inode]

(* Values for a pointer: none, reserved, another's, free, past the end,    *)
(* negative within and outside the array, and beyond what can be read.     *)
Blocks == {0, 7, 8, 10, 12, 17, 19, 25, -1, -100, WRAP + 14}
(* An indirect block must not be one whose content is not in the record.   *)
IndirectBlocks == {0, 10, 11, 12, 13, 14, 19, 25, WRAP + 13, WRAP \div 2}

PointerDamage(d) ==
    {SetPtr(d, 12, s, b) : s \in 0 .. 1, b \in Blocks}
    \cup {SetPtr(d, 12, s, b) : s \in 2 .. 4, b \in IndirectBlocks}
    \cup {SetPtr(d, 2, 1, b) : b \in Blocks \ {8, WRAP + 14}}

IndirectDamage(d) ==
    UNION {{[d EXCEPT !.pointers[b][k] = v] : v \in {0, 10, 12, 19, 25, -1}} :
              b \in DOMAIN d.pointers, k \in 0 .. 1}

FreeDamage(d) ==
    {WithFree(d, bs, 13 .. 24) : bs \in {{}, {18}, {10, 18, 19}, {12, 18, 19}, {17, 18, 19}}}
    \cup {WithFree(d, 18 .. 19, is) : is \in {{}, 14 .. 24, 12 .. 24, 2 .. 24}}

CountDamage(d) ==
    {[d EXCEPT !.group[1].free_blocks = c] : c \in {0, 1, 3}}
    \cup {[[d EXCEPT !.group[1].free_blocks = 4] EXCEPT !.clear[3] = @ \cup {20, 25, 33}]}
    \cup {[d EXCEPT !.group[1].free_inodes = c] : c \in {0, 20}}

InodeDamage(d) ==
    {[d EXCEPT !.table[5][i - 1] = None] : i \in {2, 11, 12}}
    \cup {[d EXCEPT !.table[5][i - 1].links = n] : i \in {2, 11, 12}, n \in {0, 1, 2}}
    \cup {[d EXCEPT !.table[5][11].type = t] : t \in {"s", "?"}}

EntryDamage(d) ==
    UNION {{SetEntry(d, p[1], p[2], i) : i \in {0, 2, 11, 12, 14, 30, -1, -100}} :
              p \in {p \in (DOMAIN d.entries) \X (1 .. 4) : p[2] \in DOMAIN d.entries[p[1]]}}

(* Two directories that are in each other, and nowhere else.               *)
Looped ==
    [Unordered EXCEPT !.entries[8][3] = E(13, 12, "late"), !.entries[9][2] = E(13, 12, "sub"),
                      !.entries[10] = <<E(20, 12, "."), E(11, 12, ".."), E(11, 1000, "in")>>,
                      !.entries[11] = <<E(11, 12, "."), E(20, 12, ".."), E(20, 1000, "on")>>]

(* Other names for entries.                                                *)
NameDamage(d) ==
    UNION {{[d EXCEPT !.entries[p[1]][p[2]].name = <<n>>] : n \in {".", "..", "x"}} :
              p \in {p \in (DOMAIN d.entries) \X (1 .. 4) : p[2] \in DOMAIN d.entries[p[1]]}}

(* A name with a comma, pointers in the boot block, no signature.          *)
OtherDamage(d) ==
    {[d EXCEPT !.entries[8][4].name = <<"f", "..">>],
     [d EXCEPT !.pointers = (0 :> P(0, 18)) @@ @],
     [d EXCEPT !.magic = FALSE]}

Damage(d) == PointerDamage(d) \cup IndirectDamage(d) \cup FreeDamage(d) \cup CountDamage(d)
             \cup InodeDamage(d) \cup EntryDamage(d) \cup NameDamage(d) \cup OtherDamage(d)

MCDisks ==
    {Ordered, Unordered, TwoGroups} \cup Damage(Ordered) \cup Damage(Unordered)
    \cup {Looped} \cup EntryDamage(Looped) \cup NameDamage(Looped)
    \cup UNION {FreeDamage(e) \cup PointerDamage(e) : e \in {SetPtr(Ordered, 12, 1, b) : b \in Blocks}}
=============================================================================
