------------------------------- MODULE Paging -------------------------------
(***************************************************************************)
(* kernel_paging: GenericPaging::map and query on a tree of page tables.   *)
(*                                                                         *)
(* Addresses and lengths are counted in pages, since map asserts that they *)
(* are multiples of one.  A table is a function from its indices to        *)
(* entries, and an entry that points to a table contains it: split is the  *)
(* only code that makes such an entry, from a table of its own.  The flags *)
(* of a mapping are 0xf (V, R, W, X) in all calls, so an entry is invalid, *)
(* a leaf or a table, and the WriteOnly and ReservedBitSet results of      *)
(* query do not occur.                                                     *)
(***************************************************************************)
EXTENDS Integers

CONSTANTS
    LEVELS,
    EntryCount, \* entries of a table, 512 in the code
    Requests,   \* arguments of map: [physical, virtual, length : Nat]
    MaxMaps     \* bound: calls of map

ASSUME ConstantsOK ==
    /\ LEVELS \in Nat \ {0} /\ EntryCount \in Nat \ {0, 1} /\ MaxMaps \in Nat
    /\ \A q \in Requests : {q.physical, q.virtual} \subseteq Nat /\ q.length \in Nat \ {0}

\* get_vpn_size, in pages.
VpnSize(i) == EntryCount ^ i

\* get_vpn_number
VpnNumber(a, i) == (a \div VpnSize(i)) % EntryCount

\* set_vpn_number
SetVpnNumber(a, i, n) == a + (n - VpnNumber(a, i)) * VpnSize(i)

\* Pages of the virtual address space.
Space == VpnSize(LEVELS)
Pages == 0 .. Space - 1
Indices == 0 .. EntryCount - 1

\* decanonicalize_address: the sign extension is masked out.
Decanonicalize(a) == a % Space

\* UNRESERVED_BITS_MASK keeps 44 bits of page number: more than an address has.
PhysicalSpace == 2 * Space

VARIABLES
    table,       \* the root table
    calls,       \* number of calls of map
    expected,    \* history: per page what it should translate to
    unspecified  \* history: pages nothing is expected of

vars == <<table, calls, expected, unspecified>>

\* An entry; sub is the table it points to.
Invalid == [kind |-> "invalid", ppn |-> 0, sub |-> <<>>]
Leaf(p) == [kind |-> "leaf", ppn |-> p % PhysicalSpace, sub |-> <<>>]

\* is_leaf: an entry that is not valid counts as one.
IsLeaf(e) == e.kind # "table"

-----------------------------------------------------------------------------
(* Entry::split and map.                                                   *)

\* Mutant: the increment is the size of the entry itself.
SplitTooFar(e, level) ==
    [kind |-> "table", ppn |-> 0,
     sub |-> [n \in Indices |-> [e EXCEPT !.ppn = e.ppn + n * VpnSize(level)]]]

\* split(get_vpn_size(level - 1)): the same flags, ascending addresses.
Split(e, level) ==
    [kind |-> "table", ppn |-> 0,
     sub |-> [n \in Indices |-> [e EXCEPT !.ppn = e.ppn + n * VpnSize(level - 1)]]]

Misaligned(a, level) == a % VpnSize(level) # 0

\* The first and the last index that map_internal goes through at a level.  The
\* end of the range counts as part of it at level 0.  The last index of a table
\* is 511 in the code, which is right for entries of 8 bytes (not for Sv32).
VpnStart(virtual, level) == VpnNumber(virtual, level)

VpnEnd(virtual, length, level) ==
    LET last == VpnNumber(IF level = 0 THEN virtual + length ELSE virtual + length - 1, level)
    IN  IF last < VpnStart(virtual, level) THEN EntryCount - 1 ELSE last

\* Mutant: where the physical range begins plays no role.
MustSplitVirtual(n, physical, virtual, length, level) ==
    \/ n = VpnStart(virtual, level) /\ Misaligned(virtual, level)
    \/ n = VpnEnd(virtual, length, level) /\ Misaligned(virtual + length, level)

\* Whether a leaf at index n has to become a table.
MustSplit(n, physical, virtual, length, level) ==
    \/ /\ n = VpnStart(virtual, level)
       /\ Misaligned(virtual, level) \/ Misaligned(physical, level)
    \/ /\ n = VpnEnd(virtual, length, level)
       /\ Misaligned(virtual + length, level) \/ Misaligned(physical + length, level)

RECURSIVE MapInternal(_, _, _, _, _, _)
MapInternal(level, tab, physical, virtual, length, current_virt_offset) ==
    LET Mapped(n) ==
            LET current == current_virt_offset + n * VpnSize(level)
                leaf == Leaf(current + physical - virtual + PhysicalSpace)
                entry == IF IsLeaf(tab[n]) /\ MustSplit(n, physical, virtual, length, level)
                         THEN Split(tab[n], level) ELSE tab[n]
            IN  IF level = 0 \/ IsLeaf(entry) THEN leaf
                ELSE [entry EXCEPT !.sub =
                        MapInternal(level - 1, @, physical, virtual, length, current)]
    IN  [n \in Indices |->
            IF n \in VpnStart(virtual, level) .. VpnEnd(virtual, length, level)
            THEN Mapped(n) ELSE tab[n]]

-----------------------------------------------------------------------------
(* query: a physical page, or one of these.                                *)

InvalidError   == -1
PageFaultError == -2
AssertFails    == -3  \* a misaligned superpage

\* The digits of the address below i are those of the virtual address, the
\* others those of the entry; physical bits above the last level are dropped.
Translate(virtual, e, i) ==
    LET Digit(j) == IF j < i THEN VpnNumber(virtual, j) ELSE VpnNumber(e.ppn, j)
        Sum[j \in -1 .. LEVELS - 1] ==
            IF j = -1 THEN 0 ELSE SetVpnNumber(Sum[j - 1], j, Digit(j))
    IN  Sum[LEVELS - 1]

RECURSIVE QueryAt(_, _, _)
QueryAt(tab, i, virtual) ==
    LET pte == tab[VpnNumber(virtual, i)] IN
    CASE pte.kind = "invalid" -> InvalidError
      [] pte.kind = "table" ->
            IF i = 0 THEN PageFaultError ELSE QueryAt(pte.sub, i - 1, virtual)
      [] pte.kind = "leaf" ->
            IF \A j \in 0 .. i - 1 : VpnNumber(pte.ppn, j) = 0
            THEN Translate(virtual, pte, i) ELSE AssertFails

Query(tab, virtual) == QueryAt(tab, LEVELS - 1, virtual)

-----------------------------------------------------------------------------
(* Calls of map, and what is expected of them.                             *)

\* What memory may hold that is read as an entry: nothing valid, a leaf, or the
\* address of a block that is read as a table in turn.
StaleEntries == {Invalid, Leaf(0), Split(Leaf(0), LEVELS - 1)}

\* The boot loader's root is Table::zeroed.  The kernel's is Table::boxed_zeroed,
\* whose iterator of writes is never consumed: the block keeps its old contents
\* and nothing can be expected of a page before it is mapped.  map treats the
\* entries of the root one by one, so that equal ones show every case.
Init ==
    /\ calls = 0
    /\ \/ /\ table = [n \in Indices |-> Invalid]
          /\ expected = [p \in Pages |-> InvalidError] /\ unspecified = {}
       \/ /\ \E e \in StaleEntries : table = [n \in Indices |-> e]
          /\ expected = [p \in Pages |-> InvalidError] /\ unspecified = Pages

\* The level at which the entries of a range are whole.
WholeAt(q, level) ==
    \A a \in {q.physical, Decanonicalize(q.virtual), q.length} : ~Misaligned(a, level)

EntryLevel(q) ==
    CHOOSE l \in 0 .. LEVELS - 1 :
        /\ WholeAt(q, l)
        /\ \A k \in l + 1 .. LEVELS - 1 : ~WholeAt(q, k)

\* Whether page p is translated through a table of the lowest level.
RECURSIVE ReachesLowest(_, _, _)
ReachesLowest(tab, level, p) ==
    \/ level = 0
    \/ LET e == tab[VpnNumber(p, level)] IN
       ~IsLeaf(e) /\ ReachesLowest(e.sub, level - 1, p)

\* The ranges map is good for: inside of one table at the level of its entries,
\* and with no lowest table that it fills completely.  (In a range over several
\* tables each one is entered at the index of the first, and at level 0 the end
\* of a whole table is taken for its first entry.)
Plain(q) ==
    LET v == Decanonicalize(q.virtual)
        l == EntryLevel(q)
        range == v .. v + q.length - 1
    IN  /\ v \div VpnSize(l + 1) = (v + q.length - 1) \div VpnSize(l + 1)
        /\ IF l = 0
           THEN Misaligned(v, 1) \/ Misaligned(v + q.length, 1)
           ELSE \A p \in range : ~ReachesLowest(table, LEVELS - 1, p)

\* map writes one page more than it is asked to, if the lowest table has one.
Spill(q) ==
    LET end == Decanonicalize(q.virtual) + q.length
    IN  IF EntryLevel(q) = 0 /\ Misaligned(end, 1) THEN {end} ELSE {}

Map(q) ==
    LET v == Decanonicalize(q.virtual)
        range == v .. v + q.length - 1
    IN  /\ calls < MaxMaps
        /\ calls' = calls + 1
        /\ table' = MapInternal(LEVELS - 1, table, q.physical, v, q.length, 0)
        /\ expected' = [p \in Pages |->
                IF p \in range THEN (q.physical + p - v) % Space ELSE expected[p]]
        /\ unspecified' =
                IF Plain(q) THEN (unspecified \ range) \cup Spill(q) ELSE Pages

Next == \E q \in Requests : Map(q)

Spec == Init /\ [][Next]_vars

-----------------------------------------------------------------------------
(* Properties.                                                             *)

RECURSIVE IsTable(_, _)
IsTable(tab, level) ==
    /\ DOMAIN tab = Indices
    /\ \A n \in Indices :
          \/ IsLeaf(tab[n]) /\ tab[n].ppn \in Nat /\ tab[n].sub = <<>>
          \/ level > 0 /\ ~IsLeaf(tab[n]) /\ IsTable(tab[n].sub, level - 1)

TypeOK ==
    /\ IsTable(table, LEVELS - 1)
    /\ calls \in 0 .. MaxMaps
    /\ expected \in [Pages -> {InvalidError} \cup Pages]
    /\ unspecified \subseteq Pages

\* What map and query promise together: a page of a plain range translates to
\* its physical page, and every other page but the one after the range keeps its
\* translation, through splits of larger pages, overwrites, and whatever table
\* earlier calls have left, which stay well-formed.
TranslationMatches ==
    /\ TypeOK
    /\ \A p \in Pages \ unspecified : Query(table, p) = expected[p]

\* kernel_paging, on split: it "takes a leaf entry and turns it into a reference
\* to a page table with the same effect".
SplitHasSameEffect ==
    LEVELS > 1 =>
        \A p \in Pages :
            LET n == VpnNumber(p, LEVELS - 1) IN
            (IsLeaf(table[n]) /\ Query(table, p) # AssertFails) =>
                Query([table EXCEPT ![n] = Split(@, LEVELS - 1)], p) = Query(table, p)
=============================================================================
