------------------------------ MODULE MCPaging ------------------------------
(* Three levels of four entries: 64 pages.                                 *)
EXTENDS Paging

\* Both halves of the address space, as the boot loader maps them, and single
\* pages, parts of tables, whole tables and groups of tables at aligned and
\* unaligned places.  96 and 112 are the sign-extended forms of 32 and 48; the
\* kernel is mapped at the latter, over part of a table.
MCRequests ==
    [physical : {0, 1, 4, 16},
     virtual  : {0, 1, 4, 7, 54, 96, 112},
     length   : {1, 2, 4, 8, 16, 20, 32}]
=============================================================================
