------------------------------- MODULE K2HPage -------------------------------
(***************************************************************************)
(* The pages of a k2hash file (src/lib/k2hpage.h, src/lib/k2hshm.cc) at the  *)
(* level of their heads: what K2HPageMem and K2HPageFile have in common.     *)
(*                                                                          *)
(* "f" stands for the page area of the file, a record of                     *)
(*    next[p]   the next page of the chain of page p, or of the free list    *)
(*    len[p]    how many bytes of p are in use                               *)
(*    data[p]   the bytes of p, those not in use included: nothing clears    *)
(*              them                                                         *)
(*    free      pfree_pages                                                  *)
(* The backward pointers of the heads are left out, nothing follows them.    *)
(* How the free list is extended and shared is the subject of K2HPages: here *)
(* it has the pages it has, and runs out.                                    *)
(***************************************************************************)
EXTENDS Integers, Sequences, FiniteSetsExt, SequencesExt

CONSTANTS
    LastPage,   \* the pages of the file are 1 .. LastPage
    Room        \* the bytes of a page: PageSize - PAGEHEAD_SIZE

Pages == 1 .. LastPage
NoPage == 0                 \* NULL

\* The pages from p on, in the order of the chain; at most one more than there
\* are, so that a chain that runs into itself shows a page twice.
ChainFrom(f, p) ==
    LET at[i \in 0 .. LastPage] ==
            IF i = 0 THEN p
            ELSE IF at[i - 1] = NoPage THEN NoPage ELSE f.next[at[i - 1]]
    IN  SelectSeq([i \in 1 .. LastPage + 1 |-> at[i - 1]], LAMBDA q : q # NoPage)

PagesFor(n) == (n + Room - 1) \div Room

\* A chain for n bytes from the head of the free list.  The lengths of free
\* pages are 0.
ReservePages(f, n) ==
    LET list == ChainFrom(f, f.free)
    IN  IF Len(list) < PagesFor(n)
        THEN [ok |-> FALSE, f |-> f, first |-> NoPage]
        ELSE LET last == list[PagesFor(n)]
             IN  [ok    |-> TRUE,
                  f     |-> [f EXCEPT !.free = f.next[last], !.next[last] = NoPage],
                  first |-> list[1]]

\* The chain from top to last goes in front of the free list.
PutBackPages(f, top, last) == [f EXCEPT !.next[last] = f.free, !.free = top]

\* The bytes s, written from offset off of a page on.
Overlay(bytes, off, s) ==
    [i \in 1 .. Room |-> IF i \in off + 1 .. off + Len(s) THEN s[i - off] ELSE bytes[i]]

\* The n-th part of s, cut into pages.
PageOf(s, n) == SubSeq(s, (n - 1) * Room + 1, Min({n * Room, Len(s)}))

-----------------------------------------------------------------------------

\* A page object: where it is, and the copy of the head that K2HPageFile keeps
\* once it has read it.
Object(p) == [page |-> p, loaded |-> FALSE, next |-> NoPage, len |-> 0]
NoObject == Object(NoPage)

Objects == [page : 0 .. LastPage, loaded : BOOLEAN, next : 0 .. LastPage, len : 0 .. Room]
=============================================================================
