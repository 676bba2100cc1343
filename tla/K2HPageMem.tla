----------------------------- MODULE K2HPageMem -----------------------------
(***************************************************************************)
(* A chain of pages of a file that is mapped whole (src/lib/k2hpagemem.cc):  *)
(* the head of a page object is the head in the mapping, so every read sees  *)
(* the present chain and every write is at once in it.                       *)
(***************************************************************************)
EXTENDS K2HPage

\* LoadData: the bytes of the whole chain.
LoadAll(f, p) ==
    FlattenSeq([i \in DOMAIN ChainFrom(f, p) |->
                   LET q == ChainFrom(f, p)[i] IN SubSeq(f.data[q], 1, f.len[q])])

\* SetData: the bytes from the head of the chain on, page by page.
SetAll(f, p, bytes) ==
    LET chain == ChainFrom(f, p)
        Part(q) == IF \E i \in 1 .. PagesFor(Len(bytes)) : chain[i] = q
                   THEN PageOf(bytes, CHOOSE i \in DOMAIN chain : chain[i] = q)
                   ELSE <<>>
    IN  [f EXCEPT !.len  = [q \in Pages |-> IF Part(q) = <<>> THEN @[q] ELSE Len(Part(q))],
                  !.data = [q \in Pages |-> Overlay(@[q], 0, Part(q))]]

\* The offset to go on with in the next page: what is left of it when the whole
\* page lies in front of it.
OffsetBehind(beyond, off, length) == IF beyond THEN off - length ELSE 0

\* LoadData with an offset: at most n bytes from offset off of page p on, the
\* page where that ends and the offset in it.
RECURSIVE ReadFrom(_, _, _, _, _)
ReadFrom(f, p, off, n, got) ==
    LET beyond == f.len[p] <= off
        here   == IF beyond THEN 0 ELSE Min({f.len[p] - off, n})
        bytes  == got \o SubSeq(f.data[p], off + 1, off + here)
    IN  IF n = here \/ f.next[p] = NoPage
        THEN [obj |-> Object(p), off |-> off + here, bytes |-> bytes]
        ELSE ReadFrom(f, f.next[p], OffsetBehind(beyond, off, f.len[p]), n - here, bytes)

\* The read offset stays where it was.
LoadData_StaysPut(f, o, off, n) == [ReadFrom(f, o.page, off, n, <<>>) EXCEPT !.off = off]

LoadData(f, o, off, n) == ReadFrom(f, o.page, off, n, <<>>)

\* The new pages hang behind page p.
Appended(f, p, new) == [ok |-> new.ok,
                        f  |-> IF new.ok THEN [new.f EXCEPT !.next[p] = new.first] ELSE f]

\* AddPages: new pages for n bytes behind page p.
AddPages(f, p, n) == Appended(f, p, ReservePages(f, n))

\* SetData with an offset.  A page in front of the offset is grown to its end;
\* pages are added where the chain ends.
RECURSIVE WriteFrom(_, _, _, _, _)
WriteFrom(f, p, bytes, off, grown) ==
    LET beyond == Room <= off
        here   == IF beyond THEN 0 ELSE Min({Room - off, Len(bytes)})
        reach  == IF beyond THEN Room ELSE off + here
        longer == grown \/ f.len[p] < reach
        done   == [f EXCEPT !.len[p] = Max({@, reach}),
                            !.data[p] = Overlay(@, off, SubSeq(bytes, 1, here))]
        rest   == SubSeq(bytes, here + 1, Len(bytes))
        left   == OffsetBehind(beyond, off, Room)
        more   == AddPages(done, p, Len(rest))
    IN  IF rest = <<>>
        THEN [ok |-> TRUE, f |-> done, obj |-> Object(p), off |-> off + Len(bytes),
              grown |-> longer]
        ELSE IF done.next[p] # NoPage
        THEN WriteFrom(done, done.next[p], rest, left, longer)
        ELSE IF more.ok
        THEN WriteFrom(more.f, more.f.next[p], rest, left, TRUE)
        ELSE [ok |-> FALSE, f |-> done, obj |-> Object(p), off |-> off, grown |-> longer]

\* What SetData answers when it fails is the object it was called on.
Reached(o, r) == IF r.ok THEN r ELSE [r EXCEPT !.obj = o]

SetData(f, o, bytes, off) == Reached(o, WriteFrom(f, o.page, bytes, off, FALSE))

\* Free: the pages of the chain, emptied, go back in front of the free list.
Free(f, p) ==
    LET chain == ChainFrom(f, p)
    IN  PutBackPages([f EXCEPT !.len = [q \in Pages |->
                                           IF q \in Range(chain) THEN 0 ELSE @[q]]],
                     p, Last(chain))

\* The length of a page that n more bytes begin with.
OnePage_Uncut(n) == n

OnePage(n) == Min({n, Room})

\* The lengths of the pages behind the first, for rest bytes in them; r is what
\* AddPages has answered.
Spread(o, r, rest) ==
    LET after == ChainFrom(r.f, r.f.next[o.page])
        Length(q) == IF \E i \in 1 .. Min({Len(after), PagesFor(rest)}) : after[i] = q
                     THEN OnePage(rest - Room * ((CHOOSE i \in DOMAIN after : after[i] = q) - 1))
                     ELSE r.f.len[q]
    IN  [ok  |-> r.ok /\ rest <= Room * Len(after),
         obj |-> o,
         f   |-> IF r.ok THEN [r.f EXCEPT !.len = [q \in Pages |-> Length(q)]] ELSE r.f]

\* Pages are added only to a chain of one page.
Lengthen(f, o, rest) ==
    Spread(o, IF f.next[o.page] = NoPage /\ rest > 0 THEN AddPages(f, o.page, rest)
              ELSE [ok |-> TRUE, f |-> f], rest)

\* Truncate, to n bytes.  Only a first page that was not full counts against n.
Truncate(f, o, n) ==
    LET p == o.page
    IN  CASE n < f.len[p] ->
                [ok |-> TRUE, obj |-> o,
                 f  |-> IF f.next[p] = NoPage THEN [f EXCEPT !.len[p] = n]
                        ELSE Free([f EXCEPT !.len[p] = n], f.next[p])]
          [] n = f.len[p] -> [ok |-> TRUE, f |-> f, obj |-> o]
          [] n > f.len[p] /\ f.len[p] < Room ->
                Lengthen([f EXCEPT !.len[p] = OnePage(n)], o, n - OnePage(n))
          [] n > f.len[p] /\ f.len[p] >= Room -> Lengthen(f, o, n)
=============================================================================
