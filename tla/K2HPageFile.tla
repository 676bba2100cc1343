----------------------------- MODULE K2HPageFile -----------------------------
(***************************************************************************)
(* A chain of pages of a file that is not mapped whole                       *)
(* (src/lib/k2hpagefile.cc): heads and bytes are read from the file and      *)
(* written to it.  An object reads the head of its page once and keeps it;   *)
(* when it changes one field it writes all of them, those it read earlier    *)
(* included.                                                                 *)
(***************************************************************************)
EXTENDS K2HPage

LoadPageHead(f, o) ==
    IF o.loaded THEN o
    ELSE [o EXCEPT !.loaded = TRUE, !.next = f.next[o.page], !.len = f.len[o.page]]

UploadPageHead(f, o) ==
    [f EXCEPT !.next[o.page] = o.next, !.len[o.page] = o.len]

\* What an object that has not read its head yet does to the file is what a
\* mapped one does.
Mapped == INSTANCE K2HPageMem

\* LoadData: the bytes of the whole chain, read through objects of its own.
LoadAll(f, p) ==
    LET Bytes(o) == SubSeq(f.data[o.page], 1, o.len)
    IN  FlattenSeq([i \in DOMAIN ChainFrom(f, p) |->
                       Bytes(LoadPageHead(f, Object(ChainFrom(f, p)[i])))])

\* SetData: the bytes from the head of a new chain on, page by page.
SetAll(f, p, bytes) ==
    LET chain == ChainFrom(f, p)
        Write(g, i) ==
            LET o == [LoadPageHead(g, Object(chain[i])) EXCEPT !.len = Len(PageOf(bytes, i))]
            IN  [UploadPageHead(g, o) EXCEPT !.data[chain[i]] = Overlay(@, 0, PageOf(bytes, i))]
    IN  FoldLeft(Write, f, [i \in 1 .. PagesFor(Len(bytes)) |-> i])

\* LoadData with an offset.  The object it starts from may hold an old head;
\* those behind it are read.
RECURSIVE ReadFrom(_, _, _, _, _)
ReadFrom(f, o, off, n, got) ==
    LET beyond == o.len <= off
        here   == IF beyond THEN 0 ELSE Min({o.len - off, n})
        bytes  == got \o SubSeq(f.data[o.page], off + 1, off + here)
    IN  IF n = here \/ o.next = NoPage
        THEN [obj |-> o, off |-> off + here, bytes |-> bytes]
        ELSE ReadFrom(f, LoadPageHead(f, Object(o.next)),
                      IF beyond THEN off - o.len ELSE 0, n - here, bytes)

LoadData(f, o, off, n) == ReadFrom(f, LoadPageHead(f, o), off, n, <<>>)

\* The new pages hang behind the page of o, whose head is then read again.
Linked(f, o, new) ==
    LET g == UploadPageHead(new.f, [o EXCEPT !.next = new.first])
    IN  IF new.ok THEN [ok |-> TRUE, f |-> g, obj |-> LoadPageHead(g, Object(o.page))]
        ELSE [ok |-> FALSE, f |-> f, obj |-> o]

\* AddPages: new pages for n bytes behind the page of o.
AddPages(f, o, n) == Linked(f, o, ReservePages(f, n))

\* The page that SetData goes on with: the one behind the object it was called
\* on, whichever page it has reached.
Following(this, o) == this.next

\* SetData with an offset, called on "this" and at the page of o.
RECURSIVE WriteFrom(_, _, _, _, _, _)
WriteFrom(f, this, o, bytes, off, grown) ==
    LET beyond == Room <= off
        here   == IF beyond THEN 0 ELSE Min({Room - off, Len(bytes)})
        reach  == IF beyond THEN Room ELSE off + here
        short  == o.len < reach
        head   == [o EXCEPT !.len = Max({@, reach})]
        shaped == IF short THEN UploadPageHead(f, head) ELSE f
        done   == [shaped EXCEPT !.data[o.page] = Overlay(@, off, SubSeq(bytes, 1, here))]
        rest   == SubSeq(bytes, here + 1, Len(bytes))
        left   == IF beyond THEN off - Room ELSE 0
        more   == IF head.next # NoPage THEN [ok |-> TRUE, f |-> done, obj |-> head]
                  ELSE AddPages(done, head, Len(rest))
        self   == IF this.page = o.page THEN more.obj ELSE this
    IN  IF rest = <<>>
        THEN [ok |-> TRUE, f |-> done, obj |-> head, off |-> off + Len(bytes),
              grown |-> grown \/ short]
        ELSE IF more.ok
        THEN WriteFrom(more.f, self, LoadPageHead(more.f, Object(Following(self, more.obj))),
                       rest, left, grown \/ short \/ head.next = NoPage)
        ELSE [ok |-> FALSE, f |-> done, obj |-> self, off |-> off, grown |-> grown]

SetData(f, o, bytes, off) ==
    LET this == LoadPageHead(f, o) IN WriteFrom(f, this, this, bytes, off, FALSE)

\* Free, called on a new object.
Free(f, p) == Mapped!Free(f, p)

\* Truncate, called on a new object, which then holds the head it has written.
HeadRead(r, o) == [r EXCEPT !.obj = LoadPageHead(r.f, Object(o.page))]

Truncate(f, o, n) == HeadRead(Mapped!Truncate(f, o, n), o)
=============================================================================
