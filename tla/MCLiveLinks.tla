------------------------------ MODULE MCLiveLinks ------------------------------
(* A file whose names fit its record, one with a resident list, and lists in  *)
(* streams: of one extent, of three discovered one after the other, cut in    *)
(* the middle of an entry, with a gap nothing describes, describing only what is  *)
(* known, and with an extent that lies over another.                          *)
EXTENDS LiveLinks
CONSTANTS a, b, c
MCLinks == {a, b, c}
Name(r, i, l) == [rec |-> r, id |-> i, link |-> l, dos |-> FALSE]
Ext(r, i, v, l, n) == [rec |-> r, id |-> i, vcn |-> v, lcn |-> l, len |-> n]
Two == {Name(0, 1, a), Name(1, 2, b)}
NameOf(r, i) == Entry("name", <<r, 1>>, i, 0)
ListOf(r, i, v) == Entry("list", <<r, 1>>, i, v)
Named(r, i) == Entry("data", <<r, 1>>, i, 0)
File(names, kind, list, extents) ==
  [live |-> TRUE, names |-> names, kind |-> kind, list |-> list, extents |-> extents]
Three == {Ext(0, 5, 0, 7, 1), Ext(1, 6, 1, 3, 1), Ext(2, 7, 2, 5, 1)}
MCLayouts ==
  { File({Name(0, 1, a), [Name(0, 2, b) EXCEPT !.dos = TRUE]}, "missing", <<>>, {}),
    File(Two, "resident", <<NameOf(0, 1), NameOf(1, 2)>>, {}),
    File(Two, "stream", <<NameOf(0, 1), NameOf(1, 2), Named(1, 4), Junk>>, {Ext(0, 5, 0, 3, 2)}),
    File(Two, "stream", <<ListOf(0, 5, 0), ListOf(1, 6, 1), ListOf(2, 7, 2), NameOf(0, 1), NameOf(1, 2)>>, Three),
    File(Two, "stream", <<ListOf(1, 6, 2), NameOf(0, 1), NameOf(1, 2), Named(1, 4), Junk>>,
         {Ext(0, 5, 0, 5, 2), Ext(1, 6, 2, 3, 1)}),
    File(Two, "stream", <<ListOf(0, 5, 0), ListOf(2, 7, 2), NameOf(0, 1), NameOf(1, 2)>>, Three),
    File(Two, "stream", <<ListOf(0, 5, 0), NameOf(0, 1), NameOf(1, 2)>>,
         {Ext(0, 5, 0, 7, 1), Ext(1, 6, 1, 3, 1)}),
    File(Two, "stream", <<ListOf(1, 6, 1), NameOf(0, 1), NameOf(1, 2)>>,
         {Ext(0, 5, 0, 3, 1), Ext(1, 6, 1, 3, 1)}) }
================================================================================
