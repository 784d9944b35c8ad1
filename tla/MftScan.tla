-------------------------------- MODULE MftScan --------------------------------
(***************************************************************************)
(* The scan of a volume's file records while the file system changes them: *)
(* a reader thread that feeds chunks to the parser through a pool of       *)
(* buffers, and the second pass over the objects whose names may live in   *)
(* extension records, from the records kept in memory, from the disk again *)
(* or from the live file system.                                           *)
(*                                                                         *)
(* A chunk is one record here: within a chunk the records are parsed in    *)
(* parallel and appended in order.  A name stands for a directory and a    *)
(* name in it.  A raw read sees a record as the file system has it at that *)
(* moment, or torn.  File references are <<slot, sequence value>>.         *)
(***************************************************************************)
EXTENDS Naturals, Sequences, FiniteSets

CONSTANTS
  Slots,       \* number of file records
  Names,
  InitialDisks,\* what the volume holds when the scan begins
  Room,        \* names a base record has room for
  MaxSeq,      \* bound on the sequence values
  MaxIds,      \* bound on the attribute ids of one record
  MaxChanges,  \* bound on the changes the file system makes
  Buffers,     \* PIPELINE_BUFFERS
  ArenaMax     \* DEFERRED_RECORD_ARENA_MAX_BYTES, in records

ASSUME ScanAssumption ==
  /\ {Slots, Room, MaxSeq, MaxIds, Buffers} \subseteq Nat \ {0}
  /\ {MaxChanges, ArenaMax} \subseteq Nat

Slot == 1..Slots
Refs == Slot \X (1..MaxSeq)
None == <<0, 0>>

VARIABLES
  disk,     \* the file records
  changes,
  held,     \* the sets of links each object had since the scan began
  stop,     \* the owner asked the scan to stop
  fault,    \* a read failed, a record was torn or its object is another one's
  io,       \* the reader: [at, next]
  full, free,  \* buffers filled and empty
  st,       \* the parser: where it is
  got,      \* chunks received
  err,      \* a chunk was an error, or a record corrupt
  rows,     \* the index built: <<reference, name>>
  cache,    \* extension records kept, by slot
  arena,    \* records kept
  todo,     \* objects deferred: [ref, rec]
  work,     \* the object being resolved: [at, rec, left, ids, names]
  out

fsVars == <<disk, changes, held>>
pipeVars == <<io, full, free>>
buildVars == <<rows, cache, arena, todo>>
vars == <<fsVars, stop, fault, pipeVars, st, got, err, buildVars, work, out>>

\* A record: its sequence value, the base it extends, its name attributes, its
\* attribute list (resident, in a stream of its own, or none) and the next id.
Free(seq) == [seq |-> seq, used |-> FALSE, base |-> None, names |-> {},
              list |-> "none", entries |-> {}, next |-> 1]

NoRec == Free(0)

NoWork == [at |-> "idle", rec |-> NoRec, left |-> {}, ids |-> {}, names |-> {}]

RefOf(d, s) == <<s, d[s].seq>>

\* The records of an object, the entries that name its links, and its links.
Parts(d, o) == {s \in Slot : d[s].used /\ (RefOf(d, s) = o \/ d[s].base = o)}
Entries(d, o) ==
  UNION {{[at |-> RefOf(d, s), id |-> a.id] : a \in d[s].names} : s \in Parts(d, o)}
Links(d, o) == UNION {{a.name : a \in d[s].names} : s \in Parts(d, o)}

Exists(d, o) == d[o[1]].used /\ d[o[1]].seq = o[2] /\ d[o[1]].base = None
LinksOf(d, o) == IF Exists(d, o) THEN Links(d, o) ELSE {}

\* What the file system keeps true of its records: an attribute's id is its own in
\* its record, an extension's base exists, an object with extensions has a list,
\* and a resident list is right.
FileRecord ==
  [seq : 1..MaxSeq, used : BOOLEAN, base : Refs \cup {None},
   names : SUBSET [id : Nat, name : Names], list : {"none", "resident", "stream"},
   entries : SUBSET [at : Refs, id : Nat], next : Nat]

RecordSound(r) ==
  /\ \A a, b \in r.names : a.id < r.next /\ (a.id = b.id => a = b)
  /\ ~r.used => r.names = {} /\ r.base = None
  /\ ~r.used \/ r.base # None => r.list = "none"

WellFormed(d) ==
  /\ d \in [Slot -> FileRecord]
  /\ \A s \in Slot :
       /\ RecordSound(d[s])
       /\ d[s].base # None => Exists(d, d[s].base) /\ d[d[s].base[1]].list # "none"
       /\ d[s].list = "resident" => d[s].entries = Entries(d, RefOf(d, s))

ASSUME DisksAssumption == \A d \in InitialDisks : WellFormed(d)

Init ==
  /\ disk \in InitialDisks /\ changes = 0
  /\ held = [o \in Refs |-> {LinksOf(disk, o)}]
  /\ stop = FALSE /\ fault = FALSE
  /\ io = [at |-> "off", next |-> 1] /\ full = <<>> /\ free = Buffers
  /\ st = "layout" /\ got = 0 /\ err = FALSE
  /\ rows = {} /\ cache = [s \in Slot |-> NoRec] /\ arena = 0 /\ todo = <<>>
  /\ work = NoWork /\ out = "running"

----------------------------------------------------------------------------
(***************************************************************************)
(* The file system: each change is atomic.                                 *)
(***************************************************************************)
\* A resident list in the base says where every name is.
Listed(d, o) ==
  IF d[o[1]].list = "resident" THEN [d EXCEPT ![o[1]].entries = Entries(d, o)] ELSE d

Change(d) ==
  /\ out = "running" /\ changes < MaxChanges
  /\ disk' = d /\ changes' = changes + 1
  /\ held' = [o \in Refs |-> held[o] \cup {LinksOf(d, o)}]
  /\ UNCHANGED <<stop, fault, pipeVars, st, got, err, buildVars, work, out>>

Unused(n) == \A s \in Slot, a \in UNION {disk[t].names : t \in Slot} : a.name # n

With(d, s, n) ==
  [d EXCEPT ![s].names = @ \cup {[id |-> d[s].next, name |-> n]}, ![s].next = @ + 1]

Create(s, n) ==
  /\ ~disk[s].used /\ Unused(n)
  /\ Change(With([disk EXCEPT ![s].used = TRUE], s, n))

\* A renamed link is a new attribute, in the same record.
Rename(s, a, n) ==
  LET o == IF disk[s].base = None THEN RefOf(disk, s) ELSE disk[s].base IN
  /\ disk[s].used /\ a \in disk[s].names /\ Unused(n) /\ disk[s].next <= MaxIds
  /\ Change(Listed(With([disk EXCEPT ![s].names = @ \ {a}], s, n), o))

\* The base's names overflow into an extension record, and a list appears.
Overflow(s, e, n, kind) ==
  LET o == RefOf(disk, s) IN
  /\ disk[s].used /\ disk[s].base = None /\ Cardinality(disk[s].names) >= Room
  /\ ~disk[e].used /\ Unused(n)
  /\ Change(Listed(With([disk EXCEPT ![e].used = TRUE, ![e].base = o,
                           ![s].list = IF @ = "none" THEN kind ELSE @], e, n), o))

\* An extension without names is freed, and the object with its last link.
Unlink(s, a) ==
  LET o == IF disk[s].base = None THEN RefOf(disk, s) ELSE disk[s].base
      d == [disk EXCEPT ![s].names = @ \ {a}]
      gone == IF Links(d, o) = {} THEN Parts(d, o)
              ELSE {t \in Parts(d, o) : t # o[1] /\ d[t].names = {}} IN
  /\ disk[s].used /\ a \in disk[s].names
  /\ \A t \in gone : disk[t].seq < MaxSeq
  /\ LET f == [t \in Slot |-> IF t \in gone THEN Free(d[t].seq + 1) ELSE d[t]]
     IN Change(IF o[1] \in gone THEN f ELSE Listed(f, o))

FileSystem ==
  \/ \E s \in Slot, n \in Names : Create(s, n)
  \/ \E s \in Slot : \E a \in disk[s].names, n \in Names : Rename(s, a, n)
  \/ \E s, e \in Slot, n \in Names, k \in {"resident", "stream"} : Overflow(s, e, n, k)
  \/ \E s \in Slot : \E a \in disk[s].names : Unlink(s, a)

Stop ==
  /\ out = "running" /\ ~stop
  /\ stop' = TRUE
  /\ UNCHANGED <<fsVars, fault, pipeVars, st, got, err, buildVars, work, out>>

----------------------------------------------------------------------------
(***************************************************************************)
(* The reader thread.                                                      *)
(***************************************************************************)
End(result) == out' = result /\ st' = "done"

\* mft_layout, plan_chunks; then the thread, or inline reads when it cannot
\* start.
Layout ==
  /\ st = "layout"
  /\ \/ /\ ~stop /\ st' = "read" /\ io' \in {[io EXCEPT !.at = "read"], [io EXCEPT !.at = "inline"]}
        /\ UNCHANGED <<out, fault>>
     \/ stop /\ End("cancelled") /\ UNCHANGED <<io, fault>>
     \/ ~stop /\ fault' = TRUE /\ End("failed") /\ UNCHANGED io
  /\ UNCHANGED <<fsVars, stop, full, free, got, err, buildVars, work>>

\* A buffer is filled with the next chunk and sent.
Read ==
  /\ io.at = "read" /\ ~stop /\ free > 0 /\ io.next <= Slots
  /\ full' = Append(full, [slot |-> io.next, rec |-> disk[io.next]])
  /\ free' = free - 1 /\ io' = [io EXCEPT !.next = @ + 1]
  /\ UNCHANGED <<fsVars, stop, fault, st, got, err, buildVars, work, out>>

\* An error is sent in a chunk's place and ends the thread.
ReadError ==
  /\ io.at = "read" /\ ~stop /\ free > 0 /\ io.next <= Slots
  /\ full' = Append(full, [slot |-> 0, rec |-> Free(0)])
  /\ io' = [io EXCEPT !.at = "gone"] /\ fault' = TRUE
  /\ UNCHANGED <<fsVars, stop, free, st, got, err, buildVars, work, out>>

\* Mutant: the parser joins the thread with its own channel ends still open.
ReaderEndsDeaf ==
  /\ io.at = "read"
  /\ io.next > Slots \/ (stop /\ free > 0)
  /\ io' = [io EXCEPT !.at = "gone"]
  /\ UNCHANGED <<fsVars, stop, fault, full, free, st, got, err, buildVars, work, out>>

\* The thread ends: all read, a stop seen, or the parser's ends dropped.  It
\* sees a stop only before and after it waited for a buffer.
ReaderEnds ==
  /\ io.at = "read"
  /\ io.next > Slots \/ (stop /\ free > 0) \/ st = "join"
  /\ io' = [io EXCEPT !.at = "gone"]
  /\ UNCHANGED <<fsVars, stop, fault, full, free, st, got, err, buildVars, work, out>>

----------------------------------------------------------------------------
(***************************************************************************)
(* The parser.                                                             *)
(***************************************************************************)
\* Mutant: the arena has no bound.
FitsAlways == TRUE

\* try_push_bounded: a record that does not fit is only remembered by number.
Fits == arena < ArenaMax

\* Mutant: the objects deferred last are resolved first.
DeferFirst(o) == todo' = <<o>> \o todo

Defer(o) == todo' = Append(todo, o)

Rows(o, names) == {<<o, n>> : n \in names}

\* parse_subrange, append_batches: free records are skipped, extensions kept,
\* objects with an attribute list deferred whole, the others named.
Parse(s, r) ==
  /\ \/ /\ ~r.used
        /\ UNCHANGED buildVars
     \/ /\ r.used /\ r.base # None
        /\ IF r.names # {} /\ Fits
           THEN cache' = [cache EXCEPT ![s] = r] /\ arena' = arena + 1
           ELSE UNCHANGED <<cache, arena>>
        /\ UNCHANGED <<rows, todo>>
     \/ /\ r.used /\ r.base = None /\ r.list # "none"
        /\ Defer([ref |-> <<s, r.seq>>, rec |-> IF Fits THEN r ELSE NoRec])
        /\ arena' = IF Fits THEN arena + 1 ELSE arena
        /\ UNCHANGED <<rows, cache>>
     \/ /\ r.used /\ r.base = None /\ r.list = "none"
        /\ rows' = rows \cup Rows(<<s, r.seq>>, {a.name : a \in r.names})
        /\ UNCHANGED <<cache, arena, todo>>

\* A torn record fails the scan, once all is read.
TakeRecord(s, r) ==
  \/ Parse(s, r) /\ UNCHANGED <<err, fault>>
  \/ r.used /\ err' = TRUE /\ fault' = TRUE /\ UNCHANGED buildVars

\* A chunk is parsed and its buffer goes back.
Receive ==
  /\ st = "read" /\ ~stop /\ got < Slots
  /\ full # <<>> /\ Head(full).slot # 0
  /\ full' = Tail(full) /\ free' = free + 1 /\ got' = got + 1
  /\ TakeRecord(Head(full).slot, Head(full).rec)
  /\ UNCHANGED <<fsVars, stop, io, st, work, out>>

\* The same without the thread; an error ends the scan at once.
ReadInline ==
  /\ st = "read" /\ io.at = "inline" /\ ~stop /\ got < Slots
  /\ \/ TakeRecord(got + 1, disk[got + 1]) /\ got' = got + 1 /\ UNCHANGED <<st, out>>
     \/ fault' = TRUE /\ End("failed") /\ UNCHANGED <<got, err, buildVars>>
  /\ UNCHANGED <<fsVars, stop, pipeVars, work>>

\* All received, a stop, an error, or a reader that ended early.
LeaveLoop ==
  /\ st = "read"
  /\ \/ (got = Slots \/ stop) /\ UNCHANGED err
     \/ /\ got < Slots /\ err' = TRUE
        /\ IF full = <<>> THEN io.at = "gone" ELSE Head(full).slot = 0
  /\ st' = "join"
  /\ UNCHANGED <<fsVars, stop, fault, pipeVars, got, buildVars, work, out>>

\* Mutant: an error of the reader is reported though the scan was stopped.
JoinedError ==
  /\ st = "join" /\ io.at # "read"
  /\ IF err THEN End("failed") /\ UNCHANGED fault
     ELSE IF stop THEN End("cancelled") /\ UNCHANGED fault
     ELSE \/ st' = "deferred" /\ UNCHANGED <<out, fault>>
          \/ fault' = TRUE /\ End("failed")
  /\ UNCHANGED <<fsVars, stop, pipeVars, got, err, buildVars, work>>

\* The thread is joined; a stop goes before any error.  The live metadata
\* source may fail to open.
Joined ==
  /\ st = "join" /\ io.at # "read"
  /\ IF stop THEN End("cancelled") /\ UNCHANGED fault
     ELSE IF err THEN End("failed") /\ UNCHANGED fault
     ELSE \/ st' = "deferred" /\ UNCHANGED <<out, fault>>
          \/ todo # <<>> /\ fault' = TRUE /\ End("failed")
  /\ UNCHANGED <<fsVars, stop, pipeVars, got, err, buildVars, work>>

----------------------------------------------------------------------------
(***************************************************************************)
(* The deferred objects, one after the other.                              *)
(***************************************************************************)
Object == Head(todo).ref

Resolving(at) == st = "deferred" /\ todo # <<>> /\ work.at = at

Quit == End("cancelled") /\ UNCHANGED <<fault, rows, todo, work>>

Fail == fault' = TRUE /\ End("failed") /\ UNCHANGED <<rows, todo, work>>

Next1(w) == work' = w /\ UNCHANGED <<st, out, fault, rows, todo>>

\* The object is done; the next one is taken.
Done(names) ==
  /\ rows' = rows \cup Rows(Object, names)
  /\ todo' = Tail(todo) /\ work' = NoWork
  /\ UNCHANGED <<st, out, fault>>

Kept == UNCHANGED <<fsVars, stop, pipeVars, got, err, cache, arena>>

\* Its record, from the arena or from the disk again.  Another object's record
\* is an error; an unreadable one is fine only if the object is gone.
TakeBase ==
  /\ Resolving("idle")
  /\ \/ stop /\ Quit
     \/ /\ ~stop
        /\ LET r == IF Head(todo).rec # NoRec THEN Head(todo).rec ELSE disk[Object[1]]
           IN IF r.seq = Object[2] THEN Next1([NoWork EXCEPT !.at = "list", !.rec = r])
              ELSE Fail
     \/ ~stop /\ Head(todo).rec = NoRec /\ Next1([NoWork EXCEPT !.at = "unread"])
  /\ Kept

Unread ==
  /\ Resolving("unread")
  /\ \/ stop /\ Quit
     \/ ~stop /\ ~Exists(disk, Object) /\ Done({})
     \/ ~stop /\ Fail
  /\ Kept

\* load_attribute_list: the entries in the record, or those of the stream, which
\* are read only now.  A stream that is not the object's any more does not parse.
TakeList ==
  /\ Resolving("list")
  /\ \/ stop /\ Quit
     \/ ~stop /\ Next1([work EXCEPT !.at = "live"])
     \/ /\ ~stop
        /\ \/ /\ work.rec.list = "resident"
              /\ Next1([work EXCEPT !.at = "names", !.left = work.rec.entries, !.ids = work.rec.entries])
           \/ /\ work.rec.list = "stream" /\ Exists(disk, Object)
              /\ Next1([work EXCEPT !.at = "names", !.left = Entries(disk, Object), !.ids = Entries(disk, Object)])
           \/ /\ work.rec.list = "none" /\ Next1([work EXCEPT !.at = "live"])
  /\ Kept

\* Mutant: whatever record is in the slot is taken for the object's.
BelongsAny(r, e) == TRUE

\* file_matches_reference, extension_belongs_to.
Belongs(r, e) == r.seq = e.at[2] /\ r.base = Object

\* resolve_file_name_entry: in the base itself, a kept extension, or the disk.
NamesOf(e) ==
  LET r == IF e.at = Object THEN work.rec
           ELSE IF cache[e.at[1]] # NoRec THEN cache[e.at[1]] ELSE disk[e.at[1]]
  IN IF e.at = Object \/ Belongs(r, e) THEN {a.name : a \in {x \in r.names : x.id = e.id}} ELSE {}

\* An entry that cannot be resolved, or read, gives the whole set up.
TakeName ==
  /\ Resolving("names") /\ work.left # {}
  /\ \/ stop /\ Quit
     \/ ~stop /\ \E e \in work.left :
          \/ NamesOf(e) # {} /\ Next1([work EXCEPT !.left = @ \ {e}, !.names = @ \cup NamesOf(e)])
          \/ /\ NamesOf(e) = {} \/ e.at # Object
             /\ Next1([work EXCEPT !.at = "live"])
  /\ Kept

\* Every name of the base is listed and no link occurs twice.
TakeNames ==
  /\ Resolving("names") /\ work.left = {}
  /\ \/ stop /\ Quit
     \/ ~stop /\ IF /\ work.names # {}
                    /\ {[at |-> Object, id |-> a.id] : a \in work.rec.names} \subseteq work.ids
                    /\ Cardinality(work.names) = Cardinality(work.ids)
                 THEN Done(work.names) ELSE Next1([work EXCEPT !.at = "live"])
  /\ Kept

\* The live link set of exactly this object; it may not be available.
AskLive ==
  /\ Resolving("live")
  /\ \/ stop /\ Quit
     \/ ~stop /\ Done(LinksOf(disk, Object))
     \/ ~stop /\ Fail
  /\ Kept

Build ==
  /\ st = "deferred" /\ todo = <<>>
  /\ \/ stop /\ End("cancelled") /\ UNCHANGED fault
     \/ ~stop /\ End("complete") /\ UNCHANGED fault
     \/ ~stop /\ fault' = TRUE /\ End("failed")
  /\ UNCHANGED <<rows, todo, work>> /\ Kept

Finished == st = "done" /\ UNCHANGED vars

Reader == Read \/ ReadError \/ ReaderEnds

Scanner ==
  \/ Layout \/ Receive \/ ReadInline \/ LeaveLoop \/ Joined
  \/ TakeBase \/ Unread \/ TakeList \/ TakeName \/ TakeNames \/ AskLive \/ Build

Next == FileSystem \/ Stop \/ Reader \/ Scanner \/ Finished

\* Both threads are scheduled; reads and waits of the code have an end.
Spec == Init /\ [][Next]_vars /\ WF_vars(Reader) /\ WF_vars(Scanner)

----------------------------------------------------------------------------
(***************************************************************************)
(* Properties                                                              *)
(***************************************************************************)
\* Variables stay in their domains; no buffer is lost or duplicated, chunks
\* wait in order and the arena stays within its bound.
TypeOK ==
  /\ st \in {"layout", "read", "join", "deferred", "done"}
  /\ out \in {"running", "complete", "cancelled", "failed"}
  /\ free + Cardinality({i \in DOMAIN full : full[i].slot # 0}) = Buffers
  /\ \A i \in DOMAIN full : full[i].slot \in {0, got + i}
  /\ Cardinality({s \in Slot : cache[s] # NoRec}) <= arena /\ arena <= ArenaMax
  /\ rows \subseteq Refs \X Names

\* The index a scan returns gives every object a set of links it had at one
\* moment of the scan, though its records, its list and its extensions were
\* read at different moments and may have become another object's in between;
\* an object nobody touched has exactly its links.  This is what the journal's
\* replay builds on.
LinkSetsHeld ==
  out = "complete" => \A o \in Refs : {r[2] : r \in {x \in rows : x[1] = o}} \in held[o]

\* A scan that is stopped ends as cancelled: it is an error only when a read, a
\* record or a query failed.
StopIsNoFailure == out = "failed" => fault

\* The threads never wait for each other for ever: the scan ends, and so does
\* its reader.
ScanEnds == <>(out # "running" /\ io.at # "read")

\* The pipeline delivers what a sequential scan would: every record once, in
\* order, then every deferred object in order, and an index only after all.
Sequential == INSTANCE ScanContract WITH
  Records <- Slots, seen <- got, answer <- out,
  waiting <- [i \in DOMAIN todo |-> todo[i].ref]
ScansInOrder == Sequential!Contract

\* Whatever happened during it, a scan's result is what was there, or says why not.
ScanIsFaithful == TypeOK /\ LinkSetsHeld /\ StopIsNoFailure
==============================================================================
